----------------------------- MODULE SdJwt_proof -----------------------------
(***************************************************************************)
(* For any tree of claims, any issuers, verifiers and numbers of sessions: *)
(* a binding is only accepted in the session it was made for, and in what  *)
(* a verifier accepts no claim takes the place of another.                 *)
(***************************************************************************)
EXTENDS SdJwt, FiniteSetTheorems, WellFoundedInduction, TLAPS

(* The nonces are the numbers of sessions that have begun.                 *)
SessionInv ==
  /\ sessions \in Nat
  /\ nonce \in [Verifiers -> Nat]
  /\ \A v \in Verifiers : nonce[v] <= sessions

(* A binding has the nonce of a session that had begun when it was made,   *)
(* so a verifier whose nonce it has began no session since.                *)
BindingInv ==
  presentation # None /\ presentation.binding # None =>
    LET b == presentation.binding
    IN  /\ b.nonce \in Nat /\ b.nonce <= sessions
        /\ \A v \in Verifiers : b.nonce = nonce[v] => b.made[v] = nonce[v]

Inv == SessionInv /\ BindingInv

(* What the holder may sign at a moment has these properties then.         *)
LEMMA BindingsAreCurrent ==
  ASSUME SessionInv, NEW b \in Bindings, b # None
  PROVE  /\ b.nonce \in Nat /\ b.nonce <= sessions
         /\ \A v \in Verifiers : b.nonce = nonce[v] => b.made[v] = nonce[v]
<1>1. b \in [key : sdjwt.keys, nonce : {nonce[v] : v \in Verifiers} \ {0}, aud : Verifiers, made : {nonce}]
  BY DEF Bindings
<1>2. b.nonce \in {nonce[v] : v \in Verifiers} /\ b.made = nonce
  BY <1>1
<1>3. PICK v \in Verifiers : b.nonce = nonce[v]
  BY <1>2
<1> QED BY <1>2, <1>3 DEF SessionInv

LEMMA InitInv == Init => Inv
BY DEF Init, Inv, SessionInv, BindingInv

LEMMA NextInv == Inv /\ [Next]_vars => Inv'
<1> SUFFICES ASSUME Inv, [Next]_vars PROVE Inv'
  OBVIOUS
<1>1. ASSUME NEW opts \in IssuerOptions, Issue(opts) \/ IssueCredential(opts) PROVE Inv'
  BY <1>1 DEF Issue, IssueCredential, Inv, SessionInv, BindingInv
<1>2. ASSUME NEW s \in OtherSDJWTs, IssueElsewhere(s) PROVE Inv'
  BY <1>2 DEF IssueElsewhere, Inv, SessionInv, BindingInv
<1>3. CASE Parse
  BY <1>3 DEF Parse, Inv, SessionInv, BindingInv
<1>4. ASSUME NEW v \in Verifiers, StartSession(v) PROVE Inv'
  <2>1. sessions' = sessions + 1 /\ nonce' = [nonce EXCEPT ![v] = sessions + 1] /\ presentation' = presentation
    BY <1>4 DEF StartSession
  <2>2. SessionInv'
    BY <2>1 DEF Inv, SessionInv
  <2>3. BindingInv'
    <3> SUFFICES ASSUME presentation # None, presentation.binding # None, NEW w \in Verifiers
                 PROVE  LET b == presentation.binding
                        IN  /\ b.nonce \in Nat /\ b.nonce <= sessions'
                            /\ b.nonce = nonce'[w] => b.made[w] = nonce'[w]
      BY <2>1, <2>2 DEF BindingInv, Inv, SessionInv
    <3>1. presentation.binding.nonce \in Nat /\ presentation.binding.nonce <= sessions
      BY DEF Inv, BindingInv
    <3>2. presentation.binding.nonce # nonce'[v]
      BY <2>1, <3>1 DEF Inv, SessionInv
    <3> QED BY <2>1, <3>1, <3>2 DEF Inv, SessionInv, BindingInv
  <2> QED BY <2>2, <2>3 DEF Inv
<1>5. ASSUME NEW v \in Verifiers, Verify(v) PROVE Inv'
  BY <1>5 DEF Verify, Inv, SessionInv, BindingInv
<1>6. ASSUME NEW ds \in SUBSET Nodes, NEW b \in Bindings,
             (\E twice \in BOOLEAN : CreatePresentation(ds, twice, b)) \/ MarshalWithDisclosure(ds, b)
      PROVE  Inv'
  <2>1. presentation'.binding = b /\ nonce' = nonce /\ sessions' = sessions
    BY <1>6 DEF CreatePresentation, MarshalWithDisclosure, Combined
  <2>2. SessionInv'
    BY <2>1 DEF Inv, SessionInv
  <2>3. BindingInv'
    BY <2>1, BindingsAreCurrent DEF Inv, BindingInv
  <2> QED BY <2>2, <2>3 DEF Inv
<1>7. CASE Tick
  BY <1>7 DEF Tick, Inv, SessionInv, BindingInv
<1>8. CASE UNCHANGED vars
  BY <1>8 DEF vars, Inv, SessionInv, BindingInv
<1> QED BY <1>1, <1>2, <1>3, <1>4, <1>5, <1>6, <1>7, <1>8 DEF Next

(* A verifier that expects a nonce accepts a binding only in a             *)
(* presentation made for it after its session began, with the confirmed    *)
(* key, however late, often or to whomever presentations are delivered.    *)
THEOREM AlwaysBoundToSession == Spec => BoundToSession
<1> DEFINE Bound ==
      last' # last /\ last'.ok =>
        LET p == presentation
        IN  /\ Policy[last'.v].required => p.binding # None
            /\ p.binding # None => p.binding.key = sdjwt.cnf
            /\ p.binding # None /\ Policy[last'.v].expects =>
                 p.binding.made[last'.v] = nonce[last'.v] /\ p.binding.aud = last'.v
<1>1. Inv /\ [Next]_vars => [Bound]_vars
  <2> SUFFICES ASSUME Inv, [Next]_vars, last' # last PROVE Bound
    BY DEF vars
  <2>1. PICK v \in Verifiers : Verify(v)
    BY DEF Next, vars, Issue, IssueCredential, IssueElsewhere, Parse, StartSession, Tick,
           CreatePresentation, MarshalWithDisclosure
  <2>2. presentation # None /\ last'.v = v /\ last'.ok = Accepts(v, presentation)
    BY <2>1 DEF Verify
  <2>3. last'.ok => HolderVerified(v, presentation)
    BY <2>2 DEF Accepts
  <2> QED BY <2>2, <2>3 DEF HolderVerified, VerifyHolderBindingJWT, Inv, BindingInv
<1> QED BY <1>1, InitInv, NextInv, PTL DEF Spec, BoundToSession

-----------------------------------------------------------------------------
(* The SD-JWT is well formed and does not change under a presentation; a   *)
(* presentation that was accepted passed VerifyDisclosures.                *)
AcceptedInv ==
  /\ sdjwt # None => IsSDJWT(sdjwt)
  /\ presentation # None => sdjwt # None
  /\ last # None /\ last.ok =>
       presentation # None /\ VerifyDisclosures(sdjwt, presentation.disclosures)

(* What issuer.New makes is well formed, whatever the options.             *)
LEMMA NewIsSDJWT ==
  ASSUME NEW opts
  PROVE  IsSDJWT(New(opts))
<1> DEFINE clear == [m \in Containers |-> {n \in Nodes : Parent[n] = m} \ Hidden(opts)]
           sd == [m \in Containers |-> {n \in Hidden(opts) : Parent[n] = m}
                                         \union {Decoy[l] : l \in DecoysAt(opts) \intersect {m}}]
<1>1. New(opts).clear = clear /\ New(opts).sd = sd
  BY DEF New
<1>2. ASSUME NEW m \in Containers
      PROVE  Kind[m] = "object" => \A n1, n2 \in clear[m] : n1 # n2 => Name[n1] # Name[n2]
  BY ClaimsAssumption
<1>3. ASSUME NEW m \in Containers, NEW l \in Containers
      PROVE  /\ l # m => clear[l] \intersect clear[m] = {}
             /\ clear[l] \intersect sd[m] \subseteq Decoys
  <2>1. l # m => clear[l] \intersect clear[m] = {}
    OBVIOUS
  <2>2. clear[l] \intersect sd[m] \subseteq {Decoy[k] : k \in DecoysAt(opts)}
    OBVIOUS
  <2>3. {Decoy[k] : k \in DecoysAt(opts)} \subseteq Decoys
    BY DEF DecoysAt, Decoys
  <2> QED BY <2>1, <2>2, <2>3
<1> HIDE DEF clear, sd
<1> QED BY <1>1, <1>2, <1>3 DEF IsSDJWT

LEMMA InitAccepted == Init => AcceptedInv
BY DEF Init, AcceptedInv

LEMMA NextAccepted == AcceptedInv /\ [Next]_vars => AcceptedInv'
<1> SUFFICES ASSUME AcceptedInv, [Next]_vars PROVE AcceptedInv'
  OBVIOUS
<1>1. ASSUME sdjwt = None, IsSDJWT(sdjwt'), UNCHANGED <<presentation, last>> PROVE AcceptedInv'
  BY <1>1 DEF AcceptedInv
<1>2. ASSUME NEW opts \in IssuerOptions, Issue(opts) \/ IssueCredential(opts) PROVE AcceptedInv'
  BY <1>1, <1>2, NewIsSDJWT DEF Issue, IssueCredential, MakeSDJWT
<1>3. ASSUME NEW s \in OtherSDJWTs, IssueElsewhere(s) PROVE AcceptedInv'
  BY <1>1, <1>3, ClaimsAssumption DEF IssueElsewhere
<1>4. ASSUME UNCHANGED <<sdjwt, presentation, last>> PROVE AcceptedInv'
  BY <1>4 DEF AcceptedInv
<1>5. ASSUME NEW v \in Verifiers, Verify(v) PROVE AcceptedInv'
  <2>1. presentation # None /\ last'.ok = Accepts(v, presentation)
        /\ sdjwt' = sdjwt /\ presentation' = presentation
    BY <1>5 DEF Verify
  <2>2. last'.ok => VerifyDisclosures(sdjwt, presentation.disclosures)
    BY <2>1 DEF Accepts
  <2> QED BY <2>1, <2>2 DEF AcceptedInv
<1>6. ASSUME sdjwt # None, NEW ds \in SUBSET Nodes, NEW b \in Bindings,
             (\E twice \in BOOLEAN : CreatePresentation(ds, twice, b)) \/ MarshalWithDisclosure(ds, b)
      PROVE  AcceptedInv'
  BY <1>6 DEF AcceptedInv, CreatePresentation, MarshalWithDisclosure
<1> QED BY <1>2, <1>3, <1>4, <1>5, <1>6 DEF Next, vars, Parse, StartSession, Tick

(* What passes VerifyDisclosures has each claim in one place, under a name *)
(* of its own.                                                             *)
LEMMA VerifiedKeepsItsPlace ==
  ASSUME NEW s, IsSDJWT(s), NEW ds, VerifyDisclosures(s, ds),
         NEW m \in Walked(s, ds)
  PROVE  /\ Kind[m] = "object" =>
              \A n1, n2 \in Held(s, m, ds) : n1 # n2 => Name[n1] # Name[n2]
         /\ \A l \in Walked(s, ds) \ {m} : Held(s, l, ds) \intersect Held(s, m, ds) = {}
<1>1. Walked(s, ds) \subseteq Containers
  BY DEF Walked
<1>2. ds \intersect Decoys = {}
  BY DEF VerifyDisclosures, Parses
<1>3. ASSUME Kind[m] = "object", NEW n1 \in Held(s, m, ds), NEW n2 \in Held(s, m, ds), n1 # n2
      PROVE  Name[n1] # Name[n2]
  <2>1. CASE n1 \in s.clear[m] /\ n2 \in s.clear[m]
    BY <1>1, <1>3, <2>1 DEF IsSDJWT
  <2>2. CASE n1 \in s.sd[m] \intersect ds
    BY <1>3, <2>2 DEF VerifyDisclosures
  <2>3. CASE n2 \in s.sd[m] \intersect ds
    BY <1>3, <2>3 DEF VerifyDisclosures
  <2> QED BY <1>3, <2>1, <2>2, <2>3 DEF Held
<1>4. ASSUME NEW l \in Walked(s, ds) \ {m} PROVE Held(s, l, ds) \intersect Held(s, m, ds) = {}
  <2>1. s.clear[l] \intersect s.clear[m] = {}
    BY <1>1 DEF IsSDJWT
  <2>2. s.sd[l] \intersect s.sd[m] = {}
    BY DEF VerifyDisclosures
  <2>3. s.clear[l] \intersect (s.sd[m] \intersect ds) = {} /\ s.clear[m] \intersect (s.sd[l] \intersect ds) = {}
    BY <1>1, <1>2 DEF IsSDJWT
  <2> QED BY <2>1, <2>2, <2>3 DEF Held
<1> QED BY <1>3, <1>4

(* In what a verifier accepts, whoever made it, the members of an object   *)
(* differ in name and each disclosure has one place.                       *)
THEOREM NoClaimIsEverReplaced == Spec => []NoClaimReplaced
<1>1. AcceptedInv => NoClaimReplaced
  BY VerifiedKeepsItsPlace DEF AcceptedInv, NoClaimReplaced
<1> QED BY <1>1, InitAccepted, NextAccepted, PTL DEF Spec
-----------------------------------------------------------------------------
(***************************************************************************)
(* What follows is about the tree of claims: what is defined by recursion  *)
(* from the payload down, or holds of it step by step, holds everywhere.   *)
(***************************************************************************)

LEMMA LeastNumber ==
  ASSUME NEW S, S \subseteq Nat, S # {}
  PROVE  \E n \in S : \A m \in S : n <= m
<1> DEFINE R == OpToRel(<, Nat)
<1>1. IsWellFoundedOn(R, Nat)
  BY NatLessThanWellFounded
<1>2. \A x, y \in Nat : <<x, y>> \in R <=> x < y
  BY DEF OpToRel
<1> HIDE DEF R
<1>3. PICK n \in S : \A m \in S : <<m, n>> \notin R
  BY <1>1, WFMin
<1>4. ASSUME NEW m \in S PROVE n <= m
  <2>1. m \in Nat /\ n \in Nat
    OBVIOUS
  <2>2. ~(m < n)
    BY <1>2, <1>3, <2>1
  <2> QED BY <2>1, <2>2
<1> QED BY <1>4

(* Induction up to b, over a set of numbers.                               *)
LEMMA UpTo ==
  ASSUME NEW b \in Nat, NEW S, 0 \in S, \A i \in 0..b : i # b /\ i \in S => i + 1 \in S
  PROVE  0..b \subseteq S
<1> DEFINE T == (0..b) \ S
<1> SUFFICES ASSUME T # {} PROVE FALSE
  OBVIOUS
<1>1. T \subseteq Nat
  OBVIOUS
<1>2. PICK t \in T : \A u \in T : t <= u
  <2> HIDE DEF T
  <2> QED BY <1>1, LeastNumber
<1>3. t \in 1..b /\ t - 1 \in 0..b /\ t - 1 # b
  OBVIOUS
<1>4. t - 1 \notin T
  BY <1>2, <1>3
<1>5. t - 1 + 1 \in S /\ t - 1 + 1 = t
  BY <1>3, <1>4
<1> QED BY <1>5

(* A recursion from a root down, where the value at n comes from the one   *)
(* at par[n]: it has a solution.                                           *)
Descends(C, root, par, V, a, G) ==
  \E h \in [C -> V] : h[root] = a /\ \A n \in C \ {root} : h[n] = G[<<n, h[par[n]]>>]

LEMMA Descent ==
  ASSUME NEW C, NEW root \in C, NEW par, NEW K \in Nat, NEW depth \in [C -> 0..K],
         depth[root] = 0,
         \A n \in C \ {root} : par[n] \in C /\ depth[n] = depth[par[n]] + 1,
         NEW V, NEW a \in V, NEW G \in [C \X V -> V]
  PROVE  Descends(C, root, par, V, a, G)
<1> DEFINE Solves(h, i) == /\ h \in [C -> V] /\ h[root] = a
                           /\ \A n \in C \ {root} : depth[n] <= i => h[n] = G[<<n, h[par[n]]>>]
           S == {i \in 0..K : \E h : Solves(h, i)}
<1>1. 0 \in S
  <2>1. Solves([n \in C |-> a], 0)
    <3>1. \A n \in C \ {root} : ~(depth[n] <= 0)
      OBVIOUS
    <3> QED BY <3>1
  <2>2. 0 \in 0..K
    OBVIOUS
  <2> HIDE DEF Solves
  <2> QED BY <2>1, <2>2
<1>2. ASSUME NEW i \in 0..K, i # K, i \in S PROVE i + 1 \in S
  <2>1. PICK h : Solves(h, i)
    BY <1>2
  <2> DEFINE g == [n \in C |-> IF n # root /\ depth[n] = i + 1 THEN G[<<n, h[par[n]]>>] ELSE h[n]]
  <2>2. g \in [C -> V] /\ g[root] = a
    BY <2>1
  <2>3. ASSUME NEW n \in C \ {root}, depth[n] <= i + 1 PROVE g[n] = G[<<n, g[par[n]]>>]
    <3>1. par[n] \in C /\ depth[n] \in Int /\ depth[par[n]] \in Int /\ depth[par[n]] <= i
      BY <2>3
    <3>2. g[par[n]] = h[par[n]]
      BY <3>1
    <3>3. g[n] = G[<<n, h[par[n]]>>]
      <4>1. CASE depth[n] = i + 1
        BY <4>1
      <4>2. CASE depth[n] # i + 1
        <5>1. depth[n] <= i
          BY <2>3, <3>1, <4>2
        <5> QED BY <2>1, <4>2, <5>1
      <4> QED BY <4>1, <4>2
    <3> QED BY <3>2, <3>3
  <2>4. Solves(g, i + 1)
    BY <2>2, <2>3
  <2>5. i + 1 \in 0..K
    BY <1>2
  <2> HIDE DEF Solves, g
  <2> QED BY <2>4, <2>5
<1>3. K \in S
  <2>1. 0..K \subseteq S
    <3> HIDE DEF S
    <3> QED BY <1>1, <1>2, UpTo
  <2> HIDE DEF S
  <2> QED BY <2>1
<1>4. PICK h : Solves(h, K)
  BY <1>3
<1>5. \A n \in C \ {root} : depth[n] <= K
  OBVIOUS
<1> QED BY <1>4, <1>5 DEF Descends

(* The recursion over the tree of claims, and the induction.               *)
LEMMA ClaimsDescend ==
  ASSUME NEW V, NEW a \in V, NEW G \in [Containers \X V -> V]
  PROVE  Descends(Containers, Root, Parent, V, a, G)
<1>1. PICK depth \in [Containers -> 0..Cardinality(Nodes)] :
        depth[Root] = 0 /\ \A n \in Nodes : depth[n] = depth[Parent[n]] + 1
  BY TreeAssumption
<1>2. Cardinality(Nodes) \in Nat
  BY TreeAssumption, FS_CardinalityType
<1>3. Root \in Containers /\ \A n \in Containers \ {Root} : n \in Nodes /\ Parent[n] \in Containers
  BY SdJwtAssumption DEF Containers
<1> QED BY <1>1, <1>2, <1>3, Descent

LEMMA TreeInduction ==
  ASSUME NEW S, Root \in S, \A n \in Nodes : Parent[n] \in S => n \in S
  PROVE  Containers \subseteq S
<1>1. PICK depth \in [Containers -> 0..Cardinality(Nodes)] :
        depth[Root] = 0 /\ \A n \in Nodes : depth[n] = depth[Parent[n]] + 1
  BY TreeAssumption
<1>2. Cardinality(Nodes) \in Nat
  BY TreeAssumption, FS_CardinalityType
<1>3. Root \in Containers /\ Containers = Nodes \union {Root} /\ \A n \in Nodes : Parent[n] \in Containers
  BY SdJwtAssumption DEF Containers
<1> DEFINE K == Cardinality(Nodes)
           A == {i \in 0..K : \A n \in Containers : depth[n] <= i => n \in S}
<1> HIDE DEF K
<1>4. K \in Nat /\ depth \in [Containers -> 0..K]
  BY <1>2 DEF K
<1>5. 0 \in A
  <2>1. ASSUME NEW n \in Nodes PROVE ~(depth[n] <= 0)
    BY <1>1, <1>3, <1>4
  <2> QED BY <1>3, <1>4, <2>1
<1>6. ASSUME NEW i \in 0..K, i # K, i \in A PROVE i + 1 \in A
  <2>1. i + 1 \in 0..K
    BY <1>4, <1>6
  <2>2. ASSUME NEW n \in Nodes, depth[n] <= i + 1 PROVE n \in S
    <3>1. Parent[n] \in Containers /\ depth[Parent[n]] \in Int /\ depth[n] = depth[Parent[n]] + 1
      BY <1>1, <1>3, <1>4
    <3>2. depth[Parent[n]] <= i
      BY <2>2, <3>1
    <3> QED BY <1>6, <3>1, <3>2
  <2> QED BY <1>3, <2>1, <2>2
<1>7. K \in A
  <2> HIDE DEF A
  <2>1. 0..K \subseteq A
    BY <1>4, <1>5, <1>6, UpTo
  <2> QED BY <1>4, <2>1
<1>8. \A n \in Containers : depth[n] <= K
  BY <1>4
<1> QED BY <1>7, <1>8
(* Way, InsideV2 and InsideV5 by their equations.                          *)
LEMMA WayUnfolds ==
  /\ Way(Root) = {}
  /\ \A n \in Nodes : Way(n) = {n} \union Way(Parent[n])
<1> DEFINE V == SUBSET Containers
           G == [x \in Containers \X V |-> {x[1]} \union x[2]]
           At(h, m) == IF m = Root THEN {} ELSE {m} \union h[Parent[m]]
           Q(h) == h = [m \in Containers |-> At(h, m)]
           f == CHOOSE h : Q(h)
<1>1. \A n : Way(n) = f[n]
  BY DEF Way
<1>2. /\ Root \in Containers /\ Root \notin Nodes
      /\ \A n \in Nodes : n \in Containers \ {Root} /\ Parent[n] \in Containers
      /\ \A n \in Containers \ {Root} : n \in Nodes
  BY SdJwtAssumption, TreeAssumption DEF Containers
<1>3. {} \in V /\ G \in [Containers \X V -> V]
  OBVIOUS
<1>4. PICK h \in [Containers -> V] :
        h[Root] = {} /\ \A n \in Containers \ {Root} : h[n] = G[<<n, h[Parent[n]]>>]
  <2>1. Descends(Containers, Root, Parent, V, {}, G)
    <3> HIDE DEF V, G, Q, f
    <3> QED BY <1>3, ClaimsDescend
  <2> HIDE DEF V, G, Q, f
  <2> QED BY <2>1 DEF Descends
<1>5. ASSUME NEW m \in Containers PROVE h[m] = At(h, m)
  BY <1>2, <1>4
<1>6. Q(h)
  <2> HIDE DEF At
  <2> QED BY <1>5
<1>7. Q(f)
  <2> HIDE DEF Q
  <2> QED BY <1>6
<1>8. \A m \in Containers : f[m] = At(f, m)
  <2> HIDE DEF f, At
  <2> QED BY <1>7
<1> HIDE DEF f
<1> QED BY <1>1, <1>2, <1>8

LEMMA InsideV2Unfolds ==
  ASSUME NEW opts
  PROVE  /\ InsideV2(opts)[Root] = "walked"
         /\ \A n \in Nodes :
              InsideV2(opts)[n] = IF InsideV2(opts)[Parent[n]] = "walked" /\ Kind[n] = "object" /\ opts.structured
                                  THEN "walked" ELSE "raw"
<1> DEFINE V == {"walked", "raw"}
           G == [x \in Containers \X V |-> IF x[2] = "walked" /\ Kind[x[1]] = "object" /\ opts.structured
                                           THEN "walked" ELSE "raw"]
           At(h, n) == IF n = Root \/ (h[Parent[n]] = "walked" /\ Kind[n] = "object" /\ opts.structured)
                       THEN "walked" ELSE "raw"
           Q(h) == h = [n \in Containers |-> At(h, n)]
           f == CHOOSE h : Q(h)
<1>1. InsideV2(opts) = f
  BY DEF InsideV2
<1>2. /\ Root \in Containers /\ Root \notin Nodes
      /\ \A n \in Nodes : n \in Containers \ {Root} /\ Parent[n] \in Containers
      /\ \A n \in Containers \ {Root} : n \in Nodes
  BY SdJwtAssumption, TreeAssumption DEF Containers
<1>3. "walked" \in V /\ G \in [Containers \X V -> V]
  OBVIOUS
<1>4. PICK h \in [Containers -> V] :
        h[Root] = "walked" /\ \A n \in Containers \ {Root} : h[n] = G[<<n, h[Parent[n]]>>]
  <2>1. Descends(Containers, Root, Parent, V, "walked", G)
    <3> HIDE DEF V, G, Q, f
    <3> QED BY <1>3, ClaimsDescend
  <2> HIDE DEF V, G, Q, f
  <2> QED BY <2>1 DEF Descends
<1>5. ASSUME NEW m \in Containers PROVE h[m] = At(h, m)
  BY <1>2, <1>4
<1>6. Q(h)
  <2> HIDE DEF At
  <2> QED BY <1>5
<1>7. Q(f)
  <2> HIDE DEF Q
  <2> QED BY <1>6
<1>8. \A m \in Containers : f[m] = At(f, m)
  <2> HIDE DEF f, At
  <2> QED BY <1>7
<1> HIDE DEF f
<1> QED BY <1>1, <1>2, <1>8

LEMMA InsideV5Unfolds ==
  ASSUME NEW opts
  PROVE  /\ InsideV5(opts)[Root] = "walked"
         /\ \A n \in Nodes : InsideV5(opts)[n] = EntersV5(opts, n, InsideV5(opts)[Parent[n]])
<1> DEFINE V == {"walked", "raw", "plain"}
           G == [x \in Containers \X V |-> EntersV5(opts, x[1], x[2])]
           At(h, n) == IF n = Root THEN "walked" ELSE EntersV5(opts, n, h[Parent[n]])
           Q(h) == h = [n \in Containers |-> At(h, n)]
           f == CHOOSE h : Q(h)
<1>1. InsideV5(opts) = f
  BY DEF InsideV5
<1>2. /\ Root \in Containers /\ Root \notin Nodes
      /\ \A n \in Nodes : n \in Containers \ {Root} /\ Parent[n] \in Containers
      /\ \A n \in Containers \ {Root} : n \in Nodes
  BY SdJwtAssumption, TreeAssumption DEF Containers
<1>3. "walked" \in V /\ G \in [Containers \X V -> V]
  BY DEF EntersV5
<1>4. PICK h \in [Containers -> V] :
        h[Root] = "walked" /\ \A n \in Containers \ {Root} : h[n] = G[<<n, h[Parent[n]]>>]
  <2>1. Descends(Containers, Root, Parent, V, "walked", G)
    <3> HIDE DEF V, G, Q, f
    <3> QED BY <1>3, ClaimsDescend
  <2> HIDE DEF V, G, Q, f
  <2> QED BY <2>1 DEF Descends
<1>5. ASSUME NEW m \in Containers PROVE h[m] = At(h, m)
  BY <1>2, <1>4
<1>6. Q(h)
  <2> HIDE DEF At
  <2> QED BY <1>5
<1>7. Q(f)
  <2> HIDE DEF Q
  <2> QED BY <1>6
<1>8. \A m \in Containers : f[m] = At(f, m)
  <2> HIDE DEF f, At
  <2> QED BY <1>7
<1> HIDE DEF f
<1> QED BY <1>1, <1>2, <1>8
-----------------------------------------------------------------------------
(* How the builders of both versions go about the tree: nothing is hidden  *)
(* below what is left as it is, elements of arrays are left as they are,   *)
(* and in a container that is walked, what is neither hidden nor declared  *)
(* non-selectively disclosable is a container that is walked, too.         *)
LEMMA BuilderFacts ==
  ASSUME NEW opts, IsNewOpts(opts)
  PROVE  /\ Hidden(opts) \subseteq Nodes
         /\ Inside(opts)[Root] = "walked"
         /\ \A n \in Nodes : n \in Hidden(opts) => Inside(opts)[Parent[n]] # "raw"
         /\ \A n \in Nodes : Inside(opts)[Parent[n]] = "raw" \/ Kind[Parent[n]] = "array" =>
                               Inside(opts)[n] = "raw"
         /\ \A n \in Nodes : /\ Inside(opts)[Parent[n]] = "walked"
                             /\ n \notin Hidden(opts) /\ n \notin opts.nonSD
                             => Inside(opts)[n] = "walked" /\ Kind[n] # "atom"
<1>1. PICK version, structured, nonSD : version = opts.version /\ structured = opts.structured /\ nonSD = opts.nonSD
  OBVIOUS
<1>2. version \in {2, 5} /\ structured \in BOOLEAN
  BY <1>1 DEF IsNewOpts
<1>3. CASE version = 5
  <2>1. Hidden(opts) = HiddenV5(opts) /\ Inside(opts) = InsideV5(opts)
    BY <1>1, <1>3 DEF Hidden, Inside
  <2>2. PICK in : in = InsideV5(opts)
    OBVIOUS
  <2>3. HiddenV5(opts) = {n \in Nodes : /\ in[Parent[n]] # "raw" /\ n \notin opts.nonSD
                                        /\ Kind[Parent[n]] = "array" \/ HiddenMember(opts, in, n)}
    BY <2>2 DEF HiddenV5
  <2>4. in[Root] = "walked" /\ \A n \in Nodes : in[n] = EntersV5(opts, n, in[Parent[n]])
    BY <2>2, InsideV5Unfolds
  <2>5. ASSUME NEW n \in Nodes, in[Parent[n]] = "raw" \/ Kind[Parent[n]] = "array" PROVE in[n] = "raw"
    BY <2>4, <2>5 DEF EntersV5
  <2>6. ASSUME NEW n \in Nodes, in[Parent[n]] = "walked", n \notin HiddenV5(opts), n \notin opts.nonSD
        PROVE  in[n] = "walked" /\ Kind[n] # "atom"
    <3>1. Kind[Parent[n]] # "array" /\ ~HiddenMember(opts, in, n)
      BY <2>3, <2>6
    <3>2. Kind[n] \in {"atom", "object", "array"}
      BY TreeAssumption DEF Containers
    <3>3. CASE Kind[n] = "atom"
      BY <2>6, <3>1, <3>3 DEF HiddenMember
    <3>4. CASE Kind[n] = "array"
      BY <2>4, <2>6, <3>1, <3>4 DEF EntersV5
    <3>5. CASE Kind[n] = "object"
      <4>1. n \in opts.always \/ (n \notin opts.recursive /\ opts.structured)
        BY <3>1, <3>5 DEF HiddenMember
      <4> QED BY <2>4, <2>6, <3>1, <3>5, <4>1 DEF EntersV5
    <3> QED BY <3>2, <3>3, <3>4, <3>5
  <2> QED BY <2>1, <2>2, <2>3, <2>4, <2>5, <2>6
<1>4. CASE version = 2
  <2>1. Hidden(opts) = HiddenV2(opts) /\ Inside(opts) = InsideV2(opts)
    BY <1>1, <1>4 DEF Hidden, Inside
  <2>2. PICK in : in = InsideV2(opts)
    OBVIOUS
  <2>3. HiddenV2(opts) = {n \in Nodes : in[Parent[n]] = "walked" /\ in[n] = "raw" /\ n \notin opts.nonSD}
    BY <2>2 DEF HiddenV2
  <2>4. /\ in[Root] = "walked"
        /\ \A n \in Nodes : in[n] = IF in[Parent[n]] = "walked" /\ Kind[n] = "object" /\ opts.structured
                                    THEN "walked" ELSE "raw"
    BY <2>2, InsideV2Unfolds
  <2>5. ASSUME NEW n \in Nodes, Kind[Parent[n]] = "array" PROVE in[n] = "raw"
    <3>1. Parent[n] # Root
      BY <2>5, TreeAssumption
    <3>2. Parent[n] \in Nodes
      BY <3>1, SdJwtAssumption DEF Containers
    <3>3. in[Parent[n]] = "raw"
      BY <2>4, <2>5, <3>2
    <3> QED BY <2>4, <3>3
  <2>6. ASSUME NEW n \in Nodes, in[Parent[n]] = "raw" PROVE in[n] = "raw"
    BY <2>4, <2>6
  <2>7. ASSUME NEW n \in Nodes, in[Parent[n]] = "walked", n \notin HiddenV2(opts), n \notin opts.nonSD
        PROVE  in[n] = "walked" /\ Kind[n] # "atom"
    BY <2>3, <2>4, <2>7
  <2> QED BY <2>1, <2>2, <2>3, <2>4, <2>5, <2>6, <2>7
<1> QED BY <1>2, <1>3, <1>4

(* What issuer.New makes, container by container.                          *)
LEMMA NewFacts ==
  ASSUME NEW opts, IsNewOpts(opts)
  PROVE  /\ New(opts).opts = opts /\ New(opts).cnf = opts.cnf /\ New(opts).keys = opts.keys
         /\ New(opts).disclosures = Hidden(opts) \union
              (IF opts.version = 5 THEN {Decoy[m] : m \in DecoysAt(opts)} ELSE {})
         /\ \A m \in Containers :
              /\ New(opts).clear[m] = {n \in Nodes : Parent[n] = m} \ Hidden(opts)
              /\ New(opts).sd[m] \intersect Nodes = {n \in Hidden(opts) : Parent[n] = m}
              /\ New(opts).sd[m] \subseteq Nodes \union Decoys
              /\ \A d \in New(opts).sd[m] : d \notin Nodes => m \in DOMAIN Decoy /\ d = Decoy[m]
<1>1. /\ New(opts).opts = opts /\ New(opts).cnf = opts.cnf /\ New(opts).keys = opts.keys
      /\ New(opts).disclosures = Hidden(opts) \union
              (IF opts.version = 5 THEN {Decoy[m] : m \in DecoysAt(opts)} ELSE {})
      /\ \A m \in Containers :
           /\ New(opts).clear[m] = {n \in Nodes : Parent[n] = m} \ Hidden(opts)
           /\ New(opts).sd[m] = {n \in Hidden(opts) : Parent[n] = m}
                                  \union {Decoy[l] : l \in DecoysAt(opts) \intersect {m}}
  BY DEF New
<1>2. DecoysAt(opts) \subseteq DOMAIN Decoy /\ \A l \in DOMAIN Decoy : Decoy[l] \in Decoys /\ Decoy[l] \notin Nodes
  BY TreeAssumption DEF DecoysAt, Decoys
<1>3. Hidden(opts) \subseteq Nodes
  BY BuilderFacts
<1>4. ASSUME NEW m \in Containers
      PROVE  /\ New(opts).sd[m] \intersect Nodes = {n \in Hidden(opts) : Parent[n] = m}
             /\ New(opts).sd[m] \subseteq Nodes \union Decoys
             /\ \A d \in New(opts).sd[m] : d \notin Nodes => m \in DOMAIN Decoy /\ d = Decoy[m]
  <2>1. PICK h, k : h = {n \in Hidden(opts) : Parent[n] = m} /\ k = {Decoy[l] : l \in DecoysAt(opts) \intersect {m}}
    OBVIOUS
  <2>2. h \subseteq Nodes
    BY <1>3, <2>1
  <2>3. \A d \in k : d = Decoy[m] /\ m \in DOMAIN Decoy /\ d \in Decoys /\ d \notin Nodes
    BY <1>2, <2>1
  <2>4. New(opts).sd[m] = h \union k
    BY <1>1, <2>1
  <2> QED BY <2>1, <2>2, <2>3, <2>4
<1> QED BY <1>1, <1>4
-----------------------------------------------------------------------------
(* Growing a set of claims from the payload, once for each claim there is: *)
(* nothing comes in but by E, and everything that E connects to the        *)
(* payload does.                                                           *)
Layers(E, met) ==
  /\ met \in [0..Cardinality(Nodes) -> SUBSET Containers]
  /\ met[0] = {Root}
  /\ \A k \in 1..Cardinality(Nodes) : met[k] = met[k - 1] \union UNION {E[m] : m \in met[k - 1]}

LEMMA LayersExist ==
  ASSUME NEW E \in [Containers -> SUBSET Containers]
  PROVE  \E met : Layers(E, met)
<1> DEFINE K == Cardinality(Nodes)
           C == 0..K
           V == SUBSET Containers
           par == [k \in C |-> k - 1]
           depth == [k \in C |-> k]
           G == [x \in C \X V |-> x[2] \union UNION {E[m] : m \in x[2]}]
<1>1. K \in Nat
  BY TreeAssumption, FS_CardinalityType
<1> HIDE DEF K
<1>2. {Root} \in V /\ G \in [C \X V -> V]
  <2>1. ASSUME NEW k \in C, NEW T \in V PROVE T \union UNION {E[m] : m \in T} \in V
    OBVIOUS
  <2> QED BY <2>1 DEF Containers
<1>3. 0 \in C /\ depth \in [C -> 0..K] /\ depth[0] = 0
  BY <1>1
<1>4. \A n \in C \ {0} : par[n] \in C /\ depth[n] = depth[par[n]] + 1
  BY <1>1
<1>5. Descends(C, 0, par, V, {Root}, G)
  <2> HIDE DEF C, V, par, depth, G
  <2> QED BY <1>1, <1>2, <1>3, <1>4, Descent
<1>6. PICK h \in [C -> V] : h[0] = {Root} /\ \A n \in C \ {0} : h[n] = G[<<n, h[par[n]]>>]
  <2> HIDE DEF C, V, par, depth, G
  <2> QED BY <1>5 DEF Descends
<1>7. ASSUME NEW k \in 1..K PROVE h[k] = h[k - 1] \union UNION {E[m] : m \in h[k - 1]}
  <2>1. k \in C \ {0} /\ par[k] = k - 1 /\ k - 1 \in C
    BY <1>1
  <2>2. <<k, h[k - 1]>> \in C \X V
    BY <2>1
  <2>3. h[k] = G[<<k, h[k - 1]>>]
    <3> HIDE DEF C, V, par, G
    <3> QED BY <1>6, <2>1
  <2> QED BY <2>2, <2>3
<1> QED BY <1>6, <1>7 DEF Layers, K

LEMMA GrowthStaysIn ==
  ASSUME NEW E \in [Containers -> SUBSET Containers], NEW met, Layers(E, met),
         NEW S, Root \in S, \A m \in Containers : m \in S => E[m] \subseteq S
  PROVE  met[Cardinality(Nodes)] \subseteq S
<1> DEFINE K == Cardinality(Nodes)
           A == {k \in 0..K : met[k] \subseteq S}
<1>1. K \in Nat
  BY TreeAssumption, FS_CardinalityType
<1>2. /\ met \in [0..K -> SUBSET Containers] /\ met[0] = {Root}
      /\ \A k \in 1..K : met[k] = met[k - 1] \union UNION {E[m] : m \in met[k - 1]}
  BY DEF Layers
<1> HIDE DEF K
<1>3. 0 \in A
  BY <1>1, <1>2
<1>4. ASSUME NEW k \in 0..K, k # K, k \in A PROVE k + 1 \in A
  <2>1. k + 1 \in 1..K /\ k + 1 \in 0..K /\ (k + 1) - 1 = k
    BY <1>1, <1>4
  <2>2. met[k + 1] = met[k] \union UNION {E[m] : m \in met[k]}
    BY <1>2, <2>1
  <2>3. met[k] \subseteq S /\ met[k] \subseteq Containers
    BY <1>2, <1>4
  <2>4. met[k + 1] \subseteq S
    BY <2>2, <2>3
  <2> QED BY <2>1, <2>4
<1>5. 0..K \subseteq A
  <2> HIDE DEF A
  <2> QED BY <1>1, <1>3, <1>4, UpTo
<1>6. K \in A
  <2> HIDE DEF A
  <2> QED BY <1>1, <1>5
<1> QED BY <1>6 DEF K

LEMMA GrowthReaches ==
  ASSUME NEW E \in [Containers -> SUBSET Containers], NEW met, Layers(E, met),
         NEW S, S \subseteq Containers,
         \A n \in Nodes : n \in S => Parent[n] \in S /\ n \in E[Parent[n]]
  PROVE  S \subseteq met[Cardinality(Nodes)]
<1> DEFINE K == Cardinality(Nodes)
<1>1. K \in Nat
  BY TreeAssumption, FS_CardinalityType
<1>2. /\ met \in [0..K -> SUBSET Containers] /\ met[0] = {Root}
      /\ \A k \in 1..K : met[k] = met[k - 1] \union UNION {E[m] : m \in met[k - 1]}
  BY DEF Layers
<1>3. PICK depth \in [Containers -> 0..K] :
        depth[Root] = 0 /\ \A n \in Nodes : depth[n] = depth[Parent[n]] + 1
  BY TreeAssumption
<1>4. Root \in Containers /\ \A n \in Nodes : n \in Containers /\ Parent[n] \in Containers
  BY SdJwtAssumption DEF Containers
<1> HIDE DEF K
<1> DEFINE T == {n \in Containers : n \in S => n \in met[depth[n]]}
<1>5. Root \in T
  BY <1>2, <1>3, <1>4
<1>6. ASSUME NEW n \in Nodes, Parent[n] \in T PROVE n \in T
  <2>1. n \in Containers /\ Parent[n] \in Containers
    BY <1>4
  <2>2. SUFFICES ASSUME n \in S PROVE n \in met[depth[n]]
    BY <2>1
  <2>3. Parent[n] \in met[depth[Parent[n]]] /\ n \in E[Parent[n]]
    BY <1>6, <2>2
  <2>4. PICK j : j = depth[Parent[n]]
    OBVIOUS
  <2>5. j \in 0..K /\ depth[n] \in 0..K /\ depth[n] = j + 1
    BY <1>3, <2>1, <2>4
  <2>6. j + 1 \in 1..K /\ (j + 1) - 1 = j
    BY <1>1, <2>5
  <2>7. met[j + 1] = met[j] \union UNION {E[m] : m \in met[j]}
    BY <1>2, <2>6
  <2> QED BY <2>3, <2>4, <2>5, <2>7
<1>7. Containers \subseteq T
  <2> HIDE DEF T
  <2> QED BY <1>5, <1>6, TreeInduction
<1> DEFINE A == {i \in 0..K : met[K - i] \subseteq met[K]}
<1>8. 0 \in A
  BY <1>1
<1>9. ASSUME NEW i \in 0..K, i # K, i \in A PROVE i + 1 \in A
  <2>1. i + 1 \in 0..K /\ K - i \in 1..K /\ (K - i) - 1 = K - (i + 1)
    BY <1>1, <1>9
  <2>2. met[(K - i) - 1] \subseteq met[K - i]
    BY <1>2, <2>1
  <2>3. met[K - (i + 1)] \subseteq met[K]
    BY <1>9, <2>1, <2>2
  <2> QED BY <2>1, <2>3
<1>10. 0..K \subseteq A
  <2> HIDE DEF A
  <2> QED BY <1>1, <1>8, <1>9, UpTo
<1>11. ASSUME NEW n \in S PROVE n \in met[K]
  <2>1. n \in met[depth[n]] /\ depth[n] \in 0..K
    BY <1>3, <1>7
  <2>2. PICK j \in 0..K : j = depth[n]
    BY <2>1
  <2>3. K - j \in 0..K /\ K - (K - j) = j
    BY <1>1, <2>2
  <2>4. met[K - (K - j)] \subseteq met[K]
    BY <1>10, <2>3
  <2> QED BY <2>1, <2>2, <2>3, <2>4
<1> QED BY <1>11 DEF K

(* Walked and Reached grow that way.                                       *)
LEMMA WalkedGrows ==
  ASSUME NEW s, NEW ds, \A m \in Containers : Entered(s, m, ds) \subseteq Containers
  PROVE  \E met : /\ Layers([m \in Containers |-> Entered(s, m, ds)], met)
                  /\ Walked(s, ds) = met[Cardinality(Nodes)]
<1> DEFINE K == Cardinality(Nodes)
           E == [m \in Containers |-> Entered(s, m, ds)]
           At(h, k) == IF k = 0 THEN {Root} ELSE h[k - 1] \union UNION {Entered(s, m, ds) : m \in h[k - 1]}
           Q(h) == h = [k \in 0..K |-> At(h, k)]
           f == CHOOSE h : Q(h)
<1>1. Walked(s, ds) = f[K] \intersect Containers
  BY DEF Walked
<1>2. K \in Nat
  BY TreeAssumption, FS_CardinalityType
<1>3. E \in [Containers -> SUBSET Containers]
  OBVIOUS
<1>4. PICK met : Layers(E, met)
  <2> HIDE DEF E, Q, f
  <2> QED BY <1>3, LayersExist
<1>5. /\ met \in [0..K -> SUBSET Containers] /\ met[0] = {Root}
      /\ \A k \in 1..K : met[k] = met[k - 1] \union UNION {E[m] : m \in met[k - 1]}
  BY <1>4 DEF Layers
<1> HIDE DEF K
<1>6. ASSUME NEW h, h = met \/ Q(h), NEW k \in 0..K, k # 0, h[k - 1] \subseteq Containers
      PROVE  At(h, k) = h[k - 1] \union UNION {E[m] : m \in h[k - 1]}
  <2> HIDE DEF Q
  <2>1. \A m \in h[k - 1] : E[m] = Entered(s, m, ds)
    BY <1>6
  <2>2. {E[m] : m \in h[k - 1]} = {Entered(s, m, ds) : m \in h[k - 1]}
    <3> HIDE DEF E
    <3> QED BY <2>1
  <2>3. At(h, k) = h[k - 1] \union UNION {Entered(s, m, ds) : m \in h[k - 1]}
    BY <1>6
  <2> HIDE DEF At, E
  <2> QED BY <2>2, <2>3
<1>7. Q(met)
  <2>1. ASSUME NEW k \in 0..K PROVE met[k] = At(met, k)
    <3>1. CASE k = 0
      BY <1>5, <3>1
    <3>2. CASE k # 0
      <4>1. k \in 1..K /\ k - 1 \in 0..K
        BY <1>2, <3>2
      <4>2. met[k - 1] \subseteq Containers
        BY <1>5, <4>1
      <4>3. At(met, k) = met[k - 1] \union UNION {E[m] : m \in met[k - 1]}
        BY <1>6, <3>2, <4>2
      <4> QED BY <1>5, <4>1, <4>3
    <3> QED BY <3>1, <3>2
  <2>2. met = [k \in 0..K |-> met[k]]
    BY <1>5
  <2> HIDE DEF At
  <2> QED BY <2>1, <2>2
<1>8. Q(f)
  <2> HIDE DEF Q
  <2> QED BY <1>7
<1> HIDE DEF f
<1> DEFINE A == {k \in 0..K : f[k] = met[k]}
<1>9. 0 \in A
  BY <1>2, <1>5, <1>8
<1>10. ASSUME NEW k \in 0..K, k # K, k \in A PROVE k + 1 \in A
  <2>1. k + 1 \in 0..K /\ k + 1 # 0 /\ (k + 1) - 1 = k /\ k + 1 \in 1..K
    BY <1>2, <1>10
  <2>2. f[k + 1] = At(f, k + 1)
    BY <1>8, <2>1
  <2>3. f[(k + 1) - 1] = met[(k + 1) - 1] /\ met[k] \subseteq Containers
    BY <1>5, <1>10, <2>1
  <2>4. f[k + 1] = f[(k + 1) - 1] \union UNION {E[m] : m \in f[(k + 1) - 1]}
    <3> HIDE DEF At, E, Q
    <3> QED BY <1>6, <1>8, <2>1, <2>2, <2>3
  <2>5. met[k + 1] = met[(k + 1) - 1] \union UNION {E[m] : m \in met[(k + 1) - 1]}
    BY <1>5, <2>1
  <2>6. f[k + 1] = met[k + 1]
    BY <2>3, <2>4, <2>5
  <2> QED BY <2>1, <2>6
<1>11. 0..K \subseteq A
  <2> HIDE DEF A
  <2> QED BY <1>2, <1>9, <1>10, UpTo
<1>12. f[K] = met[K] /\ met[K] \subseteq Containers
  BY <1>2, <1>5, <1>11
<1> QED BY <1>1, <1>4, <1>12 DEF K
Inner(s, m, ds, walked) == IF m \in walked THEN Held(s, m, ds) ELSE s.clear[m]

LEMMA ReachedGrows ==
  ASSUME NEW s, NEW ds,
         \A m \in Containers : s.clear[m] \subseteq Containers /\ Held(s, m, ds) \subseteq Containers
  PROVE  \E met : /\ Layers([m \in Containers |-> Inner(s, m, ds, Walked(s, ds))], met)
                  /\ Reached(s, ds) = met[Cardinality(Nodes)]
<1> DEFINE walked == Walked(s, ds)
           K == Cardinality(Nodes)
           E == [m \in Containers |-> Inner(s, m, ds, walked)]
           At(h, k) == IF k = 0 THEN {Root} ELSE h[k - 1] \union UNION {Inner(s, m, ds, walked) : m \in h[k - 1]}
           Q(h) == h = [k \in 0..K |-> At(h, k)]
           f == CHOOSE h : Q(h)
<1>1. Reached(s, ds) = f[K]
  BY DEF Reached, Inner
<1>2. K \in Nat
  BY TreeAssumption, FS_CardinalityType
<1>3. E \in [Containers -> SUBSET Containers]
  BY DEF Inner
<1>4. PICK met : Layers(E, met)
  <2> HIDE DEF E, Q, f
  <2> QED BY <1>3, LayersExist
<1>5. /\ met \in [0..K -> SUBSET Containers] /\ met[0] = {Root}
      /\ \A k \in 1..K : met[k] = met[k - 1] \union UNION {E[m] : m \in met[k - 1]}
  BY <1>4 DEF Layers
<1> HIDE DEF K, walked
<1>6. ASSUME NEW h, h = met \/ Q(h), NEW k \in 0..K, k # 0, h[k - 1] \subseteq Containers
      PROVE  At(h, k) = h[k - 1] \union UNION {E[m] : m \in h[k - 1]}
  <2> HIDE DEF Q
  <2>1. \A m \in h[k - 1] : E[m] = Inner(s, m, ds, walked)
    BY <1>6
  <2>2. {E[m] : m \in h[k - 1]} = {Inner(s, m, ds, walked) : m \in h[k - 1]}
    <3> HIDE DEF E
    <3> QED BY <2>1
  <2>3. At(h, k) = h[k - 1] \union UNION {Inner(s, m, ds, walked) : m \in h[k - 1]}
    BY <1>6
  <2> HIDE DEF At, E
  <2> QED BY <2>2, <2>3
<1>7. Q(met)
  <2>1. ASSUME NEW k \in 0..K PROVE met[k] = At(met, k)
    <3>1. CASE k = 0
      BY <1>5, <3>1
    <3>2. CASE k # 0
      <4>1. k \in 1..K /\ k - 1 \in 0..K
        BY <1>2, <3>2
      <4>2. met[k - 1] \subseteq Containers
        BY <1>5, <4>1
      <4>3. At(met, k) = met[k - 1] \union UNION {E[m] : m \in met[k - 1]}
        BY <1>6, <3>2, <4>2
      <4> QED BY <1>5, <4>1, <4>3
    <3> QED BY <3>1, <3>2
  <2>2. met = [k \in 0..K |-> met[k]]
    BY <1>5
  <2> HIDE DEF At
  <2> QED BY <2>1, <2>2
<1>8. Q(f)
  <2> HIDE DEF Q
  <2> QED BY <1>7
<1> HIDE DEF f
<1> DEFINE A == {k \in 0..K : f[k] = met[k]}
<1>9. 0 \in A
  BY <1>2, <1>5, <1>8
<1>10. ASSUME NEW k \in 0..K, k # K, k \in A PROVE k + 1 \in A
  <2>1. k + 1 \in 0..K /\ k + 1 # 0 /\ (k + 1) - 1 = k /\ k + 1 \in 1..K
    BY <1>2, <1>10
  <2>2. f[k + 1] = At(f, k + 1)
    BY <1>8, <2>1
  <2>3. f[(k + 1) - 1] = met[(k + 1) - 1] /\ met[k] \subseteq Containers
    BY <1>5, <1>10, <2>1
  <2>4. f[k + 1] = f[(k + 1) - 1] \union UNION {E[m] : m \in f[(k + 1) - 1]}
    <3> HIDE DEF At, E, Q
    <3> QED BY <1>6, <1>8, <2>1, <2>2, <2>3
  <2>5. met[k + 1] = met[(k + 1) - 1] \union UNION {E[m] : m \in met[(k + 1) - 1]}
    BY <1>5, <2>1
  <2>6. f[k + 1] = met[k + 1]
    BY <2>3, <2>4, <2>5
  <2> QED BY <2>1, <2>6
<1>11. 0..K \subseteq A
  <2> HIDE DEF A
  <2> QED BY <1>2, <1>9, <1>10, UpTo
<1>12. f[K] = met[K] /\ met[K] \subseteq Containers
  BY <1>2, <1>5, <1>11
<1> QED BY <1>1, <1>4, <1>12 DEF K, walked
-----------------------------------------------------------------------------
(***************************************************************************)
(* An SD-JWT of this issuer: what is reached in it, what gets a digest and *)
(* what verifies.                                                          *)
(***************************************************************************)

(* What the disclosures ds open the way to.                                *)
Opened(opts, ds) == {n \in Nodes : Way(n) \intersect Hidden(opts) \subseteq ds}

LEMMA OpenedByTheParent ==
  ASSUME NEW opts, NEW ds, NEW n \in Nodes
  PROVE  n \in Opened(opts, ds) <=>
           /\ n \in Hidden(opts) => n \in ds
           /\ Parent[n] = Root \/ Parent[n] \in Opened(opts, ds)
<1>1. Way(n) = {n} \union Way(Parent[n]) /\ Way(Root) = {}
  BY WayUnfolds
<1>2. Parent[n] = Root \/ Parent[n] \in Nodes
  BY SdJwtAssumption DEF Containers
<1> QED BY <1>1, <1>2 DEF Opened

LEMMA ReachedExactly ==
  ASSUME NEW opts, IsNewOpts(opts), NEW s, s = New(opts), NEW ds, VerifyDisclosures(s, ds)
  PROVE  Reached(s, ds) = {Root} \union Opened(opts, ds)
<1> DEFINE hidden == Hidden(opts)
           E == [m \in Containers |-> Inner(s, m, ds, Walked(s, ds))]
           S == {Root} \union Opened(opts, ds)
<1>1. /\ Root \in Containers /\ Root \notin Nodes /\ Nodes \subseteq Containers
      /\ \A n \in Nodes : Parent[n] \in Containers
      /\ \A m \in Containers : m = Root \/ m \in Nodes
  BY SdJwtAssumption, TreeAssumption DEF Containers
<1>2. \A m \in Containers :
        /\ s.clear[m] = {n \in Nodes : Parent[n] = m} \ hidden
        /\ s.sd[m] \intersect Nodes = {n \in hidden : Parent[n] = m}
        /\ s.sd[m] \subseteq Nodes \union Decoys
  BY NewFacts
<1>3. Walked(s, ds) \subseteq Containers
  BY DEF Walked
<1>4. ds \subseteq Nodes /\ \A d \in ds : d \in hidden => Parent[d] \in Walked(s, ds)
  <2>1. ds \intersect Decoys = {} /\ \A d \in ds : \E m \in Walked(s, ds) : d \in s.sd[m]
    BY DEF VerifyDisclosures, Parses
  <2> QED BY <1>2, <1>3, <2>1
<1>5. \A m \in Containers : Held(s, m, ds) = s.clear[m] \union ({n \in hidden : Parent[n] = m} \intersect ds)
  BY <1>2, <1>4 DEF Held
<1>6. \A m \in Containers : s.clear[m] \subseteq Nodes /\ Held(s, m, ds) \subseteq Nodes
  BY <1>2, <1>4 DEF Held
<1>7. E \in [Containers -> SUBSET Containers]
  BY <1>1, <1>6 DEF Inner
<1>8. PICK met : Layers(E, met) /\ Reached(s, ds) = met[Cardinality(Nodes)]
  BY <1>1, <1>6, ReachedGrows
<1>9. ASSUME NEW m \in Containers, m \in S, NEW n \in E[m] PROVE n \in S
  <2>1. n \in Held(s, m, ds)
    BY DEF Inner, Held
  <2>2. n \in Nodes /\ Parent[n] = m /\ (n \in hidden => n \in ds)
    BY <1>2, <1>5, <2>1
  <2> QED BY <1>9, <2>2, OpenedByTheParent
<1>10. ASSUME NEW n \in Nodes, n \in S PROVE Parent[n] \in S /\ n \in E[Parent[n]]
  <2>1. (n \in hidden => n \in ds) /\ Parent[n] \in S
    BY <1>1, <1>10, OpenedByTheParent
  <2>2. n \in Inner(s, Parent[n], ds, Walked(s, ds))
    <3>1. CASE n \in hidden
      BY <1>1, <1>4, <1>5, <2>1, <3>1 DEF Inner
    <3>2. CASE n \notin hidden
      BY <1>1, <1>2, <3>2 DEF Inner, Held
    <3> QED BY <3>1, <3>2
  <2> QED BY <1>1, <2>1, <2>2
<1>11. S \subseteq Containers
  BY <1>1 DEF Opened
<1>12. met[Cardinality(Nodes)] \subseteq S
  <2> HIDE DEF E, S
  <2>1. Root \in S
    BY DEF S
  <2> QED BY <1>7, <1>8, <1>9, <2>1, GrowthStaysIn
<1>13. S \subseteq met[Cardinality(Nodes)]
  <2> HIDE DEF E, S
  <2> QED BY <1>7, <1>8, <1>10, <1>11, GrowthReaches
<1> QED BY <1>8, <1>12, <1>13

(* On the way to an atom there is a digest or something that the options   *)
(* declare non-selectively disclosable.                                    *)
LEMMA AtomsAreCovered ==
  ASSUME NEW opts, IsNewOpts(opts), NEW n \in Nodes, Kind[n] = "atom",
         Way(n) \intersect opts.nonSD = {}
  PROVE  Way(n) \intersect Hidden(opts) # {}
<1> DEFINE Free(m) == Way(m) \intersect Hidden(opts) = {} /\ Way(m) \intersect opts.nonSD = {}
           S == {m \in Containers : Free(m) => Inside(opts)[m] = "walked" /\ Kind[m] # "atom"}
<1>1. Root \in S
  BY BuilderFacts, TreeAssumption DEF Containers
<1>2. ASSUME NEW m \in Nodes, Parent[m] \in S PROVE m \in S
  <2>1. SUFFICES ASSUME Free(m) PROVE Inside(opts)[m] = "walked" /\ Kind[m] # "atom"
    BY DEF Containers
  <2>2. Way(m) = {m} \union Way(Parent[m])
    BY WayUnfolds
  <2>3. m \notin Hidden(opts) /\ m \notin opts.nonSD /\ Free(Parent[m])
    BY <2>1, <2>2
  <2>4. Inside(opts)[Parent[m]] = "walked"
    BY <1>2, <2>3
  <2> QED BY <2>3, <2>4, BuilderFacts
<1>3. Containers \subseteq S
  <2> HIDE DEF S
  <2> QED BY <1>1, <1>2, TreeInduction
<1>4. n \in S
  BY <1>3 DEF Containers
<1> QED BY <1>4

(* Disclosures verify if with each of them those on the way to it are      *)
(* there: the digest of each is then in a container that is walked.        *)
LEMMA ClosedVerifies ==
  ASSUME NEW opts, IsNewOpts(opts), NEW s, s = New(opts), NEW ds, ds \subseteq Hidden(opts),
         \A d \in ds : Way(d) \intersect Hidden(opts) \subseteq ds
  PROVE  VerifyDisclosures(s, ds)
<1> DEFINE hidden == Hidden(opts)
           in == Inside(opts)
           E == [m \in Containers |-> Entered(s, m, ds)]
           S == {Root} \union {m \in Opened(opts, ds) : in[m] # "raw"}
<1>1. /\ Root \in Containers /\ Root \notin Nodes /\ Nodes \subseteq Containers
      /\ \A n \in Nodes : Parent[n] \in Containers
      /\ \A m \in Containers : m = Root \/ m \in Nodes
  BY SdJwtAssumption, TreeAssumption DEF Containers
<1>2. \A m \in Containers :
        /\ s.clear[m] = {n \in Nodes : Parent[n] = m} \ hidden
        /\ s.sd[m] \intersect Nodes = {n \in hidden : Parent[n] = m}
        /\ s.sd[m] \subseteq Nodes \union Decoys
        /\ \A d \in s.sd[m] : d \notin Nodes => m \in DOMAIN Decoy /\ d = Decoy[m]
  BY NewFacts
<1>3. hidden \subseteq Nodes /\ ds \subseteq Nodes
  BY BuilderFacts
<1>4. \A m \in Containers : s.sd[m] \intersect ds = {n \in ds : Parent[n] = m}
  BY <1>2, <1>3
<1>5. \A m \in Containers : s.clear[m] \subseteq Nodes /\ Entered(s, m, ds) \subseteq Nodes
  BY <1>2, <1>3 DEF Entered
<1>6. E \in [Containers -> SUBSET Containers] /\ \A m \in Containers : Entered(s, m, ds) \subseteq Containers
  BY <1>1, <1>5
<1>7. PICK met : Layers(E, met) /\ Walked(s, ds) = met[Cardinality(Nodes)]
  BY <1>6, WalkedGrows
<1>8. ASSUME NEW n \in Nodes, n \in S PROVE Parent[n] \in S /\ n \in E[Parent[n]]
  <2>1. n \in Opened(opts, ds) /\ in[n] # "raw"
    BY <1>1, <1>8
  <2>2. (n \in hidden => n \in ds) /\ (Parent[n] = Root \/ Parent[n] \in Opened(opts, ds))
    BY <2>1, OpenedByTheParent
  <2>3. in[Parent[n]] # "raw" /\ Kind[Parent[n]] # "array"
    BY <2>1, BuilderFacts
  <2>4. Kind[Parent[n]] = "object"
    BY <1>1, <2>3, TreeAssumption
  <2>5. n \in Entered(s, Parent[n], ds)
    <3>1. CASE n \in hidden
      BY <1>1, <1>4, <2>2, <3>1 DEF Entered
    <3>2. CASE n \notin hidden
      BY <1>1, <1>2, <2>4, <3>2 DEF Entered
    <3> QED BY <3>1, <3>2
  <2> QED BY <1>1, <2>2, <2>3, <2>5
<1>9. S \subseteq Walked(s, ds)
  <2>1. S \subseteq Containers
    BY <1>1 DEF Opened
  <2> HIDE DEF E, S
  <2> QED BY <1>6, <1>7, <1>8, <2>1, GrowthReaches
<1>10. ASSUME NEW d \in ds PROVE Parent[d] \in Walked(s, ds) /\ d \in s.sd[Parent[d]]
  <2>1. in[Parent[d]] # "raw" /\ d \in Nodes
    BY <1>3, BuilderFacts
  <2>2. d \in Opened(opts, ds)
    BY <2>1 DEF Opened
  <2>3. Parent[d] \in S
    BY <2>1, <2>2, OpenedByTheParent
  <2> QED BY <1>1, <1>4, <1>9, <2>1, <2>3
<1>11. Walked(s, ds) \subseteq Containers
  BY DEF Walked
<1>12. Parses(ds)
  BY <1>3, TreeAssumption DEF Parses
<1>13. ASSUME NEW m1 \in Containers, NEW m2 \in Containers, m1 # m2, NEW d \in s.sd[m1], d \in s.sd[m2]
       PROVE  FALSE
  <2>1. CASE d \in Nodes
    BY <1>2, <1>13, <2>1
  <2>2. CASE d \notin Nodes
    BY <1>2, <1>13, <2>2, TreeAssumption
  <2> QED BY <2>1, <2>2
<1>14. ASSUME NEW m \in Containers, Kind[m] = "object", NEW d \in s.sd[m] \intersect ds,
              NEW n \in Held(s, m, ds) \ {d}
       PROVE  Name[n] # Name[d]
  <2>1. d \in Nodes /\ Parent[d] = m
    BY <1>3, <1>4
  <2>2. n \in Nodes /\ Parent[n] = m /\ n # d
    BY <1>2, <1>3, <1>4 DEF Held
  <2> QED BY <1>14, <2>1, <2>2, ClaimsAssumption
<1>15. \A m \in Containers : \A d \in s.sd[m] \intersect ds : (Kind[m] = "array") <=> (Kind[Parent[d]] = "array")
  BY <1>4
<1> HIDE DEF in, hidden, E, S
<1> QED BY <1>10, <1>11, <1>12, <1>13, <1>14, <1>15 DEF VerifyDisclosures
-----------------------------------------------------------------------------
(* What was issued is what issuer.New makes of options, the holder has     *)
(* looked at it, and a presentation is a selection of its disclosures,     *)
(* bound with one of the holder's keys or not at all.                      *)
OwnInv ==
  /\ Issued => IsNewOpts(sdjwt.opts) /\ sdjwt = New(sdjwt.opts)
  /\ parsed # None =>
       /\ sdjwt # None
       /\ parsed = IF VerifyDisclosures(sdjwt, sdjwt.disclosures) THEN "parsed" ELSE "refused"
  /\ presentation # None =>
       /\ sdjwt # None /\ parsed = "parsed"
       /\ presentation.disclosures \subseteq sdjwt.disclosures
       /\ presentation.binding # None => presentation.binding.key \in sdjwt.keys
  /\ last # None /\ last.ok =>
       /\ presentation # None
       /\ VerifyDisclosures(sdjwt, presentation.disclosures)
       /\ last.claims = GetDisclosedClaims(sdjwt, presentation.disclosures)

LEMMA NewIsOwn ==
  ASSUME NEW opts, IsNewOpts(opts), NEW s, s = New(opts) \/ s = MakeSDJWT(opts)
  PROVE  IsNewOpts(s.opts) /\ s = New(s.opts)
<1>1. CASE s = New(opts)
  BY <1>1, NewFacts
<1>2. CASE s = MakeSDJWT(opts)
  <2> DEFINE o1 == [opts EXCEPT !.structured = TRUE]
             o2 == [o1 EXCEPT !.decoys = FALSE]
             o3 == [o2 EXCEPT !.nonSD = @ \union SubjectID]
             o4 == [o3 EXCEPT !.cnf = None]
             o5 == [o4 EXCEPT !.exp = None]
             D == {"version", "structured", "decoys", "nonSD", "always", "recursive", "exp", "cnf", "keys"}
  <2>1. s = New(o5)
    BY <1>2 DEF MakeSDJWT
  <2>2. D \subseteq DOMAIN opts
    BY DEF IsNewOpts
  <2>3. DOMAIN o1 = DOMAIN opts /\ o1.structured = TRUE /\ \A x \in DOMAIN opts : x # "structured" => o1[x] = opts[x]
    BY <2>2
  <2> HIDE DEF o1
  <2>4. DOMAIN o2 = DOMAIN o1 /\ o2.decoys = FALSE /\ \A x \in DOMAIN o1 : x # "decoys" => o2[x] = o1[x]
    BY <2>2, <2>3
  <2> HIDE DEF o2
  <2>5. DOMAIN o3 = DOMAIN o2 /\ o3.nonSD = o2.nonSD \union SubjectID /\ \A x \in DOMAIN o2 : x # "nonSD" => o3[x] = o2[x]
    BY <2>2, <2>3, <2>4
  <2> HIDE DEF o3
  <2>6. DOMAIN o4 = DOMAIN o3 /\ \A x \in DOMAIN o3 : x # "cnf" => o4[x] = o3[x]
    BY <2>2, <2>3, <2>4, <2>5
  <2> HIDE DEF o4
  <2>7. DOMAIN o5 = DOMAIN o4 /\ o5.exp = None /\ \A x \in DOMAIN o4 : x # "exp" => o5[x] = o4[x]
    BY <2>2, <2>3, <2>4, <2>5, <2>6
  <2> HIDE DEF o5
  <2>8. /\ o5.version = opts.version /\ o5.structured = TRUE /\ o5.decoys = FALSE /\ o5.exp = None
        /\ o5.nonSD = opts.nonSD \union SubjectID /\ o5.keys = opts.keys /\ D \subseteq DOMAIN o5
    BY <2>2, <2>3, <2>4, <2>5, <2>6, <2>7
  <2>9. o5.always = opts.always /\ o5.recursive = opts.recursive
    BY <2>2, <2>3, <2>4, <2>5, <2>6, <2>7
  <2>10. IsNewOpts(o5)
    BY <2>8, <2>9, SdJwtAssumption DEF IsNewOpts
  <2> QED BY <2>1, <2>10, NewFacts
<1> QED BY <1>1, <1>2

LEMMA InitOwn == Init => OwnInv
BY DEF Init, OwnInv, Issued

LEMMA NextOwn == OwnInv /\ [Next]_vars => OwnInv'
<1> SUFFICES ASSUME OwnInv, [Next]_vars PROVE OwnInv'
  OBVIOUS
<1>1. ASSUME sdjwt = None, Issued' => IsNewOpts(sdjwt'.opts) /\ sdjwt' = New(sdjwt'.opts),
             UNCHANGED <<parsed, presentation, last>>
      PROVE  OwnInv'
  BY <1>1 DEF OwnInv
<1>2. ASSUME NEW opts \in IssuerOptions, Issue(opts) \/ IssueCredential(opts) PROVE OwnInv'
  <2>1. IsNewOpts(opts)
    BY SdJwtAssumption
  <2>2. sdjwt' = New(opts) \/ sdjwt' = MakeSDJWT(opts)
    BY <1>2 DEF Issue, IssueCredential
  <2>3. IsNewOpts(sdjwt'.opts) /\ sdjwt' = New(sdjwt'.opts)
    BY <2>1, <2>2, NewIsOwn
  <2> QED BY <1>1, <1>2, <2>3 DEF Issue, IssueCredential
<1>3. ASSUME NEW s \in OtherSDJWTs, IssueElsewhere(s) PROVE OwnInv'
  BY <1>1, <1>3, ClaimsAssumption DEF IssueElsewhere, Issued
<1>4. CASE Parse
  <2>1. /\ sdjwt # None /\ parsed = None /\ UNCHANGED <<sdjwt, presentation, last>>
        /\ parsed' = IF VerifyDisclosures(sdjwt, sdjwt.disclosures) THEN "parsed" ELSE "refused"
    BY <1>4 DEF Parse
  <2>2. presentation = None
    BY <2>1, TreeAssumption DEF OwnInv
  <2>3. VerifyDisclosures(sdjwt, sdjwt.disclosures)' <=> VerifyDisclosures(sdjwt, sdjwt.disclosures)
    BY <2>1
  <2> QED BY <2>1, <2>2, <2>3 DEF OwnInv, Issued
<1>5. ASSUME UNCHANGED <<sdjwt, parsed, presentation, last>> PROVE OwnInv'
  BY <1>5 DEF OwnInv, Issued
<1>6. ASSUME NEW v \in Verifiers, Verify(v) PROVE OwnInv'
  <2>1. /\ presentation # None /\ UNCHANGED <<sdjwt, parsed, presentation>>
        /\ last'.ok = Accepts(v, presentation)
        /\ last'.claims = IF Accepts(v, presentation)
                          THEN GetDisclosedClaims(sdjwt, presentation.disclosures) ELSE {}
    BY <1>6 DEF Verify
  <2>2. last'.ok => /\ VerifyDisclosures(sdjwt, presentation.disclosures)
                    /\ last'.claims = GetDisclosedClaims(sdjwt, presentation.disclosures)
    BY <2>1 DEF Accepts
  <2> QED BY <2>1, <2>2 DEF OwnInv, Issued
<1>7. ASSUME sdjwt # None, NEW ds \in SUBSET Nodes, NEW b \in Bindings,
             (\E twice \in BOOLEAN : CreatePresentation(ds, twice, b)) \/ MarshalWithDisclosure(ds, b)
      PROVE  OwnInv'
  <2>1. /\ parsed = "parsed" /\ presentation = None /\ ds \subseteq sdjwt.disclosures
        /\ UNCHANGED <<sdjwt, parsed, last>>
        /\ presentation'.disclosures = ds /\ presentation'.binding = b
    BY <1>7 DEF CreatePresentation, MarshalWithDisclosure, Combined
  <2>2. b # None => b.key \in sdjwt.keys
    BY DEF Bindings
  <2> QED BY <1>7, <2>1, <2>2 DEF OwnInv, Issued
<1> QED BY <1>2, <1>3, <1>4, <1>5, <1>6, <1>7 DEF Next, vars, StartSession, Tick

(* A verifier learns from an SD-JWT of this issuer exactly what the        *)
(* disclosures that the holder selected open the way to.                   *)
THEOREM AlwaysDisclosedExactly == Spec => []DisclosedExactly
<1>1. OwnInv => DisclosedExactly
  <2> SUFFICES ASSUME OwnInv, Issued, last # None, last.ok
               PROVE  last.claims = Opened(sdjwt.opts, presentation.disclosures)
                                      \ Emptied(sdjwt, presentation.disclosures)
    BY DEF DisclosedExactly, Opened
  <2>1. PICK opts, ds : opts = sdjwt.opts /\ ds = presentation.disclosures
    OBVIOUS
  <2>2. /\ IsNewOpts(opts) /\ sdjwt = New(opts) /\ VerifyDisclosures(sdjwt, ds)
        /\ last.claims = GetDisclosedClaims(sdjwt, ds)
    BY <2>1 DEF OwnInv
  <2>3. Reached(sdjwt, ds) = {Root} \union Opened(opts, ds)
    BY <2>2, ReachedExactly
  <2>4. Root \notin Opened(opts, ds)
    BY TreeAssumption DEF Opened
  <2> QED BY <2>1, <2>2, <2>3, <2>4 DEF GetDisclosedClaims
<1> QED BY <1>1, InitOwn, NextOwn, PTL DEF Spec

(* No atom is seen that the options do not declare non-selectively         *)
(* disclosable and that the holder did not open the way to.                *)
THEOREM NothingIsEverUnasked == Spec => []NothingUnasked
<1>1. OwnInv /\ DisclosedExactly => NothingUnasked
  <2> SUFFICES ASSUME OwnInv, DisclosedExactly, Issued, last # None, last.ok, NEW n \in last.claims,
                      Kind[n] = "atom", Way(n) \intersect sdjwt.opts.nonSD = {}
               PROVE  Way(n) \intersect presentation.disclosures # {}
    BY DEF NothingUnasked
  <2>1. PICK opts, ds : opts = sdjwt.opts /\ ds = presentation.disclosures
    OBVIOUS
  <2>2. n \in Nodes /\ Way(n) \intersect Hidden(opts) \subseteq ds
    BY <2>1 DEF DisclosedExactly
  <2>3. IsNewOpts(opts)
    BY <2>1 DEF OwnInv
  <2>4. Way(n) \intersect Hidden(opts) # {}
    BY <2>1, <2>2, <2>3, AtomsAreCovered
  <2> QED BY <2>1, <2>2, <2>4
<1> QED BY <1>1, InitOwn, NextOwn, AlwaysDisclosedExactly, PTL DEF Spec

(* The holder refuses its SD-JWT exactly if version 5 listed decoys among  *)
(* the disclosures, and a verifier accepts every proper presentation.      *)
THEOREM IssuedIsAlwaysUsable == Spec => []IssuedIsUsable
<1>1. OwnInv => IssuedIsUsable
  <2> SUFFICES ASSUME OwnInv, Issued
               PROVE  /\ parsed = "refused" <=> parsed # None /\ sdjwt.opts.version = 5 /\ sdjwt.opts.decoys
                      /\ presentation # None /\ VerifyJWT(sdjwt) =>
                           \A v \in Verifiers : Proper(v, presentation) => Accepts(v, presentation)
    BY DEF IssuedIsUsable
  <2>1. PICK opts : opts = sdjwt.opts
    OBVIOUS
  <2>2. IsNewOpts(opts) /\ sdjwt = New(opts)
    BY <2>1 DEF OwnInv
  <2>3. /\ sdjwt.disclosures = Hidden(opts) \union
             (IF opts.version = 5 THEN {Decoy[m] : m \in DecoysAt(opts)} ELSE {})
        /\ sdjwt.keys = opts.keys
    BY <2>2, NewFacts
  <2>4. CASE opts.version = 5 /\ opts.decoys
    <3>1. Root \in DecoysAt(opts) /\ Decoy[Root] \in Decoys
      BY <2>2, <2>4, BuilderFacts, TreeAssumption DEF DecoysAt, Decoys
    <3>2. ~VerifyDisclosures(sdjwt, sdjwt.disclosures)
      BY <2>3, <2>4, <3>1 DEF VerifyDisclosures, Parses
    <3>3. parsed # "parsed" /\ (parsed # None => parsed = "refused")
      BY <3>2, TreeAssumption DEF OwnInv
    <3>4. presentation = None
      BY <3>3 DEF OwnInv
    <3> QED BY <2>1, <2>4, <3>3, <3>4, TreeAssumption
  <2>5. CASE ~(opts.version = 5 /\ opts.decoys)
    <3>1. sdjwt.disclosures = Hidden(opts)
      BY <2>3, <2>5 DEF DecoysAt
    <3>2. VerifyDisclosures(sdjwt, Hidden(opts))
      BY <2>2, ClosedVerifies
    <3>3. parsed # "refused"
      BY <3>1, <3>2, TreeAssumption DEF OwnInv
    <3>4. ASSUME presentation # None, VerifyJWT(sdjwt), NEW v \in Verifiers, Proper(v, presentation)
          PROVE  Accepts(v, presentation)
      <4>1. PICK p : p = presentation
        OBVIOUS
      <4>2. p.disclosures \subseteq Hidden(opts) /\ (p.binding # None => p.binding.key \in opts.keys)
        BY <2>3, <3>1, <3>4, <4>1 DEF OwnInv
      <4>3. /\ ~p.repeated
            /\ \A d \in p.disclosures : Way(d) \intersect Hidden(opts) \subseteq p.disclosures
            /\ IF p.binding = None THEN ~Policy[v].required
               ELSE p.binding.key = sdjwt.cnf /\ VerifyHolderBindingJWT(v, p.binding)
        BY <2>1, <3>4, <4>1 DEF Proper, VerifyHolderBindingJWT
      <4>4. VerifyDisclosures(sdjwt, p.disclosures)
        <5>1. PICK ds : ds = p.disclosures
          OBVIOUS
        <5> QED BY <2>2, <4>2, <4>3, <5>1, ClosedVerifies
      <4>5. HolderVerified(v, p)
        <5>1. p.binding # None => sdjwt.cnf # None
          BY <2>2, <4>2, <4>3 DEF IsNewOpts
        <5> QED BY <4>3, <5>1 DEF HolderVerified
      <4> QED BY <3>4, <4>1, <4>3, <4>4, <4>5 DEF Accepts
    <3> QED BY <2>1, <2>5, <3>3, <3>4
  <2> QED BY <2>4, <2>5
<1> QED BY <1>1, InitOwn, NextOwn, PTL DEF Spec
=============================================================================

------------------------------- MODULE SdJwt -------------------------------
(***************************************************************************)
(* SD-JWTs from the issuer over the holder to the verifiers: issuer.New    *)
(* with the builders of versions 2 and 5, holder.Parse and                 *)
(* CreatePresentation, MarshalWithDisclosure of an SD-JWT credential, and  *)
(* verifier.Parse.                                                         *)
(*                                                                         *)
(* The claims form a tree of nodes.  An SD-JWT says of every container     *)
(* which nodes it holds in clear and which digests its _sd list, or its    *)
(* array, holds.  The digest of a disclosure is the node it discloses; a   *)
(* decoy is a digest that belongs to no node.                              *)
(*                                                                         *)
(* The model follows one presentation of the SD-JWT, which may be          *)
(* delivered any number of times, to any verifier, long after it was made; *)
(* no other presentation touches anything it depends on.                   *)
(***************************************************************************)
EXTENDS Naturals, FiniteSets

CONSTANTS
  Nodes, Root,     \* the claims, and the payload that holds them
  Parent,          \* the container of each node
  Kind,            \* "atom", "object" or "array"
  Name,            \* the name of a member of an object
  SubjectID,       \* the ids among the claims, that credentials keep in clear
  Decoy,           \* the decoy of each object
  None,
  IssuerOptions,   \* the options issuer.New is called with
  OtherSDJWTs,     \* SD-JWTs that other issuers made
  Verifiers,
  Policy,          \* what each verifier requires and expects of a binding
  Leeway,
  MaxSessions, MaxTime  \* bounds: sessions of verifiers, and the clock

Containers == Nodes \union {Root}
Decoys == {Decoy[m] : m \in DOMAIN Decoy}

(* newOpts, as the NewOpt functions set it.  The keys are those the holder *)
(* will sign bindings with, the confirmed one or not.                      *)
IsNewOpts(opts) ==
  /\ opts.version \in {2, 5}
  /\ opts.structured \in BOOLEAN /\ opts.decoys \in BOOLEAN
  /\ opts.nonSD \union opts.always \union opts.recursive \subseteq Nodes
  /\ opts.exp \in Nat \union {None}
  /\ {"version", "structured", "decoys", "nonSD", "always", "recursive", "exp", "cnf", "keys"}
       \subseteq DOMAIN opts
  /\ None \notin opts.keys

(* parseOpts of the verifier: whether a binding is required, and whether   *)
(* the nonce of the session and the verifier's audience are expected.      *)
Policies == [required : BOOLEAN, expects : BOOLEAN]

(* An object has each name once, and what is in clear is in one place and  *)
(* not behind a digest.                                                    *)
IsSDJWT(s) ==
  \A m \in Containers :
    /\ Kind[m] = "object" => \A n1, n2 \in s.clear[m] : n1 # n2 => Name[n1] # Name[n2]
    /\ \A l \in Containers :
         /\ l # m => s.clear[l] \intersect s.clear[m] = {}
         /\ s.clear[l] \intersect s.sd[m] \subseteq Decoys

ASSUME ClaimsAssumption ==
  /\ \A n1, n2 \in Nodes :
       n1 # n2 /\ Parent[n1] = Parent[n2] /\ Kind[Parent[n1]] = "object" => Name[n1] # Name[n2]
  /\ \A s \in OtherSDJWTs : IsSDJWT(s) /\ s.opts = None

ASSUME SdJwtAssumption ==
  /\ \A opts \in IssuerOptions : IsNewOpts(opts)
  /\ Policy \in [Verifiers -> Policies] /\ SubjectID \subseteq Nodes
  /\ Parent \in [Nodes -> Containers]
  /\ Leeway \in Nat /\ MaxSessions \in Nat /\ MaxTime \in Nat \ {0}
  /\ None \notin Nodes \union Decoys

(* The claims are a tree of objects and arrays over atoms, and no deeper   *)
(* than there are claims.  No decoy is the digest of a claim, each level   *)
(* has its own, and the payload has one.                                   *)
ASSUME TreeAssumption ==
  /\ IsFiniteSet(Nodes) /\ Root \notin Nodes
  /\ Kind \in [Containers -> {"atom", "object", "array"}]
  /\ Kind[Root] = "object" /\ \A n \in Nodes : Kind[Parent[n]] # "atom"
  /\ \E depth \in [Containers -> 0..Cardinality(Nodes)] :
       depth[Root] = 0 /\ \A n \in Nodes : depth[n] = depth[Parent[n]] + 1
  /\ Root \in DOMAIN Decoy /\ DOMAIN Decoy \subseteq Containers
  /\ Decoys \intersect Nodes = {}
  /\ \A m, l \in DOMAIN Decoy : m # l => Decoy[m] # Decoy[l]
  /\ None \notin {"parsed", "refused"}

VARIABLES
  sdjwt,         \* the SD-JWT the holder received
  parsed,        \* what holder.Parse made of it
  nonce,         \* the nonce each verifier expects, 0 before its first session
  sessions,      \* how many sessions have begun; nonces are their numbers
  presentation,  \* the combined format for presentation
  now,           \* the clock
  last           \* which verifier was given it last, and its answer

vars == <<sdjwt, parsed, nonce, sessions, presentation, now, last>>

-----------------------------------------------------------------------------
(* The issuer.  How a builder goes about the inside of a container: it     *)
(* leaves it as it is ("raw"), walks it, or walks it for the sake of its   *)
(* containers only (ignorePrimitives, "plain").                            *)

InsideV2(opts) ==
  LET in[n \in Containers] ==
        IF n = Root \/ (in[Parent[n]] = "walked" /\ Kind[n] = "object" /\ opts.structured)
        THEN "walked" ELSE "raw"
  IN  in

HiddenV2(opts) ==
  LET in == InsideV2(opts)
  IN  {n \in Nodes : in[Parent[n]] = "walked" /\ in[n] = "raw" /\ n \notin opts.nonSD}

EntersV5(opts, n, above) ==
  IF above = "raw" \/ n \in opts.nonSD \/ Kind[Parent[n]] = "array" \/ Kind[n] = "atom" THEN "raw"
  ELSE IF Kind[n] = "array" \/ opts.structured \/ n \in opts.recursive \union opts.always
  THEN "walked" ELSE "plain"

InsideV5(opts) ==
  LET in[n \in Containers] == IF n = Root THEN "walked" ELSE EntersV5(opts, n, in[Parent[n]])
  IN  in

(* The members that get a digest: whole arrays and objects unless they are *)
(* kept for their structure, and primitives.                               *)
HiddenMember(opts, in, n) ==
  CASE Kind[n] = "object" -> n \notin opts.always /\ (n \in opts.recursive \/ ~opts.structured)
    [] Kind[n] = "array" -> n \notin opts.always /\ ~opts.structured
    [] Kind[n] = "atom" -> in[Parent[n]] # "plain"

(* Mutant: the elements of an array that is kept in clear are, too.        *)
HiddenMembersV5(opts) ==
  LET in == InsideV5(opts)
  IN  {n \in Nodes : /\ in[Parent[n]] # "raw" /\ n \notin opts.nonSD
                     /\ Kind[Parent[n]] # "array" /\ HiddenMember(opts, in, n)}

(* Elements get a digest one by one.                                       *)
HiddenV5(opts) ==
  LET in == InsideV5(opts)
  IN  {n \in Nodes : /\ in[Parent[n]] # "raw" /\ n \notin opts.nonSD
                     /\ Kind[Parent[n]] = "array" \/ HiddenMember(opts, in, n)}

Hidden(opts) == IF opts.version = 5 THEN HiddenV5(opts) ELSE HiddenV2(opts)
Inside(opts) == IF opts.version = 5 THEN InsideV5(opts) ELSE InsideV2(opts)

(* One decoy stands for the one to four of a level.                        *)
DecoysAt(opts) == {m \in DOMAIN Decoy : opts.decoys /\ Inside(opts)[m] # "raw"}

(* issuer.New.  Version 5 returns the decoys among the disclosures;        *)
(* version 2 only uses their digests.                                      *)
New(opts) ==
  LET hidden == Hidden(opts)
      decoys == DecoysAt(opts)
  IN
  [clear |-> [m \in Containers |-> {n \in Nodes : Parent[n] = m} \ hidden],
   sd |-> [m \in Containers |-> {n \in hidden : Parent[n] = m} \union {Decoy[l] : l \in decoys \intersect {m}}],
   disclosures |-> hidden \union (IF opts.version = 5 THEN {Decoy[m] : m \in decoys} ELSE {}),
   cnf |-> opts.cnf, keys |-> opts.keys, exp |-> opts.exp, opts |-> opts]

(* Credential.MakeSDJWT with issuer.NewFromVC: the claims are those of the *)
(* credential subject, the options fixed but for a few.                    *)
MakeSDJWT(opts) ==
  New([opts EXCEPT !.structured = TRUE, !.decoys = FALSE, !.nonSD = @ \union SubjectID,
                   !.cnf = None, !.exp = None])

-----------------------------------------------------------------------------
(* discloseClaimValue goes into the members of objects and into what a     *)
(* digest stands for, and leaves the elements of arrays that are in clear  *)
(* as they are.                                                            *)

Entered(s, m, ds) ==
  (IF Kind[m] = "object" THEN s.clear[m] ELSE {}) \union (s.sd[m] \intersect ds)

Walked(s, ds) ==
  LET met[k \in 0..Cardinality(Nodes)] ==
        IF k = 0 THEN {Root}
        ELSE met[k - 1] \union UNION {Entered(s, m, ds) : m \in met[k - 1]}
  IN  met[Cardinality(Nodes)] \intersect Containers

(* What a walked container holds when it is done.                          *)
Held(s, m, ds) == s.clear[m] \union (s.sd[m] \intersect ds)

(* getDisclosureClaims: a decoy is no array of a salt and a value.         *)
Parses(ds) == ds \intersect Decoys = {}

(* Mutant: names that meet at one level are not noticed.                   *)
VerifyDisclosuresUnnamed(s, ds) ==
  LET levels == Walked(s, ds)
  IN  /\ Parses(ds)
      /\ \A m1, m2 \in levels : m1 # m2 => s.sd[m1] \intersect s.sd[m2] = {}
      /\ \A m \in levels : \A d \in s.sd[m] \intersect ds :
           (Kind[m] = "array") <=> (Kind[Parent[d]] = "array")
      /\ \A d \in ds : \E m \in levels : d \in s.sd[m]

(* Mutant: only the digests of the payload count.                          *)
VerifyDisclosuresOnTop(s, ds) == ds \subseteq s.sd[Root]

(* VerifyDisclosuresInSDJWT: each disclosure parses, no digest is met      *)
(* twice, disclosures have the number of elements of the place where their *)
(* digest is, no name occurs twice at a level, and each disclosure is met. *)
VerifyDisclosures(s, ds) ==
  LET levels == Walked(s, ds)
  IN  /\ Parses(ds)
      /\ \A m1, m2 \in levels : m1 # m2 => s.sd[m1] \intersect s.sd[m2] = {}
      /\ \A m \in levels : \A d \in s.sd[m] \intersect ds :
           (Kind[m] = "array") <=> (Kind[Parent[d]] = "array")
      /\ \A m \in levels : Kind[m] = "object" =>
           \A d \in s.sd[m] \intersect ds : \A n \in Held(s, m, ds) \ {d} : Name[n] # Name[d]
      /\ \A d \in ds : \E m \in levels : d \in s.sd[m]

(* Mutant: digests inside of disclosures are not resolved.                 *)
ReachedOnTop(s, ds) ==
  LET met[k \in 0..Cardinality(Nodes)] ==
        IF k = 0 THEN Held(s, Root, ds)
        ELSE met[k - 1] \union UNION {s.clear[m] : m \in met[k - 1]}
  IN  met[Cardinality(Nodes)]

(* GetDisclosedClaims: what is left once the digests are cleared away.     *)
(* An array member in clear that ends up empty is dropped with its name.   *)
Reached(s, ds) ==
  LET walked == Walked(s, ds)
      met[k \in 0..Cardinality(Nodes)] ==
        IF k = 0 THEN {Root}
        ELSE met[k - 1] \union
             UNION {IF m \in walked THEN Held(s, m, ds) ELSE s.clear[m] : m \in met[k - 1]}
  IN  met[Cardinality(Nodes)]

Emptied(s, ds) ==
  {n \in UNION {s.clear[m] : m \in {w \in Walked(s, ds) : Kind[w] = "object"}} :
     Kind[n] = "array" /\ Held(s, n, ds) = {}}

GetDisclosedClaims(s, ds) == Reached(s, ds) \ ({Root} \union Emptied(s, ds))

-----------------------------------------------------------------------------
(* VerifyJWT, for the expiry.                                              *)
VerifyJWT(s) == s.exp # None => now <= s.exp + Leeway

(* Mutant: only the audience of the binding is compared.                   *)
VerifyHolderBindingAudience(v, b) == Policy[v].expects => b.aud = v

(* verifyHolderBindingJWT, the same as verifyKeyBindingJWT.                *)
VerifyHolderBindingJWT(v, b) == Policy[v].expects => b.nonce = nonce[v] /\ b.aud = v

(* runHolderVerification, with the key the SD-JWT confirms.                *)
HolderVerified(v, p) ==
  /\ Policy[v].required => p.binding # None
  /\ p.binding # None =>
       /\ sdjwt.cnf # None /\ p.binding.key = sdjwt.cnf
       /\ VerifyHolderBindingJWT(v, p.binding)

(* verifier.Parse: time, duplicate disclosures, disclosures, binding.  The *)
(* SD-JWT has the signature of an issuer the verifier knows, made with one *)
(* of the algorithms it accepts.                                           *)
Accepts(v, p) ==
  /\ VerifyJWT(sdjwt)
  /\ ~p.repeated
  /\ VerifyDisclosures(sdjwt, p.disclosures)
  /\ HolderVerified(v, p)

-----------------------------------------------------------------------------

Init ==
  /\ sdjwt = None /\ parsed = None
  /\ nonce = [v \in Verifiers |-> 0] /\ sessions = 0
  /\ presentation = None /\ now = 1 /\ last = None

(* The holder receives an SD-JWT that issuer.New made, of claims or of a   *)
(* credential, or some other.                                              *)
Issue(opts) ==
  /\ sdjwt = None
  /\ sdjwt' = New(opts)
  /\ UNCHANGED <<parsed, nonce, sessions, presentation, now, last>>
IssueCredential(opts) ==
  /\ sdjwt = None
  /\ sdjwt' = MakeSDJWT(opts)
  /\ UNCHANGED <<parsed, nonce, sessions, presentation, now, last>>
IssueElsewhere(s) ==
  /\ sdjwt = None
  /\ sdjwt' = s
  /\ UNCHANGED <<parsed, nonce, sessions, presentation, now, last>>

(* holder.Parse, without the optional validation of version 5.             *)
Parse ==
  /\ sdjwt # None /\ parsed = None
  /\ parsed' = IF VerifyDisclosures(sdjwt, sdjwt.disclosures) THEN "parsed" ELSE "refused"
  /\ UNCHANGED <<sdjwt, nonce, sessions, presentation, now, last>>

(* A verifier begins a session with a fresh nonce for the binding.         *)
StartSession(v) ==
  /\ sessions < MaxSessions
  /\ sessions' = sessions + 1
  /\ nonce' = [nonce EXCEPT ![v] = sessions + 1]
  /\ UNCHANGED <<sdjwt, parsed, presentation, now, last>>

(* The bindings a holder can sign (CreateHolderVerification): nonces are   *)
(* those it has been given.  What the verifiers expect by then is noted.   *)
Bindings ==
  {None} \union [key : sdjwt.keys, nonce : {nonce[v] : v \in Verifiers} \ {0}, aud : Verifiers, made : {nonce}]

Combined(ds, twice, b) == [disclosures |-> ds, repeated |-> twice, binding |-> b]

(* holder.CreatePresentation: an SD-JWT without disclosures, and a         *)
(* disclosure that is not of the SD-JWT, are errors.  A selection that     *)
(* names a disclosure twice is not.                                        *)
CreatePresentation(ds, twice, b) ==
  /\ parsed = "parsed" /\ presentation = None
  /\ sdjwt.disclosures # {} /\ ds \subseteq sdjwt.disclosures
  /\ twice => ds # {}
  /\ presentation' = Combined(ds, twice, b)
  /\ UNCHANGED <<sdjwt, parsed, nonce, sessions, now, last>>

(* Credential.MarshalWithDisclosure: all disclosures, or by names, and     *)
(* then for each name one disclosure that has it, whichever is last in the *)
(* list; names that no disclosure has are left out.                        *)
FilterDisclosures(ds) ==
  \/ ds = sdjwt.disclosures
  \/ /\ \A d \in ds : Kind[Parent[d]] # "array"
     /\ \A d1, d2 \in ds : Name[d1] = Name[d2] => d1 = d2

MarshalWithDisclosure(ds, b) ==
  /\ parsed = "parsed" /\ presentation = None
  /\ ds \subseteq sdjwt.disclosures /\ FilterDisclosures(ds)
  /\ presentation' = Combined(ds, FALSE, b)
  /\ UNCHANGED <<sdjwt, parsed, nonce, sessions, now, last>>

(* verifier.Parse of the presentation, whenever it is delivered.           *)
Verify(v) ==
  /\ presentation # None
  /\ last' = [v |-> v, ok |-> Accepts(v, presentation),
              claims |-> IF Accepts(v, presentation)
                         THEN GetDisclosedClaims(sdjwt, presentation.disclosures) ELSE {}]
  /\ UNCHANGED <<sdjwt, parsed, nonce, sessions, presentation, now>>

Tick ==
  /\ now < MaxTime
  /\ now' = now + 1
  /\ UNCHANGED <<sdjwt, parsed, nonce, sessions, presentation, last>>

Next ==
  \/ \E opts \in IssuerOptions : Issue(opts) \/ IssueCredential(opts)
  \/ \E s \in OtherSDJWTs : IssueElsewhere(s)
  \/ Parse
  \/ \E v \in Verifiers : StartSession(v) \/ Verify(v)
  \/ /\ sdjwt # None
     /\ \E ds \in SUBSET Nodes, b \in Bindings :
          \/ \E twice \in BOOLEAN : CreatePresentation(ds, twice, b)
          \/ MarshalWithDisclosure(ds, b)
  \/ Tick

Spec == Init /\ [][Next]_vars

-----------------------------------------------------------------------------

(* The claims on the way from the payload to a claim, itself included.     *)
Way(n) ==
  LET way[m \in Containers] == IF m = Root THEN {} ELSE {m} \union way[Parent[m]]
  IN  way[n]

Issued == sdjwt # None /\ sdjwt.opts # None

(* What a verifier learns from an SD-JWT of this issuer is what the holder *)
(* selected: a claim is among the verified claims exactly if every         *)
(* disclosure on the way to it was presented (and it is not an array kept  *)
(* in clear none of whose elements was).                                   *)
DisclosedExactly ==
  Issued /\ last # None /\ last.ok =>
    LET hidden == Hidden(sdjwt.opts)
    IN  last.claims = {n \in Nodes : Way(n) \intersect hidden \subseteq presentation.disclosures}
                        \ Emptied(sdjwt, presentation.disclosures)

(* A value that the options do not declare non-selectively disclosable,    *)
(* itself or with something it is in, is never seen by a verifier unless   *)
(* the holder presented it or something on the way to it, whatever the     *)
(* version and the options on structure.                                   *)
NothingUnasked ==
  Issued /\ last # None /\ last.ok =>
    \A n \in last.claims :
      Kind[n] = "atom" /\ Way(n) \intersect sdjwt.opts.nonSD = {} =>
        Way(n) \intersect presentation.disclosures # {}

(* The holder accepts what the issuer made, except that version 5 lists    *)
(* decoys as disclosures, which do not parse; and a verifier accepts what  *)
(* the holder presents of it, in time and with the binding it expects, if  *)
(* with each disclosure the ones on the way to it are presented, once.     *)
Proper(v, p) ==
  /\ ~p.repeated
  /\ LET hidden == Hidden(sdjwt.opts)
     IN  \A d \in p.disclosures : Way(d) \intersect hidden \subseteq p.disclosures
  /\ IF p.binding = None THEN ~Policy[v].required
     ELSE p.binding.key = sdjwt.cnf /\ (Policy[v].expects => p.binding.nonce = nonce[v] /\ p.binding.aud = v)
IssuedIsUsable ==
  Issued =>
    /\ parsed = "refused" <=> parsed # None /\ sdjwt.opts.version = 5 /\ sdjwt.opts.decoys
    /\ presentation # None /\ VerifyJWT(sdjwt) =>
         \A v \in Verifiers : Proper(v, presentation) => Accepts(v, presentation)

(* Whoever made the SD-JWT, in what a verifier accepts no claim takes the  *)
(* place of another: the members of an object it is shown differ in name,  *)
(* and each disclosure has one place.                                      *)
NoClaimReplaced ==
  last # None /\ last.ok =>
    LET ds == presentation.disclosures
        walked == Walked(sdjwt, ds)
    IN  \A m \in walked :
          /\ Kind[m] = "object" =>
               \A n1, n2 \in Held(sdjwt, m, ds) : n1 # n2 => Name[n1] # Name[n2]
          /\ \A l \in walked \ {m} : Held(sdjwt, l, ds) \intersect Held(sdjwt, m, ds) = {}

(* A verifier that expects a nonce and an audience accepts a binding only  *)
(* in a presentation that the holder made for it after it began the        *)
(* session, with the key the issuer confirmed; presentations of earlier    *)
(* sessions and for other verifiers are refused however late or often they *)
(* arrive.                                                                 *)
BoundToSession ==
  [][last' # last /\ last'.ok =>
       LET p == presentation
       IN  /\ Policy[last'.v].required => p.binding # None
           /\ p.binding # None => p.binding.key = sdjwt.cnf
           /\ p.binding # None /\ Policy[last'.v].expects =>
                p.binding.made[last'.v] = nonce[last'.v] /\ p.binding.aud = last'.v]_vars
=============================================================================

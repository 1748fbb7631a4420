----------------------- MODULE ApplyRequirement_proof -----------------------
(***************************************************************************)
(* Proofs about ApplyRequirement, for every number of descriptors, every   *)
(* set of definitions and every wallet.                                    *)
(***************************************************************************)
EXTENDS ApplyRequirement, FiniteSetTheorems, WellFoundedInduction, TLAPS

Sols == Iterator!Solutions(Logic)

(* The descriptors of the call that turned out to have no credential.      *)
Failed == evaluated \ DOMAIN matches

(* The inductive invariant.  A failed descriptor is in none of the         *)
(* solutions to come, except between its failure and the next call of the  *)
(* iterator, when it is in exclude.                                        *)
RunInv ==
  pc # "idle" =>
    /\ outcome = "none"
    /\ DOMAIN matches \subseteq evaluated
    /\ pool \subseteq Sols
    /\ exclude \subseteq Failed
    /\ \A s \in pool : s \intersect (Failed \ exclude) = {}

EvalInv ==
  IF pc = "eval"
  THEN /\ exclude = {}
       /\ sol \in Sols
       /\ sol \intersect Failed = {}
       /\ sol \ todo \subseteq DOMAIN matches
  ELSE todo = {}

MatchInv == \A d \in DOMAIN matches : matches[d] # {}

Inv == TypeOK /\ RunInv /\ EvalInv /\ MatchInv /\ SolvedIsSolution

(* The logic is a function of the definition of the call.                  *)
LEMMA LogicFixed == UNCHANGED pd => Logic' = Logic
BY DEF Logic

(* So are its solutions.                                                   *)
LEMMA SolsFixed == UNCHANGED pd => Sols' = Sols
BY LogicFixed DEF Sols, Iterator!Solutions

(* Solutions are sets of input descriptors: SearchAssumption.              *)
LEMMA SolutionsAreDescriptors ==
  ASSUME NEW p \in Definitions
  PROVE  Iterator!Solutions(MakeLogic(Descriptors, p.srs, p.top)) \subseteq SUBSET Descriptors
BY SearchAssumption DEF Iterator!Solutions, GetAllDescriptors, Iterator!GetAllDescriptors

(* The invariant holds before the first call.                              *)
LEMMA InitInv == Init => Inv
<1> SUFFICES ASSUME Init PROVE Inv
  OBVIOUS
<1>1. TypeOK
  BY SearchAssumption DEF Init, TypeOK
<1>2. QED
  BY <1>1 DEF Init, Inv, RunInv, EvalInv, MatchInv, SolvedIsSolution

(* The invariant on a step of the loops, action by action.                 *)
LEMMA StepInv == Inv /\ [Next]_vars => Inv'
<1> SUFFICES ASSUME Inv, [Next]_vars PROVE Inv'
  OBVIOUS
<1> USE DEF Inv, TypeOK, RunInv, EvalInv, MatchInv, SolvedIsSolution, Failed
<1>1. ASSUME NEW p \in Definitions, CreateVP(p) PROVE Inv'
  <2>1. pd' \in Definitions /\ Sols' \subseteq SUBSET Descriptors
    <3>1. pd' = p
      BY <1>1 DEF CreateVP
    <3>2. QED
      BY ONLY <3>1, SolutionsAreDescriptors DEF Sols, Logic
  <2>2. pool' \subseteq Sols'
    BY <1>1 DEF CreateVP, Sols, Iterator!Solutions
  <2>3. TypeOK'
    BY <1>1, <2>1, <2>2, SearchAssumption DEF CreateVP
  <2>4. QED
    BY <1>1, <2>2, <2>3 DEF CreateVP
<1>2. CASE NextSolution
  <2>1. UNCHANGED pd /\ Sols' = Sols
    BY <1>2, SolsFixed DEF NextSolution
  <2>2. PICK s \in pool : s \intersect exclude = {} /\ sol' = s
                         /\ pool' = {t \in pool : t \intersect exclude = {}} \ {s}
    BY <1>2 DEF NextSolution, Iterator!Return, Iterator!Without
  <2>3. TypeOK'
    BY <1>2, <2>2 DEF NextSolution
  <2>4. RunInv'
    BY <1>2, <2>1, <2>2 DEF NextSolution
  <2>5. EvalInv'
    BY <1>2, <2>1, <2>2 DEF NextSolution
  <2>6. QED
    BY <1>2, <2>3, <2>4, <2>5 DEF NextSolution
<1>3. CASE NoMoreSolutions
  <2>1. sol' = {} /\ pool' = {}
    BY <1>3 DEF NoMoreSolutions, Iterator!Exhaust
  <2>2. QED
    BY <1>3, <2>1 DEF NoMoreSolutions
<1>4. ASSUME NEW d \in todo, Revisit(d) PROVE Inv'
  <2>1. Sols' = Sols
    BY <1>4, SolsFixed DEF Revisit
  <2>2. d \in DOMAIN matches
    BY <1>4 DEF Revisit
  <2>3. QED
    BY <1>4, <2>1, <2>2 DEF Revisit
<1>5. ASSUME NEW d \in todo, Evaluate(d) PROVE Inv'
  <2>1. Sols' = Sols
    BY <1>5, SolsFixed DEF Evaluate
  <2>2. Matching(d) \subseteq Creds
    BY DEF Matching, FilterConstraints, FilterFormat
  <2>3. disclosed' \in [Creds -> SUBSET UNION {wallet[c].sd : c \in Creds}]
    BY <1>5 DEF Evaluate, NarrowedBy, LimitedDisclosures
  <2>4. CASE Matching(d) # {}
    <3>1. /\ DOMAIN matches' = DOMAIN matches \union {d}
          /\ \A e \in DOMAIN matches' : matches'[e] = IF e = d THEN Matching(d) ELSE matches[e]
      BY <1>5, <2>4 DEF Evaluate
    <3>2. TypeOK'
      BY <1>5, <2>2, <2>3, <2>4, <3>1 DEF Evaluate
    <3>3. QED
      BY <1>5, <2>1, <2>4, <3>1, <3>2 DEF Evaluate
  <2>5. CASE Matching(d) = {}
    <3>1. TypeOK'
      BY <1>5, <2>3, <2>5 DEF Evaluate
    <3>2. QED
      BY <1>5, <2>1, <2>5, <3>1 DEF Evaluate
  <2>6. QED
    BY <2>4, <2>5
<1>6. ASSUME NEW d \in todo, EvaluateFails(d) PROVE Inv'
  <2>1. disclosed' \in [Creds -> SUBSET UNION {wallet[c].sd : c \in Creds}]
    BY <1>6 DEF EvaluateFails, NarrowedBy, LimitedDisclosures
  <2>2. QED
    BY <1>6, <2>1 DEF EvaluateFails
<1>7. CASE Solved
  <2>1. Sols' = Sols
    BY <1>7, SolsFixed DEF Solved
  <2>2. \A d \in sol : \E p \in Pairs : p[1] = d
    <3> TAKE d \in sol
    <3>1. PICK c \in matches[d] : TRUE
      BY <1>7 DEF Solved
    <3>2. <<d, c>> \in Pairs
      BY <3>1 DEF Pairs
    <3>3. QED
      BY <3>2
  <2>3. DOMAIN submission' = Pairs
    BY <1>7 DEF Solved
  <2>4. QED
    BY <1>7, <2>1, <2>2, <2>3 DEF Solved, Sols
<1>8. CASE UNCHANGED vars
  <2>1. Sols' = Sols
    BY <1>8, SolsFixed DEF vars
  <2>2. QED
    BY <1>8, <2>1 DEF vars, Sols
<1>9. QED
  BY <1>1, <1>2, <1>3, <1>4, <1>5, <1>6, <1>7, <1>8 DEF Next, Step

(* The inductive invariant, from which the theorems below follow.          *)
THEOREM Invariance == Spec => []Inv
BY InitInv, StepInv, PTL DEF Spec

(* Every variable keeps its type, whatever the definitions and wallets.    *)
THEOREM TypeCorrect == Spec => []TypeOK
BY Invariance, PTL DEF Inv

(* CreateVP succeeds only with a set of descriptors that satisfies the     *)
(* logic of the definition and has a credential for each of them.          *)
THEOREM Soundness == Spec => []SolvedIsSolution
BY Invariance, PTL DEF Inv

(* The branch of the inner loop for a descriptor that failed in an earlier *)
(* solution is dead code: the iterator never hands such a descriptor out.  *)
THEOREM NoFailedAgain == Spec => []NoFailedDescriptorAgain
<1>1. Inv => NoFailedDescriptorAgain
  BY DEF Inv, TypeOK, EvalInv, Failed, NoFailedDescriptorAgain
<1>2. QED
  BY <1>1, Invariance, PTL

(* No step of a call takes back what an earlier step of it decided about a *)
(* descriptor.                                                             *)
THEOREM FinalVerdicts == Spec => VerdictsAreFinal
<1> DEFINE Kept == calls' = calls =>
              /\ evaluated \subseteq evaluated'
              /\ \A d \in evaluated : /\ d \in DOMAIN matches <=> d \in DOMAIN matches'
                                      /\ d \in DOMAIN matches => matches'[d] = matches[d]
<1>1. Inv /\ [Next]_vars => [Kept]_vars
  <2> SUFFICES ASSUME Inv, Next PROVE Kept
    BY DEF vars
  <2>1. ASSUME NEW p \in Definitions, CreateVP(p) PROVE Kept
    BY <2>1, SearchAssumption DEF CreateVP, Inv, TypeOK
  <2>2. ASSUME NEW d \in todo, Evaluate(d) PROVE Kept
    BY <2>2 DEF Evaluate
  <2>3. QED
    BY <2>1, <2>2 DEF Next, Step, NextSolution, NoMoreSolutions, Revisit, EvaluateFails, Solved
<1>2. QED
  BY <1>1, Invariance, PTL DEF Spec, VerdictsAreFinal

-----------------------------------------------------------------------------
(***************************************************************************)
(* Completeness: while no SD-JWT has lost a disclosure, and with at most   *)
(* one accepted format for a descriptor, ErrNoCredentials means what it    *)
(* says.  Both conditions are needed.                                      *)
(***************************************************************************)

OneFormat ==
  \A p \in Definitions, d \in Descriptors :
    p.formats[d] \subseteq Nat /\ \A f, g \in p.formats[d] : f = g

(* No solution gets lost: it is still to come, it holds a failed           *)
(* descriptor, or it is under examination.  Disclosures only get fewer, so *)
(* a wallet found untouched was untouched all along.                       *)
CompleteInv ==
  /\ \A c \in Creds : disclosed[c] \subseteq wallet[c].sd
  /\ Untouched /\ pc # "idle" =>
       /\ \A d \in Failed, c \in Creds : ~ Answers(d, c)
       /\ \A s \in Sols : \/ s \in pool
                          \/ s \intersect Failed # {}
                          \/ pc = "eval" /\ s = sol
  /\ NoCredentialsMeansUnsatisfiable

(* Whether a credential answers a descriptor by itself does not change     *)
(* during a call.                                                          *)
LEMMA AnswersFixed ==
  UNCHANGED <<pd, wallet>> => \A d, c : Answers(d, c)' = Answers(d, c)
BY DEF Answers, Limitable

(* A credential that answers a descriptor by itself passes the filters.    *)
LEMMA AnswersMatch ==
  ASSUME OneFormat, pd \in Definitions, NEW d \in Descriptors, NEW c \in Creds,
         Untouched, Answers(d, c)
  PROVE  c \in Matching(d)
<1>1. c \in FilterFormat(d)
  <2> DEFINE present == {f \in pd.formats[d] : \E e \in Creds : f \in wallet[e].formats}
  <2>1. CASE pd.formats[d] = {}
    BY <2>1 DEF FilterFormat
  <2>2. CASE pd.formats[d] # {}
    <3>1. PICK f \in pd.formats[d] : f \in wallet[c].formats
      BY <2>2 DEF Answers
    <3>2. f \in Nat /\ \A g \in pd.formats[d] : g = f
      BY <3>1 DEF OneFormat
    <3>3. present = {f}
      BY <3>1, <3>2
    <3>4. First(present) = f
      BY <3>2, <3>3 DEF First
    <3>5. QED
      BY <2>2, <3>1, <3>3, <3>4 DEF FilterFormat
  <2>3. QED
    BY <2>1, <2>2
<1>2. QED
  BY <1>1 DEF Matching, FilterConstraints, Visible, Answers, Untouched

(* Looking at a descriptor takes disclosures away and adds none.           *)
LEMMA NarrowedShrinks ==
  ASSUME NEW d, NEW S, NEW c \in Creds
  PROVE  NarrowedBy(d, S)[c] \subseteq disclosed[c]
BY DEF NarrowedBy, LimitedDisclosures

(* The stronger invariant of completeness holds initially ...              *)
LEMMA CompleteInit == Init => CompleteInv
BY DEF Init, CompleteInv, NoCredentialsMeansUnsatisfiable

(* ... and every step of a call keeps it.                                  *)
LEMMA CompleteStep ==
  ASSUME OneFormat
  PROVE  Inv /\ CompleteInv /\ [Next]_vars => CompleteInv'
<1> SUFFICES ASSUME Inv, CompleteInv, [Next]_vars PROVE CompleteInv'
  OBVIOUS
<1> USE DEF CompleteInv, Failed, Untouched
<1>1. ASSUME NEW p \in Definitions, CreateVP(p) PROVE CompleteInv'
  BY <1>1 DEF CreateVP, Sols, NoCredentialsMeansUnsatisfiable
<1>2. CASE NextSolution
  <2>1. Sols' = Sols /\ \A d, c : Answers(d, c)' = Answers(d, c)
    BY <1>2, SolsFixed, AnswersFixed DEF NextSolution
  <2>2. PICK s \in pool : sol' = s /\ pool' = {t \in pool : t \intersect exclude = {}} \ {s}
    BY <1>2 DEF NextSolution, Iterator!Return, Iterator!Without
  <2>3. exclude \subseteq Failed /\ outcome' # "unsatisfied"
    BY <1>2 DEF NextSolution, Inv, RunInv
  <2>4. QED
    BY <1>2, <2>1, <2>2, <2>3 DEF NextSolution, NoCredentialsMeansUnsatisfiable
<1>3. CASE NoMoreSolutions
  <2>1. Sols' = Sols /\ \A d, c : Answers(d, c)' = Answers(d, c)
    BY <1>3, SolsFixed, AnswersFixed DEF NoMoreSolutions
  <2>2. Untouched => \A s \in Sols : s \intersect Failed # {}
    BY <1>3 DEF NoMoreSolutions, Iterator!Exhaust, Iterator!Without, Inv, RunInv
  <2>3. Untouched => ~Satisfiable
    BY <1>3, <2>2 DEF NoMoreSolutions, Satisfiable, Sols
  <2>4. Satisfiable' = Satisfiable
    BY <2>1 DEF Satisfiable, Sols
  <2>5. NoCredentialsMeansUnsatisfiable'
    BY <1>3, <2>3, <2>4 DEF NoMoreSolutions, NoCredentialsMeansUnsatisfiable
  <2>6. QED
    BY <1>3, <2>5 DEF NoMoreSolutions
<1>4. ASSUME NEW d \in todo, Revisit(d) PROVE CompleteInv'
  <2>1. Sols' = Sols /\ \A e, c : Answers(e, c)' = Answers(e, c)
    BY <1>4, SolsFixed, AnswersFixed DEF Revisit
  <2>2. d \in DOMAIN matches /\ outcome' # "unsatisfied"
    BY <1>4 DEF Revisit, Inv, TypeOK, RunInv, EvalInv
  <2>3. QED
    BY <1>4, <2>1, <2>2 DEF Revisit, NoCredentialsMeansUnsatisfiable
<1>5. ASSUME NEW d \in todo, Evaluate(d) PROVE CompleteInv'
  <2>1. Sols' = Sols /\ \A e, c : Answers(e, c)' = Answers(e, c)
    BY <1>5, SolsFixed, AnswersFixed DEF Evaluate
  <2>2. outcome' # "unsatisfied" /\ d \in Descriptors /\ pd \in Definitions /\ d \in sol
    BY <1>5 DEF Evaluate, Inv, TypeOK, RunInv
  <2>3. \A c \in Creds : disclosed'[c] \subseteq disclosed[c]
    BY <1>5, NarrowedShrinks DEF Evaluate
  <2>4. (\A c \in Creds : disclosed'[c] \subseteq wallet'[c].sd) /\ (Untouched' => Untouched)
    BY <1>5, <2>3 DEF Evaluate
  <2>5. CASE Matching(d) # {}
    <3>1. Failed' = Failed
      BY <1>5, <2>5 DEF Evaluate
    <3>2. QED
      BY <1>5, <2>1, <2>2, <2>4, <2>5, <3>1 DEF Evaluate, NoCredentialsMeansUnsatisfiable
  <2>6. CASE Matching(d) = {}
    <3>1. Failed' = Failed \union {d}
      BY <1>5, <2>6 DEF Evaluate, Inv, RunInv
    <3>2. Untouched => \A c \in Creds : ~ Answers(d, c)
      BY <2>2, <2>6, AnswersMatch
    <3>3. QED
      BY <1>5, <2>1, <2>2, <2>4, <2>6, <3>1, <3>2 DEF Evaluate, NoCredentialsMeansUnsatisfiable
  <2>7. QED
    BY <2>5, <2>6
<1>6. ASSUME NEW d \in todo, EvaluateFails(d) PROVE CompleteInv'
  <2>1. \A c \in Creds : disclosed'[c] \subseteq disclosed[c]
    BY <1>6, NarrowedShrinks DEF EvaluateFails
  <2>2. QED
    BY <1>6, <2>1 DEF EvaluateFails, NoCredentialsMeansUnsatisfiable
<1>7. CASE Solved
  BY <1>7 DEF Solved, NoCredentialsMeansUnsatisfiable
<1>8. CASE UNCHANGED vars
  <2>1. Sols' = Sols /\ \A d, c : Answers(d, c)' = Answers(d, c)
    BY <1>8, SolsFixed, AnswersFixed DEF vars
  <2>2. Satisfiable' = Satisfiable
    BY <2>1 DEF Satisfiable, Sols
  <2>3. QED
    BY <1>8, <2>1, <2>2 DEF vars, NoCredentialsMeansUnsatisfiable
<1>9. QED
  BY <1>1, <1>2, <1>3, <1>4, <1>5, <1>6, <1>7, <1>8 DEF Next, Step

(* ErrNoCredentials is returned only when no set of descriptors that       *)
(* satisfies the definition can be answered from the wallet, unless a call *)
(* has taken disclosures away.                                             *)
THEOREM Completeness ==
  ASSUME OneFormat
  PROVE  Spec => []NoCredentialsMeansUnsatisfiable
<1>1. CompleteInv => NoCredentialsMeansUnsatisfiable
  BY DEF CompleteInv
<1>2. Spec => []CompleteInv
  BY CompleteInit, CompleteStep, Invariance, PTL DEF Spec
<1>3. QED
  BY <1>1, <1>2, PTL
-----------------------------------------------------------------------------
(***************************************************************************)
(* What is presented: every field that is asked for and, where disclosure  *)
(* is limited, nothing else.  merge tells the credentials of a wallet      *)
(* apart by their ids.                                                     *)
(***************************************************************************)

IdsDiffer ==
  \A w \in Wallets : \A c, e \in Creds : w[c].id = w[e].id => c = e

LEMMA LeastNumber ==
  ASSUME NEW S, S \subseteq Nat, S # {}
  PROVE  \E n \in S : \A m \in S : n <= m
<1> DEFINE R == OpToRel(<, Nat)
<1>1. IsWellFoundedOn(R, Nat)
  BY NatLessThanWellFounded
<1>2. \A x, y \in Nat : <<x, y>> \in R <=> x < y
  BY DEF OpToRel
<1> HIDE DEF R
<1>3. PICK n \in S : \A m \in S : <<m, n>> \notin R
  BY <1>1, WFMin
<1>4. ASSUME NEW m \in S PROVE n <= m
  <2>1. m \in Nat /\ n \in Nat
    OBVIOUS
  <2>2. ~(m < n)
    BY <1>2, <1>3, <2>1
  <2> QED BY <2>1, <2>2
<1> QED BY <1>4

(* Pairs of numbers have a first one, in the order merge goes through them. *)
LEMMA FirstPair ==
  ASSUME NEW S, S \subseteq Nat \X Nat, S # {}
  PROVE  \E q \in S : \A r \in S : Before(q, r)
<1> DEFINE A == {p[1] : p \in S}
<1>1. A \subseteq Nat /\ A # {}
  OBVIOUS
<1>2. PICK a \in A : \A x \in A : a <= x
  <2> HIDE DEF A
  <2> QED BY <1>1, LeastNumber
<1> DEFINE B == {p[2] : p \in {r \in S : r[1] = a}}
<1>3. B \subseteq Nat /\ B # {}
  BY <1>2
<1>4. PICK b \in B : \A x \in B : b <= x
  <2> HIDE DEF B
  <2> QED BY <1>3, LeastNumber
<1>5. PICK q \in S : q[1] = a /\ q[2] = b
  BY <1>4
<1>6. ASSUME NEW r \in S PROVE Before(q, r)
  <2>1. r[1] \in A /\ r[1] \in Nat /\ a \in Nat /\ a <= r[1]
    BY <1>1, <1>2
  <2>2. r[1] = a => r[2] \in B /\ b <= r[2]
    BY <1>4
  <2> QED BY <1>5, <2>1, <2>2 DEF Before
<1> QED BY <1>6

(* merge points a descriptor to a credential that it matches, or, for one  *)
(* that is not made anew, to a match of another descriptor with the same   *)
(* id.                                                                     *)
LEMMA MergedFacts ==
  ASSUME Inv, sol \subseteq DOMAIN matches, NEW p \in Pairs
  PROVE  /\ p[1] \in Descriptors /\ p[1] \in DOMAIN matches
         /\ p[2] \in Creds /\ p[2] \in matches[p[1]]
         /\ Merged(p) \in Pairs /\ UniqueID(Merged(p)) = UniqueID(p)
<1> DEFINE S == {q \in Pairs : UniqueID(q) = UniqueID(p)}
<1>1. ASSUME NEW q \in Pairs
      PROVE  /\ q \in Descriptors \X Creds /\ q[1] \in DOMAIN matches /\ q[2] \in matches[q[1]]
  <2>1. PICK d \in sol : q \in {d} \X matches[d]
    BY DEF Pairs
  <2>2. d \in Descriptors /\ d \in DOMAIN matches /\ matches[d] \subseteq Creds
    BY DEF Inv, TypeOK
  <2> QED BY <2>1, <2>2
<1>2. S \subseteq Nat \X Nat
  <2>1. Descriptors \subseteq Nat /\ Creds \subseteq Nat
    BY SearchAssumption DEF Descriptors
  <2> QED BY <1>1, <2>1
<1>3. \E q \in S : \A r \in S : Before(q, r)
  <2>1. S # {}
    OBVIOUS
  <2> HIDE DEF S
  <2> QED BY <1>2, <2>1, FirstPair
<1>4. \E q \in Pairs : /\ UniqueID(q) = UniqueID(p)
                       /\ \A r \in Pairs : UniqueID(r) = UniqueID(p) => Before(q, r)
  BY <1>3
<1>5. Merged(p) \in Pairs /\ UniqueID(Merged(p)) = UniqueID(p)
  BY <1>4 DEF Merged
<1> QED BY <1>1, <1>5

LEMMA MergedIsSame ==
  ASSUME IdsDiffer, Inv, sol \subseteq DOMAIN matches, NEW p \in Pairs
  PROVE  /\ IsFresh(p[1], p[2]) => Merged(p) = p
         /\ ~IsFresh(p[1], p[2]) => ~IsFresh(Merged(p)[1], Merged(p)[2]) /\ Merged(p)[2] = p[2]
<1> PICK q : q = Merged(p)
  OBVIOUS
<1>1. q \in Pairs /\ UniqueID(q) = UniqueID(p)
  BY MergedFacts
<1>2. /\ p[1] \in Descriptors /\ q[1] \in Descriptors /\ 0 \notin Descriptors
      /\ p[2] \in Creds /\ q[2] \in Creds
  BY <1>1, MergedFacts DEF Descriptors
<1>3. ASSUME NEW r, IsFresh(r[1], r[2]), NEW s, ~IsFresh(s[1], s[2]), r[1] \in Descriptors
      PROVE  UniqueID(r) # UniqueID(s)
  <2>1. UniqueID(r) = r /\ UniqueID(s)[1] = 0
    BY <1>3 DEF UniqueID
  <2> QED BY <1>2, <1>3, <2>1
<1>4. CASE IsFresh(p[1], p[2])
  BY <1>1, <1>2, <1>3, <1>4 DEF UniqueID
<1>5. CASE ~IsFresh(p[1], p[2])
  <2>1. ~IsFresh(q[1], q[2])
    BY <1>1, <1>2, <1>3, <1>5
  <2>2. wallet[q[2]].id = wallet[p[2]].id
    BY <1>1, <1>5, <2>1 DEF UniqueID
  <2> QED BY <1>2, <1>5, <2>1, <2>2 DEF IdsDiffer, Inv, TypeOK
<1> QED BY <1>4, <1>5
(* What a match still shows, and what it shows no more.                    *)
StillShows(d, c) ==
  /\ d \in pd.constrained /\ ~SharedSdJwt(c) /\ pd.fields[d] \intersect wallet[c].deep = {}
  => pd.fields[d] \subseteq Visible(c)
IsLimited(d, c) ==
  d \in pd.limit /\ wallet[c].kind = "sdjwt" =>
    disclosed[c] \subseteq pd.fields[d] \union wallet[c].elements

PickedInv ==
  /\ outcome = "solved" =>
       pc = "idle" /\ sol \subseteq DOMAIN matches /\ submission = [p \in Pairs |-> Merged(p)]
  /\ pc # "idle" \/ outcome = "solved" =>
       \A d \in DOMAIN matches : \A c \in matches[d] : StillShows(d, c) /\ IsLimited(d, c)

(* Nothing else changes what the matches show.                             *)
LEMMA MatchesStay ==
  ASSUME UNCHANGED <<wallet, disclosed, pd, matches>>
  PROVE  \A d, c : (StillShows(d, c) => StillShows(d, c)') /\ (IsLimited(d, c) => IsLimited(d, c)')
BY DEF StillShows, IsLimited, SharedSdJwt, Visible

(* A new match shows the fields after it was limited; an earlier one still *)
(* does, unless the new match is the same SD-JWT.                          *)
LEMMA EvaluatingKeepsMatches ==
  ASSUME Inv, PickedInv, NEW d \in todo, Evaluate(d), Matching(d) # {}
  PROVE  \A e \in DOMAIN matches' : \A c \in matches'[e] : StillShows(e, c)' /\ IsLimited(e, c)'
<1>1. /\ pc = "eval" /\ UNCHANGED <<wallet, pd>> /\ disclosed' = NarrowedBy(d, Matching(d))
      /\ DOMAIN matches' = DOMAIN matches \union {d}
      /\ \A e \in DOMAIN matches' : matches'[e] = IF e = d THEN Matching(d) ELSE matches[e]
      /\ d \notin DOMAIN matches
  BY DEF Evaluate, Inv, RunInv
<1>2. Matching(d) \subseteq Creds /\ \A e \in DOMAIN matches : matches[e] \subseteq Creds
  BY DEF Matching, FilterConstraints, FilterFormat, Inv, TypeOK
<1> SUFFICES ASSUME NEW e \in DOMAIN matches', NEW c \in matches'[e]
             PROVE  StillShows(e, c)' /\ IsLimited(e, c)'
  OBVIOUS
<1>3. c \in Creds /\ disclosed'[c] \subseteq disclosed[c]
      /\ disclosed'[c] = IF c \in Matching(d) /\ wallet[c].kind = "sdjwt" /\ d \in pd.limit
                         THEN LimitedDisclosures(d, c) ELSE disclosed[c]
  BY <1>1, <1>2, NarrowedShrinks DEF NarrowedBy
<1>4. CASE e = d
  <2>1. c \in Matching(d)
    BY <1>1, <1>4
  <2>2. d \in pd.constrained => pd.fields[d] \subseteq wallet[c].open \union disclosed[c]
    BY <2>1 DEF Matching, FilterConstraints, Visible
  <2>3. IsLimited(e, c)'
    BY <1>1, <1>3, <1>4, <2>1 DEF IsLimited, LimitedDisclosures
  <2>4. StillShows(e, c)'
    BY <1>1, <1>3, <1>4, <2>1, <2>2 DEF StillShows, LimitedDisclosures, Visible
  <2> QED BY <2>3, <2>4
<1>5. CASE e # d
  <2>1. e \in DOMAIN matches /\ c \in matches[e] /\ matches'[e] = matches[e]
    BY <1>1, <1>5
  <2>2. StillShows(e, c) /\ IsLimited(e, c)
    BY <1>1, <2>1 DEF PickedInv
  <2>3. IsLimited(e, c)'
    BY <1>1, <1>3, <2>2 DEF IsLimited
  <2>4. ASSUME ~SharedSdJwt(c)' PROVE ~SharedSdJwt(c) /\ disclosed'[c] = disclosed[c]
    <3>1. \A f \in DOMAIN matches : f \in DOMAIN matches' /\ matches'[f] = matches[f]
      BY <1>1
    <3>2. ~SharedSdJwt(c)
      BY <1>1, <2>4, <3>1 DEF SharedSdJwt
    <3>3. c \in Matching(d) => wallet[c].kind # "sdjwt"
      BY <1>1, <1>5, <2>1, <2>4 DEF SharedSdJwt
    <3> QED BY <1>3, <3>2, <3>3
  <2>5. StillShows(e, c)'
    BY <1>1, <2>2, <2>4 DEF StillShows, Visible
  <2> QED BY <2>3, <2>5
<1> QED BY <1>4, <1>5

LEMMA PickedStep == Inv /\ PickedInv /\ [Next]_vars => PickedInv'
<1> SUFFICES ASSUME Inv, PickedInv, [Next]_vars PROVE PickedInv'
  OBVIOUS
<1>1. ASSUME NEW p \in Definitions, CreateVP(p) PROVE PickedInv'
  BY <1>1 DEF CreateVP, PickedInv
<1>2. CASE NextSolution \/ \E d \in todo : Revisit(d)
  <2>1. /\ UNCHANGED <<wallet, disclosed, pd, matches>>
        /\ outcome' = outcome /\ outcome = "none" /\ pc # "idle"
    BY <1>2 DEF NextSolution, Revisit, Inv, RunInv
  <2> QED BY <2>1, MatchesStay DEF PickedInv
<1>3. CASE NoMoreSolutions
  BY <1>3 DEF NoMoreSolutions, PickedInv
<1>4. ASSUME NEW d \in todo, Evaluate(d) PROVE PickedInv'
  <2>1. outcome' # "solved" /\ pc # "idle"
    BY <1>4 DEF Evaluate, Inv, RunInv
  <2>2. CASE Matching(d) # {}
    BY <1>4, <2>1, <2>2, EvaluatingKeepsMatches DEF PickedInv
  <2>3. CASE Matching(d) = {}
    <3>1. UNCHANGED <<wallet, pd, matches>> /\ disclosed' = disclosed
      BY <1>4, <2>3 DEF Evaluate, NarrowedBy, Inv, TypeOK
    <3> QED BY <2>1, <3>1, MatchesStay DEF PickedInv
  <2> QED BY <2>2, <2>3
<1>5. ASSUME NEW d \in todo, EvaluateFails(d) PROVE PickedInv'
  BY <1>5 DEF EvaluateFails, PickedInv
<1>6. CASE Solved
  <2>1. /\ UNCHANGED <<wallet, disclosed, pd, matches, sol>> /\ pc = "eval" /\ todo = {}
        /\ submission' = [p \in Pairs |-> Merged(p)] /\ pc' = "idle"
    BY <1>6 DEF Solved
  <2>2. sol \subseteq DOMAIN matches
    BY <2>1 DEF Inv, EvalInv
  <2>3. Pairs' = Pairs
    BY <2>1 DEF Pairs
  <2>4. [p \in Pairs |-> Merged(p)]' = [p \in Pairs |-> Merged(p)]
    BY <2>1, <2>3 DEF Merged, UniqueID, IsFresh
  <2> QED BY <2>1, <2>2, <2>4, MatchesStay DEF PickedInv
<1>7. CASE UNCHANGED vars
  <2>1. UNCHANGED <<wallet, disclosed, pd, matches, sol, submission, outcome, pc>>
    BY <1>7 DEF vars
  <2>2. Pairs' = Pairs
    BY <2>1 DEF Pairs
  <2>3. [p \in Pairs |-> Merged(p)]' = [p \in Pairs |-> Merged(p)]
    BY <2>1, <2>2 DEF Merged, UniqueID, IsFresh
  <2> QED BY <2>1, <2>3, MatchesStay DEF PickedInv
<1> QED BY <1>1, <1>2, <1>3, <1>4, <1>5, <1>6, <1>7 DEF Next, Step

LEMMA Picked == Spec => []PickedInv
<1>1. Init => PickedInv
  BY DEF Init, PickedInv
<1> QED BY <1>1, PickedStep, Invariance, PTL DEF Spec

(* PresentedStillAnswers: merging and limiting never take a field away     *)
(* that the descriptor asks for, save through a second descriptor that     *)
(* matches the same SD-JWT, or a field inside another disclosed object.    *)
THEOREM AlwaysStillAnswers ==
  ASSUME IdsDiffer
  PROVE  Spec => []PresentedStillAnswers
<1>1. Inv /\ PickedInv => PresentedStillAnswers
  <2> SUFFICES ASSUME Inv, PickedInv, outcome = "solved", NEW p \in DOMAIN submission,
                      p[1] \in pd.constrained, ~SharedSdJwt(p[2]),
                      pd.fields[p[1]] \intersect wallet[p[2]].deep = {}
               PROVE  pd.fields[p[1]] \subseteq Shown(p)
    BY DEF PresentedStillAnswers
  <2>1. sol \subseteq DOMAIN matches /\ p \in Pairs /\ submission[p] = Merged(p)
    BY DEF PickedInv
  <2>2. pd.fields[p[1]] \subseteq Visible(p[2])
    BY <2>1, MergedFacts DEF PickedInv, StillShows
  <2>3. \/ Merged(p) = p
        \/ ~IsFresh(Merged(p)[1], Merged(p)[2]) /\ Merged(p)[2] = p[2]
    BY <2>1, MergedIsSame
  <2> QED BY <2>1, <2>2, <2>3 DEF Shown
<1> QED BY <1>1, Picked, Invariance, PTL

(* NothingBeyondTheFields: limit_disclosure, by a new credential or by     *)
(* taking disclosures away.                                                *)
THEOREM AlwaysNothingBeyond ==
  ASSUME IdsDiffer
  PROVE  Spec => []NothingBeyondTheFields
<1>1. Inv /\ PickedInv => NothingBeyondTheFields
  <2> SUFFICES ASSUME Inv, PickedInv, outcome = "solved", NEW p \in DOMAIN submission,
                      p[1] \in pd.limit
               PROVE  Shown(p) \subseteq pd.fields[p[1]] \union
                        (IF wallet[p[2]].kind = "sdjwt"
                         THEN wallet[p[2]].open \union wallet[p[2]].elements ELSE {})
    BY DEF NothingBeyondTheFields
  <2>1. sol \subseteq DOMAIN matches /\ p \in Pairs /\ submission[p] = Merged(p)
    BY DEF PickedInv
  <2>2. CASE wallet[p[2]].kind = "sdjwt"
    <3>1. ~IsFresh(p[1], p[2])
      BY <2>2 DEF IsFresh
    <3>2. ~IsFresh(Merged(p)[1], Merged(p)[2]) /\ Merged(p)[2] = p[2]
      BY <2>1, <3>1, MergedIsSame
    <3>3. disclosed[p[2]] \subseteq pd.fields[p[1]] \union wallet[p[2]].elements
      BY <2>1, <2>2, MergedFacts DEF PickedInv, IsLimited
    <3> QED BY <2>1, <2>2, <3>2, <3>3 DEF Shown, Visible
  <2>3. CASE wallet[p[2]].kind # "sdjwt"
    <3>1. IsFresh(p[1], p[2]) /\ Merged(p) = p
      BY <2>1, <2>3, MergedIsSame DEF IsFresh
    <3> QED BY <2>1, <3>1 DEF Shown
  <2> QED BY <2>2, <2>3
<1> QED BY <1>1, Picked, Invariance, PTL
-----------------------------------------------------------------------------
(***************************************************************************)
(* The logic means what the submission requirements say, if beside rule    *)
(* "all" min and max, where they are given, admit everything.              *)
(***************************************************************************)

AllTakesAll ==
  \A p \in Definitions : \A n \in DOMAIN p.srs :
    LET r == p.srs[n]
    IN  r.rule = "all" => r.min <= Total(r) /\ (r.max = 0 \/ Total(r) <= r.max)

Nests(srs, top, k) ==
  /\ DOMAIN srs \subseteq 2..k /\ top \subseteq DOMAIN srs
  /\ \A n \in DOMAIN srs :
       LET r == srs[n] IN
       /\ r \in Requirement(DOMAIN srs)
       /\ \A m \in r.nested : n < m
       /\ r.rule = "all" => r.min <= Total(r) /\ (r.max = 0 \/ Total(r) <= r.max)

(* Induction up to b, over a set of numbers.                               *)
LEMMA UpTo ==
  ASSUME NEW b \in Nat, NEW S, 0 \in S, \A i \in 0..b : i # b /\ i \in S => i + 1 \in S
  PROVE  0..b \subseteq S
<1> DEFINE T == (0..b) \ S
<1> SUFFICES ASSUME T # {} PROVE FALSE
  OBVIOUS
<1>1. T \subseteq Nat
  OBVIOUS
<1>2. PICK t \in T : \A u \in T : t <= u
  <2> HIDE DEF T
  <2> QED BY <1>1, LeastNumber
<1>3. t \in 1..b /\ t - 1 \in 0..b /\ t - 1 # b
  OBVIOUS
<1>4. t - 1 \notin T
  BY <1>2, <1>3
<1>5. t - 1 + 1 \in S /\ t - 1 + 1 = t
  BY <1>3, <1>4
<1> QED BY <1>5

(* A finite set of numbers has a bound.                                    *)
LEMMA Bounded ==
  ASSUME NEW T, IsFiniteSet(T), T \subseteq Nat
  PROVE  \E k \in Nat : T \subseteq 0..k
<1> DEFINE b == Cardinality(T)
           Q(i) == \A U \in SUBSET Nat : IsFiniteSet(U) /\ Cardinality(U) = i => \E k \in Nat : U \subseteq 0..k
           S == {i \in 0..b : Q(i)}
<1>1. b \in Nat
  BY FS_CardinalityType
<1> HIDE DEF b
<1>2. 0 \in S
  <2>1. ASSUME NEW U \in SUBSET Nat, IsFiniteSet(U), Cardinality(U) = 0 PROVE \E k \in Nat : U \subseteq 0..k
    <3>1. U = {}
      BY <2>1, FS_EmptySet
    <3>2. U \subseteq 0..0 /\ 0 \in Nat
      BY <3>1
    <3> QED BY <3>2
  <2> QED BY <1>1, <2>1
<1>3. ASSUME NEW i \in 0..b, i # b, i \in S PROVE i + 1 \in S
  <2>1. ASSUME NEW U \in SUBSET Nat, IsFiniteSet(U), Cardinality(U) = i + 1
        PROVE  \E k \in Nat : U \subseteq 0..k
    <3>1. i \in Nat /\ i + 1 # 0
      OBVIOUS
    <3>2. PICK x : x \in U
      <4>1. U # {}
        BY <2>1, <3>1, FS_EmptySet
      <4> QED BY <4>1
    <3>3. IsFiniteSet(U \ {x}) /\ Cardinality(U \ {x}) = i
      <4>1. IsFiniteSet(U) /\ Cardinality(U) = i + 1
        BY <2>1
      <4>2. IsFiniteSet(U \ {x}) /\ Cardinality(U \ {x}) = Cardinality(U) - 1
        BY <3>2, <4>1, FS_RemoveElement
      <4> QED BY <3>1, <4>1, <4>2
    <3>4. PICK k \in Nat : U \ {x} \subseteq 0..k
      <4>1. U \ {x} \in SUBSET Nat
        OBVIOUS
      <4> QED BY <1>3, <3>3, <4>1
    <3>5. x \in Nat /\ k + x \in Nat /\ 0..k \subseteq 0..(k + x) /\ x \in 0..(k + x)
      BY <3>2
    <3>6. U \subseteq 0..(k + x)
      BY <3>4, <3>5
    <3> QED BY <3>5, <3>6
  <2>2. i + 1 \in 0..b
    BY <1>1, <1>3
  <2> QED BY <2>1, <2>2
<1>4. b \in S
  <2> HIDE DEF S
  <2>1. 0..b \subseteq S
    BY <1>1, <1>2, <1>3, UpTo
  <2> QED BY <1>1, <2>1
<1> QED BY <1>4 DEF b

(* The nodes nested in n that h holds of, and a recursion over nodes in    *)
(* which the value of a node depends on them alone: it has a solution.     *)
Holding(kids, h, n) == {m \in kids[n] : h[m] = TRUE}

HasSolution(S, kids, G) ==
  \E h : h = [n \in S |-> h[n]] /\ \A n \in S : h[n] = G[<<n, Holding(kids, h, n)>>]

LEMMA TreeRecursion ==
  ASSUME NEW S, NEW k \in Nat, S \subseteq 1..k, NEW kids,
         \A n \in S : kids[n] \subseteq S /\ \A m \in kids[n] : n < m,
         NEW G
  PROVE  HasSolution(S, kids, G)
<1> DEFINE Solves(h, i) == \A n \in S : n > k - i => h[n] = G[<<n, Holding(kids, h, n)>>]
           Q == {i \in 0..k : \E h : Solves(h, i)}
<1>1. 0 \in Q
  <2>1. Solves([n \in S |-> FALSE], 0)
    <3>1. \A n \in S : n \in Int /\ n <= k
      OBVIOUS
    <3>2. \A n \in S : ~(n > k - 0)
      BY <3>1
    <3> QED BY <3>2
  <2>2. 0 \in 0..k
    OBVIOUS
  <2> HIDE DEF Solves
  <2> QED BY <2>1, <2>2
<1>2. ASSUME NEW i \in 0..k, i # k, i \in Q PROVE i + 1 \in Q
  <2>1. PICK h : Solves(h, i)
    BY <1>2
  <2> DEFINE g == [n \in S |-> IF n > k - i THEN h[n] ELSE G[<<n, Holding(kids, h, n)>>]]
  <2>2. ASSUME NEW n \in S, n > k - (i + 1) PROVE g[n] = G[<<n, Holding(kids, g, n)>>]
    <3>1. n \in Int /\ n >= k - i
      BY <2>2
    <3>2. ASSUME NEW m \in kids[n] PROVE m \in S /\ m > k - i
      <4>1. m \in S /\ n < m
        OBVIOUS
      <4>2. m \in Int /\ k - i \in Int
        BY <4>1
      <4> QED BY <3>1, <4>1, <4>2
    <3>3. \A m \in kids[n] : g[m] = h[m]
      BY <3>2
    <3>4. Holding(kids, g, n) = Holding(kids, h, n)
      <4> HIDE DEF g
      <4> QED BY <3>3 DEF Holding
    <3>5. g[n] = G[<<n, Holding(kids, h, n)>>]
      BY <2>1
    <3> QED BY <3>4, <3>5
  <2>3. Solves(g, i + 1)
    BY <2>2
  <2>4. i + 1 \in 0..k
    BY <1>2
  <2> HIDE DEF Solves, g
  <2> QED BY <2>3, <2>4
<1>3. k \in Q
  <2> HIDE DEF Q
  <2>1. 0..k \subseteq Q
    BY <1>1, <1>2, UpTo
  <2> QED BY <2>1
<1>4. PICK h : Solves(h, k)
  BY <1>3
<1> DEFINE g == [n \in S |-> h[n]]
<1>5. ASSUME NEW n \in S PROVE g[n] = G[<<n, Holding(kids, g, n)>>]
  <2>1. \A m \in kids[n] : g[m] = h[m]
    OBVIOUS
  <2>2. Holding(kids, g, n) = Holding(kids, h, n)
    <3> HIDE DEF g
    <3> QED BY <2>1 DEF Holding
  <2>3. n > k - k
    <3>1. n \in 1..k
      OBVIOUS
    <3> QED BY <3>1
  <2> QED BY <1>4, <2>2, <2>3
<1>6. g = [n \in S |-> g[n]]
  OBVIOUS
<1> HIDE DEF g
<1> QED BY <1>5, <1>6 DEF HasSolution

(* One node: the bounds that toLogic sets say what the rule says, of any   *)
(* part of what the requirement ranges over.                               *)
Ranged(r) == IF r.nested = {} THEN r.from ELSE r.nested

LEMMA NodeAgrees ==
  ASSUME NEW nodes, IsFiniteSet(nodes), NEW r \in Requirement(nodes),
         r.rule = "all" => r.min <= Total(r) /\ (r.max = 0 \/ Total(r) <= r.max),
         NEW got \in SUBSET Ranged(r)
  PROVE  /\ ToLogic(r).nested = r.nested /\ ToLogic(r).from = r.from
         /\ IsLenApplicable(ToLogic(r), Cardinality(got)) <=>
              \/ r.rule = "all" /\ got = Ranged(r)
              \/ r.rule = "pick" /\ IsLenApplicable(r, Cardinality(got))
<1> DEFINE total == Total(r)
           n == Cardinality(got)
           count == IF r.rule = "all" THEN total ELSE r.count
           max == IF count = 0 /\ r.max = 0 THEN total ELSE r.max
<1>1. /\ r.rule \in {"all", "pick"} /\ r.count \in Nat /\ r.min \in Nat /\ r.max \in Nat
      /\ r.from \subseteq Descriptors /\ r.nested \subseteq nodes
      /\ r = [rule |-> r.rule, count |-> r.count, min |-> r.min, max |-> r.max,
              from |-> r.from, nested |-> r.nested]
  BY DEF Requirement
<1>2. IsFiniteSet(Ranged(r)) /\ total = Cardinality(Ranged(r))
  <2>1. N \in Int /\ 1 \in Int
    BY SearchAssumption
  <2>2. IsFiniteSet(Descriptors)
    BY <2>1, FS_Interval DEF Descriptors
  <2>3. IsFiniteSet(r.from) /\ IsFiniteSet(r.nested)
    BY <1>1, <2>2, FS_Subset
  <2> QED BY <2>3 DEF Ranged, Total
<1>3. total \in Nat /\ n \in Nat /\ n <= total /\ (n = total => got = Ranged(r))
  BY <1>2, FS_Subset, FS_CardinalityType
<1>4. got = Ranged(r) => n = total
  BY <1>2
<1>5. /\ ToLogic(r).count = count /\ ToLogic(r).min = r.min /\ ToLogic(r).max = max
      /\ ToLogic(r).nested = r.nested /\ ToLogic(r).from = r.from
  <2>1. PICK c, m : c = count /\ m = max
    OBVIOUS
  <2>2. ToLogic(r) = [r EXCEPT !.count = c, !.max = m]
    BY <2>1 DEF ToLogic
  <2>3. PICK q : q = [r EXCEPT !.count = c]
    OBVIOUS
  <2>4. q = [rule |-> r.rule, count |-> c, min |-> r.min, max |-> r.max,
             from |-> r.from, nested |-> r.nested]
    BY <1>1, <2>3
  <2>5. ToLogic(r) = [q EXCEPT !.max = m]
    BY <2>2, <2>3
  <2>6. ToLogic(r) = [rule |-> r.rule, count |-> c, min |-> r.min, max |-> m,
                      from |-> r.from, nested |-> r.nested]
    BY <2>4, <2>5
  <2> QED BY <2>1, <2>6
<1> HIDE DEF total, n
<1>6. CASE r.rule = "all"
  BY <1>1, <1>3, <1>4, <1>5, <1>6 DEF IsLenApplicable, total, n
<1>7. CASE r.rule = "pick"
  BY <1>1, <1>3, <1>5, <1>7 DEF IsLenApplicable, n
<1> QED BY <1>1, <1>5, <1>6, <1>7
(* IsSatisfiedBy and Fulfils by the equations of their recursions.         *)
Counted(logic, descs, h, n) ==
  IF logic[n].nested = {} THEN logic[n].from \intersect descs ELSE {m \in logic[n].nested : h[m] = TRUE}

LEMMA SatisfiedUnfolds ==
  ASSUME NEW logic, NEW k \in Nat, DOMAIN logic \subseteq 1..k, 1 \in DOMAIN logic,
         \A n \in DOMAIN logic : /\ logic[n].nested \subseteq DOMAIN logic
                                 /\ \A m \in logic[n].nested : n < m,
         NEW descs
  PROVE  \E h : /\ IsSatisfiedBy(logic, descs) <=> h[1] = TRUE
                /\ \A n \in DOMAIN logic :
                     h[n] = IsLenApplicable(logic[n], Cardinality(Counted(logic, descs, h, n)))
<1> DEFINE S == DOMAIN logic
           kids == [n \in S |-> logic[n].nested]
           G == [x \in S \X SUBSET S |->
                   IsLenApplicable(logic[x[1]],
                     Cardinality(IF logic[x[1]].nested = {}
                                 THEN logic[x[1]].from \intersect descs ELSE x[2]))]
           At(h, n) == IsLenApplicable(logic[n],
                         Cardinality(IF logic[n].nested = {}
                                     THEN logic[n].from \intersect descs
                                     ELSE {m \in logic[n].nested : h[m]}))
           Q(h) == h = [n \in S |-> At(h, n)]
           f == CHOOSE h : Q(h)
<1>1. IsSatisfiedBy(logic, descs) <=> f[1]
  BY DEF IsSatisfiedBy
<1>0. \A r, val : IsLenApplicable(r, val) \in BOOLEAN
  BY DEF IsLenApplicable
<1>2. PICK h : h = [n \in S |-> h[n]] /\ \A n \in S : h[n] = G[<<n, Holding(kids, h, n)>>]
  <2>1. \A n \in S : kids[n] \subseteq S /\ \A m \in kids[n] : n < m
    OBVIOUS
  <2>2. S \subseteq 1..k
    OBVIOUS
  <2>3. HasSolution(S, kids, G)
    <3> HIDE DEF S, kids, G, Q, f
    <3> QED BY <2>1, <2>2, TreeRecursion
  <2> HIDE DEF S, kids, G, Q, f
  <2> QED BY <2>3 DEF HasSolution
<1>3. ASSUME NEW n \in S PROVE G[<<n, Holding(kids, h, n)>>] = At(h, n)
  <2>1. Holding(kids, h, n) = {m \in logic[n].nested : h[m] = TRUE}
    BY DEF Holding
  <2>2. \A m \in logic[n].nested : h[m] \in BOOLEAN
    <3> SUFFICES ASSUME NEW m \in S PROVE h[m] \in BOOLEAN
      OBVIOUS
    <3>1. h[m] = G[<<m, Holding(kids, h, m)>>] /\ <<m, Holding(kids, h, m)>> \in S \X SUBSET S
      <4> HIDE DEF G
      <4> QED BY <1>2 DEF Holding
    <3> QED BY <1>0, <3>1
  <2>3. Holding(kids, h, n) = {m \in logic[n].nested : h[m]}
    BY <2>1, <2>2
  <2>4. <<n, Holding(kids, h, n)>> \in S \X SUBSET S
    BY <2>1
  <2> QED BY <2>3, <2>4
<1>4. Q(h)
  <2>1. ASSUME NEW n \in S PROVE h[n] = At(h, n)
    <3> HIDE DEF At, G, kids
    <3> QED BY <1>2, <1>3
  <2>2. h = [n \in S |-> h[n]]
    BY <1>2
  <2> HIDE DEF At
  <2> QED BY <2>1, <2>2
<1>5. Q(f)
  <2> HIDE DEF Q
  <2> QED BY <1>4
<1>6. \A n \in S : f[n] \in BOOLEAN
  <2> HIDE DEF f
  <2> QED BY <1>0, <1>5
<1>7. ASSUME NEW n \in S
      PROVE  f[n] = IsLenApplicable(logic[n], Cardinality(Counted(logic, descs, f, n)))
  <2>1. {m \in logic[n].nested : f[m]} = {m \in logic[n].nested : f[m] = TRUE}
    BY <1>6
  <2> QED BY <1>5, <2>1 DEF Counted
<1> QED BY <1>1, <1>6, <1>7
RuleHolds(r, got) ==
  \/ r.rule = "all" /\ got = Ranged(r)
  \/ r.rule = "pick" /\ IsLenApplicable(r, Cardinality(got))

LEMMA FulfilsUnfolds ==
  ASSUME NEW srs, NEW top, NEW k \in Nat, Nests(srs, top, k), NEW descs
  PROVE  \E h : /\ Fulfils(Descriptors, srs, top, descs) <=>
                     IF top = {} THEN descs = Descriptors ELSE \A n \in top : h[n] = TRUE
                /\ \A n \in DOMAIN srs : h[n] = RuleHolds(srs[n], Counted(srs, descs, h, n))
<1> DEFINE S == DOMAIN srs
           kids == [n \in S |-> srs[n].nested]
           G == [x \in S \X SUBSET S |->
                   RuleHolds(srs[x[1]],
                     IF srs[x[1]].nested = {} THEN srs[x[1]].from \intersect descs ELSE x[2])]
           At(h, n) == LET r == srs[n]
                           got == IF r.nested = {} THEN r.from \intersect descs ELSE {m \in r.nested : h[m]}
                       IN  \/ r.rule = "all" /\ got = (IF r.nested = {} THEN r.from ELSE r.nested)
                           \/ r.rule = "pick" /\ IsLenApplicable(r, Cardinality(got))
           Q(h) == h = [n \in S |-> At(h, n)]
           f == CHOOSE h : Q(h)
<1>1. Fulfils(Descriptors, srs, top, descs) <=>
        IF top = {} THEN descs = Descriptors ELSE \A n \in top : f[n]
  BY DEF Fulfils
<1>0. \A r, got : RuleHolds(r, got) \in BOOLEAN
  BY DEF RuleHolds
<1>8. S \subseteq 1..k /\ top \subseteq S /\ \A n \in S : kids[n] \subseteq S /\ \A m \in kids[n] : n < m
  BY DEF Nests, Requirement
<1>2. PICK h : h = [n \in S |-> h[n]] /\ \A n \in S : h[n] = G[<<n, Holding(kids, h, n)>>]
  <2>3. HasSolution(S, kids, G)
    <3> HIDE DEF S, kids, G, Q, f
    <3> QED BY <1>8, TreeRecursion
  <2> HIDE DEF S, kids, G, Q, f
  <2> QED BY <2>3 DEF HasSolution
<1>3. ASSUME NEW n \in S PROVE G[<<n, Holding(kids, h, n)>>] = At(h, n)
  <2>1. Holding(kids, h, n) = {m \in srs[n].nested : h[m] = TRUE}
    BY DEF Holding
  <2>2. \A m \in srs[n].nested : h[m] \in BOOLEAN
    <3> SUFFICES ASSUME NEW m \in S PROVE h[m] \in BOOLEAN
      BY <1>8
    <3>1. h[m] = G[<<m, Holding(kids, h, m)>>] /\ <<m, Holding(kids, h, m)>> \in S \X SUBSET S
      <4> HIDE DEF G
      <4> QED BY <1>2, <1>8 DEF Holding
    <3> QED BY <1>0, <3>1
  <2>3. Holding(kids, h, n) = {m \in srs[n].nested : h[m]}
    BY <2>1, <2>2
  <2>4. <<n, Holding(kids, h, n)>> \in S \X SUBSET S
    BY <1>8, <2>1
  <2> QED BY <2>3, <2>4 DEF RuleHolds, Ranged
<1>4. Q(h)
  <2>1. ASSUME NEW n \in S PROVE h[n] = At(h, n)
    <3> HIDE DEF At, G, kids
    <3> QED BY <1>2, <1>3
  <2>2. h = [n \in S |-> h[n]]
    BY <1>2
  <2> HIDE DEF At
  <2> QED BY <2>1, <2>2
<1>5. Q(f)
  <2> HIDE DEF Q
  <2> QED BY <1>4
<1>6. \A n \in S : f[n] \in BOOLEAN
  <2> HIDE DEF f
  <2> QED BY <1>5
<1>7. ASSUME NEW n \in S PROVE f[n] = RuleHolds(srs[n], Counted(srs, descs, f, n))
  <2>1. {m \in srs[n].nested : f[m]} = {m \in srs[n].nested : f[m] = TRUE}
    BY <1>6, <1>8
  <2>2. f[n] = At(f, n)
    <3> HIDE DEF At, f
    <3> QED BY <1>5
  <2> HIDE DEF f
  <2> QED BY <2>1, <2>2 DEF Counted, RuleHolds, Ranged
<1> HIDE DEF f
<1> QED BY <1>1, <1>6, <1>7, <1>8
(* The root that makeRequirement adds.                                     *)
Root(top) ==
  [rule |-> "all", count |-> 0, min |-> 0, max |-> 0,
   from |-> IF top = {} THEN Descriptors ELSE {}, nested |-> top]

LEMMA RootIsAll ==
  ASSUME NEW nodes, IsFiniteSet(nodes), NEW top \in SUBSET nodes
  PROVE  /\ Root(top) \in Requirement(nodes)
         /\ Root(top).min <= Total(Root(top)) /\ Root(top).max = 0
<1>1. Root(top) \in Requirement(nodes)
  BY DEF Root, Requirement
<1>2. N \in Int /\ 1 \in Int
  BY SearchAssumption
<1>3. IsFiniteSet(Descriptors) /\ IsFiniteSet(top)
  BY <1>2, FS_Interval, FS_Subset DEF Descriptors
<1>4. IsFiniteSet({}) /\ \A T : IsFiniteSet(T) => Cardinality(T) \in Nat
  BY FS_EmptySet, FS_CardinalityType
<1>5. Total(Root(top)) \in Nat
  BY <1>3, <1>4 DEF Root, Total
<1> QED BY <1>1, <1>5 DEF Root

(* The whole forest, node by node from the innermost ones outwards.        *)
LEMMA LogicAgrees ==
  ASSUME NEW srs, NEW top, NEW k \in Nat, Nests(srs, top, k), NEW descs \in SUBSET Descriptors
  PROVE  IsSatisfiedBy(MakeLogic(Descriptors, srs, top), descs) <=> Fulfils(Descriptors, srs, top, descs)
<1> DEFINE S == DOMAIN srs
           L == MakeLogic(Descriptors, srs, top)
<1>1. /\ IsFiniteSet(S) /\ S \subseteq 2..k /\ top \subseteq S /\ 1 \notin S
      /\ \A n \in S : /\ srs[n] \in Requirement(S) /\ srs[n].nested \subseteq S
                      /\ \A m \in srs[n].nested : n < m
  <2>1. 2 \in Int /\ k \in Int
    OBVIOUS
  <2>2. IsFiniteSet(2..k)
    BY <2>1, FS_Interval
  <2>3. S \subseteq 2..k /\ top \subseteq S
    BY DEF Nests
  <2>4. IsFiniteSet(S)
    BY <2>2, <2>3, FS_Subset
  <2>5. \A n \in S : /\ srs[n] \in Requirement(S) /\ \A m \in srs[n].nested : n < m
    BY DEF Nests
  <2>6. \A r \in Requirement(S) : r.nested \subseteq S
    BY DEF Requirement
  <2> QED BY <2>3, <2>4, <2>5, <2>6
<1>2. /\ DOMAIN L = S \union {1}
      /\ L[1] = ToLogic(Root(top)) /\ \A n \in S : L[n] = ToLogic(srs[n])
  BY <1>1 DEF MakeLogic, Root
<1> HIDE DEF L
<1>3. ASSUME NEW n \in S
      PROVE  /\ L[n].nested = srs[n].nested /\ L[n].from = srs[n].from
             /\ \A got \in SUBSET Ranged(srs[n]) :
                  IsLenApplicable(L[n], Cardinality(got)) <=> RuleHolds(srs[n], got)
  <2>1. PICK r : r = srs[n]
    OBVIOUS
  <2>2. r \in Requirement(S) /\ L[n] = ToLogic(r)
    BY <1>1, <1>2, <2>1
  <2>3. r.rule = "all" => r.min <= Total(r) /\ (r.max = 0 \/ Total(r) <= r.max)
    BY <2>1 DEF Nests
  <2>4. \A got \in SUBSET Ranged(r) :
          /\ ToLogic(r).nested = r.nested /\ ToLogic(r).from = r.from
          /\ IsLenApplicable(ToLogic(r), Cardinality(got)) <=> RuleHolds(r, got)
    <3> HIDE DEF S
    <3> QED BY <1>1, <2>2, <2>3, NodeAgrees DEF RuleHolds
  <2>5. {} \in SUBSET Ranged(r)
    OBVIOUS
  <2> QED BY <2>1, <2>2, <2>4, <2>5
<1>4. /\ L[1].nested = top /\ L[1].from = IF top = {} THEN Descriptors ELSE {}
      /\ \A got \in SUBSET Ranged(Root(top)) :
           IsLenApplicable(L[1], Cardinality(got)) <=> got = Ranged(Root(top))
  <2>1. PICK r : r = Root(top)
    OBVIOUS
  <2>2. r \in Requirement(S) /\ L[1] = ToLogic(r) /\ r.min <= Total(r) /\ r.max = 0
    <3> HIDE DEF S
    <3> QED BY <1>1, <1>2, <2>1, RootIsAll
  <2>3. \A got \in SUBSET Ranged(r) :
          /\ ToLogic(r).nested = r.nested /\ ToLogic(r).from = r.from
          /\ IsLenApplicable(ToLogic(r), Cardinality(got)) <=> RuleHolds(r, got)
    <3> HIDE DEF S
    <3> QED BY <1>1, <2>2, NodeAgrees DEF RuleHolds
  <2>4. {} \in SUBSET Ranged(r)
    OBVIOUS
  <2>5. /\ r.rule = "all" /\ r.nested = top
        /\ r.from = IF top = {} THEN Descriptors ELSE {}
    BY <2>1 DEF Root
  <2>6. \A got : RuleHolds(r, got) <=> got = Ranged(r)
    BY <2>5 DEF RuleHolds
  <2> QED BY <2>1, <2>2, <2>3, <2>4, <2>5, <2>6
<1>5. PICK h : /\ IsSatisfiedBy(L, descs) <=> h[1] = TRUE
               /\ \A n \in DOMAIN L :
                    h[n] = IsLenApplicable(L[n], Cardinality(Counted(L, descs, h, n)))
  <2>1. DOMAIN L \subseteq 1..(k + 1) /\ 1 \in DOMAIN L /\ k + 1 \in Nat
    BY <1>1, <1>2
  <2>2. ASSUME NEW n \in DOMAIN L
        PROVE  L[n].nested \subseteq DOMAIN L /\ \A m \in L[n].nested : n < m
    <3>1. CASE n = 1
      BY <1>1, <1>2, <1>4, <3>1
    <3>2. CASE n \in S
      BY <1>1, <1>2, <1>3, <3>2
    <3> QED BY <1>2, <3>1, <3>2
  <2> HIDE DEF S
  <2> QED BY <2>1, <2>2, SatisfiedUnfolds
<1>6. PICK g : /\ Fulfils(Descriptors, srs, top, descs) <=>
                    IF top = {} THEN descs = Descriptors ELSE \A n \in top : g[n] = TRUE
               /\ \A n \in S : g[n] = RuleHolds(srs[n], Counted(srs, descs, g, n))
  BY FulfilsUnfolds
<1> DEFINE A == {i \in 0..k : \A n \in S : n > k - i => (h[n] = TRUE <=> g[n] = TRUE)}
<1>7. 0 \in A
  <2>1. \A n \in S : n \in Int /\ n <= k
    BY <1>1
  <2> QED BY <2>1
<1>8. ASSUME NEW i \in 0..k, i # k, i \in A PROVE i + 1 \in A
  <2>1. i + 1 \in 0..k
    BY <1>8
  <2>2. ASSUME NEW n \in S, n > k - (i + 1) PROVE h[n] = TRUE <=> g[n] = TRUE
    <3>1. n \in Int /\ n >= k - i
      BY <1>1, <2>2
    <3>2. ASSUME NEW m \in srs[n].nested PROVE h[m] = TRUE <=> g[m] = TRUE
      <4>1. m \in S /\ n < m /\ m \in Int
        BY <1>1
      <4>2. m > k - i
        BY <3>1, <4>1
      <4> QED BY <1>8, <4>1, <4>2
    <3>3. Counted(L, descs, h, n) = Counted(srs, descs, g, n)
      BY <1>3, <3>2 DEF Counted
    <3>4. Counted(srs, descs, g, n) \in SUBSET Ranged(srs[n])
      BY DEF Counted, Ranged
    <3>5. h[n] = IsLenApplicable(L[n], Cardinality(Counted(srs, descs, g, n)))
      BY <1>2, <1>5, <3>3
    <3>6. g[n] = RuleHolds(srs[n], Counted(srs, descs, g, n))
      BY <1>6
    <3>7. IsLenApplicable(L[n], Cardinality(Counted(srs, descs, g, n))) <=>
            RuleHolds(srs[n], Counted(srs, descs, g, n))
      BY <1>3, <3>4
    <3> QED BY <3>5, <3>6, <3>7
  <2> QED BY <2>1, <2>2
<1>9. \A n \in S : h[n] = TRUE <=> g[n] = TRUE
  <2>1. 0..k \subseteq A
    <3> HIDE DEF A
    <3> QED BY <1>7, <1>8, UpTo
  <2>2. k \in A
    <3> HIDE DEF A
    <3> QED BY <2>1
  <2>3. \A n \in S : n > k - k
    BY <1>1
  <2> QED BY <2>2, <2>3
<1>10. h[1] = TRUE <=> Counted(L, descs, h, 1) = Ranged(Root(top))
  <2>1. Counted(L, descs, h, 1) \in SUBSET Ranged(Root(top))
    BY <1>4 DEF Counted, Ranged, Root
  <2>2. h[1] = IsLenApplicable(L[1], Cardinality(Counted(L, descs, h, 1)))
    BY <1>2, <1>5
  <2>3. IsLenApplicable(L[1], Cardinality(Counted(L, descs, h, 1))) <=>
          Counted(L, descs, h, 1) = Ranged(Root(top))
    BY <1>4, <2>1
  <2> QED BY <2>2, <2>3
<1>11. CASE top = {}
  <2>1. Counted(L, descs, h, 1) = Descriptors \intersect descs /\ Ranged(Root(top)) = Descriptors
    BY <1>4, <1>11 DEF Counted, Ranged, Root
  <2> QED BY <1>5, <1>6, <1>10, <1>11, <2>1 DEF L
<1>12. CASE top # {}
  <2>1. Counted(L, descs, h, 1) = {m \in top : h[m] = TRUE} /\ Ranged(Root(top)) = top
    BY <1>4, <1>12 DEF Counted, Ranged, Root
  <2>2. (\A n \in top : g[n] = TRUE) <=> {m \in top : h[m] = TRUE} = top
    BY <1>1, <1>9
  <2> QED BY <1>5, <1>6, <1>10, <1>12, <2>1, <2>2 DEF L
<1> QED BY <1>11, <1>12

(* If AllTakesAll, the search runs on a logic that says what a definition's *)
(* submission requirements say.                                            *)
THEOREM AlwaysLogicMeansRules ==
  ASSUME AllTakesAll
  PROVE  Spec => []LogicMeansRules
<1>1. TypeOK => LogicMeansRules
  <2> SUFFICES ASSUME TypeOK, NEW s \in SUBSET Descriptors
               PROVE  IsSatisfiedBy(Logic, s) <=> Fulfils(Descriptors, pd.srs, pd.top, s)
    BY DEF LogicMeansRules
  <2>1. PICK k \in Nat : Nests(pd.srs, pd.top, k)
    <3>1. pd \in Definitions
      BY DEF TypeOK
    <3>2. IsForest(pd.srs, pd.top)
      BY <3>1, SearchAssumption
    <3>3. IsFiniteSet(DOMAIN pd.srs) /\ DOMAIN pd.srs \subseteq Nat \ {0, 1}
      BY <3>2 DEF IsForest
    <3>4. PICK k \in Nat : DOMAIN pd.srs \subseteq 0..k
      BY <3>3, Bounded
    <3>5. DOMAIN pd.srs \subseteq 2..k
      BY <3>3, <3>4
    <3> QED BY <3>1, <3>2, <3>5 DEF IsForest, Nests, AllTakesAll
  <2>2. PICK srs, top : srs = pd.srs /\ top = pd.top
    OBVIOUS
  <2>3. IsSatisfiedBy(MakeLogic(Descriptors, srs, top), s) <=> Fulfils(Descriptors, srs, top, s)
    BY <2>1, <2>2, LogicAgrees
  <2> QED BY <2>2, <2>3 DEF Logic
<1> QED BY <1>1, TypeCorrect, PTL
=============================================================================

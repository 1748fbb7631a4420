-------------------------- MODULE ApplyRequirement --------------------------
(***************************************************************************)
(* How PresentationDefinition.CreateVP of presexch/definition.go picks the *)
(* credentials of a presentation: it takes one set of input descriptors    *)
(* after the other from the solution iterator, looks for credentials for   *)
(* the descriptors of the set that it has not looked at yet, and stops at  *)
(* the first set all of whose descriptors have one.  The wallet belongs to *)
(* the caller, who keeps it for its next calls, and the credentials are    *)
(* shared objects: limiting the disclosures of an SD-JWT changes it for    *)
(* everyone who holds it.                                                  *)
(*                                                                         *)
(* A field of a constraint is the claim its paths lead to.  A credential   *)
(* says which claims it shows to anyone (open) and which it holds as       *)
(* selective disclosures (sd), some of them inside another disclosed       *)
(* object (deep), others as elements of an array beside the claims         *)
(* (elements).  The iterator is the one SolutionPool describes.            *)
(***************************************************************************)
EXTENDS RequirementLogic

CONSTANTS
  N,            \* the number of input descriptors
  Creds,        \* the positions of the wallet's credentials, a set of numbers
  Definitions,  \* the presentation definitions a caller may use
  Wallets,      \* the wallets a caller may hold
  MaxCalls      \* bound: how often the caller calls CreateVP

Descriptors == 1..N

(* The requirements nest as in the JSON they come from: they are numbered  *)
(* so that each comes before those nested in it.                           *)
Requirement(nodes) ==
  [rule : {"all", "pick"}, count : Nat, min : Nat, max : Nat,
   from : SUBSET Descriptors, nested : SUBSET nodes]
IsForest(srs, top) ==
  /\ IsFiniteSet(DOMAIN srs) /\ DOMAIN srs \subseteq Nat \ {0, 1} /\ top \subseteq DOMAIN srs
  /\ \A n \in DOMAIN srs :
       srs[n] \in Requirement(DOMAIN srs) /\ \A m \in srs[n].nested : n < m

ASSUME SearchAssumption ==
  /\ Definitions # {}
  /\ N \in Nat /\ MaxCalls \in Nat /\ Creds \subseteq Nat
  /\ \A p \in Definitions :
       /\ IsForest(p.srs, p.top)
       /\ p.limit \union p.predicate \subseteq p.constrained
       /\ GetAllDescriptors(MakeLogic(Descriptors, p.srs, p.top)) \subseteq Descriptors

VARIABLES
  wallet,      \* the caller's credentials: what never changes of each
  disclosed,   \* the claims each credential of the wallet discloses at the moment
  pd,          \* the definition of the call, and whether it asks for separate
               \* presentations (CreateVPArray)
  pool,        \* the iterator of the call: the solutions still to come
  sol,         \* the solution under examination
  todo,        \* its descriptors that the inner loop has still to visit
  exclude,     \* excludeDescriptors
  evaluated,   \* the descriptors looked at in this call
  matches,     \* descriptorMatches: the credentials found for a descriptor
  submission,  \* where the submission points for a descriptor and credential
  outcome,     \* how the last call ended; "none" while it runs
  pc,          \* "idle" between calls, "next" or "eval" in a call
  calls

vars == <<wallet, disclosed, pd, pool, sol, todo, exclude, evaluated, matches,
          submission, outcome, pc, calls>>

-----------------------------------------------------------------------------

First(S) == CHOOSE x \in S : \A y \in S : x <= y

(* What a holder of credential c reads in it.                              *)
Visible(c) == wallet[c].open \union disclosed[c]

(* filterFormat: of the accepted formats, in their order of precedence,    *)
(* the first that some credential has decides.                             *)
FilterFormat(d) ==
  LET present == {f \in pd.formats[d] : \E c \in Creds : f \in wallet[c].formats}
  IN  {c \in Creds : pd.formats[d] # {} =>
                       present # {} /\ First(present) \in wallet[c].formats}

(* filterConstraints: every field, and at least one, has to be there.      *)
FilterConstraints(d) ==
  {c \in FilterFormat(d) : d \in pd.constrained =>
                             pd.fields[d] # {} /\ pd.fields[d] \subseteq Visible(c)}

(* limitDisclosure drops a credential that has to be limited and cannot.   *)
Limitable(d, c) ==
  d \in pd.limit => d \in pd.predicate \/ wallet[c].kind \in {"sdjwt", "bbs", "selfissued"}

Matching(d) == {c \in FilterConstraints(d) : Limitable(d, c)}

(* limitDisclosure makes a new credential, with an id of its own, of one   *)
(* that is no SD-JWT; it takes the other disclosures away from an SD-JWT.  *)
IsFresh(d, c) == wallet[c].kind # "sdjwt" /\ d \in pd.limit \union pd.predicate

(* getLimitedDisclosures: those the fields name, as far as their parent is *)
(* shown without disclosures, and every array element in such a parent.    *)
LimitedDisclosures(d, c) ==
  {x \in disclosed[c] :
     \/ x \in pd.fields[d] \ wallet[c].deep
     \/ x \in wallet[c].elements /\ pd.fields[d] \ (wallet[c].deep \union wallet[c].elements) # {}}

(* Mutant: the disclosures are limited for a predicate only.               *)
NarrowedByPredicate(d, S) ==
  [c \in Creds |-> IF c \in S /\ wallet[c].kind = "sdjwt" /\ d \in pd.predicate
                   THEN LimitedDisclosures(d, c) ELSE disclosed[c]]

(* limitDisclosure of the credentials in S, as far as it changes them.     *)
NarrowedBy(d, S) ==
  [c \in Creds |-> IF c \in S /\ wallet[c].kind = "sdjwt" /\ d \in pd.limit
                   THEN LimitedDisclosures(d, c) ELSE disclosed[c]]

Logic == MakeLogic(Descriptors, pd.srs, pd.top)

Iterator == INSTANCE SolutionPool
  WITH Logics <- {}, logic <- Logic, out <- sol, done <- outcome = "unsatisfied"

-----------------------------------------------------------------------------

Init ==
  /\ wallet \in Wallets
  /\ disclosed = [c \in Creds |-> wallet[c].sd]
  /\ pd = CHOOSE p \in Definitions : TRUE   \* no call yet: immaterial
  /\ pool = {} /\ sol = {} /\ todo = {} /\ exclude = {} /\ evaluated = {}
  /\ matches = <<>> /\ submission = <<>>
  /\ outcome = "none"
  /\ pc = "idle"
  /\ calls = 0

(* CreateVP, or CreateVPArray, up to the loop.  A submission requirement   *)
(* over an empty group is an error.                                        *)
CreateVP(p) ==
  /\ pc = "idle" /\ calls < MaxCalls
  /\ calls' = calls + 1
  /\ pd' = p
  /\ sol' = {} /\ todo' = {} /\ exclude' = {} /\ evaluated' = {}
  /\ matches' = <<>> /\ submission' = <<>>
  /\ IF HasEmptyGroup(p.srs)
     THEN pc' = "idle" /\ outcome' = "error" /\ pool' = {}
     ELSE pc' = "next" /\ outcome' = "none" /\ pool' = Iterator!Solutions(Logic')
  /\ UNCHANGED <<wallet, disclosed>>

(* Mutant: the verdicts are forgotten with every solution.                 *)
NextSolutionAfresh ==
  /\ pc = "next"
  /\ pc' = "eval"
  /\ UNCHANGED <<wallet, disclosed, pd, matches, submission, outcome, calls>>
  /\ Iterator!Return(exclude)
  /\ todo' = sol'
  /\ exclude' = {}
  /\ evaluated' = {}

(* The head of the outer loop: the iterator has another solution ...       *)
NextSolution ==
  /\ pc = "next"
  /\ pc' = "eval"
  /\ UNCHANGED <<wallet, disclosed, pd, evaluated, matches, submission, outcome, calls>>
  /\ Iterator!Return(exclude)
  /\ todo' = sol'
  /\ exclude' = {}

(* ... or not: ErrNoCredentials.                                           *)
NoMoreSolutions ==
  /\ pc = "next"
  /\ pc' = "idle"
  /\ outcome' = "unsatisfied"
  /\ UNCHANGED <<wallet, disclosed, pd, todo, exclude, evaluated, matches, submission, calls>>
  /\ Iterator!Exhaust(exclude)

(* Mutant: a descriptor that was looked at before always fails.            *)
RevisitFails(d) ==
  /\ pc = "eval" /\ todo # {} /\ d = First(todo) /\ d \in evaluated
  /\ todo' = {} /\ pc' = "next"
  /\ UNCHANGED <<wallet, disclosed, pd, pool, sol, exclude, evaluated, matches,
                 submission, outcome, calls>>

(* Mutant: the loop stays at a descriptor that was looked at before.       *)
RevisitStays(d) ==
  /\ pc = "eval" /\ todo # {} /\ d = First(todo) /\ d \in evaluated
  /\ IF d \in DOMAIN matches
     THEN UNCHANGED <<todo, pc>>
     ELSE todo' = {} /\ pc' = "next"
  /\ UNCHANGED <<wallet, disclosed, pd, pool, sol, exclude, evaluated, matches,
                 submission, outcome, calls>>

(* The inner loop meets a descriptor of an earlier solution.               *)
Revisit(d) ==
  /\ pc = "eval" /\ todo # {} /\ d = First(todo) /\ d \in evaluated
  /\ IF d \in DOMAIN matches
     THEN todo' = todo \ {d} /\ UNCHANGED pc
     ELSE todo' = {} /\ pc' = "next"
  /\ UNCHANGED <<wallet, disclosed, pd, pool, sol, exclude, evaluated, matches,
                 submission, outcome, calls>>

(* Mutants: an empty match counts; a descriptor without a match is not     *)
(* excluded; the rest of a solution that was given up is kept.             *)
EvaluateEmpty(d) ==
  /\ pc = "eval" /\ todo # {} /\ d = First(todo) /\ d \notin evaluated
  /\ evaluated' = evaluated \union {d}
  /\ disclosed' = NarrowedBy(d, Matching(d))
  /\ matches' = [e \in DOMAIN matches \union {d} |-> IF e = d THEN Matching(d) ELSE matches[e]]
  /\ todo' = todo \ {d}
  /\ UNCHANGED <<wallet, pd, pool, sol, exclude, submission, outcome, pc, calls>>

EvaluateWithout(d, excluded, rest) ==
  /\ pc = "eval" /\ todo # {} /\ d = First(todo) /\ d \notin evaluated
  /\ evaluated' = evaluated \union {d}
  /\ disclosed' = NarrowedBy(d, Matching(d))
  /\ IF Matching(d) # {}
     THEN /\ matches' = [e \in DOMAIN matches \union {d} |->
                           IF e = d THEN Matching(d) ELSE matches[e]]
          /\ todo' = todo \ {d}
          /\ UNCHANGED <<exclude, pc>>
     ELSE /\ exclude' = exclude \union excluded
          /\ todo' = rest /\ pc' = "next"
          /\ UNCHANGED matches
  /\ UNCHANGED <<wallet, pd, pool, sol, submission, outcome, calls>>
EvaluateUnexcluded(d) == EvaluateWithout(d, {}, {})
EvaluateKeepsRest(d) == EvaluateWithout(d, {d}, todo)

(* The inner loop meets a new descriptor: filter, limit, and give the      *)
(* solution up when no credential is left.                                 *)
Evaluate(d) ==
  /\ pc = "eval" /\ todo # {} /\ d = First(todo) /\ d \notin evaluated
  /\ evaluated' = evaluated \union {d}
  /\ disclosed' = NarrowedBy(d, Matching(d))
  /\ IF Matching(d) # {}
     THEN /\ matches' = [e \in DOMAIN matches \union {d} |->
                           IF e = d THEN Matching(d) ELSE matches[e]]
          /\ todo' = todo \ {d}
          /\ UNCHANGED <<exclude, pc>>
     ELSE /\ exclude' = exclude \union {d}
          /\ todo' = {} /\ pc' = "next"
          /\ UNCHANGED matches
  /\ UNCHANGED <<wallet, pd, pool, sol, submission, outcome, calls>>

(* Filtering or limiting fails; the credentials before the one that makes  *)
(* limiting fail have been limited.                                        *)
EvaluateFails(d) ==
  /\ pc = "eval" /\ todo # {} /\ d = First(todo) /\ d \notin evaluated
  /\ \E k \in Matching(d) \union {0} :
       disclosed' = NarrowedBy(d, {c \in Matching(d) : c < k})
  /\ evaluated' = evaluated \union {d}
  /\ outcome' = "error" /\ pc' = "idle" /\ todo' = {}
  /\ UNCHANGED <<wallet, pd, pool, sol, exclude, matches, submission, calls>>

(* merge: credentials with the same id count as one, and the submission    *)
(* points every descriptor that names the id to the first of them.         *)
Pairs == UNION {{d} \X matches[d] : d \in sol}
(* Mutant: a limited credential counts under the id of its original.       *)
UniqueIDOfOriginal(p) == <<0, wallet[p[2]].id>>

UniqueID(p) == IF IsFresh(p[1], p[2]) THEN p ELSE <<0, wallet[p[2]].id>>
Before(p, q) == p[1] < q[1] \/ (p[1] = q[1] /\ p[2] <= q[2])
Merged(p) ==
  CHOOSE q \in Pairs : /\ UniqueID(q) = UniqueID(p)
                       /\ \A r \in Pairs : UniqueID(r) = UniqueID(p) => Before(q, r)

(* getBaseContext: the credentials of a presentation share a base context. *)
BaseContextsAgree ==
  \A p, q \in Pairs : wallet[Merged(p)[2]].base = wallet[Merged(q)[2]].base

(* Every descriptor of the solution has a credential: build one            *)
(* presentation of them all, or a separate one of each.                    *)
Solved ==
  /\ pc = "eval" /\ todo = {}
  /\ submission' = [p \in Pairs |-> Merged(p)]
  /\ outcome' = IF pd.separate \/ BaseContextsAgree THEN "solved" ELSE "error"
  /\ pc' = "idle"
  /\ UNCHANGED <<wallet, disclosed, pd, pool, sol, todo, exclude, evaluated, matches, calls>>

Step ==
  \/ NextSolution
  \/ NoMoreSolutions
  \/ \E d \in todo : Revisit(d) \/ Evaluate(d) \/ EvaluateFails(d)
  \/ Solved

Next == Step \/ \E p \in Definitions : CreateVP(p)

(* The filters and the loops are sequential code that returns; the caller  *)
(* need not call.                                                          *)
Spec == Init /\ [][Next]_vars /\ WF_vars(Step)

-----------------------------------------------------------------------------

TypeOK ==
  /\ wallet \in Wallets
  /\ disclosed \in [Creds -> SUBSET UNION {wallet[c].sd : c \in Creds}]
  /\ pd \in Definitions
  /\ pool \subseteq SUBSET Descriptors
  /\ sol \subseteq Descriptors /\ todo \subseteq sol
  /\ exclude \subseteq Descriptors /\ evaluated \subseteq Descriptors
  /\ DOMAIN matches \subseteq Descriptors
  /\ \A d \in DOMAIN matches : matches[d] \subseteq Creds
  /\ outcome \in {"none", "solved", "unsatisfied", "error"}
  /\ pc \in {"idle", "next", "eval"}
  /\ calls \in 0..MaxCalls

(* What the caller handed over, before any call limited it: does           *)
(* credential c answer descriptor d by itself?                             *)
Answers(d, c) ==
  /\ pd.formats[d] # {} => pd.formats[d] \intersect wallet[c].formats # {}
  /\ d \in pd.constrained =>
       /\ pd.fields[d] # {}
       /\ pd.fields[d] \subseteq wallet[c].open \union wallet[c].sd
  /\ Limitable(d, c)

(* What the presented credential behind descriptor d and credential c      *)
(* shows to the verifier.                                                  *)
Shown(p) ==
  LET q == submission[p]
  IN  IF IsFresh(q[1], q[2]) /\ q[1] \in pd.limit THEN pd.fields[q[1]] ELSE Visible(q[2])

(* The logic the search runs on says what the submission requirements say, *)
(* for every set of descriptors: toRequirement and toLogic lose nothing.   *)
LogicMeansRules ==
  pc # "idle" => \A s \in SUBSET Descriptors :
                   IsSatisfiedBy(Logic, s) <=> Fulfils(Descriptors, pd.srs, pd.top, s)

(* A presentation is only made for a set of descriptors that satisfies the *)
(* logic, and with a credential for each of them.                          *)
SolvedIsSolution ==
  outcome = "solved" => /\ sol \in Iterator!Solutions(Logic)
                        /\ \A d \in sol : \E p \in DOMAIN submission : p[1] = d

(* The inner loop never meets a descriptor that it looked at without       *)
(* success: such a descriptor was excluded from all later solutions.  The  *)
(* code gives the solution up in that case without excluding anything.     *)
NoFailedDescriptorAgain ==
  \A d \in todo : d \in evaluated => d \in DOMAIN matches

(* ErrNoCredentials is returned only when no set of descriptors that       *)
(* satisfies the definition has a credential of the caller for each; here  *)
(* as long as no SD-JWT of the wallet has lost a disclosure.               *)
Satisfiable ==
  \E s \in Iterator!Solutions(Logic) : \A d \in s : \E c \in Creds : Answers(d, c)
Untouched == \A c \in Creds : disclosed[c] = wallet[c].sd
NoCredentialsMeansUnsatisfiable == outcome = "unsatisfied" /\ Untouched => ~Satisfiable

(* The same of what the caller handed over to the first call, whatever the *)
(* calls have done to it: what the text of ErrNoCredentials says.          *)
NoCredentialsAtAll == outcome = "unsatisfied" => ~Satisfiable

(* The submission maps a descriptor to a presented credential that answers *)
(* it: one that still shows every field the descriptor asks for; here as   *)
(* long as no two descriptors of the call match the same SD-JWT, and no    *)
(* field is inside another disclosed object.                               *)
SharedSdJwt(c) ==
  wallet[c].kind = "sdjwt" /\ \E d, e \in DOMAIN matches : d # e /\ c \in matches[d] \intersect matches[e]
PresentedStillAnswers ==
  outcome = "solved" =>
    \A p \in DOMAIN submission :
      /\ p[1] \in pd.constrained /\ ~SharedSdJwt(p[2])
      /\ pd.fields[p[1]] \intersect wallet[p[2]].deep = {}
      => pd.fields[p[1]] \subseteq Shown(p)

(* limit_disclosure: of what a credential holds as selective disclosures,  *)
(* or of all it holds if it had to be made anew, the verifier sees nothing *)
(* that the descriptor does not ask for, array elements excepted.          *)
NothingBeyondTheFields ==
  outcome = "solved" =>
    \A p \in DOMAIN submission :
      p[1] \in pd.limit =>
        Shown(p) \subseteq pd.fields[p[1]] \union
          (IF wallet[p[2]].kind = "sdjwt" THEN wallet[p[2]].open \union wallet[p[2]].elements ELSE {})

(* The matches of a call are final: later solutions use the verdict on a   *)
(* descriptor that an earlier one reached, and only a new call drops it.   *)
VerdictsAreFinal ==
  [][calls' = calls =>
       /\ evaluated \subseteq evaluated'
       /\ \A d \in evaluated : /\ d \in DOMAIN matches <=> d \in DOMAIN matches'
                               /\ d \in DOMAIN matches => matches'[d] = matches[d]]_vars

(* Every call returns.                                                     *)
CallReturns == pc # "idle" ~> pc = "idle"
=============================================================================

-------------------------- MODULE MatchSubmission --------------------------
(***************************************************************************)
(* The verifier's side of the exchange: PresentationDefinition.Match of    *)
(* presexch/api.go.  It goes through the presentations, and through the    *)
(* mappings of the submission that concern each, selects the credential a  *)
(* mapping points to, checks it against the descriptor it names, and at    *)
(* the end asks whether the definition is satisfied.                       *)
(*                                                                         *)
(* A mapping has the index its JSONPath gives when the list of             *)
(* presentations is the root ("$[1]..."), or NoRoot, and the position of   *)
(* the credential in the presentation.  A credential is known by the       *)
(* descriptors whose schema, and whose constraints, it passes.             *)
(***************************************************************************)
EXTENDS Integers, Sequences

CONSTANTS
  N,        \* the number of input descriptors
  Inputs,   \* what Match may be called with
  NoRoot,   \* a path whose root is one presentation
  NoMap     \* no submission

Descriptors == 1..N
Mapping == [id : Nat, root : Nat \union {NoRoot}, item : Nat]

(* The presentation a mapping of a merged submission belongs to.           *)
PresentationIndex(m) == IF m.root = NoRoot THEN 0 ELSE m.root

(* Mutant: a presentation gets the mappings of those before it too.        *)
MappingsUpTo(call, i) ==
  IF call.merged # NoMap
  THEN SelectSeq(call.merged, LAMBDA m : PresentationIndex(m) < i)
  ELSE call.vps[i].own

(* The mappings of a merged submission that concern one index, in order.   *)
DescriptorsByPresentationIndex(idm, idx) ==
  LET results[n \in 0..Len(idm)] ==
        IF n = 0 THEN <<>>
        ELSE IF PresentationIndex(idm[n]) = idx THEN Append(results[n - 1], idm[n])
        ELSE results[n - 1]
  IN  results[Len(idm)]

(* The mappings to check for presentation i of a call.                     *)
MappingsIn(call, i) ==
  IF call.merged # NoMap THEN DescriptorsByPresentationIndex(call.merged, i - 1)
  ELSE call.vps[i].own

ASSUME MatchAssumption ==
  /\ N \in Nat \ {0} /\ NoRoot \notin Nat /\ NoMap \notin Seq(Mapping)
  /\ \A call \in Inputs :
       /\ Len(call.vps) \in Nat \ {0}
       /\ call.merged \in Seq(Mapping) \union {NoMap}
       /\ \A i \in 1..Len(call.vps) : call.vps[i].own \in Seq(Mapping) \union {NoMap}

VARIABLES
  input,    \* the presentations, the merged submission, the options
  at,       \* vpIdx + 1: the presentation looked at
  todo,     \* its mappings that have still to be checked
  result,   \* the MatchValues so far
  pc,       \* "open", "check", "eval" or "done"
  outcome   \* "none" until Match returns

vars == <<input, at, todo, result, pc, outcome>>

Vps == input.vps
UseMergedSubmission == input.merged # NoMap

Mappings(i) == MappingsIn(input, i)

(* Where a mapping of presentation i leads: rawVPs holds the presentations *)
(* up to i; a path with a presentation as its root is refused for a merged *)
(* submission of several presentations.                                    *)
Holder(m, i) == IF m.root = NoRoot THEN i ELSE m.root + 1
Selects(m, i) ==
  /\ m.root = NoRoot => Len(Vps) = 1 \/ ~UseMergedSubmission
  /\ Holder(m, i) \in 1..i
  /\ m.item \in 1..Len(Vps[Holder(m, i)].creds)
  /\ Vps[Holder(m, i)].creds[m.item].parses
Selected(m, i) == Vps[Holder(m, i)].creds[m.item]

PassesSchema(m, c) == m.id \in c.schema \/ ~input.validateSchema
PassesConstraints(m, c) == m.id \in c.answers

Fail == pc' = "done" /\ outcome' = "error"

-----------------------------------------------------------------------------

Init ==
  /\ input \in Inputs
  /\ at = 0 /\ todo = <<>> /\ result = <<>>
  /\ pc = "open" /\ outcome = "none"

(* The next presentation; it needs the context and type of a submission,   *)
(* and a submission of its own unless there is a merged one.               *)
OpenPresentation ==
  /\ pc = "open" /\ at < Len(Vps)
  /\ at' = at + 1
  /\ IF Vps[at'].typed /\ (UseMergedSubmission \/ Vps[at'].own # NoMap)
     THEN todo' = Mappings(at') /\ pc' = "check" /\ UNCHANGED outcome
     ELSE Fail /\ UNCHANGED todo
  /\ UNCHANGED <<input, result>>

CheckMapping ==
  /\ pc = "check" /\ todo # <<>>
  /\ LET m == Head(todo)
         good == /\ m.id \in Descriptors
                 /\ Selects(m, at)
                 /\ PassesSchema(m, Selected(m, at)) /\ PassesConstraints(m, Selected(m, at))
     IN  IF good
         THEN /\ result' = Append(result, [presentation |-> at, held |-> Holder(m, at),
                                           item |-> m.item, id |-> m.id])
              /\ todo' = Tail(todo)
              /\ UNCHANGED <<pc, outcome>>
         ELSE Fail /\ UNCHANGED <<result, todo>>
  /\ UNCHANGED <<input, at>>

(* Mutant: what was matched before the failure is returned.                *)
ContextFailsPartly ==
  /\ pc = "check" /\ todo # <<>>
  /\ Head(todo).id \in Descriptors /\ Selects(Head(todo), at)
  /\ pc' = "eval"
  /\ UNCHANGED <<input, at, todo, result, outcome>>

(* A context of the selected credential does not load: getMatchedCreds     *)
(* returns the error of an earlier statement, nil, with no matches.        *)
ContextFails ==
  /\ pc = "check" /\ todo # <<>>
  /\ Head(todo).id \in Descriptors /\ Selects(Head(todo), at)
  /\ result' = <<>>
  /\ pc' = "eval"
  /\ UNCHANGED <<input, at, todo, outcome>>

(* Mutant: the loop over the presentations does not end.                   *)
EndOfMappingsOpen ==
  /\ pc = "check" /\ todo = <<>>
  /\ pc' = "open"
  /\ UNCHANGED <<input, at, todo, result, outcome>>

EndOfMappings ==
  /\ pc = "check" /\ todo = <<>>
  /\ pc' = IF at < Len(Vps) THEN "open" ELSE "eval"
  /\ UNCHANGED <<input, at, todo, result, outcome>>

MatchedIDs == {result[i].id : i \in DOMAIN result}

(* Mutant: `found' is not reset between the descriptors.                   *)
EvalSubmissionRequirementsOnce ==
  /\ pc = "eval"
  /\ pc' = "done"
  /\ outcome' = IF Descriptors \intersect MatchedIDs # {} THEN "matched" ELSE "error"
  /\ UNCHANGED <<input, at, todo, result>>

(* Every descriptor has to be matched, whatever the definition requires.   *)
EvalSubmissionRequirements ==
  /\ pc = "eval"
  /\ pc' = "done"
  /\ outcome' = IF Descriptors \subseteq MatchedIDs THEN "matched" ELSE "error"
  /\ UNCHANGED <<input, at, todo, result>>

Next ==
  \/ OpenPresentation \/ CheckMapping \/ ContextFails \/ EndOfMappings
  \/ EvalSubmissionRequirements

(* Sequential code that returns.                                           *)
Spec == Init /\ [][Next]_vars /\ WF_vars(Next)

-----------------------------------------------------------------------------

Match(presentation, held, item, id) ==
  [presentation |-> presentation, held |-> held, item |-> item, id |-> id]

(* Nothing is matched unchecked: when Match succeeds, every mapping of     *)
(* every presentation selected a credential that passes its descriptor.    *)
(* The error that getMatchedCreds swallows never turns into a success.     *)
EveryMappingChecked ==
  outcome = "matched" =>
    \A i \in 1..Len(Vps) : \A j \in DOMAIN Mappings(i) :
      LET m == Mappings(i)[j]
      IN  /\ Selects(m, i)
          /\ PassesConstraints(m, Selected(m, i))
          /\ \E k \in DOMAIN result : result[k] = Match(i, Holder(m, i), m.item, m.id)

(* When Match succeeds, every descriptor has a match that answers it.      *)
EveryDescriptorMatched ==
  outcome = "matched" =>
    \A d \in Descriptors : \E k \in DOMAIN result :
      /\ result[k].id = d
      /\ d \in Vps[result[k].held].creds[result[k].item].answers

(* A MatchValue names the presentation that held its credential.           *)
HeldByThatPresentation ==
  \A k \in DOMAIN result : result[k].presentation = result[k].held

(* Match returns.                                                          *)
MatchReturns == <>(pc = "done")
=============================================================================

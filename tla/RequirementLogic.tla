-------------------------- MODULE RequirementLogic --------------------------
(***************************************************************************)
(* Nested submission requirements of a presentation definition, and when a *)
(* set of input descriptors satisfies them: toRequirement, makeRequirement *)
(* and toLogic of presexch/definition.go, and IsSatisfiedBy of             *)
(* presexch/internal/requirementlogic.                                     *)
(*                                                                         *)
(* Input descriptors are the numbers 1..N, in the order of                 *)
(* PresentationDefinition.InputDescriptors.  A forest of requirements is a *)
(* function from node numbers to requirements, records of rule, count,     *)
(* min, max, `from' (the descriptors of the group) and `nested' (the nodes *)
(* of the from_nested requirements; then there is no group).  Node 1 is    *)
(* the root that makeRequirement adds.                                     *)
(***************************************************************************)
EXTENDS Integers, FiniteSets

(* The number of things a requirement ranges over.                         *)
Total(r) == Cardinality(IF r.nested = {} THEN r.from ELSE r.nested)

(* toRequirement fails on a group that no descriptor belongs to.           *)
HasEmptyGroup(srs) == \E n \in DOMAIN srs : srs[n].nested = {} /\ srs[n].from = {}

(* Mutant: rule "all" keeps its count.                                     *)
ToLogicUncounted(r) ==
  [r EXCEPT !.max = IF r.count = 0 /\ @ = 0 THEN Total(r) ELSE @]

(* toRequirement, then toLogic, of one node.  Rule "all" fixes the count;  *)
(* toLogic gives an upper bound to a requirement with no count and no max. *)
ToLogic(r) ==
  LET count == IF r.rule = "all" THEN Total(r) ELSE r.count
  IN  [r EXCEPT !.count = count,
                !.max = IF count = 0 /\ @ = 0 THEN Total(r) ELSE @]

(* makeRequirement and toLogic of a whole definition: with no submission   *)
(* requirement all descriptors are required, otherwise all the top-level   *)
(* requirements are.                                                       *)
MakeLogic(Descriptors, srs, top) ==
  LET root == [rule |-> "all", count |-> 0, min |-> 0, max |-> 0,
               from |-> IF top = {} THEN Descriptors ELSE {}, nested |-> top]
  IN  [n \in DOMAIN srs \union {1} |-> ToLogic(IF n = 1 THEN root ELSE srs[n])]

IsLenApplicable(r, val) ==
  /\ r.count > 0 => val = r.count
  /\ r.min > 0 => val >= r.min
  /\ r.max > 0 => val <= r.max

(* Whether a set of descriptors satisfies the logic: a node with no nested *)
(* nodes counts the descriptors, the others count their satisfied children.*)
IsSatisfiedBy(logic, descs) ==
  LET sat[n \in DOMAIN logic] ==
        IsLenApplicable(logic[n],
          Cardinality(IF logic[n].nested = {}
                      THEN logic[n].from \intersect descs
                      ELSE {m \in logic[n].nested : sat[m]}))
  IN  sat[1]

(* The rules of the submission requirements themselves, which the logic    *)
(* above has to agree with: "all" takes everything a requirement ranges    *)
(* over, "pick" the number that count, min and max ask for, and all the    *)
(* top-level requirements (or all the descriptors) have to be fulfilled.   *)
Fulfils(Descriptors, srs, top, descs) ==
  LET ok[n \in DOMAIN srs] ==
        LET r == srs[n]
            got == IF r.nested = {} THEN r.from \intersect descs ELSE {m \in r.nested : ok[m]}
        IN  \/ r.rule = "all" /\ got = (IF r.nested = {} THEN r.from ELSE r.nested)
            \/ r.rule = "pick" /\ IsLenApplicable(r, Cardinality(got))
  IN  IF top = {} THEN descs = Descriptors ELSE \A n \in top : ok[n]

(* The descriptors referenced by the nodes with no nested nodes.           *)
GetAllDescriptors(logic) ==
  UNION {logic[n].from : n \in {m \in DOMAIN logic : logic[m].nested = {}}}
=============================================================================

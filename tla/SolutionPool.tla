---------------------------- MODULE SolutionPool ----------------------------
(***************************************************************************)
(* What the SolutionIterator interface of requirementlogic promises its    *)
(* caller, whatever the implementation: every call returns a solution that *)
(* was not returned before and holds no descriptor excluded so far, and    *)
(* nil only when no such solution is left.  The order is left open.        *)
(***************************************************************************)
EXTENDS RequirementLogic

CONSTANT Logics    \* the requirement logics an iterator may be created for

VARIABLES
  logic,  \* the logic the iterator was created for
  pool,   \* the solutions that may still be returned
  out,    \* the answer of the last call; {} stands for nil and for no call yet
  done    \* the iterator has returned nil

poolVars == <<logic, pool, out, done>>

Solutions(l) == {s \in SUBSET GetAllDescriptors(l) : s # {} /\ IsSatisfiedBy(l, s)}

PoolInit ==
  /\ logic \in Logics
  /\ pool = Solutions(logic)
  /\ out = {}
  /\ done = FALSE

(* The solutions left once the descriptors of E are excluded.              *)
Without(p, E) == {s \in p : s \intersect E = {}}

Return(E) ==
  /\ ~done
  /\ \E s \in Without(pool, E) :
       /\ out' = s
       /\ pool' = Without(pool, E) \ {s}
  /\ UNCHANGED <<logic, done>>

Exhaust(E) ==
  /\ ~done
  /\ Without(pool, E) = {}
  /\ pool' = {}
  /\ out' = {}
  /\ done' = TRUE
  /\ UNCHANGED logic

PoolNext == \E E \in SUBSET GetAllDescriptors(logic) : Return(E) \/ Exhaust(E)

PoolSpec == PoolInit /\ [][PoolNext]_poolVars
=============================================================================

-------------------------- MODULE SolutionIterator --------------------------
(***************************************************************************)
(* BitsetSolutionIterator of presexch/internal/requirementlogic.  The      *)
(* iterator holds the descriptors still in play (descs) and a big integer  *)
(* whose bit i says whether descs[i] is in the candidate; it counts        *)
(* upwards, skips the candidates that do not satisfy the logic, and when   *)
(* the caller rules descriptors out it jumps over every candidate that     *)
(* holds them and squeezes their bits out of the integer.                  *)
(*                                                                         *)
(* A big.Int is the set of the positions of its 1 bits, counted from 0.    *)
(***************************************************************************)
EXTENDS RequirementLogic, Sequences

CONSTANTS
  N,             \* the number of input descriptors; a descriptor is its index
  Logics         \* the requirement logics an iterator may be created for

ASSUME IteratorAssumption ==
  /\ N \in Nat
  /\ \A l \in Logics : GetAllDescriptors(l) \subseteq 1..N

VARIABLES
  logic,  \* req
  descs,  \* the descriptors in play, a sequence in the order of the definition
  state,  \* the bitset
  done,
  out     \* what the last call returned; {} stands for nil and for no call yet

vars == <<logic, descs, state, done, out>>

Members(seq) == {seq[i] : i \in DOMAIN seq}

(* The descriptors of a sequence that are not in E, in their order.        *)
Keep(seq, E) ==
  LET upTo[i \in 0..Len(seq)] ==
        IF i = 0 THEN <<>>
        ELSE IF seq[i] \in E THEN upTo[i - 1] ELSE Append(upTo[i - 1], seq[i])
  IN  upTo[Len(seq)]

(* big.Int arithmetic: adding 2^k, clearing the bits below k, shifting.    *)
AddBit(b, k) ==
  LET z == CHOOSE i \in k..(k + Cardinality(b)) :
             i \notin b /\ \A j \in k..(i - 1) : j \in b
  IN  (b \ (k..z)) \union {z}
ClearBelow(b, k) == {i \in b : i >= k}
ShiftRight(b, m) == {i - m : i \in ClearBelow(b, m)}

(* The candidate the bitset stands for; bits with no descriptor are void.  *)
Current(b, ds) == {ds[i + 1] : i \in {j \in b : j < Len(ds)}}

(* The first bitset from b on whose candidate is empty or satisfies l; it  *)
(* is empty at the latest when the bit behind the last descriptor is set.  *)
IncrementUntilValid(l, b, ds) ==
  LET from[x \in (SUBSET (0..(Len(ds) - 1))) \union {{Len(ds)}}] ==
        IF Current(x, ds) = {} \/ IsSatisfiedBy(l, Current(x, ds))
        THEN x
        ELSE from[AddBit(x, 0)]
  IN  from[b]

(* Mutant: the bit of the last excluded one is cleared and not carried.    *)
ExcludeWithoutCarry(b, idx) ==
  LET k == CHOOSE i \in idx : \A j \in idx : j <= i
  IN  ShiftRight(ClearBelow(b, k + 1), Cardinality(idx))

(* The bitset after the descriptors at the indices idx are taken away.     *)
ExcludeDescriptors(b, idx) ==
  LET k == CHOOSE i \in idx : \A j \in idx : j <= i
  IN  ShiftRight(AddBit(ClearBelow(b, k), k), Cardinality(idx))

-----------------------------------------------------------------------------

(* Mutant: the descriptors are not in the order of the definition.         *)
InitReversed ==
  /\ logic \in Logics
  /\ descs = Keep([i \in 1..N |-> N + 1 - i], (1..N) \ GetAllDescriptors(logic))
  /\ state = {}
  /\ done = FALSE
  /\ out = {}

(* NewBitsetIterator: the descriptors of the definition, in its order,     *)
(* that the logic refers to.                                               *)
Init ==
  /\ logic \in Logics
  /\ descs = Keep([i \in 1..N |-> i], (1..N) \ GetAllDescriptors(logic))
  /\ state = {}
  /\ done = FALSE
  /\ out = {}

(* Mutant: the answer is read off the descriptors before the exclusion.    *)
AdvanceStale(exclude) ==
  /\ ~done
  /\ LET idx == {i \in 0..(Len(descs) - 1) : descs[i + 1] \in exclude}
         start == IF idx = {} THEN AddBit(state, 0) ELSE ExcludeDescriptors(state, idx)
     IN  /\ descs' = Keep(descs, exclude)
         /\ state' = IncrementUntilValid(logic, start, descs')
         /\ out' = Current(state', descs)
         /\ done' = (out' = {})
  /\ UNCHANGED logic

(* Mutant: an exhausted iterator starts again.                             *)
AdvanceAround(exclude) ==
  /\ ~done
  /\ LET idx == {i \in 0..(Len(descs) - 1) : descs[i + 1] \in exclude}
         start == IF idx = {} THEN AddBit(state, 0) ELSE ExcludeDescriptors(state, idx)
         next == IncrementUntilValid(logic, start, descs')
     IN  /\ descs' = Keep(descs, exclude)
         /\ out' = Current(next, descs')
         /\ state' = IF out' = {} THEN {} ELSE next
  /\ UNCHANGED <<logic, done>>

(* One call of Next with the descriptors to exclude.                       *)
Advance(exclude) ==
  /\ ~done
  /\ LET idx == {i \in 0..(Len(descs) - 1) : descs[i + 1] \in exclude}
         start == IF idx = {} THEN AddBit(state, 0) ELSE ExcludeDescriptors(state, idx)
     IN  /\ descs' = Keep(descs, exclude)
         /\ state' = IncrementUntilValid(logic, start, descs')
         /\ out' = Current(state', descs')
         /\ done' = (out' = {})
  /\ UNCHANGED logic

(* A call of Next on an iterator that has already returned nil.            *)
AdvanceDone ==
  /\ done
  /\ UNCHANGED vars

(* The caller excludes descriptors it evaluated since the last call, which *)
(* are all in the last answer.                                             *)
Next ==
  \/ \E exclude \in SUBSET out : Advance(exclude)
  \/ AdvanceDone

Spec == Init /\ [][Next]_vars /\ WF_vars(Next)

-----------------------------------------------------------------------------

TypeOK ==
  /\ logic \in Logics
  /\ descs \in Seq(1..N)
  /\ state \subseteq 0..Len(descs)
  /\ done \in BOOLEAN
  /\ out \subseteq Members(descs)

(* The value of bitset a is below that of bitset b.                        *)
Below(a, b) == \E j \in b \ a : \A i \in a \union b : i > j => i \in a /\ i \in b

(* The solutions the counter has still to reach.                           *)
Pending ==
  {Current(b, descs) : b \in {x \in SUBSET (0..(Len(descs) - 1)) :
                                Below(state, x) /\ IsSatisfiedBy(logic, Current(x, descs))}}

Pool == INSTANCE SolutionPool WITH pool <- Pending

(* The bitset iterator keeps the promise of the interface: it returns each *)
(* solution that holds no excluded descriptor once, and nil only when none *)
(* is left.  The jump and the shift of excludeDescriptors never skip or    *)
(* repeat one.                                                             *)
EnumeratesAllSolutions == Pool!PoolSpec

(* Subsets are reached in an order that exhausts the subsets of the first  *)
(* k descriptors before descriptor k + 1 is added: no pending solution     *)
(* stays within the descriptors before the last one of the answer.         *)
EarlierDescriptorsFirst ==
  \A s \in Pending : out # {} => \E d \in s : \A e \in out : e <= d

(* A caller that keeps calling is told at some point that there is nothing *)
(* left, whatever it excludes on the way.                                  *)
EventuallyExhausted == <>done
=============================================================================

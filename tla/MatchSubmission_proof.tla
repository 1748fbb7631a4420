----------------------- MODULE MatchSubmission_proof -----------------------
(***************************************************************************)
(* When Match succeeds, every mapping was checked and every descriptor was *)
(* matched, for any number of descriptors, presentations and mappings.     *)
(***************************************************************************)
EXTENDS MatchSubmission, SequenceTheorems, WellFoundedInduction, TLAPS

-----------------------------------------------------------------------------
(* Sorting a merged submission by presentation.                            *)

LEMMA LeastNumber ==
  ASSUME NEW S, S \subseteq Nat, S # {}
  PROVE  \E n \in S : \A m \in S : n <= m
<1> DEFINE R == OpToRel(<, Nat)
<1>1. IsWellFoundedOn(R, Nat)
  BY NatLessThanWellFounded
<1>2. \A x, y \in Nat : <<x, y>> \in R <=> x < y
  BY DEF OpToRel
<1> HIDE DEF R
<1>3. PICK n \in S : \A m \in S : <<m, n>> \notin R
  BY <1>1, WFMin
<1>4. ASSUME NEW m \in S PROVE n <= m
  <2>1. m \in Nat /\ n \in Nat
    OBVIOUS
  <2>2. ~(m < n)
    BY <1>2, <1>3, <2>1
  <2> QED BY <2>1, <2>2
<1> QED BY <1>4

(* Induction up to b, over a set of numbers.                               *)
LEMMA UpTo ==
  ASSUME NEW b \in Nat, NEW S, 0 \in S, \A i \in 0..b : i # b /\ i \in S => i + 1 \in S
  PROVE  0..b \subseteq S
<1> DEFINE T == (0..b) \ S
<1> SUFFICES ASSUME T # {} PROVE FALSE
  OBVIOUS
<1>1. T \subseteq Nat
  OBVIOUS
<1>2. PICK t \in T : \A u \in T : t <= u
  <2> HIDE DEF T
  <2> QED BY <1>1, LeastNumber
<1>3. t \in 1..b /\ t - 1 \in 0..b /\ t - 1 # b
  OBVIOUS
<1>4. t - 1 \notin T
  BY <1>2, <1>3
<1>5. t - 1 + 1 \in S /\ t - 1 + 1 = t
  BY <1>3, <1>4
<1> QED BY <1>5

(* What one round of the loop makes of the results of the round before.    *)
Sorted(idm, idx, h, n) ==
  IF PresentationIndex(idm[n]) = idx THEN Append(h[n - 1], idm[n]) ELSE h[n - 1]

LEMMA SortingUnfolds ==
  ASSUME NEW idm, Len(idm) \in Nat, NEW idx
  PROVE  \E h : /\ DescriptorsByPresentationIndex(idm, idx) = h[Len(idm)]
                /\ h[0] = <<>>
                /\ \A i \in 1..Len(idm) : h[i] = Sorted(idm, idx, h, i)
<1> DEFINE n == Len(idm)
           Rounds(h, i) == h[0] = <<>> /\ \A j \in 1..i : h[j] = Sorted(idm, idx, h, j)
           S == {i \in 0..n : \E h : Rounds(h, i)}
           Q(h) == h = [i \in 0..n |-> IF i = 0 THEN <<>> ELSE Sorted(idm, idx, h, i)]
           f == CHOOSE h : Q(h)
<1>1. DescriptorsByPresentationIndex(idm, idx) = f[n]
  BY DEF DescriptorsByPresentationIndex, Sorted
<1>2. 0 \in S
  <2>1. Rounds([i \in {0} |-> <<>>], 0)
    OBVIOUS
  <2>2. 0 \in 0..n
    OBVIOUS
  <2> HIDE DEF Rounds
  <2> QED BY <2>1, <2>2
<1>3. ASSUME NEW i \in 0..n, i # n, i \in S PROVE i + 1 \in S
  <2>1. PICK h : Rounds(h, i)
    BY <1>3
  <2> DEFINE g == [j \in 0..(i + 1) |-> IF j = i + 1 THEN Sorted(idm, idx, h, j) ELSE h[j]]
  <2>2. ASSUME NEW j \in 1..(i + 1) PROVE g[j] = Sorted(idm, idx, g, j)
    <3>1. j - 1 \in 0..(i + 1) /\ j - 1 # i + 1 /\ j \in 0..(i + 1)
      OBVIOUS
    <3>2. g[j - 1] = h[j - 1]
      BY <3>1
    <3>3. g[j] = Sorted(idm, idx, h, j)
      <4>1. CASE j = i + 1
        BY <3>1, <4>1
      <4>2. CASE j # i + 1
        BY <2>1, <3>1, <4>2
      <4> QED BY <4>1, <4>2
    <3> QED BY <3>2, <3>3 DEF Sorted
  <2>3. g[0] = <<>>
    BY <2>1
  <2>4. Rounds(g, i + 1)
    BY <2>2, <2>3
  <2>5. i + 1 \in 0..n
    BY <1>3
  <2> HIDE DEF Rounds, g
  <2> QED BY <2>4, <2>5
<1>4. 0..n \subseteq S
  <2> HIDE DEF S
  <2> QED BY <1>2, <1>3, UpTo
<1>5. PICK h : Rounds(h, n)
  BY <1>4
<1> DEFINE g == [i \in 0..n |-> h[i]]
<1>6. Q(g)
  <2> SUFFICES ASSUME NEW i \in 0..n, i # 0 PROVE h[i] = Sorted(idm, idx, g, i)
    BY <1>5
  <2>1. i \in 1..n /\ i - 1 \in 0..n
    OBVIOUS
  <2> QED BY <1>5, <2>1 DEF Sorted
<1>7. Q(f)
  <2> HIDE DEF Q, g
  <2> QED BY <1>6
<1>8. f[0] = <<>> /\ \A i \in 1..n : f[i] = Sorted(idm, idx, f, i)
  <2> HIDE DEF f
  <2> QED BY <1>7
<1> HIDE DEF f
<1> QED BY <1>1, <1>8

(* Each presentation gets mappings of its own index.                       *)
LEMMA SortedByIndex ==
  ASSUME NEW idm \in Seq(Mapping), NEW idx
  PROVE  DescriptorsByPresentationIndex(idm, idx) \in Seq({m \in Mapping : PresentationIndex(m) = idx})
<1> DEFINE T == {m \in Mapping : PresentationIndex(m) = idx}
           n == Len(idm)
<1>1. n \in Nat /\ \A i \in 1..n : idm[i] \in Mapping
  OBVIOUS
<1>2. PICK h : /\ DescriptorsByPresentationIndex(idm, idx) = h[n]
               /\ h[0] = <<>>
               /\ \A i \in 1..n : h[i] = Sorted(idm, idx, h, i)
  BY <1>1, SortingUnfolds
<1> DEFINE S == {i \in 0..n : h[i] \in Seq(T)}
<1>3. 0 \in S
  <2>1. 0 \in 0..n
    BY <1>1
  <2>2. h[0] \in Seq(T)
    <3> HIDE DEF T
    <3>1. <<>> \in Seq(T)
      OBVIOUS
    <3> QED BY <1>2, <3>1
  <2> QED BY <2>1, <2>2
<1>4. ASSUME NEW i \in 0..n, i # n, i \in S PROVE i + 1 \in S
  <2>1. i + 1 \in 1..n /\ i + 1 \in 0..n /\ (i + 1) - 1 = i /\ h[i] \in Seq(T)
    BY <1>1, <1>4
  <2>2. h[i + 1] = IF PresentationIndex(idm[i + 1]) = idx THEN Append(h[i], idm[i + 1]) ELSE h[i]
    BY <1>2, <2>1 DEF Sorted
  <2>3. PresentationIndex(idm[i + 1]) = idx => idm[i + 1] \in T
    BY <1>1, <2>1
  <2> HIDE DEF T
  <2>4. h[i + 1] \in Seq(T)
    BY <2>1, <2>2, <2>3
  <2> QED BY <2>1, <2>4
<1>5. n \in S
  <2> HIDE DEF S
  <2>1. 0..n \subseteq S
    BY <1>1, <1>3, <1>4, UpTo
  <2> QED BY <1>1, <2>1
<1> QED BY <1>2, <1>5

-----------------------------------------------------------------------------
(* Checking the mappings.                                                  *)

Matches == [presentation : Nat, held : Nat, item : Nat, id : Nat]

(* A mapping of presentation i was checked, and left a match.              *)
Checked(i, m) ==
  /\ Selects(m, i)
  /\ PassesConstraints(m, Selected(m, i))
  /\ \E k \in DOMAIN result : result[k] = Match(i, Holder(m, i), m.item, m.id)
AllChecked(i) ==
  /\ Mappings(i) \in Seq(Mapping)
  /\ \A j \in 1..Len(Mappings(i)) : Checked(i, Mappings(i)[j])

StateInv ==
  /\ input \in Inputs
  /\ at \in 0..Len(Vps)
  /\ result \in Seq(Matches)
  /\ pc \in {"open", "check", "eval", "done"}
  /\ pc # "done" => outcome = "none"

(* Every match so far answers its descriptor.                              *)
ResultInv ==
  \A k \in 1..Len(result) : result[k].id \in Vps[result[k].held].creds[result[k].item].answers

(* What is still to do is the end of the mappings of the presentation.     *)
TodoInv ==
  pc = "check" =>
    /\ at >= 1 /\ Mappings(at) \in Seq(Mapping) /\ todo \in Seq(Mapping)
    /\ Len(todo) <= Len(Mappings(at))
    /\ \A j \in 1..Len(todo) : todo[j] = Mappings(at)[Len(Mappings(at)) - Len(todo) + j]

(* The rest was checked, unless an error was swallowed, and then no match  *)
(* is left.                                                                *)
ProgressInv ==
  /\ pc = "open" => \A i \in 1..at : AllChecked(i)
  /\ pc = "check" =>
       /\ \A i \in 1..(at - 1) : AllChecked(i)
       /\ \A j \in 1..(Len(Mappings(at)) - Len(todo)) : Checked(at, Mappings(at)[j])
  /\ pc = "eval" => result = <<>> \/ \A i \in 1..Len(Vps) : AllChecked(i)

Inv ==
  /\ StateInv /\ ResultInv /\ TodoInv /\ ProgressInv
  /\ EveryMappingChecked /\ EveryDescriptorMatched

LEMMA InputFacts ==
  ASSUME StateInv
  PROVE  /\ Len(Vps) \in Nat \ {0} /\ at \in Nat
         /\ \A i \in 1..Len(Vps) : Mappings(i) \in Seq(Mapping) \union {NoMap}
         /\ UseMergedSubmission => \A i \in 1..Len(Vps) : Mappings(i) # NoMap
<1>1. /\ Len(Vps) \in Nat \ {0} /\ at \in Nat /\ NoMap \notin Seq(Mapping)
      /\ input.merged \in Seq(Mapping) \union {NoMap}
      /\ \A i \in 1..Len(Vps) : Vps[i].own \in Seq(Mapping) \union {NoMap}
  BY MatchAssumption DEF StateInv, Vps
<1>2. ASSUME NEW i \in 1..Len(Vps)
      PROVE  /\ Mappings(i) \in Seq(Mapping) \union {NoMap}
             /\ UseMergedSubmission => Mappings(i) # NoMap
  <2>1. CASE UseMergedSubmission
    <3>1. Mappings(i) \in Seq({m \in Mapping : PresentationIndex(m) = i - 1})
      BY <1>1, <2>1, SortedByIndex DEF UseMergedSubmission, Mappings, MappingsIn
    <3>2. Mappings(i) \in Seq(Mapping)
      BY <3>1
    <3> QED BY <1>1, <3>2
  <2>2. CASE ~UseMergedSubmission
    BY <1>1, <2>2 DEF UseMergedSubmission, Mappings, MappingsIn, Vps
  <2> QED BY <2>1, <2>2
<1> QED BY <1>1, <1>2

(* Nothing that only adds matches undoes a check.                          *)
LEMMA ChecksStay ==
  ASSUME UNCHANGED input, DOMAIN result \subseteq DOMAIN result',
         \A k \in DOMAIN result : result'[k] = result[k]
  PROVE  /\ \A i, m : Checked(i, m) => Checked(i, m)'
         /\ \A i : AllChecked(i) => AllChecked(i)'
<1>1. ASSUME NEW i, NEW m, Checked(i, m)
      PROVE  Checked(i, m)'
  BY <1>1 DEF Checked, Selects, Selected, PassesConstraints, Vps, UseMergedSubmission, Holder
<1>2. \A i : Mappings(i)' = Mappings(i)
  BY DEF Mappings
<1> QED BY <1>1, <1>2 DEF AllChecked

LEMMA OpeningKeepsInv ==
  ASSUME Inv, OpenPresentation
  PROVE  Inv'
<1>1. /\ pc = "open" /\ at < Len(Vps) /\ at' = at + 1
      /\ UNCHANGED <<input, result>>
      /\ \/ /\ UseMergedSubmission \/ Vps[at'].own # NoMap
            /\ todo' = Mappings(at') /\ pc' = "check" /\ outcome' = outcome
         \/ pc' = "done" /\ outcome' = "error"
  BY DEF OpenPresentation, Fail
<1>2. Len(Vps) \in Nat \ {0} /\ at \in Nat /\ at' \in 1..Len(Vps)
  BY <1>1, InputFacts DEF Inv
<1>3. StateInv' /\ ResultInv'
  BY <1>1, <1>2 DEF Inv, StateInv, ResultInv, Vps
<1>4. outcome' # "matched"
  BY <1>1 DEF Inv, StateInv
<1>5. ASSUME pc' = "check"
      PROVE  Mappings(at') \in Seq(Mapping)
  <2>1. Mappings(at') # NoMap
    BY <1>1, <1>2, <1>5, InputFacts DEF Inv, Mappings, MappingsIn, UseMergedSubmission, Vps
  <2> QED BY <1>2, <2>1, InputFacts DEF Inv
<1>6. Mappings(at)' = Mappings(at') /\ Len(Vps)' = Len(Vps)
  BY <1>1 DEF Mappings, Vps
<1>7. TodoInv'
  <2> SUFFICES ASSUME pc' = "check" PROVE TodoInv'
    BY DEF TodoInv
  <2>1. todo' = Mappings(at)' /\ Mappings(at)' \in Seq(Mapping)
    BY <1>1, <1>5, <1>6
  <2> QED BY <1>2, <2>1 DEF TodoInv
<1>8. ProgressInv'
  <2>1. \A i \in 1..at : AllChecked(i)'
    BY <1>1, ChecksStay DEF Inv, ProgressInv
  <2>2. pc' # "open" /\ pc' # "eval"
    BY <1>1
  <2>3. ASSUME pc' = "check"
        PROVE  /\ at' - 1 = at
               /\ Len(Mappings(at)') - Len(todo') = 0
    BY <1>1, <1>2, <1>5, <1>6, <2>3
  <2> QED BY <2>1, <2>2, <2>3 DEF ProgressInv
<1> QED BY <1>3, <1>4, <1>7, <1>8 DEF Inv, EveryMappingChecked, EveryDescriptorMatched

LEMMA CheckingKeepsInv ==
  ASSUME Inv, CheckMapping
  PROVE  Inv'
<1> PICK m : m = Head(todo)
  OBVIOUS
<1> PICK match : match = Match(at, Holder(m, at), m.item, m.id)
  OBVIOUS
<1>1. /\ pc = "check" /\ todo # <<>> /\ UNCHANGED <<input, at>>
      /\ \/ /\ Selects(m, at) /\ PassesConstraints(m, Selected(m, at))
            /\ result' = Append(result, match) /\ todo' = Tail(todo)
            /\ UNCHANGED <<pc, outcome>>
         \/ pc' = "done" /\ outcome' = "error" /\ UNCHANGED <<result, todo>>
  BY DEF CheckMapping, Fail, Match
<1>2. /\ Len(Vps) \in Nat \ {0} /\ at \in Nat /\ at >= 1
      /\ todo \in Seq(Mapping) /\ m \in Mapping /\ Len(todo) \in Nat \ {0}
      /\ result \in Seq(Matches)
  BY <1>1, InputFacts DEF Inv, TodoInv, StateInv
<1>3. CASE pc' = "done"
  <2>1. outcome' = "error" /\ UNCHANGED result
    BY <1>1, <1>3
  <2> QED BY <1>1, <1>3, <2>1
          DEF Inv, StateInv, ResultInv, TodoInv, ProgressInv, EveryMappingChecked, EveryDescriptorMatched, Vps
<1>4. CASE pc' # "done"
  <2>1. /\ Selects(m, at) /\ PassesConstraints(m, Selected(m, at))
        /\ result' = Append(result, match) /\ todo' = Tail(todo) /\ UNCHANGED <<pc, outcome>>
    BY <1>1, <1>4
  <2>2. Holder(m, at) \in Nat /\ match \in Matches
    <3>1. Holder(m, at) \in Nat
      BY <1>2, <2>1 DEF Selects
    <3>2. m.id \in Nat /\ m.item \in Nat
      BY <1>2 DEF Mapping
    <3> QED BY <1>2, <3>1, <3>2 DEF Match, Matches
  <2>3. /\ match.id = m.id /\ match.held = Holder(m, at) /\ match.item = m.item
    BY DEF Match
  <2>4. /\ result' \in Seq(Matches) /\ Len(result') = Len(result) + 1
        /\ result'[Len(result) + 1] = match
        /\ \A k \in 1..Len(result) : result'[k] = result[k]
    BY <1>2, <2>1, <2>2
  <2>5. Vps' = Vps /\ Mappings(at)' = Mappings(at)
    BY <1>1 DEF Vps, Mappings
  <2>6. StateInv'
    BY <1>1, <2>1, <2>4, <2>5 DEF Inv, StateInv
  <2>7. ResultInv'
    <3>1. m.id \in Vps[Holder(m, at)].creds[m.item].answers
      BY <2>1 DEF PassesConstraints, Selected
    <3>2. ASSUME NEW k \in 1..Len(result')
          PROVE  result'[k].id \in Vps[result'[k].held].creds[result'[k].item].answers
      <4>1. CASE k = Len(result) + 1
        BY <2>3, <2>4, <3>1, <4>1
      <4>2. CASE k \in 1..Len(result)
        BY <2>4, <4>2 DEF Inv, ResultInv
      <4> QED BY <1>2, <2>4, <4>1, <4>2
    <3> QED BY <2>5, <3>2 DEF ResultInv
  <2>8. /\ todo' \in Seq(Mapping) /\ Len(todo') = Len(todo) - 1
        /\ \A j \in 1..Len(todo') : todo'[j] = todo[j + 1]
    BY <1>1, <1>2, <2>1
  <2>9. TodoInv'
    <3>1. /\ Mappings(at) \in Seq(Mapping) /\ Len(todo) <= Len(Mappings(at))
          /\ \A j \in 1..Len(todo) : todo[j] = Mappings(at)[Len(Mappings(at)) - Len(todo) + j]
      BY <1>1 DEF Inv, TodoInv
    <3>2. Len(Mappings(at)) \in Nat
      BY <3>1
    <3>3. ASSUME NEW j \in 1..Len(todo')
          PROVE  todo'[j] = Mappings(at)[Len(Mappings(at)) - Len(todo') + j]
      <4>1. j + 1 \in 1..Len(todo)
            /\ Len(Mappings(at)) - Len(todo) + (j + 1) = Len(Mappings(at)) - Len(todo') + j
        BY <1>2, <2>8, <3>2
      <4> QED BY <2>8, <3>1, <4>1
    <3> QED BY <1>1, <1>2, <2>5, <2>8, <3>1, <3>2, <3>3 DEF TodoInv
  <2>10. ProgressInv'
    <3>1. /\ \A i \in 1..(at - 1) : AllChecked(i)
          /\ \A j \in 1..(Len(Mappings(at)) - Len(todo)) : Checked(at, Mappings(at)[j])
          /\ Mappings(at) \in Seq(Mapping) /\ Len(todo) <= Len(Mappings(at))
          /\ todo[1] = Mappings(at)[Len(Mappings(at)) - Len(todo) + 1]
      BY <1>1, <1>2 DEF Inv, ProgressInv, TodoInv
    <3>2. /\ \A i, n : Checked(i, n) => Checked(i, n)'
          /\ \A i : AllChecked(i) => AllChecked(i)'
      <4>1. DOMAIN result \subseteq DOMAIN result' /\ \A k \in DOMAIN result : result'[k] = result[k]
        <5>1. result' \in Seq(Matches)
          BY <2>4
        <5>2. DOMAIN result = 1..Len(result) /\ DOMAIN result' = 1..Len(result')
          BY <1>2, <5>1
        <5> QED BY <1>2, <2>4, <5>2
      <4> QED BY <1>1, <4>1, ChecksStay
    <3>3. Checked(at, m)'
      <4>1. Len(result) + 1 \in DOMAIN result' /\ result'[Len(result) + 1] = match
        BY <1>2, <2>4
      <4>2. Selects(m, at)' /\ PassesConstraints(m, Selected(m, at))' /\ Holder(m, at)' = Holder(m, at)
        BY <1>1, <2>1, <2>5 DEF Selects, Selected, PassesConstraints, Holder, Vps, UseMergedSubmission
      <4> QED BY <1>1, <4>1, <4>2 DEF Checked
    <3>4. Mappings(at)[Len(Mappings(at)) - Len(todo) + 1] = m
      BY <1>2, <3>1
    <3>5. ASSUME NEW j \in 1..(Len(Mappings(at)) - Len(todo'))
          PROVE  Checked(at, Mappings(at)[j])'
      <4> PICK i, n : i = at /\ n = Mappings(at)[j]
        OBVIOUS
      <4>1. i = at' /\ n = Mappings(at)'[j]
        BY <1>1, <2>5
      <4>2. CASE j \in 1..(Len(Mappings(at)) - Len(todo))
        <5>1. Checked(i, n)
          BY <3>1, <4>2
        <5>2. Checked(i, n)'
          BY <3>2, <5>1
        <5> QED BY <4>1, <5>2
      <4>3. CASE j = Len(Mappings(at)) - Len(todo) + 1
        <5>1. n = m
          BY <3>4, <4>3
        <5> QED BY <3>3, <4>1, <5>1
      <4> QED BY <1>2, <2>8, <3>1, <4>2, <4>3
    <3> QED BY <1>1, <2>1, <2>5, <3>1, <3>2, <3>5 DEF ProgressInv
  <2> QED BY <1>1, <2>1, <2>6, <2>7, <2>9, <2>10
          DEF Inv, StateInv, EveryMappingChecked, EveryDescriptorMatched
<1> QED BY <1>3, <1>4

LEMMA StepsKeepInv ==
  ASSUME Inv, ContextFails \/ EndOfMappings \/ EvalSubmissionRequirements
  PROVE  Inv'
<1>1. UNCHANGED <<input, at, todo>> /\ Vps' = Vps /\ \A i : Mappings(i)' = Mappings(i)
  BY DEF ContextFails, EndOfMappings, EvalSubmissionRequirements, Vps, Mappings
<1>2. Len(Vps) \in Nat \ {0} /\ at \in 0..Len(Vps)
  BY InputFacts DEF Inv, StateInv
<1>3. CASE ContextFails
  <2>1. result' = <<>> /\ pc' = "eval" /\ outcome' = outcome /\ outcome = "none"
    BY <1>3 DEF ContextFails, Inv, StateInv
  <2> QED BY <1>1, <2>1
          DEF Inv, StateInv, ResultInv, TodoInv, ProgressInv, EveryMappingChecked, EveryDescriptorMatched
<1>4. CASE EndOfMappings
  <2>1. /\ pc = "check" /\ todo = <<>> /\ UNCHANGED <<result, outcome>> /\ outcome = "none"
        /\ pc' = IF at < Len(Vps) THEN "open" ELSE "eval"
    BY <1>4 DEF EndOfMappings, Inv, StateInv
  <2>2. at >= 1 /\ AllChecked(at) /\ \A i \in 1..(at - 1) : AllChecked(i)
    BY <2>1 DEF Inv, TodoInv, ProgressInv, AllChecked
  <2>3. \A i \in 1..at : AllChecked(i)
    BY <1>2, <2>2
  <2>4. \A i \in 1..at : AllChecked(i)'
    BY <1>1, <2>1, <2>3, ChecksStay
  <2>5. ProgressInv'
    BY <1>1, <1>2, <2>1, <2>4 DEF ProgressInv
  <2> QED BY <1>1, <2>1, <2>5 DEF Inv, StateInv, ResultInv, TodoInv, EveryMappingChecked, EveryDescriptorMatched
<1>5. CASE EvalSubmissionRequirements
  <2>1. /\ pc = "eval" /\ pc' = "done" /\ UNCHANGED result
        /\ outcome' = IF Descriptors \subseteq MatchedIDs THEN "matched" ELSE "error"
    BY <1>5 DEF EvalSubmissionRequirements
  <2>2. StateInv' /\ ResultInv' /\ TodoInv' /\ ProgressInv'
    BY <1>1, <2>1 DEF Inv, StateInv, ResultInv, TodoInv, ProgressInv
  <2>3. ASSUME outcome' = "matched"
        PROVE  EveryMappingChecked' /\ EveryDescriptorMatched'
    <3>1. \A d \in Descriptors : \E k \in DOMAIN result : result[k].id = d
      BY <2>1, <2>3 DEF MatchedIDs
    <3>2. result # <<>>
      <4>1. 1 \in Descriptors
        BY MatchAssumption DEF Descriptors
      <4> QED BY <3>1, <4>1
    <3>3. \A i \in 1..Len(Vps) : AllChecked(i)
      BY <2>1, <3>2 DEF Inv, ProgressInv
    <3>4. EveryMappingChecked
      BY <3>3 DEF EveryMappingChecked, AllChecked, Checked
    <3>5. EveryMappingChecked'
      <4>1. \A i \in 1..Len(Vps) : AllChecked(i)'
        BY <1>1, <2>1, <3>3, ChecksStay
      <4> QED BY <1>1, <4>1 DEF EveryMappingChecked, AllChecked, Checked
    <3>6. DOMAIN result = 1..Len(result)
      BY DEF Inv, StateInv
    <3>7. EveryDescriptorMatched'
      BY <1>1, <2>1, <3>1, <3>6 DEF EveryDescriptorMatched, Inv, ResultInv
    <3> QED BY <3>5, <3>7
  <2>4. outcome' # "matched" => EveryMappingChecked' /\ EveryDescriptorMatched'
    BY DEF EveryMappingChecked, EveryDescriptorMatched
  <2> QED BY <2>2, <2>3, <2>4 DEF Inv
<1> QED BY <1>3, <1>4, <1>5

LEMMA InvIsInvariant == Spec => []Inv
<1>1. Init => Inv
  <2> SUFFICES ASSUME Init PROVE Inv
    OBVIOUS
  <2>1. Len(Vps) \in Nat
    BY MatchAssumption DEF Init, Vps
  <2> QED BY <2>1 DEF Init, Inv, StateInv, ResultInv, TodoInv, ProgressInv, EveryMappingChecked,
                      EveryDescriptorMatched
<1>2. Inv /\ [Next]_vars => Inv'
  <2> SUFFICES ASSUME Inv, [Next]_vars PROVE Inv'
    OBVIOUS
  <2>1. CASE UNCHANGED vars
    <3>1. UNCHANGED <<input, at, todo, result, pc, outcome>> /\ Vps' = Vps /\ \A i : Mappings(i)' = Mappings(i)
      BY <2>1 DEF vars, Vps, Mappings
    <3>2. StateInv' /\ ResultInv' /\ TodoInv'
      BY <3>1 DEF Inv, StateInv, ResultInv, TodoInv
    <3>3. EveryMappingChecked' /\ EveryDescriptorMatched'
      <4>1. EveryDescriptorMatched'
        BY <3>1 DEF Inv, EveryDescriptorMatched
      <4>2. \A m, i : /\ Selects(m, i)' <=> Selects(m, i)
                     /\ Holder(m, i)' = Holder(m, i)
                     /\ PassesConstraints(m, Selected(m, i))' <=> PassesConstraints(m, Selected(m, i))
        BY <3>1 DEF Selects, Selected, Holder, UseMergedSubmission, PassesConstraints
      <4>3. EveryMappingChecked'
        BY <3>1, <4>2 DEF Inv, EveryMappingChecked
      <4> QED BY <4>1, <4>3
    <3>4. /\ \A i : AllChecked(i) => AllChecked(i)'
          /\ \A i, m : Checked(i, m) => Checked(i, m)'
      BY <3>1, ChecksStay
    <3>5. ASSUME NEW j \in 1..(Len(Mappings(at)) - Len(todo)), Checked(at, Mappings(at)[j])
          PROVE  Checked(at, Mappings(at)[j])'
      BY <3>1, <3>5 DEF Checked, Selects, Selected, Holder, UseMergedSubmission, PassesConstraints, Vps
    <3>6. ProgressInv'
      BY <3>1, <3>4, <3>5 DEF Inv, ProgressInv
    <3> QED BY <3>2, <3>3, <3>6 DEF Inv
  <2> QED BY <2>1, OpeningKeepsInv, CheckingKeepsInv, StepsKeepInv DEF Next
<1> QED BY <1>1, <1>2, PTL DEF Spec

(* Match: success means that every mapping was checked, although the error *)
(* of a context that does not load is swallowed.                           *)
THEOREM AlwaysEveryMappingChecked == Spec => []EveryMappingChecked
BY InvIsInvariant, PTL DEF Inv

(* Match: success means that every descriptor has a match that answers it. *)
THEOREM AlwaysEveryDescriptorMatched == Spec => []EveryDescriptorMatched
BY InvIsInvariant, PTL DEF Inv

-----------------------------------------------------------------------------
(* A presentation's own submission points into that presentation.          *)
OwnUnrooted ==
  \A call \in Inputs : \A i \in 1..Len(call.vps) :
    LET own == call.vps[i].own IN
    call.merged = NoMap /\ own # NoMap => \A j \in 1..Len(own) : own[j].root = NoRoot

(* So every mapping leads to the presentation it is checked for.           *)
LEMMA HolderIsOwn ==
  ASSUME OwnUnrooted, StateInv, NEW i \in 1..Len(Vps), Mappings(i) # NoMap,
         NEW j \in 1..Len(Mappings(i))
  PROVE  Holder(Mappings(i)[j], i) = i
<1>1. Len(Vps) \in Nat /\ input \in Inputs
  BY InputFacts DEF StateInv
<1>2. CASE UseMergedSubmission
  <2>1. input.merged \in Seq(Mapping)
    BY <1>1, <1>2, MatchAssumption DEF UseMergedSubmission
  <2>2. Mappings(i) \in Seq({m \in Mapping : PresentationIndex(m) = i - 1})
    BY <1>2, <2>1, SortedByIndex DEF UseMergedSubmission, Mappings, MappingsIn
  <2>3. PICK m : m = Mappings(i)[j]
    OBVIOUS
  <2>4. m \in Mapping /\ PresentationIndex(m) = i - 1
    BY <2>2, <2>3
  <2> QED BY <1>1, <2>3, <2>4 DEF Holder, PresentationIndex, Mapping
<1>3. CASE ~UseMergedSubmission
  <2>1. Mappings(i)[j].root = NoRoot
    BY <1>1, <1>3 DEF OwnUnrooted, UseMergedSubmission, Mappings, MappingsIn, Vps
  <2> QED BY <2>1 DEF Holder
<1> QED BY <1>2, <1>3

(* HeldByThatPresentation: a MatchValue names the presentation its         *)
(* credential came in, when submissions are merged whatever they point to, *)
(* else if each points into its own presentation.                          *)
THEOREM AlwaysHeldByThatPresentation ==
  ASSUME OwnUnrooted
  PROVE  Spec => []HeldByThatPresentation
<1>1. Init => HeldByThatPresentation
  BY DEF Init, HeldByThatPresentation
<1>2. Inv /\ HeldByThatPresentation /\ [Next]_vars => HeldByThatPresentation'
  <2> SUFFICES ASSUME Inv, HeldByThatPresentation, [Next]_vars PROVE HeldByThatPresentation'
    OBVIOUS
  <2>1. CASE UNCHANGED result
    BY <2>1 DEF HeldByThatPresentation
  <2>2. CASE ContextFails
    BY <2>2 DEF ContextFails, HeldByThatPresentation
  <2>3. CASE CheckMapping /\ result' # result
    <3>1. PICK m, match : m = Head(todo) /\ match = Match(at, Holder(m, at), m.item, m.id)
      OBVIOUS
    <3>2. pc = "check" /\ todo # <<>> /\ result' = Append(result, match)
      BY <2>3, <3>1 DEF CheckMapping, Fail, Match
    <3>3. at \in 1..Len(Vps) /\ Len(Vps) \in Nat /\ StateInv /\ TodoInv
      BY <3>2, InputFacts DEF Inv, TodoInv, StateInv
    <3>4. /\ Mappings(at) \in Seq(Mapping) /\ todo \in Seq(Mapping) /\ Len(todo) <= Len(Mappings(at))
          /\ Len(todo) \in Nat \ {0} /\ Len(Mappings(at)) \in Nat
          /\ \A j \in 1..Len(todo) : todo[j] = Mappings(at)[Len(Mappings(at)) - Len(todo) + j]
      BY <3>2, <3>3 DEF TodoInv
    <3>5. PICK j \in 1..Len(Mappings(at)) : m = Mappings(at)[j]
      <4>1. 1 \in 1..Len(todo) /\ Len(Mappings(at)) - Len(todo) + 1 \in 1..Len(Mappings(at))
        BY <3>4
      <4>2. m = todo[1]
        BY <3>1, <3>4
      <4> QED BY <3>4, <4>1, <4>2
    <3>6. Holder(m, at) = at
      BY <3>3, <3>4, <3>5, HolderIsOwn, MatchAssumption
    <3>7. match.presentation = match.held
      BY <3>1, <3>6 DEF Match
    <3>8. result \in Seq(Matches)
      BY <3>3 DEF StateInv
    <3>9. /\ DOMAIN result' = 1..(Len(result) + 1) /\ result'[Len(result) + 1] = match
          /\ \A k \in 1..Len(result) : result'[k] = result[k]
          /\ DOMAIN result = 1..Len(result) /\ Len(result) \in Nat
      BY <3>2, <3>8, AppendProperties
    <3> QED BY <3>7, <3>9 DEF HeldByThatPresentation
  <2>4. CheckMapping \/ ContextFails \/ UNCHANGED result
    BY DEF Next, OpenPresentation, EndOfMappings, EvalSubmissionRequirements, vars
  <2> QED BY <2>1, <2>2, <2>3, <2>4
<1> QED BY <1>1, <1>2, InvIsInvariant, PTL DEF Spec
=============================================================================

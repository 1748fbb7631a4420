------------------------- MODULE MCSolutionIterator -------------------------
EXTENDS SolutionIterator, TLC

MCDescriptors == 1..N

Leaf(rule, count, min, max, from) ==
  [rule |-> rule, count |-> count, min |-> min, max |-> max, from |-> from, nested |-> {}]
Nest(rule, count, min, max, nested) ==
  [rule |-> rule, count |-> count, min |-> min, max |-> max, from |-> {}, nested |-> nested]

(* One group, every rule and bound.                                        *)
OneGroup ==
  {MakeLogic(MCDescriptors, 2 :> Leaf("pick", c, mn, mx, g), {2}) :
     c \in 0..2, mn \in 0..2, mx \in 0..2, g \in {1..N, 1..N \ {2}, 2..N}}

(* A nested choice between two groups that may overlap, each all or pick.  *)
TwoGroups ==
  {MakeLogic(MCDescriptors,
     (2 :> Nest("pick", c, 0, mx, {3, 4})) @@ (3 :> Leaf(ra, 1, 0, 0, a)) @@ (4 :> Leaf(rb, 2, 0, 0, b)),
     {2}) :
     c \in 0..2, mx \in 0..1, ra \in {"all", "pick"}, rb \in {"all", "pick"},
     a \in {{1, N}, {2, 3}}, b \in {1..3, {2, N}}}

MCLogics == {MakeLogic(MCDescriptors, <<>>, {})} \union OneGroup \union TwoGroups
=============================================================================

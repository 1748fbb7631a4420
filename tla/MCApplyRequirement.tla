------------------------- MODULE MCApplyRequirement -------------------------
EXTENDS ApplyRequirement, TLC

Leaf(rule, count, min, max, from) ==
  [rule |-> rule, count |-> count, min |-> min, max |-> max, from |-> from, nested |-> {}]
Nest(rule, count, min, max, nested) ==
  [rule |-> rule, count |-> count, min |-> min, max |-> max, from |-> {}, nested |-> nested]

(* Submission requirements over three descriptors, with their top level.   *)
Rules ==
  { <<<<>>, {}>>,
    <<2 :> Leaf("pick", 1, 0, 0, {1, 2, 3}), {2}>>,
    <<2 :> Leaf("pick", 0, 2, 0, {1, 2, 3}), {2}>>,
    <<2 :> Leaf("pick", 0, 0, 1, {2, 3}), {2}>>,
    <<2 :> Leaf("all", 0, 0, 0, {1}) @@ 3 :> Leaf("pick", 1, 0, 0, {2, 3}), {2, 3}>>,
    <<2 :> Nest("pick", 1, 0, 0, {3, 4}) @@ 3 :> Leaf("all", 0, 0, 0, {1, 2}) @@
      4 :> Leaf("all", 0, 0, 0, {3}), {2}>>,
    <<2 :> Leaf("pick", 1, 0, 0, {}), {2}>> }

Definition(rules, fields, limit, predicate, constrained, formats) ==
  [srs |-> rules[1], top |-> rules[2], fields |-> fields, limit |-> limit,
   predicate |-> predicate, constrained |-> constrained, formats |-> formats,
   separate |-> FALSE]

NoFormats == [d \in Descriptors |-> {}]

(* Fields over the claims a and b; the last descriptor has no constraints, *)
(* or constraints without fields, or asks for a as well.                   *)
PlainDefinitions ==
  {Definition(r, [d \in Descriptors |-> CASE d = 1 -> fields[1] [] d = 2 -> {"b"} [] OTHER -> fields[2]],
              l, {}, 1..fields[3], NoFormats) :
     r \in Rules, l \in {{}, {1, 2}},
     fields \in {<<{"a"}, {}, 2>>, <<{"a"}, {}, 3>>, <<{"a"}, {"a"}, 3>>, <<{"a", "b"}, {"a"}, 3>>}}

PredicateDefinitions ==
  {Definition(r, [d \in Descriptors |-> IF d = 2 THEN {"b"} ELSE {"a"}],
              {2, 3}, {1, 3}, Descriptors, [d \in Descriptors |-> IF d = 1 THEN {1} ELSE {}]) : r \in Rules}

MCDefinitions ==
  PlainDefinitions \union PredicateDefinitions
  \union {[p EXCEPT !.separate = TRUE] : p \in PredicateDefinitions}

Credential(id, kind, formats, open, sd, deep, base) ==
  [id |-> id, kind |-> kind, formats |-> formats, open |-> open, sd |-> sd, deep |-> deep,
   elements |-> {}, base |-> base]

(* Wallets of two credentials with ids of their own and no SD-JWT, one of  *)
(* them perhaps with another base context.                                 *)
DistinctWallets ==
  {[c \in 1..2 |-> Credential(c, IF c = 1 THEN k ELSE m, {1},
                              IF c = 1 THEN o ELSE p, {}, {}, IF c = 2 /\ m = "plain" THEN 2 ELSE 1)] :
     k \in {"plain", "bbs"}, m \in {"plain", "selfissued"},
     o \in {{"a"}, {"a", "b"}}, p \in {{}, {"b"}}}
(* A wallet with one SD-JWT that holds the claims a and b as disclosures,  *)
(* or the claim a and an array element.                                    *)
SdWallets ==
  {[c \in 1..2 |-> IF c = 1 THEN Credential(1, "sdjwt", {1}, {}, {"a", "b"}, {}, 1)
                   ELSE Credential(2, "plain", {1}, o, {}, {}, 1)] :
     o \in {{}, {"b"}, {"a", "b"}}}

ElementWallets ==
  {[w EXCEPT ![1].sd = {"a", "e"}, ![1].elements = {"e"}] : w \in SdWallets}

(* The claim b inside the disclosed object a.                              *)
DeepWallets == {[w EXCEPT ![1].deep = {"b"}] : w \in SdWallets}

MCWallets == DistinctWallets \union SdWallets \union ElementWallets \union DeepWallets

AllRequired == <<<<>>, {}>>
SharedDefinitions ==
  {Definition(AllRequired, [d \in Descriptors |-> IF d = 2 THEN g ELSE f], l, {}, Descriptors, NoFormats) :
     f \in {{"a"}, {"a", "b"}}, g \in {{"a"}, {"b"}}, l \in {{1, 2}}}
=============================================================================

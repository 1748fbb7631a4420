------------------------- MODULE MCMatchSubmission -------------------------
EXTENDS MatchSubmission, TLC, SequencesExt

Cred(schema, answers, parses) == [schema |-> schema, answers |-> answers, parses |-> parses]
Map(id, root, item) == [id |-> id, root |-> root, item |-> item]
Vp(creds, own, typed) == [creds |-> creds, own |-> own, typed |-> typed]
Input(vps, merged, validate) == [vps |-> vps, merged |-> merged, validateSchema |-> validate]

Credentials == {Cred(s, a, p) : s \in {{1, 2}, {1}}, a \in {{1, 2}, {2}}, p \in BOOLEAN} \ {Cred({1}, {2}, FALSE)}
Good == Cred({1, 2}, {1, 2}, TRUE)

(* One presentation or two with their own submissions.                     *)
OwnMaps == {NoMap, <<Map(1, NoRoot, 1), Map(2, NoRoot, 1)>>, <<Map(2, NoRoot, 2)>>, <<Map(3, NoRoot, 1)>>,
            <<Map(1, NoRoot, 1), Map(1, NoRoot, 2), Map(2, NoRoot, 1)>>, <<>>}
OwnInputs ==
  {Input(<<Vp(<<c, d>>, m, t)>>, NoMap, v) :
     c \in Credentials, d \in Credentials, m \in OwnMaps, v \in BOOLEAN, t \in BOOLEAN}
  \union
  {Input(<<Vp(<<c>>, m, TRUE), Vp(<<d>>, n, TRUE)>>, NoMap, v) :
     c \in Credentials, d \in Credentials, m \in OwnMaps, n \in OwnMaps, v \in BOOLEAN}

(* A merged submission of up to three mappings over two presentations.     *)
MergedMaps == UNION {[1..n -> {Map(i, r, 1) : i \in 1..2, r \in {0, 1, NoRoot}}] : n \in 1..3}
MergedInputs ==
  {Input(<<Vp(<<c>>, NoMap, TRUE), Vp(<<Good>>, NoMap, TRUE)>>, m, TRUE) :
     c \in Credentials, m \in MergedMaps}
  \union {Input(<<Vp(<<Good>>, NoMap, TRUE)>>, m, TRUE) : m \in MergedMaps}

AllInputs == OwnInputs \union MergedInputs
=============================================================================

------------------------------ MODULE MCSdJwt ------------------------------
EXTENDS SdJwt

MCNodes == {"id", "degree", "degree.id", "degree.type", "langs", "langs[0]"}
MCParent == [n \in MCNodes |->
  CASE n \in {"degree.id", "degree.type"} -> "degree" [] n = "langs[0]" -> "langs" [] OTHER -> "root"]
MCKind == [n \in MCNodes \union {"root"} |->
  CASE n \in {"root", "degree"} -> "object" [] n = "langs" -> "array" [] OTHER -> "atom"]
MCName == [n \in MCNodes |->
  CASE n \in {"id", "degree.id"} -> "id" [] n = "degree.type" -> "type" [] n = "langs[0]" -> "" [] OTHER -> n]
MCDecoy == [m \in {"root", "degree"} |-> IF m = "root" THEN "decoy" ELSE "degree.decoy"]

Options(version, structured, nonSD, always, recursive, decoys) ==
  [version |-> version, structured |-> structured, nonSD |-> nonSD, always |-> always,
   recursive |-> recursive, decoys |-> decoys, cnf |-> None, keys |-> {}, exp |-> None]
NonSD == {{}, {"degree"}, {"id", "langs[0]"}, {"degree.id", "langs"}}
Bound(cnf, decoys, version) ==
  [Options(version, FALSE, {"id", "langs"}, {}, {"degree"}, decoys) EXCEPT !.cnf = cnf, !.keys = {"k1", "k2"}, !.exp = 0]
MCIssuerOptions ==
  {Options(2, s, n, {}, {}, FALSE) : s \in BOOLEAN, n \in NonSD}
  \union {Options(5, s, n, a, r, FALSE) :
            s \in BOOLEAN, n \in NonSD, a \in {{}, {"degree"}, {"langs"}}, r \in {{}, {"degree"}}}
  \union {Bound(c, FALSE, 5) : c \in {None, "k1"}} \union {Bound("k1", TRUE, v) : v \in {2, 5}}

(* Other issuers put digests and claims where they like: a member of the   *)
(* degree beside the degree, two names that meet in clear or not, a digest *)
(* at two places, an element in an object.                                 *)
Placed(clear, sd) ==
  [clear |-> [m \in Containers |-> IF m = Root THEN clear ELSE {}],
   sd |-> [m \in Containers |-> IF m \in DOMAIN sd THEN sd[m] ELSE {}],
   disclosures |-> UNION {sd[m] : m \in DOMAIN sd}, 
   cnf |-> None, keys |-> {}, exp |-> None, opts |-> None]
MCOtherSDJWTs ==
  {Placed({"id"}, [m \in {"root"} |-> {"degree.type", "degree"}]),
   Placed({"id"}, [m \in {"root"} |-> {"degree.id", "degree.type"}]),
   Placed({}, [m \in {"root"} |-> {"id", "degree.id"}]),
   Placed({}, [m \in {"root", "degree"} |-> IF m = "root" THEN {"degree", "degree.type"} ELSE {"degree.type"}]),
   Placed({"degree"}, [m \in {"root", "degree"} |-> IF m = "root" THEN {"langs[0]"} ELSE {"degree.type"}])}

MCPolicy == [v \in Verifiers |-> [required |-> v = "v1", expects |-> TRUE]]
=============================================================================

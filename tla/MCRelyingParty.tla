--------------------------- MODULE MCRelyingParty ---------------------------
EXTENDS RelyingParty

MCController == [m \in {"i1", "ienc", "h1"} |-> IF m = "h1" THEN "did:h" ELSE "did:i"]
MCSuite == [m \in {"i1", "ienc", "h1"} |-> IF m = "h1" THEN "ES256" ELSE "EdDSA"]

Content(v2, id, origin, issued, schema) ==
  [v2 |-> v2, id |-> id, issuer |-> "did:i", subject |-> "did:i", origin |-> origin,
   issued |-> issued, schema |-> schema]

(* Both data models; a domain linkage credential and one that names a      *)
(* schema; one without an issuer and one without a date.                   *)
MCContents ==
  {Content(FALSE, None, "https://a", "t1", FALSE), Content(TRUE, "urn:1", None, "t1", TRUE),
   Content(TRUE, None, "https://a", None, FALSE),
   [Content(FALSE, "urn:1", None, "t1", FALSE) EXCEPT !.issuer = None]}

(* A key under its own id, under that of another method, under none, and   *)
(* one that is only for key agreement.                                     *)
MCSignings ==
  {[key |-> "i1", kid |-> "i1"], [key |-> "i1", kid |-> "h1"], [key |-> "i1", kid |-> None],
   [key |-> "h1", kid |-> "h1"], [key |-> "h1", kid |-> "i1"], [key |-> "ienc", kid |-> "ienc"]}

(* Another one for the same domain, signed with a key of the holder.       *)
MCOther ==
  CreateSignedJWTVC(CreateCredential(Content(FALSE, None, "https://a", "t1", FALSE)),
                    [method |-> "h1", version |-> 1], "ES256", "h1", TRUE)

Option(checkProof, checker, dataIntegrity, validate, customSchema, requireProof) ==
  [checkProof |-> checkProof, checker |-> checker, dataIntegrity |-> dataIntegrity,
   validate |-> validate, customSchema |-> customSchema,
   requireProof |-> requireProof, requireVC |-> requireProof]
MCOptions ==
  {Option(TRUE, TRUE, TRUE, v, TRUE, ~v) : v \in BOOLEAN}
  \union {Option(TRUE, FALSE, TRUE, TRUE, FALSE, FALSE), Option(TRUE, TRUE, FALSE, TRUE, TRUE, FALSE),
          Option(FALSE, FALSE, FALSE, TRUE, TRUE, FALSE)}

(* A list of each DID, the issuer's in a minimised JWT.                    *)
MCLists ==
  [l \in {"L1", "L2"} |->
     LET list == CreateCredential(IF l = "L1" THEN Content(FALSE, "urn:l", None, "t1", FALSE)
                                  ELSE [Content(TRUE, None, None, "t1", FALSE) EXCEPT !.issuer = "did:h"])
     IN  IF l = "L1" THEN CreateUnsecuredJWTVC(list, TRUE) ELSE list]

(* Two bytes of two bits each; what is revoked has the same index, and the *)
(* statuses name it, the other bit of its byte, or what is behind the end. *)
MCRevocable == {<<"L1", 2>>, <<"L2", 2>>}
Status(did, index) ==
  [type |-> "StatusList2021Entry", did |-> did, list |-> "L1", index |-> index, purpose |-> "revocation"]
MCStatuses == {Status(did, 2) : did \in BOOLEAN} \union {Status(FALSE, 3), Status(FALSE, 4),
                Status(FALSE, NoNumber)}
=============================================================================

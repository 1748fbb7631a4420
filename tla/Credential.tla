----------------------------- MODULE Credential -----------------------------
(***************************************************************************)
(* verifiable.Credential: creating, modifying, enveloping and serialising  *)
(* a credential, and parsing it back.                                      *)
(*                                                                         *)
(* The Go value has three parts that every operation must keep in step:    *)
(*   contents  the typed fields: v2 (whether the base context is that of   *)
(*             the data model 2.0), id, issuer, subject, origin (of a      *)
(*             domain linkage credential), issued, and whether it names a  *)
(*             schema of its own                                           *)
(*   json      the JSON object, with its two issuance dates and the proofs *)
(*   env       the JWS, the unsecured JWT or the COSE message it is in     *)
(* The expiration dates go the way of the issuance dates and are left out. *)
(* What travels is a form: the JSON object itself, the string of an        *)
(* envelope, or an EnvelopedVerifiableCredential object around it.         *)
(***************************************************************************)
EXTENDS ProofCheck

CONSTANTS
  Refused,      \* a parser fails
  Unsupported,  \* it fails with errUnsupportedCredentialFormat
  NeedsID       \* the versions of the custom schema that require an id

Either(a, b) == IF a # None THEN a ELSE b

-----------------------------------------------------------------------------
(* Creating.                                                               *)

(* serializeCredentialContents: the issued time goes where the base        *)
(* context has it.                                                         *)
SerializeContents(c) ==
  [v2 |-> c.v2, id |-> c.id, issuer |-> c.issuer, subject |-> c.subject, origin |-> c.origin,
   issuanceDate |-> IF c.v2 THEN None ELSE c.issued,
   validFrom |-> IF c.v2 THEN c.issued ELSE None,
   schema |-> c.schema, proofs |-> <<>>]

(* parseCredentialContents: issuanceDate is read before validFrom.         *)
ParseContents(json) ==
  [v2 |-> json.v2, id |-> json.id, issuer |-> json.issuer, subject |-> json.subject,
   origin |-> json.origin, issued |-> Either(json.issuanceDate, json.validFrom),
   schema |-> json.schema]

CreateCredential(c) == [json |-> SerializeContents(c), contents |-> c, env |-> None]

(* The With... functions copy the JSON without its proofs and leave the    *)
(* envelope behind.                                                        *)
Modified(json, contents) ==
  [json |-> [json EXCEPT !.proofs = <<>>], contents |-> contents, env |-> None]
WithModifiedID(cred, id) ==
  Modified([cred.json EXCEPT !.id = id], [cred.contents EXCEPT !.id = id])
WithModifiedIssuer(cred, issuer) ==
  Modified([cred.json EXCEPT !.issuer = issuer], [cred.contents EXCEPT !.issuer = issuer])
(* Each writes its own field, whatever the base context.                   *)
WithModifiedIssued(cred, t) ==
  Modified([cred.json EXCEPT !.issuanceDate = t], [cred.contents EXCEPT !.issued = t])
WithModifiedValidFrom(cred, t) ==
  Modified([cred.json EXCEPT !.validFrom = t], [cred.contents EXCEPT !.issued = t])

(* newJWTCredClaims: minimised, the "vc" claim leaves out what the other   *)
(* claims say.                                                             *)
JWTClaims(cred, minimize) ==
  [iss |-> cred.contents.issuer, jti |-> cred.contents.id, iat |-> cred.contents.issued,
   vc |-> IF minimize
          THEN [cred.json EXCEPT !.id = None, !.issuer = None, !.issuanceDate = None, !.validFrom = None]
          ELSE cred.json]
(* newCWTCredClaims.                                                       *)
CWTClaims(cred) ==
  [iss |-> cred.contents.issuer, jti |-> cred.contents.id, iat |-> cred.contents.issued, vc |-> cred.json]

(* The claims need one subject with an id and an issuer; those of a CWT an *)
(* issued time too.                                                        *)
CanClaim(cred) == cred.contents.subject # None /\ cred.contents.issuer # None

CreateSignedJWTVC(cred, key, alg, kid, minimize) ==
  [cred EXCEPT !.env = Sign("jws", key, alg, kid, JWTClaims(cred, minimize))]
CreateSignedCOSEVC(cred, key, alg, kid) ==
  [cred EXCEPT !.env = Sign("cose", key, alg, kid, CWTClaims(cred))]
CreateUnsecuredJWTVC(cred, minimize) ==
  [cred EXCEPT !.env = Sign("unsecured", None, None, None, JWTClaims(cred, minimize))]

(* AddLinkedDataProof appends; AddDataIntegrityProof replaces what there   *)
(* was, after signing over it.                                             *)
AddLinkedDataProof(cred, key, alg, kid) ==
  [cred EXCEPT !.json.proofs =
     Append(@, Sign("LD", key, alg, kid, [cred.json EXCEPT !.proofs = <<>>]))]
AddDataIntegrityProof(cred, key) ==
  [cred EXCEPT !.json.proofs = <<Sign("DI", key, Suite[key.method], key.method, cred.json)>>]

(* ToUniversalForm: an envelope stands for itself under the first data     *)
(* model, and in a data URL under the second.  An unsecured JWT is just    *)
(* the string that CreateUnsecuredJWTVC returned.                          *)
ToUniversalForm(cred) ==
  [form |-> IF cred.env = None THEN "object"
            ELSE IF cred.contents.v2 /\ cred.env.type # "unsecured" THEN "enveloped" ELSE "string",
   json |-> IF cred.env = None THEN cred.json ELSE None,
   env |-> cred.env]

-----------------------------------------------------------------------------
(* Parsing.  opts says whether proofs are checked (checkProof), whether a  *)
(* proof checker and a Data Integrity verifier are given, whether the      *)
(* credential is validated, and against which custom schema: None if it    *)
(* could not be loaded.                                                    *)

(* Mutant: the id a minimised credential left out is not put back.         *)
RefineWithoutID(claims) ==
  [claims.vc EXCEPT !.issuer = Either(claims.iss, @),
                    !.issuanceDate = IF claims.vc.v2 THEN @ ELSE Either(claims.iat, @),
                    !.validFrom = IF claims.vc.v2 THEN Either(claims.iat, @) ELSE @]

(* refineFromJWTClaims: the registered claims overwrite the fields of the  *)
(* credential; only two different DIDs as issuer are an error.             *)
RefineFromJWTClaims(claims) ==
  LET vc == claims.vc IN
  IF {claims.iss, vc.issuer} \subseteq DIDs /\ claims.iss # vc.issuer
  THEN Refused
  ELSE [vc EXCEPT !.id = Either(claims.jti, @),
                  !.issuer = Either(claims.iss, @),
                  !.issuanceDate = IF vc.v2 THEN @ ELSE Either(claims.iat, @),
                  !.validFrom = IF vc.v2 THEN Either(claims.iat, @) ELSE @]

(* validateCredential, with getSchemaLoader: a custom schema takes the     *)
(* place of the base one, whose required fields are those of the data      *)
(* model.                                                                  *)
ValidateCredential(json, opts) ==
  IF json.schema /\ opts.customSchema
  THEN opts.schema # None /\ (opts.schema \in NeedsID => json.id # None)
  ELSE json.subject # None /\ json.issuer # None /\ (~json.v2 => json.issuanceDate # None)

CheckProof(cred, opts) ==
  LET issuer == cred.contents.issuer IN
  /\ issuer # None
  /\ \/ /\ cred.env # None /\ cred.env.type = "jws"
        /\ opts.checker /\ JWTProofChecks(opts.docs, cred.env, issuer)
     \/ /\ cred.env # None /\ cred.env.type = "cose"
        /\ opts.checker /\ CWTProofChecks(opts.docs, cred.env, issuer)
     \/ /\ cred.env = None
        /\ CheckEmbeddedProof(opts.docs, cred.json, issuer, opts)

Parsed(json, env, validate, opts) ==
  IF json = Refused \/ (validate /\ ~ValidateCredential(json, opts))
  THEN Refused
  ELSE [json |-> json, contents |-> ParseContents(json), env |-> env]

(* unwrapStringVC, tryParseAsJWSVC and IsJWTUnsecured: what the bytes turn  *)
(* out to be.                                                              *)
Kind(w) == IF w.form = "object" THEN "object" ELSE w.env.type

(* CredentialJSONParser: a JWS keeps its envelope and is not validated; an *)
(* unsecured JWT becomes the object in it.                                 *)
JSONParser(w, opts) ==
  IF Kind(w) = "object" THEN Parsed(w.json, None, opts.validate, opts)
  ELSE IF Kind(w) = "jws" THEN Parsed(RefineFromJWTClaims(w.env.over), w.env, FALSE, opts)
  ELSE IF Kind(w) = "unsecured" THEN Parsed(RefineFromJWTClaims(w.env.over), None, opts.validate, opts)
  ELSE Unsupported

(* CredentialCBORParser, of bytes or of hex digits: the claims beside the  *)
(* "vc" claim are not looked at.                                           *)
CBORParser(w, opts) ==
  IF Kind(w) = "cose"
  THEN Parsed(w.env.over.vc, w.env, opts.validate, opts)
  ELSE Unsupported

(* parseCredential: the proof is checked right after parsing.              *)
Checked(cred, opts) ==
  IF cred \notin {Refused, Unsupported} /\ opts.checkProof /\ ~CheckProof(cred, opts)
  THEN Refused ELSE cred

(* Mutant: the proof of what is in a data URL is left to the caller.       *)
ParseDataURLUnchecked(w, opts) ==
  IF w.env.type = "cose" THEN CBORParser(w, opts) ELSE JSONParser(w, opts)

(* parseCredentialDataURL: the media type names the parser.                *)
ParseDataURL(w, opts) ==
  Checked(IF w.env.type = "cose" THEN CBORParser(w, opts) ELSE JSONParser(w, opts), opts)

EnvelopedParser(w, opts) == IF w.form = "enveloped" THEN ParseDataURL(w, opts) ELSE Unsupported

(* ParseCredential: the parsers in their order, until one knows the format.*)
ParseCredential(w, opts) ==
  LET tried == <<Checked(EnvelopedParser(w, opts), opts), Checked(JSONParser(w, opts), opts),
                 Checked(CBORParser(w, opts), opts)>>
      known == {i \in 1..3 : tried[i] # Unsupported}
  IN  IF known = {} THEN Refused ELSE tried[CHOOSE i \in known : \A j \in known : i <= j]

(* ParseCredentialJSON: the proof of an object is not checked, that of an  *)
(* envelope is.                                                            *)
ParseCredentialJSON(w, opts) ==
  IF w.form = "enveloped" THEN ParseDataURL(w, opts)
  ELSE Parsed(w.json, None, opts.validate, opts)
=============================================================================

---------------------------- MODULE Presentation ----------------------------
(***************************************************************************)
(* verifiable.Presentation: making a presentation of credentials, signing  *)
(* and serialising it, and parsing it back.  A presentation is the record  *)
(* of its fields, its credentials, its embedded proofs and its envelope;   *)
(* raw, it holds the forms of its credentials instead.                     *)
(***************************************************************************)
EXTENDS Credential

VPType == "VerifiablePresentation"

NewPresentation(v2, id, holder, creds) ==
  [v2 |-> v2, type |-> VPType, id |-> id, holder |-> holder, creds |-> creds, proofs |-> <<>>, env |-> None]

RawPresentation(vp) ==
  [v2 |-> vp.v2, type |-> vp.type, id |-> vp.id, holder |-> vp.holder,
   creds |-> [i \in DOMAIN vp.creds |-> ToUniversalForm(vp.creds[i])], proofs |-> vp.proofs]

(* newJWTPresClaims; those of a CWT are the same.                          *)
PresentationClaims(vp, minimize) ==
  [iss |-> vp.holder, jti |-> vp.id,
   vp |-> IF minimize THEN [RawPresentation(vp) EXCEPT !.id = None, !.holder = None]
          ELSE RawPresentation(vp)]

CreateJWTVP(vp, key, alg, kid, minimize) ==
  [vp EXCEPT !.env = Sign("jws", key, alg, kid, PresentationClaims(vp, minimize))]
CreateCWTVP(vp, key, alg, kid, minimize) ==
  [vp EXCEPT !.env = Sign("cose", key, alg, kid, PresentationClaims(vp, minimize))]
AddPresentationProof(vp, key, alg, kid) ==
  [vp EXCEPT !.proofs =
     Append(@, Sign("LD", key, alg, kid, [RawPresentation(vp) EXCEPT !.proofs = <<>>]))]

(* MarshalJSON: under the first data model a CWT is not written.           *)
MarshalPresentation(vp) ==
  LET form == IF vp.env = None \/ (~vp.v2 /\ vp.env.type = "cose") THEN "object"
              ELSE IF vp.v2 THEN "enveloped" ELSE "string"
  IN  [form |-> form,
       json |-> IF form = "object" THEN RawPresentation(vp) ELSE None,
       env |-> IF form = "object" THEN None ELSE vp.env]
(* MarshalCBOR of a presentation in a CWT.                                 *)
MarshalPresentationCBOR(vp) == [form |-> "string", json |-> None, env |-> vp.env]

-----------------------------------------------------------------------------

(* refineFromJWTClaims of presentations.                                   *)
RefinePresentation(claims) ==
  [claims.vp EXCEPT !.holder = Either(claims.iss, @), !.id = Either(claims.jti, @)]

(* The object of an EnvelopedVerifiablePresentation, read as if it were a  *)
(* presentation.                                                           *)
EnvelopeObject ==
  [v2 |-> TRUE, type |-> "EnvelopedVerifiablePresentation", id |-> None, holder |-> None,
   creds |-> <<>>, proofs |-> <<>>]

EmbeddedProofPasses(raw, opts) ==
  opts.checkProof => CheckEmbeddedProof(opts.docs, raw, None, opts)

(* PresentationJSONParser.  The signer of a JWS is looked for under the    *)
(* DID of its kid; only a plain object must have a proof if one is asked.  *)
VPJSONParser(w, opts) ==
  IF w.form = "string"
  THEN CASE w.env.type = "jws" ->
              IF opts.checkProof => opts.checker /\ JWTProofChecks(opts.docs, w.env, None)
              THEN [raw |-> RefinePresentation(w.env.over), env |-> w.env] ELSE Refused
         [] OTHER -> Refused
  ELSE LET raw == IF w.form = "object" THEN w.json ELSE EnvelopeObject
       IN  IF EmbeddedProofPasses(raw, opts) /\ (opts.requireProof => raw.proofs # <<>>)
           THEN [raw |-> raw, env |-> None] ELSE Refused

(* PresentationCWTParser: no proof is checked, and the claims beside "vp"  *)
(* are not looked at.                                                      *)
VPCWTParser(w, opts) ==
  IF w.form = "string" /\ w.env.type = "cose"
  THEN [raw |-> w.env.over.vp, env |-> w.env]
  ELSE Refused

(* presentationEnvelopedParser: what is in the data URL, by its media type.*)
VPEnvelopedParser(w, opts) ==
  IF w.form # "enveloped" THEN Refused
  ELSE LET inner == [w EXCEPT !.form = "string"]
       IN  IF w.env.type = "cose" THEN VPCWTParser(inner, opts) ELSE VPJSONParser(inner, opts)

(* validateVP: the JSON schema requires the type.                          *)
ValidateVP(raw) == raw.type = VPType

(* decodeCredentials: strings are parsed and their proofs checked, objects *)
(* only parsed.  There is no Data Integrity verifier for them, and custom  *)
(* schemas are loaded without a cache.                                     *)
DecodeCredential(w, opts) ==
  LET o == [opts EXCEPT !.dataIntegrity = FALSE, !.validate = TRUE, !.customSchema = TRUE]
  IN  IF w.form = "string" THEN ParseCredential(w, o)
      ELSE ParseCredentialJSON(w, [o EXCEPT !.validate = FALSE])

(* ParsePresentation: the result of the first parser that has one, then    *)
(* the schema, then its credentials.                                       *)
ParsePresentation(w, opts) ==
  LET tried == <<VPEnvelopedParser(w, opts), VPJSONParser(w, opts), VPCWTParser(w, opts)>>
      some == {i \in 1..3 : tried[i] # Refused}
      first == tried[CHOOSE i \in some : \A j \in some : i <= j]
      creds == [i \in DOMAIN first.raw.creds |-> DecodeCredential(first.raw.creds[i], opts)]
  IN  IF \/ some = {} \/ ~ValidateVP(first.raw)
         \/ \E i \in DOMAIN creds : creds[i] \in {Refused, Unsupported}
         \/ opts.requireVC /\ creds = <<>>
      THEN Refused
      ELSE [v2 |-> first.raw.v2, type |-> VPType, id |-> first.raw.id, holder |-> first.raw.holder,
            creds |-> creds, proofs |-> first.raw.proofs, env |-> first.env]
=============================================================================

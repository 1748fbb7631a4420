------------------------- MODULE RelyingParty_proof -------------------------
(***************************************************************************)
(* What is accepted with its proofs checked was attested, and the schema a *)
(* credential is accepted against was recent; what was rightly made is     *)
(* read back, a configuration links exactly with one good credential, and  *)
(* a status is read from its own bit; for any DIDs, methods, contents and  *)
(* options, and any number of steps and versions.                          *)
(***************************************************************************)
EXTENDS RelyingParty, FiniteSetTheorems, WellFoundedInduction, TLAPS

-----------------------------------------------------------------------------
(* Signatures and proofs.                                                  *)

(* A signature that verifies with the key found under its kid, in the      *)
(* document of a DID, is attested by the DID.                              *)
LEMMA VerifiedIsAttested ==
  ASSUME NEW sig, NEW did, Verifies(sig, ResolveVerificationMethod(docs, sig.kid, did))
  PROVE  Attested(sig, did)
BY SMT DEF Verifies, ResolveVerificationMethod, Attested

(* The embedded proofs that are let through attest, whoever is expected to *)
(* have signed.                                                            *)
LEMMA EmbeddedAttest ==
  ASSUME NEW json, NEW did, NEW opts, CheckEmbeddedProof(docs, json, did, opts)
  PROVE  ProofsAttest(json, did)
<1> DEFINE unsigned == [json EXCEPT !.proofs = <<>>]
<1>1. CASE json.proofs = <<>>
  BY <1>1 DEF ProofsAttest
<1>2. CASE VerifyDataIntegrity(docs, json.proofs, unsigned)
  <2>1. /\ DOMAIN json.proofs = {1}
        /\ json.proofs[1].type = "DI" /\ json.proofs[1].kid # None
        /\ json.proofs[1].over = unsigned
    BY <1>2 DEF VerifyDataIntegrity
  <2>2. Attested(json.proofs[1], Controller[json.proofs[1].kid])
    BY <1>2, VerifiedIsAttested DEF VerifyDataIntegrity
  <2> QED BY <2>1, <2>2 DEF ProofsAttest
<1>3. CASE VerifyObject(docs, json.proofs, unsigned, did)
  <2> SUFFICES ASSUME NEW i \in DOMAIN json.proofs
               PROVE  /\ json.proofs[i].over = unsigned
                      /\ IF json.proofs[i].type = "DI" \/ did = None
                         THEN json.proofs[i].kid # None
                              /\ Attested(json.proofs[i], Controller[json.proofs[i].kid])
                         ELSE Attested(json.proofs[i], did)
    BY DEF ProofsAttest
  <2> DEFINE signer == IF did = None THEN Controller[json.proofs[i].kid] ELSE did
  <2>1. json.proofs[i].kid # None /\ CheckLDProof(docs, json.proofs[i], signer, unsigned)
    BY <1>3 DEF VerifyObject
  <2>2. json.proofs[i].type = "LD" /\ json.proofs[i].over = unsigned
    BY <2>1 DEF CheckLDProof
  <2>3. Attested(json.proofs[i], signer)
    BY <2>1, VerifiedIsAttested DEF CheckLDProof
  <2> QED BY <2>1, <2>2, <2>3
<1> QED BY <1>1, <1>2, <1>3 DEF CheckEmbeddedProof

(* So does everything that checkProof accepts.                             *)
LEMMA CheckedIsVouched ==
  ASSUME NEW cred, NEW opts, opts.docs = docs, CheckProof(cred, opts)
  PROVE  Vouched(cred)
<1>1. CASE cred.env # None
  BY <1>1, VerifiedIsAttested
     DEF CheckProof, JWTProofChecks, CWTProofChecks, CheckJWTProof, CheckCWTProof, Vouched
<1>2. CASE cred.env = None
  BY <1>2, EmbeddedAttest DEF CheckProof, Vouched
<1> QED BY <1>1, <1>2

-----------------------------------------------------------------------------
(* Credentials.                                                            *)

(* The first of the parsers that have an answer.                           *)
LEMMA LeastParser ==
  ASSUME NEW S, S \subseteq 1..3, S # {}
  PROVE  (CHOOSE i \in S : \A j \in S : i <= j) \in S
<1>1. \E i \in S : \A j \in S : i <= j
  <2>1. \A j \in S : j \in {1, 2, 3}
    BY SMT
  <2>2. CASE 1 \in S
    BY <2>1, <2>2, SMT
  <2>3. CASE 1 \notin S /\ 2 \in S
    BY <2>1, <2>3, SMT
  <2>4. CASE 1 \notin S /\ 2 \notin S
    <3>1. 3 \in S /\ \A j \in S : j = 3
      BY <2>1, <2>4
    <3> QED BY <3>1, SMT
  <2> QED BY <2>2, <2>3, <2>4
<1> QED BY <1>1

LEMMA CheckedPasses ==
  ASSUME NEW cred, NEW opts, opts.checkProof, Checked(cred, opts) \notin {Refused, Unsupported}
  PROVE  CheckProof(Checked(cred, opts), opts)
BY DEF Checked

(* ParseCredential: what the parser of JSON or of CBOR gave, its proof     *)
(* checked.                                                                *)
LEMMA ParsedByOne ==
  ASSUME NEW w, NEW opts, ParseCredential(w, opts) # Refused
  PROVE  \E cred \in {JSONParser(w, opts), CBORParser(w, opts)} :
           /\ cred = ParseCredential(w, opts) /\ cred \notin {Refused, Unsupported}
           /\ opts.checkProof => CheckProof(cred, opts)
<1> DEFINE tried == <<Checked(EnvelopedParser(w, opts), opts), Checked(JSONParser(w, opts), opts),
                      Checked(CBORParser(w, opts), opts)>>
           known == {i \in 1..3 : tried[i] # Unsupported}
           first == CHOOSE i \in known : \A j \in known : i <= j
           parsers == {EnvelopedParser(w, opts), JSONParser(w, opts), CBORParser(w, opts)}
<1>1. ParseCredential(w, opts) = IF known = {} THEN Refused ELSE tried[first]
  BY DEF ParseCredential
<1>2. known # {}
  BY <1>1
<1>3. first \in known
  <2> HIDE DEF tried
  <2>1. known \subseteq 1..3
    OBVIOUS
  <2> HIDE DEF known
  <2> QED BY <1>2, <2>1, LeastParser
<1>4. \E cred \in parsers : tried[first] = Checked(cred, opts)
  <2> HIDE DEF first
  <2>1. first \in {1, 2, 3}
    BY <1>3, SMT
  <2> QED BY <2>1
<1> HIDE DEF first
<1>5. tried[first] \notin {Refused, Unsupported}
  BY <1>1, <1>2, <1>3
<1> HIDE DEF tried, known
<1>6. PICK cred \in parsers : tried[first] = Checked(cred, opts)
  BY <1>4
<1>7. /\ cred = ParseCredential(w, opts)
      /\ cred \notin {Refused, Unsupported}
      /\ opts.checkProof => CheckProof(cred, opts)
  <2>1. ParseCredential(w, opts) = Checked(cred, opts)
    BY <1>1, <1>2, <1>6
  <2> QED BY <1>5, <1>6, <2>1 DEF Checked
<1>8. cred = EnvelopedParser(w, opts) => \E c \in {JSONParser(w, opts), CBORParser(w, opts)} : cred = Checked(c, opts)
  BY <1>7, SMT DEF EnvelopedParser, ParseDataURL
<1>9. cred = EnvelopedParser(w, opts) => cred \in {JSONParser(w, opts), CBORParser(w, opts)}
  BY <1>7, <1>8 DEF Checked
<1> QED BY <1>7, <1>9

LEMMA ParsedIsChecked ==
  ASSUME NEW w, NEW opts, opts.checkProof, ParseCredential(w, opts) # Refused
  PROVE  CheckProof(ParseCredential(w, opts), opts)
BY ParsedByOne

-----------------------------------------------------------------------------
(* Presentations.                                                          *)

(* decodeCredentials: a credential that kept an envelope was checked.      *)
LEMMA DecodedIsVouched ==
  ASSUME NEW w, NEW opts, NEW schema, opts \in Options, opts.checkProof,
         DecodeCredential(w, Given(opts, schema)) \notin {Refused, Unsupported},
         DecodeCredential(w, Given(opts, schema)).env # None
  PROVE  Vouched(DecodeCredential(w, Given(opts, schema)))
<1> DEFINE given == [Given(opts, schema) EXCEPT !.dataIntegrity = FALSE, !.validate = TRUE, !.customSchema = TRUE]
           shallow == [given EXCEPT !.validate = FALSE]
           cred == DecodeCredential(w, Given(opts, schema))
<1>1. /\ given.docs = docs /\ given.checkProof
      /\ shallow.docs = docs /\ shallow.checkProof
  BY DEF Given
<1>2. cred = IF w.form = "string" THEN ParseCredential(w, given) ELSE ParseCredentialJSON(w, shallow)
  BY DEF DecodeCredential
<1> HIDE DEF given, shallow, cred
<1>3. CASE w.form = "string"
  BY <1>1, <1>2, <1>3, ParsedIsChecked, CheckedIsVouched DEF cred
<1>4. CASE w.form = "enveloped"
  <2>1. cred = ParseDataURL(w, shallow)
    BY <1>2, <1>4 DEF ParseCredentialJSON
  <2>2. \E c : cred = Checked(c, shallow)
    BY <2>1 DEF ParseDataURL
  <2> QED BY <1>1, <2>2, CheckedPasses, CheckedIsVouched DEF cred
<1>5. CASE w.form \notin {"string", "enveloped"}
  <2>1. cred = Parsed(w.json, None, shallow.validate, shallow)
    BY <1>2, <1>5 DEF ParseCredentialJSON
  <2>2. cred.env = None
    BY <2>1 DEF Parsed, cred
  <2> QED BY <2>2 DEF cred
<1> QED BY <1>3, <1>4, <1>5

(* What one parser of presentations lets through, with proofs checked.     *)
Sound(w, parsed) ==
  /\ w.form = "object" => ProofsAttest(w.json, None)
  /\ parsed.raw.type = VPType /\ w.form # "object" => parsed.env = w.env
  /\ parsed.env # None /\ parsed.env.type = "jws" => Attested(parsed.env, Controller[parsed.env.kid])

LEMMA JSONParserIsSound ==
  ASSUME NEW w, NEW opts, opts.docs = docs, opts.checkProof, VPJSONParser(w, opts) # Refused
  PROVE  Sound(w, VPJSONParser(w, opts))
<1> DEFINE parsed == VPJSONParser(w, opts)
           raw == IF w.form = "object" THEN w.json ELSE EnvelopeObject
<1>1. CASE w.form = "string" /\ w.env.type = "jws"
  <2>1. /\ parsed = [raw |-> RefinePresentation(w.env.over), env |-> w.env]
        /\ JWTProofChecks(docs, w.env, None)
    BY <1>1 DEF VPJSONParser
  <2>2. Attested(w.env, Controller[w.env.kid])
    BY <2>1, VerifiedIsAttested DEF JWTProofChecks, CheckJWTProof
  <2> QED BY <1>1, <2>1, <2>2 DEF Sound
<1>2. CASE w.form = "string" /\ w.env.type # "jws"
  BY <1>2 DEF VPJSONParser
<1>3. CASE w.form # "string"
  <2>1. parsed = [raw |-> raw, env |-> None] /\ CheckEmbeddedProof(docs, raw, None, opts)
    BY <1>3 DEF VPJSONParser, EmbeddedProofPasses
  <2>2. w.form = "object" => ProofsAttest(w.json, None)
    BY <2>1, EmbeddedAttest
  <2>3. w.form # "object" => parsed.raw.type # VPType
    BY <2>1 DEF EnvelopeObject, VPType
  <2> HIDE DEF raw, parsed
  <2> QED BY <2>1, <2>2, <2>3 DEF Sound, parsed
<1> QED BY <1>1, <1>2, <1>3

LEMMA CWTParserIsSound ==
  ASSUME NEW w, NEW opts, VPCWTParser(w, opts) # Refused
  PROVE  Sound(w, VPCWTParser(w, opts))
BY DEF VPCWTParser, Sound

LEMMA EnvelopedParserIsSound ==
  ASSUME NEW w, NEW opts, opts.docs = docs, opts.checkProof, VPEnvelopedParser(w, opts) # Refused,
         w = [form |-> w.form, json |-> w.json, env |-> w.env]
  PROVE  Sound(w, VPEnvelopedParser(w, opts))
<1> DEFINE inner == [w EXCEPT !.form = "string"]
<1>1. /\ w.form = "enveloped"
      /\ \/ VPEnvelopedParser(w, opts) = VPCWTParser(inner, opts)
         \/ VPEnvelopedParser(w, opts) = VPJSONParser(inner, opts)
  BY DEF VPEnvelopedParser
<1>2. inner = [form |-> "string", json |-> w.json, env |-> w.env]
  OBVIOUS
<1> HIDE DEF inner
<1>3. Sound(inner, VPEnvelopedParser(w, opts))
  BY <1>1, JSONParserIsSound, CWTParserIsSound
<1>4. inner.form = "string" /\ inner.env = w.env
  BY <1>2
<1> QED BY <1>1, <1>3, <1>4 DEF Sound

(* ParsePresentation: one parser's result, of the right type, and its      *)
(* credentials.                                                            *)
LEMMA PresentationIsSound ==
  ASSUME NEW w, NEW opts, NEW schema, opts \in Options, opts.checkProof,
         w = [form |-> w.form, json |-> w.json, env |-> w.env],
         ParsePresentation(w, Given(opts, schema)) # Refused
  PROVE  LET vp2 == ParsePresentation(w, Given(opts, schema)) IN
         /\ \A i \in DOMAIN vp2.creds : vp2.creds[i].env # None => Vouched(vp2.creds[i])
         /\ w.form = "object" => ProofsAttest(w.json, None)
         /\ w.form # "object" => vp2.env = w.env
         /\ vp2.env # None /\ vp2.env.type = "jws" => Attested(vp2.env, Controller[vp2.env.kid])
<1> DEFINE given == Given(opts, schema)
           tried == <<VPEnvelopedParser(w, given), VPJSONParser(w, given), VPCWTParser(w, given)>>
           some == {i \in 1..3 : tried[i] # Refused}
           index == CHOOSE i \in some : \A j \in some : i <= j
           first == tried[index]
           creds == [i \in DOMAIN first.raw.creds |-> DecodeCredential(first.raw.creds[i], given)]
           vp2 == ParsePresentation(w, given)
<1>1. given.docs = docs /\ given.checkProof
  BY DEF Given
<1>2. /\ some # {} /\ first.raw.type = VPType
      /\ \A i \in DOMAIN creds : creds[i] \notin {Refused, Unsupported}
      /\ vp2 = [v2 |-> first.raw.v2, type |-> VPType, id |-> first.raw.id, holder |-> first.raw.holder,
                creds |-> creds, proofs |-> first.raw.proofs, env |-> first.env]
  <2> DEFINE made == [v2 |-> first.raw.v2, type |-> VPType, id |-> first.raw.id, holder |-> first.raw.holder,
                      creds |-> creds, proofs |-> first.raw.proofs, env |-> first.env]
  <2>1. vp2 = IF \/ some = {} \/ ~ValidateVP(first.raw)
                 \/ \E i \in DOMAIN creds : creds[i] \in {Refused, Unsupported}
                 \/ given.requireVC /\ creds = <<>>
              THEN Refused ELSE made
    BY Zenon DEF ParsePresentation
  <2>2. vp2 # Refused
    OBVIOUS
  <2> HIDE DEF vp2, some, first, creds, made
  <2>3. /\ some # {} /\ ValidateVP(first.raw)
        /\ \A i \in DOMAIN creds : creds[i] \notin {Refused, Unsupported}
        /\ vp2 = made
    BY <2>1, <2>2
  <2> QED BY <2>3 DEF ValidateVP, made
<1>3. index \in some
  <2> HIDE DEF tried
  <2>1. some \subseteq 1..3
    OBVIOUS
  <2> HIDE DEF some
  <2> QED BY <1>2, <2>1, LeastParser
<1>4. Sound(w, first)
  <2> HIDE DEF index
  <2>1. index \in {1, 2, 3} /\ tried[index] # Refused
    BY <1>3, SMT
  <2> HIDE DEF given
  <2>2. CASE index = 1
    BY <1>1, <2>1, <2>2, EnvelopedParserIsSound
  <2>3. CASE index = 2
    BY <1>1, <2>1, <2>3, JSONParserIsSound
  <2>4. CASE index = 3
    BY <1>1, <2>1, <2>4, CWTParserIsSound
  <2> QED BY <2>1, <2>2, <2>3, <2>4
<1> HIDE DEF first
<1>5. ASSUME NEW i \in DOMAIN creds, creds[i].env # None
      PROVE  Vouched(creds[i])
  <2>1. creds[i] = DecodeCredential(first.raw.creds[i], Given(opts, schema))
    OBVIOUS
  <2> HIDE DEF creds, given
  <2> QED BY <1>2, <1>5, <2>1, DecodedIsVouched
<1> HIDE DEF creds, given, vp2, some
<1>6. vp2.creds = creds /\ vp2.env = first.env
  BY <1>2
<1> QED BY <1>2, <1>4, <1>5, <1>6 DEF Sound, vp2, given

-----------------------------------------------------------------------------
(* A step that leaves the DID documents alone leaves what they attest.     *)
LEMMA StillAttested ==
  ASSUME docs' = docs
  PROVE  /\ \A sig, did : Attested(sig, did) => Attested(sig, did)'
         /\ \A json, did : ProofsAttest(json, did) => ProofsAttest(json, did)'
         /\ \A cred : Vouched(cred) => Vouched(cred)'
<1>1. ASSUME NEW sig, NEW did, Attested(sig, did) PROVE Attested(sig, did)'
  BY <1>1 DEF Attested
<1>2. ASSUME NEW json, NEW did, ProofsAttest(json, did) PROVE ProofsAttest(json, did)'
  BY <1>2 DEF ProofsAttest, Attested
<1>3. ASSUME NEW cred, Vouched(cred) PROVE Vouched(cred)'
  BY <1>3 DEF Vouched, ProofsAttest, Attested
<1> QED BY <1>1, <1>2, <1>3

(* Every other step takes the last answer away.                            *)
LEMMA OnlyAnswers ==
  ASSUME [Next]_vars
  PROVE  \/ VerifyCredential \/ VerifyPresentation \/ VerifyConfiguration \/ VerifyStatus
         \/ last' = None \/ UNCHANGED vars
BY DEF Next, Step, Issuing, ModifyID, ModifyIssuer, ModifyIssued, ModifyValidFrom, SignJWT, SignCOSE,
       MakeUnsecured, SignLinkedData, SignDataIntegrity, Presenting, CreatePresentation,
       SignPresentation, Rotate, Tick, Publish, Revoke

(* AcceptedIsProved: what is accepted was attested, whatever happened      *)
(* before.                                                                 *)
THEOREM AcceptedIsAlwaysProved == Spec => []AcceptedIsProved
<1>1. Init => AcceptedIsProved
  BY DEF Init, AcceptedIsProved, Accepted
<1>2. AcceptedIsProved /\ [Next]_vars => AcceptedIsProved'
  <2> SUFFICES ASSUME AcceptedIsProved, [Next]_vars PROVE AcceptedIsProved'
    OBVIOUS
  <2>1. CASE last' = None
    BY <2>1 DEF AcceptedIsProved, Accepted
  <2>2. CASE VerifyCredential
    <3>1. PICK opts, w, schema, cred :
            /\ opts \in Options
            /\ cred = ParseCredential(w, Given(opts, schema))
            /\ last' = [op |-> "VerifyCredential", w |-> w, opts |-> opts, schema |-> schema, result |-> cred]
            /\ docs' = docs
      BY <2>2 DEF VerifyCredential
    <3>2. Given(opts, schema).docs = docs /\ Given(opts, schema).checkProof = opts.checkProof
      BY DEF Given
    <3>3. opts.checkProof /\ cred # Refused => Vouched(cred)'
      BY <3>1, <3>2, ParsedIsChecked, CheckedIsVouched, StillAttested
    <3> QED BY <3>1, <3>3 DEF AcceptedIsProved, Accepted
  <2>3. CASE VerifyPresentation
    <3>1. PICK opts, w, schema, read :
            /\ opts \in Options /\ read = ParsePresentation(w, Given(opts, schema))
            /\ w = [form |-> w.form, json |-> w.json, env |-> w.env]
            /\ last' = [op |-> "VerifyPresentation", w |-> w, opts |-> opts, schema |-> schema, result |-> read]
            /\ docs' = docs
      BY <2>3 DEF VerifyPresentation, MarshalPresentation, MarshalPresentationCBOR
    <3>2. ASSUME opts.checkProof, read # Refused
          PROVE  /\ \A i \in DOMAIN read.creds : read.creds[i].env # None => Vouched(read.creds[i])'
                 /\ w.form = "object" => ProofsAttest(w.json, None)'
                 /\ w.form # "object" => read.env = w.env
                 /\ read.env # None /\ read.env.type = "jws" =>
                      Attested(read.env, Controller[read.env.kid])'
      BY <3>1, <3>2, PresentationIsSound, StillAttested
    <3> QED BY <3>1, <3>2 DEF AcceptedIsProved, Accepted
  <2>4. CASE VerifyConfiguration
    BY <2>4 DEF VerifyConfiguration, AcceptedIsProved, Accepted
  <2>5. CASE VerifyStatus
    BY <2>5 DEF VerifyStatus, AcceptedIsProved, Accepted
  <2>6. CASE UNCHANGED vars
    BY <2>6, StillAttested DEF vars, AcceptedIsProved, Accepted
  <2> QED BY <2>1, <2>2, <2>3, <2>4, <2>5, <2>6, OnlyAnswers
<1> QED BY <1>1, <1>2, PTL DEF Spec

-----------------------------------------------------------------------------
(* Schemas.                                                                *)

(* A version in the cache expires soon after another took its place.       *)
CacheInv ==
  cache # NoSchema =>
    /\ cache.expires \in Nat
    /\ cache.version # published => cache.expires <= replacedAt[cache.version] + Expiration

(* Whether a credential names a schema is said in all of its parts.        *)
Shaped(cred) ==
  /\ cred = [json |-> cred.json, contents |-> cred.contents, env |-> cred.env]
  /\ "schema" \in DOMAIN cred.json
  /\ cred.env # None =>
       /\ cred.env.type \in {"jws", "cose", "unsecured"}
       /\ cred.env.type = "unsecured" => "schema" \in DOMAIN cred.env.over.vc

Inv == TypeOK /\ CacheInv /\ Shaped(vc) /\ SchemaWasRecent

(* Without the schema that it names, a credential is refused.              *)
LEMMA NeededIsLoaded ==
  ASSUME NEW opts \in Options, NEW schema, Shaped(vc),
         NeedsSchema(ToUniversalForm(vc), opts),
         ParseCredential(ToUniversalForm(vc), Given(opts, schema)) # Refused
  PROVE  schema # None
<1> DEFINE w == ToUniversalForm(vc)
           given == Given(opts, schema)
<1>1. given.validate /\ given.customSchema /\ given.schema = schema
  BY DEF NeedsSchema, Given
<1>2. w.form = "object" => w.json.schema
  BY DEF NeedsSchema, ToUniversalForm, Shaped
<1>3. w.form # "object" => w.env.type \in {"cose", "unsecured"}
  BY DEF NeedsSchema, ToUniversalForm, Shaped
<1>4. w.form # "object" => w.env.over.vc.schema
  BY DEF NeedsSchema, ToUniversalForm, Shaped
<1>5. w.form # "object" /\ w.env.type = "unsecured" => "schema" \in DOMAIN w.env.over.vc
  BY DEF NeedsSchema, ToUniversalForm, Shaped
<1>6. PICK cred \in {JSONParser(w, given), CBORParser(w, given)} : cred \notin {Refused, Unsupported}
  BY ParsedByOne
<1> HIDE DEF w, given
<1>7. ASSUME NEW json, NEW env, json.schema, Parsed(json, env, given.validate, given) # Refused
      PROVE  schema # None
  BY <1>1, <1>7 DEF Parsed, ValidateCredential
<1>8. \/ Kind(w) = "object" /\ w.form = "object"
      \/ Kind(w) \in {"cose", "unsecured"} /\ Kind(w) = w.env.type /\ w.form # "object"
  BY <1>3 DEF Kind
<1>9. CASE cred = JSONParser(w, given)
  <2>1. CASE Kind(w) = "object"
    <3>1. cred = Parsed(w.json, None, given.validate, given)
      BY <1>9, <2>1 DEF JSONParser
    <3>2. w.json.schema
      BY <1>2, <1>8, <2>1
    <3> QED BY <1>6, <1>7, <3>1, <3>2
  <2>2. CASE Kind(w) = "unsecured"
    <3> DEFINE json == RefineFromJWTClaims(w.env.over)
    <3>1. cred = Parsed(json, None, given.validate, given)
      BY <1>9, <2>2 DEF JSONParser
    <3>2. w.env.over.vc.schema
      BY <1>4, <1>8, <2>2
    <3>3. "schema" \in DOMAIN w.env.over.vc
      BY <1>5, <1>8, <2>2
    <3>4. json # Refused => json.schema
      BY <3>2, <3>3 DEF RefineFromJWTClaims
    <3>5. json # Refused
      BY <1>6, <3>1 DEF Parsed
    <3> HIDE DEF json
    <3> QED BY <1>6, <1>7, <3>1, <3>4, <3>5
  <2>3. CASE Kind(w) = "cose"
    BY <1>6, <1>9, <2>3 DEF JSONParser
  <2> QED BY <1>8, <2>1, <2>2, <2>3
<1>10. CASE cred = CBORParser(w, given)
  <2>1. Kind(w) = "cose" /\ cred = Parsed(w.env.over.vc, w.env, given.validate, given)
    BY <1>6, <1>10 DEF CBORParser
  <2>2. w.env.over.vc.schema
    BY <1>4, <1>8, <2>1
  <2> QED BY <1>6, <1>7, <2>1, <2>2
<1> QED BY <1>6, <1>9, <1>10

(* The issuer's calls keep the parts of the credential.                    *)
LEMMA StaysShaped ==
  ASSUME Shaped(vc),
         \/ ModifyID \/ ModifyIssuer \/ ModifyIssued \/ ModifyValidFrom
         \/ SignJWT \/ SignCOSE \/ MakeUnsecured \/ SignLinkedData \/ SignDataIntegrity
  PROVE  Shaped(vc)'
<1>1. ASSUME NEW json, NEW contents, "schema" \in DOMAIN json, vc' = Modified(json, contents)
      PROVE  Shaped(vc)'
  BY <1>1 DEF Modified, Shaped
<1>2. "schema" \in DOMAIN vc.json
  BY DEF Shaped
<1>3. CASE ModifyID
  BY <1>1, <1>2, <1>3 DEF ModifyID, Issuing, WithModifiedID
<1>4. CASE ModifyIssuer
  BY <1>1, <1>2, <1>4 DEF ModifyIssuer, Issuing, WithModifiedIssuer
<1>5. CASE ModifyIssued
  BY <1>1, <1>2, <1>5 DEF ModifyIssued, Issuing, WithModifiedIssued
<1>6. CASE ModifyValidFrom
  BY <1>1, <1>2, <1>6 DEF ModifyValidFrom, Issuing, WithModifiedValidFrom
<1>7. ASSUME NEW type \in {"jws", "cose", "unsecured"}, NEW key, NEW alg, NEW kid, NEW claims,
             "schema" \in DOMAIN claims.vc,
             vc' = [vc EXCEPT !.env = Sign(type, key, alg, kid, claims)]
      PROVE  Shaped(vc)'
  BY <1>7 DEF Sign, Shaped
<1>8. /\ \A minimize \in BOOLEAN : "schema" \in DOMAIN JWTClaims(vc, minimize).vc
      /\ "schema" \in DOMAIN CWTClaims(vc).vc
  BY <1>2 DEF JWTClaims, CWTClaims
<1>9. CASE SignJWT
  BY <1>7, <1>8, <1>9 DEF SignJWT, Issuing, CreateSignedJWTVC
<1>10. CASE SignCOSE
  BY <1>7, <1>8, <1>10 DEF SignCOSE, Issuing, CreateSignedCOSEVC
<1>11. CASE MakeUnsecured
  BY <1>7, <1>8, <1>11 DEF MakeUnsecured, Issuing, CreateUnsecuredJWTVC
<1>12. ASSUME NEW proofs, vc' = [vc EXCEPT !.json.proofs = proofs]
       PROVE  Shaped(vc)'
  BY <1>12 DEF Shaped
<1>13. CASE SignLinkedData \/ SignDataIntegrity
  BY <1>12, <1>13 DEF SignLinkedData, SignDataIntegrity, Issuing, AddLinkedDataProof, AddDataIntegrityProof
<1> QED BY <1>3, <1>4, <1>5, <1>6, <1>9, <1>10, <1>11, <1>13

(* Only the relying party's question about a credential touches the cache, *)
(* and only the world around them the rest of what the invariant is about. *)
LEMMA CallsKeepInv ==
  ASSUME Inv, Step, UNCHANGED <<docs, clock, published, replacedAt, cache>>, Shaped(vc)',
         revoked' \subseteq Revocable
  PROVE  Inv'
<1>1. steps' \in 0..MaxSteps /\ last' = None
  BY RelyingAssumption DEF Inv, TypeOK, Step
<1>2. TypeOK'
  BY <1>1 DEF Inv, TypeOK
<1> QED BY <1>1, <1>2 DEF Inv, CacheInv, SchemaWasRecent

LEMMA VerifyingKeepsInv ==
  ASSUME Inv, VerifyCredential
  PROVE  Inv'
<1>1. PICK opts \in Options, downloaded \in {published, NoSchema} :
        LET w == ToUniversalForm(vc)
            got == GetJSONSchema(cache, clock, downloaded)
        IN  /\ cache' = IF NeedsSchema(w, opts) THEN got.cache ELSE cache
            /\ last' = [op |-> "VerifyCredential", w |-> w, opts |-> opts, schema |-> got.schema,
                        result |-> ParseCredential(w, Given(opts, got.schema))]
  BY DEF VerifyCredential
<1>2. UNCHANGED <<docs, vc, vp, steps, clock, published, replacedAt, revoked>>
  BY DEF VerifyCredential
<1> DEFINE w == ToUniversalForm(vc)
           got == GetJSONSchema(cache, clock, downloaded)
<1>3. published \in Nat /\ published \in 1..published /\ clock \in Nat /\ Expiration \in Nat
  BY CacheAssumption DEF Inv, TypeOK
<1>4. \/ got.cache = NoSchema
      \/ got.cache = cache
      \/ got.cache = [version |-> published, expires |-> clock + Expiration]
  BY DEF GetJSONSchema, CacheGet, CachePut
<1>5. TypeOK'
  <2>1. cache' # NoSchema => cache'.version \in 1..published /\ cache'.expires \in 0..(clock + Expiration)
    BY <1>1, <1>3, <1>4 DEF Inv, TypeOK
  <2>2. last'.op = "VerifyCredential"
    BY <1>1
  <2> QED BY <1>2, <2>1, <2>2 DEF Inv, TypeOK
<1>6. CacheInv'
  BY <1>1, <1>2, <1>3, <1>4 DEF Inv, CacheInv
<1>7. Shaped(vc)'
  BY <1>2 DEF Inv, Shaped
<1>8. SchemaWasRecent'
  <2> SUFFICES ASSUME NeedsSchema(w, opts), ParseCredential(w, Given(opts, got.schema)) # Refused
               PROVE  /\ got.schema # NoSchema
                      /\ got.schema = published \/ clock <= replacedAt[got.schema] + Expiration
    BY <1>1, <1>2 DEF SchemaWasRecent
  <2>1. got.schema # NoSchema
    BY NeededIsLoaded, RelyingAssumption DEF Inv
  <2>2. CASE got.schema = published
    BY <2>1, <2>2
  <2>3. CASE got.schema # published
    <3>1. /\ cache # NoSchema /\ ~(cache.expires < clock)
          /\ got.schema = cache.version
      BY <2>1, <2>3 DEF GetJSONSchema, CacheGet
    <3>2. cache.expires \in Nat /\ cache.expires <= replacedAt[cache.version] + Expiration
      BY <2>3, <3>1 DEF Inv, CacheInv
    <3>3. replacedAt[cache.version] \in Nat
      <4>1. cache.version \in 1..(published - 1)
        BY <1>3, <2>3, <3>1 DEF Inv, TypeOK
      <4> QED BY <4>1, <1>3 DEF Inv, TypeOK
    <3> QED BY <1>3, <2>1, <3>1, <3>2, <3>3
  <2> QED BY <2>2, <2>3
<1> QED BY <1>5, <1>6, <1>7, <1>8 DEF Inv

LEMMA RotatingKeepsInv ==
  ASSUME Inv, NEW m \in Methods, Rotate(m)
  PROVE  Inv'
<1>1. docs[Controller[m]][m] < MaxVersion /\ docs' = [docs EXCEPT ![Controller[m]][m] = @ + 1]
  BY DEF Rotate
<1>2. UNCHANGED <<vc, clock, published, replacedAt, cache, revoked>> /\ steps' \in 0..MaxSteps /\ last' = None
  BY RelyingAssumption DEF Inv, TypeOK, Rotate, Step
<1>3. ASSUME NEW d \in DIDs
      PROVE  docs'[d] \in [{n \in Methods : Controller[n] = d} -> 1..MaxVersion]
  <2>1. DOMAIN docs = DIDs /\ docs[d] \in [{n \in Methods : Controller[n] = d} -> 1..MaxVersion]
    BY DEF Inv, TypeOK
  <2>2. CASE d = Controller[m]
    <3>1. docs[d][m] + 1 \in 1..MaxVersion
      BY <1>1, <2>1, <2>2, RelyingAssumption
    <3>2. docs'[d] = [docs[d] EXCEPT ![m] = docs[d][m] + 1]
      BY <1>1, <2>1, <2>2
    <3> QED BY <2>1, <3>1, <3>2
  <2>3. CASE d # Controller[m]
    BY <1>1, <2>1, <2>3
  <2> QED BY <2>2, <2>3
<1>4. TypeOK'
  BY <1>1, <1>2, <1>3 DEF Inv, TypeOK
<1> QED BY <1>2, <1>4 DEF Inv, CacheInv, Shaped, SchemaWasRecent

LEMMA TickingKeepsInv ==
  ASSUME Inv, Tick
  PROVE  Inv'
<1>1. UNCHANGED <<docs, vc, published, replacedAt, cache, revoked>> /\ steps' \in 0..MaxSteps /\ last' = None
  <2>1. UNCHANGED <<docs, vc, published, replacedAt, cache, revoked>> /\ last' = None
    BY DEF Tick, Step
  <2>2. steps \in 0..MaxSteps /\ steps < MaxSteps /\ steps' = steps + 1
    BY DEF Inv, TypeOK, Tick, Step
  <2> QED BY <2>1, <2>2, RelyingAssumption
<1>2. clock \in Nat /\ clock' \in Nat /\ clock' \in 0..MaxTime /\ clock < clock' /\ Expiration \in Nat
  BY RelyingAssumption, CacheAssumption DEF Inv, TypeOK, Tick
<1>3. replacedAt' \in Seq(0..clock')
  BY <1>1, <1>2 DEF Inv, TypeOK
<1>4. cache' # NoSchema => cache'.expires \in 0..(clock' + Expiration)
  BY <1>1, <1>2 DEF Inv, TypeOK
<1>5. TypeOK'
  BY <1>1, <1>2, <1>3, <1>4 DEF Inv, TypeOK
<1> QED BY <1>1, <1>5 DEF Inv, CacheInv, Shaped, SchemaWasRecent

(* What is in the cache now expires at the latest Expiration seconds from  *)
(* now, and it is now that the version in place is replaced.               *)
LEMMA PublishingKeepsInv ==
  ASSUME Inv, Publish
  PROVE  Inv'
<1>1. UNCHANGED <<docs, vc, clock, cache, revoked>> /\ steps' \in 0..MaxSteps /\ last' = None
  BY RelyingAssumption DEF Inv, TypeOK, Publish, Step
<1>2. published < MaxVersion /\ published' = published + 1 /\ replacedAt' = Append(replacedAt, clock)
  BY DEF Publish
<1>3. /\ clock \in 0..clock /\ clock \in Nat /\ published \in Nat /\ published \in 1..MaxVersion
      /\ MaxVersion \in Nat /\ Expiration \in Nat
      /\ replacedAt \in Seq(0..clock) /\ Len(replacedAt) = published - 1
  BY RelyingAssumption, CacheAssumption DEF Inv, TypeOK
<1>4. replacedAt' \in Seq(0..clock) /\ Len(replacedAt') = published /\ replacedAt'[published] = clock
      /\ \A v \in 1..(published - 1) : replacedAt'[v] = replacedAt[v]
  BY <1>2, <1>3
<1>5. TypeOK'
  <2>1. published' \in 1..MaxVersion /\ published = published' - 1
    BY <1>2, <1>3
  <2>2. cache' # NoSchema =>
          cache'.version \in 1..published' /\ cache'.expires \in 0..(clock' + Expiration)
    BY <1>1, <1>2, <1>3 DEF Inv, TypeOK
  <2>3. /\ clock' \in 0..MaxTime /\ DOMAIN docs' = DIDs
        /\ \A d \in DIDs : docs'[d] \in [{m \in Methods : Controller[m] = d} -> 1..MaxVersion]
    BY <1>1 DEF Inv, TypeOK
  <2>4. revoked' \subseteq Revocable
    BY <1>1 DEF Inv, TypeOK
  <2> QED BY <1>1, <1>4, <2>1, <2>2, <2>3, <2>4 DEF TypeOK
<1>6. CacheInv'
  <2> SUFFICES ASSUME cache # NoSchema, cache.version # published'
               PROVE  /\ cache.expires \in Nat
                      /\ cache.expires <= replacedAt'[cache.version] + Expiration
    BY <1>1, <1>3 DEF Inv, CacheInv
  <2>1. cache.expires \in 0..(clock + Expiration) /\ cache.version \in 1..published
    BY DEF Inv, TypeOK
  <2>2. CASE cache.version = published
    BY <1>3, <1>4, <2>1, <2>2
  <2>3. CASE cache.version # published
    <3>1. cache.version \in 1..(published - 1)
      BY <1>3, <2>1, <2>3
    <3> QED BY <1>4, <2>3, <3>1 DEF Inv, CacheInv
  <2> QED BY <2>2, <2>3
<1> QED BY <1>1, <1>5, <1>6 DEF Inv, Shaped, SchemaWasRecent

LEMMA InvIsInvariant == Spec => []Inv
<1>1. Init => Inv
  <2> SUFFICES ASSUME Init PROVE Inv
    OBVIOUS
  <2>1. TypeOK
    <3>1. ASSUME NEW d \in DIDs
          PROVE  docs[d] \in [{m \in Methods : Controller[m] = d} -> 1..MaxVersion]
      <4>1. docs[d] = [m \in {k \in Methods : Controller[k] = d} |-> 1]
        BY DEF Init
      <4>2. 1 \in 1..MaxVersion
        BY RelyingAssumption
      <4> QED BY <4>1, <4>2
    <3>2. replacedAt \in Seq(0..clock) /\ Len(replacedAt) = published - 1
      BY DEF Init
    <3> QED BY <3>1, <3>2, RelyingAssumption DEF Init, TypeOK
  <2>2. Shaped(vc)
    BY DEF Init, CreateCredential, SerializeContents, Shaped
  <2>3. CacheInv /\ SchemaWasRecent
    BY RelyingAssumption DEF Init, CacheInv, SchemaWasRecent
  <2> QED BY <2>1, <2>2, <2>3 DEF Inv
<1>2. Inv /\ [Next]_vars => Inv'
  <2> SUFFICES ASSUME Inv, [Next]_vars PROVE Inv'
    OBVIOUS
  <2>1. CASE \/ ModifyID \/ ModifyIssuer \/ ModifyIssued \/ ModifyValidFrom
             \/ SignJWT \/ SignCOSE \/ MakeUnsecured \/ SignLinkedData \/ SignDataIntegrity
    <3>1. Step /\ UNCHANGED <<docs, clock, published, replacedAt, cache>> /\ revoked' \subseteq Revocable
      BY <2>1 DEF Inv, TypeOK, ModifyID, ModifyIssuer, ModifyIssued, ModifyValidFrom, SignJWT, SignCOSE,
                  MakeUnsecured, SignLinkedData, SignDataIntegrity, Issuing
    <3>2. Shaped(vc)'
      BY <2>1, StaysShaped DEF Inv
    <3> QED BY <3>1, <3>2, CallsKeepInv
  <2>2. CASE CreatePresentation \/ SignPresentation \/ Revoke
    <3>1. /\ Step /\ UNCHANGED <<docs, vc, clock, published, replacedAt, cache>>
          /\ revoked' \subseteq Revocable
      BY <2>2 DEF CreatePresentation, SignPresentation, Presenting, Revoke, Inv, TypeOK
    <3>2. Shaped(vc)'
      BY <3>1 DEF Inv, Shaped
    <3> QED BY <3>1, <3>2, CallsKeepInv
  <2>3. CASE VerifyCredential
    BY <2>3, VerifyingKeepsInv
  <2>4. CASE VerifyPresentation \/ VerifyConfiguration \/ VerifyStatus
    <3>1. /\ UNCHANGED <<docs, vc, steps, clock, published, replacedAt, cache, revoked>>
          /\ last'.op \in {"VerifyPresentation", "VerifyConfiguration", "VerifyStatus"}
      BY <2>4 DEF VerifyPresentation, VerifyConfiguration, VerifyStatus
    <3>2. TypeOK'
      BY <3>1 DEF Inv, TypeOK
    <3>3. CacheInv' /\ Shaped(vc)'
      BY <3>1 DEF Inv, CacheInv, Shaped
    <3>4. SchemaWasRecent'
      BY <3>1 DEF SchemaWasRecent
    <3> QED BY <3>2, <3>3, <3>4 DEF Inv
  <2>5. CASE \E m \in Methods : Rotate(m)
    BY <2>5, RotatingKeepsInv
  <2>6. CASE Tick \/ Publish
    BY <2>6, TickingKeepsInv, PublishingKeepsInv
  <2>7. CASE UNCHANGED vars
    BY <2>7 DEF vars, Inv, TypeOK, CacheInv, Shaped, SchemaWasRecent
  <2> QED BY <2>1, <2>2, <2>3, <2>4, <2>5, <2>6, <2>7 DEF Next
<1> QED BY <1>1, <1>2, PTL DEF Spec

(* The state stays in its types, whatever is called and published.         *)
THEOREM RelyingTypeCorrect == Spec => []TypeOK
BY InvIsInvariant, PTL DEF Inv

(* ExpirableSchemaCache and getSchemaLoader: a credential is accepted      *)
(* against the schema it names only, and at most Expiration seconds after  *)
(* that schema was replaced at its URL.                                    *)
THEOREM SchemaIsAlwaysRecent == Spec => []SchemaWasRecent
BY InvIsInvariant, PTL DEF Inv
-----------------------------------------------------------------------------
(* What was rightly made is read back.                                     *)

(* What stands for nothing, a failure or an odd entry is no record.        *)
Apart ==
  \A v \in {None, Refused, Unsupported, OddEntry} :
    {"json", "v2", "vc", "raw", "type", "method", "bits"} \intersect DOMAIN v = {}

LEMMA RecordsAreApart ==
  ASSUME Apart
  PROVE  /\ \A json, contents, env : [json |-> json, contents |-> contents, env |-> env]
                                       \notin {None, Refused, Unsupported, OddEntry}
         /\ \A raw, env : [raw |-> raw, env |-> env] \notin {None, Refused}
         /\ \A v, bits : [vc |-> v, bits |-> bits] # None
         /\ \A issuer, subject, bits :
              [issuer |-> issuer, subject |-> subject, bits |-> bits] # Refused
         /\ \A form, json, env : [form |-> form, json |-> json, env |-> env] # OddEntry
         /\ \A cred : Made(cred) => cred.json # Refused /\ cred # OddEntry
<1>1. ASSUME NEW r, NEW f \in {"json", "v2", "vc", "raw", "type", "method", "bits"}, f \in DOMAIN r
      PROVE  r \notin {None, Refused, Unsupported, OddEntry}
  BY <1>1 DEF Apart
<1>2. ASSUME NEW json, NEW contents, NEW env
      PROVE  [json |-> json, contents |-> contents, env |-> env] \notin {None, Refused, Unsupported, OddEntry}
  <2>1. "json" \in DOMAIN [json |-> json, contents |-> contents, env |-> env]
    OBVIOUS
  <2> QED BY <1>1, <2>1
<1>3. ASSUME NEW raw, NEW env PROVE [raw |-> raw, env |-> env] \notin {None, Refused}
  <2>1. "raw" \in DOMAIN [raw |-> raw, env |-> env]
    OBVIOUS
  <2> QED BY <1>1, <2>1
<1>4. ASSUME NEW v, NEW bits PROVE [vc |-> v, bits |-> bits] # None
  <2>1. "vc" \in DOMAIN [vc |-> v, bits |-> bits]
    OBVIOUS
  <2> QED BY <1>1, <2>1
<1>5. ASSUME NEW form, NEW json, NEW env PROVE [form |-> form, json |-> json, env |-> env] # OddEntry
  <2>1. "json" \in DOMAIN [form |-> form, json |-> json, env |-> env]
    OBVIOUS
  <2> QED BY <1>1, <2>1
<1>6. ASSUME NEW cred, Made(cred) PROVE cred.json # Refused /\ cred # OddEntry
  <2>1. "v2" \in DOMAIN cred.json /\ "json" \in DOMAIN cred
    BY <1>6 DEF Made
  <2> QED BY <1>1, <2>1
<1>7. ASSUME NEW issuer, NEW subject, NEW bits
      PROVE  [issuer |-> issuer, subject |-> subject, bits |-> bits] # Refused
  <2>1. "bits" \in DOMAIN [issuer |-> issuer, subject |-> subject, bits |-> bits]
    OBVIOUS
  <2> QED BY <1>1, <2>1
<1> QED BY <1>2, <1>3, <1>4, <1>5, <1>6, <1>7

(* The fields of a JSON object.                                            *)
Json(v2, id, issuer, subject, origin, issuanceDate, validFrom, schema, proofs) ==
  [v2 |-> v2, id |-> id, issuer |-> issuer, subject |-> subject, origin |-> origin,
   issuanceDate |-> issuanceDate, validFrom |-> validFrom, schema |-> schema, proofs |-> proofs]

(* Changing the fields that the claims of a token change.                  *)
Changed(json, id, issuer, date, from) ==
  [json EXCEPT !.id = id, !.issuer = issuer, !.issuanceDate = date, !.validFrom = from]

LEMMA FieldsChanged ==
  ASSUME NEW r, NEW x, NEW y, NEW z, NEW w,
         r = Json(r.v2, r.id, r.issuer, r.subject, r.origin, r.issuanceDate, r.validFrom, r.schema, r.proofs)
  PROVE  Changed(r, x, y, z, w) = Json(r.v2, x, y, r.subject, r.origin, z, w, r.schema, r.proofs)
<1>0. PICK a, b, c, d, e, f, g, h, i :
        /\ r = Json(a, b, c, d, e, f, g, h, i)
        /\ <<a, b, c, d, e, f, g, h, i>> =
             <<r.v2, r.id, r.issuer, r.subject, r.origin, r.issuanceDate, r.validFrom, r.schema, r.proofs>>
  OBVIOUS
<1>1. PICK r1 : r1 = Json(a, x, c, d, e, f, g, h, i)
  OBVIOUS
<1>3. PICK r2 : r2 = Json(a, x, y, d, e, f, g, h, i)
  OBVIOUS
<1>4. PICK r3 : r3 = Json(a, x, y, d, e, z, g, h, i)
  OBVIOUS
<1>5. [r EXCEPT !.id = x] = r1
  BY <1>0, <1>1 DEF Json
<1>6. [r1 EXCEPT !.issuer = y] = r2
  BY <1>1, <1>3 DEF Json
<1>7. [r2 EXCEPT !.issuanceDate = z] = r3
  BY <1>3, <1>4 DEF Json
<1>8. [r3 EXCEPT !.validFrom = w] = Json(a, x, y, d, e, z, w, h, i)
  BY <1>4 DEF Json
<1>9. Json(a, x, y, d, e, z, w, h, i) = Json(r.v2, x, y, r.subject, r.origin, z, w, r.schema, r.proofs)
  BY <1>0
<1> QED BY <1>5, <1>6, <1>7, <1>8, <1>9 DEF Changed

(* refineFromJWTClaims puts back what a minimised credential left out.     *)
LEMMA RefinedAgrees ==
  ASSUME NEW cred, Made(cred), Apart, NEW minimize \in BOOLEAN
  PROVE  LET json == RefineFromJWTClaims(JWTClaims(cred, minimize))
             c == cred.contents
         IN  /\ json = Json(c.v2, c.id, c.issuer, c.subject, c.origin,
                            json.issuanceDate, json.validFrom, c.schema, cred.json.proofs)
             /\ json # Refused
             /\ c.issued = None => json.issuanceDate = None /\ json.validFrom = None
             /\ cred.json.v2 /\ cred.json.issuanceDate = None => json = cred.json
             /\ ~cred.json.v2 /\ cred.json.validFrom = None => json = cred.json
<1> DEFINE c == cred.contents
           claims == JWTClaims(cred, minimize)
           json == RefineFromJWTClaims(claims)
           d == cred.json.issuanceDate
           f == cred.json.validFrom
           dd == IF minimize THEN None ELSE d
           ff == IF minimize THEN None ELSE f
           newd == IF c.v2 THEN dd ELSE Either(c.issued, dd)
           newf == IF c.v2 THEN Either(c.issued, ff) ELSE ff
           body(id, issuer, date, from) ==
             Json(c.v2, id, issuer, c.subject, c.origin, date, from, c.schema, cred.json.proofs)
<1>1. /\ cred.json = body(c.id, c.issuer, d, f)
      /\ DatesAgree(cred.json, c.issued)
      /\ c.v2 \in BOOLEAN
  BY DEF Made, HasFields, Json
<1>2. claims.vc = body(IF minimize THEN None ELSE c.id, IF minimize THEN None ELSE c.issuer, dd, ff)
  <2>1. CASE minimize
    <3>1. claims.vc = [cred.json EXCEPT !.id = None, !.issuer = None, !.issuanceDate = None, !.validFrom = None]
      BY <2>1 DEF JWTClaims
    <3>2. Changed(cred.json, None, None, None, None) = body(None, None, None, None)
      <4>1. PICK r : r = cred.json
        OBVIOUS
      <4>2. /\ r.v2 = c.v2 /\ r.subject = c.subject /\ r.origin = c.origin /\ r.schema = c.schema
            /\ r = Json(r.v2, r.id, r.issuer, r.subject, r.origin, r.issuanceDate, r.validFrom, r.schema, r.proofs)
        BY <1>1, <4>1 DEF Json
      <4> QED BY <4>1, <4>2, FieldsChanged
    <3> QED BY <2>1, <3>1, <3>2 DEF Changed
  <2>2. CASE ~minimize
    BY <1>1, <2>2 DEF JWTClaims
  <2> QED BY <2>1, <2>2
<1>3. claims.iss = c.issuer /\ claims.jti = c.id /\ claims.iat = c.issued
  BY DEF JWTClaims
<1>4. json = body(c.id, c.issuer, newd, newf)
  <2> DEFINE vc1 == claims.vc
  <2>1. /\ vc1.v2 = c.v2 /\ vc1.id = (IF minimize THEN None ELSE c.id)
        /\ vc1.issuer = (IF minimize THEN None ELSE c.issuer)
        /\ vc1.issuanceDate = dd /\ vc1.validFrom = ff
    BY <1>2 DEF Json
  <2>2. ~({claims.iss, vc1.issuer} \subseteq DIDs /\ claims.iss # vc1.issuer)
    BY <1>3, <2>1, ProofAssumption
  <2>3. Either(claims.iss, vc1.issuer) = c.issuer /\ Either(claims.jti, vc1.id) = c.id
    BY <1>3, <2>1 DEF Either
  <2>4. json = [vc1 EXCEPT !.id = Either(claims.jti, vc1.id),
                           !.issuer = Either(claims.iss, vc1.issuer),
                           !.issuanceDate = IF vc1.v2 THEN vc1.issuanceDate
                                            ELSE Either(claims.iat, vc1.issuanceDate),
                           !.validFrom = IF vc1.v2 THEN Either(claims.iat, vc1.validFrom)
                                         ELSE vc1.validFrom]
    BY <2>2 DEF RefineFromJWTClaims
  <2>5. /\ newd = IF vc1.v2 THEN vc1.issuanceDate ELSE Either(claims.iat, vc1.issuanceDate)
        /\ newf = IF vc1.v2 THEN Either(claims.iat, vc1.validFrom) ELSE vc1.validFrom
    BY <1>3, <2>1
  <2> HIDE DEF newd, newf, json, dd, ff, claims
  <2>6. json = Changed(vc1, c.id, c.issuer, newd, newf)
    BY <2>3, <2>4, <2>5 DEF Changed
  <2>7. /\ vc1.subject = c.subject /\ vc1.origin = c.origin /\ vc1.schema = c.schema
        /\ vc1.proofs = cred.json.proofs
        /\ vc1 = Json(vc1.v2, vc1.id, vc1.issuer, vc1.subject, vc1.origin, vc1.issuanceDate, vc1.validFrom,
                      vc1.schema, vc1.proofs)
    BY <1>2 DEF Json
  <2> HIDE DEF vc1
  <2> QED BY <2>1, <2>6, <2>7, FieldsChanged
<1>5. c.issued = None => newd = None /\ newf = None
  BY <1>1 DEF DatesAgree, Either
<1>6. /\ cred.json.v2 /\ cred.json.issuanceDate = None => newd = d /\ newf = f
      /\ ~cred.json.v2 /\ cred.json.validFrom = None => newd = d /\ newf = f
  <2>1. cred.json.v2 = c.v2
    BY <1>1 DEF Json
  <2> QED BY <1>1, <2>1 DEF DatesAgree, Either
<1> HIDE DEF json, newd, newf
<1>7. json # Refused
  <2>1. "v2" \in DOMAIN json
    BY <1>4 DEF Json
  <2> QED BY <2>1 DEF Apart
<1>8. json.issuanceDate = newd /\ json.validFrom = newf
  BY <1>4 DEF Json
<1>9. newd = d /\ newf = f => json = cred.json
  BY <1>1, <1>4
<1> QED BY <1>4, <1>5, <1>6, <1>7, <1>8, <1>9 DEF json
(* A signature that is attested verifies.                                  *)
LEMMA AttestedIsVerified ==
  ASSUME TypeOK, Apart, NEW sig, NEW did, Attested(sig, did), Fits(sig)
  PROVE  sig.kid # None /\ Verifies(sig, ResolveVerificationMethod(docs, sig.kid, did))
<1>1. did \in DIDs /\ sig.kid \in DOMAIN docs[did] /\ sig.kid \notin AgreementOnly
  BY DEF Attested
<1>2. DOMAIN docs[did] \subseteq Methods
  BY <1>1 DEF TypeOK
<1>3. sig.kid # None
  BY <1>1, <1>2, ProofAssumption
<1> DEFINE key == [method |-> sig.kid, version |-> docs[did][sig.kid]]
<1>4. "method" \in DOMAIN key
  OBVIOUS
<1>5. key # None
  <2> HIDE DEF key
  <2> QED BY <1>4 DEF Apart
<1>6. ResolveVerificationMethod(docs, sig.kid, did) = key /\ sig.by = key
  BY <1>1 DEF ResolveVerificationMethod, Attested
<1> HIDE DEF key
<1> QED BY <1>3, <1>5, <1>6 DEF Verifies, Fits

(* Embedded proofs that attest are let through.                            *)
LEMMA AttestedEmbedded ==
  ASSUME TypeOK, Apart, NEW json, NEW did, NEW opts,
         ProofsFit(json), ProofsAttest(json, did),
         Len(json.proofs) = 1 \/ OnlyLD(json.proofs),
         opts.checker, opts.dataIntegrity \/ OnlyLD(json.proofs)
  PROVE  CheckEmbeddedProof(docs, json, did, opts)
<1> DEFINE ps == json.proofs
           unsigned == [json EXCEPT !.proofs = <<>>]
<1>1. ps \in Seq({ps[i] : i \in DOMAIN ps})
  BY DEF ProofsFit
<1>2. \A i \in DOMAIN ps :
        /\ Fits(ps[i]) /\ ps[i].over = unsigned
        /\ IF ps[i].type = "DI" \/ did = None
           THEN ps[i].kid # None /\ Attested(ps[i], Controller[ps[i].kid]) ELSE Attested(ps[i], did)
  BY DEF ProofsFit, ProofsAttest
<1> HIDE DEF unsigned
<1>3. CASE ps = <<>>
  BY <1>3 DEF CheckEmbeddedProof
<1>4. CASE ps # <<>> /\ ps[1].type = "DI"
  <2>1. 1 \in DOMAIN ps
    BY <1>1, <1>4
  <2>2. Len(ps) = 1 /\ opts.dataIntegrity
    BY <1>4, <2>1 DEF OnlyLD
  <2>3. DOMAIN ps = {1}
    BY <1>1, <2>2
  <2>4. ps[1].kid # None /\ Verifies(ps[1], ResolveVerificationMethod(docs, ps[1].kid, Controller[ps[1].kid]))
    BY <1>2, <1>4, <2>1, AttestedIsVerified
  <2>5. VerifyDataIntegrity(docs, ps, unsigned)
    BY <1>2, <1>4, <2>1, <2>3, <2>4 DEF VerifyDataIntegrity
  <2> QED BY <1>4, <2>2, <2>5 DEF CheckEmbeddedProof, unsigned
<1>5. CASE ps # <<>> /\ ps[1].type # "DI"
  <2>1. 1 \in DOMAIN ps /\ (Len(ps) = 1 => DOMAIN ps = {1})
    BY <1>1, <1>5
  <2>2. \A i \in DOMAIN ps : ps[i].type = "LD"
    BY <1>5, <2>1 DEF OnlyLD, ProofsFit
  <2>3. ASSUME NEW i \in DOMAIN ps
        PROVE  /\ ps[i].kid # None
               /\ CheckLDProof(docs, ps[i], IF did = None THEN Controller[ps[i].kid] ELSE did, unsigned)
    BY <1>2, <2>2, AttestedIsVerified DEF CheckLDProof
  <2>4. VerifyObject(docs, ps, unsigned, did)
    BY <2>3 DEF VerifyObject
  <2> QED BY <1>5, <2>4 DEF CheckEmbeddedProof, unsigned
<1> QED BY <1>3, <1>4, <1>5

(* ParseCredential: the parser that knows the format has the say.          *)
Read(w, opts) == IF Kind(w) = "cose" THEN CBORParser(w, opts) ELSE JSONParser(w, opts)

LEMMA ReadIsParsed ==
  ASSUME NEW w, NEW opts, Read(w, opts) \notin {Refused, Unsupported},
         opts.checkProof => CheckProof(Read(w, opts), opts)
  PROVE  /\ ParseCredential(w, opts) = Read(w, opts)
         /\ w.form = "enveloped" => ParseDataURL(w, opts) = Read(w, opts)
<1> DEFINE read == Read(w, opts)
           tried == <<Checked(EnvelopedParser(w, opts), opts), Checked(JSONParser(w, opts), opts),
                      Checked(CBORParser(w, opts), opts)>>
           known == {i \in 1..3 : tried[i] # Unsupported}
           first == CHOOSE i \in known : \A j \in known : i <= j
<1>1. Checked(read, opts) = read
  BY DEF Checked
<1>2. w.form = "enveloped" => ParseDataURL(w, opts) = read
  <2>1. w.form = "enveloped" => Kind(w) = w.env.type
    BY DEF Kind
  <2>2. w.form = "enveloped" => ParseDataURL(w, opts) = Checked(read, opts)
    BY <2>1 DEF ParseDataURL, Read
  <2> QED BY <1>1, <2>2
<1>3. w.form # "enveloped" => Checked(EnvelopedParser(w, opts), opts) = Unsupported
  BY DEF EnvelopedParser, Checked
<1>4. CASE w.form = "enveloped"
  <2>1. tried[1] = read
    BY <1>1, <1>2, <1>4 DEF EnvelopedParser
  <2> HIDE DEF tried, read
  <2>2. 1 \in known /\ known \subseteq 1..3
    BY <2>1 DEF read
  <2>3. first \in known /\ first <= 1
    <3> HIDE DEF known
    <3>1. \E i \in known : \A j \in known : i <= j
      BY <2>2
    <3>2. first \in known /\ \A j \in known : first <= j
      BY <3>1
    <3> QED BY <2>2, <3>2
  <2>4. first = 1
    <3> HIDE DEF first, known
    <3>1. first \in 1..3
      BY <2>2, <2>3
    <3> QED BY <2>3, <3>1
  <2>5. ParseCredential(w, opts) = tried[first]
    BY <2>2 DEF ParseCredential, tried
  <2> QED BY <1>2, <2>1, <2>4, <2>5 DEF read
<1>5. CASE w.form # "enveloped" /\ Kind(w) # "cose"
  <2>1. tried[1] = Unsupported /\ tried[2] = read
    BY <1>1, <1>3, <1>5 DEF Read
  <2> HIDE DEF tried, read
  <2>2. 1 \notin known /\ 2 \in known /\ known \subseteq 1..3
    BY <2>1 DEF read
  <2>3. first \in known /\ first <= 2
    <3> HIDE DEF known
    <3>1. \E i \in known : \A j \in known : i <= j
      <4>1. \A j \in known : 2 <= j
        BY <2>2
      <4> QED BY <2>2, <4>1
    <3>2. first \in known /\ \A j \in known : first <= j
      BY <3>1
    <3> QED BY <2>2, <3>2
  <2>4. first = 2
    <3> HIDE DEF first, known
    <3>1. first \in 1..3 /\ first # 1
      BY <2>2, <2>3
    <3> QED BY <2>3, <3>1
  <2>5. ParseCredential(w, opts) = tried[first]
    BY <2>2 DEF ParseCredential, tried
  <2> QED BY <1>5, <2>1, <2>4, <2>5 DEF read
<1>6. CASE w.form # "enveloped" /\ Kind(w) = "cose"
  <2>1. tried[1] = Unsupported /\ tried[2] = Unsupported /\ tried[3] = read
    BY <1>1, <1>3, <1>6 DEF Read, JSONParser, Checked
  <2> HIDE DEF tried, read
  <2>2. known = {3}
    <3>1. \A i \in 1..3 : i = 1 \/ i = 2 \/ i = 3
      OBVIOUS
    <3> QED BY <2>1, <3>1 DEF read
  <2>3. first = 3
    BY <2>2
  <2>4. ParseCredential(w, opts) = tried[first]
    BY <2>2 DEF ParseCredential, tried
  <2> QED BY <1>6, <2>1, <2>3, <2>4 DEF read
<1> QED BY <1>4, <1>5, <1>6
(* A rightly made credential, as it is read: what was in an unsecured JWT  *)
(* has lost it.                                                            *)
ReadAs(cred) == [cred EXCEPT !.env = IF @ # None /\ @.type = "unsecured" THEN None ELSE @]

LEMMA ContentsAreParsed ==
  ASSUME NEW cred, Made(cred), RightlyMade(cred)
  PROVE  /\ ParseContents(cred.json) = cred.contents
         /\ cred.json.v2 \in BOOLEAN
         /\ cred.json.v2 => cred.json.issuanceDate = None
         /\ ~cred.json.v2 => cred.json.validFrom = None
         /\ cred.json.subject # None /\ cred.json.issuer # None
         /\ ~cred.json.v2 => cred.json.issuanceDate # None
<1> DEFINE c == cred.contents
           j == cred.json
<1>1. /\ j.v2 = c.v2 /\ j.id = c.id /\ j.issuer = c.issuer /\ j.subject = c.subject
      /\ j.origin = c.origin /\ j.schema = c.schema /\ c.v2 \in BOOLEAN
      /\ c = [v2 |-> c.v2, id |-> c.id, issuer |-> c.issuer, subject |-> c.subject,
              origin |-> c.origin, issued |-> c.issued, schema |-> c.schema]
      /\ DatesAgree(j, c.issued)
  BY DEF Made, HasFields
<1>2. Either(j.issuanceDate, j.validFrom) = c.issued
  BY <1>1 DEF RightlyMade, DatesAgree, Either
<1> QED BY <1>1, <1>2 DEF ParseContents, RightlyMade

LEMMA RightlyMadeValid ==
  ASSUME NEW cred, Made(cred), RightlyMade(cred), NEW opts,
         cred.json.schema /\ opts.customSchema => Satisfied(cred, opts.schema)
  PROVE  ValidateCredential(cred.json, opts)
BY ContentsAreParsed, RelyingAssumption DEF ValidateCredential, Satisfied

LEMMA RightlyMadePasses ==
  ASSUME TypeOK, Apart, NEW cred, Made(cred), RightlyMade(cred), NEW opts, opts.docs = docs,
         opts.checker, opts.dataIntegrity \/ OnlyLD(cred.json.proofs)
  PROVE  CheckProof(ReadAs(cred), opts)
<1> DEFINE read == ReadAs(cred)
           issuer == cred.contents.issuer
<1>1. /\ read.json = cred.json /\ read.contents = cred.contents
      /\ read.env = IF cred.env # None /\ cred.env.type = "unsecured" THEN None ELSE cred.env
      /\ Vouched(read) /\ issuer # None
  BY DEF Made, RightlyMade, ReadAs
<1> HIDE DEF read
<1>2. CASE cred.env = None \/ cred.env.type = "unsecured"
  <2>1. read.env = None /\ ProofsAttest(cred.json, issuer)
    BY <1>1, <1>2 DEF Vouched
  <2>2. CheckEmbeddedProof(docs, cred.json, issuer, opts)
    BY <2>1, AttestedEmbedded DEF Made, RightlyMade
  <2> QED BY <1>1, <2>1, <2>2 DEF CheckProof, read
<1>3. CASE cred.env # None /\ cred.env.type \in {"jws", "cose"}
  <2>1. read.env = cred.env /\ Attested(cred.env, issuer) /\ Fits(cred.env)
    BY <1>1, <1>3 DEF Vouched, Made, EnvelopeFits
  <2>2. cred.env.kid # None /\ Verifies(cred.env, ResolveVerificationMethod(docs, cred.env.kid, issuer))
    BY <2>1, AttestedIsVerified
  <2> QED BY <1>1, <1>3, <2>1, <2>2
          DEF CheckProof, JWTProofChecks, CWTProofChecks, CheckJWTProof, CheckCWTProof, read
<1> QED BY <1>2, <1>3 DEF Made, EnvelopeFits

LEMMA ReadsBack ==
  ASSUME TypeOK, Apart, NEW cred, Made(cred), RightlyMade(cred), NEW opts, opts.docs = docs,
         opts.checkProof => opts.checker /\ (opts.dataIntegrity \/ OnlyLD(cred.json.proofs)),
         /\ opts.validate /\ opts.customSchema /\ cred.json.schema
         /\ ~(cred.env # None /\ cred.env.type = "jws")
         => Satisfied(cred, opts.schema)
  PROVE  LET w == ToUniversalForm(cred) IN
         /\ Read(w, opts) = ReadAs(cred)
         /\ ReadAs(cred) \notin {Refused, Unsupported}
         /\ ParseCredential(w, opts) = ReadAs(cred)
         /\ w.form = "enveloped" => ParseDataURL(w, opts) = ReadAs(cred)
<1> DEFINE w == ToUniversalForm(cred)
           bare == [json |-> cred.json, contents |-> cred.contents, env |-> None]
           kept == [json |-> cred.json, contents |-> cred.contents, env |-> cred.env]
<1>1. ReadAs(cred) = IF cred.env # None /\ cred.env.type = "unsecured" THEN bare ELSE kept
  BY DEF Made, ReadAs
<1>2. ReadAs(cred) \notin {Refused, Unsupported} /\ cred.json # Refused
  BY <1>1, RecordsAreApart
<1>3. ParseContents(cred.json) = cred.contents
  BY ContentsAreParsed
<1>4. /\ w.env = cred.env
      /\ w.form = "object" <=> cred.env = None
      /\ w.form = "object" => w.json = cred.json
  BY DEF ToUniversalForm
<1> HIDE DEF w
<1>5. CASE cred.env = None
  <2>1. opts.validate => ValidateCredential(cred.json, opts)
    BY <1>5, RightlyMadeValid
  <2>2. Kind(w) = "object" /\ Read(w, opts) = Parsed(cred.json, None, opts.validate, opts)
    BY <1>4, <1>5 DEF Kind, Read, JSONParser
  <2> QED BY <1>1, <1>2, <1>3, <1>5, <2>1, <2>2, RightlyMadePasses, ReadIsParsed DEF Parsed, w
<1>6. ASSUME cred.env # None, cred.env.type # "cose"
      PROVE  RefineFromJWTClaims(cred.env.over) = cred.json
  <2>1. PICK minimize \in BOOLEAN : cred.env.over = JWTClaims(cred, minimize)
    BY <1>6 DEF Made, EnvelopeFits
  <2> QED BY <2>1, RefinedAgrees, ContentsAreParsed
<1>7. CASE cred.env # None /\ cred.env.type = "jws"
  <2>1. Read(w, opts) = Parsed(cred.json, cred.env, FALSE, opts)
    BY <1>4, <1>6, <1>7 DEF Kind, Read, JSONParser
  <2> QED BY <1>1, <1>2, <1>3, <1>7, <2>1, RightlyMadePasses, ReadIsParsed DEF Parsed, w
<1>8. CASE cred.env # None /\ cred.env.type = "unsecured"
  <2>1. opts.validate => ValidateCredential(cred.json, opts)
    BY <1>8, RightlyMadeValid
  <2>2. Read(w, opts) = Parsed(cred.json, None, opts.validate, opts)
    BY <1>4, <1>6, <1>8 DEF Kind, Read, JSONParser
  <2> QED BY <1>1, <1>2, <1>3, <1>8, <2>1, <2>2, RightlyMadePasses, ReadIsParsed DEF Parsed, w
<1>9. CASE cred.env # None /\ cred.env.type = "cose"
  <2>1. opts.validate => ValidateCredential(cred.json, opts)
    BY <1>9, RightlyMadeValid
  <2>2. cred.env.over.vc = cred.json
    BY <1>9 DEF Made, EnvelopeFits, CWTClaims
  <2>3. Read(w, opts) = Parsed(cred.json, cred.env, opts.validate, opts)
    BY <1>4, <1>9, <2>2 DEF Kind, Read, CBORParser
  <2> QED BY <1>1, <1>2, <1>3, <1>9, <2>1, <2>3, RightlyMadePasses, ReadIsParsed DEF Parsed, w
<1> QED BY <1>5, <1>7, <1>8, <1>9 DEF Made, EnvelopeFits
-----------------------------------------------------------------------------
(* Every call of the issuer makes what Made says.                          *)

(* A JSON object and the fields it was made from.                          *)
Agree(json, c) ==
  /\ HasFields(c)
  /\ json = Json(c.v2, c.id, c.issuer, c.subject, c.origin, json.issuanceDate, json.validFrom,
                 c.schema, json.proofs)
  /\ DatesAgree(json, c.issued)

LEMMA MadeAgrees ==
  ASSUME NEW cred
  PROVE  Made(cred) <=> /\ cred = [json |-> cred.json, contents |-> cred.contents, env |-> cred.env]
                        /\ Agree(cred.json, cred.contents) /\ ProofsFit(cred.json)
                        /\ cred.env # None => EnvelopeFits(cred)
BY DEF Made, Agree, Json

LEMMA ProofsChanged ==
  ASSUME NEW json, NEW c, NEW proofs, Agree(json, c)
  PROVE  /\ Agree([json EXCEPT !.proofs = proofs], c)
         /\ [json EXCEPT !.proofs = proofs].proofs = proofs
         /\ [[json EXCEPT !.proofs = proofs] EXCEPT !.proofs = <<>>] = [json EXCEPT !.proofs = <<>>]
<1> DEFINE new == [json EXCEPT !.proofs = proofs]
<1>1. json = Json(c.v2, c.id, c.issuer, c.subject, c.origin, json.issuanceDate, json.validFrom,
                  c.schema, json.proofs)
  BY DEF Agree
<1>2. new = Json(c.v2, c.id, c.issuer, c.subject, c.origin, json.issuanceDate, json.validFrom,
                 c.schema, proofs)
  BY <1>1 DEF Json
<1>3. new.issuanceDate = json.issuanceDate /\ new.validFrom = json.validFrom /\ new.proofs = proofs
      /\ new.v2 = json.v2
  BY <1>1, <1>2 DEF Json
<1>4. [new EXCEPT !.proofs = <<>>] = [json EXCEPT !.proofs = <<>>]
  BY <1>1 DEF Json
<1> HIDE DEF new
<1>5. Agree(new, c)
  BY <1>2, <1>3 DEF Agree, DatesAgree
<1> QED BY <1>3, <1>4, <1>5 DEF new

LEMMA MadeModified ==
  ASSUME NEW json, NEW c, Agree(json, c)
  PROVE  Made(Modified(json, c))
<1> DEFINE new == [json EXCEPT !.proofs = <<>>]
<1>1. Agree(new, c) /\ new.proofs = <<>>
  BY ProofsChanged
<1> HIDE DEF new
<1>2. ProofsFit(new)
  BY <1>1 DEF ProofsFit
<1>3. Modified(json, c) = [json |-> new, contents |-> c, env |-> None]
  BY DEF Modified, new
<1> QED BY <1>1, <1>2, <1>3, MadeAgrees

LEMMA MadeCreated ==
  ASSUME NEW c \in Contents
  PROVE  Made(CreateCredential(c))
<1> DEFINE json == SerializeContents(c)
<1>1. HasFields(c)
  BY MadeAssumption
<1>2. json = Json(c.v2, c.id, c.issuer, c.subject, c.origin, IF c.v2 THEN None ELSE c.issued,
                  IF c.v2 THEN c.issued ELSE None, c.schema, <<>>)
  BY DEF SerializeContents, Json
<1> HIDE DEF json
<1>3. /\ json.issuanceDate = (IF c.v2 THEN None ELSE c.issued)
      /\ json.validFrom = (IF c.v2 THEN c.issued ELSE None)
      /\ json.proofs = <<>> /\ json.v2 = c.v2
  BY <1>2 DEF Json
<1>4. DatesAgree(json, c.issued)
  BY <1>1, <1>3 DEF HasFields, DatesAgree
<1>5. Agree(json, c)
  BY <1>1, <1>2, <1>3, <1>4 DEF Agree
<1>6. ProofsFit(json)
  BY <1>3 DEF ProofsFit
<1> QED BY <1>5, <1>6, MadeAgrees DEF CreateCredential, json

LEMMA MadeWith ==
  ASSUME NEW cred, Made(cred)
  PROVE  /\ \A id : Made(WithModifiedID(cred, id))
         /\ \A d : Made(WithModifiedIssuer(cred, d))
         /\ \A t \in Seconds : Made(WithModifiedIssued(cred, t)) /\ Made(WithModifiedValidFrom(cred, t))
<1> DEFINE c == cred.contents
           json == cred.json
<1>1. Agree(json, c)
  BY MadeAgrees
<1>2. /\ json = Json(c.v2, c.id, c.issuer, c.subject, c.origin, json.issuanceDate, json.validFrom,
                     c.schema, json.proofs)
      /\ c = [v2 |-> c.v2, id |-> c.id, issuer |-> c.issuer, subject |-> c.subject,
              origin |-> c.origin, issued |-> c.issued, schema |-> c.schema]
      /\ {c.v2, c.schema} \subseteq BOOLEAN /\ DatesAgree(json, c.issued)
  BY <1>1 DEF Agree, HasFields
<1> HIDE DEF c, json
<1>3. ASSUME NEW id PROVE Agree([json EXCEPT !.id = id], [c EXCEPT !.id = id])
  <2>1. PICK j, e : j = [json EXCEPT !.id = id] /\ e = [c EXCEPT !.id = id]
    OBVIOUS
  <2>2. e = [v2 |-> c.v2, id |-> id, issuer |-> c.issuer, subject |-> c.subject,
             origin |-> c.origin, issued |-> c.issued, schema |-> c.schema]
    BY <1>2, <2>1
  <2>3. j = Json(c.v2, id, c.issuer, c.subject, c.origin, json.issuanceDate, json.validFrom,
                 c.schema, json.proofs)
    BY <1>2, <2>1 DEF Json
  <2>4. HasFields(e)
    BY <1>2, <2>2 DEF HasFields
  <2>5. DatesAgree(j, e.issued)
    BY <1>2, <2>2, <2>3 DEF DatesAgree, Json
  <2>6. Agree(j, e)
    BY <2>2, <2>3, <2>4, <2>5 DEF Agree, Json
  <2> QED BY <2>1, <2>6
<1>4. ASSUME NEW d PROVE Agree([json EXCEPT !.issuer = d], [c EXCEPT !.issuer = d])
  <2>1. PICK j, e : j = [json EXCEPT !.issuer = d] /\ e = [c EXCEPT !.issuer = d]
    OBVIOUS
  <2>2. e = [v2 |-> c.v2, id |-> c.id, issuer |-> d, subject |-> c.subject,
             origin |-> c.origin, issued |-> c.issued, schema |-> c.schema]
    BY <1>2, <2>1
  <2>3. j = Json(c.v2, c.id, d, c.subject, c.origin, json.issuanceDate, json.validFrom,
                 c.schema, json.proofs)
    BY <1>2, <2>1 DEF Json
  <2>4. HasFields(e)
    BY <1>2, <2>2 DEF HasFields
  <2>5. DatesAgree(j, e.issued)
    BY <1>2, <2>2, <2>3 DEF DatesAgree, Json
  <2>6. Agree(j, e)
    BY <2>2, <2>3, <2>4, <2>5 DEF Agree, Json
  <2> QED BY <2>1, <2>6
<1>5. ASSUME NEW t \in Seconds
      PROVE  /\ Agree([json EXCEPT !.issuanceDate = t], [c EXCEPT !.issued = t])
             /\ Agree([json EXCEPT !.validFrom = t], [c EXCEPT !.issued = t])
  <2>1. PICK j, k, e : /\ j = [json EXCEPT !.issuanceDate = t] /\ k = [json EXCEPT !.validFrom = t]
                       /\ e = [c EXCEPT !.issued = t]
    OBVIOUS
  <2>2. e = [v2 |-> c.v2, id |-> c.id, issuer |-> c.issuer, subject |-> c.subject,
             origin |-> c.origin, issued |-> t, schema |-> c.schema]
    BY <1>2, <2>1
  <2>3. /\ j = Json(c.v2, c.id, c.issuer, c.subject, c.origin, t, json.validFrom, c.schema, json.proofs)
        /\ k = Json(c.v2, c.id, c.issuer, c.subject, c.origin, json.issuanceDate, t, c.schema, json.proofs)
    BY <1>2, <2>1 DEF Json
  <2>4. HasFields(e)
    BY <1>2, <2>2 DEF HasFields
  <2>5. t # None
    BY RelyingAssumption
  <2>6. DatesAgree(j, e.issued) /\ DatesAgree(k, e.issued)
    BY <1>2, <2>2, <2>3, <2>5 DEF DatesAgree, Json
  <2>7. Agree(j, e) /\ Agree(k, e)
    BY <2>2, <2>3, <2>4, <2>6 DEF Agree, Json
  <2> QED BY <2>1, <2>7
<1> QED BY <1>3, <1>4, <1>5, MadeModified
        DEF WithModifiedID, WithModifiedIssuer, WithModifiedIssued, WithModifiedValidFrom, c, json
Enveloped(cred, env) == [cred EXCEPT !.env = env]
Proved(json, proofs) == [json EXCEPT !.proofs = proofs]
WithProofs(cred, proofs) == [cred EXCEPT !.json.proofs = proofs]

LEMMA MadeEnveloped ==
  ASSUME NEW cred, Made(cred), NEW key, NEW alg, NEW kid, NEW minimize \in BOOLEAN
  PROVE  /\ CanSign(key, alg) =>
              /\ Made(CreateSignedJWTVC(cred, key, alg, kid, minimize))
              /\ Made(CreateSignedCOSEVC(cred, key, alg, kid))
         /\ Made(CreateUnsecuredJWTVC(cred, minimize))
<1>1. ASSUME NEW env, env.type \in {"jws", "cose", "unsecured"},
             env.type # "unsecured" => Fits(env),
             IF env.type = "cose" THEN env.over = CWTClaims(cred)
             ELSE \E m \in BOOLEAN : env.over = JWTClaims(cred, m)
      PROVE  Made(Enveloped(cred, env))
  <2>1. PICK new : new = Enveloped(cred, env)
    OBVIOUS
  <2>2. new = [json |-> cred.json, contents |-> cred.contents, env |-> env]
    BY <2>1, MadeAgrees DEF Enveloped
  <2>3. CWTClaims(new) = CWTClaims(cred) /\ \A m : JWTClaims(new, m) = JWTClaims(cred, m)
    BY <2>2 DEF CWTClaims, JWTClaims
  <2>4. EnvelopeFits(new)
    BY <1>1, <2>2, <2>3 DEF EnvelopeFits
  <2>5. Made(new)
    BY <2>2, <2>4, MadeAgrees
  <2> QED BY <2>1, <2>5
<1>2. ASSUME NEW type, NEW k, NEW a, NEW id, NEW over
      PROVE  /\ Sign(type, k, a, id, over).type = type /\ Sign(type, k, a, id, over).over = over
             /\ CanSign(k, a) => Fits(Sign(type, k, a, id, over))
  BY DEF Sign, CanSign, Fits
<1>3. PICK un, jws, cose :
        /\ un = Sign("unsecured", None, None, None, JWTClaims(cred, minimize))
        /\ jws = Sign("jws", key, alg, kid, JWTClaims(cred, minimize))
        /\ cose = Sign("cose", key, alg, kid, CWTClaims(cred))
  OBVIOUS
<1>4. /\ CreateUnsecuredJWTVC(cred, minimize) = Enveloped(cred, un)
      /\ CreateSignedJWTVC(cred, key, alg, kid, minimize) = Enveloped(cred, jws)
      /\ CreateSignedCOSEVC(cred, key, alg, kid) = Enveloped(cred, cose)
  BY <1>3 DEF CreateUnsecuredJWTVC, CreateSignedJWTVC, CreateSignedCOSEVC, Enveloped
<1>5. /\ un.type = "unsecured" /\ jws.type = "jws" /\ cose.type = "cose"
      /\ un.over = JWTClaims(cred, minimize) /\ jws.over = JWTClaims(cred, minimize)
      /\ cose.over = CWTClaims(cred)
      /\ CanSign(key, alg) => Fits(jws) /\ Fits(cose)
  BY <1>2, <1>3
<1>6. Made(Enveloped(cred, un))
  BY <1>1, <1>5
<1>7. CanSign(key, alg) => Made(Enveloped(cred, jws)) /\ Made(Enveloped(cred, cose))
  BY <1>1, <1>5
<1> QED BY <1>4, <1>6, <1>7

LEMMA MadeProved ==
  ASSUME NEW cred, Made(cred), cred.env = None, NEW proofs, ProofsFit(Proved(cred.json, proofs))
  PROVE  Made(WithProofs(cred, proofs))
<1> DEFINE json == Proved(cred.json, proofs)
<1>1. PICK new : new = WithProofs(cred, proofs)
  OBVIOUS
<1>2. new = [json |-> json, contents |-> cred.contents, env |-> None]
  BY <1>1, MadeAgrees DEF WithProofs, Proved
<1>3. Agree(json, cred.contents)
  BY MadeAgrees, ProofsChanged DEF Proved
<1> HIDE DEF json
<1>4. Made(new)
  BY <1>2, <1>3, MadeAgrees DEF json
<1> QED BY <1>1, <1>4

(* Appending keeps a sequence one.                                         *)
IsSequence(s) == s \in Seq({s[i] : i \in DOMAIN s})

LEMMA OwnSequence ==
  ASSUME NEW S, NEW t \in Seq(S)
  PROVE  IsSequence(t)
<1> DEFINE T == {t[i] : i \in DOMAIN t}
<1>1. \A i \in 1..Len(t) : t[i] \in T
  OBVIOUS
<1>2. t = [i \in 1..Len(t) |-> t[i]] /\ Len(t) \in Nat
  OBVIOUS
<1> HIDE DEF T
<1>3. t \in Seq(T)
  BY <1>1, <1>2
<1> QED BY <1>3 DEF T, IsSequence

LEMMA AppendedIsSequence ==
  ASSUME NEW s, NEW x, NEW t, IsSequence(s), t = Append(s, x)
  PROVE  /\ IsSequence(t)
         /\ DOMAIN t = DOMAIN s \union {Len(s) + 1} /\ t[Len(s) + 1] = x
         /\ \A i \in DOMAIN s : t[i] = s[i] /\ i # Len(s) + 1
<1> DEFINE S == {s[i] : i \in DOMAIN s} \union {x}
<1>0. s \in Seq({s[i] : i \in DOMAIN s})
  BY DEF IsSequence
<1>1. s \in Seq(S) /\ x \in S
  <2>1. {s[i] : i \in DOMAIN s} \subseteq S
    OBVIOUS
  <2> HIDE DEF S
  <2>2. Len(s) \in Nat /\ DOMAIN s = 1..Len(s) /\ \A i \in 1..Len(s) : s[i] \in S
    BY <1>0, <2>1
  <2>3. s \in Seq(S)
    BY <1>0, <2>1
  <2> QED BY <2>3 DEF S
<1> HIDE DEF S
<1>2. /\ t \in Seq(S) /\ Len(t) = Len(s) + 1 /\ Len(s) \in Nat
      /\ t[Len(s) + 1] = x /\ \A i \in 1..Len(s) : t[i] = s[i]
  BY <1>1
<1>3. DOMAIN s = 1..Len(s) /\ DOMAIN t = 1..(Len(s) + 1)
  BY <1>1, <1>2
<1>4. IsSequence(t)
  BY <1>2, OwnSequence
<1>5. 1..(Len(s) + 1) = (1..Len(s)) \union {Len(s) + 1}
  BY <1>2
<1>6. \A i \in DOMAIN s : i # Len(s) + 1
  BY <1>2, <1>3
<1> QED BY <1>2, <1>3, <1>4, <1>5, <1>6

ProofsOver(proofs, unsigned) ==
  /\ IsSequence(proofs)
  /\ \A i \in DOMAIN proofs :
       Fits(proofs[i]) /\ (proofs[i].type # "DI" => proofs[i].type = "LD" /\ proofs[i].over = unsigned)

LEMMA ProofsFitOver ==
  ASSUME NEW json
  PROVE  ProofsFit(json) <=> ProofsOver(json.proofs, Proved(json, <<>>))
BY DEF ProofsFit, ProofsOver, Proved, IsSequence

LEMMA AppendedFits ==
  ASSUME NEW json, NEW new, ProofsFit(json), NEW proof, Fits(proof),
         proof.type = "LD", proof.over = Proved(json, <<>>),
         new.proofs = Append(json.proofs, proof), Proved(new, <<>>) = Proved(json, <<>>)
  PROVE  ProofsFit(new)
<1>1. PICK s, ps, unsigned : /\ s = json.proofs /\ ps = Append(s, proof) /\ ps = new.proofs
                             /\ unsigned = Proved(json, <<>>)
  OBVIOUS
<1>2. ProofsOver(s, unsigned)
  BY <1>1, ProofsFitOver
<1>3. /\ IsSequence(ps)
      /\ DOMAIN ps = DOMAIN s \union {Len(s) + 1} /\ ps[Len(s) + 1] = proof
      /\ \A i \in DOMAIN s : ps[i] = s[i]
  <2>1. IsSequence(s)
    BY <1>2 DEF ProofsOver
  <2>2. ps = Append(s, proof)
    BY <1>1
  <2>3. /\ IsSequence(Append(s, proof))
      /\ DOMAIN ps = DOMAIN s \union {Len(s) + 1} /\ ps[Len(s) + 1] = proof
    BY <2>1, <2>2, AppendedIsSequence
  <2>4. \A i \in DOMAIN s : ps[i] = s[i]
    BY <2>1, <2>2, AppendedIsSequence
  <2> QED BY <2>2, <2>3, <2>4
<1>4. ProofsOver(ps, unsigned)
  BY <1>1, <1>2, <1>3 DEF ProofsOver
<1> QED BY <1>1, <1>4, ProofsFitOver

LEMMA MadeSigned ==
  ASSUME NEW cred, Made(cred), cred.env = None, NEW key, NEW alg, NEW kid, CanSign(key, alg)
  PROVE  /\ Made(AddLinkedDataProof(cred, key, alg, kid))
         /\ Made(AddDataIntegrityProof(cred, key))
<1> DEFINE proof == Sign("LD", key, alg, kid, [cred.json EXCEPT !.proofs = <<>>])
           di == Sign("DI", key, Suite[key.method], key.method, cred.json)
<1>1. Agree(cred.json, cred.contents) /\ ProofsFit(cred.json)
  BY MadeAgrees
<1>2. Fits(proof) /\ proof.type = "LD" /\ proof.over = [cred.json EXCEPT !.proofs = <<>>]
  BY DEF Sign, CanSign, Fits
<1>3. Fits(di) /\ di.type = "DI"
  BY DEF Sign, Fits
<1>4. AddLinkedDataProof(cred, key, alg, kid) = WithProofs(cred, Append(cred.json.proofs, proof))
  <2>1. cred = [json |-> cred.json, contents |-> cred.contents, env |-> cred.env]
    BY MadeAgrees
  <2> HIDE DEF proof
  <2> QED BY <2>1 DEF AddLinkedDataProof, WithProofs, proof
<1>5. AddDataIntegrityProof(cred, key) = WithProofs(cred, <<di>>)
  BY DEF AddDataIntegrityProof, WithProofs
<1> HIDE DEF proof, di
<1>6. ProofsFit(Proved(cred.json, <<di>>))
  <2>1. PICK new : new = Proved(cred.json, <<di>>)
    OBVIOUS
  <2>2. new.proofs = <<di>>
    BY <1>1, <2>1, ProofsChanged DEF Proved
  <2>3. ProofsFit(new)
    BY <1>3, <2>2 DEF ProofsFit
  <2> QED BY <2>1, <2>3
<1>7. Made(AddLinkedDataProof(cred, key, alg, kid))
  <2>1. PICK new : new = Proved(cred.json, Append(cred.json.proofs, proof))
    OBVIOUS
  <2>2. new.proofs = Append(cred.json.proofs, proof) /\ Proved(new, <<>>) = Proved(cred.json, <<>>)
    BY <1>1, <2>1, ProofsChanged DEF Proved
  <2>3. ProofsFit(new)
    BY <1>1, <1>2, <2>2, AppendedFits DEF Proved
  <2> QED BY <1>4, <2>1, <2>3, MadeProved
<1>8. Made(AddDataIntegrityProof(cred, key))
  BY <1>5, <1>6, MadeProved
<1> QED BY <1>7, <1>8
(* So does every call of the holder: the credentials of a presentation are *)
(* made, its proofs are over it as it still is, and an envelope is around  *)
(* the same credentials.                                                   *)
Forms(creds) == [i \in DOMAIN creds |-> ToUniversalForm(creds[i])]

MadePresentation(p) ==
  /\ p = [v2 |-> p.v2, type |-> VPType, id |-> p.id, holder |-> Holder, creds |-> p.creds,
          proofs |-> p.proofs, env |-> p.env]
  /\ p.creds \in Seq({p.creds[i] : i \in DOMAIN p.creds})
  /\ \A i \in DOMAIN p.creds : Made(p.creds[i])
  /\ ProofsFit(RawPresentation(p)) /\ OnlyLD(p.proofs)
  /\ p.env # None =>
       /\ p.env.type \in {"jws", "cose"} /\ Fits(p.env)
       /\ p.env.over.iss = Holder
       /\ LET raw == p.env.over.vp IN
          raw = [v2 |-> raw.v2, type |-> VPType, id |-> raw.id, holder |-> raw.holder,
                 creds |-> Forms(p.creds), proofs |-> raw.proofs]

LEMMA MadeNew ==
  ASSUME NEW v2, NEW creds, creds \in Seq({creds[i] : i \in DOMAIN creds}),
         \A i \in DOMAIN creds : Made(creds[i])
  PROVE  MadePresentation(NewPresentation(v2, None, Holder, creds))
<1> DEFINE p == NewPresentation(v2, None, Holder, creds)
<1>1. p = [v2 |-> v2, type |-> VPType, id |-> None, holder |-> Holder, creds |-> creds,
           proofs |-> <<>>, env |-> None]
  BY DEF NewPresentation
<1> HIDE DEF p
<1>2. p.proofs = <<>> /\ RawPresentation(p).proofs = <<>> /\ p.env = None /\ p.creds = creds
  BY <1>1 DEF RawPresentation
<1>3. ProofsFit(RawPresentation(p)) /\ OnlyLD(p.proofs)
  BY <1>2 DEF ProofsFit, OnlyLD
<1>4. p = [v2 |-> p.v2, type |-> VPType, id |-> p.id, holder |-> Holder, creds |-> p.creds,
           proofs |-> p.proofs, env |-> p.env]
  BY <1>1
<1> QED BY <1>2, <1>3, <1>4 DEF MadePresentation, p

PresentationEnveloped(p, env) == [p EXCEPT !.env = env]

LEMMA PresentationSigned ==
  ASSUME NEW p, MadePresentation(p), NEW key, NEW alg, NEW kid, NEW minimize, CanSign(key, alg)
  PROVE  /\ MadePresentation(CreateJWTVP(p, key, alg, kid, minimize))
         /\ MadePresentation(CreateCWTVP(p, key, alg, kid, minimize))
         /\ MadePresentation(AddPresentationProof(p, key, alg, kid))
<1>1. p = [v2 |-> p.v2, type |-> VPType, id |-> p.id, holder |-> Holder, creds |-> p.creds,
           proofs |-> p.proofs, env |-> p.env]
  BY DEF MadePresentation
<1>2. RawPresentation(p) = [v2 |-> p.v2, type |-> VPType, id |-> p.id, holder |-> Holder,
                            creds |-> Forms(p.creds), proofs |-> p.proofs]
  <2>1. p.type = VPType /\ p.holder = Holder
    BY <1>1
  <2> QED BY <2>1 DEF RawPresentation, Forms
<1> DEFINE claims == PresentationClaims(p, minimize)
<1>3. /\ claims.iss = Holder
      /\ claims.vp = [v2 |-> claims.vp.v2, type |-> VPType, id |-> claims.vp.id, holder |-> claims.vp.holder,
                      creds |-> Forms(p.creds), proofs |-> claims.vp.proofs]
  <2>1. claims.iss = Holder
    BY <1>1 DEF PresentationClaims
  <2>2. CASE minimize
    <3>1. claims.vp = [RawPresentation(p) EXCEPT !.id = None, !.holder = None]
      BY <2>2 DEF PresentationClaims
    <3>2. claims.vp = [v2 |-> p.v2, type |-> VPType, id |-> None, holder |-> None,
                       creds |-> Forms(p.creds), proofs |-> p.proofs]
      <4>1. PICK raw, r1 : raw = RawPresentation(p) /\ r1 = [raw EXCEPT !.id = None]
        OBVIOUS
      <4>2. r1 = [v2 |-> p.v2, type |-> VPType, id |-> None, holder |-> Holder,
                  creds |-> Forms(p.creds), proofs |-> p.proofs]
        BY <1>2, <4>1
      <4>3. [r1 EXCEPT !.holder = None] = [v2 |-> p.v2, type |-> VPType, id |-> None, holder |-> None,
                                           creds |-> Forms(p.creds), proofs |-> p.proofs]
        BY <4>2
      <4> QED BY <3>1, <4>1, <4>3
    <3> HIDE DEF claims
    <3> QED BY <2>1, <3>2
  <2>3. CASE ~minimize
    <3>1. claims.vp = RawPresentation(p)
      BY <2>3 DEF PresentationClaims
    <3> HIDE DEF claims
    <3> QED BY <1>2, <2>1, <3>1
  <2> QED BY <2>2, <2>3
<1> HIDE DEF claims
<1>4. ASSUME NEW env, env.type \in {"jws", "cose"}, Fits(env), env.over = claims
      PROVE  MadePresentation(PresentationEnveloped(p, env))
  <2>1. PICK new : new = PresentationEnveloped(p, env)
    OBVIOUS
  <2>2. new = [v2 |-> p.v2, type |-> VPType, id |-> p.id, holder |-> Holder, creds |-> p.creds,
               proofs |-> p.proofs, env |-> env]
    BY <1>1, <2>1 DEF PresentationEnveloped
  <2>3. RawPresentation(new) = RawPresentation(p) /\ new.proofs = p.proofs /\ new.creds = p.creds /\ new.env = env
    BY <1>2, <2>2 DEF RawPresentation, Forms
  <2>4. new = [v2 |-> new.v2, type |-> VPType, id |-> new.id, holder |-> Holder, creds |-> new.creds,
               proofs |-> new.proofs, env |-> new.env]
    BY <2>2
  <2>5. MadePresentation(new)
    BY <1>3, <1>4, <2>3, <2>4 DEF MadePresentation
  <2> QED BY <2>1, <2>5
<1>5. PICK jws, cose : jws = Sign("jws", key, alg, kid, claims) /\ cose = Sign("cose", key, alg, kid, claims)
  OBVIOUS
<1>6. /\ CreateJWTVP(p, key, alg, kid, minimize) = PresentationEnveloped(p, jws)
      /\ CreateCWTVP(p, key, alg, kid, minimize) = PresentationEnveloped(p, cose)
  BY <1>5 DEF CreateJWTVP, CreateCWTVP, PresentationEnveloped, claims
<1>7. /\ jws.type = "jws" /\ cose.type = "cose" /\ Fits(jws) /\ Fits(cose)
      /\ jws.over = claims /\ cose.over = claims
  BY <1>5 DEF Sign, CanSign, Fits
<1>8. MadePresentation(PresentationEnveloped(p, jws)) /\ MadePresentation(PresentationEnveloped(p, cose))
  BY <1>4, <1>7
<1>9. MadePresentation(AddPresentationProof(p, key, alg, kid))
  <2>1. PICK proof : proof = Sign("LD", key, alg, kid, Proved(RawPresentation(p), <<>>))
    OBVIOUS
  <2>2. Fits(proof) /\ proof.type = "LD" /\ proof.over = Proved(RawPresentation(p), <<>>)
    BY <2>1 DEF Sign, CanSign, Fits
  <2>3. PICK ps : ps = Append(p.proofs, proof)
    OBVIOUS
  <2>4. PICK new : new = AddPresentationProof(p, key, alg, kid)
    OBVIOUS
  <2>5. new = [p EXCEPT !.proofs = ps]
    BY <2>1, <2>3, <2>4 DEF AddPresentationProof, Proved
  <2>6. new = [v2 |-> p.v2, type |-> VPType, id |-> p.id, holder |-> Holder, creds |-> p.creds,
               proofs |-> ps, env |-> p.env]
    BY <1>1, <2>5
  <2>7. PICK raw, newraw : raw = RawPresentation(p) /\ newraw = RawPresentation(new)
    OBVIOUS
  <2>8. newraw = [v2 |-> p.v2, type |-> VPType, id |-> p.id, holder |-> Holder,
                  creds |-> Forms(p.creds), proofs |-> ps]
    BY <2>6, <2>7 DEF RawPresentation, Forms
  <2>9. Proved(newraw, <<>>) = Proved(raw, <<>>) /\ newraw.proofs = ps /\ raw.proofs = p.proofs
    BY <1>2, <2>7, <2>8 DEF Proved
  <2>10. ProofsFit(newraw)
    BY <2>2, <2>3, <2>7, <2>9, AppendedFits DEF MadePresentation
  <2>11. OnlyLD(ps)
    <3>1. PICK s : s = p.proofs
      OBVIOUS
    <3>2. IsSequence(s)
      BY <2>7, <2>9, <3>1 DEF MadePresentation, ProofsFit, IsSequence
    <3>3. /\ DOMAIN ps = DOMAIN s \union {Len(s) + 1} /\ ps[Len(s) + 1] = proof
          /\ \A i \in DOMAIN s : ps[i] = s[i]
      BY <2>3, <3>1, <3>2, AppendedIsSequence
    <3> QED BY <2>2, <3>1, <3>3 DEF OnlyLD, MadePresentation
  <2>12. new.creds = p.creds /\ new.env = p.env /\ new.proofs = ps
    BY <2>6
  <2>13. new = [v2 |-> new.v2, type |-> VPType, id |-> new.id, holder |-> Holder, creds |-> new.creds,
                proofs |-> new.proofs, env |-> new.env]
    BY <2>6
  <2>14. MadePresentation(new)
    BY <2>7, <2>10, <2>11, <2>12, <2>13 DEF MadePresentation
  <2> QED BY <2>4, <2>14
<1> QED BY <1>6, <1>8, <1>9
-----------------------------------------------------------------------------
(* ParsePresentation: the parser that knows the form has the say, and then *)
(* the credentials are decoded.                                            *)
Found(w, opts) ==
  IF w.form = "enveloped" THEN VPEnvelopedParser(w, opts)
  ELSE IF w.form = "string" /\ w.env.type = "cose" THEN VPCWTParser(w, opts)
  ELSE VPJSONParser(w, opts)

DecodedBy(raw, opts) == [i \in DOMAIN raw.creds |-> DecodeCredential(raw.creds[i], opts)]

Completed(first, opts) ==
  LET creds == DecodedBy(first.raw, opts)
  IN  IF \/ ~ValidateVP(first.raw)
         \/ \E i \in DOMAIN creds : creds[i] \in {Refused, Unsupported}
         \/ opts.requireVC /\ creds = <<>>
      THEN Refused
      ELSE [v2 |-> first.raw.v2, type |-> VPType, id |-> first.raw.id, holder |-> first.raw.holder,
            creds |-> creds, proofs |-> first.raw.proofs, env |-> first.env]

LEMMA FoundIsCompleted ==
  ASSUME NEW w, NEW opts, Found(w, opts) # Refused
  PROVE  ParsePresentation(w, opts) = Completed(Found(w, opts), opts)
<1> DEFINE found == Found(w, opts)
           tried == <<VPEnvelopedParser(w, opts), VPJSONParser(w, opts), VPCWTParser(w, opts)>>
           some == {i \in 1..3 : tried[i] # Refused}
           index == CHOOSE i \in some : \A j \in some : i <= j
<1>1. some # {} => ParsePresentation(w, opts) = Completed(tried[index], opts)
  BY DEF ParsePresentation, Completed, DecodedBy
<1>2. ASSUME NEW n \in some, \A j \in some : n <= j
      PROVE  index = n
  <2>1. some \subseteq 1..3
    OBVIOUS
  <2> HIDE DEF some
  <2>2. index \in some /\ \A j \in some : index <= j
    BY <1>2
  <2>3. index <= n /\ n <= index /\ index \in 1..3 /\ n \in 1..3
    BY <1>2, <2>1, <2>2
  <2> HIDE DEF index
  <2> QED BY <2>3
<1>3. \A i \in 1..3 : i = 1 \/ i = 2 \/ i = 3
  OBVIOUS
<1>4. w.form # "enveloped" => tried[1] = Refused
  BY DEF VPEnvelopedParser
<1> HIDE DEF index
<1>5. CASE w.form = "enveloped"
  <2>1. tried[1] = found
    BY <1>5 DEF Found
  <2> HIDE DEF tried, found
  <2>2. 1 \in some /\ \A j \in some : 1 <= j
    BY <1>3, <2>1 DEF found
  <2> HIDE DEF some
  <2>3. index = 1
    BY <1>2, <2>2
  <2> QED BY <1>1, <2>1, <2>2, <2>3 DEF found
<1>6. CASE w.form # "enveloped" /\ ~(w.form = "string" /\ w.env.type = "cose")
  <2>1. tried[2] = found
    BY <1>6 DEF Found
  <2> HIDE DEF tried, found
  <2>2. 2 \in some /\ \A j \in some : 2 <= j
    BY <1>3, <1>4, <1>6, <2>1 DEF found
  <2> HIDE DEF some
  <2>3. index = 2
    BY <1>2, <2>2
  <2> QED BY <1>1, <2>1, <2>2, <2>3 DEF found
<1>7. CASE w.form # "enveloped" /\ w.form = "string" /\ w.env.type = "cose"
  <2>1. tried[3] = found
    BY <1>7 DEF Found
  <2>2. tried[2] = Refused
    BY <1>7 DEF VPJSONParser
  <2> HIDE DEF tried, found
  <2>3. 3 \in some /\ \A j \in some : 3 <= j
    BY <1>3, <1>4, <1>7, <2>1, <2>2 DEF found
  <2> HIDE DEF some
  <2>4. index = 3
    BY <1>2, <2>3
  <2> QED BY <1>1, <2>1, <2>3, <2>4 DEF found
<1> QED BY <1>5, <1>6, <1>7

(* decodeCredentials: without a Data Integrity verifier, as only objects,  *)
(* whose proofs are not checked, may have such a proof.                    *)
LEMMA DecodesBack ==
  ASSUME TypeOK, Apart, NEW cred, Made(cred), RightlyMade(cred), NEW opts, opts.checker,
         NEW schema, Satisfied(cred, schema), cred.env # None => OnlyLD(cred.json.proofs)
  PROVE  /\ DecodeCredential(ToUniversalForm(cred), Given(opts, schema)) \notin {Refused, Unsupported}
         /\ DecodeCredential(ToUniversalForm(cred), Given(opts, schema)).contents = cred.contents
<1> DEFINE given == [Given(opts, schema) EXCEPT !.dataIntegrity = FALSE, !.validate = TRUE, !.customSchema = TRUE]
           shallow == [given EXCEPT !.validate = FALSE]
           w == ToUniversalForm(cred)
           read == DecodeCredential(w, Given(opts, schema))
<1>1. /\ given.docs = docs /\ given.checker = opts.checker /\ given.schema = schema
      /\ shallow.docs = docs /\ shallow.checker = opts.checker /\ shallow.schema = schema
      /\ shallow.validate = FALSE
  BY DEF Given
<1>2. read = IF w.form = "string" THEN ParseCredential(w, given) ELSE ParseCredentialJSON(w, shallow)
  BY DEF DecodeCredential
<1>3. ReadAs(cred).contents = cred.contents
  BY MadeAgrees DEF ReadAs
<1>4. w.form = "object" <=> cred.env = None
  BY DEF ToUniversalForm
<1>5. w.form = "object" => w.json = cred.json
  BY DEF ToUniversalForm
<1>6. w.form \in {"object", "string", "enveloped"}
  BY DEF ToUniversalForm
<1> HIDE DEF given, shallow, read
<1>7. CASE w.form = "string"
  <2>1. ParseCredential(w, given) = ReadAs(cred) /\ ReadAs(cred) \notin {Refused, Unsupported}
    BY <1>1, <1>4, <1>7, ReadsBack
  <2> QED BY <1>2, <1>3, <1>7, <2>1 DEF read
<1>8. CASE w.form = "enveloped"
  <2>1. ParseDataURL(w, shallow) = ReadAs(cred) /\ ReadAs(cred) \notin {Refused, Unsupported}
    BY <1>1, <1>4, <1>8, ReadsBack
  <2> QED BY <1>2, <1>3, <1>8, <2>1 DEF read, ParseCredentialJSON
<1>9. CASE w.form = "object"
  <2>1. read = Parsed(cred.json, None, FALSE, shallow)
    BY <1>1, <1>2, <1>5, <1>9 DEF ParseCredentialJSON
  <2>2. read = [json |-> cred.json, contents |-> cred.contents, env |-> None]
    BY <2>1, RecordsAreApart, ContentsAreParsed DEF Parsed
  <2> QED BY <2>2, RecordsAreApart DEF read
<1> QED BY <1>6, <1>7, <1>8, <1>9
(* What ParsePresentation makes of a presentation that was made and        *)
(* serialised as the functions do it.                                      *)
Sent(p, w) ==
  \/ w = MarshalPresentation(p)
  \/ w = MarshalPresentationCBOR(p) /\ p.env # None /\ p.env.type = "cose"

LEMMA SentIsFound ==
  ASSUME TypeOK, Apart, NEW p, MadePresentation(p), NEW w, Sent(p, w), NEW opts, opts.docs = docs, opts.checker,
         w.form = "object" =>
           ProofsAttest(w.json, None) /\ (opts.requireProof => w.json.proofs # <<>>),
         w.form # "object" /\ w.env.type = "jws" =>
           w.env.kid # None /\ Attested(w.env, Controller[w.env.kid]),
         w.form # "object" /\ w.env.type = "cose" => w.env.over.vp.holder = p.holder
  PROVE  /\ Found(w, opts) # Refused
         /\ Found(w, opts).raw.type = VPType
         /\ Found(w, opts).raw.holder = Holder /\ Found(w, opts).raw.creds = Forms(p.creds)
<1> DEFINE found == Found(w, opts)
<1>1. p.holder = Holder /\ p.type = VPType
  BY DEF MadePresentation
<1>2. CASE w.form = "object"
  <2>1. w.json = RawPresentation(p)
    BY <1>2 DEF Sent, MarshalPresentation, MarshalPresentationCBOR
  <2>2. OnlyLD(w.json.proofs) /\ ProofsFit(w.json)
    BY <2>1 DEF MadePresentation, RawPresentation
  <2>3. CheckEmbeddedProof(docs, w.json, None, opts)
    BY <1>2, <2>2, AttestedEmbedded
  <2>4. found = [raw |-> w.json, env |-> None]
    BY <1>2, <2>3 DEF Found, VPJSONParser, EmbeddedProofPasses
  <2>5. w.json.type = VPType /\ w.json.holder = Holder /\ w.json.creds = Forms(p.creds)
    BY <1>1, <2>1 DEF RawPresentation, Forms
  <2> QED BY <2>4, <2>5, RecordsAreApart
<1>3. ASSUME w.form # "object"
      PROVE  w.env = p.env /\ p.env # None /\ w.form \in {"string", "enveloped"}
  BY <1>3 DEF Sent, MarshalPresentation, MarshalPresentationCBOR
<1>4. ASSUME NEW v, v.form = "string", v.env = p.env, p.env # None, p.env.type = "jws", w.form # "object"
      PROVE  LET got == VPJSONParser(v, opts) IN
             /\ got # Refused /\ got.raw.type = VPType /\ got.raw.holder = Holder
             /\ got.raw.creds = Forms(p.creds)
  <2>1. p.env.kid # None /\ Attested(p.env, Controller[p.env.kid]) /\ Fits(p.env)
    BY <1>3, <1>4 DEF MadePresentation
  <2>2. p.env.kid # None /\ Verifies(p.env, ResolveVerificationMethod(docs, p.env.kid, Controller[p.env.kid]))
    BY <2>1, AttestedIsVerified
  <2>3. JWTProofChecks(docs, p.env, None)
    BY <2>2 DEF JWTProofChecks, CheckJWTProof
  <2>4. VPJSONParser(v, opts) = [raw |-> RefinePresentation(p.env.over), env |-> p.env]
    BY <1>4, <2>3 DEF VPJSONParser
  <2>5. PICK raw : raw = p.env.over.vp
    OBVIOUS
  <2>6. raw = [v2 |-> raw.v2, type |-> VPType, id |-> raw.id, holder |-> raw.holder,
               creds |-> Forms(p.creds), proofs |-> raw.proofs] /\ p.env.over.iss = Holder
    BY <1>4, <2>5 DEF MadePresentation
  <2>7. Holder # None
    BY RelyingAssumption, ProofAssumption
  <2>8. PICK refined, r1, id : /\ refined = RefinePresentation(p.env.over) /\ r1 = [raw EXCEPT !.holder = Holder]
                               /\ refined = [r1 EXCEPT !.id = id]
    BY <2>5, <2>6, <2>7 DEF RefinePresentation, Either
  <2>9. refined.type = VPType /\ refined.holder = Holder /\ refined.creds = Forms(p.creds)
    <3>1. r1 = [v2 |-> raw.v2, type |-> VPType, id |-> raw.id, holder |-> Holder,
                creds |-> Forms(p.creds), proofs |-> raw.proofs]
      BY <2>6, <2>8
    <3> QED BY <2>8, <3>1
  <2>10. VPJSONParser(v, opts) = [raw |-> refined, env |-> p.env]
    BY <2>4, <2>8
  <2>11. VPJSONParser(v, opts) # Refused /\ VPJSONParser(v, opts).raw = refined
    BY <2>10, RecordsAreApart
  <2> QED BY <2>9, <2>11
<1>5. ASSUME NEW v, v.form = "string", v.env = p.env, p.env # None, p.env.type = "cose", w.form # "object"
      PROVE  LET got == VPCWTParser(v, opts) IN
             /\ got # Refused /\ got.raw.type = VPType /\ got.raw.holder = Holder
             /\ got.raw.creds = Forms(p.creds)
  <2>1. VPCWTParser(v, opts) = [raw |-> p.env.over.vp, env |-> p.env]
    BY <1>5 DEF VPCWTParser
  <2>2. PICK raw : raw = p.env.over.vp
    OBVIOUS
  <2>3. raw = [v2 |-> raw.v2, type |-> VPType, id |-> raw.id, holder |-> raw.holder,
               creds |-> Forms(p.creds), proofs |-> raw.proofs]
    BY <1>5, <2>2 DEF MadePresentation
  <2>4. raw.holder = Holder
    BY <1>1, <1>3, <1>5, <2>2
  <2>5. raw.type = VPType /\ raw.creds = Forms(p.creds)
    BY <2>3
  <2> QED BY <2>1, <2>2, <2>4, <2>5, RecordsAreApart
<1>6. CASE w.form = "string"
  <2>1. CASE p.env.type = "jws"
    <3>1. found = VPJSONParser(w, opts)
      BY <1>3, <1>6, <2>1 DEF Found
    <3> QED BY <1>3, <1>4, <1>6, <2>1, <3>1
  <2>2. CASE p.env.type = "cose"
    <3>1. found = VPCWTParser(w, opts)
      BY <1>3, <1>6, <2>2 DEF Found
    <3> QED BY <1>3, <1>5, <1>6, <2>2, <3>1
  <2> QED BY <1>3, <1>6, <2>1, <2>2 DEF MadePresentation
<1>7. CASE w.form = "enveloped"
  <2>1. PICK inner : inner = [w EXCEPT !.form = "string"]
    OBVIOUS
  <2>2. w = [form |-> w.form, json |-> w.json, env |-> w.env]
    BY DEF Sent, MarshalPresentation, MarshalPresentationCBOR
  <2>3. inner.form = "string" /\ inner.env = p.env
    BY <1>3, <1>7, <2>1, <2>2
  <2>4. found = IF w.env.type = "cose" THEN VPCWTParser(inner, opts) ELSE VPJSONParser(inner, opts)
    BY <1>7, <2>1 DEF Found, VPEnvelopedParser
  <2>5. CASE p.env.type = "jws"
    <3>1. found = VPJSONParser(inner, opts)
      BY <1>3, <1>7, <2>4, <2>5
    <3> QED BY <1>3, <1>4, <1>7, <2>3, <2>5, <3>1
  <2>6. CASE p.env.type = "cose"
    <3>1. found = VPCWTParser(inner, opts)
      BY <1>3, <1>7, <2>4, <2>6
    <3> QED BY <1>3, <1>5, <1>7, <2>3, <2>6, <3>1
  <2> QED BY <1>3, <1>7, <2>5, <2>6 DEF MadePresentation
<1>8. w.form \in {"object", "string", "enveloped"}
  BY DEF Sent, MarshalPresentation, MarshalPresentationCBOR
<1> QED BY <1>2, <1>6, <1>7, <1>8

LEMMA PresentationReadsBack ==
  ASSUME TypeOK, Apart, NEW p, MadePresentation(p), NEW w, NEW opts, NEW schema, opts.checker,
         Found(w, Given(opts, schema)) # Refused,
         Found(w, Given(opts, schema)).raw.type = VPType,
         Found(w, Given(opts, schema)).raw.holder = Holder,
         Found(w, Given(opts, schema)).raw.creds = Forms(p.creds),
         opts.requireVC => p.creds # <<>>,
         \A i \in DOMAIN p.creds :
           /\ RightlyMade(p.creds[i]) /\ Satisfied(p.creds[i], schema)
           /\ p.creds[i].env # None => OnlyLD(p.creds[i].json.proofs)
  PROVE  LET read == ParsePresentation(w, Given(opts, schema)) IN
         /\ read # Refused /\ read.holder = p.holder /\ DOMAIN read.creds = DOMAIN p.creds
         /\ \A i \in DOMAIN p.creds : read.creds[i].contents = p.creds[i].contents
<1> DEFINE given == Given(opts, schema)
           first == Found(w, given)
           creds == DecodedBy(first.raw, given)
           read == ParsePresentation(w, given)
<1>1. read = Completed(first, given)
  BY FoundIsCompleted
<1>2. DOMAIN creds = DOMAIN p.creds
  BY DEF DecodedBy, Forms
<1>3. ASSUME NEW i \in DOMAIN p.creds
      PROVE  creds[i] \notin {Refused, Unsupported} /\ creds[i].contents = p.creds[i].contents
  <2>1. creds[i] = DecodeCredential(ToUniversalForm(p.creds[i]), given)
    BY <1>3 DEF DecodedBy, Forms
  <2>2. Made(p.creds[i])
    BY DEF MadePresentation
  <2> QED BY <2>1, <2>2, DecodesBack
<1>4. given.requireVC => creds # <<>>
  <2>1. given.requireVC = opts.requireVC
    BY DEF Given
  <2>2. creds = <<>> => DOMAIN p.creds = {}
    <3>1. DOMAIN (<<>>) = {}
      OBVIOUS
    <3> QED BY <1>2, <3>1
  <2>3. DOMAIN p.creds = {} => p.creds = <<>>
    <3>1. PICK s : s = p.creds
      OBVIOUS
    <3>2. s \in Seq({s[i] : i \in DOMAIN s})
      BY <3>1 DEF MadePresentation
    <3> QED BY <3>1, <3>2
  <2> QED BY <2>1, <2>2, <2>3
<1> HIDE DEF creds
<1>5. p.holder = Holder /\ ValidateVP(first.raw)
  BY DEF MadePresentation, ValidateVP
<1>6. read = [v2 |-> first.raw.v2, type |-> VPType, id |-> first.raw.id, holder |-> Holder,
              creds |-> creds, proofs |-> first.raw.proofs, env |-> first.env]
  BY <1>1, <1>2, <1>3, <1>4, <1>5 DEF Completed, creds
<1> HIDE DEF first, read, given
<1>7. read # Refused
  <2>1. "v2" \in DOMAIN read
    BY <1>6
  <2> QED BY <2>1 DEF Apart
<1>8. read.holder = p.holder /\ read.creds = creds
  BY <1>5, <1>6
<1> QED BY <1>2, <1>3, <1>7, <1>8 DEF read, given
(* Whatever was called, the credential and the presentation are as Made    *)
(* and MadePresentation say.                                               *)
MadeInv == Made(vc) /\ (vp # None => MadePresentation(vp))

LEMMA MadeIsInvariant == Spec => []MadeInv
<1>1. Init => MadeInv
  BY MadeCreated DEF Init, MadeInv
<1>2. MadeInv /\ [Next]_vars => MadeInv'
  <2> SUFFICES ASSUME MadeInv, [Next]_vars PROVE MadeInv'
    OBVIOUS
  <2>1. ASSUME NEW made, Made(made), Issuing(made) PROVE MadeInv'
    BY <2>1 DEF Issuing, MadeInv
  <2>2. CASE ModifyID \/ ModifyIssuer \/ ModifyIssued \/ ModifyValidFrom
    BY <2>1, <2>2, MadeWith DEF MadeInv, ModifyID, ModifyIssuer, ModifyIssued, ModifyValidFrom
  <2>3. CASE SignJWT
    BY <2>1, <2>3, MadeEnveloped DEF MadeInv, SignJWT
  <2>4. CASE SignCOSE
    <3>1. TRUE \in BOOLEAN
      OBVIOUS
    <3> QED BY <2>1, <2>4, <3>1, MadeEnveloped DEF MadeInv, SignCOSE
  <2>5. CASE MakeUnsecured
    BY <2>1, <2>5, MadeEnveloped DEF MadeInv, MakeUnsecured
  <2>6. CASE SignLinkedData
    BY <2>1, <2>6, MadeSigned DEF MadeInv, SignLinkedData
  <2>7. CASE SignDataIntegrity
    <3>1. PICK m \in Methods : vc.env = None /\ Issuing(AddDataIntegrityProof(vc, CurrentKey(m)))
      BY <2>7 DEF SignDataIntegrity
    <3>2. CanSign(CurrentKey(m), Suite[m])
      BY DEF CanSign, CurrentKey
    <3> QED BY <2>1, <3>1, <3>2, MadeSigned DEF MadeInv
  <2>8. ASSUME NEW made, MadePresentation(made), Presenting(made) PROVE MadeInv'
    BY <2>8 DEF Presenting, MadeInv
  <2>9. CASE CreatePresentation
    <3>1. PICK v2 \in BOOLEAN, creds \in {<<>>, <<vc>>, <<Other, vc>>} :
            Presenting(NewPresentation(v2, None, Holder, creds))
      BY <2>9 DEF CreatePresentation
    <3>2. IsSequence(creds) /\ \A i \in DOMAIN creds : creds[i] \in {vc, Other}
      <4>1. CASE creds = <<>>
        BY <4>1 DEF IsSequence
      <4>2. CASE creds = <<vc>>
        <5>1. creds \in Seq({vc, Other}) /\ DOMAIN creds = {1} /\ creds[1] = vc
          BY <4>2
        <5> QED BY <5>1, OwnSequence
      <4>3. CASE creds = <<Other, vc>>
        <5>1. creds \in Seq({vc, Other}) /\ DOMAIN creds = {1, 2} /\ creds[1] = Other /\ creds[2] = vc
          BY <4>3
        <5> QED BY <5>1, OwnSequence
      <4> QED BY <4>1, <4>2, <4>3
    <3>3. \A i \in DOMAIN creds : Made(creds[i])
      BY <3>2, MadeAssumption DEF MadeInv
    <3> QED BY <2>8, <3>1, <3>2, <3>3, MadeNew DEF IsSequence
  <2>10. CASE SignPresentation
    <3>1. PICK s \in Signings, minimize \in BOOLEAN :
            /\ vp # None /\ CanSign(CurrentKey(s.key), Suite[s.key])
            /\ \/ Presenting(CreateJWTVP(vp, CurrentKey(s.key), Suite[s.key], s.kid, minimize))
               \/ Presenting(CreateCWTVP(vp, CurrentKey(s.key), Suite[s.key], s.kid, minimize))
               \/ Presenting(AddPresentationProof(vp, CurrentKey(s.key), Suite[s.key], s.kid))
      BY <2>10 DEF SignPresentation
    <3> QED BY <2>8, <3>1, PresentationSigned DEF MadeInv
  <2>11. ASSUME UNCHANGED <<vc, vp>> PROVE MadeInv'
    BY <2>11 DEF MadeInv
  <2>12. CASE VerifyCredential \/ VerifyPresentation \/ VerifyConfiguration \/ VerifyStatus
    BY <2>11, <2>12 DEF VerifyCredential, VerifyPresentation, VerifyConfiguration, VerifyStatus
  <2>13. CASE \E m \in Methods : Rotate(m)
    BY <2>11, <2>13 DEF Rotate
  <2>14. CASE Tick \/ Publish \/ Revoke
    BY <2>11, <2>14 DEF Tick, Publish, Revoke
  <2>15. CASE UNCHANGED vars
    BY <2>11, <2>15 DEF vars
  <2> QED BY <2>2, <2>3, <2>4, <2>5, <2>6, <2>7, <2>9, <2>10, <2>12, <2>13, <2>14, <2>15 DEF Next
<1> QED BY <1>1, <1>2, PTL DEF Spec

(* Who was rightly made and who attests depends on the documents alone.    *)
LEMMA AttestedStays ==
  ASSUME docs' = docs, NEW sig, NEW did
  PROVE  Attested(sig, did)' <=> Attested(sig, did)
BY DEF Attested

LEMMA RightlyMadeStays ==
  ASSUME docs' = docs, NEW cred
  PROVE  RightlyMade(cred)' <=> RightlyMade(cred)
<1>1. ASSUME NEW c PROVE Vouched(c)' <=> Vouched(c)
  BY AttestedStays DEF Vouched, ProofsAttest
<1> QED BY <1>1 DEF RightlyMade

LEMMA CredentialIsReadBack ==
  ASSUME Inv, MadeInv, Apart, VerifyCredential
  PROVE  ReadBackAsMade'
<1>1. PICK opts, schema, w :
        /\ w = ToUniversalForm(vc)
        /\ last' = [op |-> "VerifyCredential", w |-> w, opts |-> opts, schema |-> schema,
                    result |-> ParseCredential(w, Given(opts, schema))]
        /\ UNCHANGED <<docs, vc>>
  BY DEF VerifyCredential
<1> DEFINE given == Given(opts, schema)
           result == ParseCredential(w, given)
<1>2. ASSUME opts.checker, opts.dataIntegrity, RightlyMade(vc), NeedsSchema(w, opts) => Satisfied(vc, schema)
      PROVE  result # Refused /\ result.contents = vc.contents
  <2>1. given.docs = docs /\ given.checker = opts.checker /\ given.dataIntegrity = opts.dataIntegrity
        /\ given.validate = opts.validate /\ given.customSchema = opts.customSchema /\ given.schema = schema
    BY DEF Given
  <2>2. opts.validate /\ opts.customSchema /\ vc.json.schema /\ ~(vc.env # None /\ vc.env.type = "jws")
        => NeedsSchema(w, opts)
    <3> SUFFICES ASSUME opts.validate, opts.customSchema, vc.json.schema,
                        ~(vc.env # None /\ vc.env.type = "jws")
                 PROVE  NeedsSchema(w, opts)
      OBVIOUS
    <3>1. CASE vc.env = None
      BY <1>1, <3>1 DEF ToUniversalForm, NeedsSchema
    <3>2. CASE vc.env # None
      <4>1. w.form # "object" /\ w.env = vc.env
        BY <1>1, <3>2 DEF ToUniversalForm
      <4>2. vc.env.over.vc.schema
        <5>1. CASE vc.env.type = "cose"
          BY <3>2, <5>1 DEF MadeInv, Made, EnvelopeFits, CWTClaims
        <5>2. CASE vc.env.type # "cose"
          <6>1. PICK minimize \in BOOLEAN : vc.env.over = JWTClaims(vc, minimize)
            BY <3>2, <5>2 DEF MadeInv, Made, EnvelopeFits
          <6>2. PICK j : j = vc.json
            OBVIOUS
          <6>3. j = Json(j.v2, j.id, j.issuer, j.subject, j.origin, j.issuanceDate, j.validFrom, j.schema, j.proofs)
            BY <6>2 DEF MadeInv, Made, Json
          <6>4. CASE minimize
            <7>1. vc.env.over.vc = Changed(j, None, None, None, None)
              BY <6>1, <6>2, <6>4 DEF JWTClaims, Changed
            <7>2. Changed(j, None, None, None, None)
                    = Json(j.v2, None, None, j.subject, j.origin, None, None, j.schema, j.proofs)
              BY <6>3, FieldsChanged
            <7>3. vc.env.over.vc.schema = j.schema
              BY <7>1, <7>2 DEF Json
            <7> QED BY <6>2, <7>3
          <6>5. CASE ~minimize
            BY <6>1, <6>5 DEF JWTClaims
          <6> QED BY <6>4, <6>5
        <5> QED BY <5>1, <5>2
      <4> QED BY <3>2, <4>1, <4>2 DEF NeedsSchema
    <3> QED BY <3>1, <3>2
  <2>3. result = ReadAs(vc) /\ ReadAs(vc) # Refused
    BY <1>1, <1>2, <2>1, <2>2, ReadsBack DEF Inv, MadeInv
  <2>4. ReadAs(vc).contents = vc.contents
    BY MadeAgrees DEF MadeInv, ReadAs
  <2> QED BY <2>3, <2>4
<1>3. RightlyMade(vc)' => RightlyMade(vc)
  <2>1. PICK cred : cred = vc
    OBVIOUS
  <2>2. docs' = docs /\ vc' = vc
    BY DEF VerifyCredential
  <2> QED BY <2>1, <2>2, RightlyMadeStays
<1>4. /\ last'.w = w /\ last'.opts = opts /\ last'.schema = schema /\ last'.result = result
      /\ last'.op = "VerifyCredential"
  BY <1>1
<1> HIDE DEF result
<1> QED BY <1>1, <1>2, <1>3, <1>4 DEF ReadBackAsMade, NeedsSchema, Satisfied
LEMMA PresentationIsReadBack ==
  ASSUME Inv, MadeInv, Apart, VerifyPresentation
  PROVE  ReadBackAsMade'
<1>1. PICK opts, schema, w :
        /\ vp # None /\ Sent(vp, w)
        /\ last' = [op |-> "VerifyPresentation", w |-> w, opts |-> opts, schema |-> schema,
                    result |-> ParsePresentation(w, Given(opts, schema))]
        /\ UNCHANGED <<docs, vp>>
  BY DEF VerifyPresentation, Sent
<1> DEFINE given == Given(opts, schema)
           result == ParsePresentation(w, given)
<1>2. /\ last'.w = w /\ last'.opts = opts /\ last'.schema = schema /\ last'.result = result
      /\ last'.op = "VerifyPresentation"
  BY <1>1
<1>3. ASSUME opts.checker, RightlyPresented(w)'
      PROVE  /\ result # Refused /\ result.holder = vp.holder /\ DOMAIN result.creds = DOMAIN vp.creds
             /\ \A i \in DOMAIN vp.creds : result.creds[i].contents = vp.creds[i].contents
  <2>1. given.docs = docs /\ given.checker = opts.checker /\ given.requireProof = opts.requireProof
    BY DEF Given
  <2>2. \A i \in DOMAIN vp.creds :
          /\ RightlyMade(vp.creds[i])' /\ Satisfied(vp.creds[i], schema)
          /\ vp.creds[i].env # None => OnlyLD(vp.creds[i].json.proofs)
    BY <1>1, <1>2, <1>3 DEF RightlyPresented, Satisfied, OnlyLD
  <2>3. \A i \in DOMAIN vp.creds : RightlyMade(vp.creds[i])
    <3> SUFFICES ASSUME NEW i \in DOMAIN vp.creds PROVE RightlyMade(vp.creds[i])
      OBVIOUS
    <3>1. PICK cred : cred = vp.creds[i]
      OBVIOUS
    <3>2. RightlyMade(cred)'
      BY <1>1, <2>2, <3>1
    <3> QED BY <1>1, <3>1, <3>2, RightlyMadeStays
  <2>4. opts.requireVC => vp.creds # <<>>
    BY <1>1, <1>2, <1>3 DEF RightlyPresented
  <2>5. w.form = "object" => ProofsAttest(w.json, None) /\ (given.requireProof => w.json.proofs # <<>>)
    BY <1>1, <2>1, <1>2, <1>3 DEF RightlyPresented, ProofsAttest, Attested
  <2>6. w.form # "object" /\ w.env.type = "jws" =>
          w.env.kid # None /\ Attested(w.env, Controller[w.env.kid])
    BY <1>1, <1>3 DEF RightlyPresented, Attested
  <2>7. w.form # "object" /\ w.env.type = "cose" => w.env.over.vp.holder = vp.holder
    BY <1>1, <1>3 DEF RightlyPresented
  <2>8. MadePresentation(vp) /\ TypeOK
    BY <1>1 DEF MadeInv, Inv
  <2> HIDE DEF given
  <2>9. /\ Found(w, given) # Refused /\ Found(w, given).raw.type = VPType
        /\ Found(w, given).raw.holder = Holder /\ Found(w, given).raw.creds = Forms(vp.creds)
    <3>1. given.checker
      BY <1>3, <2>1
    <3> QED BY <1>1, <2>1, <2>5, <2>6, <2>7, <2>8, <3>1, SentIsFound
  <2> QED BY <1>3, <2>2, <2>3, <2>4, <2>8, <2>9, PresentationReadsBack DEF given
<1> HIDE DEF result
<1> QED BY <1>1, <1>2, <1>3 DEF ReadBackAsMade

(* ReadBackAsMade: what was rightly made, and signed with keys that are    *)
(* still in place, is accepted and read back with the same contents,       *)
(* whatever was called before, in every form.                              *)
THEOREM AlwaysReadBackAsMade ==
  ASSUME Apart
  PROVE  Spec => []ReadBackAsMade
<1>1. Init => ReadBackAsMade
  BY DEF Init, ReadBackAsMade
<1>2. Inv /\ MadeInv /\ ReadBackAsMade /\ [Next]_vars => ReadBackAsMade'
  <2> SUFFICES ASSUME Inv, MadeInv, ReadBackAsMade, [Next]_vars PROVE ReadBackAsMade'
    OBVIOUS
  <2>1. CASE last' = None
    BY <2>1 DEF ReadBackAsMade
  <2>2. CASE VerifyCredential
    BY <2>2, CredentialIsReadBack
  <2>3. CASE VerifyPresentation
    BY <2>3, PresentationIsReadBack
  <2>4. CASE VerifyConfiguration \/ VerifyStatus
    <3>1. last'.op \notin {"VerifyCredential", "VerifyPresentation"}
      BY <2>4 DEF VerifyConfiguration, VerifyStatus
    <3> QED BY <3>1 DEF ReadBackAsMade
  <2>5. CASE UNCHANGED vars
    <3>1. UNCHANGED <<docs, vc, vp, last>>
      BY <2>5 DEF vars
    <3>2. RightlyMade(vc)' => RightlyMade(vc)
      <4>1. PICK cred : cred = vc
        OBVIOUS
      <4> QED BY <3>1, <4>1, RightlyMadeStays
    <3>3. ASSUME NEW w, RightlyPresented(w)' PROVE RightlyPresented(w)
      <4>1. ASSUME NEW i \in DOMAIN vp.creds, RightlyMade(vp.creds[i])' PROVE RightlyMade(vp.creds[i])
        <5>1. PICK cred : cred = vp.creds[i]
          OBVIOUS
        <5> QED BY <3>1, <4>1, <5>1, RightlyMadeStays
      <4>2. ProofsAttest(w.json, None)' => ProofsAttest(w.json, None)
        BY <3>1 DEF ProofsAttest, Attested
      <4>3. Attested(w.env, Controller[w.env.kid])' => Attested(w.env, Controller[w.env.kid])
        BY <3>1 DEF Attested
      <4> QED BY <3>1, <3>3, <4>1, <4>2, <4>3 DEF RightlyPresented, Satisfied, OnlyLD
    <3> QED BY <3>1, <3>2, <3>3 DEF ReadBackAsMade, NeedsSchema, Satisfied
  <2> QED BY <2>1, <2>2, <2>3, <2>4, <2>5, OnlyAnswers
<1> QED BY <1>1, <1>2, InvIsInvariant, MadeIsInvariant, PTL DEF Spec
-----------------------------------------------------------------------------
(* DID configurations.                                                     *)

(* Whatever a credential that was made is read as, rightly or not, it says *)
(* the same of its issuer and subject and carries the same proofs.         *)
LEMMA ParsedAgrees ==
  ASSUME Apart, NEW cred, Made(cred), NEW opts, ParseCredential(ToUniversalForm(cred), opts) # Refused
  PROVE  LET read == ParseCredential(ToUniversalForm(cred), opts)
             c == cred.contents
             r == read.contents
         IN  /\ r.id = c.id /\ r.issuer = c.issuer /\ r.subject = c.subject /\ r.origin = c.origin
             /\ r.issued # None => c.issued # None
             /\ read.env = IF cred.env # None /\ cred.env.type = "unsecured" THEN None ELSE cred.env
             /\ read.json.proofs = cred.json.proofs
             /\ cred.env = None => read.json = cred.json
             /\ opts.checkProof => CheckProof(read, opts)
<1> DEFINE w == ToUniversalForm(cred)
           c == cred.contents
           read == ParseCredential(w, opts)
<1>1. /\ w.env = cred.env
      /\ w.form = "object" <=> cred.env = None
      /\ w.form = "object" => w.json = cred.json
  BY DEF ToUniversalForm
<1>2. /\ read \in {JSONParser(w, opts), CBORParser(w, opts)} /\ read \notin {Refused, Unsupported}
      /\ opts.checkProof => CheckProof(read, opts)
  BY ParsedByOne
<1> HIDE DEF w, read
<1>3. ASSUME NEW json, NEW env, NEW validate, read = Parsed(json, env, validate, opts),
             json = Json(c.v2, c.id, c.issuer, c.subject, c.origin, json.issuanceDate,
                         json.validFrom, c.schema, cred.json.proofs),
             c.issued = None => json.issuanceDate = None /\ json.validFrom = None
      PROVE  /\ read.contents.id = c.id /\ read.contents.issuer = c.issuer
             /\ read.contents.subject = c.subject /\ read.contents.origin = c.origin
             /\ read.contents.issued # None => c.issued # None
             /\ read.env = env /\ read.json = json /\ read.json.proofs = cred.json.proofs
  <2>1. read = [json |-> json, contents |-> ParseContents(json), env |-> env]
    BY <1>2, <1>3 DEF Parsed
  <2>2. /\ json.id = c.id /\ json.issuer = c.issuer /\ json.subject = c.subject
        /\ json.origin = c.origin /\ json.proofs = cred.json.proofs
    BY <1>3 DEF Json
  <2>3. Either(json.issuanceDate, json.validFrom) # None => c.issued # None
    BY <1>3 DEF Either
  <2> QED BY <2>1, <2>2, <2>3 DEF ParseContents
<1>4. /\ cred.json = Json(c.v2, c.id, c.issuer, c.subject, c.origin, cred.json.issuanceDate,
                          cred.json.validFrom, c.schema, cred.json.proofs)
      /\ c.issued = None => cred.json.issuanceDate = None /\ cred.json.validFrom = None
  BY MadeAgrees DEF Agree, DatesAgree
<1>5. CASE cred.env = None
  <2>1. read = Parsed(cred.json, None, opts.validate, opts)
    BY <1>1, <1>2, <1>5 DEF Kind, JSONParser, CBORParser
  <2> QED BY <1>2, <1>3, <1>4, <1>5, <2>1 DEF read, w
<1>6. CASE cred.env # None /\ cred.env.type = "cose"
  <2>1. cred.env.over.vc = cred.json
    BY <1>6 DEF Made, EnvelopeFits, CWTClaims
  <2>2. read = Parsed(cred.json, cred.env, opts.validate, opts)
    BY <1>1, <1>2, <1>6, <2>1 DEF Kind, JSONParser, CBORParser
  <2> QED BY <1>2, <1>3, <1>4, <1>6, <2>2 DEF read, w
<1>7. CASE cred.env # None /\ cred.env.type # "cose"
  <2>1. cred.env.type \in {"jws", "unsecured"}
    BY <1>7 DEF Made, EnvelopeFits
  <2>2. PICK minimize \in BOOLEAN : cred.env.over = JWTClaims(cred, minimize)
    BY <1>7 DEF Made, EnvelopeFits
  <2>3. PICK json : json = RefineFromJWTClaims(JWTClaims(cred, minimize))
    OBVIOUS
  <2>4. /\ json = Json(c.v2, c.id, c.issuer, c.subject, c.origin, json.issuanceDate,
                       json.validFrom, c.schema, cred.json.proofs)
        /\ c.issued = None => json.issuanceDate = None /\ json.validFrom = None
    BY <2>3, RefinedAgrees
  <2>5. CASE cred.env.type = "jws"
    <3>1. read = Parsed(json, cred.env, FALSE, opts)
      BY <1>1, <1>2, <1>7, <2>2, <2>3, <2>5 DEF Kind, JSONParser, CBORParser
    <3> QED BY <1>2, <1>3, <1>7, <2>4, <2>5, <3>1 DEF read, w
  <2>6. CASE cred.env.type = "unsecured"
    <3>1. read = Parsed(json, None, opts.validate, opts)
      BY <1>1, <1>2, <1>7, <2>2, <2>3, <2>6 DEF Kind, JSONParser, CBORParser
    <3> QED BY <1>2, <1>3, <1>7, <2>4, <2>6, <3>1 DEF read, w
  <2> QED BY <2>1, <2>5, <2>6
<1> QED BY <1>5, <1>6, <1>7

(* What passes the second pass is vouched for.                             *)
LEMMA LinkedIsVouched ==
  ASSUME Apart, NEW cred, Made(cred),
         ParseCredential(ToUniversalForm(cred), LinkageOptions(docs, TRUE)) # Refused
  PROVE  Vouched(ReadAs(cred))
<1> DEFINE opts == LinkageOptions(docs, TRUE)
           read == ParseCredential(ToUniversalForm(cred), opts)
           issuer == cred.contents.issuer
<1>1. opts.docs = docs /\ opts.checkProof /\ ~opts.dataIntegrity
  BY DEF LinkageOptions
<1> HIDE DEF opts
<1>2. /\ read.contents.issuer = issuer /\ CheckProof(read, opts)
      /\ read.env = IF cred.env # None /\ cred.env.type = "unsecured" THEN None ELSE cred.env
      /\ read.json.proofs = cred.json.proofs
      /\ cred.env = None => read.json = cred.json
  BY <1>1, ParsedAgrees DEF opts
<1>3. ReadAs(cred) = [json |-> cred.json, contents |-> cred.contents, env |-> read.env]
  BY <1>2, MadeAgrees DEF ReadAs
<1> HIDE DEF read
<1>4. Vouched(read)
  BY <1>1, <1>2, CheckedIsVouched
<1>5. CASE read.env # None
  BY <1>2, <1>3, <1>4, <1>5 DEF Vouched
<1>6. CASE read.env = None
  <2> DEFINE ps == cred.json.proofs
  <2>1. issuer # None /\ CheckEmbeddedProof(docs, read.json, issuer, opts)
    BY <1>1, <1>2, <1>6 DEF CheckProof
  <2>2. CASE ps = <<>>
    BY <1>3, <1>6, <2>2 DEF Vouched, ProofsAttest
  <2>3. CASE ps # <<>>
    <3>1. VerifyObject(docs, ps, [read.json EXCEPT !.proofs = <<>>], issuer)
      BY <1>1, <1>2, <2>1, <2>3 DEF CheckEmbeddedProof
    <3>2. ASSUME NEW i \in DOMAIN ps
          PROVE  /\ ps[i].type = "LD" /\ ps[i].over = [cred.json EXCEPT !.proofs = <<>>]
                 /\ Attested(ps[i], issuer)
      <4>1. CheckLDProof(docs, ps[i], issuer, [read.json EXCEPT !.proofs = <<>>])
        BY <2>1, <3>1 DEF VerifyObject
      <4>2. ps[i].type = "LD" /\ Attested(ps[i], issuer)
        BY <4>1, VerifiedIsAttested DEF CheckLDProof
      <4> QED BY <4>2 DEF Made, ProofsFit
    <3>3. ProofsAttest(cred.json, issuer)
      BY <2>1, <3>2 DEF ProofsAttest
    <3> QED BY <1>3, <1>6, <3>3 DEF Vouched
  <2> QED BY <2>2, <2>3
<1> QED BY <1>5, <1>6

(* What says that it links the domain and was rightly made passes both.    *)
LEMMA LinkingPasses ==
  ASSUME TypeOK, Apart, NEW cred, Made(cred), RightlyMade(cred), OnlyLD(cred.json.proofs),
         NEW did, Links(cred, did)
  PROVE  LET found == ParseCredential(ToUniversalForm(cred), LinkageOptions(docs, FALSE)) IN
         /\ found # Refused /\ found.contents.issuer = did /\ IsLinkage(found, did, Origin)
         /\ ParseCredential(ToUniversalForm(cred), LinkageOptions(docs, TRUE)) # Refused
<1>1. ASSUME NEW checks \in BOOLEAN
      PROVE  /\ ParseCredential(ToUniversalForm(cred), LinkageOptions(docs, checks)) = ReadAs(cred)
             /\ ReadAs(cred) # Refused
  <2> DEFINE opts == LinkageOptions(docs, checks)
  <2>1. opts.docs = docs /\ opts.checkProof = checks /\ opts.checker = checks /\ ~opts.customSchema
    BY DEF LinkageOptions
  <2> HIDE DEF opts
  <2> QED BY <2>1, ReadsBack DEF opts
<1>2. ReadAs(cred).contents = cred.contents
      /\ ReadAs(cred).env = IF cred.env # None /\ cred.env.type = "unsecured" THEN None ELSE cred.env
  BY MadeAgrees DEF ReadAs
<1>3. ASSUME cred.env # None, cred.env.type = "jws"
      PROVE  cred.env.kid # None /\ cred.env.over.jti = None
  <2>1. Vouched(ReadAs(cred)) /\ Fits(cred.env)
    BY <1>3 DEF RightlyMade, ReadAs, Made, EnvelopeFits
  <2>2. Attested(cred.env, cred.contents.issuer)
    BY <1>2, <1>3, <2>1 DEF Vouched
  <2>3. PICK minimize \in BOOLEAN : cred.env.over = JWTClaims(cred, minimize)
    BY <1>3 DEF Made, EnvelopeFits
  <2> QED BY <2>1, <2>2, <2>3, AttestedIsVerified DEF JWTClaims, Links
<1>4. IsLinkage(ReadAs(cred), did, Origin)
  BY <1>2, <1>3, RelyingAssumption DEF Links, IsLinkage, ValidLinkageJWT, ValidLinkage, ValidSubject
<1>5. TRUE \in BOOLEAN /\ FALSE \in BOOLEAN
  OBVIOUS
<1> QED BY <1>1, <1>2, <1>4, <1>5 DEF Links
LEMMA ConfigurationIsJudged ==
  ASSUME Inv, MadeInv, Apart, VerifyConfiguration
  PROVE  LinkedIffOneGood'
<1>1. PICK config \in Configurations, did \in DIDs :
        /\ last' = [op |-> "VerifyConfiguration", config |-> config, did |-> did,
                    result |-> VerifyDIDAndDomain(docs, Linked(config), did, Origin)]
        /\ docs' = docs
  BY DEF VerifyConfiguration
<1> DEFINE entries == {config[i] : i \in DOMAIN config}
           links == {c \in entries \ {OddEntry} : Links(c, did)}
           result == VerifyDIDAndDomain(docs, Linked(config), did, Origin)
<1>2. \A i \in DOMAIN config : config[i] # OddEntry => Made(config[i])
  BY MadeAssumption DEF Configurations, MadeInv
<1>3. /\ DOMAIN Linked(config) = DOMAIN config
      /\ \A i \in DOMAIN config :
           Linked(config)[i] = IF config[i] = OddEntry THEN OddEntry ELSE ToUniversalForm(config[i])
  BY DEF Linked
<1>4. TypeOK
  BY DEF Inv
<1>5. ASSUME result
      PROVE  OddEntry \notin entries /\ \E c \in links : Vouched(ReadAs(c))
  <2>1. \A i \in DOMAIN config : config[i] # OddEntry
    BY <1>3, <1>5 DEF VerifyDIDAndDomain
  <2>2. PICK i \in LinkageCredentials(docs, Linked(config), did, Origin) :
          ParseCredential(Linked(config)[i], LinkageOptions(docs, TRUE)) # Refused
    BY <1>5 DEF VerifyDIDAndDomain
  <2>3. i \in DOMAIN config
    BY <1>3, <2>2 DEF LinkageCredentials
  <2>4. PICK c : c = config[i]
    OBVIOUS
  <2>5. Made(c) /\ Linked(config)[i] = ToUniversalForm(c) /\ c \in entries \ {OddEntry}
    BY <1>2, <1>3, <2>1, <2>3, <2>4
  <2>6. PICK found : found = ParseCredential(ToUniversalForm(c), LinkageOptions(docs, FALSE))
    OBVIOUS
  <2>7. found # Refused /\ found.contents.issuer = did /\ IsLinkage(found, did, Origin)
    BY <2>2, <2>5, <2>6 DEF LinkageCredentials
  <2>8. /\ found.contents.id = c.contents.id /\ found.contents.issuer = c.contents.issuer
        /\ found.contents.subject = c.contents.subject /\ found.contents.origin = c.contents.origin
        /\ found.contents.issued # None => c.contents.issued # None
    BY <2>5, <2>6, <2>7, ParsedAgrees
  <2>9. Links(c, did)
    BY <2>7, <2>8 DEF IsLinkage, ValidLinkage, ValidSubject, Links
  <2>10. Vouched(ReadAs(c))
    BY <2>2, <2>5, LinkedIsVouched
  <2> QED BY <2>1, <2>5, <2>9, <2>10
<1>6. ASSUME NEW c \in links, RightlyMade(c), OnlyLD(c.json.proofs), OddEntry \notin entries
      PROVE  result
  <2>1. PICK i \in DOMAIN config : c = config[i]
    BY <1>6
  <2>2. Made(c) /\ Linked(config)[i] = ToUniversalForm(c) /\ Links(c, did)
    BY <1>2, <1>3, <1>6, <2>1
  <2>3. \A j \in DOMAIN config : Linked(config)[j] # OddEntry
    <3> SUFFICES ASSUME NEW j \in DOMAIN config PROVE Linked(config)[j] # OddEntry
      OBVIOUS
    <3>1. Linked(config)[j] = ToUniversalForm(config[j])
      BY <1>3, <1>6
    <3> QED BY <3>1, RecordsAreApart DEF ToUniversalForm
  <2>4. PICK w, found : w = ToUniversalForm(c) /\ found = ParseCredential(w, LinkageOptions(docs, FALSE))
    OBVIOUS
  <2>5. /\ found # Refused /\ found.contents.issuer = did /\ IsLinkage(found, did, Origin)
        /\ ParseCredential(w, LinkageOptions(docs, TRUE)) # Refused
    BY <1>4, <1>6, <2>2, <2>4, LinkingPasses
  <2>6. Linked(config)[i] = w
    BY <2>2, <2>4
  <2>7. i \in LinkageCredentials(docs, Linked(config), did, Origin)
    BY <1>3, <2>1, <2>4, <2>5, <2>6 DEF LinkageCredentials
  <2> QED BY <1>3, <2>3, <2>5, <2>6, <2>7 DEF VerifyDIDAndDomain
<1>7. last'.config = config /\ last'.did = did /\ last'.result = result
  BY <1>1
<1>8. ASSUME NEW c, Vouched(ReadAs(c)) PROVE Vouched(ReadAs(c))'
  BY <1>1, <1>8 DEF Vouched, ProofsAttest, Attested, ReadAs
<1>9. ASSUME NEW c, RightlyMade(c)' PROVE RightlyMade(c)
  BY <1>1, <1>9, RightlyMadeStays
<1> HIDE DEF result
<1>10. result => OddEntry \notin entries /\ \E c \in links : Vouched(ReadAs(c))'
  BY <1>5, <1>8
<1>11. (\E c \in links : RightlyMade(c)' /\ OnlyLD(c.json.proofs)) /\ OddEntry \notin entries => result
  BY <1>6, <1>9
<1> QED BY <1>7, <1>10, <1>11 DEF LinkedIffOneGood, Links, OnlyLD, ReadAs

(* LinkedIffOneGood: VerifyDIDAndDomain finds the good credential among    *)
(* whatever else the domain serves, and nothing without one.               *)
THEOREM AlwaysLinkedIffOneGood ==
  ASSUME Apart
  PROVE  Spec => []LinkedIffOneGood
<1>1. Init => LinkedIffOneGood
  BY DEF Init, LinkedIffOneGood
<1>2. Inv /\ MadeInv /\ LinkedIffOneGood /\ [Next]_vars => LinkedIffOneGood'
  <2> SUFFICES ASSUME Inv, MadeInv, LinkedIffOneGood, [Next]_vars PROVE LinkedIffOneGood'
    OBVIOUS
  <2>1. CASE last' = None
    BY <2>1 DEF LinkedIffOneGood
  <2>2. CASE VerifyConfiguration
    BY <2>2, ConfigurationIsJudged
  <2>3. CASE VerifyCredential \/ VerifyPresentation \/ VerifyStatus
    <3>1. last'.op # "VerifyConfiguration"
      BY <2>3 DEF VerifyCredential, VerifyPresentation, VerifyStatus
    <3> QED BY <3>1 DEF LinkedIffOneGood
  <2>4. CASE UNCHANGED vars
    <3>1. docs' = docs /\ last' = last
      BY <2>4 DEF vars
    <3>2. CASE last = None \/ last.op # "VerifyConfiguration"
      BY <3>1, <3>2 DEF LinkedIffOneGood
    <3>3. CASE last # None /\ last.op = "VerifyConfiguration"
      <4>0. PICK config, did, result :
              last.config = config /\ last.did = did /\ last.result = result
        OBVIOUS
      <4> DEFINE entries == {config[i] : i \in DOMAIN config}
                 links == {c \in entries \ {OddEntry} : Links(c, did)}
      <4>1. result => OddEntry \notin entries /\ \E c \in links : Vouched(ReadAs(c))
        BY <3>3, <4>0 DEF LinkedIffOneGood, ReadAs
      <4>2. (\E c \in links : RightlyMade(c) /\ OnlyLD(c.json.proofs)) /\ OddEntry \notin entries
            => result
        BY <3>3, <4>0 DEF LinkedIffOneGood
      <4>3. ASSUME NEW c, Vouched(ReadAs(c)) PROVE Vouched(ReadAs(c))'
        BY <3>1, <4>3 DEF Vouched, ProofsAttest, Attested, ReadAs
      <4>4. ASSUME NEW c, RightlyMade(c)' PROVE RightlyMade(c)
        BY <3>1, <4>4, RightlyMadeStays
      <4>5. result => OddEntry \notin entries /\ \E c \in links : Vouched(ReadAs(c))'
        BY <4>1, <4>3
      <4>6. (\E c \in links : RightlyMade(c)' /\ OnlyLD(c.json.proofs)) /\ OddEntry \notin entries
            => result
        BY <4>2, <4>4
      <4>7. last'.config = config /\ last'.did = did /\ last'.result = result
        BY <3>1, <4>0
      <4> QED BY <4>5, <4>6, <4>7 DEF LinkedIffOneGood, Links, OnlyLD, ReadAs
    <3> QED BY <3>2, <3>3
  <2> QED BY <2>1, <2>2, <2>3, <2>4, OnlyAnswers
<1> QED BY <1>1, <1>2, InvIsInvariant, MadeIsInvariant, PTL DEF Spec
-----------------------------------------------------------------------------
(* Status lists.                                                           *)

LEMMA LeastNumber ==
  ASSUME NEW S, S \subseteq Nat, S # {}
  PROVE  \E n \in S : \A m \in S : n <= m
<1> DEFINE R == OpToRel(<, Nat)
<1>1. IsWellFoundedOn(R, Nat)
  BY NatLessThanWellFounded
<1>2. \A x, y \in Nat : <<x, y>> \in R <=> x < y
  BY DEF OpToRel
<1> HIDE DEF R
<1>3. PICK n \in S : \A m \in S : <<m, n>> \notin R
  BY <1>1, WFMin
<1>4. ASSUME NEW m \in S PROVE n <= m
  <2>1. m \in Nat /\ n \in Nat
    OBVIOUS
  <2>2. ~(m < n)
    BY <1>2, <1>3, <2>1
  <2> QED BY <2>1, <2>2
<1> QED BY <1>4

(* Read without its proof or its schema, nothing that was made is refused. *)
LEMMA ListIsRead ==
  ASSUME Apart, NEW cred, Made(cred)
  PROVE  LET list == ParseCredential(ToUniversalForm(cred), [checkProof |-> FALSE, validate |-> FALSE]) IN
         /\ list # Refused
         /\ list.contents.issuer = cred.contents.issuer /\ list.contents.subject = cred.contents.subject
<1> DEFINE w == ToUniversalForm(cred)
           opts == [checkProof |-> FALSE, validate |-> FALSE]
<1>1. opts.checkProof = FALSE /\ opts.validate = FALSE
  OBVIOUS
<1>2. /\ w.env = cred.env
      /\ w.form = "object" <=> cred.env = None
      /\ w.form = "object" => w.json = cred.json
  BY DEF ToUniversalForm
<1> HIDE DEF w, opts
<1>3. \E json, env : json # Refused /\ Read(w, opts) = Parsed(json, env, FALSE, opts)
  <2>1. CASE cred.env = None
    <3>1. Read(w, opts) = Parsed(cred.json, None, FALSE, opts)
      BY <1>1, <1>2, <2>1 DEF Kind, Read, JSONParser
    <3> QED BY <3>1, RecordsAreApart
  <2>2. CASE cred.env # None /\ cred.env.type = "cose"
    <3>1. cred.env.over.vc = cred.json
      BY <2>2 DEF Made, EnvelopeFits, CWTClaims
    <3>2. Read(w, opts) = Parsed(cred.json, cred.env, FALSE, opts)
      BY <1>1, <1>2, <2>2, <3>1 DEF Kind, Read, CBORParser
    <3> QED BY <3>2, RecordsAreApart
  <2>3. CASE cred.env # None /\ cred.env.type # "cose"
    <3>1. PICK minimize \in BOOLEAN : cred.env.over = JWTClaims(cred, minimize)
      BY <2>3 DEF Made, EnvelopeFits
    <3>2. PICK json : json = RefineFromJWTClaims(JWTClaims(cred, minimize))
      OBVIOUS
    <3>3. json = Json(cred.contents.v2, cred.contents.id, cred.contents.issuer, cred.contents.subject,
                      cred.contents.origin, json.issuanceDate, json.validFrom, cred.contents.schema,
                      cred.json.proofs)
      BY <3>2, RefinedAgrees
    <3>4. json # Refused
      <4>1. "v2" \in DOMAIN json
        BY <3>3 DEF Json
      <4> QED BY <4>1 DEF Apart
    <3>5. cred.env.type \in {"jws", "unsecured"}
      BY <2>3 DEF Made, EnvelopeFits
    <3>6. cred.env.type = "jws" => Read(w, opts) = Parsed(json, cred.env, FALSE, opts)
      BY <1>1, <1>2, <2>3, <3>1, <3>2 DEF Kind, Read, JSONParser
    <3>7. cred.env.type = "unsecured" => Read(w, opts) = Parsed(json, None, FALSE, opts)
      BY <1>1, <1>2, <2>3, <3>1, <3>2 DEF Kind, Read, JSONParser
    <3> QED BY <3>4, <3>5, <3>6, <3>7
  <2> QED BY <2>1, <2>2, <2>3
<1>4. Read(w, opts) \notin {Refused, Unsupported}
  BY <1>3, RecordsAreApart DEF Parsed
<1>5. ParseCredential(w, opts) = Read(w, opts)
  BY <1>1, <1>4, ReadIsParsed
<1>6. ParseCredential(w, opts) # Refused
  BY <1>4, <1>5
<1> QED BY <1>6, ParsedAgrees DEF w, opts

(* What a hub or a server sends of a list, if nothing failed, is what is   *)
(* served of it, whatever comes with it.                                   *)
Sought(status, messages) ==
  IF status.did THEN GetMessageData(messages, status.list)
  ELSE IF messages[1].ok THEN messages[1].data ELSE None

LEMMA ListIsFound ==
  ASSUME NEW status, status.list \in DOMAIN Lists, NEW messages \in Replies(status)
  PROVE  Sought(status, messages) =
           IF \A i \in DOMAIN messages : messages[i].ok THEN Served(status.list) ELSE None
<1> DEFINE l == status.list
           n == Cardinality(DOMAIN Lists)
<1>1. n \in Nat
  BY MadeAssumption, FS_CardinalityType
<1>2. CASE ~status.did
  <2>1. PICK ok \in BOOLEAN : messages = <<Message(ok, l)>>
    BY <1>2 DEF Replies
  <2>2. DOMAIN messages = {1} /\ messages[1].ok = ok /\ messages[1].data = Served(l)
    BY <2>1 DEF Message
  <2> QED BY <1>2, <2>2 DEF Sought
<1>3. CASE status.did
  <2>1. PICK order \in [1..n -> DOMAIN Lists], ok \in BOOLEAN :
          /\ \A k \in DOMAIN Lists : \E i \in DOMAIN order : order[i] = k
          /\ messages = [i \in DOMAIN order |-> Message(ok \/ i # 1, order[i])]
    BY <1>3 DEF Replies
  <2> HIDE DEF n
  <2>2. /\ DOMAIN messages = 1..n
        /\ \A i \in 1..n : messages[i].id = order[i] /\ messages[i].data = Served(order[i])
    BY <2>1 DEF Message
  <2> DEFINE found == {i \in DOMAIN messages : messages[i].id = l}
             first == CHOOSE i \in found : \A j \in found : i <= j
  <2>3. found # {} /\ found \subseteq Nat
    BY <1>1, <2>1, <2>2
  <2>4. first \in found
    <3> HIDE DEF found
    <3>1. \E i \in found : \A j \in found : i <= j
      BY <2>3, LeastNumber
    <3> QED BY <3>1
  <2>5. messages[first].data = Served(l)
    BY <2>2, <2>4
  <2>6. GetMessageData(messages, l) =
          IF \A i \in DOMAIN messages : messages[i].ok THEN messages[first].data ELSE None
    BY <2>3 DEF GetMessageData
  <2> QED BY <1>3, <2>5, <2>6 DEF Sought
<1> QED BY <1>2, <1>3

(* The bits of a list: every index in it has its own, and no other has one. *)
LEMMA BitsOfList ==
  ASSUME NEW indices, NEW idx \in Int
  PROVE  LET bits == Pack(indices, ListBytes) IN
         /\ InBitString(bits, idx) <=> idx \in 0..(ListBytes * ByteSize - 1)
         /\ InBitString(bits, idx) => (BitAt(bits, idx) <=> idx \in indices)
<1> DEFINE b == idx \div ByteSize
           k == idx % ByteSize
<1>1. ListBytes \in Nat /\ ByteSize \in Nat /\ ByteSize >= 1
  BY RelyingAssumption, StatusAssumption
<1>2. b \in Int /\ k \in 0..(ByteSize - 1) /\ idx = ByteSize * b + k
  BY <1>1, Z3
<1> HIDE DEF b, k
<1>3. InBitString(Pack(indices, ListBytes), idx) <=> idx >= 0 /\ b \in 0..(ListBytes - 1)
  BY DEF InBitString, Pack, b
<1>4. idx >= 0 /\ b \in 0..(ListBytes - 1) <=> idx \in 0..(ListBytes * ByteSize - 1)
  <2>1. ASSUME b >= ListBytes PROVE idx >= ListBytes * ByteSize
    <3>1. (b - ListBytes) * ByteSize >= 0
      BY <1>1, <1>2, <2>1, Z3
    <3> QED BY <1>1, <1>2, <3>1, Z3
  <2>2. ASSUME b <= ListBytes - 1 PROVE idx <= ListBytes * ByteSize - 1
    <3>1. (ListBytes - 1 - b) * ByteSize >= 0
      BY <1>1, <1>2, <2>2, Z3
    <3> QED BY <1>1, <1>2, <3>1, Z3
  <2>3. ASSUME idx >= 0 PROVE b >= 0
    <3>1. ASSUME b <= -1 PROVE FALSE
      <4>1. (-1 - b) * ByteSize >= 0
        BY <1>1, <1>2, <3>1, Z3
      <4> QED BY <1>1, <1>2, <2>3, <4>1, Z3
    <3> QED BY <1>2, <3>1
  <2>4. ListBytes * ByteSize \in Int
    BY <1>1
  <2> HIDE DEF b
  <2> QED BY <1>1, <1>2, <2>1, <2>2, <2>3, <2>4
<1>5. ASSUME b \in 0..(ListBytes - 1)
      PROVE  BitAt(Pack(indices, ListBytes), idx) <=> idx \in indices
  <2>1. Pack(indices, ListBytes)[b] = {m \in 0..(ByteSize - 1) : b * ByteSize + m \in indices}
    BY <1>5 DEF Pack
  <2>2. b * ByteSize + k = idx
    BY <1>1, <1>2
  <2> QED BY <1>2, <2>1, <2>2 DEF BitAt, b, k
<1> QED BY <1>3, <1>4, <1>5

LEMMA StatusIsJudged ==
  ASSUME Apart, VerifyStatus
  PROVE  StatusIsOwn'
<1> DEFINE Answers(status, messages) ==
        last' = [op |-> "VerifyStatus", status |-> status, messages |-> messages,
                 result |-> StatusOf(vc.contents.issuer, status, messages)]
<1>0. PICK status \in Statuses : \E messages \in Replies(status) : Answers(status, messages)
  BY DEF VerifyStatus
<1>1. PICK messages \in Replies(status) : Answers(status, messages)
  BY <1>0
<1>2. vc' = vc /\ revoked' = revoked
  BY DEF VerifyStatus
<1> DEFINE issuer == vc.contents.issuer
           l == status.list
           idx == status.index
           result == StatusOf(issuer, status, messages)
           own == ValidStatus(status) /\ Lists[l].contents.issuer = issuer
           sent == \A i \in DOMAIN messages : messages[i].ok
           inside == idx \in 0..(ListBytes * ByteSize - 1)
<1>3. /\ result = "failed" <=> ~(own /\ sent /\ inside)
      /\ result = "revoked" => <<l, idx>> \in revoked
      /\ result = "valid" => <<l, idx>> \notin revoked
  <2>1. CASE ~ValidStatus(status)
    BY <2>1 DEF StatusOf
  <2>2. CASE ValidStatus(status)
    <3> DEFINE set == {i \in {r[2] : r \in revoked} : <<l, i>> \in revoked}
               bits == Pack(set, ListBytes)
               list == Resolve(status, messages)
               got == Sought(status, messages)
               read == ParseCredential(got.vc, [checkProof |-> FALSE, validate |-> FALSE])
    <3>1. /\ l \in DOMAIN Lists /\ idx \in Int
          /\ Made(Lists[l]) /\ None \notin {Lists[l].contents.issuer, Lists[l].contents.subject}
      BY <2>2, MadeAssumption
    <3>2. got = IF sent THEN Served(l) ELSE None
      BY <3>1, ListIsFound
    <3>3. Served(l) = [vc |-> ToUniversalForm(Lists[l]), bits |-> bits] /\ Served(l) # None
      BY RecordsAreApart DEF Served
    <3>4. list = IF got = None \/ read = Refused THEN Refused
                 ELSE [issuer |-> read.contents.issuer, subject |-> read.contents.subject,
                       bits |-> got.bits]
      BY DEF Resolve, Sought
    <3>5. idx \in set <=> <<l, idx>> \in revoked
      <4>1. ASSUME <<l, idx>> \in revoked PROVE idx \in {r[2] : r \in revoked}
        <5>1. <<l, idx>>[2] = idx
          OBVIOUS
        <5> QED BY <4>1, <5>1
      <4> QED BY <4>1
    <3> HIDE DEF set
    <3>6. CASE ~sent
      <4>1. list = Refused
        BY <3>2, <3>4, <3>6
      <4> QED BY <2>2, <3>6, <4>1 DEF StatusOf
    <3>7. CASE sent
      <4>1. got.vc = ToUniversalForm(Lists[l]) /\ got.bits = bits /\ got # None
        BY <3>2, <3>3, <3>7
      <4> HIDE DEF got, bits
      <4>2. /\ read # Refused
            /\ read.contents.issuer = Lists[l].contents.issuer
            /\ read.contents.subject = Lists[l].contents.subject
        BY <3>1, <4>1, ListIsRead
      <4> HIDE DEF read
      <4>3. list # Refused /\ list.issuer = Lists[l].contents.issuer
            /\ list.subject = Lists[l].contents.subject /\ list.bits = bits
        BY <3>4, <4>1, <4>2, RecordsAreApart
      <4>4. /\ InBitString(bits, idx) <=> inside
            /\ InBitString(bits, idx) => (BitAt(bits, idx) <=> <<l, idx>> \in revoked)
        BY <3>1, <3>5, BitsOfList DEF bits
      <4> HIDE DEF list, inside
      <4>5. result = IF issuer = None \/ Lists[l].contents.issuer # issuer \/ ~inside THEN "failed"
                     ELSE IF <<l, idx>> \in revoked THEN "revoked" ELSE "valid"
        BY <2>2, <3>1, <4>3, <4>4 DEF StatusOf, list
      <4> QED BY <2>2, <3>1, <3>7, <4>5
    <3> QED BY <3>6, <3>7
  <2> QED BY <2>1, <2>2
<1>4. last'.status = status /\ last'.messages = messages /\ last'.result = result
  BY <1>1
<1> HIDE DEF result
<1> QED BY <1>2, <1>3, <1>4 DEF StatusIsOwn

(* StatusIsOwn: VerifyStatus reads the bit of the credential's own status  *)
(* in its issuer's own list, and otherwise fails.                          *)
THEOREM AlwaysStatusIsOwn ==
  ASSUME Apart
  PROVE  Spec => []StatusIsOwn
<1>1. Init => StatusIsOwn
  BY DEF Init, StatusIsOwn
<1>2. StatusIsOwn /\ [Next]_vars => StatusIsOwn'
  <2> SUFFICES ASSUME StatusIsOwn, [Next]_vars PROVE StatusIsOwn'
    OBVIOUS
  <2>1. CASE last' = None
    BY <2>1 DEF StatusIsOwn
  <2>2. CASE VerifyStatus
    BY <2>2, StatusIsJudged
  <2>3. CASE VerifyCredential \/ VerifyPresentation \/ VerifyConfiguration
    <3>1. last'.op # "VerifyStatus"
      BY <2>3 DEF VerifyCredential, VerifyPresentation, VerifyConfiguration
    <3> QED BY <3>1 DEF StatusIsOwn
  <2>4. CASE UNCHANGED vars
    BY <2>4 DEF vars, StatusIsOwn
  <2> QED BY <2>1, <2>2, <2>3, <2>4, OnlyAnswers
<1> QED BY <1>1, <1>2, PTL DEF Spec
=====

---------------------------- MODULE RelyingParty ----------------------------
(***************************************************************************)
(* An issuer, a holder and a relying party that use the library together.  *)
(* The issuer makes and changes one credential, the holder one             *)
(* presentation of it, and at any moment the relying party checks the      *)
(* credential, its status, the presentation, or the DID configuration of a *)
(* domain that serves the credential.  Meanwhile keys are rotated, time    *)
(* passes, credentials are revoked and the schema the credential names is  *)
(* published anew.                                                         *)
(***************************************************************************)
EXTENDS Presentation, DidConfiguration, SchemaCache, StatusList, FiniteSets

CONSTANTS
  Contents,      \* the contents the issuer may start from
  Other,         \* another credential, for presentations and configurations
  IDs, Seconds,  \* the values the issuer may set
  Holder,        \* the DID of the holder
  Signings,      \* the pairs of a method whose key signs and the kid named
  Origin,        \* the domain whose configuration is read
  Options,       \* the options the relying party uses
  Lists,         \* the status list credentials, by name
  ListBytes,     \* the length of a status list
  Revocable,     \* pairs of a list and an index in it
  Statuses,      \* the entries the credential may have as its status
  MaxSteps,      \* steps of all but the relying party
  MaxVersion,    \* versions of a key, and of the schema
  MaxTime        \* seconds that pass

ASSUME RelyingAssumption ==
  /\ MaxSteps \in Nat /\ MaxVersion \in Nat \ {0} /\ MaxTime \in Nat
  /\ Holder \in DIDs /\ NoSchema = None
  /\ ListBytes \in Nat
  /\ Signings \subseteq [key : Methods, kid : Methods \union {None}]
  /\ Origin # None /\ None \notin Seconds

-----------------------------------------------------------------------------
(* What the functions that make credentials make: the three parts of a     *)
(* credential agree, whatever was called in whatever order.  Each date is  *)
(* in its own field, and one that is set stays set.                        *)
HasFields(c) ==
  /\ c = [v2 |-> c.v2, id |-> c.id, issuer |-> c.issuer, subject |-> c.subject,
          origin |-> c.origin, issued |-> c.issued, schema |-> c.schema]
  /\ {c.v2, c.schema} \subseteq BOOLEAN

DatesAgree(json, issued) ==
  /\ json.v2 /\ json.issuanceDate = None => json.validFrom = issued
  /\ ~json.v2 /\ json.validFrom = None => json.issuanceDate = issued
  /\ issued = None <=> json.issuanceDate = None /\ json.validFrom = None

Fits(sig) == sig.alg = Suite[sig.by.method]

(* A linked data proof is over the document as it still is.                *)
ProofsFit(json) ==
  /\ json.proofs \in Seq({json.proofs[i] : i \in DOMAIN json.proofs})
  /\ \A i \in DOMAIN json.proofs :
       /\ Fits(json.proofs[i])
       /\ json.proofs[i].type # "DI" =>
            json.proofs[i].type = "LD" /\ json.proofs[i].over = [json EXCEPT !.proofs = <<>>]

EnvelopeFits(cred) ==
  LET env == cred.env IN
  /\ env.type \in {"jws", "cose", "unsecured"}
  /\ env.type # "unsecured" => Fits(env)
  /\ IF env.type = "cose" THEN env.over = CWTClaims(cred)
     ELSE \E minimize \in BOOLEAN : env.over = JWTClaims(cred, minimize)

Made(cred) ==
  /\ cred = [json |-> cred.json, contents |-> cred.contents, env |-> cred.env]
  /\ HasFields(cred.contents)
  /\ LET c == cred.contents IN
     cred.json = [v2 |-> c.v2, id |-> c.id, issuer |-> c.issuer, subject |-> c.subject,
                  origin |-> c.origin, issuanceDate |-> cred.json.issuanceDate,
                  validFrom |-> cred.json.validFrom, schema |-> c.schema,
                  proofs |-> cred.json.proofs]
  /\ DatesAgree(cred.json, cred.contents.issued)
  /\ ProofsFit(cred.json)
  /\ cred.env # None => EnvelopeFits(cred)

(* The issuer may start from any contents; the credentials of others were  *)
(* made in the same way, and a list has an issuer and a subject.           *)
ASSUME MadeAssumption ==
  /\ \A c \in Contents : HasFields(c)
  /\ Made(Other)
  /\ IsFiniteSet(DOMAIN Lists)
  /\ \A l \in DOMAIN Lists :
       Made(Lists[l]) /\ None \notin {Lists[l].contents.issuer, Lists[l].contents.subject}
  /\ \A s \in Statuses : ValidStatus(s) => s.list \in DOMAIN Lists /\ s.index \in Int

VARIABLES
  docs,        \* the DID documents
  vc, vp,      \* the credential, and the presentation once there is one
  steps,       \* how many steps all but the relying party made
  clock,       \* the time, in seconds
  published,   \* the version of the schema at its URL
  replacedAt,  \* when each earlier version was replaced
  cache,       \* what the relying party's cache holds
  revoked,     \* the members of Revocable that are revoked
  last         \* the relying party's last answer, while nothing else happened

vars == <<docs, vc, vp, steps, clock, published, replacedAt, cache, revoked, last>>

-----------------------------------------------------------------------------
(* Every method is listed in its controller's document, with version 1.    *)
Init ==
  /\ docs = [d \in DIDs |-> [m \in {k \in Methods : Controller[k] = d} |-> 1]]
  /\ vc \in {CreateCredential(c) : c \in Contents}
  /\ vp = None
  /\ steps = 0 /\ clock = 0
  /\ published = 1 /\ replacedAt = <<>>
  /\ cache = NoSchema
  /\ revoked = {}
  /\ last = None

CurrentKey(m) == [method |-> m, version |-> docs[Controller[m]][m]]

Step == steps < MaxSteps /\ steps' = steps + 1 /\ last' = None

(* A call of the issuer, which makes vc of what it was.                    *)
Issuing(made) ==
  /\ Step
  /\ vp = None /\ vc' = made
  /\ UNCHANGED <<docs, vp, clock, published, replacedAt, cache, revoked>>

ModifyID == \E id \in IDs : Issuing(WithModifiedID(vc, id))
ModifyIssuer == \E d \in DIDs : Issuing(WithModifiedIssuer(vc, d))
ModifyIssued == \E t \in Seconds : Issuing(WithModifiedIssued(vc, t))
ModifyValidFrom == \E t \in Seconds : Issuing(WithModifiedValidFrom(vc, t))

(* Whoever signs uses the current version of a key and names any kid.      *)
SignJWT ==
  \E s \in Signings, minimize \in BOOLEAN :
    /\ CanClaim(vc) /\ CanSign(CurrentKey(s.key), Suite[s.key])
    /\ Issuing(CreateSignedJWTVC(vc, CurrentKey(s.key), Suite[s.key], s.kid, minimize))
SignCOSE ==
  \E s \in Signings :
    /\ CanClaim(vc) /\ vc.contents.issued # None /\ CanSign(CurrentKey(s.key), Suite[s.key])
    /\ Issuing(CreateSignedCOSEVC(vc, CurrentKey(s.key), Suite[s.key], s.kid))
MakeUnsecured ==
  \E minimize \in BOOLEAN : CanClaim(vc) /\ Issuing(CreateUnsecuredJWTVC(vc, minimize))
SignLinkedData ==
  \E s \in Signings :
    /\ vc.env = None /\ CanSign(CurrentKey(s.key), Suite[s.key])
    /\ Issuing(AddLinkedDataProof(vc, CurrentKey(s.key), Suite[s.key], s.kid))
(* The Data Integrity signer resolves the method before it signs.          *)
SignDataIntegrity ==
  \E m \in Methods \ AgreementOnly :
    vc.env = None /\ Issuing(AddDataIntegrityProof(vc, CurrentKey(m)))

(* A call of the holder, which makes vp of what it was.                    *)
Presenting(made) ==
  /\ Step
  /\ vp' = made
  /\ UNCHANGED <<docs, vc, clock, published, replacedAt, cache, revoked>>

CreatePresentation ==
  \E v2 \in BOOLEAN, creds \in {<<>>, <<vc>>, <<Other, vc>>} :
    vp = None /\ Presenting(NewPresentation(v2, None, Holder, creds))
SignPresentation ==
  \E s \in Signings, minimize \in BOOLEAN :
    /\ vp # None /\ CanSign(CurrentKey(s.key), Suite[s.key])
    /\ \/ Presenting(CreateJWTVP(vp, CurrentKey(s.key), Suite[s.key], s.kid, minimize))
       \/ Presenting(CreateCWTVP(vp, CurrentKey(s.key), Suite[s.key], s.kid, minimize))
       \/ ~minimize /\ Presenting(AddPresentationProof(vp, CurrentKey(s.key), Suite[s.key], s.kid))

-----------------------------------------------------------------------------
(* The relying party.                                                      *)

(* Only a credential that is validated needs the schema it names.          *)
NeedsSchema(w, opts) ==
  /\ opts.validate /\ opts.customSchema
  /\ IF w.form = "object" THEN w.json.schema
     ELSE w.env.type # "jws" /\ w.env.over.vc.schema

(* The options of one call, with the schema its loader would find.         *)
Given(opts, schema) ==
  [docs |-> docs, checkProof |-> opts.checkProof, checker |-> opts.checker,
   dataIntegrity |-> opts.dataIntegrity, validate |-> opts.validate,
   customSchema |-> opts.customSchema, schema |-> schema,
   requireProof |-> opts.requireProof, requireVC |-> opts.requireVC]

(* The schema is there for the answer of the cache or the endpoint.        *)
VerifyCredential ==
  \E opts \in Options, downloaded \in {published, NoSchema} :
    LET w == ToUniversalForm(vc)
        got == GetJSONSchema(cache, clock, downloaded)
    IN  /\ last = None
        /\ downloaded = NoSchema => NeedsSchema(w, opts)
        /\ cache' = IF NeedsSchema(w, opts) THEN got.cache ELSE cache
        /\ last' = [op |-> "VerifyCredential", w |-> w, opts |-> opts, schema |-> got.schema,
                    result |-> ParseCredential(w, Given(opts, got.schema))]
        /\ UNCHANGED <<docs, vc, vp, steps, clock, published, replacedAt, revoked>>

(* Without a cache, as the credentials in a presentation load theirs.      *)
VerifyPresentation ==
  \E opts \in Options, cbor \in BOOLEAN, downloaded \in {published, NoSchema} :
    LET w == IF cbor THEN MarshalPresentationCBOR(vp) ELSE MarshalPresentation(vp)
    IN  /\ last = None /\ vp # None
        /\ cbor => vp.env # None /\ vp.env.type = "cose"
        /\ last' = [op |-> "VerifyPresentation", w |-> w, opts |-> opts, schema |-> downloaded,
                    result |-> ParsePresentation(w, Given(opts, downloaded))]
        /\ UNCHANGED <<docs, vc, vp, steps, clock, published, replacedAt, cache, revoked>>

(* The domain's configuration lists the credential, another one and what   *)
(* is no credential, in some order.                                        *)
Configurations ==
  {<<vc>>, <<Other, vc>>, <<vc, Other>>, <<vc, OddEntry>>}
Linked(config) ==
  [i \in DOMAIN config |-> IF config[i] = OddEntry THEN OddEntry ELSE ToUniversalForm(config[i])]
VerifyConfiguration ==
  \E config \in Configurations, did \in DIDs :
    /\ last = None /\ vp = None
    /\ last' = [op |-> "VerifyConfiguration", config |-> config, did |-> did,
                result |-> VerifyDIDAndDomain(docs, Linked(config), did, Origin)]
    /\ UNCHANGED <<docs, vc, vp, steps, clock, published, replacedAt, cache, revoked>>

(* What is served of a list now.                                           *)
Served(list) ==
  [vc |-> ToUniversalForm(Lists[list]),
   bits |-> Pack({idx \in {r[2] : r \in revoked} : <<list, idx>> \in revoked}, ListBytes)]

(* A server sends the list; a hub sends every list, in some order, and     *)
(* perhaps one that it could not read.                                     *)
Message(ok, list) == [ok |-> ok, id |-> list, data |-> Served(list)]
Replies(status) ==
  IF status.did
  THEN {[i \in DOMAIN order |-> Message(ok \/ i # 1, order[i])] :
          order \in {o \in [1..Cardinality(DOMAIN Lists) -> DOMAIN Lists] :
                       \A l \in DOMAIN Lists : \E i \in DOMAIN o : o[i] = l},
          ok \in BOOLEAN}
  ELSE {<<Message(ok, status.list)>> : ok \in BOOLEAN}

(* The status is the one that WithModifiedStatus gave the credential, as   *)
(* no other call changes it.                                               *)
VerifyStatus ==
  \E status \in Statuses :
    /\ last = None /\ vp = None
    /\ \E messages \in Replies(status) :
         last' = [op |-> "VerifyStatus", status |-> status, messages |-> messages,
                  result |-> StatusOf(vc.contents.issuer, status, messages)]
    /\ UNCHANGED <<docs, vc, vp, steps, clock, published, replacedAt, cache, revoked>>

-----------------------------------------------------------------------------
(* The world around them.                                                  *)

(* The issuer of a list sets a bit and serves it.                          *)
Revoke ==
  /\ Step
  /\ \E r \in Revocable \ revoked : revoked' = revoked \union {r}
  /\ UNCHANGED <<docs, vc, vp, clock, published, replacedAt, cache>>

Rotate(m) ==
  /\ Step
  /\ docs[Controller[m]][m] < MaxVersion
  /\ docs' = [docs EXCEPT ![Controller[m]][m] = @ + 1]
  /\ UNCHANGED <<vc, vp, clock, published, replacedAt, cache, revoked>>

Tick ==
  /\ Step
  /\ clock' \in (clock + 1)..MaxTime
  /\ UNCHANGED <<docs, vc, vp, published, replacedAt, cache, revoked>>

Publish ==
  /\ Step
  /\ published < MaxVersion
  /\ published' = published + 1
  /\ replacedAt' = Append(replacedAt, clock)
  /\ UNCHANGED <<docs, vc, vp, clock, cache, revoked>>

Next ==
  \/ ModifyID \/ ModifyIssuer \/ ModifyIssued \/ ModifyValidFrom
  \/ SignJWT \/ SignCOSE \/ MakeUnsecured \/ SignLinkedData \/ SignDataIntegrity
  \/ CreatePresentation \/ SignPresentation
  \/ VerifyCredential \/ VerifyPresentation \/ VerifyConfiguration \/ VerifyStatus
  \/ \E m \in Methods : Rotate(m)
  \/ Tick \/ Publish \/ Revoke

Spec == Init /\ [][Next]_vars

-----------------------------------------------------------------------------
(* A signature says something of a DID if it was made with the key that    *)
(* the DID's document has now, for signing, under the kid.                 *)
Attested(sig, did) ==
  /\ did \in DIDs
  /\ sig.kid \in DOMAIN docs[did] \ AgreementOnly
  /\ sig.by = [method |-> sig.kid, version |-> docs[did][sig.kid]]

(* So do the proofs in a JSON document: each over the document without     *)
(* them, by the DID, or for a Data Integrity proof by that of its method.  *)
ProofsAttest(json, did) ==
  \A i \in DOMAIN json.proofs :
    LET p == json.proofs[i] IN
    /\ p.over = [json EXCEPT !.proofs = <<>>]
    /\ IF p.type = "DI" \/ did = None
       THEN p.kid # None /\ Attested(p, Controller[p.kid]) ELSE Attested(p, did)

Vouched(cred) ==
  IF cred.env # None THEN Attested(cred.env, cred.contents.issuer)
  ELSE ProofsAttest(cred.json, cred.contents.issuer)

Accepted(op) == last # None /\ last.op = op /\ last.opts.checkProof /\ last.result # Refused

(* checkProof, of every way into ParseCredential and ParsePresentation:    *)
(* what is accepted with its proofs checked was signed with keys that are  *)
(* now in the documents of those it speaks for, wherever the signature     *)
(* is.  Only documents without any proof, and the CWT around a             *)
(* presentation, are taken without; what came in an envelope is never      *)
(* taken for such a document.                                              *)
AcceptedIsProved ==
  /\ Accepted("VerifyCredential") => Vouched(last.result)
  /\ Accepted("VerifyPresentation") =>
       /\ \A i \in DOMAIN last.result.creds :
            last.result.creds[i].env # None => Vouched(last.result.creds[i])
       /\ last.w.form = "object" => ProofsAttest(last.w.json, None)
       /\ last.w.form # "object" => last.result.env = last.w.env
       /\ last.result.env # None /\ last.result.env.type = "jws" =>
            Attested(last.result.env, Controller[last.result.env.kid])

(* What a credential needs to be read back as it was made: its fields, the *)
(* date where its data model has it, and proofs of one kind.               *)
OnlyLD(proofs) == \A i \in DOMAIN proofs : proofs[i].type = "LD"
RightlyMade(cred) ==
  /\ cred.contents.issuer # None /\ cred.contents.subject # None
  /\ IF cred.json.v2 THEN cred.json.issuanceDate = None
     ELSE cred.json.issuanceDate # None /\ cred.json.validFrom = None
  /\ Vouched([cred EXCEPT !.env = IF @ # None /\ @.type = "unsecured" THEN None ELSE @])
  /\ Len(cred.json.proofs) = 1 \/ OnlyLD(cred.json.proofs)

(* The schema it names, if it has to be loaded, can be and is satisfied.   *)
Satisfied(cred, schema) ==
  cred.json.schema => schema # NoSchema /\ (schema \in NeedsID => cred.json.id # None)

(* What a presentation needs.  A minimised CWT says nothing of its holder. *)
RightlyPresented(w) ==
  /\ \A i \in DOMAIN vp.creds :
       /\ RightlyMade(vp.creds[i]) /\ Satisfied(vp.creds[i], last.schema)
       /\ vp.creds[i].env # None => OnlyLD(vp.creds[i].json.proofs)
  /\ last.opts.requireVC => vp.creds # <<>>
  /\ w.form = "object" =>
       ProofsAttest(w.json, None) /\ (last.opts.requireProof => w.json.proofs # <<>>)
  /\ w.form # "object" /\ w.env.type = "jws" =>
       w.env.kid # None /\ Attested(w.env, Controller[w.env.kid])
  /\ w.form # "object" /\ w.env.type = "cose" => w.env.over.vp.holder = vp.holder

(* CreateCredential, the With... functions, the signing functions and      *)
(* ParseCredential, of every form, and the same of presentations: what was *)
(* rightly made, and signed with keys still in place, is accepted, and     *)
(* read back with the same contents.                                       *)
ReadBackAsMade ==
  /\ /\ last # None /\ last.op = "VerifyCredential"
     /\ last.opts.checker /\ last.opts.dataIntegrity
     /\ RightlyMade(vc)
     /\ NeedsSchema(last.w, last.opts) => Satisfied(vc, last.schema)
     => last.result # Refused /\ last.result.contents = vc.contents
  /\ /\ last # None /\ last.op = "VerifyPresentation"
     /\ last.opts.checker /\ RightlyPresented(last.w)
     => /\ last.result # Refused
        /\ last.result.holder = vp.holder /\ DOMAIN last.result.creds = DOMAIN vp.creds
        /\ \A i \in DOMAIN vp.creds : last.result.creds[i].contents = vp.creds[i].contents

(* ExpirableSchemaCache: a schema is used for at most Expiration seconds   *)
(* after another has taken its place.                                      *)
SchemaWasRecent ==
  /\ last # None /\ last.op = "VerifyCredential" /\ last.result # Refused
  /\ NeedsSchema(last.w, last.opts)
  => /\ last.schema # NoSchema
     /\ last.schema = published \/ clock <= replacedAt[last.schema] + Expiration

(* VerifyDIDAndDomain: a configuration links the domain to the DID exactly *)
(* if it has no odd entry and some credential in it says so and is proved, *)
(* whatever is listed before or after.                                     *)
Links(cred, did) ==
  /\ cred.contents.issuer = did /\ cred.contents.subject = did
  /\ cred.contents.origin = Origin /\ cred.contents.id = None /\ cred.contents.issued # None
LinkedIffOneGood ==
  last # None /\ last.op = "VerifyConfiguration" =>
    LET entries == {last.config[i] : i \in DOMAIN last.config}
        links == {c \in entries \ {OddEntry} : Links(c, last.did)}
    IN  /\ last.result => OddEntry \notin entries /\ \E c \in links :
             Vouched([c EXCEPT !.env = IF @ # None /\ @.type = "unsecured" THEN None ELSE @])
        /\ (\E c \in links : RightlyMade(c) /\ OnlyLD(c.json.proofs)) /\ OddEntry \notin entries
           => last.result

(* VerifyStatus: a credential is found revoked, or not, exactly by the bit *)
(* at its index in the list that its status names, whatever else a hub     *)
(* sends with it, and only if the issuer of the list is its own.           *)
StatusIsOwn ==
  last # None /\ last.op = "VerifyStatus" =>
    LET status == last.status
        own == ValidStatus(status) /\ Lists[status.list].contents.issuer = vc.contents.issuer
        sent == \A i \in DOMAIN last.messages : last.messages[i].ok
    IN  /\ last.result = "failed" <=> ~(own /\ sent /\ status.index \in 0..(ListBytes * ByteSize - 1))
        /\ last.result = "revoked" => <<status.list, status.index>> \in revoked
        /\ last.result = "valid" => <<status.list, status.index>> \notin revoked

(* The cache holds a version that was published, until a moment that will  *)
(* come; the documents list the current keys of their own methods.         *)
TypeOK ==
  /\ steps \in 0..MaxSteps /\ clock \in 0..MaxTime /\ published \in 1..MaxVersion
  /\ replacedAt \in Seq(0..clock) /\ Len(replacedAt) = published - 1
  /\ cache # NoSchema => cache.version \in 1..published /\ cache.expires \in 0..(clock + Expiration)
  /\ revoked \subseteq Revocable
  /\ DOMAIN docs = DIDs
  /\ \A d \in DIDs : docs[d] \in [{m \in Methods : Controller[m] = d} -> 1..MaxVersion]
  /\ last # None => last.op \in {"VerifyCredential", "VerifyPresentation", "VerifyConfiguration", "VerifyStatus"}
=============================================================================

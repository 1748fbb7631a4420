# A TLA+ verification of vc-go

vc-go is a Go library for verifiable credentials: it creates, signs, parses and
verifies credentials and presentations (JSON-LD, JWT, SD-JWT, CWT), and carries
out a presentation exchange between a holder's wallet and a verifier. This
directory holds TLA+ modules of the parts with state, search or concurrency,
the TLC configurations that check them, and TLAPS proofs.

`PROJECT.json` lists the components, the runs, the line of source each
definition models, the places the code and its comments disagree, the hazards
and the theorems.

## 1. Inventory

| component (src/) | state it keeps | operations | hard parts | what makes it correct |
|---|---|---|---|---|
| `presexch/internal/requirementlogic` | descriptors in play, a big-integer bitset | `IsSatisfiedBy`, `NewBitsetIterator`, `Next(exclude)` | the jump over candidates with excluded descriptors; bits are renumbered in mid-enumeration | each remaining solution exactly once, earlier descriptors first, then nil |
| `presexch/definition.go` (holder) | per call: verdicts per descriptor; across calls: the caller's credentials, which are shared objects | `CreateVP`, `CreateVPArray`, `MatchSubmissionRequirement` | nested loops with memory; SD-JWTs changed in place; credentials told apart by an optional id | a presentation exactly when the wallet can satisfy the rules; each mapping points to a credential that answers; no more is shown than asked |
| `presexch/api.go` (verifier) | results so far, raw presentations so far | `Match` | merged or own submissions, paths across presentations, a swallowed error | success only when everything was checked and every descriptor matched |
| `legacy/mem` | registry of stores; per store a map; an RWMutex each | `OpenStore`, `SetStoreConfig`, `GetStoreConfig`, `GetOpenStores`, `Close`; `Put`, `Get`, `GetTags`, `GetBulk`, `Query`, `Delete`, `Batch` | goroutines; a read without the lock; a query of several scans; handles that outlive their registration | calls are atomic and return; one store per name |
| `dataintegrity` | none of its own, but it writes into the caller's `ProofOptions` | `Signer.AddProof`, `Verifier.VerifyProof` | reused options, replaced keys, time, documents that already have a proof | what was created verifies; what verifies was signed by the named method and is fresh |
| `sdjwt` (issuer, holder, verifier) | the disclosure tree of a token; a global random source | issue (v2, v5), parse, select, bind, verify | recursive disclosures, decoys, parents missing from a selection | the verifier sees exactly the selected claims, each at its place, in the session they were bound to |
| `verifiable` credentials, presentations | three representations of one credential (typed fields, JSON, envelope); proofs | create, modify, sign, marshal, parse, check proofs | the representations kept in step; five parsers tried in order; which issuer each proof is compared with; several proofs | what is accepted with its proofs checked was attested; what was rightly made is read back |
| `verifiable` schema cache | schema by URL with an expiry | `Put`, `Get`, load on a miss | expiry against republication, failing downloads | a schema is used at most the expiry time after it was replaced |
| `status` | none | `VerifyStatus` | index arithmetic on a list from elsewhere; replies of a hub in any order | the bit read is the credential's own |
| `didconfig` | none | `VerifyDIDAndDomain` | two passes over the linked DIDs | success only with a verified linkage credential for the DID and domain |
| `proof`, `jwt`, `cwt`, `vermethod` | none | find the method a signature names, compare its DID with the issuer, dispatch | key agreement methods, kids without a DID, tokens without an issuer | a signature only passes for the DID it is compared with |
| `crypto-ext`, `util` | none | cryptography, encoding | | left out |

The holder side (`CreateVP`) calls the solution iterator and produces the
submission that the verifier side (`Match`) reads. Both parse credentials
through `verifiable`, which calls `dataintegrity`, `sdjwt` and the checkers of
`proof`. `status` and `didconfig` parse the credentials they fetch through
`verifiable` too, with options of their own. `legacy/mem` is used by the callers
of the library as storage.

## 2. Modules

| module | models | composed with |
|---|---|---|
| `RequirementLogic` | operators: `toRequirement`, `makeRequirement`, `toLogic`, `IsSatisfiedBy`; and `Fulfils`, the meaning of the submission requirements read off their rules | |
| `SolutionPool` | the promise of the `SolutionIterator` interface: a pool of solutions from which each call takes one | abstract specification |
| `SolutionIterator`, `SolutionIterator_proof` | `BitsetSolutionIterator`; theorems | implements `SolutionPool` (refinement `pool <- Pending`) |
| `ApplyRequirement` | `CreateVP`: `applyRequirement`, the filters, `limitDisclosure`, `merge` | uses `SolutionPool` as its iterator |
| `ApplyRequirement_proof` | theorems about the search | |
| `MatchSubmission`, `MatchSubmission_proof` | `Match`: `getMatchedCreds`, `selectVC`, `evalSubmissionRequirements`; theorems | |
| `StoreCalls` | what a call of a store is and does to its contents | |
| `AtomicStore` | a store whose calls take effect at one moment | abstract specification |
| `MemStore` | `memStore` with its RWMutex, one step per lock operation and map access | implements `AtomicStore` |
| `MemProvider` | `Provider`: the registry of stores | |
| `MemStore_proof`, `MemProvider_proof` | theorems about the store and the registry | |
| `DataIntegrity`, `DataIntegrity_proof` | `AddProof`, `VerifyProof`, `resolveVM`, both suites; theorems | |
| `SdJwt`, `SdJwt_proof` | `issuer.New` with the builders of versions 2 and 5, `makeSDJWT`, `holder.Parse` and `CreatePresentation`, `MarshalWithDisclosure`, `verifier.Parse`; theorems | |
| `ProofCheck` | operators: which method a signature resolves to and whether it verifies (proof, jwt, cwt, vermethod, embedded proofs) | base of the next two |
| `Credential` | operators: creating, modifying, signing, marshalling and parsing a credential | extends `ProofCheck` |
| `Presentation` | the same of presentations | extends `Credential` |
| `SchemaCache` | `ExpirableSchemaCache` and the loader | |
| `StatusList` | `status.Client`: the list from a server or an identity hub, the bit | extends `Credential` |
| `DidConfiguration` | `VerifyDIDAndDomain` | extends `Credential` |
| `RelyingParty`, `RelyingParty_proof` | an issuer, a holder and a relying party that call the library while keys rotate, schemas change, credentials are revoked and time passes; theorems | composes the six above |

The `MC*` modules give the constants their values.

### How state and actions correspond to the code

*SolutionIterator.* `descs` and `state` are the fields of the iterator; a
big.Int is the set of the positions of its 1 bits, so adding, clearing and
shifting are set operations. `Advance(exclude)` is one call of `Next`. The
caller of the code only ever excludes descriptors of the last answer, and that
is what `Next` of the module offers.

*ApplyRequirement.* `pc = "next"` is the head of the outer loop
(definition.go:757), `"eval"` the inner loop (761-798), with one action for a
descriptor seen before (`Revisit`), one for a new one (`Evaluate`), one for an
error while filtering or limiting (`EvaluateFails`), and `Solved` for the code
after the loop together with `merge` and `presentation`. A claim is a model
value; a credential shows `open` claims to anybody and holds others as
disclosures, of which some are `deep`, that is inside another disclosed object,
and others array `elements`. An optional field is one that asks for nothing.
`disclosed` is the part of a credential that calls change: `limitDisclosure`
calls `SetSDJWTDisclosures` on the credential itself. Descriptors are numbers
in the order of the definition; `merge` sorts by id, and the model takes the
two orders for the same one. Schemas and `subject_is_issuer` are tests of data
that nothing changes and count as fields. The iterator is the abstract
`SolutionPool`, so what is shown holds for any order of solutions.

*MatchSubmission.* `OpenPresentation` is the head of the loop over the
presentations, `CheckMapping` one turn of the loop over the mappings,
`ContextFails` the turn in which `filterSchema` returns an error and
`getMatchedCreds` answers `nil, err` with the `err` of an earlier statement
(api.go:214), `EvalSubmissionRequirements` the check at the end. A mapping is
its descriptor id, the index of its root, if it has one, and the position of
the credential.

*MemStore.* A goroutine's `pc` goes through `entry`, `locking`, `writing` or
`reading`, `return`. `Lock` announces a writer, which keeps new readers out as
`sync.RWMutex` does, `Locked` is the lock granted. Every map access is a step
of its own. `Query` takes and releases the read lock once per term.

*MemProvider.* `Enter` takes the lock and looks the name up; `OpenStore`,
`SetStoreConfig`, `CloseStore` and `CloseProvider` have their effect and give
it back. `LookUp` and `GetStoreConfig` run without the lock as the code does;
what a data race may yield (a fatal error of the runtime, a torn value) is a
choice of the action.

*DataIntegrity.* A signature is the record of what was hashed and of the key.
`ResolveVM`, `WithDefaults` and `OptionsAfter` say what the calls write into
the caller's options; the options stay as they are for the next call unless the
caller prepares new ones.

*SdJwt.* `sdjwt` is the SD-JWT the holder received, `parsed` what `holder.Parse`
made of it, `presentation` the one presentation whose deliveries are followed;
`nonce`, `sessions`, `now` are the verifiers' sessions and the clock. The claims
are a tree of nodes; an SD-JWT says for each container which nodes it holds in
clear and which digests it lists, and the digest of a disclosure is the node it
discloses. `Verify(v)` is `verifier.Parse` and may happen at any time, any
number of times and for any verifier, which is what a network that delays,
repeats and misdirects does. Decoys are digests of no node; version 5 of the
issuer also puts them among the disclosures.

*RelyingParty.* `vc` and `vp` are the credential and the presentation in the
hands of their makers, the credential with the parts the Go value has:
`contents` (the typed fields), `json` (the object, with its own dates and
proofs) and `env` (the JWS, unsecured JWT or COSE message it is in). Each action
of the issuer and the holder is one call of the library that replaces the value;
each action of the relying party (`VerifyCredential`, `VerifyPresentation`,
`VerifyConfiguration`, `VerifyStatus`) is one whole call on a form the value
travels in: the JSON object, the string of its envelope, or an enveloping
object. Around them keys rotate (`docs`), time passes (`clock`), the schema is
published anew and revocations happen. `last` holds the arguments and the answer
of the relying party's last call while nothing else has happened, so that the
properties can compare the answer with the world it was given in. A signature
records what was signed, with which key and under which kid and algorithm; the
signer may use any key and name any kid.

## 3. Runs

| run | what it shows | bounds, and why they are enough |
|---|---|---|
| `SolutionIterator` | the bitset iterator implements `SolutionPool`; earlier descriptors first; ends | 5 descriptors; 178 logics: all required, one group with every small count, min and max, nested choices between overlapping groups. An exclusion concerns a top bit, bits below it and bits above it: five positions give every combination of these, twice in a row |
| `ApplyRequirement` | the properties of the search and of its result | 3 descriptors, 2 credentials, 2 calls, 70 definitions (every kind of rule, nested, an empty group, formats, limits, predicates, separate presentations) and 25 wallets. A second call is what it takes to meet credentials that an earlier one changed |
| `MemStore` | refinement of `AtomicStore`; a query misses nothing that satisfied it throughout; calls return | 2 goroutines, 4 calls, 2 keys, 2 entries, every kind of call, batches of up to three operations on the same and on different keys and with an empty key |
| `MemProvider` | a registered store is not replaced, a closed one does not come back, calls return | 2 goroutines, 5 calls, 2 spellings of a name: open, close, open again, with a stale handle beside it |
| `MatchSubmission` | every mapping checked, every descriptor matched, holder named | 2 descriptors; one or two presentations; submissions of their own with unknown ids, missing items and no mappings; merged ones with every sequence of up to three mappings |
| `DataIntegrity` | created proofs verify; verified ones are the named method's and fresh | 2 methods for different purposes, one document, a clock and key versions up to 3, a time limit of 1: a proof can grow too old, a key can change twice |
| `SdJwt` | a verifier learns exactly the selected claims; nothing unasked is shown; what was issued can be used; no claim takes another's place; bindings hold for their session only | a tree of 6 claims (two of the same name, a nested object, an array, an id), 60 combinations of issuer options and 5 SD-JWTs of other issuers with misplaced or repeated digests; every selection; 2 verifiers with different policies, 2 sessions, a clock to 2 with a leeway of 1. Two levels and two containers are what a misplaced disclosure needs, two sessions what a replay needs |
| `RelyingParty` | accepted means attested; what was rightly made is read back; schemas are recent; a domain is linked exactly by a good entry; the status bit is the credential's own | 3 steps of the others between calls of the relying party (change or sign, sign again or envelope, present or rotate), 4 contents, 6 pairs of key and kid (own, another's, none, a key agreement key), 5 option sets, 2 versions of keys and schema, a clock to 2 with an expiry of 1, two lists of two bytes of two bits (the length of a byte is a constant: the arithmetic is the same): 2.2 million states |
| `ApplyRequirementSharedSdJwt` | *violated*: `ErrNoCredentials` means that the credentials handed over do not satisfy | 2 descriptors, one SD-JWT |
| `MemStoreTornQuery` | *violated*: a query returns data that satisfies the expression | a query of two terms against one write |
| `MemProviderConfigRace` | *violated*: `GetStoreConfig` answers with a configuration or an error | one writer, one reader |
| `DataIntegrityResigned` | *violated*: a proof that `AddProof` made verifies | a document signed twice |

The violated runs show what the code does against a comment of the code; the
passing runs state the same properties with the condition under which they
hold: `NoCredentialsMeansUnsatisfiable` while no SD-JWT of the wallet has lost
a disclosure, `PresentedStillAnswers` where descriptors do not share an SD-JWT
and credentials have ids, `CallsAreAtomic` for everything but queries of
several terms, `HeldByThatPresentation` where mappings stay in their
presentation, `CreatedProofsAreValid` for documents without a proof.
`RightlyMade` and `RightlyPresented` of `RelyingParty` name what a credential
and a presentation need to be read back; each of their conjuncts is there
because the code does not read back what lacks it.

Deadlock is not checked in runs where the bounded callers stop calling
(`ApplyRequirement`, `MemStore`, `MemProvider`, `SdJwt`, `RelyingParty`) or the
program is one call that ends (`MatchSubmission`).

Each module keeps, next to a definition, the variants of it marked *Mutant*:
plausible mistakes in that code, each of which breaks one of the properties.

### Fairness

`SolutionIterator`: the caller keeps calling, which is what the loop at
definition.go:757 does. `ApplyRequirement`, `MatchSubmission`: a step of a
sequential call that can happen does; nobody has to make a call.
`MemStore`, `MemProvider`: weak fairness of each goroutine's own steps, as the Go
scheduler runs every runnable goroutine, and strong fairness of acquiring a
lock, as `sync.RWMutex` blocks new readers behind a waiting writer and wakes
the waiting readers when a writer leaves. `DataIntegrity`, `SdJwt` and
`RelyingParty` have no liveness property and no fairness: their calls are
sequential and return, and nobody has to make one.

## 4. Proofs

Every invariant, every property of steps and every refinement that a run checks
is stated by a theorem, for all values of the constants that satisfy the
assumptions of its module (TLC evaluates those on each run) and, where the
theorem says `ASSUME`, a named condition besides:

| condition | theorem | why it is there |
|---|---|---|
| `OneFormat` | `Completeness` | with several accepted formats the first that is present decides, and a credential of a later one is passed over |
| `IdsDiffer` | `AlwaysStillAnswers`, `AlwaysNothingBeyond` | `merge` knows credentials by their ids; without ids one stands for another |
| `AllTakesAll` | `AlwaysLogicMeansRules` | `min` and `max` beside rule "all" admit everything: `toRequirement` keeps them, and they could contradict the rule |
| `OwnUnrooted` | `AlwaysHeldByThatPresentation` | a path `$[0]` in a presentation's own submission leads into the first presentation |
| `Resign = FALSE` | `CreatedAreAlwaysValid` | `AddProof` on a document with a proof makes a set that does not verify |
| `Apart` | the three of `RelyingParty_proof` that read back | what stands for nothing or for an error is no record |

`SolutionIterator_proof` proves, for any number of descriptors and any logics:

- `IteratorTypeCorrect`: `TypeOK`;
- `EarlierFirst`: no solution left is made of descriptors before the last one of
  the answer only (`EarlierDescriptorsFirst`);
- `AllSolutionsEnumerated`: the bitset iterator implements `SolutionPool`
  (`EnumeratesAllSolutions`), whatever the caller excludes.

Bitsets over the descriptors in play are ordered as the numbers they stand for
(`Below`, a strict total order in which each set of bitsets has a least one).
Adding a bit carries to the first clear bit above it (`AddBitCarries`); so
nothing but candidates that hold the excluded descriptor lies between the
counter and where the jump takes it (`JumpIsNext`). Taking descriptors out of play
renumbers the bits and keeps the order of the candidates without them
(`KeepShifts`, `SameOrder`). So the pending solutions, those above the counter,
are what the pool still holds (`PendingIs`), and a call takes the least of those
without an excluded descriptor (`SearchStart`, `NextAnswer`, `PoolSteps`). `Inv`
ties the answer to the counter. The loops of the code are recursive functions in
the model; their values come from an induction over sets of numbers
(`LeastNumber`, `UpTo`), which the other modules use as well.

`ApplyRequirement_proof` proves for every number of descriptors, every set of
credentials, definitions and wallets, and any number of calls:

- `TypeCorrect`: `TypeOK`;
- `Soundness`: a presentation is only made for a set of descriptors that
  satisfies the logic, with a credential for each (`SolvedIsSolution`);
- `NoFailedAgain`: the inner loop never meets a descriptor that failed before
  (`NoFailedDescriptorAgain`), so definition.go:763-766 never runs;
- `Completeness`: giving up on an untouched wallet means that it cannot satisfy
  the definition (`NoCredentialsMeansUnsatisfiable`). It assumes `OneFormat`,
  that a descriptor names at most one format: with several, the first that is
  present in the wallet decides, and a credential of a later one is passed over;
- `FinalVerdicts`: verdicts do not change within a call (`VerdictsAreFinal`).

They rest on the assumption `SearchAssumption` of the module, which TLC
evaluates. `Invariance` is the inductive invariant. `SolvedIsSolution` is not
inductive: at the moment of `Solved` it needs that every descriptor of the
solution already visited has a non-empty match, that the solution under
examination satisfies the logic, and that the excluded descriptors, and only
those, were evaluated without a match. Completeness adds that every solution
taken from the pool without success holds a descriptor that failed, and that a
failure is a failure of every credential of the wallet; disclosures only ever
shrink (`NarrowedShrinks`), so a wallet that is untouched at the end was
untouched when each verdict was reached.

It also proves three theorems about what is presented:

- `AlwaysStillAnswers`: a presented credential still shows every field its
  descriptor asks for, unless it is an SD-JWT that two descriptors match or the
  field is inside another disclosure (`PresentedStillAnswers`);
- `AlwaysNothingBeyond`: under `limit_disclosure` it shows nothing else but array
  elements (`NothingBeyondTheFields`);
- `AlwaysLogicMeansRules`: the logic of the search and the rules of the
  submission requirements accept the same sets of descriptors
  (`LogicMeansRules`).

For the first two, `PickedInv` says of every credential found in the call that
it shows what its descriptor asks for as long as no other descriptor has it, and
if it was limited nothing more: another `limitDisclosure` can only reach it by
way of another descriptor. If ids differ, `merge` takes the credential itself
for each (`MergedIsSame`). The condition about fields inside another disclosure
belongs to the property and was met while proving it: `PresentedStillAnswers`
is false without it, as a wallet with such an SD-JWT shows (`DeepWallets` of
`MCApplyRequirement`). For the third, the recursions through the nested requirements have
solutions (`TreeRecursion`), each node's bounds say what its rule says
(`NodeAgrees`), and the forest follows from the innermost nodes outwards
(`LogicAgrees`).

`MemProvider_proof` proves for any finite set of goroutines and any names,
configurations and number of calls:

- `ProviderTypeCorrect`: `TypeOK`;
- `ClosedNeverBack`: a closed store is not registered again
  (`ClosedStaysUnregistered`);
- `OpenStoreNeverReplaces`: no store takes the place of a registered one
  (`NeverReplaced`).

The assumption is `ProviderAssumption`. `ProviderInvariant` is the inductive
invariant. `ClosedStaysUnregistered` needs that a store is registered under its
own name only (`NameInv`), since `Close` removes the name. `NeverReplaced` needs
that what a writer looked up has not changed (`LockInv`), which holds because
whoever writes holds the lock. The bound on calls needs that each running call
has a store number left (`RoomInv`, a count of the running calls).

`MemStore_proof` proves for any goroutines, keys and calls:

- `StoreTypeCorrect`: `TypeOK`;
- `StoreIsAtomic`: `memStore` implements `AtomicStore` (`CallsAreAtomic`);
- `QueriesMissNothing`: `QueryMissesNothingSteady`.

The store that the others see (`Committed`) is the map with the rest of the
writer's operations applied. `ApplyStep` shows that one operation does not
change it and `ApplyEnd` that nothing is left after the last one, so the whole
write takes effect with `Locked`. A read takes effect with `RUnlock` or
`EndScan`: by `LockInv` nobody writes while anybody reads, so what was read
(`GetOK`, `ScanOK`) is still in the map. `SteadyOK` is the invariant of a query
of several terms: a key that satisfied it ever since the call satisfies it
still, is in each scan that is over, and has been found or has still to be
visited by the scan under way. Assumed are `CallsAssumption` and
`MemStoreAssumption`.

`DataIntegrity_proof` proves, for any documents, methods, options and times,
`TypeOK`, `VerifiedByTheMethod` and `AcceptedIsFresh`, and that
`CreatedProofsAreValid` holds if documents with a proof are not signed again
(`Resign = FALSE`; the run `DataIntegrityResigned` shows why). `SigningInv` says
that a method left in the signer's options is the one its id names and allows
the purpose; `ProofInv` that a signature stands for what its proof says.
Assumed are `IntegrityAssumption` and `OptionsAssumption`.

`MatchSubmission_proof` proves, for any number of descriptors, presentations and
mappings, `EveryMappingChecked` and `EveryDescriptorMatched`. `TodoInv` and
`ProgressInv` follow the loops: what the loop has passed was checked and left a
match, and what it has not is still to do. The error of `filterSchema` that is
swallowed (api.go:214) empties the result; as there is at least one descriptor
(`MatchAssumption`), the check at the end then refuses.
`AlwaysHeldByThatPresentation` proves `HeldByThatPresentation`: the mappings of a
merged submission are dealt out by the index of their paths
(`DescriptorsByPresentationIndex`, a loop that `SortedByIndex` sums up), so each
is checked against the presentation it leads to, and the match names the holder
of that one.

`SdJwt_proof` proves, for any tree of claims, issuers, verifiers and numbers of
sessions, `BoundToSession` and `NoClaimReplaced`. For the first: nonces are the
numbers of sessions that have begun, so a binding that has the current nonce of
a verifier was made after that session began (`SessionInv`, `BindingInv`). For
the second: an SD-JWT has each name once per object and nothing both in clear
and behind a digest (`IsSDJWT`, proved of what `issuer.New` makes, in
`ClaimsAssumption` assumed of others), and `verifier.Parse` refuses a disclosure
whose name is taken or whose digest occurs twice.

Three more are about SD-JWTs of this issuer, with any options and either
version: `AlwaysDisclosedExactly` (`DisclosedExactly`), `NothingIsEverUnasked`
(`NothingUnasked`) and `IssuedIsAlwaysUsable` (`IssuedIsUsable`). `OwnInv` says
that what was issued is `New` of some options and that the presentation selects
of its disclosures. The rest is about trees, which `TreeAssumption` describes:
recursions from the payload down have solutions (`Descent`), what passes from
every parent to its children holds everywhere (`TreeInduction`), and a set grown
from the payload as often as there are claims is closed (`GrowthStaysIn`,
`GrowthReaches`). `BuilderFacts` is what both builders have in common: nothing
is hidden below what is left as it is, array elements are left as they are, and
in a walked container only walked containers are neither hidden nor declared.
From it follow `ReachedExactly` (what the walk over the disclosures reaches),
`AtomsAreCovered` (there is a digest on the way to every atom) and
`ClosedVerifies` (a selection with all that is on its way verifies).

`RelyingParty_proof` proves, for any DIDs, methods, contents, options, and any
number of steps and versions, `TypeOK`, `AcceptedIsProved` and
`SchemaWasRecent`. For the second, one lemma per stage of the pipeline: a
signature that verifies under the expected DID is attested (`VerifiedIsAttested`),
embedded proofs that are let through attest (`EmbeddedAttest`), so does what one
of the parsers returns (`CheckedIsVouched`, `ParsedByOne`, `ParsedIsChecked`),
what a presentation decodes (`DecodedIsVouched`), and each of the presentation
parsers (`PresentationIsSound`). For the third, `CacheInv` (a cached version was
published, and if it has been replaced it expires no later than the expiry time
after that), that `vc` keeps its shape, and that a schema that is needed is
loaded (`NeededIsLoaded`).

Three theorems of `RelyingParty_proof` are about what is read back, for any
contents, credentials that are changed, signed and enveloped any number of
times, any lists and any revocations: `AlwaysReadBackAsMade` (`ReadBackAsMade`),
`AlwaysLinkedIffOneGood` (`LinkedIffOneGood`) and `AlwaysStatusIsOwn`
(`StatusIsOwn`). `Made` and `MadePresentation` are the invariants of a value in
the hands of its maker: the typed fields, the JSON object and the envelope
belong together. `ReadsBack` follows one parser after the other and shows that
what was rightly made is returned as it was made; `ParsedAgrees` that whatever
else is returned names the same issuer and subject. `LinkingPasses` says that a
credential that links the domain and was rightly made passes both passes over a
configuration (`LinkageCredentials` selects by position, so that equal entries
stay apart); `ListIsRead` and `ListIsFound` that the list
the status names comes out of whatever a server or a hub sends, in whatever
order (`Replies`); and `BitsOfList` that the byte and bit arithmetic reads the
index that was revoked. `MadeAssumption` says what the contents given to the
library are.

Model-checked only: liveness (`CallReturns`, `CallsReturn`,
`ProviderCallsReturn`, `MatchReturns`, `EventuallyExhausted`), which is beyond
the prover, and the four properties that the code violates.

## 5. What was met on the way and has no run

- removeStore closes by name: `Close` on a stale handle unregisters a store
  opened under the name since (mem.go:144), and `Close` does not delete the data
  reachable through the handle although mem.go:353 says so.
- `evalSubmissionRequirements` asks for every descriptor, so a submission that
  follows a "pick" rule is refused (api.go:299, a TODO).
- Mappings of a merged submission whose index is beyond the presentations are
  ignored, unknown descriptor ids among them.
- Two terms of a query with the same tag name: the second replaces the first
  (mem.go:291).
- A second use of `ProofOptions` for verifying compares with the method, suite
  and created time of the first.
- When an SD-JWT is limited, a field that is nested in a disclosed object is
  dropped (`deep`), and all the array elements beside a field are kept whether
  asked for or not (`elements`, definition.go:1158).
- Two descriptors with the same id make `NewBitsetIterator` run past the end of
  a slice (requirementlogic.go:131).
- A mapping path `$[0]` in a submission of the second presentation's own selects
  a credential of the first, and the match names the second (api.go:242).
- Credentials without ids are told apart by nothing when a submission is merged
  (definition.go:1554).
- Issuer version 5 lists decoys among the disclosures, which the holder's parser
  then refuses.
- `CreateDisplayCredential` shows with a given disclosure the claims nested in
  it that were not given; the comment at credential_sdjwt.go:465 says they are
  absent. Of several disclosures of a name `filterDisclosures` keeps the last
  one; the comment at credential_sdjwt.go:94 speaks of precisely those indicated.
- A date set with the setter of the other data model is not the one read back.
- A minimised CWT presentation loses its holder and id, and the proof of a CWT
  presentation is not checked (a TODO in the code).
- The holder of a JWT presentation is not compared with the DID of its kid.
- Objects in a presentation, and documents, that have no proof are accepted
  without one, unless `requireProof` is set for the presentation itself.
- Status list credentials are parsed without checking their proofs, and the
  purpose of the list is not compared with that of the entry.
- Parsing does not look at the expiration of a credential.
- A credential with both linked data and Data Integrity proofs is refused.

## 6. Not modelled

Cryptography, encodings, JSON-LD processing and validation, JSONPath and
JSON-schema evaluation: the models use what they decide, not how. `crypto-ext`
is cryptography; `legacy/mock`, `legacy/test` and `proof/testsupport` are test
support.

In `ApplyRequirement`: framing (`frameCreds`), the choice of the presentation
format, and `MatchSubmissionRequirement`, which filters for each requirement
apart. Descriptor ids are taken to be distinct.

In `Credential` and `Presentation`: the setters that have one place only
(`WithModifiedSubject`, context, type, expiration, refresh service), several
subjects, evidence, terms of use, custom fields; Data Integrity proofs of
presentations. `CanClaim` and the guards of `SignCOSE` leave out credentials that the
claims of a token cannot be made of. DID documents are resolved at one moment
per call. In `DidConfiguration` the expiration dates and the context of the
configuration. In `StatusList` the validators of status types other than
StatusList2021, which differ in the names of fields, and the compression of the
list.

In `SdJwt`: hash algorithms, nbf and iat, and the optional checks of the holder.
The map of claims that `NewFromVC` is given is changed in place (issuer.go:460);
its callers here make one for the call.

## 7. Plan

What is left, in this order:

1. `Exchange`: `CreateVP` composed with `Match`, the definition and a wallet at
   one end and the submission at the other.
2. `MatchSubmissionRequirement` and the choice of the presentation format in
   `ApplyRequirement`.
3. Display credentials in `SdJwt`.
4. Proofs of what these add; a condition under which several formats are
   harmless in place of `OneFormat`.

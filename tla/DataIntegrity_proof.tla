------------------------ MODULE DataIntegrity_proof ------------------------
(***************************************************************************)
(* Created proofs verify, and what verifies was signed by its method and   *)
(* is fresh, for any documents, methods, options and times.                *)
(***************************************************************************)
EXTENDS DataIntegrity, TLAPS

(* Options keep their fields; a method that was resolved for signing is    *)
(* the one that was asked for, and was allowed.                            *)
IsOptions(o) ==
  o = [purpose |-> o.purpose, vmID |-> o.vmID, vm |-> o.vm, suite |-> o.suite, domain |-> o.domain,
       challenge |-> o.challenge, created |-> o.created, maxAge |-> o.maxAge]
SigningInv ==
  /\ IsOptions(signing)
  /\ signing.vm # None =>
       /\ signing.vm.id = signing.vmID /\ signing.vmID \in Methods
       /\ signing.purpose \in AllowedFor[signing.vmID]
VerifyingInv == IsOptions(verifying)

(* A proof's signature stands for what the proof says.                     *)
Made(d, p) ==
  /\ p.vm \in Methods /\ p.purpose \in AllowedFor[p.vm]
  /\ p.created \in Nat \ {0}
  /\ p.value = [doc |-> d, with |-> p.value.with, key |-> p.value.key, suite |-> p.suite,
                vmID |-> p.vm, created |-> p.created, purpose |-> p.purpose]
  /\ ~Resign => p.value.with = None
ProofInv == DOMAIN proof = Docs /\ \A d \in Docs : proof[d] # None => Made(d, proof[d])

Inv == TypeOK /\ SigningInv /\ VerifyingInv /\ ProofInv /\ VerifiedByTheMethod

LEMMA PreparedIsOptions ==
  ASSUME NEW o \in SignOptions \union VerifyOptions
  PROVE  IsOptions(o) /\ o.vm = None /\ o.vmID \in Methods \union {None}
BY OptionsAssumption DEF Prepared, IsOptions

(* Resolving a method only writes the method and its id.                   *)
LEMMA ResolvingKeepsTheRest ==
  ASSUME NEW o, IsOptions(o), NEW id
  PROVE  /\ IsOptions(ResolveVM(o, id))
         /\ ResolveVM(o, id).purpose = o.purpose /\ ResolveVM(o, id).maxAge = o.maxAge
         /\ ResolveVM(o, id).suite = o.suite /\ ResolveVM(o, id).created = o.created
         /\ ResolveVM(o, id).domain = o.domain /\ ResolveVM(o, id).challenge = o.challenge
BY DEF ResolveVM, IsOptions

(* What it finds is the current key of the method asked for, if allowed.   *)
LEMMA ResolvedIsCurrent ==
  ASSUME NEW o, IsOptions(o), o.vm = None, NEW id, ResolveVM(o, id).vm # None
  PROVE  LET r == ResolveVM(o, id)
         IN  /\ r.vmID \in Methods /\ r.vm = [id |-> r.vmID, key |-> key[r.vmID]]
             /\ o.purpose \in AllowedFor[r.vmID]
BY DEF ResolveVM, IsOptions

LEMMA DefaultsKeepTheRest ==
  ASSUME NEW o, IsOptions(o), NEW p
  PROVE  LET w == WithDefaults(o, p)
         IN  /\ IsOptions(w) /\ w.purpose = o.purpose /\ w.maxAge = o.maxAge
             /\ w.vm = o.vm /\ w.vmID = o.vmID
             /\ w.domain = o.domain /\ w.challenge = o.challenge
             /\ w.suite = (IF o.suite = None THEN p.suite ELSE o.suite)
             /\ w.created = (IF o.created = 0 THEN p.created ELSE o.created)
<1> DEFINE suite == IF o.suite = None THEN p.suite ELSE o.suite
           created == IF o.created = 0 THEN p.created ELSE o.created
<1>1. WithDefaults(o, p) = [o EXCEPT !.suite = suite, !.created = created]
  BY DEF WithDefaults
<1> HIDE DEF suite, created
<1>2. WithDefaults(o, p) =
        [purpose |-> o.purpose, vmID |-> o.vmID, vm |-> o.vm, suite |-> suite, domain |-> o.domain,
         challenge |-> o.challenge, created |-> created, maxAge |-> o.maxAge]
  BY <1>1 DEF IsOptions
<1> QED BY <1>2 DEF IsOptions, suite, created

(* Accepting a proof: what was hashed names the resolved method.           *)
LEMMA VerifiedIsSigned ==
  ASSUME NEW d, NEW p, Made(d, p), NEW o, IsOptions(o), Verifies(d, p, o)
  PROVE  /\ o.vm = None => p.value.key = key[p.vm] /\ p.purpose \in AllowedFor[p.vm]
         /\ o.maxAge > 0 => now - p.created <= o.maxAge
<1> DEFINE w == WithDefaults(o, p)
           r == ResolveVM(w, p.vm)
<1>1. /\ p.purpose = o.purpose /\ r.vm # None /\ p.value = TransformAndHash(d, None, r)
      /\ r.maxAge > 0 /\ p.created # 0 => now - p.created <= r.maxAge
  BY DEF Verifies, OptionsAfter
<1>2. IsOptions(w) /\ w.purpose = o.purpose /\ w.maxAge = o.maxAge /\ w.vm = o.vm
  BY DefaultsKeepTheRest
<1> HIDE DEF w
<1>3. r.maxAge = o.maxAge /\ r.purpose = o.purpose
  BY <1>2, ResolvingKeepsTheRest
<1>4. o.maxAge > 0 => now - p.created <= o.maxAge
  BY <1>1, <1>3 DEF Made
<1>5. ASSUME o.vm = None PROVE p.value.key = key[p.vm] /\ p.purpose \in AllowedFor[p.vm]
  <2>1. r.vm = [id |-> r.vmID, key |-> key[r.vmID]] /\ w.purpose \in AllowedFor[r.vmID]
    BY <1>1, <1>2, <1>5, ResolvedIsCurrent
  <2>2. p.value.key = r.vm.key /\ p.value.vmID = r.vmID
    BY <1>1 DEF TransformAndHash
  <2>3. p.value.vmID = p.vm
    BY DEF Made
  <2> QED BY <1>1, <1>2, <2>1, <2>2, <2>3
<1> QED BY <1>4, <1>5

(* A proof over the bare document, by a key still in place, is accepted.   *)
LEMMA MadeIsAccepted ==
  ASSUME TypeOK, ~Resign, NEW d, NEW p, Made(d, p), p.value.key = key[p.vm]
  PROVE  Verifies(d, p, Asking(p.purpose))
<1> DEFINE o == Asking(p.purpose)
           w == WithDefaults(o, p)
           r == ResolveVM(w, p.vm)
<1>1. IsOptions(o) /\ o.purpose = p.purpose /\ o.vm = None /\ o.vmID = None /\ o.suite = None
      /\ o.created = 0 /\ o.maxAge = 0 /\ o.domain = None /\ o.challenge = None
  BY DEF Asking, IsOptions
<1> HIDE DEF o
<1>2. IsOptions(w) /\ w.purpose = p.purpose /\ w.vm = None /\ w.vmID = None /\ w.suite = p.suite
      /\ w.created = p.created /\ w.maxAge = 0 /\ w.domain = None /\ w.challenge = None
  BY <1>1, DefaultsKeepTheRest
<1> HIDE DEF w
<1>3. IsOptions(r) /\ r.purpose = p.purpose /\ r.suite = p.suite /\ r.created = p.created
      /\ r.maxAge = 0 /\ r.domain = None /\ r.challenge = None
  BY <1>2, ResolvingKeepsTheRest
<1>4. r = [w EXCEPT !.vmID = p.vm, !.vm = [id |-> p.vm, key |-> key[p.vm]]]
  BY <1>2 DEF ResolveVM, Made
<1>5. r.vmID = p.vm /\ r.vm = [id |-> p.vm, key |-> key[p.vm]]
  BY <1>2, <1>4 DEF IsOptions
<1>6. r.vm # None
  <2>1. p.vm \in Methods /\ key[p.vm] \in 1..MaxTime
    BY DEF Made, TypeOK
  <2> QED BY <1>5, <2>1, IntegrityAssumption
<1> HIDE DEF r
<1>7. p.value = TransformAndHash(d, None, r)
  BY <1>3, <1>5 DEF TransformAndHash, Made
<1>8. OptionsAfter(o, p) = r
  BY <1>1 DEF OptionsAfter, w, r
<1> HIDE DEF o
<1>9. Verifies(d, p, o)
  BY <1>1, <1>3, <1>6, <1>7, <1>8 DEF Verifies
<1> QED BY <1>9 DEF o

-----------------------------------------------------------------------------

LEMMA SigningKeepsInv ==
  ASSUME Inv, NEW d \in Docs, AddProof(d)
  PROVE  Inv'
<1> DEFINE start == [signing EXCEPT !.created = now]
           opts == ResolveVM(start, None)
<1>1. /\ Resign \/ proof[d] = None
      /\ signing' = opts
      /\ proof' = IF opts.vm = None THEN proof
                  ELSE [proof EXCEPT ![d] = CreateProof(d, proof[d], opts)]
      /\ UNCHANGED <<key, now, verifying, last>>
  BY DEF AddProof
<1>2. now \in 1..MaxTime /\ now \in Nat \ {0}
  BY IntegrityAssumption DEF Inv, TypeOK
<1>3. start = [purpose |-> signing.purpose, vmID |-> signing.vmID, vm |-> signing.vm, suite |-> signing.suite,
               domain |-> signing.domain, challenge |-> signing.challenge, created |-> now,
               maxAge |-> signing.maxAge]
  BY DEF Inv, SigningInv, IsOptions
<1>4. IsOptions(start) /\ start.created = now /\ start.vm = signing.vm /\ start.vmID = signing.vmID
      /\ start.purpose = signing.purpose
  BY <1>3 DEF IsOptions
<1> HIDE DEF start
<1>5. IsOptions(opts) /\ opts.created = now /\ opts.purpose = start.purpose
  BY <1>4, ResolvingKeepsTheRest
<1>6. opts.vm # None =>
        /\ opts.vm.id = opts.vmID /\ opts.vmID \in Methods /\ opts.purpose \in AllowedFor[opts.vmID]
  <2>1. CASE start.vm = None
    <3>1. opts.vm # None =>
            /\ opts.vmID \in Methods /\ opts.vm = [id |-> opts.vmID, key |-> key[opts.vmID]]
            /\ start.purpose \in AllowedFor[opts.vmID]
      BY <1>4, <2>1, ResolvedIsCurrent
    <3>2. opts.purpose = start.purpose
      BY <1>5
    <3> HIDE DEF opts
    <3> QED BY <3>1, <3>2
  <2>2. CASE start.vm # None
    <3>1. opts = start
      BY <2>2 DEF ResolveVM
    <3> QED BY <1>4, <2>2, <3>1 DEF Inv, SigningInv
  <2> QED BY <2>1, <2>2
<1>7. opts.vmID \in Methods \union {None}
  <2>1. signing.vmID \in Methods \union {None}
    BY DEF Inv, TypeOK
  <2>2. opts.vmID = start.vmID \/ opts.vmID = None
    BY <1>4 DEF ResolveVM, IsOptions
  <2> QED BY <1>4, <2>1, <2>2
<1> HIDE DEF opts
<1>8. opts.vm # None => Made(d, CreateProof(d, proof[d], opts))
  BY <1>1, <1>2, <1>5, <1>6 DEF CreateProof, TransformAndHash, Made
<1>9. ProofInv'
  BY <1>1, <1>8 DEF Inv, ProofInv
<1>10. SigningInv'
  BY <1>1, <1>5, <1>6 DEF SigningInv
<1>11. TypeOK'
  <2>1. \A e \in Docs : proof'[e] # None => proof'[e].vm \in Methods /\ proof'[e].value.doc = e
    <3> SUFFICES ASSUME NEW e \in Docs, proof'[e] # None
                 PROVE  proof'[e].vm \in Methods /\ proof'[e].value.doc = e
      OBVIOUS
    <3>1. Made(e, proof'[e])
      BY <1>9 DEF ProofInv
    <3> QED BY <3>1 DEF Made
  <2>2. signing'.vmID \in Methods \union {None}
    BY <1>1, <1>7
  <2> QED BY <1>1, <2>1, <2>2 DEF Inv, TypeOK
<1> QED BY <1>1, <1>9, <1>10, <1>11 DEF Inv, VerifyingInv, VerifiedByTheMethod

LEMMA VerifyingKeepsInv ==
  ASSUME Inv, NEW d \in Docs, VerifyProof(d)
  PROVE  Inv'
<1>1. /\ proof[d] # None
      /\ verifying' = OptionsAfter(verifying, proof[d])
      /\ last' = [proof |-> proof[d], ok |-> Verifies(d, proof[d], verifying), key |-> key, at |-> now,
                  given |-> verifying.vm]
      /\ UNCHANGED <<proof, key, now, signing>>
  BY DEF VerifyProof
<1>2. Made(d, proof[d]) /\ IsOptions(verifying)
  BY <1>1 DEF Inv, ProofInv, VerifyingInv
<1> DEFINE w == WithDefaults(verifying, proof[d])
<1>3. IsOptions(w) /\ w.vmID = verifying.vmID
  BY <1>2, DefaultsKeepTheRest
<1>4. verifying' = w \/ verifying' = ResolveVM(w, proof[d].vm)
  BY <1>1 DEF OptionsAfter
<1> HIDE DEF w
<1>5. VerifyingInv'
  BY <1>3, <1>4, ResolvingKeepsTheRest DEF VerifyingInv
<1>6. verifying'.vmID \in Methods \union {None}
  <2>1. verifying'.vmID \in {w.vmID, proof[d].vm}
    BY <1>3, <1>4 DEF ResolveVM, IsOptions
  <2> QED BY <1>2, <1>3, <2>1 DEF Inv, TypeOK, Made
<1>7. VerifiedByTheMethod'
  BY <1>1, <1>2, VerifiedIsSigned DEF VerifiedByTheMethod
<1>8. last'.ok \in BOOLEAN
  BY <1>1 DEF Verifies
<1>9. TypeOK'
  BY <1>1, <1>6, <1>8 DEF Inv, TypeOK
<1> QED BY <1>1, <1>5, <1>7, <1>9 DEF Inv, SigningInv, ProofInv

LEMMA InvIsInvariant == Spec => []Inv
<1>1. Init => Inv
  <2> SUFFICES ASSUME Init PROVE Inv
    OBVIOUS
  <2>1. /\ IsOptions(signing) /\ signing.vm = None /\ signing.vmID \in Methods \union {None}
        /\ IsOptions(verifying) /\ verifying.vmID \in Methods \union {None}
    BY PreparedIsOptions DEF Init
  <2>2. now \in 1..MaxTime /\ key \in [Methods -> 1..MaxTime]
    BY IntegrityAssumption DEF Init
  <2>3. TypeOK
    BY <2>1, <2>2 DEF Init, TypeOK
  <2>4. ProofInv /\ VerifiedByTheMethod
    BY DEF Init, ProofInv, VerifiedByTheMethod
  <2> QED BY <2>1, <2>3, <2>4 DEF Inv, SigningInv, VerifyingInv
<1>2. Inv /\ [Next]_vars => Inv'
  <2> SUFFICES ASSUME Inv, [Next]_vars PROVE Inv'
    OBVIOUS
  <2>1. CASE NewSignOptions
    <3>1. signing' \in SignOptions /\ UNCHANGED <<proof, key, now, verifying, last>>
      BY <2>1 DEF NewSignOptions
    <3>2. SigningInv' /\ signing'.vmID \in Methods \union {None}
      BY <3>1, PreparedIsOptions DEF SigningInv
    <3> QED BY <3>1, <3>2 DEF Inv, TypeOK, VerifyingInv, ProofInv, VerifiedByTheMethod
  <2>2. CASE NewVerifyOptions
    <3>1. verifying' \in VerifyOptions /\ UNCHANGED <<proof, key, now, signing, last>>
      BY <2>2 DEF NewVerifyOptions
    <3>2. VerifyingInv' /\ verifying'.vmID \in Methods \union {None}
      BY <3>1, PreparedIsOptions DEF VerifyingInv
    <3> QED BY <3>1, <3>2 DEF Inv, TypeOK, SigningInv, ProofInv, VerifiedByTheMethod
  <2>3. CASE \E d \in Docs : AddProof(d) \/ VerifyProof(d)
    BY <2>3, SigningKeepsInv, VerifyingKeepsInv
  <2>4. CASE Tick
    <3>1. UNCHANGED <<proof, key, signing, verifying, last>> /\ now' \in 1..MaxTime
      BY <2>4, IntegrityAssumption DEF Tick, Inv, TypeOK
    <3> QED BY <3>1 DEF Inv, TypeOK, SigningInv, VerifyingInv, ProofInv, VerifiedByTheMethod
  <2>5. CASE \E m \in Methods : RotateKey(m)
    <3>1. PICK m \in Methods : RotateKey(m)
      BY <2>5
    <3>2. UNCHANGED <<proof, now, signing, verifying, last>>
      BY <3>1 DEF RotateKey
    <3>3. key' \in [Methods -> 1..MaxTime]
      BY <3>1, IntegrityAssumption DEF RotateKey, Inv, TypeOK
    <3> QED BY <3>2, <3>3 DEF Inv, TypeOK, SigningInv, VerifyingInv, ProofInv, VerifiedByTheMethod
  <2>6. CASE UNCHANGED vars
    BY <2>6 DEF vars, Inv, TypeOK, SigningInv, VerifyingInv, ProofInv, VerifiedByTheMethod
  <2> QED BY <2>1, <2>2, <2>3, <2>4, <2>5, <2>6 DEF Next
<1> QED BY <1>1, <1>2, PTL DEF Spec

(* The state stays in its types.                                           *)
THEOREM IntegrityTypeCorrect == Spec => []TypeOK
BY InvIsInvariant, PTL DEF Inv

(* VerifyProof, asked without a method of the caller's: the key that the   *)
(* method in the proof has at that moment made the signature, and it may   *)
(* be used for the purpose.                                                *)
THEOREM AlwaysVerifiedByTheMethod == Spec => []VerifiedByTheMethod
BY InvIsInvariant, PTL DEF Inv

(* AddProof: where no document is signed twice, what it made is accepted   *)
(* as long as the key stays in its place.                                  *)
THEOREM CreatedAreAlwaysValid ==
  ASSUME Resign = FALSE
  PROVE  Spec => []CreatedProofsAreValid
<1>1. Inv => CreatedProofsAreValid
  BY MadeIsAccepted DEF Inv, ProofInv, CreatedProofsAreValid
<1> QED BY <1>1, InvIsInvariant, PTL

(* VerifyProof with a time limit: no proof is accepted at a greater age,   *)
(* as every proof says when it was made.                                   *)
THEOREM AcceptedIsAlwaysFresh == Spec => AcceptedIsFresh
<1>1. Inv /\ [Next]_vars =>
        [last' # last /\ last'.ok /\ verifying.maxAge > 0 =>
           last'.at - last'.proof.created <= verifying.maxAge]_vars
  <2> SUFFICES ASSUME Inv, Next, last' # last, last'.ok, verifying.maxAge > 0
               PROVE  last'.at - last'.proof.created <= verifying.maxAge
    BY DEF vars
  <2>1. PICK d \in Docs : VerifyProof(d)
    BY DEF Next, NewSignOptions, NewVerifyOptions, Tick, AddProof, RotateKey
  <2>2. /\ proof[d] # None /\ last'.proof = proof[d] /\ last'.at = now
        /\ Verifies(d, proof[d], verifying)
    BY <2>1 DEF VerifyProof
  <2> QED BY <2>2, VerifiedIsSigned DEF Inv, ProofInv, VerifyingInv
<1> QED BY <1>1, InvIsInvariant, PTL DEF Spec, AcceptedIsFresh
=============================================================================

--------------------------- MODULE DataIntegrity ---------------------------
(***************************************************************************)
(* Signer.AddProof and Verifier.VerifyProof of dataintegrity, with the     *)
(* ecdsa-2019 and eddsa-2022 suites.  Both work on a ProofOptions object   *)
(* of the caller and write into it what they resolve or default; a caller  *)
(* that passes the object again passes the values of the call before.      *)
(* The controller of a verification method may replace its key meanwhile.  *)
(*                                                                         *)
(* A signature is the record of what was hashed and of the key: the        *)
(* document with the proof it then had, and the proof configuration.  A    *)
(* document holds one proof or None.  Absent values are None too, with     *)
(* 0 for the zero time.                                                    *)
(***************************************************************************)
EXTENDS Naturals

CONSTANTS
  Docs,           \* the documents of the callers
  Methods,        \* the ids of the verification methods in the DID documents
  AllowedFor,     \* the purposes each method may be used for
  None,
  SignOptions,    \* the ProofOptions a caller may make for signing
  VerifyOptions,  \* ... and for verifying
  Resign,         \* whether a document may be signed that already has a proof
  MaxTime         \* bound: the clock

ASSUME IntegrityAssumption ==
  /\ None \notin Docs \union Methods \union [id : Methods, key : 1..MaxTime]
  /\ Resign \in BOOLEAN /\ MaxTime \in Nat \ {0}

(* The options callers prepare leave the method and the time to the call.  *)
Prepared(o) ==
  /\ o = [purpose |-> o.purpose, vmID |-> o.vmID, vm |-> None, suite |-> o.suite, domain |-> o.domain,
          challenge |-> o.challenge, created |-> 0, maxAge |-> o.maxAge]
  /\ o.vmID \in Methods \union {None}
ASSUME OptionsAssumption == \A o \in SignOptions \union VerifyOptions : Prepared(o)

VARIABLES
  proof,      \* the proof of each document
  key,        \* the version of the key of each method in its DID document
  now,        \* the clock
  signing,    \* the caller's ProofOptions for signing
  verifying,  \* ... and for verifying
  last        \* what the last VerifyProof was asked and how it answered

vars == <<proof, key, now, signing, verifying, last>>

(* Mutant: any method of the DID document is taken for any purpose.        *)
ResolveVMForAny(opts, id) ==
  IF opts.vm # None
  THEN opts
  ELSE LET m == IF opts.vmID = None THEN id ELSE opts.vmID
       IN  [opts EXCEPT !.vmID = m, !.vm = IF m \in Methods THEN [id |-> m, key |-> key[m]] ELSE None]

(* resolveVM with getVMByPurpose: a method that is in the options is taken *)
(* as it is; otherwise the id in the options, or else the given one, is    *)
(* looked up.  The options keep what was found.                            *)
ResolveVM(opts, id) ==
  IF opts.vm # None
  THEN opts
  ELSE LET m == IF opts.vmID = None THEN id ELSE opts.vmID
       IN  [opts EXCEPT !.vmID = m,
                        !.vm = IF m \in Methods /\ opts.purpose \in AllowedFor[m]
                               THEN [id |-> m, key |-> key[m]] ELSE None]

(* Mutant: the document is taken for its proof.                            *)
TransformAndHashSwapped(d, before, opts) ==
  [doc |-> before, with |-> d, key |-> opts.vm.key,
   suite |-> opts.suite, vmID |-> opts.vmID, created |-> opts.created, purpose |-> opts.purpose]

(* transformAndHash: the document, the proof configuration and the key.    *)
TransformAndHash(d, before, opts) ==
  [doc |-> d, with |-> before, key |-> opts.vm.key,
   suite |-> opts.suite, vmID |-> opts.vmID, created |-> opts.created, purpose |-> opts.purpose]

CreateProof(d, before, opts) ==
  [suite |-> opts.suite, purpose |-> opts.purpose, vm |-> opts.vm.id, created |-> opts.created,
   domain |-> opts.domain, challenge |-> opts.challenge,
   value |-> TransformAndHash(d, before, opts)]

(* Mutant: the created time is not taken from the proof.                   *)
WithDefaultSuite(opts, p) ==
  [opts EXCEPT !.suite = IF @ = None THEN p.suite ELSE @]

(* VerifyProof: the options after the defaults taken from the proof ...    *)
WithDefaults(opts, p) ==
  [opts EXCEPT !.suite = IF @ = None THEN p.suite ELSE @,
               !.created = IF @ = 0 THEN p.created ELSE @]
(* ... and after the method is resolved, unless the purpose differs.       *)
OptionsAfter(opts, p) ==
  IF p.purpose # opts.purpose
  THEN WithDefaults(opts, p)
  ELSE ResolveVM(WithDefaults(opts, p), p.vm)

(* Mutant: the age is forgotten.                                           *)
VerifiesAtAnyAge(d, p, opts) ==
  LET o == OptionsAfter(opts, p)
  IN  /\ p.purpose = opts.purpose
      /\ o.vm # None
      /\ p.value = TransformAndHash(d, None, o)
      /\ o.domain # None => o.domain = p.domain
      /\ o.challenge # None => o.challenge = p.challenge

(* Its answer: the proof is taken off, and what is then hashed is compared *)
(* with what the signature stands for; age, domain and challenge follow.   *)
Verifies(d, p, opts) ==
  LET o == OptionsAfter(opts, p)
  IN  /\ p.purpose = opts.purpose
      /\ o.vm # None
      /\ p.value = TransformAndHash(d, None, o)
      /\ o.maxAge > 0 /\ p.created # 0 => now - p.created <= o.maxAge
      /\ o.domain # None => o.domain = p.domain
      /\ o.challenge # None => o.challenge = p.challenge

-----------------------------------------------------------------------------

Init ==
  /\ proof = [d \in Docs |-> None]
  /\ key = [m \in Methods |-> 1]
  /\ now = 1
  /\ signing \in SignOptions
  /\ verifying \in VerifyOptions
  /\ last = None

(* A caller prepares the options for its next calls.                       *)
NewSignOptions ==
  /\ signing' \in SignOptions
  /\ UNCHANGED <<proof, key, now, verifying, last>>
NewVerifyOptions ==
  /\ verifying' \in VerifyOptions
  /\ UNCHANGED <<proof, key, now, signing, last>>

(* The created time of the options is the caller's, here the present.      *)
AddProof(d) ==
  /\ Resign \/ proof[d] = None
  /\ LET opts == ResolveVM([signing EXCEPT !.created = now], None)
     IN  /\ signing' = opts
         /\ proof' = IF opts.vm = None THEN proof
                     ELSE [proof EXCEPT ![d] = CreateProof(d, proof[d], opts)]
  /\ UNCHANGED <<key, now, verifying, last>>

VerifyProof(d) ==
  /\ proof[d] # None
  /\ verifying' = OptionsAfter(verifying, proof[d])
  /\ last' = [proof |-> proof[d], ok |-> Verifies(d, proof[d], verifying), key |-> key, at |-> now,
              given |-> verifying.vm]
  /\ UNCHANGED <<proof, key, now, signing>>

(* The controller of a method replaces its key.                            *)
RotateKey(m) ==
  /\ key[m] < MaxTime
  /\ key' = [key EXCEPT ![m] = @ + 1]
  /\ UNCHANGED <<proof, now, signing, verifying, last>>

Tick ==
  /\ now < MaxTime
  /\ now' = now + 1
  /\ UNCHANGED <<proof, key, signing, verifying, last>>

Next ==
  \/ NewSignOptions \/ NewVerifyOptions \/ Tick
  \/ \E d \in Docs : AddProof(d) \/ VerifyProof(d)
  \/ \E m \in Methods : RotateKey(m)

Spec == Init /\ [][Next]_vars

-----------------------------------------------------------------------------

TypeOK ==
  /\ \A d \in Docs : proof[d] # None => proof[d].vm \in Methods /\ proof[d].value.doc = d
  /\ key \in [Methods -> 1..MaxTime]
  /\ now \in 1..MaxTime
  /\ signing.vmID \in Methods \union {None} /\ verifying.vmID \in Methods \union {None}
  /\ last # None => last.ok \in BOOLEAN

(* A proof that AddProof made is valid: as long as its method keeps its    *)
(* key, a verifier that asks for nothing but its purpose accepts it.       *)
Asking(purpose) ==
  [purpose |-> purpose, vmID |-> None, vm |-> None, suite |-> None, domain |-> None,
   challenge |-> None, created |-> 0, maxAge |-> 0]
CreatedProofsAreValid ==
  \A d \in Docs :
    proof[d] # None /\ proof[d].value.key = key[proof[d].vm] =>
      Verifies(d, proof[d], Asking(proof[d].purpose))

(* VerifyProof with options that hold no verification method answers nil   *)
(* only if the key that the method named in the proof has at that moment   *)
(* made the signature, and the method may be used for the purpose.  (Once  *)
(* used, options hold the method of the call before.)                      *)
VerifiedByTheMethod ==
  last # None /\ last.ok /\ last.given = None =>
    /\ last.proof.value.key = last.key[last.proof.vm]
    /\ last.proof.purpose \in AllowedFor[last.proof.vm]

(* An accepted proof is not older than the options allow.                  *)
AcceptedIsFresh ==
  [][last' # last /\ last'.ok /\ verifying.maxAge > 0 =>
       last'.at - last'.proof.created <= verifying.maxAge]_vars
=============================================================================

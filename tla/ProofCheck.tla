----------------------------- MODULE ProofCheck -----------------------------
(***************************************************************************)
(* What the proof creators and checkers (proof/creator, proof/checker, and *)
(* the JWT, CWT and linked data wrappers around them) do with a signature. *)
(* A DID document is the map from the ids of its verification methods to   *)
(* the version of each method's key; docs is the map of all documents.     *)
(* A signature is the record                                               *)
(*   type  "jws", "cose" or, of an embedded proof, "LD" or "DI"            *)
(*   kid   the id of a method, which the caller of the signer gives        *)
(*   alg   the JWT or COSE algorithm or the type of the linked data proof  *)
(*   by    the key that signed, which the proof creator was made with      *)
(*   over  what was signed: the claims, or the document                    *)
(* Keys, algorithms and suites are data here: a method's key fits one      *)
(* algorithm, Suite[method].                                               *)
(***************************************************************************)
EXTENDS Naturals, Sequences

CONSTANTS
  DIDs,           \* the DIDs that resolve
  Methods,        \* the ids of verification methods
  Controller,     \* the DID in front of the # of each id
  AgreementOnly,  \* the methods that documents list for keyAgreement only
  Suite,          \* the algorithm the key of each method fits
  None

ASSUME ProofAssumption ==
  /\ Controller \in [Methods -> DIDs]
  /\ AgreementOnly \subseteq Methods
  /\ DOMAIN Suite = Methods
  /\ None \notin DIDs \union Methods

(* creator.SignJWT, SignCWT and SignLinkedDocument: a creator signs only   *)
(* with the algorithms it supports, here that of its key.  The key id is   *)
(* not looked at.                                                          *)
CanSign(key, alg) == alg = Suite[key.method]
Sign(type, key, alg, kid, over) ==
  [type |-> type, kid |-> kid, alg |-> alg, by |-> key, over |-> over]

(* VDRResolver.ResolveVerificationMethod: the method must be listed in the *)
(* document of the DID that is expected to have signed.                    *)
ResolveVerificationMethod(docs, kid, did) ==
  IF did \in DIDs /\ kid \in DOMAIN docs[did] /\ kid \notin AgreementOnly
  THEN [method |-> kid, version |-> docs[did][kid]]
  ELSE None

(* convertToPublicKey, the choice of the signature verifier, and Verify.   *)
Verifies(sig, key) ==
  key # None /\ sig.alg = Suite[key.method] /\ sig.by = key

(* CheckJWTProof and CheckCWTProof: the kid header is required (a COSE_Key *)
(* header, which nothing here writes, is refused with an expected issuer). *)
CheckJWTProof(docs, sig, issuer) ==
  sig.kid # None /\ Verifies(sig, ResolveVerificationMethod(docs, sig.kid, issuer))
CheckCWTProof(docs, sig, issuer) ==
  sig.kid # None /\ Verifies(sig, ResolveVerificationMethod(docs, sig.kid, issuer))

(* jwt.CheckProof: without an expected issuer, it is the DID of the kid.   *)
JWTProofChecks(docs, sig, expected) ==
  /\ sig.kid # None
  /\ CheckJWTProof(docs, sig, IF expected = None THEN Controller[sig.kid] ELSE expected)
(* cwt.CheckProof, always with an expected issuer.                         *)
CWTProofChecks(docs, sig, expected) == CheckCWTProof(docs, sig, expected)

(* CheckLDProof, with the document canonicalised again.                    *)
CheckLDProof(docs, proof, issuer, document) ==
  /\ proof.type = "LD"
  /\ proof.over = document
  /\ Verifies(proof, ResolveVerificationMethod(docs, proof.kid, issuer))

(* DocumentVerifier.VerifyObject: every proof of the document.             *)
VerifyObject(docs, proofs, document, expected) ==
  \A i \in DOMAIN proofs :
    /\ proofs[i].kid # None
    /\ CheckLDProof(docs, proofs[i],
                    IF expected = None THEN Controller[proofs[i].kid] ELSE expected, document)

(* dataintegrity Verifier.VerifyProof for the purpose of assertions: it    *)
(* reads one proof, and the signer of the document is not compared.        *)
VerifyDataIntegrity(docs, proofs, document) ==
  /\ DOMAIN proofs = {1}
  /\ LET p == proofs[1] IN
     /\ p.type = "DI" /\ p.kid # None
     /\ p.over = document
     /\ Verifies(p, ResolveVerificationMethod(docs, p.kid, Controller[p.kid]))

(* checkEmbeddedProof: a document without a proof is let through, and the  *)
(* type of the first proof decides how all of them are checked.            *)
CheckEmbeddedProof(docs, json, expected, opts) ==
  LET unsigned == [json EXCEPT !.proofs = <<>>] IN
  \/ json.proofs = <<>>
  \/ /\ json.proofs # <<>> /\ json.proofs[1].type = "DI"
     /\ opts.dataIntegrity /\ VerifyDataIntegrity(docs, json.proofs, unsigned)
  \/ /\ json.proofs # <<>> /\ json.proofs[1].type # "DI"
     /\ opts.checker /\ VerifyObject(docs, json.proofs, unsigned, expected)
=============================================================================

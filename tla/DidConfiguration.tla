-------------------------- MODULE DidConfiguration --------------------------
(***************************************************************************)
(* didconfig/verifier: whether the DID configuration that a domain serves  *)
(* links it to a DID.  The configuration is a sequence of credentials in   *)
(* the forms they travel in, or OddEntry for an entry that is neither a    *)
(* string nor an object.                                                   *)
(***************************************************************************)
EXTENDS Credential

CONSTANT OddEntry

(* getParseCredentialOptions: custom schemas are left out, and there is no *)
(* Data Integrity verifier.                                                *)
LinkageOptions(docs, checkProof) ==
  [docs |-> docs, checkProof |-> checkProof, checker |-> checkProof, dataIntegrity |-> FALSE,
   validate |-> TRUE, customSchema |-> FALSE, schema |-> None]

(* validateSubject and validateOrigin.                                     *)
ValidSubject(c, did, origin) == c.subject = did /\ c.origin # None /\ c.origin = origin

(* validateDomainLinkageCredential, for a credential that has an           *)
(* expiration date if it has a date of issue.                              *)
ValidLinkage(c, did, origin) ==
  c.id = None /\ c.issued # None /\ ValidSubject(c, did, origin)

(* validateJWT: the kid header, the claims that may be there, "jti" not    *)
(* among them, and the issuer and subject.                                 *)
ValidLinkageJWT(cred, did, origin) ==
  /\ cred.env.kid # None /\ cred.env.over.jti = None
  /\ cred.contents.issuer = did /\ cred.contents.subject = did

(* isValidDomainLinkageCredential.                                         *)
IsLinkage(cred, did, origin) ==
  /\ cred.env # None /\ cred.env.type = "jws" => ValidLinkageJWT(cred, did, origin)
  /\ ValidLinkage(cred.contents, did, origin)

(* getCredentials: the first pass, without proofs, passes over what does   *)
(* not parse or links something else.  What is left, by its position.      *)
LinkageCredentials(docs, linked, did, origin) ==
  {i \in DOMAIN linked :
     LET cred == ParseCredential(linked[i], LinkageOptions(docs, FALSE)) IN
     cred # Refused /\ cred.contents.issuer = did /\ IsLinkage(cred, did, origin)}

(* Mutant: only the first candidate is tried.                              *)
VerifyFirstOnly(docs, linked, did, origin) ==
  /\ \A i \in DOMAIN linked : linked[i] # OddEntry
  /\ LET found == LinkageCredentials(docs, linked, did, origin) IN
     \E i \in found :
       /\ \A j \in found : i <= j
       /\ ParseCredential(linked[i], LinkageOptions(docs, TRUE)) # Refused

(* VerifyDIDAndDomain: the second pass checks the proofs and stops at the  *)
(* first that is good.  An odd entry is an error of the whole.             *)
VerifyDIDAndDomain(docs, linked, did, origin) ==
  /\ \A i \in DOMAIN linked : linked[i] # OddEntry
  /\ \E i \in LinkageCredentials(docs, linked, did, origin) :
       ParseCredential(linked[i], LinkageOptions(docs, TRUE)) # Refused
=============================================================================

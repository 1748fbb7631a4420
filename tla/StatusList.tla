----------------------------- MODULE StatusList -----------------------------
(***************************************************************************)
(* status.Client: fetching the status list that a credential names, from a *)
(* server or from the identity hub of a DID, and reading one bit of it.    *)
(* A list is a credential whose proof is not checked.  A byte is the set   *)
(* of the positions of its 1 bits.                                         *)
(***************************************************************************)
EXTENDS Credential, Integers, Sequences

CONSTANTS
  ByteSize,  \* bits in a byte
  NoNumber   \* an index that strconv.Atoi does not read

ASSUME StatusAssumption == ByteSize \in Nat \ {0}

-----------------------------------------------------------------------------
(* Package bitstring: least significant bit first.                         *)
Pack(indices, bytes) ==
  [b \in 0..(bytes - 1) |-> {k \in 0..(ByteSize - 1) : b * ByteSize + k \in indices}]

InBitString(bitString, idx) == idx >= 0 /\ idx \div ByteSize \in DOMAIN bitString

(* Mutant: the most significant bit is taken for the first.                *)
BitAtFromTheTop(bitString, idx) ==
  (ByteSize - 1 - (idx % ByteSize)) \in bitString[idx \div ByteSize]

BitAt(bitString, idx) == (idx % ByteSize) \in bitString[idx \div ByteSize]

-----------------------------------------------------------------------------
(* Response.CheckStatus and GetMessageData: the hub answers with messages, *)
(* of which each has a status, an object id and data; one that failed      *)
(* spoils them all, else the first with the id is it.                      *)
GetMessageData(messages, id) ==
  LET found == {i \in DOMAIN messages : messages[i].id = id} IN
  IF (\E i \in DOMAIN messages : ~messages[i].ok) \/ found = {} THEN None
  ELSE messages[CHOOSE i \in found : \A j \in found : i <= j].data

(* Resolver.Resolve: the proof of the list is not checked, nor is the list *)
(* validated.  A server sends one message.                                 *)
Resolve(status, messages) ==
  LET got == IF status.did THEN GetMessageData(messages, status.list)
             ELSE IF messages[1].ok THEN messages[1].data ELSE None
      list == ParseCredential(got.vc, [checkProof |-> FALSE, validate |-> FALSE])
  IN  IF got = None THEN Refused
      ELSE IF list = Refused THEN Refused
      ELSE [issuer |-> list.contents.issuer, subject |-> list.contents.subject, bits |-> got.bits]

(* ValidateStatus and GetStatusListIndex.                                  *)
ValidStatus(status) ==
  /\ status # None /\ status.type = "StatusList2021Entry"
  /\ status.list # None /\ status.purpose # None /\ status.index \notin {None, NoNumber}

(* Client.VerifyStatus; errors and panics are "failed".                    *)
StatusOf(issuer, status, messages) ==
  LET list == Resolve(status, messages) IN
  IF ~ValidStatus(status) \/ list = Refused THEN "failed"
  ELSE IF None \in {issuer, list.issuer, list.subject} \/ list.issuer # issuer THEN "failed"
  ELSE IF ~InBitString(list.bits, status.index) THEN "failed"
  ELSE IF BitAt(list.bits, status.index) THEN "revoked" ELSE "valid"
=============================================================================

----------------------------- MODULE StoreCalls -----------------------------
(***************************************************************************)
(* The calls of the spi Store interface as legacy/mem implements it, and   *)
(* what each means for the contents of a store.  A call is a record:       *)
(*   kind "Put", "Delete", "Batch" with ops, a sequence of key and entry   *)
(*     where NoEntry asks for the deletion of the key;                     *)
(*   kind "Get" (also GetTags and GetBulk) with keys, a sequence;          *)
(*   kind "Query" with terms, the sequence of tag name and value of the    *)
(*     expression, AnyValue where the expression gives only the name.      *)
(***************************************************************************)
EXTENDS Integers, Sequences, FiniteSets

CONSTANTS
  Threads,   \* the clients of the store
  Keys,
  Calls,     \* the calls a client may make
  NoEntry,   \* no data under a key
  EmptyKey,  \* the empty string, which is no key
  AnyValue   \* a query term without a tag value

ASSUME CallsAssumption ==
  /\ EmptyKey \notin Keys /\ Calls # {}
  /\ \A c \in Calls :
       \/ /\ c.kind \in {"Put", "Delete", "Batch"} /\ Len(c.ops) \in Nat
          /\ \A i \in 1..Len(c.ops) : c.ops[i].key \in Keys \union {EmptyKey}
       \/ c.kind = "Get" /\ c.keys \in Seq(Keys \union {EmptyKey})
       \/ c.kind = "Query" /\ Len(c.terms) \in Nat \ {0}

IsWrite(c) == c.kind \in {"Put", "Delete", "Batch"}

HasEmptyKey(c) ==
  \/ IsWrite(c) /\ \E i \in 1..Len(c.ops) : c.ops[i].key = EmptyKey
  \/ c.kind = "Get" /\ \E i \in 1..Len(c.keys) : c.keys[i] = EmptyKey

The(S) == CHOOSE x \in S : TRUE

(* The operations of a write from position i on, applied in order.         *)
Apply(db, ops, i) ==
  [k \in Keys |->
     LET hits == {j \in i..Len(ops) : ops[j].key = k}
     IN  IF hits = {} THEN db[k] ELSE ops[The({j \in hits : \A h \in hits : h <= j})].entry]

(* An entry matches a query term if one of its tags does.                  *)
Matches(entry, term) ==
  /\ entry # NoEntry
  /\ \E tag \in entry.tags : tag[1] = term[1] /\ term[2] \in {AnyValue, tag[2]}

(* All the terms of an expression.                                         *)
Satisfies(entry, terms) == \A i \in 1..Len(terms) : Matches(entry, terms[i])
=============================================================================

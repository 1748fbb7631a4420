------------------------------ MODULE MemStore ------------------------------
(***************************************************************************)
(* memStore of legacy/mem/mem.go: one in-memory store used by several      *)
(* goroutines.  The steps are those between which another goroutine can    *)
(* run: the acquisition of the store's RWMutex, each read or write of one  *)
(* map entry, and the release.  A query reads the map once for each term   *)
(* of its expression and gives the lock back in between.                   *)
(***************************************************************************)
EXTENDS StoreCalls

CONSTANTS
  Nobody,    \* no writer
  NoResult,  \* a call that has not answered
  MaxCalls   \* bound: the calls of a behaviour

ASSUME MemStoreAssumption == Nobody \notin Threads /\ MaxCalls \in Nat

VARIABLES
  db,       \* the map
  writer,   \* RWMutex: the goroutine that holds or waits for the write lock
  readers,  \* RWMutex: the goroutines that hold the read lock
  pc,       \* where each goroutine is
  call,     \* its call
  at,       \* the operation, key or term it is at
  left,     \* the map entries the scan of a term has still to visit
  found,    \* what the scan has found, a function on keys
  got,      \* what it read: values by position, or scans by tag name
  result,
  steady,   \* history: the keys that satisfied the query ever since the call
  calls

vars == <<db, writer, readers, pc, call, at, left, found, got, result, steady, calls>>

Nothing == [k \in {} |-> NoEntry]

SatisfyingKeys(c, contents) ==
  IF c.kind = "Query" THEN {k \in Keys : Satisfies(contents[k], c.terms)} ELSE {}

Init ==
  /\ db = [k \in Keys |-> NoEntry]
  /\ writer = Nobody
  /\ readers = {}
  /\ pc = [t \in Threads |-> "idle"]
  /\ call = [t \in Threads |-> CHOOSE c \in Calls : TRUE]
  /\ at = [t \in Threads |-> 1]
  /\ left = [t \in Threads |-> {}]
  /\ found = [t \in Threads |-> Nothing]
  /\ got = [t \in Threads |-> <<>>]
  /\ result = [t \in Threads |-> NoResult]
  /\ steady = [t \in Threads |-> {}]
  /\ calls = 0

Goto(t, label) == pc' = [pc EXCEPT ![t] = label]

(* Mutant: counting from 0.                                                *)
InvokeAtZero(t) ==
  /\ pc[t] = "idle" /\ calls < MaxCalls
  /\ calls' = calls + 1
  /\ \E c \in Calls :
       /\ call' = [call EXCEPT ![t] = c]
       /\ steady' = [steady EXCEPT ![t] = SatisfyingKeys(c, db)]
  /\ at' = [at EXCEPT ![t] = 0]
  /\ got' = [got EXCEPT ![t] = <<>>]
  /\ result' = [result EXCEPT ![t] = NoResult]
  /\ Goto(t, "entry")
  /\ UNCHANGED <<db, writer, readers, left, found>>

(* A client calls the store.                                               *)
Invoke(t) ==
  /\ pc[t] = "idle" /\ calls < MaxCalls
  /\ calls' = calls + 1
  /\ \E c \in Calls :
       /\ call' = [call EXCEPT ![t] = c]
       /\ steady' = [steady EXCEPT ![t] = SatisfyingKeys(c, db)]
  /\ at' = [at EXCEPT ![t] = 1]
  /\ got' = [got EXCEPT ![t] = <<>>]
  /\ result' = [result EXCEPT ![t] = NoResult]
  /\ Goto(t, "entry")
  /\ UNCHANGED <<db, writer, readers, left, found>>

(* An empty key is refused before the lock, except by Batch.               *)
Refuse(t) ==
  /\ pc[t] = "entry" /\ HasEmptyKey(call[t]) /\ call[t].kind # "Batch"
  /\ result' = [result EXCEPT ![t] = "empty key"]
  /\ Goto(t, "return")
  /\ UNCHANGED <<db, writer, readers, call, at, left, found, got, steady, calls>>

MayEnter(t) ==
  /\ pc[t] = "entry" /\ writer = Nobody
  /\ HasEmptyKey(call[t]) => call[t].kind = "Batch"

(* Lock: announce the writer, which keeps new readers out ...              *)
Lock(t) ==
  /\ MayEnter(t) /\ IsWrite(call[t])
  /\ writer' = t
  /\ Goto(t, "locking")
  /\ UNCHANGED <<db, readers, call, at, left, found, got, result, steady, calls>>

(* Mutant: the writer does not wait for the readers.                       *)
LockedAtOnce(t) ==
  /\ pc[t] = "locking"
  /\ IF HasEmptyKey(call[t])
     THEN Goto(t, "unlock") /\ result' = [result EXCEPT ![t] = "empty key"]
     ELSE Goto(t, "writing") /\ result' = [result EXCEPT ![t] = "ok"]
  /\ UNCHANGED <<db, writer, readers, call, at, left, found, got, steady, calls>>

(* ... and wait for the readers.  Batch checks all its keys first.         *)
Locked(t) ==
  /\ pc[t] = "locking" /\ readers = {}
  /\ IF HasEmptyKey(call[t])
     THEN Goto(t, "unlock") /\ result' = [result EXCEPT ![t] = "empty key"]
     ELSE Goto(t, "writing") /\ result' = [result EXCEPT ![t] = "ok"]
  /\ UNCHANGED <<db, writer, readers, call, at, left, found, got, steady, calls>>

(* One operation of a write.                                               *)
Write(t) ==
  /\ pc[t] = "writing" /\ at[t] <= Len(call[t].ops)
  /\ LET op == call[t].ops[at[t]] IN db' = [db EXCEPT ![op.key] = op.entry]
  /\ at' = [at EXCEPT ![t] = @ + 1]
  /\ steady' = [u \in Threads |-> steady[u] \intersect SatisfyingKeys(call[u], db')]
  /\ UNCHANGED <<writer, readers, pc, call, left, found, got, result, calls>>

(* Mutant: an error return keeps the lock.                                 *)
UnlockUnlessRefused(t) ==
  /\ pc[t] = "unlock" \/ (pc[t] = "writing" /\ at[t] > Len(call[t].ops))
  /\ writer' = IF pc[t] = "unlock" THEN writer ELSE Nobody
  /\ Goto(t, "return")
  /\ UNCHANGED <<db, readers, call, at, left, found, got, result, steady, calls>>

Unlock(t) ==
  /\ pc[t] = "unlock" \/ (pc[t] = "writing" /\ at[t] > Len(call[t].ops))
  /\ writer' = Nobody
  /\ Goto(t, "return")
  /\ UNCHANGED <<db, readers, call, at, left, found, got, result, steady, calls>>

(* Mutant: only the first term of a query scans the map.                   *)
RLockOnce(t) ==
  /\ MayEnter(t) /\ ~IsWrite(call[t])
  /\ readers' = readers \union {t}
  /\ left' = [left EXCEPT ![t] = IF call[t].kind = "Query" /\ at[t] = 1 THEN Keys ELSE {}]
  /\ found' = [found EXCEPT ![t] = Nothing]
  /\ Goto(t, "reading")
  /\ UNCHANGED <<db, writer, call, at, got, result, steady, calls>>

(* A reader, or the scan of the next term of a query, takes the read lock. *)
RLock(t) ==
  /\ MayEnter(t) /\ ~IsWrite(call[t])
  /\ readers' = readers \union {t}
  /\ left' = [left EXCEPT ![t] = IF call[t].kind = "Query" THEN Keys ELSE {}]
  /\ found' = [found EXCEPT ![t] = Nothing]
  /\ Goto(t, "reading")
  /\ UNCHANGED <<db, writer, call, at, got, result, steady, calls>>

(* Get, GetTags, GetBulk: one key, in the order given.                     *)
Read(t) ==
  /\ pc[t] = "reading" /\ call[t].kind = "Get" /\ at[t] <= Len(call[t].keys)
  /\ got' = [got EXCEPT ![t] = Append(@, db[call[t].keys[at[t]]])]
  /\ at' = [at EXCEPT ![t] = @ + 1]
  /\ UNCHANGED <<db, writer, readers, pc, call, left, found, result, steady, calls>>

(* getMatchingKeysAndDBEntries: one map entry, in any order.               *)
Scan(t) ==
  /\ pc[t] = "reading"
  /\ \E k \in left[t] :
       /\ left' = [left EXCEPT ![t] = @ \ {k}]
       /\ found' = IF Matches(db[k], call[t].terms[at[t]])
                   THEN [found EXCEPT ![t] = [j \in DOMAIN @ \union {k} |-> IF j = k THEN db[k] ELSE @[j]]]
                   ELSE found
  /\ UNCHANGED <<db, writer, readers, pc, call, at, got, result, steady, calls>>

RUnlock(t) ==
  /\ pc[t] = "reading" /\ call[t].kind = "Get" /\ at[t] > Len(call[t].keys)
  /\ readers' = readers \ {t}
  /\ result' = [result EXCEPT ![t] = got[t]]
  /\ Goto(t, "return")
  /\ UNCHANGED <<db, writer, call, at, left, found, got, steady, calls>>

(* commonDBEntries: the keys that the scans of all tag names have, each    *)
(* with the entry seen by the scan that the map iteration reaches last.    *)
Common(scans) ==
  LET names == DOMAIN scans
      common == {k \in Keys : \A n \in names : k \in DOMAIN scans[n]}
  IN  {[k \in common |-> scans[last][k]] : last \in names}

(* A scan is over: its findings replace those of an earlier term with the  *)
(* same tag name.  After the last term Query has its answer.               *)
EndScan(t) ==
  LET name == call[t].terms[at[t]][1]
      scans == [n \in DOMAIN got[t] \union {name} |-> IF n = name THEN found[t] ELSE got[t][n]]
  IN
  /\ pc[t] = "reading" /\ call[t].kind = "Query" /\ left[t] = {}
  /\ readers' = readers \ {t}
  /\ got' = [got EXCEPT ![t] = scans]
  /\ at' = [at EXCEPT ![t] = @ + 1]
  /\ IF at[t] < Len(call[t].terms)
     THEN Goto(t, "entry") /\ UNCHANGED result
     ELSE Goto(t, "return") /\ \E r \in Common(scans) : result' = [result EXCEPT ![t] = r]
  /\ UNCHANGED <<db, writer, call, left, found, steady, calls>>

Return(t) ==
  /\ pc[t] = "return"
  /\ Goto(t, "idle")
  /\ UNCHANGED <<db, writer, readers, call, at, left, found, got, result, steady, calls>>

Acquire(t) == Lock(t) \/ RLock(t)
Work(t) ==
  \/ Refuse(t) \/ Locked(t) \/ Write(t) \/ Unlock(t)
  \/ Read(t) \/ Scan(t) \/ RUnlock(t) \/ EndScan(t) \/ Return(t)

Next == \E t \in Threads : Invoke(t) \/ Acquire(t) \/ Work(t)

(* A goroutine that can run does; a sync.RWMutex starves nobody who waits. *)
Spec ==
  /\ Init /\ [][Next]_vars
  /\ \A t \in Threads : WF_vars(Work(t)) /\ SF_vars(Acquire(t))

-----------------------------------------------------------------------------

TypeOK ==
  /\ DOMAIN db = Keys
  /\ writer \in Threads \union {Nobody}
  /\ readers \subseteq Threads
  /\ pc \in [Threads -> {"idle", "entry", "locking", "writing", "unlock", "reading", "return"}]
  /\ call \in [Threads -> Calls]
  /\ at \in [Threads -> Nat \ {0}]
  /\ left \in [Threads -> SUBSET Keys]
  /\ steady \in [Threads -> SUBSET Keys]
  /\ calls \in 0..MaxCalls

(* Every call takes effect at one moment: a write when it gets the lock,   *)
(* a read when it gives it back.  Nobody sees half of a batch, and a batch *)
(* with an empty key changes nothing.                                      *)
Committed ==
  IF \E t \in Threads : pc[t] = "writing"
  THEN LET t == CHOOSE u \in Threads : pc[u] = "writing" IN Apply(db, call[t].ops, at[t])
  ELSE db
Stage(t) ==
  CASE pc[t] = "idle" -> "idle"
    [] pc[t] \in {"entry", "locking", "reading"} -> "called"
    [] pc[t] \in {"writing", "unlock", "return"} -> "done"
Atomic == INSTANCE AtomicStore
  WITH store <- Committed, stage <- [t \in Threads |-> Stage(t)]
CallsAreAtomic == Atomic!AtomicSpec

(* A query returns each key whose entry satisfied the expression during    *)
(* the whole call.                                                         *)
Answered(t) == pc[t] = "return" /\ call[t].kind = "Query"
QueryMissesNothingSteady ==
  \A t \in Threads : Answered(t) => steady[t] \subseteq DOMAIN result[t]

(* Query returns data that satisfies the expression.                       *)
QueryAnswersSatisfy ==
  \A t \in Threads : Answered(t) =>
    \A k \in DOMAIN result[t] : Satisfies(result[t][k], call[t].terms)

(* Every call returns, whoever else uses the store.                        *)
CallsReturn == \A t \in Threads : pc[t] # "idle" ~> pc[t] = "idle"
=============================================================================

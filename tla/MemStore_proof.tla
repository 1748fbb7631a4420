--------------------------- MODULE MemStore_proof ---------------------------
(***************************************************************************)
(* memStore implements AtomicStore, for any number of goroutines, any keys *)
(* and any calls.  A write takes effect when it gets the lock: the store   *)
(* that the others see is the map with the rest of the writer's operations *)
(* applied, which no operation changes.  A read takes effect when it gives *)
(* the lock back: nobody wrote since it took it.  And a query of several   *)
(* terms, which is not atomic, misses nothing that satisfied it throughout.*)
(***************************************************************************)
EXTENDS MemStore, TLAPS

-----------------------------------------------------------------------------
(* AtomicStore has the operators of StoreCalls by names of its own.        *)
LEMMA SameApply == \A d, ops, i : Atomic!Apply(d, ops, i) = Apply(d, ops, i)
BY DEF Atomic!Apply, Apply, Atomic!The, The

LEMMA SameCalls ==
  \A c : /\ Atomic!IsWrite(c) = IsWrite(c) /\ Atomic!HasEmptyKey(c) = HasEmptyKey(c)
BY DEF Atomic!IsWrite, IsWrite, Atomic!HasEmptyKey, HasEmptyKey

LEMMA SameSatisfies ==
  \A e, terms : Atomic!Satisfies(e, terms) = Satisfies(e, terms)
BY DEF Atomic!Satisfies, Satisfies, Atomic!Matches, Matches

(* One operation of a write, and then the rest.                            *)
LEMMA ApplyStep ==
  ASSUME NEW d, NEW ops, NEW i \in Nat, Len(ops) \in Nat, i <= Len(ops),
         d = [k \in Keys |-> d[k]], ops[i].key \in Keys
  PROVE  Apply([d EXCEPT ![ops[i].key] = ops[i].entry], ops, i + 1) = Apply(d, ops, i)
<1> DEFINE after == [d EXCEPT ![ops[i].key] = ops[i].entry]
           Hits(j, k) == {p \in j..Len(ops) : ops[p].key = k}
           Latest(j, k) == {p \in Hits(j, k) : \A h \in Hits(j, k) : h <= p}
           Value(f, j, k) == IF Hits(j, k) = {} THEN f[k] ELSE ops[The(Latest(j, k))].entry
<1>1. ASSUME NEW k \in Keys PROVE Value(after, i + 1, k) = Value(d, i, k)
  <2>1. Hits(i, k) = Hits(i + 1, k) \union (IF ops[i].key = k THEN {i} ELSE {})
    OBVIOUS
  <2>2. CASE Hits(i + 1, k) = {} /\ ops[i].key = k
    <3>1. Hits(i, k) = {i} /\ Latest(i, k) = {i}
      BY <2>1, <2>2
    <3>2. The({i}) = i
      BY DEF The
    <3>3. Value(d, i, k) = ops[i].entry
      BY <3>1, <3>2
    <3> QED BY <2>2, <3>3
  <2>3. CASE Hits(i + 1, k) = {} /\ ops[i].key # k
    BY <2>1, <2>3
  <2>4. CASE Hits(i + 1, k) # {}
    <3>1. Latest(i, k) = Latest(i + 1, k)
      BY <2>1, <2>4
    <3>2. Hits(i, k) # {}
      BY <2>1, <2>4
    <3> HIDE DEF Latest
    <3> QED BY <2>4, <3>1, <3>2
  <2> QED BY <2>2, <2>3, <2>4
<1>2. Apply(after, ops, i + 1) = [k \in Keys |-> Value(after, i + 1, k)]
  BY DEF Apply
<1>3. Apply(d, ops, i) = [k \in Keys |-> Value(d, i, k)]
  BY DEF Apply
<1> HIDE DEF Value
<1> QED BY <1>1, <1>2, <1>3

(* Nothing is left after the last operation.                               *)
LEMMA ApplyEnd ==
  ASSUME NEW d, NEW ops, NEW i \in Nat, Len(ops) \in Nat, i > Len(ops), d = [k \in Keys |-> d[k]]
  PROVE  Apply(d, ops, i) = d
BY DEF Apply

-----------------------------------------------------------------------------
(* The invariant.                                                          *)

DbInv == db = [k \in Keys |-> db[k]]
ShapeInv ==
  /\ found = [t \in Threads |-> found[t]] /\ got = [t \in Threads |-> got[t]]
  /\ result = [t \in Threads |-> result[t]]

(* Who is about to write, writes or has written holds the lock, and nobody *)
(* reads while it writes.                                                  *)
LockInv ==
  /\ \A t \in Threads : pc[t] \in {"locking", "writing", "unlock"} => writer = t /\ IsWrite(call[t])
  /\ \A t \in Threads : pc[t] = "writing" => readers = {} /\ ~HasEmptyKey(call[t])
  /\ \A t \in Threads : pc[t] = "reading" =>
       t \in readers /\ ~IsWrite(call[t]) /\ ~HasEmptyKey(call[t])

(* Writes and reads begin with the first operation or key; a query is at   *)
(* one of its terms.                                                       *)
AtOK(t) ==
  /\ pc[t] \in {"entry", "locking"} /\ call[t].kind # "Query" => at[t] = 1 /\ got[t] = <<>>
  /\ pc[t] \in {"entry", "reading"} /\ call[t].kind = "Query" => at[t] <= Len(call[t].terms)

(* What has been read is still in the map while the read lock is held.     *)
GetOK(t) ==
  pc[t] = "reading" /\ call[t].kind = "Get" =>
    /\ at[t] <= Len(call[t].keys) + 1
    /\ got[t] = [i \in 1..(at[t] - 1) |-> db[call[t].keys[i]]]
SingleTerm(c) == c.kind = "Query" /\ Len(c.terms) = 1
ScanOK(t) ==
  SingleTerm(call[t]) =>
    /\ pc[t] \in {"entry", "reading"} => at[t] = 1 /\ got[t] = <<>>
    /\ pc[t] = "reading" =>
         found[t] = [k \in {x \in Keys \ left[t] : Matches(db[x], call[t].terms[1])} |-> db[k]]
CallOK(t) == AtOK(t) /\ GetOK(t) /\ ScanOK(t)

Inv == TypeOK /\ DbInv /\ ShapeInv /\ LockInv /\ \A t \in Threads : CallOK(t)

-----------------------------------------------------------------------------
(* A step of t leaves the calls of the others alone; the map it changes    *)
(* only while nobody reads.                                                *)
Local(u) == <<pc[u], call[u], at[u], left[u], found[u], got[u], result[u]>>
LEMMA OthersUntouched ==
  ASSUME NEW u, CallOK(u), Local(u)' = Local(u), db' = db \/ pc[u] # "reading"
  PROVE  CallOK(u)'
<1>1. /\ pc'[u] = pc[u] /\ call'[u] = call[u] /\ at'[u] = at[u] /\ left'[u] = left[u]
      /\ found'[u] = found[u] /\ got'[u] = got[u]
  BY DEF Local
<1>2. AtOK(u)'
  BY <1>1 DEF CallOK, AtOK
<1>3. GetOK(u)'
  BY <1>1 DEF CallOK, GetOK
<1>4. ScanOK(u)'
  BY <1>1 DEF CallOK, ScanOK
<1> QED BY <1>2, <1>3, <1>4 DEF CallOK

(* Nobody writes while somebody reads, and nobody else while one writes.   *)
LEMMA OneWriter ==
  ASSUME LockInv, MemStoreAssumption, NEW t \in Threads
  PROVE  /\ writer = Nobody => \A u \in Threads : pc[u] \notin {"locking", "writing", "unlock"}
         /\ pc[t] \in {"locking", "writing", "unlock"} =>
              \A u \in Threads \ {t} : pc[u] \notin {"locking", "writing", "unlock"}
         /\ pc[t] = "writing" => \A u \in Threads : pc[u] # "reading"
         /\ pc[t] = "reading" => \A u \in Threads : pc[u] # "writing"
BY DEF LockInv, MemStoreAssumption

LEMMA TypesOfCalls ==
  ASSUME NEW c \in Calls
  PROVE  /\ IsWrite(c) =>
              /\ Len(c.ops) \in Nat /\ c.kind \notin {"Get", "Query"}
              /\ \A i \in 1..Len(c.ops) : c.ops[i].key \in Keys \union {EmptyKey}
         /\ ~IsWrite(c) => c.kind \in {"Get", "Query"}
         /\ c.kind = "Get" => ~IsWrite(c) /\ c.keys \in Seq(Keys \union {EmptyKey}) /\ Len(c.keys) \in Nat
         /\ c.kind = "Query" => ~IsWrite(c) /\ ~HasEmptyKey(c) /\ Len(c.terms) \in Nat \ {0}
BY CallsAssumption DEF IsWrite, HasEmptyKey

LEMMA InitInv == Init => Inv
<1> SUFFICES ASSUME Init PROVE Inv
  OBVIOUS
<1>1. (CHOOSE c \in Calls : TRUE) \in Calls
  BY CallsAssumption
<1>2. TypeOK
  BY <1>1, MemStoreAssumption DEF Init, TypeOK
<1>3. DbInv /\ ShapeInv /\ LockInv
  BY DEF Init, DbInv, ShapeInv, LockInv
<1>4. ASSUME NEW t \in Threads PROVE CallOK(t)
  BY <1>1, <1>4, TypesOfCalls DEF Init, CallOK, AtOK, GetOK, ScanOK
<1> QED BY <1>2, <1>3, <1>4 DEF Inv

LEMMA NextInv == Inv /\ [Next]_vars => Inv'
<1> SUFFICES ASSUME Inv, [Next]_vars PROVE Inv'
  OBVIOUS
<1> USE DEF Inv, Goto
<1>1. ASSUME NEW t \in Threads, Invoke(t) PROVE Inv'
  <2>0. PICK c \in Calls : call' = [call EXCEPT ![t] = c] /\ steady' = [steady EXCEPT ![t] = SatisfyingKeys(c, db)]
    BY <1>1 DEF Invoke
  <2>1. TypeOK' /\ DbInv' /\ ShapeInv'
    <3>1. TypeOK'
      BY <1>1, <2>0, MemStoreAssumption DEF Invoke, TypeOK, SatisfyingKeys
    <3>2. DbInv'
      BY <1>1, <2>0 DEF Invoke, DbInv
    <3>3. ShapeInv'
      BY <1>1, <2>0 DEF Invoke, ShapeInv
    <3> QED BY <3>1, <3>2, <3>3
  <2>2. LockInv'
    BY <1>1, <2>0 DEF Invoke, TypeOK, LockInv
  <2>3. ASSUME NEW u \in Threads \ {t} PROVE Local(u)' = Local(u)
    BY <1>1, <2>0 DEF Invoke, TypeOK, ShapeInv, Local
  <2>4. CallOK(t)'
    <3>1. pc'[t] = "entry" /\ call'[t] = c /\ at'[t] = 1 /\ got'[t] = <<>>
      BY <1>1, <2>0 DEF Invoke, TypeOK, ShapeInv
    <3> QED BY <3>1, TypesOfCalls DEF CallOK, AtOK, GetOK, ScanOK
  <2> QED BY <1>1, <2>0, <2>1, <2>2, <2>3, <2>4, OthersUntouched DEF Invoke
<1>2. ASSUME NEW t \in Threads, Refuse(t) PROVE Inv'
  <2>1. TypeOK' /\ DbInv' /\ ShapeInv'
    <3>1. TypeOK'
      BY <1>2 DEF Refuse, TypeOK
    <3>2. DbInv'
      BY <1>2 DEF Refuse, DbInv
    <3>3. ShapeInv'
      BY <1>2 DEF Refuse, ShapeInv
    <3> QED BY <3>1, <3>2, <3>3
  <2>2. LockInv'
    BY <1>2 DEF Refuse, TypeOK, LockInv
  <2>3. ASSUME NEW u \in Threads \ {t} PROVE Local(u)' = Local(u)
    BY <1>2 DEF Refuse, TypeOK, ShapeInv, Local
  <2>4. CallOK(t)'
    BY <1>2 DEF Refuse, TypeOK, ShapeInv, CallOK, AtOK, GetOK, ScanOK
  <2> QED BY <1>2, <2>1, <2>2, <2>3, <2>4, OthersUntouched DEF Refuse
<1>3. ASSUME NEW t \in Threads, Lock(t) PROVE Inv'
  <2>1. TypeOK' /\ DbInv' /\ ShapeInv'
    <3>1. TypeOK'
      BY <1>3 DEF Lock, MayEnter, TypeOK
    <3>2. DbInv'
      BY <1>3 DEF Lock, MayEnter, DbInv
    <3>3. ShapeInv'
      BY <1>3 DEF Lock, MayEnter, ShapeInv
    <3> QED BY <3>1, <3>2, <3>3
  <2>2. LockInv'
    BY <1>3, OneWriter, MemStoreAssumption DEF Lock, MayEnter, TypeOK, LockInv
  <2>3. ASSUME NEW u \in Threads \ {t} PROVE Local(u)' = Local(u)
    BY <1>3 DEF Lock, MayEnter, TypeOK, ShapeInv, Local
  <2>4. CallOK(t)'
    BY <1>3 DEF Lock, MayEnter, TypeOK, ShapeInv, CallOK, AtOK, GetOK, ScanOK
  <2> QED BY <1>3, <2>1, <2>2, <2>3, <2>4, OthersUntouched DEF Lock
<1>4. ASSUME NEW t \in Threads, Locked(t) PROVE Inv'
  <2>1. TypeOK' /\ DbInv' /\ ShapeInv'
    <3>1. TypeOK'
      BY <1>4 DEF Locked, TypeOK
    <3>2. DbInv'
      BY <1>4 DEF Locked, DbInv
    <3>3. ShapeInv'
      BY <1>4 DEF Locked, ShapeInv
    <3> QED BY <3>1, <3>2, <3>3
  <2>2. LockInv'
    BY <1>4 DEF Locked, TypeOK, LockInv
  <2>3. ASSUME NEW u \in Threads \ {t} PROVE Local(u)' = Local(u)
    BY <1>4 DEF Locked, TypeOK, ShapeInv, Local
  <2>4. CallOK(t)'
    BY <1>4 DEF Locked, TypeOK, ShapeInv, CallOK, AtOK, GetOK, ScanOK
  <2> QED BY <1>4, <2>1, <2>2, <2>3, <2>4, OthersUntouched DEF Locked
<1>5. ASSUME NEW t \in Threads, Write(t) PROVE Inv'
  <2>1. TypeOK' /\ DbInv' /\ ShapeInv'
    <3>1. TypeOK'
      BY <1>5 DEF Write, TypeOK
    <3>2. DbInv'
      BY <1>5 DEF Write, DbInv
    <3>3. ShapeInv'
      BY <1>5 DEF Write, ShapeInv
    <3> QED BY <3>1, <3>2, <3>3
  <2>2. LockInv'
    BY <1>5 DEF Write, TypeOK, LockInv
  <2>3. ASSUME NEW u \in Threads \ {t} PROVE Local(u)' = Local(u)
    BY <1>5 DEF Write, TypeOK, ShapeInv, Local
  <2>4. CallOK(t)'
    BY <1>5, TypesOfCalls DEF Write, LockInv, TypeOK, CallOK, AtOK, GetOK, ScanOK, SingleTerm
  <2>5. \A u \in Threads : pc[u] # "reading"
    BY <1>5, OneWriter, MemStoreAssumption DEF Write
  <2> QED BY <1>5, <2>1, <2>2, <2>3, <2>4, OthersUntouched, <2>5
<1>6. ASSUME NEW t \in Threads, Unlock(t) PROVE Inv'
  <2>1. TypeOK' /\ DbInv' /\ ShapeInv'
    <3>1. TypeOK'
      BY <1>6 DEF Unlock, TypeOK
    <3>2. DbInv'
      BY <1>6 DEF Unlock, DbInv
    <3>3. ShapeInv'
      BY <1>6 DEF Unlock, ShapeInv
    <3> QED BY <3>1, <3>2, <3>3
  <2>2. LockInv'
    BY <1>6, OneWriter, MemStoreAssumption DEF Unlock, TypeOK, LockInv
  <2>3. ASSUME NEW u \in Threads \ {t} PROVE Local(u)' = Local(u)
    BY <1>6 DEF Unlock, TypeOK, ShapeInv, Local
  <2>4. CallOK(t)'
    BY <1>6 DEF Unlock, TypeOK, ShapeInv, CallOK, AtOK, GetOK, ScanOK
  <2> QED BY <1>6, <2>1, <2>2, <2>3, <2>4, OthersUntouched DEF Unlock
<1>7. ASSUME NEW t \in Threads, RLock(t) PROVE Inv'
  <2>1. TypeOK' /\ DbInv' /\ ShapeInv'
    <3>1. TypeOK'
      BY <1>7 DEF RLock, MayEnter, TypeOK
    <3>2. DbInv'
      BY <1>7 DEF RLock, MayEnter, DbInv
    <3>3. ShapeInv'
      BY <1>7 DEF RLock, MayEnter, ShapeInv
    <3> QED BY <3>1, <3>2, <3>3
  <2>2. LockInv'
    BY <1>7, OneWriter, MemStoreAssumption DEF RLock, MayEnter, TypeOK, LockInv, IsWrite
  <2>3. ASSUME NEW u \in Threads \ {t} PROVE Local(u)' = Local(u)
    BY <1>7 DEF RLock, MayEnter, TypeOK, ShapeInv, Local
  <2>4. CallOK(t)'
    <3>1. /\ pc'[t] = "reading" /\ call'[t] = call[t] /\ at'[t] = at[t] /\ got'[t] = got[t]
          /\ left'[t] = IF call[t].kind = "Query" THEN Keys ELSE {}
          /\ found'[t] = Nothing /\ pc[t] = "entry" /\ db' = db
      BY <1>7 DEF RLock, MayEnter, TypeOK, ShapeInv
    <3>2. AtOK(t)'
      BY <3>1 DEF CallOK, AtOK
    <3>3. call[t].kind = "Get" => Len(call[t].keys) \in Nat /\ at[t] = 1 /\ got[t] = <<>>
      BY <3>1, TypesOfCalls DEF TypeOK, CallOK, AtOK
    <3>4. <<>> = [i \in 1..(1 - 1) |-> db[call[t].keys[i]]]
      OBVIOUS
    <3>5. GetOK(t)'
      BY <3>1, <3>3, <3>4 DEF GetOK
    <3>6. Nothing = [k \in {x \in Keys \ Keys : Matches(db[x], call[t].terms[1])} |-> db[k]]
      BY DEF Nothing
    <3>7. ScanOK(t)'
      BY <3>1, <3>6 DEF CallOK, ScanOK, SingleTerm
    <3> QED BY <3>2, <3>5, <3>7 DEF CallOK
  <2> QED BY <1>7, <2>1, <2>2, <2>3, <2>4, OthersUntouched DEF RLock
<1>8. ASSUME NEW t \in Threads, Read(t) PROVE Inv'
  <2>1. TypeOK' /\ DbInv' /\ ShapeInv'
    <3>1. TypeOK'
      BY <1>8 DEF Read, TypeOK
    <3>2. DbInv'
      BY <1>8 DEF Read, DbInv
    <3>3. ShapeInv'
      BY <1>8 DEF Read, ShapeInv
    <3> QED BY <3>1, <3>2, <3>3
  <2>2. LockInv'
    BY <1>8 DEF Read, TypeOK, LockInv
  <2>3. ASSUME NEW u \in Threads \ {t} PROVE Local(u)' = Local(u)
    BY <1>8 DEF Read, TypeOK, ShapeInv, Local
  <2>4. CallOK(t)'
    <3>1. /\ pc[t] = "reading" /\ pc' = pc /\ call' = call /\ db' = db /\ call[t].kind = "Get"
          /\ at'[t] = at[t] + 1 /\ got'[t] = Append(got[t], db[call[t].keys[at[t]]])
          /\ at[t] \in Nat \ {0} /\ at[t] <= Len(call[t].keys) /\ Len(call[t].keys) \in Nat
      BY <1>8, TypesOfCalls DEF Read, TypeOK, ShapeInv
    <3>2. got[t] = [i \in 1..(at[t] - 1) |-> db[call[t].keys[i]]]
      BY <3>1 DEF CallOK, GetOK
    <3>3. Append(got[t], db[call[t].keys[at[t]]]) = [i \in 1..at[t] |-> db[call[t].keys[i]]]
      BY <3>1, <3>2
    <3>4. GetOK(t)'
      BY <3>1, <3>3 DEF GetOK
    <3> QED BY <3>1, <3>4 DEF CallOK, AtOK, ScanOK, SingleTerm
  <2> QED BY <1>8, <2>1, <2>2, <2>3, <2>4, OthersUntouched DEF Read
<1>9. ASSUME NEW t \in Threads, Scan(t) PROVE Inv'
  <2>0. PICK k \in left[t] :
          /\ left' = [left EXCEPT ![t] = @ \ {k}]
          /\ found' = IF Matches(db[k], call[t].terms[at[t]])
                      THEN [found EXCEPT ![t] = [j \in DOMAIN @ \union {k} |-> IF j = k THEN db[k] ELSE @[j]]]
                      ELSE found
    BY <1>9 DEF Scan
  <2>1. TypeOK' /\ DbInv' /\ ShapeInv'
    <3>1. TypeOK'
      BY <1>9, <2>0 DEF Scan, TypeOK
    <3>2. DbInv'
      BY <1>9, <2>0 DEF Scan, DbInv
    <3>3. ShapeInv'
      BY <1>9, <2>0 DEF Scan, ShapeInv
    <3> QED BY <3>1, <3>2, <3>3
  <2>2. LockInv'
    BY <1>9, <2>0 DEF Scan, TypeOK, LockInv
  <2>3. ASSUME NEW u \in Threads \ {t} PROVE Local(u)' = Local(u)
    BY <1>9, <2>0 DEF Scan, TypeOK, ShapeInv, Local
  <2>4. CallOK(t)'
    <3>1. /\ pc[t] = "reading" /\ pc' = pc /\ call' = call /\ db' = db /\ at' = at /\ got' = got
          /\ left'[t] = left[t] \ {k} /\ k \in Keys
          /\ found'[t] = IF Matches(db[k], call[t].terms[at[t]])
                         THEN [j \in DOMAIN found[t] \union {k} |-> IF j = k THEN db[k] ELSE found[t][j]]
                         ELSE found[t]
      BY <1>9, <2>0 DEF Scan, TypeOK, ShapeInv
    <3>2. AtOK(t)' /\ GetOK(t)'
      BY <3>1 DEF CallOK, AtOK, GetOK
    <3>3. ScanOK(t)'
      <4> SUFFICES ASSUME SingleTerm(call[t]) PROVE ScanOK(t)'
        BY <3>1 DEF ScanOK
      <4>1. /\ at[t] = 1 /\ got[t] = <<>>
            /\ found[t] = [j \in {x \in Keys \ left[t] : Matches(db[x], call[t].terms[1])} |-> db[j]]
        BY <3>1 DEF CallOK, ScanOK
      <4>2. found'[t] = [j \in {x \in Keys \ left'[t] : Matches(db[x], call[t].terms[1])} |-> db[j]]
        <5>1. CASE Matches(db[k], call[t].terms[1])
          BY <3>1, <4>1, <5>1
        <5>2. CASE ~Matches(db[k], call[t].terms[1])
          BY <3>1, <4>1, <5>2
        <5> QED BY <5>1, <5>2
      <4> QED BY <3>1, <4>1, <4>2 DEF ScanOK
    <3> QED BY <3>2, <3>3 DEF CallOK
  <2> QED BY <1>9, <2>0, <2>1, <2>2, <2>3, <2>4, OthersUntouched DEF Scan
<1>10. ASSUME NEW t \in Threads, RUnlock(t) PROVE Inv'
  <2>1. TypeOK' /\ DbInv' /\ ShapeInv'
    <3>1. TypeOK'
      BY <1>10 DEF RUnlock, TypeOK
    <3>2. DbInv'
      BY <1>10 DEF RUnlock, DbInv
    <3>3. ShapeInv'
      BY <1>10 DEF RUnlock, ShapeInv
    <3> QED BY <3>1, <3>2, <3>3
  <2>2. LockInv'
    BY <1>10 DEF RUnlock, TypeOK, LockInv
  <2>3. ASSUME NEW u \in Threads \ {t} PROVE Local(u)' = Local(u)
    BY <1>10 DEF RUnlock, TypeOK, ShapeInv, Local
  <2>4. CallOK(t)'
    BY <1>10 DEF RUnlock, TypeOK, ShapeInv, CallOK, AtOK, GetOK, ScanOK
  <2> QED BY <1>10, <2>1, <2>2, <2>3, <2>4, OthersUntouched DEF RUnlock
<1>11. ASSUME NEW t \in Threads, EndScan(t) PROVE Inv'
  <2>1. TypeOK' /\ DbInv' /\ ShapeInv'
    <3>1. TypeOK'
      <4>1. /\ pc' = [pc EXCEPT ![t] = "entry"] \/ pc' = [pc EXCEPT ![t] = "return"]
            /\ readers' = readers \ {t} /\ at' = [at EXCEPT ![t] = @ + 1]
            /\ UNCHANGED <<db, writer, call, left, steady, calls>>
        BY <1>11 DEF EndScan
      <4> QED BY <4>1 DEF TypeOK
    <3>2. DbInv'
      BY <1>11 DEF EndScan, DbInv
    <3>3. ShapeInv'
      BY <1>11 DEF EndScan, ShapeInv
    <3> QED BY <3>1, <3>2, <3>3
  <2>2. LockInv'
    BY <1>11 DEF EndScan, TypeOK, LockInv
  <2>3. ASSUME NEW u \in Threads \ {t} PROVE Local(u)' = Local(u)
    BY <1>11 DEF EndScan, TypeOK, ShapeInv, Local
  <2>4. CallOK(t)'
    <3>1. /\ call' = call /\ at'[t] = at[t] + 1 /\ at[t] \in Nat \ {0} /\ call[t].kind = "Query"
          /\ Len(call[t].terms) \in Nat \ {0} /\ pc[t] = "reading"
          /\ pc'[t] = IF at[t] < Len(call[t].terms) THEN "entry" ELSE "return"
      BY <1>11, TypesOfCalls DEF EndScan, TypeOK
    <3>2. ScanOK(t)
      BY DEF CallOK
    <3>3. SingleTerm(call[t]) => pc'[t] = "return"
      BY <3>1, <3>2 DEF ScanOK, SingleTerm
    <3> QED BY <3>1, <3>3 DEF CallOK, AtOK, GetOK, ScanOK
  <2> QED BY <1>11, <2>1, <2>2, <2>3, <2>4, OthersUntouched DEF EndScan
<1>12. ASSUME NEW t \in Threads, Return(t) PROVE Inv'
  <2>1. TypeOK' /\ DbInv' /\ ShapeInv'
    <3>1. TypeOK'
      BY <1>12 DEF Return, TypeOK
    <3>2. DbInv'
      BY <1>12 DEF Return, DbInv
    <3>3. ShapeInv'
      BY <1>12 DEF Return, ShapeInv
    <3> QED BY <3>1, <3>2, <3>3
  <2>2. LockInv'
    BY <1>12 DEF Return, TypeOK, LockInv
  <2>3. ASSUME NEW u \in Threads \ {t} PROVE Local(u)' = Local(u)
    BY <1>12 DEF Return, TypeOK, ShapeInv, Local
  <2>4. CallOK(t)'
    BY <1>12 DEF Return, TypeOK, ShapeInv, CallOK, AtOK, GetOK, ScanOK
  <2> QED BY <1>12, <2>1, <2>2, <2>3, <2>4, OthersUntouched DEF Return
<1>13. CASE UNCHANGED vars
  <2>1. TypeOK' /\ DbInv' /\ ShapeInv' /\ LockInv'
    BY <1>13 DEF vars, TypeOK, DbInv, ShapeInv, LockInv
  <2>2. \A u \in Threads : Local(u)' = Local(u) /\ db' = db
    BY <1>13 DEF vars, Local
  <2> QED BY <2>1, <2>2, OthersUntouched
<1> QED BY <1>1, <1>2, <1>3, <1>4, <1>5, <1>6, <1>7, <1>8, <1>9, <1>10, <1>11, <1>12, <1>13
        DEF Next, Acquire, Work

-----------------------------------------------------------------------------
(* The refinement.                                                         *)

Stages == [t \in Threads |-> Stage(t)]

(* What the others see of the store: the map, with the rest of the         *)
(* operations of the one that writes.                                      *)
LEMMA CommittedIsWritten ==
  ASSUME Inv, NEW t \in Threads, pc[t] = "writing"
  PROVE  Committed = Apply(db, call[t].ops, at[t])
<1>1. \A u \in Threads \ {t} : pc[u] # "writing"
  BY OneWriter, MemStoreAssumption DEF Inv
<1>2. (CHOOSE u \in Threads : pc[u] = "writing") = t
  BY <1>1
<1> QED BY <1>2 DEF Committed

LEMMA CommittedIsTheMap ==
  ASSUME \A t \in Threads : pc[t] # "writing"
  PROVE  Committed = db
BY DEF Committed

(* A step that leaves the writer alone leaves what they see alone.         *)
LEMMA CommittedStays ==
  ASSUME Inv, Inv', db' = db,
         \A u \in Threads : pc'[u] = "writing" <=> pc[u] = "writing",
         \A u \in Threads : pc[u] = "writing" => call'[u] = call[u] /\ at'[u] = at[u]
  PROVE  Committed' = Committed
<1>1. CASE \A t \in Threads : pc[t] # "writing"
  BY <1>1, CommittedIsTheMap DEF Committed
<1>2. ASSUME NEW t \in Threads, pc[t] = "writing" PROVE Committed' = Committed
  <2>1. Committed = Apply(db, call[t].ops, at[t])
    BY <1>2, CommittedIsWritten
  <2>2. \A u \in Threads : pc'[u] = "writing" => u = t
    BY <1>2, OneWriter, MemStoreAssumption DEF Inv
  <2>3. (CHOOSE u \in Threads : pc'[u] = "writing") = t
    BY <1>2, <2>2
  <2>4. Committed' = Apply(db', call'[t].ops, at'[t])
    BY <1>2, <2>3 DEF Committed
  <2>5. call'[t] = call[t] /\ at'[t] = at[t]
    BY <1>2
  <2> QED BY <2>1, <2>4, <2>5
<1> QED BY <1>1, <1>2

(* The answers that AtomicStore promises.                                  *)
LEMMA Answers ==
  ASSUME NEW c \in Calls, NEW d
  PROVE  /\ HasEmptyKey(c) => Atomic!Answer(c, d) = "empty key"
         /\ IsWrite(c) /\ ~HasEmptyKey(c) => Atomic!Answer(c, d) = "ok"
         /\ c.kind = "Get" /\ ~HasEmptyKey(c) =>
              Atomic!Answer(c, d) = [i \in 1..Len(c.keys) |-> d[c.keys[i]]]
         /\ c.kind = "Query" =>
              Atomic!Answer(c, d) = [k \in {x \in Keys : Satisfies(d[x], c.terms)} |-> d[k]]
<1>1. c.kind = "Query" => ~IsWrite(c) /\ ~HasEmptyKey(c)
  BY TypesOfCalls
<1>2. c.kind = "Get" => ~IsWrite(c)
  BY TypesOfCalls
<1>3. /\ Atomic!IsWrite(c) = IsWrite(c) /\ Atomic!HasEmptyKey(c) = HasEmptyKey(c)
      /\ \A x \in Keys : Atomic!Satisfies(d[x], c.terms) = Satisfies(d[x], c.terms)
  BY SameCalls, SameSatisfies
<1>4. HasEmptyKey(c) => Atomic!Answer(c, d) = "empty key"
  BY <1>1, <1>3 DEF Atomic!Answer
<1>5. IsWrite(c) /\ ~HasEmptyKey(c) => Atomic!Answer(c, d) = "ok"
  BY <1>1, <1>2, <1>3 DEF Atomic!Answer
<1>6. c.kind = "Get" /\ ~HasEmptyKey(c) => Atomic!Answer(c, d) = [i \in 1..Len(c.keys) |-> d[c.keys[i]]]
  BY <1>2, <1>3 DEF Atomic!Answer
<1>7. c.kind = "Query" =>
        Atomic!Answer(c, d) = [k \in {x \in Keys : Atomic!Satisfies(d[x], c.terms)} |-> d[k]]
  BY <1>1, <1>3 DEF Atomic!Answer
<1>8. {x \in Keys : Atomic!Satisfies(d[x], c.terms)} = {x \in Keys : Satisfies(d[x], c.terms)}
  BY <1>3
<1> QED BY <1>4, <1>5, <1>6, <1>7, <1>8

(* A query has one term or more.                                           *)
LEMMA OneOrMoreTerms ==
  ASSUME NEW c, c.kind = "Query", Len(c.terms) \in Nat \ {0}
  PROVE  Atomic!HasSeveralTerms(c) \/ SingleTerm(c)
<1>1. \A n \in Nat \ {0} : n > 1 \/ n = 1
  OBVIOUS
<1> QED BY <1>1 DEF Atomic!HasSeveralTerms, SingleTerm

LEMMA InitRefines == Init => Atomic!AtomicInit
<1> SUFFICES ASSUME Init PROVE Atomic!AtomicInit
  OBVIOUS
<1>1. Committed = [k \in Keys |-> NoEntry]
  BY CommittedIsTheMap DEF Init
<1>2. [t \in Threads |-> Stage(t)] = [t \in Threads |-> "idle"]
  BY DEF Init, Stage
<1>3. call \in [Threads -> Calls]
  BY InitInv DEF Inv, TypeOK
<1> QED BY <1>1, <1>2, <1>3 DEF Init, Atomic!AtomicInit

LEMMA NextRefines ==
  Inv /\ Inv' /\ [Next]_vars => [Atomic!AtomicNext]_(Atomic!atomicVars)
<1> SUFFICES ASSUME Inv, Inv', [Next]_vars PROVE [Atomic!AtomicNext]_(Atomic!atomicVars)
  OBVIOUS
<1> USE DEF Goto
<1>1. pc \in [Threads -> {"idle", "entry", "locking", "writing", "unlock", "reading", "return"}]
  BY DEF Inv, TypeOK
<1>2. ASSUME NEW t \in Threads, Invoke(t) PROVE Atomic!Invoke(t)
  <2>1. pc[t] = "idle" /\ pc' = [pc EXCEPT ![t] = "entry"] /\ db' = db
        /\ \A u \in Threads \ {t} : at'[u] = at[u] /\ call'[u] = call[u]
    BY <1>1, <1>2 DEF Invoke, Inv, TypeOK
  <2>2. Committed' = Committed
    BY <1>1, <2>1, CommittedStays
  <2>3. Stages' = [Stages EXCEPT ![t] = "called"] /\ Stages[t] = "idle"
    BY <1>1, <2>1 DEF Stages, Stage
  <2> QED BY <1>2, <2>2, <2>3 DEF Invoke, Atomic!Invoke, Stages
<1>3. ASSUME NEW t \in Threads, Refuse(t) PROVE Atomic!TakeEffect(t)
  <2>1. pc[t] = "entry" /\ pc' = [pc EXCEPT ![t] = "return"] /\ db' = db /\ call' = call /\ at' = at
        /\ HasEmptyKey(call[t])
    BY <1>3 DEF Refuse
  <2>2. Committed' = Committed
    BY <1>1, <2>1, CommittedStays
  <2>3. Stages' = [Stages EXCEPT ![t] = "done"] /\ Stages[t] = "called"
    BY <1>1, <2>1 DEF Stages, Stage
  <2>4. ~Atomic!HasSeveralTerms(call[t])
    BY <2>1, TypesOfCalls DEF Atomic!HasSeveralTerms, Inv, TypeOK
  <2>5. Atomic!Answer(call[t], Committed) = "empty key"
    BY <2>1, Answers DEF Inv, TypeOK
  <2> QED BY <1>3, <2>1, <2>2, <2>3, <2>4, <2>5, SameCalls DEF Refuse, Atomic!TakeEffect, Stages
<1>4. ASSUME NEW t \in Threads, Lock(t) \/ RLock(t) \/ Read(t) \/ Scan(t)
      PROVE  UNCHANGED Atomic!atomicVars
  <2>1. /\ db' = db /\ call' = call /\ result' = result /\ \A u \in Threads \ {t} : at'[u] = at[u]
        /\ \/ pc' = pc
           \/ pc[t] = "entry" /\ (pc' = [pc EXCEPT ![t] = "locking"] \/ pc' = [pc EXCEPT ![t] = "reading"])
        /\ pc[t] # "writing"
    BY <1>4 DEF Lock, RLock, MayEnter, Read, Scan, Inv, TypeOK
  <2>2. Committed' = Committed
    BY <1>1, <2>1, CommittedStays
  <2>3. Stages' = Stages
    BY <1>1, <2>1 DEF Stages, Stage
  <2> QED BY <2>1, <2>2, <2>3 DEF Atomic!atomicVars, Stages
<1>5. ASSUME NEW t \in Threads, Locked(t) PROVE Atomic!TakeEffect(t)
  <2>1. /\ pc[t] = "locking" /\ db' = db /\ call' = call /\ at' = at /\ IsWrite(call[t]) /\ at[t] = 1
        /\ call[t] \in Calls
    BY <1>5, TypesOfCalls DEF Locked, Inv, TypeOK, LockInv, CallOK, AtOK
  <2>2. \A u \in Threads : pc[u] # "writing"
    BY <2>1, OneWriter, MemStoreAssumption DEF Inv
  <2>3. Committed = db
    BY <2>2, CommittedIsTheMap
  <2>4. ~Atomic!HasSeveralTerms(call[t])
    BY <2>1, TypesOfCalls DEF Atomic!HasSeveralTerms
  <2>5. Stages' = [Stages EXCEPT ![t] = "done"] /\ Stages[t] = "called"
    BY <1>1, <1>5 DEF Locked, Stages, Stage
  <2>6. CASE HasEmptyKey(call[t])
    <3>1. pc' = [pc EXCEPT ![t] = "unlock"] /\ result' = [result EXCEPT ![t] = "empty key"]
      BY <1>5, <2>6 DEF Locked
    <3>2. Committed' = Committed
      BY <1>1, <2>1, <2>2, <3>1, CommittedStays
    <3>3. Atomic!Answer(call[t], Committed) = "empty key"
      BY <2>1, <2>6, Answers
    <3> QED BY <2>1, <2>4, <2>5, <2>6, <3>1, <3>2, <3>3, SameCalls DEF Atomic!TakeEffect, Stages
  <2>7. CASE ~HasEmptyKey(call[t])
    <3>1. pc' = [pc EXCEPT ![t] = "writing"] /\ result' = [result EXCEPT ![t] = "ok"]
      BY <1>5, <2>7 DEF Locked
    <3>2. (CHOOSE u \in Threads : pc'[u] = "writing") = t /\ pc'[t] = "writing"
      BY <1>1, <2>2, <3>1
    <3>3. Committed' = Apply(db, call[t].ops, 1)
      BY <2>1, <3>2 DEF Committed
    <3>4. Atomic!Answer(call[t], Committed) = "ok"
      BY <2>1, <2>7, Answers
    <3>5. Committed' = Atomic!Apply(Committed, call[t].ops, 1)
      BY <2>3, <3>3, SameApply
    <3> QED BY <2>1, <2>4, <2>5, <2>7, <3>1, <3>4, <3>5, SameCalls DEF Atomic!TakeEffect, Stages
  <2> QED BY <2>6, <2>7
<1>6. ASSUME NEW t \in Threads, Write(t) PROVE UNCHANGED Atomic!atomicVars
  <2>1. /\ pc[t] = "writing" /\ pc' = pc /\ call' = call /\ result' = result
        /\ at[t] \in Nat \ {0} /\ at[t] <= Len(call[t].ops) /\ at'[t] = at[t] + 1
        /\ db' = [db EXCEPT ![call[t].ops[at[t]].key] = call[t].ops[at[t]].entry]
        /\ db = [k \in Keys |-> db[k]]
    BY <1>6 DEF Write, Inv, TypeOK, DbInv
  <2>2. Len(call[t].ops) \in Nat /\ call[t].ops[at[t]].key \in Keys
    BY <2>1, TypesOfCalls DEF Inv, TypeOK, LockInv, HasEmptyKey
  <2>3. Committed = Apply(db, call[t].ops, at[t])
    BY <2>1, CommittedIsWritten
  <2>4. \A u \in Threads : pc[u] = "writing" => u = t
    BY <2>1, OneWriter, MemStoreAssumption DEF Inv
  <2>5. (CHOOSE u \in Threads : pc'[u] = "writing") = t
    BY <2>1, <2>4
  <2>6. Committed' = Apply(db', call'[t].ops, at'[t])
    BY <2>1, <2>5 DEF Committed
  <2>7. Apply([db EXCEPT ![call[t].ops[at[t]].key] = call[t].ops[at[t]].entry], call[t].ops, at[t] + 1)
          = Apply(db, call[t].ops, at[t])
    BY <2>1, <2>2, ApplyStep
  <2>8. Committed' = Committed
    BY <2>1, <2>3, <2>6, <2>7
  <2> QED BY <2>1, <2>8 DEF Atomic!atomicVars, Stage
<1>7. ASSUME NEW t \in Threads, Unlock(t) PROVE UNCHANGED Atomic!atomicVars
  <2>1. /\ pc[t] \in {"unlock", "writing"} /\ pc' = [pc EXCEPT ![t] = "return"]
        /\ db' = db /\ call' = call /\ result' = result
        /\ pc[t] = "writing" => at[t] > Len(call[t].ops)
    BY <1>7 DEF Unlock
  <2>2. \A u \in Threads \ {t} : pc[u] # "writing"
    BY <2>1, OneWriter, MemStoreAssumption DEF Inv
  <2>3. Committed' = db
    BY <1>1, <2>1, <2>2 DEF Committed
  <2>4. Committed = db
    <3>1. CASE pc[t] = "writing"
      <4>1. Len(call[t].ops) \in Nat /\ at[t] \in Nat
        BY <3>1, TypesOfCalls DEF Inv, TypeOK, LockInv
      <4> QED BY <2>1, <3>1, <4>1, CommittedIsWritten, ApplyEnd DEF Inv, DbInv
    <3>2. CASE pc[t] # "writing"
      BY <2>2, <3>2, CommittedIsTheMap
    <3> QED BY <3>1, <3>2
  <2>5. Stages' = Stages
    BY <1>1, <2>1 DEF Stages, Stage
  <2> QED BY <2>1, <2>3, <2>4, <2>5 DEF Atomic!atomicVars, Stages
<1>8. ASSUME NEW t \in Threads, RUnlock(t) PROVE Atomic!TakeEffect(t)
  <2>1. /\ pc[t] = "reading" /\ call[t].kind = "Get" /\ at[t] > Len(call[t].keys)
        /\ result' = [result EXCEPT ![t] = got[t]] /\ pc' = [pc EXCEPT ![t] = "return"]
        /\ db' = db /\ call' = call /\ at' = at /\ ~HasEmptyKey(call[t]) /\ ~IsWrite(call[t])
        /\ call[t] \in Calls
    BY <1>8 DEF RUnlock, Inv, TypeOK, LockInv
  <2>2. \A u \in Threads : pc[u] # "writing"
    BY <2>1, OneWriter, MemStoreAssumption DEF Inv
  <2>3. Committed = db /\ Committed' = Committed
    BY <1>1, <2>1, <2>2, CommittedIsTheMap, CommittedStays
  <2>4. at[t] = Len(call[t].keys) + 1 /\ Len(call[t].keys) \in Nat
    <3>1. at[t] \in Nat /\ Len(call[t].keys) \in Nat
      BY <2>1, TypesOfCalls DEF Inv, TypeOK
    <3>2. GetOK(t)
      BY DEF Inv, CallOK
    <3> QED BY <2>1, <3>1, <3>2 DEF GetOK
  <2>5. got[t] = [i \in 1..Len(call[t].keys) |-> db[call[t].keys[i]]]
    <3>1. GetOK(t)
      BY DEF Inv, CallOK
    <3> QED BY <2>1, <2>4, <3>1 DEF GetOK
  <2>6. Atomic!Answer(call[t], Committed) = got[t]
    BY <2>1, <2>3, <2>5, Answers
  <2>7. Stages' = [Stages EXCEPT ![t] = "done"] /\ Stages[t] = "called"
    BY <1>1, <2>1 DEF Stages, Stage
  <2>8. ~Atomic!HasSeveralTerms(call[t])
    BY <2>1 DEF Atomic!HasSeveralTerms
  <2> QED BY <2>1, <2>3, <2>6, <2>7, <2>8, SameCalls DEF Atomic!TakeEffect, Stages
<1>9. ASSUME NEW t \in Threads, EndScan(t) PROVE Atomic!TakeEffect(t) \/ UNCHANGED Atomic!atomicVars
  <2>1. /\ pc[t] = "reading" /\ call[t].kind = "Query" /\ left[t] = {}
        /\ db' = db /\ call' = call /\ \A u \in Threads \ {t} : at'[u] = at[u]
        /\ ~HasEmptyKey(call[t]) /\ ~IsWrite(call[t]) /\ call[t] \in Calls
    BY <1>9 DEF EndScan, Inv, TypeOK, LockInv
  <2>2. \A u \in Threads : pc[u] # "writing"
    BY <2>1, OneWriter, MemStoreAssumption DEF Inv
  <2>9. Atomic!HasSeveralTerms(call[t]) \/ SingleTerm(call[t])
    BY <2>1, TypesOfCalls, OneOrMoreTerms
  <2>3. CASE at[t] < Len(call[t].terms)
    <3>1. pc' = [pc EXCEPT ![t] = "entry"] /\ result' = result
      BY <1>9, <2>3 DEF EndScan
    <3>2. Committed' = Committed
      BY <1>1, <2>1, <2>2, <3>1, CommittedStays
    <3>3. Stages' = Stages
      BY <1>1, <2>1, <3>1 DEF Stages, Stage
    <3> QED BY <2>1, <3>1, <3>2, <3>3 DEF Atomic!atomicVars, Stages
  <2>4. CASE ~(at[t] < Len(call[t].terms))
    <3> DEFINE name == call[t].terms[at[t]][1]
               scans == [n \in DOMAIN got[t] \union {name} |-> IF n = name THEN found[t] ELSE got[t][n]]
    <3>1. PICK r \in Common(scans) : result' = [result EXCEPT ![t] = r]
      BY <1>9, <2>4 DEF EndScan
    <3>2. pc' = [pc EXCEPT ![t] = "return"]
      BY <1>9, <2>4 DEF EndScan
    <3>3. Committed = db /\ Committed' = Committed
      BY <1>1, <2>1, <2>2, <3>2, CommittedIsTheMap, CommittedStays
    <3>4. Stages' = [Stages EXCEPT ![t] = "done"] /\ Stages[t] = "called"
      BY <1>1, <2>1, <3>2 DEF Stages, Stage
    <3>5. Atomic!HasSeveralTerms(call[t]) => \A u \in Threads \ {t} : result'[u] = result[u]
      BY <3>1 DEF Inv, ShapeInv
    <3>6. ASSUME ~Atomic!HasSeveralTerms(call[t]) PROVE r = Atomic!Answer(call[t], Committed)
      <4>1. SingleTerm(call[t])
        BY <2>9, <3>6
      <4>2. /\ at[t] = 1 /\ got[t] = <<>>
            /\ found[t] = [k \in {x \in Keys : Matches(db[x], call[t].terms[1])} |-> db[k]]
        BY <2>1, <4>1 DEF Inv, CallOK, ScanOK
      <4>3. DOMAIN scans = {name} /\ scans[name] = found[t]
        BY <4>2
      <4>4. r = found[t]
        <5>1. r = [k \in {x \in Keys : x \in DOMAIN found[t]} |-> found[t][k]]
          <6> HIDE DEF scans, name
          <6> QED BY <4>3 DEF Common
        <5>2. {x \in Keys : x \in DOMAIN found[t]} = DOMAIN found[t]
          BY <4>2
        <5> QED BY <4>2, <5>1, <5>2
      <4>5. {x \in Keys : Matches(db[x], call[t].terms[1])} = {x \in Keys : Satisfies(db[x], call[t].terms)}
        BY <4>1 DEF Satisfies, SingleTerm
      <4>6. Atomic!Answer(call[t], db) = [k \in {x \in Keys : Satisfies(db[x], call[t].terms)} |-> db[k]]
        BY <2>1, Answers
      <4> QED BY <3>3, <4>2, <4>4, <4>5, <4>6
    <3> HIDE DEF scans, name
    <3> QED BY <2>1, <3>1, <3>3, <3>4, <3>5, <3>6, SameCalls DEF Atomic!TakeEffect, Stages
  <2> QED BY <2>3, <2>4
<1>10. ASSUME NEW t \in Threads, Return(t) PROVE Atomic!Respond(t)
  <2>1. pc[t] = "return" /\ pc' = [pc EXCEPT ![t] = "idle"] /\ db' = db /\ call' = call /\ at' = at
    BY <1>10 DEF Return
  <2>2. Committed' = Committed
    BY <1>1, <2>1, CommittedStays
  <2>3. Stages' = [Stages EXCEPT ![t] = "idle"] /\ Stages[t] = "done"
    BY <1>1, <2>1 DEF Stages, Stage
  <2> QED BY <1>10, <2>2, <2>3 DEF Return, Atomic!Respond, Stages
<1>11. CASE UNCHANGED vars
  <2>1. Committed' = Committed
    BY <1>11, CommittedStays DEF vars
  <2> QED BY <1>11, <2>1 DEF vars, Atomic!atomicVars, Stage
<1> QED BY <1>2, <1>3, <1>4, <1>5, <1>6, <1>7, <1>8, <1>9, <1>10, <1>11
        DEF Next, Acquire, Work, Atomic!AtomicNext

(* The variables keep their types.                                         *)
THEOREM StoreTypeCorrect == Spec => []TypeOK
BY InitInv, NextInv, PTL DEF Spec, Inv

(* Every call takes effect at one moment between its invocation and its    *)
(* return: whatever the goroutines do, nobody sees a part of a write, a    *)
(* batch with an empty key changes nothing, and reads and queries of one   *)
(* term answer with what the store held at that moment.                    *)
THEOREM StoreIsAtomic == Spec => CallsAreAtomic
<1>1. Spec => []Inv
  BY InitInv, NextInv, PTL DEF Spec
<1> QED BY <1>1, InitRefines, NextRefines, PTL DEF Spec, CallsAreAtomic, Atomic!AtomicSpec
-----------------------------------------------------------------------------
(* A key that satisfied the query ever since the call satisfies it still,  *)
(* is in every scan that is over, and the scan under way has found it or   *)
(* has still to visit it.                                                  *)
SteadyOK(t) ==
  call[t].kind = "Query" =>
    /\ pc[t] \in {"entry", "reading"} =>
         /\ \A k \in steady[t] : Satisfies(db[k], call[t].terms)
         /\ \A n \in DOMAIN got[t] : steady[t] \subseteq DOMAIN got[t][n]
    /\ pc[t] = "reading" => steady[t] \ left[t] \subseteq DOMAIN found[t]
    /\ pc[t] = "return" => steady[t] \subseteq DOMAIN result[t]

LEMMA OthersSteady ==
  ASSUME NEW u, SteadyOK(u), Local(u)' = Local(u), steady'[u] \subseteq steady[u],
         db' = db \/ steady'[u] \subseteq SatisfyingKeys(call[u], db')
  PROVE  SteadyOK(u)'
<1>1. /\ pc'[u] = pc[u] /\ call'[u] = call[u] /\ left'[u] = left[u]
      /\ found'[u] = found[u] /\ got'[u] = got[u] /\ result'[u] = result[u]
  BY DEF Local
<1>2. ASSUME NEW k \in steady'[u], call[u].kind = "Query", pc[u] \in {"entry", "reading"}
      PROVE  Satisfies(db'[k], call[u].terms)
  BY <1>2 DEF SteadyOK, SatisfyingKeys
<1> QED BY <1>1, <1>2 DEF SteadyOK

LEMMA SteadyKept == Inv /\ Inv' /\ (\A t \in Threads : SteadyOK(t)) /\ [Next]_vars => \A t \in Threads : SteadyOK(t)'
<1> SUFFICES ASSUME Inv, Inv', \A t \in Threads : SteadyOK(t), [Next]_vars
             PROVE  \A t \in Threads : SteadyOK(t)'
  OBVIOUS
<1>1. ASSUME NEW t \in Threads, Invoke(t) PROVE \A u \in Threads : SteadyOK(u)'
  <2>1. /\ \A u \in Threads \ {t} : Local(u)' = Local(u) /\ steady'[u] = steady[u]
        /\ db' = db /\ pc'[t] = "entry" /\ got'[t] = <<>> /\ steady'[t] = SatisfyingKeys(call'[t], db)
    BY <1>1 DEF Invoke, Goto, Inv, TypeOK, ShapeInv, Local
  <2>2. SteadyOK(t)'
    BY <2>1 DEF SteadyOK, SatisfyingKeys
  <2> QED BY <2>1, <2>2, OthersSteady
<1>2. ASSUME NEW t \in Threads, Refuse(t) \/ Lock(t) \/ Locked(t) \/ Unlock(t) \/ RUnlock(t) \/ Return(t)
      PROVE  \A u \in Threads : SteadyOK(u)'
  <2>1. /\ \A u \in Threads \ {t} : Local(u)' = Local(u)
        /\ steady' = steady /\ db' = db /\ call' = call
    BY <1>2 DEF Refuse, Lock, Locked, Unlock, RUnlock, Return, Goto, Inv, TypeOK, ShapeInv, Local
  <2>2. SteadyOK(t)'
    <3>1. CASE call[t].kind # "Query"
      BY <2>1, <3>1 DEF SteadyOK
    <3>2. CASE call[t].kind = "Query"
      <4>1. ~IsWrite(call[t]) /\ ~HasEmptyKey(call[t])
        BY <3>2, TypesOfCalls DEF Inv, TypeOK
      <4>2. Return(t)
        BY <1>2, <3>2, <4>1 DEF Refuse, Lock, Locked, Unlock, RUnlock, Inv, LockInv
      <4>3. pc'[t] = "idle"
        BY <4>2 DEF Return, Goto, Inv, TypeOK
      <4> QED BY <4>3 DEF SteadyOK
    <3> QED BY <3>1, <3>2
  <2> QED BY <2>1, <2>2, OthersSteady
<1>3. ASSUME NEW t \in Threads, Write(t) PROVE \A u \in Threads : SteadyOK(u)'
  <2>1. /\ \A u \in Threads \ {t} : Local(u)' = Local(u)
        /\ call' = call /\ pc' = pc /\ pc[t] = "writing"
        /\ \A u \in Threads : steady'[u] = steady[u] \intersect SatisfyingKeys(call[u], db')
    BY <1>3 DEF Write, Inv, TypeOK, ShapeInv, Local
  <2>2. SteadyOK(t)'
    BY <2>1 DEF SteadyOK
  <2> QED BY <2>1, <2>2, OthersSteady
<1>4. ASSUME NEW t \in Threads, RLock(t) PROVE \A u \in Threads : SteadyOK(u)'
  <2>1. /\ \A u \in Threads \ {t} : Local(u)' = Local(u)
        /\ steady' = steady /\ db' = db /\ call' = call /\ got' = got
        /\ pc[t] = "entry" /\ pc'[t] = "reading" /\ call[t].kind = "Query" => left'[t] = Keys
        /\ steady[t] \subseteq Keys
    BY <1>4 DEF RLock, MayEnter, Goto, Inv, TypeOK, ShapeInv, Local
  <2>2. pc[t] = "entry" /\ pc'[t] = "reading"
    BY <1>4 DEF RLock, MayEnter, Goto, Inv, TypeOK
  <2>3. SteadyOK(t)'
    BY <2>1, <2>2 DEF SteadyOK
  <2> QED BY <2>1, <2>3, OthersSteady
<1>5. ASSUME NEW t \in Threads, Read(t) PROVE \A u \in Threads : SteadyOK(u)'
  <2>1. /\ \A u \in Threads \ {t} : Local(u)' = Local(u)
        /\ steady' = steady /\ db' = db /\ call' = call /\ call[t].kind = "Get"
    BY <1>5 DEF Read, Inv, TypeOK, ShapeInv, Local
  <2>2. SteadyOK(t)'
    BY <2>1 DEF SteadyOK
  <2> QED BY <2>1, <2>2, OthersSteady
<1>6. ASSUME NEW t \in Threads, Scan(t) PROVE \A u \in Threads : SteadyOK(u)'
  <2>1. /\ \A u \in Threads \ {t} : Local(u)' = Local(u)
        /\ steady' = steady /\ db' = db /\ call' = call /\ pc' = pc /\ got' = got /\ pc[t] = "reading"
    BY <1>6 DEF Scan, Inv, TypeOK, ShapeInv, Local
  <2>2. ASSUME call[t].kind = "Query" PROVE SteadyOK(t)'
    <3>1. PICK k \in left[t] :
            /\ left' = [left EXCEPT ![t] = @ \ {k}]
            /\ found' = IF Matches(db[k], call[t].terms[at[t]])
                        THEN [found EXCEPT ![t] = [j \in DOMAIN @ \union {k} |-> IF j = k THEN db[k] ELSE @[j]]]
                        ELSE found
      BY <1>6 DEF Scan
    <3>2. left'[t] = left[t] \ {k} /\ DOMAIN found[t] \subseteq DOMAIN found'[t]
      BY <3>1 DEF Inv, TypeOK, ShapeInv
    <3>3. at[t] \in 1..Len(call[t].terms)
      BY <2>1, <2>2, TypesOfCalls DEF Inv, TypeOK, CallOK, AtOK
    <3>4. k \in steady[t] => k \in DOMAIN found'[t]
      <4> SUFFICES ASSUME k \in steady[t] PROVE k \in DOMAIN found'[t]
        OBVIOUS
      <4>1. Satisfies(db[k], call[t].terms)
        BY <2>1, <2>2 DEF SteadyOK
      <4>2. Matches(db[k], call[t].terms[at[t]])
        BY <3>3, <4>1 DEF Satisfies
      <4> QED BY <3>1, <4>2 DEF Inv, ShapeInv
    <3>5. steady[t] \ left[t] \subseteq DOMAIN found[t]
      BY <2>1, <2>2 DEF SteadyOK
    <3>6. steady'[t] \ left'[t] \subseteq DOMAIN found'[t]
      BY <2>1, <3>2, <3>4, <3>5
    <3> QED BY <2>1, <2>2, <3>6 DEF SteadyOK
  <2>3. call[t].kind # "Query" => SteadyOK(t)'
    BY <2>1 DEF SteadyOK
  <2> QED BY <2>1, <2>2, <2>3, OthersSteady
<1>7. ASSUME NEW t \in Threads, EndScan(t) PROVE \A u \in Threads : SteadyOK(u)'
  <2> DEFINE name == call[t].terms[at[t]][1]
             scans == [n \in DOMAIN got[t] \union {name} |-> IF n = name THEN found[t] ELSE got[t][n]]
  <2>0. /\ pc[t] = "reading" /\ left[t] = {} /\ call[t].kind = "Query"
        /\ \/ pc' = [pc EXCEPT ![t] = "entry"] /\ result' = result
           \/ /\ pc' = [pc EXCEPT ![t] = "return"]
              /\ \E r \in Common(scans) : result' = [result EXCEPT ![t] = r]
        /\ got' = [got EXCEPT ![t] = scans] /\ at' = [at EXCEPT ![t] = @ + 1]
        /\ steady' = steady /\ db' = db /\ call' = call /\ left' = left /\ found' = found
    BY <1>7 DEF EndScan, Goto
  <2> HIDE DEF scans, name
  <2>1. /\ \A u \in Threads \ {t} : Local(u)' = Local(u)
        /\ got'[t] = scans /\ pc'[t] \in {"entry", "return"}
        /\ steady[t] \subseteq Keys
    <3>1. \A u \in Threads \ {t} :
            pc'[u] = pc[u] /\ at'[u] = at[u] /\ got'[u] = got[u] /\ result'[u] = result[u]
      BY <2>0 DEF Inv, TypeOK, ShapeInv
    <3>2. \A u \in Threads \ {t} : Local(u)' = Local(u)
      BY <2>0, <3>1 DEF Local
    <3>3. got'[t] = scans /\ pc'[t] \in {"entry", "return"} /\ steady[t] \subseteq Keys
      BY <2>0 DEF Inv, TypeOK, ShapeInv
    <3> QED BY <3>2, <3>3
  <2>2. pc'[t] = "return" => \E r \in Common(scans) : result'[t] = r
    BY <2>0 DEF Inv, TypeOK, ShapeInv
  <2>3. /\ \A k \in steady[t] : Satisfies(db[k], call[t].terms)
        /\ \A n \in DOMAIN got[t] : steady[t] \subseteq DOMAIN got[t][n]
        /\ steady[t] \subseteq DOMAIN found[t]
    BY <2>0 DEF SteadyOK
  <2>4. \A n \in DOMAIN scans : steady[t] \subseteq DOMAIN scans[n]
    BY <2>3 DEF scans, name
  <2>5. \A r \in Common(scans) : steady[t] \subseteq DOMAIN r
    <3> SUFFICES ASSUME NEW r \in Common(scans), NEW k \in steady[t] PROVE k \in DOMAIN r
      OBVIOUS
    <3>1. k \in {x \in Keys : \A n \in DOMAIN scans : x \in DOMAIN scans[n]}
      BY <2>1, <2>4
    <3>2. DOMAIN r = {x \in Keys : \A n \in DOMAIN scans : x \in DOMAIN scans[n]}
      BY DEF Common
    <3> QED BY <3>1, <3>2
  <2>6. SteadyOK(t)'
    BY <2>0, <2>1, <2>2, <2>3, <2>4, <2>5 DEF SteadyOK
  <2> QED BY <2>0, <2>1, <2>6, OthersSteady
<1>8. CASE UNCHANGED vars
  <2>1. \A u \in Threads : Local(u)' = Local(u) /\ steady'[u] = steady[u] /\ db' = db
    BY <1>8 DEF vars, Local
  <2> QED BY <2>1, OthersSteady
<1> QED BY <1>1, <1>2, <1>3, <1>4, <1>5, <1>6, <1>7, <1>8 DEF Next, Acquire, Work

(* A query returns every key whose entry satisfied the expression during   *)
(* the whole call, however many scans it takes and whatever is written     *)
(* between them.                                                           *)
THEOREM QueriesMissNothing == Spec => []QueryMissesNothingSteady
<1> DEFINE Found == \A t \in Threads : SteadyOK(t)
<1>1. Init => Found
  BY DEF Init, SteadyOK
<1>2. Inv /\ Inv' /\ Found /\ [Next]_vars => Found'
  BY SteadyKept
<1>3. Found => QueryMissesNothingSteady
  BY DEF SteadyOK, QueryMissesNothingSteady, Answered
<1> HIDE DEF Found
<1> QED BY <1>1, <1>2, <1>3, InitInv, NextInv, PTL DEF Spec
=============================================================================

--------------------------- MODULE MemProvider_proof ---------------------------
(***************************************************************************)
(* Proofs about the registry of stores, for any number of goroutines,      *)
(* names and calls.  What OpenStore looked up under the lock is still so   *)
(* when it registers a new store, because whoever writes the registry      *)
(* holds the lock; and a store is only ever registered under its own name, *)
(* so closing it by its name leaves no other registration of it.           *)
(***************************************************************************)
EXTENDS MemProvider, FiniteSetTheorems, TLAPS

(* A goroutine's call is one that it could have made.                      *)
CallOK(c) ==
  /\ c.op \in {"OpenStore", "SetStoreConfig", "GetStoreConfig"} => c.on \in Spellings
  /\ c.op = "SetStoreConfig" => c.to \in Configs
  /\ c.op = "Close" => c.on \in Handles

CallInv == DOMAIN call = Threads /\ \A t \in Threads : CallOK(call[t])

(* The goroutine that writes is the one that holds the lock, and what it   *)
(* looked up has not changed.                                              *)
LockInv ==
  \A t \in Threads :
    pc[t] = "writing" =>
      /\ writer = t
      /\ call[t].op # "CloseProvider" => found[t] = dbs[Key(call[t])]

(* A registered store was created, under the name it is registered for.    *)
NameInv ==
  \A n \in Names : dbs[n] # NoStore => dbs[n] \in Handles /\ name[dbs[n]] = n

(* Every call creates at most one store: there is a number left for each   *)
(* call that runs.                                                         *)
Active == {t \in Threads : pc[t] # "idle"}
RoomInv == created + Cardinality(Active) <= calls

Inv ==
  /\ TypeOK /\ CallInv /\ LockInv /\ NameInv /\ RoomInv
  /\ ClosedStaysUnregistered

-----------------------------------------------------------------------------

LEMMA NamesAreNames ==
  /\ Names # {}
  /\ \A n \in Spellings : ToLower[n] \in Names
BY ProviderAssumption DEF Names

LEMMA Counters ==
  ASSUME TypeOK
  PROVE  created \in Nat /\ calls \in Nat /\ created <= MaxCalls /\ calls <= MaxCalls
<1>1. created \in 0..MaxCalls /\ calls \in 0..MaxCalls
  BY DEF TypeOK
<1>2. MaxCalls \in Nat
  BY ProviderAssumption
<1>3. QED
  BY <1>1, <1>2

LEMMA ActiveIsFinite ==
  ASSUME NEW S \in SUBSET Threads
  PROVE  IsFiniteSet(S) /\ Cardinality(S) \in Nat
BY ProviderAssumption, FS_Subset, FS_CardinalityType

(* A call that returns leaves room for what it created.                    *)
LEMMA RoomAfterReturn ==
  ASSUME NEW t \in Threads, TypeOK, RoomInv, pc[t] # "idle",
         pc' = [pc EXCEPT ![t] = "idle"]
  PROVE  /\ Cardinality(Active') = Cardinality(Active) - 1
         /\ Cardinality(Active') \in Nat
         /\ created < calls
<1>1. Active' = Active \ {t}
  BY DEF Active, TypeOK
<1>2. /\ Cardinality(Active') = Cardinality(Active) - 1
      /\ Cardinality(Active') \in Nat
  <2>1. IsFiniteSet(Active) /\ Cardinality(Active) \in Nat
    BY ActiveIsFinite DEF Active
  <2>2. IsFiniteSet(Active') /\ Cardinality(Active') \in Nat
    BY <1>1, ActiveIsFinite DEF Active
  <2>3. t \in Active
    BY DEF Active
  <2>4. Cardinality(Active \ {t}) = Cardinality(Active) - 1
    BY <2>1, <2>3, FS_RemoveElement
  <2>5. QED
    BY <1>1, <2>2, <2>4
<1>3. created < calls
  <2>1. created \in Nat /\ calls \in Nat
    BY Counters
  <2>2. Cardinality(Active) \in Nat
    BY ActiveIsFinite DEF Active
  <2>3. QED
    BY <1>2, <2>1, <2>2 DEF RoomInv
<1>4. QED
  BY <1>2, <1>3

(* A call that created nothing returns.                                    *)
LEMMA RoomShrinks ==
  ASSUME TypeOK, RoomInv, UNCHANGED <<created, calls>>,
         Cardinality(Active') = Cardinality(Active) - 1, Cardinality(Active') \in Nat
  PROVE  RoomInv'
<1>1. created \in Nat /\ calls \in Nat /\ Cardinality(Active) \in Nat
  BY Counters, ActiveIsFinite DEF Active
<1>2. created + Cardinality(Active) <= calls
  BY DEF RoomInv
<1>3. created + Cardinality(Active') <= calls
  BY <1>1, <1>2
<1>4. QED
  BY <1>3 DEF RoomInv

(* The step to another place in the same call leaves the room as it is.    *)
LEMMA RoomUnchanged ==
  ASSUME NEW t \in Threads, NEW label, TypeOK, RoomInv, pc[t] # "idle", label # "idle",
         pc' = [pc EXCEPT ![t] = label], UNCHANGED <<created, calls>>
  PROVE  RoomInv'
<1>1. Active' = Active
  BY DEF Active, TypeOK
<1>2. QED
  BY <1>1 DEF RoomInv

-----------------------------------------------------------------------------

LEMMA InitInv == Init => Inv
<1> SUFFICES ASSUME Init PROVE Inv
  OBVIOUS
<1>1. TypeOK
  BY NamesAreNames, ProviderAssumption DEF Init, TypeOK, Stores, Handles
<1>2. Active = {}
  BY DEF Init, Active
<1>3. RoomInv
  BY <1>2, FS_EmptySet DEF Init, RoomInv
<1>4. QED
  BY <1>1, <1>3 DEF Init, Inv, CallInv, CallOK, LockInv, NameInv, ClosedStaysUnregistered

-----------------------------------------------------------------------------

LEMMA KeyIsName ==
  ASSUME TypeOK, CallInv, NEW t \in Threads,
         call[t].op \in {"OpenStore", "SetStoreConfig", "GetStoreConfig", "Close"}
  PROVE  Key(call[t]) \in Names
<1>1. CASE call[t].op = "Close"
  <2>1. call[t].on \in Stores
    BY <1>1 DEF CallInv, CallOK, Handles
  <2>2. QED
    BY <1>1, <2>1 DEF Key, TypeOK
<1>2. CASE call[t].op # "Close"
  BY <1>2, NamesAreNames DEF CallInv, CallOK, Key
<1>3. QED
  BY <1>1, <1>2

(* The calls that may be made next are calls that may be made.             *)
LEMMA CallsAreOK ==
  ASSUME NEW c \in Calls PROVE CallOK(c)
BY DEF Calls, CallOK

LEMMA InvokeInv ==
  ASSUME Inv, NEW t \in Threads, Invoke(t) PROVE Inv'
<1>1. TypeOK'
  <2>1. TypeOK /\ Invoke(t)
    BY DEF Inv
  <2>2. calls' \in 0..MaxCalls
    <3>1. calls \in Nat /\ calls < MaxCalls /\ calls' = calls + 1 /\ MaxCalls \in Nat
      BY <2>1, Counters, ProviderAssumption DEF Invoke
    <3>2. QED
      BY <3>1
  <2>3. /\ pc' \in [Threads -> {"idle", "called", "writing", "reading", "config"}]
        /\ result' \in [Threads -> {"none", "ok", "not found", "fatal", "torn"}]
    BY <2>1 DEF TypeOK, Invoke
  <2>4. /\ UNCHANGED <<dbs, name, config, created, writer, readers, found, closed>>
        /\ UNCHANGED Handles
    BY <2>1 DEF Invoke, stores, Handles
  <2>5. QED
    BY <2>1, <2>2, <2>3, <2>4 DEF TypeOK
<1>2. CallInv'
  BY CallsAreOK DEF Inv, Invoke, CallInv, CallOK, stores, Handles
<1>3. LockInv'
  <2>1. /\ pc \in [Threads -> {"idle", "called", "writing", "reading", "config"}]
        /\ DOMAIN call = Threads /\ LockInv
    BY DEF Inv, TypeOK, CallInv
  <2>2. /\ pc' = [pc EXCEPT ![t] = "called"]
        /\ \E c : call' = [call EXCEPT ![t] = c]
        /\ UNCHANGED <<dbs, name, writer, found>>
    BY DEF Invoke, stores
  <2>3. ASSUME NEW u \in Threads, pc'[u] = "writing"
        PROVE  /\ writer' = u
               /\ call'[u].op # "CloseProvider" => found'[u] = dbs'[Key(call[u])']
    <3>1. u # t /\ pc[u] = "writing"
      BY <2>1, <2>2, <2>3
    <3>2. call'[u] = call[u]
      BY <2>1, <2>2, <3>1
    <3>3. Key(call[u])' = Key(call[u])
      BY <2>2, <3>2 DEF Key
    <3>4. /\ writer = u
          /\ call[u].op # "CloseProvider" => found[u] = dbs[Key(call[u])]
      BY <2>1, <3>1 DEF LockInv
    <3>5. QED
      BY <2>2, <3>2, <3>3, <3>4
  <2>4. QED
    BY <2>3 DEF LockInv
<1>4. NameInv'
  BY DEF Inv, Invoke, NameInv, stores, Handles
<1>5. RoomInv'
  <2>1. Active' = Active \union {t} /\ t \notin Active
    BY DEF Inv, Invoke, TypeOK, Active
  <2>2. IsFiniteSet(Active) /\ Cardinality(Active) \in Nat
    BY ActiveIsFinite DEF Active
  <2>3. Cardinality(Active') = Cardinality(Active) + 1
    BY <2>1, <2>2, FS_AddElement
  <2>4. created \in Nat /\ calls \in Nat /\ calls' = calls + 1 /\ created' = created
    BY Counters DEF Inv, Invoke, stores
  <2>5. QED
    BY <2>2, <2>3, <2>4 DEF Inv, RoomInv
<1>6. ClosedStaysUnregistered'
  BY DEF Inv, Invoke, ClosedStaysUnregistered, Registered, stores
<1>7. QED
  BY <1>1, <1>2, <1>3, <1>4, <1>5, <1>6 DEF Inv

(* What every call that gives the write lock back has in common, whether   *)
(* it created a store or not.                                              *)
LEMMA LeaveInv ==
  ASSUME Inv, NEW t \in Threads, Leave(t),
         pc' = [pc EXCEPT ![t] = "idle"],
         created' = created \/ created' = created + 1
  PROVE  /\ CallInv' /\ LockInv' /\ RoomInv'
         /\ Handles \subseteq Handles' /\ created' \in 0..MaxCalls
         /\ writer' \in Threads \union {Nobody} /\ readers' \subseteq Threads
         /\ pc' \in [Threads -> {"idle", "called", "writing", "reading", "config"}]
         /\ calls' \in 0..MaxCalls
<1>1. TypeOK /\ pc[t] = "writing" /\ writer = t
  BY DEF Inv, Leave, LockInv
<1>2. /\ created \in Nat /\ calls \in Nat /\ MaxCalls \in Nat
      /\ calls <= MaxCalls /\ calls' = calls
  BY <1>1, Counters, ProviderAssumption DEF Leave
<1>3. /\ Cardinality(Active') = Cardinality(Active) - 1
      /\ Cardinality(Active') \in Nat /\ created < calls
  BY <1>1, RoomAfterReturn DEF Inv
<1>4. Cardinality(Active) \in Nat
  BY ActiveIsFinite DEF Active
<1>new. created' \in Nat /\ created <= created' /\ created' <= created + 1
  BY <1>2
<1>room. created + Cardinality(Active) <= calls
  BY DEF Inv, RoomInv
<1>5. RoomInv'
  BY <1>new, <1>room, <1>2, <1>3, <1>4 DEF RoomInv
<1>6. created' \in 0..MaxCalls
  BY <1>new, <1>2, <1>3
<1>7. Handles \subseteq Handles'
  BY <1>new, <1>2 DEF Handles, Stores
<1>8. CallInv'
  BY <1>7 DEF Inv, CallInv, CallOK, Leave
<1>9. \A u \in Threads : pc'[u] # "writing"
  BY <1>1 DEF Inv, TypeOK, LockInv
<1>10. LockInv'
  BY <1>9 DEF LockInv
<1>11. /\ writer' \in Threads \union {Nobody} /\ readers' \subseteq Threads
       /\ pc' \in [Threads -> {"idle", "called", "writing", "reading", "config"}]
  BY <1>1 DEF TypeOK, Leave
<1>12. calls' \in 0..MaxCalls
  BY <1>1, <1>2 DEF TypeOK
<1>13. QED
  BY <1>5, <1>6, <1>7, <1>8, <1>10, <1>11, <1>12

(* OpenStore looked the name up under the lock it still holds: a store it  *)
(* creates is new, and goes where none was registered.                     *)
LEMMA OpenStoreInv ==
  ASSUME Inv, NEW t \in Threads, OpenStore(t) PROVE Inv'
<1> DEFINE n == Key(call[t])
<1>1. TypeOK /\ pc[t] = "writing" /\ call[t].op = "OpenStore" /\ Leave(t)
  BY DEF Inv, OpenStore, Leave
<1>2. n \in Names
  BY <1>1, KeyIsName DEF Inv
<1>ret. /\ pc' = [pc EXCEPT ![t] = "idle"]
      /\ result' = [result EXCEPT ![t] = "ok"]
  BY DEF OpenStore, Return
<1>3. created \in Nat /\ calls \in Nat /\ created < calls /\ calls <= MaxCalls /\ MaxCalls \in Nat
  BY <1>1, <1>ret, Counters, RoomAfterReturn, ProviderAssumption DEF Inv
<1>4. /\ created + 1 \in Stores /\ created + 1 \notin Handles
      /\ created + 1 # NoStore
  BY <1>3, ProviderAssumption DEF Stores, Handles
<1>5. created' = created \/ created' = created + 1
  BY DEF OpenStore
<1>6. /\ CallInv' /\ LockInv' /\ RoomInv'
      /\ Handles \subseteq Handles' /\ created' \in 0..MaxCalls
      /\ writer' \in Threads \union {Nobody} /\ readers' \subseteq Threads
      /\ pc' \in [Threads -> {"idle", "called", "writing", "reading", "config"}]
      /\ calls' \in 0..MaxCalls
  BY <1>1, <1>5, <1>ret, LeaveInv
<1>res. result' \in [Threads -> {"none", "ok", "not found", "fatal", "torn"}]
  BY <1>1, <1>ret DEF TypeOK
<1>7. config' = config /\ closed' = closed
  BY DEF OpenStore
<1>8. CASE found[t] # NoStore
  <2>1. UNCHANGED <<created, dbs, name, found>>
    BY <1>8 DEF OpenStore
  <2>2. TypeOK'
    BY <1>1, <1>6, <1>7, <1>res, <2>1 DEF TypeOK
  <2>3. NameInv'
    BY <2>1, <1>6 DEF Inv, NameInv
  <2>4. ClosedStaysUnregistered'
    BY <2>1, <1>7 DEF Inv, ClosedStaysUnregistered, Registered
  <2>5. QED
    BY <1>6, <2>2, <2>3, <2>4 DEF Inv
<1>9. CASE found[t] = NoStore
  <2>1. /\ created' = created + 1
        /\ dbs' = [dbs EXCEPT ![n] = created + 1]
        /\ name' = [name EXCEPT ![created + 1] = n]
        /\ found' = [found EXCEPT ![t] = created + 1]
    BY <1>9 DEF OpenStore
  <2>2. TypeOK'
    <3>1. /\ dbs' \in [Names -> Stores \union {NoStore}]
          /\ name' \in [Stores -> Names]
          /\ found' \in [Threads -> Stores \union {NoStore}]
      BY <1>1, <1>2, <1>4, <2>1 DEF TypeOK
    <3>2. QED
      BY <1>1, <1>6, <1>7, <1>res, <3>1 DEF TypeOK
  <2>3. created + 1 \in Handles'
    BY <1>3, <1>4, <2>1 DEF Handles
  <2>4. NameInv'
    BY <1>1, <1>2, <1>4, <1>6, <2>1, <2>3 DEF Inv, NameInv, TypeOK
  <2>5. Registered' \subseteq Registered \union {created + 1}
    BY <1>1, <1>2, <2>1 DEF Registered, TypeOK
  <2>6. ClosedStaysUnregistered'
    BY <1>1, <1>4, <1>7, <2>5 DEF Inv, ClosedStaysUnregistered, TypeOK
  <2>7. QED
    BY <1>6, <2>2, <2>4, <2>6 DEF Inv
<1>10. QED
  BY <1>8, <1>9

(* The other calls that write create nothing.                              *)
LEMMA LeaveNothingCreated ==
  ASSUME Inv, NEW t \in Threads, Leave(t), pc' = [pc EXCEPT ![t] = "idle"],
         created' = created, name' = name, found' = found,
         dbs' \in [Names -> Stores \union {NoStore}],
         config' \in [Stores -> Configs \union {NoConfig}],
         result' \in [Threads -> {"none", "ok", "not found", "fatal", "torn"}],
         closed' \subseteq Handles,
         \A n \in Names : dbs'[n] \in {dbs[n], NoStore},
         ClosedStaysUnregistered'
  PROVE  Inv'
<1>1. /\ CallInv' /\ LockInv' /\ RoomInv'
      /\ Handles \subseteq Handles' /\ created' \in 0..MaxCalls
      /\ writer' \in Threads \union {Nobody} /\ readers' \subseteq Threads
      /\ pc' \in [Threads -> {"idle", "called", "writing", "reading", "config"}]
      /\ calls' \in 0..MaxCalls
  BY LeaveInv
<1>2. TypeOK'
  BY <1>1 DEF Inv, TypeOK
<1>3. NameInv'
  BY <1>1 DEF Inv, NameInv
<1>4. QED
  BY <1>1, <1>2, <1>3 DEF Inv

LEMMA SetStoreConfigInv ==
  ASSUME Inv, NEW t \in Threads, SetStoreConfig(t) PROVE Inv'
<1>1. TypeOK /\ call[t].op = "SetStoreConfig" /\ call[t].to \in Configs
  BY DEF Inv, SetStoreConfig, CallInv, CallOK
<1>2. /\ Leave(t) /\ pc' = [pc EXCEPT ![t] = "idle"]
      /\ UNCHANGED <<dbs, name, created, found, closed>>
  BY DEF SetStoreConfig, Return
<1>3. result' \in [Threads -> {"none", "ok", "not found", "fatal", "torn"}]
  BY <1>1 DEF SetStoreConfig, Return, TypeOK
<1>4. config' \in [Stores -> Configs \union {NoConfig}]
  BY <1>1 DEF SetStoreConfig, TypeOK
<1>5. ClosedStaysUnregistered'
  BY <1>2 DEF Inv, ClosedStaysUnregistered, Registered
<1>6. /\ dbs' \in [Names -> Stores \union {NoStore}] /\ closed' \subseteq Handles
      /\ \A n \in Names : dbs'[n] \in {dbs[n], NoStore}
  BY <1>1, <1>2 DEF TypeOK
<1>7. QED
  BY <1>2, <1>3, <1>4, <1>5, <1>6, LeaveNothingCreated

(* A store is registered under its own name only, and Close removes that.  *)
LEMMA CloseStoreInv ==
  ASSUME Inv, NEW t \in Threads, CloseStore(t) PROVE Inv'
<1> DEFINE s == call[t].on
<1>1. TypeOK /\ call[t].op = "Close" /\ s \in Handles /\ Key(call[t]) = name[s] /\ name[s] \in Names
  BY DEF Inv, CloseStore, CallInv, CallOK, Key, TypeOK, Handles
<1>2. /\ Leave(t) /\ pc' = [pc EXCEPT ![t] = "idle"]
      /\ result' = [result EXCEPT ![t] = "ok"]
      /\ UNCHANGED <<name, config, created, found>>
      /\ dbs' = [dbs EXCEPT ![name[s]] = NoStore]
      /\ closed' = closed \union {s}
  BY <1>1 DEF CloseStore, Return
<1>3. /\ result' \in [Threads -> {"none", "ok", "not found", "fatal", "torn"}]
      /\ config' \in [Stores -> Configs \union {NoConfig}]
      /\ dbs' \in [Names -> Stores \union {NoStore}] /\ closed' \subseteq Handles
      /\ \A n \in Names : dbs'[n] \in {dbs[n], NoStore}
  BY <1>1, <1>2 DEF TypeOK
<1>4. ClosedStaysUnregistered'
  <2>1. ASSUME NEW n \in Names, dbs'[n] # NoStore
        PROVE  dbs'[n] = dbs[n] /\ dbs[n] # s /\ dbs[n] \notin closed
    <3>1. dbs'[n] = dbs[n] /\ n # name[s]
      BY <1>1, <1>2, <2>1 DEF TypeOK
    <3>2. name[dbs[n]] = n
      BY <2>1, <3>1 DEF Inv, NameInv
    <3>3. dbs[n] \notin closed
      BY <2>1, <3>1 DEF Inv, ClosedStaysUnregistered, Registered
    <3>4. QED
      BY <3>1, <3>2, <3>3
  <2>2. QED
    BY <1>2, <2>1 DEF ClosedStaysUnregistered, Registered
<1>5. QED
  BY <1>2, <1>3, <1>4, LeaveNothingCreated

LEMMA CloseProviderInv ==
  ASSUME Inv, NEW t \in Threads, CloseProvider(t) PROVE Inv'
<1>1. /\ Leave(t) /\ pc' = [pc EXCEPT ![t] = "idle"]
      /\ result' = [result EXCEPT ![t] = "ok"]
      /\ UNCHANGED <<name, config, created, found, closed>>
      /\ dbs' = [n \in Names |-> NoStore]
  BY DEF CloseProvider, Return
<1>2. /\ result' \in [Threads -> {"none", "ok", "not found", "fatal", "torn"}]
      /\ config' \in [Stores -> Configs \union {NoConfig}]
      /\ dbs' \in [Names -> Stores \union {NoStore}] /\ closed' \subseteq Handles
      /\ \A n \in Names : dbs'[n] \in {dbs[n], NoStore}
  BY <1>1 DEF Inv, TypeOK
<1>3. ClosedStaysUnregistered'
  BY <1>1 DEF ClosedStaysUnregistered, Registered
<1>4. QED
  BY <1>1, <1>2, <1>3, LeaveNothingCreated

-----------------------------------------------------------------------------

(* The steps that change neither the registry nor the calls.               *)
LEMMA SameRegistry ==
  ASSUME Inv, UNCHANGED <<stores, call, closed, calls>>
  PROVE  /\ CallInv' /\ NameInv' /\ ClosedStaysUnregistered'
         /\ UNCHANGED <<dbs, name, config, created, closed, calls, Handles>>
<1>1. UNCHANGED <<dbs, name, config, created, call, closed, calls>>
  BY DEF stores
<1>2. Handles' = Handles
  BY <1>1 DEF Handles
<1>3. CallInv' /\ NameInv'
  BY <1>1, <1>2 DEF Inv, CallInv, CallOK, NameInv
<1>4. ClosedStaysUnregistered'
  BY <1>1 DEF Inv, ClosedStaysUnregistered, Registered
<1>5. QED
  BY <1>1, <1>2, <1>3, <1>4

LEMMA EnterInv ==
  ASSUME Inv, NEW t \in Threads, Enter(t) PROVE Inv'
<1> DEFINE c == call[t]
<1>1. TypeOK /\ CallInv /\ LockInv
  BY DEF Inv
<1>2. /\ pc[t] = "called" /\ writer = Nobody /\ writer' = t
      /\ pc' = [pc EXCEPT ![t] = "writing"]
      /\ UNCHANGED <<stores, readers, call, result, closed, calls>>
  BY DEF Enter, MayWrite
<1>3. /\ CallInv' /\ NameInv' /\ ClosedStaysUnregistered'
      /\ UNCHANGED <<dbs, name, config, created, closed, calls, Handles>>
  BY <1>2, SameRegistry
<1>4. found' = [found EXCEPT ![t] = IF c.op = "CloseProvider" THEN NoStore ELSE dbs[Key(c)]]
  BY DEF Enter
<1>5. c.op \in {"OpenStore", "SetStoreConfig", "Close", "CloseProvider"}
  BY DEF Enter, Writes
<1>6. found' \in [Threads -> Stores \union {NoStore}]
  <2>1. CASE c.op = "CloseProvider"
    BY <1>1, <1>4, <2>1 DEF TypeOK
  <2>2. CASE c.op # "CloseProvider"
    <3>1. Key(c) \in Names
      BY <1>1, <1>5, <2>2, KeyIsName
    <3>2. QED
      BY <1>1, <1>4, <2>2, <3>1 DEF TypeOK
  <2>3. QED
    BY <2>1, <2>2
<1>7. TypeOK'
  BY <1>1, <1>2, <1>3, <1>6 DEF TypeOK
<1>8. LockInv'
  <2>1. \A u \in Threads : pc'[u] = "writing" => u = t
    BY <1>1, <1>2, ProviderAssumption DEF LockInv, TypeOK
  <2>2. Key(c)' = Key(c)
    BY <1>2, <1>3 DEF Key
  <2>3. c.op # "CloseProvider" => found'[t] = dbs[Key(c)]
    BY <1>1, <1>4 DEF TypeOK
  <2>4. QED
    BY <1>2, <1>3, <2>1, <2>2, <2>3 DEF LockInv
<1>9. RoomInv'
  BY <1>1, <1>2, <1>3, RoomUnchanged DEF Inv
<1>10. QED
  BY <1>3, <1>7, <1>8, <1>9 DEF Inv

(* A goroutine that does not write leaves the lock with whoever holds it.  *)
LEMMA ReaderInv ==
  ASSUME Inv, NEW t \in Threads, NEW label \in {"idle", "reading", "config"},
         pc[t] \in {"called", "reading", "config"}, pc' = [pc EXCEPT ![t] = label],
         UNCHANGED <<stores, writer, call, closed, calls>>,
         readers' \subseteq Threads,
         found' \in [Threads -> Stores \union {NoStore}],
         \A u \in Threads \ {t} : found'[u] = found[u],
         result' \in [Threads -> {"none", "ok", "not found", "fatal", "torn"}]
  PROVE  Inv'
<1>1. TypeOK /\ LockInv
  BY DEF Inv
<1>2. /\ CallInv' /\ NameInv' /\ ClosedStaysUnregistered'
      /\ UNCHANGED <<dbs, name, config, created, closed, calls, Handles>>
  BY SameRegistry
<1>3. TypeOK'
  BY <1>1, <1>2 DEF TypeOK
<1>4. LockInv'
  <2>1. ASSUME NEW u \in Threads, pc'[u] = "writing"
        PROVE  u # t /\ pc[u] = "writing"
    BY <1>1, <2>1 DEF TypeOK
  <2>2. ASSUME NEW u \in Threads, pc'[u] = "writing"
        PROVE  /\ writer' = u
               /\ call'[u].op # "CloseProvider" => found'[u] = (dbs[Key(call[u])])'
    <3>1. u # t /\ writer = u /\ (call[u].op # "CloseProvider" => found[u] = dbs[Key(call[u])])
      BY <1>1, <2>1, <2>2 DEF LockInv
    <3>2. found'[u] = found[u] /\ writer' = writer /\ call' = call /\ dbs' = dbs
      BY <1>2, <3>1
    <3>3. Key(call[u])' = Key(call[u])
      BY <1>2 DEF Key
    <3>4. QED
      BY <3>1, <3>2, <3>3
  <2>3. QED
    BY <2>2 DEF LockInv
<1>5. RoomInv'
  <2>1. CASE label = "idle"
    <3>1. /\ Cardinality(Active') = Cardinality(Active) - 1 /\ Cardinality(Active') \in Nat
      BY <1>1, <2>1, RoomAfterReturn DEF Inv
    <3>2. QED
      BY <1>1, <1>2, <3>1, RoomShrinks DEF Inv
  <2>2. CASE label # "idle"
    BY <1>1, <1>2, <2>2, RoomUnchanged DEF Inv
  <2>3. QED
    BY <2>1, <2>2
<1>6. QED
  BY <1>2, <1>3, <1>4, <1>5 DEF Inv

LEMMA RLockInv ==
  ASSUME Inv, NEW t \in Threads, RLock(t) PROVE Inv'
<1>1. TypeOK
  BY DEF Inv
<1>2. /\ pc[t] = "called" /\ pc' = [pc EXCEPT ![t] = "reading"]
      /\ readers' = readers \union {t}
      /\ UNCHANGED <<stores, writer, call, result, found, closed, calls>>
  BY DEF RLock
<1>3. /\ readers' \subseteq Threads
      /\ found' \in [Threads -> Stores \union {NoStore}]
      /\ \A u \in Threads \ {t} : found'[u] = found[u]
      /\ result' \in [Threads -> {"none", "ok", "not found", "fatal", "torn"}]
  BY <1>1, <1>2 DEF TypeOK
<1>4. QED
  BY <1>2, <1>3, ReaderInv

LEMMA GetOpenStoresInv ==
  ASSUME Inv, NEW t \in Threads, GetOpenStores(t) PROVE Inv'
<1>1. TypeOK
  BY DEF Inv
<1>2. /\ pc[t] = "reading" /\ pc' = [pc EXCEPT ![t] = "idle"]
      /\ readers' = readers \ {t} /\ result' = [result EXCEPT ![t] = "ok"]
      /\ UNCHANGED <<stores, writer, call, found, closed, calls>>
  BY DEF GetOpenStores, Return
<1>3. /\ readers' \subseteq Threads
      /\ found' \in [Threads -> Stores \union {NoStore}]
      /\ \A u \in Threads \ {t} : found'[u] = found[u]
      /\ result' \in [Threads -> {"none", "ok", "not found", "fatal", "torn"}]
  BY <1>1, <1>2 DEF TypeOK
<1>4. QED
  BY <1>2, <1>3, ReaderInv

LEMMA LookUpInv ==
  ASSUME Inv, NEW t \in Threads, LookUp(t) PROVE Inv'
<1>1. TypeOK
  BY DEF Inv
<1>2. /\ pc[t] = "called" /\ call[t].op = "GetStoreConfig"
      /\ UNCHANGED <<stores, writer, readers, call, closed, calls>>
  BY DEF LookUp
<1>3. dbs[Key(call[t])] \in Stores \union {NoStore}
  BY <1>1, <1>2, KeyIsName DEF Inv, TypeOK
<1>4. /\ readers' \subseteq Threads
      /\ found' \in [Threads -> Stores \union {NoStore}]
      /\ \A u \in Threads \ {t} : found'[u] = found[u]
  BY <1>1, <1>2, <1>3 DEF TypeOK, LookUp
<1>5. result' \in [Threads -> {"none", "ok", "not found", "fatal", "torn"}]
  BY <1>1 DEF TypeOK, LookUp, Return
<1>6. CASE pc' = [pc EXCEPT ![t] = "idle"]
  BY <1>2, <1>4, <1>5, <1>6, ReaderInv
<1>7. CASE pc' = [pc EXCEPT ![t] = "config"]
  BY <1>2, <1>4, <1>5, <1>7, ReaderInv
<1>8. QED
  BY <1>6, <1>7 DEF LookUp, Return

LEMMA GetStoreConfigInv ==
  ASSUME Inv, NEW t \in Threads, GetStoreConfig(t) PROVE Inv'
<1>1. TypeOK
  BY DEF Inv
<1>2. /\ pc[t] = "config" /\ pc' = [pc EXCEPT ![t] = "idle"]
      /\ UNCHANGED <<stores, writer, readers, call, found, closed, calls>>
  BY DEF GetStoreConfig, Return
<1>3. result' \in [Threads -> {"none", "ok", "not found", "fatal", "torn"}]
  BY <1>1 DEF TypeOK, GetStoreConfig, Return
<1>4. /\ readers' \subseteq Threads
      /\ found' \in [Threads -> Stores \union {NoStore}]
      /\ \A u \in Threads \ {t} : found'[u] = found[u]
  BY <1>1, <1>2 DEF TypeOK
<1>5. QED
  BY <1>2, <1>3, <1>4, ReaderInv

-----------------------------------------------------------------------------

LEMMA StepInv == Inv /\ [Next]_vars => Inv'
<1> SUFFICES ASSUME Inv, [Next]_vars PROVE Inv'
  OBVIOUS
<1>1. CASE UNCHANGED vars
  <2>1. /\ CallInv' /\ NameInv' /\ ClosedStaysUnregistered'
        /\ UNCHANGED <<dbs, name, config, created, closed, calls, Handles>>
    BY <1>1, SameRegistry DEF vars, stores
  <2>2. /\ UNCHANGED <<writer, readers, pc, call, result, found>>
        /\ Active' = Active
    BY <1>1 DEF vars, Active
  <2>3. TypeOK'
    BY <2>1, <2>2 DEF Inv, TypeOK
  <2>4. LockInv'
    BY <2>1, <2>2 DEF Inv, LockInv, Key
  <2>5. RoomInv'
    BY <2>1, <2>2 DEF Inv, RoomInv
  <2>6. QED
    BY <2>1, <2>3, <2>4, <2>5 DEF Inv
<1>2. ASSUME NEW t \in Threads, Invoke(t) \/ Acquire(t) \/ Work(t)
      PROVE  Inv'
  <2>1. CASE Invoke(t)
    BY <2>1, InvokeInv
  <2>2. CASE Acquire(t)
    BY <2>2, EnterInv, RLockInv DEF Acquire
  <2>3. CASE Work(t)
    BY <2>3, OpenStoreInv, SetStoreConfigInv, CloseStoreInv, CloseProviderInv,
       GetOpenStoresInv, LookUpInv, GetStoreConfigInv DEF Work
  <2>4. QED
    BY <1>2, <2>1, <2>2, <2>3
<1>3. QED
  BY <1>1, <1>2 DEF Next

(* Every reachable state of the registry satisfies the invariant.          *)
THEOREM ProviderInvariant == Spec => []Inv
BY InitInv, StepInv, PTL DEF Spec

(* The variables keep their types: OpenStore never runs out of numbers and *)
(* a call looks up what is registered.                                     *)
THEOREM ProviderTypeCorrect == Spec => []TypeOK
<1>1. Inv => TypeOK
  BY DEF Inv
<1>2. QED
  BY <1>1, ProviderInvariant, PTL

(* A store that was closed is never registered again, whatever the other   *)
(* goroutines open, close or close all at once (removeStore, OpenStore).   *)
THEOREM ClosedNeverBack == Spec => []ClosedStaysUnregistered
<1>1. Inv => ClosedStaysUnregistered
  BY DEF Inv
<1>2. QED
  BY <1>1, ProviderInvariant, PTL

(* Only OpenStore registers, and only where nothing is registered.         *)
LEMMA StepKeeps ==
  ASSUME Inv, NEW t \in Threads, Invoke(t) \/ Acquire(t) \/ Work(t),
         NEW n \in Names, dbs[n] # NoStore
  PROVE  dbs'[n] \in {dbs[n], NoStore}
<1>1. TypeOK
  BY DEF Inv
<1>2. CASE OpenStore(t)
  <2>1. call[t].op = "OpenStore" /\ pc[t] = "writing"
    BY <1>2 DEF OpenStore, Leave
  <2>2. found[t] = dbs[Key(call[t])]
    BY <2>1 DEF Inv, LockInv
  <2>3. CASE found[t] = NoStore
    BY <1>1, <1>2, <2>2, <2>3 DEF OpenStore, TypeOK
  <2>4. CASE found[t] # NoStore
    BY <1>2, <2>4 DEF OpenStore
  <2>5. QED
    BY <2>3, <2>4
<1>3. CASE CloseStore(t)
  BY <1>1, <1>3 DEF CloseStore, TypeOK
<1>4. CASE CloseProvider(t)
  BY <1>4 DEF CloseProvider
<1>5. CASE SetStoreConfig(t)
  BY <1>5 DEF SetStoreConfig
<1>6. CASE Invoke(t) \/ Enter(t) \/ RLock(t) \/ GetOpenStores(t) \/ LookUp(t) \/ GetStoreConfig(t)
  <2>1. dbs' = dbs
    BY <1>6 DEF Invoke, Enter, RLock, GetOpenStores, LookUp, GetStoreConfig, stores
  <2>2. QED
    BY <2>1
<1>7. QED
  BY <1>2, <1>3, <1>4, <1>5, <1>6 DEF Acquire, Work

(* OpenStore never puts a store in the place of a registered one: two      *)
(* clients that open a name together get the same store.                   *)
THEOREM OpenStoreNeverReplaces == Spec => NeverReplaced
<1>1. Inv /\ [Next]_vars => [\A n \in Names : dbs[n] # NoStore => dbs'[n] \in {dbs[n], NoStore}]_vars
  BY StepKeeps DEF Next
<1>2. QED
  BY <1>1, ProviderInvariant, PTL DEF Spec, NeverReplaced
=============================================================================

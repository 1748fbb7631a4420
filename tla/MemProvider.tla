---------------------------- MODULE MemProvider ----------------------------
(***************************************************************************)
(* Provider of legacy/mem/mem.go: the registry of the open stores, used by *)
(* several goroutines, and the handles they keep.  A call that writes the  *)
(* registry takes Provider.lock (Enter), looks the name up, and has its    *)
(* effect before it gives the lock back (Leave); GetStoreConfig reads the  *)
(* registry without the lock.  What a goroutine does with the data of a    *)
(* store is MemStore's concern.                                            *)
(***************************************************************************)
EXTENDS Naturals, FiniteSets

CONSTANTS
  Threads,
  Spellings,   \* the names the clients use
  ToLower,     \* strings.ToLower, a function on Spellings
  Configs,     \* store configurations; each is longer than one machine word
  NoConfig,    \* the configuration of a new store
  Nobody,      \* no writer
  NoStore,     \* nil
  MaxCalls     \* bound: the calls of a behaviour

ASSUME ProviderAssumption ==
  /\ IsFiniteSet(Threads) /\ Nobody \notin Threads
  /\ Spellings # {} /\ NoStore \notin Nat /\ MaxCalls \in Nat

(* A store is the number of its creation; a call creates at most one.      *)
Stores == 1..MaxCalls

VARIABLES
  dbs,      \* Provider.dbs
  name,     \* the name a store was created with
  config,   \* the configuration of each store
  created,  \* the number of stores created so far
  writer,   \* Provider.lock: the goroutine that holds it for writing
  readers,  \* Provider.lock: the goroutines that hold it for reading
  pc, call,
  result,   \* how the last call ended
  found,    \* the store a call has looked up, and in the end opened
  closed,   \* history: the stores whose Close has returned
  calls

stores == <<dbs, name, config, created>>
vars == <<dbs, name, config, created, writer, readers, pc, call, result, found, closed, calls>>

Names == {ToLower[n] : n \in Spellings}
Registered == {dbs[n] : n \in Names} \ {NoStore}

(* A client holds every store that was ever opened.                        *)
Handles == {s \in Stores : s <= created}

(* A call: what, on which name, handle or configuration.                   *)
Calls ==
  [op : {"OpenStore", "GetStoreConfig"}, on : Spellings]
  \union [op : {"SetStoreConfig"}, on : Spellings, to : Configs]
  \union [op : {"Close"}, on : Handles]
  \union [op : {"GetOpenStores", "CloseProvider"}]

(* The name whose registration a call looks up.                            *)
Key(c) ==
  IF c.op = "Close" THEN name[c.on] ELSE ToLower[c.on]

Init ==
  /\ dbs = [n \in Names |-> NoStore]
  /\ name = [s \in Stores |-> CHOOSE n \in Names : TRUE]   \* set at creation
  /\ config = [s \in Stores |-> NoConfig]
  /\ created = 0
  /\ writer = Nobody /\ readers = {}
  /\ pc = [t \in Threads |-> "idle"]
  /\ call = [t \in Threads |-> [op |-> "GetOpenStores"]]
  /\ result = [t \in Threads |-> "none"]
  /\ found = [t \in Threads |-> NoStore]
  /\ closed = {}
  /\ calls = 0

Return(t, r) ==
  /\ pc' = [pc EXCEPT ![t] = "idle"]
  /\ result' = [result EXCEPT ![t] = r]

Invoke(t) ==
  /\ pc[t] = "idle" /\ calls < MaxCalls
  /\ calls' = calls + 1
  /\ \E c \in Calls : call' = [call EXCEPT ![t] = c]
  /\ pc' = [pc EXCEPT ![t] = "called"]
  /\ result' = [result EXCEPT ![t] = "none"]
  /\ UNCHANGED <<stores, writer, readers, found, closed>>

(* Mutant: no lock.                                                        *)
MayWriteUnlocked == TRUE

MayWrite == writer = Nobody /\ readers = {}
Writes(c) == c.op \in {"OpenStore", "SetStoreConfig", "Close", "CloseProvider"}

(* The write lock is taken and the name is looked up.                      *)
Enter(t) ==
  /\ pc[t] = "called" /\ Writes(call[t]) /\ MayWrite
  /\ writer' = t
  /\ pc' = [pc EXCEPT ![t] = "writing"]
  /\ found' = [found EXCEPT ![t] = IF call[t].op = "CloseProvider" THEN NoStore ELSE dbs[Key(call[t])]]
  /\ UNCHANGED <<stores, readers, call, result, closed, calls>>

(* Mutant: the lock is not given back.                                     *)
LeaveLocked(t) ==
  /\ pc[t] = "writing"
  /\ UNCHANGED <<writer, readers, call, calls>>

Leave(t) ==
  /\ pc[t] = "writing"
  /\ writer' = Nobody
  /\ UNCHANGED <<readers, call, calls>>

(* Mutant: the store keeps the name as the client spelled it.              *)
OpenStoreSpelled(t) ==
  /\ call[t].op = "OpenStore" /\ Leave(t)
  /\ IF found[t] = NoStore
     THEN /\ created' = created + 1
          /\ dbs' = [dbs EXCEPT ![Key(call[t])] = created']
          /\ name' = [name EXCEPT ![created'] = call[t].on]
          /\ found' = [found EXCEPT ![t] = created']
     ELSE UNCHANGED <<created, dbs, name, found>>
  /\ Return(t, "ok")
  /\ UNCHANGED <<config, closed>>

(* OpenStore: the registered store, or a new one.                          *)
OpenStore(t) ==
  /\ call[t].op = "OpenStore" /\ Leave(t)
  /\ IF found[t] = NoStore
     THEN /\ created' = created + 1
          /\ dbs' = [dbs EXCEPT ![Key(call[t])] = created']
          /\ name' = [name EXCEPT ![created'] = Key(call[t])]
          /\ found' = [found EXCEPT ![t] = created']
     ELSE UNCHANGED <<created, dbs, name, found>>
  /\ Return(t, "ok")
  /\ UNCHANGED <<config, closed>>

SetStoreConfig(t) ==
  /\ call[t].op = "SetStoreConfig" /\ Leave(t)
  /\ IF found[t] = NoStore
     THEN Return(t, "not found") /\ UNCHANGED config
     ELSE Return(t, "ok") /\ config' = [config EXCEPT ![found[t]] = call[t].to]
  /\ UNCHANGED <<dbs, name, created, found, closed>>

(* Mutant: the test of removeStore inverted.                               *)
CloseStoreIfAbsent(t) ==
  /\ call[t].op = "Close" /\ Leave(t)
  /\ dbs' = IF found[t] = NoStore THEN [dbs EXCEPT ![Key(call[t])] = NoStore] ELSE dbs
  /\ closed' = closed \union {call[t].on}
  /\ Return(t, "ok")
  /\ UNCHANGED <<name, config, created, found>>

(* memStore.Close is removeStore of the name of the store.                 *)
CloseStore(t) ==
  /\ call[t].op = "Close" /\ Leave(t)
  /\ dbs' = [dbs EXCEPT ![Key(call[t])] = NoStore]
  /\ closed' = closed \union {call[t].on}
  /\ Return(t, "ok")
  /\ UNCHANGED <<name, config, created, found>>

CloseProvider(t) ==
  /\ call[t].op = "CloseProvider" /\ Leave(t)
  /\ dbs' = [n \in Names |-> NoStore]
  /\ Return(t, "ok")
  /\ UNCHANGED <<name, config, created, found, closed>>

(* GetOpenStores, under the read lock.                                     *)
RLock(t) ==
  /\ pc[t] = "called" /\ call[t].op = "GetOpenStores" /\ writer = Nobody
  /\ readers' = readers \union {t}
  /\ pc' = [pc EXCEPT ![t] = "reading"]
  /\ UNCHANGED <<stores, writer, call, result, found, closed, calls>>

GetOpenStores(t) ==
  /\ pc[t] = "reading"
  /\ readers' = readers \ {t}
  /\ Return(t, "ok")
  /\ UNCHANGED <<stores, writer, call, found, closed, calls>>

(* Some goroutine is inserting into the map or deleting from it.           *)
MapIsWritten ==
  \E u \in Threads :
    /\ pc[u] = "writing"
    /\ \/ call[u].op = "OpenStore" /\ found[u] = NoStore
       \/ call[u].op = "Close" /\ found[u] # NoStore

(* GetStoreConfig looks the name up without the lock.  Reading a map while *)
(* another goroutine writes it stops the program when the runtime notices. *)
LookUp(t) ==
  /\ pc[t] = "called" /\ call[t].op = "GetStoreConfig"
  /\ \/ /\ found' = [found EXCEPT ![t] = dbs[Key(call[t])]]
        /\ IF found'[t] = NoStore
           THEN Return(t, "not found")
           ELSE pc' = [pc EXCEPT ![t] = "config"] /\ UNCHANGED result
     \/ /\ MapIsWritten
        /\ Return(t, "fatal")
        /\ UNCHANGED found
  /\ UNCHANGED <<stores, writer, readers, call, closed, calls>>

(* Then it reads the configuration: while another goroutine writes it, the *)
(* answer may be words of both.                                            *)
GetStoreConfig(t) ==
  /\ pc[t] = "config"
  /\ \/ Return(t, "ok")
     \/ Return(t, "torn") /\ \E u \in Threads :
                               pc[u] = "writing" /\ call[u].op = "SetStoreConfig" /\ found[u] = found[t]
  /\ UNCHANGED <<stores, writer, readers, call, found, closed, calls>>

(* A program that was stopped takes no step.                               *)
Alive == \A t \in Threads : result[t] # "fatal"

Acquire(t) == Alive /\ (Enter(t) \/ RLock(t))
Work(t) ==
  /\ Alive
  /\ \/ OpenStore(t) \/ SetStoreConfig(t) \/ CloseStore(t) \/ CloseProvider(t)
     \/ GetOpenStores(t) \/ LookUp(t) \/ GetStoreConfig(t)

Next == \E t \in Threads : (Alive /\ Invoke(t)) \/ Acquire(t) \/ Work(t)

(* A goroutine that can run does; a sync.RWMutex starves nobody who waits. *)
Spec ==
  /\ Init /\ [][Next]_vars
  /\ \A t \in Threads : WF_vars(Work(t)) /\ SF_vars(Acquire(t))

-----------------------------------------------------------------------------

TypeOK ==
  /\ dbs \in [Names -> Stores \union {NoStore}]
  /\ name \in [Stores -> Names]
  /\ config \in [Stores -> Configs \union {NoConfig}]
  /\ closed \subseteq Handles
  /\ created \in 0..MaxCalls
  /\ writer \in Threads \union {Nobody} /\ readers \subseteq Threads
  /\ pc \in [Threads -> {"idle", "called", "writing", "reading", "config"}]
  /\ result \in [Threads -> {"none", "ok", "not found", "fatal", "torn"}]
  /\ found \in [Threads -> Stores \union {NoStore}]
  /\ calls \in 0..MaxCalls

(* Two clients that open a name together get the same store: OpenStore     *)
(* never puts a store in the place of a registered one.                    *)
NeverReplaced ==
  [][\A n \in Names : dbs[n] # NoStore => dbs'[n] \in {dbs[n], NoStore}]_vars

(* A store that was closed is not handed out again: neither an OpenStore   *)
(* that runs at the same time nor a later one brings it back.              *)
ClosedStaysUnregistered == closed \intersect Registered = {}

(* Every call returns, whoever else uses the provider, as long as the      *)
(* program runs.                                                           *)
ProviderCallsReturn == \A t \in Threads : pc[t] # "idle" ~> (pc[t] = "idle" \/ ~Alive)

(* GetStoreConfig answers with the configuration or with an error.         *)
ConfigIsAnswered == \A t \in Threads : result[t] \notin {"fatal", "torn"}
=============================================================================

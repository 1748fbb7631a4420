---------------------------- MODULE AtomicStore ----------------------------
(***************************************************************************)
(* What a client of a store relies on when other clients use it at the     *)
(* same time: every call takes effect at one moment between its invocation *)
(* and its return, a batch all at once or, when a key is empty, not at all.*)
(* Only the answer of a query with several terms is left open.             *)
(***************************************************************************)
EXTENDS StoreCalls

CONSTANT NoResult

VARIABLES store, stage, call, result

atomicVars == <<store, stage, call, result>>

HasSeveralTerms(c) == c.kind = "Query" /\ Len(c.terms) > 1

Answer(c, db) ==
  CASE HasEmptyKey(c) -> "empty key"
    [] IsWrite(c) /\ ~HasEmptyKey(c) -> "ok"
    [] c.kind = "Get" /\ ~HasEmptyKey(c) -> [i \in 1..Len(c.keys) |-> db[c.keys[i]]]
    [] c.kind = "Query" -> [k \in {x \in Keys : Satisfies(db[x], c.terms)} |-> db[k]]

AtomicInit ==
  /\ store = [k \in Keys |-> NoEntry]
  /\ stage = [t \in Threads |-> "idle"]
  /\ call \in [Threads -> Calls]
  /\ result = [t \in Threads |-> NoResult]

Invoke(t) ==
  /\ stage[t] = "idle"
  /\ \E c \in Calls : call' = [call EXCEPT ![t] = c]
  /\ stage' = [stage EXCEPT ![t] = "called"]
  /\ result' = [result EXCEPT ![t] = NoResult]
  /\ UNCHANGED store

TakeEffect(t) ==
  /\ stage[t] = "called"
  /\ stage' = [stage EXCEPT ![t] = "done"]
  /\ IF HasSeveralTerms(call[t])
     THEN \A u \in Threads \ {t} : result'[u] = result[u]
     ELSE result' = [result EXCEPT ![t] = Answer(call[t], store)]
  /\ store' = IF IsWrite(call[t]) /\ ~HasEmptyKey(call[t])
              THEN Apply(store, call[t].ops, 1) ELSE store
  /\ UNCHANGED call

Respond(t) ==
  /\ stage[t] = "done"
  /\ stage' = [stage EXCEPT ![t] = "idle"]
  /\ UNCHANGED <<store, call, result>>

AtomicNext == \E t \in Threads : Invoke(t) \/ TakeEffect(t) \/ Respond(t)

AtomicSpec == AtomicInit /\ [][AtomicNext]_atomicVars
=============================================================================

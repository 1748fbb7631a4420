----------------------------- MODULE MCMemStore -----------------------------
EXTENDS MemStore, TLC

CONSTANTS k1, k2, v1, v2

Entry(v, tags) == [value |-> v, tags |-> tags]
Op(k, e) == [key |-> k, entry |-> e]
A1 == Entry(v1, {<<"a", 1>>})
A2B1 == Entry(v2, {<<"a", 2>>, <<"b", 1>>})

Puts == {[kind |-> "Put", ops |-> <<Op(k, A1)>>] : k \in {k1, EmptyKey}}
Deletes == {[kind |-> "Delete", ops |-> <<Op(k1, NoEntry)>>]}
Batches ==
  {[kind |-> "Batch", ops |-> <<Op(k1, A2B1), Op(k2, A1)>>],
   [kind |-> "Batch", ops |-> <<Op(k1, A1), Op(k1, NoEntry), Op(k2, A2B1)>>],
   [kind |-> "Batch", ops |-> <<Op(k1, A2B1), Op(EmptyKey, A1)>>]}
Gets == {[kind |-> "Get", keys |-> ks] : ks \in {<<k1>>, <<k2, k1>>, <<EmptyKey>>}}
Query(terms) == [kind |-> "Query", terms |-> terms]

SingleTermCalls ==
  Puts \union Deletes \union Batches \union Gets \union
  {Query(<<<<"a", AnyValue>>>>), Query(<<<<"b", 1>>>>)}

ManyTermCalls ==
  Deletes \union {[kind |-> "Put", ops |-> <<Op(k1, A2B1)>>],
    [kind |-> "Batch", ops |-> <<Op(k1, A1), Op(k2, A2B1)>>],
    Query(<<<<"a", AnyValue>>, <<"b", 1>>>>), Query(<<<<"b", AnyValue>>, <<"a", 2>>>>)}

AllCalls == SingleTermCalls \union ManyTermCalls
=============================================================================

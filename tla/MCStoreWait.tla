---------------------------- MODULE MCStoreWait ----------------------------
(***************************************************************************)
(* Two waiters over three keys, one of which no pattern matches.           *)
(***************************************************************************)
EXTENDS StoreWait

CONSTANTS w1, w2, v0, v1

ForKey(k) == [kind |-> "key", keys |-> {k}, value |-> AnyValue, count |-> 1]
ForValue(k) == [kind |-> "value", keys |-> {k}, value |-> v1, count |-> 1]
ForKeys(n) == [kind |-> "keys", keys |-> {1, 2}, value |-> v1, count |-> n]

With(backend, a, b, deletes, expires) ==
  [backend |-> backend, call |-> [w \in Waiters |-> IF w = w1 THEN a ELSE b],
   deletes |-> deletes, expires |-> expires]

MCScenarios ==
  {With("etcd", ForKey(1), ForValue(1), FALSE, FALSE),
   With("etcd", ForKeys(2), ForValue(1), TRUE, FALSE),
   With("etcd", ForKeys(2), ForKeys(1), TRUE, TRUE),
   With("tcp", ForKey(1), ForValue(1), TRUE, FALSE),
   With("tcp", ForKey(2), ForKeys(2), TRUE, FALSE),
   With("tcp", ForKeys(2), ForKeys(1), TRUE, TRUE)}
=============================================================================

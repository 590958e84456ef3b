----------------------------- MODULE StoreWait -----------------------------
(***************************************************************************)
(* The two KV stores (kvstore/etcd.py, kvstore/tcp.py) and their blocking  *)
(* waits.  EtcdStore waits on a watch whose callback runs on another       *)
(* thread, set up before a first look at the store; TorchTCPStore polls.   *)
(* TCPStore cannot delete: its delete writes the empty string.             *)
(*                                                                         *)
(* Keys are numbers, for their sorted order.  A pattern is the set of keys *)
(* it matches.  A watch reports every key: those outside the watched       *)
(* prefix are the ones that the callback would drop anyway.                *)
(***************************************************************************)
EXTENDS Naturals, Sequences, FiniteSets

CONSTANTS Keys, Values, Waiters,
          Missing,     \* a key the server does not have
          Empty,       \* the empty string
          AnyValue,    \* wait_for_key: any value will do
          Scenarios,   \* which store, what is waited for and what may happen
          MaxWrites    \* bound on the changes of the store

Stored == Values \cup {Missing, Empty}

Wait == [kind : {"key", "value", "keys"}, keys : SUBSET Keys,
         value : Values \cup {AnyValue}, count : Nat \ {0}]

ASSUME StoreAssumption ==
  /\ Keys \subseteq Nat /\ IsFiniteSet(Keys)
  /\ {Missing, Empty, AnyValue} \cap Values = {}
  /\ Missing # Empty
  /\ Scenarios \subseteq [backend : {"etcd", "tcp"}, call : [Waiters -> Wait],
                          deletes : BOOLEAN, expires : BOOLEAN]
  /\ \A s \in Scenarios : \A w \in Waiters :
       LET c == s.call[w] IN
       /\ c.kind = "key" <=> c.value = AnyValue
       /\ c.kind # "keys" => Cardinality(c.keys) = 1 /\ c.count = 1

\* The namespace is cleaned up (an agent's close) only when nobody is in
\* wait_for_key: an EtcdStore whose wait_for_key meets the deletion of its key
\* returns the empty value of that event.
ASSUME DeleteAssumption ==
  \A s \in Scenarios : s.backend = "etcd" /\ s.deletes =>
    \A w \in Waiters : s.call[w].kind # "key"

VARIABLES
  scenario,
  kv,        \* what the server holds
  writes,    \* changes made so far
  pc,        \* where each waiter is
  events,    \* watch events its callback has not been given yet
  watching,  \* whether its watch is set up
  matched,   \* matched: the pairs found so far
  result,    \* result[0] of the callback, {} while done is not set
  poll,      \* candidates left in this pass over them
  seen,      \* history: pairs the store held since the wait began
  answer     \* the pairs the wait returned

local == <<pc, events, watching, matched, result, poll, answer>>
vars == <<scenario, kv, writes, local, seen>>

Etcd == scenario.backend = "etcd"
Call(w) == scenario.call[w]
Waiting(w) == pc[w] \notin {"idle", "returned", "timeout"}

\* What a caller of the store takes the key to hold.
Data == [k \in Keys |-> IF kv[k] = Empty THEN Missing ELSE kv[k]]

Init ==
  /\ scenario \in Scenarios
  /\ kv = [k \in Keys |-> Missing]
  /\ writes = 0
  /\ pc = [w \in Waiters |-> "idle"]
  /\ events = [w \in Waiters |-> << >>]
  /\ watching = [w \in Waiters |-> FALSE]
  /\ matched = [w \in Waiters |-> {}]
  /\ result = [w \in Waiters |-> {}]
  /\ poll = [w \in Waiters |-> {}]
  /\ seen = [w \in Waiters |-> {}]
  /\ answer = [w \in Waiters |-> {}]

-----------------------------------------------------------------------------
(* The server and its writers *)

Pairs(d) == {<<k, d[k]>> : k \in {x \in Keys : d[x] # Missing}}

\* The server gives the keys of ks the content v; every watch gets an event for
\* each of them, and that of a deleted key carries the empty string.
Write(ks, v) ==
  LET news == [i \in 1..Len(ks) |-> <<ks[i], IF v = Missing THEN Empty ELSE v>>] IN
  /\ writes < MaxWrites
  /\ writes' = writes + 1
  /\ kv' = [k \in Keys |-> IF \E i \in 1..Len(ks) : ks[i] = k THEN v ELSE kv[k]]
  /\ events' = [w \in Waiters |-> IF watching[w] THEN events[w] \o news ELSE events[w]]
  /\ seen' = [w \in Waiters |-> IF Waiting(w) THEN seen[w] \cup Pairs(Data') ELSE seen[w]]
  /\ UNCHANGED <<scenario, pc, watching, matched, result, poll, answer>>

\* set and set_bytes: v is the string that reaches the server.
Set(k, v) == Write(<<k>>, v)

Delete(k) ==
  /\ scenario.deletes
  /\ kv[k] # Missing
  /\ Write(<<k>>, IF Etcd THEN Missing ELSE Empty)

\* close(cleanup=True) and __init__(cleanup=True): etcd deletes the namespace, in
\* one transaction whose events come in the order of the keys.
Cleanup ==
  LET there == {k \in Keys : kv[k] # Missing} IN
  /\ scenario.deletes /\ Etcd
  /\ there # {}
  /\ \E ks \in [1..Cardinality(there) -> there] :
       /\ \A i, j \in 1..Cardinality(there) : i < j => ks[i] < ks[j]
       /\ Write(ks, Missing)

-----------------------------------------------------------------------------
(* The waits *)

\* The order of _wait_with_watch, and the other one.
CheckFirst == <<"check", "watch", "blocked">>
Steps == <<"watch", "check", "blocked">>

After(place) == IF place = Steps[1] THEN Steps[2] ELSE Steps[3]
Go(w, place) == pc' = [pc EXCEPT ![w] = place]

\* matches, the tests in on_event and check_fn, and those of the polling loops: a
\* polled empty string is a deleted key, an event's value only must not be None.
HitsEmptied(w, pair) ==
  /\ pair[1] \in Call(w).keys
  /\ IF Call(w).kind = "key" THEN pair[2] # Missing ELSE pair[2] = Call(w).value

Hits(w, pair) ==
  /\ pair[1] \in Call(w).keys
  /\ IF Call(w).kind = "key"
     THEN pair[2] # Missing /\ (Etcd \/ pair[2] # Empty)
     ELSE pair[2] = Call(w).value

\* sorted(matched)[:expected_count]
FirstOf(w, S) ==
  {p \in S : Cardinality({q \in S : q[1] < p[1]}) < Call(w).count}

\* len(matched) against expected_count.
EnoughButOne(w, S) == Cardinality(S) + 1 >= Call(w).count
Enough(w, S) == Cardinality(S) >= Call(w).count

Begin(w) ==
  /\ pc[w] = "idle"
  /\ Go(w, IF Etcd THEN Steps[1] ELSE "poll")
  /\ poll' = [poll EXCEPT ![w] = IF Etcd THEN {} ELSE Call(w).keys]
  /\ seen' = [seen EXCEPT ![w] = Pairs(Data)]
  /\ UNCHANGED <<scenario, kv, writes, events, watching, matched, result, answer>>

\* The wait ends; from here on the callback finds cancelled set.
End(w, place, S) ==
  /\ Go(w, place)
  /\ answer' = [answer EXCEPT ![w] = S]
  /\ watching' = [watching EXCEPT ![w] = FALSE]
  /\ events' = [events EXCEPT ![w] = << >>]
  /\ UNCHANGED <<scenario, kv, writes, seen>>

AddWatch(w) ==
  /\ pc[w] = "watch"
  /\ watching' = [watching EXCEPT ![w] = TRUE]
  /\ Go(w, After("watch"))
  /\ UNCHANGED <<scenario, kv, writes, events, matched, result, poll, seen, answer>>

\* check_fn, one range request.  The callback may have put keys into matched.
Check(w) ==
  LET found == {p \in Pairs(kv) : Hits(w, p)}
      all   == IF Call(w).kind = "keys" THEN matched[w] \cup found ELSE found IN
  /\ pc[w] = "check"
  /\ matched' = [matched EXCEPT ![w] = all]
  /\ IF Enough(w, all)
     THEN End(w, "returned", FirstOf(w, all))
     ELSE Go(w, After("check")) /\ UNCHANGED <<scenario, kv, writes, events, watching, seen, answer>>
  /\ UNCHANGED <<result, poll>>

\* The watch thread hands one event to callback; a later one may overwrite the
\* result before the waiter looks.
Callback(w) ==
  LET e   == Head(events[w])
      all == IF Call(w).kind = "keys" THEN matched[w] \cup {e} ELSE {e} IN
  /\ watching[w] /\ events[w] # << >>
  /\ events' = [events EXCEPT ![w] = Tail(@)]
  /\ matched' = [matched EXCEPT ![w] = IF Hits(w, e) THEN all ELSE @]
  /\ result' = [result EXCEPT ![w] =
                  IF Hits(w, e) /\ Enough(w, all) THEN FirstOf(w, all) ELSE @]
  /\ UNCHANGED <<scenario, kv, writes, pc, watching, poll, seen, answer>>

Wake(w) ==
  /\ pc[w] = "blocked" /\ result[w] # {}
  /\ End(w, "returned", result[w])
  /\ UNCHANGED <<matched, result, poll>>

Timeout(w) ==
  /\ scenario.expires
  /\ \/ pc[w] = "blocked" /\ result[w] = {}
     \/ pc[w] = "poll" /\ poll[w] = {} /\ ~Enough(w, matched[w])
  /\ End(w, "timeout", {})
  /\ UNCHANGED <<matched, result, poll>>

\* One candidate of a polling pass, in the caller's order: a key once set stays in
\* TCPStore, so the get after a successful check finds it.
PollKey(w, k) ==
  LET p == <<k, kv[k]>> IN
  /\ pc[w] = "poll" /\ k \in poll[w]
  /\ matched' = [matched EXCEPT ![w] = IF Hits(w, p) THEN @ \cup {p} ELSE @]
  /\ poll' = [poll EXCEPT ![w] = @ \ {k}]
  /\ UNCHANGED <<scenario, kv, writes, pc, events, watching, result, seen, answer>>

\* Mutant: a key is looked at once.
EndPassOnce(w) ==
  /\ pc[w] = "poll" /\ poll[w] = {}
  /\ Enough(w, matched[w])
  /\ End(w, "returned", FirstOf(w, matched[w]))
  /\ UNCHANGED <<poll, matched, result>>

\* The end of a pass: return, or sleep and start over with what is not matched.
EndPass(w) ==
  /\ pc[w] = "poll" /\ poll[w] = {}
  /\ IF Enough(w, matched[w])
     THEN End(w, "returned", FirstOf(w, matched[w])) /\ UNCHANGED poll
     ELSE /\ poll' = [poll EXCEPT ![w] = Call(w).keys \ {p[1] : p \in matched[w]}]
          /\ UNCHANGED <<scenario, kv, writes, pc, events, watching, seen, answer>>
  /\ UNCHANGED <<matched, result>>

Step(w) == AddWatch(w) \/ Check(w) \/ Wake(w) \/ (\E k \in Keys : PollKey(w, k)) \/ EndPass(w)

Next ==
  \/ \E k \in Keys : Delete(k) \/ \E v \in Values : Set(k, v)
  \/ Cleanup
  \/ \E w \in Waiters : Begin(w) \/ Step(w) \/ Callback(w) \/ Timeout(w)

Spec == Init /\ [][Next]_vars

\* A waiter that is scheduled takes its next step and the watch thread delivers
\* events; nothing is assumed of the writers.
FairSpec ==
  /\ Spec
  /\ \A w \in Waiters : WF_vars(Step(w)) /\ WF_vars(Callback(w))

-----------------------------------------------------------------------------
(* Properties *)

Pair == Keys \X Stored
Places == {"idle", "watch", "check", "blocked", "poll", "returned", "timeout"}

\* The types of the variables; an etcd server holds no empty strings.
TypeOK ==
  /\ scenario \in Scenarios
  /\ kv \in [Keys -> Stored]
  /\ pc \in [Waiters -> Places]
  /\ events \in [Waiters -> Seq(Pair)]
  /\ watching \in [Waiters -> BOOLEAN]
  /\ matched \in [Waiters -> SUBSET Pair]
  /\ result \in [Waiters -> SUBSET Pair]
  /\ poll \in [Waiters -> SUBSET Keys]
  /\ seen \in [Waiters -> SUBSET Pair]
  /\ answer \in [Waiters -> SUBSET Pair]
  /\ Etcd => \A k \in Keys : kv[k] # Empty

Promise == INSTANCE KeyWait WITH
  Absent <- Missing,
  data   <- Data,
  call   <- scenario.call,
  status <- [w \in Waiters |-> IF Waiting(w) THEN "waiting" ELSE pc[w]]

\* Both stores keep the promise of KVStore's waits: what wait_for_key,
\* wait_for_keys and wait_for_value return was in the store since the wait began,
\* one entry per key and as many as were asked for, whatever is written, deleted
\* or cleaned up between the look at the store, the events and the return: never a
\* deleted key's empty string or a value that was overwritten before the wait.
KeepsPromise == Promise!Spec

Satisfied(w) == {p \in Pairs(Data) : Hits(w, p)}

\* A wait that sleeps although what it waits for is there has news under way: an
\* event that its callback has not been given, or a result it has not looked at
\* (_wait_with_watch sets its watch up BEFORE the initial check, so that no write
\* falls between the two).
NewsPending ==
  \A w \in Waiters :
    pc[w] = "blocked" /\ Enough(w, Satisfied(w)) => events[w] # << >> \/ result[w] # {}

\* No wait hangs while what it waits for is there: a write between the look at
\* the store and the end of the wait reaches the waiter by an event or by the next
\* poll (_wait_with_watch sets its watch up BEFORE the initial check).
NoMissedWrite ==
  \A w \in Waiters : []<>~(Waiting(w) /\ Enough(w, Satisfied(w)))
=============================================================================

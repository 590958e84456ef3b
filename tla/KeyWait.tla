------------------------------ MODULE KeyWait ------------------------------
(***************************************************************************)
(* What the waits of a KV store promise (KVStore in kvstore/base.py): a    *)
(* wait that returns names as many distinct keys as were asked for, each   *)
(* with a value it was waited for and really held at some moment since the *)
(* wait began.  A wait may instead raise TimeoutError.                     *)
(***************************************************************************)
EXTENDS Naturals, FiniteSets

CONSTANTS Keys,      \* key names
          Values,    \* what a key may hold
          Absent,    \* the content of a key that does not exist
          AnyValue,  \* a wait for whatever value the key is given
          Waiters    \* the processes that wait

VARIABLES data,      \* what each key holds
          call,      \* the keys, value and number of keys of each wait
          status,    \* "idle", "waiting", "returned" or "timeout"
          seen,      \* <<key, value>> pairs that held since the wait began
          answer     \* the pairs a wait returned

waitVars == <<data, call, status, seen, answer>>

Present(d) == {<<k, d[k]>> : k \in {x \in Keys : d[x] # Absent}}

Wanted(w, pair) ==
  /\ pair[1] \in call[w].keys
  /\ call[w].value \in {AnyValue, pair[2]}

Answers(w) ==
  {S \in SUBSET {p \in seen[w] : Wanted(w, p)} :
     /\ Cardinality(S) = call[w].count
     /\ \A p, q \in S : p[1] = q[1] => p = q}

Init ==
  /\ data = [k \in Keys |-> Absent]
  /\ status = [w \in Waiters |-> "idle"]
  /\ seen = [w \in Waiters |-> {}]
  /\ answer = [w \in Waiters |-> {}]

\* One key or several change at once; whoever waits may see the new contents.
Change ==
  /\ data' \in [Keys -> Values \cup {Absent}]
  /\ seen' = [w \in Waiters |->
                IF status[w] = "waiting" THEN seen[w] \cup Present(data') ELSE seen[w]]
  /\ UNCHANGED <<call, status, answer>>

Begin(w) ==
  /\ status[w] = "idle"
  /\ status' = [status EXCEPT ![w] = "waiting"]
  /\ seen' = [seen EXCEPT ![w] = Present(data)]
  /\ UNCHANGED <<data, call, answer>>

Return(w) ==
  /\ status[w] = "waiting"
  /\ answer' \in {[answer EXCEPT ![w] = S] : S \in Answers(w)}
  /\ status' = [status EXCEPT ![w] = "returned"]
  /\ UNCHANGED <<data, call, seen>>

Expire(w) ==
  /\ status[w] = "waiting"
  /\ status' = [status EXCEPT ![w] = "timeout"]
  /\ UNCHANGED <<data, call, seen, answer>>

Next == Change \/ \E w \in Waiters : Begin(w) \/ Return(w) \/ Expire(w)

Spec == Init /\ [][Next]_waitVars
=============================================================================

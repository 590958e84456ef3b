----------------------------- MODULE DualBatch -----------------------------
(***************************************************************************)
(* The life of one batch id of a dual-endpoint pair: every rank's agent    *)
(* serves two clients, one per role of the pair, that register tensors,    *)
(* transfer them in rounds, query the round signals and close their        *)
(* handlers, again and again under the same id (agent.py, client.py).      *)
(*                                                                         *)
(* A program gives every client its blocking and other calls.  An agent    *)
(* takes the commands of its queue one at a time; its steps are ordered by *)
(* pc and stop at every collective, which returns once all ranks made it.  *)
(* The store has one writer, the leader's agent.                           *)
(***************************************************************************)
EXTENDS Integers, Sequences

CONSTANTS N,         \* number of ranks, all of them hold both roles
          Programs,  \* what the workers may do
          MaxCalls,  \* bound: calls of one client
          MaxRound,  \* bound: the last round that is asked for
          NoCmd      \* an agent that handles no command

Ranks == 0..(N - 1)
Leader == 0
Roles == {"a", "b"}
Other(x) == IF x = "a" THEN "b" ELSE "a"

\* A call: what it is for, and a round where that matters.
Registrations == [op : {"register"}, arg : {"ok", "other", "empty", "bad"},
                  round : Nat, wait : BOOLEAN]
Directions == [op : {"transfer", "signal", "request"}, arg : {"send", "recv"},
               round : Nat, wait : BOOLEAN]
Closings == [op : {"close"}, arg : {""}, round : Nat, wait : BOOLEAN]
Step == Registrations \cup Directions \cup Closings

\* calls[r][x] are the calls of role x's client at rank r; partial the source
\* roles whose direction has a Partial target; expires says whether the wait
\* for the pinned direction may expire, givesUp the ranks whose clients may
\* stop waiting for a blocking call.
\* A program is orderly when the four clients ask for the same rounds in the same
\* order and none of them closes or reacts to a round that another will not reach.
Program == [calls : [Ranks -> [Roles -> Seq(Step)]], partial : SUBSET Roles,
            expires : BOOLEAN, givesUp : SUBSET Ranks, orderly : BOOLEAN]

ASSUME DualAssumption ==
  /\ N \in Nat \ {0}
  /\ MaxCalls \in Nat
  /\ MaxRound \in Nat
  /\ Programs \subseteq Program
  /\ \A p \in Programs : \A r \in Ranks, x \in Roles :
       /\ Len(p.calls[r][x]) <= MaxCalls
       /\ \A k \in 1..Len(p.calls[r][x]) : p.calls[r][x][k].round <= MaxRound

\* The command of the k-th call of a client.
Cmds == [rank : Ranks, role : Roles, k : 1..MaxCalls]

ASSUME NoCmdAssumption == NoCmd \notin Cmds

Rounds == 0..MaxRound

VARIABLES
  prog,      \* the program the workers run
  at,        \* the next call of each client
  waiting,   \* whether a client waits for its last call
  handler,   \* generation of a client's BatchHandler, 0 if it has none
  stamp,     \* the generation a command carries
  inbox,     \* the command queue of each rank
  reply,     \* what a command's client was told
  result,    \* the generation returned by a registration
  pc, cur,   \* where each agent is, and the command it handles
  gens,      \* _batch_generation
  live,      \* generation of the rank's BatchState, 0 if it has none
  joined,    \* roles in pair_role_tensors
  sign,      \* dual_layout_signature
  held,      \* pending_register_semaphores
  dirn,      \* dual_direction, by its source role
  done,      \* dual_direction_done
  parked,    \* dual_round_pending: the commands of each round
  pin,       \* store: dual_direction of the generations that have one
  signal,    \* store: transfer_signal_round
  request,   \* store: transfer_request_round of each source role
  world,     \* contributions to the registration gathers on WORLD
  group,     \* collectives made on the batch group
  copied     \* history: rounds a rank executed, in order

clients == <<at, waiting, handler, stamp>>
batch == <<live, joined, sign, held, dirn, done, parked>>
store == <<pin, signal, request>>
comm == <<world, group, copied>>

vars == <<prog, clients, inbox, reply, result, pc, cur, gens, batch, store, comm>>

\* The calls of the workers, as they are numbered in the program.
Calls == {c \in Cmds : c.k <= Len(prog.calls[c.rank][c.role])}
StepOf(c) == prog.calls[c.rank][c.role][c.k]
IsTransfer(c) == StepOf(c).op = "transfer"
Round(c) == StepOf(c).round

\* The source role of the direction a transfer is about.
Source(c) == IF StepOf(c).arg = "send" THEN c.role ELSE Other(c.role)

Init ==
  /\ prog \in Programs
  /\ at = [r \in Ranks |-> [x \in Roles |-> 1]]
  /\ waiting = [r \in Ranks |-> [x \in Roles |-> FALSE]]
  /\ handler = [r \in Ranks |-> [x \in Roles |-> 0]]
  /\ stamp = [c \in Cmds |-> 0]
  /\ inbox = [r \in Ranks |-> << >>]
  /\ reply = [c \in Cmds |-> "none"]
  /\ result = [c \in Cmds |-> 0]
  /\ pc = [r \in Ranks |-> "dequeue"]
  /\ cur = [r \in Ranks |-> NoCmd]
  /\ gens = [r \in Ranks |-> 0]
  /\ live = [r \in Ranks |-> 0]
  /\ joined = [r \in Ranks |-> {}]
  /\ sign = [r \in Ranks |-> "none"]
  /\ held = [r \in Ranks |-> {}]
  /\ dirn = [r \in Ranks |-> "none"]
  /\ done = [r \in Ranks |-> -1]
  /\ parked = [r \in Ranks |-> [n \in Rounds |-> {}]]
  /\ pin = [g \in {} |-> "none"]
  /\ signal = -1
  /\ request = [x \in Roles |-> -1]
  /\ world = [r \in Ranks |-> << >>]
  /\ group = [r \in Ranks |-> << >>]
  /\ copied = [r \in Ranks |-> << >>]

-----------------------------------------------------------------------------
(* Clients *)

HasNext(r, x) == ~waiting[r][x] /\ at[r][x] <= Len(prog.calls[r][x])
NextCmd(r, x) == [rank |-> r, role |-> x, k |-> at[r][x]]
LastCmd(r, x) == [rank |-> r, role |-> x, k |-> at[r][x] - 1]
NeedsHandler(c) == StepOf(c).op # "register"

\* A call is made: its command is queued with the handler's generation.  A
\* handler that is closed is not used again.
Send(r, x) ==
  LET c == NextCmd(r, x) IN
  /\ HasNext(r, x)
  /\ NeedsHandler(c) => handler[r][x] # 0
  /\ stamp' = [stamp EXCEPT ![c] = IF NeedsHandler(c) THEN handler[r][x] ELSE 0]
  /\ inbox' = [inbox EXCEPT ![r] = Append(@, c)]
  /\ reply' = [reply EXCEPT ![c] = "none"]
  /\ at' = [at EXCEPT ![r][x] = @ + 1]
  /\ waiting' = [waiting EXCEPT ![r][x] = StepOf(c).wait]
  /\ handler' = [handler EXCEPT ![r][x] =
                   IF StepOf(c).op = "close" /\ ~StepOf(c).wait THEN 0 ELSE @]
  /\ UNCHANGED <<result, pc, cur, gens, batch, store, comm>>

\* A registration failed, so there is no handler to make this call with.
Skip(r, x) ==
  /\ HasNext(r, x)
  /\ NeedsHandler(NextCmd(r, x)) /\ handler[r][x] = 0
  /\ at' = [at EXCEPT ![r][x] = @ + 1]
  /\ UNCHANGED <<waiting, handler, stamp, inbox, reply, result, pc, cur, gens,
                 batch, store, comm>>

\* A blocking call returns or raises.  A reactive client asks again until the
\* round it waits for is requested.
Return(r, x) ==
  LET c == LastCmd(r, x) IN
  /\ waiting[r][x]
  /\ reply[c] # "none"
  /\ waiting' = [waiting EXCEPT ![r][x] = FALSE]
  /\ handler' = [handler EXCEPT ![r][x] =
                   CASE StepOf(c).op = "close" -> 0
                     [] StepOf(c).op = "register" /\ reply[c] = "ok" -> result[c]
                     [] OTHER -> @]
  /\ at' = [at EXCEPT ![r][x] =
              IF StepOf(c).op = "request" /\ reply[c] = "no" THEN @ - 1 ELSE @]
  /\ UNCHANGED <<stamp, inbox, reply, result, pc, cur, gens, batch, store,
                 comm>>

\* sem.acquire(timeout) expires: TimeoutError, and the worker goes on.
GiveUp(r, x) ==
  /\ r \in prog.givesUp
  /\ waiting[r][x]
  /\ reply[LastCmd(r, x)] = "none"
  /\ waiting' = [waiting EXCEPT ![r][x] = FALSE]
  /\ UNCHANGED <<at, handler, stamp, inbox, reply, result, pc, cur, gens,
                 batch, store, comm>>

-----------------------------------------------------------------------------
(* Agents: taking a command, answering, collectives *)

Goto(r, l) == pc' = [pc EXCEPT ![r] = l]

\* The outcome is recorded for the commands in S and their semaphores released.
Answer(S, outcome) ==
  reply' = [c \in Cmds |-> IF c \in S THEN outcome ELSE reply[c]]

\* The agent takes the command at the head of its queue.
Take(r) ==
  /\ pc[r] = "dequeue"
  /\ inbox[r] # << >>
  /\ inbox' = [inbox EXCEPT ![r] = Tail(@)]

\* ... handles it without leaving its loop ...
TakeOnly(r) == Take(r) /\ UNCHANGED <<pc, cur>>

\* ... or goes on to another place of the handler.
TakeTo(r, l) ==
  /\ Take(r)
  /\ cur' = [cur EXCEPT ![r] = Head(inbox[r])]
  /\ Goto(r, l)

\* The handler that a rank is in returns.
Leave(r) == Goto(r, "dequeue") /\ cur' = [cur EXCEPT ![r] = NoCmd]

\* The last collective a rank made in s returns once all ranks made it.
Everywhere(s, r) == \A q \in Ranks : Len(s[q]) >= Len(s[r])

\* What the ranks contributed to it.
Gathered(s, r) == {s[q][Len(s[r])] : q \in Ranks}

\* The rank is at its next collective on the batch group.
Collective(r, op, n) ==
  group' = [group EXCEPT ![r] = Append(@, [op |-> op, round |-> n])]

NoBatch(r) == live[r] = 0

\* Mutant: generations are not compared.
NeverStale(r, c) == FALSE

\* A command that carries the generation of another registration.
Stale(r, c) == stamp[c] # 0 /\ stamp[c] # live[r]

\* The batch leaves self.batches.
Drop(r) ==
  /\ live' = [live EXCEPT ![r] = 0]
  /\ joined' = [joined EXCEPT ![r] = {}]
  /\ sign' = [sign EXCEPT ![r] = "none"]
  /\ held' = [held EXCEPT ![r] = {}]
  /\ dirn' = [dirn EXCEPT ![r] = "none"]
  /\ done' = [done EXCEPT ![r] = -1]
  /\ parked' = [parked EXCEPT ![r] = [n \in Rounds |-> {}]]

DequeueTimeout(r) ==
  /\ pc[r] = "dequeue"
  /\ inbox[r] = << >>
  /\ UNCHANGED vars

-----------------------------------------------------------------------------
(* _handle_register_tensors, _register_dual_role, _abort_dual_registration *)

\* The layouts are gathered on WORLD, with what this rank finds wrong.
TakeRegister(r) ==
  LET c == Head(inbox[r])
      mine == [arg |-> StepOf(c).arg,
               dup |-> StepOf(c).arg \in {"ok", "other"} /\ c.role \in joined[r]] IN
  /\ TakeTo(r, "register")
  /\ StepOf(c).op = "register"
  /\ world' = [world EXCEPT ![r] = Append(@, mine)]
  /\ UNCHANGED <<clients, reply, result, gens, batch, store, group, copied>>

\* Mutant: only this rank's call is looked at.
RefusedHere(r) ==
  \/ \E w \in Gathered(world, r) : w.dup
  \/ StepOf(cur[r]).arg \in {"bad", "empty"}

\* A role is registered already, some rank's call is invalid, or this rank's
\* call names no pairs of one membership.
Refused(r) ==
  \/ \E w \in Gathered(world, r) : w.dup
  \/ \E w \in Gathered(world, r) : w.arg = "bad"
  \/ StepOf(cur[r]).arg = "empty"

\* An incomplete registration is aborted with it.
Refuse(r) ==
  /\ pc[r] = "register"
  /\ Everywhere(world, r)
  /\ Refused(r)
  /\ Answer(held[r] \cup {cur[r]}, "error")
  /\ IF held[r] # {} THEN Drop(r) ELSE UNCHANGED batch
  /\ Leave(r)
  /\ UNCHANGED <<clients, inbox, result, gens, store, comm>>

\* The ranks' layouts differ, or differ from those of the first role.
Differ(r) ==
  LET a == StepOf(cur[r]).arg IN
  \/ \E w \in Gathered(world, r) : w.arg # a
  \/ sign[r] \notin {"none", a}

\* A new BatchState takes the next generation.
Generation(r) == IF NoBatch(r) THEN gens[r] + 1 ELSE live[r]

Mismatch(r) ==
  /\ pc[r] = "register"
  /\ Everywhere(world, r)
  /\ ~Refused(r) /\ Differ(r)
  /\ gens' = [gens EXCEPT ![r] = IF NoBatch(r) THEN @ + 1 ELSE @]
  /\ Answer(held[r] \cup {cur[r]}, "error")
  /\ Drop(r)
  /\ Leave(r)
  /\ UNCHANGED <<clients, inbox, result, store, comm>>

\* The first role waits for the second, which completes both registrations.
Join(r) ==
  LET c == cur[r]
      g == Generation(r)
      both == joined[r] \cup {c.role} = Roles
      ready == held[r] \cup {c} IN
  /\ pc[r] = "register"
  /\ Everywhere(world, r)
  /\ ~Refused(r) /\ ~Differ(r)
  /\ gens' = [gens EXCEPT ![r] = IF NoBatch(r) THEN @ + 1 ELSE @]
  /\ live' = [live EXCEPT ![r] = g]
  /\ joined' = [joined EXCEPT ![r] = @ \cup {c.role}]
  /\ sign' = [sign EXCEPT ![r] = StepOf(c).arg]
  /\ held' = [held EXCEPT ![r] = IF both THEN {} ELSE ready]
  /\ IF both
       THEN /\ Answer(ready, "ok")
            /\ result' = [d \in Cmds |-> IF d \in ready THEN g ELSE result[d]]
       ELSE UNCHANGED <<reply, result>>
  /\ Leave(r)
  /\ UNCHANGED <<clients, inbox, dirn, done, parked, store, comm>>

-----------------------------------------------------------------------------
(* _handle_transfer, _execute_dual_transfer *)

RefuseTransfer(r) ==
  LET c == Head(inbox[r]) IN
  /\ TakeOnly(r)
  /\ IsTransfer(c)
  /\ NoBatch(r) \/ Stale(r, c)
  /\ Answer({c}, "error")
  /\ UNCHANGED <<clients, result, gens, batch, store, comm>>

\* The leader's first transfer pins the direction of the generation.
TakeTransfer(r) ==
  LET c == Head(inbox[r]) IN
  /\ TakeTo(r, "pin")
  /\ IsTransfer(c)
  /\ ~NoBatch(r) /\ ~Stale(r, c)
  /\ pin' = IF r = Leader /\ live[r] \notin DOMAIN pin
              THEN [g \in DOMAIN pin \cup {live[r]} |->
                      IF g = live[r] THEN Source(c) ELSE pin[g]]
              ELSE pin
  /\ UNCHANGED <<clients, reply, result, gens, batch, signal, request, comm>>

\* Mutant: every rank pins the direction of its own first transfer.
PinnedHere(r) == IF dirn[r] # "none" THEN dirn[r] ELSE Source(cur[r])

\* The direction is known: here, or from the store.
Pinned(r) ==
  IF dirn[r] # "none" THEN dirn[r]
  ELSE IF live[r] \in DOMAIN pin THEN pin[live[r]] ELSE "none"

Directed(r) ==
  /\ pc[r] = "pin"
  /\ Pinned(r) # "none"
  /\ dirn' = [dirn EXCEPT ![r] = Pinned(r)]

WrongDirection(r) ==
  /\ Directed(r)
  /\ Source(cur[r]) # Pinned(r)
  /\ Answer({cur[r]}, "error")
  /\ Leave(r)
  /\ UNCHANGED <<clients, inbox, result, gens, live, joined, sign, held, done,
                 parked, store, comm>>

\* wait_for_key(dual_direction, timeout=60) raises: the client is told, and
\* the exception ends the agent.
PinTimeout(r) ==
  /\ prog.expires
  /\ pc[r] = "pin"
  /\ Pinned(r) = "none"
  /\ Answer({cur[r]}, "error")
  /\ Goto(r, "dead")
  /\ UNCHANGED <<clients, inbox, result, cur, gens, batch, store, comm>>

InDirection(r) == Directed(r) /\ Source(cur[r]) = Pinned(r)

\* Mutant: only the last executed round is recognised.
OldIfLast(r) == Round(cur[r]) = done[r]

\* The round was executed, or a later one was.
Old(r) == Round(cur[r]) <= done[r]

\* Mutant: whoever waits for the round is left waiting.
AcknowledgeCaller(r) ==
  /\ InDirection(r)
  /\ Old(r)
  /\ Answer({cur[r]}, "ok")
  /\ Leave(r)
  /\ UNCHANGED <<clients, inbox, result, gens, live, joined, sign, held, done,
                 parked, store, comm>>

\* An old round is acknowledged, with whoever waits for it.
Acknowledge(r) ==
  LET n == Round(cur[r]) IN
  /\ InDirection(r)
  /\ Old(r)
  /\ Answer(parked[r][n] \cup {cur[r]}, "ok")
  /\ parked' = [parked EXCEPT ![r][n] = {}]
  /\ Leave(r)
  /\ UNCHANGED <<clients, inbox, result, gens, live, joined, sign, held, done,
                 store, comm>>

\* The commands of the round, this one included, and their roles.
Arrived(r) == parked[r][Round(cur[r])] \cup {cur[r]}
RolesOf(S) == {c.role : c \in S}

\* The first command of a round publishes the request.
Publication(r) ==
  LET n == Round(cur[r])
      x == Source(cur[r]) IN
  request' = IF r = Leader /\ parked[r][n] = {} /\ n > request[x]
               THEN [request EXCEPT ![x] = n] ELSE request

Park(r) ==
  /\ InDirection(r)
  /\ ~Old(r)
  /\ RolesOf(Arrived(r)) # Roles
  /\ Publication(r)
  /\ parked' = [parked EXCEPT ![r][Round(cur[r])] = Arrived(r)]
  /\ Leave(r)
  /\ UNCHANGED <<clients, inbox, reply, result, gens, live, joined, sign, held,
                 done, pin, signal, comm>>

\* _fail_round: both roles' commands fail, the request is withdrawn.
FailRound(r) ==
  LET n == Round(cur[r]) IN
  /\ Answer(Arrived(r), "error")
  /\ parked' = [parked EXCEPT ![r][n] = {}]
  /\ request' = IF r = Leader THEN [request EXCEPT ![Source(cur[r])] = done[r]]
                ELSE request
  /\ Leave(r)

HasBuckets(r) == joined[r] = Roles /\ Source(cur[r]) \notin prog.partial

NoBuckets(r) ==
  /\ InDirection(r)
  /\ ~Old(r)
  /\ RolesOf(Arrived(r)) = Roles
  /\ ~HasBuckets(r)
  /\ FailRound(r)
  /\ UNCHANGED <<clients, inbox, result, gens, live, joined, sign, held, done,
                 pin, signal, comm>>

\* Mutant: the first command executes alone.
EnterAlone(r) ==
  /\ InDirection(r)
  /\ ~Old(r)
  /\ HasBuckets(r)
  /\ parked' = [parked EXCEPT ![r][Round(cur[r])] = Arrived(r)]
  /\ Collective(r, "gather", Round(cur[r]))
  /\ Goto(r, "gather")
  /\ UNCHANGED <<clients, inbox, reply, result, cur, gens, live, joined, sign,
                 held, done, store, world, copied>>

\* Both roles' commands are here: the ranks compare their rounds.
Enter(r) ==
  /\ InDirection(r)
  /\ ~Old(r)
  /\ RolesOf(Arrived(r)) = Roles
  /\ HasBuckets(r)
  /\ parked' = [parked EXCEPT ![r][Round(cur[r])] = Arrived(r)]
  /\ Collective(r, "gather", Round(cur[r]))
  /\ Goto(r, "gather")
  /\ UNCHANGED <<clients, inbox, reply, result, cur, gens, live, joined, sign,
                 held, done, store, world, copied>>

Mixed(r) == \E g \in Gathered(group, r) : g.round # Round(cur[r])

MixedRounds(r) ==
  /\ pc[r] = "gather"
  /\ Everywhere(group, r)
  /\ Mixed(r)
  /\ FailRound(r)
  /\ UNCHANGED <<clients, inbox, result, gens, live, joined, sign, held, dirn,
                 done, pin, signal, comm>>

\* The rank passes from one barrier to the next.
Pass(r, from, to) ==
  /\ pc[r] = from
  /\ Everywhere(group, r)
  /\ Collective(r, to, Round(cur[r]))
  /\ Goto(r, to)

Begin(r) ==
  /\ Pass(r, "gather", "start")
  /\ ~Mixed(r)
  /\ UNCHANGED <<clients, inbox, reply, result, cur, gens, batch, store, world,
                 copied>>

\* bucket_comm copies the weights.
Copy(r) ==
  /\ Pass(r, "start", "copied")
  /\ copied' = [copied EXCEPT ![r] =
                  Append(@, [gen |-> live[r], src |-> dirn[r],
                             round |-> Round(cur[r])])]
  /\ done' = [done EXCEPT ![r] = Round(cur[r])]
  /\ UNCHANGED <<clients, inbox, reply, result, cur, gens, live, joined, sign,
                 held, dirn, parked, store, world>>

Publish(r) ==
  /\ Pass(r, "copied", "published")
  /\ signal' = IF r = Leader THEN Round(cur[r]) ELSE signal
  /\ UNCHANGED <<clients, inbox, reply, result, cur, gens, batch, pin, request,
                 world, copied>>

\* Mutant: no barrier after the publication.
FinishUnsynced(r) ==
  LET n == Round(cur[r]) IN
  /\ pc[r] = "published"
  /\ Answer(parked[r][n], "ok")
  /\ parked' = [parked EXCEPT ![r][n] = {}]
  /\ Leave(r)
  /\ UNCHANGED <<clients, inbox, result, gens, live, joined, sign, held, dirn,
                 done, store, comm>>

Finish(r) ==
  LET n == Round(cur[r]) IN
  /\ pc[r] = "published"
  /\ Everywhere(group, r)
  /\ Answer(parked[r][n], "ok")
  /\ parked' = [parked EXCEPT ![r][n] = {}]
  /\ Leave(r)
  /\ UNCHANGED <<clients, inbox, result, gens, live, joined, sign, held, dirn,
                 done, store, comm>>

-----------------------------------------------------------------------------
(* _handle_query_status, _handle_cleanup_batch *)

\* A batch that is unknown or of another generation has no round.
Query(r) ==
  LET c == Head(inbox[r]) IN
  /\ TakeOnly(r)
  /\ StepOf(c).op \in {"signal", "request"}
  /\ Answer({c},
       IF /\ ~NoBatch(r) /\ ~Stale(r, c)
          /\ IF StepOf(c).op = "signal" THEN signal >= Round(c)
             ELSE request[Source(c)] = Round(c)
         THEN "yes" ELSE "no")
  /\ UNCHANGED <<clients, result, gens, batch, store, comm>>

\* The cleanup of an unknown batch or of another generation changes nothing.
IgnoreCleanup(r) ==
  LET c == Head(inbox[r]) IN
  /\ TakeOnly(r)
  /\ StepOf(c).op = "close"
  /\ NoBatch(r) \/ Stale(r, c)
  /\ Answer({c}, "ok")
  /\ UNCHANGED <<clients, result, gens, batch, store, comm>>

\* Directions whose request the leader resets.
Known(r) == (IF joined[r] = Roles THEN Roles ELSE {}) \cup ({dirn[r]} \cap Roles)

\* Mutant: the completion signal is kept.
ResetRequests(r) ==
  /\ request' = [x \in Roles |-> IF r = Leader /\ x \in Known(r) THEN -1
                                 ELSE request[x]]
  /\ UNCHANGED signal

\* _reset_dual_store_signals
Reset(r) ==
  /\ signal' = IF r = Leader THEN -1 ELSE signal
  /\ request' = [x \in Roles |-> IF r = Leader /\ x \in Known(r) THEN -1
                                 ELSE request[x]]

\* Mutant: only registrations are released.
Registering(r) == held[r]

\* Everyone the batch keeps waiting.
Waiters(r) == held[r] \cup UNION {parked[r][n] : n \in Rounds}

\* Mutant: the waiting calls return as if they had succeeded.
ReleaseAll(r, c) == Answer(Waiters(r) \cup {c}, "ok")

\* They are told that it failed.
Release(r, c) ==
  reply' = [d \in Cmds |-> IF d \in Waiters(r) THEN "error"
                           ELSE IF d = c THEN "ok" ELSE reply[d]]

Cleanup(r) ==
  LET c == Head(inbox[r]) IN
  /\ TakeOnly(r)
  /\ StepOf(c).op = "close"
  /\ ~NoBatch(r) /\ ~Stale(r, c)
  /\ Release(r, c)
  /\ Reset(r)
  /\ Drop(r)
  /\ UNCHANGED <<clients, result, gens, pin, comm>>

-----------------------------------------------------------------------------
Client(r, x) ==
  (Send(r, x) \/ Skip(r, x) \/ Return(r, x)) /\ UNCHANGED prog

Registration(r) == TakeRegister(r) \/ Refuse(r) \/ Mismatch(r) \/ Join(r)

Transfer(r) ==
  \/ RefuseTransfer(r)
  \/ TakeTransfer(r)
  \/ WrongDirection(r)
  \/ Acknowledge(r)
  \/ Park(r)
  \/ NoBuckets(r)
  \/ Enter(r)
  \/ MixedRounds(r)
  \/ Begin(r)
  \/ Copy(r)
  \/ Publish(r)
  \/ Finish(r)

Agent(r) ==
  /\ Registration(r) \/ Transfer(r) \/ Query(r) \/ IgnoreCleanup(r) \/ Cleanup(r)
  /\ UNCHANGED prog

Expiry ==
  /\ \E r \in Ranks : PinTimeout(r) \/ \E x \in Roles : GiveUp(r, x)
  /\ UNCHANGED prog

Next ==
  \/ \E r \in Ranks, x \in Roles : Client(r, x)
  \/ \E r \in Ranks : Agent(r) \/ DequeueTimeout(r)
  \/ Expiry

Spec == Init /\ [][Next]_vars

\* Workers run their programs to the end and agents keep running their loop.
FairSpec ==
  /\ Spec
  /\ \A r \in Ranks : WF_vars(Agent(r))
  /\ \A r \in Ranks, x \in Roles : WF_vars(Client(r, x))

-----------------------------------------------------------------------------
(* Properties *)

Executed(r) == {copied[r][i] : i \in 1..Len(copied[r])}

\* A client asked for round n of generation g in the direction from x.
Asked(r, x, e) ==
  \E c \in Calls : /\ c.rank = r /\ c.role = x /\ IsTransfer(c)
                   /\ c.k < at[r][x]
                   /\ Round(c) = e.round /\ Source(c) = e.src
                   /\ stamp[c] = e.gen

\* Both roles' clients at every rank asked for what a rank executed.
ReadyEverywhere ==
  \A r, q \in Ranks : \A e \in Executed(r) : \A x \in Roles : Asked(q, x, e)

\* All ranks execute the same rounds in the same order.
SameRounds ==
  \A r, q \in Ranks : \A i \in 1..Len(copied[r]) :
    i <= Len(copied[q]) => copied[q][i] = copied[r][i]

\* A round is an act of the whole world: a rank copies weights only after both
\* roles' clients at EVERY rank asked for that round in that generation, and no
\* two ranks execute different rounds at the same point (_execute_dual_transfer's
\* handshake, its pinned direction and its gather of the rounds).
RoundsAreGlobal == ReadyEverywhere /\ SameRounds

\* A round is executed once, never after a later one of its generation, and a
\* generation only ever copies in one direction (the acknowledgement of old
\* rounds and the pinned direction, over re-issues and re-registrations).
NoRollback ==
  \A r \in Ranks : \A i, j \in 1..Len(copied[r]) :
    LET e == copied[r][i]
        f == copied[r][j] IN
    i < j => \/ e.gen < f.gen
             \/ e.gen = f.gen /\ e.src = f.src /\ e.round < f.round

\* The published completion is a round of the leader's present batch that every
\* rank has executed: a reused batch id inherits no signal, and none is ahead
\* of the copies (_reset_dual_store_signals, the barriers around the publish).
SignalIsTrue ==
  signal # -1 =>
    \A r \in Ranks : \E e \in Executed(r) :
      e.gen = live[Leader] /\ e.round = signal

\* A transfer that was answered ok was executed, or a later round was.
FailClosed ==
  \A c \in Calls : IsTransfer(c) /\ reply[c] = "ok" =>
    \E e \in Executed(c.rank) : e.gen = stamp[c] /\ e.round >= Round(c)

\* A transfer that was answered ok can be queried while the leader has the batch.
QueryableOnReturn ==
  \A c \in Calls :
    IsTransfer(c) /\ reply[c] = "ok" /\ stamp[c] = live[Leader]
      => signal >= Round(c)

\* A transfer that its client is told succeeded was executed at that rank, in its
\* generation, or a later round was, and whoever queries the round from then on
\* finds it (acknowledgement, cleanup and failures never pass for success; the
\* publication comes before any release, with a barrier in between).
SuccessIsTrue == FailClosed /\ QueryableOnReturn

\* A command that its agent took and did not answer is being handled or is
\* parked with the rank's live batch, where execution, the second role or a
\* cleanup will find it: no semaphore is orphaned.
NoOrphan ==
  \A c \in Calls :
    LET r == c.rank IN
    /\ c.k < at[r][c.role]
    /\ ~(NeedsHandler(c) /\ stamp[c] = 0)
    /\ \A n \in 1..Len(inbox[r]) : inbox[r][n] # c
    /\ reply[c] = "none"
    => \/ cur[r] = c
       \/ live[r] # 0 /\ (c \in held[r] \/ \E n \in Rounds : c \in parked[r][n])

\* A handler's batch is there until a client of that rank closes a handler of
\* the same registration: neither a stale close nor a refused registration
\* takes it away (the generation check of _handle_cleanup_batch).
HandlerKeepsBatch ==
  \A r \in Ranks, x \in Roles :
    handler[r][x] # 0 =>
      \/ live[r] = handler[r][x]
      \/ \E c \in Calls : /\ c.rank = r /\ StepOf(c).op = "close"
                          /\ stamp[c] = handler[r][x]

\* Ranks that handled the same registrations count the same generations, so
\* they look for the pinned direction under the same key.
SameGenerations ==
  \A r, q \in Ranks :
    /\ Len(world[r]) = Len(world[q])
    /\ pc[r] # "register" /\ pc[q] # "register"
    => gens[r] = gens[q]

Finished ==
  /\ \A r \in Ranks, x \in Roles : at[r][x] > Len(prog.calls[r][x])
  /\ \A r \in Ranks : inbox[r] = << >> /\ pc[r] = "dequeue"
  /\ \A r \in Ranks : held[r] = {} /\ \A n \in Rounds : parked[r][n] = {}

\* Every orderly program comes to its end: every call returns, every agent is back
\* in its loop and no command is left parked (the two-role parking, the rank-wide
\* gather and barriers, the acknowledgement of old rounds, the cleanup's answers).
EveryoneServed == prog.orderly => <>Finished
=============================================================================

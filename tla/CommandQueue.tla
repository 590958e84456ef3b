---------------------------- MODULE CommandQueue ----------------------------
(***************************************************************************)
(* The LMDB command queue between the clients of one rank and its agent    *)
(* (src/etha/tensor_bus/command_queue.py): a ring of Capacity slots with   *)
(* head and tail positions in LMDB, and two POSIX counting semaphores, one *)
(* token per queued message (_sem) and one per free slot (_space_sem).     *)
(*                                                                         *)
(* LMDB has one writer at a time; `writer' is the process inside a write   *)
(* transaction.  A semaphore operation made inside a transaction takes     *)
(* effect at once, the transaction's writes only when it commits, so the   *)
(* two are separate steps and a process may die between them.              *)
(***************************************************************************)
EXTENDS Naturals, Sequences, FiniteSets

CONSTANTS Clients,      \* worker processes, they enqueue
          Agent,        \* the one process that dequeues
          Messages,     \* what is queued
          Undecodable,  \* messages _decode_message answers None for
          Capacity,     \* number of slots of the ring
          MaxSends,     \* bound: enqueue calls in a behaviour
          MaxCrashes,   \* bound: crashes in a behaviour
          ClientDiesAt, \* points inside enqueue where a client may die
          AgentDiesAt,  \* points inside a dequeue where the agent may die
          MaxBatch,     \* max_count of dequeue_batch; 0: it is not called
          CanPoll,      \* whether dequeue(block=False) is called
          None          \* no message, no process

ASSUME QueueAssumption ==
  /\ Capacity \in Nat \ {0}
  /\ MaxSends \in Nat
  /\ MaxCrashes \in Nat
  /\ ClientDiesAt \subseteq {"granted", "posted"}
  /\ AgentDiesAt \subseteq {"woken", "freed", "dropping", "releasing"}
  /\ MaxBatch \in Nat
  /\ CanPoll \in BOOLEAN
  /\ IsFiniteSet(Clients)
  /\ Agent \notin Clients
  /\ Undecodable \subseteq Messages
  /\ None \notin Messages \cup Clients \cup {Agent}

VARIABLES head, tail,   \* positions in LMDB
          slots,        \* the ring in LMDB
          items, space, \* the counts of _sem and _space_sem
          writer,       \* who is inside an LMDB write transaction
          pc,           \* where each process is
          arg,          \* the message a client is enqueueing
          owed,         \* slots dequeue_batch has yet to release
          sends,        \* enqueue calls so far
          crashes,      \* crashes so far
          handed,       \* history: messages taken out, in order
          leaked,       \* history: space tokens lost for good
          forged,       \* history: space tokens released for a slot still used
          lost          \* history: item tokens lost with the agent

histories == <<crashes, leaked, forged, lost>>

vars == <<head, tail, slots, items, space, writer, pc, arg, owed, sends,
          handed, histories>>

Slot(pos) == pos % Capacity

Size == tail - head

\* Clients that hold a slot no message is in yet.
InFlight == {p \in Clients : pc[p] \in {"granted", "posted"}}

Init ==
  /\ head = 0
  /\ tail = 0
  /\ slots = [i \in 0..(Capacity - 1) |-> None]
  /\ items = 0
  /\ space = Capacity
  /\ writer = None
  /\ pc = [p \in Clients \cup {Agent} |-> "idle"]
  /\ arg = [p \in Clients |-> None]
  /\ owed = 0
  /\ sends = 0
  /\ handed = << >>
  /\ crashes = 0
  /\ leaked = 0
  /\ forged = 0
  /\ lost = 0

-----------------------------------------------------------------------------
(* enqueue *)

\* enqueue(m) is called and waits for a free slot.
Enqueue(p, m) ==
  /\ pc[p] = "idle"
  /\ sends < MaxSends
  /\ sends' = sends + 1
  /\ arg' = [arg EXCEPT ![p] = m]
  /\ pc' = [pc EXCEPT ![p] = "waiting"]
  /\ UNCHANGED <<head, tail, slots, items, space, writer, owed, handed,
                 histories>>

\* block=False, or the timeout expires: QueueFullError.
QueueFull(p) ==
  /\ pc[p] = "waiting"
  /\ space = 0
  /\ pc' = [pc EXCEPT ![p] = "idle"]
  /\ UNCHANGED <<head, tail, slots, items, space, writer, arg, owed, sends,
                 handed, histories>>

\* MUTANT: the semaphore is not waited for.
AcquireSpaceUnchecked(p) ==
  /\ pc[p] = "waiting"
  /\ space' = space - 1
  /\ pc' = [pc EXCEPT ![p] = "granted"]
  /\ UNCHANGED <<head, tail, slots, items, writer, arg, owed, sends, handed,
                 histories>>

AcquireSpace(p) ==
  /\ pc[p] = "waiting"
  /\ space > 0
  /\ space' = space - 1
  /\ pc' = [pc EXCEPT ![p] = "granted"]
  /\ UNCHANGED <<head, tail, slots, items, writer, arg, owed, sends, handed,
                 histories>>

\* MUTANT: only the first message of an empty queue is announced.
PostWhenEmpty(p) ==
  /\ pc[p] = "granted"
  /\ writer = None
  /\ writer' = p
  /\ items' = IF Size = 0 THEN items + 1 ELSE items
  /\ pc' = [pc EXCEPT ![p] = "posted"]
  /\ UNCHANGED <<head, tail, slots, space, arg, owed, sends, handed,
                 histories>>

\* Inside the transaction: the item token is released before the commit.
Post(p) ==
  /\ pc[p] = "granted"
  /\ writer = None
  /\ writer' = p
  /\ items' = items + 1
  /\ pc' = [pc EXCEPT ![p] = "posted"]
  /\ UNCHANGED <<head, tail, slots, space, arg, owed, sends, handed,
                 histories>>

CommitPut(p) ==
  /\ pc[p] = "posted"
  /\ slots' = [slots EXCEPT ![Slot(tail)] = arg[p]]
  /\ tail' = tail + 1
  /\ writer' = None
  /\ pc' = [pc EXCEPT ![p] = "idle"]
  /\ UNCHANGED <<head, items, space, arg, owed, sends, handed,
                 histories>>

-----------------------------------------------------------------------------
(* dequeue *)

\* The timeout of dequeue(block=True) expires: None, and nothing changes.
DequeueTimeout ==
  /\ pc[Agent] = "idle"
  /\ items = 0
  /\ UNCHANGED vars

AcquireItem ==
  /\ pc[Agent] = "idle"
  /\ items > 0
  /\ items' = items - 1
  /\ pc' = [pc EXCEPT ![Agent] = "woken"]
  /\ UNCHANGED <<head, tail, slots, space, writer, arg, owed, sends, handed,
                 histories>>

\* The queue is empty for an agent that holds a token: None.
TakeNothing ==
  /\ pc[Agent] = "woken"
  /\ writer = None
  /\ Size <= 0
  /\ pc' = [pc EXCEPT ![Agent] = "idle"]
  /\ UNCHANGED <<head, tail, slots, items, space, writer, arg, owed, sends,
                 handed, histories>>

\* Inside the transaction: the slot is released before the commit, and only
\* for a message that decodes.  block=False starts here, without a token.
Free ==
  /\ pc[Agent] = "woken" \/ (CanPoll /\ pc[Agent] = "idle")
  /\ writer = None
  /\ Size > 0
  /\ writer' = Agent
  /\ IF slots[Slot(head)] \in Undecodable
       THEN /\ pc' = [pc EXCEPT ![Agent] = "dropping"]
            /\ UNCHANGED space
       ELSE /\ pc' = [pc EXCEPT ![Agent] = "freed"]
            /\ space' = space + 1
  /\ UNCHANGED <<head, tail, slots, items, arg, owed, sends, handed,
                 histories>>

\* MUTANT: dequeue returns the newest message.
TakeNewest ==
  /\ pc[Agent] \in {"freed", "dropping"}
  /\ head' = head + 1
  /\ handed' = Append(handed, slots[Slot(tail - 1)])
  /\ leaked' = IF pc[Agent] = "dropping" THEN leaked + 1 ELSE leaked
  /\ writer' = None
  /\ pc' = [pc EXCEPT ![Agent] = "idle"]
  /\ UNCHANGED <<tail, slots, items, space, arg, owed, sends, crashes, forged,
                 lost>>

CommitTake ==
  /\ pc[Agent] \in {"freed", "dropping"}
  /\ head' = head + 1
  /\ handed' = Append(handed, slots[Slot(head)])
  /\ leaked' = IF pc[Agent] = "dropping" THEN leaked + 1 ELSE leaked
  /\ writer' = None
  /\ pc' = [pc EXCEPT ![Agent] = "idle"]
  /\ UNCHANGED <<tail, slots, items, space, arg, owed, sends, crashes, forged,
                 lost>>

-----------------------------------------------------------------------------
(* dequeue_batch *)

TakeBatch ==
  LET n == IF MaxBatch < Size THEN MaxBatch ELSE Size IN
  /\ pc[Agent] = "idle"
  /\ writer = None
  /\ n > 0
  /\ handed' = handed \o [i \in 1..n |-> slots[Slot(head + i - 1)]]
  /\ head' = head + n
  /\ owed' = n
  /\ pc' = [pc EXCEPT ![Agent] = "releasing"]
  /\ UNCHANGED <<tail, slots, items, space, writer, arg, sends, histories>>

\* MUTANT: dequeue_batch releases one slot too many.
ReleaseSlotTwice ==
  /\ pc[Agent] = "releasing"
  /\ space' = space + (IF owed = 1 THEN 2 ELSE 1)
  /\ owed' = owed - 1
  /\ pc' = [pc EXCEPT ![Agent] = IF owed = 1 THEN "idle" ELSE "releasing"]
  /\ UNCHANGED <<head, tail, slots, items, writer, arg, sends, handed,
                 histories>>

ReleaseSlot ==
  /\ pc[Agent] = "releasing"
  /\ space' = space + 1
  /\ owed' = owed - 1
  /\ pc' = [pc EXCEPT ![Agent] = IF owed = 1 THEN "idle" ELSE "releasing"]
  /\ UNCHANGED <<head, tail, slots, items, writer, arg, sends, handed,
                 histories>>

-----------------------------------------------------------------------------
(* A process dies inside an operation and is started again.  Semaphore     *)
(* counts stay as they are, an open transaction is rolled back and LMDB    *)
(* frees its writer lock.                                                  *)

Restart(p) ==
  /\ crashes < MaxCrashes
  /\ crashes' = crashes + 1
  /\ writer' = IF writer = p THEN None ELSE writer
  /\ pc' = [pc EXCEPT ![p] = "idle"]

CrashClient(p) ==
  /\ pc[p] \in ClientDiesAt
  /\ Restart(p)
  /\ leaked' = leaked + 1
  /\ UNCHANGED <<head, tail, slots, items, space, arg, owed, sends, handed,
                 forged, lost>>

CrashAgent ==
  /\ pc[Agent] \in AgentDiesAt
  /\ Restart(Agent)
  /\ leaked' = leaked + owed
  /\ owed' = 0
  /\ forged' = IF pc[Agent] = "freed" THEN forged + 1 ELSE forged
  /\ lost' = IF pc[Agent] = "releasing" THEN lost ELSE lost + 1
  /\ UNCHANGED <<head, tail, slots, items, space, arg, sends, handed>>

-----------------------------------------------------------------------------
ClientStep(p) ==
  \/ \E m \in Messages : Enqueue(p, m)
  \/ QueueFull(p)
  \/ AcquireSpace(p)
  \/ Post(p)
  \/ CommitPut(p)
  \/ CrashClient(p)

AgentStep ==
  \/ DequeueTimeout
  \/ AcquireItem
  \/ TakeNothing
  \/ Free
  \/ CommitTake
  \/ TakeBatch
  \/ ReleaseSlot
  \/ CrashAgent

Next == (\E p \in Clients : ClientStep(p)) \/ AgentStep

Spec == Init /\ [][Next]_vars

\* A process finishes the operation it is in, and the agent's main loop keeps
\* calling dequeue(block=True); nobody has to poll.
Fairness ==
  /\ \A p \in Clients : WF_vars(AcquireSpace(p) \/ Post(p) \/ CommitPut(p))
  /\ WF_vars(\/ AcquireItem
             \/ TakeNothing
             \/ pc[Agent] = "woken" /\ Free
             \/ CommitTake
             \/ ReleaseSlot)

FairSpec == Spec /\ Fairness

-----------------------------------------------------------------------------
\* The type invariant of the ring, the semaphores and the processes.
TypeOK ==
  /\ head \in Nat
  /\ tail \in Nat
  /\ slots \in [0..(Capacity - 1) -> Messages \cup {None}]
  /\ items \in Nat
  /\ space \in Nat
  /\ writer \in Clients \cup {Agent, None}
  /\ pc \in [Clients \cup {Agent} ->
               {"idle", "waiting", "granted", "posted",
                "woken", "freed", "dropping", "releasing"}]
  /\ arg \in [Clients -> Messages \cup {None}]
  /\ owed \in Nat
  /\ sends \in Nat
  /\ crashes \in Nat
  /\ handed \in Seq(Messages \cup {None})
  /\ leaked \in Nat
  /\ forged \in Nat
  /\ lost \in Nat

\* Every slot is accounted for: it is free, granted to a client, occupied, or
\* about to be released by dequeue_batch; what is missing was lost in a crash
\* or with a message that does not decode, and what is too many was released
\* by an agent that died before its commit (_space_sem in enqueue, dequeue
\* and dequeue_batch).
SlotsAccounted ==
  space + Cardinality(InFlight) + Size + owed + leaked
    = Capacity + forged + (IF pc[Agent] = "freed" THEN 1 ELSE 0)

\* A message is never written over one that has not been taken out, unless an
\* agent died between releasing a slot and committing (enqueue's write at
\* tail % capacity).
NeverOverwrites ==
  forged = 0 => \A p \in Clients : pc[p] = "posted" => Size < Capacity

\* As long as no agent died with a token in its hands, an agent that waits on
\* _sem is woken while a message is queued, although the token is released
\* before the message is committed and dequeue_batch and dequeue(block=False)
\* take messages without taking tokens.
NoLostWakeup ==
  Size <= items + lost
            + (IF pc[Agent] \in {"woken", "freed", "dropping"} THEN 1 ELSE 0)

\* What the queue promises, read from the ring: the live slots from head on.
Contents == [i \in 1..Size |-> slots[Slot(head + i - 1)]]

F == INSTANCE Fifo WITH queue <- Contents

\* The ring and its semaphores implement a bounded FIFO queue.
IsFifo == F!FifoSpec

\* The agent's loop empties the queue again and again, unless an agent died with
\* an item token in its hands.
AlwaysDrained == []<>(Size = 0 \/ lost > 0)
=============================================================================

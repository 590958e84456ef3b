------------------------ MODULE CommandQueueProofs -------------------------
(***************************************************************************)
(* The command queue, for any number of clients, any capacity and any      *)
(* crash points: its accounting is exact, and the ring with its two        *)
(* semaphores implements a bounded FIFO queue as long as no agent dies     *)
(* between the release of a slot and its commit.                           *)
(***************************************************************************)
EXTENDS CommandQueue, FiniteSetTheorems, SequenceTheorems, Integers, TLAPS

\* Who is where: a client is inside enqueue, the agent inside a dequeue, and
\* the one inside a write transaction holds LMDB's writer lock.
LockInv ==
  /\ \A p \in Clients : /\ pc[p] \in {"idle", "waiting", "granted", "posted"}
                        /\ pc[p] = "posted" <=> writer = p
  /\ pc[Agent] \in {"idle", "woken", "freed", "dropping", "releasing"}
  /\ pc[Agent] \in {"freed", "dropping"} <=> writer = Agent
  /\ pc[Agent] = "releasing" <=> owed > 0

\* The ring is never emptied below zero, and an agent inside its transaction
\* has something to take.
SizeInv ==
  /\ head <= tail
  /\ pc[Agent] \in {"freed", "dropping"} => head < tail
  /\ \A p \in Clients : pc[p] # "idle" => arg[p] \in Messages

\* NoLostWakeup counts the message a client has announced but not committed.
WakeupInv ==
  Size + (IF writer \in Clients THEN 1 ELSE 0)
    <= items + lost
         + (IF pc[Agent] \in {"woken", "freed", "dropping"} THEN 1 ELSE 0)

IInv == TypeOK /\ LockInv /\ SizeInv /\ SlotsAccounted /\ WakeupInv

-----------------------------------------------------------------------------
\* The slots held by clients are finitely many, and counted by a number.
LEMMA InFlightFinite ==
  /\ IsFiniteSet(InFlight)
  /\ Cardinality(InFlight) \in Nat
BY FS_Subset, FS_CardinalityType, QueueAssumption DEF InFlight

\* Taking a slot adds the client to those that hold one.
LEMMA InFlightGrows ==
  ASSUME TypeOK, NEW p \in Clients, pc[p] = "waiting",
         pc' = [pc EXCEPT ![p] = "granted"]
  PROVE  Cardinality(InFlight') = Cardinality(InFlight) + 1
<1>1. InFlight' = InFlight \cup {p} /\ p \notin InFlight
  BY QueueAssumption DEF InFlight, TypeOK
<1> QED
  BY <1>1, InFlightFinite, FS_AddElement

\* Filling or losing a slot removes the client from those that hold one.
LEMMA InFlightShrinks ==
  ASSUME TypeOK, NEW p \in Clients, pc[p] \in {"granted", "posted"},
         pc' = [pc EXCEPT ![p] = "idle"]
  PROVE  Cardinality(InFlight') = Cardinality(InFlight) - 1
<1>1. InFlight' = InFlight \ {p} /\ p \in InFlight
  BY QueueAssumption DEF InFlight, TypeOK
<1> QED
  BY <1>1, InFlightFinite, FS_RemoveElement

\* A step of the agent leaves the clients' slots alone.
LEMMA InFlightOfAgent ==
  ASSUME TypeOK, NEW l, pc' = [pc EXCEPT ![Agent] = l]
  PROVE  InFlight' = InFlight
BY QueueAssumption DEF InFlight, TypeOK

-----------------------------------------------------------------------------
\* A new queue satisfies the inductive invariant.
LEMMA InitIInv == Init => IInv
<1> SUFFICES ASSUME Init PROVE IInv
  OBVIOUS
<1> USE QueueAssumption DEF Init
<1>1. TypeOK
  BY DEF TypeOK
<1>2. LockInv /\ SizeInv /\ WakeupInv
  BY DEF LockInv, SizeInv, WakeupInv, Size
<1>3. SlotsAccounted
  <2>1. InFlight = {}
    BY DEF InFlight
  <2> QED
    BY <2>1, FS_EmptySet DEF SlotsAccounted, Size
<1> QED
  BY <1>1, <1>2, <1>3 DEF IInv

\* The local invariants under every step: each follows from the guards and
\* assignments of the action alone.
LEMMA LocalStep == IInv /\ [Next]_vars => TypeOK' /\ LockInv' /\ SizeInv' /\ WakeupInv'
<1> SUFFICES ASSUME IInv, [Next]_vars
             PROVE  TypeOK' /\ LockInv' /\ SizeInv' /\ WakeupInv'
  OBVIOUS
<1> USE QueueAssumption DEF IInv, TypeOK, LockInv, SizeInv, WakeupInv, Size, histories
<1>1. ASSUME NEW p \in Clients, NEW m \in Messages, Enqueue(p, m)
      PROVE  TypeOK' /\ LockInv' /\ SizeInv' /\ WakeupInv'
  BY <1>1 DEF Enqueue
<1>2. ASSUME NEW p \in Clients, QueueFull(p)
      PROVE  TypeOK' /\ LockInv' /\ SizeInv' /\ WakeupInv'
  BY <1>2 DEF QueueFull
<1>3. ASSUME NEW p \in Clients, AcquireSpace(p)
      PROVE  TypeOK' /\ LockInv' /\ SizeInv' /\ WakeupInv'
  BY <1>3 DEF AcquireSpace
<1>4. ASSUME NEW p \in Clients, Post(p)
      PROVE  TypeOK' /\ LockInv' /\ SizeInv' /\ WakeupInv'
  BY <1>4 DEF Post
<1>5. ASSUME NEW p \in Clients, CommitPut(p)
      PROVE  TypeOK' /\ LockInv' /\ SizeInv' /\ WakeupInv'
  BY <1>5 DEF CommitPut, Slot
<1>6. ASSUME NEW p \in Clients, CrashClient(p)
      PROVE  TypeOK' /\ LockInv' /\ SizeInv' /\ WakeupInv'
  BY <1>6 DEF CrashClient, Restart
<1>7. CASE DequeueTimeout
  BY <1>7 DEF DequeueTimeout, vars
<1>8. CASE AcquireItem
  BY <1>8 DEF AcquireItem
<1>9. CASE TakeNothing
  BY <1>9 DEF TakeNothing
<1>10. CASE Free
  BY <1>10 DEF Free
<1>11. CASE CommitTake
  BY <1>11 DEF CommitTake, Slot
<1>12. CASE TakeBatch
  BY <1>12 DEF TakeBatch, Slot
<1>13. CASE ReleaseSlot
  BY <1>13 DEF ReleaseSlot
<1>14. CASE CrashAgent
  BY <1>14 DEF CrashAgent, Restart
<1>15. CASE UNCHANGED vars
  BY <1>15 DEF vars
<1> QED
  BY <1>1, <1>2, <1>3, <1>4, <1>5, <1>6, <1>7, <1>8, <1>9, <1>10, <1>11, <1>12,
     <1>13, <1>14, <1>15, Zenon DEF Next, ClientStep, AgentStep

\* The count of slots under every step; only the steps that acquire, fill,
\* release or lose a slot move anything.
LEMMA SlotsStep == IInv /\ [Next]_vars => SlotsAccounted'
<1> SUFFICES ASSUME IInv, [Next]_vars PROVE SlotsAccounted'
  OBVIOUS
<1> DEFINE k == Cardinality(InFlight)
           kNext == Cardinality(InFlight')
           free == IF pc[Agent] = "freed" THEN 1 ELSE 0
           freeNext == IF pc'[Agent] = "freed" THEN 1 ELSE 0
           Goal == space' + kNext + (tail' - head') + owed' + leaked'
                     = Capacity + forged' + freeNext
<1>0. TypeOK
  BY DEF IInv
<1>n. /\ k \in Nat /\ Capacity \in Nat /\ free \in Nat
      /\ head \in Nat /\ tail \in Nat /\ space \in Nat /\ owed \in Nat
      /\ leaked \in Nat /\ forged \in Nat
  BY <1>0, InFlightFinite, QueueAssumption DEF TypeOK
<1>a. space + k + (tail - head) + owed + leaked = Capacity + forged + free
  BY DEF IInv, SlotsAccounted, Size
<1>o. pc[Agent] = "releasing" <=> owed > 0
  BY DEF IInv, LockInv
<1>b. SUFFICES Goal
  BY DEF SlotsAccounted, Size
<1>p. /\ pc \in [Clients \cup {Agent} ->
                {"idle", "waiting", "granted", "posted",
                 "woken", "freed", "dropping", "releasing"}]
      /\ Agent \notin Clients
  BY <1>0, QueueAssumption DEF TypeOK
<1> HIDE DEF k, kNext, free, freeNext
<1>1. ASSUME NEW p \in Clients, NEW m \in Messages, Enqueue(p, m)
      PROVE  Goal
  <2>1. kNext = k
    BY <1>p, <1>1 DEF Enqueue, InFlight, k, kNext
  <2>2. freeNext = free
    BY <1>p, <1>1 DEF Enqueue, free, freeNext
  <2>3. /\ space' = space /\ tail' = tail /\ head' = head
        /\ owed' = owed /\ leaked' = leaked /\ forged' = forged
    BY <1>1, Zenon DEF Enqueue, histories
  <2> QED
    BY <1>n, <1>a, <2>1, <2>2, <2>3
<1>2. ASSUME NEW p \in Clients, QueueFull(p)
      PROVE  Goal
  <2>1. kNext = k
    BY <1>p, <1>2 DEF QueueFull, InFlight, k, kNext
  <2>2. freeNext = free
    BY <1>p, <1>2 DEF QueueFull, free, freeNext
  <2>3. /\ space' = space /\ tail' = tail /\ head' = head
        /\ owed' = owed /\ leaked' = leaked /\ forged' = forged
    BY <1>2, Zenon DEF QueueFull, histories
  <2> QED
    BY <1>n, <1>a, <2>1, <2>2, <2>3
<1>3. ASSUME NEW p \in Clients, AcquireSpace(p)
      PROVE  Goal
  <2>1. kNext = k + 1
    BY <1>0, <1>3, InFlightGrows, Zenon DEF AcquireSpace, k, kNext
  <2>2. freeNext = free
    BY <1>p, <1>3 DEF AcquireSpace, free, freeNext
  <2>3. /\ space' = space - 1 /\ tail' = tail /\ head' = head
        /\ owed' = owed /\ leaked' = leaked /\ forged' = forged
    BY <1>3, Zenon DEF AcquireSpace, histories
  <2> QED
    BY <1>n, <1>a, <2>1, <2>2, <2>3
<1>4. ASSUME NEW p \in Clients, Post(p)
      PROVE  Goal
  <2>1. kNext = k
    BY <1>p, <1>4 DEF Post, InFlight, k, kNext
  <2>2. freeNext = free
    BY <1>p, <1>4 DEF Post, free, freeNext
  <2>3. /\ space' = space /\ tail' = tail /\ head' = head
        /\ owed' = owed /\ leaked' = leaked /\ forged' = forged
    BY <1>4, Zenon DEF Post, histories
  <2> QED
    BY <1>n, <1>a, <2>1, <2>2, <2>3
<1>5. ASSUME NEW p \in Clients, CommitPut(p)
      PROVE  Goal
  <2>1. kNext = k - 1
    BY <1>0, <1>5, InFlightShrinks, Zenon DEF CommitPut, k, kNext
  <2>2. freeNext = free
    BY <1>p, <1>5 DEF CommitPut, free, freeNext
  <2>3. /\ space' = space /\ tail' = tail + 1 /\ head' = head
        /\ owed' = owed /\ leaked' = leaked /\ forged' = forged
    BY <1>5, Zenon DEF CommitPut, histories
  <2> QED
    BY <1>n, <1>a, <2>1, <2>2, <2>3
<1>6. ASSUME NEW p \in Clients, CrashClient(p)
      PROVE  Goal
  <2>1. kNext = k - 1
    BY <1>0, <1>6, InFlightShrinks, QueueAssumption, Zenon
       DEF CrashClient, Restart, k, kNext
  <2>2. freeNext = free
    BY <1>p, <1>6 DEF CrashClient, Restart, free, freeNext
  <2>3. /\ space' = space /\ tail' = tail /\ head' = head
        /\ owed' = owed /\ leaked' = leaked + 1 /\ forged' = forged
    BY <1>6, Zenon DEF CrashClient, Restart, histories
  <2> QED
    BY <1>n, <1>a, <2>1, <2>2, <2>3
<1>7. CASE DequeueTimeout \/ UNCHANGED vars
  <2>1. UNCHANGED vars
    BY <1>7 DEF DequeueTimeout
  <2>2. kNext = k /\ freeNext = free
    BY <2>1, Zenon DEF vars, InFlight, k, kNext, free, freeNext
  <2> QED
    BY <1>a, <2>1, <2>2 DEF vars, histories
<1>8. CASE AcquireItem
  <2>1. kNext = k
    BY <1>0, <1>8, InFlightOfAgent, Zenon DEF AcquireItem, k, kNext
  <2>2. free = 0 /\ freeNext = 0
    BY <1>p, <1>8 DEF AcquireItem, free, freeNext
  <2>3. /\ space' = space /\ tail' = tail /\ head' = head
        /\ owed' = owed /\ leaked' = leaked /\ forged' = forged
    BY <1>8, Zenon DEF AcquireItem, histories
  <2> QED
    BY <1>n, <1>a, <2>1, <2>2, <2>3
<1>9. CASE TakeNothing
  <2>1. kNext = k
    BY <1>0, <1>9, InFlightOfAgent, Zenon DEF TakeNothing, k, kNext
  <2>2. free = 0 /\ freeNext = 0
    BY <1>p, <1>9 DEF TakeNothing, free, freeNext
  <2>3. /\ space' = space /\ tail' = tail /\ head' = head
        /\ owed' = owed /\ leaked' = leaked /\ forged' = forged
    BY <1>9, Zenon DEF TakeNothing, histories
  <2> QED
    BY <1>n, <1>a, <2>1, <2>2, <2>3
<1>10. CASE Free
  <2>1. kNext = k
    BY <1>0, <1>10, InFlightOfAgent, Zenon DEF Free, k, kNext
  <2>2. free = 0
    BY <1>10 DEF Free, free
  <2>3. tail' = tail /\ head' = head /\ owed' = owed /\ leaked' = leaked /\ forged' = forged
    BY <1>10, Zenon DEF Free, histories
  <2>4. (space' = space /\ freeNext = 0) \/ (space' = space + 1 /\ freeNext = 1)
    BY <1>p, <1>10 DEF Free, freeNext
  <2> QED
    BY <1>n, <1>a, <2>1, <2>2, <2>3, <2>4
<1>11. CASE CommitTake
  <2>1. kNext = k
    BY <1>0, <1>11, InFlightOfAgent, Zenon DEF CommitTake, k, kNext
  <2>2. freeNext = 0
    BY <1>p, <1>11 DEF CommitTake, freeNext
  <2>3. (leaked' = leaked /\ free = 1) \/ (leaked' = leaked + 1 /\ free = 0)
    <3>1. CASE pc[Agent] = "freed"
      BY <1>11, <3>1 DEF CommitTake, free
    <3>2. CASE pc[Agent] = "dropping"
      BY <1>11, <3>2 DEF CommitTake, free
    <3> QED
      BY <1>11, <3>1, <3>2, Zenon DEF CommitTake
  <2>4. /\ space' = space /\ tail' = tail /\ head' = head + 1
        /\ owed' = owed /\ forged' = forged
    BY <1>11, Zenon DEF CommitTake
  <2> QED
    BY <1>n, <1>a, <2>1, <2>2, <2>3, <2>4
<1>12. CASE TakeBatch
  <2> DEFINE n == IF MaxBatch < Size THEN MaxBatch ELSE Size
  <2>1. kNext = k
    BY <1>0, <1>12, InFlightOfAgent, Zenon DEF TakeBatch, k, kNext
  <2>2. pc[Agent] = "idle" /\ pc' = [pc EXCEPT ![Agent] = "releasing"]
    BY <1>12, Zenon DEF TakeBatch
  <2>3. free = 0 /\ freeNext = 0 /\ owed = 0
    BY <1>n, <1>p, <1>o, <2>2 DEF free, freeNext
  <2>4. /\ space' = space /\ tail' = tail /\ head' = head + n
        /\ owed' = n /\ leaked' = leaked /\ forged' = forged
    BY <1>12, Zenon DEF TakeBatch, histories
  <2>5. n \in Int
    BY <1>n, QueueAssumption DEF Size
  <2> HIDE DEF n
  <2> QED
    BY <1>n, <1>a, <2>1, <2>3, <2>4, <2>5
<1>13. CASE ReleaseSlot
  <2>1. kNext = k
    BY <1>0, <1>13, InFlightOfAgent, Zenon DEF ReleaseSlot, k, kNext
  <2>2. free = 0 /\ freeNext = 0
    BY <1>p, <1>13 DEF ReleaseSlot, free, freeNext
  <2>3. /\ space' = space + 1 /\ tail' = tail /\ head' = head
        /\ owed' = owed - 1 /\ leaked' = leaked /\ forged' = forged
    BY <1>13, Zenon DEF ReleaseSlot, histories
  <2> QED
    BY <1>n, <1>a, <2>1, <2>2, <2>3
<1>14. CASE CrashAgent
  <2>1. kNext = k
    BY <1>0, <1>14, InFlightOfAgent, Zenon DEF CrashAgent, Restart, k, kNext
  <2>2. freeNext = 0
    BY <1>p, <1>14 DEF CrashAgent, Restart, freeNext
  <2>3. forged' = forged + free
    BY <1>n, <1>14 DEF CrashAgent, free
  <2>4. /\ space' = space /\ tail' = tail /\ head' = head
        /\ owed' = 0 /\ leaked' = leaked + owed
    BY <1>14, Zenon DEF CrashAgent
  <2> QED
    BY <1>n, <1>a, <2>1, <2>2, <2>3, <2>4
<1> HIDE DEF Goal
<1> QED
  BY <1>1, <1>2, <1>3, <1>4, <1>5, <1>6, <1>7, <1>8, <1>9, <1>10, <1>11, <1>12,
     <1>13, <1>14, Zenon DEF Next, ClientStep, AgentStep

\* Every reachable state of the queue satisfies the inductive invariant.
LEMMA InvariantHolds == Spec => []IInv
<1>1. IInv /\ [Next]_vars => IInv'
  BY LocalStep, SlotsStep DEF IInv
<1> QED
  BY <1>1, InitIInv, PTL DEF Spec

-----------------------------------------------------------------------------
\* The variables keep their types, the semaphore counts stay natural numbers.
THEOREM TypeCorrect == Spec => []TypeOK
<1>1. IInv => TypeOK
  BY DEF IInv
<1> QED
  BY <1>1, InvariantHolds, PTL

\* No slot is lost or invented except by the crashes and the undecodable
\* messages that the histories record, whatever the interleaving of enqueue,
\* dequeue and dequeue_batch.
THEOREM SlotsAreAccounted == Spec => []SlotsAccounted
<1>1. IInv => SlotsAccounted
  BY DEF IInv
<1> QED
  BY <1>1, InvariantHolds, PTL

\* Unless an agent died between the release of a slot and the commit, enqueue
\* never writes over a message that was not taken out.
THEOREM EnqueueNeverOverwrites == Spec => []NeverOverwrites
<1>1. IInv => NeverOverwrites
  <2> SUFFICES ASSUME IInv, forged = 0, NEW p \in Clients, pc[p] = "posted"
               PROVE  Size < Capacity
    BY DEF NeverOverwrites
  <2>1. Cardinality(InFlight) # 0
    BY InFlightFinite, FS_EmptySet DEF InFlight
  <2>2. pc[Agent] # "freed"
    BY QueueAssumption DEF IInv, LockInv
  <2> QED
    BY <2>1, <2>2, InFlightFinite, QueueAssumption
       DEF IInv, SlotsAccounted, SizeInv, TypeOK, Size
<1> QED
  BY <1>1, InvariantHolds, PTL

\* While no token was lost with an agent, a queued message has its token, so
\* an agent that waits on _sem is woken for it.
THEOREM WakeupNeverLost == Spec => []NoLostWakeup
<1>1. IInv => NoLostWakeup
  BY DEF IInv, TypeOK, SizeInv, WakeupInv, NoLostWakeup, Size
<1> QED
  BY <1>1, InvariantHolds, PTL

-----------------------------------------------------------------------------
(* The ring as a FIFO queue. *)

\* The live part of a ring s between the positions h and t.
Window(s, h, t) == [i \in 1..(t - h) |-> s[Slot(h + i - 1)]]

Values == Messages \cup {None}

-----------------------------------------------------------------------------
\* _circular_key maps every position into the ring.
LEMMA SlotInRing == ASSUME NEW a \in Nat PROVE Slot(a) \in 0..(Capacity - 1)
BY QueueAssumption DEF Slot

\* A position is its lap times the capacity plus its slot.
LEMMA DivMod ==
  ASSUME NEW c \in Int, c > 0, NEW a \in Int
  PROVE  a = c * (a \div c) + (a % c)
BY Z3

\* Two positions less than a lap apart have different slots.
LEMMA SlotsDiffer ==
  ASSUME NEW a \in Nat, NEW b \in Nat, a < b, b - a < Capacity
  PROVE  Slot(a) # Slot(b)
<1>0. Capacity \in Int /\ Capacity > 0 /\ a \in Int /\ b \in Int
  BY QueueAssumption
<1> DEFINE x == a \div Capacity
           y == b \div Capacity
<1>a. a = Capacity * x + (a % Capacity)
  BY <1>0, DivMod
<1>b. b = Capacity * y + (b % Capacity)
  BY <1>0, DivMod
<1> SUFFICES ASSUME a % Capacity = b % Capacity PROVE FALSE
  BY DEF Slot
<1>1. x \in Int /\ y \in Int /\ a % Capacity \in Int
  BY <1>0
<1> HIDE DEF x, y
<1>2. b - a = Capacity * y - Capacity * x
  BY <1>0, <1>a, <1>b, <1>1
<1>3. Capacity * y - Capacity * x = Capacity * (y - x)
  BY <1>1, QueueAssumption
<1>4. CASE y - x <= 0
  BY <1>1, <1>2, <1>3, <1>4, QueueAssumption
<1>5. CASE y - x >= 1
  BY <1>1, <1>2, <1>3, <1>5, QueueAssumption
<1> QED
  BY <1>1, <1>4, <1>5

-----------------------------------------------------------------------------
\* A window of consecutive positions of the ring, read as a sequence.
LEMMA WindowSeq ==
  ASSUME NEW s \in [0..(Capacity - 1) -> Values],
         NEW h \in Nat, NEW t \in Nat, h <= t
  PROVE  /\ Window(s, h, t) \in Seq(Values)
         /\ Len(Window(s, h, t)) = t - h
         /\ \A i \in 1..(t - h) : Window(s, h, t)[i] = s[Slot(h + i - 1)]
<1>1. \A i \in 1..(t - h) : s[Slot(h + i - 1)] \in Values
  <2> TAKE i \in 1..(t - h)
  <2>1. h + i - 1 \in Nat
    OBVIOUS
  <2> QED
    BY <2>1, SlotInRing
<1>2. t - h \in Nat
  OBVIOUS
<1> QED
  BY <1>1, <1>2 DEF Window

\* Writing the slot at t appends to the window.
LEMMA WindowPut ==
  ASSUME NEW s \in [0..(Capacity - 1) -> Values], NEW m \in Values,
         NEW h \in Nat, NEW t \in Nat, h <= t, t - h < Capacity
  PROVE  Window([s EXCEPT ![Slot(t)] = m], h, t + 1)
           = Append(Window(s, h, t), m)
<1> DEFINE s2 == [s EXCEPT ![Slot(t)] = m]
           new == Window(s2, h, t + 1)
           old == Window(s, h, t)
<1>1. s2 \in [0..(Capacity - 1) -> Values] /\ s2[Slot(t)] = m
  BY SlotInRing
<1>2. \A i \in 1..(t - h) : s2[Slot(h + i - 1)] = s[Slot(h + i - 1)]
  <2> TAKE i \in 1..(t - h)
  <2>1. /\ h + i - 1 \in Nat /\ h + i - 1 < t /\ t - (h + i - 1) < Capacity
    BY QueueAssumption
  <2>2. Slot(h + i - 1) # Slot(t)
    BY <2>1, SlotsDiffer
  <2> QED
    BY <2>1, <2>2, SlotInRing
<1> HIDE DEF s2
<1>3. /\ new \in Seq(Values)
      /\ Len(new) = t + 1 - h
      /\ \A i \in 1..(t + 1 - h) : new[i] = s2[Slot(h + i - 1)]
  <2>1. t + 1 \in Nat /\ h <= t + 1
    OBVIOUS
  <2>2. \A u \in Nat : h <= u =>
          /\ Window(s2, h, u) \in Seq(Values)
          /\ Len(Window(s2, h, u)) = u - h
          /\ \A i \in 1..(u - h) : Window(s2, h, u)[i] = s2[Slot(h + i - 1)]
    BY <1>1, WindowSeq, Zenon
  <2> QED
    BY <2>1, <2>2
<1>4. /\ old \in Seq(Values)
      /\ Len(old) = t - h
      /\ \A i \in 1..(t - h) : old[i] = s[Slot(h + i - 1)]
  BY WindowSeq, Zenon
<1> HIDE DEF new, old
<1>5. \A i \in 1..(t + 1 - h) : new[i] = Append(old, m)[i]
  <2> SUFFICES ASSUME NEW i \in 1..(t + 1 - h)
               PROVE  new[i] = Append(old, m)[i]
    BY Zenon
  <2>0. i <= t - h \/ i = t + 1 - h
    OBVIOUS
  <2>1. CASE i <= t - h
    BY <1>2, <1>3, <1>4, <2>1
  <2>2. CASE i = t + 1 - h
    <3>1. h + i - 1 = t
      BY <2>2
    <3>2. new[i] = m
      BY <1>1, <1>3, <3>1, Zenon
    <3>3. Append(old, m)[Len(old) + 1] = m
      BY <1>4
    <3> QED
      BY <1>4, AppendProperties, <2>2, <3>2, <3>3
  <2> QED
    BY <2>0, <2>1, <2>2, Zenon
<1>6. Append(old, m) \in Seq(Values) /\ Len(Append(old, m)) = t + 1 - h
  BY <1>4
<1>7. new = Append(old, m)
  BY <1>3, <1>5, <1>6, SeqEqual
<1> QED
  BY <1>7, Zenon DEF new, old, s2

\* Moving the head by n takes the n oldest off the window.
LEMMA WindowTake ==
  ASSUME NEW s \in [0..(Capacity - 1) -> Values],
         NEW h \in Nat, NEW t \in Nat, NEW n \in Nat, h + n <= t
  PROVE  /\ Window(s, h, h + n) = SubSeq(Window(s, h, t), 1, n)
         /\ Window(s, h + n, t) = SubSeq(Window(s, h, t), n + 1, t - h)
<1> DEFINE w == Window(s, h, t)
           front == Window(s, h, h + n)
           rest == Window(s, h + n, t)
<1>0. /\ h + n \in Nat /\ h <= h + n /\ h <= t
      /\ (h + n) - h = n /\ n + 1 \in Int /\ t - h \in Int
  OBVIOUS
<1>1. /\ w \in Seq(Values)
      /\ Len(w) = t - h
      /\ \A i \in 1..(t - h) : w[i] = s[Slot(h + i - 1)]
  BY <1>0, WindowSeq, Zenon
<1>2. /\ front \in Seq(Values)
      /\ Len(front) = n
      /\ \A i \in 1..n : front[i] = s[Slot(h + i - 1)]
  <2>1. /\ front \in Seq(Values)
        /\ Len(front) = (h + n) - h
        /\ \A i \in 1..((h + n) - h) : front[i] = s[Slot(h + i - 1)]
    BY <1>0, WindowSeq, Zenon
  <2> QED
    BY <1>0, <2>1
<1>3. /\ rest \in Seq(Values)
      /\ Len(rest) = t - (h + n)
      /\ \A i \in 1..(t - (h + n)) : rest[i] = s[Slot(h + n + i - 1)]
  BY <1>0, WindowSeq, Zenon
<1> HIDE DEF w, front, rest
<1>4. /\ SubSeq(w, 1, n) \in Seq(Values)
      /\ Len(SubSeq(w, 1, n)) = n
      /\ \A i \in 1..n : SubSeq(w, 1, n)[i] = w[i]
  <2>1. \A i \in 1..n : w[i] \in Values
    BY <1>1
  <2> QED
    BY <2>1, SubSeqProperties
<1>5. /\ SubSeq(w, n + 1, t - h) \in Seq(Values)
      /\ Len(SubSeq(w, n + 1, t - h)) = t - (h + n)
      /\ \A i \in 1..(t - (h + n)) : SubSeq(w, n + 1, t - h)[i] = w[n + i]
  BY <1>1
<1>6. front = SubSeq(w, 1, n)
  BY <1>1, <1>2, <1>4, SeqEqual
<1>7. rest = SubSeq(w, n + 1, t - h)
  <2>1. \A i \in 1..(t - (h + n)) : rest[i] = SubSeq(w, n + 1, t - h)[i]
    <3> TAKE i \in 1..(t - (h + n))
    <3>1. n + i \in 1..(t - h) /\ h + n + i - 1 = h + (n + i) - 1
      OBVIOUS
    <3> QED
      BY <1>1, <1>3, <1>5, <3>1
  <2> QED
    BY <1>3, <1>5, <2>1, SeqEqual
<1> QED
  BY <1>6, <1>7 DEF w, front, rest

-----------------------------------------------------------------------------
\* The messages between head and tail are such a window.
LEMMA ContentsIsWindow == Contents = Window(slots, head, tail)
BY DEF Contents, Window, Size

\* An agent that survives its transactions releases no slot twice.
LEMMA NothingForged ==
  ASSUME "freed" \notin AgentDiesAt PROVE Spec => [](forged = 0)
<1>1. Init => forged = 0
  BY DEF Init
<1>2. forged = 0 /\ [Next]_vars => (forged = 0)'
  BY DEF Next, ClientStep, AgentStep, vars, histories, Enqueue, QueueFull,
         AcquireSpace, Post, CommitPut, CrashClient, DequeueTimeout, AcquireItem,
         TakeNothing, Free, CommitTake, TakeBatch, ReleaseSlot, CrashAgent
<1> QED
  BY <1>1, <1>2, PTL DEF Spec

\* A step that leaves the ring and the history alone is a stutter.
LEMMA RingUntouched ==
  ASSUME UNCHANGED <<head, tail, slots, handed>>
  PROVE  UNCHANGED F!fifoVars
BY DEF F!fifoVars, Contents, Size, Slot

\* A commit of enqueue is a Put.
LEMMA PutStep ==
  ASSUME IInv, NeverOverwrites, forged = 0, NEW p \in Clients, CommitPut(p)
  PROVE  F!Put(arg[p]) /\ arg[p] \in Messages
<1>1. /\ head \in Nat /\ tail \in Nat /\ head <= tail
      /\ slots \in [0..(Capacity - 1) -> Values]
      /\ pc[p] = "posted" /\ arg[p] \in Messages /\ arg[p] \in Values
      /\ tail - head < Capacity
  BY DEF IInv, TypeOK, SizeInv, NeverOverwrites, CommitPut, Size, Values
<1>2. /\ slots' = [slots EXCEPT ![Slot(tail)] = arg[p]]
      /\ tail' = tail + 1 /\ head' = head /\ handed' = handed
  BY DEF CommitPut
<1>3. Contents' = Window([slots EXCEPT ![Slot(tail)] = arg[p]], head, tail + 1)
  BY <1>2 DEF Contents, Window, Size, Slot
<1>4. Contents' = Append(Contents, arg[p])
  BY <1>1, <1>3, WindowPut, ContentsIsWindow, Zenon
<1>5. Len(Contents) < Capacity
  BY <1>1, WindowSeq, ContentsIsWindow
<1> QED
  BY <1>1, <1>2, <1>4, <1>5 DEF F!Put

\* Moving the head by n and handing out what was there is a Take.
LEMMA TakeStep ==
  ASSUME IInv, NEW n \in 1..Size, head' = head + n, UNCHANGED <<tail, slots>>,
         handed' = handed \o Window(slots, head, head + n)
  PROVE  F!Take(n) /\ n \in 1..Len(Contents)
<1>1. /\ head \in Nat /\ tail \in Nat /\ head <= tail
      /\ slots \in [0..(Capacity - 1) -> Values]
      /\ n \in Nat /\ head + n <= tail
  BY DEF IInv, TypeOK, SizeInv, Size, Values
<1>2. Len(Contents) = tail - head
  BY <1>1, WindowSeq, ContentsIsWindow, Zenon
<1>3. Contents' = Window(slots, head + n, tail)
  BY DEF Contents, Window, Size, Slot
<1>4. /\ Window(slots, head, head + n) = SubSeq(Contents, 1, n)
      /\ Window(slots, head + n, tail) = SubSeq(Contents, n + 1, tail - head)
  BY <1>1, WindowTake, ContentsIsWindow, Zenon
<1>5. handed' = handed \o SubSeq(Contents, 1, n)
  BY <1>4, Zenon
<1>6. Contents' = SubSeq(Contents, n + 1, Len(Contents))
  BY <1>2, <1>3, <1>4
<1> QED
  BY <1>2, <1>5, <1>6, Zenon DEF F!Take, Size

\* Every step of the queue is a step of the FIFO or changes nothing of it.
LEMMA StepRefines ==
  IInv /\ NeverOverwrites /\ forged = 0 /\ [Next]_vars => [F!FifoNext]_(F!fifoVars)
<1> SUFFICES ASSUME IInv, NeverOverwrites, forged = 0, [Next]_vars
             PROVE  F!FifoNext \/ UNCHANGED F!fifoVars
  OBVIOUS
<1>1. ASSUME NEW p \in Clients, CommitPut(p) PROVE F!FifoNext
  BY <1>1, PutStep DEF F!FifoNext
<1>2. CASE CommitTake
  <2>1. /\ head \in Nat /\ tail \in Nat /\ head < tail
        /\ slots \in [0..(Capacity - 1) -> Values]
        /\ handed \in Seq(Values)
    BY <1>2 DEF IInv, TypeOK, SizeInv, CommitTake, Values
  <2>2. 1 \in 1..Size /\ head + 1 \in Nat /\ head <= head + 1
    BY <2>1 DEF Size
  <2>3. (head + 1) - head = 1 /\ \A i \in 1..1 : head + i - 1 = head
    BY <2>1
  <2>4. Window(slots, head, head + 1) = [i \in 1..1 |-> slots[Slot(head)]]
    BY <2>3 DEF Window
  <2>5. [i \in 1..1 |-> slots[Slot(head)]] = <<slots[Slot(head)]>>
    OBVIOUS
  <2>6. handed' = handed \o Window(slots, head, head + 1)
    <3>1. slots[Slot(head)] \in Values
      BY <2>1, SlotInRing
    <3>2. handed' = Append(handed, slots[Slot(head)])
      BY <1>2 DEF CommitTake
    <3> QED
      BY <2>1, <2>4, <2>5, <3>1, <3>2, AppendIsConcat, Zenon
  <2>7. F!Take(1) /\ 1 \in 1..Len(Contents)
    BY <1>2, <2>2, <2>6, TakeStep DEF CommitTake
  <2> QED
    BY <2>7 DEF F!FifoNext
<1>3. CASE TakeBatch
  <2> DEFINE n == IF MaxBatch < Size THEN MaxBatch ELSE Size
  <2>1. n \in 1..Size /\ head \in Nat /\ (head + n) - head = n
    BY <1>3, QueueAssumption DEF TakeBatch, IInv, TypeOK, SizeInv, Size
  <2>2. /\ head' = head + n /\ UNCHANGED <<tail, slots>>
        /\ handed' = handed \o [i \in 1..n |-> slots[Slot(head + i - 1)]]
    BY <1>3 DEF TakeBatch
  <2> HIDE DEF n
  <2>3. handed' = handed \o Window(slots, head, head + n)
    BY <2>1, <2>2 DEF Window
  <2>4. F!Take(n) /\ n \in 1..Len(Contents)
    BY <2>1, <2>2, <2>3, TakeStep, Zenon
  <2> QED
    BY <2>4 DEF F!FifoNext
<1>4. ASSUME NEW p \in Clients,
             \/ \E m \in Messages : Enqueue(p, m)
             \/ QueueFull(p) \/ AcquireSpace(p) \/ Post(p) \/ CrashClient(p)
      PROVE  UNCHANGED F!fifoVars
  BY <1>4, RingUntouched DEF Enqueue, QueueFull, AcquireSpace, Post, CrashClient
<1>5. CASE \/ DequeueTimeout \/ AcquireItem \/ TakeNothing \/ Free
           \/ ReleaseSlot \/ CrashAgent \/ UNCHANGED vars
  BY <1>5, RingUntouched DEF DequeueTimeout, AcquireItem, TakeNothing, Free,
                             ReleaseSlot, CrashAgent, vars
<1> QED
  BY <1>1, <1>2, <1>3, <1>4, <1>5 DEF Next, ClientStep, AgentStep

\* The command queue is a bounded FIFO queue: through every interleaving of
\* enqueue, dequeue and dequeue_batch, and through crashes at any other point,
\* messages leave in the order of their commits, none is lost or taken twice,
\* and at most Capacity are inside when one is put.
THEOREM QueueImplementsFifo ==
  ASSUME "freed" \notin AgentDiesAt PROVE Spec => IsFifo
<1>1. Init => F!FifoInit
  BY DEF Init, F!FifoInit, Contents, Size
<1> QED
  BY <1>1, StepRefines, InvariantHolds, EnqueueNeverOverwrites, NothingForged, PTL
     DEF IsFifo, F!FifoSpec, Spec
=============================================================================

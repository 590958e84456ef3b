--------------------------- MODULE QueueLifecycle ---------------------------
(***************************************************************************)
(* How processes come to share a command queue and part with it: the       *)
(* constructor with its leader election, clear and close                   *)
(* (tensor_bus/command_queue.py).                                          *)
(*                                                                         *)
(* Semaphores and LMDB files are objects with a name: unlink takes the     *)
(* name away and leaves the object to those who have it open.  Enqueue and *)
(* dequeue are CommandQueue's subject; here each is one step.              *)
(***************************************************************************)
EXTENDS Integers, Sequences, FiniteSets

CONSTANTS
  Users,     \* processes
  Capacity   \* capacity

VARIABLES
  names,     \* name -> object, 0 if the name is free
  sem,       \* semaphore objects: their counts
  queue,     \* LMDB files of the queue: the messages in them
  pc,        \* per process: where it is
  hold,      \* per process: the objects it has open
  broken,    \* a leader left the election without an outcome
  destroyed, \* how often somebody began to destroy a queue
  muddled    \* somebody used the queue while another one cleared it

lifeVars == <<names, sem, queue, pc, hold, broken, destroyed, muddled>>

NoHandles == [ready |-> 0, items |-> 0, space |-> 0, queue |-> 0, state |-> 0]

At(p, from) == pc[p] = from
Go(p, to) == pc' = [pc EXCEPT ![p] = to]
Move(p, from, to) == At(p, from) /\ Go(p, to)

\* O_CREAT | O_EXCL with an initial value.
Create(p, n, value) ==
  /\ sem' = Append(sem, value)
  /\ names' = [names EXCEPT ![n] = Len(sem) + 1]
  /\ hold' = [hold EXCEPT ![p][n] = Len(sem) + 1]

Open(p, n) == hold' = [hold EXCEPT ![p][n] = names[n]]
Unlink(n) == names' = [names EXCEPT ![n] = 0]

\* lmdb.open creates the file if there is none; the pointers are set once.
OpenLmdb(p) ==
  IF names.queue # 0
    THEN Open(p, "queue") /\ UNCHANGED <<names, queue>>
    ELSE /\ queue' = Append(queue, <<>>)
         /\ names' = [names EXCEPT !.queue = Len(queue) + 1]
         /\ hold' = [hold EXCEPT ![p].queue = Len(queue) + 1]

-----------------------------------------------------------------------------
(* The constructor *)

\* Mutant: the ready semaphore is created without O_EXCL.
EveryoneLeads(p) ==
  /\ Move(p, "new", "lead")
  /\ Create(p, "ready", 0)
  /\ UNCHANGED <<queue, broken, destroyed, muddled>>

Elect(p) ==
  /\ At(p, "new")
  /\ IF names.ready = 0
       THEN Go(p, "lead") /\ Create(p, "ready", 0)
       ELSE Go(p, "follow") /\ UNCHANGED <<sem, names, hold>>
  /\ UNCHANGED <<queue, broken, destroyed, muddled>>

LeaderOpens(p) ==
  /\ Move(p, "lead", "items")
  /\ OpenLmdb(p)
  /\ UNCHANGED <<sem, broken, destroyed, muddled>>

\* _init_lmdb_environment raises outside of the inner try: ready stays at 0.
LeaderFails(p) ==
  /\ Move(p, "lead", "raised")
  /\ broken' = TRUE
  /\ UNCHANGED <<names, sem, queue, hold, destroyed, muddled>>

\* The inner except unlinks in order, up to the first name that is not there;
\* the ExistentialError it re-raises makes the leader a follower.
GiveUpLead(p) ==
  /\ Go(p, "follow")
  /\ names' = [n \in DOMAIN names |->
                 IF \/ n = "items"
                    \/ n = "space" /\ names.items # 0
                    \/ n = "ready" /\ names.items # 0 /\ names.space # 0
                 THEN 0 ELSE names[n]]
  /\ UNCHANGED <<sem, hold>>

\* Mutant: a new queue is taken to be empty.
CreateEmptyItems(p) ==
  /\ At(p, "items")
  /\ IF names.items # 0 THEN GiveUpLead(p) ELSE Go(p, "space") /\ Create(p, "items", 0)
  /\ UNCHANGED <<queue, broken, destroyed, muddled>>

CreateItems(p) ==
  /\ At(p, "items")
  /\ IF names.items # 0
       THEN GiveUpLead(p)
       ELSE Go(p, "space") /\ Create(p, "items", Len(queue[hold[p].queue]))
  /\ UNCHANGED <<queue, broken, destroyed, muddled>>

CreateSpace(p) ==
  /\ At(p, "space")
  /\ IF names.space # 0
       THEN GiveUpLead(p)
       ELSE Go(p, "announce") /\ Create(p, "space", Capacity - Len(queue[hold[p].queue]))
  /\ UNCHANGED <<queue, broken, destroyed, muddled>>

\* The leader opens the door, and every follower after it for the next one.
Announce(p) ==
  /\ \/ Move(p, "announce", "up")
     \/ Move(p, "pass", "open")
  /\ sem' = [sem EXCEPT ![hold[p].ready] = @ + 1]
  /\ UNCHANGED <<names, queue, hold, broken, destroyed, muddled>>

\* Opening a semaphore that is not there raises.
Follow(p) ==
  /\ At(p, "follow")
  /\ IF names.ready = 0
       THEN Go(p, "raised") /\ UNCHANGED hold
       ELSE Go(p, "wait") /\ Open(p, "ready")
  /\ UNCHANGED <<names, sem, queue, broken, destroyed, muddled>>

\* Mutant: a follower keeps the ready token.
WaitAndKeep(p) ==
  /\ Move(p, "wait", "open")
  /\ sem[hold[p].ready] > 0
  /\ sem' = [sem EXCEPT ![hold[p].ready] = @ - 1]
  /\ UNCHANGED <<names, queue, hold, broken, destroyed, muddled>>

WaitReady(p) ==
  /\ Move(p, "wait", "pass")
  /\ sem[hold[p].ready] > 0
  /\ sem' = [sem EXCEPT ![hold[p].ready] = @ - 1]
  /\ UNCHANGED <<names, queue, hold, broken, destroyed, muddled>>

FollowerOpens(p) ==
  /\ Move(p, "open", "getitems")
  /\ OpenLmdb(p)
  /\ UNCHANGED <<sem, broken, destroyed, muddled>>

GetSemaphore(p) ==
  /\ \E s \in {<<"getitems", "items", "getspace">>, <<"getspace", "space", "up">>} :
       /\ At(p, s[1])
       /\ IF names[s[2]] = 0
            THEN Go(p, "raised") /\ UNCHANGED hold
            ELSE Go(p, s[3]) /\ Open(p, s[2])
  /\ UNCHANGED <<names, sem, queue, broken, destroyed, muddled>>

Construct(p) ==
  \/ Elect(p) \/ LeaderOpens(p) \/ CreateItems(p) \/ CreateSpace(p) \/ Announce(p)
  \/ Follow(p) \/ WaitReady(p) \/ FollowerOpens(p) \/ GetSemaphore(p)

-----------------------------------------------------------------------------
(* Use.  The queue is named by the handles of the process *)

ClearSteps == {"drain", "drainspace", "refill"}

Clearing(p) ==
  \E q \in Users \ {p} : pc[q] \in ClearSteps /\ hold[q].queue = hold[p].queue

Put(p, message) ==
  /\ sem[hold[p].space] > 0
  /\ sem' = [sem EXCEPT ![hold[p].space] = @ - 1, ![hold[p].items] = @ + 1]
  /\ queue' = [queue EXCEPT ![hold[p].queue] = Append(@, message)]
  /\ muddled' = (muddled \/ Clearing(p))

\* An empty ring behind an item token is skipped.
TakeOut(p) ==
  /\ sem[hold[p].items] > 0
  /\ IF queue[hold[p].queue] = <<>>
       THEN sem' = [sem EXCEPT ![hold[p].items] = @ - 1] /\ UNCHANGED queue
       ELSE /\ sem' = [sem EXCEPT ![hold[p].items] = @ - 1, ![hold[p].space] = @ + 1]
            /\ queue' = [queue EXCEPT ![hold[p].queue] = Tail(@)]
  /\ muddled' = (muddled \/ Clearing(p))

-----------------------------------------------------------------------------
(* clear *)

ResetPointers(p, from) ==
  /\ Move(p, from, "drain")
  /\ queue' = [queue EXCEPT ![hold[p].queue] = <<>>]
  /\ muddled' = (muddled \/ Clearing(p))
  /\ UNCHANGED <<names, sem, hold, broken, destroyed>>

\* acquire(timeout=0) until it would block.
Drain(p) ==
  /\ \E s \in {<<"drain", "items", "drainspace">>, <<"drainspace", "space", "refill">>} :
       /\ At(p, s[1])
       /\ IF sem[hold[p][s[2]]] > 0
            THEN sem' = [sem EXCEPT ![hold[p][s[2]]] = @ - 1] /\ UNCHANGED pc
            ELSE Go(p, s[3]) /\ UNCHANGED sem
  /\ UNCHANGED <<names, queue, hold, broken, destroyed, muddled>>

Refill(p) ==
  /\ Move(p, "refill", "cleared")
  /\ sem' = [sem EXCEPT ![hold[p].space] = @ + Capacity]
  /\ UNCHANGED <<names, queue, hold, broken, destroyed, muddled>>

-----------------------------------------------------------------------------
(* close *)

LetGo(p) == [hold EXCEPT ![p] = [NoHandles EXCEPT !.state = hold[p].state]]

\* destroy=True takes the names away, whoever uses them by now.
CloseQueue(p, from) ==
  /\ Move(p, from, "unlink1")
  /\ destroyed' = destroyed + 1
  /\ UNCHANGED <<names, sem, queue, hold, broken, muddled>>

UnlinkNext(p) ==
  /\ \E s \in {<<"unlink1", "items", "unlink2">>, <<"unlink2", "space", "unlink3">>,
               <<"unlink3", "ready", "unlink4">>, <<"unlink4", "queue", "closed">>} :
       /\ Move(p, s[1], s[3])
       /\ Unlink(s[2])
       /\ hold' = IF s[3] = "unlink4" THEN LetGo(p)
                  ELSE hold
  /\ UNCHANGED <<sem, queue, broken, destroyed, muddled>>

\* destroy=False only closes the handles.
CloseHandles(p, from) ==
  /\ Move(p, from, "closed")
  /\ hold' = LetGo(p)
  /\ UNCHANGED <<names, sem, queue, broken, destroyed, muddled>>

-----------------------------------------------------------------------------
(* What a queue owes its users *)

HasQueue(p) == hold[p].space # 0

Handles(p) == [n \in {"items", "space", "queue"} |-> hold[p][n]]

\* All that have come through the constructor have the same objects open.
OneQueue ==
  destroyed > 0 \/ \A p, q \in Users : HasQueue(p) /\ HasQueue(q) => Handles(p) = Handles(q)

\* The two semaphores of a queue count its messages and its free slots.
TokensExact ==
  muddled \/ destroyed > 0 \/ \A p \in Users :
    HasQueue(p) /\ ~Clearing(p) /\ pc[p] \notin ClearSteps
      => /\ sem[hold[p].items] = Len(queue[hold[p].queue])
         /\ sem[hold[p].space] = Capacity - Len(queue[hold[p].queue])

\* Until somebody destroys it, there is one queue, whoever starts in what order
\* (one leader, and followers that open what it made), and its semaphores are
\* right: from the constructor on, also over messages of an earlier session, and
\* again after a clear that nobody got into.
QueueIsShared == OneQueue /\ TokensExact
=============================================================================

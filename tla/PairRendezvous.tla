--------------------------- MODULE PairRendezvous ---------------------------
(***************************************************************************)
(* How the agents of a world match pairs (agent.py): InitPair writes one   *)
(* side's keys to the KV store and parks the command; the leader (rank 0)  *)
(* appends pairs whose two sides are complete to a log in the store; every *)
(* rank consumes the log in order and completes each pair it names, which  *)
(* creates process groups by collective calls on the whole world.          *)
(*                                                                         *)
(* An agent is one thread, so its steps are ordered by pc; the steps of    *)
(* different agents interleave at every access to the store.               *)
(***************************************************************************)
EXTENDS Naturals, Sequences, FiniteSets

CONSTANTS N,            \* number of ranks, world_size
          Pairs,        \* pair names; numbers, for their sorted order
          Members,      \* Members[p][s]: the ranks of side s of pair p
          Cmds,         \* the InitPair commands that clients send
          NoCmd,        \* an agent that handles no command
          NoLayout,     \* a command without mesh and placements
          CanTimeout,   \* whether the wait for canonical_peers may expire
          RetryEarly    \* whether a client retries when its own wait expires

Ranks == 0..(N - 1)
Leader == 0
Sides == {"a", "b"}

Layout == {c.layout : c \in Cmds} \cup {NoLayout}

\* id tells a client's retry from its first command.
Command == [id : Nat, rank : Ranks, pair : Pairs, side : Sides,
            size : Nat \ {0}, layout : Layout]

ASSUME PairAssumption ==
  /\ N \in Nat \ {0}
  /\ Pairs \subseteq Nat \ {0}
  /\ IsFiniteSet(Pairs)
  /\ Members \in [Pairs -> [Sides -> SUBSET Ranks]]
  /\ Cmds \subseteq Command
  /\ NoCmd \notin Cmds
  /\ CanTimeout \in BOOLEAN
  /\ RetryEarly \in BOOLEAN

\* Every rank receives an InitPair for every pair (_poll_pending_pairs assumes
\* it), and none names a world smaller than its side.
ASSUME CommandAssumption ==
  /\ \A p \in Pairs : Members[p]["a"] \cup Members[p]["b"] = Ranks
  /\ \A c \in Cmds : /\ c.rank \in Members[c.pair][c.side]
                      /\ c.size >= Cardinality(Members[c.pair][c.side])

VARIABLES
  todo,      \* commands not yet taken from their rank's queue
  pc,        \* where each agent is
  cmd,       \* the command it is handling, if any
  entry,     \* the pair it is completing, 0 if none
  size,      \* store: size[p][s][r], 0 while rank r has not registered
  shared,    \* store: the side's expected_world_size, 0 while unset
  layout,    \* store: mesh_shape and placements written by each rank
  marker,    \* store: pairs with pair_completion:logged set
  canon,     \* store: pairs with canonical_peers set
  log,       \* store: pair_completion:entry:n
  cursor,    \* _completion_cursor of each rank
  scan,      \* pairs the leader has yet to look at in this poll
  pend,      \* pending_pairs of each rank
  pexp,      \* expected of the pending pairs
  parked,    \* commands whose semaphore a pending pair holds
  paired,    \* pairs of each rank
  reply,     \* what each command's client was told
  plan,      \* collective calls left of the completion a rank is in
  calls      \* collective calls each rank has made on the world

store == <<size, shared, layout, marker, canon, log>>
local == <<cursor, pend, pexp, parked, paired>>
comm == <<plan, calls>>

vars == <<todo, pc, cmd, entry, store, local, scan, reply, comm>>

Init ==
  /\ todo = Cmds
  /\ pc = [r \in Ranks |-> "poll"]
  /\ cmd = [r \in Ranks |-> NoCmd]
  /\ entry = [r \in Ranks |-> 0]
  /\ size = [p \in Pairs |-> [s \in Sides |-> [r \in Ranks |-> 0]]]
  /\ shared = [p \in Pairs |-> [s \in Sides |-> 0]]
  /\ layout = [p \in Pairs |-> [s \in Sides |-> [r \in Ranks |-> NoLayout]]]
  /\ marker = {}
  /\ canon = {}
  /\ log = << >>
  /\ cursor = [r \in Ranks |-> 0]
  /\ scan = {}
  /\ pend = [r \in Ranks |-> {}]
  /\ pexp = [r \in Ranks |-> [p \in Pairs |-> [s \in Sides |-> 0]]]
  /\ parked = {}
  /\ paired = [r \in Ranks |-> {}]
  /\ reply = [c \in Cmds |-> "none"]
  /\ plan = [r \in Ranks |-> << >>]
  /\ calls = [r \in Ranks |-> << >>]

-----------------------------------------------------------------------------
(* Readiness, as any rank reads it from the store *)

Present(p, s) == {r \in Ranks : size[p][s][r] # 0}

\* MUTANT: the expected size is not compared.
SideStarted(p, s) == Present(p, s) # {}

SideReady(p, s) ==
  /\ Present(p, s) # {}
  /\ \A r \in Present(p, s) : size[p][s][r] = Cardinality(Present(p, s))

PairReady(p) == \A s \in Sides : SideReady(p, s)

-----------------------------------------------------------------------------
(* _handle_init_pair *)

Goto(r, l) == pc' = [pc EXCEPT ![r] = l]

\* The client of a command is told its outcome and released.
Answer(c, outcome) == reply' = [reply EXCEPT ![c] = outcome]

\* A command is in its rank's queue.  A retry follows the client's previous
\* command, as a rule once that has been answered.
Sent(c) ==
  /\ c \in todo
  /\ \A d \in Cmds :
       (d.rank = c.rank /\ d.pair = c.pair /\ d.side = c.side /\ d.id < c.id) =>
         d \notin todo /\ (RetryEarly \/ reply[d] # "none")

\* A pair that is matched accepts an identical command and nothing else.
Duplicate(r, c) ==
  /\ pc[r] = "dequeue"
  /\ Sent(c) /\ c.rank = r
  /\ c.pair \in paired[r]
  /\ todo' = todo \ {c}
  /\ Answer(c, IF /\ c.size = Cardinality(Present(c.pair, c.side))
                  /\ c.layout = layout[c.pair][c.side][r]
                 THEN "ok" ELSE "error")
  /\ Goto(r, "poll")
  /\ UNCHANGED <<cmd, entry, store, local, scan, comm>>

\* A pending pair does not accept another size for the same side.
Reject(r, c) ==
  /\ pc[r] = "dequeue"
  /\ Sent(c) /\ c.rank = r
  /\ c.pair \in pend[r]
  /\ pexp[r][c.pair][c.side] \notin {0, c.size}
  /\ todo' = todo \ {c}
  /\ Answer(c, "error")
  /\ Goto(r, "poll")
  /\ UNCHANGED <<cmd, entry, store, local, scan, comm>>

\* MUTANT: a matched pair is initialised again.
AcceptMatched(r, c) ==
  /\ pc[r] = "dequeue"
  /\ Sent(c) /\ c.rank = r
  /\ c.pair \in pend[r] => pexp[r][c.pair][c.side] \in {0, c.size}
  /\ todo' = todo \ {c}
  /\ cmd' = [cmd EXCEPT ![r] = c]
  /\ Goto(r, "register")
  /\ UNCHANGED <<entry, store, local, scan, reply, comm>>

\* MUTANT: a pending side may change its size.
AcceptAnySize(r, c) ==
  /\ pc[r] = "dequeue"
  /\ Sent(c) /\ c.rank = r
  /\ c.pair \notin paired[r]
  /\ todo' = todo \ {c}
  /\ cmd' = [cmd EXCEPT ![r] = c]
  /\ Goto(r, "register")
  /\ UNCHANGED <<entry, store, local, scan, reply, comm>>

Accept(r, c) ==
  /\ pc[r] = "dequeue"
  /\ Sent(c) /\ c.rank = r
  /\ c.pair \notin paired[r]
  /\ c.pair \in pend[r] => pexp[r][c.pair][c.side] \in {0, c.size}
  /\ todo' = todo \ {c}
  /\ cmd' = [cmd EXCEPT ![r] = c]
  /\ Goto(r, "register")
  /\ UNCHANGED <<entry, store, local, scan, reply, comm>>

\* The registration and this rank's size; a reader that finds the first key
\* without the second treats the side as not ready.
Register(r) ==
  LET c == cmd[r] IN
  /\ pc[r] = "register"
  /\ size' = [size EXCEPT ![c.pair][c.side][r] = c.size]
  /\ Goto(r, "compare")
  /\ UNCHANGED <<todo, cmd, entry, shared, layout, marker, canon, log, local,
                 scan, reply, comm>>

\* The side's size is read ...
CompareSize(r) ==
  LET c == cmd[r] IN
  /\ pc[r] = "compare"
  /\ IF shared[c.pair][c.side] \in {0, c.size}
       THEN Goto(r, "share") /\ UNCHANGED <<cmd, reply>>
       ELSE /\ Answer(c, "error")
            /\ cmd' = [cmd EXCEPT ![r] = NoCmd]
            /\ Goto(r, "poll")
  /\ UNCHANGED <<todo, entry, store, local, scan, comm>>

\* ... and written by another access to the store.
ShareSize(r) ==
  LET c == cmd[r] IN
  /\ pc[r] = "share"
  /\ shared' = [shared EXCEPT ![c.pair][c.side] = c.size]
  /\ Goto(r, IF c.layout = NoLayout THEN "attach" ELSE "layout")
  /\ UNCHANGED <<todo, cmd, entry, size, layout, marker, canon, log, local,
                 scan, reply, comm>>

\* mesh_shape, then placements: a reader needs both.
WriteLayout(r) ==
  LET c == cmd[r] IN
  /\ pc[r] = "layout"
  /\ layout' = [layout EXCEPT ![c.pair][c.side][r] = c.layout]
  /\ Goto(r, "attach")
  /\ UNCHANGED <<todo, cmd, entry, size, shared, marker, canon, log, local,
                 scan, reply, comm>>

\* MUTANT: a retry's semaphore is not kept.
AttachNoRetry(r) ==
  LET c == cmd[r] IN
  /\ pc[r] = "attach"
  /\ marker' = IF c.pair \in pend[r] THEN marker \ {c.pair} ELSE marker
  /\ pend' = [pend EXCEPT ![r] = @ \cup {c.pair}]
  /\ pexp' = [pexp EXCEPT ![r][c.pair][c.side] = c.size]
  /\ parked' = IF c.pair \in pend[r] THEN parked ELSE parked \cup {c}
  /\ cmd' = [cmd EXCEPT ![r] = NoCmd]
  /\ Goto(r, "poll")
  /\ UNCHANGED <<todo, entry, size, shared, layout, canon, log, cursor,
                 paired, scan, reply, comm>>

\* MUTANT: the handler releases the client when it returns.
AttachAndAnswer(r) ==
  LET c == cmd[r] IN
  /\ pc[r] = "attach"
  /\ marker' = IF c.pair \in pend[r] THEN marker \ {c.pair} ELSE marker
  /\ pend' = [pend EXCEPT ![r] = @ \cup {c.pair}]
  /\ pexp' = [pexp EXCEPT ![r][c.pair][c.side] = c.size]
  /\ Answer(c, "ok")
  /\ cmd' = [cmd EXCEPT ![r] = NoCmd]
  /\ Goto(r, "poll")
  /\ UNCHANGED <<todo, entry, size, shared, layout, canon, log, cursor,
                 parked, paired, scan, comm>>

\* The pair becomes pending, or a pending one is to be logged again.
Attach(r) ==
  LET c == cmd[r] IN
  /\ pc[r] = "attach"
  /\ marker' = IF c.pair \in pend[r] THEN marker \ {c.pair} ELSE marker
  /\ pend' = [pend EXCEPT ![r] = @ \cup {c.pair}]
  /\ pexp' = [pexp EXCEPT ![r][c.pair][c.side] = c.size]
  /\ parked' = parked \cup {c}
  /\ cmd' = [cmd EXCEPT ![r] = NoCmd]
  /\ Goto(r, "poll")
  /\ UNCHANGED <<todo, entry, size, shared, layout, canon, log, cursor,
                 paired, scan, reply, comm>>

-----------------------------------------------------------------------------
(* _poll_pending_pairs: the leader appends, everyone consumes *)

Poll(r) ==
  /\ pc[r] = "poll"
  /\ scan' = IF r = Leader THEN pend[r] ELSE scan
  /\ Goto(r, IF pend[r] = {} THEN "dequeue"
             ELSE IF r = Leader THEN "append" ELSE "consume")
  /\ UNCHANGED <<todo, cmd, entry, store, local, reply, comm>>

\* The smallest of the pairs left to look at.
First(S) == CHOOSE p \in S : \A q \in S : p <= q

SkipPair ==
  LET p == First(scan) IN
  /\ pc[Leader] = "append"
  /\ scan # {}
  /\ p \in marker \/ ~PairReady(p)
  /\ scan' = scan \ {p}
  /\ UNCHANGED <<todo, pc, cmd, entry, store, local, reply, comm>>

\* The log entry is written first ...
AppendEntry ==
  LET p == First(scan) IN
  /\ pc[Leader] = "append"
  /\ scan # {}
  /\ p \notin marker /\ PairReady(p)
  /\ log' = Append(log, p)
  /\ Goto(Leader, "mark")
  /\ UNCHANGED <<todo, cmd, entry, size, shared, layout, marker, canon, local,
                 scan, reply, comm>>

\* ... and the marker second.
MarkLogged ==
  LET p == First(scan) IN
  /\ pc[Leader] = "mark"
  /\ marker' = marker \cup {p}
  /\ scan' = scan \ {p}
  /\ Goto(Leader, "append")
  /\ UNCHANGED <<todo, cmd, entry, size, shared, layout, canon, log, local,
                 reply, comm>>

AppendDone ==
  /\ pc[Leader] = "append"
  /\ scan = {}
  /\ Goto(Leader, "consume")
  /\ UNCHANGED <<todo, cmd, entry, store, local, scan, reply, comm>>

\* The next entry; one for a pair that is not pending here is skipped.
Consume(r) ==
  LET p == log[cursor[r] + 1] IN
  /\ pc[r] = "consume"
  /\ cursor[r] < Len(log)
  /\ cursor' = [cursor EXCEPT ![r] = @ + 1]
  /\ IF p \in pend[r]
       THEN Goto(r, "complete") /\ entry' = [entry EXCEPT ![r] = p]
       ELSE UNCHANGED <<pc, entry>>
  /\ UNCHANGED <<todo, cmd, store, pend, pexp, parked, paired, scan, reply,
                 comm>>

ConsumeDone(r) ==
  /\ pc[r] = "consume"
  /\ cursor[r] = Len(log)
  /\ Goto(r, "dequeue")
  /\ UNCHANGED <<todo, cmd, entry, store, local, scan, reply, comm>>

\* dequeue finds no command within its timeout.
Idle(r) ==
  /\ pc[r] = "dequeue"
  /\ Goto(r, "poll")
  /\ UNCHANGED <<todo, cmd, entry, store, local, scan, reply, comm>>

-----------------------------------------------------------------------------
(* _complete_pair *)

\* MUTANT: a failed completion does not forget the semaphores it released.
EverParked(r, p) == {c \in Cmds \ todo : c.rank = r /\ c.pair = p}

Parked(r, p) == {c \in parked : c.rank = r /\ c.pair = p}

\* MUTANT: the semaphores are not cleared.
AnswerAndKeep(r, p, outcome) ==
  /\ reply' = [c \in Cmds |-> IF c \in Parked(r, p) THEN outcome ELSE reply[c]]
  /\ UNCHANGED parked

AnswerParked(r, p, outcome) ==
  /\ reply' = [c \in Cmds |-> IF c \in Parked(r, p) THEN outcome ELSE reply[c]]
  /\ parked' = parked \ Parked(r, p)

\* A completion that raises: its clients learn of it and the pair stays pending
\* for a corrected InitPair.
Fail(r) ==
  /\ AnswerParked(r, entry[r], "error")
  /\ entry' = [entry EXCEPT ![r] = 0]
  /\ Goto(r, "consume")
  /\ UNCHANGED <<todo, cmd, size, shared, layout, marker, log, cursor, pend,
                 pexp, paired, scan, comm>>

\* Both sides are read again, asserted to be ready still (CompletedIsReady),
\* and the smallest rank publishes the peers' names.
Publish(r) ==
  LET p == entry[r]
      members == Present(p, "a") \cup Present(p, "b") IN
  /\ pc[r] = "complete"
  /\ PairReady(p)
  /\ canon' = IF r = First(members) THEN canon \cup {p} ELSE canon
  /\ Goto(r, "peers")
  /\ UNCHANGED <<todo, cmd, entry, size, shared, layout, marker, log, local,
                 scan, reply, comm>>

\* wait_for_key(canonical_peers, timeout=60) expires.
PeersTimeout(r) ==
  /\ pc[r] = "peers"
  /\ entry[r] \notin canon
  /\ CanTimeout
  /\ Fail(r)
  /\ UNCHANGED canon

\* The layouts of a side that are in the store.
Layouts(p, s) == {layout[p][s][r] : r \in Present(p, s)} \ {NoLayout}

HasMesh(p) == \A s \in Sides : Layouts(p, s) # {}

Dual(p) == Present(p, "a") = Present(p, "b")

\* Layouts of one side differ, or a dual-endpoint pair lacks one.
BadLayout(p) ==
  \/ \E s \in Sides : Cardinality(Layouts(p, s)) > 1
  \/ Dual(p) /\ ~HasMesh(p)

\* A world collective: the creation of a process group, or the creation of the
\* device meshes and M2M maps of a pair.
Collective == [op : {"group", "mesh"}, of : SUBSET Nat,
               layouts : [Sides -> SUBSET Layout]]

NewGroup(ranks) ==
  [op |-> "group", of |-> ranks, layouts |-> [s \in Sides |-> {}]]

MeshMaps(p) ==
  [op |-> "mesh", of |-> {p}, layouts |-> [s \in Sides |-> Layouts(p, s)]]

Plan(p) ==
  <<NewGroup(Present(p, "a") \cup Present(p, "b"))>>
    \o (IF HasMesh(p) THEN <<MeshMaps(p)>> ELSE << >>)
    \o <<NewGroup(Present(p, "a")), NewGroup(Present(p, "b"))>>

\* The peers' names are there: collect and validate the layouts.
Collect(r) ==
  LET p == entry[r] IN
  /\ pc[r] = "peers"
  /\ p \in canon
  /\ IF BadLayout(p)
       THEN Fail(r) /\ UNCHANGED canon
       ELSE /\ plan' = [plan EXCEPT ![r] = Plan(p)]
            /\ Goto(r, "calls")
            /\ UNCHANGED <<todo, cmd, entry, store, local, scan, reply, calls>>

\* The k-th world collective returns once every rank has made k of them.
Returned(r) == \A q \in Ranks : Len(calls[q]) >= Len(calls[r])

Cached(r, g) == g.op = "group" /\ \E k \in 1..Len(calls[r]) : calls[r][k] = g

\* MUTANT: only the members of a group call new_group.
CallMembersOnly(r) ==
  LET g == Head(plan[r]) IN
  /\ pc[r] = "calls"
  /\ plan[r] # << >>
  /\ Returned(r)
  /\ plan' = [plan EXCEPT ![r] = Tail(@)]
  /\ calls' = IF Cached(r, g) \/ r \notin g.of THEN calls
              ELSE [calls EXCEPT ![r] = Append(@, g)]
  /\ UNCHANGED <<todo, pc, cmd, entry, store, local, scan, reply>>

Call(r) ==
  LET g == Head(plan[r]) IN
  /\ pc[r] = "calls"
  /\ plan[r] # << >>
  /\ Returned(r)
  /\ plan' = [plan EXCEPT ![r] = Tail(@)]
  /\ calls' = IF Cached(r, g) THEN calls
              ELSE [calls EXCEPT ![r] = Append(@, g)]
  /\ UNCHANGED <<todo, pc, cmd, entry, store, local, scan, reply>>

\* The pair is matched and its clients are released.
Matched(r) ==
  LET p == entry[r] IN
  /\ pc[r] = "calls"
  /\ plan[r] = << >>
  /\ Returned(r)
  /\ paired' = [paired EXCEPT ![r] = @ \cup {p}]
  /\ pend' = [pend EXCEPT ![r] = @ \ {p}]
  /\ AnswerParked(r, p, "ok")
  /\ entry' = [entry EXCEPT ![r] = 0]
  /\ Goto(r, "consume")
  /\ UNCHANGED <<todo, cmd, store, cursor, pexp, scan, comm>>

-----------------------------------------------------------------------------
Dequeue(r) ==
  \E c \in Cmds : Duplicate(r, c) \/ Reject(r, c) \/ Accept(r, c)

Handle(r) ==
  \/ Register(r)
  \/ CompareSize(r)
  \/ ShareSize(r)
  \/ WriteLayout(r)
  \/ Attach(r)

Complete(r) ==
  \/ Publish(r)
  \/ Collect(r)
  \/ Call(r)
  \/ Matched(r)

AppendReady == SkipPair \/ AppendEntry \/ MarkLogged \/ AppendDone

Loop(r) ==
  \/ Poll(r)
  \/ r = Leader /\ AppendReady
  \/ Consume(r)
  \/ ConsumeDone(r)
  \/ Idle(r)

Next ==
  \E r \in Ranks :
    Dequeue(r) \/ Handle(r) \/ Loop(r) \/ Complete(r) \/ PeersTimeout(r)

Spec == Init /\ [][Next]_vars

\* Every agent keeps running its loop, and a command that is sent is dequeued
\* by one of its iterations.
FairSpec ==
  /\ Spec
  /\ \A r \in Ranks : /\ WF_vars(Handle(r) \/ Loop(r) \/ Complete(r))
                      /\ SF_vars(Dequeue(r))

-----------------------------------------------------------------------------
\* The places inside _handle_init_pair.
Handling == {"register", "compare", "share", "layout", "attach"}

ControlOK ==
  /\ todo \subseteq Cmds
  /\ pc \in [Ranks -> Handling \cup {"poll", "append", "mark", "consume",
                                     "dequeue", "complete", "peers", "calls"}]
  /\ cmd \in [Ranks -> Cmds \cup {NoCmd}]
  /\ entry \in [Ranks -> Pairs \cup {0}]
  /\ scan \subseteq Pairs
  /\ pc[Leader] = "mark" => scan # {}
  /\ \A r \in Ranks :
       /\ pc[r] \in Handling => cmd[r] \in Cmds /\ cmd[r].rank = r
       /\ pc[r] \in {"complete", "peers", "calls"} => entry[r] \in Pairs
       /\ pc[r] \in {"append", "mark"} => r = Leader

StoreOK ==
  /\ size \in [Pairs -> [Sides -> [Ranks -> Nat]]]
  /\ shared \in [Pairs -> [Sides -> Nat]]
  /\ layout \in [Pairs -> [Sides -> [Ranks -> Layout]]]
  /\ marker \subseteq Pairs
  /\ canon \subseteq Pairs
  /\ log \in Seq(Pairs)
  /\ cursor \in [Ranks -> Nat]
  /\ \A r \in Ranks : cursor[r] <= Len(log)

LocalOK ==
  /\ pend \in [Ranks -> SUBSET Pairs]
  /\ pexp \in [Ranks -> [Pairs -> [Sides -> Nat]]]
  /\ parked \subseteq Cmds
  /\ paired \in [Ranks -> SUBSET Pairs]
  /\ reply \in [Cmds -> {"none", "ok", "error"}]
  /\ plan \in [Ranks -> Seq(Collective)]
  /\ calls \in [Ranks -> Seq(Collective)]

\* The types of the variables, with what an agent's place says of them.
TypeOK == ControlOK /\ StoreOK /\ LocalOK

\* An entry a rank has consumed names a pair that the rank knows: consuming the
\* log never skips a pair whose InitPair is still queued at this rank, or half
\* handled (the comment in _consume_completion_log).
NoDrop ==
  \A r \in Ranks : \A n \in 1..cursor[r] : log[n] \in pend[r] \cup paired[r]

\* A rank that begins to complete a pair finds both sides ready, however long
\* ago the leader did and whatever was sent again since: the assertion of
\* _complete_pair never fails.
CompletedIsReady ==
  \A r \in Ranks : pc[r] = "complete" => PairReady(entry[r])

\* A parked command belongs to a pair that is still pending at its rank and
\* has had no answer: no semaphore is orphaned by a completion, a failed
\* completion or a retry, and none is released while it is still held.
ParkedIsPending ==
  \A c \in parked : c.pair \in pend[c.rank] /\ reply[c] = "none"

\* A client that is told its InitPair succeeded finds the pair matched at its
\* rank, also when another client's retry completed it.
OkMeansMatched ==
  \A c \in Cmds : reply[c] = "ok" => c.pair \in paired[c.rank]

\* A client is answered once: no later completion or retry changes an answer.
AnsweredOnce ==
  [][\A c \in Cmds : reply[c] # "none" => reply'[c] = reply[c]]_vars

\* A rank does not rewrite the registration behind a pair it has matched (the
\* duplicate path of _handle_init_pair writes no metadata).
MatchedIsFrozen ==
  [][\A r \in Ranks : \A p \in paired[r] : \A s \in Sides :
       /\ size'[p][s][r] = size[p][s][r]
       /\ layout'[p][s][r] = layout[p][s][r]]_vars

\* All ranks make the same sequence of world collectives, so the k-th
\* new_group has the same members everywhere (the completion log exists for
\* this; _completion_cursor's comment claims it).
SameGroups ==
  \A r, q \in Ranks :
    \A k \in 1..Len(calls[r]) : k <= Len(calls[q]) => calls[r][k] = calls[q][k]

\* Every client that sends an InitPair is told that its pair is matched.
EveryoneMatched == <>(\A c \in Cmds : reply[c] = "ok")

\* Every client that sends an InitPair is answered, one way or the other.
EveryoneAnswered == <>(\A c \in Cmds : reply[c] # "none")
=============================================================================

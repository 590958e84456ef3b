------------------------ MODULE PairRendezvousProofs ------------------------
(***************************************************************************)
(* The rendezvous of pairs, for any world and any commands: its types;     *)
(* what the clients are told; what the keys in the store say of the ranks  *)
(* that wrote them, and why the completion log never makes a rank skip a   *)
(* pair.                                                                   *)
(***************************************************************************)
EXTENDS PairRendezvous, FiniteSetTheorems, WellFoundedInduction, TLAPS

\* Most leaves are first-order: Zenon tries them before SMT.
USE ZenonT(3), SMTT(15)

\* A set of numbers has a smallest member, which First returns.
LEMMA FirstIn == \A S \in SUBSET Nat : S # {} => First(S) \in S
<1> DEFINE R == OpToRel(<, Nat)
<1>1. IsWellFoundedOn(R, Nat)
  BY NatLessThanWellFounded, Zenon
<1>2. \A x, y \in Nat : x < y => <<x, y>> \in R
  BY DEF OpToRel
<1> HIDE DEF R
<1> TAKE S \in SUBSET Nat
<1> HAVE S # {}
<1>3. PICK x \in S : \A y \in S : ~(<<y, x>> \in R)
  BY <1>1, WFMin, Zenon
<1>4. \A y \in S : x <= y
  <2> TAKE y \in S
  <2>1. x \in Nat /\ y \in Nat
    OBVIOUS
  <2>2. ~(y < x)
    BY <1>2, <1>3, <2>1, Zenon
  <2> QED
    BY <2>1, <2>2
<1> QED
  BY <1>4, Zenon DEF First

\* An update of one entry of a function of functions keeps its type.
LEMMA Update2 ==
  ASSUME NEW A, NEW B, NEW V, NEW f \in [A -> [B -> V]],
         NEW a \in A, NEW b \in B, NEW v \in V
  PROVE  [f EXCEPT ![a][b] = v] \in [A -> [B -> V]]
OBVIOUS

\* An update of one entry of a function of functions of functions.
Updated(f, a, b, c, v) == [f EXCEPT ![a][b][c] = v]

\* Such an update keeps the type.
LEMMA Update3 ==
  ASSUME NEW A, NEW B, NEW C, NEW V, NEW f \in [A -> [B -> [C -> V]]],
         NEW a \in A, NEW b \in B, NEW c \in C, NEW v \in V
  PROVE  Updated(f, a, b, c, v) \in [A -> [B -> [C -> V]]]
<1> DEFINE g == [f[a] EXCEPT ![b][c] = v]
<1>1. f[a] \in [B -> [C -> V]]
  OBVIOUS
<1>2. g \in [B -> [C -> V]]
  BY <1>1, Update2
<1>3. Updated(f, a, b, c, v) = [f EXCEPT ![a] = g]
  BY DEF Updated
<1> HIDE DEF g
<1> QED
  BY <1>2, <1>3

\* Such an update changes one entry.
LEMMA UpdatedAt ==
  ASSUME NEW f, NEW a \in DOMAIN f, NEW b \in DOMAIN f[a], NEW c \in DOMAIN f[a][b],
         NEW v, NEW x \in DOMAIN f, NEW y \in DOMAIN f[x], NEW z \in DOMAIN f[x][y]
  PROVE  Updated(f, a, b, c, v)[x][y][z]
           = IF x = a /\ y = b /\ z = c THEN v ELSE f[x][y][z]
<1> DEFINE k == [f[a][b] EXCEPT ![c] = v]
           g == [f[a] EXCEPT ![b] = k]
<1>1. Updated(f, a, b, c, v) = [f EXCEPT ![a] = g]
  BY DEF Updated
<1>2. \A w \in DOMAIN f[a][b] : k[w] = IF w = c THEN v ELSE f[a][b][w]
  OBVIOUS
<1> HIDE DEF k
<1>3. \A w \in DOMAIN f[a] : g[w] = IF w = b THEN k ELSE f[a][w]
  OBVIOUS
<1> HIDE DEF g
<1>4. Updated(f, a, b, c, v)[x] = IF x = a THEN g ELSE f[x]
  BY <1>1
<1> QED
  BY <1>2, <1>3, <1>4

\* What a completion is going to call is a sequence of collectives.
LEMMA PlanType ==
  ASSUME TypeOK, NEW p \in Pairs
  PROVE  Plan(p) \in Seq(Collective)
<1>1. \A s \in Sides : Present(p, s) \in SUBSET Nat
  BY PairAssumption, SMT DEF Present, Ranks
<1>2. \A s \in Sides : Layouts(p, s) \in SUBSET Layout
  BY SMT DEF TypeOK, StoreOK, Layouts, Present, Sides
<1>3. MeshMaps(p) \in Collective
  BY <1>2, PairAssumption DEF MeshMaps, Collective
<1>4. \A S \in SUBSET Nat : NewGroup(S) \in Collective
  BY DEF NewGroup, Collective
<1>5. /\ NewGroup(Present(p, "a") \cup Present(p, "b")) \in Collective
      /\ NewGroup(Present(p, "a")) \in Collective
      /\ NewGroup(Present(p, "b")) \in Collective
  BY <1>1, <1>4 DEF Sides
<1> HIDE DEF Collective
<1> QED
  BY <1>3, <1>5 DEF Plan

-----------------------------------------------------------------------------
\* The initial state has its types.
LEMMA InitType == Init => TypeOK
<1> SUFFICES ASSUME Init PROVE TypeOK
  OBVIOUS
<1>1. layout \in [Pairs -> [Sides -> [Ranks -> Layout]]]
  BY DEF Init, Layout
<1>2. plan \in [Ranks -> Seq(Collective)] /\ calls \in [Ranks -> Seq(Collective)]
  BY DEF Init
<1>3. Len(log) = 0 /\ log \in Seq(Pairs)
  BY DEF Init
<1>4. Leader \in Ranks
  BY PairAssumption, SMT DEF Leader, Ranks
<1> QED
  BY <1>1, <1>2, <1>3, <1>4, PairAssumption, SMT DEF Init, TypeOK, ControlOK, StoreOK, LocalOK, Handling

\* Taking a command from the queue.
LEMMA DequeueType ==
  ASSUME TypeOK, NEW r \in Ranks, Dequeue(r)
  PROVE  TypeOK'
<1> USE DEF Handling, Goto, Answer, store, local, comm
<1>t. ControlOK /\ StoreOK /\ LocalOK
  BY DEF TypeOK
<1>1. PICK c \in Cmds : Duplicate(r, c) \/ Reject(r, c) \/ Accept(r, c)
  BY DEF Dequeue
<1>2. CASE Duplicate(r, c)
  <2>c. ControlOK'
    BY <1>2, <1>t, SMT DEF Duplicate, ControlOK
  <2>s. StoreOK'
    BY <1>2, <1>t DEF Duplicate, StoreOK
  <2>l. LocalOK'
    BY <1>2, <1>t DEF Duplicate, LocalOK
  <2> QED
    BY <2>c, <2>s, <2>l DEF TypeOK
<1>3. CASE Reject(r, c)
  <2>c. ControlOK'
    BY <1>3, <1>t, SMT DEF Reject, ControlOK
  <2>s. StoreOK'
    BY <1>3, <1>t DEF Reject, StoreOK
  <2>l. LocalOK'
    BY <1>3, <1>t DEF Reject, LocalOK
  <2> QED
    BY <2>c, <2>s, <2>l DEF TypeOK
<1>4. CASE Accept(r, c)
  <2>c. ControlOK'
    BY <1>4, <1>t, SMT DEF Accept, ControlOK
  <2>s. StoreOK'
    BY <1>4, <1>t DEF Accept, StoreOK
  <2>l. LocalOK'
    BY <1>4, <1>t DEF Accept, LocalOK
  <2> QED
    BY <2>c, <2>s, <2>l DEF TypeOK
<1> QED
  BY <1>1, <1>2, <1>3, <1>4

\* Handling it.
LEMMA HandleType ==
  ASSUME TypeOK, NEW r \in Ranks, Handle(r)
  PROVE  TypeOK'
<1> USE DEF Handling, Goto, Answer, store, local, comm
<1>t. ControlOK /\ StoreOK /\ LocalOK
  BY DEF TypeOK
<1> DEFINE c == cmd[r]
<1>0. /\ c \in Cmds
      /\ c.rank = r
      /\ c.pair \in Pairs
      /\ c.side \in Sides
      /\ c.size \in Nat
      /\ c.layout \in Layout
  <2>1. pc[r] \in Handling
    BY Zenon DEF Handle, Register, CompareSize, ShareSize, WriteLayout, Attach
  <2>2. c \in Cmds /\ c.rank = r
    BY <1>t, <2>1 DEF ControlOK
  <2> QED
    BY <2>2, PairAssumption DEF Command
<1>a. /\ size \in [Pairs -> [Sides -> [Ranks -> Nat]]]
      /\ shared \in [Pairs -> [Sides -> Nat]]
      /\ layout \in [Pairs -> [Sides -> [Ranks -> Layout]]]
      /\ pexp \in [Ranks -> [Pairs -> [Sides -> Nat]]]
  BY <1>t DEF StoreOK, LocalOK
<1> HIDE DEF c
<1>1. CASE Register(r)
  <2>0. size' = Updated(size, c.pair, c.side, r, c.size)
    BY <1>1, Zenon DEF Register, c, Updated
  <2>1. size' \in [Pairs -> [Sides -> [Ranks -> Nat]]]
    BY <1>0, <1>a, <2>0, Update3, Zenon
  <2>c. ControlOK'
    BY <1>1, <1>t, <1>0, SMT DEF Register, c, ControlOK
  <2>s. StoreOK'
    BY <1>1, <1>t, <2>1 DEF Register, c, StoreOK
  <2>l. LocalOK'
    BY <1>1, <1>t DEF Register, c, LocalOK
  <2> QED
    BY <2>c, <2>s, <2>l DEF TypeOK
<1>2. CASE CompareSize(r)
  <2>c. ControlOK'
    <3>1. /\ UNCHANGED <<todo, entry, scan>>
          /\ \/ pc' = [pc EXCEPT ![r] = "share"] /\ cmd' = cmd
             \/ pc' = [pc EXCEPT ![r] = "poll"] /\ cmd' = [cmd EXCEPT ![r] = NoCmd]
      BY <1>2 DEF CompareSize
    <3>2. CASE pc' = [pc EXCEPT ![r] = "share"] /\ cmd' = cmd
      BY <1>t, <1>0, <3>1, <3>2, SMT DEF ControlOK, c
    <3>3. CASE pc' = [pc EXCEPT ![r] = "poll"] /\ cmd' = [cmd EXCEPT ![r] = NoCmd]
      BY <1>t, <3>1, <3>3, SMT DEF ControlOK
    <3> QED
      BY <3>1, <3>2, <3>3
  <2>s. StoreOK'
    BY <1>2, <1>t DEF CompareSize, c, StoreOK
  <2>l. LocalOK'
    BY <1>2, <1>t, <1>0, Zenon DEF CompareSize, c, LocalOK
  <2> QED
    BY <2>c, <2>s, <2>l DEF TypeOK
<1>3. CASE ShareSize(r)
  <2>1. [shared EXCEPT ![c.pair][c.side] = c.size] \in [Pairs -> [Sides -> Nat]]
    BY <1>0, <1>a, Update2
  <2>c. ControlOK'
    BY <1>3, <1>t, <1>0, SMT DEF ShareSize, c, ControlOK
  <2>s. StoreOK'
    BY <1>3, <1>t, <2>1 DEF ShareSize, c, StoreOK
  <2>l. LocalOK'
    BY <1>3, <1>t DEF ShareSize, c, LocalOK
  <2> QED
    BY <2>c, <2>s, <2>l DEF TypeOK
<1>4. CASE WriteLayout(r)
  <2>0. layout' = Updated(layout, c.pair, c.side, r, c.layout)
    BY <1>4, Zenon DEF WriteLayout, c, Updated
  <2>1. layout' \in [Pairs -> [Sides -> [Ranks -> Layout]]]
    BY <1>0, <1>a, <2>0, Update3, Zenon
  <2>c. ControlOK'
    BY <1>4, <1>t, <1>0, SMT DEF WriteLayout, c, ControlOK
  <2>s. StoreOK'
    BY <1>4, <1>t, <2>1 DEF WriteLayout, c, StoreOK
  <2>l. LocalOK'
    BY <1>4, <1>t DEF WriteLayout, c, LocalOK
  <2> QED
    BY <2>c, <2>s, <2>l DEF TypeOK
<1>5. CASE Attach(r)
  <2>0. pexp' = Updated(pexp, r, c.pair, c.side, c.size)
    BY <1>5, Zenon DEF Attach, c, Updated
  <2>1. pexp' \in [Ranks -> [Pairs -> [Sides -> Nat]]]
    BY <1>0, <1>a, <2>0, Update3, Zenon
  <2>c. ControlOK'
    BY <1>5, <1>t, <1>0, SMT DEF Attach, c, ControlOK
  <2>s. StoreOK'
    BY <1>5, <1>t, <1>0 DEF Attach, c, StoreOK
  <2>l. LocalOK'
    BY <1>5, <1>t, <1>0, <2>1, SMT DEF Attach, c, LocalOK
  <2> QED
    BY <2>c, <2>s, <2>l DEF TypeOK
<1> QED
  BY <1>1, <1>2, <1>3, <1>4, <1>5 DEF Handle

\* Polling, appending to the log and consuming it.
LEMMA LoopType ==
  ASSUME TypeOK, NEW r \in Ranks, Loop(r)
  PROVE  TypeOK'
<1> USE DEF Handling, Goto, Answer, store, local, comm
<1>t. ControlOK /\ StoreOK /\ LocalOK
  BY DEF TypeOK
<1>0. scan # {} => First(scan) \in Pairs
  BY <1>t, FirstIn, PairAssumption, Zenon DEF ControlOK
<1>1. CASE Poll(r)
  <2>c. ControlOK'
    BY <1>1, <1>t, SMT DEF Poll, ControlOK, LocalOK
  <2>s. StoreOK'
    BY <1>1, <1>t DEF Poll, StoreOK
  <2>l. LocalOK'
    BY <1>1, <1>t DEF Poll, LocalOK
  <2> QED
    BY <2>c, <2>s, <2>l DEF TypeOK
<1>2. CASE r = Leader /\ SkipPair
  <2>c. ControlOK'
    BY <1>2, <1>t DEF SkipPair, ControlOK
  <2>s. StoreOK'
    BY <1>2, <1>t DEF SkipPair, StoreOK
  <2>l. LocalOK'
    BY <1>2, <1>t DEF SkipPair, LocalOK
  <2> QED
    BY <2>c, <2>s, <2>l DEF TypeOK
<1>3. CASE r = Leader /\ AppendEntry
  <2>c. ControlOK'
    BY <1>3, <1>t DEF AppendEntry, ControlOK
  <2>s. StoreOK'
    BY <1>3, <1>t, <1>0, SMT DEF AppendEntry, StoreOK
  <2>l. LocalOK'
    BY <1>3, <1>t DEF AppendEntry, LocalOK
  <2> QED
    BY <2>c, <2>s, <2>l DEF TypeOK
<1>4. CASE r = Leader /\ MarkLogged
  <2>c. ControlOK'
    BY <1>4, <1>t DEF MarkLogged, ControlOK
  <2>s. StoreOK'
    BY <1>4, <1>t, <1>0 DEF MarkLogged, StoreOK, ControlOK
  <2>l. LocalOK'
    BY <1>4, <1>t DEF MarkLogged, LocalOK
  <2> QED
    BY <2>c, <2>s, <2>l DEF TypeOK
<1>5. CASE r = Leader /\ AppendDone
  <2>c. ControlOK'
    BY <1>5, <1>t DEF AppendDone, ControlOK
  <2>s. StoreOK'
    BY <1>5, <1>t DEF AppendDone, StoreOK
  <2>l. LocalOK'
    BY <1>5, <1>t DEF AppendDone, LocalOK
  <2> QED
    BY <2>c, <2>s, <2>l DEF TypeOK
<1>6. CASE Consume(r)
  <2>1. log[cursor[r] + 1] \in Pairs
    BY <1>6, <1>t, SMT DEF Consume, StoreOK
  <2>c. ControlOK'
    <3> DEFINE p == log[cursor[r] + 1]
    <3>1. /\ UNCHANGED <<todo, cmd, scan>>
          /\ \/ pc' = [pc EXCEPT ![r] = "complete"] /\ entry' = [entry EXCEPT ![r] = p]
             \/ pc' = pc /\ entry' = entry
      BY <1>6 DEF Consume
    <3> HIDE DEF p
    <3>2. p \in Pairs
      BY <2>1 DEF p
    <3>3. CASE pc' = [pc EXCEPT ![r] = "complete"] /\ entry' = [entry EXCEPT ![r] = p]
      BY <1>t, <3>1, <3>2, <3>3, SMT DEF ControlOK
    <3>4. CASE pc' = pc /\ entry' = entry
      BY <1>t, <3>1, <3>4 DEF ControlOK
    <3> QED
      BY <3>1, <3>3, <3>4
  <2>s. StoreOK'
    BY <1>6, <1>t, <2>1, SMT DEF Consume, StoreOK
  <2>l. LocalOK'
    BY <1>6, <1>t DEF Consume, LocalOK
  <2> QED
    BY <2>c, <2>s, <2>l DEF TypeOK
<1>7. CASE ConsumeDone(r)
  <2>c. ControlOK'
    BY <1>7, <1>t, SMT DEF ConsumeDone, ControlOK
  <2>s. StoreOK'
    BY <1>7, <1>t DEF ConsumeDone, StoreOK
  <2>l. LocalOK'
    BY <1>7, <1>t DEF ConsumeDone, LocalOK
  <2> QED
    BY <2>c, <2>s, <2>l DEF TypeOK
<1>8. CASE Idle(r)
  <2>c. ControlOK'
    BY <1>8, <1>t, SMT DEF Idle, ControlOK
  <2>s. StoreOK'
    BY <1>8, <1>t DEF Idle, StoreOK
  <2>l. LocalOK'
    BY <1>8, <1>t DEF Idle, LocalOK
  <2> QED
    BY <2>c, <2>s, <2>l DEF TypeOK
<1> QED
  BY <1>1, <1>2, <1>3, <1>4, <1>5, <1>6, <1>7, <1>8 DEF Loop, AppendReady

\* Completing a pair.
LEMMA CompleteType ==
  ASSUME TypeOK, NEW r \in Ranks, Complete(r) \/ PeersTimeout(r)
  PROVE  TypeOK'
<1> USE DEF Handling, Goto, Answer, store, local, comm
<1>t. ControlOK /\ StoreOK /\ LocalOK
  BY DEF TypeOK
<1>0. ASSUME Fail(r), UNCHANGED canon
      PROVE  TypeOK'
  <2>c. ControlOK'
    BY <1>0, <1>t, SMT DEF Fail, ControlOK
  <2>s. StoreOK'
    BY <1>0, <1>t DEF Fail, StoreOK
  <2>l. LocalOK'
    BY <1>0, <1>t DEF Fail, AnswerParked, LocalOK
  <2> QED
    BY <2>c, <2>s, <2>l DEF TypeOK
<1>1. CASE Publish(r)
  <2>1. entry[r] \in Pairs
    BY <1>1, <1>t DEF Publish, ControlOK
  <2>c. ControlOK'
    BY <1>1, <1>t, SMT DEF Publish, ControlOK
  <2>s. StoreOK'
    BY <1>1, <1>t, <2>1 DEF Publish, StoreOK
  <2>l. LocalOK'
    BY <1>1, <1>t DEF Publish, LocalOK
  <2> QED
    BY <2>c, <2>s, <2>l DEF TypeOK
<1>2. CASE PeersTimeout(r)
  BY <1>0, <1>2 DEF PeersTimeout
<1>3. CASE Collect(r) /\ BadLayout(entry[r])
  BY <1>0, <1>3 DEF Collect
<1>4. CASE Collect(r) /\ ~BadLayout(entry[r])
  <2>1. Plan(entry[r]) \in Seq(Collective)
    BY <1>4, <1>t, PlanType DEF Collect, ControlOK
  <2>c. ControlOK'
    <3>1. /\ pc' = [pc EXCEPT ![r] = "calls"]
          /\ UNCHANGED <<todo, cmd, entry, scan>>
      BY <1>4 DEF Collect
    <3>2. entry[r] \in Pairs
      BY <1>4, <1>t DEF Collect, ControlOK
    <3> QED
      BY <1>t, <3>1, <3>2, SMT DEF ControlOK
  <2>s. StoreOK'
    BY <1>4, <1>t DEF Collect, StoreOK
  <2>l. LocalOK'
    BY <1>4, <1>t, <2>1, Zenon DEF Collect, LocalOK
  <2> QED
    BY <2>c, <2>s, <2>l DEF TypeOK
<1>5. CASE Call(r)
  <2>1. Head(plan[r]) \in Collective /\ Tail(plan[r]) \in Seq(Collective)
    BY <1>5, <1>t, SMT DEF Call, LocalOK
  <2>c. ControlOK'
    BY <1>5, <1>t DEF Call, ControlOK
  <2>s. StoreOK'
    BY <1>5, <1>t DEF Call, StoreOK
  <2>l. LocalOK'
    BY <1>5, <1>t, <2>1, SMT DEF Call, LocalOK
  <2> QED
    BY <2>c, <2>s, <2>l DEF TypeOK
<1>6. CASE Matched(r)
  <2>c. ControlOK'
    BY <1>6, <1>t, SMT DEF Matched, ControlOK
  <2>s. StoreOK'
    BY <1>6, <1>t DEF Matched, StoreOK
  <2>l. LocalOK'
    <3>1. entry[r] \in Pairs
      BY <1>6, <1>t DEF Matched, ControlOK
    <3>2. /\ paired' \in [Ranks -> SUBSET Pairs]
          /\ pend' \in [Ranks -> SUBSET Pairs]
      BY <1>6, <1>t, <3>1 DEF Matched, LocalOK
    <3> QED
      BY <1>6, <1>t, <3>2 DEF Matched, AnswerParked, LocalOK
  <2> QED
    BY <2>c, <2>s, <2>l DEF TypeOK
<1> QED
  BY <1>1, <1>2, <1>3, <1>4, <1>5, <1>6 DEF Complete

\* Every step keeps the types.
LEMMA TypeStep == TypeOK /\ [Next]_vars => TypeOK'
<1>1. ASSUME TypeOK, UNCHANGED vars
      PROVE  TypeOK'
  BY <1>1 DEF TypeOK, ControlOK, StoreOK, LocalOK, vars, store, local, comm
<1> QED
  BY <1>1, DequeueType, HandleType, LoopType, CompleteType DEF Next

-----------------------------------------------------------------------------
\* The variables of the rendezvous keep their types; only the leader is ever
\* in the part of _poll_pending_pairs that appends to the log.
THEOREM TypeCorrect == Spec => []TypeOK
BY InitType, TypeStep, PTL DEF Spec

-----------------------------------------------------------------------------
(* What a client is told.  The commands that were not answered are in the  *)
(* queue, in the hands of their agent or parked, and never in two of these *)
(* places; only there can an answer come from.                             *)

Unanswered(c) == reply[c] = "none" /\ c \notin parked

AnswerInv ==
  /\ \A c \in todo : Unanswered(c)
  /\ \A r \in Ranks :
       pc[r] \in Handling => Unanswered(cmd[r]) /\ cmd[r] \notin todo
  /\ ParkedIsPending
  /\ OkMeansMatched

\* No answer is taken back.
Kept == \A c \in Cmds : reply[c] # "none" => reply'[c] = reply[c]

\* A step that leaves the commands alone.
LEMMA SilentAnswers ==
  ASSUME TypeOK, AnswerInv,
         UNCHANGED <<todo, cmd, parked, pend, paired, reply>>,
         \A q \in Ranks : pc'[q] \in Handling => pc[q] \in Handling
  PROVE  AnswerInv' /\ Kept
BY Zenon DEF AnswerInv, Unanswered, ParkedIsPending, OkMeansMatched, Kept

\* An agent answers, with the truth, a command that only it holds.
LEMMA DirectAnswer ==
  ASSUME TypeOK, AnswerInv,
         NEW r \in Ranks, NEW c \in Cmds, NEW outcome \in {"ok", "error"},
         Unanswered(c), c \notin todo', todo' \subseteq todo,
         reply' = [reply EXCEPT ![c] = outcome],
         outcome = "ok" => c.pair \in paired[c.rank],
         UNCHANGED <<parked, pend, paired>>,
         \A q \in Ranks : pc'[q] \in Handling =>
           pc[q] \in Handling /\ cmd'[q] = cmd[q] /\ cmd[q] # c
  PROVE  AnswerInv' /\ Kept
<1>t. reply \in [Cmds -> {"none", "ok", "error"}]
  BY DEF TypeOK, LocalOK
<1>1. \A d \in Cmds : reply'[d] = IF d = c THEN outcome ELSE reply[d]
  BY <1>t
<1>2. Kept
  BY <1>1 DEF Kept, Unanswered
<1>3. \A d \in todo' : Unanswered(d)'
  BY <1>1, SMT DEF AnswerInv, Unanswered, TypeOK, ControlOK
<1>4. \A q \in Ranks :
        pc'[q] \in Handling => Unanswered(cmd[q])' /\ cmd'[q] \notin todo'
  BY <1>1, SMT DEF AnswerInv, Unanswered, TypeOK, ControlOK
<1>5. ParkedIsPending'
  BY <1>1, SMT DEF AnswerInv, Unanswered, ParkedIsPending, TypeOK, LocalOK
<1>6. OkMeansMatched'
  BY <1>1, SMT DEF AnswerInv, OkMeansMatched
<1> QED
  BY <1>2, <1>3, <1>4, <1>5, <1>6 DEF AnswerInv

\* The end of a completion answers the commands that are parked with it.
LEMMA ParkedAnswer ==
  ASSUME TypeOK, AnswerInv,
         NEW r \in Ranks, NEW p \in Pairs, NEW outcome \in {"ok", "error"},
         AnswerParked(r, p, outcome),
         UNCHANGED <<todo, cmd>>,
         \A q \in Ranks : paired[q] \subseteq paired'[q],
         \A q \in Ranks : \A d \in pend[q] : d \in pend'[q] \/ (q = r /\ d = p),
         outcome = "ok" => p \in paired'[r],
         \A q \in Ranks : pc'[q] \in Handling => pc[q] \in Handling
  PROVE  AnswerInv' /\ Kept
<1>t. /\ parked \subseteq Cmds
      /\ todo \subseteq Cmds
      /\ \A q \in Ranks : pc[q] \in Handling => cmd[q] \in Cmds
      /\ \A d \in Cmds : d.rank \in Ranks
  BY PairAssumption, SMT DEF TypeOK, LocalOK, ControlOK, Command
<1>1. \A d \in Cmds : \/ d \notin parked /\ d \notin parked' /\ reply'[d] = reply[d]
                      \/ /\ d \in parked /\ d \notin parked'
                         /\ d.rank = r /\ d.pair = p
                         /\ reply'[d] = outcome
                      \/ /\ d \in parked /\ d \in parked'
                         /\ ~(d.rank = r /\ d.pair = p)
                         /\ reply'[d] = reply[d]
  BY DEF AnswerParked, Parked
<1>2. parked' \subseteq parked
  BY DEF AnswerParked
<1>3. Kept
  BY <1>1, Zenon DEF Kept, AnswerInv, ParkedIsPending
<1>4. \A d \in todo' : Unanswered(d)'
  BY <1>t, <1>1, Zenon DEF AnswerInv, Unanswered
<1>5. \A q \in Ranks :
        pc'[q] \in Handling => Unanswered(cmd[q])' /\ cmd'[q] \notin todo'
  BY <1>t, <1>1, Zenon DEF AnswerInv, Unanswered
<1>6. ParkedIsPending'
  BY <1>t, <1>1, <1>2, Zenon DEF AnswerInv, ParkedIsPending
<1>7. OkMeansMatched'
  BY <1>t, <1>1, Zenon DEF AnswerInv, OkMeansMatched, ParkedIsPending
<1> QED
  BY <1>3, <1>4, <1>5, <1>6, <1>7, Zenon DEF AnswerInv

\* Taking a command from the queue.
LEMMA DequeueAnswers ==
  ASSUME TypeOK, AnswerInv, NEW r \in Ranks, Dequeue(r)
  PROVE  AnswerInv' /\ Kept
<1>t. /\ DOMAIN pc = Ranks /\ DOMAIN cmd = Ranks
      /\ \A q \in Ranks : pc[q] \in Handling => cmd[q].rank = q
  BY DEF TypeOK, ControlOK
<1>1. PICK c \in Cmds : Duplicate(r, c) \/ Reject(r, c) \/ Accept(r, c)
  BY DEF Dequeue
<1>2. /\ c \in todo /\ c.rank = r /\ pc[r] = "dequeue" /\ todo' = todo \ {c}
      /\ UNCHANGED <<parked, pend, paired>>
  BY <1>1, Zenon DEF Duplicate, Reject, Accept, Sent, local
<1>3. Unanswered(c) /\ c \notin todo' /\ todo' \subseteq todo
  BY <1>2 DEF AnswerInv
<1>4. \A q \in Ranks : pc[q] \in Handling => cmd[q] # c
  BY <1>2 DEF AnswerInv
<1>5. ASSUME NEW outcome \in {"ok", "error"}, Answer(c, outcome),
             Goto(r, "poll"), UNCHANGED cmd,
             outcome = "ok" => c.pair \in paired[r]
      PROVE  AnswerInv' /\ Kept
  <2>1. \A q \in Ranks : pc'[q] \in Handling =>
          pc[q] \in Handling /\ cmd'[q] = cmd[q] /\ cmd[q] # c
    BY <1>t, <1>4, <1>5 DEF Goto, Handling
  <2> QED
    BY <1>2, <1>3, <1>5, <2>1, DirectAnswer, Zenon DEF Answer
<1>6. CASE Duplicate(r, c)
  BY <1>5, <1>6, Zenon DEF Duplicate
<1>7. CASE Reject(r, c)
  BY <1>5, <1>7, Zenon DEF Reject
<1>8. CASE Accept(r, c)
  <2>1. /\ reply' = reply
        /\ pc' = [pc EXCEPT ![r] = "register"] /\ cmd' = [cmd EXCEPT ![r] = c]
    BY <1>8, Zenon DEF Accept, Goto
  <2>2. \A q \in Ranks : \/ q # r /\ pc'[q] = pc[q] /\ cmd'[q] = cmd[q]
                         \/ cmd'[q] = c
    BY <1>t, <2>1, Zenon
  <2>3. \A q \in Ranks :
          pc'[q] \in Handling => Unanswered(cmd[q])' /\ cmd'[q] \notin todo'
    <3>1. \A q \in Ranks : cmd'[q] = c => Unanswered(cmd[q])' /\ cmd'[q] \notin todo'
      BY <1>2, <1>3, <2>1, SMT DEF Unanswered
    <3>2. \A q \in Ranks : pc[q] \in Handling /\ cmd'[q] = cmd[q] =>
            Unanswered(cmd[q])' /\ cmd'[q] \notin todo'
      BY <1>2, <1>3, <2>1, SMT DEF AnswerInv, Unanswered
    <3> QED
      BY <2>2, <3>1, <3>2, Zenon
  <2>4. \A d \in todo' : Unanswered(d)'
    BY <1>2, <1>3, <2>1, Zenon DEF AnswerInv, Unanswered
  <2>5. ParkedIsPending' /\ OkMeansMatched' /\ Kept
    BY <1>2, <2>1, Zenon DEF AnswerInv, ParkedIsPending, OkMeansMatched, Kept
  <2> QED
    BY <2>3, <2>4, <2>5, Zenon DEF AnswerInv
<1> QED
  BY <1>1, <1>6, <1>7, <1>8

\* Handling it.
LEMMA HandleAnswers ==
  ASSUME TypeOK, AnswerInv, NEW r \in Ranks, Handle(r)
  PROVE  AnswerInv' /\ Kept
<1>t. /\ DOMAIN pc = Ranks /\ DOMAIN cmd = Ranks
      /\ \A q \in Ranks : pc[q] \in Handling => cmd[q] \in Cmds /\ cmd[q].rank = q
      /\ \A d \in Cmds : d.rank \in Ranks /\ d.pair \in Pairs
  BY PairAssumption DEF TypeOK, ControlOK, Command
<1>0. pc[r] \in Handling
  BY Zenon DEF Handle, Register, CompareSize, ShareSize, WriteLayout, Attach, Handling
<1>1. CASE Register(r) \/ ShareSize(r) \/ WriteLayout(r)
  <2>1. UNCHANGED <<todo, cmd, parked, pend, paired, reply>>
    BY <1>1, Zenon DEF Register, ShareSize, WriteLayout, local
  <2>2. \A q \in Ranks : pc'[q] \in Handling => pc[q] \in Handling
    BY <1>t, <1>0, <1>1, Zenon DEF Register, ShareSize, WriteLayout, Goto
  <2> QED
    BY <2>1, <2>2, SilentAnswers
<1>2. CASE CompareSize(r)
  <2>1. UNCHANGED <<todo, parked, pend, paired>>
    BY <1>2, Zenon DEF CompareSize, local
  <2>2. CASE Goto(r, "share") /\ UNCHANGED <<cmd, reply>>
    <3>1. \A q \in Ranks : pc'[q] \in Handling => pc[q] \in Handling
      BY <1>t, <1>0, <2>2, Zenon DEF Goto
    <3> QED
      BY <2>1, <2>2, <3>1, SilentAnswers
  <2>3. CASE /\ Answer(cmd[r], "error")
             /\ cmd' = [cmd EXCEPT ![r] = NoCmd]
             /\ Goto(r, "poll")
    <3>1. \A q \in Ranks : pc'[q] \in Handling =>
            pc[q] \in Handling /\ cmd'[q] = cmd[q] /\ cmd[q] # cmd[r]
      BY <1>t, <1>0, <2>3 DEF Goto, Handling
    <3>2. cmd[r] \in Cmds /\ Unanswered(cmd[r]) /\ cmd[r] \notin todo'
      BY <1>t, <1>0, <2>1, Zenon DEF AnswerInv
    <3>3. reply' = [reply EXCEPT ![cmd[r]] = "error"] /\ todo' \subseteq todo
      BY <2>1, <2>3 DEF Answer
    <3> QED
      BY <2>1, <3>1, <3>2, <3>3, DirectAnswer, Zenon
  <2> QED
    BY <1>2, <2>2, <2>3, Zenon DEF CompareSize
<1>3. CASE Attach(r)
  <2> PICK c : c = cmd[r]
    OBVIOUS
  <2>0. c \in Cmds /\ c.rank = r /\ Unanswered(c) /\ c \notin todo
    BY <1>t, <1>0, Zenon DEF AnswerInv
  <2>1. /\ UNCHANGED <<todo, paired, reply>>
        /\ parked' = parked \cup {c}
        /\ pend' = [pend EXCEPT ![r] = @ \cup {c.pair}]
        /\ pc' = [pc EXCEPT ![r] = "poll"]
        /\ cmd' = [cmd EXCEPT ![r] = NoCmd]
    BY <1>3, Zenon DEF Attach, Goto
  <2>2. \A q \in Ranks : pend[q] \subseteq pend'[q]
    BY <2>1 DEF TypeOK, LocalOK
  <2>3. c.pair \in pend'[r]
    BY <2>1 DEF TypeOK, LocalOK
  <2>4. ParkedIsPending'
    <3>1. \A d \in parked : d.rank \in Ranks
      BY <1>t DEF TypeOK, LocalOK
    <3> QED
      BY <2>0, <2>1, <2>2, <2>3, <3>1 DEF AnswerInv, ParkedIsPending, Unanswered
  <2>5. \A d \in todo' : Unanswered(d)'
    BY <2>0, <2>1 DEF AnswerInv, Unanswered
  <2>6. \A q \in Ranks :
          pc'[q] \in Handling => Unanswered(cmd[q])' /\ cmd'[q] \notin todo'
    <3> SUFFICES ASSUME NEW q \in Ranks, pc'[q] \in Handling
                 PROVE  Unanswered(cmd[q])' /\ cmd'[q] \notin todo'
      OBVIOUS
    <3>1. q # r /\ pc[q] \in Handling /\ cmd'[q] = cmd[q]
      BY <1>t, <2>1 DEF Handling
    <3>2. cmd[q] # c
      BY <1>t, <2>0, <3>1
    <3> QED
      BY <2>1, <3>1, <3>2 DEF AnswerInv, Unanswered
  <2>7. OkMeansMatched' /\ Kept
    BY <2>1, Zenon DEF AnswerInv, OkMeansMatched, Kept
  <2> QED
    BY <2>4, <2>5, <2>6, <2>7, Zenon DEF AnswerInv
<1> QED
  BY <1>1, <1>2, <1>3 DEF Handle

\* Polling, appending to the log and consuming it.
LEMMA LoopAnswers ==
  ASSUME TypeOK, AnswerInv, NEW r \in Ranks, Loop(r)
  PROVE  AnswerInv' /\ Kept
<1>t. DOMAIN pc = Ranks
  BY DEF TypeOK, ControlOK
<1>1. UNCHANGED <<todo, cmd, parked, pend, paired, reply>>
  BY Zenon DEF Loop, Poll, AppendReady, SkipPair, AppendEntry, MarkLogged, AppendDone,
               Consume, ConsumeDone, Idle, local
<1>2. \E l \in {"dequeue", "append", "consume", "mark", "complete", "poll"} :
        \E q \in Ranks : pc' = pc \/ pc' = [pc EXCEPT ![q] = l]
  BY Zenon DEF Loop, Poll, AppendReady, SkipPair, AppendEntry, MarkLogged, AppendDone,
               Consume, ConsumeDone, Idle, Goto
<1>3. \A q \in Ranks : pc'[q] \in Handling => pc[q] \in Handling
  BY <1>t, <1>2 DEF Handling
<1> QED
  BY <1>1, <1>3, SilentAnswers

\* Completing a pair.
LEMMA CompleteAnswers ==
  ASSUME TypeOK, AnswerInv, NEW r \in Ranks, Complete(r) \/ PeersTimeout(r)
  PROVE  AnswerInv' /\ Kept
<1>t. DOMAIN pc = Ranks /\ pend \in [Ranks -> SUBSET Pairs]
      /\ paired \in [Ranks -> SUBSET Pairs]
  BY DEF TypeOK, ControlOK, LocalOK
<1>0. entry[r] \in Pairs
  BY DEF Complete, PeersTimeout, Publish, Collect, Call, Matched, TypeOK, ControlOK
<1>1. ASSUME Fail(r)
      PROVE  AnswerInv' /\ Kept
  <2>1. /\ AnswerParked(r, entry[r], "error")
        /\ UNCHANGED <<todo, cmd, pend, paired>>
        /\ pc' = [pc EXCEPT ![r] = "consume"]
    BY <1>1, Zenon DEF Fail, Goto
  <2>2. \A q \in Ranks : pc'[q] \in Handling => pc[q] \in Handling
    BY <1>t, <2>1 DEF Handling
  <2> QED
    BY <1>0, <2>1, <2>2, ParkedAnswer
<1>2. CASE Publish(r) \/ Call(r) \/ (Collect(r) /\ ~BadLayout(entry[r]))
  <2>1. UNCHANGED <<todo, cmd, parked, pend, paired, reply>>
    BY <1>2, Zenon DEF Publish, Call, Collect, local
  <2>2. \E l \in {"peers", "calls"} : pc' = pc \/ pc' = [pc EXCEPT ![r] = l]
    BY <1>2, Zenon DEF Publish, Call, Collect, Goto
  <2>3. \A q \in Ranks : pc'[q] \in Handling => pc[q] \in Handling
    BY <1>t, <2>2 DEF Handling
  <2> QED
    BY <2>1, <2>3, SilentAnswers
<1>3. CASE PeersTimeout(r) \/ (Collect(r) /\ BadLayout(entry[r]))
  BY <1>1, <1>3, Zenon DEF PeersTimeout, Collect
<1>4. CASE Matched(r)
  <2> PICK p : p = entry[r]
    OBVIOUS
  <2>1. /\ AnswerParked(r, p, "ok")
        /\ UNCHANGED <<todo, cmd>>
        /\ paired' = [paired EXCEPT ![r] = @ \cup {p}]
        /\ pend' = [pend EXCEPT ![r] = @ \ {p}]
        /\ pc' = [pc EXCEPT ![r] = "consume"]
    BY <1>4, Zenon DEF Matched, Goto
  <2>2. \A q \in Ranks : pc'[q] \in Handling => pc[q] \in Handling
    BY <1>t, <2>1 DEF Handling
  <2>3. \A q \in Ranks : paired[q] \subseteq paired'[q]
    BY <1>t, <2>1
  <2>4. \A q \in Ranks : \A d \in pend[q] : d \in pend'[q] \/ (q = r /\ d = p)
    BY <1>t, <2>1
  <2>5. p \in paired'[r]
    BY <1>t, <2>1
  <2> QED
    BY <1>0, <2>1, <2>2, <2>3, <2>4, <2>5, ParkedAnswer, SMT
<1> QED
  BY <1>2, <1>3, <1>4 DEF Complete

\* The invariant holds at the start, every step keeps it and takes no answer back.
LEMMA AnswersHold ==
  /\ Init => AnswerInv
  /\ TypeOK /\ AnswerInv /\ [Next]_vars => AnswerInv' /\ Kept
<1>1. Init => AnswerInv
  BY DEF Init, AnswerInv, Unanswered, ParkedIsPending, OkMeansMatched, Handling
<1>2. ASSUME TypeOK, AnswerInv, Next
      PROVE  AnswerInv' /\ Kept
  BY <1>2, DequeueAnswers, HandleAnswers, LoopAnswers, CompleteAnswers DEF Next
<1>3. ASSUME TypeOK, AnswerInv, UNCHANGED vars
      PROVE  AnswerInv' /\ Kept
  BY <1>3, SilentAnswers, Zenon DEF vars, local
<1> QED
  BY <1>1, <1>2, <1>3

\* In every world, a parked command belongs to a pair that is still pending at
\* its rank and has had no answer, whatever completions fail and clients retry.
THEOREM NoSemaphoreForgotten == Spec => []ParkedIsPending
<1>1. AnswerInv => ParkedIsPending
  BY DEF AnswerInv
<1> QED
  BY <1>1, InitType, TypeStep, AnswersHold, PTL DEF Spec

\* In every world, a client that is told its InitPair succeeded finds the pair
\* matched at its rank, and it stays so.
THEOREM OkIsTrue == Spec => []OkMeansMatched
<1>1. AnswerInv => OkMeansMatched
  BY DEF AnswerInv
<1> QED
  BY <1>1, InitType, TypeStep, AnswersHold, PTL DEF Spec

\* In every world a client is answered once: Duplicate, Reject, CompareSize and
\* the two ends of a completion all answer a command that had no answer yet.
THEOREM OneAnswer == Spec => AnsweredOnce
<1>1. TypeOK /\ AnswerInv /\ [Next]_vars =>
        [\A c \in Cmds : reply[c] # "none" => reply'[c] = reply[c]]_vars
  BY AnswersHold DEF Kept
<1> QED
  BY <1>1, InitType, TypeStep, AnswersHold, PTL DEF Spec, AnsweredOnce

-----------------------------------------------------------------------------
(* Why no entry is dropped.  A rank that wrote its size is in one of three  *)
(* situations: the pair is pending or matched with that size; the handler   *)
(* that wrote it still runs; or it was turned down, and then some rank of   *)
(* its side is committed to another size, so that the side is never ready.  *)

\* The pairs a rank has accepted.
Known(r) == pend[r] \cup paired[r]

\* Rank r is inside the handler that wrote its size.
Busy(r, p, s) ==
  pc[r] \in Handling \ {"register"} /\ cmd[r].pair = p /\ cmd[r].side = s

\* The size in the store is the one the rank accepted the pair with.
Holds(r, p, s) == p \in Known(r) /\ pexp[r][p][s] = size[p][s][r]

\* A size that its rank will not change.
Fixed(r, p, s) ==
  /\ size[p][s][r] # 0
  /\ Holds(r, p, s) \/ (Busy(r, p, s) /\ pc[r] \in {"layout", "attach"})

HandlerInv ==
  \A r \in Ranks : pc[r] \in Handling =>
    /\ cmd[r].pair \notin paired[r]
    /\ cmd[r].pair \in pend[r] =>
         pexp[r][cmd[r].pair][cmd[r].side] \in {0, cmd[r].size}
    /\ pc[r] # "register" => size[cmd[r].pair][cmd[r].side][r] = cmd[r].size

KeyInv ==
  \A p \in Pairs, s \in Sides, r \in Ranks : size[p][s][r] # 0 =>
    /\ r \in Members[p][s]
    /\ size[p][s][r] >= Cardinality(Members[p][s])
    /\ \/ Holds(r, p, s)
       \/ Busy(r, p, s)
       \/ \E q \in Ranks : Fixed(q, p, s) /\ size[p][s][q] # size[p][s][r]

SharedInv ==
  \A p \in Pairs, s \in Sides : shared[p][s] # 0 =>
    \E q \in Ranks : Fixed(q, p, s) /\ size[p][s][q] = shared[p][s]

\* Every rank of the pair has accepted it or is about to.
Settled(p) ==
  \A s \in Sides : \A r \in Members[p][s] :
    /\ size[p][s][r] = Cardinality(Members[p][s])
    /\ size[p][s][r] # 0
    /\ Holds(r, p, s) \/ Busy(r, p, s)

Logged(p) == \E n \in 1..Len(log) : log[n] = p

LogInv ==
  \A p \in Pairs : Logged(p) => Settled(p) /\ \A s \in Sides : Members[p][s] # {}

\* A completion that begins is that of a logged pair.
EntryInv == \A r \in Ranks : pc[r] = "complete" => Logged(entry[r])

IInv ==
  TypeOK /\ HandlerInv /\ KeyInv /\ SharedInv /\ LogInv /\ EntryInv /\ NoDrop

-----------------------------------------------------------------------------
\* The ranks other than r are left alone.
Others(r) ==
  \A q \in Ranks \ {r} :
    /\ pc'[q] = pc[q]
    /\ cmd'[q] = cmd[q]
    /\ pend'[q] = pend[q]
    /\ paired'[q] = paired[q]
    /\ pexp'[q] = pexp[q]
    /\ \A p \in Pairs, s \in Sides : size'[p][s][q] = size[p][s][q]

\* Rank r acts outside _handle_init_pair.
Quiet(r) ==
  /\ pc[r] \notin Handling
  /\ pc'[r] \notin Handling
  /\ Known(r) \subseteq Known(r)'
  /\ UNCHANGED <<cmd, size, shared, pexp>>

\* The command a handler works on.
LEMMA HandledCommand ==
  ASSUME TypeOK, NEW r \in Ranks, pc[r] \in Handling
  PROVE  /\ cmd[r] \in Cmds
         /\ cmd[r].rank = r
         /\ cmd[r].pair \in Pairs
         /\ cmd[r].side \in Sides
         /\ cmd[r].size \in Nat \ {0}
         /\ cmd[r].size >= Cardinality(Members[cmd[r].pair][cmd[r].side])
         /\ r \in Members[cmd[r].pair][cmd[r].side]
<1>1. cmd[r] \in Cmds /\ cmd[r].rank = r
  BY DEF TypeOK, ControlOK
<1> QED
  BY <1>1, PairAssumption, CommandAssumption DEF Command

\* What each step of _handle_init_pair does.  A command is accepted:
LEMMA AcceptEffect ==
  ASSUME TypeOK, NEW r \in Ranks, NEW c \in Cmds, Accept(r, c)
  PROVE  /\ pc[r] = "dequeue" /\ pc'[r] = "register" /\ cmd'[r] = c
         /\ c.pair \notin paired[r]
         /\ c.pair \in pend[r] => pexp[r][c.pair][c.side] \in {0, c.size}
         /\ UNCHANGED <<size, shared, pend, paired, pexp>>
BY DEF Accept, Goto, TypeOK, ControlOK, store, local

\* Its size is written to the store.
LEMMA RegisterEffect ==
  ASSUME TypeOK, NEW r \in Ranks, Register(r)
  PROVE  /\ pc[r] = "register" /\ pc'[r] = "compare"
         /\ UNCHANGED <<cmd, shared, pend, paired, pexp>>
         /\ \A p \in Pairs, s \in Sides, q \in Ranks :
              size'[p][s][q] =
                IF p = cmd[r].pair /\ s = cmd[r].side /\ q = r
                  THEN cmd[r].size ELSE size[p][s][q]
<1>1. /\ cmd[r].pair \in Pairs /\ cmd[r].side \in Sides
      /\ size \in [Pairs -> [Sides -> [Ranks -> Nat]]]
  BY HandledCommand DEF Register, Handling, TypeOK, StoreOK
<1>2. size' = Updated(size, cmd[r].pair, cmd[r].side, r, cmd[r].size)
  BY Zenon DEF Register, Updated
<1>3. \A p \in Pairs, s \in Sides, q \in Ranks :
        size'[p][s][q] =
          IF p = cmd[r].pair /\ s = cmd[r].side /\ q = r
            THEN cmd[r].size ELSE size[p][s][q]
  BY <1>1, <1>2, UpdatedAt, SMT
<1>4. /\ pc[r] = "register" /\ pc'[r] = "compare"
      /\ UNCHANGED <<cmd, shared, pend, paired, pexp>>
  BY DEF Register, Goto, TypeOK, ControlOK, local
<1> QED
  BY <1>3, <1>4, Zenon

\* It is compared with the size of the side.
LEMMA CompareEffect ==
  ASSUME TypeOK, NEW r \in Ranks, CompareSize(r)
  PROVE  /\ pc[r] = "compare"
         /\ \/ pc'[r] = "share" /\ cmd' = cmd
            \/ /\ pc'[r] = "poll"
               /\ shared[cmd[r].pair][cmd[r].side] \notin {0, cmd[r].size}
         /\ UNCHANGED <<size, shared, pend, paired, pexp>>
BY DEF CompareSize, Goto, TypeOK, ControlOK, store, local

\* It becomes the size of the side.
LEMMA ShareEffect ==
  ASSUME TypeOK, NEW r \in Ranks, ShareSize(r)
  PROVE  /\ pc[r] = "share" /\ pc'[r] \in {"layout", "attach"}
         /\ UNCHANGED <<cmd, size, pend, paired, pexp>>
         /\ \A p \in Pairs, s \in Sides :
              shared'[p][s] = IF p = cmd[r].pair /\ s = cmd[r].side
                                THEN cmd[r].size ELSE shared[p][s]
<1>1. /\ cmd[r].pair \in Pairs /\ cmd[r].side \in Sides
      /\ shared \in [Pairs -> [Sides -> Nat]]
  BY HandledCommand DEF ShareSize, Handling, TypeOK, StoreOK
<1>2. shared' = [shared EXCEPT ![cmd[r].pair][cmd[r].side] = cmd[r].size]
  BY Zenon DEF ShareSize
<1>3. \A p \in Pairs, s \in Sides :
        shared'[p][s] = IF p = cmd[r].pair /\ s = cmd[r].side
                          THEN cmd[r].size ELSE shared[p][s]
  BY <1>1, <1>2
<1>4. /\ pc[r] = "share" /\ pc'[r] \in {"layout", "attach"}
      /\ UNCHANGED <<cmd, size, pend, paired, pexp>>
  BY DEF ShareSize, Goto, TypeOK, ControlOK, local
<1> QED
  BY <1>3, <1>4, Zenon

\* The layout is written.
LEMMA LayoutEffect ==
  ASSUME TypeOK, NEW r \in Ranks, WriteLayout(r)
  PROVE  /\ pc[r] = "layout" /\ pc'[r] = "attach"
         /\ UNCHANGED <<cmd, size, shared, pend, paired, pexp>>
BY DEF WriteLayout, Goto, TypeOK, ControlOK, local

\* The pair becomes pending with the command's size as the expected one.
LEMMA AttachEffect ==
  ASSUME TypeOK, NEW r \in Ranks, Attach(r)
  PROVE  /\ pc[r] = "attach" /\ pc'[r] = "poll"
         /\ pend'[r] = pend[r] \cup {cmd[r].pair}
         /\ UNCHANGED <<size, shared, paired>>
         /\ \A q \in Ranks, p \in Pairs, s \in Sides :
              pexp'[q][p][s] =
                IF q = r /\ p = cmd[r].pair /\ s = cmd[r].side
                  THEN cmd[r].size ELSE pexp[q][p][s]
<1>1. /\ cmd[r].pair \in Pairs /\ cmd[r].side \in Sides
      /\ pexp \in [Ranks -> [Pairs -> [Sides -> Nat]]]
  BY HandledCommand DEF Attach, Handling, TypeOK, LocalOK
<1>2. pexp' = Updated(pexp, r, cmd[r].pair, cmd[r].side, cmd[r].size)
  BY Zenon DEF Attach, Updated
<1>3. \A q \in Ranks, p \in Pairs, s \in Sides :
        pexp'[q][p][s] =
          IF q = r /\ p = cmd[r].pair /\ s = cmd[r].side
            THEN cmd[r].size ELSE pexp[q][p][s]
  BY <1>1, <1>2, UpdatedAt, SMT
<1>4. /\ pc[r] = "attach" /\ pc'[r] = "poll"
      /\ pend'[r] = pend[r] \cup {cmd[r].pair}
      /\ UNCHANGED <<size, shared, paired>>
  BY DEF Attach, Goto, TypeOK, ControlOK, LocalOK
<1> QED
  BY <1>3, <1>4, Zenon

\* Every step is one rank's; it is quiet, or a step of _handle_init_pair.
LEMMA StepKinds ==
  ASSUME TypeOK, Next
  PROVE  \E r \in Ranks :
           /\ Others(r)
           /\ Quiet(r) \/ (\E c \in Cmds : Accept(r, c)) \/ Handle(r)
<1> PICK r \in Ranks :
      Dequeue(r) \/ Handle(r) \/ Loop(r) \/ Complete(r) \/ PeersTimeout(r)
  BY DEF Next
<1> USE DEF Goto, store, local, comm
<1>t. /\ pc \in [Ranks -> Handling \cup {"poll", "append", "mark", "consume",
                                         "dequeue", "complete", "peers", "calls"}]
      /\ cmd \in [Ranks -> Cmds \cup {NoCmd}]
      /\ pend \in [Ranks -> SUBSET Pairs]
      /\ paired \in [Ranks -> SUBSET Pairs]
      /\ pexp \in [Ranks -> [Pairs -> [Sides -> Nat]]]
  BY DEF TypeOK, ControlOK, LocalOK
<1>0. ASSUME UNCHANGED <<cmd, pend, paired, pexp, size, shared>>,
             pc[r] \notin Handling, NEW l, l \notin Handling,
             pc' = [pc EXCEPT ![r] = l] \/ (pc' = pc)
      PROVE  Others(r) /\ Quiet(r)
  BY <1>t, <1>0 DEF Others, Quiet, Known
<1>1. ASSUME NEW c \in Cmds, Duplicate(r, c) \/ Reject(r, c)
      PROVE  Others(r) /\ Quiet(r)
  BY <1>0, <1>1 DEF Duplicate, Reject, Handling
<1>2. ASSUME NEW c \in Cmds, Accept(r, c)
      PROVE  Others(r)
  BY <1>t, <1>2 DEF Accept, Others
<1>3. ASSUME Handle(r)
      PROVE  Others(r)
  <2>1. CASE Register(r)
    <3>1. \A q \in Ranks \ {r} : \A p \in Pairs, s \in Sides :
            size'[p][s][q] = size[p][s][q]
      BY <2>1, RegisterEffect, SMT
    <3>2. /\ pc' = [pc EXCEPT ![r] = "compare"]
          /\ UNCHANGED <<cmd, pend, paired, pexp>>
      BY <2>1 DEF Register
    <3> QED
      BY <1>t, <3>1, <3>2 DEF Others
  <2>2. CASE CompareSize(r)
    BY <1>t, <2>2 DEF CompareSize, Others
  <2>3. CASE ShareSize(r)
    BY <1>t, <2>3 DEF ShareSize, Others
  <2>4. CASE WriteLayout(r)
    BY <1>t, <2>4 DEF WriteLayout, Others
  <2>5. CASE Attach(r)
    BY <1>t, <2>5 DEF Attach, Others
  <2> QED
    BY <1>3, <2>1, <2>2, <2>3, <2>4, <2>5 DEF Handle
<1>4. ASSUME Loop(r)
      PROVE  Others(r) /\ Quiet(r)
  <2> USE DEF Handling
  <2>1. CASE Poll(r)
    BY <1>0, <2>1 DEF Poll
  <2>2. CASE r = Leader /\ AppendReady
    BY <1>0, <2>2, Zenon DEF AppendReady, SkipPair, AppendEntry, MarkLogged, AppendDone
  <2>3. CASE Consume(r)
    BY <1>0, <2>3, Zenon DEF Consume
  <2>4. CASE ConsumeDone(r) \/ Idle(r)
    BY <1>0, <2>4, Zenon DEF ConsumeDone, Idle
  <2> QED
    BY <1>4, <2>1, <2>2, <2>3, <2>4 DEF Loop
<1>5. ASSUME Complete(r) \/ PeersTimeout(r)
      PROVE  Others(r) /\ Quiet(r)
  <2> USE DEF Handling
  <2>1. CASE Publish(r)
    BY <1>0, <2>1, Zenon DEF Publish
  <2>2. CASE PeersTimeout(r)
    BY <1>0, <2>2, Zenon DEF PeersTimeout, Fail
  <2>3. CASE Collect(r)
    BY <1>0, <2>3 DEF Collect, Fail
  <2>4. CASE Call(r)
    BY <1>0, <2>4, Zenon DEF Call
  <2>5. CASE Matched(r)
    BY <1>t, <2>5 DEF Matched, Others, Quiet, Known
  <2> QED
    BY <1>5, <2>1, <2>2, <2>3, <2>4, <2>5 DEF Complete
<1> QED
  BY <1>1, <1>2, <1>3, <1>4, <1>5 DEF Dequeue

\* Only Register writes a size.
LEMMA SizeEffect ==
  ASSUME TypeOK, NEW r \in Ranks,
         Quiet(r) \/ (\E c \in Cmds : Accept(r, c)) \/ Handle(r)
  PROVE  size' = size \/ Register(r)
<1>1. Quiet(r) => size' = size
  BY Zenon DEF Quiet
<1>2. (\E c \in Cmds : Accept(r, c)) => size' = size
  BY Zenon DEF Accept, store
<1>3. Handle(r) => size' = size \/ Register(r)
  BY Zenon DEF Handle, CompareSize, ShareSize, WriteLayout, Attach, store
<1> QED
  BY <1>1, <1>2, <1>3, Zenon

\* The handler's own invariant.
LEMMA HandlerStep ==
  ASSUME TypeOK, HandlerInv, Next
  PROVE  HandlerInv'
<1>1. PICK r \in Ranks :
        /\ Others(r)
        /\ Quiet(r) \/ (\E c \in Cmds : Accept(r, c)) \/ Handle(r)
  BY StepKinds
<1> DEFINE Good(q) ==
      pc[q] \in Handling =>
        /\ cmd[q].pair \notin paired[q]
        /\ cmd[q].pair \in pend[q] =>
             pexp[q][cmd[q].pair][cmd[q].side] \in {0, cmd[q].size}
        /\ pc[q] # "register" => size[cmd[q].pair][cmd[q].side][q] = cmd[q].size
<1>2. \A q \in Ranks : Good(q)
  BY DEF HandlerInv
<1>3. SUFFICES \A q \in Ranks : Good(q)'
  BY DEF HandlerInv
<1>4. ASSUME NEW q \in Ranks \ {r}
      PROVE  Good(q)'
  <2>1. pc[q] \in Handling => cmd[q].pair \in Pairs /\ cmd[q].side \in Sides
    BY HandledCommand
  <2>2. /\ pc'[q] = pc[q] /\ cmd'[q] = cmd[q] /\ pend'[q] = pend[q]
        /\ paired'[q] = paired[q] /\ pexp'[q] = pexp[q]
        /\ pc[q] \in Handling => size'[cmd[q].pair][cmd[q].side][q]
                                  = size[cmd[q].pair][cmd[q].side][q]
    BY <1>1, <2>1 DEF Others
  <2> QED
    BY <1>2, <2>2
<1>5. Good(r)'
  <2> USE DEF Handling
  <2>0. pc[r] \in Handling =>
          cmd[r].pair \in Pairs /\ cmd[r].side \in Sides
    BY HandledCommand
  <2>1. CASE Quiet(r)
    BY <2>1 DEF Quiet
  <2>2. ASSUME NEW c \in Cmds, Accept(r, c)
        PROVE  Good(r)'
    BY <2>2, AcceptEffect
  <2>3. CASE Register(r)
    BY <1>2, <2>0, <2>3, RegisterEffect, SMT
  <2>4. CASE CompareSize(r)
    BY <1>2, <2>4, CompareEffect
  <2>5. CASE ShareSize(r)
    BY <1>2, <2>5, ShareEffect
  <2>6. CASE WriteLayout(r)
    BY <1>2, <2>6, LayoutEffect
  <2>7. CASE Attach(r)
    BY <2>7, AttachEffect
  <2> QED
    BY <1>1, <2>1, <2>2, <2>3, <2>4, <2>5, <2>6, <2>7, Zenon DEF Handle
<1> QED
  BY <1>4, <1>5

\* A size that is fixed stays.
LEMMA FixedStep ==
  ASSUME TypeOK, HandlerInv, Next,
         NEW p \in Pairs, NEW s \in Sides, NEW q \in Ranks, Fixed(q, p, s)
  PROVE  Fixed(q, p, s)' /\ size'[p][s][q] = size[p][s][q]
<1>1. PICK r \in Ranks :
        /\ Others(r)
        /\ Quiet(r) \/ (\E c \in Cmds : Accept(r, c)) \/ Handle(r)
  BY StepKinds
<1>2. CASE q # r
  BY <1>1, <1>2, Zenon DEF Others, Fixed, Holds, Busy, Known
<1>3. CASE q = r
  <2> USE <1>3 DEF Fixed, Holds, Busy, Known
  <2>0. pc[r] \in Handling =>
          /\ cmd[r].pair \in Pairs /\ cmd[r].side \in Sides
          /\ cmd[r].pair \notin paired[r]
          /\ cmd[r].pair \in pend[r] =>
               pexp[r][cmd[r].pair][cmd[r].side] \in {0, cmd[r].size}
          /\ pc[r] # "register" => size[cmd[r].pair][cmd[r].side][r] = cmd[r].size
    BY HandledCommand DEF HandlerInv
  <2> USE DEF Handling
  <2>1. CASE Quiet(r)
    BY <2>1 DEF Quiet
  <2>2. ASSUME NEW c \in Cmds, Accept(r, c)
        PROVE  Fixed(q, p, s)' /\ size'[p][s][q] = size[p][s][q]
    BY <2>2, AcceptEffect
  <2>3. CASE Register(r)
    <3>1. Holds(r, p, s)
      BY <2>3, RegisterEffect
    <3>a. pc[r] = "register"
      BY <2>3, RegisterEffect, Zenon
    <3>b. size'[p][s][r] = IF p = cmd[r].pair /\ s = cmd[r].side
                             THEN cmd[r].size ELSE size[p][s][r]
      BY <2>3, RegisterEffect, SMT
    <3>2. size'[p][s][r] = size[p][s][r]
      BY <2>0, <3>a, <3>b, <3>1
    <3> QED
      BY <2>3, <3>1, <3>2, RegisterEffect
  <2>4. CASE CompareSize(r)
    BY <2>4, CompareEffect
  <2>5. CASE ShareSize(r)
    BY <2>5, ShareEffect
  <2>6. CASE WriteLayout(r)
    BY <2>6, LayoutEffect
  <2>7. CASE Attach(r)
    BY <2>0, <2>7, AttachEffect, SMT
  <2> QED
    BY <1>1, <2>1, <2>2, <2>3, <2>4, <2>5, <2>6, <2>7, Zenon DEF Handle
<1> QED
  BY <1>2, <1>3

\* The side's size in the store is one some rank is committed to.
LEMMA SharedStep ==
  ASSUME TypeOK, HandlerInv, SharedInv, Next
  PROVE  SharedInv'
<1> SUFFICES ASSUME NEW p \in Pairs, NEW s \in Sides, shared'[p][s] # 0
             PROVE  \E q \in Ranks : Fixed(q, p, s)' /\ size'[p][s][q] = shared'[p][s]
  BY DEF SharedInv
<1>1. PICK r \in Ranks :
        /\ Others(r)
        /\ Quiet(r) \/ (\E c \in Cmds : Accept(r, c)) \/ Handle(r)
  BY StepKinds
<1>2. CASE shared'[p][s] = shared[p][s]
  <2>1. PICK q \in Ranks : Fixed(q, p, s) /\ size[p][s][q] = shared[p][s]
    BY <1>2 DEF SharedInv
  <2> QED
    BY <1>2, <2>1, FixedStep
<1>3. CASE ShareSize(r) /\ p = cmd[r].pair /\ s = cmd[r].side
  <2>1. /\ pc[r] = "share" /\ pc'[r] \in {"layout", "attach"}
        /\ shared'[p][s] = cmd[r].size
        /\ UNCHANGED <<cmd, size>>
    BY <1>3, ShareEffect
  <2>2. size[p][s][r] = cmd[r].size
    BY <1>3, <2>1 DEF HandlerInv, Handling
  <2>3. Fixed(r, p, s)'
    BY <1>3, <2>1, <2>2 DEF Fixed, Busy, Handling
  <2> QED
    BY <2>1, <2>2, <2>3
<1>4. shared'[p][s] = shared[p][s] \/ (ShareSize(r) /\ p = cmd[r].pair /\ s = cmd[r].side)
  <2>1. CASE Quiet(r)
    BY <2>1 DEF Quiet
  <2>2. CASE \E c \in Cmds : Accept(r, c)
    BY <2>2, AcceptEffect
  <2>3. CASE ShareSize(r)
    BY <2>3, ShareEffect, SMT
  <2>4. CASE Register(r) \/ CompareSize(r) \/ WriteLayout(r) \/ Attach(r)
    BY <2>4, RegisterEffect, CompareEffect, LayoutEffect, AttachEffect, Zenon
  <2> QED
    BY <1>1, <2>1, <2>2, <2>3, <2>4, Zenon DEF Handle
<1> QED
  BY <1>2, <1>3, <1>4

\* A rank that wrote its size holds it, is busy, or was turned down.
LEMMA KeyStep ==
  ASSUME TypeOK, HandlerInv, SharedInv, KeyInv, Next
  PROVE  KeyInv'
<1> SUFFICES ASSUME NEW p \in Pairs, NEW s \in Sides, NEW r \in Ranks,
                    size'[p][s][r] # 0
             PROVE  /\ r \in Members[p][s]
                    /\ size'[p][s][r] >= Cardinality(Members[p][s])
                    /\ \/ Holds(r, p, s)'
                       \/ Busy(r, p, s)'
                       \/ \E q \in Ranks : /\ Fixed(q, p, s)'
                                            /\ size'[p][s][q] # size'[p][s][r]
  BY DEF KeyInv
<1>1. PICK a \in Ranks :
        /\ Others(a)
        /\ Quiet(a) \/ (\E c \in Cmds : Accept(a, c)) \/ Handle(a)
  BY StepKinds
<1>2. CASE Register(a) /\ a = r /\ p = cmd[r].pair /\ s = cmd[r].side
  <2>1. /\ pc[r] = "register" /\ pc'[r] = "compare" /\ cmd' = cmd
        /\ size'[p][s][r] = cmd[r].size
    BY <1>2, RegisterEffect
  <2>2. r \in Members[p][s] /\ cmd[r].size >= Cardinality(Members[p][s])
    BY <1>2, <2>1, HandledCommand DEF Handling
  <2>3. Busy(r, p, s)'
    BY <1>2, <2>1 DEF Busy, Handling
  <2> QED
    BY <2>1, <2>2, <2>3
<1>3. CASE size'[p][s][r] = size[p][s][r]
  <2>1. /\ r \in Members[p][s]
        /\ size'[p][s][r] >= Cardinality(Members[p][s])
        /\ \/ Holds(r, p, s)
           \/ Busy(r, p, s)
           \/ \E q \in Ranks : Fixed(q, p, s) /\ size[p][s][q] # size[p][s][r]
    BY <1>3 DEF KeyInv
  <2>2. CASE Holds(r, p, s)
    <3>1. Fixed(r, p, s)
      BY <1>3, <2>2 DEF Fixed
    <3>2. Fixed(r, p, s)'
      BY <3>1, FixedStep
    <3> QED
      BY <2>1, <3>2 DEF Fixed
  <2>3. ASSUME NEW q \in Ranks, Fixed(q, p, s), size[p][s][q] # size[p][s][r]
        PROVE  Fixed(q, p, s)' /\ size'[p][s][q] # size'[p][s][r]
    BY <1>3, <2>3, FixedStep
  <2>4. CASE Busy(r, p, s)
    <3>0. cmd[r].pair = p /\ cmd[r].side = s /\ size[p][s][r] = cmd[r].size
      BY <2>4 DEF Busy, HandlerInv, Handling
    <3>1. CASE a # r
      <4>1. Busy(r, p, s)'
        BY <1>1, <2>4, <3>1 DEF Others, Busy
      <4> QED
        BY <2>1, <4>1
    <3>2. CASE a = r /\ CompareSize(r)
      <4>1. CASE pc'[r] = "share" /\ cmd' = cmd
        <5>1. Busy(r, p, s)'
          BY <3>0, <4>1 DEF Busy, Handling
        <5> QED
          BY <2>1, <5>1
      <4>2. CASE shared[cmd[r].pair][cmd[r].side] \notin {0, cmd[r].size}
        <5>1. PICK q \in Ranks : Fixed(q, p, s) /\ size[p][s][q] = shared[p][s]
          BY <3>0, <4>2 DEF SharedInv
        <5>2. Fixed(q, p, s)' /\ size'[p][s][q] # size'[p][s][r]
          BY <2>3, <3>0, <4>2, <5>1
        <5> QED
          BY <2>1, <5>2
      <4> QED
        BY <3>2, <4>1, <4>2, CompareEffect, Zenon
    <3>3. CASE a = r /\ (ShareSize(r) \/ WriteLayout(r))
      <4>1. Busy(r, p, s)'
        BY <3>0, <3>3, ShareEffect, LayoutEffect, Zenon DEF Busy, Handling
      <4> QED
        BY <2>1, <4>1
    <3>4. CASE a = r /\ Attach(r)
      <4>1. Fixed(r, p, s)
        BY <1>3, <2>4, <3>4, AttachEffect, Zenon DEF Fixed, Busy
      <4>2. Fixed(r, p, s)' /\ pc'[r] = "poll"
        BY <3>4, <4>1, FixedStep, AttachEffect, Zenon
      <4>3. Holds(r, p, s)'
        BY <4>2 DEF Fixed
      <4> QED
        BY <2>1, <4>3
    <3>5. a = r => CompareSize(r) \/ ShareSize(r) \/ WriteLayout(r) \/ Attach(r)
      <4>1. pc[r] \in Handling \ {"register"}
        BY <2>4 DEF Busy
      <4> QED
        BY <1>1, <4>1, AcceptEffect, RegisterEffect, Zenon DEF Quiet, Handle, Handling
    <3> QED
      BY <3>1, <3>2, <3>3, <3>4, <3>5
  <2> QED
    BY <2>1, <2>2, <2>3, <2>4
<1>4. \/ size'[p][s][r] = size[p][s][r]
      \/ Register(a) /\ a = r /\ p = cmd[r].pair /\ s = cmd[r].side
  <2>1. CASE a # r
    BY <1>1, <2>1 DEF Others
  <2>2. CASE a = r
    BY <1>1, <2>2, SizeEffect, RegisterEffect, SMT
  <2> QED
    BY <2>1, <2>2
<1> QED
  BY <1>2, <1>3, <1>4

-----------------------------------------------------------------------------
(* The completion log. *)

\* Readiness, read from the store alone, means that every rank has the pair.
LEMMA ReadySettled ==
  ASSUME TypeOK, KeyInv, NEW p \in Pairs, PairReady(p)
  PROVE  Settled(p)
<1> SUFFICES ASSUME NEW s \in Sides, NEW r \in Members[p][s]
             PROVE  /\ size[p][s][r] = Cardinality(Members[p][s])
                    /\ size[p][s][r] # 0
                    /\ Holds(r, p, s) \/ Busy(r, p, s)
  BY DEF Settled
<1> DEFINE M == Members[p][s]
           P == Present(p, s)
<1>1. P \subseteq M /\ P # {} /\ \A q \in P : size[p][s][q] = Cardinality(P)
  BY DEF PairReady, SideReady, KeyInv, Present
<1>2. IsFiniteSet(M) /\ M \subseteq Ranks
  <2>1. IsFiniteSet(Ranks)
    BY PairAssumption, FS_Interval, SMT DEF Ranks
  <2>2. M \subseteq Ranks
    BY PairAssumption
  <2> QED
    BY <2>1, <2>2, FS_Subset
<1>3. Cardinality(P) >= Cardinality(M)
  <2>1. PICK q \in P : TRUE
    BY <1>1
  <2>2. q \in Ranks /\ size[p][s][q] # 0
    BY <2>1 DEF Present
  <2>3. size[p][s][q] >= Cardinality(M)
    BY <2>2 DEF KeyInv
  <2> QED
    BY <1>1, <2>1, <2>3
<1>4. /\ Cardinality(P) \in Nat /\ Cardinality(M) \in Nat
      /\ Cardinality(P) <= Cardinality(M)
      /\ Cardinality(P) = Cardinality(M) => P = M
  BY <1>1, <1>2, FS_Subset, FS_CardinalityType
<1>5. P = M /\ Cardinality(P) = Cardinality(M)
  BY <1>3, <1>4
<1>6. /\ r \in Ranks /\ r \in P
      /\ size[p][s][r] # 0
      /\ size[p][s][r] = Cardinality(M)
  BY <1>1, <1>2, <1>5 DEF Present
<1>7. ASSUME NEW q \in Ranks, Fixed(q, p, s), size[p][s][q] # size[p][s][r]
      PROVE  FALSE
  <2>1. q \in P
    BY <1>7 DEF Fixed, Present
  <2> QED
    BY <1>1, <1>6, <1>7, <2>1
<1> QED
  BY <1>6, <1>7 DEF KeyInv

\* Once every rank has the pair, this stays so.
LEMMA SettledStep ==
  ASSUME TypeOK, HandlerInv, KeyInv, Next, KeyInv', NEW p \in Pairs, Settled(p)
  PROVE  Settled(p)'
<1>0. \A s \in Sides : Members[p][s] \subseteq Ranks
  BY PairAssumption
<1>1. ASSUME NEW s \in Sides, NEW r \in Members[p][s]
      PROVE  size'[p][s][r] = size[p][s][r]
  <2>0. r \in Ranks /\ size[p][s][r] # 0
    BY <1>0, <1>1 DEF Settled
  <2>1. CASE Holds(r, p, s)
    BY <2>0, <2>1, FixedStep DEF Fixed
  <2>2. CASE Busy(r, p, s)
    <3>1. PICK a \in Ranks :
            /\ Others(a)
            /\ Quiet(a) \/ (\E c \in Cmds : Accept(a, c)) \/ Handle(a)
      BY StepKinds
    <3>2. CASE a # r
      BY <2>0, <3>1, <3>2 DEF Others
    <3>3. CASE a = r
      <4>1. ~Register(r)
        BY <2>0, <2>2, RegisterEffect DEF Busy
      <4> QED
        BY <2>0, <3>1, <3>3, <4>1, SizeEffect
    <3> QED
      BY <3>2, <3>3
  <2> QED
    BY <2>1, <2>2 DEF Settled
<1>2. SUFFICES ASSUME NEW s \in Sides, NEW r \in Members[p][s]
               PROVE  Holds(r, p, s)' \/ Busy(r, p, s)'
  BY <1>1 DEF Settled
<1>3. r \in Ranks /\ size'[p][s][r] # 0 /\ size'[p][s][r] = Cardinality(Members[p][s])
  BY <1>0, <1>1 DEF Settled
<1>4. ASSUME NEW q \in Ranks, Fixed(q, p, s)', size'[p][s][q] # size'[p][s][r]
      PROVE  FALSE
  <2>1. q \in Members[p][s]
    BY <1>4 DEF KeyInv, Fixed
  <2> QED
    BY <1>1, <1>3, <1>4, <2>1 DEF Settled
<1> QED
  BY <1>3, <1>4 DEF KeyInv

\* The log grows by ready pairs, and a cursor moves in _consume_completion_log.
LEMMA LogEffect ==
  ASSUME TypeOK, Next
  PROVE  /\ \/ log' = log
            \/ \E p \in Pairs : PairReady(p) /\ log' = Append(log, p)
         /\ \A q \in Ranks :
              \/ cursor'[q] = cursor[q]
              \/ /\ pc[q] = "consume"
                 /\ cursor[q] < Len(log)
                 /\ cursor'[q] = cursor[q] + 1
<1> PICK r \in Ranks :
      Dequeue(r) \/ Handle(r) \/ Loop(r) \/ Complete(r) \/ PeersTimeout(r)
  BY DEF Next
<1> USE DEF store, local, comm
<1>1. CASE Dequeue(r)
  BY <1>1, Zenon DEF Dequeue, Duplicate, Reject, Accept
<1>2. CASE Handle(r)
  BY <1>2, Zenon DEF Handle, Register, CompareSize, ShareSize, WriteLayout, Attach
<1>3. CASE Complete(r) \/ PeersTimeout(r)
  BY <1>3, Zenon DEF Complete, Publish, PeersTimeout, Collect, Call, Matched, Fail
<1>4. CASE Poll(r) \/ ConsumeDone(r) \/ Idle(r)
  BY <1>4, Zenon DEF Poll, ConsumeDone, Idle
<1>5. CASE SkipPair \/ MarkLogged \/ AppendDone
  BY <1>5, Zenon DEF SkipPair, MarkLogged, AppendDone
<1>6. CASE AppendEntry
  <2>1. First(scan) \in Pairs
    BY <1>6, FirstIn, PairAssumption, Zenon DEF AppendEntry, TypeOK, ControlOK
  <2> QED
    BY <1>6, <2>1, Zenon DEF AppendEntry
<1>7. CASE Consume(r)
  BY <1>7, Zenon DEF Consume, TypeOK, StoreOK
<1> QED
  BY <1>1, <1>2, <1>3, <1>4, <1>5, <1>6, <1>7 DEF Loop, AppendReady

\* Logged pairs are settled.
LEMMA LogStep ==
  ASSUME IInv, Next, KeyInv'
  PROVE  LogInv'
<1> SUFFICES ASSUME NEW p \in Pairs, NEW n \in 1..Len(log'), log'[n] = p
             PROVE  Settled(p)' /\ \A s \in Sides : Members[p][s] # {}
  BY DEF LogInv, Logged
<1>0. log \in Seq(Pairs)
  BY DEF IInv, TypeOK, StoreOK
<1>1. (n \in 1..Len(log) /\ log[n] = p) \/ PairReady(p)
  BY <1>0, LogEffect DEF IInv
<1>2. CASE n \in 1..Len(log) /\ log[n] = p
  BY <1>2, SettledStep DEF IInv, LogInv, Logged
<1>3. CASE PairReady(p)
  <2>1. Settled(p)'
    BY <1>3, ReadySettled, SettledStep DEF IInv
  <2>2. \A s \in Sides : \E r \in Ranks : size[p][s][r] # 0
    BY <1>3 DEF PairReady, SideReady, Present
  <2> QED
    BY <2>1, <2>2 DEF IInv, KeyInv
<1> QED
  BY <1>1, <1>2, <1>3

\* The entry after the cursor is one of the log.
LEMMA NextIndex == \A c, n \in Nat : c < n => c + 1 \in 1..n
OBVIOUS

\* The length of a log.
LEMMA LogLength == \A S : \A s \in Seq(S) : Len(s) \in Nat
OBVIOUS

\* A completion begins with an entry of the log.
LEMMA EntryEffect ==
  ASSUME TypeOK, Next, NEW q \in Ranks, pc'[q] = "complete"
  PROVE  \/ pc[q] = "complete" /\ entry'[q] = entry[q]
         \/ Logged(entry'[q])
<1> PICK r \in Ranks :
      Dequeue(r) \/ Handle(r) \/ Loop(r) \/ Complete(r) \/ PeersTimeout(r)
  BY DEF Next
<1>t. DOMAIN pc = Ranks /\ DOMAIN entry = Ranks
  BY DEF TypeOK, ControlOK
<1> USE DEF Goto
<1>1. CASE Dequeue(r)
  BY <1>t, <1>1, Zenon DEF Dequeue, Duplicate, Reject, Accept
<1>2. CASE Handle(r)
  BY <1>t, <1>2, Zenon DEF Handle, Register, CompareSize, ShareSize, WriteLayout, Attach
<1>3. CASE Complete(r) \/ PeersTimeout(r)
  BY <1>t, <1>3 DEF Complete, Publish, PeersTimeout, Collect, Call, Matched, Fail
<1>4. CASE Poll(r) \/ ConsumeDone(r) \/ Idle(r)
  BY <1>t, <1>4, Zenon DEF Poll, ConsumeDone, Idle
<1>5. CASE r = Leader /\ AppendReady
  BY <1>t, <1>5, Zenon DEF AppendReady, SkipPair, AppendEntry, MarkLogged, AppendDone
<1>6. CASE Consume(r)
  <2>1. cursor[r] + 1 \in 1..Len(log)
    <3>1. cursor[r] < Len(log) /\ cursor[r] \in Nat /\ log \in Seq(Pairs)
      BY <1>6, Zenon DEF Consume, TypeOK, StoreOK
    <3>2. Len(log) \in Nat
      BY <3>1, LogLength, Zenon
    <3> QED
      BY <3>1, <3>2, NextIndex, Zenon
  <2> QED
    BY <1>t, <1>6, <2>1, Zenon DEF Consume, Logged
<1> QED
  BY <1>1, <1>2, <1>3, <1>4, <1>5, <1>6 DEF Loop

\* A logged pair stays logged until its completion begins, and after.
LEMMA EntryStep ==
  ASSUME IInv, Next
  PROVE  EntryInv'
<1> SUFFICES ASSUME NEW q \in Ranks, pc'[q] = "complete"
             PROVE  Logged(entry[q])'
  BY DEF EntryInv
<1>1. PICK n \in 1..Len(log) : log[n] = entry'[q]
  BY EntryEffect DEF IInv, EntryInv, Logged
<1>2. log \in Seq(Pairs)
  BY DEF IInv, TypeOK, StoreOK
<1>3. n \in 1..Len(log') /\ log'[n] = log[n]
  BY <1>2, LogEffect DEF IInv
<1> QED
  BY <1>1, <1>3 DEF Logged

\* A settled pair is ready.
LEMMA SettledReady ==
  ASSUME KeyInv, NEW p \in Pairs, Settled(p), \A s \in Sides : Members[p][s] # {}
  PROVE  PairReady(p)
<1> SUFFICES ASSUME NEW s \in Sides PROVE SideReady(p, s)
  BY DEF PairReady
<1>1. Members[p][s] \subseteq Ranks
  BY PairAssumption
<1>2. Present(p, s) = Members[p][s]
  BY <1>1 DEF Present, Settled, KeyInv
<1> QED
  BY <1>2 DEF SideReady, Settled

\* A rank that consumes an entry knows its pair, and forgets none.
LEMMA NoDropStep ==
  ASSUME IInv, Next
  PROVE  NoDrop'
<1> SUFFICES ASSUME NEW q \in Ranks, NEW n \in 1..cursor'[q]
             PROVE  log'[n] \in pend'[q] \cup paired'[q]
  BY DEF NoDrop
<1>0. /\ log \in Seq(Pairs) /\ cursor[q] \in Nat /\ cursor[q] <= Len(log)
  BY DEF IInv, TypeOK, StoreOK
<1>1. pend[q] \cup paired[q] \subseteq pend'[q] \cup paired'[q]
  <2>1. PICK a \in Ranks :
          /\ Others(a)
          /\ Quiet(a) \/ (\E c \in Cmds : Accept(a, c)) \/ Handle(a)
    BY StepKinds DEF IInv
  <2>2. CASE a # q
    BY <2>1, <2>2 DEF Others
  <2>3. CASE a = q
    <3>t. TypeOK
      BY DEF IInv
    <3>1. CASE Quiet(q)
      BY <3>1 DEF Quiet, Known
    <3>2. CASE \E c \in Cmds : Accept(q, c)
      BY <3>t, <3>2, AcceptEffect
    <3>3. CASE Attach(q)
      BY <3>t, <3>3, AttachEffect
    <3>4. CASE Register(q) \/ CompareSize(q) \/ ShareSize(q) \/ WriteLayout(q)
      BY <3>t, <3>4, RegisterEffect, CompareEffect, ShareEffect, LayoutEffect, Zenon
    <3> QED
      BY <2>1, <2>3, <3>1, <3>2, <3>3, <3>4, Zenon DEF Handle
  <2> QED
    BY <2>2, <2>3
<1>2. /\ n \in 1..Len(log) /\ log'[n] = log[n]
      /\ n \in 1..cursor[q] \/ (pc[q] = "consume" /\ n = cursor[q] + 1)
  BY <1>0, LogEffect DEF IInv
<1>3. CASE n \in 1..cursor[q]
  BY <1>1, <1>2, <1>3 DEF IInv, NoDrop
<1>4. CASE pc[q] = "consume"
  <2>1. PICK p \in Pairs : p = log[n] /\ Settled(p)
    BY <1>0, <1>2 DEF IInv, LogInv, Logged
  <2>2. PICK s \in Sides : q \in Members[p][s]
    BY CommandAssumption DEF Sides
  <2>3. Holds(q, p, s)
    BY <1>4, <2>1, <2>2 DEF Settled, Busy, Handling
  <2> QED
    BY <1>1, <1>2, <2>1, <2>3 DEF Holds, Known
<1> QED
  BY <1>2, <1>3, <1>4

\* The invariant holds at the start and is kept by every step.
LEMMA InvariantHolds == Spec => []IInv
<1>1. Init => IInv
  <2> SUFFICES ASSUME Init PROVE IInv
    OBVIOUS
  <2>1. TypeOK
    BY InitType
  <2>2. HandlerInv
    BY DEF Init, HandlerInv, Handling
  <2>3. KeyInv /\ SharedInv
    BY DEF Init, KeyInv, SharedInv
  <2>4. LogInv /\ EntryInv /\ NoDrop
    BY DEF Init, LogInv, Logged, EntryInv, NoDrop
  <2> QED
    BY <2>1, <2>2, <2>3, <2>4 DEF IInv
<1>2. IInv /\ [Next]_vars => IInv'
  <2> SUFFICES ASSUME IInv, [Next]_vars PROVE IInv'
    OBVIOUS
  <2>1. CASE Next
    <3>1. TypeOK'
      BY <2>1, TypeStep DEF IInv
    <3>2. HandlerInv' /\ SharedInv' /\ KeyInv'
      BY <2>1, HandlerStep, SharedStep, KeyStep DEF IInv
    <3>3. LogInv' /\ EntryInv' /\ NoDrop'
      BY <2>1, <3>2, LogStep, EntryStep, NoDropStep
    <3> QED
      BY <3>1, <3>2, <3>3 DEF IInv
  <2>2. CASE UNCHANGED vars
    <3> USE DEF vars, store, local, comm
    <3>1. TypeOK'
      BY <2>2, TypeStep DEF IInv
    <3>2. HandlerInv'
      BY <2>2 DEF IInv, HandlerInv
    <3>3. \A r, p, s : /\ Holds(r, p, s)' <=> Holds(r, p, s)
                       /\ Busy(r, p, s)' <=> Busy(r, p, s)
      BY <2>2, Zenon DEF Holds, Busy, Known
    <3>4. \A r, p, s : Fixed(r, p, s)' <=> Fixed(r, p, s)
      BY <2>2, <3>3, Zenon DEF Fixed
    <3>5. KeyInv'
      BY <2>2, <3>3, <3>4, Zenon DEF IInv, KeyInv
    <3>6. SharedInv'
      BY <2>2, <3>4, Zenon DEF IInv, SharedInv
    <3>7. \A p : Logged(p)' <=> Logged(p)
      BY <2>2, Zenon DEF Logged
    <3>8. \A p : Settled(p) => Settled(p)'
      BY <2>2, <3>3, Zenon DEF Settled
    <3>9. LogInv' /\ EntryInv' /\ NoDrop'
      BY <2>2, <3>7, <3>8, Zenon DEF IInv, LogInv, EntryInv, NoDrop
    <3> QED
      BY <3>1, <3>2, <3>5, <3>6, <3>9 DEF IInv
  <2> QED
    BY <2>1, <2>2
<1> QED
  BY <1>1, <1>2, PTL DEF Spec

-----------------------------------------------------------------------------
\* In every world, whatever the pairs, the interleaving of the agents and the
\* retries of the clients, no rank consumes a log entry for a pair it does not
\* know: the leader's readiness check, which looks at the store only, implies
\* that every rank has handled its own InitPair or is inside the handler.
THEOREM NothingDropped == Spec => []NoDrop
<1>1. IInv => NoDrop
  BY DEF IInv
<1> QED
  BY <1>1, InvariantHolds, PTL

\* In every world a rank that begins to complete a pair finds both of its sides
\* ready, so the assertion of _complete_pair never fails: a side that was ready
\* once stays so, whatever the ranks register afterwards.
THEOREM AssertionHolds == Spec => []CompletedIsReady
<1>1. IInv => CompletedIsReady
  <2> SUFFICES ASSUME IInv, NEW r \in Ranks, pc[r] = "complete"
               PROVE  PairReady(entry[r])
    BY DEF CompletedIsReady
  <2>1. entry[r] \in Pairs /\ Logged(entry[r])
    BY DEF IInv, TypeOK, ControlOK, EntryInv
  <2> QED
    BY <2>1, SettledReady DEF IInv, LogInv
<1> QED
  BY <1>1, InvariantHolds, PTL

\* A handler writes nothing under a pair that its rank has matched.
LEMMA FrozenStep ==
  ASSUME IInv, Next, NEW r \in Ranks, NEW p \in paired[r], NEW s \in Sides
  PROVE  size'[p][s][r] = size[p][s][r] /\ layout'[p][s][r] = layout[p][s][r]
<1> PICK a \in Ranks :
      Dequeue(a) \/ Handle(a) \/ Loop(a) \/ Complete(a) \/ PeersTimeout(a)
  BY DEF Next
<1>t. TypeOK /\ HandlerInv
  BY DEF IInv
<1>0. p \in Pairs
  BY <1>t DEF TypeOK, LocalOK
<1>1. CASE Register(a)
  <2>1. ~(p = cmd[a].pair /\ r = a)
    BY <1>t, <1>1 DEF HandlerInv, Register, Handling
  <2>2. size'[p][s][r] = size[p][s][r]
    BY <1>t, <1>0, <1>1, <2>1, RegisterEffect, SMT
  <2> QED
    BY <1>1, <2>2, Zenon DEF Register
<1>2. CASE WriteLayout(a)
  <2>1. ~(p = cmd[a].pair /\ r = a)
    BY <1>t, <1>2 DEF HandlerInv, WriteLayout, Handling
  <2>2. /\ cmd[a].pair \in Pairs /\ cmd[a].side \in Sides
        /\ layout \in [Pairs -> [Sides -> [Ranks -> Layout]]]
    BY <1>t, <1>2, HandledCommand DEF WriteLayout, Handling, TypeOK, StoreOK
  <2>3. layout' = Updated(layout, cmd[a].pair, cmd[a].side, a, cmd[a].layout)
    BY <1>2, Zenon DEF WriteLayout, Updated
  <2>4. layout'[p][s][r] = layout[p][s][r]
    BY <1>0, <2>1, <2>2, <2>3, UpdatedAt, SMT
  <2> QED
    BY <1>2, <2>4, Zenon DEF WriteLayout
<1>3. CASE CompareSize(a) \/ ShareSize(a) \/ Attach(a)
  BY <1>3, Zenon DEF CompareSize, ShareSize, Attach, store
<1>4. CASE Dequeue(a) \/ Loop(a)
  BY <1>4, Zenon DEF Dequeue, Duplicate, Reject, Accept, Loop, Poll, AppendReady, SkipPair,
                     AppendEntry, MarkLogged, AppendDone, Consume, ConsumeDone, Idle, store
<1>5. CASE Complete(a) \/ PeersTimeout(a)
  BY <1>5, Zenon DEF Complete, Publish, PeersTimeout, Collect, Call, Matched, Fail, store
<1> QED
  BY <1>1, <1>2, <1>3, <1>4, <1>5 DEF Handle

\* In every world, a rank that has matched a pair never rewrites the registration
\* behind it: the duplicate path of _handle_init_pair writes no metadata, and a
\* handler that is past the check works on a pair that is not matched yet.
THEOREM RegistrationFrozen == Spec => MatchedIsFrozen
<1>1. IInv /\ [Next]_vars =>
        [\A r \in Ranks : \A p \in paired[r] : \A s \in Sides :
           /\ size'[p][s][r] = size[p][s][r]
           /\ layout'[p][s][r] = layout[p][s][r]]_vars
  BY FrozenStep
<1> QED
  BY <1>1, InvariantHolds, PTL DEF Spec, MatchedIsFrozen
=============================================================================

-------------------------- MODULE WeightSyncRounds --------------------------
(***************************************************************************)
(* What the receivers hold is whole, is asked for only while it is being   *)
(* sent, and is as new as the server says it is, for any number of trainer *)
(* and vLLM ranks, of rounds and of waits that time out.                   *)
(*                                                                         *)
(* RoundInv(m) counts, from the batch barriers that a rank has entered:    *)
(* every worker was asked to receive m times, rank 0 of the trainer has    *)
(* begun to send as often or once more.                                    *)
(***************************************************************************)
EXTENDS WeightSyncProofs

\* Most leaves are first-order: Zenon tries them before SMT.
USE ZenonT(3), SMTT(15)

\* Barriers of the batch that r has entered, two for every transfer.
Meetings(r) == entered[r]["batch"]

RecvQueued(v) == \E i \in DOMAIN inbox[v] : inbox[v][i].op = "recv"

\* The sends that t has begun.
Begun(t) == IF tpc[t] = "aligning" \/ SendQueued(t) THEN round[t] - 1 ELSE round[t]

\* The receive that v was last asked for has not got past its last batch barrier.
Behind(v) == RecvQueued(v) \/ pc[v] \in {"meet", "move", "leave"}

\* A rank is at most one barrier ahead of another one, and only if it waits there.
LockStep(r) ==
  \A q \in Agents : Meetings(q) >= IF pc[r] \in {"meet", "leave"} THEN Meetings(r) - 1 ELSE Meetings(r)

\* The k-th transfer of t carries version k.
SendRound(t) ==
  /\ Meetings(t) = 2 * Begun(t) - (IF pc[t] = "announced" THEN 2
                               ELSE IF pc[t] \in {"meet", "move"} THEN 1 ELSE 0)
  /\ tensor[t] = {round[t]}
  /\ \A k \in 1..Rounds : Meetings(t) \in {2 * k, 2 * k + 1} => cargo[t] = {k}

\* The k-th transfer to v brings version k; v was asked m times.
RecvRound(v, m) ==
  /\ Meetings(v) = 2 * m - (IF RecvQueued(v) THEN 2 ELSE IF pc[v] \in {"meet", "move"} THEN 1 ELSE 0)
  /\ \A k \in 0..Rounds : Meetings(v) \in {2 * k, 2 * k + 1} => tensor[v] = {k}
  /\ \A i, j \in DOMAIN inbox[v] : inbox[v][i].op = "recv" /\ inbox[v][j].op = "recv" => i = j
  /\ RecvQueued(v) => pc[v] \in {"idle", "cleared"}
  /\ spc \notin Early => entered[v]["local"] = IF Behind(v) THEN m ELSE m + 1
  /\ 2 * version <= Meetings(v)
  /\ ~gaveUp /\ (RecvQueued(v) \/ pc[v] \in Receiving) => spc = "recv" /\ got[v] = Unanswered

\* A worker has come out of its receive only when all are past their last batch barrier.
Fenced(v) == ~Behind(v) /\ pc[v] # "cleared" => \A w \in Receivers : ~Behind(w)

\* A receive may be asked for: rank 0 is sending, and no receive is under way.
MayAsk(m) == m < Begun(Rank0) /\ \A w \in Receivers : ~Behind(w)

RoundInv(m) ==
  /\ m <= Begun(Rank0)
  /\ spc \in Early => m = 0
  /\ \A r \in Agents : LockStep(r)
  /\ \A t \in Senders : SendRound(t)
  /\ \A v \in Receivers : RecvRound(v, m) /\ Fenced(v)
  /\ published <= version
  /\ spc = "recv" => version < m
  /\ signal = "1" /\ ~Behind(Least(Receivers)) => m < Begun(Rank0)
  /\ spc = "pause" => MayAsk(m)
  /\ spc = "query" => \A v \in Receivers : reply[v].value = 1 \/ got[v].value = 1 => MayAsk(m)

-----------------------------------------------------------------------------
(* Rounds: one agent moves *)

\* A version that is not ahead of half the barriers is not ahead of their round.
LEMMA NotAhead ==
  ASSUME NEW p \in Nat, NEW w \in Nat, NEW k \in Nat, NEW x \in {2 * k, 2 * k + 1}, p <= w, 2 * w <= x
  PROVE  p <= k
  BY SMTT(20)

\* After m rounds, a version below m may be counted.
LEMMA NextCounts ==
  ASSUME NEW m \in Nat, NEW w \in Nat, w < m
  PROVE  2 * (w + 1) <= 2 * m - 0
  BY SMTT(20)

\* A round that has begun is one of the rounds.
LEMMA InRounds ==
  ASSUME NEW m \in Nat, NEW b \in Int, m <= b, b <= Rounds
  PROVE  m \in 0..Rounds
  BY RoundsAssumption, SMTT(20)

\* Counts are numbers.
LEMMA RoundTypes ==
  ASSUME WeightTypes
  PROVE  /\ \A r \in Agents : Meetings(r) \in Nat /\ entered[r]["local"] \in Nat
         /\ \A t \in Senders : round[t] \in 0..Rounds /\ round[t] \in Int /\ Begun(t) \in Int /\ Begun(t) <= Rounds
<1>1. \A r \in Agents : entered[r]["batch"] \in Nat /\ entered[r]["local"] \in Nat
  BY SMTT(20) DEF WeightTypes, AgentTypes
<1>2. \A t \in Senders : round[t] \in 0..Rounds
  BY DEF WeightTypes, ClientTypes
<1>3. \A t \in Senders : round[t] \in Int /\ Begun(t) \in Int /\ Begun(t) <= Rounds
  BY <1>2, RoundsAssumption, SMTT(20) DEF Begun
<1> QED
  BY <1>1, <1>2, <1>3, Zenon DEF Meetings

\* So are the counts after a step.
LEMMA LaterMeetings ==
  ASSUME WeightTypes', NEW r \in Agents
  PROVE  Meetings(r)' \in Nat
  BY SMTT(20) DEF WeightTypes, AgentTypes, Meetings

\* Where nothing changes, the counts stay.
LEMMA SameCounts ==
  ASSUME NEW q \in Agents, Same(q)
  PROVE  /\ Meetings(q)' = Meetings(q) /\ (Behind(q)' <=> Behind(q)) /\ (RecvQueued(q)' <=> RecvQueued(q))
         /\ SendQueued(q)' <=> SendQueued(q)
  BY Zenon DEF Same, Meetings, Behind, RecvQueued, SendQueued

\* The account of a sender stays right where nothing changes.
LEMMA KeepSendRound ==
  ASSUME NEW t \in Senders, SendRound(t), Same(t), tpc'[t] = tpc[t], round'[t] = round[t]
  PROVE  Begun(t)' = Begun(t) /\ SendRound(t)'
<1>1. Begun(t)' = Begun(t)
  <2>1. SendQueued(t)' <=> SendQueued(t)
    BY SameCounts, Zenon DEF Agents
  <2> QED
    BY <2>1, Zenon DEF Begun
<1> QED
  BY <1>1, SMTT(20) DEF Same, SendRound, Meetings

\* The same of a receiver.
LEMMA KeepRecvRound ==
  ASSUME NEW m \in Nat, NEW v \in Receivers, RecvRound(v, m), Same(v),
         UNCHANGED <<spc, version, gaveUp>>, got'[v] = got[v]
  PROVE  RecvRound(v, m)'
<1>1. (Behind(v)' <=> Behind(v)) /\ (RecvQueued(v)' <=> RecvQueued(v)) /\ Meetings(v)' = Meetings(v)
  BY SameCounts, Zenon DEF Agents
<1> QED
  BY <1>1, SMTT(20) DEF RecvRound, Same

\* What one agent's step must not disturb.
LEMMA LockStepKept ==
  ASSUME WeightTypes, WeightTypes', NEW r \in Agents, \A q \in Agents : LockStep(q), LockStep(r)',
         Meetings(r)' >= Meetings(r), \A q \in Agents \ {r} : Same(q)
  PROVE  \A q \in Agents : LockStep(q)'
<1>1. SUFFICES ASSUME NEW q \in Agents, q # r PROVE LockStep(q)'
  BY Zenon
<1>2. Meetings(q)' = Meetings(q) /\ pc'[q] = pc[q] /\ LockStep(q)
  BY <1>1, SameCounts, Zenon DEF Same
<1>3. \A p \in Agents : Meetings(p) \in Nat /\ Meetings(p)' \in Nat /\ Meetings(p)' >= Meetings(p)
  <2>1. ASSUME NEW p \in Agents PROVE Meetings(p) \in Nat /\ Meetings(p)' \in Nat
    BY SMTT(20) DEF WeightTypes, AgentTypes, Meetings
  <2>2. ASSUME NEW p \in Agents, p # r PROVE Meetings(p)' = Meetings(p)
    <3>1. Same(p)
      BY <2>2
    <3> QED
      BY <3>1, SameCounts, Zenon
  <2> QED
    BY <2>1, <2>2, SMTT(20)
<1> QED
  BY <1>2, <1>3, SMTT(20) DEF LockStep

\* A sender's agent moves: it keeps its own account, and it raises the signal only
\* when it begins another send.
LEMMA SenderMoves ==
  ASSUME WeightTypes, WeightTypes', NEW m \in Nat, RoundInv(m), NEW t \in Senders,
         \A q \in Agents \ {t} : Same(q), UNCHANGED <<tpc, round, spc, got, version, published, gaveUp>>,
         LockStep(t)', Meetings(t)' >= Meetings(t), SendRound(t)', Begun(t)' >= Begun(t),
         signal' # signal => t = Rank0 /\ Begun(t)' > Begun(t)
  PROVE  RoundInv(m)'
<1>1. t \in Agents /\ \A v \in Receivers : v \in Agents /\ v # t /\ Same(v)
  BY SidesAssumption DEF Agents
<1>2. \A q \in Agents : LockStep(q)'
  BY <1>1, LockStepKept, Zenon DEF RoundInv
<1>3. \A q \in Senders \ {t} : Begun(q)' = Begun(q) /\ SendRound(q)'
  <2>1. SUFFICES ASSUME NEW q \in Senders, q # t PROVE Begun(q)' = Begun(q) /\ SendRound(q)'
    BY Zenon
  <2>2. Same(q) /\ SendRound(q) /\ tpc'[q] = tpc[q] /\ round'[q] = round[q]
    BY <2>1, Zenon DEF Agents, RoundInv
  <2> QED
    BY <2>2, KeepSendRound, Zenon
<1>4. \A v \in Receivers : RecvRound(v, m)'
  <2>1. SUFFICES ASSUME NEW v \in Receivers PROVE RecvRound(v, m)'
    BY Zenon
  <2>2. RecvRound(v, m) /\ got'[v] = got[v]
    BY Zenon DEF RoundInv
  <2> QED
    BY <1>1, <2>2, KeepRecvRound, Zenon
<1>5. \A v \in Receivers : (Behind(v)' <=> Behind(v)) /\ pc'[v] = pc[v] /\ reply'[v] = reply[v]
  BY <1>1, SameCounts, Zenon DEF Same
<1>6. \A v \in Receivers : Fenced(v)'
  BY <1>5, Zenon DEF RoundInv, Fenced
<1>7. Rank0 \in Senders /\ Least(Receivers) \in Receivers /\ Begun(Rank0) \in Int /\ Begun(Rank0)' \in Int
  <2>1. Rank0 \in Senders /\ Least(Receivers) \in Receivers
    BY Leaders, Zenon
  <2>2. Begun(Rank0) \in Int
    BY <2>1, RoundTypes, Zenon
  <2>3. Begun(Rank0)' \in Int
    BY <2>1, RoundsAssumption, SMTT(20) DEF WeightTypes, ClientTypes, Begun
  <2> QED
    BY <2>1, <2>2, <2>3
<1>8. Begun(Rank0)' >= Begun(Rank0) /\ (signal' = signal \/ Begun(Rank0)' > Begun(Rank0))
  <2>1. CASE t = Rank0
    BY <2>1
  <2>2. CASE t # Rank0
    BY <1>3, <1>7, <2>2, SMTT(20)
  <2> QED
    BY <2>1, <2>2
<1>9. MayAsk(m) => MayAsk(m)'
  <2>1. m < Begun(Rank0) => m < Begun(Rank0)'
    BY <1>7, <1>8, SMTT(20)
  <2> QED
    BY <1>5, <2>1, Zenon DEF MayAsk
<1>10. m <= Begun(Rank0)' /\ (signal' = "1" /\ ~Behind(Least(Receivers))' => m < Begun(Rank0)')
  <2>1. m <= Begun(Rank0) /\ (signal = "1" /\ ~Behind(Least(Receivers)) => m < Begun(Rank0))
    BY DEF RoundInv
  <2>2. Behind(Least(Receivers))' <=> Behind(Least(Receivers))
    BY <1>5, <1>7, Zenon
  <2> QED
    BY <1>7, <1>8, <2>1, <2>2, SMTT(20)
<1>11. \A q \in Senders : SendRound(q)'
  BY <1>3, Zenon
<1> QED
  BY <1>2, <1>4, <1>5, <1>6, <1>9, <1>10, <1>11, Zenon DEF RoundInv

\* A worker's agent moves: it keeps its own account, comes out of a receive only with
\* all the others, and the leader leaves the last batch barrier with the signal cleared.
LEMMA ReceiverMoves ==
  ASSUME WeightTypes, WeightTypes', NEW m \in Nat, RoundInv(m), NEW v \in Receivers,
         \A q \in Agents \ {v} : Same(q), UNCHANGED <<tpc, round, spc, got, version, published, gaveUp>>,
         LockStep(v)', Meetings(v)' >= Meetings(v), RecvRound(v, m)', Behind(v)' => Behind(v),
         ~Behind(v)' /\ pc'[v] # "cleared" => \A w \in Receivers : ~Behind(w),
         signal' # signal => signal' = "0",
         Behind(v) /\ ~Behind(v)' /\ v = Least(Receivers) => signal' = "0",
         spc = "query" /\ reply'[v].value = 1 => reply[v].value = 1 \/ MayAsk(m)
  PROVE  RoundInv(m)'
<1>1. v \in Agents /\ \A t \in Senders : t \in Agents /\ t # v /\ Same(t)
  BY SidesAssumption DEF Agents
<1>2. \A q \in Agents : LockStep(q)'
  BY <1>1, LockStepKept, Zenon DEF RoundInv
<1>3. \A t \in Senders : Begun(t)' = Begun(t) /\ SendRound(t)'
  <2>1. SUFFICES ASSUME NEW t \in Senders PROVE Begun(t)' = Begun(t) /\ SendRound(t)'
    BY Zenon
  <2>2. Same(t) /\ SendRound(t) /\ tpc'[t] = tpc[t] /\ round'[t] = round[t]
    BY <1>1, Zenon DEF RoundInv
  <2> QED
    BY <2>2, KeepSendRound, Zenon
<1>4. \A w \in Receivers : w # v => Same(w)
  BY DEF Agents
<1>5. \A w \in Receivers : RecvRound(w, m)'
  <2>1. SUFFICES ASSUME NEW w \in Receivers, w # v PROVE RecvRound(w, m)'
    BY Zenon
  <2>2. RecvRound(w, m) /\ got'[w] = got[w] /\ Same(w)
    BY <1>4, <2>1, Zenon DEF RoundInv
  <2> QED
    BY <2>2, KeepRecvRound, Zenon
<1>6. \A w \in Receivers : w # v => (Behind(w)' <=> Behind(w)) /\ pc'[w] = pc[w] /\ reply'[w] = reply[w]
  <2>1. SUFFICES ASSUME NEW w \in Receivers, w # v
                 PROVE  (Behind(w)' <=> Behind(w)) /\ pc'[w] = pc[w] /\ reply'[w] = reply[w]
    BY Zenon
  <2>2. Same(w) /\ w \in Agents
    BY <1>4, <2>1 DEF Agents
  <2> QED
    BY <2>2, SameCounts, Zenon DEF Same
<1>7. \A w \in Receivers : Behind(w)' => Behind(w)
  BY <1>6, Zenon
<1>8. \A w \in Receivers : Fenced(w)'
  <2>1. SUFFICES ASSUME NEW w \in Receivers, ~Behind(w)', pc'[w] # "cleared"
                 PROVE  \A u \in Receivers : ~Behind(u)
    BY <1>7, Zenon DEF Fenced
  <2>2. CASE w = v
    BY <2>1, <2>2, Zenon
  <2>3. CASE w # v
    BY <1>6, <2>1, <2>3, Zenon DEF RoundInv, Fenced
  <2> QED
    BY <2>2, <2>3
<1>9. Begun(Rank0)' = Begun(Rank0)
  BY <1>3, Leaders, Zenon
<1>10. MayAsk(m) => MayAsk(m)'
  BY <1>7, <1>9, Zenon DEF MayAsk
<1>11. signal' = "1" /\ ~Behind(Least(Receivers))' => m < Begun(Rank0)'
  <2>1. SUFFICES ASSUME signal' = "1", ~Behind(Least(Receivers))' PROVE m < Begun(Rank0)
    BY <1>9, Zenon
  <2>2. signal = "1"
    BY <2>1
  <2>3. ~Behind(Least(Receivers))
    <3>1. CASE v = Least(Receivers)
      BY <2>1, <3>1
    <3>2. CASE v # Least(Receivers)
      BY <1>6, <2>1, <3>2, Leaders, Zenon
    <3> QED
      BY <3>1, <3>2
  <2> QED
    BY <2>2, <2>3, Zenon DEF RoundInv
<1>12. spc' = "query" => \A w \in Receivers : reply'[w].value = 1 \/ got'[w].value = 1 => MayAsk(m)'
  <2>1. SUFFICES ASSUME spc = "query", NEW w \in Receivers, reply'[w].value = 1 \/ got[w].value = 1
                 PROVE  MayAsk(m)
    BY <1>10, Zenon
  <2>2. reply[w].value = 1 \/ got[w].value = 1 \/ MayAsk(m)
    BY <1>6, <2>1, Zenon
  <2> QED
    BY <2>1, <2>2, Zenon DEF RoundInv
<1> QED
  BY <1>2, <1>3, <1>5, <1>8, <1>9, <1>10, <1>11, <1>12, Zenon DEF RoundInv

\* A step of r within its account: where it stood in a transfer, it still stands.
LEMMA SenderStays ==
  ASSUME WeightTypes, WeightTypes', NEW m \in Nat, RoundInv(m), NEW t \in Senders,
         \A q \in Agents \ {t} : Same(q), UNCHANGED <<tpc, round, spc, got, version, published, gaveUp, signal>>,
         Meetings(t)' = Meetings(t), tensor'[t] = tensor[t], cargo'[t] = cargo[t],
         SendQueued(t)' <=> SendQueued(t),
         pc[t] \notin Sending, pc'[t] \notin Sending
  PROVE  RoundInv(m)'
<1>1. t \in Agents /\ Begun(t)' = Begun(t) /\ SendRound(t) /\ LockStep(t)
  BY Zenon DEF Agents, Begun, RoundInv
<1>2. pc[t] \notin {"announced", "meet", "move", "leave"} /\ pc'[t] \notin {"announced", "meet", "move", "leave"}
  BY DEF Sending
<1>3. SendRound(t)'
  BY <1>1, <1>2, SMTT(20) DEF SendRound
<1>4. \A q \in Agents : Meetings(q)' = Meetings(q)
  <2>1. SUFFICES ASSUME NEW q \in Agents, q # t PROVE Meetings(q)' = Meetings(q)
    BY Zenon
  <2> QED
    BY <2>1, SameCounts, Zenon
<1>5. LockStep(t)'
  BY <1>1, <1>2, <1>4 DEF LockStep
<1>6. Meetings(t)' >= Meetings(t) /\ Begun(t)' >= Begun(t)
  BY <1>1, RoundTypes, SMTT(20)
<1> QED
  BY <1>3, <1>5, <1>6, SenderMoves, Zenon

\* A step of a receiver outside a transfer.
LEMMA ReceiverStays ==
  ASSUME WeightTypes, WeightTypes', NEW m \in Nat, RoundInv(m), NEW v \in Receivers,
         \A q \in Agents \ {v} : Same(q), UNCHANGED <<tpc, round, spc, got, version, published, gaveUp, signal>>,
         Meetings(v)' = Meetings(v), tensor'[v] = tensor[v], RecvQueued(v)' <=> RecvQueued(v),
         \A i, j \in DOMAIN inbox'[v] : inbox'[v][i].op = "recv" /\ inbox'[v][j].op = "recv" => i = j,
         pc[v] \notin Receiving, pc'[v] \notin Receiving, RecvQueued(v) => pc'[v] = "idle",
         spc \notin Early => entered'[v] = entered[v],
         spc = "query" /\ reply'[v].value = 1 => reply[v].value = 1 \/ MayAsk(m)
  PROVE  RoundInv(m)'
<1>1. v \in Agents /\ RecvRound(v, m) /\ LockStep(v) /\ Fenced(v)
  BY Zenon DEF Agents, RoundInv
<1>2. pc[v] \notin {"meet", "move", "leave", "cleared"} /\ pc'[v] \notin {"meet", "move", "leave", "cleared"}
  BY DEF Receiving
<1>3. Behind(v)' <=> Behind(v)
  BY <1>2, Zenon DEF Behind
<1>4. RecvRound(v, m)'
  BY <1>1, <1>2, <1>3, SMTT(20) DEF RecvRound, Receiving
<1>5. \A q \in Agents : Meetings(q)' = Meetings(q)
  <2>1. SUFFICES ASSUME NEW q \in Agents, q # v PROVE Meetings(q)' = Meetings(q)
    BY Zenon
  <2> QED
    BY <2>1, SameCounts, Zenon
<1>6. LockStep(v)'
  BY <1>1, <1>2, <1>5 DEF LockStep
<1>7. Meetings(v)' >= Meetings(v)
  BY <1>1, RoundTypes, SMTT(20)
<1>8. ~Behind(v)' /\ pc'[v] # "cleared" => \A w \in Receivers : ~Behind(w)
  BY <1>1, <1>2, <1>3, Zenon DEF Fenced
<1> QED
  BY <1>3, <1>4, <1>6, <1>7, <1>8, ReceiverMoves, Zenon

\* Registration is no part of a round.
LEMMA RegisterRounds ==
  ASSUME WeightTypes, ClientsInv, WeightTypes', NEW m \in Nat, RoundInv(m), NEW r \in Agents,
         StartRegister(r) \/ Gathered(r) \/ Registered(r), \A q \in Agents \ {r} : Same(q),
         UNCHANGED <<tpc, round, spc, got, version, published, gaveUp>>
  PROVE  RoundInv(m)'
<1>1. UNCHANGED <<signal, tensor, cargo>>
  BY Zenon DEF StartRegister, Gathered, Registered
<1>2. /\ DOMAIN inbox'[r] = {} /\ inbox'[r] = <<>>
      /\ \A i \in DOMAIN inbox[r] : inbox[r][i].op = "register"
      /\ inbox[r] # <<>> => inbox[r][1].op = "register"
      /\ r \in Receivers => spc = "setup"
  <2>1. DOMAIN <<>> = {}
    BY SMTT(20)
  <2>2. CASE StartRegister(r)
    <3>1. /\ 1 \in DOMAIN inbox[r] /\ inbox[r][1].op = "register" /\ DOMAIN inbox[r] = 1..Len(inbox[r])
          /\ Len(inbox[r]) = 1 => inbox'[r] = <<>>
      BY <2>2, Taken DEF StartRegister
    <3>2. Len(inbox[r]) = 1
      <4>1. CASE r \in Senders
        BY <3>1, <4>1 DEF ClientsInv, SenderInv, SenderCommand
      <4>2. CASE r \in Receivers
        BY <3>1, <4>2, SMTT(20) DEF ClientsInv, WorkerInv, WorkerCommand
      <4> QED
        BY <4>1, <4>2 DEF Agents
    <3>3. DOMAIN inbox[r] = {1}
      BY <3>1, <3>2, SMTT(20)
    <3>4. r \in Receivers => spc = "setup"
      BY <3>1, Zenon DEF ClientsInv, WorkerInv, WorkerCommand
    <3> QED
      BY <2>1, <3>1, <3>2, <3>3, <3>4
  <2>3. CASE Gathered(r) \/ Registered(r)
    <3>1. inbox' = inbox /\ pc[r] \in Registering
      BY <2>3 DEF Gathered, Registered, Registering
    <3>2. inbox[r] = <<>> /\ (r \in Receivers => spc = "setup")
      BY <3>1, OnlyRegisters, Zenon
    <3> QED
      BY <2>1, <3>1, <3>2
  <2> QED
    BY <2>2, <2>3
<1>3. ~SendQueued(r) /\ ~SendQueued(r)' /\ ~RecvQueued(r) /\ ~RecvQueued(r)'
  BY <1>2 DEF SendQueued, RecvQueued
<1>4. /\ pc[r] \in {"idle"} \cup Registering /\ pc'[r] \in {"idle"} \cup Registering
      /\ r \in Receivers /\ reply'[r].value = 1 => spc # "query"
      /\ Meetings(r)' = Meetings(r)
  <2>1. pc[r] \in {"idle"} \cup Registering
    BY DEF StartRegister, Gathered, Registered, Take, Idle, Registering
  <2>2. pc'[r] \in {"idle"} \cup Registering
    <3>1. pc' = [pc EXCEPT ![r] = "gather"] \/ pc' = [pc EXCEPT ![r] = "swap1"]
          \/ pc' = [pc EXCEPT ![r] = "dtype"] \/ pc' = [pc EXCEPT ![r] = "idle"]
      BY Zenon DEF StartRegister, Gathered, Registered, Begin, Answer, AnswerTo
    <3>2. pc'[r] \in {"gather", "swap1", "dtype", "idle"}
      BY <3>1 DEF WeightTypes, AgentTypes
    <3> QED
      BY <3>2 DEF Registering
  <2>3. r \in Receivers /\ reply'[r].value = 1 => spc # "query"
    BY <1>2
  <2>4. Meetings(r)' = Meetings(r)
    <3>1. entered' = entered \/ Enter(r, "local")
      BY Zenon DEF StartRegister, Gathered, Registered
    <3> QED
      BY <3>1, SMTT(20) DEF Enter, Meetings, WeightTypes, AgentTypes
  <2> QED
    BY <2>1, <2>2, <2>3, <2>4
<1>5. pc[r] \notin Sending \cup Receiving /\ pc'[r] \notin Sending \cup Receiving
  BY <1>4 DEF Registering, Sending, Receiving
<1>6. CASE r \in Senders
  BY <1>1, <1>3, <1>4, <1>5, <1>6, SenderStays, Zenon
<1>7. CASE r \in Receivers
  <2>1. spc \in Early /\ spc # "query"
    BY <1>2, <1>7 DEF Early
  <2>2. \A i, j \in DOMAIN inbox'[r] : inbox'[r][i].op = "recv" /\ inbox'[r][j].op = "recv" => i = j
    BY <1>2, Zenon
  <2> QED
    BY <1>1, <1>3, <1>4, <1>5, <1>7, <2>1, <2>2, ReceiverStays, Zenon
<1> QED
  BY <1>6, <1>7 DEF Agents

\* A query sees the signal of a send that has not been received yet, or is not heard.
LEMMA QueryRounds ==
  ASSUME WeightTypes, ClientsInv, WeightTypes', NEW m \in Nat, RoundInv(m), NEW r \in Agents,
         QuerySignal(r), \A q \in Agents \ {r} : Same(q),
         UNCHANGED <<case, tpc, round, spc, got, version, published, gaveUp>>
  PROVE  RoundInv(m)'
<1>1. UNCHANGED <<entered, signal, tensor, cargo>> /\ Take(r) /\ Head(inbox[r]).op = "query"
  BY Zenon DEF QuerySignal
<1>2. /\ r \in Receivers /\ pc[r] = "idle" /\ pc'[r] = "idle"
      /\ inbox[r][1].heard => inbox'[r] = <<>> /\ Len(inbox[r]) = 1 /\ spc = "query"
      /\ ~inbox[r][1].heard => reply'[r] = reply[r]
  BY QueryLocal, Zenon
<1>3. /\ Head(inbox[r]) = inbox[r][1] /\ inbox[r][1].op = "query" /\ inbox[r][1] \in Commands
      /\ DOMAIN inbox[r] = 1..Len(inbox[r]) /\ Len(inbox[r]) \in Nat
      /\ DOMAIN inbox'[r] = 1..(Len(inbox[r]) - 1)
      /\ \A i \in DOMAIN inbox'[r] : i + 1 \in DOMAIN inbox[r] /\ inbox'[r][i] = inbox[r][i + 1]
  BY <1>1, Taken, Zenon
<1>4. RecvRound(r, m) /\ Fenced(r) /\ r \in Agents
  BY <1>2, Zenon DEF RoundInv
<1>5. RecvQueued(r)' <=> RecvQueued(r)
  <2>1. ASSUME NEW i \in DOMAIN inbox[r], inbox[r][i].op = "recv"
        PROVE  \E j \in DOMAIN inbox'[r] : inbox'[r][j].op = "recv"
    <3>1. i # 1
      BY <1>3, <2>1
    <3>2. i - 1 \in DOMAIN inbox'[r] /\ (i - 1) + 1 = i
      BY <1>3, <3>1, SMTT(20)
    <3> QED
      BY <1>3, <2>1, <3>2, Zenon
  <2> QED
    BY <1>3, <2>1, Zenon DEF RecvQueued
<1>6. \A i, j \in DOMAIN inbox'[r] : inbox'[r][i].op = "recv" /\ inbox'[r][j].op = "recv" => i = j
  <2>1. SUFFICES ASSUME NEW i \in DOMAIN inbox'[r], NEW j \in DOMAIN inbox'[r],
                        inbox'[r][i].op = "recv", inbox'[r][j].op = "recv"
                 PROVE  i = j
    BY Zenon
  <2>2. i + 1 = j + 1
    BY <1>3, <1>4, <2>1, Zenon DEF RecvRound
  <2>3. i \in Int /\ j \in Int
    BY <1>3, SMTT(20)
  <2> QED
    BY <2>2, <2>3, SMTT(20)
<1>7. spc = "query" /\ reply'[r].value = 1 => reply[r].value = 1 \/ MayAsk(m)
  <2>1. SUFFICES ASSUME inbox[r][1].heard, reply'[r].value = 1 PROVE MayAsk(m)
    BY <1>2, Zenon
  <2>2. Len(inbox[r]) = 1
    BY <1>2, <2>1, Zenon
  <2>3. ~RecvQueued(r)
    <3>1. DOMAIN inbox[r] = {1}
      BY <1>3, <2>2, SMTT(20)
    <3> QED
      BY <1>3, <3>1 DEF RecvQueued
  <2>4. \A w \in Receivers : ~Behind(w)
    BY <1>2, <1>4, <2>3 DEF Fenced, Behind
  <2>5. signal = "1"
    <3>1. reply' = [reply EXCEPT ![r] = [ok |-> TRUE, value |-> IF Known(r, Head(inbox[r])) /\ signal = "1" THEN 1 ELSE 0]]
      BY <1>3, <2>1, Zenon DEF QuerySignal, AnswerTo
    <3>2. reply'[r].value = IF Known(r, Head(inbox[r])) /\ signal = "1" THEN 1 ELSE 0
      BY <1>4, <3>1 DEF WeightTypes, AgentTypes
    <3> QED
      BY <2>1, <3>2
  <2>6. ~Behind(Least(Receivers))
    BY <2>4, Leaders, Zenon
  <2> QED
    BY <2>4, <2>5, <2>6, Zenon DEF RoundInv, MayAsk
<1>8. pc[r] \notin Receiving /\ pc'[r] \notin Receiving /\ (RecvQueued(r) => pc'[r] = "idle")
  BY <1>2 DEF Receiving
<1>9. Meetings(r)' = Meetings(r) /\ entered'[r] = entered[r] /\ tensor'[r] = tensor[r]
  BY <1>1, Zenon DEF Meetings
<1> QED
  BY <1>1, <1>2, <1>5, <1>6, <1>7, <1>8, <1>9, ReceiverStays, Zenon

\* Dropping the batch does not disturb the account.
LEMMA CleanupRounds ==
  ASSUME WeightTypes, ClientsInv, WeightTypes', NEW m \in Nat, RoundInv(m), NEW r \in Agents,
         CleanupBatch(r), \A q \in Agents \ {r} : Same(q),
         UNCHANGED <<case, tpc, round, spc, got, version, published, gaveUp>>
  PROVE  RoundInv(m)'
<1>1. UNCHANGED <<entered, signal, tensor, cargo>> /\ pc[r] = "idle"
  BY Zenon DEF CleanupBatch, Take, Idle
<1>2. r \in Senders /\ inbox'[r] = <<>> /\ inbox[r][1].op = "cleanup"
  BY CleanupLocal, Zenon
<1>3. pc'[r] = "idle"
  BY Zenon DEF CleanupBatch, AnswerTo, WeightTypes, AgentTypes
<1>4. ~SendQueued(r) /\ ~SendQueued(r)'
  BY <1>2 DEF SendQueued
<1>5. pc[r] \notin Sending /\ pc'[r] \notin Sending
  BY <1>1, <1>3 DEF Sending
<1>6. Meetings(r)' = Meetings(r) /\ tensor'[r] = tensor[r] /\ cargo'[r] = cargo[r]
  BY <1>1, Zenon DEF Meetings
<1> QED
  BY <1>1, <1>2, <1>4, <1>5, <1>6, SenderStays, Zenon

\* A rank enters a batch barrier, or gets past one.
LEMMA LockStepEnter ==
  ASSUME WeightTypes, WeightTypes', NEW r \in Agents, LockStep(r), \A q \in Agents \ {r} : Same(q),
         pc[r] \notin {"meet", "leave"}, pc'[r] \in {"meet", "leave"}, Meetings(r)' = Meetings(r) + 1
  PROVE  LockStep(r)' /\ Meetings(r)' >= Meetings(r)
<1>1. \A q \in Agents : Meetings(q) \in Nat
  BY RoundTypes, Zenon
<1>2. ASSUME NEW q \in Agents PROVE Meetings(q)' \in Nat /\ Meetings(q)' >= Meetings(q)
  <2>1. CASE q = r
    BY <1>1, <2>1, SMTT(20)
  <2>2. CASE q # r
    <3>1. Meetings(q)' = Meetings(q)
      BY <2>2, SameCounts, Zenon
    <3> QED
      BY <1>1, <3>1, SMTT(20)
  <2> QED
    BY <2>1, <2>2
<1> QED
  BY <1>1, <1>2, SMTT(20) DEF LockStep

\* A rank passes a batch barrier.
LEMMA LockStepPass ==
  ASSUME WeightTypes, WeightTypes', NEW r \in Agents, Passed(r, "batch"), \A q \in Agents \ {r} : Same(q),
         Meetings(r)' = Meetings(r)
  PROVE  LockStep(r)' /\ Meetings(r)' >= Meetings(r)
<1>1. \A q \in Agents : Meetings(q) \in Nat
  BY RoundTypes, Zenon
<1>2. ASSUME NEW q \in Agents PROVE Meetings(q)' = Meetings(q)
  BY SameCounts, Zenon
<1>3. \A q \in Agents : Meetings(q) >= Meetings(r)
  BY DEF Passed, GroupOf, Meetings
<1> QED
  BY <1>1, <1>2, <1>3, SMTT(20) DEF LockStep

\* Nothing of a round changes but where r is.
LEMMA LockStepStay ==
  ASSUME WeightTypes, WeightTypes', NEW r \in Agents, LockStep(r), \A q \in Agents \ {r} : Same(q),
         pc[r] \notin {"meet", "leave"}, pc'[r] \notin {"meet", "leave"}, Meetings(r)' = Meetings(r)
  PROVE  LockStep(r)' /\ Meetings(r)' >= Meetings(r)
<1>1. \A q \in Agents : Meetings(q) \in Nat
  BY RoundTypes, Zenon
<1>2. ASSUME NEW q \in Agents PROVE Meetings(q)' = Meetings(q)
  BY SameCounts, Zenon
<1> QED
  BY <1>1, <1>2, SMTT(20) DEF LockStep

\* A rank enters a batch barrier.
LEMMA Entering ==
  ASSUME WeightTypes, NEW r \in Agents
  PROVE  /\ Enter(r, "batch") => /\ Meetings(r)' = Meetings(r) + 1
                                 /\ entered'[r]["local"] = entered[r]["local"]
         /\ Enter(r, "local") => /\ Meetings(r)' = Meetings(r)
                                 /\ entered'[r]["local"] = entered[r]["local"] + 1
         /\ entered' = entered => /\ Meetings(r)' = Meetings(r)
                                  /\ entered'[r]["local"] = entered[r]["local"]
<1>1. AgentTypes /\ "local" \in {"local", "batch"} /\ "batch" \in {"local", "batch"}
  BY DEF WeightTypes
<1>2. "local" # "batch"
  OBVIOUS
<1> QED
  BY <1>1, <1>2, EnterTypes, Zenon DEF Meetings

\* A sender in a transfer has begun the round that its trainer is in.
LEMMA SendingRound ==
  ASSUME WeightTypes, ClientsInv, NEW t \in Senders, pc[t] \in Sending
  PROVE  /\ ~SendQueued(t) /\ Begun(t) = round[t] /\ tpc[t] # "aligning"
         /\ doing[t].op = "send"
<1>1. /\ t \in Agents /\ doing[t].op = "send" /\ tpc[t] \in {"sending", "failed", "closed"}
      /\ \A i \in DOMAIN inbox[t] : inbox[t][i].op = "cleanup"
  <2>1. t \in Agents /\ pc[t] \in Sending \cup Receiving
    BY DEF Agents
  <2> QED
    BY <2>1, InTransfer, SMTT(20)
<1>2. ~SendQueued(t)
  <2>1. SUFFICES ASSUME inbox[t] # <<>> PROVE inbox[t][1].op # "send"
    BY DEF SendQueued
  <2>2. inbox[t] \in Seq(Commands)
    BY <1>1 DEF WeightTypes, AgentTypes
  <2>3. 1 \in DOMAIN inbox[t]
    BY <2>1, <2>2, SMTT(20)
  <2> QED
    BY <1>1, <2>3
<1> QED
  BY <1>1, <1>2 DEF Begun

\* The send of a round begins.
LEMMA StartSendRounds ==
  ASSUME WeightTypes, ClientsInv, WeightTypes', NEW m \in Nat, RoundInv(m), NEW r \in Agents,
         StartSend(r), \A q \in Agents \ {r} : Same(q),
         UNCHANGED <<case, tpc, round, spc, got, version, published, gaveUp>>
  PROVE  RoundInv(m)'
<1>1. /\ r \in Senders /\ Known(r, Head(inbox[r])) /\ SendQueued(r) /\ ~SendQueued(r)'
      /\ pc[r] = "idle" /\ pc'[r] = "announced"
  BY StartSendLocal, Zenon
<1>2. /\ Enter(r, "local") /\ UNCHANGED <<tensor, cargo>>
      /\ signal' = IF r = Leader(r) THEN "1" ELSE signal
  BY <1>1, Zenon DEF StartSend
<1>3. Meetings(r)' = Meetings(r)
  BY <1>2, Entering, Zenon
<1>4. LockStep(r) /\ SendRound(r)
  BY <1>1, Zenon DEF RoundInv
<1>5. LockStep(r)' /\ Meetings(r)' >= Meetings(r)
  <2>1. pc[r] \notin {"meet", "leave"} /\ pc'[r] \notin {"meet", "leave"}
    BY <1>1
  <2> QED
    BY <1>3, <1>4, <2>1, LockStepStay, Zenon
<1>6. tpc[r] # "aligning"
  <2>1. 1 \in DOMAIN inbox[r]
    BY Taken DEF StartSend
  <2>2. SenderCommand(r, 1)
    BY <1>1, <2>1, Zenon DEF ClientsInv, SenderInv
  <2> QED
    BY <1>1, <2>2 DEF SendQueued, SenderCommand
<1>7. Begun(r) = round[r] - 1 /\ Begun(r)' = round[r] /\ round[r] \in Int
  <2>1. round[r] \in Int
    BY <1>1, RoundTypes, Zenon
  <2> QED
    BY <1>1, <1>6, <2>1 DEF Begun
<1>8. SendRound(r)'
  BY <1>1, <1>2, <1>3, <1>4, <1>7, SMTT(20) DEF SendRound
<1>9. Begun(r)' > Begun(r) /\ Begun(r)' >= Begun(r)
  BY <1>7, SMTT(20)
<1>10. signal' # signal => r = Rank0
  BY <1>1, <1>2 DEF Leader, SideOf, Rank0
<1> QED
  BY <1>1, <1>5, <1>8, <1>9, <1>10, SenderMoves, Zenon

\* A sender goes through a transfer.
LEMMA SendRounds ==
  ASSUME WeightTypes, ClientsInv, WeightTypes', NEW m \in Nat, RoundInv(m), NEW r \in Senders,
         Announced(r) \/ Met(r) \/ Moved(r) \/ Leave(r), \A q \in Agents \ {r} : Same(q),
         UNCHANGED <<case, tpc, round, spc, got, version, published, gaveUp>>
  PROVE  RoundInv(m)'
<1>1. r \in Agents /\ LockStep(r) /\ SendRound(r) /\ Meetings(r) \in Nat /\ round[r] \in Int
  BY RoundTypes, Zenon DEF Agents, RoundInv
<1>2. pc[r] \in Sending
  <2>1. pc[r] \in Sending \cup Receiving
    BY DEF Announced, Met, Moved, Leave, Sending, Receiving
  <2> QED
    BY <1>1, <2>1, InTransfer, Zenon
<1>3. ~SendQueued(r) /\ Begun(r) = round[r] /\ doing[r].op = "send" /\ tpc[r] # "aligning"
  BY <1>2, SendingRound, Zenon
<1>4. UNCHANGED <<inbox, signal, tensor>>
  BY <1>3 DEF Announced, Met, Moved, Leave
<1>5. Begun(r)' = Begun(r)
  BY <1>4, Zenon DEF Begun, SendQueued
<1>6. LockStep(r)' /\ Meetings(r)' >= Meetings(r) /\ SendRound(r)'
  <2>1. CASE Announced(r)
    <3>1. pc[r] = "announced" /\ pc'[r] = "meet" /\ Meetings(r)' = Meetings(r) + 1 /\ cargo' = cargo
      BY <1>1, <2>1, Entering, Zenon DEF Announced, WeightTypes, AgentTypes
    <3>2. pc[r] \notin {"meet", "leave"} /\ pc'[r] \in {"meet", "leave"}
      BY <3>1
    <3>3. LockStep(r)' /\ Meetings(r)' >= Meetings(r)
      BY <1>1, <3>1, <3>2, LockStepEnter, Zenon
    <3>4. Meetings(r) = 2 * round[r] - 2 /\ Meetings(r)' = 2 * round[r] - 1
      BY <1>1, <1>3, <3>1, SMTT(20) DEF SendRound
    <3>5. \A k \in 1..Rounds : Meetings(r)' \in {2 * k, 2 * k + 1} => Meetings(r) \in {2 * k, 2 * k + 1}
      BY <1>1, <3>4, SMTT(20)
    <3>6. \A k \in 1..Rounds : Meetings(r)' \in {2 * k, 2 * k + 1} => cargo'[r] = {k}
      BY <1>1, <3>1, <3>5, Zenon DEF SendRound
    <3>7. tensor'[r] = {round'[r]}
      BY <1>1, <1>4, Zenon DEF SendRound
    <3>8. Meetings(r)' = 2 * Begun(r)' - (IF pc'[r] = "announced" THEN 2
                               ELSE IF pc'[r] \in {"meet", "move"} THEN 1 ELSE 0)
      BY <1>3, <1>5, <3>1, <3>4
    <3> QED
      BY <3>3, <3>6, <3>7, <3>8, Zenon DEF SendRound
  <2>2. CASE Met(r)
    <3>1. pc[r] = "meet" /\ pc'[r] = "move" /\ Meetings(r)' = Meetings(r) /\ cargo' = cargo /\ Passed(r, "batch")
      BY <1>1, <2>2, Entering, Zenon DEF Met, WeightTypes, AgentTypes
    <3>2. LockStep(r)' /\ Meetings(r)' >= Meetings(r)
      BY <1>1, <3>1, LockStepPass, Zenon
    <3>3. pc[r] # "announced" /\ pc'[r] # "announced" /\ pc[r] \in {"meet", "move"} /\ pc'[r] \in {"meet", "move"}
      BY <3>1
    <3>4. Meetings(r)' = 2 * Begun(r)' - 1
      BY <1>1, <1>5, <3>1, <3>3, Zenon DEF SendRound
    <3> QED
      BY <1>1, <1>4, <3>1, <3>2, <3>3, <3>4, Zenon DEF SendRound
  <2>3. CASE Moved(r)
    <3>1. pc[r] = "move" /\ pc'[r] = "leave" /\ Meetings(r)' = Meetings(r) + 1
      BY <1>1, <2>3, Entering, Zenon DEF Moved, WeightTypes, AgentTypes
    <3>2. cargo'[r] = tensor[r]
      BY <1>1, <1>3, <2>3 DEF Moved, WeightTypes, AgentTypes
    <3>3. pc[r] \notin {"meet", "leave"} /\ pc'[r] \in {"meet", "leave"}
      BY <3>1
    <3>4. LockStep(r)' /\ Meetings(r)' >= Meetings(r)
      BY <1>1, <3>1, <3>3, LockStepEnter, Zenon
    <3>5. Meetings(r) = 2 * round[r] - 1 /\ Meetings(r)' = 2 * round[r]
      BY <1>1, <1>3, <3>1, SMTT(20) DEF SendRound
    <3>6. \A k \in 1..Rounds : Meetings(r)' \in {2 * k, 2 * k + 1} => k = round[r]
      BY <1>1, <3>5, SMTT(20)
    <3>7. tensor'[r] = {round'[r]} /\ tensor[r] = {round[r]}
      BY <1>1, <1>4, Zenon DEF SendRound
    <3>8. \A k \in 1..Rounds : Meetings(r)' \in {2 * k, 2 * k + 1} => cargo'[r] = {k}
      BY <3>2, <3>6, <3>7, Zenon
    <3>9. Meetings(r)' = 2 * Begun(r)' - (IF pc'[r] = "announced" THEN 2
                               ELSE IF pc'[r] \in {"meet", "move"} THEN 1 ELSE 0)
      <4>1. Begun(r)' = round[r] /\ Meetings(r)' = 2 * round[r] /\ round[r] \in Int
        BY <1>1, <1>3, <1>5, <3>5, RoundTypes, Zenon
      <4>2. Meetings(r)' = 2 * Begun(r)' - 0
        BY <4>1
      <4>3. pc'[r] # "announced" /\ pc'[r] \notin {"meet", "move"}
        BY <3>1
      <4> QED
        BY <4>2, <4>3, Zenon
    <3> QED
      BY <3>4, <3>7, <3>8, <3>9, Zenon DEF SendRound
  <2>4. CASE Leave(r)
    <3>1. pc[r] = "leave" /\ pc'[r] = "idle" /\ entered' = entered /\ cargo' = cargo /\ Passed(r, "batch")
      <4>1. doing[r].op # "recv" /\ DOMAIN pc = Agents
        BY <1>3 DEF WeightTypes, AgentTypes
      <4>2. pc[r] = "leave" /\ Passed(r, "batch") /\ entered' = entered /\ cargo' = cargo
        BY <2>4, <4>1, Zenon DEF Leave
      <4>3. pc' = [pc EXCEPT ![r] = "idle"]
        BY <2>4, <4>1, Zenon DEF Leave, Answer, AnswerTo
      <4> QED
        BY <1>1, <4>1, <4>2, <4>3, Zenon
    <3>2. Meetings(r)' = Meetings(r)
      BY <1>1, <3>1, Entering, Zenon
    <3>3. LockStep(r)' /\ Meetings(r)' >= Meetings(r)
      BY <1>1, <3>1, <3>2, LockStepPass, Zenon
    <3>4. /\ pc[r] # "announced" /\ pc[r] \notin {"meet", "move"}
          /\ pc'[r] # "announced" /\ pc'[r] \notin {"meet", "move"}
      BY <3>1
    <3>5. Meetings(r)' = 2 * Begun(r)' - 0
      BY <1>1, <1>5, <3>2, <3>4, Zenon DEF SendRound
    <3> QED
      BY <1>1, <1>4, <3>1, <3>2, <3>3, <3>4, <3>5, Zenon DEF SendRound
  <2> QED
    BY <2>1, <2>2, <2>3, <2>4
<1>7. Begun(r)' >= Begun(r)
  BY <1>1, <1>3, <1>5, SMTT(20)
<1> QED
  BY <1>4, <1>6, <1>7, SenderMoves, Zenon

\* A worker's agent takes up a receive.
LEMMA StartRecvRounds ==
  ASSUME WeightTypes, ClientsInv, WeightTypes', NEW m \in Nat, RoundInv(m), NEW r \in Agents,
         StartRecv(r), \A q \in Agents \ {r} : Same(q),
         UNCHANGED <<case, tpc, round, spc, got, version, published, gaveUp>>
  PROVE  RoundInv(m)'
<1>1. r \in Receivers /\ Known(r, Head(inbox[r])) /\ pc[r] = "idle" /\ pc'[r] = "meet"
  BY StartRecvLocal, Zenon
<1>2. Enter(r, "batch") /\ UNCHANGED <<signal, tensor, reply>> /\ Take(r) /\ Head(inbox[r]).op = "recv"
  BY <1>1, Zenon DEF StartRecv, Begin
<1>3. Meetings(r)' = Meetings(r) + 1 /\ entered'[r]["local"] = entered[r]["local"]
  BY <1>2, Entering, Zenon
<1>4. LockStep(r) /\ RecvRound(r, m) /\ Meetings(r) \in Nat
  BY <1>1, RoundTypes, Zenon DEF RoundInv
<1>5. LockStep(r)' /\ Meetings(r)' >= Meetings(r)
  <2>1. pc[r] \notin {"meet", "leave"} /\ pc'[r] \in {"meet", "leave"}
    BY <1>1
  <2> QED
    BY <1>3, <1>4, <2>1, LockStepEnter, Zenon
<1>6. /\ 1 \in DOMAIN inbox[r] /\ inbox[r][1].op = "recv"
      /\ DOMAIN inbox[r] = 1..Len(inbox[r]) /\ Len(inbox[r]) \in Nat
      /\ DOMAIN inbox'[r] = 1..(Len(inbox[r]) - 1)
      /\ \A i \in DOMAIN inbox'[r] : i + 1 \in DOMAIN inbox[r] /\ inbox'[r][i] = inbox[r][i + 1]
  <2>1. Head(inbox[r]) = inbox[r][1]
    BY <1>2, Taken, Zenon
  <2> QED
    BY <1>2, <2>1, Taken, Zenon
<1>7. RecvQueued(r)
  BY <1>6, Zenon DEF RecvQueued
<1>8. \A i \in DOMAIN inbox'[r] : inbox'[r][i].op # "recv"
  <2>1. SUFFICES ASSUME NEW i \in DOMAIN inbox'[r], inbox'[r][i].op = "recv" PROVE FALSE
    BY Zenon
  <2>2. i + 1 = 1
    BY <1>4, <1>6, <2>1, Zenon DEF RecvRound
  <2> QED
    BY <1>6, <2>2, SMTT(20)
<1>9. ~RecvQueued(r)' /\ Behind(r) /\ Behind(r)'
  BY <1>1, <1>7, <1>8, Zenon DEF RecvQueued, Behind
<1>10. RecvRound(r, m)'
  <2>1. Meetings(r) = 2 * m - 2 /\ Meetings(r)' = 2 * m - 1
    BY <1>3, <1>4, <1>7, SMTT(20) DEF RecvRound
  <2>2. Meetings(r)' = 2 * m - (IF RecvQueued(r)' THEN 2 ELSE IF pc'[r] \in {"meet", "move"} THEN 1 ELSE 0)
    BY <1>1, <1>9, <2>1
  <2>3. \A k \in 0..Rounds : Meetings(r)' \in {2 * k, 2 * k + 1} => tensor'[r] = {k}
    <3>1. \A k \in 0..Rounds : Meetings(r)' \in {2 * k, 2 * k + 1} => Meetings(r) \in {2 * k, 2 * k + 1}
      BY <1>4, <2>1, SMTT(20)
    <3> QED
      BY <1>2, <1>4, <3>1, Zenon DEF RecvRound
  <2>4. 2 * version <= Meetings(r)'
    <3>1. 2 * version <= Meetings(r) /\ version \in Nat
      BY <1>4 DEF RecvRound, WeightTypes, ClientTypes
    <3> QED
      BY <1>4, <2>1, <3>1, SMTT(20)
  <2>5. ~gaveUp => spc = "recv" /\ got[r] = Unanswered
    BY <1>4, <1>7, Zenon DEF RecvRound
  <2>6. spc' \notin Early => entered'[r]["local"] = IF Behind(r)' THEN m ELSE m + 1
    BY <1>3, <1>4, <1>9, Zenon DEF RecvRound
  <2> QED
    BY <1>8, <1>9, <2>2, <2>3, <2>4, <2>5, <2>6, Zenon DEF RecvRound
<1>11. pc'[r] # "cleared" /\ (~Behind(r)' /\ pc'[r] # "cleared" => \A w \in Receivers : ~Behind(w))
  BY <1>1, <1>9
<1> QED
  BY <1>1, <1>2, <1>5, <1>9, <1>10, <1>11, ReceiverMoves, Zenon

\* A worker in a receive has no other one waiting, but for the last barrier.
LEMMA RecvingRound ==
  ASSUME WeightTypes, NEW m \in Nat, NEW v \in Receivers, RecvRound(v, m), pc[v] \in {"meet", "move", "leave"}
  PROVE  ~RecvQueued(v) /\ Behind(v) /\ Meetings(v) = 2 * m - (IF pc[v] = "leave" THEN 0 ELSE 1)
<1>1. ~RecvQueued(v)
  BY DEF RecvRound
<1> QED
  BY <1>1, SMTT(20) DEF RecvRound, Behind

\* What a worker gets is what every sender put on the wire in this round.
LEMMA CargoOfRound ==
  ASSUME WeightTypes, ClientsInv, NEW m \in Nat, RoundInv(m), NEW v \in Receivers, pc[v] = "move",
         \A q \in Senders : entered[q]["batch"] > entered[v]["batch"]
  PROVE  UNION {cargo[q] : q \in Senders} = {m} /\ m \in 1..Rounds
<1>1. RecvRound(v, m) /\ v \in Agents /\ m <= Begun(Rank0) /\ Meetings(v) \in Nat
  BY RoundTypes, Zenon DEF RoundInv, Agents
<1>2. Meetings(v) = 2 * m - 1
  <2>1. pc[v] \in {"meet", "move", "leave"} /\ pc[v] # "leave"
    OBVIOUS
  <2> QED
    BY <1>1, <2>1, RecvingRound, SMTT(20)
<1>3. m \in 1..Rounds
  <2>1. Begun(Rank0) \in Int /\ Begun(Rank0) <= Rounds
    BY RoundTypes, Leaders, Zenon
  <2> QED
    BY <1>1, <1>2, <2>1, RoundsAssumption, SMTT(20)
<1>4. ASSUME NEW q \in Senders PROVE cargo[q] = {m}
  <2>1. q \in Agents /\ LockStep(q) /\ SendRound(q) /\ Meetings(q) \in Nat /\ Meetings(q) > Meetings(v)
    BY RoundTypes, Zenon DEF RoundInv, Agents, Meetings
  <2>2. Meetings(v) >= IF pc[q] \in {"meet", "leave"} THEN Meetings(q) - 1 ELSE Meetings(q)
    BY <1>1, <2>1, Zenon DEF LockStep
  <2>3. Meetings(q) = 2 * m
    BY <1>1, <1>2, <2>1, <2>2, SMTT(20)
  <2> QED
    BY <1>3, <2>1, <2>3, Zenon DEF SendRound
<1>5. UNION {cargo[q] : q \in Senders} = {m}
  <2>1. PICK p \in Senders : TRUE
    BY SidesAssumption
  <2>2. \A x : x \in UNION {cargo[q] : q \in Senders} <=> \E q \in Senders : x \in cargo[q]
    BY Zenon
  <2>3. \A x : x \in UNION {cargo[q] : q \in Senders} <=> x = m
    BY <1>4, <2>1, <2>2, SMTT(20)
  <2> QED
    BY <2>3, Zenon
<1> QED
  BY <1>3, <1>5

\* A worker goes through the batch barriers of a receive.
LEMMA MeetRounds ==
  ASSUME WeightTypes, ClientsInv, WeightTypes', NEW m \in Nat, RoundInv(m), NEW r \in Receivers,
         Met(r) \/ Moved(r), doing[r].op = "recv", \A q \in Agents \ {r} : Same(q),
         UNCHANGED <<case, tpc, round, spc, got, version, published, gaveUp>>
  PROVE  RoundInv(m)'
<1>1. r \in Agents /\ LockStep(r) /\ RecvRound(r, m) /\ Meetings(r) \in Nat
  BY RoundTypes, Zenon DEF Agents, RoundInv
<1>2. UNCHANGED <<inbox, signal, reply>> /\ pc[r] \in {"meet", "move"} /\ pc'[r] \in {"move", "leave"}
  BY <1>1 DEF Met, Moved, WeightTypes, AgentTypes
<1>3. ~RecvQueued(r) /\ Behind(r) /\ Meetings(r) = 2 * m - 1
  <2>1. pc[r] \in {"meet", "move", "leave"} /\ pc[r] # "leave"
    BY <1>2
  <2> QED
    BY <1>1, <2>1, RecvingRound, SMTT(20)
<1>4. ~RecvQueued(r)' /\ Behind(r)'
  BY <1>2, <1>3 DEF RecvQueued, Behind
<1>5. /\ LockStep(r)' /\ Meetings(r)' >= Meetings(r) /\ entered'[r]["local"] = entered[r]["local"]
      /\ Meetings(r)' = 2 * m - (IF RecvQueued(r)' THEN 2 ELSE IF pc'[r] \in {"meet", "move"} THEN 1 ELSE 0)
      /\ \A k \in 0..Rounds : Meetings(r)' \in {2 * k, 2 * k + 1} => tensor'[r] = {k}
  <2>1. CASE Met(r)
    <3>1. /\ pc'[r] = "move" /\ Meetings(r)' = Meetings(r) /\ Passed(r, "batch") /\ tensor' = tensor
          /\ entered'[r]["local"] = entered[r]["local"]
      BY <1>1, <2>1, Entering, Zenon DEF Met, WeightTypes, AgentTypes
    <3>2. LockStep(r)' /\ Meetings(r)' >= Meetings(r)
      BY <1>1, <3>1, LockStepPass, Zenon
    <3>3. \A k \in 0..Rounds : Meetings(r)' \in {2 * k, 2 * k + 1} => tensor'[r] = {k}
      BY <1>1, <3>1, Zenon DEF RecvRound
    <3> QED
      BY <1>3, <1>4, <3>1, <3>2, <3>3
  <2>2. CASE Moved(r)
    <3>1. /\ pc[r] = "move" /\ pc'[r] = "leave" /\ Meetings(r)' = Meetings(r) + 1
          /\ entered'[r]["local"] = entered[r]["local"]
      BY <1>1, <2>2, Entering, Zenon DEF Moved, WeightTypes, AgentTypes
    <3>2. pc[r] \notin {"meet", "leave"} /\ pc'[r] \in {"meet", "leave"}
      BY <3>1
    <3>3. LockStep(r)' /\ Meetings(r)' >= Meetings(r)
      BY <1>1, <3>1, <3>2, LockStepEnter, Zenon
    <3>4. /\ tensor' = [tensor EXCEPT ![r] = UNION {cargo[q] : q \in Senders}]
          /\ \A q \in Senders : entered[q]["batch"] > entered[r]["batch"]
      BY <2>2, SMTT(20) DEF Moved
    <3>5. UNION {cargo[q] : q \in Senders} = {m}
      BY <3>1, <3>4, CargoOfRound, Zenon
    <3>6. tensor'[r] = {m}
      BY <1>1, <3>4, <3>5, Zenon DEF WeightTypes, AgentTypes
    <3>7. Meetings(r)' = 2 * m
      <4>1. 2 * m - 1 + 1 = 2 * m
        OBVIOUS
      <4> QED
        BY <1>3, <3>1, <4>1, Zenon
    <3>8. \A k \in 0..Rounds : Meetings(r)' \in {2 * k, 2 * k + 1} => k = m
      BY <3>7, SMTT(20)
    <3>9. \A k \in 0..Rounds : Meetings(r)' \in {2 * k, 2 * k + 1} => tensor'[r] = {k}
      BY <3>6, <3>8, Zenon
    <3>10. Meetings(r)' = 2 * m - (IF RecvQueued(r)' THEN 2 ELSE IF pc'[r] \in {"meet", "move"} THEN 1 ELSE 0)
      BY <1>4, <3>1, <3>7, SMTT(20)
    <3> QED
      BY <3>1, <3>3, <3>9, <3>10, Zenon
  <2> QED
    BY <2>1, <2>2
<1>6. RecvRound(r, m)'
  <2>1. \A i, j \in DOMAIN inbox'[r] : inbox'[r][i].op = "recv" /\ inbox'[r][j].op = "recv" => i = j
    BY <1>1, <1>2, Zenon DEF RecvRound
  <2>2. 2 * version <= Meetings(r)'
    <3>1. 2 * version <= Meetings(r) /\ version \in Nat
      BY <1>1 DEF RecvRound, WeightTypes, ClientTypes
    <3>2. Meetings(r)' \in Nat /\ Meetings(r)' >= Meetings(r)
      BY <1>1, <1>5, LaterMeetings, Zenon
    <3> QED
      BY <1>1, <3>1, <3>2, SMTT(20)
  <2>3. ~gaveUp => spc = "recv" /\ got[r] = Unanswered
    <3>1. pc[r] \in Receiving
      BY <1>2 DEF Receiving
    <3> QED
      BY <1>1, <3>1, Zenon DEF RecvRound
  <2>4. spc' \notin Early => entered'[r]["local"] = IF Behind(r)' THEN m ELSE m + 1
    BY <1>1, <1>3, <1>4, <1>5, Zenon DEF RecvRound
  <2> QED
    BY <1>4, <1>5, <2>1, <2>2, <2>3, <2>4, Zenon DEF RecvRound
<1> QED
  BY <1>2, <1>3, <1>4, <1>5, <1>6, ReceiverMoves, Zenon

\* A worker gets past the last batch barrier, the leader of its side with the signal
\* cleared.
LEMMA LeaveRounds ==
  ASSUME WeightTypes, ClientsInv, WeightTypes', NEW m \in Nat, RoundInv(m), NEW r \in Receivers,
         Leave(r), doing[r].op = "recv", spc \notin Early, \A q \in Agents \ {r} : Same(q),
         UNCHANGED <<case, tpc, round, spc, got, version, published, gaveUp>>
  PROVE  RoundInv(m)'
<1>1. r \in Agents /\ LockStep(r) /\ RecvRound(r, m) /\ Meetings(r) \in Nat /\ entered[r]["local"] \in Nat
  BY RoundTypes, Zenon DEF Agents, RoundInv
<1>2. /\ UNCHANGED <<inbox, reply, tensor>> /\ pc[r] = "leave" /\ Passed(r, "batch") /\ Enter(r, "local")
      /\ pc' = [pc EXCEPT ![r] = "cleared"] /\ signal' = IF r = Leader(r) THEN "0" ELSE signal
  <2>1. doing[r].op # "send"
    OBVIOUS
  <2> QED
    BY <2>1, Zenon DEF Leave
<1>3. pc'[r] = "cleared"
  BY <1>1, <1>2 DEF WeightTypes, AgentTypes
<1>4. Meetings(r)' = Meetings(r) /\ entered'[r]["local"] = entered[r]["local"] + 1
  BY <1>1, <1>2, Entering, Zenon
<1>5. ~RecvQueued(r) /\ Behind(r) /\ Meetings(r) = 2 * m
  <2>1. pc[r] \in {"meet", "move", "leave"}
    BY <1>2
  <2>2. ~RecvQueued(r) /\ Behind(r) /\ Meetings(r) = 2 * m - 0
    BY <1>1, <1>2, <2>1, RecvingRound, Zenon
  <2>3. 2 * m - 0 = 2 * m
    OBVIOUS
  <2> QED
    BY <2>2, <2>3, Zenon
<1>6. ~RecvQueued(r)' /\ ~Behind(r)'
  BY <1>2, <1>3, <1>5 DEF RecvQueued, Behind
<1>7. LockStep(r)' /\ Meetings(r)' >= Meetings(r)
  BY <1>1, <1>2, <1>4, LockStepPass, Zenon
<1>8. RecvRound(r, m)'
  <2>1. \A i, j \in DOMAIN inbox'[r] : inbox'[r][i].op = "recv" /\ inbox'[r][j].op = "recv" => i = j
    BY <1>1, <1>2, Zenon DEF RecvRound
  <2>2. 2 * version <= Meetings(r)'
    BY <1>1, <1>4, Zenon DEF RecvRound
  <2>3. ~gaveUp => spc = "recv" /\ got[r] = Unanswered
    <3>1. pc[r] \in Receiving
      BY <1>2 DEF Receiving
    <3> QED
      BY <1>1, <3>1, Zenon DEF RecvRound
  <2>4. entered'[r]["local"] = m + 1
    <3>1. entered[r]["local"] = m
      BY <1>1, <1>5, Zenon DEF RecvRound
    <3> QED
      BY <1>4, <3>1, SMTT(20)
  <2>5. Meetings(r)' = 2 * m - (IF RecvQueued(r)' THEN 2 ELSE IF pc'[r] \in {"meet", "move"} THEN 1 ELSE 0)
    <3>1. Meetings(r)' = 2 * m - 0
      BY <1>4, <1>5, SMTT(20)
    <3>2. pc'[r] \notin {"meet", "move"}
      BY <1>3
    <3> QED
      BY <1>6, <3>1, <3>2, Zenon
  <2>6. \A k \in 0..Rounds : Meetings(r)' \in {2 * k, 2 * k + 1} => tensor'[r] = {k}
    BY <1>1, <1>2, <1>4, Zenon DEF RecvRound
  <2> QED
    BY <1>6, <2>1, <2>2, <2>3, <2>4, <2>5, <2>6, Zenon DEF RecvRound
<1>9. r = Least(Receivers) => signal' = "0"
  <2>1. Leader(r) = Least(Receivers)
    BY <1>1, Leaders, Zenon DEF Leader, SideOf
  <2> QED
    BY <1>2, <2>1, Zenon
<1>10. signal' # signal => signal' = "0"
  BY <1>2, Zenon
<1> QED
  BY <1>2, <1>3, <1>6, <1>7, <1>8, <1>9, <1>10, ReceiverMoves, Zenon

\* A worker has seen the signal cleared, and so have all.
LEMMA ClearedRounds ==
  ASSUME WeightTypes, ClientsInv, WeightTypes', NEW m \in Nat, RoundInv(m), NEW r \in Receivers,
         Cleared(r), spc \notin Early, \A q \in Agents \ {r} : Same(q),
         UNCHANGED <<case, tpc, round, spc, got, version, published, gaveUp>>
  PROVE  RoundInv(m)'
<1>1. r \in Agents /\ LockStep(r) /\ RecvRound(r, m) /\ Meetings(r) \in Nat
  BY RoundTypes, Zenon DEF Agents, RoundInv
<1>2. /\ UNCHANGED <<inbox, entered, signal, tensor>> /\ pc[r] = "cleared" /\ Passed(r, "local")
      /\ Answer(r, TRUE, 0)
  BY Zenon DEF Cleared
<1>3. pc'[r] = "idle" /\ reply'[r] = IF doing[r].heard THEN [ok |-> TRUE, value |-> 0] ELSE reply[r]
  BY <1>1, <1>2, AnswerTypes DEF Answer, WeightTypes
<1>4. Meetings(r)' = Meetings(r) /\ (RecvQueued(r)' <=> RecvQueued(r))
  BY <1>2, Zenon DEF Meetings, RecvQueued
<1>5. (Behind(r)' <=> RecvQueued(r)) /\ (Behind(r) <=> RecvQueued(r))
  BY <1>2, <1>3, <1>4 DEF Behind
<1>6. LockStep(r)' /\ Meetings(r)' >= Meetings(r)
  <2>1. pc[r] \notin {"meet", "leave"} /\ pc'[r] \notin {"meet", "leave"}
    BY <1>2, <1>3
  <2> QED
    BY <1>1, <1>4, <2>1, LockStepStay, Zenon
<1>7. RecvRound(r, m)'
  <2>1. pc'[r] \notin {"meet", "move"} /\ pc[r] \notin {"meet", "move"} /\ pc[r] \in Receiving /\ pc'[r] \in {"idle", "cleared"}
    BY <1>2, <1>3 DEF Receiving
  <2>2. Meetings(r)' = 2 * m - (IF RecvQueued(r)' THEN 2 ELSE IF pc'[r] \in {"meet", "move"} THEN 1 ELSE 0)
    BY <1>1, <1>4, <2>1, Zenon DEF RecvRound
  <2>3. \A i, j \in DOMAIN inbox'[r] : inbox'[r][i].op = "recv" /\ inbox'[r][j].op = "recv" => i = j
    BY <1>1, <1>2, Zenon DEF RecvRound
  <2>4. \A k \in 0..Rounds : Meetings(r)' \in {2 * k, 2 * k + 1} => tensor'[r] = {k}
    BY <1>1, <1>2, <1>4, Zenon DEF RecvRound
  <2>5. 2 * version <= Meetings(r)' /\ (~gaveUp => spc = "recv" /\ got[r] = Unanswered)
    BY <1>1, <1>4, <2>1, Zenon DEF RecvRound
  <2>6. spc' \notin Early => entered'[r]["local"] = IF Behind(r)' THEN m ELSE m + 1
    BY <1>1, <1>2, <1>5, Zenon DEF RecvRound
  <2> QED
    BY <2>1, <2>2, <2>3, <2>4, <2>5, <2>6, Zenon DEF RecvRound
<1>8. ~Behind(r)' => \A w \in Receivers : ~Behind(w)
  <2>1. SUFFICES ASSUME ~Behind(r), NEW w \in Receivers, Behind(w) PROVE FALSE
    BY <1>5, Zenon
  <2>2. entered[r]["local"] = m + 1
    BY <1>1, <2>1, Zenon DEF RecvRound
  <2>3. entered[w]["local"] = m
    BY <2>1, Zenon DEF RecvRound, RoundInv
  <2>4. w \in GroupOf(r, "local")
    BY <1>1, Leaders, Zenon DEF GroupOf, SideOf
  <2>5. entered[w]["local"] >= entered[r]["local"]
    BY <1>2, <2>4, Zenon DEF Passed
  <2> QED
    BY <2>2, <2>3, <2>5, SMTT(20)
<1>9. spc = "query" /\ reply'[r].value = 1 => reply[r].value = 1
  <2>1. [ok |-> TRUE, value |-> 0].value = 0
    OBVIOUS
  <2>2. CASE doing[r].heard
    <3>1. reply'[r].value = 0
      BY <1>3, <2>1, <2>2, Zenon
    <3> QED
      BY <3>1
  <2>3. CASE ~doing[r].heard
    BY <1>3, <2>3, Zenon
  <2> QED
    BY <2>2, <2>3
<1>10. signal' = signal /\ ~(Behind(r) /\ ~Behind(r)')
  BY <1>2, <1>5, Zenon
<1> QED
  BY <1>5, <1>6, <1>7, <1>8, <1>9, <1>10, ReceiverMoves, Zenon

\* A step of an agent keeps the account of the rounds.
LEMMA AgentRounds ==
  ASSUME WeightTypes, ClientsInv, NEW m \in Nat, RoundInv(m), NEW r \in Agents, AgentMoves(r)
  PROVE  RoundInv(m)'
<1>1. /\ AgentStep(r) /\ WeightTypes'
      /\ UNCHANGED <<case, tpc, round, spc, got, version, published, gaveUp>>
  BY AgentClients, Zenon DEF AgentMoves, trainVars, serveVars
<1>2. \A q \in Agents \ {r} : Same(q)
  BY <1>1, Alone, Zenon
<1>3. CASE StartRegister(r) \/ Gathered(r) \/ Registered(r)
  BY <1>1, <1>2, <1>3, RegisterRounds, Zenon
<1>4. CASE StartSend(r)
  BY <1>1, <1>2, <1>4, StartSendRounds, Zenon
<1>5. CASE StartRecv(r)
  BY <1>1, <1>2, <1>5, StartRecvRounds, Zenon
<1>6. CASE QuerySignal(r)
  BY <1>1, <1>2, <1>6, QueryRounds, Zenon
<1>7. CASE CleanupBatch(r)
  BY <1>1, <1>2, <1>7, CleanupRounds, Zenon
<1>8. CASE Announced(r) \/ Met(r) \/ Moved(r) \/ Leave(r) \/ Cleared(r)
  <2>1. pc[r] \in Sending \cup Receiving
    BY <1>8 DEF Announced, Met, Moved, Leave, Cleared, Sending, Receiving
  <2>2. CASE r \in Senders
    <3>1. pc[r] \in Sending
      BY <2>1, <2>2, InTransfer, Zenon
    <3>2. ~Cleared(r)
      BY <3>1 DEF Cleared, Sending
    <3> QED
      BY <1>1, <1>2, <1>8, <2>2, <3>2, SendRounds, Zenon
  <2>3. CASE r \in Receivers
    <3>1. pc[r] \in Receiving /\ doing[r].op = "recv" /\ spc \notin Early
      BY <2>1, <2>3, InTransfer, Zenon
    <3>2. ~Announced(r)
      BY <3>1 DEF Announced, Receiving
    <3>3. CASE Met(r) \/ Moved(r)
      BY <1>1, <1>2, <2>3, <3>1, <3>3, MeetRounds, Zenon
    <3>4. CASE Leave(r)
      BY <1>1, <1>2, <2>3, <3>1, <3>4, LeaveRounds, Zenon
    <3>5. CASE Cleared(r)
      BY <1>1, <1>2, <2>3, <3>1, <3>5, ClearedRounds, Zenon
    <3> QED
      BY <1>8, <3>2, <3>3, <3>4, <3>5, Zenon
  <2> QED
    BY <2>2, <2>3 DEF Agents
<1> QED
  BY <1>1, <1>3, <1>4, <1>5, <1>6, <1>7, <1>8, Zenon DEF AgentStep

-----------------------------------------------------------------------------
(* Rounds: clients *)

\* A step in which no agent gets on.
LEMMA NobodyMoves ==
  ASSUME NEW m \in Nat, RoundInv(m), UNCHANGED <<pc, entered>>
  PROVE  \A r \in Agents : LockStep(r)'
<1>1. SUFFICES ASSUME NEW r \in Agents PROVE LockStep(r)'
  OBVIOUS
<1>2. LockStep(r)
  BY Zenon DEF RoundInv
<1> QED
  BY <1>2, Zenon DEF LockStep, Meetings

\* Begun sends and receives under way as before.
LEMMA SameRanks ==
  ASSUME NEW m \in Nat, RoundInv(m), \A t \in Senders : Begun(t)' = Begun(t), signal' = signal,
         \A v \in Receivers : (Behind(v)' <=> Behind(v)) /\ (pc'[v] = "cleared" <=> pc[v] = "cleared")
  PROVE  /\ m <= Begun(Rank0)' /\ (MayAsk(m)' <=> MayAsk(m))
         /\ \A v \in Receivers : Fenced(v)'
         /\ signal' = "1" /\ ~Behind(Least(Receivers))' => m < Begun(Rank0)'
<1>1. Begun(Rank0)' = Begun(Rank0) /\ (Behind(Least(Receivers))' <=> Behind(Least(Receivers)))
  BY Leaders, Zenon
<1>2. m <= Begun(Rank0)' /\ (signal' = "1" /\ ~Behind(Least(Receivers))' => m < Begun(Rank0)')
  BY <1>1, Zenon DEF RoundInv
<1>3. MayAsk(m)' <=> MayAsk(m)
  BY <1>1, Zenon DEF MayAsk
<1>4. \A v \in Receivers : Fenced(v)'
  BY Zenon DEF Fenced, RoundInv
<1> QED
  BY <1>2, <1>3, <1>4, Zenon

\* A trainer rank's step begins no send.
LEMMA TrainerCounts ==
  ASSUME WeightTypes, ClientsInv, NEW t \in Senders, tensor[t] = {round[t]},
         TrainerStep(t) \/ (SendTimeout(t) /\ UNCHANGED <<engineVars, case, serveVars, chatVars>>)
  PROVE  Begun(t)' = Begun(t) /\ tensor'[t] = {round'[t]}
<1>1. /\ t \in Agents /\ inbox \in [Agents -> Seq(Commands)] /\ tpc \in [Senders -> TrainerPlaces]
      /\ round \in [Senders -> 0..Rounds] /\ DOMAIN tensor = Agents
  BY DEF Agents, WeightTypes, AgentTypes, ClientTypes
<1>2. CASE tpc[t] # "aligning" /\ tpc'[t] # "aligning" /\ UNCHANGED <<round, tensor>> /\ (SendQueued(t)' <=> SendQueued(t))
  BY <1>2, Zenon DEF Begun
<1>3. \A from, to : TrainerMove(t, from, to) => tpc[t] = from /\ tpc'[t] = to
  BY <1>1, Zenon DEF TrainerMove
<1>4. CASE TrainerRegistered(t) \/ Pushed(t) \/ ChatsSeen(t) \/ Rest(t)
  <2>1. UNCHANGED <<inbox, round, tensor>>
    BY <1>4, Zenon DEF TrainerRegistered, Pushed, ChatsSeen, Rest
  <2>2. tpc[t] # "aligning" /\ tpc'[t] # "aligning"
    <3>1. CASE TrainerRegistered(t)
      <4>1. TrainerMove(t, "registering", IF reply[t].ok THEN "train" ELSE "refused")
        BY <3>1, Zenon DEF TrainerRegistered
      <4>2. tpc[t] = "registering" /\ tpc'[t] = IF reply[t].ok THEN "train" ELSE "refused"
        BY <1>3, <4>1, Zenon
      <4> QED
        BY <4>2
    <3>2. CASE Pushed(t)
      <4>1. TrainerMove(t, "sending", IF ~reply[t].ok THEN "failed" ELSE IF t = Rank0 THEN "watching" ELSE "resting")
        BY <3>2, Zenon DEF Pushed
      <4>2. tpc[t] = "sending" /\ tpc'[t] = IF ~reply[t].ok THEN "failed" ELSE IF t = Rank0 THEN "watching" ELSE "resting"
        BY <1>3, <4>1, Zenon
      <4> QED
        BY <4>2
    <3>3. CASE ChatsSeen(t)
      <4>1. tpc[t] = "watching" /\ tpc'[t] = "resting"
        BY <1>3, <3>3, Zenon DEF ChatsSeen
      <4> QED
        BY <4>1
    <3>4. CASE Rest(t)
      <4>1. tpc[t] = "resting" /\ tpc'[t] = "train"
        BY <1>3, <3>4, Zenon DEF Rest
      <4> QED
        BY <4>1
    <3> QED
      BY <1>4, <3>1, <3>2, <3>3, <3>4, Zenon
  <2> QED
    BY <1>2, <2>1, <2>2, Zenon DEF SendQueued
<1>5. CASE Perturb(t)
  <2>1. tpc[t] = "train" /\ tpc'[t] = "aligning" /\ round'[t] = round[t] + 1 /\ tensor'[t] = {round[t] + 1}
    BY <1>1, <1>3, <1>5, Zenon DEF Perturb
  <2>2. inbox[t] = <<>>
    BY <2>1, TrainerQuiet, Zenon DEF Quiet
  <2>3. ~SendQueued(t)
    BY <2>2, Zenon DEF SendQueued
  <2>4. Begun(t) = round[t] /\ Begun(t)' = round'[t] - 1
    BY <2>1, <2>3 DEF Begun
  <2>5. round[t] \in Int
    BY <1>1, RoundsAssumption, SMTT(20)
  <2> QED
    BY <2>1, <2>4, <2>5, SMTT(20)
<1>6. CASE TrainerRegister(t) \/ Push(t) \/ TrainerClose(t)
  <2>1. UNCHANGED <<round, tensor>>
    BY <1>6, Zenon DEF TrainerRegister, Push, TrainerClose
  <2>2. PICK c \in Commands : /\ Submit(t, c)
                              /\ TrainerRegister(t) => c.op = "register"
                              /\ Push(t) => c.op = "send" /\ tpc[t] = "aligning"
                              /\ TrainerClose(t) => c.op = "cleanup"
                              /\ ~Push(t) => tpc[t] \in {"start", "train", "failed"}
                              /\ tpc'[t] # "aligning"
    <3>1. CASE TrainerRegister(t)
      <4>1. tpc[t] = "start" /\ tpc'[t] = "registering" /\ Submit(t, Command("register", 0, case.layouts[t]))
        BY <1>3, <3>1, Zenon DEF TrainerRegister
      <4>2. Command("register", 0, case.layouts[t]) \in Commands
        BY <1>1, CommandTypes, Zenon
      <4>4. Command("register", 0, case.layouts[t]).op = "register"
        BY DEF Command
      <4>3. ~Push(t) /\ ~TrainerClose(t)
        BY <1>3, <4>1 DEF Push, TrainerClose
      <4> QED
        BY <4>1, <4>2, <4>3, <4>4
    <3>2. CASE Push(t)
      <4>1. tpc[t] = "aligning" /\ tpc'[t] = "sending" /\ Submit(t, Command("send", gen[t], 0))
        BY <1>3, <3>2, Zenon DEF Push
      <4>2. Command("send", gen[t], 0) \in Commands
        BY <1>1, CommandTypes, Zenon
      <4>4. Command("send", gen[t], 0).op = "send"
        BY DEF Command
      <4>3. ~TrainerRegister(t) /\ ~TrainerClose(t)
        BY <1>3, <4>1 DEF TrainerRegister, TrainerClose
      <4> QED
        BY <3>2, <4>1, <4>2, <4>3, <4>4
    <3>3. CASE TrainerClose(t)
      <4>1. tpc[t] \in {"train", "failed"} /\ tpc'[t] = "closed" /\ Submit(t, Command("cleanup", gen[t], 0))
        BY <1>3, <3>3, Zenon DEF TrainerClose
      <4>2. Command("cleanup", gen[t], 0) \in Commands
        BY <1>1, CommandTypes, Zenon
      <4>4. Command("cleanup", gen[t], 0).op = "cleanup"
        BY DEF Command
      <4>3. ~TrainerRegister(t) /\ ~Push(t)
        BY <1>3, <4>1 DEF TrainerRegister, Push
      <4> QED
        BY <4>1, <4>2, <4>3, <4>4
    <3> QED
      BY <1>6, <3>1, <3>2, <3>3, Zenon
  <2>3. inbox'[t] = Append(inbox[t], c) /\ inbox[t] \in Seq(Commands)
    BY <1>1, <2>2, Submitted, Zenon
  <2>4. CASE inbox[t] = <<>>
    <3>1. inbox'[t] = <<c>> /\ inbox'[t][1] = c /\ inbox'[t] # <<>> /\ ~SendQueued(t)
      BY <2>3, <2>4, OneCommand DEF SendQueued
    <3>2. SendQueued(t)' <=> c.op = "send"
      BY <3>1, Zenon DEF SendQueued
    <3>3. CASE Push(t)
      BY <2>1, <2>2, <3>1, <3>2, <3>3, Zenon DEF Begun
    <3>4. CASE ~Push(t)
      <4>1. c.op # "send" /\ tpc[t] # "aligning"
        BY <1>6, <2>2, <3>4
      <4> QED
        BY <1>2, <2>1, <2>2, <3>1, <3>2, <4>1, Zenon
    <3> QED
      BY <3>3, <3>4
  <2>5. CASE inbox[t] # <<>>
    <3>1. inbox'[t] # <<>> /\ inbox'[t][1] = inbox[t][1]
      BY <2>3, <2>5, SMTT(20)
    <3>2. SendQueued(t)' <=> SendQueued(t)
      BY <2>5, <3>1, Zenon DEF SendQueued
    <3>3. tpc[t] # "aligning"
      BY <2>5, TrainerQuiet DEF Quiet
    <3> QED
      BY <1>2, <2>1, <2>2, <3>2, <3>3, Zenon
  <2> QED
    BY <2>4, <2>5
<1>7. CASE SendTimeout(t)
  <2>1. UNCHANGED <<round, tensor>> /\ Forget(t) /\ tpc[t] = "sending" /\ tpc'[t] = "failed"
    BY <1>3, <1>7, Zenon DEF SendTimeout
  <2>2. /\ inbox'[t] = <<>> <=> inbox[t] = <<>> 
        /\ \A i \in DOMAIN inbox[t] : inbox'[t][i].op = inbox[t][i].op
    BY <1>1, <2>1, Forgotten, Zenon
  <2>3. inbox[t] # <<>> => 1 \in DOMAIN inbox[t]
    BY <1>1, SMTT(20)
  <2>4. SendQueued(t)' <=> SendQueued(t)
    BY <2>2, <2>3, Zenon DEF SendQueued
  <2> QED
    BY <1>2, <2>1, <2>4
<1> QED
  BY <1>4, <1>5, <1>6, <1>7, Zenon DEF TrainerStep

\* A step of a trainer rank keeps the account of the rounds.
LEMMA TrainerRounds ==
  ASSUME WeightTypes, ClientsInv, NEW m \in Nat, RoundInv(m), NEW t \in Senders,
         TrainerStep(t) \/ (SendTimeout(t) /\ UNCHANGED <<engineVars, case, serveVars, chatVars>>)
  PROVE  RoundInv(m)'
<1>1. UNCHANGED <<pc, entered, cargo, signal, spc, got, version, published, gaveUp>>
  <2>1. UNCHANGED <<engineVars, serveVars, gaveUp>>
    BY Zenon DEF TrainerStep, TrainerRegister, TrainerRegistered, Perturb, Push, Pushed, ChatsSeen, Rest,
                 TrainerClose, SendTimeout
  <2> QED
    BY <2>1, Zenon DEF engineVars, serveVars
<1>2. \A q \in Agents \ {t} : Same(q) /\ (q \in Senders => tpc'[q] = tpc[q] /\ round'[q] = round[q])
  BY TrainerTypes, Zenon
<1>3. Begun(t)' = Begun(t) /\ tensor'[t] = {round'[t]}
  BY TrainerCounts, Zenon DEF RoundInv, SendRound
<1>4. \A u \in Senders : SendRound(u)' /\ Begun(u)' = Begun(u)
  <2>1. SUFFICES ASSUME NEW u \in Senders PROVE SendRound(u)' /\ Begun(u)' = Begun(u)
    OBVIOUS
  <2>2. SendRound(u) /\ u \in Agents
    BY Zenon DEF RoundInv, Agents
  <2>3. CASE u = t
    BY <1>1, <1>3, <2>2, <2>3, Zenon DEF SendRound, Meetings
  <2>4. CASE u # t
    <3>1. Same(u) /\ tpc'[u] = tpc[u] /\ round'[u] = round[u]
      BY <1>2, <2>2, <2>4, Zenon
    <3> QED
      BY <2>2, <3>1, KeepSendRound, Zenon
  <2> QED
    BY <2>3, <2>4
<1>5. \A v \in Receivers : Same(v)
  <2>1. SUFFICES ASSUME NEW v \in Receivers PROVE v \in Agents \ {t}
    BY <1>2, Zenon
  <2> QED
    BY SidesAssumption DEF Agents
<1>6. \A v \in Receivers : RecvRound(v, m)'
  <2>1. SUFFICES ASSUME NEW v \in Receivers PROVE RecvRound(v, m)'
    OBVIOUS
  <2>2. RecvRound(v, m) /\ Same(v) /\ got'[v] = got[v]
    BY <1>1, <1>5, Zenon DEF RoundInv
  <2> QED
    BY <1>1, <2>2, KeepRecvRound, Zenon
<1>7. \A v \in Receivers : (Behind(v)' <=> Behind(v)) /\ reply'[v] = reply[v] /\ got'[v] = got[v]
  BY <1>1, <1>5, SameCounts, Zenon DEF Agents, Same
<1>8. \A r \in Agents : LockStep(r)'
  BY <1>1, NobodyMoves, Zenon
<1>9. /\ m <= Begun(Rank0)' /\ (MayAsk(m)' <=> MayAsk(m)) /\ \A v \in Receivers : Fenced(v)'
      /\ signal' = "1" /\ ~Behind(Least(Receivers))' => m < Begun(Rank0)'
  BY <1>1, <1>4, <1>7, SameRanks, Zenon
<1>10. /\ spc' \in Early => m = 0
       /\ published' <= version'
       /\ spc' = "recv" => version' < m
       /\ spc' = "pause" => MayAsk(m)'
  BY <1>1, <1>9, Zenon DEF RoundInv
<1>11. spc' = "query" => \A v \in Receivers : reply'[v].value = 1 \/ got'[v].value = 1 => MayAsk(m)'
  BY <1>1, <1>7, <1>9, Zenon DEF RoundInv
<1> QED
  BY <1>4, <1>6, <1>8, <1>9, <1>10, <1>11, Zenon DEF RoundInv

\* So does the exchange of dtypes.
LEMMA SwapRounds ==
  ASSUME WeightTypes, ClientsInv, NEW m \in Nat, RoundInv(m), LeadersSwap
  PROVE  RoundInv(m)'
<1> DEFINE a == Least(Senders)
           b == Least(Receivers)
<1>1. a \in Senders /\ b \in Receivers /\ a \in Agents /\ b \in Agents /\ a # b
  BY Leaders, SidesAssumption DEF Rank0, Agents
<1>2. /\ pc[a] \in {"swap1", "swap2"} /\ pc[b] = pc[a]
      /\ pc' = [pc EXCEPT ![a] = IF @ = "swap1" THEN "swap2" ELSE "dtype",
                          ![b] = IF @ = "swap1" THEN "swap2" ELSE "dtype"]
      /\ entered' = IF pc[a] = "swap1" THEN entered
                    ELSE [entered EXCEPT ![a]["local"] = @ + 1, ![b]["local"] = @ + 1]
      /\ UNCHANGED <<inbox, doing, signal, tensor, cargo, reply>>
  BY DEF LeadersSwap, SwapDtypes
<1>3. pc \in [Agents -> AgentPlaces] /\ entered \in [Agents -> [{"local", "batch"} -> Nat]]
  BY DEF WeightTypes, AgentTypes
<1>4. UNCHANGED <<dtypes, case, tpc, round, spc, got, version, published, gaveUp>>
  BY Zenon DEF LeadersSwap, trainVars, serveVars
<1>5. spc = "setup" /\ m = 0
  <2>1. pc[b] \in Registering
    BY <1>2 DEF Registering
  <2>2. spc = "setup"
    BY <1>1, <2>1, Zenon DEF ClientsInv, WorkerInv
  <2> QED
    BY <2>2 DEF RoundInv, Early
<1>6. \A r \in Agents : /\ pc'[r] = pc[r] \/ (pc[r] \in {"swap1", "swap2"} /\ pc'[r] \in {"swap2", "dtype"})
                        /\ entered'[r]["batch"] = entered[r]["batch"]
  <2>1. \A r \in Agents : pc'[r] = pc[r] \/ (pc[r] \in {"swap1", "swap2"} /\ pc'[r] \in {"swap2", "dtype"})
    BY <1>1, <1>2, <1>3
  <2>2. \A r \in Agents : entered'[r]["batch"] = entered[r]["batch"]
    BY <1>4, SwapStep, Zenon DEF LeadersSwap
  <2> QED
    BY <2>1, <2>2, Zenon
<1>7. \A r \in Agents : /\ Meetings(r)' = Meetings(r) /\ (pc'[r] \in {"meet", "leave"} <=> pc[r] \in {"meet", "leave"})
                        /\ pc'[r] \in {"meet", "move"} <=> pc[r] \in {"meet", "move"}
                        /\ pc'[r] \in {"meet", "move", "leave"} <=> pc[r] \in {"meet", "move", "leave"}
                        /\ pc'[r] = "announced" <=> pc[r] = "announced"
                        /\ pc'[r] = "cleared" <=> pc[r] = "cleared"
                        /\ pc'[r] \in {"idle", "cleared"} <=> pc[r] \in {"idle", "cleared"}
                        /\ pc'[r] \in Receiving <=> pc[r] \in Receiving
  BY <1>6 DEF Meetings, Receiving
<1>8. \A r \in Agents : LockStep(r)'
  <2>1. SUFFICES ASSUME NEW r \in Agents PROVE LockStep(r)'
    OBVIOUS
  <2> QED
    BY <1>7, Zenon DEF RoundInv, LockStep
<1>9. \A t \in Senders : SendRound(t)' /\ Begun(t)' = Begun(t)
  <2>1. SUFFICES ASSUME NEW t \in Senders PROVE SendRound(t)' /\ Begun(t)' = Begun(t)
    OBVIOUS
  <2>2. SendRound(t) /\ t \in Agents
    BY Zenon DEF RoundInv, Agents
  <2>3. Begun(t)' = Begun(t)
    BY <1>2, <1>4, Zenon DEF Begun, SendQueued
  <2> QED
    BY <1>2, <1>4, <1>7, <2>2, <2>3, Zenon DEF SendRound
<1>10. \A v \in Receivers : (RecvQueued(v)' <=> RecvQueued(v)) /\ (Behind(v)' <=> Behind(v))
  <2>1. \A v \in Receivers : RecvQueued(v)' <=> RecvQueued(v)
    BY <1>2, Zenon DEF RecvQueued
  <2> QED
    BY <1>7, <2>1, Zenon DEF Behind, Agents
<1>11. \A v \in Receivers : RecvRound(v, m)'
  <2>1. SUFFICES ASSUME NEW v \in Receivers PROVE RecvRound(v, m)'
    OBVIOUS
  <2>2. RecvRound(v, m) /\ v \in Agents
    BY Zenon DEF RoundInv, Agents
  <2>3. spc' \in Early
    BY <1>4, <1>5 DEF Early
  <2> QED
    <3>1. Meetings(v)' = 2 * m - (IF RecvQueued(v)' THEN 2 ELSE IF pc'[v] \in {"meet", "move"} THEN 1 ELSE 0)
      BY <1>7, <1>10, <2>2, Zenon DEF RecvRound
    <3>2. \A k \in 0..Rounds : Meetings(v)' \in {2 * k, 2 * k + 1} => tensor'[v] = {k}
      BY <1>2, <1>7, <2>2, Zenon DEF RecvRound
    <3>3. \A i, j \in DOMAIN inbox'[v] : inbox'[v][i].op = "recv" /\ inbox'[v][j].op = "recv" => i = j
      BY <1>2, <2>2, Zenon DEF RecvRound
    <3>4. RecvQueued(v)' => pc'[v] \in {"idle", "cleared"}
      BY <1>7, <1>10, <2>2, Zenon DEF RecvRound
    <3>5. 2 * version' <= Meetings(v)'
      BY <1>4, <1>7, <2>2, Zenon DEF RecvRound
    <3>6. ~gaveUp' /\ (RecvQueued(v)' \/ pc'[v] \in Receiving) => spc' = "recv" /\ got'[v] = Unanswered
      BY <1>4, <1>7, <1>10, <2>2, Zenon DEF RecvRound
    <3> QED
      BY <2>3, <3>1, <3>2, <3>3, <3>4, <3>5, <3>6, Zenon DEF RecvRound
<1>12. /\ m <= Begun(Rank0)' /\ \A v \in Receivers : Fenced(v)'
       /\ signal' = "1" /\ ~Behind(Least(Receivers))' => m < Begun(Rank0)'
  BY <1>2, <1>7, <1>9, <1>10, SameRanks, Zenon DEF Agents
<1>13. spc' = "setup" /\ published' <= version'
  BY <1>4, <1>5, Zenon DEF RoundInv
<1> QED
  BY <1>5, <1>8, <1>9, <1>11, <1>12, <1>13 DEF RoundInv

\* What a step of the server must not disturb.
LEMMA ServerStays ==
  ASSUME NEW m \in Nat, RoundInv(m), UNCHANGED <<pc, entered, cargo, signal, tensor, tpc, round>>,
         \A t \in Senders : inbox'[t] = inbox[t],
         \A v \in Receivers : RecvRound(v, m)' /\ (Behind(v)' <=> Behind(v)),
         spc' \in Early => spc \in Early, published' <= version', spc' = "recv" => version' < m,
         spc' = "pause" => MayAsk(m),
         spc' = "query" => \A v \in Receivers : reply'[v].value = 1 \/ got'[v].value = 1 => MayAsk(m)
  PROVE  RoundInv(m)'
<1>1. \A t \in Senders : SendRound(t)' /\ Begun(t)' = Begun(t)
  <2>1. SUFFICES ASSUME NEW t \in Senders PROVE SendRound(t)' /\ Begun(t)' = Begun(t)
    OBVIOUS
  <2>2. SendRound(t)
    BY Zenon DEF RoundInv
  <2>3. Begun(t)' = Begun(t)
    BY Zenon DEF Begun, SendQueued
  <2> QED
    BY <2>2, <2>3, Zenon DEF SendRound, Meetings
<1>2. \A r \in Agents : LockStep(r)'
  BY NobodyMoves, Zenon
<1>3. /\ m <= Begun(Rank0)' /\ (MayAsk(m)' <=> MayAsk(m)) /\ \A v \in Receivers : Fenced(v)'
      /\ signal' = "1" /\ ~Behind(Least(Receivers))' => m < Begun(Rank0)'
  BY <1>1, SameRanks, Zenon
<1>4. spc' \in Early => m = 0
  BY Zenon DEF RoundInv
<1> QED
  BY <1>1, <1>2, <1>3, <1>4, Zenon DEF RoundInv

\* The server goes on, and v has as much to receive as before.
LEMMA WorkerStays ==
  ASSUME NEW m \in Nat, NEW v \in Receivers, RecvRound(v, m), UNCHANGED <<pc, entered, tensor>>,
         RecvQueued(v)' <=> RecvQueued(v),
         \A i, j \in DOMAIN inbox'[v] : inbox'[v][i].op = "recv" /\ inbox'[v][j].op = "recv" => i = j,
         spc' \notin Early => spc \notin Early \/ entered[v]["local"] = IF Behind(v) THEN m ELSE m + 1,
         2 * version' <= Meetings(v),
         ~gaveUp' /\ (RecvQueued(v) \/ pc[v] \in Receiving) => spc' = "recv" /\ got'[v] = Unanswered
  PROVE  RecvRound(v, m)' /\ (Behind(v)' <=> Behind(v))
<1>1. (Behind(v)' <=> Behind(v)) /\ Meetings(v)' = Meetings(v)
  BY Zenon DEF Behind, Meetings
<1>2. spc' \notin Early => entered'[v]["local"] = IF Behind(v)' THEN m ELSE m + 1
  BY <1>1, Zenon DEF RecvRound
<1>3. Meetings(v)' = 2 * m - (IF RecvQueued(v)' THEN 2 ELSE IF pc'[v] \in {"meet", "move"} THEN 1 ELSE 0)
  BY <1>1, Zenon DEF RecvRound
<1>4. \A k \in 0..Rounds : Meetings(v)' \in {2 * k, 2 * k + 1} => tensor'[v] = {k}
  BY <1>1, Zenon DEF RecvRound
<1>5. RecvQueued(v)' => pc'[v] \in {"idle", "cleared"}
  BY Zenon DEF RecvRound
<1> QED
  BY <1>1, <1>2, <1>3, <1>4, <1>5, Zenon DEF RecvRound

\* A command other than a receive.
LEMMA OtherCommand ==
  ASSUME NEW v \in Receivers, NEW m \in Nat, RecvRound(v, m), inbox[v] \in Seq(Commands), NEW c \in Commands,
         c.op # "recv", inbox'[v] = Append(inbox[v], c)
  PROVE  /\ RecvQueued(v)' <=> RecvQueued(v)
         /\ \A i, j \in DOMAIN inbox'[v] : inbox'[v][i].op = "recv" /\ inbox'[v][j].op = "recv" => i = j
<1>1. /\ DOMAIN inbox[v] = 1..Len(inbox[v]) /\ Len(inbox[v]) \in Nat
      /\ DOMAIN inbox'[v] = 1..(Len(inbox[v]) + 1)
      /\ \A i \in DOMAIN inbox[v] : inbox'[v][i] = inbox[v][i]
      /\ inbox'[v][Len(inbox[v]) + 1] = c
  BY Given, SMTT(20)
<1>2. \A i \in DOMAIN inbox'[v] : i \in DOMAIN inbox[v] \/ inbox'[v][i] = c
  BY <1>1, SMTT(20)
<1>3. \A i \in DOMAIN inbox'[v] : inbox'[v][i].op = "recv" => i \in DOMAIN inbox[v] /\ inbox[v][i].op = "recv"
  BY <1>1, <1>2, Zenon
<1>4. \A i \in DOMAIN inbox[v] : i \in DOMAIN inbox'[v]
  BY <1>1, SMTT(20)
<1>5. RecvQueued(v)' <=> RecvQueued(v)
  BY <1>1, <1>3, <1>4, Zenon DEF RecvQueued
<1>6. \A i, j \in DOMAIN inbox[v] : inbox[v][i].op = "recv" /\ inbox[v][j].op = "recv" => i = j
  BY Zenon DEF RecvRound
<1> QED
  BY <1>3, <1>5, <1>6, Zenon

\* The server asks for something else than the weights.
LEMMA AskRounds ==
  ASSUME WeightTypes, ClientsInv, NEW m \in Nat, RoundInv(m), SetupTensorbus \/ QueryWorkers,
         UNCHANGED <<engineVars, tensor, tpc, round, reply, gaveUp>>
  PROVE  RoundInv(m)'
<1>1. UNCHANGED <<pc, entered, cargo, signal, version, published>>
  BY Zenon DEF engineVars, SetupTensorbus, QueryWorkers
<1>2. /\ \A t \in Senders : inbox'[t] = inbox[t]
      /\ spc' = IF spc = "start" THEN "setup" ELSE IF spc = "loop" THEN "query" ELSE "recv"
      /\ \A v \in Receivers : /\ got'[v] = Unanswered
                              /\ \E c \in Commands : inbox'[v] = Append(inbox[v], c) /\ c.op = Asking'
  BY RpcTypes, Zenon
<1>3. (spc = "start" /\ spc' = "setup") \/ (spc = "loop" /\ spc' = "query")
  BY <1>2 DEF SetupTensorbus, QueryWorkers
<1>4. \A v \in Receivers : RecvRound(v, m)' /\ (Behind(v)' <=> Behind(v))
  <2>1. SUFFICES ASSUME NEW v \in Receivers PROVE RecvRound(v, m)' /\ (Behind(v)' <=> Behind(v))
    OBVIOUS
  <2>2. RecvRound(v, m) /\ inbox[v] \in Seq(Commands)
    BY Zenon DEF RoundInv, WeightTypes, AgentTypes, Agents
  <2>3. PICK c \in Commands : inbox'[v] = Append(inbox[v], c) /\ c.op = Asking'
    BY <1>2, Zenon
  <2>4. c.op # "recv"
    BY <1>3, <2>3 DEF Asking
  <2>5. /\ RecvQueued(v)' <=> RecvQueued(v)
        /\ \A i, j \in DOMAIN inbox'[v] : inbox'[v][i].op = "recv" /\ inbox'[v][j].op = "recv" => i = j
    BY <2>2, <2>3, <2>4, OtherCommand, Zenon
  <2>6. 2 * version' <= Meetings(v)
    BY <1>1, <2>2, Zenon DEF RecvRound
  <2>7. spc # "recv" /\ (spc' \notin Early => spc \notin Early)
    BY <1>3 DEF Early
  <2>8. ~(~gaveUp' /\ (RecvQueued(v) \/ pc[v] \in Receiving))
    BY <2>2, <2>7, Zenon DEF RecvRound
  <2> QED
    BY <1>1, <2>2, <2>5, <2>6, <2>7, <2>8, WorkerStays, Zenon
<1>5. published' <= version'
  BY <1>1, Zenon DEF RoundInv
<1>6. spc' # "pause" /\ spc' # "recv" /\ (spc' \in Early => spc \in Early)
  BY <1>3 DEF Early
<1>7. spc' = "query" => \A v \in Receivers : reply'[v].value # 1 /\ got'[v].value # 1
  <2>1. SUFFICES ASSUME spc' = "query", NEW v \in Receivers PROVE reply'[v].value # 1 /\ got'[v].value # 1
    OBVIOUS
  <2>2. ~Awaits(v) /\ WorkerInv(v)
    BY <1>3, <2>1 DEF Awaits, ClientsInv
  <2>3. reply'[v] = NoReply /\ got'[v] = Unanswered
    BY <1>2, <2>2, Unawaited, Zenon
  <2> QED
    BY <2>3 DEF NoReply, Unanswered
<1> QED
  BY <1>1, <1>2, <1>4, <1>5, <1>6, <1>7, ServerStays, Zenon

\* A receive is asked for.
LEMMA OneReceive ==
  ASSUME NEW v \in Receivers, ~RecvQueued(v), inbox[v] \in Seq(Commands), NEW c \in Commands,
         c.op = "recv", inbox'[v] = Append(inbox[v], c)
  PROVE  /\ RecvQueued(v)'
         /\ \A i, j \in DOMAIN inbox'[v] : inbox'[v][i].op = "recv" /\ inbox'[v][j].op = "recv" => i = j
<1>1. /\ DOMAIN inbox[v] = 1..Len(inbox[v]) /\ Len(inbox[v]) \in Nat
      /\ DOMAIN inbox'[v] = 1..(Len(inbox[v]) + 1)
      /\ \A i \in DOMAIN inbox[v] : inbox'[v][i] = inbox[v][i]
      /\ inbox'[v][Len(inbox[v]) + 1] = c
  BY Given, SMTT(20)
<1>2. \A i \in DOMAIN inbox'[v] : i \in DOMAIN inbox[v] \/ i = Len(inbox[v]) + 1
  BY <1>1, SMTT(20)
<1>3. Len(inbox[v]) + 1 \in DOMAIN inbox'[v]
  BY <1>1, SMTT(20)
<1>4. \A i \in DOMAIN inbox[v] : inbox'[v][i].op # "recv"
  BY <1>1, Zenon DEF RecvQueued
<1> QED
  BY <1>1, <1>2, <1>3, <1>4, Zenon DEF RecvQueued

\* Every worker is asked for one receive more.
LEMMA PauseRounds ==
  ASSUME WeightTypes, ClientsInv, NEW m \in Nat, RoundInv(m), PauseAndReceive,
         UNCHANGED <<engineVars, tensor, tpc, round, reply, gaveUp>>
  PROVE  RoundInv(m + 1)'
<1>1. UNCHANGED <<pc, entered, cargo, signal, tensor, tpc, round, version, published>> /\ spc = "pause" /\ spc' = "recv"
  BY Zenon DEF engineVars, PauseAndReceive, Rpc
<1>2. /\ \A t \in Senders : inbox'[t] = inbox[t]
      /\ \A v \in Receivers : /\ got'[v] = Unanswered
                              /\ \E c \in Commands : inbox'[v] = Append(inbox[v], c) /\ c.op = Asking'
  BY RpcTypes, Zenon
<1>3. m < Begun(Rank0) /\ \A v \in Receivers : ~Behind(v)
  BY <1>1, Zenon DEF RoundInv, MayAsk
<1>4. \A t \in Senders : SendRound(t)' /\ Begun(t)' = Begun(t)
  <2>1. SUFFICES ASSUME NEW t \in Senders PROVE SendRound(t)' /\ Begun(t)' = Begun(t)
    OBVIOUS
  <2>2. SendRound(t)
    BY Zenon DEF RoundInv
  <2>3. Begun(t)' = Begun(t)
    BY <1>1, <1>2, Zenon DEF Begun, SendQueued
  <2> QED
    BY <1>1, <2>2, <2>3, Zenon DEF SendRound, Meetings
<1>5. ASSUME NEW v \in Receivers
      PROVE  RecvRound(v, m + 1)' /\ Behind(v)' /\ version < m + 1
  <2>1. RecvRound(v, m) /\ ~Behind(v) /\ inbox[v] \in Seq(Commands) /\ WorkerInv(v)
    BY <1>3, Zenon DEF RoundInv, WeightTypes, AgentTypes, Agents, ClientsInv
  <2>2. PICK c \in Commands : inbox'[v] = Append(inbox[v], c) /\ c.op = Asking'
    BY <1>2, Zenon
  <2>3. c.op = "recv"
    BY <1>1, <2>2 DEF Asking
  <2>4. ~RecvQueued(v) /\ pc[v] \notin {"meet", "move", "leave"}
    BY <2>1, Zenon DEF Behind
  <2>5. /\ RecvQueued(v)'
        /\ \A i, j \in DOMAIN inbox'[v] : inbox'[v][i].op = "recv" /\ inbox'[v][j].op = "recv" => i = j
    BY <2>1, <2>2, <2>3, <2>4, OneReceive, Zenon
  <2>6. pc[v] \in {"idle", "cleared"}
    <3>1. pc[v] \notin Registering
      BY <1>1, <2>1 DEF WorkerInv
    <3> QED
      BY <2>1, <2>4, <3>1, Zenon DEF WorkerInv, Receiving
  <2>7. Meetings(v) = 2 * m /\ version \in Nat
    BY <2>1, <2>4, SMTT(20) DEF RecvRound, WeightTypes, ClientTypes
  <2>8. Meetings(v)' = Meetings(v) /\ 2 * version <= Meetings(v) /\ entered[v]["local"] = m + 1
    BY <1>1, <2>1 DEF Meetings, RecvRound, Early
  <2>9. version < m + 1 /\ Meetings(v)' = 2 * (m + 1) - 2
    BY <2>7, <2>8, SMTT(20)
  <2>10. \A k \in 0..Rounds : Meetings(v)' \in {2 * k, 2 * k + 1} => tensor'[v] = {k}
    BY <1>1, <2>1, <2>8, Zenon DEF RecvRound
  <2>11. Behind(v)'
    BY <2>5, Zenon DEF Behind
  <2> QED
    BY <1>1, <1>2, <2>5, <2>6, <2>8, <2>9, <2>10, <2>11, Zenon DEF RecvRound
<1>6. \A r \in Agents : LockStep(r)'
  BY <1>1, NobodyMoves, Zenon
<1>7. Begun(Rank0)' = Begun(Rank0) /\ Begun(Rank0) \in Int /\ Least(Receivers) \in Receivers
  BY <1>4, Leaders, RoundTypes, Zenon
<1>8. m + 1 <= Begun(Rank0)'
  BY <1>3, <1>7, SMTT(20)
<1>9. published' <= version' /\ version' < m + 1 /\ Behind(Least(Receivers))'
  BY <1>1, <1>5, <1>7, Zenon DEF RoundInv
<1>10. \A v \in Receivers : Fenced(v)'
  BY <1>5, Zenon DEF Fenced
<1> QED
  BY <1>1, <1>4, <1>5, <1>6, <1>8, <1>9, <1>10 DEF RoundInv, Early

\* No answer is not the answer that there is something to receive.
LEMMA NoAnswer == NoReply.value # 1
  BY DEF NoReply

\* The server goes on without asking.
LEMMA LoopRounds ==
  ASSUME WeightTypes, ClientsInv, NEW m \in Nat, RoundInv(m),
         StartLoop \/ SignalSeen \/ Resume \/ PublishVersion \/ Reopen,
         UNCHANGED <<engineVars, tensor, tpc, round, reply, gaveUp>>
  PROVE  RoundInv(m)'
<1>1. UNCHANGED <<pc, entered, cargo, signal, inbox, got>>
  BY Zenon DEF engineVars, StartLoop, SignalSeen, Resume, PublishVersion, Reopen
<1>2. version \in Nat /\ published \in Nat /\ published <= version /\ \A v \in Receivers : Meetings(v) \in Nat
  BY RoundTypes DEF WeightTypes, ClientTypes, RoundInv, Agents
<1>3. ASSUME NEW v \in Receivers, spc' \notin Early => spc \notin Early \/ entered[v]["local"] = IF Behind(v) THEN m ELSE m + 1,
             2 * version' <= Meetings(v),
             ~gaveUp' /\ (RecvQueued(v) \/ pc[v] \in Receiving) => FALSE
      PROVE  RecvRound(v, m)' /\ (Behind(v)' <=> Behind(v))
  <2>1. RecvRound(v, m) /\ (RecvQueued(v)' <=> RecvQueued(v))
    BY <1>1, Zenon DEF RoundInv, RecvQueued
  <2>2. \A i, j \in DOMAIN inbox'[v] : inbox'[v][i].op = "recv" /\ inbox'[v][j].op = "recv" => i = j
    BY <1>1, <2>1, Zenon DEF RecvRound
  <2> QED
    BY <1>1, <1>3, <2>1, <2>2, WorkerStays, Zenon
<1>4. ASSUME NEW v \in Receivers, spc # "recv"
      PROVE  ~(~gaveUp' /\ (RecvQueued(v) \/ pc[v] \in Receiving))
  BY <1>4, Zenon DEF RoundInv, RecvRound
<1>5. \A v \in Receivers : RecvRound(v, m) /\ 2 * version <= Meetings(v)
  BY Zenon DEF RoundInv, RecvRound
<1>6. CASE StartLoop
  <2>1. spc = "setup" /\ RpcDone /\ version' = version /\ published' \in {0, published} /\ spc' \in {"loop", "down"}
        /\ spc' = (IF RpcOk THEN "loop" ELSE "down")
    BY <1>6 DEF StartLoop
  <2>2. m = 0
    BY <2>1 DEF RoundInv, Early
  <2>3. ASSUME NEW v \in Receivers, spc' \notin Early PROVE entered[v]["local"] = IF Behind(v) THEN m ELSE m + 1
    <3>1. got[v].ok /\ got[v] # Unanswered /\ WorkerInv(v)
      BY <2>1, <2>3 DEF Early, RpcOk, RpcDone, ClientsInv
    <3>2. entered[v]["local"] = 1
      BY <2>1, <3>1, Zenon DEF WorkerInv, SetupInv
    <3>3. ~RecvQueued(v)
      <4>1. ~Awaits(v)
        BY <3>1, Zenon DEF Awaits
      <4>2. \A i \in DOMAIN inbox[v] : spc \notin Early
        BY <3>1, <4>1, Unawaited, Zenon
      <4> QED
        BY <2>1, <4>2 DEF Early, RecvQueued
    <3>4. pc[v] \notin {"meet", "move", "leave"}
      BY <2>1, <3>1 DEF WorkerInv, Early, Registering
    <3>5. ~Behind(v)
      BY <3>3, <3>4, Zenon DEF Behind
    <3> QED
      BY <2>2, <3>2, <3>5, SMTT(20)
  <2>4. spc # "recv" /\ spc \in Early /\ spc' \notin {"recv", "pause", "query"}
    BY <2>1 DEF Early
  <2>5. \A v \in Receivers : RecvRound(v, m)' /\ (Behind(v)' <=> Behind(v))
    BY <1>3, <1>4, <1>5, <2>1, <2>3, <2>4, Zenon
  <2>6. published' <= version'
    <3>1. version' = version /\ published' \in {0, published}
      BY <2>1, Zenon
    <3>2. version \in Nat /\ published \in Nat /\ published <= version
      BY <1>2, Zenon
    <3> QED
      BY <3>1, <3>2
  <2> QED
    BY <1>1, <2>4, <2>5, <2>6, ServerStays, Zenon
<1>7. CASE SignalSeen \/ PublishVersion \/ Reopen
  <2>1. /\ version' = version /\ published' \in {published, version} /\ spc \in {"query", "publish", "reopen"}
        /\ spc' \in {"pause", "loop", "reopen"}
        /\ spc' = "pause" => spc = "query" /\ \E v \in Receivers : got[v].value = 1
    BY <1>7 DEF SignalSeen, PublishVersion, Reopen
  <2>2. spc # "recv" /\ spc \notin Early /\ spc' \notin {"recv", "query"} /\ spc' \notin Early
    BY <2>1 DEF Early
  <2>3. \A v \in Receivers : RecvRound(v, m)' /\ (Behind(v)' <=> Behind(v))
    BY <1>3, <1>4, <1>5, <2>1, <2>2, Zenon
  <2>4. published' <= version'
    <3>1. version' = version /\ published' \in {published, version}
      BY <2>1, Zenon
    <3>2. version \in Nat /\ published <= version
      BY <1>2, Zenon
    <3> QED
      BY <3>1, <3>2
  <2>5. spc' = "pause" => MayAsk(m)
    BY <2>1, Zenon DEF RoundInv
  <2> QED
    BY <1>1, <2>2, <2>3, <2>4, <2>5, ServerStays, Zenon
<1>8. CASE Resume
  <2>1. /\ spc = "recv" /\ RpcDone /\ published' = published /\ spc' \in {"publish", "reopen"}
        /\ version' = (IF RpcOk THEN version + 1 ELSE version)
    BY <1>8 DEF Resume
  <2>2. version < m /\ spc \notin Early /\ spc' \notin {"recv", "query", "pause"} /\ spc' \notin Early
    BY <2>1 DEF RoundInv, Early
  <2>3. ASSUME NEW v \in Receivers PROVE RecvRound(v, m)' /\ (Behind(v)' <=> Behind(v))
    <3>1. RecvRound(v, m) /\ WorkerInv(v) /\ got[v] # Unanswered
      BY <2>1, Zenon DEF RoundInv, ClientsInv, RpcDone
    <3>2. ~(~gaveUp' /\ (RecvQueued(v) \/ pc[v] \in Receiving))
      BY <3>1, Zenon DEF RecvRound
    <3>3. 2 * version' <= Meetings(v)
      <4>1. CASE RpcOk
        <5>1. inbox[v] = <<>> /\ pc[v] = "idle"
          BY <2>1, <3>1, <4>1, Zenon DEF RpcOk, WorkerInv, Quiet
        <5>2. ~RecvQueued(v)
          BY <5>1 DEF RecvQueued
        <5>3. Meetings(v) = 2 * m - 0
          BY <3>1, <5>1, <5>2 DEF RecvRound
        <5> QED
          <6>1. version' = version + 1 /\ version < m /\ version \in Nat
            BY <1>2, <2>1, <2>2, <4>1, Zenon
          <6> QED
            BY <5>3, <6>1, NextCounts, Zenon
      <4>2. CASE ~RpcOk
        BY <1>5, <2>1, <4>2, Zenon
      <4> QED
        BY <4>1, <4>2
    <3> QED
      BY <1>3, <2>2, <3>2, <3>3, Zenon
  <2>4. published' <= version'
    BY <1>2, <2>1, SMTT(20)
  <2> QED
    BY <1>1, <2>2, <2>3, <2>4, ServerStays, Zenon
<1> QED
  BY <1>6, <1>7, <1>8

\* The server takes an answer, or gives up waiting for it.
LEMMA HeardRounds ==
  ASSUME WeightTypes, ClientsInv, NEW m \in Nat, RoundInv(m), NEW v \in Receivers,
         \/ WorkerAnswers(v)
         \/ WorkerTimeout(v),
         UNCHANGED <<engineVars, tensor, tpc, round>>
  PROVE  RoundInv(m)'
<1>1. UNCHANGED <<pc, entered, cargo, signal, spc, version, published>>
  BY Zenon DEF engineVars, WorkerAnswers, WorkerTimeout
<1>2. /\ v \in Agents /\ got \in [Receivers -> Replies \cup {Unanswered}] /\ reply \in [Agents -> Replies \cup {NoReply}]
      /\ inbox \in [Agents -> Seq(Commands)]
  BY DEF Agents, WeightTypes, AgentTypes, ClientTypes
<1>3. /\ \A q \in Agents \ {v} : inbox'[q] = inbox[q] /\ reply'[q] = reply[q]
      /\ \A w \in Receivers \ {v} : got'[w] = got[w]
      /\ DOMAIN inbox'[v] = DOMAIN inbox[v]
      /\ \A i \in DOMAIN inbox[v] : inbox'[v][i].op = inbox[v][i].op
  <2>1. CASE WorkerAnswers(v)
    BY <1>2, <2>1, Zenon DEF WorkerAnswers, Read
  <2>2. CASE WorkerTimeout(v)
    <3>1. Forget(v) /\ reply' = reply
      BY <2>2, Zenon DEF WorkerTimeout
    <3>2. /\ \A q \in Agents \ {v} : inbox'[q] = inbox[q]
          /\ DOMAIN inbox'[v] = DOMAIN inbox[v]
          /\ \A i \in DOMAIN inbox[v] : inbox'[v][i].op = inbox[v][i].op
      BY <1>2, <3>1, Forgotten, Zenon
    <3>3. \A w \in Receivers \ {v} : got'[w] = got[w]
      BY <1>2, <2>2, Zenon DEF WorkerTimeout
    <3> QED
      BY <3>1, <3>2, <3>3, Zenon
  <2> QED
    BY <2>1, <2>2
<1>4. /\ \A t \in Senders : inbox'[t] = inbox[t]
      /\ \A w \in Receivers \ {v} : inbox'[w] = inbox[w]
  <2>1. \A q \in Senders \cup (Receivers \ {v}) : q \in Agents \ {v}
    BY SidesAssumption DEF Agents
  <2> QED
    BY <1>3, <2>1, Zenon
<1>5. \A w \in Receivers : /\ RecvQueued(w)' <=> RecvQueued(w)
                           /\ \A i, j \in DOMAIN inbox'[w] : inbox'[w][i].op = "recv" /\ inbox'[w][j].op = "recv" => i = j
  <2>1. SUFFICES ASSUME NEW w \in Receivers
                 PROVE  /\ RecvQueued(w)' <=> RecvQueued(w)
                        /\ \A i, j \in DOMAIN inbox'[w] : inbox'[w][i].op = "recv" /\ inbox'[w][j].op = "recv" => i = j
    OBVIOUS
  <2>2. \A i, j \in DOMAIN inbox[w] : inbox[w][i].op = "recv" /\ inbox[w][j].op = "recv" => i = j
    BY Zenon DEF RoundInv, RecvRound
  <2>3. CASE w = v
    BY <1>3, <2>2, <2>3, Zenon DEF RecvQueued
  <2>4. CASE w # v
    BY <1>4, <2>2, <2>4, Zenon DEF RecvQueued
  <2> QED
    BY <2>3, <2>4
<1>6. (WorkerAnswers(v) /\ gaveUp' = gaveUp) \/ (spc = "query" /\ gaveUp' = gaveUp) \/ gaveUp'
  BY DEF WorkerAnswers, WorkerTimeout
<1>7. \A w \in Receivers : RecvRound(w, m)' /\ (Behind(w)' <=> Behind(w))
  <2>1. SUFFICES ASSUME NEW w \in Receivers PROVE RecvRound(w, m)' /\ (Behind(w)' <=> Behind(w))
    OBVIOUS
  <2>2. RecvRound(w, m)
    BY Zenon DEF RoundInv
  <2>3. 2 * version' <= Meetings(w)
    BY <1>1, <2>2, Zenon DEF RecvRound
  <2>4. ~gaveUp' /\ (RecvQueued(w) \/ pc[w] \in Receiving) => spc' = "recv" /\ got'[w] = Unanswered
    <3>1. SUFFICES ASSUME ~gaveUp', RecvQueued(w) \/ pc[w] \in Receiving PROVE spc' = "recv" /\ got'[w] = Unanswered
      OBVIOUS
    <3>2. spc # "query" => WorkerAnswers(v) /\ ~gaveUp
      BY <1>6, <3>1, Zenon
    <3>3. CASE spc = "query"
      <4>1. ~gaveUp
        BY <1>6, <3>1, Zenon DEF WorkerAnswers
      <4> QED
        BY <2>2, <3>1, <3>3, <4>1 DEF RecvRound
    <3>4. CASE spc # "query" /\ w = v
      <4>1. reply[v] # NoReply /\ WorkerInv(v)
        BY <3>2, <3>4, Zenon DEF WorkerAnswers, Read, Answered, ClientsInv
      <4>2. inbox[v] = <<>> /\ pc[v] = "idle"
        BY <4>1, Zenon DEF WorkerInv, Quiet
      <4> QED
        BY <3>1, <3>4, <4>2 DEF RecvQueued, Receiving
    <3>5. CASE spc # "query" /\ w # v
      BY <1>1, <1>3, <2>2, <3>1, <3>2, <3>5, Zenon DEF RecvRound
    <3> QED
      BY <3>3, <3>4, <3>5
  <2>5. spc' \notin Early => spc \notin Early
    BY <1>1, Zenon
  <2> QED
    BY <1>1, <1>5, <2>2, <2>3, <2>4, <2>5, WorkerStays, Zenon
<1>8. spc' = "query" => \A w \in Receivers : reply'[w].value = 1 \/ got'[w].value = 1 => MayAsk(m)
  <2>1. SUFFICES ASSUME spc = "query", NEW w \in Receivers, reply'[w].value = 1 \/ got'[w].value = 1 PROVE MayAsk(m)
    BY <1>1, Zenon
  <2>2. reply[w].value = 1 \/ got[w].value = 1 => MayAsk(m)
    BY <2>1, Zenon DEF RoundInv
  <2>3. CASE w # v
    <3>1. reply'[w] = reply[w] /\ got'[w] = got[w]
      BY <1>3, <2>3, Zenon DEF Agents
    <3> QED
      BY <2>1, <2>2, <3>1, Zenon
  <2>4. CASE w = v /\ WorkerAnswers(v)
    <3>1. reply'[w] = NoReply /\ got'[w] = reply[w]
      BY <1>2, <2>4, Zenon DEF WorkerAnswers, Read
    <3>2. NoReply.value # 1
      BY NoAnswer, Zenon
    <3> QED
      BY <2>1, <2>2, <3>1, <3>2, Zenon
  <2>5. CASE w = v /\ WorkerTimeout(v)
    <3>1. reply'[w] = reply[w] /\ got'[w] = [ok |-> TRUE, value |-> 0]
      BY <1>2, <2>1, <2>5, Zenon DEF WorkerTimeout
    <3>2. got'[w].value # 1
      BY <3>1
    <3> QED
      BY <2>1, <2>2, <3>1, <3>2, Zenon
  <2> QED
    BY <2>3, <2>4, <2>5
<1>9. /\ published' <= version' /\ (spc' = "recv" => version' < m) /\ (spc' = "pause" => MayAsk(m))
      /\ spc' \in Early => spc \in Early
  BY <1>1, Zenon DEF RoundInv
<1> QED
  BY <1>1, <1>4, <1>7, <1>8, <1>9, ServerStays, Zenon

\* A step of the server keeps the account of the rounds, for one receive more if it asks for one.
LEMMA ServerRounds ==
  ASSUME WeightTypes, ClientsInv, NEW m \in Nat, RoundInv(m),
         \/ ServerStep
         \/ \E v \in Receivers : WorkerTimeout(v) /\ UNCHANGED <<engineVars, tensor, case, tpc, round, gate, since, chatVars>>
  PROVE  \E n \in Nat : RoundInv(n)'
<1>1. UNCHANGED <<engineVars, tensor, tpc, round>>
  BY Zenon DEF ServerStep
<1>2. CASE \E v \in Receivers : WorkerAnswers(v) \/ WorkerTimeout(v)
  BY <1>1, <1>2, HeardRounds, Zenon
<1>3. CASE (SetupTensorbus \/ QueryWorkers) /\ UNCHANGED <<reply, gaveUp>>
  BY <1>1, <1>3, AskRounds, Zenon
<1>4. CASE (StartLoop \/ SignalSeen \/ Resume \/ PublishVersion \/ Reopen) /\ UNCHANGED <<reply, gaveUp>>
  BY <1>1, <1>4, LoopRounds, Zenon
<1>5. CASE PauseAndReceive /\ UNCHANGED <<reply, gaveUp>>
  <2>1. RoundInv(m + 1)'
    BY <1>1, <1>5, PauseRounds, Zenon
  <2>2. m + 1 \in Nat
    BY SMTT(20)
  <2> QED
    BY <2>1, <2>2, Zenon
<1> QED
  BY <1>2, <1>3, <1>4, <1>5, Zenon DEF ServerStep

\* At the start nobody has sent or received.
LEMMA RoundsStart ==
  ASSUME Init
  PROVE  RoundInv(0)
<1>1. \A r \in Agents : /\ inbox[r] = <<>> /\ pc[r] = "idle" /\ entered[r]["batch"] = 0
                        /\ tensor[r] = {0} /\ reply[r] = NoReply
  BY Zenon DEF Init, AgentInit
<1>2. /\ spc = "start" /\ version = 0 /\ published = 0 /\ signal = "none"
      /\ \A t \in Senders : tpc[t] = "start" /\ round[t] = 0
  BY Zenon DEF Init, AgentInit
<1>3. \A t \in Senders : t \in Agents /\ ~SendQueued(t)
  BY <1>1, Zenon DEF Agents, SendQueued
<1>4. \A t \in Senders : Begun(t) = 0
  BY <1>2, <1>3 DEF Begun
<1>5. \A t \in Senders : SendRound(t)
  <2>1. SUFFICES ASSUME NEW t \in Senders PROVE SendRound(t)
    OBVIOUS
  <2>2. Meetings(t) = 0 /\ pc[t] = "idle" /\ tensor[t] = {round[t]} /\ Begun(t) = 0
    BY <1>1, <1>2, <1>3, <1>4, Zenon DEF Meetings
  <2>3. \A k \in 1..Rounds : Meetings(t) \notin {2 * k, 2 * k + 1}
    BY <2>2, RoundsAssumption, SMTT(20)
  <2>4. Meetings(t) = 2 * Begun(t) - 0
    BY <2>2, SMTT(20)
  <2>5. pc[t] # "announced" /\ pc[t] \notin {"meet", "move"}
    BY <2>2
  <2> QED
    BY <2>2, <2>3, <2>4, <2>5, Zenon DEF SendRound
<1>6. \A v \in Receivers : RecvRound(v, 0) /\ ~Behind(v)
  <2>1. SUFFICES ASSUME NEW v \in Receivers PROVE RecvRound(v, 0) /\ ~Behind(v)
    OBVIOUS
  <2>2. Meetings(v) = 0 /\ pc[v] = "idle" /\ tensor[v] = {0} /\ inbox[v] = <<>>
    BY <1>1, Zenon DEF Meetings, Agents
  <2>3. DOMAIN inbox[v] = {}
    BY <2>2, SMTT(20)
  <2>4. ~RecvQueued(v) /\ ~Behind(v)
    BY <2>2, <2>3 DEF RecvQueued, Behind
  <2>5. \A k \in 0..Rounds : Meetings(v) \in {2 * k, 2 * k + 1} => tensor[v] = {k}
    BY <2>2, RoundsAssumption, SMTT(20)
  <2>6. Meetings(v) = 2 * 0 - 0 /\ 2 * version <= Meetings(v) /\ pc[v] \notin Receiving /\ spc \in Early
    BY <1>2, <2>2, SMTT(20) DEF Receiving, Early
  <2> QED
    BY <2>2, <2>3, <2>4, <2>5, <2>6 DEF RecvRound
<1>7. \A r \in Agents : LockStep(r)
  BY <1>1, SMTT(20) DEF LockStep, Meetings
<1>8. 0 <= Begun(Rank0)
  BY <1>4, Leaders, SMTT(20)
<1> QED
  BY <1>2, <1>5, <1>6, <1>7, <1>8 DEF RoundInv, Fenced

\* Every step keeps the account of the rounds.
LEMMA RoundsGoOn ==
  ASSUME WeightTypes, ClientsInv, NEW m \in Nat, RoundInv(m), [Next]_vars
  PROVE  \E n \in Nat : RoundInv(n)'
<1>1. CASE \E t \in Senders : TrainerStep(t)
  BY <1>1, TrainerRounds, Zenon
<1>2. CASE \E r \in Agents : AgentMoves(r)
  BY <1>2, AgentRounds, Zenon
<1>3. CASE LeadersSwap
  BY <1>3, SwapRounds, Zenon
<1>4. CASE ServerStep
  BY <1>4, ServerRounds, Zenon
<1>5. CASE ChatStep \/ UNCHANGED vars
  <2>1. UNCHANGED <<inbox, pc, entered, signal, tensor, cargo, reply,
                    gaveUp, tpc, round, spc, got, version, published>>
    BY <1>5, Zenon DEF ChatStep, vars, agentVars, trainVars, serveVars
  <2>2. RoundInv(m)'
    BY <2>1, Zenon DEF RoundInv, LockStep, SendRound, RecvRound, Fenced, MayAsk, Begun, Behind, Meetings,
                       SendQueued, RecvQueued
  <2> QED
    BY <2>2, Zenon
<1>6. CASE Timeout
  <2>1. CASE \E t \in Senders : SendTimeout(t) /\ UNCHANGED <<engineVars, case, serveVars, chatVars>>
    BY <2>1, TrainerRounds, Zenon
  <2>2. CASE \E v \in Receivers : WorkerTimeout(v) /\ UNCHANGED <<engineVars, tensor, case, tpc, round, gate, since, chatVars>>
    BY <2>2, ServerRounds, Zenon
  <2> QED
    BY <1>6, <2>1, <2>2, Zenon DEF Timeout
<1> QED
  BY <1>1, <1>2, <1>3, <1>4, <1>5, <1>6, Zenon DEF Next

-----------------------------------------------------------------------------
(* What the rounds come to *)

SyncInv == WeightTypes /\ ClientsInv /\ \E m \in Nat : RoundInv(m)

\* The account of the rounds is right at every moment: all workers were asked to receive
\* equally often, the k-th transfer carries version k to each of them, and no receive is
\* asked for that rank 0 has not begun to send (sync loop of vllm_server.py, send and recv
\* handlers of agent.py).
THEOREM RoundsAlwaysCount == Spec => []SyncInv
<1>1. Init => SyncInv
  <2>1. 0 \in Nat
    BY SMTT(20)
  <2> QED
    BY <2>1, StartsIn, RoundsStart, Zenon DEF SyncInv
<1>2. SyncInv /\ [Next]_vars => SyncInv'
  <2>1. SUFFICES ASSUME SyncInv, [Next]_vars PROVE SyncInv'
    OBVIOUS
  <2>2. PICK m \in Nat : RoundInv(m)
    BY <2>1, Zenon DEF SyncInv
  <2>3. WeightTypes' /\ ClientsInv'
    BY <2>1, KeptAlways, Zenon DEF SyncInv
  <2>4. \E n \in Nat : RoundInv(n)'
    BY <2>1, <2>2, RoundsGoOn, Zenon DEF SyncInv
  <2> QED
    BY <2>3, <2>4, Zenon DEF SyncInv
<1> QED
  BY <1>1, <1>2, PTL DEF Spec

\* What a worker holds is one version, and the version is that of its last transfer.
LEMMA WholeVersion ==
  ASSUME WeightTypes, NEW m \in Nat, RoundInv(m), NEW v \in Receivers
  PROVE  \E k \in 0..Rounds : Meetings(v) \in {2 * k, 2 * k + 1} /\ tensor[v] = {k}
<1>1. RecvRound(v, m) /\ Meetings(v) \in Nat /\ m <= Begun(Rank0) /\ Begun(Rank0) \in Int /\ Begun(Rank0) <= Rounds
  BY RoundTypes, Leaders, Zenon DEF RoundInv, Agents
<1>2. Meetings(v) \in {2 * m, 2 * m - 1, 2 * m - 2}
  BY <1>1, SMTT(20) DEF RecvRound
<1>3. \E k \in 0..Rounds : Meetings(v) \in {2 * k, 2 * k + 1}
  <2>1. m \in 0..Rounds
    BY <1>1, RoundsAssumption, SMTT(20)
  <2>2. CASE Meetings(v) = 2 * m
    BY <2>1, <2>2
  <2>3. CASE Meetings(v) # 2 * m
    <3>1. m - 1 \in 0..Rounds /\ Meetings(v) \in {2 * (m - 1), 2 * (m - 1) + 1}
      <4>1. Meetings(v) \in Nat /\ (Meetings(v) = 2 * m - 1 \/ Meetings(v) = 2 * m - 2)
        BY <1>1, <1>2, <2>3, Zenon
      <4>2. m >= 1
        BY <4>1
      <4>3. m - 1 \in 0..Rounds
        BY <2>1, <4>2, RoundsAssumption
      <4>4. 2 * m - 1 = 2 * (m - 1) + 1 /\ 2 * m - 2 = 2 * (m - 1)
        OBVIOUS
      <4> QED
        BY <4>1, <4>3, <4>4, Zenon
    <3> QED
      BY <3>1
  <2> QED
    BY <2>2, <2>3
<1> QED
  BY <1>1, <1>3, Zenon DEF RecvRound

\* Whenever generation runs, all receivers hold the same, whole version of the weights,
\* unless the server gave a receive up: for any number of ranks on either side, of rounds
\* and of timeouts (vllm_server.py resumes only after the last worker has answered, and
\* agent.py's receives all pass the batch barriers of the round).
THEOREM WeightsNeverMixed == Spec => []NoMixedWeights
<1>1. SyncInv => NoMixedWeights
  <2>1. SUFFICES ASSUME SyncInv, ~gaveUp, ~paused
                 PROVE  \E k \in 0..Rounds : \A v \in Receivers : tensor[v] = {k}
    BY Zenon DEF NoMixedWeights
  <2>2. PICK m \in Nat : RoundInv(m)
    BY <2>1, Zenon DEF SyncInv
  <2>3. spc # "recv"
    BY <2>1, Zenon DEF SyncInv, WeightTypes, ClientTypes
  <2>4. m \in 0..Rounds
    <3>1. m <= Begun(Rank0) /\ Begun(Rank0) \in Int /\ Begun(Rank0) <= Rounds
      BY <2>1, <2>2, RoundTypes, Leaders, Zenon DEF SyncInv, RoundInv
    <3> QED
      BY <3>1, InRounds, Zenon
  <2>5. ASSUME NEW v \in Receivers PROVE tensor[v] = {m}
    <3>1. RecvRound(v, m)
      BY <2>2, Zenon DEF RoundInv
    <3>2. ~RecvQueued(v) /\ pc[v] \notin {"meet", "move"}
      BY <2>1, <2>3, <3>1 DEF RecvRound, Receiving
    <3>3. Meetings(v) = 2 * m
      BY <3>1, <3>2, SMTT(20) DEF RecvRound
    <3> QED
      BY <2>4, <3>1, <3>3, Zenon DEF RecvRound
  <2> QED
    BY <2>4, <2>5
<1> QED
  BY <1>1, RoundsAlwaysCount, PTL

\* A receive is under way only while rank 0 of the trainer is sending: no poll acts on the
\* signal of a finished round, whatever times out (the receivers' leader clears the signal
\* before any receive returns, agent.py).
THEOREM NeverPhantom == Spec => []NoPhantomReceive
<1>1. SyncInv => NoPhantomReceive
  <2>1. SUFFICES ASSUME SyncInv, NEW v \in Receivers, pc[v] \in {"meet", "move"} PROVE doing[Rank0].op = "send"
    BY Zenon DEF NoPhantomReceive
  <2>2. PICK m \in Nat : RoundInv(m)
    BY <2>1, Zenon DEF SyncInv
  <2>3. /\ WeightTypes /\ ClientsInv /\ Rank0 \in Senders /\ Rank0 \in Agents /\ v \in Agents
        /\ RecvRound(v, m) /\ LockStep(Rank0) /\ SendRound(Rank0) /\ m <= Begun(Rank0)
    BY <2>1, <2>2, Leaders, Zenon DEF SyncInv, RoundInv, Agents
  <2>4. Meetings(v) = 2 * m - 1
    <3>1. ~RecvQueued(v)
      BY <2>1, <2>3 DEF RecvRound
    <3> QED
      BY <2>1, <2>3, <3>1, Zenon DEF RecvRound
  <2>5. pc[Rank0] \in Sending
    <3>1. SUFFICES ASSUME pc[Rank0] \notin Sending PROVE FALSE
      OBVIOUS
    <3>2. Meetings(Rank0) = 2 * Begun(Rank0) - 0
      BY <2>3, <3>1 DEF SendRound, Sending
    <3>3. Meetings(v) >= Meetings(Rank0)
      BY <2>3, <3>1 DEF LockStep, Sending
    <3>4. Begun(Rank0) \in Int
      BY <2>3, RoundTypes, Zenon
    <3>5. 2 * m - 1 >= 2 * Begun(Rank0) - 0 /\ m <= Begun(Rank0)
      BY <2>3, <2>4, <3>2, <3>3, Zenon
    <3> QED
      BY <3>4, <3>5
  <2> QED
    BY <2>3, <2>5, SendingRound, Zenon
<1> QED
  BY <1>1, RoundsAlwaysCount, PTL

\* The published version, with which replies are tagged, is never ahead of the weights on
\* any receiver, not even after a receive that was given up (vllm_server.py counts a round
\* only when every worker has answered for it).
THEOREM TagNeverAhead == Spec => []TagNotAhead
<1>1. SyncInv => TagNotAhead
  <2>1. SUFFICES ASSUME SyncInv, NEW v \in Receivers, NEW j \in tensor[v] PROVE published <= j
    BY Zenon DEF TagNotAhead
  <2>2. PICK m \in Nat : RoundInv(m)
    BY <2>1, Zenon DEF SyncInv
  <2>3. PICK k \in 0..Rounds : Meetings(v) \in {2 * k, 2 * k + 1} /\ tensor[v] = {k}
    BY <2>1, <2>2, WholeVersion, Zenon DEF SyncInv
  <2>4. published <= version /\ 2 * version <= Meetings(v) /\ version \in Nat /\ published \in Nat
    BY <2>1, <2>2, Zenon DEF SyncInv, WeightTypes, ClientTypes, RoundInv, RecvRound
  <2>5. j = k
    BY <2>3, Zenon
  <2> QED
    <3>1. k \in Nat
      OBVIOUS
    <3> QED
      BY <2>3, <2>4, <2>5, <3>1, NotAhead, Zenon
<1> QED
  BY <1>1, RoundsAlwaysCount, PTL
=============================================================================

-------------------------- MODULE WeightSyncProofs --------------------------
(***************************************************************************)
(* Registration is agreed upon, for any number of trainer and vLLM ranks   *)
(* and of waits that time out.                                             *)
(*                                                                         *)
(* ClientsInv says which commands wait at an agent, what it is doing for   *)
(* whom and what its answer means.                                         *)
(***************************************************************************)
EXTENDS WeightSync, WellFoundedInduction, TLAPS

\* Most leaves are first-order: Zenon tries them before SMT.
USE ZenonT(3), SMTT(15)

Registering == {"gather", "swap1", "swap2", "dtype"}
Sending == {"announced", "meet", "move", "leave"}
Receiving == {"meet", "move", "leave", "cleared"}
AgentPlaces == {"idle"} \cup Registering \cup Sending \cup Receiving
TrainerPlaces == {"start", "registering", "refused", "train", "aligning", "sending", "watching",
                  "resting", "failed", "closed"}
ServerPlaces == {"start", "setup", "down", "loop", "query", "pause", "recv", "publish", "reopen"}
Early == {"start", "setup", "down"}

Commands == [op : {"register", "send", "recv", "query", "cleanup"}, gen : {0, 1}, layout : Nat,
             heard : BOOLEAN]
Doings == [op : {"none", "register", "send", "recv", "query", "cleanup"}, gen : {0, 1}, layout : Nat,
           heard : BOOLEAN]
Replies == [ok : BOOLEAN, value : {0, 1}]

AgentTypes ==
  /\ dtypes \in DTypePairs
  /\ inbox \in [Agents -> Seq(Commands)]
  /\ doing \in [Agents -> Doings]
  /\ pc \in [Agents -> AgentPlaces]
  /\ offers \in [Agents -> Seq(Nat)]
  /\ entered \in [Agents -> [{"local", "batch"} -> Nat]]
  /\ batch \in [Agents -> {0, 1}] /\ gens \in [Agents -> {0, 1}]
  /\ DOMAIN wire = Agents /\ DOMAIN tensor = Agents /\ DOMAIN cargo = Agents
  /\ \A r \in Agents : wire[r] \in {Untyped, TransferDtype(OwnType(r), RemoteType(r))}
  /\ signal \in {"none", "0", "1"}
  /\ reply \in [Agents -> Replies \cup {NoReply}]

ClientTypes ==
  /\ case \in Cases
  /\ gen \in [Agents -> {0, 1}]
  /\ tpc \in [Senders -> TrainerPlaces]
  /\ round \in [Senders -> 0..Rounds]
  /\ spc \in ServerPlaces
  /\ got \in [Receivers -> Replies \cup {Unanswered}]
  /\ gaveUp \in BOOLEAN /\ paused = (spc = "recv")
  /\ version \in Nat /\ published \in Nat

WeightTypes == AgentTypes /\ ClientTypes

-----------------------------------------------------------------------------
(* Clients and their agents *)

\* All ranks register the same layout.
Agreed == \A q, r \in Agents : case.layouts[q] = case.layouts[r]

\* The agent has nothing to do.
Quiet(r) == inbox[r] = <<>> /\ pc[r] = "idle"

\* It has a send to begin with.
SendQueued(t) == inbox[t] # <<>> /\ inbox[t][1].op = "send"

\* A registration is taken up once.
RegisterInv(r) ==
  /\ offers[r] \in {<<>>, <<case.layouts[r]>>}
  /\ pc[r] \in Registering => offers[r] # <<>>
  /\ batch[r] = 1 => Agreed
  /\ gens[r] = 1 => offers[r] # <<>> /\ pc[r] # "gather"
  /\ pc[r] \in Registering \ {"gather"} => batch[r] = 1

\* The i-th command in the queue of t: a trainer rank waits for its commands, but after
\* a send that it gave up for the send only.
SenderCommand(t, i) ==
  \/ /\ inbox[t][i].op = "register" /\ inbox[t][i].layout = case.layouts[t]
     /\ Len(inbox[t]) = 1 /\ pc[t] = "idle" /\ tpc[t] = "registering"
     /\ offers[t] = <<>> /\ reply[t] = NoReply
  \/ /\ inbox[t][i].op = "send" /\ i = 1 /\ pc[t] = "idle"
     /\ tpc[t] \in {"sending", "failed", "closed"} /\ batch[t] = 1 /\ reply[t] = NoReply
     /\ inbox[t][i].heard => tpc[t] = "sending"
  \/ /\ inbox[t][i].op = "cleanup" /\ i = Len(inbox[t])
     /\ tpc[t] = "closed" /\ batch[t] = 1 /\ reply[t] = NoReply

SenderInv(t) ==
  /\ \A i \in DOMAIN inbox[t] : SenderCommand(t, i)
  /\ pc[t] \in Registering => tpc[t] = "registering" /\ reply[t] = NoReply
  /\ pc[t] \notin Registering \cup {"idle"} =>
       /\ pc[t] \in Sending /\ doing[t].op = "send" /\ reply[t] = NoReply
       /\ tpc[t] \in {"sending", "failed", "closed"} /\ batch[t] = 1
       /\ doing[t].heard => tpc[t] = "sending"
  /\ reply[t] # NoReply =>
       /\ tpc[t] \in {"registering", "sending", "closed"} /\ Quiet(t)
       /\ tpc[t] = "registering" => IF reply[t].ok THEN batch[t] = 1 ELSE ~Agreed
       /\ tpc[t] = "sending" => reply[t].ok
  /\ tpc[t] = "start" => offers[t] = <<>>
  /\ tpc[t] = "refused" => ~Agreed
  /\ tpc[t] \in {"train", "aligning", "sending", "watching", "resting", "failed"} => batch[t] = 1

\* The server waits for the answer of v.
Awaits(v) == spc \in {"setup", "query", "recv"} /\ got[v] = Unanswered

\* What the server asks its workers for.
Asking == IF spc = "setup" THEN "register" ELSE spc

\* What became of the registration of v.
SetupInv(v, answer) == IF answer.ok THEN batch[v] = 1 /\ entered[v]["local"] = 1 ELSE ~Agreed

\* A worker's agent has at most one command that somebody waits for, and that is the
\* last one it was given.
WorkerCommand(v, i) ==
  /\ inbox[v][i].op \in {"register", "query", "recv"}
  /\ inbox[v][i].op = "register" =>
       /\ inbox[v][i].layout = case.layouts[v] /\ Len(inbox[v]) = 1 /\ pc[v] = "idle"
       /\ spc = "setup" /\ offers[v] = <<>> /\ inbox[v][i].heard
  /\ inbox[v][i].op # "register" => spc \notin Early
  /\ inbox[v][i].heard =>
       i = Len(inbox[v]) /\ Awaits(v) /\ inbox[v][i].op = Asking /\ reply[v] = NoReply

WorkerInv(v) ==
  /\ \A i \in DOMAIN inbox[v] : WorkerCommand(v, i)
  /\ doing[v].heard =>
       inbox[v] = <<>> /\ Awaits(v) /\ doing[v].op = Asking /\ reply[v] = NoReply
  /\ pc[v] = "idle" => ~doing[v].heard
  /\ pc[v] \in Registering => spc = "setup" /\ doing[v].heard
  /\ pc[v] \notin Registering \cup {"idle"} =>
       pc[v] \in Receiving /\ doing[v].op = "recv" /\ spc \notin Early
  /\ reply[v] # NoReply => Awaits(v) /\ Quiet(v) /\ (spc = "setup" => SetupInv(v, reply[v]))
  /\ spc = "start" => offers[v] = <<>>
  /\ spc = "setup" /\ got[v] # Unanswered => SetupInv(v, got[v])
  /\ spc \notin Early => batch[v] = 1
  /\ spc \in Early => IF offers[v] = <<>> \/ pc[v] \in {"gather", "swap1", "swap2"}
                      THEN entered[v]["local"] = 0 ELSE pc[v] = "dtype" => entered[v]["local"] = 1
  /\ spc = "recv" /\ got[v].ok => Quiet(v)

ClientsInv ==
  /\ \A r \in Agents : RegisterInv(r)
  /\ \A t \in Senders : SenderInv(t)
  /\ \A v \in Receivers : WorkerInv(v)
  /\ spc = "down" => ~Agreed

-----------------------------------------------------------------------------
(* Leaders, commands, and what a step leaves alone *)

\* A set of ranks has a leader.
LEMMA LeastIn ==
  ASSUME NEW S \in SUBSET Nat, S # {}
  PROVE  Least(S) \in S
<1>1. PICK x \in S : \A y \in S : ~(<<y, x>> \in OpToRel(<, Nat))
  BY WFMin, NatLessThanWellFounded, Zenon
<1>2. \A y \in S : x <= y
  <2>1. ASSUME NEW y \in S PROVE ~(y < x)
    BY <1>1, Zenon DEF OpToRel
  <2> QED
    BY <2>1, SMT
<1> QED
  BY <1>2, Zenon DEF Least

\* Each side has a leader of its own, and a rank is on one side.
LEMMA Leaders ==
  /\ Rank0 \in Senders /\ Least(Receivers) \in Receivers
  /\ \A r \in Agents : Leader(r) \in Agents
  /\ \A r \in Agents : r \in Senders <=> r \notin Receivers
<1>1. Least(Senders) \in Senders /\ Least(Receivers) \in Receivers
  BY LeastIn, SidesAssumption
<1> QED
  BY <1>1, SidesAssumption DEF Rank0, Leader, SideOf, Agents

\* An agent takes the first command of its queue.
LEMMA Taken ==
  ASSUME WeightTypes, NEW r \in Agents, Take(r)
  PROVE  /\ pc[r] = "idle" /\ Head(inbox[r]) = inbox[r][1] /\ inbox[r][1] \in Commands
         /\ inbox' \in [Agents -> Seq(Commands)] /\ inbox'[r] = Tail(inbox[r])
         /\ \A q \in Agents \ {r} : inbox'[q] = inbox[q]
         /\ inbox[r] # <<>> /\ Len(inbox[r]) \in Nat /\ Len(inbox'[r]) = Len(inbox[r]) - 1
         /\ DOMAIN inbox[r] = 1..Len(inbox[r]) /\ 1 \in DOMAIN inbox[r]
         /\ DOMAIN inbox'[r] = 1..(Len(inbox[r]) - 1)
         /\ \A i \in DOMAIN inbox'[r] : i + 1 \in DOMAIN inbox[r] /\ inbox'[r][i] = inbox[r][i + 1]
         /\ Len(inbox[r]) = 1 => inbox'[r] = <<>>
<1>1. pc[r] = "idle" /\ inbox[r] \in Seq(Commands) /\ inbox[r] # <<>>
  BY DEF Take, Idle, WeightTypes, AgentTypes
<1>2. inbox'[r] = Tail(inbox[r]) /\ \A q \in Agents \ {r} : inbox'[q] = inbox[q]
  BY DEF Take, WeightTypes, AgentTypes
<1>3. Tail(inbox[r]) \in Seq(Commands)
  BY <1>1, SMT
<1>4. inbox' \in [Agents -> Seq(Commands)]
  BY <1>3, SMT DEF Take, WeightTypes, AgentTypes
<1>5. /\ Head(inbox[r]) = inbox[r][1] /\ inbox[r][1] \in Commands
      /\ Len(inbox[r]) \in Nat /\ Len(Tail(inbox[r])) = Len(inbox[r]) - 1
      /\ DOMAIN inbox[r] = 1..Len(inbox[r]) /\ 1 \in DOMAIN inbox[r]
      /\ DOMAIN Tail(inbox[r]) = 1..(Len(inbox[r]) - 1)
  BY <1>1, SMT
<1>6. \A i \in DOMAIN Tail(inbox[r]) :
         i + 1 \in DOMAIN inbox[r] /\ Tail(inbox[r])[i] = inbox[r][i + 1]
  BY <1>1, <1>5, SMT
<1>7. Len(inbox[r]) = 1 => Tail(inbox[r]) = <<>>
  BY <1>1, <1>3, <1>5, SMT
<1> QED
  BY <1>1, <1>2, <1>4, <1>5, <1>6, <1>7, Zenon

\* A client gives its agent another command.
LEMMA Given ==
  ASSUME NEW box \in Seq(Commands), NEW c \in Commands
  PROVE  /\ Append(box, c) \in Seq(Commands) /\ Len(Append(box, c)) = Len(box) + 1
         /\ Len(box) \in Nat /\ DOMAIN box = 1..Len(box)
         /\ DOMAIN Append(box, c) = 1..(Len(box) + 1) /\ Append(box, c) # <<>>
         /\ \A i \in DOMAIN box : Append(box, c)[i] = box[i]
         /\ Append(box, c)[Len(box) + 1] = c
  BY SMT

\* Nothing at q changes.
Same(q) ==
  /\ inbox'[q] = inbox[q] /\ doing'[q] = doing[q] /\ pc'[q] = pc[q] /\ offers'[q] = offers[q]
  /\ entered'[q] = entered[q] /\ batch'[q] = batch[q] /\ gens'[q] = gens[q]
  /\ tensor'[q] = tensor[q] /\ cargo'[q] = cargo[q] /\ reply'[q] = reply[q]

\* A step of an agent is about that agent.
LEMMA Alone ==
  ASSUME WeightTypes, NEW r \in Agents, AgentStep(r), NEW q \in Agents, q # r
  PROVE  Same(q)
<1>1. /\ inbox \in [Agents -> Seq(Commands)] /\ doing \in [Agents -> Doings]
      /\ pc \in [Agents -> AgentPlaces] /\ offers \in [Agents -> Seq(Nat)]
      /\ entered \in [Agents -> [{"local", "batch"} -> Nat]]
      /\ batch \in [Agents -> {0, 1}] /\ gens \in [Agents -> {0, 1}]
      /\ DOMAIN tensor = Agents /\ DOMAIN cargo = Agents
      /\ reply \in [Agents -> Replies \cup {NoReply}]
  BY DEF WeightTypes, AgentTypes
<1>2. Take(r) => inbox'[q] = inbox[q]
  BY <1>1 DEF Take
<1>3. \A at : Begin(r, at) => doing'[q] = doing[q] /\ pc'[q] = pc[q] /\ reply'[q] = reply[q]
  BY <1>1 DEF Begin
<1>4. \A c, ok, value :
        AnswerTo(r, c, ok, value) => doing'[q] = doing[q] /\ pc'[q] = pc[q] /\ reply'[q] = reply[q]
  BY <1>1 DEF AnswerTo
<1>5. \A g : Enter(r, g) => entered'[q] = entered[q]
  BY <1>1 DEF Enter
<1>6. CASE StartRegister(r)
  BY <1>1, <1>2, <1>3, <1>6 DEF StartRegister, Same
<1>7. CASE Gathered(r)
  <2>1. batch'[q] = batch[q] /\ gens'[q] = gens[q]
    BY <1>1, <1>7, Zenon DEF Gathered
  <2>2. pc'[q] = pc[q] /\ doing'[q] = doing[q] /\ reply'[q] = reply[q] /\ entered'[q] = entered[q]
    BY <1>1, <1>4, <1>5, <1>7, Zenon DEF Gathered, Answer
  <2> QED
    BY <1>7, <2>1, <2>2, Zenon DEF Gathered, Same
<1>8. CASE Registered(r)
  BY <1>1, <1>4, <1>8 DEF Registered, Same, Answer
<1>9. CASE StartSend(r)
  BY <1>2, <1>3, <1>4, <1>5, <1>9 DEF StartSend, Same, RefuseTransfer
<1>10. CASE StartRecv(r)
  BY <1>2, <1>3, <1>4, <1>5, <1>10 DEF StartRecv, Same, RefuseTransfer
<1>11. CASE Announced(r)
  BY <1>1, <1>5, <1>11 DEF Announced, Same
<1>12. CASE Met(r)
  BY <1>1, <1>12 DEF Met, Same
<1>13. CASE Moved(r)
  <2>1. tensor'[q] = tensor[q] /\ cargo'[q] = cargo[q]
    BY <1>1, <1>13, Zenon DEF Moved
  <2> QED
    BY <1>1, <1>5, <1>13, <2>1, Zenon DEF Moved, Same
<1>14. CASE Leave(r)
  BY <1>1, <1>4, <1>5, <1>14 DEF Leave, Same, Answer
<1>15. CASE Cleared(r)
  BY <1>4, <1>15 DEF Cleared, Same, Answer
<1>16. CASE QuerySignal(r)
  BY <1>2, <1>4, <1>16 DEF QuerySignal, Same
<1>17. CASE CleanupBatch(r)
  BY <1>1, <1>2, <1>4, <1>17 DEF CleanupBatch, Same
<1> QED
  BY <1>6, <1>7, <1>8, <1>9, <1>10, <1>11, <1>12, <1>13, <1>14, <1>15, <1>16, <1>17, Zenon
     DEF AgentStep

\* What is said of a rank stays so where nothing changes.
LEMMA KeepRegister ==
  ASSUME NEW r \in Agents, RegisterInv(r), case' = case, Same(r)
  PROVE  RegisterInv(r)'
  BY Zenon DEF RegisterInv, Same, Agreed

\* The same of a trainer rank.
LEMMA KeepSender ==
  ASSUME NEW t \in Senders, SenderInv(t), case' = case, Same(t), tpc'[t] = tpc[t]
  PROVE  SenderInv(t)'
  BY SMT DEF SenderInv, SenderCommand, Same, Agreed, Quiet

\* The same of a worker.
LEMMA KeepWorker ==
  ASSUME NEW v \in Receivers, WorkerInv(v), case' = case, Same(v), spc' = spc, got'[v] = got[v]
  PROVE  WorkerInv(v)'
  BY SMT DEF WorkerInv, WorkerCommand, Same, Agreed, Quiet, Awaits, Asking, SetupInv

-----------------------------------------------------------------------------
(* Types *)

\* An agent begins a command.
LEMMA BeginTypes ==
  ASSUME AgentTypes, NEW r \in Agents, Head(inbox[r]) \in Commands, NEW at \in AgentPlaces,
         Begin(r, at)
  PROVE  /\ doing' \in [Agents -> Doings] /\ pc' \in [Agents -> AgentPlaces]
         /\ reply' \in [Agents -> Replies \cup {NoReply}]
         /\ doing'[r] = Head(inbox[r]) /\ pc'[r] = at /\ reply'[r] = reply[r]
<1>1. Head(inbox[r]) \in Doings
  BY Zenon DEF Commands, Doings
<1> QED
  BY <1>1, Zenon DEF AgentTypes, Begin

\* An agent answers.
LEMMA AnswerTypes ==
  ASSUME AgentTypes, NEW r \in Agents, NEW c, NEW ok \in BOOLEAN, NEW value \in {0, 1},
         AnswerTo(r, c, ok, value)
  PROVE  /\ doing' \in [Agents -> Doings] /\ pc' \in [Agents -> AgentPlaces]
         /\ reply' \in [Agents -> Replies \cup {NoReply}]
         /\ doing'[r] = Nothing /\ pc'[r] = "idle"
         /\ reply'[r] = IF c.heard THEN [ok |-> ok, value |-> value] ELSE reply[r]
<1>1. [ok |-> ok, value |-> value] \in Replies
  BY DEF Replies
<1>2. "idle" \in AgentPlaces
  BY DEF AgentPlaces
<1>3. Nothing \in Doings
  BY Zenon DEF Nothing, Doings
<1> QED
  BY <1>1, <1>2, <1>3, Zenon DEF AgentTypes, AnswerTo

\* An agent enters a collective.
LEMMA EnterTypes ==
  ASSUME AgentTypes, NEW r \in Agents, NEW g \in {"local", "batch"}, Enter(r, g)
  PROVE  /\ entered' \in [Agents -> [{"local", "batch"} -> Nat]]
         /\ entered'[r][g] = entered[r][g] + 1
         /\ \A h \in {"local", "batch"} \ {g} : entered'[r][h] = entered[r][h]
  BY SMT DEF AgentTypes, Enter

\* An agent's step keeps the types.
LEMMA AgentTypesNext ==
  ASSUME WeightTypes, ClientsInv, NEW r \in Agents, AgentStep(r), UNCHANGED dtypes
  PROVE  AgentTypes'
<1>1. AgentTypes
  BY DEF WeightTypes
<1>2. Take(r) => inbox' \in [Agents -> Seq(Commands)] /\ Head(inbox[r]) \in Commands
  BY Taken, Zenon
<1>3. {"idle", "gather", "swap1", "swap2", "dtype", "announced", "meet", "move", "leave", "cleared"}
        \subseteq AgentPlaces
  BY DEF AgentPlaces, Registering, Sending, Receiving
<1>4. CASE StartRegister(r)
  <2>1. Take(r) /\ Begin(r, "gather")
    BY <1>4 DEF StartRegister
  <2>2. Head(inbox[r]).layout \in Nat
    BY <1>2, <2>1 DEF Commands
  <2>3. offers' \in [Agents -> Seq(Nat)]
    <3>1. offers[r] \in Seq(Nat)
      BY <1>1 DEF AgentTypes
    <3>2. Append(offers[r], Head(inbox[r]).layout) \in Seq(Nat)
      BY <2>2, <3>1, SMT
    <3> QED
      BY <1>1, <1>4, <3>2 DEF StartRegister, AgentTypes
  <2>4. "gather" \in AgentPlaces
    BY <1>3
  <2>5. /\ doing' \in [Agents -> Doings] /\ pc' \in [Agents -> AgentPlaces]
        /\ reply' \in [Agents -> Replies \cup {NoReply}]
    BY <1>1, <1>2, <2>1, <2>4, BeginTypes, Zenon
  <2> QED
    BY <1>1, <1>2, <1>4, <2>1, <2>3, <2>5, Zenon
       DEF StartRegister, AgentTypes, TransferDtype, OwnType, RemoteType
<1>5. CASE Gathered(r)
  <2>1. gens[r] + 1 = 1
    <3>1. gens[r] # 1 /\ gens[r] \in {0, 1}
      BY <1>1, <1>5 DEF Gathered, ClientsInv, RegisterInv, AgentTypes
    <3> QED
      BY <3>1, SMT
  <2>2. batch' \in [Agents -> {0, 1}] /\ gens' \in [Agents -> {0, 1}]
    BY <1>1, <1>5, <2>1, Zenon DEF Gathered, AgentTypes
  <2>3. entered' \in [Agents -> [{"local", "batch"} -> Nat]]
    BY <1>1, <1>5, EnterTypes, Zenon DEF Gathered, AgentTypes
  <2>4. /\ doing' \in [Agents -> Doings] /\ pc' \in [Agents -> AgentPlaces]
        /\ reply' \in [Agents -> Replies \cup {NoReply}]
    <3>1. CASE Answer(r, FALSE, 0)
      BY <1>1, <3>1, AnswerTypes, Zenon DEF Answer
    <3>2. CASE UNCHANGED <<doing, reply>> /\ pc' \in {[pc EXCEPT ![r] = "swap1"], [pc EXCEPT ![r] = "dtype"]}
      BY <1>1, <1>3, <3>2, Zenon DEF AgentTypes
    <3> QED
      BY <1>5, <3>1, <3>2, Zenon DEF Gathered
  <2> QED
    BY <1>1, <1>5, <2>2, <2>3, <2>4, Zenon DEF Gathered, AgentTypes, TransferDtype, OwnType, RemoteType
<1>6. CASE Registered(r)
  <2>1. batch[r] \in {0, 1}
    BY <1>1 DEF AgentTypes
  <2>2. /\ doing' \in [Agents -> Doings] /\ pc' \in [Agents -> AgentPlaces]
        /\ reply' \in [Agents -> Replies \cup {NoReply}]
    BY <1>1, <1>6, <2>1, AnswerTypes, Zenon DEF Registered, Answer
  <2>3. /\ DOMAIN wire' = Agents
        /\ \A q \in Agents : wire'[q] \in {wire[q], TransferDtype(OwnType(q), RemoteType(q))}
    <3>1. wire' = [wire EXCEPT ![r] = TransferDtype(OwnType(r), RemoteType(r))]
      BY <1>6 DEF Registered
    <3>2. DOMAIN wire = Agents
      BY <1>1 DEF AgentTypes
    <3>3. DOMAIN wire' = Agents
      BY <3>1, <3>2, Zenon
    <3>4. \A q \in Agents : wire'[q] \in {wire[q], TransferDtype(OwnType(q), RemoteType(q))}
      BY <3>1, <3>2, Zenon
    <3> QED
      BY <3>3, <3>4
  <2>4. \A q \in Agents : TransferDtype(OwnType(q), RemoteType(q))' = TransferDtype(OwnType(q), RemoteType(q))
    BY Zenon DEF TransferDtype, OwnType, RemoteType
  <2>5. \A q \in Agents : wire'[q] \in {Untyped, TransferDtype(OwnType(q), RemoteType(q))'}
    BY <1>1, <2>3, <2>4, Zenon DEF AgentTypes
  <2> QED
    BY <1>1, <1>6, <2>2, <2>3, <2>5, Zenon DEF Registered, AgentTypes
<1>7. CASE StartSend(r)
  <2>1. Take(r) /\ UNCHANGED <<offers, batch, gens, wire, tensor, cargo>>
    BY <1>7 DEF StartSend
  <2>2. "announced" \in AgentPlaces
    BY <1>3
  <2>3. /\ doing' \in [Agents -> Doings] /\ pc' \in [Agents -> AgentPlaces]
        /\ reply' \in [Agents -> Replies \cup {NoReply}]
    BY <1>1, <1>2, <1>7, <2>1, <2>2, BeginTypes, AnswerTypes, Zenon DEF StartSend, RefuseTransfer
  <2>4. entered' \in [Agents -> [{"local", "batch"} -> Nat]]
    BY <1>1, <1>7, EnterTypes, Zenon DEF StartSend, RefuseTransfer, AgentTypes
  <2>5. signal' \in {"none", "0", "1"}
    BY <1>1, <1>7, Zenon DEF StartSend, RefuseTransfer, AgentTypes
  <2> QED
    BY <1>1, <1>2, <2>1, <2>3, <2>4, <2>5, Zenon DEF AgentTypes, TransferDtype, OwnType, RemoteType
<1>8. CASE StartRecv(r)
  <2>1. Take(r) /\ UNCHANGED <<offers, batch, gens, wire, tensor, cargo, signal>>
    BY <1>8 DEF StartRecv, RefuseTransfer
  <2>2. "meet" \in AgentPlaces
    BY <1>3
  <2>3. /\ doing' \in [Agents -> Doings] /\ pc' \in [Agents -> AgentPlaces]
        /\ reply' \in [Agents -> Replies \cup {NoReply}]
    BY <1>1, <1>2, <1>8, <2>1, <2>2, BeginTypes, AnswerTypes, Zenon DEF StartRecv, RefuseTransfer
  <2>4. entered' \in [Agents -> [{"local", "batch"} -> Nat]]
    BY <1>1, <1>8, EnterTypes, Zenon DEF StartRecv, RefuseTransfer, AgentTypes
  <2> QED
    BY <1>1, <1>2, <2>1, <2>3, <2>4, Zenon DEF AgentTypes, TransferDtype, OwnType, RemoteType
<1>9. CASE Announced(r) \/ Met(r) \/ Moved(r)
  <2>1. pc' \in [Agents -> AgentPlaces]
    BY <1>1, <1>3, <1>9, Zenon DEF Announced, Met, Moved, AgentTypes
  <2>2. entered' \in [Agents -> [{"local", "batch"} -> Nat]]
    BY <1>1, <1>9, EnterTypes, Zenon DEF Announced, Met, Moved, AgentTypes
  <2>3. DOMAIN tensor' = Agents /\ DOMAIN cargo' = Agents
    BY <1>1, <1>9, Zenon DEF Announced, Met, Moved, AgentTypes
  <2>4. UNCHANGED <<inbox, doing, offers, batch, gens, wire, signal, reply>>
    BY <1>9, Zenon DEF Announced, Met, Moved
  <2> QED
    BY <1>1, <2>1, <2>2, <2>3, <2>4, Zenon DEF AgentTypes, TransferDtype, OwnType, RemoteType
<1>10. CASE Leave(r) \/ Cleared(r)
  <2>1. /\ doing' \in [Agents -> Doings] /\ pc' \in [Agents -> AgentPlaces]
        /\ reply' \in [Agents -> Replies \cup {NoReply}]
    <3>1. CASE Answer(r, TRUE, 0)
      BY <1>1, <3>1, AnswerTypes, Zenon DEF Answer
    <3>2. CASE UNCHANGED <<doing, reply>> /\ pc' = [pc EXCEPT ![r] = "cleared"]
      BY <1>1, <1>3, <3>2, Zenon DEF AgentTypes
    <3> QED
      BY <1>10, <3>1, <3>2, Zenon DEF Leave, Cleared
  <2>2. entered' \in [Agents -> [{"local", "batch"} -> Nat]]
    BY <1>1, <1>10, EnterTypes, Zenon DEF Leave, Cleared, AgentTypes
  <2>3. signal' \in {"none", "0", "1"}
    BY <1>1, <1>10, Zenon DEF Leave, Cleared, AgentTypes
  <2>4. UNCHANGED <<inbox, offers, batch, gens, wire, tensor, cargo>>
    BY <1>10, Zenon DEF Leave, Cleared
  <2> QED
    BY <1>1, <2>1, <2>2, <2>3, <2>4, Zenon DEF AgentTypes, TransferDtype, OwnType, RemoteType
<1>11. CASE QuerySignal(r) \/ CleanupBatch(r)
  <2>1. Take(r) /\ UNCHANGED <<offers, entered, gens, wire, signal, tensor, cargo>>
    BY <1>11, Zenon DEF QuerySignal, CleanupBatch
  <2>2. /\ doing' \in [Agents -> Doings] /\ pc' \in [Agents -> AgentPlaces]
        /\ reply' \in [Agents -> Replies \cup {NoReply}]
    BY <1>1, <1>11, AnswerTypes, Zenon DEF QuerySignal, CleanupBatch
  <2>3. batch' \in [Agents -> {0, 1}]
    BY <1>1, <1>11, Zenon DEF QuerySignal, CleanupBatch, AgentTypes
  <2> QED
    BY <1>1, <1>2, <2>1, <2>2, <2>3, Zenon DEF AgentTypes, TransferDtype, OwnType, RemoteType
<1> QED
  BY <1>4, <1>5, <1>6, <1>7, <1>8, <1>9, <1>10, <1>11, Zenon DEF AgentStep

-----------------------------------------------------------------------------
(* Clients and agents: registration *)

LocalInv(r) ==
  /\ RegisterInv(r)
  /\ r \in Senders => SenderInv(r)
  /\ r \in Receivers => WorkerInv(r)

\* A queue without a command is empty.
LEMMA EmptyBox ==
  ASSUME NEW box \in Seq(Commands)
  PROVE  box = <<>> <=> \A i \in DOMAIN box : FALSE
<1>1. DOMAIN box = 1..Len(box) /\ Len(box) \in Nat /\ (Len(box) = 0 <=> box = <<>>)
  BY SMT
<1>2. (\A i \in 1..Len(box) : FALSE) <=> Len(box) = 0
  BY <1>1, SMT
<1> QED
  BY <1>1, <1>2, Zenon

\* An agent that registers does nothing else, and its client waits for it.
LEMMA OnlyRegisters ==
  ASSUME WeightTypes, ClientsInv, NEW r \in Agents, pc[r] \in Registering
  PROVE  /\ inbox[r] = <<>> /\ reply[r] = NoReply /\ offers[r] = <<case.layouts[r]>>
         /\ r \in Senders => tpc[r] = "registering"
         /\ r \in Receivers => spc = "setup" /\ doing[r].heard /\ got[r] = Unanswered
<1>1. offers[r] = <<case.layouts[r]>>
  BY DEF ClientsInv, RegisterInv
<1>2. CASE r \in Senders
  <2>1. tpc[r] = "registering" /\ reply[r] = NoReply /\ pc[r] # "idle"
    BY <1>2 DEF ClientsInv, SenderInv, Registering
  <2>2. \A i \in DOMAIN inbox[r] : FALSE
    BY <1>2, <2>1, Zenon DEF ClientsInv, SenderInv, SenderCommand
  <2>3. inbox[r] = <<>>
    BY <2>2, EmptyBox DEF WeightTypes, AgentTypes
  <2> QED
    BY <1>1, <1>2, <2>1, <2>3, Leaders
<1>3. CASE r \in Receivers
  BY <1>1, <1>3, Leaders DEF ClientsInv, WorkerInv, Awaits
<1> QED
  BY <1>2, <1>3 DEF Agents

\* A registration is taken up.
LEMMA StartRegisterLocal ==
  ASSUME WeightTypes, ClientsInv, NEW r \in Agents, StartRegister(r), UNCHANGED <<case, tpc, spc, got>>
  PROVE  LocalInv(r)'
<1> DEFINE c == inbox[r][1]
<1>1. /\ pc[r] = "idle" /\ Head(inbox[r]) = c /\ c \in Commands /\ c.op = "register"
      /\ 1 \in DOMAIN inbox[r]
      /\ Len(inbox[r]) = 1 => inbox'[r] = <<>>
  BY Taken DEF StartRegister
<1>2. doing'[r] = c /\ pc'[r] = "gather" /\ reply'[r] = reply[r]
  <2>1. "gather" \in AgentPlaces
    BY DEF AgentPlaces, Registering
  <2> QED
    BY <1>1, <2>1, BeginTypes, Zenon DEF StartRegister, WeightTypes
<1>3. /\ offers'[r] = Append(offers[r], c.layout)
      /\ batch'[r] = batch[r] /\ gens'[r] = gens[r] /\ entered'[r] = entered[r]
  BY <1>1 DEF StartRegister, WeightTypes, AgentTypes
<1>4. Agreed' = Agreed
  BY DEF Agreed
<1>5. /\ Len(inbox[r]) = 1 /\ offers[r] = <<>> /\ reply[r] = NoReply /\ c.layout = case.layouts[r]
      /\ r \in Senders => tpc[r] = "registering"
      /\ r \in Receivers => spc = "setup" /\ c.heard /\ got[r] = Unanswered
  <2>1. CASE r \in Senders
    <3>1. SenderCommand(r, 1)
      BY <1>1, <2>1, Zenon DEF ClientsInv, SenderInv
    <3> QED
      BY <1>1, <2>1, <3>1, Leaders DEF SenderCommand
  <2>2. CASE r \in Receivers
    <3>1. WorkerCommand(r, 1)
      BY <1>1, <2>2, Zenon DEF ClientsInv, WorkerInv
    <3> QED
      BY <1>1, <2>2, <3>1, Leaders DEF WorkerCommand, Awaits
  <2> QED
    BY <2>1, <2>2 DEF Agents
<1>6. inbox'[r] = <<>> /\ offers'[r] = <<case.layouts[r]>>
  <2>1. Append(<<>>, c.layout) = <<c.layout>>
    BY SMT
  <2> QED
    BY <1>1, <1>3, <1>5, <2>1
<1>7. offers'[r] # <<>>
  BY <1>6, SMT
<1>8. RegisterInv(r)'
  BY <1>2, <1>3, <1>4, <1>5, <1>6, <1>7 DEF ClientsInv, RegisterInv, Registering
<1>9. \A i \in DOMAIN inbox'[r] : FALSE
  BY <1>6, SMT
<1>10. ASSUME r \in Senders PROVE SenderInv(r)'
  BY <1>2, <1>3, <1>4, <1>5, <1>6, <1>7, <1>9, <1>10 DEF ClientsInv, SenderInv, Registering, Quiet
<1>11. ASSUME r \in Receivers PROVE WorkerInv(r)'
  <2>1. entered[r]["local"] = 0
    BY <1>5, <1>11 DEF ClientsInv, WorkerInv, Early
  <2> QED
    BY <1>1, <1>2, <1>3, <1>4, <1>5, <1>6, <1>7, <1>9, <1>11, <2>1
       DEF ClientsInv, WorkerInv, Registering, Quiet, Awaits, Asking, Early
<1> QED
  BY <1>8, <1>10, <1>11 DEF LocalInv

\* What the gather compares is what the ranks register.
LEMMA GatherCompares ==
  ASSUME WeightTypes, ClientsInv, NEW r \in Agents, pc[r] = "gather",
         \A q \in Agents : Len(offers[q]) >= Len(offers[r])
  PROVE  SameLayouts(r) <=> Agreed
<1>1. offers[r] = <<case.layouts[r]>>
  BY OnlyRegisters DEF Registering
<1>2. \A q \in Agents : offers[q] \in {<<>>, <<case.layouts[q]>>}
  BY DEF ClientsInv, RegisterInv
<1>3. \A q \in Agents : offers[q][Len(offers[r])] = case.layouts[q]
  BY <1>1, <1>2, SMT
<1>4. SameLayouts(r) <=> \A q \in Agents : case.layouts[q] = case.layouts[r]
  BY <1>3 DEF SameLayouts
<1> QED
  BY <1>4 DEF Agreed

\* The layouts were gathered.
LEMMA GatheredLocal ==
  ASSUME WeightTypes, ClientsInv, NEW r \in Agents, Gathered(r), UNCHANGED <<case, tpc, spc, got>>
  PROVE  LocalInv(r)'
<1>1. /\ inbox[r] = <<>> /\ reply[r] = NoReply /\ offers[r] = <<case.layouts[r]>>
      /\ r \in Senders => tpc[r] = "registering"
      /\ r \in Receivers => spc = "setup" /\ doing[r].heard /\ got[r] = Unanswered
  BY OnlyRegisters DEF Gathered, Registering
<1>2. inbox'[r] = <<>> /\ offers'[r] = offers[r] /\ offers[r] # <<>>
  <2>1. offers[r] # <<>>
    BY <1>1, SMT
  <2> QED
    BY <1>1, <2>1 DEF Gathered
<1>3. pc[r] = "gather" /\ (SameLayouts(r) <=> Agreed) /\ Agreed' = Agreed
  BY GatherCompares DEF Gathered, Agreed
<1>4. gens[r] = 0 /\ gens[r] + 1 = 1
  <2>1. gens[r] \in {0, 1} /\ gens[r] # 1
    BY <1>3 DEF ClientsInv, RegisterInv, WeightTypes, AgentTypes
  <2> QED
    BY <2>1, SMT
<1>5. r \in Receivers => entered[r]["local"] = 0
  BY <1>1, <1>3 DEF ClientsInv, WorkerInv, Early
<1>6. \A i \in DOMAIN inbox'[r] : FALSE
  BY <1>2, SMT
<1>7. CASE ~SameLayouts(r)
  <2>1. /\ doing'[r] = Nothing /\ pc'[r] = "idle"
        /\ reply'[r] = IF doing[r].heard THEN [ok |-> FALSE, value |-> 0] ELSE reply[r]
    BY <1>7, AnswerTypes DEF Gathered, Answer, WeightTypes
  <2>2. batch'[r] = batch[r] /\ gens'[r] = gens[r] /\ entered'[r] = entered[r]
    BY <1>7 DEF Gathered
  <2>3. [ok |-> FALSE, value |-> 0].ok = FALSE /\ Nothing.heard = FALSE
    BY DEF Nothing
  <2>4. RegisterInv(r)'
    BY <1>1, <1>2, <1>3, <2>1, <2>2 DEF ClientsInv, RegisterInv, Registering
  <2>5. ASSUME r \in Senders PROVE SenderInv(r)'
    BY <1>1, <1>2, <1>3, <1>6, <1>7, <2>1, <2>2, <2>3, <2>5
       DEF SenderInv, Registering, Quiet
  <2>6. ASSUME r \in Receivers PROVE WorkerInv(r)'
    BY <1>1, <1>2, <1>3, <1>6, <1>7, <2>1, <2>2, <2>3, <2>6
       DEF WorkerInv, Registering, Quiet, Awaits, Early, SetupInv
  <2> QED
    BY <2>4, <2>5, <2>6 DEF LocalInv
<1>8. CASE SameLayouts(r)
  <2>1. gens'[r] = 1 /\ batch'[r] = 1
    BY <1>4, <1>8 DEF Gathered, WeightTypes, AgentTypes
  <2>2. doing'[r] = doing[r] /\ reply'[r] = reply[r]
    BY <1>8 DEF Gathered
  <2>3. \/ pc'[r] = "swap1" /\ entered'[r] = entered[r]
        \/ pc'[r] = "dtype" /\ entered'[r]["local"] = entered[r]["local"] + 1
    BY <1>8, EnterTypes DEF Gathered, WeightTypes, AgentTypes
  <2>4. RegisterInv(r)'
    BY <1>1, <1>2, <1>3, <1>8, <2>1, <2>3 DEF RegisterInv, Registering
  <2>5. ASSUME r \in Senders PROVE SenderInv(r)'
    BY <1>1, <1>2, <1>3, <1>6, <2>1, <2>2, <2>3, <2>5 DEF SenderInv, Registering, Quiet
  <2>6. ASSUME r \in Receivers PROVE WorkerInv(r)'
    <3>1. pc'[r] = "dtype" => entered'[r]["local"] = 1
      BY <1>5, <2>3, <2>6, SMT
    <3>2. WorkerInv(r)
      BY <2>6 DEF ClientsInv
    <3> QED
      BY <1>1, <1>2, <1>3, <1>5, <1>6, <2>1, <2>2, <2>3, <2>6, <3>1, <3>2
         DEF WorkerInv, Registering, Quiet, Awaits, Asking, Early, SetupInv
  <2> QED
    BY <2>4, <2>5, <2>6 DEF LocalInv
<1> QED
  BY <1>7, <1>8

\* The broadcast of the dtypes arrived.
LEMMA RegisteredLocal ==
  ASSUME WeightTypes, ClientsInv, NEW r \in Agents, Registered(r), UNCHANGED <<case, tpc, spc, got>>
  PROVE  LocalInv(r)'
<1>1. /\ inbox[r] = <<>> /\ reply[r] = NoReply /\ offers[r] = <<case.layouts[r]>>
      /\ r \in Senders => tpc[r] = "registering"
      /\ r \in Receivers => spc = "setup" /\ doing[r].heard /\ got[r] = Unanswered
  BY OnlyRegisters DEF Registered, Registering
<1>2. inbox'[r] = <<>> /\ offers'[r] = offers[r] /\ offers[r] # <<>>
  <2>1. offers[r] # <<>>
    BY <1>1, SMT
  <2> QED
    BY <1>1, <2>1 DEF Registered
<1>3. pc[r] = "dtype" /\ batch[r] = 1 /\ Agreed' = Agreed
  BY DEF Registered, ClientsInv, RegisterInv, Registering, Agreed
<1>4. /\ doing'[r] = Nothing /\ pc'[r] = "idle"
      /\ reply'[r] = IF doing[r].heard THEN [ok |-> TRUE, value |-> 1] ELSE reply[r]
  BY <1>3, AnswerTypes DEF Registered, Answer, WeightTypes
<1>5. batch'[r] = batch[r] /\ gens'[r] = gens[r] /\ entered'[r] = entered[r]
  BY DEF Registered
<1>6. [ok |-> TRUE, value |-> 1].ok = TRUE /\ Nothing.heard = FALSE
  BY DEF Nothing
<1>7. \A i \in DOMAIN inbox'[r] : FALSE
  BY <1>2, SMT
<1>8. RegisterInv(r)'
  BY <1>1, <1>2, <1>3, <1>4, <1>5 DEF ClientsInv, RegisterInv, Registering
<1>9. ASSUME r \in Senders PROVE SenderInv(r)'
  BY <1>1, <1>2, <1>3, <1>4, <1>5, <1>6, <1>7, <1>9 DEF SenderInv, Registering, Quiet
<1>10. ASSUME r \in Receivers PROVE WorkerInv(r)'
  <2>1. entered[r]["local"] = 1
    BY <1>1, <1>2, <1>3, <1>10 DEF ClientsInv, WorkerInv, Early
  <2> QED
    BY <1>1, <1>2, <1>3, <1>4, <1>5, <1>6, <1>7, <1>10, <2>1
       DEF WorkerInv, Registering, Quiet, Awaits, Early, SetupInv
<1> QED
  BY <1>8, <1>9, <1>10 DEF LocalInv

\* One more local collective.
LEMMA CountOn ==
  ASSUME NEW e \in [Agents -> [{"local", "batch"} -> Nat]], NEW r \in Agents
  PROVE  /\ [e EXCEPT ![r]["local"] = @ + 1] \in [Agents -> [{"local", "batch"} -> Nat]]
         /\ \A q \in Agents \ {r} : [e EXCEPT ![r]["local"] = @ + 1][q] = e[q]
         /\ [e EXCEPT ![r]["local"] = @ + 1][r]["batch"] = e[r]["batch"]
         /\ [e EXCEPT ![r]["local"] = @ + 1][r]["local"] = e[r]["local"] + 1
  BY SMT

\* The leaders of the two sides exchange dtypes.
LEMMA SwapStep ==
  ASSUME WeightTypes, ClientsInv, SwapDtypes, UNCHANGED <<dtypes, case, tpc, spc, got>>
  PROVE  /\ AgentTypes' /\ \A r \in Agents : LocalInv(r)'
         /\ \A q \in Agents : entered'[q]["batch"] = entered[q]["batch"]
<1> DEFINE a == Least(Senders)
           b == Least(Receivers)
           next == IF pc[a] = "swap1" THEN "swap2" ELSE "dtype"
<1>1. a \in Senders /\ b \in Receivers /\ a \in Agents /\ b \in Agents /\ a # b
  BY Leaders, SidesAssumption DEF Rank0, Agents
<1>2. /\ pc[a] \in {"swap1", "swap2"} /\ pc[b] = pc[a]
      /\ pc' = [pc EXCEPT ![a] = IF @ = "swap1" THEN "swap2" ELSE "dtype",
                          ![b] = IF @ = "swap1" THEN "swap2" ELSE "dtype"]
      /\ entered' = IF pc[a] = "swap1" THEN entered
                    ELSE [entered EXCEPT ![a]["local"] = @ + 1, ![b]["local"] = @ + 1]
      /\ UNCHANGED <<inbox, doing, offers, batch, gens, wire, signal, tensor, cargo, reply>>
  BY DEF SwapDtypes
<1>3. pc \in [Agents -> AgentPlaces] /\ entered \in [Agents -> [{"local", "batch"} -> Nat]]
  BY DEF WeightTypes, AgentTypes
<1>4. /\ pc'[a] = next /\ pc'[b] = next /\ pc' \in [Agents -> AgentPlaces]
      /\ \A q \in Agents \ {a, b} : pc'[q] = pc[q]
  <2>1. "swap2" \in AgentPlaces /\ "dtype" \in AgentPlaces
    BY DEF AgentPlaces, Registering
  <2> QED
    BY <1>1, <1>2, <1>3, <2>1, SMT
<1>5. /\ entered' \in [Agents -> [{"local", "batch"} -> Nat]]
      /\ \A q \in Agents \ {a, b} : entered'[q] = entered[q]
      /\ \A q \in Agents : entered'[q]["batch"] = entered[q]["batch"]
      /\ entered'[b]["local"] = IF pc[a] = "swap1" THEN entered[b]["local"] ELSE entered[b]["local"] + 1
  <2>1. CASE pc[a] = "swap1"
    BY <1>2, <1>3, <2>1
  <2>2. CASE pc[a] # "swap1"
    <3>1. entered' = [entered EXCEPT ![a]["local"] = @ + 1, ![b]["local"] = @ + 1]
      BY <1>2, <2>2, Zenon
    <3> DEFINE one == [entered EXCEPT ![a]["local"] = @ + 1]
    <3>2. entered' = [one EXCEPT ![b]["local"] = @ + 1]
      BY <1>1, <1>3, <3>1, Zenon
    <3>3. /\ one \in [Agents -> [{"local", "batch"} -> Nat]]
          /\ \A q \in Agents \ {a} : one[q] = entered[q]
          /\ one[a]["batch"] = entered[a]["batch"]
      BY <1>1, <1>3, CountOn, Zenon
    <3>4. /\ [one EXCEPT ![b]["local"] = @ + 1] \in [Agents -> [{"local", "batch"} -> Nat]]
          /\ \A q \in Agents \ {b} : [one EXCEPT ![b]["local"] = @ + 1][q] = one[q]
          /\ [one EXCEPT ![b]["local"] = @ + 1][b]["batch"] = one[b]["batch"]
          /\ [one EXCEPT ![b]["local"] = @ + 1][b]["local"] = one[b]["local"] + 1
      BY <1>1, <3>3, CountOn, Zenon
    <3> HIDE DEF one
    <3> QED
      BY <1>1, <2>2, <3>2, <3>3, <3>4, Zenon
  <2> QED
    BY <2>1, <2>2
<1>6. AgentTypes'
  BY <1>2, <1>4, <1>5, Zenon DEF WeightTypes, AgentTypes, TransferDtype, OwnType, RemoteType
<1>7. ASSUME NEW r \in Agents \ {a, b} PROVE LocalInv(r)'
  <2>1. Same(r)
    BY <1>2, <1>4, <1>5, <1>7 DEF Same
  <2> QED
    BY <2>1, KeepRegister, KeepSender, KeepWorker, Zenon DEF LocalInv, ClientsInv
<1>8. next \in {"swap2", "dtype"} /\ Agreed' = Agreed
  BY DEF Agreed
<1>9. ASSUME NEW r \in {a, b} PROVE RegisterInv(r)'
  <2>1. RegisterInv(r) /\ pc[r] \in {"swap1", "swap2"} /\ pc'[r] = next
    BY <1>1, <1>2, <1>4, <1>9 DEF ClientsInv
  <2>2. offers'[r] = offers[r] /\ batch'[r] = batch[r] /\ gens'[r] = gens[r]
    BY <1>2
  <2> QED
    BY <1>8, <2>1, <2>2 DEF RegisterInv, Registering
<1>10. LocalInv(a)'
  <2>1. inbox[a] = <<>> /\ tpc[a] = "registering" /\ reply[a] = NoReply /\ SenderInv(a)
    BY <1>1, <1>2, OnlyRegisters DEF Registering, ClientsInv
  <2>2. \A i \in DOMAIN inbox'[a] : FALSE
    BY <1>2, <2>1, SMT
  <2>3. SenderInv(a)'
    BY <1>2, <1>4, <1>8, <2>1, <2>2 DEF SenderInv, Registering
  <2> QED
    BY <1>1, <1>9, <2>3, Leaders DEF LocalInv
<1>11. LocalInv(b)'
  <2>1. /\ inbox[b] = <<>> /\ reply[b] = NoReply /\ WorkerInv(b)
        /\ spc = "setup" /\ doing[b].heard /\ got[b] = Unanswered
    BY <1>1, <1>2, OnlyRegisters DEF Registering, ClientsInv
  <2>2. \A i \in DOMAIN inbox'[b] : FALSE
    BY <1>2, <2>1, SMT
  <2>3. offers[b] # <<>> /\ entered[b]["local"] = 0
    BY <1>1, <1>2, <2>1 DEF ClientsInv, RegisterInv, WorkerInv, Registering, Early
  <2>4. entered'[b]["local"] = IF next = "swap2" THEN 0 ELSE 1
    BY <1>2, <1>5, <2>3
  <2>5. WorkerInv(b)'
    BY <1>2, <1>4, <1>8, <2>1, <2>2, <2>3, <2>4
       DEF WorkerInv, Registering, Awaits, Asking, Early
  <2> QED
    BY <1>1, <1>9, <2>5, Leaders DEF LocalInv
<1> QED
  BY <1>5, <1>6, <1>7, <1>10, <1>11

-----------------------------------------------------------------------------
(* Clients and agents: transfers *)

\* The batch is live, so every command that names it is current.
LEMMA LiveKnown ==
  ASSUME WeightTypes, NEW r \in Agents, NEW c \in Commands, batch[r] = 1
  PROVE  Known(r, c)
<1>1. c.gen \in {0, 1}
  BY DEF Commands
<1> QED
  BY <1>1 DEF Known, Current

\* A send is taken up.
LEMMA StartSendLocal ==
  ASSUME WeightTypes, ClientsInv, NEW r \in Agents, StartSend(r), UNCHANGED <<case, tpc, spc, got>>
  PROVE  /\ LocalInv(r)' /\ r \in Senders /\ Known(r, Head(inbox[r])) /\ SendQueued(r) /\ ~SendQueued(r)'
         /\ pc[r] = "idle" /\ pc'[r] = "announced"
<1> DEFINE c == inbox[r][1]
<1>1. /\ pc[r] = "idle" /\ Head(inbox[r]) = c /\ c \in Commands /\ c.op = "send"
      /\ 1 \in DOMAIN inbox[r] /\ inbox[r] # <<>>
      /\ Len(inbox[r]) \in Nat /\ Len(inbox'[r]) = Len(inbox[r]) - 1
      /\ DOMAIN inbox'[r] = 1..(Len(inbox[r]) - 1)
      /\ \A i \in DOMAIN inbox'[r] : i + 1 \in DOMAIN inbox[r] /\ inbox'[r][i] = inbox[r][i + 1]
  BY Taken DEF StartSend
<1>2. r \in Senders
  <2>1. ASSUME r \in Receivers PROVE WorkerCommand(r, 1)
    BY <1>1, <2>1, Zenon DEF ClientsInv, WorkerInv
  <2> QED
    BY <1>1, <2>1 DEF WorkerCommand, Agents
<1>3. SenderInv(r) /\ SenderCommand(r, 1) /\ r \notin Receivers
  BY <1>1, <1>2, Leaders, Zenon DEF ClientsInv, SenderInv
<1>4. /\ tpc[r] \in {"sending", "failed", "closed"} /\ batch[r] = 1 /\ reply[r] = NoReply
      /\ c.heard => tpc[r] = "sending"
  BY <1>1, <1>3 DEF SenderCommand
<1>5. Known(r, c)
  BY <1>1, <1>4, LiveKnown
<1>6. doing'[r] = c /\ pc'[r] = "announced" /\ reply'[r] = reply[r]
  <2>1. Begin(r, "announced") /\ "announced" \in AgentPlaces
    BY <1>1, <1>5 DEF StartSend, AgentPlaces, Sending
  <2> QED
    BY <1>1, <2>1, BeginTypes DEF WeightTypes
<1>7. offers'[r] = offers[r] /\ batch'[r] = batch[r] /\ gens'[r] = gens[r] /\ Agreed' = Agreed
  BY DEF StartSend, Agreed
<1>8. \A i \in DOMAIN inbox'[r] : SenderCommand(r, i)' /\ inbox'[r][i].op = "cleanup"
  <2>1. SUFFICES ASSUME NEW i \in DOMAIN inbox'[r] PROVE SenderCommand(r, i)' /\ inbox'[r][i].op = "cleanup"
    BY Zenon
  <2>2. i \in Nat /\ i + 1 # 1 /\ i + 1 <= Len(inbox[r]) /\ Len(inbox[r]) # 1
    BY <1>1, SMT
  <2>3. SenderCommand(r, i + 1)
    BY <1>1, <1>3, Zenon DEF SenderInv
  <2>4. inbox[r][i + 1].op = "cleanup" /\ i + 1 = Len(inbox[r]) /\ tpc[r] = "closed"
    BY <2>2, <2>3 DEF SenderCommand
  <2>5. i = Len(inbox'[r])
    BY <1>1, <2>2, <2>4, SMT
  <2> QED
    BY <1>1, <1>4, <1>6, <1>7, <2>4, <2>5 DEF SenderCommand
<1>9. RegisterInv(r)'
  BY <1>1, <1>6, <1>7 DEF ClientsInv, RegisterInv, Registering
<1>10. SenderInv(r)'
  BY <1>3, <1>4, <1>6, <1>7, <1>8, <1>1 DEF SenderInv, Registering, Sending
<1>11. SendQueued(r) /\ ~SendQueued(r)'
  <2>1. inbox'[r] # <<>> => 1 \in DOMAIN inbox'[r]
    <3>1. inbox'[r] \in Seq(Commands)
      BY Taken DEF StartSend
    <3> QED
      BY <3>1, SMT
  <2> QED
    BY <1>1, <1>8, <2>1 DEF SendQueued
<1> QED
  BY <1>1, <1>2, <1>3, <1>5, <1>6, <1>9, <1>10, <1>11 DEF LocalInv

\* A receive is taken up.
LEMMA StartRecvLocal ==
  ASSUME WeightTypes, ClientsInv, NEW r \in Agents, StartRecv(r), UNCHANGED <<case, tpc, spc, got>>
  PROVE  /\ LocalInv(r)' /\ r \in Receivers /\ Known(r, Head(inbox[r]))
         /\ pc[r] = "idle" /\ pc'[r] = "meet"
<1> DEFINE c == inbox[r][1]
<1>1. /\ pc[r] = "idle" /\ Head(inbox[r]) = c /\ c \in Commands /\ c.op = "recv"
      /\ 1 \in DOMAIN inbox[r] /\ inbox[r] # <<>>
      /\ Len(inbox[r]) \in Nat /\ Len(inbox'[r]) = Len(inbox[r]) - 1
      /\ DOMAIN inbox'[r] = 1..(Len(inbox[r]) - 1)
      /\ \A i \in DOMAIN inbox'[r] : i + 1 \in DOMAIN inbox[r] /\ inbox'[r][i] = inbox[r][i + 1]
      /\ Len(inbox[r]) = 1 => inbox'[r] = <<>>
  BY Taken DEF StartRecv
<1>2. r \in Receivers
  <2>1. ASSUME r \in Senders PROVE SenderCommand(r, 1)
    BY <1>1, <2>1, Zenon DEF ClientsInv, SenderInv
  <2> QED
    BY <1>1, <2>1 DEF SenderCommand, Agents
<1>3. WorkerInv(r) /\ WorkerCommand(r, 1) /\ r \notin Senders
  BY <1>1, <1>2, Leaders, Zenon DEF ClientsInv, WorkerInv
<1>4. /\ spc \notin Early /\ batch[r] = 1 /\ spc # "setup"
      /\ c.heard => 1 = Len(inbox[r]) /\ Awaits(r) /\ c.op = Asking /\ reply[r] = NoReply
  BY <1>1, <1>3 DEF WorkerCommand, WorkerInv, Early
<1>5. Known(r, c)
  BY <1>1, <1>4, LiveKnown
<1>6. doing'[r] = c /\ pc'[r] = "meet" /\ reply'[r] = reply[r]
  <2>1. Begin(r, "meet") /\ "meet" \in AgentPlaces
    BY <1>1, <1>5 DEF StartRecv, AgentPlaces, Receiving
  <2> QED
    BY <1>1, <2>1, BeginTypes DEF WeightTypes
<1>7. offers'[r] = offers[r] /\ batch'[r] = batch[r] /\ gens'[r] = gens[r] /\ Agreed' = Agreed
  BY DEF StartRecv, Agreed
<1>8. \A i \in DOMAIN inbox'[r] : WorkerCommand(r, i)'
  <2>1. SUFFICES ASSUME NEW i \in DOMAIN inbox'[r] PROVE WorkerCommand(r, i)'
    BY Zenon
  <2>2. i \in Nat /\ Len(inbox[r]) # 1 /\ (i + 1 = Len(inbox[r]) => i = Len(inbox'[r]))
    BY <1>1, SMT
  <2>3. WorkerCommand(r, i + 1)
    BY <1>1, <1>3, Zenon DEF WorkerInv
  <2> QED
    BY <1>1, <1>4, <1>6, <1>7, <2>2, <2>3 DEF WorkerCommand, Awaits, Asking
<1>9. RegisterInv(r)'
  BY <1>1, <1>6, <1>7 DEF ClientsInv, RegisterInv, Registering
<1>10. reply[r] = NoReply /\ ~(spc = "recv" /\ got[r].ok)
  BY <1>1, <1>3 DEF WorkerInv, Quiet
<1>11. WorkerInv(r)'
  BY <1>1, <1>3, <1>4, <1>6, <1>7, <1>8, <1>10
     DEF WorkerInv, Registering, Receiving, Awaits, Asking, Early
<1> QED
  BY <1>1, <1>2, <1>3, <1>5, <1>6, <1>9, <1>11 DEF LocalInv

\* An agent in the middle of a transfer: which, and for whom.
LEMMA InTransfer ==
  ASSUME WeightTypes, ClientsInv, NEW r \in Agents, pc[r] \in Sending \cup Receiving
  PROVE  /\ reply[r] = NoReply /\ pc[r] # "idle" /\ pc[r] \notin Registering
         /\ r \in Senders =>
              /\ r \notin Receivers /\ pc[r] \in Sending /\ doing[r].op = "send" /\ batch[r] = 1
              /\ tpc[r] \in {"sending", "failed", "closed"} /\ (doing[r].heard => tpc[r] = "sending")
              /\ \A i \in DOMAIN inbox[r] : inbox[r][i].op = "cleanup" /\ tpc[r] = "closed"
         /\ r \in Receivers =>
              r \notin Senders /\ pc[r] \in Receiving /\ doing[r].op = "recv" /\ spc \notin Early
<1>1. pc[r] # "idle" /\ pc[r] \notin Registering
  BY DEF Registering, Sending, Receiving
<1>2. CASE r \in Senders
  <2>1. SenderInv(r) /\ r \notin Receivers
    BY <1>2, Leaders DEF ClientsInv
  <2>2. \A i \in DOMAIN inbox[r] : inbox[r][i].op = "cleanup" /\ tpc[r] = "closed"
    BY <1>1, <2>1, Zenon DEF SenderInv, SenderCommand
  <2> QED
    BY <1>1, <1>2, <2>1, <2>2 DEF SenderInv
<1>3. CASE r \in Receivers
  <2>1. WorkerInv(r) /\ r \notin Senders
    BY <1>3, Leaders DEF ClientsInv
  <2> QED
    BY <1>1, <1>3, <2>1 DEF WorkerInv, Quiet
<1> QED
  BY <1>2, <1>3 DEF Agents

\* From one barrier of the transfer to the next.
LEMMA AdvanceLocal ==
  ASSUME WeightTypes, ClientsInv, NEW r \in Agents, Announced(r) \/ Met(r) \/ Moved(r),
         UNCHANGED <<case, tpc, spc, got>>
  PROVE  LocalInv(r)'
<1>1. /\ pc[r] \in {"announced", "meet", "move"} /\ pc'[r] \in {"meet", "move", "leave"}
      /\ inbox'[r] = inbox[r] /\ doing'[r] = doing[r] /\ reply'[r] = reply[r]
      /\ offers'[r] = offers[r] /\ batch'[r] = batch[r] /\ gens'[r] = gens[r]
  BY Zenon DEF Announced, Met, Moved, WeightTypes, AgentTypes
<1>2. Agreed' = Agreed
  BY DEF Agreed
<1>3. /\ reply[r] = NoReply /\ pc[r] # "idle" /\ pc[r] \notin Registering
      /\ r \in Senders => \A i \in DOMAIN inbox[r] : inbox[r][i].op = "cleanup" /\ tpc[r] = "closed"
      /\ r \in Receivers => spc \notin Early
  BY <1>1, InTransfer DEF Sending, Receiving
<1>4. RegisterInv(r)'
  BY <1>1, <1>2, <1>3 DEF ClientsInv, RegisterInv, Registering
<1>5. ASSUME r \in Senders PROVE SenderInv(r)'
  <2>1. SenderInv(r)
    BY <1>5 DEF ClientsInv
  <2>2. \A i \in DOMAIN inbox'[r] : SenderCommand(r, i)'
    <3>1. SUFFICES ASSUME NEW i \in DOMAIN inbox'[r] PROVE SenderCommand(r, i)'
      BY Zenon
    <3>2. SenderCommand(r, i) /\ inbox[r][i].op = "cleanup"
      BY <1>1, <1>3, <1>5, <2>1, Zenon DEF SenderInv
    <3> QED
      BY <1>1, <3>2 DEF SenderCommand
  <2> QED
    BY <1>1, <1>2, <1>3, <2>1, <2>2 DEF SenderInv, Registering, Sending
<1>6. ASSUME r \in Receivers PROVE WorkerInv(r)'
  <2>1. WorkerInv(r)
    BY <1>6 DEF ClientsInv
  <2>2. \A i \in DOMAIN inbox'[r] : WorkerCommand(r, i)'
    <3>1. SUFFICES ASSUME NEW i \in DOMAIN inbox'[r] PROVE WorkerCommand(r, i)'
      BY Zenon
    <3>2. WorkerCommand(r, i)
      BY <1>1, <2>1, Zenon DEF WorkerInv
    <3> QED
      BY <1>1, <1>3, <3>2 DEF WorkerCommand, Awaits, Asking
  <2> QED
    BY <1>1, <1>2, <1>3, <1>6, <2>1, <2>2
       DEF WorkerInv, Registering, Receiving, Awaits, Asking, Early, Quiet
<1> QED
  BY <1>4, <1>5, <1>6 DEF LocalInv

\* A transfer is answered.
LEMMA EndLocal ==
  ASSUME WeightTypes, ClientsInv, NEW r \in Agents, pc[r] \in Sending \cup Receiving,
         Answer(r, TRUE, 0), UNCHANGED <<inbox, offers, batch, gens, case, tpc, spc, got>>
  PROVE  LocalInv(r)' /\ pc'[r] = "idle"
<1>1. /\ doing'[r] = Nothing /\ pc'[r] = "idle"
      /\ reply'[r] = IF doing[r].heard THEN [ok |-> TRUE, value |-> 0] ELSE reply[r]
  BY AnswerTypes DEF Answer, WeightTypes
<1>2. [ok |-> TRUE, value |-> 0].ok = TRUE /\ Nothing.heard = FALSE /\ Agreed' = Agreed
  BY DEF Nothing, Agreed
<1>3. /\ reply[r] = NoReply /\ pc[r] # "idle" /\ pc[r] \notin Registering
      /\ r \in Senders =>
           /\ batch[r] = 1 /\ tpc[r] \in {"sending", "failed", "closed"}
           /\ (doing[r].heard => tpc[r] = "sending")
           /\ \A i \in DOMAIN inbox[r] : inbox[r][i].op = "cleanup" /\ tpc[r] = "closed"
      /\ r \in Receivers => spc \notin Early
  BY InTransfer, Zenon
<1>4. RegisterInv(r)'
  BY <1>1, <1>2, <1>3 DEF ClientsInv, RegisterInv, Registering
<1>5. ASSUME r \in Senders PROVE SenderInv(r)'
  <2>1. SenderInv(r)
    BY <1>5 DEF ClientsInv
  <2>2. \A i \in DOMAIN inbox'[r] : SenderCommand(r, i)'
    <3>1. SUFFICES ASSUME NEW i \in DOMAIN inbox[r] PROVE SenderCommand(r, i)'
      BY Zenon
    <3>2. SenderCommand(r, i) /\ inbox[r][i].op = "cleanup" /\ tpc[r] = "closed"
      BY <1>3, <1>5, <2>1, Zenon DEF SenderInv
    <3>3. reply'[r] = NoReply
      BY <1>1, <1>3, <1>5, <3>2
    <3> QED
      BY <1>1, <3>2, <3>3 DEF SenderCommand
  <2>3. doing[r].heard => inbox[r] = <<>>
    <3>1. inbox[r] \in Seq(Commands)
      BY DEF WeightTypes, AgentTypes
    <3> QED
      BY <1>3, <1>5, <3>1, EmptyBox
  <2> QED
    BY <1>1, <1>2, <1>3, <1>5, <2>1, <2>2, <2>3 DEF SenderInv, Registering, Quiet
<1>6. ASSUME r \in Receivers PROVE WorkerInv(r)'
  <2>1. WorkerInv(r)
    BY <1>6 DEF ClientsInv
  <2>2. \A i \in DOMAIN inbox'[r] : WorkerCommand(r, i)' /\ ~doing[r].heard
    <3>1. SUFFICES ASSUME NEW i \in DOMAIN inbox[r] PROVE WorkerCommand(r, i)' /\ ~doing[r].heard
      BY Zenon
    <3>2. WorkerCommand(r, i)
      BY <2>1, Zenon DEF WorkerInv
    <3>3. ~doing[r].heard
      <4>1. inbox[r] # <<>>
        BY EmptyBox DEF WeightTypes, AgentTypes
      <4> QED
        BY <2>1, <4>1 DEF WorkerInv
    <3>4. reply'[r] = reply[r]
      BY <1>1, <3>3
    <3> QED
      BY <1>1, <1>3, <1>6, <3>2, <3>3, <3>4 DEF WorkerCommand, Awaits, Asking
  <2>3. spc # "setup" /\ spc # "start"
    BY <1>3, <1>6 DEF Early
  <2> QED
    BY <1>1, <1>2, <1>3, <1>6, <2>1, <2>2, <2>3
       DEF WorkerInv, Registering, Awaits, Asking, Quiet
<1> QED
  BY <1>1, <1>4, <1>5, <1>6 DEF LocalInv

\* A transfer ends, or its receiver waits for the signal to be cleared.
LEMMA LeaveLocal ==
  ASSUME WeightTypes, ClientsInv, NEW r \in Agents, Leave(r) \/ Cleared(r),
         UNCHANGED <<case, tpc, spc, got>>
  PROVE  LocalInv(r)'
<1>1. pc[r] \in {"leave", "cleared"} /\ UNCHANGED <<inbox, offers, batch, gens>>
  BY Zenon DEF Leave, Cleared
<1>2. pc[r] \in Sending \cup Receiving
  BY <1>1 DEF Sending, Receiving
<1>3. CASE Answer(r, TRUE, 0)
  BY <1>1, <1>2, <1>3, EndLocal, Zenon
<1>4. CASE doing[r].op = "recv" /\ pc' = [pc EXCEPT ![r] = "cleared"] /\ UNCHANGED <<doing, reply>>
  <2>1. r \notin Senders /\ r \in Receivers /\ pc[r] # "idle" /\ pc[r] \notin Registering /\ spc \notin Early
    BY <1>2, <1>4, InTransfer DEF Agents
  <2>2. pc'[r] = "cleared"
    BY <1>4 DEF WeightTypes, AgentTypes
  <2>3. Agreed' = Agreed
    BY DEF Agreed
  <2>4. RegisterInv(r)'
    BY <1>1, <2>1, <2>2, <2>3 DEF ClientsInv, RegisterInv, Registering
  <2>5. WorkerInv(r)
    BY <2>1 DEF ClientsInv
  <2>6. \A i \in DOMAIN inbox'[r] : WorkerCommand(r, i)'
    <3>1. SUFFICES ASSUME NEW i \in DOMAIN inbox[r] PROVE WorkerCommand(r, i)'
      BY <1>1, Zenon
    <3>2. WorkerCommand(r, i)
      BY <2>5, Zenon DEF WorkerInv
    <3> QED
      BY <1>1, <1>4, <2>1, <2>2, <3>2 DEF WorkerCommand, Awaits, Asking
  <2>7. WorkerInv(r)'
    BY <1>1, <1>4, <2>1, <2>2, <2>3, <2>5, <2>6
       DEF WorkerInv, Registering, Receiving, Awaits, Asking, Early, Quiet
  <2> QED
    BY <2>1, <2>4, <2>7 DEF LocalInv
<1> QED
  BY <1>3, <1>4, Zenon DEF Leave, Cleared

\* A query is answered.
LEMMA QueryLocal ==
  ASSUME WeightTypes, ClientsInv, NEW r \in Agents, QuerySignal(r), UNCHANGED <<case, tpc, spc, got>>
  PROVE  /\ LocalInv(r)' /\ r \in Receivers /\ pc[r] = "idle" /\ pc'[r] = "idle"
         /\ inbox[r][1].heard => inbox'[r] = <<>> /\ Len(inbox[r]) = 1 /\ spc = "query"
         /\ ~inbox[r][1].heard => reply'[r] = reply[r]
<1> DEFINE c == inbox[r][1]
           value == IF Known(r, Head(inbox[r])) /\ signal = "1" THEN 1 ELSE 0
<1>1. /\ pc[r] = "idle" /\ Head(inbox[r]) = c /\ c \in Commands /\ c.op = "query"
      /\ 1 \in DOMAIN inbox[r] /\ inbox[r] # <<>>
      /\ Len(inbox[r]) \in Nat /\ Len(inbox'[r]) = Len(inbox[r]) - 1
      /\ DOMAIN inbox'[r] = 1..(Len(inbox[r]) - 1)
      /\ \A i \in DOMAIN inbox'[r] : i + 1 \in DOMAIN inbox[r] /\ inbox'[r][i] = inbox[r][i + 1]
      /\ Len(inbox[r]) = 1 => inbox'[r] = <<>>
  BY Taken DEF QuerySignal
<1>2. r \in Receivers
  <2>1. ASSUME r \in Senders PROVE SenderCommand(r, 1)
    BY <1>1, <2>1, Zenon DEF ClientsInv, SenderInv
  <2> QED
    BY <1>1, <2>1 DEF SenderCommand, Agents
<1>3. WorkerInv(r) /\ WorkerCommand(r, 1) /\ r \notin Senders
  BY <1>1, <1>2, Leaders, Zenon DEF ClientsInv, WorkerInv
<1>4. /\ spc \notin Early /\ batch[r] = 1 /\ spc # "setup" /\ spc # "start"
      /\ c.heard => 1 = Len(inbox[r]) /\ Awaits(r) /\ spc = "query" /\ reply[r] = NoReply
  BY <1>1, <1>3 DEF WorkerCommand, WorkerInv, Early, Asking
<1>5. reply[r] = NoReply /\ ~(spc = "recv" /\ got[r].ok) /\ ~doing[r].heard
  BY <1>1, <1>3 DEF WorkerInv, Quiet
<1>6. /\ doing'[r] = Nothing /\ pc'[r] = "idle"
      /\ reply'[r] = IF c.heard THEN [ok |-> TRUE, value |-> value] ELSE reply[r]
  <2>1. AnswerTo(r, c, TRUE, value)
    BY <1>1 DEF QuerySignal
  <2>2. value \in {0, 1}
    OBVIOUS
  <2> HIDE DEF value
  <2> QED
    BY <2>1, <2>2, AnswerTypes DEF WeightTypes
<1>7. offers'[r] = offers[r] /\ batch'[r] = batch[r] /\ gens'[r] = gens[r] /\ Agreed' = Agreed
  BY DEF QuerySignal, Agreed
<1>8. \A i \in DOMAIN inbox'[r] : WorkerCommand(r, i)' /\ ~c.heard
  <2>1. SUFFICES ASSUME NEW i \in DOMAIN inbox'[r] PROVE WorkerCommand(r, i)' /\ ~c.heard
    BY Zenon
  <2>2. i \in Nat /\ Len(inbox[r]) # 1 /\ (i + 1 = Len(inbox[r]) => i = Len(inbox'[r]))
    BY <1>1, SMT
  <2>3. WorkerCommand(r, i + 1)
    BY <1>1, <1>3, Zenon DEF WorkerInv
  <2> QED
    BY <1>1, <1>4, <1>6, <1>7, <2>2, <2>3 DEF WorkerCommand, Awaits, Asking
<1>9. RegisterInv(r)'
  BY <1>1, <1>6, <1>7 DEF ClientsInv, RegisterInv, Registering
<1>10. Nothing.heard = FALSE
  BY DEF Nothing
<1>11. WorkerInv(r)'
  <2> HIDE DEF value
  <2> QED
    BY <1>1, <1>3, <1>4, <1>5, <1>6, <1>7, <1>8, <1>10
       DEF WorkerInv, Registering, Receiving, Awaits, Early, Quiet
<1> QED
  BY <1>1, <1>2, <1>3, <1>4, <1>6, <1>9, <1>11 DEF LocalInv

\* A batch is dropped.
LEMMA CleanupLocal ==
  ASSUME WeightTypes, ClientsInv, NEW r \in Agents, CleanupBatch(r), UNCHANGED <<case, tpc, spc, got>>
  PROVE  LocalInv(r)' /\ r \in Senders /\ inbox'[r] = <<>> /\ inbox[r][1].op = "cleanup"
<1> DEFINE c == inbox[r][1]
<1>1. /\ pc[r] = "idle" /\ Head(inbox[r]) = c /\ c \in Commands /\ c.op = "cleanup"
      /\ 1 \in DOMAIN inbox[r]
      /\ Len(inbox[r]) = 1 => inbox'[r] = <<>>
  BY Taken DEF CleanupBatch
<1>2. r \in Senders
  <2>1. ASSUME r \in Receivers PROVE WorkerCommand(r, 1)
    BY <1>1, <2>1, Zenon DEF ClientsInv, WorkerInv
  <2> QED
    BY <1>1, <2>1 DEF WorkerCommand, Agents
<1>3. SenderInv(r) /\ SenderCommand(r, 1) /\ r \notin Receivers
  BY <1>1, <1>2, Leaders, Zenon DEF ClientsInv, SenderInv
<1>4. tpc[r] = "closed" /\ reply[r] = NoReply /\ inbox'[r] = <<>>
  BY <1>1, <1>3 DEF SenderCommand
<1>5. doing'[r] = Nothing /\ pc'[r] = "idle"
  BY AnswerTypes DEF CleanupBatch, WeightTypes
<1>6. batch'[r] \in {0, batch[r]} /\ offers'[r] = offers[r] /\ gens'[r] = gens[r] /\ Agreed' = Agreed
  BY Zenon DEF CleanupBatch, Agreed, WeightTypes, AgentTypes
<1>7. \A i \in DOMAIN inbox'[r] : FALSE
  BY <1>4, SMT
<1>8. RegisterInv(r)'
  BY <1>1, <1>5, <1>6 DEF ClientsInv, RegisterInv, Registering
<1>9. SenderInv(r)'
  BY <1>4, <1>5, <1>7 DEF SenderInv, Registering, Quiet
<1> QED
  BY <1>1, <1>2, <1>3, <1>4, <1>8, <1>9 DEF LocalInv

\* A step of an agent keeps what is said of clients and agents.
LEMMA AgentClients ==
  ASSUME WeightTypes, ClientsInv, NEW r \in Agents, AgentMoves(r)
  PROVE  WeightTypes' /\ ClientsInv'
<1>1. AgentStep(r) /\ UNCHANGED <<dtypes, case, gaveUp, gen, tpc, round, spc, got, paused, version, published>>
  BY Zenon DEF AgentMoves, trainVars, serveVars
<1>2. WeightTypes'
  BY <1>1, AgentTypesNext, Zenon DEF WeightTypes, ClientTypes
<1>3. LocalInv(r)'
  BY <1>1, StartRegisterLocal, GatheredLocal, RegisteredLocal, StartSendLocal, StartRecvLocal,
     AdvanceLocal, LeaveLocal, QueryLocal, CleanupLocal, Zenon DEF AgentStep
<1>4. \A q \in Agents \ {r} : LocalInv(q)'
  <2>1. SUFFICES ASSUME NEW q \in Agents, q # r PROVE LocalInv(q)'
    BY Zenon
  <2>2. Same(q)
    BY <1>1, <2>1, Alone, Zenon
  <2> QED
    BY <1>1, <2>2, KeepRegister, KeepSender, KeepWorker, Zenon DEF LocalInv, ClientsInv
<1>5. (spc = "down" => ~Agreed)'
  BY <1>1, Zenon DEF ClientsInv, Agreed
<1> QED
  BY <1>2, <1>3, <1>4, <1>5, Zenon DEF ClientsInv, LocalInv, Agents

-----------------------------------------------------------------------------
(* Clients and agents: the trainer *)

\* A client that gives up leaves its commands behind.
LEMMA Forgotten ==
  ASSUME WeightTypes, NEW r \in Agents, Forget(r)
  PROVE  /\ inbox' \in [Agents -> Seq(Commands)] /\ doing' \in [Agents -> Doings]
         /\ \A q \in Agents \ {r} : inbox'[q] = inbox[q] /\ doing'[q] = doing[q]
         /\ DOMAIN inbox'[r] = DOMAIN inbox[r] /\ Len(inbox'[r]) = Len(inbox[r])
         /\ inbox'[r] = <<>> <=> inbox[r] = <<>>
         /\ \A i \in DOMAIN inbox[r] : /\ inbox'[r][i].op = inbox[r][i].op
                                       /\ inbox'[r][i].layout = inbox[r][i].layout
                                       /\ ~inbox'[r][i].heard
         /\ doing'[r].op = doing[r].op /\ ~doing'[r].heard
<1> DEFINE box == [i \in 1..Len(inbox[r]) |-> [inbox[r][i] EXCEPT !.heard = FALSE]]
<1>1. inbox[r] \in Seq(Commands) /\ doing[r] \in Doings
  BY DEF WeightTypes, AgentTypes
<1>2. /\ inbox'[r] = box /\ doing'[r] = [doing[r] EXCEPT !.heard = FALSE]
      /\ \A q \in Agents \ {r} : inbox'[q] = inbox[q] /\ doing'[q] = doing[q]
  BY DEF Forget, WeightTypes, AgentTypes
<1>3. \A c \in Commands : /\ [c EXCEPT !.heard = FALSE] \in Commands
                          /\ [c EXCEPT !.heard = FALSE].op = c.op
                          /\ [c EXCEPT !.heard = FALSE].layout = c.layout
                          /\ [c EXCEPT !.heard = FALSE].heard = FALSE
  <2>1. SUFFICES ASSUME NEW c \in Commands
                 PROVE  /\ [c EXCEPT !.heard = FALSE] \in Commands
                        /\ [c EXCEPT !.heard = FALSE].op = c.op
                        /\ [c EXCEPT !.heard = FALSE].layout = c.layout
                        /\ [c EXCEPT !.heard = FALSE].heard = FALSE
    BY Zenon
  <2>2. [c EXCEPT !.heard = FALSE] \in Commands
    BY Zenon DEF Commands
  <2>3. /\ [c EXCEPT !.heard = FALSE].op = c.op
        /\ [c EXCEPT !.heard = FALSE].layout = c.layout
        /\ [c EXCEPT !.heard = FALSE].heard = FALSE
    BY SMT DEF Commands
  <2> QED
    BY <2>2, <2>3, Zenon
<1>4. /\ [doing[r] EXCEPT !.heard = FALSE] \in Doings
      /\ [doing[r] EXCEPT !.heard = FALSE].op = doing[r].op
      /\ [doing[r] EXCEPT !.heard = FALSE].heard = FALSE
  <2>1. [doing[r] EXCEPT !.heard = FALSE] \in Doings
    BY <1>1, Zenon DEF Doings
  <2>2. /\ [doing[r] EXCEPT !.heard = FALSE].op = doing[r].op
        /\ [doing[r] EXCEPT !.heard = FALSE].heard = FALSE
    BY <1>1, SMT DEF Doings
  <2> QED
    BY <2>1, <2>2, Zenon
<1>5. Len(inbox[r]) \in Nat /\ DOMAIN inbox[r] = 1..Len(inbox[r]) /\ \A i \in DOMAIN inbox[r] : inbox[r][i] \in Commands
  BY <1>1, SMT
<1>6. box \in Seq(Commands) /\ DOMAIN box = 1..Len(inbox[r]) /\ Len(box) = Len(inbox[r])
  BY <1>3, <1>5, SMT
<1>7. box = <<>> <=> inbox[r] = <<>>
  BY <1>1, <1>5, <1>6, EmptyBox, Zenon
<1>8. \A i \in DOMAIN inbox[r] : box[i] = [inbox[r][i] EXCEPT !.heard = FALSE]
  BY <1>5
<1> HIDE DEF box
<1>9. inbox' \in [Agents -> Seq(Commands)]
  <2>1. inbox' = [inbox EXCEPT ![r] = box]
    BY Zenon DEF Forget, box
  <2> QED
    BY <1>6, <2>1, Zenon DEF WeightTypes, AgentTypes
<1>10. doing' \in [Agents -> Doings]
  <2>1. doing' = [doing EXCEPT ![r] = [doing[r] EXCEPT !.heard = FALSE]]
    BY Zenon DEF Forget
  <2> QED
    BY <1>4, <2>1, Zenon DEF WeightTypes, AgentTypes
<1>11. doing'[r].op = doing[r].op /\ ~doing'[r].heard
  BY <1>2, <1>4, Zenon
<1>12. \A i \in DOMAIN inbox[r] : /\ inbox'[r][i].op = inbox[r][i].op
                                  /\ inbox'[r][i].layout = inbox[r][i].layout
                                  /\ ~inbox'[r][i].heard
  <2>1. \A i \in DOMAIN inbox[r] : inbox'[r][i] = [inbox[r][i] EXCEPT !.heard = FALSE]
    BY <1>2, <1>8, Zenon
  <2>2. \A i \in DOMAIN inbox[r] : /\ [inbox[r][i] EXCEPT !.heard = FALSE].op = inbox[r][i].op
                                    /\ [inbox[r][i] EXCEPT !.heard = FALSE].layout = inbox[r][i].layout
                                    /\ [inbox[r][i] EXCEPT !.heard = FALSE].heard = FALSE
    BY <1>3, <1>5, Zenon
  <2> QED
    BY <2>1, <2>2
<1>13. DOMAIN inbox'[r] = DOMAIN inbox[r] /\ Len(inbox'[r]) = Len(inbox[r])
  BY <1>2, <1>5, <1>6, Zenon
<1>14. inbox'[r] = <<>> <=> inbox[r] = <<>>
  BY <1>2, <1>7, Zenon
<1> QED
  BY <1>2, <1>9, <1>10, <1>11, <1>12, <1>13, <1>14

\* A command is queued.
LEMMA Submitted ==
  ASSUME WeightTypes, NEW r \in Agents, NEW c \in Commands, Submit(r, c)
  PROVE  /\ inbox' \in [Agents -> Seq(Commands)] /\ inbox'[r] = Append(inbox[r], c)
         /\ \A q \in Agents \ {r} : inbox'[q] = inbox[q]
<1>1. inbox[r] \in Seq(Commands)
  BY DEF WeightTypes, AgentTypes
<1>2. Append(inbox[r], c) \in Seq(Commands)
  BY <1>1, Given
<1> QED
  BY <1>2, Zenon DEF WeightTypes, AgentTypes, Submit

\* What the clients queue are commands.
LEMMA CommandTypes ==
  ASSUME WeightTypes, NEW r \in Agents
  PROVE  /\ Command("register", 0, case.layouts[r]) \in Commands
         /\ Command("send", gen[r], 0) \in Commands /\ Command("recv", gen[r], 0) \in Commands
         /\ Command("query", gen[r], 0) \in Commands /\ Command("cleanup", gen[r], 0) \in Commands
<1>1. case.layouts[r] \in Nat /\ gen[r] \in {0, 1}
  BY CasesAssumption DEF WeightTypes, ClientTypes
<1> QED
  BY <1>1, SMT DEF Command, Commands

\* A trainer rank's step keeps the types, and is about that rank.
LEMMA TrainerTypes ==
  ASSUME WeightTypes, NEW t \in Senders,
         TrainerStep(t) \/ (SendTimeout(t) /\ UNCHANGED <<engineVars, case, serveVars, chatVars>>)
  PROVE  WeightTypes' /\ \A q \in Agents \ {t} : Same(q) /\ (q \in Senders => tpc'[q] = tpc[q] /\ round'[q] = round[q])
<1>1. t \in Agents
  BY DEF Agents
<1>2. UNCHANGED <<dtypes, pc, offers, entered, batch, gens, wire, signal, cargo, case, spc, got, paused, version, published>>
  BY Zenon DEF TrainerStep, engineVars, serveVars
<1>3. /\ inbox' \in [Agents -> Seq(Commands)] /\ doing' \in [Agents -> Doings]
      /\ \A q \in Agents \ {t} : inbox'[q] = inbox[q] /\ doing'[q] = doing[q]
  <2>1. CASE SendTimeout(t)
    BY <1>1, <2>1, Forgotten DEF SendTimeout
  <2>2. CASE TrainerRegister(t) \/ Push(t) \/ TrainerClose(t)
    <3>1. PICK c \in Commands : Submit(t, c)
      BY <1>1, <2>2, CommandTypes, Zenon DEF TrainerRegister, Push, TrainerClose
    <3>2. doing' = doing
      BY <2>2, Zenon DEF TrainerRegister, Push, TrainerClose
    <3> QED
      BY <1>1, <3>1, <3>2, Submitted, Zenon DEF WeightTypes, AgentTypes
  <2>3. CASE inbox' = inbox /\ doing' = doing
    BY <2>3 DEF WeightTypes, AgentTypes
  <2> QED
    BY <2>1, <2>2, <2>3, Zenon
       DEF TrainerStep, TrainerRegistered, Perturb, Pushed, ChatsSeen, Rest
<1>4. /\ reply' \in [Agents -> Replies \cup {NoReply}] /\ DOMAIN tensor' = Agents
      /\ \A q \in Agents \ {t} : reply'[q] = reply[q] /\ tensor'[q] = tensor[q]
  <2>1. reply' = reply \/ reply' = [reply EXCEPT ![t] = NoReply]
    BY Zenon DEF TrainerStep, TrainerRegister, TrainerRegistered, Perturb, Push, Pushed, ChatsSeen,
                 Rest, TrainerClose, SendTimeout, Read
  <2>2. tensor' = tensor \/ tensor' = [tensor EXCEPT ![t] = {round[t] + 1}]
    BY Zenon DEF TrainerStep, TrainerRegister, TrainerRegistered, Perturb, Push, Pushed, ChatsSeen,
                 Rest, TrainerClose, SendTimeout
  <2> QED
    BY <2>1, <2>2, Zenon DEF WeightTypes, AgentTypes
<1>5. /\ tpc' \in [Senders -> TrainerPlaces]
      /\ \A q \in Senders \ {t} : tpc'[q] = tpc[q]
  <2>1. \E at \in TrainerPlaces : tpc' = [tpc EXCEPT ![t] = at]
    BY SMT DEF TrainerStep, TrainerRegister, TrainerRegistered, Perturb, Push, Pushed, ChatsSeen,
               Rest, TrainerClose, SendTimeout, TrainerMove, TrainerPlaces
  <2> QED
    BY <2>1, Zenon DEF WeightTypes, ClientTypes
<1>6. /\ round' \in [Senders -> 0..Rounds] /\ \A q \in Senders \ {t} : round'[q] = round[q]
  <2>1. round' = round \/ (round[t] < Rounds /\ round' = [round EXCEPT ![t] = round[t] + 1])
    BY Zenon DEF TrainerStep, TrainerRegister, TrainerRegistered, Perturb, Push, Pushed, ChatsSeen,
                 Rest, TrainerClose, SendTimeout
  <2> QED
    BY <2>1, RoundsAssumption, SMT DEF WeightTypes, ClientTypes
<1>7. gen' \in [Agents -> {0, 1}]
  <2>1. CASE TrainerRegistered(t)
    <3>1. reply[t] \in Replies
      BY <1>1, <2>1 DEF TrainerRegistered, Read, Answered, WeightTypes, AgentTypes
    <3>2. reply[t].value \in {0, 1}
      BY <3>1 DEF Replies
    <3> QED
      BY <1>1, <2>1, <3>2, Zenon DEF TrainerRegistered, WeightTypes, ClientTypes
  <2>2. CASE gen' = gen
    BY <2>2 DEF WeightTypes, ClientTypes
  <2> QED
    BY <2>1, <2>2, Zenon DEF TrainerStep, TrainerRegister, Perturb, Push, Pushed, ChatsSeen,
                             Rest, TrainerClose, SendTimeout
<1>8. gaveUp' = gaveUp
  BY Zenon DEF TrainerStep, TrainerRegister, TrainerRegistered, Perturb, Push, Pushed, ChatsSeen,
               Rest, TrainerClose, SendTimeout
<1>9. WeightTypes'
  BY <1>2, <1>3, <1>4, <1>5, <1>6, <1>7, <1>8, Zenon
     DEF WeightTypes, AgentTypes, ClientTypes, TransferDtype, OwnType, RemoteType
<1> QED
  BY <1>2, <1>3, <1>4, <1>5, <1>6, <1>9, Zenon DEF Same

\* A trainer rank between two commands.
LEMMA TrainerQuiet ==
  ASSUME WeightTypes, ClientsInv, NEW t \in Senders,
         tpc[t] \in {"start", "refused", "train", "aligning", "watching", "resting"}
  PROVE  Quiet(t) /\ reply[t] = NoReply
<1>1. SenderInv(t)
  BY DEF ClientsInv
<1>2. pc[t] = "idle" /\ reply[t] = NoReply
  BY <1>1 DEF SenderInv
<1>3. \A i \in DOMAIN inbox[t] : FALSE
  BY <1>1, Zenon DEF SenderInv, SenderCommand
<1> QED
  BY <1>2, <1>3, EmptyBox DEF Quiet, WeightTypes, AgentTypes, Agents

\* The queue of one command.
LEMMA OneCommand ==
  ASSUME NEW c \in Commands
  PROVE  Append(<<>>, c) = <<c>> /\ Len(<<c>>) = 1 /\ DOMAIN <<c>> = {1} /\ <<c>>[1] = c
  BY SMT

\* A trainer rank's step keeps what is said of that rank.
LEMMA TrainerLocal ==
  ASSUME WeightTypes, ClientsInv, NEW t \in Senders,
         TrainerStep(t) \/ (SendTimeout(t) /\ UNCHANGED <<engineVars, case, serveVars, chatVars>>)
  PROVE  LocalInv(t)'
<1>1. t \in Agents /\ t \notin Receivers /\ SenderInv(t) /\ RegisterInv(t)
  BY Leaders DEF Agents, ClientsInv
<1>2. UNCHANGED <<pc, offers, entered, batch, gens, case>>
  BY Zenon DEF TrainerStep, engineVars
<1>3. Agreed' = Agreed /\ RegisterInv(t)'
  BY <1>1, <1>2 DEF RegisterInv, Agreed
<1>4. \A from, to : TrainerMove(t, from, to) => tpc[t] = from /\ tpc'[t] = to
  BY DEF TrainerMove, WeightTypes, ClientTypes
<1>5. Read(t) => reply[t] # NoReply /\ reply'[t] = NoReply
  BY <1>1 DEF Read, Answered, WeightTypes, AgentTypes
<1>6. CASE TrainerRegister(t)
  <2> DEFINE c == Command("register", 0, case.layouts[t])
  <2>1. c \in Commands /\ c.op = "register" /\ c.layout = case.layouts[t]
    <3>1. c \in Commands
      BY <1>1, CommandTypes, Zenon
    <3>2. c.op = "register" /\ c.layout = case.layouts[t]
      BY Zenon DEF Command
    <3> QED
      BY <3>1, <3>2
  <2>2. tpc[t] = "start" /\ tpc'[t] = "registering" /\ UNCHANGED <<doing, reply>>
    BY <1>4, <1>6 DEF TrainerRegister
  <2>3. Quiet(t) /\ reply[t] = NoReply
    BY <2>2, TrainerQuiet
  <2>10. Submit(t, c)
    BY <1>6, Zenon DEF TrainerRegister
  <2> HIDE DEF c
  <2>11. inbox'[t] = Append(inbox[t], c)
    BY <1>1, <2>1, <2>10, Submitted, Zenon
  <2>4. inbox'[t] = <<c>>
    BY <2>1, <2>3, <2>11, OneCommand, Zenon DEF Quiet
  <2>5. \A i \in DOMAIN inbox'[t] : SenderCommand(t, i)'
    <3>1. DOMAIN inbox'[t] = {1} /\ inbox'[t][1] = c /\ Len(inbox'[t]) = 1
      BY <2>1, <2>4, OneCommand, Zenon
    <3>2. pc'[t] = "idle" /\ offers'[t] = <<>> /\ reply'[t] = NoReply /\ case' = case
      BY <1>1, <1>2, <2>2, <2>3, Zenon DEF SenderInv, Quiet
    <3> QED
      BY <2>1, <2>2, <3>1, <3>2, Zenon DEF SenderCommand
  <2>6. SenderInv(t)'
    BY <1>2, <2>2, <2>3, <2>5 DEF SenderInv, Registering, Quiet
  <2> QED
    BY <1>1, <1>3, <2>6 DEF LocalInv
<1>7. CASE TrainerRegistered(t) \/ Pushed(t)
  <2>1. reply[t] # NoReply /\ reply'[t] = NoReply /\ UNCHANGED <<inbox, doing>>
    BY <1>5, <1>7, Zenon DEF TrainerRegistered, Pushed
  <2>2. \/ tpc[t] = "registering" /\ tpc'[t] = IF reply[t].ok THEN "train" ELSE "refused"
        \/ tpc[t] = "sending" /\ tpc'[t] \in {"failed", "watching", "resting"}
    BY <1>4, <1>7, Zenon DEF TrainerRegistered, Pushed
  <2>3. Quiet(t) /\ (\A i \in DOMAIN inbox'[t] : FALSE)
    <3>1. Quiet(t)
      BY <1>1, <2>1 DEF SenderInv
    <3> QED
      BY <2>1, <3>1, SMT DEF Quiet
  <2>4. /\ tpc'[t] = "refused" => ~Agreed
        /\ tpc'[t] # "refused" => batch[t] = 1
    BY <1>1, <2>1, <2>2 DEF SenderInv
  <2>5. SenderInv(t)'
    BY <1>2, <1>3, <2>1, <2>2, <2>3, <2>4 DEF SenderInv, Registering, Quiet
  <2> QED
    BY <1>1, <1>3, <2>5 DEF LocalInv
<1>8. CASE Perturb(t) \/ ChatsSeen(t) \/ Rest(t)
  <2>1. /\ tpc[t] \in {"train", "watching", "resting"} /\ tpc'[t] \in {"aligning", "resting", "train"}
        /\ UNCHANGED <<inbox, doing, reply>>
    BY <1>4, <1>8, Zenon DEF Perturb, ChatsSeen, Rest
  <2>2. Quiet(t) /\ reply[t] = NoReply /\ batch[t] = 1
    BY <1>1, <2>1, TrainerQuiet DEF SenderInv
  <2>3. \A i \in DOMAIN inbox'[t] : FALSE
    BY <2>1, <2>2, SMT DEF Quiet
  <2>4. SenderInv(t)'
    BY <1>2, <2>1, <2>2, <2>3 DEF SenderInv, Registering, Quiet
  <2> QED
    BY <1>1, <1>3, <2>4 DEF LocalInv
<1>9. CASE Push(t)
  <2> DEFINE c == Command("send", gen[t], 0)
  <2>1. c \in Commands /\ c.op = "send"
    <3>1. c \in Commands
      BY <1>1, CommandTypes, Zenon
    <3>2. c.op = "send"
      BY Zenon DEF Command
    <3> QED
      BY <3>1, <3>2
  <2>2. tpc[t] = "aligning" /\ tpc'[t] = "sending" /\ UNCHANGED <<doing, reply>>
    BY <1>4, <1>9 DEF Push
  <2>3. Quiet(t) /\ reply[t] = NoReply /\ batch[t] = 1
    BY <1>1, <2>2, TrainerQuiet DEF SenderInv
  <2>10. Submit(t, c)
    BY <1>9, Zenon DEF Push
  <2> HIDE DEF c
  <2>11. inbox'[t] = Append(inbox[t], c)
    BY <1>1, <2>1, <2>10, Submitted, Zenon
  <2>4. inbox'[t] = <<c>>
    BY <2>1, <2>3, <2>11, OneCommand, Zenon DEF Quiet
  <2>5. \A i \in DOMAIN inbox'[t] : SenderCommand(t, i)'
    BY <1>1, <1>2, <2>1, <2>2, <2>3, <2>4, OneCommand DEF SenderCommand, Quiet
  <2>6. SenderInv(t)'
    BY <1>2, <2>2, <2>3, <2>5 DEF SenderInv, Registering, Quiet
  <2> QED
    BY <1>1, <1>3, <2>6 DEF LocalInv
<1>10. CASE SendTimeout(t)
  <2>1. tpc[t] = "sending" /\ tpc'[t] = "failed" /\ reply' = reply /\ reply[t] = NoReply /\ Forget(t)
    BY <1>4, <1>10 DEF SendTimeout, Answered
  <2>2. \A i \in DOMAIN inbox'[t] : SenderCommand(t, i)'
    <3>1. SUFFICES ASSUME NEW i \in DOMAIN inbox'[t] PROVE SenderCommand(t, i)'
      BY Zenon
    <3>2. i \in DOMAIN inbox[t] /\ inbox'[t][i].op = inbox[t][i].op /\ ~inbox'[t][i].heard
      BY <1>1, <2>1, Forgotten, Zenon
    <3>3. SenderCommand(t, i)
      BY <1>1, <3>2, Zenon DEF SenderInv
    <3> QED
      BY <1>2, <2>1, <3>2, <3>3 DEF SenderCommand
  <2>3. doing'[t].op = doing[t].op /\ ~doing'[t].heard
    BY <1>1, <2>1, Forgotten, Zenon
  <2>4. SenderInv(t)'
    BY <1>1, <1>2, <2>1, <2>2, <2>3 DEF SenderInv, Registering
  <2> QED
    BY <1>1, <1>3, <2>4 DEF LocalInv
<1>11. CASE TrainerClose(t)
  <2> DEFINE c == Command("cleanup", gen[t], 0)
  <2>1. c \in Commands /\ c.op = "cleanup"
    <3>1. c \in Commands
      BY <1>1, CommandTypes, Zenon
    <3>2. c.op = "cleanup"
      BY Zenon DEF Command
    <3> QED
      BY <3>1, <3>2
  <2>2. tpc[t] \in {"train", "failed"} /\ tpc'[t] = "closed" /\ UNCHANGED <<doing, reply>>
    BY <1>4, <1>11, Zenon DEF TrainerClose
  <2>3. reply[t] = NoReply /\ batch[t] = 1
    BY <1>1, <2>2 DEF SenderInv
  <2>10. Submit(t, c)
    BY <1>11, Zenon DEF TrainerClose
  <2> HIDE DEF c
  <2>4. inbox'[t] = Append(inbox[t], c) /\ inbox[t] \in Seq(Commands)
    BY <1>1, <2>1, <2>10, Submitted, Zenon DEF WeightTypes, AgentTypes
  <2>5. /\ Len(inbox[t]) \in Nat /\ Len(inbox'[t]) = Len(inbox[t]) + 1 /\ DOMAIN inbox[t] = 1..Len(inbox[t])
        /\ DOMAIN inbox'[t] = 1..(Len(inbox[t]) + 1)
        /\ \A i \in DOMAIN inbox[t] : inbox'[t][i] = inbox[t][i]
        /\ inbox'[t][Len(inbox[t]) + 1] = c
    BY <2>1, <2>4, Given, SMT
  <2>6. \A i \in DOMAIN inbox'[t] : SenderCommand(t, i)'
    <3>1. SUFFICES ASSUME NEW i \in DOMAIN inbox'[t] PROVE SenderCommand(t, i)'
      BY Zenon
    <3>2. i \in DOMAIN inbox[t] \/ i = Len(inbox[t]) + 1
      BY <2>5, SMT
    <3>3. CASE i \in DOMAIN inbox[t]
      <4>1. SenderCommand(t, i) /\ inbox'[t][i] = inbox[t][i]
        BY <1>1, <2>5, <3>3, Zenon DEF SenderInv
      <4> QED
        BY <1>2, <2>2, <2>3, <4>1 DEF SenderCommand
    <3>4. CASE i = Len(inbox[t]) + 1
      BY <1>2, <2>1, <2>2, <2>3, <2>5, <3>4 DEF SenderCommand
    <3> QED
      BY <3>2, <3>3, <3>4
  <2>7. SenderInv(t)'
    BY <1>1, <1>2, <2>2, <2>3, <2>6 DEF SenderInv, Registering
  <2> QED
    BY <1>1, <1>3, <2>7 DEF LocalInv
<1> QED
  BY <1>6, <1>7, <1>8, <1>9, <1>10, <1>11, Zenon DEF TrainerStep

\* A step of the trainer, or its patience coming to an end, keeps what is said of
\* clients and agents.
LEMMA TrainerClients ==
  ASSUME WeightTypes, ClientsInv, NEW t \in Senders,
         TrainerStep(t) \/ (SendTimeout(t) /\ UNCHANGED <<engineVars, case, serveVars, chatVars>>)
  PROVE  WeightTypes' /\ ClientsInv'
<1>1. UNCHANGED <<case, spc, got>>
  BY Zenon DEF TrainerStep, serveVars
<1>2. WeightTypes' /\ \A q \in Agents \ {t} : Same(q) /\ (q \in Senders => tpc'[q] = tpc[q])
  BY TrainerTypes, Zenon
<1>3. LocalInv(t)'
  BY TrainerLocal, Zenon
<1>4. \A q \in Agents \ {t} : LocalInv(q)'
  BY <1>1, <1>2, KeepRegister, KeepSender, KeepWorker, Zenon DEF LocalInv, ClientsInv
<1>5. (spc = "down" => ~Agreed)'
  BY <1>1, Zenon DEF ClientsInv, Agreed
<1> QED
  BY <1>2, <1>3, <1>4, <1>5, Zenon DEF ClientsInv, LocalInv, Agents

-----------------------------------------------------------------------------
(* Clients and agents: the server *)

\* Nobody waits for what the agent of v still has to do.
LEMMA Unawaited ==
  ASSUME NEW v \in Receivers, WorkerInv(v), ~Awaits(v)
  PROVE  /\ \A i \in DOMAIN inbox[v] : ~inbox[v][i].heard /\ inbox[v][i].op \in {"query", "recv"} /\ spc \notin Early
         /\ ~doing[v].heard /\ reply[v] = NoReply /\ pc[v] \notin Registering
<1>1. ~doing[v].heard /\ reply[v] = NoReply /\ pc[v] \notin Registering
  BY DEF WorkerInv
<1>2. SUFFICES ASSUME NEW i \in DOMAIN inbox[v]
               PROVE  ~inbox[v][i].heard /\ inbox[v][i].op \in {"query", "recv"} /\ spc \notin Early
  BY <1>1, Zenon
<1>3. WorkerCommand(v, i)
  BY Zenon DEF WorkerInv
<1> QED
  BY <1>3 DEF WorkerCommand

\* The server goes on without asking anybody.
LEMMA ServerGoesOn ==
  ASSUME WeightTypes, NEW v \in Receivers, WorkerInv(v), ~Awaits(v), Same(v), case' = case,
         spc' \notin {"start", "setup", "query", "recv"}, spc # "start",
         spc \in Early <=> spc' = "down", spc' \notin Early => batch[v] = 1
  PROVE  WorkerInv(v)'
<1>1. /\ \A i \in DOMAIN inbox[v] : ~inbox[v][i].heard /\ inbox[v][i].op \in {"query", "recv"} /\ spc \notin Early
      /\ ~doing[v].heard /\ reply[v] = NoReply /\ pc[v] \notin Registering
  BY Unawaited, Zenon
<1>2. \A i \in DOMAIN inbox'[v] : WorkerCommand(v, i)'
  <2>1. SUFFICES ASSUME NEW i \in DOMAIN inbox[v] PROVE WorkerCommand(v, i)'
    BY Zenon DEF Same
  <2> QED
    BY <1>1 DEF WorkerCommand, Same, Early
<1>3. (spc \in Early)' = (spc \in Early)
  BY DEF Early
<1> QED
  BY <1>1, <1>2, <1>3 DEF WorkerInv, Same, Awaits, Early, Registering

\* The server asks its workers for something.
LEMMA ServerAsks ==
  ASSUME WeightTypes, NEW v \in Receivers, WorkerInv(v), spc \in {"loop", "pause"},
         case' = case, spc' \in {"query", "recv"}, got'[v] = Unanswered,
         NEW c \in Commands, c.op = spc', c.heard, inbox'[v] = Append(inbox[v], c),
         UNCHANGED <<pc, doing, reply, offers, batch, entered>>
  PROVE  WorkerInv(v)'
<1>1. ~Awaits(v) /\ Awaits(v)' /\ Asking' = c.op /\ spc \notin Early /\ spc' \notin Early
  BY DEF Awaits, Asking, Early
<1>2. /\ \A i \in DOMAIN inbox[v] : ~inbox[v][i].heard /\ inbox[v][i].op \in {"query", "recv"}
      /\ ~doing[v].heard /\ reply[v] = NoReply /\ pc[v] \notin Registering
  BY <1>1, Unawaited, Zenon
<1>3. v \in Agents /\ inbox[v] \in Seq(Commands)
  BY DEF Agents, WeightTypes, AgentTypes
<1>4. /\ Len(inbox[v]) \in Nat /\ Len(inbox'[v]) = Len(inbox[v]) + 1 /\ DOMAIN inbox[v] = 1..Len(inbox[v])
      /\ DOMAIN inbox'[v] = 1..(Len(inbox[v]) + 1)
      /\ \A i \in DOMAIN inbox[v] : inbox'[v][i] = inbox[v][i]
      /\ inbox'[v][Len(inbox[v]) + 1] = c
  BY <1>3, Given, SMT
<1>5. \A i \in DOMAIN inbox'[v] : WorkerCommand(v, i)'
  <2>1. SUFFICES ASSUME NEW i \in DOMAIN inbox'[v] PROVE WorkerCommand(v, i)'
    BY Zenon
  <2>2. i \in DOMAIN inbox[v] \/ i = Len(inbox[v]) + 1
    BY <1>4, SMT
  <2>3. CASE i \in DOMAIN inbox[v]
    BY <1>1, <1>2, <1>4, <2>3 DEF WorkerCommand
  <2>4. CASE i = Len(inbox[v]) + 1
    BY <1>1, <1>2, <1>4, <2>4 DEF WorkerCommand
  <2> QED
    BY <2>2, <2>3, <2>4
<1>6. got'[v].ok = FALSE /\ spc' # "setup" /\ spc' # "start"
  BY DEF Unanswered
<1> QED
  BY <1>1, <1>2, <1>5, <1>6 DEF WorkerInv

\* collective_rpc gives every worker's agent one command, and nobody else any.
LEMMA RpcTypes ==
  ASSUME WeightTypes, SetupTensorbus \/ QueryWorkers \/ PauseAndReceive
  PROVE  /\ inbox' \in [Agents -> Seq(Commands)] /\ got' \in [Receivers -> Replies \cup {Unanswered}]
         /\ \A q \in Senders : inbox'[q] = inbox[q]
         /\ spc' = IF spc = "start" THEN "setup" ELSE IF spc = "loop" THEN "query" ELSE "recv"
         /\ spc \in {"start", "loop", "pause"}
         /\ \A v \in Receivers :
              /\ got'[v] = Unanswered
              /\ \E c \in Commands : /\ inbox'[v] = Append(inbox[v], c) /\ c.heard
                                     /\ c.op = Asking' /\ (spc = "start" => c.layout = case.layouts[v])
<1>1. \A v \in Receivers : /\ RegisterCommand(v) \in Commands /\ QueryCommand(v) \in Commands
                           /\ RecvCommand(v) \in Commands
  BY CommandTypes, Zenon DEF Agents, RegisterCommand, QueryCommand, RecvCommand
<1>2. got' = [v \in Receivers |-> Unanswered]
  BY Zenon DEF SetupTensorbus, QueryWorkers, PauseAndReceive, Rpc
<1>3. /\ spc' = IF spc = "start" THEN "setup" ELSE IF spc = "loop" THEN "query" ELSE "recv"
      /\ spc \in {"start", "loop", "pause"}
  BY DEF SetupTensorbus, QueryWorkers, PauseAndReceive, Rpc
<1>4. \A v \in Receivers :
        /\ RegisterCommand(v).op = "register" /\ RegisterCommand(v).heard
        /\ RegisterCommand(v).layout = case.layouts[v]
        /\ QueryCommand(v).op = "query" /\ QueryCommand(v).heard
        /\ RecvCommand(v).op = "recv" /\ RecvCommand(v).heard
  BY SMT DEF RegisterCommand, QueryCommand, RecvCommand, Command
<1>5. /\ inbox' \in [Agents -> Seq(Commands)]
      /\ \A q \in Senders : inbox'[q] = inbox[q]
      /\ \A v \in Receivers : \E c \in Commands :
           /\ inbox'[v] = Append(inbox[v], c) /\ c.heard
           /\ c.op = Asking' /\ (spc = "start" => c.layout = case.layouts[v])
  <2>1. \A r \in Agents : inbox[r] \in Seq(Commands)
    BY DEF WeightTypes, AgentTypes
  <2>2. \A r \in Agents : \A c \in Commands : Append(inbox[r], c) \in Seq(Commands)
    BY <2>1, Given, Zenon
  <2>3. \A q \in Senders : q \in Agents /\ q \notin Receivers
    BY SidesAssumption DEF Agents
  <2>4. \A v \in Receivers : v \in Agents
    BY DEF Agents
  <2>5. CASE SetupTensorbus
    <3>1. inbox' = [r \in Agents |-> IF r \in Receivers THEN Append(inbox[r], RegisterCommand(r)) ELSE inbox[r]]
      BY <2>5, Zenon DEF SetupTensorbus, Rpc
    <3>2. inbox' \in [Agents -> Seq(Commands)]
      BY <1>1, <2>1, <2>2, <3>1, Zenon
    <3>3. spc = "start" /\ Asking' = "register"
      BY <2>5 DEF SetupTensorbus, Rpc, Asking
    <3> QED
      BY <1>1, <1>4, <2>3, <2>4, <3>1, <3>2, <3>3, Zenon
  <2>6. CASE QueryWorkers
    <3>1. inbox' = [r \in Agents |-> IF r \in Receivers THEN Append(inbox[r], QueryCommand(r)) ELSE inbox[r]]
      BY <2>6, Zenon DEF QueryWorkers, Rpc
    <3>2. inbox' \in [Agents -> Seq(Commands)]
      BY <1>1, <2>1, <2>2, <3>1, Zenon
    <3>3. spc # "start" /\ Asking' = "query"
      BY <2>6 DEF QueryWorkers, Rpc, Asking
    <3> QED
      BY <1>1, <1>4, <2>3, <2>4, <3>1, <3>2, <3>3, Zenon
  <2>7. CASE PauseAndReceive
    <3>1. inbox' = [r \in Agents |-> IF r \in Receivers THEN Append(inbox[r], RecvCommand(r)) ELSE inbox[r]]
      BY <2>7, Zenon DEF PauseAndReceive, Rpc
    <3>2. inbox' \in [Agents -> Seq(Commands)]
      BY <1>1, <2>1, <2>2, <3>1, Zenon
    <3>3. spc # "start" /\ Asking' = "recv"
      BY <2>7 DEF PauseAndReceive, Rpc, Asking
    <3> QED
      BY <1>1, <1>4, <2>3, <2>4, <3>1, <3>2, <3>3, Zenon
  <2> QED
    BY <2>5, <2>6, <2>7, Zenon
<1> QED
  BY <1>2, <1>3, <1>5, Zenon

\* The registration of the server: its workers have been given nothing before.
LEMMA SetupLocal ==
  ASSUME WeightTypes, NEW v \in Receivers, WorkerInv(v), spc = "start",
         case' = case, spc' = "setup", got'[v] = Unanswered,
         NEW c \in Commands, c.op = "register", c.heard, c.layout = case.layouts[v],
         inbox'[v] = Append(inbox[v], c), UNCHANGED <<pc, doing, reply, offers, batch, entered>>
  PROVE  WorkerInv(v)'
<1>1. ~Awaits(v) /\ Awaits(v)' /\ Asking' = "register" /\ spc \in Early /\ spc' \in Early
  BY DEF Awaits, Asking, Early
<1>2. /\ \A i \in DOMAIN inbox[v] : spc \notin Early
      /\ ~doing[v].heard /\ reply[v] = NoReply /\ pc[v] \notin Registering
  BY <1>1, Unawaited, Zenon
<1>3. inbox[v] \in Seq(Commands) /\ v \in Agents
  BY DEF Agents, WeightTypes, AgentTypes
<1>4. inbox[v] = <<>> /\ pc[v] = "idle" /\ offers[v] = <<>>
  <2>1. \A i \in DOMAIN inbox[v] : FALSE
    BY <1>1, <1>2, Zenon
  <2>2. inbox[v] = <<>>
    BY <1>3, <2>1, EmptyBox, Zenon
  <2> QED
    BY <1>1, <1>2, <2>2 DEF WorkerInv
<1>5. DOMAIN inbox'[v] = {1} /\ inbox'[v][1] = c /\ Len(inbox'[v]) = 1
  BY <1>4, SMT
<1>6. \A i \in DOMAIN inbox'[v] : WorkerCommand(v, i)'
  BY <1>1, <1>2, <1>4, <1>5 DEF WorkerCommand
<1> QED
  BY <1>1, <1>2, <1>4, <1>6 DEF WorkerInv

\* What the server hears from a worker, or makes up when it does not.
LEMMA HeardLocal ==
  ASSUME WeightTypes, NEW v \in Receivers, WorkerInv(v), case' = case, spc' = spc,
         got' = [got EXCEPT ![v] = reply[v]], Answered(v), reply'[v] = NoReply,
         UNCHANGED <<inbox, doing, pc, offers, batch, entered>>
  PROVE  WorkerInv(v)'
<1>1. v \in Agents /\ got'[v] = reply[v]
  BY DEF Agents, WeightTypes, ClientTypes
<1>2. Awaits(v) /\ Quiet(v) /\ (spc = "setup" => SetupInv(v, reply[v]))
  BY DEF WorkerInv, Answered
<1>3. inbox[v] = <<>> /\ pc[v] = "idle" /\ ~doing[v].heard
  BY <1>2 DEF Quiet, WorkerInv
<1>4. \A i \in DOMAIN inbox'[v] : WorkerCommand(v, i)'
  <2>1. DOMAIN inbox'[v] = {}
    BY <1>3, SMT
  <2> QED
    BY <2>1, Zenon
<1>5. (spc = "setup" => SetupInv(v, got[v]))'
  BY <1>1, <1>2, Zenon DEF SetupInv, Agreed
<1>6. Quiet(v)'
  BY <1>3 DEF Quiet
<1> QED
  BY <1>3, <1>4, <1>5, <1>6 DEF WorkerInv, Registering

\* The server gives up waiting for a worker.
LEMMA GivenUpLocal ==
  ASSUME WeightTypes, NEW v \in Receivers, WorkerInv(v), WorkerTimeout(v),
         UNCHANGED <<engineVars, case>>
  PROVE  WorkerInv(v)'
<1>1. v \in Agents /\ Forget(v) /\ reply[v] = NoReply /\ reply' = reply /\ spc' = spc /\ spc \in {"query", "recv"}
  BY Zenon DEF Agents, WorkerTimeout, Answered
<1>2. UNCHANGED <<pc, offers, batch, entered>>
  BY DEF engineVars
<1>3. /\ DOMAIN inbox'[v] = DOMAIN inbox[v] /\ Len(inbox'[v]) = Len(inbox[v])
      /\ \A i \in DOMAIN inbox[v] : /\ inbox'[v][i].op = inbox[v][i].op
                                    /\ inbox'[v][i].layout = inbox[v][i].layout
                                    /\ ~inbox'[v][i].heard
      /\ doing'[v].op = doing[v].op /\ ~doing'[v].heard
  BY <1>1, Forgotten, Zenon
<1>4. spc # "setup" /\ spc \notin Early
  BY <1>1 DEF Early
<1>5. \A i \in DOMAIN inbox'[v] : WorkerCommand(v, i)'
  <2>1. SUFFICES ASSUME NEW i \in DOMAIN inbox[v] PROVE WorkerCommand(v, i)'
    BY <1>3, Zenon
  <2>2. WorkerCommand(v, i)
    BY Zenon DEF WorkerInv
  <2> QED
    BY <1>1, <1>3, <1>4, <2>2 DEF WorkerCommand
<1>6. spc' = "recv" => ~got'[v].ok
  <2>1. spc' = "recv" => got' = [got EXCEPT ![v] = Failed]
    BY <1>1, SMT DEF WorkerTimeout
  <2>2. spc' = "recv" => got'[v] = Failed
    BY <2>1 DEF WeightTypes, ClientTypes
  <2> QED
    BY <2>2 DEF Failed
<1> QED
  BY <1>1, <1>2, <1>3, <1>4, <1>5, <1>6 DEF WorkerInv

\* The replies a server may hold.
LEMMA AnswerKinds ==
  /\ Failed \in Replies /\ [ok |-> TRUE, value |-> 0] \in Replies
  /\ Unanswered \notin Replies /\ NoReply \notin Replies
  BY SMT DEF Failed, Replies, Unanswered, NoReply

\* The server's steps keep the types.
LEMMA ServerTypes ==
  ASSUME WeightTypes,
         \/ ServerStep
         \/ \E v \in Receivers : WorkerTimeout(v) /\ UNCHANGED <<engineVars, tensor, case, tpc, round, gate, since, chatVars>>
  PROVE  WeightTypes'
<1>1. UNCHANGED <<dtypes, pc, offers, entered, batch, gens, wire, signal, cargo, tensor, case, tpc, round>>
  BY Zenon DEF ServerStep, engineVars
<1>2. CASE SetupTensorbus \/ QueryWorkers \/ PauseAndReceive
  <2>1. /\ inbox' \in [Agents -> Seq(Commands)] /\ got' \in [Receivers -> Replies \cup {Unanswered}]
        /\ spc' = IF spc = "start" THEN "setup" ELSE IF spc = "loop" THEN "query" ELSE "recv"
        /\ spc \in {"start", "loop", "pause"}
    BY <1>2, RpcTypes, Zenon
  <2>2. /\ UNCHANGED <<gen, version, published>> /\ spc' \in ServerPlaces
        /\ paused' = (spc' = "recv")
    <3>1. UNCHANGED <<gen, version, published>> /\ spc' \in ServerPlaces
      BY <1>2, <2>1 DEF SetupTensorbus, QueryWorkers, PauseAndReceive, ServerPlaces
    <3>2. CASE PauseAndReceive
      BY <3>1, <3>2, Zenon DEF PauseAndReceive, Rpc
    <3>3. CASE SetupTensorbus \/ QueryWorkers
      <4>1. paused' = paused /\ spc # "recv" /\ spc' # "recv"
        BY <3>3 DEF SetupTensorbus, QueryWorkers, Rpc
      <4> QED
        BY <3>1, <4>1, Zenon DEF WeightTypes, ClientTypes
    <3> QED
      BY <1>2, <3>2, <3>3, Zenon
  <2>3. UNCHANGED <<doing, reply, gaveUp>>
    BY <1>2 DEF ServerStep, SetupTensorbus, QueryWorkers, PauseAndReceive, WorkerAnswers, WorkerTimeout, Rpc
  <2> QED
    BY <1>1, <2>1, <2>2, <2>3, Zenon DEF WeightTypes, AgentTypes, ClientTypes, TransferDtype, OwnType, RemoteType
<1>3. CASE StartLoop \/ SignalSeen \/ Resume \/ PublishVersion \/ Reopen
  <2>1. UNCHANGED <<inbox, got>>
    BY <1>3, Zenon DEF StartLoop, SignalSeen, Resume, PublishVersion, Reopen
  <2>2. spc' \in ServerPlaces /\ paused' = (spc' = "recv") /\ version' \in Nat /\ published' \in Nat
    <3>1. spc' \in ServerPlaces /\ spc' # "recv"
      BY <1>3 DEF StartLoop, SignalSeen, Resume, PublishVersion, Reopen, ServerPlaces
    <3>2. version' \in Nat /\ published' \in Nat
      <4>1. version \in Nat /\ published \in Nat
        BY DEF WeightTypes, ClientTypes
      <4> QED
        BY <1>3, <4>1, SMT DEF StartLoop, SignalSeen, Resume, PublishVersion, Reopen
    <3>3. paused' = FALSE
      <4>1. spc # "recv" \/ Resume
        BY <1>3 DEF StartLoop, SignalSeen, Resume, PublishVersion, Reopen
      <4>2. paused' = FALSE \/ paused' = paused
        BY <1>3, Zenon DEF StartLoop, SignalSeen, Resume, PublishVersion, Reopen
      <4> QED
        BY <4>1, <4>2, Zenon DEF WeightTypes, ClientTypes, Resume
    <3> QED
      BY <3>1, <3>2, <3>3, Zenon
  <2>3. gen' \in [Agents -> {0, 1}]
    <3>1. CASE StartLoop
      <4>1. \A v \in Receivers : got[v] \in Replies
        BY <3>1, Zenon DEF StartLoop, RpcDone, WeightTypes, ClientTypes
      <4>2. \A v \in Receivers : got[v].value \in {0, 1}
        BY <4>1 DEF Replies
      <4> QED
        BY <3>1, <4>2, Zenon DEF StartLoop, WeightTypes, ClientTypes
    <3>2. CASE gen' = gen
      BY <3>2 DEF WeightTypes, ClientTypes
    <3> QED
      BY <1>3, <3>1, <3>2, Zenon DEF SignalSeen, Resume, PublishVersion, Reopen
  <2>4. UNCHANGED <<doing, reply, gaveUp>>
    BY <1>3 DEF ServerStep, StartLoop, SignalSeen, Resume, PublishVersion, Reopen, WorkerAnswers, WorkerTimeout
  <2> QED
    BY <1>1, <2>1, <2>2, <2>3, <2>4, Zenon DEF WeightTypes, AgentTypes, ClientTypes, TransferDtype, OwnType, RemoteType
<1>4. CASE \E v \in Receivers : WorkerAnswers(v)
  <2>1. PICK v \in Receivers : WorkerAnswers(v)
    BY <1>4
  <2>2. v \in Agents
    BY DEF Agents
  <2>3. reply' \in [Agents -> Replies \cup {NoReply}]
    BY <2>1, <2>2, Zenon DEF WorkerAnswers, Read, WeightTypes, AgentTypes
  <2>4. got' \in [Receivers -> Replies \cup {Unanswered}]
    <3>1. reply[v] \in Replies
      BY <2>1, <2>2, Zenon DEF WorkerAnswers, Read, Answered, WeightTypes, AgentTypes
    <3> QED
      BY <2>1, <3>1, Zenon DEF WorkerAnswers, WeightTypes, ClientTypes
  <2>5. UNCHANGED <<inbox, doing, gaveUp, gen, spc, paused, version, published>>
    BY <2>1, Zenon DEF WorkerAnswers
  <2> QED
    BY <1>1, <2>3, <2>4, <2>5, Zenon DEF WeightTypes, AgentTypes, ClientTypes, TransferDtype, OwnType, RemoteType
<1>5. CASE \E v \in Receivers : WorkerTimeout(v)
  <2>1. PICK v \in Receivers : WorkerTimeout(v)
    BY <1>5
  <2>2. v \in Agents
    BY DEF Agents
  <2>3. inbox' \in [Agents -> Seq(Commands)] /\ doing' \in [Agents -> Doings]
    BY <2>1, <2>2, Forgotten, Zenon DEF WorkerTimeout
  <2>4. got' \in [Receivers -> Replies \cup {Unanswered}]
    BY <2>1, AnswerKinds, Zenon DEF WorkerTimeout, WeightTypes, ClientTypes
  <2>5. UNCHANGED <<reply, gen, spc, paused, version, published>> /\ gaveUp' \in BOOLEAN
    BY <2>1, Zenon DEF WorkerTimeout, WeightTypes, ClientTypes
  <2> QED
    BY <1>1, <2>3, <2>4, <2>5, Zenon DEF WeightTypes, AgentTypes, ClientTypes, TransferDtype, OwnType, RemoteType
<1> QED
  BY <1>2, <1>3, <1>4, <1>5, Zenon DEF ServerStep

\* Nobody is waited for once the RPC is done.
LEMMA AllAnswered ==
  ASSUME NEW v \in Receivers, RpcDone \/ spc \notin {"setup", "query", "recv"}
  PROVE  ~Awaits(v)
  BY DEF RpcDone, Awaits

\* A step of the server, or its patience coming to an end, keeps what is said of clients
\* and agents.
LEMMA ServerClients ==
  ASSUME WeightTypes, ClientsInv,
         \/ ServerStep
         \/ \E v \in Receivers : WorkerTimeout(v) /\ UNCHANGED <<engineVars, tensor, case, tpc, round, gate, since, chatVars>>
  PROVE  WeightTypes' /\ ClientsInv'
<1>1. UNCHANGED <<dtypes, pc, offers, entered, batch, gens, wire, signal, cargo, tensor, case, tpc, round>>
      /\ UNCHANGED <<engineVars, case>>
  BY Zenon DEF ServerStep, engineVars
<1>2. WeightTypes'
  BY ServerTypes, Zenon
<1>3. \A r \in Agents : RegisterInv(r)'
  BY <1>1, Zenon DEF ClientsInv, RegisterInv, Agreed
<1>4. \A q \in Senders : inbox'[q] = inbox[q] /\ doing'[q] = doing[q] /\ reply'[q] = reply[q]
  <2>1. SUFFICES ASSUME NEW q \in Senders
                 PROVE  inbox'[q] = inbox[q] /\ doing'[q] = doing[q] /\ reply'[q] = reply[q]
    BY Zenon
  <2>2. q \in Agents /\ q \notin Receivers
    BY SidesAssumption DEF Agents
  <2>3. CASE SetupTensorbus \/ QueryWorkers \/ PauseAndReceive
    <3>1. inbox'[q] = inbox[q]
      BY <2>3, RpcTypes, Zenon
    <3>2. UNCHANGED <<doing, reply>>
      BY <2>3 DEF ServerStep, SetupTensorbus, QueryWorkers, PauseAndReceive, WorkerAnswers, WorkerTimeout, Rpc
    <3> QED
      BY <3>1, <3>2
  <2>4. CASE StartLoop \/ SignalSeen \/ Resume \/ PublishVersion \/ Reopen
    BY <2>4 DEF ServerStep, StartLoop, SignalSeen, Resume, PublishVersion, Reopen, WorkerAnswers, WorkerTimeout
  <2>5. CASE \E v \in Receivers : WorkerAnswers(v)
    BY <2>2, <2>5, Zenon DEF WorkerAnswers, Read, WeightTypes, AgentTypes
  <2>6. CASE \E v \in Receivers : WorkerTimeout(v)
    <3>1. PICK v \in Receivers : WorkerTimeout(v)
      BY <2>6
    <3>2. v \in Agents /\ v # q
      BY <2>2 DEF Agents
    <3> QED
      <4>1. Forget(v) /\ reply' = reply
        BY <3>1, Zenon DEF WorkerTimeout
      <4>2. \A r \in Agents \ {v} : inbox'[r] = inbox[r] /\ doing'[r] = doing[r]
        BY <3>2, <4>1, Forgotten, Zenon
      <4> QED
        BY <2>2, <3>2, <4>1, <4>2, Zenon
  <2> QED
    BY <2>3, <2>4, <2>5, <2>6, Zenon DEF ServerStep
<1>5. \A t \in Senders : SenderInv(t)'
  BY <1>1, <1>4, KeepSender, Zenon DEF ClientsInv, Same
<1>6. ASSUME NEW v \in Receivers PROVE WorkerInv(v)'
  <2>1. WorkerInv(v) /\ v \in Agents
    BY DEF ClientsInv, Agents
  <2>2. CASE SetupTensorbus \/ QueryWorkers \/ PauseAndReceive
    <3>1. UNCHANGED <<doing, reply>>
      BY <2>2 DEF ServerStep, SetupTensorbus, QueryWorkers, PauseAndReceive, WorkerAnswers, WorkerTimeout, Rpc
    <3>2. /\ spc' = IF spc = "start" THEN "setup" ELSE IF spc = "loop" THEN "query" ELSE "recv"
          /\ spc \in {"start", "loop", "pause"} /\ got'[v] = Unanswered
      BY <2>2, RpcTypes, Zenon
    <3>3. PICK c \in Commands : /\ inbox'[v] = Append(inbox[v], c) /\ c.heard
                                /\ c.op = Asking' /\ (spc = "start" => c.layout = case.layouts[v])
      BY <2>2, RpcTypes, Zenon
    <3>4. CASE spc = "start"
      <4>1. spc' = "setup" /\ c.op = "register"
        BY <3>2, <3>3, <3>4 DEF Asking
      <4> QED
        BY <1>1, <2>1, <3>1, <3>2, <3>3, <3>4, <4>1, SetupLocal, Zenon
    <3>5. CASE spc \in {"loop", "pause"}
      <4>1. spc' \in {"query", "recv"} /\ c.op = spc'
        BY <3>2, <3>3, <3>5 DEF Asking
      <4> QED
        BY <1>1, <2>1, <3>1, <3>2, <3>3, <3>5, <4>1, ServerAsks, Zenon
    <3> QED
      BY <3>2, <3>4, <3>5
  <2>3. CASE StartLoop \/ SignalSeen \/ Resume \/ PublishVersion \/ Reopen
    <3>1. UNCHANGED <<inbox, doing, reply>>
      BY <2>3 DEF ServerStep, StartLoop, SignalSeen, Resume, PublishVersion, Reopen, WorkerAnswers, WorkerTimeout
    <3>2. Same(v)
      BY <1>1, <3>1, Zenon DEF Same
    <3>3. RpcDone \/ spc \notin {"setup", "query", "recv"}
      BY <2>3 DEF StartLoop, SignalSeen, Resume, PublishVersion, Reopen
    <3>4. ~Awaits(v)
      BY <3>3, AllAnswered, Zenon
    <3>5. spc' \notin {"start", "setup", "query", "recv"} /\ spc # "start"
      BY <2>3 DEF StartLoop, SignalSeen, Resume, PublishVersion, Reopen
    <3>6. CASE StartLoop
      <4>1. got[v] # Unanswered /\ spc = "setup"
        BY <3>6, Zenon DEF StartLoop, RpcDone
      <4>2. SetupInv(v, got[v])
        BY <2>1, <4>1 DEF WorkerInv
      <4>3. CASE RpcOk
        <5>1. spc' = "loop" /\ batch[v] = 1 /\ entered[v]["local"] = 1
          BY <3>6, <4>2, <4>3 DEF StartLoop, RpcOk, SetupInv
        <5>2. /\ \A i \in DOMAIN inbox[v] : spc \notin Early
              /\ ~doing[v].heard /\ reply[v] = NoReply /\ pc[v] \notin Registering
          BY <2>1, <3>4, Unawaited, Zenon
        <5>3. \A i \in DOMAIN inbox'[v] : WorkerCommand(v, i)'
          <6>1. \A i \in DOMAIN inbox'[v] : FALSE
            BY <3>1, <4>1, <5>2 DEF Early
          <6> QED
            BY <6>1, Zenon
        <5>4. spc' \notin Early
          BY <5>1 DEF Early
        <5>5. UNCHANGED <<pc, doing, reply, offers, batch, entered>>
          BY <1>1, <3>1, Zenon
        <5> QED
          BY <2>1, <5>1, <5>2, <5>3, <5>4, <5>5 DEF WorkerInv
      <4>4. CASE ~RpcOk
        <5>1. spc' = "down" /\ spc \in Early /\ spc' \in Early
          BY <3>6, <4>1, <4>4 DEF StartLoop, Early
        <5> QED
          BY <1>1, <2>1, <3>2, <3>4, <3>5, <5>1, ServerGoesOn, Zenon
      <4> QED
        BY <4>3, <4>4
    <3>7. CASE SignalSeen \/ Resume \/ PublishVersion \/ Reopen
      <4>1. spc \notin Early /\ spc' \notin Early /\ spc' # "down"
        BY <3>7 DEF SignalSeen, Resume, PublishVersion, Reopen, Early
      <4>2. batch[v] = 1
        BY <2>1, <4>1 DEF WorkerInv
      <4> QED
        BY <1>1, <2>1, <3>2, <3>4, <3>5, <4>1, <4>2, ServerGoesOn, Zenon
    <3> QED
      BY <2>3, <3>6, <3>7
  <2>4. CASE \E w \in Receivers : WorkerAnswers(w)
    <3>1. PICK w \in Receivers : WorkerAnswers(w)
      BY <2>4
    <3>2. UNCHANGED <<inbox, doing, spc>> /\ got' = [got EXCEPT ![w] = reply[w]]
          /\ reply' = [reply EXCEPT ![w] = NoReply] /\ Answered(w)
      BY <3>1, Zenon DEF WorkerAnswers, Read
    <3>3. CASE v = w
      <4>1. reply'[v] = NoReply
        BY <2>1, <3>2, <3>3, Zenon DEF WeightTypes, AgentTypes
      <4> QED
        BY <1>1, <2>1, <3>2, <3>3, <4>1, HeardLocal, Zenon
    <3>4. CASE v # w
      <4>1. reply'[v] = reply[v] /\ got'[v] = got[v]
        BY <2>1, <3>2, <3>4, Zenon DEF WeightTypes, AgentTypes, ClientTypes
      <4>2. Same(v)
        BY <1>1, <3>2, <4>1, Zenon DEF Same
      <4> QED
        BY <1>1, <2>1, <3>2, <4>1, <4>2, KeepWorker, Zenon
    <3> QED
      BY <3>3, <3>4
  <2>5. CASE \E w \in Receivers : WorkerTimeout(w)
    <3>1. PICK w \in Receivers : WorkerTimeout(w)
      BY <2>5
    <3>2. CASE v = w
      BY <1>1, <2>1, <3>1, <3>2, GivenUpLocal, Zenon
    <3>3. CASE v # w
      <4>1. w \in Agents
        BY DEF Agents
      <4>2. inbox'[v] = inbox[v] /\ doing'[v] = doing[v]
        <5>1. Forget(w)
          BY <3>1, Zenon DEF WorkerTimeout
        <5>2. \A r \in Agents \ {w} : inbox'[r] = inbox[r] /\ doing'[r] = doing[r]
          BY <4>1, <5>1, Forgotten, Zenon
        <5> QED
          BY <2>1, <3>3, <5>2, Zenon
      <4>3. UNCHANGED <<reply, spc>> /\ got'[v] = got[v]
        BY <3>1, <3>3, Zenon DEF WorkerTimeout, WeightTypes, ClientTypes
      <4>4. Same(v)
        BY <1>1, <4>2, <4>3, Zenon DEF Same
      <4> QED
        BY <1>1, <2>1, <4>3, <4>4, KeepWorker, Zenon
    <3> QED
      BY <3>2, <3>3
  <2> QED
    BY <2>2, <2>3, <2>4, <2>5, Zenon DEF ServerStep
<1>7. (spc = "down" => ~Agreed)'
  <2>1. Agreed' <=> Agreed
    BY <1>1, Zenon DEF Agreed
  <2>2. SUFFICES ASSUME spc' = "down", spc # "down" PROVE ~Agreed
    BY <2>1, Zenon DEF ClientsInv
  <2>3. StartLoop /\ ~RpcOk
    BY <2>2, RpcTypes, SMT DEF ServerStep, SetupTensorbus, QueryWorkers, PauseAndReceive, StartLoop,
          SignalSeen, Resume, PublishVersion, Reopen, WorkerAnswers, WorkerTimeout, Rpc
  <2>4. PICK v \in Receivers : ~got[v].ok
    BY <2>3, Zenon DEF RpcOk
  <2>5. got[v] # Unanswered /\ spc = "setup" /\ WorkerInv(v)
    BY <2>3, Zenon DEF StartLoop, RpcDone, ClientsInv
  <2> QED
    BY <2>4, <2>5 DEF WorkerInv, SetupInv
<1> QED
  BY <1>2, <1>3, <1>5, <1>6, <1>7, Zenon DEF ClientsInv

-----------------------------------------------------------------------------
(* Registration *)

\* At the start all of this is so.
LEMMA StartsIn ==
  ASSUME Init
  PROVE  WeightTypes /\ ClientsInv
<1>1. "idle" \in AgentPlaces /\ "start" \in TrainerPlaces /\ "start" \in ServerPlaces
  BY DEF AgentPlaces, TrainerPlaces, ServerPlaces
<1>2. Nothing \in Doings /\ ~Nothing.heard
  BY Zenon DEF Nothing, Doings
<1>3. <<>> \in Seq(Commands) /\ <<>> \in Seq(Nat) /\ 0 \in 0..Rounds
  BY RoundsAssumption, SMT
<1>4. [g \in {"local", "batch"} |-> 0] \in [{"local", "batch"} -> Nat]
  BY SMT
<1>5. AgentTypes
  BY <1>1, <1>2, <1>3, <1>4, Zenon DEF Init, AgentInit, AgentTypes
<1>6. ClientTypes
  BY <1>1, <1>3 DEF Init, ClientTypes
<1>7. \A r \in Agents : RegisterInv(r)
  <2>1. \A r \in Agents : pc[r] = "idle" /\ offers[r] = <<>> /\ batch[r] = 0 /\ gens[r] = 0
    BY Zenon DEF Init, AgentInit
  <2> QED
    BY <2>1 DEF RegisterInv, Registering
<1>8. DOMAIN <<>> = {}
  BY SMT
<1>9. \A t \in Senders : SenderInv(t)
  BY <1>8, Zenon DEF Init, AgentInit, SenderInv, Agents, Registering
<1>10. \A v \in Receivers : WorkerInv(v)
  <2>1. ASSUME NEW v \in Receivers PROVE WorkerInv(v)
    <3>1. /\ v \in Agents /\ inbox[v] = <<>> /\ doing[v] = Nothing /\ pc[v] = "idle" /\ offers[v] = <<>>
          /\ entered[v]["local"] = 0 /\ reply[v] = NoReply /\ spc = "start"
      BY Zenon DEF Init, AgentInit, Agents
    <3> QED
      BY <1>2, <1>8, <3>1 DEF WorkerInv, Registering, Early
  <2> QED
    BY <2>1
<1> QED
  BY <1>5, <1>6, <1>7, <1>9, <1>10 DEF WeightTypes, ClientsInv, Init

\* Every step keeps it.
LEMMA KeptAlways ==
  ASSUME WeightTypes, ClientsInv, [Next]_vars
  PROVE  WeightTypes' /\ ClientsInv'
<1>1. CASE \E t \in Senders : TrainerStep(t)
  BY <1>1, TrainerClients, Zenon
<1>2. CASE \E r \in Agents : AgentMoves(r)
  BY <1>2, AgentClients, Zenon
<1>3. CASE LeadersSwap
  <2>1. AgentTypes' /\ \A r \in Agents : LocalInv(r)'
    BY <1>3, SwapStep, Zenon DEF LeadersSwap, trainVars, serveVars
  <2>2. UNCHANGED <<case, gaveUp, gen, tpc, round, spc, got, paused, version, published>>
    BY <1>3, Zenon DEF LeadersSwap, trainVars, serveVars
  <2>3. ClientTypes'
    BY <2>2, Zenon DEF WeightTypes, ClientTypes
  <2>4. (spc = "down" => ~Agreed)'
    BY <2>2, Zenon DEF ClientsInv, Agreed
  <2> QED
    BY <2>1, <2>3, <2>4, Zenon DEF WeightTypes, ClientsInv, LocalInv, Agents
<1>4. CASE ServerStep
  BY <1>4, ServerClients, Zenon
<1>5. CASE ChatStep \/ UNCHANGED vars
  <2>1. UNCHANGED <<dtypes, inbox, doing, pc, offers, entered, batch, gens, wire, signal, tensor, cargo, reply,
                    case, gaveUp, gen, tpc, round, spc, got, paused, version, published>>
    BY <1>5, Zenon DEF ChatStep, vars, agentVars, trainVars, serveVars
  <2>2. WeightTypes'
    BY <2>1, Zenon DEF WeightTypes, AgentTypes, ClientTypes, TransferDtype, OwnType, RemoteType
  <2>3. \A r \in Agents : Same(r)
    BY <2>1, Zenon DEF Same
  <2>4. (spc = "down" => ~Agreed)'
    BY <2>1, Zenon DEF ClientsInv, Agreed
  <2> QED
    BY <2>1, <2>2, <2>3, <2>4, KeepRegister, KeepSender, KeepWorker, Zenon DEF ClientsInv, Agents
<1>6. CASE Timeout
  <2>1. CASE \E t \in Senders : SendTimeout(t) /\ UNCHANGED <<engineVars, case, serveVars, chatVars>>
    BY <2>1, TrainerClients, Zenon
  <2>2. CASE \E v \in Receivers : WorkerTimeout(v) /\ UNCHANGED <<engineVars, tensor, case, tpc, round, gate, since, chatVars>>
    BY <2>2, ServerClients, Zenon
  <2> QED
    BY <1>6, <2>1, <2>2, Zenon DEF Timeout
<1> QED
  BY <1>1, <1>2, <1>3, <1>4, <1>5, <1>6, Zenon DEF Next

\* What is said of clients and agents is always so.
THEOREM ClientsAlwaysMatch == Spec => [](WeightTypes /\ ClientsInv)
  BY StartsIn, KeptAlways, PTL DEF Spec

\* No rank accepts a registration that another one's client is refused, and both ends
\* put the same dtype on the wire: for any layouts, ranks and timeouts (agent.py compares
\* all the layouts of the gather, and each side takes the smaller of the two dtypes).
THEOREM RegistrationAlwaysAgrees == Spec => []RegistrationAgrees
<1>1. ASSUME WeightTypes, ClientsInv PROVE RegistrationAgrees
  <2>1. AllOrNone
    <3>1. SUFFICES ASSUME (\E t \in Senders : tpc[t] = "refused") \/ spc = "down", NEW r \in Agents
                   PROVE  batch[r] = 0
      BY Zenon DEF AllOrNone
    <3>2. ~Agreed
      BY <1>1, <3>1 DEF ClientsInv, SenderInv
    <3> QED
      BY <1>1, <3>2 DEF ClientsInv, RegisterInv, WeightTypes, AgentTypes
  <2>2. WireAgrees
    <3>1. SUFFICES ASSUME dtypes.send.size # dtypes.recv.size, NEW q \in Agents, NEW r \in Agents,
                          wire[q] # Untyped, wire[r] # Untyped
                   PROVE  wire[q] = wire[r]
      BY Zenon DEF WireAgrees
    <3>2. dtypes.send.size \in Nat /\ dtypes.recv.size \in Nat
      BY <1>1, DtypesAssumption DEF WeightTypes, AgentTypes
    <3>3. /\ wire[q] = TransferDtype(OwnType(q), RemoteType(q))
          /\ wire[r] = TransferDtype(OwnType(r), RemoteType(r))
      BY <1>1, <3>1 DEF WeightTypes, AgentTypes
    <3> QED
      BY <3>1, <3>2, <3>3, SMT DEF TransferDtype, OwnType, RemoteType
  <2> QED
    BY <2>1, <2>2 DEF RegistrationAgrees
<1> QED
  BY <1>1, ClientsAlwaysMatch, PTL
=============================================================================

----------------------------- MODULE WeightSync -----------------------------
(***************************************************************************)
(* The weight-synchronisation example over a split batch                   *)
(* (examples/vllm_weight_sync): trainer ranks push a new version of the    *)
(* weights round after round, the vLLM server polls the transfer signal    *)
(* and receives, and a chat client uses the server and paces the trainer   *)
(* through a counter in the control store.                                 *)
(*                                                                         *)
(* The counter is kept relative to the trainer's baseline, up to the       *)
(* number of chats that end a round: nothing else of it is looked at.      *)
(* vLLM itself is external: collective_rpc returns once every worker has   *)
(* answered, and a request meets a paused engine with an error.            *)
(***************************************************************************)
EXTENDS SplitBatch

CONSTANTS
  Rounds,         \* sync_rounds
  ChatsPerRound,  \* chats_per_round
  Prompts,        \* prompts of a chat round
  Cases,          \* circumstances of a run, see case
  MaxTimeouts     \* waits that may time out

\* What a layout is, beyond being equal to another one or not, does not matter.
ASSUME CasesAssumption ==
  Cases \subseteq [hurry : BOOLEAN, impatient : BOOLEAN, layouts : [Agents -> Nat]]

ASSUME RoundsAssumption == Rounds \in Nat

VARIABLES
  case,      \* hurry: the trainer's pause between rounds may be shorter than the
             \* receivers take to clear the signal; impatient: transfers may time
             \* out; layouts: what each rank registers
  timeouts,  \* waits that timed out so far
  gaveUp,    \* the server gave up a receive
  gen,       \* per rank: the generation in its BatchHandler, 0 before it has one
  tpc,       \* per trainer rank: where it is
  round,     \* per trainer rank: rounds started
  gate,      \* per trainer rank: barriers of the trainer's own group entered
  since,     \* chat_count above rank 0's baseline, up to ChatsPerRound
  spc,       \* the server's sync loop
  got,       \* per receiver: outcome of the RPC in progress
  paused,    \* generation is paused
  version,   \* the sync loop's version
  ready,     \* vllm_ready
  published, \* vllm_version
  cpc,       \* the chat client
  tag,       \* the version it read
  left       \* prompts left in its round

trainVars == <<gen, tpc, round, gate>>
serveVars == <<spc, got, paused, version, ready, published>>
chatVars == <<cpc, tag, left>>
vars == <<agentVars, case, timeouts, gaveUp, trainVars, since, serveVars, chatVars>>

\* What no client of an agent touches.
engineVars == <<dtypes, pc, offers, entered, batch, gens, wire, signal, cargo>>

Rank0 == Least(Senders)
Answered(r) == reply[r] # NoReply
Read(r) == Answered(r) /\ reply' = [reply EXCEPT ![r] = NoReply]

-----------------------------------------------------------------------------
(* Trainer *)

TrainerMove(t, from, to) ==
  /\ tpc[t] = from
  /\ tpc' = [tpc EXCEPT ![t] = to]

EnterGate(t) == gate' = [gate EXCEPT ![t] = @ + 1]
GateOpen(t) == \A u \in Senders : gate[u] >= gate[t]

TrainerRegister(t) ==
  /\ TrainerMove(t, "start", "registering")
  /\ Submit(t, Command("register", 0, case.layouts[t]))
  /\ UNCHANGED <<doing, reply, tensor, timeouts, gaveUp, gen, round, gate, since>>

\* register_tensors returns a handler with the generation, or raises.
TrainerRegistered(t) ==
  /\ Read(t)
  /\ TrainerMove(t, "registering", IF reply[t].ok THEN "train" ELSE "refused")
  /\ gen' = [gen EXCEPT ![t] = IF reply[t].ok THEN reply[t].value ELSE 0]
  /\ UNCHANGED <<inbox, doing, tensor, timeouts, gaveUp, round, gate, since>>

\* Rank 0 takes its first baseline; the weights change; the trainer's barrier.
Perturb(t) ==
  /\ round[t] < Rounds
  /\ TrainerMove(t, "train", "aligning")
  /\ round' = [round EXCEPT ![t] = @ + 1]
  /\ tensor' = [tensor EXCEPT ![t] = {round[t] + 1}]
  /\ since' = IF t = Rank0 /\ round[t] = 0 THEN 0 ELSE since
  /\ EnterGate(t)
  /\ UNCHANGED <<inbox, doing, reply, timeouts, gaveUp, gen>>

Push(t) ==
  /\ GateOpen(t)
  /\ TrainerMove(t, "aligning", "sending")
  /\ Submit(t, Command("send", gen[t], 0))
  /\ UNCHANGED <<doing, reply, tensor, timeouts, gaveUp, gen, round, gate, since>>

\* The blocking send returned; rank 0 goes on to watch the chats, the others are
\* at the barrier.
Pushed(t) ==
  /\ Read(t)
  /\ TrainerMove(t, "sending", IF ~reply[t].ok THEN "failed"
                               ELSE IF t = Rank0 THEN "watching" ELSE "resting")
  /\ IF reply[t].ok /\ t # Rank0 THEN EnterGate(t) ELSE UNCHANGED gate
  /\ UNCHANGED <<inbox, doing, tensor, timeouts, gaveUp, gen, round, since>>

\* _wait_for_chats returns the current count, the next round's baseline.
ChatsSeen(t) ==
  /\ since >= ChatsPerRound
  /\ TrainerMove(t, "watching", "resting")
  /\ since' = 0
  /\ EnterGate(t)
  /\ UNCHANGED <<inbox, doing, reply, tensor, timeouts, gaveUp, gen, round>>

\* Barrier, then sleep(interval): unless the trainer is in a hurry, long enough
\* for the receivers to get from the last barrier to clearing the signal.
Rest(t) ==
  /\ GateOpen(t)
  /\ case.hurry \/ \A v \in Receivers : pc[v] # "leave"
  /\ TrainerMove(t, "resting", "train")
  /\ UNCHANGED <<inbox, doing, reply, tensor, timeouts, gaveUp, gen, round, gate, since>>

\* sync_timeout: the send stays with the agent, the trainer gives up.
SendTimeout(t) ==
  /\ case.impatient /\ timeouts < MaxTimeouts
  /\ ~Answered(t)
  /\ TrainerMove(t, "sending", "failed")
  /\ timeouts' = timeouts + 1
  /\ Forget(t)
  /\ UNCHANGED <<reply, tensor, gaveUp, gen, round, gate, since>>

\* The rounds are over or one failed: batch.close().
TrainerClose(t) ==
  /\ \/ round[t] = Rounds /\ TrainerMove(t, "train", "closed")
     \/ TrainerMove(t, "failed", "closed")
  /\ Submit(t, Command("cleanup", gen[t], 0))
  /\ UNCHANGED <<doing, reply, tensor, timeouts, gaveUp, gen, round, gate, since>>

TrainerStep(t) ==
  /\ \/ TrainerRegister(t) \/ TrainerRegistered(t) \/ Perturb(t) \/ Push(t) \/ Pushed(t)
     \/ ChatsSeen(t) \/ Rest(t) \/ TrainerClose(t)
  /\ UNCHANGED <<engineVars, case, serveVars, chatVars>>

-----------------------------------------------------------------------------
(* Server *)

Unanswered == [ok |-> FALSE, value |-> -2]
Failed == [ok |-> FALSE, value |-> 0]
RpcDone == \A v \in Receivers : got[v] # Unanswered
RpcOk == \A v \in Receivers : got[v].ok

\* collective_rpc: every worker submits a command to its agent.
Rpc(at, command(_)) ==
  /\ spc' = at
  /\ got' = [v \in Receivers |-> Unanswered]
  /\ inbox' = [r \in Agents |-> IF r \in Receivers THEN Append(inbox[r], command(r)) ELSE inbox[r]]

RegisterCommand(v) == Command("register", 0, case.layouts[v])
QueryCommand(v) == Command("query", gen[v], 0)
RecvCommand(v) == Command("recv", gen[v], 0)

WorkerAnswers(v) ==
  /\ got[v] = Unanswered
  /\ Read(v)
  /\ got' = [got EXCEPT ![v] = reply[v]]
  /\ UNCHANGED <<inbox, doing, timeouts, gaveUp, gen, spc, paused, version, ready, published>>

\* A query that times out counts as False; a receive that does is an error.
WorkerTimeout(v) ==
  /\ timeouts < MaxTimeouts
  /\ got[v] = Unanswered /\ ~Answered(v)
  /\ \/ spc = "query" /\ UNCHANGED gaveUp
     \/ spc = "recv" /\ case.impatient /\ gaveUp' = TRUE
  /\ timeouts' = timeouts + 1
  /\ got' = [got EXCEPT ![v] = IF spc = "query" THEN [ok |-> TRUE, value |-> 0] ELSE Failed]
  /\ Forget(v)
  /\ UNCHANGED <<reply, gen, spc, paused, version, ready, published>>

\* setup_tensorbus on every worker.
SetupTensorbus ==
  /\ spc = "start"
  /\ Rpc("setup", RegisterCommand)
  /\ UNCHANGED <<gen, paused, version, ready, published>>

\* The sync loop starts, or the server does not come up.
StartLoop ==
  /\ spc = "setup" /\ RpcDone
  /\ spc' = IF RpcOk THEN "loop" ELSE "down"
  /\ gen' = [r \in Agents |-> IF r \in Receivers THEN got[r].value ELSE gen[r]]
  /\ IF RpcOk THEN ready' = "1" /\ published' = 0 ELSE UNCHANGED <<ready, published>>
  /\ UNCHANGED <<inbox, got, paused, version>>

QueryWorkers ==
  /\ spc = "loop"
  /\ Rpc("query", QueryCommand)
  /\ UNCHANGED <<gen, paused, version, ready, published>>

\* Mutant: the new version is announced when the signal is seen.
SignalAnnounced ==
  /\ spc = "query" /\ RpcDone
  /\ IF \E v \in Receivers : got[v].value = 1
       THEN spc' = "pause" /\ ready' = "0" /\ published' = version + 1
       ELSE spc' = "loop" /\ UNCHANGED <<ready, published>>
  /\ UNCHANGED <<inbox, gen, got, paused, version>>

\* any(signals), or sleep and poll again.
SignalSeen ==
  /\ spc = "query" /\ RpcDone
  /\ IF \E v \in Receivers : got[v].value = 1
       THEN spc' = "pause" /\ ready' = "0"
       ELSE spc' = "loop" /\ UNCHANGED ready
  /\ UNCHANGED <<inbox, gen, got, paused, version, published>>

\* Mutant: generation is paused only once the receive is under way.
ReceiveThenPause ==
  /\ spc = "pause"
  /\ Rpc("recv", RecvCommand)
  /\ UNCHANGED <<gen, paused, version, ready, published>>

\* pause_generation, then receive_weights on every worker.
PauseAndReceive ==
  /\ spc = "pause"
  /\ Rpc("recv", RecvCommand)
  /\ paused' = TRUE
  /\ UNCHANGED <<gen, version, ready, published>>

\* finally: resume_generation.
Resume ==
  /\ spc = "recv" /\ RpcDone
  /\ paused' = FALSE
  /\ spc' = IF RpcOk THEN "publish" ELSE "reopen"
  /\ version' = IF RpcOk THEN version + 1 ELSE version
  /\ UNCHANGED <<inbox, gen, got, ready, published>>

PublishVersion ==
  /\ spc = "publish"
  /\ spc' = "reopen"
  /\ published' = version
  /\ UNCHANGED <<inbox, gen, got, paused, version, ready>>

\* The end of a round, and of a failed one.
Reopen ==
  /\ spc = "reopen"
  /\ spc' = "loop"
  /\ ready' = "1"
  /\ UNCHANGED <<inbox, gen, got, paused, version, published>>

ServerStep ==
  /\ \/ /\ \/ SetupTensorbus \/ StartLoop \/ QueryWorkers \/ SignalSeen \/ PauseAndReceive
           \/ Resume \/ PublishVersion \/ Reopen
        /\ UNCHANGED <<doing, reply, timeouts, gaveUp>>
     \/ \E v \in Receivers : WorkerAnswers(v)
  /\ UNCHANGED <<engineVars, tensor, case, tpc, round, gate, since, chatVars>>

-----------------------------------------------------------------------------
(* Chat client *)

SeeReady ==
  /\ cpc = "gate" /\ ready = "1"
  /\ cpc' = "version"
  /\ UNCHANGED <<tag, left, since>>

ReadVersion ==
  /\ cpc = "version"
  /\ cpc' = "ask"
  /\ tag' = published
  /\ left' = Prompts
  /\ UNCHANGED since

\* A prompt fails on a paused engine; the chat client goes on with the next one.
Ask ==
  /\ cpc = "ask" /\ left > 0
  /\ cpc' = IF paused THEN "ask" ELSE "count"
  /\ left' = left - 1
  /\ UNCHANGED <<tag, since>>

CountChat ==
  /\ cpc = "count"
  /\ cpc' = "ask"
  /\ since' = IF since < ChatsPerRound THEN since + 1 ELSE since
  /\ UNCHANGED <<tag, left>>

NextChat ==
  /\ cpc = "ask" /\ left = 0
  /\ cpc' = "gate"
  /\ UNCHANGED <<tag, left, since>>

ChatStep ==
  /\ \/ SeeReady \/ ReadVersion \/ Ask \/ CountChat \/ NextChat
  /\ UNCHANGED <<agentVars, case, timeouts, gaveUp, trainVars, serveVars>>

-----------------------------------------------------------------------------

Init ==
  /\ AgentInit
  /\ case \in Cases
  /\ timeouts = 0 /\ gaveUp = FALSE
  /\ gen = [r \in Agents |-> 0]
  /\ tpc = [t \in Senders |-> "start"]
  /\ round = [t \in Senders |-> 0]
  /\ gate = [t \in Senders |-> 0]
  /\ since = 0
  /\ spc = "start"
  /\ got = [v \in Receivers |-> Unanswered]
  /\ paused = FALSE
  /\ version = 0
  /\ ready = "none"
  /\ published = 0
  /\ cpc = "gate" /\ tag = 0 /\ left = 0

AgentMoves(r) ==
  /\ AgentStep(r)
  /\ UNCHANGED <<dtypes, case, timeouts, gaveUp, trainVars, since, serveVars, chatVars>>

LeadersSwap ==
  /\ SwapDtypes
  /\ UNCHANGED <<dtypes, case, timeouts, gaveUp, trainVars, since, serveVars, chatVars>>

Timeout ==
  \/ \E t \in Senders : SendTimeout(t) /\ UNCHANGED <<engineVars, case, serveVars, chatVars>>
  \/ \E v \in Receivers : /\ WorkerTimeout(v)
                          /\ UNCHANGED <<engineVars, tensor, case, tpc, round, gate, since, chatVars>>

Next ==
  \/ \E t \in Senders : TrainerStep(t)
  \/ \E r \in Agents : AgentMoves(r)
  \/ LeadersSwap \/ ServerStep \/ ChatStep \/ Timeout

Spec == Init /\ [][Next]_vars

\* Every process runs; a client may always be patient.
FairSpec ==
  /\ Spec
  /\ \A t \in Senders : WF_vars(TrainerStep(t))
  /\ \A r \in Agents : WF_vars(AgentMoves(r))
  /\ WF_vars(LeadersSwap) /\ WF_vars(ServerStep) /\ WF_vars(ChatStep)

-----------------------------------------------------------------------------
(* Properties *)

\* A completion never sees a mixture: whenever generation is not paused, all
\* receivers hold the same, whole version of the weights (vllm_server.py pauses
\* before receive_weights and resumes after the last worker has answered), unless
\* the server gave a receive up.
NoMixedWeights ==
  gaveUp \/ paused \/ \E k \in 0..Rounds : \A v \in Receivers : tensor[v] = {k}

\* A receive is under way only for a send that is (agent.py: the receivers' leader
\* clears the boolean signal before any receive returns, so no poll acts on the
\* signal of a finished round).
NoPhantomReceive ==
  \A v \in Receivers : pc[v] \in {"meet", "move"} => doing[Rank0].op = "send"

\* The version in the control store, and so the tag of a reply, is never ahead of
\* the weights on any receiver (vllm_server.py writes vllm_version after the RPC).
TagNotAhead ==
  \A v \in Receivers : \A k \in tensor[v] : published <= k

\* Both ends put the same dtype on the wire, unless two dtypes have one size: each
\* side then keeps its own.
WireAgrees ==
  dtypes.send.size = dtypes.recv.size \/ \A q, r \in Agents :
    wire[q] # Untyped /\ wire[r] # Untyped => wire[q] = wire[r]

\* No client is refused while another one's agent holds the batch.
AllOrNone ==
  (\E t \in Senders : tpc[t] = "refused") \/ spc = "down" => \A r \in Agents : batch[r] = 0

\* A registration is agreed upon: all ranks accept it or none does, and both ends
\* come to the same dtype for the wire although each computes it for itself
\* (agent.py compares all the layouts of the WORLD gather, and takes the smaller
\* of the two dtypes).
RegistrationAgrees == AllOrNone /\ WireAgrees

\* Registration ends, and every round pushed arrives on every receiver, when the
\* layouts agree, the trainer's pause outlasts the clearing of the signal and no
\* transfer is given up: no signal is lost, nobody waits for ever.
EveryRoundArrives ==
  ~case.hurry /\ ~case.impatient /\ (\A q, r \in Agents : case.layouts[q] = case.layouts[r])
    => \A k \in 1..Rounds : <>(\A v \in Receivers : tensor[v] = {k})
=============================================================================

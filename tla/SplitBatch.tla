----------------------------- MODULE SplitBatch -----------------------------
(***************************************************************************)
(* The agents of a split pair, senders on one side and receivers on the    *)
(* other, and what they do with one batch: registration with its layout    *)
(* gather and dtype exchange, send and recv transfers with the boolean     *)
(* transfer signal, queries of that signal, and cleanup (the non-dual      *)
(* paths of tensor_bus/agent.py).                                          *)
(*                                                                         *)
(* An agent is single-threaded: it takes one command at a time and blocks  *)
(* in the collectives of that command.  bucket_comm is BucketPipeline's    *)
(* subject; here it is one exchange between all ranks of the batch.        *)
(***************************************************************************)
EXTENDS Integers, Sequences, FiniteSets

CONSTANTS
  Senders, Receivers,  \* disjoint sets of agent ranks
  DTypePairs,          \* dtypes of the two sides: [send, recv -> [name, size]]
  SenderIsFirst        \* local_is_first of the senders' side

Agents == Senders \cup Receivers

ASSUME SidesAssumption ==
  /\ Senders \subseteq Nat /\ Receivers \subseteq Nat
  /\ Senders # {} /\ Receivers # {} /\ Senders \cap Receivers = {}

ASSUME DtypesAssumption ==
  \A pair \in DTypePairs : pair.send.size \in Nat /\ pair.recv.size \in Nat

VARIABLES
  dtypes,   \* the dtypes of this batch's tensor
  inbox,    \* per agent: its command queue
  doing,    \* per agent: the command it is executing
  pc,       \* per agent: where in that command it is
  offers,   \* per agent: layouts it put into the WORLD gather
  entered,  \* per agent and group: collectives it has entered
  batch,    \* per agent: generation of the live batch, 0 if there is none
  gens,     \* per agent: generations given out
  wire,     \* per agent: transfer_dtype of the batch's tensor
  signal,   \* batch:<id>/state:transfer_signal in the store
  tensor,   \* per agent: versions the registered tensor is made of
  cargo,    \* per sender: what it put on the wire
  reply     \* per agent: the answer its client has not looked at yet

agentVars == <<dtypes, inbox, doing, pc, offers, entered, batch, gens, wire, signal, tensor, cargo,
               reply>>

Nothing == [op |-> "none", gen |-> 0, layout |-> 0, heard |-> FALSE]
NoReply == [ok |-> FALSE, value |-> -1]
Untyped == [name |-> "untyped", size |-> 0]

Least(S) == CHOOSE x \in S : \A y \in S : x <= y
SideOf(r) == IF r \in Senders THEN Senders ELSE Receivers
Leader(r) == Least(SideOf(r))
GroupOf(r, g) == IF g = "local" THEN SideOf(r) ELSE Agents

Enter(r, g) == entered' = [entered EXCEPT ![r][g] = @ + 1]

\* A collective lets a rank go once everybody in the group has entered it.
Passed(r, g) == \A q \in GroupOf(r, g) : entered[q][g] >= entered[r][g]

-----------------------------------------------------------------------------
(* Clients: a command is queued with a semaphore; a client whose wait times *)
(* out leaves the command behind                                            *)

Command(op, g, l) == [op |-> op, gen |-> g, layout |-> l, heard |-> TRUE]

Submit(r, command) == inbox' = [inbox EXCEPT ![r] = Append(@, command)]

Forget(r) ==
  /\ inbox' = [inbox EXCEPT ![r] = [i \in 1..Len(@) |-> [@[i] EXCEPT !.heard = FALSE]]]
  /\ doing' = [doing EXCEPT ![r].heard = FALSE]

-----------------------------------------------------------------------------
(* Answers *)

\* The outcome is written before the semaphore is released; nobody reads that of
\* a command its client gave up.
AnswerTo(r, command, ok, value) ==
  /\ doing' = [doing EXCEPT ![r] = Nothing]
  /\ pc' = [pc EXCEPT ![r] = "idle"]
  /\ reply' = IF command.heard THEN [reply EXCEPT ![r] = [ok |-> ok, value |-> value]] ELSE reply

Answer(r, ok, value) == AnswerTo(r, doing[r], ok, value)

\* Same generation, or one of the two does not say.
Current(r, command) == command.gen = 0 \/ batch[r] = 0 \/ command.gen = batch[r]

Known(r, command) == batch[r] # 0 /\ Current(r, command)

Idle(r) == pc[r] = "idle" /\ inbox[r] # <<>>

Take(r) ==
  /\ Idle(r)
  /\ inbox' = [inbox EXCEPT ![r] = Tail(@)]

Begin(r, at) ==
  /\ doing' = [doing EXCEPT ![r] = Head(inbox[r])]
  /\ pc' = [pc EXCEPT ![r] = at]
  /\ UNCHANGED reply

-----------------------------------------------------------------------------
(* Registration *)

StartRegister(r) ==
  /\ Take(r) /\ Head(inbox[r]).op = "register"
  /\ Begin(r, "gather")
  /\ offers' = [offers EXCEPT ![r] = Append(@, Head(inbox[r]).layout)]
  /\ UNCHANGED <<entered, batch, gens, wire, signal, tensor, cargo>>

\* Mutant: only the own side's layouts are compared.
SameLayoutsHere(r) ==
  LET k == Len(offers[r]) IN \A q \in SideOf(r) : offers[q][k] = offers[r][k]

SameLayouts(r) ==
  LET k == Len(offers[r]) IN \A q \in Agents : offers[q][k] = offers[r][k]

\* all_gather_object on WORLD returned.  A new BatchState replaces the old one;
\* the two rank0s then exchange dtypes, and broadcast them in their groups.
Gathered(r) ==
  /\ pc[r] = "gather"
  /\ \A q \in Agents : Len(offers[q]) >= Len(offers[r])
  /\ \/ /\ ~SameLayouts(r)
        /\ Answer(r, FALSE, 0)
        /\ UNCHANGED <<batch, gens, entered>>
     \/ /\ SameLayouts(r)
        /\ gens' = [gens EXCEPT ![r] = @ + 1]
        /\ batch' = [batch EXCEPT ![r] = gens[r] + 1]
        /\ IF r = Leader(r)
             THEN pc' = [pc EXCEPT ![r] = "swap1"] /\ UNCHANGED entered
             ELSE pc' = [pc EXCEPT ![r] = "dtype"] /\ Enter(r, "local")
        /\ UNCHANGED <<doing, reply>>
  /\ UNCHANGED <<inbox, offers, wire, signal, tensor, cargo>>

\* Mutant: both sides send before they receive.
SendsAlways(r, at) == at = "swap1"

\* The first side sends and then receives, the other one the other way round.
SendsNow(r, at) == ((r \in Senders) = SenderIsFirst) = (at = "swap1")

\* send_object_list on one side meets recv_object_list on the other.
SwapDtypes ==
  LET a == Least(Senders) b == Least(Receivers)
      after(at) == IF at = "swap1" THEN "swap2" ELSE "dtype" IN
  /\ pc[a] \in {"swap1", "swap2"} /\ pc[b] = pc[a]
  /\ SendsNow(a, pc[a]) # SendsNow(b, pc[b])
  /\ pc' = [pc EXCEPT ![a] = after(@), ![b] = after(@)]
  /\ entered' = IF pc[a] = "swap1" THEN entered
                ELSE [entered EXCEPT ![a]["local"] = @ + 1, ![b]["local"] = @ + 1]
  /\ UNCHANGED <<inbox, doing, offers, batch, gens, wire, signal, tensor, cargo, reply>>

\* Mutant: each side keeps its own dtype on the wire.
OwnDtype(own, remote) == own

\* min(my_dtype, remote_dtype) by itemsize, the own one when they are equal.
TransferDtype(own, remote) == IF own.size <= remote.size THEN own ELSE remote

OwnType(r) == IF r \in Senders THEN dtypes.send ELSE dtypes.recv
RemoteType(r) == IF r \in Senders THEN dtypes.recv ELSE dtypes.send

\* The broadcast from the side's rank0 arrived: chunks and buckets are built.
Registered(r) ==
  /\ pc[r] = "dtype"
  /\ entered[Leader(r)]["local"] >= entered[r]["local"]
  /\ wire' = [wire EXCEPT ![r] = TransferDtype(OwnType(r), RemoteType(r))]
  /\ Answer(r, TRUE, batch[r])
  /\ UNCHANGED <<inbox, offers, entered, batch, gens, signal, tensor, cargo>>

-----------------------------------------------------------------------------
(* Transfers *)

\* An unknown batch or a stale generation is an error the agent survives.
RefuseTransfer(r) ==
  /\ AnswerTo(r, Head(inbox[r]), FALSE, 0)
  /\ UNCHANGED <<entered, signal>>

\* _leader_set(transfer_signal, "1"): the leader writes, everybody waits for it.
StartSend(r) ==
  /\ Take(r) /\ Head(inbox[r]).op = "send"
  /\ IF ~Known(r, Head(inbox[r]))
       THEN RefuseTransfer(r)
       ELSE /\ Begin(r, "announced")
            /\ signal' = IF r = Leader(r) THEN "1" ELSE signal
            /\ Enter(r, "local")
  /\ UNCHANGED <<offers, batch, gens, wire, tensor, cargo>>

StartRecv(r) ==
  /\ Take(r) /\ Head(inbox[r]).op = "recv"
  /\ IF ~Known(r, Head(inbox[r]))
       THEN RefuseTransfer(r)
       ELSE Begin(r, "meet") /\ Enter(r, "batch") /\ UNCHANGED signal
  /\ UNCHANGED <<offers, batch, gens, wire, tensor, cargo>>

Announced(r) ==
  /\ pc[r] = "announced" /\ Passed(r, "local")
  /\ pc' = [pc EXCEPT ![r] = "meet"]
  /\ Enter(r, "batch")
  /\ UNCHANGED <<inbox, doing, offers, batch, gens, wire, signal, tensor, cargo, reply>>

\* The first barrier passed.
Met(r) ==
  /\ pc[r] = "meet" /\ Passed(r, "batch")
  /\ pc' = [pc EXCEPT ![r] = "move"]
  /\ UNCHANGED <<inbox, doing, offers, entered, batch, gens, wire, signal, tensor, cargo, reply>>

\* bucket_comm returned: a sender has read its tensor, a receiver has the pieces
\* of every sender.
Moved(r) ==
  /\ pc[r] = "move"
  /\ pc' = [pc EXCEPT ![r] = "leave"]
  /\ \/ /\ doing[r].op = "send"
        /\ cargo' = [cargo EXCEPT ![r] = tensor[r]]
        /\ UNCHANGED tensor
     \/ /\ doing[r].op = "recv"
        /\ \A q \in Senders : entered[q]["batch"] > entered[r]["batch"]
        /\ tensor' = [tensor EXCEPT ![r] = UNION {cargo[q] : q \in Senders}]
        /\ UNCHANGED cargo
  /\ Enter(r, "batch")
  /\ UNCHANGED <<inbox, doing, offers, batch, gens, wire, signal, reply>>

\* Mutant: a receiver is done without clearing the signal.
LeaveUncleared(r) ==
  /\ pc[r] = "leave" /\ Passed(r, "batch")
  /\ Answer(r, TRUE, 0)
  /\ UNCHANGED <<inbox, offers, entered, batch, gens, wire, signal, tensor, cargo>>

\* The second barrier passed: a sender is done, the receivers' leader clears the
\* signal.
Leave(r) ==
  /\ pc[r] = "leave" /\ Passed(r, "batch")
  /\ \/ /\ doing[r].op = "send"
        /\ Answer(r, TRUE, 0)
        /\ UNCHANGED <<signal, entered>>
     \/ /\ doing[r].op = "recv"
        /\ pc' = [pc EXCEPT ![r] = "cleared"]
        /\ signal' = IF r = Leader(r) THEN "0" ELSE signal
        /\ Enter(r, "local")
        /\ UNCHANGED <<doing, reply>>
  /\ UNCHANGED <<inbox, offers, batch, gens, wire, tensor, cargo>>

Cleared(r) ==
  /\ pc[r] = "cleared" /\ Passed(r, "local")
  /\ Answer(r, TRUE, 0)
  /\ UNCHANGED <<inbox, offers, entered, batch, gens, wire, signal, tensor, cargo>>

-----------------------------------------------------------------------------
(* Queries and cleanup *)

\* An unknown batch is only logged: the client finds no result, which it takes
\* for False, as it does a stale generation.
QuerySignal(r) ==
  /\ Take(r) /\ Head(inbox[r]).op = "query"
  /\ AnswerTo(r, Head(inbox[r]), TRUE,
              IF Known(r, Head(inbox[r])) /\ signal = "1" THEN 1 ELSE 0)
  /\ UNCHANGED <<offers, entered, batch, gens, wire, signal, tensor, cargo>>

CleanupBatch(r) ==
  /\ Take(r) /\ Head(inbox[r]).op = "cleanup"
  /\ batch' = IF Known(r, Head(inbox[r])) THEN [batch EXCEPT ![r] = 0] ELSE batch
  /\ AnswerTo(r, Head(inbox[r]), TRUE, 0)
  /\ UNCHANGED <<offers, entered, gens, wire, signal, tensor, cargo>>

-----------------------------------------------------------------------------

AgentInit ==
  /\ dtypes \in DTypePairs
  /\ inbox = [r \in Agents |-> <<>>]
  /\ doing = [r \in Agents |-> Nothing]
  /\ pc = [r \in Agents |-> "idle"]
  /\ offers = [r \in Agents |-> <<>>]
  /\ entered = [r \in Agents |-> [g \in {"local", "batch"} |-> 0]]
  /\ batch = [r \in Agents |-> 0]
  /\ gens = [r \in Agents |-> 0]
  /\ wire = [r \in Agents |-> Untyped]
  /\ signal = "none"
  /\ tensor = [r \in Agents |-> {0}]
  /\ cargo = [r \in Agents |-> {}]
  /\ reply = [r \in Agents |-> NoReply]

AgentStep(r) ==
  \/ StartRegister(r) \/ Gathered(r) \/ Registered(r)
  \/ StartSend(r) \/ StartRecv(r) \/ Announced(r)
  \/ Met(r) \/ Moved(r) \/ Leave(r) \/ Cleared(r)
  \/ QuerySignal(r) \/ CleanupBatch(r)
=============================================================================

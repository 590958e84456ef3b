------------------------------ MODULE Session ------------------------------
(***************************************************************************)
(* A session of clients with the agent of their rank: the agent comes up,  *)
(* beats, answers commands and goes down; a client looks for a fresh       *)
(* heartbeat, opens the command queue, has one command executed and closes *)
(* (tensor_bus/agent.py, client.py; examples/vllm_weight_sync/agent.py).   *)
(*                                                                         *)
(* Time is a clock of ticks, kept as ages: a heartbeat is fresh below      *)
(* Fresh ticks, a connection may take Patience, results are kept for Ttl.  *)
(* What a command does is PairRendezvous', DualBatch's and SplitBatch's    *)
(* subject; here it succeeds or fails.                                     *)
(***************************************************************************)
EXTENDS QueueLifecycle

CONSTANTS
  Agent, Clients,        \* Users are the agent and the clients
  Scenarios,             \* see scenario
  Fresh, Patience, Ttl   \* 5 s, connection_timeout, COMMAND_ERROR_TTL

ASSUME UsersAssumption == Users = {Agent} \cup Clients /\ Agent \notin Clients

\* An earlier session left no more than fits.
ASSUME ScenarioAssumption ==
  /\ Capacity \in Nat /\ Ttl \in Nat
  /\ \A s \in Scenarios : s.left \in 0..Capacity

\* A heartbeat is fresh for longer than an iteration of the loop takes.
ASSUME TimeAssumption == Fresh \in Nat /\ Fresh > 1 /\ Patience \in Nat

VARIABLES
  scenario,  \* clients: the clients there are; lives: how many agents one after the
             \* other; direct: clients that open the queue without looking for the agent,
             \* and close only their handles; clears: those of them that clear it;
             \* left: messages of an earlier session in the file; openFails: opening
             \* LMDB may fail; fatal: a command may end the agent; dies: it may be
             \* killed; slow: a handler may take any time; tidy: a new agent removes
             \* the files and semaphores of the previous one; timed: time passes
  lives,     \* agents started so far
  state,     \* LMDB state files: age of the heartbeat, ages of the error records
  tracked,   \* _command_error_times: whose records this agent will reclaim
  doing,     \* whose command the agent executes
  verdict,   \* per process: what came of its command (the agent stands for those of
             \* an earlier session and of users of the bare queue), and the agent's state file
  done,      \* per client: count of the semaphore of its command
  outcome,   \* per client: what it reports
  waited,    \* per client: ticks it has been looking for the agent
  late,      \* per client: ticks since its semaphore was released
  lucky,     \* clients that began to look while the agent was in service
  turn       \* processes that have had their turn in this tick

agentVars == <<lives, state, tracked, doing, verdict>>
clientVars == <<outcome, waited, late, lucky>>
sessionVars == <<scenario, agentVars, done, clientVars, turn>>
vars == <<lifeVars, sessionVars>>

Gone == Ttl + 2  \* age of a record that is not there
NoErrors == [c \in Clients |-> Gone]

Mine(p) == hold[p].state
InService == pc[Agent] \in {"loop", "handle", "record", "release"}

-----------------------------------------------------------------------------
(* Agent *)

\* _cleanup_stale of the example's main, then the constructor of the queue.
StartAgent ==
  /\ Move(Agent, "off", "new")
  /\ lives < scenario.lives
  /\ lives' = lives + 1
  /\ tracked' = {}
  /\ LET sweeps == scenario.tidy /\ \E n \in DOMAIN names : names[n] # 0 IN
       /\ names' = IF sweeps THEN [n \in DOMAIN names |-> 0] ELSE names
       /\ destroyed' = IF sweeps THEN destroyed + 1 ELSE destroyed
  /\ UNCHANGED <<sem, queue, hold, broken, muddled, scenario, state, doing, verdict, done,
                 clientVars, turn>>

\* lmdb.open of the state file, and the first heartbeat.
OpenState ==
  /\ Move(Agent, "up", "loop")
  /\ IF names.state # 0
       THEN /\ state' = [state EXCEPT ![names.state].age = 0]
            /\ Open(Agent, "state") /\ UNCHANGED names
       ELSE /\ state' = Append(state, [age |-> 0, errors |-> NoErrors])
            /\ names' = [names EXCEPT !.state = Len(state) + 1]
            /\ hold' = [hold EXCEPT ![Agent].state = Len(state) + 1]
  /\ turn' = turn \cup {Agent}
  /\ UNCHANGED <<sem, queue, broken, destroyed, muddled, scenario, lives, tracked, doing, verdict,
                 done, clientVars>>

\* Mutant: the loop does not beat.
StepWithoutBeat == UNCHANGED state /\ turn' = turn \cup {Agent}

Beat ==
  /\ state' = [state EXCEPT ![Mine(Agent)].age = 0]
  /\ turn' = turn \cup {Agent}

\* step: the heartbeat, then a look at the queue.
StepIdle ==
  /\ At(Agent, "loop") /\ Beat
  /\ sem[hold[Agent].items] = 0
  /\ UNCHANGED <<lifeVars, scenario, lives, tracked, doing, verdict, done, clientVars>>

StepCommand ==
  /\ At(Agent, "loop") /\ Beat
  /\ TakeOut(Agent)
  /\ LET messages == queue[hold[Agent].queue] IN
       IF messages # <<>>
         THEN doing' = Head(messages) /\ Go(Agent, "handle")
         ELSE UNCHANGED <<doing, pc>>
  /\ UNCHANGED <<names, hold, broken, destroyed, scenario, lives, tracked, verdict, done, clientVars>>

\* The handler returns or raises; only _InvalidRegistrationError spares the agent.
Handle ==
  /\ At(Agent, "handle")
  /\ \E v \in {"ok", "refused"} \cup (IF scenario.fatal THEN {"fatal"} ELSE {}) :
       /\ verdict' = [verdict EXCEPT ![doing] = [what |-> v, file |-> Mine(Agent)]]
       /\ Go(Agent, IF v = "ok" THEN "release" ELSE "record")
  /\ UNCHANGED <<sem, names, queue, hold, broken, destroyed, muddled, scenario, lives, state,
                 tracked, doing, done, clientVars, turn>>

\* Mutant: a new record reclaims all others.
AllExpired(errors) == {c \in tracked : errors[c] < Gone}

\* Records of this agent that are older than the time to live.
Expired(errors) == {c \in tracked : errors[c] > Ttl}

RecordError ==
  /\ Move(Agent, "record", "release")
  /\ LET old == Expired(state[Mine(Agent)].errors) IN
       /\ state' = [state EXCEPT ![Mine(Agent)].errors =
                      [c \in Clients |-> IF c = doing THEN 0 ELSE IF c \in old THEN Gone ELSE @[c]]]
       /\ tracked' = (tracked \ old) \cup ({doing} \cap Clients)
  /\ UNCHANGED <<sem, names, queue, hold, broken, destroyed, muddled, scenario, lives, doing,
                 verdict, done, clientVars, turn>>

\* The client, if there still is one, is let go; back to the loop, or out of run() into close().
ReleaseSemaphore ==
  /\ Move(Agent, "release", IF verdict[doing].what = "fatal" THEN "closing" ELSE "loop")
  /\ done' = [c \in Clients |-> IF c = doing THEN 1 ELSE done[c]]
  /\ UNCHANGED <<sem, names, queue, hold, broken, destroyed, muddled, scenario, agentVars,
                 clientVars, turn>>

\* The state file goes after the queue.
UnlinkState ==
  /\ Move(Agent, "closed", "off")
  /\ Unlink("state")
  /\ hold' = [hold EXCEPT ![Agent] = NoHandles]
  /\ UNCHANGED <<sem, queue, broken, destroyed, muddled, sessionVars>>

\* The agent's process is killed; files and semaphores stay.
AgentDies ==
  /\ scenario.dies /\ InService
  /\ Go(Agent, "off")
  /\ hold' = [hold EXCEPT ![Agent] = NoHandles]
  /\ UNCHANGED <<sem, names, queue, broken, destroyed, muddled, sessionVars>>

AgentStep ==
  \/ OpenState \/ StepIdle \/ StepCommand \/ Handle \/ RecordError
  \/ ReleaseSemaphore \/ UnlinkState
  \/ CloseQueue(Agent, "closing") /\ UNCHANGED sessionVars

-----------------------------------------------------------------------------
(* Clients *)

Connects(c) == c \in Clients \ scenario.direct

StartClient(c) ==
  /\ c \in scenario.clients
  /\ At(c, "off")
  /\ IF Connects(c)
       THEN Go(c, "look") /\ lucky' = IF InService THEN lucky \cup {c} ELSE lucky
       ELSE Go(c, "new") /\ UNCHANGED lucky
  /\ UNCHANGED <<sem, names, queue, hold, broken, destroyed, muddled, scenario, agentVars, done,
                 outcome, waited, late, turn>>

\* os.path.exists: the file is opened, or looked for again.
FindState(c) ==
  /\ At(c, "look") /\ c \notin turn
  /\ IF names.state # 0
       THEN Go(c, "poll") /\ Open(c, "state") /\ UNCHANGED turn
       ELSE turn' = turn \cup {c} /\ UNCHANGED <<pc, hold>>
  /\ UNCHANGED <<sem, names, queue, broken, destroyed, muddled, scenario, agentVars, done,
                 clientVars>>

IsFresh(age) == age < Fresh

\* A fresh heartbeat, or a look at it again later.
PollHeartbeat(c) ==
  /\ At(c, "poll") /\ c \notin turn
  /\ turn' = turn \cup {c}
  /\ IF IsFresh(state[Mine(c)].age) THEN Go(c, "new") ELSE UNCHANGED pc
  /\ UNCHANGED <<sem, names, queue, hold, broken, destroyed, muddled, scenario, agentVars, done,
                 clientVars>>

\* Past the deadline: ConnectionError.
Refuse(c) ==
  /\ pc[c] \in {"look", "poll"} /\ waited[c] > Patience
  /\ Go(c, "refused")
  /\ UNCHANGED <<sem, names, queue, hold, broken, destroyed, muddled, sessionVars>>

\* _execute_command_with_semaphore, up to the wait.
SendCommand(c) ==
  /\ Connects(c)
  /\ Move(c, "up", "waiting")
  /\ Put(c, c)
  /\ UNCHANGED <<names, hold, broken, destroyed, sessionVars>>

Acquire(c) ==
  /\ Move(c, "waiting", "woken")
  /\ done[c] > 0
  /\ done' = [done EXCEPT ![c] = 0]
  /\ UNCHANGED <<sem, names, queue, hold, broken, destroyed, muddled, scenario, agentVars,
                 clientVars, turn>>

\* _raise_command_error: no record means success.
ReadOutcome(c) ==
  /\ Move(c, "woken", "closing")
  /\ outcome' = [outcome EXCEPT ![c] = IF state[Mine(c)].errors[c] # Gone THEN "failed" ELSE "ok"]
  /\ UNCHANGED <<sem, names, queue, hold, broken, destroyed, muddled, scenario, agentVars, done,
                 waited, late, lucky, turn>>

WaitTimeout(c) ==
  /\ Move(c, "waiting", "closing")
  /\ outcome' = [outcome EXCEPT ![c] = "timeout"]
  /\ UNCHANGED <<sem, names, queue, hold, broken, destroyed, muddled, scenario, agentVars, done,
                 waited, late, lucky, turn>>

\* A user of the bare queue: puts a message in or clears it, and lets go.
UseQueue(p) ==
  /\ p \in scenario.direct
  /\ \/ /\ p \notin scenario.clears
        /\ Move(p, "up", "cleared") /\ Put(p, Agent)
        /\ UNCHANGED <<names, hold, broken, destroyed>>
     \/ p \in scenario.clears /\ ResetPointers(p, "up")
     \/ Drain(p) \/ Refill(p) \/ CloseHandles(p, "cleared")
  /\ UNCHANGED sessionVars

\* client.close() destroys the queue.
ClientStep(c) ==
  \/ FindState(c) \/ PollHeartbeat(c) \/ Refuse(c) \/ SendCommand(c)
  \/ Acquire(c) \/ ReadOutcome(c) \/ UseQueue(c)
  \/ CloseQueue(c, "closing") /\ UNCHANGED sessionVars

-----------------------------------------------------------------------------

\* A tick passes once everybody who is awake has had a turn.
Due == {c \in Clients : pc[c] \in {"look", "poll"}}
         \cup (IF pc[Agent] = "loop" THEN {Agent} ELSE {})

Older(age, cap) == IF age < cap THEN age + 1 ELSE age

Tick ==
  /\ scenario.timed
  /\ Due \subseteq turn
  /\ pc[Agent] \notin {"record", "release"}
  /\ pc[Agent] = "handle" => scenario.slow
  /\ turn' = {}
  /\ state' = [s \in DOMAIN state |->
                 [age |-> Older(state[s].age, Fresh),
                  errors |-> [c \in Clients |-> IF state[s].errors[c] = Gone THEN Gone
                                                ELSE Older(state[s].errors[c], Ttl + 1)]]]
  /\ waited' = [c \in Clients |-> IF c \in Due THEN Older(waited[c], Patience + 1) ELSE 0]
  /\ late' = [c \in Clients |-> IF (done[c] = 1 /\ pc[c] = "waiting") \/ pc[c] = "woken" THEN Older(late[c], Ttl + 1)
                                ELSE late[c]]
  /\ UNCHANGED <<lifeVars, scenario, lives, tracked, doing, verdict, done, outcome, lucky>>

Init ==
  /\ scenario \in Scenarios
  /\ names = [n \in {"items", "space", "ready", "queue", "state"} |->
                IF n = "queue" /\ scenario.left > 0 THEN 1 ELSE 0]
  /\ sem = <<>>
  /\ queue = IF scenario.left > 0 THEN <<[i \in 1..scenario.left |-> Agent]>> ELSE <<>>
  /\ pc = [p \in Users |-> "off"]
  /\ hold = [p \in Users |-> NoHandles]
  /\ broken = FALSE /\ destroyed = 0 /\ muddled = FALSE
  /\ lives = 0 /\ state = <<>> /\ tracked = {} /\ doing = Agent
  /\ verdict = [p \in Users |-> [what |-> "none", file |-> 0]]
  /\ done = [c \in Clients |-> 0]
  /\ outcome = [c \in Clients |-> "none"]
  /\ waited = [c \in Clients |-> 0]
  /\ late = [c \in Clients |-> 0]
  /\ lucky = {} /\ turn = {}

UserStep(p) ==
  \/ Construct(p) /\ UNCHANGED sessionVars
  \/ UnlinkNext(p) /\ UNCHANGED sessionVars
  \/ p = Agent /\ AgentStep
  \/ p \in Clients /\ ClientStep(p)

Next ==
  \/ \E p \in Users : UserStep(p)
  \/ StartAgent \/ AgentDies \/ Tick
  \/ \E c \in Clients : StartClient(c) \/ WaitTimeout(c)
  \/ \E p \in Users : scenario.openFails /\ LeaderFails(p) /\ UNCHANGED sessionVars

Spec == Init /\ [][Next]_vars

\* Every process that runs takes its steps.
FairSpec == Spec /\ \A p \in Users : WF_vars(UserStep(p))

-----------------------------------------------------------------------------
(* Properties *)

\* A failed command is never taken for a successful one, although success is only
\* the absence of an error record: not when the agent ends or is killed, and not when
\* other records are reclaimed, unless the client needs longer than the time to live
\* to look (agent.py writes the record before it releases the semaphore, client.py
\* reads it after).  A client that has the state file of one agent and the queue of
\* the next is the exception.
FailureIsSeen ==
  \A c \in Clients : outcome[c] = "ok" =>
    \/ verdict[c].what = "ok"
    \/ late[c] > Ttl
    \/ verdict[c].file # hold[c].state

\* A client that begins to look for an agent in service is not turned away, as long
\* as no handler keeps the agent from its loop and nothing ends it: the heartbeat of
\* every iteration is fresh enough for every poll.
LiveAgentFound ==
  ~scenario.slow /\ ~scenario.fatal /\ ~scenario.dies
    => \A c \in lucky : pc[c] # "refused"

\* A client that has come through the constructor while the agent is in service has
\* the agent's queue: a queue in use is not destroyed (command_queue.py, close).
ReachesAgent ==
  \A c \in Clients : pc[c] = "up" /\ InService => Handles(c) = Handles(Agent)

\* Whoever enters the constructor leaves it, with a queue or an error, also while
\* another process destroys the queue: unless a leader failed to open LMDB, or a
\* second destruction got in between.
ConstructorEnds ==
  \A p \in Users : pc[p] = "new" ~> (pc[p] \in {"up", "raised"} \/ broken \/ destroyed > 1)
=============================================================================

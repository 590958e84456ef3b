--------------------------- MODULE SessionProofs ----------------------------
(***************************************************************************)
(* Whoever starts in what order, there is one queue with the right counts  *)
(* until somebody destroys it; a client that is let go finds what became   *)
(* of its command; and a client that looks for a running agent finds it,   *)
(* for any number of clients and agents one after the other, any capacity  *)
(* and any times.                                                          *)
(*                                                                         *)
(* LifeInv says what a process has open where it is.  QueueInv says that   *)
(* there is one leader, that everybody has its objects open, and what the  *)
(* semaphores count, also in the middle of a clear.  SeenInv follows a     *)
(* command from its client to the record of its failure.  FoundInv says    *)
(* how old the heartbeat of an agent in service can be.                    *)
(***************************************************************************)
EXTENDS Session, TLAPS

\* Most leaves are first-order: Zenon tries them before SMT.
USE ZenonT(3), SMTT(15)

Names == {"items", "space", "ready", "queue", "state"}
Sems == {"items", "space", "ready"}

Connecting == {"off", "look", "poll", "refused", "new"}
Leading == {"lead", "items", "space", "announce"}
Following == {"follow", "wait", "pass", "open", "getitems", "getspace"}
Service == {"loop", "handle", "record", "release"}
Using == Service \cup ClearSteps \cup {"up", "waiting", "woken", "cleared", "closing"}
Unlinking == {"unlink1", "unlink2", "unlink3", "unlink4"}
Places == Connecting \cup Leading \cup Following \cup Using \cup Unlinking \cup {"closed", "raised"}

File == [age : Nat, errors : [Clients -> Nat]]
Verdict == [what : {"none", "ok", "refused", "fatal"}, file : Nat]

LifeTypes ==
  /\ scenario \in Scenarios
  /\ names \in [Names -> Nat] /\ sem \in Seq(Int) /\ queue \in Seq(Seq(Users))
  /\ pc \in [Users -> Places] /\ hold \in [Users -> [Names -> Nat]]
  /\ destroyed \in Nat /\ muddled \in BOOLEAN
  /\ state \in Seq(File) /\ doing \in Users

\* The names or handles h are of objects there are, when there are that many of each.
InRange(h, sems, queues, states) ==
  /\ \A n \in Sems : h[n] <= sems
  /\ h["queue"] <= queues /\ h["state"] <= states

BoundInv ==
  /\ InRange(names, Len(sem), Len(queue), Len(state))
  /\ \A p \in Users : InRange(hold[p], Len(sem), Len(queue), Len(state))

\* The handles h are what process p has open at a place.
Fits(p, place, h) ==
  /\ place \in Leading \cup {"wait", "pass"} => h["ready"] # 0
  /\ place \in {"items", "space", "announce", "getitems", "getspace"} \cup Using
       => h["queue"] # 0
  /\ place \in {"space", "announce", "getspace"} \cup Using => h["items"] # 0
  /\ place \in {"announce"} \cup Using => h["space"] # 0
  /\ h["space"] # 0 => h["items"] # 0 /\ h["queue"] # 0
  /\ place \in Service => p = Agent /\ h["state"] # 0
  /\ p = Agent => place \notin ClearSteps \cup {"look", "poll", "waiting", "woken", "cleared"}

LifeInv == LifeTypes /\ BoundInv /\ \A p \in Users : Fits(p, pc[p], hold[p])

-----------------------------------------------------------------------------
(* One queue *)

ShareInv ==
  /\ \A p \in Users : pc[p] \notin Unlinking
  /\ pc[Agent] # "closed"
  /\ \A p \in Users : \A n \in Names \ {"state"} : hold[p][n] \in {0, names[n]}
  /\ names["ready"] = 0 => /\ names["items"] = 0 /\ names["space"] = 0
                           /\ \A p \in Users : pc[p] \in Connecting
  /\ \A p, q \in Users : pc[p] \in Leading /\ pc[q] \in Leading => p = q
  /\ \A p \in Users : pc[p] \in {"lead", "items"} => names["items"] = 0 /\ names["space"] = 0
  /\ \A p \in Users : pc[p] = "space" => names["space"] = 0

Messages == queue[names["queue"]]
Quiet == \A p \in Users : pc[p] \notin ClearSteps

\* The messages of the queue, and what the two semaphores make of them.
TokenInv ==
  /\ names["items"] # 0 => names["queue"] # 0
  /\ names["space"] # 0 => names["items"] # 0
  /\ names["queue"] # 0 => Len(Messages) <= Capacity
  /\ names["items"] # 0 /\ Quiet => sem[names["items"]] = Len(Messages)
  /\ names["space"] # 0 /\ Quiet => sem[names["space"]] = Capacity - Len(Messages)
  /\ \A p, q \in Users : pc[p] \in ClearSteps /\ pc[q] \in ClearSteps => p = q
  /\ \A p \in Users : pc[p] \in ClearSteps =>
       /\ Messages = <<>> /\ sem[names["items"]] \in Nat /\ sem[names["space"]] \in Nat
       /\ pc[p] # "drain" => sem[names["items"]] = 0
       /\ pc[p] = "refill" => sem[names["space"]] = 0

\* No two names are of one semaphore.
Distinct ==
  \A m, n \in Sems : names[m] = names[n] => m = n \/ names[m] = 0

QueueInv ==
  /\ Distinct
  /\ destroyed = 0 => ShareInv
  /\ destroyed = 0 /\ ~muddled => TokenInv

-----------------------------------------------------------------------------

FailTypes ==
  /\ tracked \subseteq Clients
  /\ verdict \in [Users -> Verdict]
  /\ done \in [Clients -> {0, 1}]
  /\ outcome \in [Clients -> {"none", "ok", "failed", "timeout"}]
  /\ late \in [Clients -> Nat]

\* A command of c is in a queue, at most once.
In(c) == \E f \in 1..Len(queue) : \E i \in 1..Len(queue[f]) : queue[f][i] = c
Once(c) ==
  \A f, g \in 1..Len(queue) : \A i \in 1..Len(queue[f]), j \in 1..Len(queue[g]) :
    queue[f][i] = c /\ queue[g][j] = c => f = g /\ i = j

\* The agent is at the command of c.
Handled(c) == pc[Agent] \in {"handle", "record", "release"} /\ doing = c

\* The client has been let go and has not looked yet.
Released(c) == (done[c] = 1 /\ pc[c] = "waiting") \/ pc[c] = "woken"

Sent(c) == pc[c] \in {"waiting", "woken", "closing", "closed"} \cup Unlinking

\* The failure is on record, as old as the client is late.
Recorded(c) ==
  \/ verdict[c].what = "ok"
  \/ late[c] > Ttl
  \/ state[verdict[c].file].errors[c] = late[c]

FailInv(c) ==
  /\ verdict[c].what # "none" => verdict[c].file \in 1..Len(state)
  /\ ~Sent(c) => /\ ~In(c) /\ ~Handled(c) /\ done[c] = 0 /\ late[c] = 0
                 /\ outcome[c] = "none" /\ verdict[c].what = "none"
  /\ In(c) => Once(c) /\ ~Handled(c) /\ verdict[c].what = "none"
  /\ Handled(c) \/ In(c) => done[c] = 0 /\ pc[c] # "woken" /\ outcome[c] # "ok"
  /\ Handled(c) =>
       /\ pc[Agent] = "handle" => verdict[c].what = "none"
       /\ pc[Agent] = "record" => verdict[c].what # "none" /\ verdict[c].file = Mine(Agent)
       /\ pc[Agent] = "release" => \/ verdict[c].what = "ok"
                                   \/ /\ verdict[c].what # "none"
                                      /\ verdict[c].file = Mine(Agent)
                                      /\ state[Mine(Agent)].errors[c] = 0
  /\ pc[c] = "waiting" => (done[c] = 0 => late[c] = 0) /\ outcome[c] = "none"
  /\ Released(c) => verdict[c].what # "none" /\ Recorded(c)
  /\ pc[c] = "woken" => outcome[c] = "none"
  /\ outcome[c] = "ok" => \/ verdict[c].what = "ok" \/ late[c] > Ttl
                          \/ verdict[c].file # hold[c].state

SeenInv == FailTypes /\ \A c \in Clients : FailInv(c)

-----------------------------------------------------------------------------
(* Handles *)

\* A sequence is defined up to its length.
LEMMA SeqDomain ==
  ASSUME NEW S, NEW s \in Seq(S)
  PROVE  DOMAIN s = 1..Len(s)
  BY SMT

\* An assignment to an element of a sequence.
LEMMA UpdatedSeq ==
  ASSUME NEW S, NEW s \in Seq(S), NEW i \in 1..Len(s), NEW v \in S, NEW t,
         t = [s EXCEPT ![i] = v]
  PROVE  /\ t \in Seq(S) /\ Len(t) = Len(s) /\ t[i] = v
         /\ \A j \in 1..Len(s) : j # i => t[j] = s[j]
BY SMT

\* Process p goes to a place with the handles h, and the objects become no fewer.
Moves(p, place, h) ==
  /\ pc' = [pc EXCEPT ![p] = place] /\ hold' = [hold EXCEPT ![p] = h]
  /\ place \in Places /\ h \in [Names -> Nat] /\ Fits(p, place, h)
  /\ InRange(h, Len(sem'), Len(queue'), Len(state'))
  /\ scenario' = scenario /\ destroyed' \in Nat /\ muddled' \in BOOLEAN /\ doing' \in Users
  /\ names' \in [Names -> Nat] /\ InRange(names', Len(sem'), Len(queue'), Len(state'))
  /\ sem' \in Seq(Int) /\ Len(sem) <= Len(sem')
  /\ queue' \in Seq(Seq(Users)) /\ Len(queue) <= Len(queue')
  /\ state' \in Seq(File) /\ Len(state) <= Len(state')

\* The handles of the others are the old ones.
LEMMA LifeStep ==
  ASSUME LifeInv, NEW p \in Users, NEW place, NEW h, Moves(p, place, h)
  PROVE  LifeInv'
<1>1. LifeTypes'
  BY DEF LifeInv, LifeTypes, Moves
<1>2. \A q \in Users : /\ q = p => pc'[q] = place /\ hold'[q] = h
                       /\ q # p => pc'[q] = pc[q] /\ hold'[q] = hold[q]
  BY DEF LifeInv, LifeTypes, Moves
<1>3. ASSUME NEW q \in Users, q # p
      PROVE  InRange(hold[q], Len(sem'), Len(queue'), Len(state'))
  <2>1. /\ Len(sem) \in Nat /\ Len(queue) \in Nat /\ Len(state) \in Nat
        /\ Len(sem') \in Nat /\ Len(queue') \in Nat /\ Len(state') \in Nat
    BY <1>1, SMT DEF LifeInv, LifeTypes
  <2>2. Len(sem) <= Len(sem') /\ Len(queue) <= Len(queue') /\ Len(state) <= Len(state')
    BY DEF Moves
  <2>3. \A n \in Names : hold[q][n] \in Nat
    BY DEF LifeInv, LifeTypes
  <2>4. \A a, b, c \in Nat : a <= b /\ b <= c => a <= c
    BY SMT
  <2>5. Sems \subseteq Names /\ "queue" \in Names /\ "state" \in Names
    BY DEF Sems, Names
  <2> QED
    BY <2>1, <2>2, <2>3, <2>4, <2>5, Zenon DEF LifeInv, BoundInv, InRange
<1>4. BoundInv'
  BY <1>2, <1>3 DEF BoundInv, Moves
<1>5. \A q \in Users : Fits(q, pc'[q], hold'[q])
  BY <1>2 DEF LifeInv, Moves
<1> QED
  BY <1>1, <1>4, <1>5 DEF LifeInv

-----------------------------------------------------------------------------
(* One queue: what the steps have in common *)

\* Names are only added, by the one leader, and p opens what they name.
LEMMA ShareStep ==
  ASSUME LifeInv, ShareInv, NEW p \in Users, NEW place, NEW h, Moves(p, place, h),
         place \notin Unlinking, p = Agent => place # "closed",
         \A n \in Names \ {"state"} : names[n] # 0 => names'[n] = names[n],
         \A n \in Names \ {"state"} : h[n] \in {0, names'[n]},
         names'["ready"] = 0 =>
           place \in Connecting /\ names'["items"] = 0 /\ names'["space"] = 0,
         place \in Leading => pc[p] \in Leading \/ names["ready"] = 0,
         place \in {"lead", "items"} => names'["items"] = 0 /\ names'["space"] = 0,
         place = "space" => names'["space"] = 0,
         pc[p] \notin Leading =>
           names'["items"] = names["items"] /\ names'["space"] = names["space"]
  PROVE  ShareInv'
<1>1. \A q \in Users : /\ q = p => pc'[q] = place /\ hold'[q] = h
                       /\ q # p => pc'[q] = pc[q] /\ hold'[q] = hold[q]
  BY DEF LifeInv, LifeTypes, Moves
<1>2. \A q \in Users : \A n \in Names \ {"state"} : hold'[q][n] \in {0, names'[n]}
  <2> SUFFICES ASSUME NEW q \in Users, q # p, NEW n \in Names \ {"state"}
               PROVE  hold[q][n] \in {0, names'[n]}
    BY <1>1
  <2>1. hold[q][n] \in {0, names[n]}
    BY DEF ShareInv
  <2> QED
    BY <2>1
<1>3. names'["ready"] = 0 => names["ready"] = 0
  <2>1. "ready" \in Names \ {"state"}
    BY DEF Names
  <2> QED
    BY <2>1
<1>4. Connecting \cap Leading = {} /\ {"lead", "items", "space"} \subseteq Leading
  BY DEF Connecting, Leading
<1>5. \A q \in Users : q # p /\ pc[q] \in Leading => pc[p] \notin Leading /\ place \notin Leading
  BY <1>4 DEF ShareInv
<1>6. /\ \A q \in Users : pc'[q] \notin Unlinking
      /\ pc'[Agent] # "closed"
  BY <1>1, UsersAssumption DEF ShareInv
<1>7. names'["ready"] = 0 => \A q \in Users : pc'[q] \in Connecting
  BY <1>1, <1>3 DEF ShareInv
<1>8. \A q, r \in Users : pc'[q] \in Leading /\ pc'[r] \in Leading => q = r
  BY <1>1, <1>5 DEF ShareInv
<1>9. \A q \in Users : pc'[q] \in {"lead", "items"} => names'["items"] = 0 /\ names'["space"] = 0
  <2> SUFFICES ASSUME NEW q \in Users, q # p, pc[q] \in {"lead", "items"}
               PROVE  names'["items"] = 0 /\ names'["space"] = 0
    BY <1>1
  <2>1. names["items"] = 0 /\ names["space"] = 0 /\ pc[p] \notin Leading
    BY <1>4, <1>5 DEF ShareInv
  <2> QED
    BY <2>1
<1>10. \A q \in Users : pc'[q] = "space" => names'["space"] = 0
  <2> SUFFICES ASSUME NEW q \in Users, q # p, pc[q] = "space"
               PROVE  names'["space"] = 0
    BY <1>1
  <2>1. names["space"] = 0 /\ pc[p] \notin Leading
    BY <1>4, <1>5 DEF ShareInv
  <2> QED
    BY <2>1
<1> QED
  BY <1>2, <1>6, <1>7, <1>8, <1>9, <1>10 DEF ShareInv

\* Whoever uses a queue uses the one with the names.
LEMMA UserNames ==
  ASSUME LifeInv, ShareInv, NEW p \in Users, pc[p] \in Using
  PROVE  \A n \in {"items", "space", "queue"} : hold[p][n] = names[n] /\ names[n] # 0
<1>1. \A n \in {"items", "space", "queue"} : hold[p][n] # 0
  BY DEF LifeInv, Fits
<1>2. \A n \in {"items", "space", "queue"} : hold[p][n] \in {0, names[n]}
  BY DEF ShareInv, Names
<1> QED
  BY <1>1, <1>2

\* Nobody touches the queue or clears it.
LEMMA TokenStep ==
  ASSUME LifeInv, ShareInv, TokenInv, NEW p \in Users, NEW place, NEW h, Moves(p, place, h),
         \A n \in {"items", "space", "queue"} : names'[n] = names[n],
         names["queue"] # 0 => queue'[names["queue"]] = Messages,
         \A n \in {"items", "space"} : names[n] # 0 => sem'[names[n]] = sem[names[n]],
         pc[p] \notin ClearSteps, place \notin ClearSteps
  PROVE  TokenInv'
<1>1. \A q \in Users : pc'[q] \in ClearSteps \/ pc[q] \in ClearSteps => pc'[q] = pc[q] /\ q # p
  BY DEF LifeInv, LifeTypes, Moves
<1>2. Quiet' <=> Quiet
  BY <1>1 DEF Quiet
<1>3. names["queue"] # 0 => Messages' = Messages
  BY DEF Messages
<1>4. ASSUME NEW q \in Users, pc[q] \in ClearSteps
      PROVE  names["items"] # 0 /\ names["space"] # 0 /\ names["queue"] # 0
  BY <1>4, UserNames DEF Using
<1> QED
  BY <1>1, <1>2, <1>3, <1>4 DEF TokenInv

\* A step that leaves the queue and its names alone.
LEMMA AsideStep ==
  ASSUME LifeInv, QueueInv, NEW p \in Users, NEW place, NEW h, Moves(p, place, h),
         \A n \in Names \ {"state"} : names'[n] = names[n],
         queue' = queue, muddled' = muddled, destroyed' = destroyed,
         pc[p] \notin ClearSteps, place \notin ClearSteps \cup Leading,
         destroyed = 0 =>
           /\ place \notin Unlinking /\ (p = Agent => place # "closed")
           /\ names["ready"] = 0 => place \in Connecting
           /\ \A n \in Names \ {"state"} : h[n] \in {0, names[n]}
           /\ \A n \in {"items", "space"} : names[n] # 0 => sem'[names[n]] = sem[names[n]]
  PROVE  LifeInv' /\ QueueInv'
<1>1. LifeInv'
  BY LifeStep
<1>2. \A n \in Sems : names'[n] = names[n]
  BY DEF Sems, Names
<1>3. Distinct'
  BY <1>2, SMT DEF QueueInv, Distinct
<1>4. ASSUME destroyed = 0 PROVE ShareInv'
  <2>1. ShareInv /\ \A n \in {"items", "space", "ready"} : names'[n] = names[n]
    BY <1>2, <1>4 DEF QueueInv, Sems
  <2>2. place \notin Leading /\ place \notin {"lead", "items", "space"}
    BY DEF Leading
  <2>3. names'["ready"] = 0 =>
          place \in Connecting /\ names'["items"] = 0 /\ names'["space"] = 0
    BY <1>4, <2>1 DEF ShareInv
  <2> QED
    BY <1>4, <2>1, <2>2, <2>3, ShareStep, Zenon
<1>5. ASSUME destroyed = 0, ~muddled PROVE TokenInv'
  <2>1. ShareInv /\ TokenInv /\ \A n \in {"items", "space", "queue"} : names'[n] = names[n]
    BY <1>5 DEF QueueInv, Names
  <2> QED
    BY <1>5, <2>1, TokenStep, Zenon DEF Messages
<1> QED
  BY <1>1, <1>3, <1>4, <1>5 DEF QueueInv

\* A step of a process that only goes to another place.
LEMMA PlainStep ==
  ASSUME LifeInv, QueueInv, NEW p \in Users, NEW place \in Places, Go(p, place),
         UNCHANGED <<scenario, names, sem, queue, hold, destroyed, muddled>>,
         doing' \in Users, state' \in Seq(File), Len(state') = Len(state),
         Fits(p, place, hold[p]), pc[p] \notin ClearSteps,
         place \notin ClearSteps \cup Leading \cup Unlinking,
         p = Agent => place # "closed",
         pc[p] \in Connecting => place \in Connecting \/ names["ready"] # 0
  PROVE  LifeInv' /\ QueueInv'
<1>1. Moves(p, place, hold[p])
  <2>1. hold' = [hold EXCEPT ![p] = hold[p]]
    BY DEF LifeInv, LifeTypes
  <2>2. hold[p] \in [Names -> Nat] /\ InRange(hold[p], Len(sem'), Len(queue'), Len(state'))
    BY DEF LifeInv, LifeTypes, BoundInv
  <2>3. InRange(names', Len(sem'), Len(queue'), Len(state'))
    BY DEF LifeInv, BoundInv
  <2>4. /\ Len(sem) <= Len(sem') /\ Len(queue) <= Len(queue') /\ Len(state) <= Len(state')
        /\ names' \in [Names -> Nat] /\ sem' \in Seq(Int) /\ queue' \in Seq(Seq(Users))
        /\ destroyed' \in Nat /\ muddled' \in BOOLEAN
    BY SMT DEF LifeInv, LifeTypes
  <2> QED
    BY <2>1, <2>2, <2>3, <2>4 DEF Moves, Go
<1>2. destroyed = 0 => /\ \A n \in Names \ {"state"} : hold[p][n] \in {0, names[n]}
                       /\ names["ready"] = 0 => place \in Connecting
  BY DEF QueueInv, ShareInv
<1> QED
  BY <1>1, <1>2, AsideStep, Zenon

\* A step in which nobody goes anywhere.
LEMMA SameLife ==
  ASSUME LifeInv, QueueInv, UNCHANGED <<scenario, lifeVars>>,
         doing' \in Users, state' \in Seq(File), Len(state') = Len(state)
  PROVE  LifeInv' /\ QueueInv'
BY Zenon DEF LifeInv, QueueInv, LifeTypes, BoundInv, ShareInv, TokenInv, Distinct, Quiet,
             Messages, lifeVars

\* Once the queue is destroyed, its names may go to any objects.
LEMMA DestroyedStep ==
  ASSUME LifeInv, NEW p \in Users, NEW place, NEW h, Moves(p, place, h), destroyed' # 0,
         Distinct'
  PROVE  LifeInv' /\ QueueInv'
BY LifeStep DEF QueueInv

-----------------------------------------------------------------------------
(* One queue: the steps of the agent and of the clients *)

\* Something new in a state file.
LEMMA StateUpdate ==
  ASSUME LifeInv, NEW i \in 1..Len(state), NEW v \in File, state' = [state EXCEPT ![i] = v]
  PROVE  state' \in Seq(File) /\ Len(state') = Len(state)
<1>1. state \in Seq(File)
  BY DEF LifeInv, LifeTypes
<1> QED
  BY <1>1, SMT

\* A state file with new records.
LEMMA ErrorsUpdate ==
  ASSUME LifeInv, NEW i \in 1..Len(state), NEW e \in [Clients -> Nat],
         state' = [state EXCEPT ![i].errors = e]
  PROVE  state' \in Seq(File) /\ Len(state') = Len(state)
<1>1. state \in Seq(File)
  BY DEF LifeInv, LifeTypes
<1>2. state[i] \in File
  BY <1>1, SMT
<1>3. PICK v : v = [state[i] EXCEPT !.errors = e]
  BY Zenon
<1>4. v \in File
  BY <1>2, <1>3 DEF File
<1>5. state' = [state EXCEPT ![i] = v]
  BY <1>3, Zenon
<1> QED
  BY <1>4, <1>5, StateUpdate, Zenon

\* The agent has a state file while it is in service.
LEMMA AgentFile ==
  ASSUME LifeInv, pc[Agent] \in Service
  PROVE  /\ Mine(Agent) \in 1..Len(state) /\ state[Mine(Agent)] \in File
         /\ state[Mine(Agent)].age \in Nat /\ state[Mine(Agent)].errors \in [Clients -> Nat]
<1>1. Agent \in Users
  BY UsersAssumption
<1>2. hold[Agent]["state"] # 0 /\ hold[Agent]["state"] <= Len(state) /\ hold[Agent]["state"] \in Nat
  BY <1>1 DEF LifeInv, LifeTypes, BoundInv, InRange, Fits, Names
<1>3. Mine(Agent) \in 1..Len(state)
  BY <1>2 DEF Mine, LifeInv, LifeTypes
<1>4. state \in Seq(File)
  BY DEF LifeInv, LifeTypes
<1>5. state[Mine(Agent)] \in File
  BY <1>3, <1>4, SMT
<1> QED
  BY <1>3, <1>5 DEF File

\* The heartbeat.
LEMMA BeatFacts ==
  ASSUME LifeInv, pc[Agent] \in Service, Beat
  PROVE  state' \in Seq(File) /\ Len(state') = Len(state)
<1>1. Mine(Agent) \in 1..Len(state) /\ state[Mine(Agent)] \in File
  BY AgentFile
<1> PICK v : v = [state[Mine(Agent)] EXCEPT !.age = 0]
  BY Zenon
<1>2. v \in File
  BY <1>1 DEF File
<1>3. state' = [state EXCEPT ![Mine(Agent)] = v]
  BY DEF Beat
<1> QED
  BY <1>1, <1>2, <1>3, StateUpdate, Zenon

\* The places of the agent in service.
LEMMA ServicePlaces ==
  /\ Service \subseteq Using /\ Service \subseteq Places
  /\ Service \cap (ClearSteps \cup Leading \cup Unlinking \cup Connecting) = {}
  /\ "closing" \in Using \ Service /\ "closed" \notin Service
BY DEF Service, Using, Places, ClearSteps, Leading, Unlinking, Connecting

\* The agent goes on in service, or begins to close.
LEMMA ServiceStep ==
  ASSUME LifeInv, QueueInv, NEW place \in Service \cup {"closing"}, Go(Agent, place),
         pc[Agent] \in Service,
         UNCHANGED <<scenario, names, sem, queue, hold, destroyed, muddled>>,
         doing' \in Users, state' \in Seq(File), Len(state') = Len(state)
  PROVE  LifeInv' /\ QueueInv'
<1>1. Agent \in Users
  BY UsersAssumption
<1>2. Fits(Agent, place, hold[Agent])
  BY <1>1, ServicePlaces DEF LifeInv, Fits, Service, Using, Leading, ClearSteps
<1>3. /\ place \in Places /\ place \notin ClearSteps \cup Leading \cup Unlinking
      /\ place # "closed" /\ pc[Agent] \notin ClearSteps \cup Connecting
  BY ServicePlaces DEF Places, ClearSteps, Leading, Unlinking, Using
<1> QED
  BY <1>1, <1>2, <1>3, PlainStep, Zenon

\* The agent's steps between two commands.
LEMMA AgentSteps ==
  ASSUME LifeInv, QueueInv, StepIdle \/ Handle \/ RecordError \/ ReleaseSemaphore
  PROVE  LifeInv' /\ QueueInv'
<1>0. LifeTypes /\ doing \in Users /\ state \in Seq(File)
  BY DEF LifeInv, LifeTypes
<1>1. CASE StepIdle
  <2>1. pc[Agent] \in Service
    BY <1>1 DEF StepIdle, At, Service
  <2>2. Beat /\ UNCHANGED <<scenario, lifeVars>> /\ doing' = doing
    BY <1>1 DEF StepIdle
  <2> QED
    BY <1>0, <2>1, <2>2, BeatFacts, SameLife
<1>2. CASE Handle
  <2>1. PICK place \in Service : Go(Agent, place)
    BY <1>2 DEF Handle, Service
  <2> QED
    BY <1>0, <1>2, <2>1, ServiceStep DEF Handle, At, Service
<1>3. CASE RecordError
  <2>1. pc[Agent] \in Service /\ Go(Agent, "release") /\ "release" \in Service
    BY <1>3 DEF RecordError, Move, At, Service
  <2>2. UNCHANGED <<scenario, names, sem, queue, hold, destroyed, muddled, doing>>
    BY <1>3 DEF RecordError
  <2>3. Mine(Agent) \in 1..Len(state) /\ state[Mine(Agent)] \in File
        /\ state[Mine(Agent)].errors \in [Clients -> Nat]
    BY <2>1, AgentFile
  <2> PICK old : old = Expired(state[Mine(Agent)].errors)
    BY Zenon
  <2> PICK e : e = [c \in Clients |-> IF c = doing THEN 0 ELSE IF c \in old THEN Gone
                                     ELSE state[Mine(Agent)].errors[c]]
    BY Zenon
  <2>4. e \in [Clients -> Nat] /\ state' = [state EXCEPT ![Mine(Agent)].errors = e]
    <3>1. Gone \in Nat
      BY ScenarioAssumption, SMT DEF Gone
    <3>2. e \in [Clients -> Nat]
      BY <2>3, <3>1
    <3>3. state' = [state EXCEPT ![Mine(Agent)].errors = e]
      BY <1>3 DEF RecordError
    <3> QED
      BY <3>2, <3>3
  <2>5. state' \in Seq(File) /\ Len(state') = Len(state)
    BY <2>3, <2>4, ErrorsUpdate, Zenon
  <2> QED
    BY <1>0, <2>1, <2>2, <2>5, ServiceStep, Zenon
<1>4. CASE ReleaseSemaphore
  <2>1. PICK place \in Service \cup {"closing"} : Go(Agent, place)
    BY <1>4 DEF ReleaseSemaphore, Move, Service
  <2> QED
    BY <1>0, <1>4, <2>1, ServiceStep DEF ReleaseSemaphore, Move, At, Service, agentVars
<1> QED
  BY <1>1, <1>2, <1>3, <1>4

\* A step that only opens or closes handles, or takes names away.
LEMMA HandMove ==
  ASSUME LifeInv, NEW p \in Users, NEW place \in Places, Go(p, place),
         NEW h \in [Names -> Nat], hold' = [hold EXCEPT ![p] = h], Fits(p, place, h),
         InRange(h, Len(sem), Len(queue), Len(state)),
         UNCHANGED <<scenario, sem, queue, doing, state>>,
         names' \in [Names -> Nat], InRange(names', Len(sem), Len(queue), Len(state)),
         destroyed' \in Nat, muddled' \in BOOLEAN
  PROVE  Moves(p, place, h)
<1>1. /\ Len(sem) <= Len(sem') /\ Len(queue) <= Len(queue') /\ Len(state) <= Len(state')
      /\ sem' \in Seq(Int) /\ queue' \in Seq(Seq(Users)) /\ state' \in Seq(File)
      /\ doing' \in Users
  BY DEF LifeInv, LifeTypes
<1> QED
  BY <1>1 DEF Moves, Go

\* Closed handles fit any place outside of the queue.
LEMMA Closed ==
  ASSUME LifeInv, NEW p \in Users, NEW h, h = NoHandles \/ h = LetGo(p)[p]
  PROVE  /\ h \in [Names -> Nat] /\ InRange(h, Len(sem), Len(queue), Len(state))
         /\ \A n \in Names \ {"state"} : h[n] = 0
<1>1. /\ hold \in [Users -> [Names -> Nat]] /\ hold[p]["state"] \in Nat
      /\ Len(sem) \in Nat /\ Len(queue) \in Nat /\ Len(state) \in Nat
  <2>1. hold \in [Users -> [Names -> Nat]] /\ "state" \in Names
    BY DEF LifeInv, LifeTypes, Names
  <2>2. Len(sem) \in Nat /\ Len(queue) \in Nat /\ Len(state) \in Nat
    BY DEF LifeInv, LifeTypes
  <2> QED
    BY <2>1, <2>2
<1>2. hold[p]["state"] <= Len(state)
  BY DEF LifeInv, BoundInv, InRange
<1>3. CASE h = NoHandles
  BY <1>1, <1>3, SMT DEF NoHandles, Names, Sems, InRange
<1>4. CASE h = LetGo(p)[p]
  BY <1>1, <1>2, <1>4, SMT DEF LetGo, NoHandles, Names, Sems, InRange
<1> QED
  BY <1>3, <1>4

\* What is known of a process, in small facts.
LEMMA UserFacts ==
  ASSUME LifeInv, NEW p \in Users
  PROVE  /\ hold[p] \in [Names -> Nat] /\ hold = [hold EXCEPT ![p] = hold[p]]
         /\ InRange(hold[p], Len(sem), Len(queue), Len(state))
         /\ Fits(p, pc[p], hold[p]) /\ pc[p] \in Places
         /\ names \in [Names -> Nat] /\ InRange(names, Len(sem), Len(queue), Len(state))
         /\ destroyed \in Nat /\ muddled \in BOOLEAN /\ doing \in Users
         /\ sem \in Seq(Int) /\ queue \in Seq(Seq(Users)) /\ state \in Seq(File)
         /\ Len(sem) \in Nat /\ Len(queue) \in Nat /\ Len(state) \in Nat
BY DEF LifeInv, LifeTypes, BoundInv

\* A handle or a name that is there names a semaphore.
LEMMA SemaphoreThere ==
  ASSUME LifeInv, NEW p \in Users, NEW n \in Sems
  PROVE  /\ hold[p][n] \in Nat /\ (hold[p][n] # 0 => hold[p][n] \in 1..Len(sem))
         /\ names[n] \in Nat /\ (names[n] # 0 => names[n] \in 1..Len(sem))
<1>1. n \in Names
  BY DEF Names, Sems
<1>2. hold[p] \in [Names -> Nat] /\ names \in [Names -> Nat] /\ Len(sem) \in Nat
  BY UserFacts, Zenon
<1>3. hold[p][n] <= Len(sem) /\ names[n] <= Len(sem)
  <2>1. /\ InRange(hold[p], Len(sem), Len(queue), Len(state))
        /\ InRange(names, Len(sem), Len(queue), Len(state))
    BY UserFacts, Zenon
  <2> QED
    BY <2>1, Zenon DEF InRange
<1>4. hold[p][n] \in Nat /\ names[n] \in Nat
  BY <1>1, <1>2, Zenon
<1> QED
  BY <1>2, <1>3, <1>4, SMT

\* The agent's process ends, and with it its handles.
LEMMA AgentDiesLife ==
  ASSUME LifeInv, QueueInv, AgentDies
  PROVE  LifeInv' /\ QueueInv'
<1>0. Agent \in Users
  BY UsersAssumption
<1>1. /\ Go(Agent, "off") /\ hold' = [hold EXCEPT ![Agent] = NoHandles]
      /\ UNCHANGED <<scenario, names, sem, queue, doing, state, destroyed, muddled>>
      /\ pc[Agent] \in Service
  BY DEF AgentDies, sessionVars, agentVars, InService, Service
<1>2. /\ NoHandles \in [Names -> Nat] /\ InRange(NoHandles, Len(sem), Len(queue), Len(state))
      /\ \A n \in Names \ {"state"} : NoHandles[n] = 0
  BY <1>0, Closed
<1>3. Fits(Agent, "off", NoHandles)
  BY <1>2 DEF Fits, Leading, Using, Service, ClearSteps, Names
<1>4. Moves(Agent, "off", NoHandles)
  <2>1. "off" \in Places
    BY DEF Places, Connecting
  <2> QED
    BY <1>0, <1>1, <1>2, <1>3, <2>1, UserFacts, HandMove, Zenon
<1>5. pc[Agent] \notin ClearSteps /\ "off" \notin ClearSteps \cup Leading \cup Unlinking
      /\ "off" \in Connecting
  BY <1>1 DEF Service, ClearSteps, Leading, Unlinking, Connecting
<1> QED
  BY <1>0, <1>1, <1>2, <1>4, <1>5, AsideStep

\* A new agent, which may first take the names of the last one away.
LEMMA StartAgentLife ==
  ASSUME LifeInv, QueueInv, StartAgent
  PROVE  LifeInv' /\ QueueInv'
<1>0. Agent \in Users
  BY UsersAssumption
<1>1. /\ pc[Agent] = "off" /\ Go(Agent, "new") /\ hold' = hold
      /\ UNCHANGED <<scenario, sem, queue, doing, state, muddled>>
  BY DEF StartAgent, Move, At
<1>2. Fits(Agent, "new", hold[Agent])
  <2>1. Fits(Agent, "off", hold[Agent])
    BY <1>0, <1>1 DEF LifeInv
  <2> QED
    BY <2>1 DEF Fits, Leading, Using, Service, ClearSteps
<1>3. "new" \in Places /\ "new" \in Connecting /\ "new" \notin ClearSteps \cup Leading \cup Unlinking
      /\ "off" \notin ClearSteps
  BY DEF Places, Connecting, ClearSteps, Leading, Unlinking
<1>4. CASE names' = names /\ destroyed' = destroyed
  BY <1>0, <1>1, <1>2, <1>3, <1>4, UserFacts, PlainStep
<1>5. CASE names' = [n \in DOMAIN names |-> 0] /\ destroyed' = destroyed + 1
  <2>1. names' = [n \in Names |-> 0] /\ names' \in [Names -> Nat]
    BY <1>0, <1>5, UserFacts
  <2>2. InRange(names', Len(sem), Len(queue), Len(state))
    BY <1>0, <2>1, UserFacts, SMT DEF InRange, Names, Sems
  <2>3. destroyed' \in Nat /\ destroyed' # 0 /\ muddled' \in BOOLEAN
    BY <1>0, <1>1, <1>5, UserFacts, SMT
  <2>4. hold' = [hold EXCEPT ![Agent] = hold[Agent]]
    BY <1>0, <1>1, UserFacts
  <2>5. Moves(Agent, "new", hold[Agent])
    BY <1>0, <1>1, <1>2, <1>3, <2>1, <2>2, <2>3, <2>4, UserFacts, HandMove, Zenon
  <2>6. Distinct'
    BY <2>1 DEF Distinct, Sems, Names
  <2> QED
    BY <1>0, <2>3, <2>5, <2>6, DestroyedStep
<1> QED
  BY <1>4, <1>5 DEF StartAgent

\* A process opens what has the name n.
LEMMA OpenStep ==
  ASSUME LifeInv, QueueInv, NEW p \in Users, NEW n \in Names, NEW place \in Places,
         Go(p, place), Open(p, n),
         UNCHANGED <<scenario, names, sem, queue, destroyed, muddled, doing, state>>,
         \A h \in [Names -> Nat] :
           h[n] = names[n] /\ (\A m \in Names : m # n => h[m] = hold[p][m]) => Fits(p, place, h),
         pc[p] \notin ClearSteps, place \notin ClearSteps \cup Leading \cup Unlinking,
         p = Agent => place # "closed",
         pc[p] \in Connecting => place \in Connecting \/ names["ready"] # 0
  PROVE  LifeInv' /\ QueueInv'
<1>1. names[n] \in Nat
  BY UserFacts
<1>2. PICK h : h = [hold[p] EXCEPT ![n] = names[n]]
  BY Zenon
<1>3. /\ hold' = [hold EXCEPT ![p] = h] /\ h \in [Names -> Nat] /\ h[n] = names[n]
      /\ \A m \in Names : m # n => h[m] = hold[p][m]
  <2>1. hold' = [hold EXCEPT ![p][n] = names[n]]
    BY DEF Open
  <2>2. hold[p] \in [Names -> Nat] /\ hold \in [Users -> [Names -> Nat]]
    BY DEF LifeInv, LifeTypes
  <2> QED
    BY <1>1, <1>2, <2>1, <2>2, SMT
<1>4. InRange(h, Len(sem), Len(queue), Len(state))
  <2>1. \A m \in Names : h[m] \in {hold[p][m], names[m]}
    BY <1>3
  <2>2. Sems \subseteq Names /\ "queue" \in Names /\ "state" \in Names
    BY DEF Sems, Names
  <2> QED
    BY <2>1, <2>2, UserFacts, Zenon DEF InRange
<1>5. Moves(p, place, h)
  BY <1>3, <1>4, UserFacts, HandMove, Zenon
<1>6. destroyed = 0 => /\ \A m \in Names \ {"state"} : h[m] \in {0, names[m]}
                       /\ names["ready"] = 0 => place \in Connecting
  BY <1>3 DEF QueueInv, ShareInv
<1> QED
  BY <1>5, <1>6, AsideStep, Zenon

\* The agent unlinks its state file: the queue has been destroyed.
LEMMA UnlinkStateLife ==
  ASSUME LifeInv, QueueInv, UnlinkState
  PROVE  LifeInv' /\ QueueInv'
<1>0. Agent \in Users
  BY UsersAssumption
<1>1. /\ pc[Agent] = "closed" /\ Go(Agent, "off") /\ hold' = [hold EXCEPT ![Agent] = NoHandles]
      /\ names' = [names EXCEPT !["state"] = 0]
      /\ UNCHANGED <<scenario, sem, queue, doing, state, destroyed, muddled>>
  BY DEF UnlinkState, Move, At, Unlink, sessionVars, agentVars
<1>2. /\ NoHandles \in [Names -> Nat] /\ InRange(NoHandles, Len(sem), Len(queue), Len(state))
      /\ \A n \in Names \ {"state"} : NoHandles[n] = 0
  BY <1>0, Closed
<1>3. Fits(Agent, "off", NoHandles)
  BY <1>2 DEF Fits, Leading, Using, Service, ClearSteps, Names
<1>4. names' \in [Names -> Nat] /\ \A n \in Sems : names'[n] = names[n]
  BY <1>0, <1>1, UserFacts DEF Sems, Names
<1>5. InRange(names', Len(sem), Len(queue), Len(state))
  BY <1>0, <1>1, <1>4, UserFacts, SMTT(20) DEF InRange, Names
<1>6. Moves(Agent, "off", NoHandles)
  <2>1. "off" \in Places
    BY DEF Places, Connecting
  <2> QED
    BY <1>0, <1>1, <1>2, <1>3, <1>4, <1>5, <2>1, UserFacts, HandMove, Zenon
<1>7. destroyed' # 0
  BY <1>1 DEF QueueInv, ShareInv
<1>8. Distinct'
  BY <1>4 DEF QueueInv, Distinct
<1> QED
  BY <1>0, <1>6, <1>7, <1>8, DestroyedStep

\* Somebody destroys the queue.
LEMMA CloseQueueLife ==
  ASSUME LifeInv, QueueInv, NEW p \in Users, CloseQueue(p, "closing"), UNCHANGED sessionVars
  PROVE  LifeInv' /\ QueueInv'
<1>1. /\ pc[p] = "closing" /\ Go(p, "unlink1") /\ hold' = hold /\ destroyed' = destroyed + 1
      /\ UNCHANGED <<scenario, names, sem, queue, doing, state, muddled>>
  BY DEF CloseQueue, Move, At, sessionVars, agentVars
<1>2. Fits(p, "unlink1", hold[p])
  <2>1. Fits(p, "closing", hold[p])
    BY <1>1 DEF LifeInv
  <2> QED
    BY <2>1 DEF Fits, Leading, Using, Service, ClearSteps
<1>3. Moves(p, "unlink1", hold[p])
  <2>1. "unlink1" \in Places
    BY DEF Places, Unlinking
  <2>2. hold' = [hold EXCEPT ![p] = hold[p]] /\ destroyed' \in Nat
    BY <1>1, UserFacts, SMT
  <2> QED
    BY <1>1, <1>2, <2>1, <2>2, UserFacts, HandMove, Zenon
<1>4. destroyed' # 0
  BY <1>1, UserFacts, SMT
<1>5. Distinct'
  BY <1>1 DEF QueueInv, Distinct
<1> QED
  BY <1>3, <1>4, <1>5, DestroyedStep

\* A name goes.
LEMMA UnlinkNextLife ==
  ASSUME LifeInv, QueueInv, NEW p \in Users, UnlinkNext(p), UNCHANGED sessionVars
  PROVE  LifeInv' /\ QueueInv'
<1>1. PICK place \in {"unlink2", "unlink3", "unlink4", "closed"}, n \in Names :
        /\ pc[p] \in Unlinking /\ Go(p, place) /\ names' = [names EXCEPT ![n] = 0]
        /\ hold' = LetGo(p) \/ hold' = hold
  <2>1. PICK s \in {<<"unlink1", "items", "unlink2">>, <<"unlink2", "space", "unlink3">>,
                    <<"unlink3", "ready", "unlink4">>, <<"unlink4", "queue", "closed">>} :
          /\ Move(p, s[1], s[3]) /\ Unlink(s[2])
          /\ hold' = IF s[3] = "unlink4" THEN LetGo(p) ELSE hold
    BY Zenon DEF UnlinkNext
  <2>2. /\ s[1] \in Unlinking /\ s[2] \in Names
        /\ s[3] \in {"unlink2", "unlink3", "unlink4", "closed"}
    BY <2>1, SMT DEF Unlinking, Names
  <2>3. /\ pc[p] = s[1] /\ Go(p, s[3]) /\ names' = [names EXCEPT ![s[2]] = 0]
        /\ hold' = LetGo(p) \/ hold' = hold
    BY <2>1, Zenon DEF Move, At, Unlink
  <2> QED
    BY <2>2, <2>3, Zenon
<1>2. UNCHANGED <<scenario, sem, queue, doing, state, destroyed, muddled>>
  BY DEF UnlinkNext, sessionVars, agentVars
<1>3. /\ names' \in [Names -> Nat] /\ \A m \in Names : names'[m] = IF m = n THEN 0 ELSE names[m]
      /\ Sems \subseteq Names /\ "queue" \in Names /\ "state" \in Names
  <2>1. names \in [Names -> Nat]
    BY UserFacts
  <2>2. names' \in [Names -> Nat] /\ \A m \in Names : names'[m] = IF m = n THEN 0 ELSE names[m]
    BY <1>1, <2>1, SMT
  <2>3. Sems \subseteq Names /\ "queue" \in Names /\ "state" \in Names
    BY DEF Sems, Names
  <2> QED
    BY <2>2, <2>3
<1>4. InRange(names', Len(sem), Len(queue), Len(state))
  <2>1. \A k \in Nat : 0 <= k
    BY SMT
  <2>2. Len(sem) \in Nat /\ Len(queue) \in Nat /\ Len(state) \in Nat
    BY UserFacts
  <2>3. InRange(names, Len(sem), Len(queue), Len(state))
    BY UserFacts
  <2> QED
    BY <1>3, <2>1, <2>2, <2>3, Zenon DEF InRange
<1>5. PICK h \in [Names -> Nat] :
        /\ hold' = [hold EXCEPT ![p] = h] /\ InRange(h, Len(sem), Len(queue), Len(state))
        /\ Fits(p, place, h)
  <2>1. CASE hold' = hold
    <3>1. Fits(p, place, hold[p])
      <4>1. Fits(p, pc[p], hold[p]) /\ pc[p] \in Unlinking
        BY <1>1, UserFacts
      <4> QED
        BY <1>1, <4>1 DEF Fits, Leading, Using, Service, ClearSteps, Unlinking
    <3> QED
      BY <2>1, <3>1, UserFacts, Zenon
  <2>2. CASE hold' = LetGo(p)
    <3>1. PICK h : h = LetGo(p)[p]
      BY Zenon
    <3>2. h \in [Names -> Nat] /\ InRange(h, Len(sem), Len(queue), Len(state))
          /\ \A m \in Names \ {"state"} : h[m] = 0
      BY <3>1, Closed
    <3>3. hold' = [hold EXCEPT ![p] = h]
      <4>1. hold \in [Users -> [Names -> Nat]]
        BY DEF LifeInv, LifeTypes
      <4> QED
        BY <2>2, <3>1, <4>1 DEF LetGo
    <3>4. Fits(p, place, h)
      BY <1>1, <3>2 DEF Fits, Leading, Using, Service, ClearSteps, Names
    <3> QED
      BY <3>2, <3>3, <3>4, Zenon
  <2> QED
    BY <1>1, <2>1, <2>2
<1>6. Moves(p, place, h)
  <2>1. place \in Places
    BY <1>1 DEF Places, Unlinking
  <2> QED
    BY <1>1, <1>2, <1>3, <1>4, <1>5, <2>1, UserFacts, HandMove, Zenon
<1>7. destroyed' # 0
  BY <1>1, <1>2 DEF QueueInv, ShareInv
<1>8. Distinct'
  BY <1>3 DEF QueueInv, Distinct
<1> QED
  BY <1>6, <1>7, <1>8, DestroyedStep

\* Places that ask for no more handles than the place before.
Onward(p, place) ==
  \/ p # Agent /\ pc[p] = "off" /\ place \in {"look", "new"}
  \/ p # Agent /\ pc[p] = "poll" /\ place = "new"
  \/ pc[p] \in {"look", "poll"} /\ place = "refused"
  \/ p # Agent /\ pc[p] = "waiting" /\ place \in {"woken", "closing"}
  \/ p # Agent /\ pc[p] = "woken" /\ place = "closing"
  \/ pc[p] \in {"lead", "follow", "getitems", "getspace"} /\ place = "raised"

\* A process that goes on to such a place keeps the handles it has.
LEMMA OnwardStep ==
  ASSUME LifeInv, QueueInv, NEW p \in Users, NEW place, Onward(p, place), Go(p, place),
         UNCHANGED <<scenario, names, sem, queue, hold, destroyed, muddled, doing, state>>
  PROVE  LifeInv' /\ QueueInv'
<1>1. Fits(p, pc[p], hold[p])
  BY UserFacts
<1>2. Fits(p, place, hold[p])
  BY <1>1, SMT DEF Fits, Onward, Leading, Using, Service, ClearSteps
<1>3. /\ place \in {"look", "new", "refused", "woken", "closing", "raised"}
      /\ pc[p] \in {"off", "look", "poll", "waiting", "woken", "lead", "follow", "getitems", "getspace"}
      /\ pc[p] \in {"off", "look", "poll"} => place \in {"look", "new", "refused"}
  BY SMT DEF Onward
<1>4. /\ place \in Places /\ place \notin ClearSteps \cup Leading \cup Unlinking
      /\ place # "closed" /\ pc[p] \notin ClearSteps
      /\ pc[p] \in Connecting => place \in Connecting
  BY <1>3, SMT DEF Places, ClearSteps, Leading, Unlinking, Connecting, Using
<1>5. doing' \in Users /\ state' \in Seq(File) /\ Len(state') = Len(state)
  BY UserFacts
<1> QED
  BY <1>2, <1>4, <1>5, PlainStep, Zenon

\* The steps of a client that leave the queue alone.
LEMMA ClientMoves ==
  ASSUME LifeInv, QueueInv, NEW c \in Clients,
         \/ StartClient(c) \/ PollHeartbeat(c) \/ Refuse(c)
         \/ Acquire(c) \/ ReadOutcome(c) \/ WaitTimeout(c)
  PROVE  LifeInv' /\ QueueInv'
<1>1. c \in Users /\ c # Agent
  BY UsersAssumption
<1>2. UNCHANGED <<scenario, names, sem, queue, hold, destroyed, muddled, doing, state>>
  BY Zenon DEF StartClient, PollHeartbeat, Refuse, Acquire, ReadOutcome, WaitTimeout,
               sessionVars, agentVars
<1>3. (\E place : Onward(c, place) /\ Go(c, place)) \/ UNCHANGED <<broken, pc>>
  <2>1. CASE StartClient(c)
    BY <1>1, <2>1 DEF StartClient, At, Onward
  <2>2. CASE PollHeartbeat(c)
    BY <1>1, <2>2 DEF PollHeartbeat, At, Onward
  <2>3. CASE Refuse(c)
    BY <1>1, <2>3 DEF Refuse, At, Onward
  <2>4. CASE Acquire(c) \/ ReadOutcome(c) \/ WaitTimeout(c)
    BY <1>1, <2>4 DEF Acquire, ReadOutcome, WaitTimeout, Move, At, Onward
  <2> QED
    BY <2>1, <2>2, <2>3, <2>4
<1>4. doing' \in Users /\ state' \in Seq(File) /\ Len(state') = Len(state)
  BY <1>1, <1>2, UserFacts
<1> QED
  BY <1>1, <1>2, <1>3, <1>4, OnwardStep, SameLife, Zenon DEF lifeVars

\* A client looks for the state file.
LEMMA FindStateLife ==
  ASSUME LifeInv, QueueInv, NEW c \in Clients, FindState(c)
  PROVE  LifeInv' /\ QueueInv'
<1>1. c \in Users /\ c # Agent
  BY UsersAssumption
<1>2. UNCHANGED <<scenario, names, sem, queue, broken, destroyed, muddled, doing, state>>
  BY DEF FindState, agentVars
<1>3. CASE Go(c, "poll") /\ Open(c, "state")
  <2>1. Fits(c, "look", hold[c]) /\ pc[c] = "look"
    BY <1>1, UserFacts DEF FindState, At
  <2>2. ASSUME NEW h \in [Names -> Nat], \A m \in Names : m # "state" => h[m] = hold[c][m]
        PROVE  Fits(c, "poll", h)
    BY <1>1, <2>1, <2>2 DEF Fits, Names, Leading, Using, Service, ClearSteps
  <2>3. /\ "poll" \in Places /\ "poll" \notin ClearSteps \cup Leading \cup Unlinking
        /\ "look" \notin ClearSteps /\ "poll" \in Connecting /\ "state" \in Names
    BY DEF Places, ClearSteps, Leading, Unlinking, Connecting, Names
  <2> QED
    BY <1>1, <1>2, <1>3, <2>1, <2>2, <2>3, OpenStep, Zenon
<1>4. CASE UNCHANGED <<pc, hold>>
  <2>1. doing' \in Users /\ state' \in Seq(File) /\ Len(state') = Len(state)
    BY <1>1, <1>2, UserFacts
  <2> QED
    BY <1>2, <1>4, <2>1, SameLife, Zenon DEF lifeVars
<1> QED
  BY <1>3, <1>4 DEF FindState

\* Time passes.
LEMMA TickLife ==
  ASSUME LifeInv, QueueInv, Tick
  PROVE  LifeInv' /\ QueueInv'
<1>0. Agent \in Users
  BY UsersAssumption
<1>1. UNCHANGED <<scenario, lifeVars>> /\ doing' = doing
  BY DEF Tick
<1>2. ASSUME NEW s \in 1..Len(state), NEW f,
             f = [age |-> Older(state[s].age, Fresh),
                  errors |-> [c \in Clients |-> IF state[s].errors[c] = Gone THEN Gone
                                                ELSE Older(state[s].errors[c], Ttl + 1)]]
      PROVE  f \in File
  <2>1. state[s] \in File
    BY <1>0, UserFacts, SMT
  <2>2. state[s].age \in Nat /\ state[s].errors \in [Clients -> Nat]
    BY <2>1 DEF File
  <2>3. \A a, cap : a \in Nat => Older(a, cap) \in Nat
    BY SMT DEF Older
  <2>4. Gone \in Nat
    BY ScenarioAssumption, SMT DEF Gone
  <2>5. PICK e : e = [c \in Clients |-> IF state[s].errors[c] = Gone THEN Gone
                                        ELSE Older(state[s].errors[c], Ttl + 1)]
    BY Zenon
  <2>6. e \in [Clients -> Nat]
    BY <2>2, <2>3, <2>4, <2>5, Zenon
  <2>7. f = [age |-> Older(state[s].age, Fresh), errors |-> e]
    BY <1>2, <2>5, Zenon
  <2> QED
    BY <2>2, <2>3, <2>6, <2>7 DEF File
<1>3. state' \in Seq(File) /\ Len(state') = Len(state)
  <2>1. PICK F : F = [s \in 1..Len(state) |->
                       [age |-> Older(state[s].age, Fresh),
                        errors |-> [c \in Clients |-> IF state[s].errors[c] = Gone THEN Gone
                                                ELSE Older(state[s].errors[c], Ttl + 1)]]]
    BY Zenon
  <2>2. DOMAIN state = 1..Len(state) /\ Len(state) \in Nat
    BY <1>0, UserFacts, SMT
  <2>3. state' = F
    BY <2>1, <2>2, Zenon DEF Tick
  <2>4. F \in [1..Len(state) -> File]
    BY <1>2, <2>1, Zenon
  <2> QED
    BY <2>2, <2>3, <2>4, SMT
<1> QED
  BY <1>0, <1>1, <1>3, UserFacts, SameLife, Zenon

\* The agent opens its state file, and is in service.
LEMMA OpenStateLife ==
  ASSUME LifeInv, QueueInv, OpenState
  PROVE  LifeInv' /\ QueueInv'
<1>0. Agent \in Users
  BY UsersAssumption
<1>1. /\ pc[Agent] = "up" /\ Go(Agent, "loop")
      /\ UNCHANGED <<scenario, sem, queue, destroyed, muddled, doing>>
  BY DEF OpenState, Move, At
<1>2. PICK k \in Nat : /\ k # 0 /\ k <= Len(state') /\ state' \in Seq(File) /\ Len(state) <= Len(state')
                       /\ names' \in [Names -> Nat] /\ names'["state"] = k
                       /\ \A n \in Names \ {"state"} : names'[n] = names[n]
                       /\ hold' = [hold EXCEPT ![Agent]["state"] = k]
  <2>1. /\ names \in [Names -> Nat] /\ names["state"] <= Len(state) /\ "state" \in Names
        /\ state \in Seq(File) /\ Len(state) \in Nat
    BY <1>0, UserFacts DEF InRange, Names
  <2>2. CASE names["state"] # 0
    <3>1. state' = [state EXCEPT ![names["state"]].age = 0] /\ names' = names
          /\ hold' = [hold EXCEPT ![Agent]["state"] = names["state"]]
      BY <2>2 DEF OpenState, Open
    <3>2. PICK k \in 1..Len(state) : k = names["state"]
      BY <2>1, <2>2, SMT
    <3>3. state[k] \in File
      BY <2>1, <3>2, SMT
    <3>4. PICK v : v = [state[k] EXCEPT !.age = 0]
      BY Zenon
    <3>5. v \in File
      BY <3>3, <3>4 DEF File
    <3>6. state' = [state EXCEPT ![k] = v]
      BY <3>1, <3>2, <3>4
    <3>7. state' \in Seq(File) /\ Len(state') = Len(state)
      BY <3>2, <3>5, <3>6, StateUpdate, Zenon
    <3>8. k \in Nat /\ k # 0 /\ k <= Len(state') /\ Len(state) <= Len(state')
      BY <2>1, <3>2, <3>7, SMT
    <3> QED
      BY <2>1, <3>1, <3>2, <3>7, <3>8, Zenon
  <2>3. CASE names["state"] = 0
    <3>1. /\ state' = Append(state, [age |-> 0, errors |-> NoErrors])
          /\ names' = [names EXCEPT !["state"] = Len(state) + 1]
          /\ hold' = [hold EXCEPT ![Agent]["state"] = Len(state) + 1]
      BY <2>3 DEF OpenState
    <3>2. Gone \in Nat
      BY ScenarioAssumption, SMT DEF Gone
    <3>3. NoErrors \in [Clients -> Nat]
      BY <3>2 DEF NoErrors
    <3>4. PICK v \in File : v = [age |-> 0, errors |-> NoErrors]
      BY <3>3 DEF File
    <3>5. state' \in Seq(File) /\ Len(state') = Len(state) + 1
      BY <2>1, <3>1, <3>4, SMT
    <3>6. PICK k \in Nat : k = Len(state) + 1
      BY <2>1
    <3>7. k # 0 /\ k <= Len(state') /\ Len(state) <= Len(state')
      BY <2>1, <3>5, <3>6, SMT
    <3>8. /\ names' \in [Names -> Nat] /\ names'["state"] = k
          /\ \A n \in Names \ {"state"} : names'[n] = names[n]
      BY <2>1, <3>1, <3>6, SMT
    <3> QED
      BY <3>1, <3>5, <3>6, <3>7, <3>8, Zenon
  <2> QED
    BY <2>2, <2>3
<1>3. PICK h : h = [hold[Agent] EXCEPT !["state"] = k]
  BY Zenon
<1>4. /\ hold' = [hold EXCEPT ![Agent] = h] /\ h \in [Names -> Nat] /\ h["state"] = k
      /\ \A m \in Names : m # "state" => h[m] = hold[Agent][m]
  <2>1. hold[Agent] \in [Names -> Nat] /\ hold \in [Users -> [Names -> Nat]] /\ "state" \in Names
    BY <1>0 DEF LifeInv, LifeTypes, Names
  <2> QED
    BY <1>0, <1>2, <1>3, <2>1, SMT
<1>5. Sems \subseteq Names \ {"state"} /\ "queue" \in Names \ {"state"} /\ "state" \in Names
  BY DEF Sems, Names
<1>6. InRange(h, Len(sem'), Len(queue'), Len(state'))
  BY <1>0, <1>1, <1>2, <1>4, <1>5, UserFacts DEF InRange
<1>7. InRange(names', Len(sem'), Len(queue'), Len(state'))
  BY <1>0, <1>1, <1>2, <1>5, UserFacts DEF InRange
<1>8. Fits(Agent, "loop", h)
  <2>1. Fits(Agent, "up", hold[Agent])
    BY <1>0, <1>1, UserFacts
  <2> QED
    BY <1>2, <1>4, <2>1 DEF Fits, Names, Leading, Using, Service, ClearSteps
<1>9. Moves(Agent, "loop", h)
  <2>1. "loop" \in Places
    BY DEF Places, Using, Service
  <2>2. Len(sem) <= Len(sem') /\ Len(queue) <= Len(queue')
    BY <1>0, <1>1, UserFacts, SMT
  <2> QED
    BY <1>0, <1>1, <1>2, <1>4, <1>6, <1>7, <1>8, <2>1, <2>2, UserFacts, Zenon DEF Moves, Go
<1>10. pc[Agent] \notin ClearSteps \cup Connecting
       /\ "loop" \notin ClearSteps \cup Leading \cup Unlinking /\ "loop" # "closed"
  BY <1>1 DEF ClearSteps, Leading, Unlinking, Connecting
<1>11. destroyed = 0 => /\ \A n \in Names \ {"state"} : h[n] \in {0, names[n]}
                        /\ names["ready"] = 0 => "loop" \in Connecting
  BY <1>0, <1>4, <1>10 DEF QueueInv, ShareInv
<1> QED
  BY <1>0, <1>1, <1>2, <1>9, <1>10, <1>11, AsideStep, Zenon

\* A bare user lets go.
LEMMA CloseHandlesLife ==
  ASSUME LifeInv, QueueInv, NEW p \in Users, p # Agent, CloseHandles(p, "cleared"),
         UNCHANGED sessionVars
  PROVE  LifeInv' /\ QueueInv'
<1>1. /\ pc[p] = "cleared" /\ Go(p, "closed") /\ hold' = LetGo(p)
      /\ UNCHANGED <<scenario, names, sem, queue, doing, state, destroyed, muddled>>
  BY DEF CloseHandles, Move, At, sessionVars, agentVars
<1>2. PICK h : h = LetGo(p)[p]
  BY Zenon
<1>3. h \in [Names -> Nat] /\ InRange(h, Len(sem), Len(queue), Len(state))
      /\ \A m \in Names \ {"state"} : h[m] = 0
  BY <1>2, Closed
<1>4. hold' = [hold EXCEPT ![p] = h]
  <2>1. hold \in [Users -> [Names -> Nat]]
    BY DEF LifeInv, LifeTypes
  <2> QED
    BY <1>1, <1>2, <2>1 DEF LetGo
<1>5. Fits(p, "closed", h)
  BY <1>3 DEF Fits, Leading, Using, Service, ClearSteps, Names
<1>6. /\ "closed" \in Places /\ "closed" \notin ClearSteps \cup Leading \cup Unlinking
      /\ pc[p] \notin ClearSteps \cup Connecting
  BY <1>1 DEF Places, ClearSteps, Leading, Unlinking, Connecting
<1>7. Moves(p, "closed", h)
  BY <1>1, <1>3, <1>4, <1>5, <1>6, UserFacts, HandMove, Zenon
<1>8. destroyed = 0 => names["ready"] # 0
  BY <1>6 DEF QueueInv, ShareInv
<1> QED
  BY <1>1, <1>3, <1>6, <1>7, <1>8, AsideStep

-----------------------------------------------------------------------------
(* One queue: the constructor *)

\* A leader that cannot open LMDB.
LEMMA LeaderFailsLife ==
  ASSUME LifeInv, QueueInv, NEW p \in Users, LeaderFails(p), UNCHANGED sessionVars
  PROVE  LifeInv' /\ QueueInv'
<1>1. Onward(p, "raised") /\ Go(p, "raised")
  BY DEF LeaderFails, Move, At, Onward
<1>2. UNCHANGED <<scenario, names, sem, queue, hold, destroyed, muddled, doing, state>>
  BY DEF LeaderFails, sessionVars, agentVars
<1> QED
  BY <1>1, <1>2, OnwardStep, Zenon

\* A follower opens the ready semaphore.
LEMMA FollowLife ==
  ASSUME LifeInv, QueueInv, NEW p \in Users, Follow(p), UNCHANGED sessionVars
  PROVE  LifeInv' /\ QueueInv'
<1>1. /\ pc[p] = "follow"
      /\ UNCHANGED <<scenario, names, sem, queue, destroyed, muddled, doing, state>>
  BY DEF Follow, At, sessionVars, agentVars
<1>2. CASE Go(p, "raised") /\ UNCHANGED hold
  <2>1. Onward(p, "raised")
    BY <1>1 DEF Onward
  <2> QED
    BY <1>1, <1>2, <2>1, OnwardStep, Zenon
<1>3. CASE names["ready"] # 0 /\ Go(p, "wait") /\ Open(p, "ready")
  <2>1. Fits(p, "follow", hold[p])
    BY <1>1, UserFacts
  <2>2. ASSUME NEW h \in [Names -> Nat], h["ready"] = names["ready"],
               \A m \in Names : m # "ready" => h[m] = hold[p][m]
        PROVE  Fits(p, "wait", h)
    BY <1>3, <2>1, <2>2 DEF Fits, Names, Leading, Using, Service, ClearSteps
  <2>3. /\ "wait" \in Places /\ "wait" \notin ClearSteps \cup Leading \cup Unlinking
        /\ "follow" \notin ClearSteps /\ "ready" \in Names
    BY DEF Places, ClearSteps, Leading, Unlinking, Following, Names
  <2> QED
    BY <1>1, <1>3, <2>2, <2>3, OpenStep, Zenon
<1> QED
  BY <1>2, <1>3 DEF Follow

\* A follower opens the other semaphores.
LEMMA GetSemaphoreLife ==
  ASSUME LifeInv, QueueInv, NEW p \in Users, GetSemaphore(p), UNCHANGED sessionVars
  PROVE  LifeInv' /\ QueueInv'
<1>1. UNCHANGED <<scenario, names, sem, queue, destroyed, muddled, doing, state>>
  BY DEF GetSemaphore, sessionVars, agentVars
<1>2. PICK s \in {<<"getitems", "items", "getspace">>, <<"getspace", "space", "up">>} :
        /\ At(p, s[1])
        /\ IF names[s[2]] = 0 THEN Go(p, "raised") /\ UNCHANGED hold
           ELSE Go(p, s[3]) /\ Open(p, s[2])
  BY Zenon DEF GetSemaphore
<1>3. \/ s[1] = "getitems" /\ s[2] = "items" /\ s[3] = "getspace"
      \/ s[1] = "getspace" /\ s[2] = "space" /\ s[3] = "up"
  BY <1>2, SMT
<1>4. CASE names[s[2]] = 0
  <2>1. Onward(p, "raised") /\ Go(p, "raised") /\ UNCHANGED hold
    BY <1>2, <1>3, <1>4 DEF Onward, At
  <2> QED
    BY <1>1, <2>1, OnwardStep, Zenon
<1>5. CASE names[s[2]] # 0
  <2>1. Fits(p, s[1], hold[p]) /\ pc[p] = s[1] /\ Go(p, s[3]) /\ Open(p, s[2])
    BY <1>2, <1>5, UserFacts DEF At
  <2>2. ASSUME NEW h \in [Names -> Nat], h[s[2]] = names[s[2]],
               \A m \in Names : m # s[2] => h[m] = hold[p][m]
        PROVE  Fits(p, s[3], h)
    <3>1. h[s[2]] # 0
      BY <1>5, <2>2
    <3>2. CASE s[1] = "getitems" /\ s[2] = "items" /\ s[3] = "getspace"
      BY <2>1, <2>2, <3>1, <3>2 DEF Fits, Names, Leading, Using, Service, ClearSteps
    <3>3. CASE s[1] = "getspace" /\ s[2] = "space" /\ s[3] = "up"
      BY <2>1, <2>2, <3>1, <3>3 DEF Fits, Names, Leading, Using, Service, ClearSteps
    <3> QED
      BY <1>3, <3>2, <3>3
  <2>3. /\ s[3] \in Places /\ s[3] \notin ClearSteps \cup Leading \cup Unlinking
        /\ s[3] # "closed" /\ s[1] \notin ClearSteps \cup Connecting /\ s[2] \in Names
    BY <1>3 DEF Places, ClearSteps, Leading, Unlinking, Following, Using, Connecting, Names
  <2> QED
    BY <1>1, <2>1, <2>2, <2>3, OpenStep, Zenon
<1> QED
  BY <1>4, <1>5

\* An up or down of a ready semaphore does not touch the two others.
LEMMA ReadyStep ==
  ASSUME LifeInv, QueueInv, NEW p \in Users, NEW place \in Places, Go(p, place), NEW v \in Int,
         sem' = [sem EXCEPT ![hold[p]["ready"]] = v], hold[p]["ready"] # 0,
         UNCHANGED <<scenario, names, queue, hold, destroyed, muddled, doing, state>>,
         Fits(p, place, hold[p]), pc[p] \notin ClearSteps \cup Connecting,
         place \notin ClearSteps \cup Leading \cup Unlinking, place # "closed"
  PROVE  LifeInv' /\ QueueInv'
<1>1. hold[p]["ready"] \in 1..Len(sem)
  BY SemaphoreThere, Zenon DEF Sems
<1>2. /\ sem' \in Seq(Int) /\ Len(sem') = Len(sem)
      /\ \A j \in 1..Len(sem) : j # hold[p]["ready"] => sem'[j] = sem[j]
  <2>1. sem \in Seq(Int)
    BY UserFacts
  <2> QED
    BY <1>1, <2>1, SMT
<1>3. Moves(p, place, hold[p])
  <2>1. /\ Len(sem) <= Len(sem') /\ Len(queue) <= Len(queue') /\ Len(state) <= Len(state')
    BY <1>2, UserFacts, SMT
  <2>2. /\ InRange(hold[p], Len(sem'), Len(queue'), Len(state'))
        /\ InRange(names', Len(sem'), Len(queue'), Len(state'))
    BY <1>2, UserFacts, Zenon
  <2> QED
    BY <1>2, <2>1, <2>2, UserFacts, Zenon DEF Moves, Go
<1>4. ASSUME destroyed = 0
      PROVE  /\ \A n \in Names \ {"state"} : hold[p][n] \in {0, names[n]}
             /\ names["ready"] # 0
             /\ \A n \in {"items", "space"} : names[n] # 0 => sem'[names[n]] = sem[names[n]]
  <2>1. ShareInv /\ Distinct
    BY <1>4 DEF QueueInv
  <2>2. \A n \in Names \ {"state"} : hold[p][n] \in {0, names[n]}
    BY <2>1 DEF ShareInv
  <2>3. hold[p]["ready"] = names["ready"]
    BY <2>2 DEF Names
  <2>4. ASSUME NEW n \in {"items", "space"}, names[n] # 0
        PROVE  names[n] # hold[p]["ready"] /\ names[n] \in 1..Len(sem)
    <3>1. names[n] # hold[p]["ready"]
      BY <2>1, <2>3, <2>4 DEF Distinct, Sems
    <3>2. names[n] \in Nat /\ names[n] <= Len(sem)
      BY UserFacts DEF InRange, Sems, Names
    <3> QED
      BY <2>4, <3>1, <3>2, UserFacts, SMT
  <2> QED
    BY <1>2, <2>2, <2>3, <2>4
<1> QED
  BY <1>3, <1>4, AsideStep, Zenon

\* The door is opened, and passed through.
LEMMA DoorLife ==
  ASSUME LifeInv, QueueInv, NEW p \in Users, Announce(p) \/ WaitReady(p), UNCHANGED sessionVars
  PROVE  LifeInv' /\ QueueInv'
<1>1. UNCHANGED <<scenario, names, queue, hold, destroyed, muddled, doing, state>>
  BY DEF Announce, WaitReady, sessionVars, agentVars
<1>2. PICK place : /\ Go(p, place)
                   /\ \/ pc[p] = "announce" /\ place = "up"
                      \/ pc[p] = "pass" /\ place = "open"
                      \/ pc[p] = "wait" /\ place = "pass"
  BY DEF Announce, WaitReady, Move, At
<1>3. Fits(p, pc[p], hold[p])
  BY UserFacts
<1>4. hold[p]["ready"] # 0 /\ Fits(p, place, hold[p])
  BY <1>2, <1>3, SMT DEF Fits, Leading, Using, Service, ClearSteps
<1>5. PICK v \in Int : sem' = [sem EXCEPT ![hold[p]["ready"]] = v]
  <2>1. hold[p]["ready"] \in 1..Len(sem)
    BY <1>4, SemaphoreThere, Zenon DEF Sems
  <2>2. sem \in Seq(Int)
    BY UserFacts
  <2>3. sem[hold[p]["ready"]] \in Int
    BY <2>1, <2>2, SMT
  <2>4. sem[hold[p]["ready"]] + 1 \in Int /\ sem[hold[p]["ready"]] - 1 \in Int
    BY <2>3
  <2>5. \/ sem' = [sem EXCEPT ![hold[p]["ready"]] = @ + 1]
        \/ sem' = [sem EXCEPT ![hold[p]["ready"]] = @ - 1]
    BY DEF Announce, WaitReady
  <2> QED
    BY <2>4, <2>5
<1>6. /\ place \in Places /\ place \notin ClearSteps \cup Leading \cup Unlinking
      /\ place # "closed" /\ pc[p] \notin ClearSteps \cup Connecting
  BY <1>2 DEF Places, ClearSteps, Leading, Unlinking, Following, Using, Connecting
<1> QED
  BY <1>1, <1>2, <1>4, <1>5, <1>6, ReadyStep, Zenon

\* The object k gets the name n, and process p opens it.
Gets(p, n, k) == names' = [names EXCEPT ![n] = k] /\ hold' = [hold EXCEPT ![p][n] = k]

\* What there is then.
LEMMA Named ==
  ASSUME LifeInv, NEW p \in Users, NEW n \in Names, NEW k \in Nat, Gets(p, n, k)
  PROVE  \E h \in [Names -> Nat] :
           /\ names' \in [Names -> Nat] /\ names'[n] = k
           /\ \A m \in Names : m # n => names'[m] = names[m]
           /\ hold' = [hold EXCEPT ![p] = h] /\ h[n] = k
           /\ \A m \in Names : m # n => h[m] = hold[p][m]
<1>1. names \in [Names -> Nat] /\ hold[p] \in [Names -> Nat]
  BY UserFacts
<1>2. hold \in [Users -> [Names -> Nat]]
  BY DEF LifeInv, LifeTypes
<1>3. PICK h : h = [hold[p] EXCEPT ![n] = k]
  BY Zenon
<1>4. /\ names' \in [Names -> Nat] /\ names'[n] = k
      /\ \A m \in Names : m # n => names'[m] = names[m]
  BY <1>1, SMT DEF Gets
<1>5. h \in [Names -> Nat] /\ h[n] = k /\ \A m \in Names : m # n => h[m] = hold[p][m]
  BY <1>1, <1>3, SMT
<1>6. hold' = [hold EXCEPT ![p] = h]
  BY <1>2, <1>3, SMT DEF Gets
<1> QED
  BY <1>4, <1>5, <1>6, Zenon

\* Names stay in range when n is named k and the objects become no fewer.
LEMMA StillInRange ==
  ASSUME NEW h \in [Names -> Nat], NEW g \in [Names -> Nat], NEW n \in Names,
         \A m \in Names : m # n => h[m] = g[m],
         NEW a \in Nat, NEW b \in Nat, NEW c \in Nat, NEW a2 \in Nat, NEW b2 \in Nat, NEW c2 \in Nat,
         InRange(g, a, b, c), a <= a2, b <= b2, c <= c2,
         n \in Sems => h[n] <= a2, n = "queue" => h[n] <= b2, n = "state" => h[n] <= c2
  PROVE  InRange(h, a2, b2, c2)
<1>1. Sems \subseteq Names /\ "queue" \in Names /\ "state" \in Names
  BY DEF Sems, Names
<1>2. \A i, j, k \in Nat : i <= j /\ j <= k => i <= k
  BY SMT
<1>3. \A m \in Names : g[m] \in Nat
  BY Zenon
<1> QED
  BY <1>1, <1>2, <1>3, Zenon DEF InRange

\* The leader, or a follower, opens LMDB.
LEMMA LmdbLife ==
  ASSUME LifeInv, QueueInv, NEW p \in Users, LeaderOpens(p) \/ FollowerOpens(p),
         UNCHANGED sessionVars
  PROVE  LifeInv' /\ QueueInv'
<1>1. UNCHANGED <<scenario, sem, destroyed, muddled, doing, state>>
  BY DEF LeaderOpens, FollowerOpens, sessionVars, agentVars
<1>2. PICK place : /\ Go(p, place) /\ OpenLmdb(p)
                   /\ \/ pc[p] = "lead" /\ place = "items"
                      \/ pc[p] = "open" /\ place = "getitems"
  BY DEF LeaderOpens, FollowerOpens, Move, At
<1>3. /\ names \in [Names -> Nat] /\ queue \in Seq(Seq(Users)) /\ Len(queue) \in Nat
      /\ names["queue"] <= Len(queue) /\ names["queue"] \in Nat /\ "queue" \in Names
  BY UserFacts DEF InRange, Names
<1>4. PICK k \in Nat :
        /\ k # 0 /\ k <= Len(queue') /\ queue' \in Seq(Seq(Users)) /\ Len(queue) <= Len(queue')
        /\ Len(queue') \in Nat
        /\ Gets(p, "queue", k)
        /\ \/ names["queue"] # 0 /\ k = names["queue"] /\ queue' = queue
           \/ names["queue"] = 0 /\ queue'[k] = <<>>
  <2>1. CASE names["queue"] # 0
    <3>1. hold' = [hold EXCEPT ![p]["queue"] = names["queue"]] /\ names' = names /\ queue' = queue
      BY <1>2, <2>1 DEF OpenLmdb, Open
    <3>2. Gets(p, "queue", names["queue"])
      BY <1>3, <3>1 DEF Gets
    <3> QED
      BY <1>3, <2>1, <3>1, <3>2
  <2>2. CASE names["queue"] = 0
    <3>1. /\ queue' = Append(queue, <<>>) /\ names' = [names EXCEPT !["queue"] = Len(queue) + 1]
          /\ hold' = [hold EXCEPT ![p]["queue"] = Len(queue) + 1]
      BY <1>2, <2>2 DEF OpenLmdb
    <3>2. PICK k \in Nat : k = Len(queue) + 1
      BY <1>3, SMT
    <3>3. <<>> \in Seq(Users)
      BY SMT
    <3>4. queue' \in Seq(Seq(Users)) /\ Len(queue') = Len(queue) + 1 /\ queue'[Len(queue) + 1] = <<>>
      BY <1>3, <3>1, <3>3, SMT
    <3>5. k # 0 /\ k <= Len(queue') /\ Len(queue) <= Len(queue') /\ Len(queue') \in Nat
      BY <1>3, <3>2, <3>4, SMT
    <3>6. Gets(p, "queue", k)
      BY <3>1, <3>2 DEF Gets
    <3> QED
      BY <2>2, <3>2, <3>4, <3>5, <3>6, Zenon
  <2> QED
    BY <2>1, <2>2
<1>5. PICK h \in [Names -> Nat] :
        /\ names' \in [Names -> Nat] /\ names'["queue"] = k
        /\ \A m \in Names : m # "queue" => names'[m] = names[m]
        /\ hold' = [hold EXCEPT ![p] = h] /\ h["queue"] = k
        /\ \A m \in Names : m # "queue" => h[m] = hold[p][m]
  BY <1>3, <1>4, Named, Zenon
<1>6. /\ InRange(h, Len(sem), Len(queue'), Len(state))
      /\ InRange(names', Len(sem), Len(queue'), Len(state))
  <2>1. "queue" \notin Sems /\ "queue" # "state"
    BY DEF Sems
  <2>2. Len(sem) <= Len(sem) /\ Len(state) <= Len(state)
    BY UserFacts, SMT
  <2>3. /\ InRange(hold[p], Len(sem), Len(queue), Len(state)) /\ hold[p] \in [Names -> Nat]
        /\ InRange(names, Len(sem), Len(queue), Len(state))
        /\ Len(sem) \in Nat /\ Len(state) \in Nat
    BY UserFacts
  <2>4. h["queue"] <= Len(queue') /\ names'["queue"] <= Len(queue')
    BY <1>4, <1>5, Zenon
  <2>5. Len(queue) <= Len(queue') /\ Len(queue') \in Nat
    BY <1>4
  <2>6. \A m \in Names : m # "queue" => h[m] = hold[p][m]
    BY <1>5
  <2>7. names' \in [Names -> Nat] /\ \A m \in Names : m # "queue" => names'[m] = names[m]
    BY <1>5
  <2>8. InRange(h, Len(sem), Len(queue'), Len(state))
    BY <1>3, <2>1, <2>2, <2>3, <2>4, <2>5, <2>6, StillInRange, Zenon
  <2>9. InRange(names', Len(sem), Len(queue'), Len(state))
    BY <1>3, <2>1, <2>2, <2>3, <2>4, <2>5, <2>7, StillInRange, Zenon
  <2> QED
    BY <2>8, <2>9
<1>7. Fits(p, place, h)
  <2>1. Fits(p, pc[p], hold[p])
    BY UserFacts
  <2> QED
    BY <1>2, <1>4, <1>5, <2>1 DEF Fits, Names, Leading, Using, Service, ClearSteps
<1>8. /\ place \in Places /\ place \notin ClearSteps \cup Unlinking \cup Connecting /\ place # "closed"
      /\ pc[p] \notin ClearSteps \cup Connecting /\ (place \in Leading => pc[p] \in Leading)
      /\ place # "space" /\ (place \in {"lead", "items"} => pc[p] = "lead")
  BY <1>2 DEF Places, ClearSteps, Leading, Unlinking, Following, Connecting
<1>9. Moves(p, place, h)
  <2>1. Len(sem) <= Len(sem') /\ Len(state) <= Len(state')
    BY <1>1, UserFacts, SMT
  <2> QED
    BY <1>1, <1>2, <1>4, <1>5, <1>6, <1>7, <1>8, <2>1, UserFacts, Zenon DEF Moves, Go
<1>10. \A n \in Sems : names'[n] = names[n]
  BY <1>5 DEF Sems, Names
<1>11. Distinct'
  BY <1>10 DEF QueueInv, Distinct
<1>12. ASSUME destroyed = 0 PROVE ShareInv'
  <2>1. ShareInv /\ names["ready"] # 0
    BY <1>8, <1>12 DEF QueueInv, ShareInv
  <2>2. names'["ready"] = names["ready"] /\ names'["items"] = names["items"]
        /\ names'["space"] = names["space"]
    BY <1>10 DEF Sems
  <2>3. \A n \in Names \ {"state"} : names[n] # 0 => names'[n] = names[n]
    BY <1>4, <1>5
  <2>4. \A n \in Names \ {"state"} : h[n] \in {0, names'[n]}
    BY <1>5, <2>1 DEF ShareInv
  <2>5. place \in {"lead", "items"} => names'["items"] = 0 /\ names'["space"] = 0
    BY <1>8, <2>1, <2>2 DEF ShareInv
  <2> QED
    BY <1>8, <1>9, <2>1, <2>2, <2>3, <2>4, <2>5, ShareStep, Zenon
<1>13. ASSUME destroyed = 0, ~muddled PROVE TokenInv'
  <2>1. ShareInv /\ TokenInv
    BY <1>13 DEF QueueInv
  <2>2. CASE names["queue"] # 0
    <3>1. \A n \in {"items", "space", "queue"} : names'[n] = names[n]
      BY <1>4, <1>5, <2>2 DEF Names
    <3>2. queue' = queue /\ sem' = sem
      BY <1>1, <1>4, <2>2
    <3> QED
      BY <1>8, <1>9, <2>1, <3>1, <3>2, TokenStep, Zenon DEF Messages
  <2>3. CASE names["queue"] = 0
    <3>1. /\ names'["items"] = 0 /\ names'["space"] = 0 /\ names'["queue"] # 0
          /\ names["items"] = 0
      BY <1>4, <1>10, <2>1, <2>3, <1>5 DEF Sems, TokenInv
    <3>2. \A q \in Users : pc[q] \notin ClearSteps
      BY <2>1, <3>1, UserNames DEF Using
    <3>3. \A q \in Users : pc'[q] \notin ClearSteps
      BY <1>2, <1>8, <3>2 DEF Go, LifeInv, LifeTypes
    <3>4. Len(Messages') = 0 /\ 0 <= Capacity
      <4>1. Messages' = <<>>
        BY <1>4, <1>5, <2>3 DEF Messages
      <4> QED
        BY <4>1, ScenarioAssumption, SMT
    <3> QED
      BY <3>1, <3>3, <3>4 DEF TokenInv
  <2> QED
    BY <2>2, <2>3
<1> QED
  BY <1>1, <1>9, <1>11, <1>12, <1>13, LifeStep, Zenon DEF QueueInv

\* There is a semaphore k with the name n and the count v, which p has open among its handles h.
NewSem(p, n, v, k, h) ==
  /\ k # 0 /\ Distinct' /\ sem' \in Seq(Int) /\ Len(sem) <= Len(sem') /\ sem'[k] = v
  /\ \A j \in 1..Len(sem) : sem'[j] = sem[j]
  /\ names' \in [Names -> Nat] /\ names'[n] = k
  /\ \A m \in Names : m # n => names'[m] = names[m]
  /\ hold' = [hold EXCEPT ![p] = h] /\ h[n] = k
  /\ \A m \in Names : m # n => h[m] = hold[p][m]
  /\ InRange(h, Len(sem'), Len(queue'), Len(state'))
  /\ InRange(names', Len(sem'), Len(queue'), Len(state'))

\* A new semaphore.
LEMMA Created ==
  ASSUME LifeInv, Distinct, NEW p \in Users, NEW n \in Sems, NEW v \in Int, Create(p, n, v),
         UNCHANGED <<queue, state>>
  PROVE  \E k \in Nat, h \in [Names -> Nat] : NewSem(p, n, v, k, h)
<1>1. sem \in Seq(Int) /\ Len(sem) \in Nat /\ sem' = Append(sem, v)
  BY UserFacts DEF Create
<1>2. PICK k \in Nat : k = Len(sem) + 1
  BY <1>1, SMT
<1>3. /\ sem' \in Seq(Int) /\ Len(sem') = k /\ sem'[k] = v
      /\ \A j \in 1..Len(sem) : sem'[j] = sem[j]
  BY <1>1, <1>2, SMT
<1>4. k # 0 /\ Len(sem) <= k /\ k <= k /\ \A j \in Nat : j <= Len(sem) => j # k
  BY <1>1, <1>2, SMT
<1>5. n \in Names /\ n # "queue" /\ n # "state" /\ Sems \subseteq Names
  BY DEF Sems, Names
<1>6. Gets(p, n, k)
  BY <1>2 DEF Create, Gets
<1>7. PICK h \in [Names -> Nat] :
        /\ names' \in [Names -> Nat] /\ names'[n] = k
        /\ \A m \in Names : m # n => names'[m] = names[m]
        /\ hold' = [hold EXCEPT ![p] = h] /\ h[n] = k
        /\ \A m \in Names : m # n => h[m] = hold[p][m]
  BY <1>5, <1>6, Named, Zenon
<1>8. /\ InRange(hold[p], Len(sem), Len(queue), Len(state)) /\ hold[p] \in [Names -> Nat]
      /\ InRange(names, Len(sem), Len(queue), Len(state)) /\ names \in [Names -> Nat]
      /\ Len(queue) \in Nat /\ Len(state) \in Nat
  BY UserFacts
<1>9. Len(queue) <= Len(queue) /\ Len(state) <= Len(state) /\ h[n] <= k /\ names'[n] <= k
  BY <1>4, <1>7, <1>8
<1>10. InRange(h, k, Len(queue), Len(state))
  <2>1. \A m \in Names : m # n => h[m] = hold[p][m]
    BY <1>7
  <2> QED
    BY <1>1, <1>4, <1>5, <1>8, <1>9, <2>1, StillInRange, Zenon
<1>11. InRange(names', k, Len(queue), Len(state))
  <2>1. names' \in [Names -> Nat] /\ \A m \in Names : m # n => names'[m] = names[m]
    BY <1>7
  <2> QED
    BY <1>1, <1>4, <1>5, <1>8, <1>9, <2>1, StillInRange, Zenon
<1>12. Distinct'
  <2>1. \A m \in Sems : names[m] \in Nat /\ names[m] <= Len(sem)
    BY <1>5, <1>8 DEF InRange
  <2>2. \A m \in Sems : m # n => names'[m] = names[m] /\ names'[m] # names'[n]
    BY <1>4, <1>5, <1>7, <2>1
  <2> QED
    BY <2>2 DEF Distinct
<1> QED
  BY <1>3, <1>4, <1>7, <1>10, <1>11, <1>12, Zenon DEF NewSem

\* The election.
LEMMA ElectLife ==
  ASSUME LifeInv, QueueInv, NEW p \in Users, Elect(p), UNCHANGED sessionVars
  PROVE  LifeInv' /\ QueueInv'
<1>1. pc[p] = "new" /\ UNCHANGED <<scenario, queue, destroyed, muddled, doing, state>>
  BY DEF Elect, At, sessionVars, agentVars
<1>2. Fits(p, "new", hold[p])
  BY <1>1, UserFacts
<1>3. CASE names["ready"] # 0
  <2>1. Go(p, "follow") /\ UNCHANGED <<sem, names, hold>>
    BY <1>3 DEF Elect
  <2>2. Fits(p, "follow", hold[p])
    BY <1>2 DEF Fits, Leading, Using, Service, ClearSteps
  <2>3. /\ "follow" \in Places /\ "follow" \notin ClearSteps \cup Leading \cup Unlinking
        /\ "new" \notin ClearSteps
    BY DEF Places, ClearSteps, Leading, Unlinking, Following
  <2>4. doing' \in Users /\ state' \in Seq(File) /\ Len(state') = Len(state)
    BY <1>1, UserFacts
  <2> QED
    BY <1>1, <1>3, <2>1, <2>2, <2>3, <2>4, PlainStep, Zenon
<1>4. CASE names["ready"] = 0
  <2>1. Go(p, "lead") /\ Create(p, "ready", 0) /\ "ready" \in Sems /\ 0 \in Int
    BY <1>4 DEF Elect, Sems
  <2>0. PICK k \in Nat, h \in [Names -> Nat] : NewSem(p, "ready", 0, k, h)
    BY <1>1, <2>1, Created, Zenon DEF QueueInv
  <2>2. /\ k # 0 /\ Distinct' /\ sem' \in Seq(Int) /\ Len(sem) <= Len(sem') /\ sem'[k] = 0
        /\ \A j \in 1..Len(sem) : sem'[j] = sem[j]
        /\ names' \in [Names -> Nat] /\ names'["ready"] = k
        /\ \A m \in Names : m # "ready" => names'[m] = names[m]
        /\ hold' = [hold EXCEPT ![p] = h] /\ h["ready"] = k
        /\ \A m \in Names : m # "ready" => h[m] = hold[p][m]
        /\ InRange(h, Len(sem'), Len(queue'), Len(state'))
        /\ InRange(names', Len(sem'), Len(queue'), Len(state'))
    BY <2>0, Zenon DEF NewSem
  <2>3. Fits(p, "lead", h)
    BY <1>2, <2>2 DEF Fits, Names, Leading, Using, Service, ClearSteps
  <2>4. /\ "lead" \in Places /\ "lead" \notin ClearSteps \cup Unlinking /\ "lead" # "space"
        /\ "lead" # "closed" /\ "new" \notin ClearSteps \cup Leading
    BY DEF Places, ClearSteps, Leading, Unlinking
  <2>5. Moves(p, "lead", h)
    <3>1. Len(queue) <= Len(queue') /\ Len(state) <= Len(state')
      BY <1>1, UserFacts, SMT
    <3> QED
      BY <1>1, <2>1, <2>2, <2>3, <2>4, <3>1, UserFacts, Zenon DEF Moves, Go
  <2>6. /\ "items" \in Names /\ "space" \in Names /\ "queue" \in Names
        /\ names'["items"] = names["items"] /\ names'["space"] = names["space"]
        /\ names'["queue"] = names["queue"]
    BY <2>2 DEF Names
  <2>7. ASSUME destroyed = 0 PROVE ShareInv'
    <3>1. ShareInv /\ names["items"] = 0 /\ names["space"] = 0
      BY <1>4, <2>7 DEF QueueInv, ShareInv
    <3>2. \A n \in Names \ {"state"} : names[n] # 0 => names'[n] = names[n]
      BY <1>4, <2>2
    <3>3. \A n \in Names \ {"state"} : h[n] \in {0, names'[n]}
      BY <2>2, <3>1 DEF ShareInv
    <3>4. names'["ready"] # 0
      BY <2>2
    <3> QED
      BY <1>1, <1>4, <2>4, <2>5, <2>6, <3>1, <3>2, <3>3, <3>4, ShareStep, Zenon
  <2>8. ASSUME destroyed = 0, ~muddled PROVE TokenInv'
    <3>1. ShareInv /\ TokenInv /\ names["items"] = 0 /\ names["space"] = 0
      BY <1>4, <2>8 DEF QueueInv, ShareInv
    <3>2. \A n \in {"items", "space", "queue"} : names'[n] = names[n]
      BY <2>6
    <3>3. \A n \in {"items", "space"} : names[n] = 0
      BY <3>1
    <3> QED
      BY <1>1, <2>4, <2>5, <3>1, <3>2, <3>3, TokenStep, Zenon DEF Messages
  <2> QED
    BY <1>1, <2>2, <2>5, <2>7, <2>8, LifeStep, Zenon DEF QueueInv
<1> QED
  BY <1>3, <1>4

\* A leader that finds a name of another one: the queue has been destroyed.
LEMMA GiveUpLife ==
  ASSUME LifeInv, QueueInv, NEW p \in Users, GiveUpLead(p),
         \/ pc[p] = "items" /\ names["items"] # 0
         \/ pc[p] = "space" /\ names["space"] # 0,
         UNCHANGED <<scenario, queue, destroyed, muddled, doing, state>>
  PROVE  LifeInv' /\ QueueInv'
<1>1. destroyed # 0
  BY DEF QueueInv, ShareInv
<1>2. Go(p, "follow") /\ UNCHANGED <<sem, hold>>
  BY DEF GiveUpLead
<1>3. names \in [Names -> Nat] /\ DOMAIN names = Names
  BY UserFacts
<1>4. names' \in [Names -> Nat] /\ \A n \in Names : names'[n] \in {0, names[n]}
  BY <1>3, SMT DEF GiveUpLead
<1>5. Sems \subseteq Names /\ "queue" \in Names /\ "state" \in Names
  BY DEF Sems, Names
<1>6. InRange(names', Len(sem), Len(queue), Len(state))
  <2>1. \A k \in Nat : 0 <= k
    BY SMT
  <2>2. /\ Len(sem) \in Nat /\ Len(queue) \in Nat /\ Len(state) \in Nat
        /\ InRange(names, Len(sem), Len(queue), Len(state))
    BY UserFacts
  <2> QED
    BY <1>4, <1>5, <2>1, <2>2, Zenon DEF InRange
<1>7. Distinct'
  BY <1>4, <1>5 DEF QueueInv, Distinct
<1>8. Fits(p, "follow", hold[p])
  <2>1. Fits(p, pc[p], hold[p])
    BY UserFacts
  <2> QED
    BY <2>1 DEF Fits, Leading, Using, Service, ClearSteps
<1>9. Moves(p, "follow", hold[p])
  <2>1. "follow" \in Places
    BY DEF Places, Following
  <2>2. hold' = [hold EXCEPT ![p] = hold[p]]
    BY <1>2, UserFacts
  <2> QED
    BY <1>2, <1>4, <1>6, <1>8, <2>1, <2>2, UserFacts, HandMove, Zenon
<1> QED
  BY <1>1, <1>7, <1>9, DestroyedStep

\* The places of a leader that creates the semaphore n.
Creates(p, n, place) ==
  \/ pc[p] = "items" /\ n = "items" /\ place = "space"
  \/ pc[p] = "space" /\ n = "space" /\ place = "announce"

\* The leader counts the messages in the file, or the free slots.
LEMMA CountLife ==
  ASSUME LifeInv, QueueInv, NEW p \in Users, NEW n, NEW place, Creates(p, n, place),
         names[n] = 0, Go(p, place),
         Create(p, n, IF n = "items" THEN Len(queue[hold[p].queue])
                      ELSE Capacity - Len(queue[hold[p].queue])),
         UNCHANGED <<scenario, queue, destroyed, muddled, doing, state>>
  PROVE  LifeInv' /\ QueueInv'
<1>1. n \in Sems /\ n \in {"items", "space"} /\ n # "ready" /\ n # "queue"
  BY DEF Creates, Sems
<1>2. Fits(p, pc[p], hold[p])
  BY UserFacts
<1>3. hold[p]["queue"] \in 1..Len(queue) /\ hold[p]["ready"] # 0
      /\ (n = "space" => hold[p]["items"] # 0)
  <2>1. hold[p]["queue"] # 0 /\ hold[p]["ready"] # 0 /\ (n = "space" => hold[p]["items"] # 0)
    BY <1>2 DEF Fits, Creates, Leading
  <2>2. hold[p]["queue"] \in Nat /\ hold[p]["queue"] <= Len(queue) /\ Len(queue) \in Nat
    BY UserFacts DEF InRange, Names
  <2> QED
    BY <2>1, <2>2
<1>4. PICK messages \in Seq(Users) : messages = queue[hold[p]["queue"]]
  <2>1. queue \in Seq(Seq(Users))
    BY UserFacts
  <2> QED
    BY <1>3, <2>1, SMT
<1>5. PICK v \in Int : /\ v = IF n = "items" THEN Len(messages) ELSE Capacity - Len(messages)
                       /\ Create(p, n, v)
  BY <1>4, ScenarioAssumption
<1>6a. PICK k \in Nat, h \in [Names -> Nat] : NewSem(p, n, v, k, h)
  <2>1. n \in Sems /\ Create(p, n, v) /\ Distinct
    BY <1>1, <1>5 DEF QueueInv
  <2> QED
    BY <2>1, Created, Zenon
<1>6. /\ k # 0 /\ Distinct' /\ sem' \in Seq(Int) /\ Len(sem) <= Len(sem') /\ sem'[k] = v
      /\ \A j \in 1..Len(sem) : sem'[j] = sem[j]
      /\ names' \in [Names -> Nat] /\ names'[n] = k
      /\ \A m \in Names : m # n => names'[m] = names[m]
      /\ hold' = [hold EXCEPT ![p] = h] /\ h[n] = k
      /\ \A m \in Names : m # n => h[m] = hold[p][m]
      /\ InRange(h, Len(sem'), Len(queue'), Len(state'))
      /\ InRange(names', Len(sem'), Len(queue'), Len(state'))
  BY <1>6a, Zenon DEF NewSem
<1>7. Fits(p, place, h)
  BY <1>2, <1>3, <1>6 DEF Creates, Fits, Names, Leading, Using, Service, ClearSteps
<1>8. /\ place \in Places /\ place \in Leading /\ place \notin ClearSteps \cup Unlinking
      /\ place # "closed" /\ pc[p] \in Leading /\ pc[p] \notin ClearSteps \cup Connecting
      /\ place \notin {"lead", "items"} /\ (place = "space" => n = "items")
      /\ (n = "items" => pc[p] = "items")
  BY DEF Creates, Places, ClearSteps, Leading, Unlinking, Connecting
<1>9. Moves(p, place, h)
  <2>1. Len(queue) <= Len(queue') /\ Len(state) <= Len(state')
    BY UserFacts, SMT
  <2> QED
    BY <1>6, <1>7, <1>8, <2>1, UserFacts, Zenon DEF Moves, Go
<1>10. /\ \A m \in {"items", "space", "ready", "queue"} : m # n => names'[m] = names[m]
       /\ \A m \in {"items", "space", "ready", "queue"} : m # n => h[m] = hold[p][m]
  BY <1>6 DEF Names
<1>11. ASSUME destroyed = 0
       PROVE  /\ ShareInv /\ names["ready"] # 0 /\ hold[p]["queue"] = names["queue"]
              /\ names["queue"] # 0
              /\ (n = "space" => names["items"] # 0)
              /\ (n = "items" => names["space"] = 0)
  <2>1. ShareInv /\ names["ready"] # 0
    BY <1>8, <1>11 DEF QueueInv, ShareInv
  <2>2. \A m \in {"items", "queue"} : hold[p][m] \in {0, names[m]}
    BY <2>1 DEF ShareInv, Names
  <2>3. hold[p]["queue"] # 0
    BY <1>3
  <2>4. n = "items" => names["space"] = 0
    BY <1>8, <2>1 DEF ShareInv
  <2> QED
    BY <1>3, <2>1, <2>2, <2>3, <2>4
<1>12. ASSUME destroyed = 0 PROVE ShareInv'
  <2>1. ShareInv /\ names'["ready"] # 0
    BY <1>1, <1>10, <1>11, <1>12
  <2>2. \A m \in Names \ {"state"} : names[m] # 0 => names'[m] = names[m]
    BY <1>6
  <2>3. \A m \in Names \ {"state"} : h[m] \in {0, names'[m]}
    BY <1>6, <2>1 DEF ShareInv
  <2>4. place = "space" => names'["space"] = 0
    BY <1>8, <1>10, <1>11, <1>12
  <2> QED
    BY <1>8, <1>9, <2>1, <2>2, <2>3, <2>4, ShareStep, Zenon
<1>13. ASSUME destroyed = 0, ~muddled PROVE TokenInv'
  <2>1. ShareInv /\ TokenInv
    BY <1>13 DEF QueueInv
  <2>2. \A q \in Users : pc[q] \notin ClearSteps
    BY <1>1, <2>1, UserNames DEF Using
  <2>3. \A q \in Users : pc'[q] \notin ClearSteps
    BY <1>8, <2>2 DEF Go, LifeInv, LifeTypes
  <2>4. /\ names'["queue"] = names["queue"] /\ names["queue"] # 0
        /\ Messages' = Messages /\ Messages = messages
    BY <1>1, <1>4, <1>10, <1>11, <1>13 DEF Messages
  <2>5. Len(messages) <= Capacity
    BY <2>1, <2>4 DEF TokenInv
  <2>6. CASE n = "items"
    <3>1. names'["items"] = k /\ names'["space"] = 0 /\ sem'[k] = Len(messages)
      BY <1>5, <1>6, <1>10, <1>11, <1>13, <2>6
    <3> QED
      BY <2>3, <2>4, <2>5, <3>1 DEF TokenInv
  <2>7. CASE n = "space"
    <3>1. names'["items"] = names["items"] /\ names["items"] # 0 /\ names'["space"] = k
          /\ sem'[k] = Capacity - Len(messages)
      BY <1>5, <1>6, <1>10, <1>11, <1>13, <2>7
    <3>2. sem[names["items"]] = Len(messages)
      BY <2>1, <2>2, <2>4, <3>1 DEF TokenInv, Quiet
    <3>3. names["items"] \in 1..Len(sem)
      BY <3>1, SemaphoreThere, Zenon DEF Sems
    <3>4. sem'[names["items"]] = Len(messages)
      BY <1>6, <3>2, <3>3
    <3> QED
      BY <2>3, <2>4, <2>5, <3>1, <3>4 DEF TokenInv
  <2> QED
    BY <1>1, <2>6, <2>7
<1> QED
  BY <1>6, <1>9, <1>12, <1>13, LifeStep, Zenon DEF QueueInv

\* The two semaphores.
LEMMA CreateLife ==
  ASSUME LifeInv, QueueInv, NEW p \in Users, CreateItems(p) \/ CreateSpace(p),
         UNCHANGED sessionVars
  PROVE  LifeInv' /\ QueueInv'
<1>1. UNCHANGED <<scenario, queue, destroyed, muddled, doing, state>>
  BY DEF CreateItems, CreateSpace, sessionVars, agentVars
<1>2. CASE CreateItems(p)
  <2>1. CASE names["items"] # 0
    BY <1>1, <1>2, <2>1, GiveUpLife DEF CreateItems, At
  <2>2. CASE names["items"] = 0
    <3>1. /\ Creates(p, "items", "space") /\ Go(p, "space")
          /\ Create(p, "items", Len(queue[hold[p].queue]))
      BY <1>2, <2>2 DEF CreateItems, At, Creates
    <3> QED
      BY <1>1, <2>2, <3>1, CountLife
  <2> QED
    BY <2>1, <2>2
<1>3. CASE CreateSpace(p)
  <2>1. CASE names["space"] # 0
    BY <1>1, <1>3, <2>1, GiveUpLife DEF CreateSpace, At
  <2>2. CASE names["space"] = 0
    <3>1. /\ Creates(p, "space", "announce") /\ Go(p, "announce")
          /\ Create(p, "space", Capacity - Len(queue[hold[p].queue]))
      BY <1>3, <2>2 DEF CreateSpace, At, Creates
    <3> QED
      BY <1>1, <2>2, <3>1, CountLife
  <2> QED
    BY <2>1, <2>2
<1> QED
  BY <1>2, <1>3

\* The constructor.
LEMMA ConstructLife ==
  ASSUME LifeInv, QueueInv, NEW p \in Users, Construct(p), UNCHANGED sessionVars
  PROVE  LifeInv' /\ QueueInv'
BY ElectLife, LmdbLife, CreateLife, DoorLife, FollowLife, GetSemaphoreLife, Zenon DEF Construct

-----------------------------------------------------------------------------
(* One queue: its use *)

\* Two semaphores, one down and one up.
LEMMA DownUp ==
  ASSUME NEW s \in Seq(Int), NEW i \in 1..Len(s), NEW j \in 1..Len(s), NEW t,
         t = [s EXCEPT ![i] = @ - 1, ![j] = @ + 1]
  PROVE  /\ t \in Seq(Int) /\ Len(t) = Len(s)
         /\ i # j => t[i] = s[i] - 1 /\ t[j] = s[j] + 1
BY SMT

\* Who uses the queue has it open.
LEMMA UseFacts ==
  ASSUME LifeInv, NEW p \in Users, pc[p] \in Using
  PROVE  /\ hold[p]["items"] \in 1..Len(sem) /\ hold[p]["space"] \in 1..Len(sem)
         /\ hold[p]["queue"] \in 1..Len(queue) /\ queue[hold[p]["queue"]] \in Seq(Users)
<1>1. hold[p]["items"] # 0 /\ hold[p]["space"] # 0 /\ hold[p]["queue"] # 0
  BY DEF LifeInv, Fits
<1>2. /\ hold[p]["items"] \in Nat /\ hold[p]["space"] \in Nat /\ hold[p]["queue"] \in Nat
      /\ hold[p]["items"] <= Len(sem) /\ hold[p]["space"] <= Len(sem)
      /\ hold[p]["queue"] <= Len(queue) /\ Len(sem) \in Nat /\ Len(queue) \in Nat
  BY UserFacts DEF InRange, Names, Sems
<1>3. /\ hold[p]["items"] \in 1..Len(sem) /\ hold[p]["space"] \in 1..Len(sem)
      /\ hold[p]["queue"] \in 1..Len(queue)
  BY <1>1, <1>2, SMT
<1>4. queue \in Seq(Seq(Users))
  BY UserFacts
<1>5. queue[hold[p]["queue"]] \in Seq(Users)
  BY <1>3, <1>4, SMT
<1> QED
  BY <1>3, <1>5

\* A step of somebody who uses the queue, and goes on using it.
LEMMA UseStep ==
  ASSUME LifeInv, QueueInv, NEW p \in Users, NEW place \in Using, pc[p] \in Using,
         pc' = [pc EXCEPT ![p] = place], Fits(p, place, hold[p]),
         UNCHANGED <<scenario, names, hold, destroyed>>,
         sem' \in Seq(Int), Len(sem') = Len(sem),
         queue' \in Seq(Seq(Users)), Len(queue') = Len(queue),
         state' \in Seq(File), Len(state') = Len(state),
         doing' \in Users, muddled' \in BOOLEAN,
         destroyed = 0 /\ ~muddled' => TokenInv'
  PROVE  LifeInv' /\ QueueInv'
<1>1. /\ place \in Places /\ place \notin Leading \cup Unlinking \cup Connecting
      /\ place # "closed" /\ pc[p] \notin Connecting
      /\ place \notin {"lead", "items"} /\ place # "space"
  BY DEF Using, Service, ClearSteps, Places, Leading, Unlinking, Connecting
<1>2. Moves(p, place, hold[p])
  <2>1. /\ Len(sem) <= Len(sem') /\ Len(queue) <= Len(queue') /\ Len(state) <= Len(state')
    BY UserFacts, SMT
  <2>2. /\ InRange(hold[p], Len(sem'), Len(queue'), Len(state'))
        /\ InRange(names', Len(sem'), Len(queue'), Len(state'))
    BY UserFacts, Zenon
  <2>3. hold' = [hold EXCEPT ![p] = hold[p]]
    BY UserFacts
  <2> QED
    BY <1>1, <2>1, <2>2, <2>3, UserFacts, Zenon DEF Moves
<1>3. Distinct'
  BY DEF QueueInv, Distinct
<1>4. ASSUME destroyed = 0 PROVE ShareInv'
  <2>1. ShareInv /\ names["ready"] # 0
    BY <1>1, <1>4 DEF QueueInv, ShareInv
  <2>2. \A n \in Names \ {"state"} : hold[p][n] \in {0, names'[n]}
    BY <2>1 DEF ShareInv
  <2> QED
    BY <1>1, <1>2, <2>1, <2>2, ShareStep, Zenon
<1> QED
  BY <1>2, <1>3, <1>4, LifeStep, Zenon DEF QueueInv

\* Nobody else clears the queue of p.
LEMMA NoClear ==
  ASSUME LifeInv, QueueInv, destroyed = 0, NEW p \in Users, pc[p] \in Using, ~Clearing(p)
  PROVE  \A q \in Users : q # p => pc[q] \notin ClearSteps
<1> SUFFICES ASSUME NEW q \in Users, q # p, pc[q] \in ClearSteps
             PROVE  FALSE
  OBVIOUS
<1>1. pc[q] \in Using /\ ShareInv
  BY DEF Using, QueueInv
<1>2. hold[q]["queue"] = hold[p]["queue"]
  BY <1>1, UserNames
<1> QED
  BY <1>2 DEF Clearing

\* What the semaphores of the queue in use are.
LEMMA UseNames ==
  ASSUME LifeInv, QueueInv, destroyed = 0, NEW p \in Users, pc[p] \in Using
  PROVE  /\ \A n \in {"items", "space", "queue"} : hold[p][n] = names[n] /\ names[n] # 0
         /\ names["items"] # names["space"]
         /\ Messages = queue[hold[p]["queue"]] /\ Messages \in Seq(Users)
<1>1. ShareInv /\ Distinct
  BY DEF QueueInv
<1>2. \A n \in {"items", "space", "queue"} : hold[p][n] = names[n] /\ names[n] # 0
  BY <1>1, UserNames
<1>3. names["items"] # names["space"]
  BY <1>1, <1>2 DEF Distinct, Sems
<1>4. Messages = queue[hold[p]["queue"]]
  BY <1>2 DEF Messages
<1> QED
  BY <1>2, <1>3, <1>4, UseFacts

\* The counts are right and nobody clears.
LEMMA QuietToken ==
  ASSUME names' = names, \A n \in {"items", "space", "queue"} : names[n] # 0,
         \A q \in Users : pc'[q] \notin ClearSteps,
         Len(Messages') <= Capacity, sem'[names["items"]] = Len(Messages'),
         sem'[names["space"]] = Capacity - Len(Messages')
  PROVE  TokenInv'
BY DEF TokenInv

\* Process p clears.
LEMMA ClearToken ==
  ASSUME names' = names, \A n \in {"items", "space", "queue"} : names[n] # 0,
         NEW p \in Users, pc'[p] \in ClearSteps, \A q \in Users : q # p => pc'[q] \notin ClearSteps,
         Messages' = <<>>, sem'[names["items"]] \in Nat, sem'[names["space"]] \in Nat,
         pc'[p] # "drain" => sem'[names["items"]] = 0,
         pc'[p] = "refill" => sem'[names["space"]] = 0
  PROVE  TokenInv'
<1>1. Len(Messages') <= Capacity
  BY ScenarioAssumption, SMT
<1>2. ~Quiet'
  BY DEF Quiet
<1> QED
  BY <1>1, <1>2 DEF TokenInv

\* The sequences after a message is put in.
LEMMA PutFacts ==
  ASSUME LifeInv, NEW p \in Users, pc[p] \in Using, NEW m \in Users, Put(p, m)
  PROVE  /\ sem' \in Seq(Int) /\ Len(sem') = Len(sem)
         /\ queue' \in Seq(Seq(Users)) /\ Len(queue') = Len(queue) /\ muddled' \in BOOLEAN
         /\ queue'[hold[p]["queue"]] = Append(queue[hold[p]["queue"]], m)
         /\ \A f \in 1..Len(queue) : f # hold[p]["queue"] => queue'[f] = queue[f]
         /\ hold[p]["items"] # hold[p]["space"] =>
              /\ sem'[hold[p]["items"]] = sem[hold[p]["items"]] + 1
              /\ sem'[hold[p]["space"]] = sem[hold[p]["space"]] - 1
<1>1. /\ hold[p]["items"] \in 1..Len(sem) /\ hold[p]["space"] \in 1..Len(sem)
      /\ hold[p]["queue"] \in 1..Len(queue) /\ queue[hold[p]["queue"]] \in Seq(Users)
  BY UseFacts
<1>2. sem \in Seq(Int) /\ queue \in Seq(Seq(Users)) /\ muddled \in BOOLEAN
  BY UserFacts
<1>3. sem' = [sem EXCEPT ![hold[p]["space"]] = @ - 1, ![hold[p]["items"]] = @ + 1]
  BY DEF Put
<1>4. PICK v : v = Append(queue[hold[p]["queue"]], m)
  BY Zenon
<1>5. v \in Seq(Users)
  BY <1>1, <1>4, SMT
<1>6. queue' = [queue EXCEPT ![hold[p]["queue"]] = v]
  BY <1>4 DEF Put
<1>7. /\ queue' \in Seq(Seq(Users)) /\ Len(queue') = Len(queue) /\ queue'[hold[p]["queue"]] = v
      /\ \A f \in 1..Len(queue) : f # hold[p]["queue"] => queue'[f] = queue[f]
  BY <1>1, <1>2, <1>5, <1>6, SMT
<1>8. muddled' \in BOOLEAN
  BY <1>2 DEF Put, Clearing
<1>9. /\ sem' \in Seq(Int) /\ Len(sem') = Len(sem)
      /\ hold[p]["items"] # hold[p]["space"] =>
              /\ sem'[hold[p]["items"]] = sem[hold[p]["items"]] + 1
              /\ sem'[hold[p]["space"]] = sem[hold[p]["space"]] - 1
  <2>1. PICK i \in 1..Len(sem), j \in 1..Len(sem) : i = hold[p]["space"] /\ j = hold[p]["items"]
    BY <1>1, Zenon
  <2>2. sem' = [sem EXCEPT ![i] = @ - 1, ![j] = @ + 1]
    BY <1>3, <2>1, Zenon
  <2>3. /\ sem' \in Seq(Int) /\ Len(sem') = Len(sem)
        /\ i # j => sem'[i] = sem[i] - 1 /\ sem'[j] = sem[j] + 1
    BY <1>2, <2>2, DownUp, SMT
  <2> QED
    BY <2>1, <2>3, Zenon
<1> QED
  BY <1>4, <1>7, <1>8, <1>9

\* A command or a message is put in.
LEMMA PutLife ==
  ASSUME LifeInv, QueueInv, NEW c \in Clients, NEW m \in Users, NEW place \in {"waiting", "cleared"},
         Move(c, "up", place), Put(c, m), UNCHANGED <<names, hold, destroyed>>,
         UNCHANGED sessionVars
  PROVE  LifeInv' /\ QueueInv'
<1>0. c \in Users /\ c # Agent
  BY UsersAssumption
<1>1. /\ pc[c] = "up" /\ pc' = [pc EXCEPT ![c] = place]
      /\ UNCHANGED <<scenario, names, hold, destroyed, doing, state>>
  BY DEF Move, At, Go, sessionVars, agentVars
<1>2. /\ pc[c] \in Using /\ place \in Using /\ place \notin ClearSteps /\ pc[c] \notin ClearSteps
  BY <1>1 DEF Using, ClearSteps
<1>3. Fits(c, place, hold[c])
  <2>1. Fits(c, "up", hold[c])
    BY <1>0, <1>1, UserFacts
  <2> QED
    BY <1>0, <2>1 DEF Fits, Leading, Using, Service, ClearSteps
<1>4. /\ sem' \in Seq(Int) /\ Len(sem') = Len(sem)
      /\ queue' \in Seq(Seq(Users)) /\ Len(queue') = Len(queue) /\ muddled' \in BOOLEAN
      /\ queue'[hold[c]["queue"]] = Append(queue[hold[c]["queue"]], m)
      /\ hold[c]["items"] # hold[c]["space"] =>
              /\ sem'[hold[c]["items"]] = sem[hold[c]["items"]] + 1
              /\ sem'[hold[c]["space"]] = sem[hold[c]["space"]] - 1
  BY <1>0, <1>2, PutFacts
<1>5. ASSUME destroyed = 0, ~muddled' PROVE TokenInv'
  <2>1. ~muddled /\ ~Clearing(c) /\ sem[hold[c]["space"]] > 0
    BY <1>5 DEF Put
  <2>2. \A q \in Users : q # c => pc[q] \notin ClearSteps
    BY <1>0, <1>2, <1>5, <2>1, NoClear
  <2>3. \A q \in Users : pc'[q] \notin ClearSteps /\ pc[q] \notin ClearSteps
    BY <1>0, <1>1, <1>2, <2>2 DEF LifeInv, LifeTypes
  <2>4. /\ \A n \in {"items", "space", "queue"} : hold[c][n] = names[n] /\ names[n] # 0
        /\ names["items"] # names["space"]
        /\ Messages = queue[hold[c]["queue"]] /\ Messages \in Seq(Users)
    BY <1>0, <1>2, <1>5, UseNames
  <2>5. TokenInv /\ Quiet
    BY <1>5, <2>1, <2>3 DEF QueueInv, Quiet
  <2>6. sem[names["items"]] = Len(Messages) /\ sem[names["space"]] = Capacity - Len(Messages)
    BY <2>4, <2>5 DEF TokenInv
  <2>7. Messages' = Append(Messages, m)
    BY <1>1, <1>4, <2>4 DEF Messages
  <2>8. Len(Messages') = Len(Messages) + 1 /\ Len(Messages) \in Nat
    BY <2>4, <2>7, SMT
  <2>9. /\ sem'[names["items"]] = sem[names["items"]] + 1
        /\ sem'[names["space"]] = sem[names["space"]] - 1 /\ sem[names["space"]] > 0
    BY <1>4, <2>1, <2>4
  <2>10. /\ Len(Messages') <= Capacity /\ sem'[names["items"]] = Len(Messages')
         /\ sem'[names["space"]] = Capacity - Len(Messages')
    BY <2>6, <2>8, <2>9, ScenarioAssumption, SMT
  <2> QED
    BY <1>1, <2>3, <2>4, <2>10, QuietToken, Zenon
<1>6. doing' \in Users /\ state' \in Seq(File) /\ Len(state') = Len(state)
  BY <1>0, <1>1, UserFacts
<1> QED
  BY <1>0, <1>1, <1>2, <1>3, <1>4, <1>5, <1>6, UseStep, Zenon

\* The sequences after the agent looks at the queue.
LEMMA TakeFacts ==
  ASSUME LifeInv, NEW p \in Users, pc[p] \in Using, TakeOut(p),
         NEW messages, messages = queue[hold[p]["queue"]]
  PROVE  /\ sem' \in Seq(Int) /\ Len(sem') = Len(sem)
         /\ queue' \in Seq(Seq(Users)) /\ Len(queue') = Len(queue) /\ muddled' \in BOOLEAN
         /\ \A f \in 1..Len(queue) : f # hold[p]["queue"] => queue'[f] = queue[f]
         /\ messages = <<>> => queue' = queue
         /\ messages # <<>> =>
              /\ Head(messages) \in Users /\ queue'[hold[p]["queue"]] = Tail(messages)
              /\ hold[p]["items"] # hold[p]["space"] =>
                   /\ sem'[hold[p]["items"]] = sem[hold[p]["items"]] - 1
                   /\ sem'[hold[p]["space"]] = sem[hold[p]["space"]] + 1
<1>1. /\ hold[p]["items"] \in 1..Len(sem) /\ hold[p]["space"] \in 1..Len(sem)
      /\ hold[p]["queue"] \in 1..Len(queue) /\ messages \in Seq(Users)
  BY UseFacts
<1>2. sem \in Seq(Int) /\ queue \in Seq(Seq(Users)) /\ muddled \in BOOLEAN
  BY UserFacts
<1>3. muddled' \in BOOLEAN
  BY <1>2 DEF TakeOut, Clearing
<1>4. CASE messages = <<>>
  <2>1. queue' = queue /\ sem' = [sem EXCEPT ![hold[p]["items"]] = @ - 1]
    BY <1>4 DEF TakeOut
  <2>2. sem' \in Seq(Int) /\ Len(sem') = Len(sem)
    BY <1>1, <1>2, <2>1, SMTT(20)
  <2> QED
    BY <1>2, <1>3, <1>4, <2>1, <2>2
<1>5. CASE messages # <<>>
  <2>1. /\ sem' = [sem EXCEPT ![hold[p]["items"]] = @ - 1, ![hold[p]["space"]] = @ + 1]
        /\ queue' = [queue EXCEPT ![hold[p]["queue"]] = Tail(messages)]
    BY <1>5 DEF TakeOut
  <2>2. /\ sem' \in Seq(Int) /\ Len(sem') = Len(sem)
        /\ hold[p]["items"] # hold[p]["space"] =>
             /\ sem'[hold[p]["items"]] = sem[hold[p]["items"]] - 1
             /\ sem'[hold[p]["space"]] = sem[hold[p]["space"]] + 1
    <3>1. PICK i \in 1..Len(sem), j \in 1..Len(sem) : i = hold[p]["items"] /\ j = hold[p]["space"]
      BY <1>1, Zenon
    <3>2. sem' = [sem EXCEPT ![i] = @ - 1, ![j] = @ + 1]
      BY <2>1, <3>1, Zenon
    <3>3. /\ sem' \in Seq(Int) /\ Len(sem') = Len(sem)
          /\ i # j => sem'[i] = sem[i] - 1 /\ sem'[j] = sem[j] + 1
      BY <1>2, <3>2, DownUp, SMT
    <3> QED
      BY <3>1, <3>3, Zenon
  <2>3. PICK v : v = Tail(messages)
    BY Zenon
  <2>4. v \in Seq(Users) /\ Head(messages) \in Users
    BY <1>1, <1>5, <2>3, SMTT(20)
  <2>5. /\ queue' \in Seq(Seq(Users)) /\ Len(queue') = Len(queue) /\ queue'[hold[p]["queue"]] = v
        /\ \A f \in 1..Len(queue) : f # hold[p]["queue"] => queue'[f] = queue[f]
    BY <1>1, <1>2, <2>1, <2>3, <2>4, SMT
  <2> QED
    BY <1>3, <1>5, <2>2, <2>3, <2>4, <2>5, Zenon
<1> QED
  BY <1>4, <1>5

\* The agent takes a command out.
LEMMA StepCommandLife ==
  ASSUME LifeInv, QueueInv, StepCommand
  PROVE  LifeInv' /\ QueueInv'
<1>0. Agent \in Users
  BY UsersAssumption
<1>1. /\ pc[Agent] = "loop" /\ Beat /\ TakeOut(Agent)
      /\ UNCHANGED <<scenario, names, hold, destroyed>>
  BY DEF StepCommand, At
<1>2. PICK messages : messages = queue[hold[Agent]["queue"]]
  BY Zenon
<1>3. pc[Agent] \in Service /\ pc[Agent] \in Using /\ pc[Agent] \notin ClearSteps
  BY <1>1 DEF Service, Using, ClearSteps
<1>4. state' \in Seq(File) /\ Len(state') = Len(state)
  BY <1>1, <1>3, BeatFacts
<1>5. /\ sem' \in Seq(Int) /\ Len(sem') = Len(sem)
      /\ queue' \in Seq(Seq(Users)) /\ Len(queue') = Len(queue) /\ muddled' \in BOOLEAN
      /\ messages # <<>> =>
              /\ Head(messages) \in Users /\ queue'[hold[Agent]["queue"]] = Tail(messages)
              /\ hold[Agent]["items"] # hold[Agent]["space"] =>
                   /\ sem'[hold[Agent]["items"]] = sem[hold[Agent]["items"]] - 1
                   /\ sem'[hold[Agent]["space"]] = sem[hold[Agent]["space"]] + 1
  BY <1>0, <1>1, <1>2, <1>3, TakeFacts, Zenon
<1>6. PICK place \in {"loop", "handle"} : pc' = [pc EXCEPT ![Agent] = place] /\ doing' \in Users
  <2>1. pc \in [Users -> Places] /\ doing \in Users
    BY DEF LifeInv, LifeTypes
  <2>2. \/ messages # <<>> /\ doing' = Head(messages) /\ Go(Agent, "handle")
        \/ UNCHANGED <<doing, pc>>
    BY <1>2 DEF StepCommand
  <2>3. pc' = pc => pc' = [pc EXCEPT ![Agent] = "loop"]
    BY <1>0, <1>1, <2>1
  <2> QED
    BY <1>5, <2>1, <2>2, <2>3 DEF Go
<1>7. Fits(Agent, place, hold[Agent]) /\ place \in Using /\ place \notin ClearSteps
  <2>1. Fits(Agent, "loop", hold[Agent])
    BY <1>0, <1>1, UserFacts
  <2> QED
    BY <2>1 DEF Fits, Leading, Using, Service, ClearSteps
<1>8. ASSUME destroyed = 0, ~muddled' PROVE TokenInv'
  <2>1. ~muddled /\ ~Clearing(Agent) /\ sem[hold[Agent]["items"]] > 0
    BY <1>1, <1>8 DEF TakeOut
  <2>2. \A q \in Users : q # Agent => pc[q] \notin ClearSteps
    BY <1>0, <1>3, <1>8, <2>1, NoClear
  <2>3. \A q \in Users : pc'[q] \notin ClearSteps /\ pc[q] \notin ClearSteps
    BY <1>0, <1>3, <1>6, <1>7, <2>2 DEF LifeInv, LifeTypes
  <2>4. /\ \A n \in {"items", "space", "queue"} : hold[Agent][n] = names[n] /\ names[n] # 0
        /\ names["items"] # names["space"]
        /\ Messages = messages /\ Messages \in Seq(Users)
    BY <1>0, <1>2, <1>3, <1>8, UseNames
  <2>5. TokenInv /\ Quiet
    BY <1>8, <2>1, <2>3 DEF QueueInv, Quiet
  <2>6. sem[names["items"]] = Len(Messages) /\ sem[names["space"]] = Capacity - Len(Messages)
        /\ Len(Messages) <= Capacity
    BY <2>4, <2>5 DEF TokenInv
  <2>7. sem[names["items"]] > 0
    BY <2>1, <2>4
  <2>8. messages # <<>>
    BY <2>4, <2>6, <2>7, SMT
  <2>9. Messages' = Tail(Messages)
    BY <1>1, <1>5, <2>4, <2>8 DEF Messages
  <2>10. Len(Messages') = Len(Messages) - 1 /\ Len(Messages) \in Nat
    BY <2>4, <2>8, <2>9, SMT
  <2>11. /\ sem'[names["items"]] = sem[names["items"]] - 1
         /\ sem'[names["space"]] = sem[names["space"]] + 1
    BY <1>5, <2>4, <2>8
  <2>12. /\ Len(Messages') <= Capacity /\ sem'[names["items"]] = Len(Messages')
         /\ sem'[names["space"]] = Capacity - Len(Messages')
    BY <2>6, <2>10, <2>11, ScenarioAssumption, SMTT(20)
  <2> QED
    BY <1>1, <2>3, <2>4, <2>12, QuietToken, Zenon
<1> QED
  BY <1>0, <1>1, <1>3, <1>4, <1>5, <1>6, <1>7, <1>8, UseStep, Zenon

\* The steps of clear keep to the places and handles of who clears.
LEMMA ClearStep ==
  ASSUME LifeInv, QueueInv, NEW p \in Users, p # Agent, NEW place \in ClearSteps \cup {"cleared"},
         pc[p] \in ClearSteps \cup {"up"}, pc' = [pc EXCEPT ![p] = place],
         UNCHANGED <<scenario, names, hold, destroyed, doing, state>>,
         sem' \in Seq(Int), Len(sem') = Len(sem),
         queue' \in Seq(Seq(Users)), Len(queue') = Len(queue), muddled' \in BOOLEAN,
         destroyed = 0 /\ ~muddled' => TokenInv'
  PROVE  LifeInv' /\ QueueInv'
<1>1. pc[p] \in Using /\ place \in Using
  BY DEF Using
<1>2. Fits(p, place, hold[p])
  <2>1. Fits(p, pc[p], hold[p])
    BY UserFacts
  <2> QED
    BY <1>1, <2>1 DEF Fits, Leading, Service, ClearSteps
<1>3. doing' \in Users /\ state' \in Seq(File) /\ Len(state') = Len(state)
  BY UserFacts
<1> QED
  BY <1>1, <1>2, <1>3, UseStep, Zenon

\* The pointers are set back.
LEMMA ResetLife ==
  ASSUME LifeInv, QueueInv, NEW p \in Users, p # Agent, ResetPointers(p, "up"),
         UNCHANGED sessionVars
  PROVE  LifeInv' /\ QueueInv'
<1>1. /\ pc[p] = "up" /\ pc' = [pc EXCEPT ![p] = "drain"]
      /\ UNCHANGED <<scenario, names, sem, hold, destroyed, doing, state>>
      /\ queue' = [queue EXCEPT ![hold[p]["queue"]] = <<>>]
      /\ muddled' = (muddled \/ Clearing(p))
  BY DEF ResetPointers, Move, At, Go, sessionVars, agentVars
<1>2. pc[p] \in Using /\ "drain" \in ClearSteps /\ "drain" # "refill"
  BY <1>1 DEF Using, ClearSteps
<1>3. sem' \in Seq(Int) /\ Len(sem') = Len(sem) /\ muddled' \in BOOLEAN
  BY <1>1, UserFacts DEF Clearing
<1>4. queue' \in Seq(Seq(Users)) /\ Len(queue') = Len(queue) /\ queue'[hold[p]["queue"]] = <<>>
  <2>1. PICK f \in 1..Len(queue) : f = hold[p]["queue"]
    BY <1>2, UseFacts
  <2>2. queue \in Seq(Seq(Users))
    BY UserFacts
  <2>3. PICK v \in Seq(Users) : v = <<>>
    <3>1. <<>> \in Seq(Users)
      BY SMT
    <3> QED
      BY <3>1, Zenon
  <2>4. queue' = [queue EXCEPT ![f] = v]
    BY <1>1, <2>1, <2>3
  <2>5. queue' \in Seq(Seq(Users)) /\ Len(queue') = Len(queue) /\ queue'[f] = v
    BY <2>2, <2>4, UpdatedSeq, SMT
  <2> QED
    BY <2>1, <2>3, <2>5, Zenon
<1>5. ASSUME destroyed = 0, ~muddled' PROVE TokenInv'
  <2>1. ~muddled /\ ~Clearing(p)
    BY <1>1, <1>5
  <2>2. \A q \in Users : q # p => pc[q] \notin ClearSteps
    BY <1>2, <1>5, <2>1, NoClear
  <2>3. \A q \in Users : pc[q] \notin ClearSteps
    BY <1>1, <2>2 DEF ClearSteps
  <2>4. /\ \A n \in {"items", "space", "queue"} : hold[p][n] = names[n] /\ names[n] # 0
        /\ Messages = queue[hold[p]["queue"]] /\ Messages \in Seq(Users)
    BY <1>2, <1>5, UseNames
  <2>5. TokenInv /\ Quiet
    BY <1>5, <2>1, <2>3 DEF QueueInv, Quiet
  <2>6. sem[names["items"]] = Len(Messages) /\ sem[names["space"]] = Capacity - Len(Messages)
        /\ Len(Messages) <= Capacity
    BY <2>4, <2>5 DEF TokenInv
  <2>7. sem'[names["items"]] \in Nat /\ sem'[names["space"]] \in Nat
    <3>1. Len(Messages) \in Nat
      BY <2>4
    <3> QED
      BY <1>1, <2>6, <3>1, ScenarioAssumption, SMTT(20)
  <2>8. Messages' = <<>>
    BY <1>1, <1>4, <2>4 DEF Messages
  <2>9. pc'[p] = "drain" /\ \A q \in Users : q # p => pc'[q] \notin ClearSteps
    BY <1>1, <2>2 DEF LifeInv, LifeTypes
  <2> QED
    BY <1>1, <1>2, <2>4, <2>7, <2>8, <2>9, ClearToken, Zenon
<1> QED
  BY <1>1, <1>2, <1>3, <1>4, <1>5, ClearStep, Zenon

\* One semaphore of a process that clears.
LEMMA ClearedSem ==
  ASSUME LifeInv, NEW p \in Users, pc[p] \in Using, NEW n \in {"items", "space"}, NEW v \in Int
  PROVE  sem' = [sem EXCEPT ![hold[p][n]] = v] =>
           /\ sem' \in Seq(Int) /\ Len(sem') = Len(sem) /\ sem'[hold[p][n]] = v
           /\ \A j \in 1..Len(sem) : j # hold[p][n] => sem'[j] = sem[j]
<1>1. sem \in Seq(Int) /\ hold[p][n] \in 1..Len(sem)
  BY UserFacts, UseFacts
<1>2. ASSUME NEW i \in 1..Len(sem), NEW t, t = [sem EXCEPT ![i] = v]
      PROVE  /\ t \in Seq(Int) /\ Len(t) = Len(sem) /\ t[i] = v
             /\ \A j \in 1..Len(sem) : j # i => t[j] = sem[j]
  BY <1>1, <1>2, UpdatedSeq, SMT
<1> QED
  BY <1>1, <1>2, Zenon

\* What holds in the middle of a clear.
LEMMA ClearFacts ==
  ASSUME LifeInv, QueueInv, destroyed = 0, ~muddled, NEW p \in Users, pc[p] \in ClearSteps
  PROVE  /\ \A n \in {"items", "space", "queue"} : hold[p][n] = names[n] /\ names[n] # 0
         /\ names["items"] # names["space"]
         /\ names["items"] \in 1..Len(sem) /\ names["space"] \in 1..Len(sem)
         /\ \A q \in Users : q # p => pc[q] \notin ClearSteps
         /\ Messages = <<>> /\ sem[names["items"]] \in Nat /\ sem[names["space"]] \in Nat
         /\ pc[p] # "drain" => sem[names["items"]] = 0
         /\ pc[p] = "refill" => sem[names["space"]] = 0
<1>1. TokenInv /\ pc[p] \in Using
  BY DEF QueueInv, Using
<1>2. /\ \A n \in {"items", "space", "queue"} : hold[p][n] = names[n] /\ names[n] # 0
      /\ names["items"] # names["space"]
  BY <1>1, UseNames
<1>3. names["items"] \in 1..Len(sem) /\ names["space"] \in 1..Len(sem)
  BY <1>1, <1>2, UseFacts
<1>4. /\ \A q \in Users : q # p => pc[q] \notin ClearSteps
      /\ Messages = <<>> /\ sem[names["items"]] \in Nat /\ sem[names["space"]] \in Nat
      /\ pc[p] # "drain" => sem[names["items"]] = 0
      /\ pc[p] = "refill" => sem[names["space"]] = 0
  BY <1>1 DEF TokenInv
<1> QED
  BY <1>2, <1>3, <1>4

\* A token less, or the next semaphore.
LEMMA DrainLife ==
  ASSUME LifeInv, QueueInv, NEW p \in Users, p # Agent, Drain(p), UNCHANGED sessionVars
  PROVE  LifeInv' /\ QueueInv'
<1>1. UNCHANGED <<scenario, names, queue, hold, destroyed, muddled, doing, state>>
  BY DEF Drain, sessionVars, agentVars
<1>2. PICK s \in {<<"drain", "items", "drainspace">>, <<"drainspace", "space", "refill">>} :
        /\ At(p, s[1])
        /\ IF sem[hold[p][s[2]]] > 0
             THEN sem' = [sem EXCEPT ![hold[p][s[2]]] = @ - 1] /\ UNCHANGED pc
             ELSE Go(p, s[3]) /\ UNCHANGED sem
  BY Zenon DEF Drain
<1>3. \/ s[1] = "drain" /\ s[2] = "items" /\ s[3] = "drainspace"
      \/ s[1] = "drainspace" /\ s[2] = "space" /\ s[3] = "refill"
  BY <1>2, SMT
<1>4. /\ pc[p] = s[1] /\ s[1] \in ClearSteps /\ s[3] \in ClearSteps /\ pc[p] \in Using
      /\ s[2] \in {"items", "space"}
  BY <1>2, <1>3 DEF At, ClearSteps, Using
<1>5. hold[p][s[2]] \in 1..Len(sem) /\ sem \in Seq(Int) /\ queue \in Seq(Seq(Users))
      /\ muddled \in BOOLEAN
  BY <1>4, UseFacts, UserFacts
<1>6. sem[hold[p][s[2]]] \in Int
  BY <1>5, SMT
<1>7. CASE sem[hold[p][s[2]]] > 0
  <2>1. PICK v \in Int : v = sem[hold[p][s[2]]] - 1
    BY <1>6
  <2>2. sem' = [sem EXCEPT ![hold[p][s[2]]] = v] /\ pc' = pc
    BY <1>2, <1>7, <2>1
  <2>3. /\ sem' \in Seq(Int) /\ Len(sem') = Len(sem) /\ sem'[hold[p][s[2]]] = v
        /\ \A j \in 1..Len(sem) : j # hold[p][s[2]] => sem'[j] = sem[j]
    BY <1>4, <2>2, ClearedSem, Zenon
  <2>4. ASSUME destroyed = 0, ~muddled PROVE TokenInv'
    <3>1. /\ \A n \in {"items", "space", "queue"} : hold[p][n] = names[n] /\ names[n] # 0
          /\ names["items"] # names["space"]
          /\ names["items"] \in 1..Len(sem) /\ names["space"] \in 1..Len(sem)
          /\ \A q \in Users : q # p => pc[q] \notin ClearSteps
          /\ Messages = <<>> /\ sem[names["items"]] \in Nat /\ sem[names["space"]] \in Nat
          /\ pc[p] # "drain" => sem[names["items"]] = 0
      BY <1>4, <2>4, ClearFacts
    <3>2. Messages' = <<>>
      BY <1>1, <3>1 DEF Messages
    <3>3. v \in Nat
      BY <1>6, <1>7, <2>1, SMT
    <3>4. \A n \in {"items", "space"} : sem'[names[n]] = IF n = s[2] THEN v ELSE sem[names[n]]
      BY <1>4, <2>3, <3>1
    <3>5. sem'[names["items"]] \in Nat /\ sem'[names["space"]] \in Nat
      BY <3>1, <3>3, <3>4
    <3>6. pc[p] # "drain" => sem'[names["items"]] = 0 /\ pc[p] # "refill"
      BY <1>3, <1>4, <3>1, <3>4
    <3> QED
      BY <1>1, <1>4, <2>2, <3>1, <3>2, <3>5, <3>6, ClearToken
  <2>5. pc' = [pc EXCEPT ![p] = s[1]]
    BY <1>4, <2>2 DEF LifeInv, LifeTypes
  <2> QED
    BY <1>1, <1>4, <1>5, <2>3, <2>4, <2>5, ClearStep, Zenon
<1>8. CASE ~(sem[hold[p][s[2]]] > 0)
  <2>1. pc' = [pc EXCEPT ![p] = s[3]] /\ sem' = sem
    BY <1>2, <1>8 DEF Go
  <2>2. ASSUME destroyed = 0, ~muddled PROVE TokenInv'
    <3>1. /\ \A n \in {"items", "space", "queue"} : hold[p][n] = names[n] /\ names[n] # 0
          /\ \A q \in Users : q # p => pc[q] \notin ClearSteps
          /\ Messages = <<>> /\ sem[names["items"]] \in Nat /\ sem[names["space"]] \in Nat
          /\ pc[p] # "drain" => sem[names["items"]] = 0
      BY <1>4, <2>2, ClearFacts
    <3>2. Messages' = <<>>
      BY <1>1, <2>1, <3>1 DEF Messages
    <3>3. sem[names[s[2]]] = 0
      BY <1>4, <1>8, <3>1, SMT
    <3>4. sem[names["items"]] = 0 /\ (s[3] = "refill" => sem[names["space"]] = 0)
      BY <1>3, <1>4, <3>1, <3>3
    <3>5. pc'[p] = s[3] /\ \A q \in Users : q # p => pc'[q] \notin ClearSteps
      BY <2>1, <3>1 DEF LifeInv, LifeTypes
    <3> QED
      BY <1>1, <1>4, <2>1, <3>1, <3>2, <3>4, <3>5, ClearToken
  <2> QED
    BY <1>1, <1>4, <1>5, <2>1, <2>2, ClearStep, Zenon
<1> QED
  BY <1>7, <1>8

\* The free slots come back.
LEMMA RefillLife ==
  ASSUME LifeInv, QueueInv, NEW p \in Users, p # Agent, Refill(p), UNCHANGED sessionVars
  PROVE  LifeInv' /\ QueueInv'
<1>1. /\ UNCHANGED <<scenario, names, queue, hold, destroyed, muddled, doing, state>>
      /\ pc[p] = "refill" /\ pc' = [pc EXCEPT ![p] = "cleared"]
  BY DEF Refill, Move, At, Go, sessionVars, agentVars
<1>2. pc[p] \in ClearSteps /\ pc[p] \in Using /\ "cleared" \notin ClearSteps
  BY <1>1 DEF ClearSteps, Using
<1>3. hold[p]["space"] \in 1..Len(sem) /\ sem \in Seq(Int) /\ queue \in Seq(Seq(Users))
      /\ muddled \in BOOLEAN
  BY <1>2, UseFacts, UserFacts
<1>4. sem[hold[p]["space"]] \in Int
  BY <1>3, SMT
<1>5. PICK v \in Int : v = sem[hold[p]["space"]] + Capacity
  BY <1>4, ScenarioAssumption
<1>6. sem' = [sem EXCEPT ![hold[p]["space"]] = v]
  BY <1>5 DEF Refill
<1>7. /\ sem' \in Seq(Int) /\ Len(sem') = Len(sem) /\ sem'[hold[p]["space"]] = v
      /\ \A j \in 1..Len(sem) : j # hold[p]["space"] => sem'[j] = sem[j]
  BY <1>2, <1>6, ClearedSem, Zenon
<1>8. ASSUME destroyed = 0, ~muddled PROVE TokenInv'
  <2>1. /\ \A n \in {"items", "space", "queue"} : hold[p][n] = names[n] /\ names[n] # 0
        /\ names["items"] # names["space"]
        /\ names["items"] \in 1..Len(sem) /\ names["space"] \in 1..Len(sem)
        /\ \A q \in Users : q # p => pc[q] \notin ClearSteps
        /\ Messages = <<>> /\ sem[names["items"]] = 0 /\ sem[names["space"]] = 0
    BY <1>1, <1>2, <1>8, ClearFacts
  <2>2. Messages' = <<>>
    BY <1>1, <2>1 DEF Messages
  <2>3. sem'[names["items"]] = 0 /\ sem'[names["space"]] = 0 + Capacity
    BY <1>5, <1>7, <2>1
  <2>4. /\ Len(Messages') <= Capacity /\ sem'[names["items"]] = Len(Messages')
        /\ sem'[names["space"]] = Capacity - Len(Messages')
    BY <2>2, <2>3, ScenarioAssumption, SMT
  <2>5. \A q \in Users : pc'[q] \notin ClearSteps
    BY <1>1, <1>2, <2>1 DEF LifeInv, LifeTypes
  <2> QED
    BY <1>1, <2>1, <2>4, <2>5, QuietToken, Zenon
<1> QED
  BY <1>1, <1>2, <1>3, <1>7, <1>8, ClearStep, Zenon

-----------------------------------------------------------------------------
(* One queue: the theorem *)

\* Nobody has anything open, and at most a file of an earlier session is there.
LEMMA LifeInit ==
  ASSUME Init
  PROVE  LifeInv /\ QueueInv
<1>1. /\ scenario \in Scenarios /\ sem = <<>> /\ pc = [p \in Users |-> "off"]
      /\ hold = [p \in Users |-> NoHandles] /\ destroyed = 0 /\ muddled = FALSE
      /\ state = <<>> /\ doing = Agent
  BY DEF Init
<1>2. /\ names = [n \in Names |-> IF n = "queue" /\ scenario.left > 0 THEN 1 ELSE 0]
      /\ queue = IF scenario.left > 0 THEN <<[i \in 1..scenario.left |-> Agent]>> ELSE <<>>
  BY DEF Init, Names
<1>3. Agent \in Users /\ scenario.left \in 0..Capacity /\ Capacity \in Nat
  BY <1>1, UsersAssumption, ScenarioAssumption
<1>4. /\ names \in [Names -> Nat] /\ names["items"] = 0 /\ names["space"] = 0 /\ names["ready"] = 0
      /\ names["state"] = 0 /\ names["queue"] \in {0, 1} /\ (names["queue"] = 1 <=> scenario.left > 0)
  BY <1>2 DEF Names
<1>5. PICK m \in Seq(Users) : m = [i \in 1..scenario.left |-> Agent] /\ Len(m) <= Capacity
  <2>1. PICK k \in Nat : k = scenario.left /\ k <= Capacity
    BY <1>3, SMT
  <2>2. PICK m : m = [i \in 1..k |-> Agent]
    BY Zenon
  <2>3. m \in Seq(Users) /\ Len(m) = k
    BY <1>3, <2>2, SMT
  <2> QED
    BY <2>1, <2>2, <2>3, Zenon
<1>6. /\ queue \in Seq(Seq(Users)) /\ names["queue"] <= Len(queue)
      /\ (names["queue"] # 0 => queue[names["queue"]] = m)
  <2>1. CASE scenario.left > 0
    <3>1. queue = <<m>> /\ names["queue"] = 1
      BY <1>2, <1>4, <1>5, <2>1
    <3> QED
      BY <3>1, <1>5, SMT
  <2>2. CASE ~(scenario.left > 0)
    <3>1. queue = <<>> /\ names["queue"] = 0
      BY <1>2, <1>4, <2>2
    <3> QED
      BY <3>1, SMT
  <2> QED
    BY <2>1, <2>2
<1>7. NoHandles \in [Names -> Nat] /\ \A n \in Names : NoHandles[n] = 0
  BY DEF NoHandles, Names
<1>8. \A p \in Users : pc[p] = "off" /\ hold[p] = NoHandles
  BY <1>1
<1>9. "off" \in Places /\ "off" \in Connecting
      /\ "off" \notin ClearSteps \cup Leading \cup Unlinking \cup Using
  BY DEF Places, ClearSteps, Leading, Unlinking, Connecting, Using, Service
<1>10. LifeTypes
  <2>1. sem \in Seq(Int) /\ state \in Seq(File)
    BY <1>1, SMT
  <2>2. pc \in [Users -> Places] /\ hold \in [Users -> [Names -> Nat]]
    BY <1>1, <1>7, <1>9
  <2> QED
    BY <1>1, <1>3, <1>4, <1>6, <2>1, <2>2 DEF LifeTypes
<1>11. BoundInv
  <2>1. Len(sem) = 0 /\ Len(state) = 0 /\ Len(queue) \in Nat
    BY <1>1, <1>6, SMT
  <2>2. InRange(names, Len(sem), Len(queue), Len(state))
    BY <1>4, <1>6, <2>1, SMT DEF InRange, Sems
  <2>3. InRange(NoHandles, Len(sem), Len(queue), Len(state))
    BY <1>7, <2>1, SMT DEF InRange, Sems, Names
  <2> QED
    BY <1>8, <2>2, <2>3 DEF BoundInv
<1>12. \A p \in Users : Fits(p, pc[p], hold[p])
  BY <1>7, <1>8 DEF Fits, Leading, Using, Service, ClearSteps, Names
<1>13. ShareInv
  BY <1>3, <1>4, <1>7, <1>8, <1>9 DEF ShareInv, Leading
<1>14. TokenInv
  BY <1>4, <1>5, <1>6, <1>8, <1>9 DEF TokenInv, Messages
<1>15. Distinct
  BY <1>4 DEF Distinct, Sems
<1> QED
  BY <1>10, <1>11, <1>12, <1>13, <1>14, <1>15 DEF LifeInv, QueueInv

\* Every step keeps to it.
LEMMA LifeNext ==
  ASSUME LifeInv, QueueInv, [Next]_vars
  PROVE  LifeInv' /\ QueueInv'
<1>0. Agent \in Users /\ Clients \subseteq Users /\ \A c \in Clients : c # Agent
  BY UsersAssumption
<1>1. CASE UNCHANGED vars
  <2>1. doing' \in Users /\ state' \in Seq(File) /\ Len(state') = Len(state)
        /\ UNCHANGED <<scenario, lifeVars>>
    <3>1. UNCHANGED <<scenario, lifeVars, doing, state>>
      BY <1>1 DEF vars, sessionVars, agentVars
    <3> QED
      BY <1>0, <3>1, UserFacts
  <2> QED
    BY <2>1, SameLife, Zenon
<1>2. ASSUME NEW p \in Users, UserStep(p) PROVE LifeInv' /\ QueueInv'
  <2>1. CASE Construct(p) /\ UNCHANGED sessionVars
    BY <2>1, ConstructLife, Zenon
  <2>2. CASE UnlinkNext(p) /\ UNCHANGED sessionVars
    BY <2>2, UnlinkNextLife, Zenon
  <2>3. CASE p = Agent /\ AgentStep
    BY <1>0, <2>3, OpenStateLife, AgentSteps, StepCommandLife, UnlinkStateLife, CloseQueueLife, Zenon
       DEF AgentStep
  <2>4. CASE p \in Clients /\ ClientStep(p)
    <3>1. CASE SendCommand(p)
      <4>1. Move(p, "up", "waiting") /\ Put(p, p) /\ UNCHANGED <<names, hold, destroyed>>
            /\ UNCHANGED sessionVars
        BY <3>1 DEF SendCommand
      <4> QED
        BY <1>0, <2>4, <4>1, PutLife
    <3>2. CASE UseQueue(p)
      <4>1. UNCHANGED sessionVars
        BY <3>2 DEF UseQueue
      <4>2. CASE Move(p, "up", "cleared") /\ Put(p, Agent) /\ UNCHANGED <<names, hold, broken, destroyed>>
        BY <1>0, <2>4, <4>1, <4>2, PutLife
      <4>3. CASE ResetPointers(p, "up") \/ Drain(p) \/ Refill(p) \/ CloseHandles(p, "cleared")
        BY <1>0, <2>4, <4>1, <4>3, ResetLife, DrainLife, RefillLife, CloseHandlesLife, Zenon
      <4> QED
        BY <3>2, <4>2, <4>3 DEF UseQueue
    <3>3. CASE PollHeartbeat(p) \/ Refuse(p) \/ Acquire(p) \/ ReadOutcome(p)
      BY <2>4, <3>3, ClientMoves, Zenon
    <3>4. CASE FindState(p)
      BY <2>4, <3>4, FindStateLife, Zenon
    <3>5. CASE CloseQueue(p, "closing") /\ UNCHANGED sessionVars
      BY <1>0, <3>5, CloseQueueLife, Zenon
    <3> QED
      BY <2>4, <3>1, <3>2, <3>3, <3>4, <3>5 DEF ClientStep
  <2> QED
    BY <1>2, <2>1, <2>2, <2>3, <2>4, Zenon DEF UserStep
<1>3. CASE StartAgent \/ AgentDies \/ Tick
  BY <1>3, StartAgentLife, AgentDiesLife, TickLife, Zenon
<1>4. ASSUME NEW c \in Clients, StartClient(c) \/ WaitTimeout(c) PROVE LifeInv' /\ QueueInv'
  BY <1>4, ClientMoves, Zenon
<1>5. ASSUME NEW p \in Users, LeaderFails(p), UNCHANGED sessionVars PROVE LifeInv' /\ QueueInv'
  BY <1>5, LeaderFailsLife, Zenon
<1> QED
  BY <1>1, <1>2, <1>3, <1>4, <1>5, Zenon DEF Next

\* The invariant says what a queue owes its users.
LEMMA SharedQueue ==
  ASSUME LifeInv, QueueInv
  PROVE  QueueIsShared
<1>1. ASSUME destroyed = 0, NEW p \in Users, HasQueue(p)
      PROVE  \A n \in {"items", "space", "queue"} : hold[p][n] = names[n] /\ names[n] # 0
  <2>1. \A n \in {"items", "space", "queue"} : hold[p][n] # 0
    BY <1>1 DEF HasQueue, LifeInv, Fits
  <2>2. \A n \in {"items", "space", "queue"} : hold[p][n] \in {0, names[n]}
    BY <1>1 DEF QueueInv, ShareInv, Names
  <2> QED
    BY <2>1, <2>2
<1>2. ASSUME destroyed = 0 PROVE OneQueue
  BY <1>1, <1>2 DEF OneQueue, Handles
<1>3. ASSUME destroyed = 0, ~muddled, NEW p \in Users, HasQueue(p), ~Clearing(p),
             pc[p] \notin ClearSteps
      PROVE  /\ sem[hold[p].items] = Len(queue[hold[p].queue])
             /\ sem[hold[p].space] = Capacity - Len(queue[hold[p].queue])
  <2>1. \A n \in {"items", "space", "queue"} : hold[p][n] = names[n] /\ names[n] # 0
    BY <1>1, <1>3
  <2>2. ASSUME NEW q \in Users, pc[q] \in ClearSteps PROVE FALSE
    <3>1. q # p /\ pc[q] \in Using /\ ShareInv
      BY <1>3, <2>2 DEF Using, QueueInv
    <3>2. hold[q]["queue"] = hold[p]["queue"]
      BY <2>1, <3>1, UserNames
    <3> QED
      BY <1>3, <2>2, <3>1, <3>2 DEF Clearing
  <2>3. TokenInv /\ Quiet
    BY <1>3, <2>2 DEF QueueInv, Quiet
  <2> QED
    BY <2>1, <2>3 DEF TokenInv, Messages
<1>4. destroyed \in Nat
  BY DEF LifeInv, LifeTypes
<1>5. destroyed = 0 \/ destroyed > 0
  BY <1>4
<1>6. OneQueue
  BY <1>2, <1>5 DEF OneQueue
<1>7. TokensExact
  BY <1>3, <1>5 DEF TokensExact
<1> QED
  BY <1>6, <1>7 DEF QueueIsShared

\* Always.
LEMMA LifeAlways == Spec => [](LifeInv /\ QueueInv)
<1>1. Init => LifeInv /\ QueueInv
  BY LifeInit
<1>2. LifeInv /\ QueueInv /\ [Next]_vars => (LifeInv /\ QueueInv)'
  BY LifeNext
<1> QED
  BY <1>1, <1>2, PTL DEF Spec

\* Until somebody destroys it there is one queue, and its semaphores count its
\* messages and its free slots, whoever starts in what order, over messages of an
\* earlier session and after a clear that nobody got into (command_queue.py).
THEOREM QueueAlwaysShared == Spec => []QueueIsShared
<1>1. LifeInv /\ QueueInv => QueueIsShared
  BY SharedQueue
<1> QED
  BY <1>1, LifeAlways, PTL

-----------------------------------------------------------------------------
(* Failures: what most steps have in common *)

\* The commands of c in the queues are ones that were there, in the same places.
Inherited(c) ==
  \A f \in 1..Len(queue') : \A i \in 1..Len(queue'[f]) : queue'[f][i] = c =>
    f \in 1..Len(queue) /\ i \in 1..Len(queue[f]) /\ queue[f][i] = c

\* There are no more of them than before.
LEMMA Inherits ==
  ASSUME NEW c, Inherited(c)
  PROVE  (In(c)' => In(c)) /\ (Once(c) => Once(c)')
<1>1. In(c)' => In(c)
  BY Zenon DEF Inherited, In
<1>2. ASSUME Once(c) PROVE Once(c)'
  <2> SUFFICES ASSUME NEW f \in 1..Len(queue'), NEW g \in 1..Len(queue'),
                      NEW i \in 1..Len(queue'[f]), NEW j \in 1..Len(queue'[g]),
                      queue'[f][i] = c /\ queue'[g][j] = c
               PROVE  f = g /\ i = j
    BY Zenon DEF Once
  <2>1. /\ f \in 1..Len(queue) /\ i \in 1..Len(queue[f]) /\ queue[f][i] = c
        /\ g \in 1..Len(queue) /\ j \in 1..Len(queue[g]) /\ queue[g][j] = c
    BY Zenon DEF Inherited
  <2> QED
    BY <1>2, <2>1, Zenon DEF Once
<1> QED
  BY <1>1, <1>2

\* What FailInv(c) speaks of is as before.
LEMMA AsideFail ==
  ASSUME LifeInv, NEW c \in Clients, FailInv(c), verdict'[c] = verdict[c], done'[c] = done[c],
         outcome'[c] = outcome[c], late'[c] = late[c],
         In(c)' => In(c), Once(c) => Once(c)',
         Handled(c)' =>
           Handled(c) /\ pc'[Agent] = pc[Agent] /\ hold'[Agent].state = hold[Agent].state,
         Sent(c) => Sent(c)',
         pc'[c] \in {"waiting", "woken"} => pc'[c] = pc[c],
         Sent(c) => hold'[c].state = hold[c].state,
         Len(state') \in Nat, Len(state) <= Len(state'),
         \A f \in 1..Len(state) : state'[f].errors[c] = state[f].errors[c]
  PROVE  FailInv(c)'
<1>1. Len(state) \in Nat
  BY SMTT(20) DEF LifeInv, LifeTypes
<1>2. 1..Len(state) \subseteq 1..Len(state')
  BY <1>1, SMT
<1>3. verdict[c].what # "none" =>
        /\ verdict[c].file \in 1..Len(state')
        /\ state'[verdict[c].file].errors[c] = state[verdict[c].file].errors[c]
  BY <1>2 DEF FailInv
<1>4. ~Sent(c)' => /\ ~In(c)' /\ ~Handled(c)' /\ done'[c] = 0 /\ late'[c] = 0
                   /\ outcome'[c] = "none" /\ verdict'[c].what = "none"
  BY DEF FailInv
<1>5. /\ In(c)' => Once(c)' /\ ~Handled(c)' /\ verdict'[c].what = "none"
      /\ Handled(c)' \/ In(c)' => done'[c] = 0 /\ pc'[c] # "woken" /\ outcome'[c] # "ok"
  BY DEF FailInv
<1>6. Handled(c)' =>
        /\ pc'[Agent] = "handle" => verdict'[c].what = "none"
        /\ pc'[Agent] = "record" => verdict'[c].what # "none" /\ verdict'[c].file = Mine(Agent)'
        /\ pc'[Agent] = "release" => \/ verdict'[c].what = "ok"
                                     \/ /\ verdict'[c].what # "none"
                                        /\ verdict'[c].file = Mine(Agent)'
                                        /\ state'[Mine(Agent)'].errors[c] = 0
  BY <1>3 DEF FailInv, Mine
<1>7. /\ pc'[c] = "waiting" => (done'[c] = 0 => late'[c] = 0) /\ outcome'[c] = "none"
      /\ pc'[c] = "woken" => outcome'[c] = "none"
  BY DEF FailInv
<1>8. Released(c)' => verdict'[c].what # "none" /\ Recorded(c)'
  BY <1>3 DEF FailInv, Released, Recorded
<1>9. outcome'[c] = "ok" => \/ verdict'[c].what = "ok" \/ late'[c] > Ttl
                            \/ verdict'[c].file # hold'[c].state
  BY DEF FailInv
<1> QED
  BY <1>3, <1>4, <1>5, <1>6, <1>7, <1>8, <1>9 DEF FailInv

\* What of the queues, the agent and the clients FailInv speaks of, is as before.
LEMMA AsideSeen ==
  ASSUME LifeInv, SeenInv, tracked' \subseteq Clients, UNCHANGED <<verdict, done, outcome, late>>,
         \A c \in Clients : (In(c)' => In(c)) /\ (Once(c) => Once(c)'),
         \A c \in Clients : Handled(c)' =>
           Handled(c) /\ pc'[Agent] = pc[Agent] /\ hold'[Agent].state = hold[Agent].state,
         \A c \in Clients : Sent(c) => Sent(c)',
         \A c \in Clients : pc'[c] \in {"waiting", "woken"} => pc'[c] = pc[c],
         \A c \in Clients : Sent(c) => hold'[c].state = hold[c].state,
         Len(state') \in Nat, Len(state) <= Len(state'),
         \A f \in 1..Len(state) : state'[f].errors = state[f].errors
  PROVE  SeenInv'
<1>1. FailTypes'
  BY DEF SeenInv, FailTypes
<1>2. \A c \in Clients : FailInv(c)'
  BY AsideFail DEF SeenInv
<1> QED
  BY <1>1, <1>2 DEF SeenInv

\* Places of a process that is neither at a command nor has sent one.
Apart == Places \ ({"handle", "record", "release", "waiting", "woken", "closing", "closed"} \cup Unlinking)

\* A process goes from place to place outside of commands.
LEMMA ApartSeen ==
  ASSUME LifeInv, SeenInv, NEW p \in Users, NEW place \in Apart, pc[p] \in Apart, Go(p, place),
         UNCHANGED <<verdict, done, outcome, late>>, tracked' \subseteq Clients,
         \A c \in Clients : (In(c)' => In(c)) /\ (Once(c) => Once(c)'),
         \A q \in Users \ {p} : hold'[q] = hold[q], doing' = doing,
         Len(state') \in Nat, Len(state) <= Len(state'),
         \A f \in 1..Len(state) : state'[f].errors = state[f].errors
  PROVE  SeenInv'
<1>1. \A q \in Users : /\ q = p => pc'[q] = place
                       /\ q # p => pc'[q] = pc[q]
  BY DEF LifeInv, LifeTypes, Go
<1>2. Agent \in Users /\ Clients \subseteq Users
  BY UsersAssumption
<1>3. \A c \in Clients : Handled(c)' =>
        Handled(c) /\ pc'[Agent] = pc[Agent] /\ hold'[Agent].state = hold[Agent].state
  BY <1>1, <1>2 DEF Handled, Apart
<1>4. \A c \in Clients : Sent(c) => c # p /\ pc'[c] = pc[c] /\ hold'[c] = hold[c]
  BY <1>1, <1>2 DEF Sent, Apart
<1>5. \A c \in Clients : Sent(c) => Sent(c)'
  BY <1>4 DEF Sent
<1>6. \A c \in Clients : pc'[c] \in {"waiting", "woken"} => pc'[c] = pc[c]
  BY <1>1, <1>2 DEF Apart
<1> QED
  BY <1>3, <1>4, <1>5, <1>6, AsideSeen

\* The queues are what they were.
LEMMA KeptQueue ==
  ASSUME queue' = queue
  PROVE  \A c \in Clients : (In(c)' => In(c)) /\ (Once(c) => Once(c)')
<1>1. \A c : Inherited(c)
  BY DEF Inherited
<1> QED
  BY <1>1, Inherits

\* Where the constructor takes a process, and what it leaves to the others.
Building == {"new", "lead", "items", "space", "announce", "up", "raised", "follow", "wait", "pass",
             "open", "getitems", "getspace"}

\* The constructor goes from place to place.
LEMMA Builds ==
  ASSUME NEW p \in Users, Construct(p) \/ LeaderFails(p)
  PROVE  \E place \in Building : Go(p, place) /\ pc[p] \in Building
<1>1. CASE GetSemaphore(p)
  <2>1. PICK s \in {<<"getitems", "items", "getspace">>, <<"getspace", "space", "up">>} :
          pc[p] = s[1] /\ (Go(p, "raised") \/ Go(p, s[3]))
    BY <1>1 DEF GetSemaphore, At
  <2>2. s[1] \in {"getitems", "getspace"} /\ s[3] \in {"getspace", "up"}
    BY <2>1, SMT
  <2> QED
    BY <2>1, <2>2 DEF Building
<1>2. CASE Elect(p) \/ CreateItems(p) \/ CreateSpace(p) \/ Follow(p)
  BY <1>2 DEF Elect, CreateItems, CreateSpace, Follow, GiveUpLead, At, Building
<1>3. CASE LeaderOpens(p) \/ Announce(p) \/ WaitReady(p) \/ FollowerOpens(p) \/ LeaderFails(p)
  BY <1>3 DEF LeaderOpens, Announce, WaitReady, FollowerOpens, LeaderFails, Move, At, Building
<1> QED
  BY <1>1, <1>2, <1>3 DEF Construct

\* The handles of the others, and the name of the state file, are not the queue's.
LEMMA BuildsAlone ==
  ASSUME LifeInv, NEW p \in Users, Construct(p) \/ LeaderFails(p)
  PROVE  (\A q \in Users \ {p} : hold'[q] = hold[q]) /\ names'["state"] = names["state"]
<1>1. \A q \in Users \ {p} : hold'[q] = hold[q]
  <2>1. hold \in [Users -> [Names -> Nat]]
    BY DEF LifeInv, LifeTypes
  <2>2. \/ hold' = hold
        \/ \E n \in Names : \E k : hold' = [hold EXCEPT ![p][n] = k]
    <3>1. CASE GetSemaphore(p)
      <4>1. PICK s \in {<<"getitems", "items", "getspace">>, <<"getspace", "space", "up">>} :
              hold' = hold \/ hold' = [hold EXCEPT ![p][s[2]] = names[s[2]]]
        BY <3>1 DEF GetSemaphore, Open
      <4>2. s[2] \in Names
        BY <4>1, SMT DEF Names
      <4> QED
        BY <4>1, <4>2, Zenon
    <3>2. CASE Elect(p) \/ CreateItems(p) \/ CreateSpace(p) \/ Follow(p)
      <4>1. "ready" \in Names /\ "items" \in Names /\ "space" \in Names
        BY DEF Names
      <4>2. \A n, v : Create(p, n, v) => hold' = [hold EXCEPT ![p][n] = Len(sem) + 1]
        BY Zenon DEF Create
      <4>3. hold' = hold \/ (\E n \in Names : \E v : Create(p, n, v)) \/ Open(p, "ready")
        BY <3>2, <4>1, Zenon DEF Elect, CreateItems, CreateSpace, Follow, GiveUpLead
      <4> QED
        BY <4>1, <4>2, <4>3, Zenon DEF Open
    <3>3. CASE LeaderOpens(p) \/ Announce(p) \/ WaitReady(p) \/ FollowerOpens(p) \/ LeaderFails(p)
      BY <3>3, SMT DEF LeaderOpens, Announce, WaitReady, FollowerOpens, LeaderFails, OpenLmdb, Open, Names
    <3> QED
      BY <3>1, <3>2, <3>3, Zenon DEF Construct
  <2> QED
    BY <2>1, <2>2
<1>2. names'["state"] = names["state"]
  <2>1. names \in [Names -> Nat] /\ "state" \in Names
    BY DEF LifeInv, LifeTypes, Names
  <2>2. CASE names' = names
    BY <2>2
  <2>3. CASE \E n \in Names \ {"state"} : \E k : names' = [names EXCEPT ![n] = k]
    BY <2>1, <2>3
  <2>4. CASE GiveUpLead(p)
    BY <2>1, <2>4, SMT DEF GiveUpLead
  <2>5. \/ names' = names \/ GiveUpLead(p)
        \/ \E n \in Names \ {"state"} : \E k : names' = [names EXCEPT ![n] = k]
    <3>1. {"ready", "items", "space", "queue"} \subseteq Names \ {"state"}
      BY DEF Names
    <3>2. \A n, v : Create(p, n, v) => \E k : names' = [names EXCEPT ![n] = k]
      BY Zenon DEF Create
    <3>3. CASE Elect(p) \/ CreateItems(p) \/ CreateSpace(p)
      BY <3>1, <3>2, <3>3, Zenon DEF Elect, CreateItems, CreateSpace
    <3>4. CASE LeaderOpens(p) \/ FollowerOpens(p)
      BY <3>1, <3>4 DEF LeaderOpens, FollowerOpens, OpenLmdb
    <3>5. CASE Announce(p) \/ WaitReady(p) \/ LeaderFails(p) \/ Follow(p) \/ GetSemaphore(p)
      BY <3>5 DEF Announce, WaitReady, LeaderFails, Follow, GetSemaphore
    <3> QED
      BY <3>3, <3>4, <3>5, Zenon DEF Construct
  <2> QED
    BY <2>2, <2>3, <2>4, <2>5
<1> QED
  BY <1>1, <1>2


\* The constructor.
LEMMA ConstructSeen ==
  ASSUME LifeInv, SeenInv, NEW p \in Users, Construct(p) \/ LeaderFails(p), UNCHANGED sessionVars
  PROVE  SeenInv'
<1>1. UNCHANGED <<verdict, done, outcome, late, tracked, doing, state>>
  BY DEF sessionVars, agentVars, clientVars
<1>2. PICK place : Go(p, place) /\ pc[p] \in Apart /\ place \in Apart
  <2>1. Building \subseteq Apart
    BY DEF Building, Apart, Places, Connecting, Leading, Following, Using, Unlinking
  <2> QED
    BY <2>1, Builds
<1>3. ASSUME NEW c \in Clients PROVE (In(c)' => In(c)) /\ (Once(c) => Once(c)')
  <2>1. CASE queue' = queue
    BY <2>1, KeptQueue
  <2>2. CASE queue' = Append(queue, <<>>)
    <3>1. queue \in Seq(Seq(Users))
      BY DEF LifeInv, LifeTypes
    <3>2. ASSUME NEW f \in 1..Len(queue'), NEW i \in 1..Len(queue'[f])
          PROVE  f \in 1..Len(queue) /\ queue'[f] = queue[f]
      <4>1. f = Len(queue) + 1 => queue'[f] = <<>>
        BY <2>2, <3>1, SMTT(20)
      <4>2. queue'[f] # <<>>
        BY <3>2, SMTT(20)
      <4>3. f # Len(queue) + 1 => f \in 1..Len(queue) /\ queue'[f] = queue[f]
        BY <2>2, <3>1, SMT
      <4> QED
        BY <4>1, <4>2, <4>3
    <3>3. Inherited(c)
      BY <3>2, Zenon DEF Inherited
    <3> QED
      BY <3>3, Inherits
  <2> QED
    BY <2>1, <2>2, Zenon DEF Construct, Elect, LeaderOpens, CreateItems, CreateSpace, Announce,
                     Follow, WaitReady, FollowerOpens, GetSemaphore, LeaderFails, OpenLmdb
<1>4. \A q \in Users \ {p} : hold'[q] = hold[q]
  BY BuildsAlone
<1>5. Len(state') \in Nat /\ Len(state) <= Len(state') /\ tracked' \subseteq Clients
  BY <1>1, SMT DEF LifeInv, LifeTypes, SeenInv, FailTypes
<1> QED
  BY <1>1, <1>2, <1>3, <1>4, <1>5, ApartSeen, Zenon

-----------------------------------------------------------------------------
(* Failures: steps that have nothing to do with a command *)

\* The names of the queue go, one by one.
LEMMA CloseSeen ==
  ASSUME LifeInv, SeenInv, NEW p \in Users, CloseQueue(p, "closing") \/ UnlinkNext(p),
         UNCHANGED sessionVars
  PROVE  SeenInv'
<1>1. UNCHANGED <<verdict, done, outcome, late, tracked, doing, state>>
  BY DEF sessionVars, agentVars, clientVars
<1>2. PICK place \in {"unlink1", "unlink2", "unlink3", "unlink4", "closed"} :
        /\ pc[p] \in {"closing"} \cup Unlinking /\ Go(p, place)
        /\ hold' = LetGo(p) \/ hold' = hold
        /\ queue' = queue
  <2>1. CASE CloseQueue(p, "closing")
    BY <2>1 DEF CloseQueue, Move, At
  <2>2. CASE UnlinkNext(p)
    <3>1. PICK s \in {<<"unlink1", "items", "unlink2">>, <<"unlink2", "space", "unlink3">>,
                      <<"unlink3", "ready", "unlink4">>, <<"unlink4", "queue", "closed">>} :
            Move(p, s[1], s[3]) /\ hold' = IF s[3] = "unlink4" THEN LetGo(p) ELSE hold
      BY <2>2, Zenon DEF UnlinkNext
    <3>2. s[1] \in Unlinking /\ s[3] \in {"unlink2", "unlink3", "unlink4", "closed"}
      BY <3>1, SMT DEF Unlinking
    <3> QED
      BY <2>2, <3>1, <3>2 DEF UnlinkNext, Move, At
  <2> QED
    BY <2>1, <2>2
<1>3. \A q \in Users : /\ q = p => pc'[q] = place
                       /\ q # p => pc'[q] = pc[q]
                       /\ hold'[q].state = hold[q].state
  <2>1. pc \in [Users -> Places] /\ hold \in [Users -> [Names -> Nat]]
    BY DEF LifeInv, LifeTypes
  <2>2. \A q \in Users : LetGo(p)[q].state = hold[q].state
    BY <2>1, SMT DEF LetGo, NoHandles
  <2> QED
    BY <1>2, <2>1, <2>2 DEF Go
<1>4. Agent \in Users /\ Clients \subseteq Users
  BY UsersAssumption
<1>5. \A c \in Clients : Handled(c)' =>
        Handled(c) /\ pc'[Agent] = pc[Agent] /\ hold'[Agent].state = hold[Agent].state
  BY <1>1, <1>2, <1>3, <1>4 DEF Handled
<1>6. \A c \in Clients : Sent(c) => Sent(c)' /\ hold'[c].state = hold[c].state
  BY <1>2, <1>3, <1>4 DEF Sent, Unlinking
<1>7. \A c \in Clients : pc'[c] \in {"waiting", "woken"} => pc'[c] = pc[c]
  BY <1>2, <1>3, <1>4
<1>8. \A c \in Clients : (In(c)' => In(c)) /\ (Once(c) => Once(c)')
  BY <1>2, KeptQueue
<1>9. Len(state') \in Nat /\ Len(state) <= Len(state') /\ tracked' \subseteq Clients
      /\ \A f \in 1..Len(state) : state'[f].errors = state[f].errors
  BY <1>1, SMTT(20) DEF LifeInv, LifeTypes, SeenInv, FailTypes
<1> QED
  BY <1>1, <1>5, <1>6, <1>7, <1>8, <1>9, AsideSeen

\* The agent goes where no command is.
LEMMA AgentGoneSeen ==
  ASSUME LifeInv, SeenInv, NEW place \in Places \ {"handle", "record", "release"},
         pc' = [pc EXCEPT ![Agent] = place],
         UNCHANGED <<queue, verdict, done, outcome, late>>, tracked' \subseteq Clients,
         \A c \in Clients : hold'[c] = hold[c],
         Len(state') \in Nat, Len(state) <= Len(state'),
         \A f \in 1..Len(state) : state'[f].errors = state[f].errors
  PROVE  SeenInv'
<1>1. Agent \in Users /\ Clients \subseteq Users /\ \A c \in Clients : c # Agent
  BY UsersAssumption
<1>2. pc'[Agent] = place /\ \A c \in Clients : pc'[c] = pc[c]
  BY <1>1 DEF LifeInv, LifeTypes
<1>3. \A c \in Clients : ~Handled(c)'
  BY <1>2 DEF Handled
<1>4. \A c \in Clients : Sent(c) => Sent(c)' /\ hold'[c].state = hold[c].state
  BY <1>2 DEF Sent
<1>5. \A c \in Clients : (In(c)' => In(c)) /\ (Once(c) => Once(c)')
  BY KeptQueue
<1> QED
  BY <1>2, <1>3, <1>4, <1>5, AsideSeen

\* The agent comes and goes, and looks at an empty queue.
LEMMA AgentSeen ==
  ASSUME LifeInv, SeenInv, UnlinkState \/ AgentDies \/ StartAgent \/ OpenState \/ StepIdle
  PROVE  SeenInv'
<1>1. Agent \in Users /\ Clients \subseteq Users /\ \A c \in Clients : c # Agent
  BY UsersAssumption
<1>2. UNCHANGED <<queue, verdict, done, outcome, late>>
  BY DEF UnlinkState, AgentDies, StartAgent, OpenState, StepIdle, lifeVars, sessionVars,
         agentVars, clientVars
<1>3. PICK place \in Places \ {"handle", "record", "release"} : pc' = [pc EXCEPT ![Agent] = place]
  <2>1. {"off", "new", "loop"} \subseteq Places \ {"handle", "record", "release"}
    BY DEF Places, Connecting, Using, Service
  <2>2. pc[Agent] = "loop" /\ pc' = pc => pc' = [pc EXCEPT ![Agent] = "loop"]
    BY <1>1 DEF LifeInv, LifeTypes
  <2> QED
    BY <2>1, <2>2 DEF UnlinkState, AgentDies, StartAgent, OpenState, StepIdle, Move, Go, At, lifeVars
<1>4. \A c \in Clients : hold'[c] = hold[c]
  <2>1. hold \in [Users -> [Names -> Nat]]
    BY DEF LifeInv, LifeTypes
  <2>2. \/ hold' = hold \/ hold' = [hold EXCEPT ![Agent] = NoHandles]
        \/ \E k : hold' = [hold EXCEPT ![Agent]["state"] = k]
    BY Zenon DEF UnlinkState, AgentDies, StartAgent, OpenState, Open, StepIdle, lifeVars
  <2> QED
    BY <1>1, <2>1, <2>2
<1>5. tracked' \subseteq Clients
  BY DEF UnlinkState, AgentDies, StartAgent, OpenState, StepIdle, sessionVars, agentVars,
         SeenInv, FailTypes
<1>6. state \in Seq(File) /\ Len(state) \in Nat
  BY <1>1, UserFacts
<1>7. /\ Len(state') \in Nat /\ Len(state) <= Len(state')
      /\ \A f \in 1..Len(state) : state'[f].errors = state[f].errors
  <2>1. CASE state' = state
    BY <1>6, <2>1
  <2>2. CASE \E i : state' = [state EXCEPT ![i].age = 0]
    BY <1>6, <2>2, SMT
  <2>3. CASE \E v : state' = Append(state, v)
    BY <1>6, <2>3, SMT
  <2> QED
    BY <2>1, <2>2, <2>3, Zenon DEF UnlinkState, AgentDies, StartAgent, OpenState, StepIdle, Beat,
                                   sessionVars, agentVars
<1> QED
  BY <1>2, <1>3, <1>4, <1>5, <1>7, AgentGoneSeen, Zenon

\* A client looks for the agent.
LEMMA LookSeen ==
  ASSUME LifeInv, SeenInv, NEW c \in Clients,
         StartClient(c) \/ FindState(c) \/ PollHeartbeat(c) \/ Refuse(c)
  PROVE  SeenInv'
<1>1. c \in Users /\ c # Agent
  BY UsersAssumption
<1>2. UNCHANGED <<queue, verdict, done, outcome, late, tracked, doing, state>>
  BY DEF StartClient, FindState, PollHeartbeat, Refuse, sessionVars, agentVars, clientVars
<1>3. {"off", "look", "poll", "new", "refused"} \subseteq Apart
  BY DEF Apart, Places, Connecting, Unlinking
<1>4. pc[c] \in Apart
  BY <1>3 DEF StartClient, FindState, PollHeartbeat, Refuse, At
<1>5. PICK place \in Apart : Go(c, place)
  <2>1. pc' = pc => Go(c, pc[c])
    BY <1>1 DEF Go, LifeInv, LifeTypes
  <2> QED
    BY <1>3, <1>4, <2>1 DEF StartClient, FindState, PollHeartbeat, Refuse
<1>6. \A q \in Users \ {c} : hold'[q] = hold[q]
  <2>1. hold' = hold \/ hold' = [hold EXCEPT ![c]["state"] = names["state"]]
    BY DEF StartClient, FindState, PollHeartbeat, Refuse, Open
  <2> QED
    BY <2>1 DEF LifeInv, LifeTypes
<1>7. \A d \in Clients : (In(d)' => In(d)) /\ (Once(d) => Once(d)')
  BY <1>2, KeptQueue
<1>8. Len(state') \in Nat /\ Len(state) <= Len(state') /\ tracked' \subseteq Clients
      /\ \A f \in 1..Len(state) : state'[f].errors = state[f].errors
  BY <1>2, SMT DEF LifeInv, LifeTypes, SeenInv, FailTypes
<1> QED
  BY <1>1, <1>2, <1>4, <1>5, <1>6, <1>7, <1>8, ApartSeen, Zenon

\* Where the messages are after one is put in.
LEMMA PutPlaces ==
  ASSUME LifeInv, NEW p \in Users, pc[p] \in Using, NEW m \in Users, Put(p, m)
  PROVE  \A f \in 1..Len(queue') : \A i \in 1..Len(queue'[f]) :
           \/ f \in 1..Len(queue) /\ i \in 1..Len(queue[f]) /\ queue'[f][i] = queue[f][i]
           \/ queue'[f][i] = m /\ f = hold[p]["queue"] /\ i = Len(queue[f]) + 1
<1>1. /\ Len(queue') = Len(queue)
      /\ queue'[hold[p]["queue"]] = Append(queue[hold[p]["queue"]], m)
      /\ \A f \in 1..Len(queue) : f # hold[p]["queue"] => queue'[f] = queue[f]
  BY PutFacts
<1>2. hold[p]["queue"] \in 1..Len(queue) /\ queue[hold[p]["queue"]] \in Seq(Users)
  BY UseFacts
<1>3. ASSUME NEW s \in Seq(Users), NEW i \in 1..Len(Append(s, m))
      PROVE  \/ i \in 1..Len(s) /\ Append(s, m)[i] = s[i]
             \/ i = Len(s) + 1 /\ Append(s, m)[i] = m
  BY SMT
<1>4. ASSUME NEW f \in 1..Len(queue'), NEW i \in 1..Len(queue'[f])
      PROVE  \/ f \in 1..Len(queue) /\ i \in 1..Len(queue[f]) /\ queue'[f][i] = queue[f][i]
             \/ queue'[f][i] = m /\ f = hold[p]["queue"] /\ i = Len(queue[f]) + 1
  <2>1. CASE f = hold[p]["queue"]
    BY <1>1, <1>2, <1>3, <2>1, Zenon
  <2>2. CASE f # hold[p]["queue"]
    BY <1>1, <2>2, Zenon
  <2> QED
    BY <2>1, <2>2
<1> QED
  BY <1>4

\* A user of the bare queue.
LEMMA UseSeen ==
  ASSUME LifeInv, SeenInv, NEW p \in Clients, UseQueue(p)
  PROVE  SeenInv'
<1>1. p \in Users /\ p # Agent /\ Agent \in Users
  BY UsersAssumption
<1>2. UNCHANGED <<verdict, done, outcome, late, tracked, doing, state>>
  BY DEF UseQueue, sessionVars, agentVars, clientVars
<1>3. Len(state') \in Nat /\ Len(state) <= Len(state') /\ tracked' \subseteq Clients
      /\ \A f \in 1..Len(state) : state'[f].errors = state[f].errors
  BY <1>2, SMT DEF LifeInv, LifeTypes, SeenInv, FailTypes
<1>4. {"up", "cleared", "drain", "drainspace", "refill"} \subseteq Apart
  BY DEF Apart, Places, Using, ClearSteps, Unlinking
<1>5. CASE CloseHandles(p, "cleared")
  <2>1. pc[p] = "cleared" /\ Go(p, "closed") /\ queue' = queue /\ hold' = LetGo(p)
    BY <1>5 DEF CloseHandles, Move, At
  <2>2. \A q \in Users : /\ q = p => pc'[q] = "closed"
                         /\ q # p => pc'[q] = pc[q]
                         /\ hold'[q].state = hold[q].state
    <3>1. pc \in [Users -> Places] /\ hold \in [Users -> [Names -> Nat]]
      BY DEF LifeInv, LifeTypes
    <3>2. \A q \in Users : LetGo(p)[q].state = hold[q].state
      BY <3>1, SMT DEF LetGo, NoHandles
    <3> QED
      BY <2>1, <3>1, <3>2 DEF Go
  <2>3. Clients \subseteq Users
    BY UsersAssumption
  <2>4. \A c \in Clients : Handled(c)' =>
          Handled(c) /\ pc'[Agent] = pc[Agent] /\ hold'[Agent].state = hold[Agent].state
    BY <1>1, <1>2, <2>2 DEF Handled
  <2>5. \A c \in Clients : Sent(c) => Sent(c)' /\ hold'[c].state = hold[c].state
    BY <2>2, <2>3 DEF Sent
  <2>6. \A c \in Clients : pc'[c] \in {"waiting", "woken"} => pc'[c] = pc[c]
    BY <2>2, <2>3
  <2>7. \A c \in Clients : (In(c)' => In(c)) /\ (Once(c) => Once(c)')
    BY <2>1, KeptQueue
  <2> QED
    BY <1>2, <1>3, <2>4, <2>5, <2>6, <2>7, AsideSeen
<1>6. CASE ~CloseHandles(p, "cleared")
  <2>1. \/ Move(p, "up", "cleared") /\ Put(p, Agent) /\ hold' = hold
        \/ ResetPointers(p, "up") \/ Drain(p) \/ Refill(p)
    BY <1>6 DEF UseQueue
  <2>2. pc[p] \in {"up"} \cup ClearSteps /\ pc[p] \in Apart /\ hold' = hold
        /\ \E place \in Apart : Go(p, place)
    <3>1. CASE Drain(p)
      <4>1. PICK s \in {<<"drain", "items", "drainspace">>, <<"drainspace", "space", "refill">>} :
              pc[p] = s[1] /\ (pc' = pc \/ Go(p, s[3]))
        BY <3>1 DEF Drain, At
      <4>2. s[1] \in {"drain", "drainspace"} /\ s[3] \in {"drainspace", "refill"}
        BY <4>1, SMT
      <4>3. pc' = pc => Go(p, pc[p])
        BY <1>1 DEF Go, LifeInv, LifeTypes
      <4> QED
        BY <1>4, <3>1, <4>1, <4>2, <4>3 DEF Drain, ClearSteps
    <3>2. CASE ~Drain(p)
      BY <1>4, <2>1, <3>2 DEF ResetPointers, Refill, Move, At, ClearSteps
    <3> QED
      BY <3>1, <3>2
  <2>3. pc[p] \in Using
    BY <2>2 DEF Using
  <2>4. ASSUME NEW c \in Clients PROVE (In(c)' => In(c)) /\ (Once(c) => Once(c)')
    <3>1. CASE queue' = queue
      BY <3>1, KeptQueue
    <3>2. CASE Put(p, Agent)
      <4>1. c # Agent
        BY UsersAssumption
      <4>2. \A f \in 1..Len(queue') : \A i \in 1..Len(queue'[f]) :
              \/ f \in 1..Len(queue) /\ i \in 1..Len(queue[f]) /\ queue'[f][i] = queue[f][i]
              \/ queue'[f][i] = Agent
        BY <1>1, <2>3, <3>2, PutPlaces, SMTT(20)
      <4>3. Inherited(c)
        BY <4>1, <4>2, Zenon DEF Inherited
      <4> QED
        BY <4>3, Inherits
    <3>3. CASE ResetPointers(p, "up")
      <4>1. queue' = [queue EXCEPT ![hold[p]["queue"]] = <<>>] /\ queue \in Seq(Seq(Users))
        BY <3>3 DEF ResetPointers, LifeInv, LifeTypes
      <4>2. hold[p]["queue"] \in 1..Len(queue)
        BY <1>1, <2>3, UseFacts
      <4>3. Len(queue') = Len(queue) /\ queue'[hold[p]["queue"]] = <<>>
            /\ \A f \in 1..Len(queue) : f # hold[p]["queue"] => queue'[f] = queue[f]
        BY <4>1, <4>2, SMTT(20)
      <4>4. 1..Len(<<>>) = {}
        BY SMT
      <4>5. Inherited(c)
        BY <4>3, <4>4, Zenon DEF Inherited
      <4> QED
        BY <4>5, Inherits
    <3> QED
      BY <2>1, <3>1, <3>2, <3>3 DEF Drain, Refill
  <2>5. \A q \in Users \ {p} : hold'[q] = hold[q]
    BY <2>2
  <2> QED
    BY <1>1, <1>2, <1>3, <2>2, <2>4, <2>5, ApartSeen, Zenon
<1> QED
  BY <1>5, <1>6

-----------------------------------------------------------------------------
(* Failures: from the command to its outcome *)

\* A client sends its command.
LEMMA SendSeen ==
  ASSUME LifeInv, SeenInv, NEW c \in Clients, SendCommand(c)
  PROVE  SeenInv'
<1>1. c \in Users /\ c # Agent /\ Agent \in Users /\ Clients \subseteq Users
  BY UsersAssumption
<1>2. /\ UNCHANGED <<verdict, done, outcome, late, tracked, doing, state, hold>>
      /\ pc[c] = "up" /\ pc' = [pc EXCEPT ![c] = "waiting"] /\ Put(c, c)
  BY DEF SendCommand, Move, At, Go, sessionVars, agentVars, clientVars
<1>3. pc'[c] = "waiting" /\ \A q \in Users : q # c => pc'[q] = pc[q]
  BY <1>1, <1>2 DEF LifeInv, LifeTypes
<1>4. \A f \in 1..Len(queue') : \A i \in 1..Len(queue'[f]) :
           \/ f \in 1..Len(queue) /\ i \in 1..Len(queue[f]) /\ queue'[f][i] = queue[f][i]
           \/ queue'[f][i] = c /\ f = hold[c]["queue"] /\ i = Len(queue[f]) + 1
  <2>1. pc[c] \in Using
    BY <1>2 DEF Using
  <2> QED
    BY <1>1, <1>2, <2>1, PutPlaces
<1>5. Len(state') \in Nat /\ Len(state) <= Len(state')
  BY <1>2 DEF LifeInv, LifeTypes
<1>6. ASSUME NEW d \in Clients, d # c PROVE FailInv(d)'
  <2>1. Inherited(d)
    BY <1>4, <1>6, Zenon DEF Inherited
  <2>2. (In(d)' => In(d)) /\ (Once(d) => Once(d)')
    BY <2>1, Inherits
  <2>3. /\ pc'[Agent] = pc[Agent] /\ pc'[d] = pc[d] /\ (Handled(d)' => Handled(d))
        /\ (Sent(d) => Sent(d)')
    BY <1>1, <1>2, <1>3, <1>6 DEF Handled, Sent
  <2> QED
    BY <1>2, <1>5, <2>2, <2>3, AsideFail DEF SeenInv
<1>7. FailInv(c)'
  <2>1. FailInv(c) /\ ~Sent(c)
    BY <1>2 DEF SeenInv, Sent, Unlinking
  <2>2. /\ ~In(c) /\ ~Handled(c) /\ done[c] = 0 /\ late[c] = 0 /\ outcome[c] = "none"
        /\ verdict[c].what = "none"
    BY <2>1 DEF FailInv
  <2>3. Once(c)'
    <3>1. ASSUME NEW f \in 1..Len(queue'), NEW i \in 1..Len(queue'[f]), queue'[f][i] = c
          PROVE  f = hold[c]["queue"] /\ i = Len(queue[f]) + 1
      BY <1>4, <2>2, <3>1 DEF In
    <3> QED
      BY <3>1, Zenon DEF Once
  <2>4. ~Handled(c)'
    BY <1>1, <1>2, <1>3, <2>2 DEF Handled
  <2> QED
    BY <1>2, <1>3, <2>2, <2>3, <2>4, SMTT(20) DEF FailInv, Sent, Released
<1>8. FailTypes'
  BY <1>2 DEF SeenInv, FailTypes
<1> QED
  BY <1>6, <1>7, <1>8 DEF SeenInv

\* Where the messages are after one is taken out.
LEMMA TakePlaces ==
  ASSUME LifeInv, NEW p \in Users, pc[p] \in Using, TakeOut(p),
         NEW messages, messages = queue[hold[p]["queue"]], messages # <<>>
  PROVE  /\ \A f \in 1..Len(queue') : \A i \in 1..Len(queue'[f]) : f # hold[p]["queue"] =>
              f \in 1..Len(queue) /\ i \in 1..Len(queue[f]) /\ queue'[f][i] = queue[f][i]
         /\ \A i \in 1..Len(queue'[hold[p]["queue"]]) :
              /\ i + 1 \in 1..Len(queue[hold[p]["queue"]])
              /\ queue'[hold[p]["queue"]][i] = queue[hold[p]["queue"]][i + 1]
         /\ hold[p]["queue"] \in 1..Len(queue) /\ 1 \in 1..Len(queue[hold[p]["queue"]])
         /\ queue[hold[p]["queue"]][1] = Head(messages)
<1>1. /\ Len(queue') = Len(queue) /\ queue'[hold[p]["queue"]] = Tail(messages)
      /\ \A f \in 1..Len(queue) : f # hold[p]["queue"] => queue'[f] = queue[f]
  BY TakeFacts, Zenon
<1>2. hold[p]["queue"] \in 1..Len(queue) /\ messages \in Seq(Users)
  BY UseFacts
<1>3. ASSUME NEW s \in Seq(Users), s # <<>>
      PROVE  /\ \A i \in 1..Len(Tail(s)) : i + 1 \in 1..Len(s) /\ Tail(s)[i] = s[i + 1]
             /\ 1 \in 1..Len(s) /\ s[1] = Head(s)
  BY <1>3, SMT
<1>4. /\ \A i \in 1..Len(Tail(messages)) :
           i + 1 \in 1..Len(messages) /\ Tail(messages)[i] = messages[i + 1]
      /\ 1 \in 1..Len(messages) /\ messages[1] = Head(messages)
  BY <1>2, <1>3, Zenon
<1> QED
  BY <1>1, <1>2, <1>4, Zenon

\* The agent takes a command out, if one is there.
LEMMA TakeSeen ==
  ASSUME LifeInv, SeenInv, StepCommand
  PROVE  SeenInv'
<1>1. Agent \in Users /\ Clients \subseteq Users /\ \A c \in Clients : c # Agent
  BY UsersAssumption
<1>2. /\ pc[Agent] = "loop" /\ TakeOut(Agent) /\ Beat
      /\ UNCHANGED <<verdict, done, outcome, late, tracked, hold>>
  BY DEF StepCommand, At, clientVars
<1>3. PICK messages : messages = queue[hold[Agent]["queue"]]
  BY Zenon
<1>4. /\ pc[Agent] \in Using /\ pc[Agent] \in Service /\ \A c : ~Handled(c)
  BY <1>2 DEF Using, Service, Handled
<1>5. Len(state') \in Nat /\ Len(state) <= Len(state')
      /\ \A f \in 1..Len(state) : state'[f].errors = state[f].errors
  <2>1. state \in Seq(File) /\ state' = [state EXCEPT ![Mine(Agent)].age = 0]
    BY <1>2 DEF Beat, LifeInv, LifeTypes
  <2>2. Mine(Agent) \in 1..Len(state) /\ state[Mine(Agent)] \in File
    BY <1>4, AgentFile
  <2> QED
    BY <2>1, <2>2, SMTT(20) DEF File
<1>6. tracked' \subseteq Clients /\ FailTypes'
  BY <1>2 DEF SeenInv, FailTypes
<1>7. CASE messages = <<>>
  <2>1. pc' = pc /\ doing' = doing
    BY <1>3, <1>7 DEF StepCommand
  <2>2. queue' = queue
    BY <1>1, <1>2, <1>3, <1>4, <1>7, TakeFacts
  <2>3. \A c \in Clients : ~Handled(c)' /\ (Sent(c) => Sent(c)')
    BY <1>4, <2>1 DEF Handled, Sent
  <2>4. \A c \in Clients : (In(c)' => In(c)) /\ (Once(c) => Once(c)')
    BY <2>2, KeptQueue
  <2> QED
    BY <1>2, <1>5, <1>6, <2>1, <2>3, <2>4, AsideSeen
<1>8. CASE messages # <<>>
  <2>1. doing' = Head(messages) /\ pc' = [pc EXCEPT ![Agent] = "handle"]
    BY <1>3, <1>8 DEF StepCommand, Go
  <2>2. pc'[Agent] = "handle" /\ \A c \in Clients : pc'[c] = pc[c]
    BY <1>1, <2>1 DEF LifeInv, LifeTypes
  <2>3. PICK g : g = hold[Agent]["queue"]
    BY Zenon
  <2>4. /\ \A f \in 1..Len(queue') : \A i \in 1..Len(queue'[f]) : f # g =>
              f \in 1..Len(queue) /\ i \in 1..Len(queue[f]) /\ queue'[f][i] = queue[f][i]
        /\ \A i \in 1..Len(queue'[g]) :
              i + 1 \in 1..Len(queue[g]) /\ queue'[g][i] = queue[g][i + 1]
        /\ g \in 1..Len(queue) /\ 1 \in 1..Len(queue[g]) /\ queue[g][1] = doing'
    BY <1>1, <1>2, <1>3, <1>4, <1>8, <2>1, <2>3, TakePlaces
  <2>5. ASSUME NEW c PROVE In(c)' => In(c)
    BY <2>4 DEF In
  <2>6. \A i, j \in Nat : i + 1 = j + 1 => i = j
    BY SMT
  <2>7. ASSUME NEW c, Once(c) PROVE Once(c)'
    <3> SUFFICES ASSUME NEW f \in 1..Len(queue'), NEW h \in 1..Len(queue'),
                        NEW i \in 1..Len(queue'[f]), NEW j \in 1..Len(queue'[h]),
                        queue'[f][i] = c /\ queue'[h][j] = c
                 PROVE  f = h /\ i = j
      BY Zenon DEF Once
    <3>1. i \in Nat /\ j \in Nat
      BY SMT
    <3>2. PICK k \in 1..Len(queue[f]) : /\ queue[f][k] = c /\ f \in 1..Len(queue)
                                        /\ k = IF f = g THEN i + 1 ELSE i
      BY <2>4, <2>7, Zenon
    <3>3. PICK l \in 1..Len(queue[h]) : /\ queue[h][l] = c /\ h \in 1..Len(queue)
                                        /\ l = IF h = g THEN j + 1 ELSE j
      BY <2>4, <2>7, Zenon
    <3>4. f = h /\ k = l
      BY <2>7, <3>2, <3>3, Zenon DEF Once
    <3> QED
      BY <2>6, <3>1, <3>2, <3>3, <3>4, Zenon
  <2>8. ASSUME NEW c \in Clients, c # doing' PROVE FailInv(c)'
    <3>1. ~Handled(c)' /\ (Sent(c) => Sent(c)')
      BY <2>2, <2>8 DEF Handled, Sent
    <3>2. Once(c) => Once(c)'
      BY <2>7, Zenon
    <3> QED
      BY <1>2, <1>5, <2>2, <2>5, <3>1, <3>2, AsideFail DEF SeenInv
  <2>9. ASSUME NEW c \in Clients, c = doing' PROVE FailInv(c)'
    <3>1. FailInv(c) /\ In(c)
      BY <2>4, <2>9 DEF SeenInv, In
    <3>2. /\ Once(c) /\ Sent(c) /\ verdict[c].what = "none" /\ done[c] = 0 /\ pc[c] # "woken"
          /\ outcome[c] # "ok"
          /\ pc[c] = "waiting" => (done[c] = 0 => late[c] = 0) /\ outcome[c] = "none"
      BY <3>1 DEF FailInv
    <3>3. ~In(c)'
      <4> SUFFICES ASSUME NEW f \in 1..Len(queue'), NEW i \in 1..Len(queue'[f]), queue'[f][i] = c
                   PROVE  FALSE
        BY DEF In
      <4>1. i \in Nat /\ i + 1 # 1
        BY SMT
      <4>2. PICK k \in 1..Len(queue[f]) : /\ queue[f][k] = c /\ f \in 1..Len(queue)
                                          /\ k = IF f = g THEN i + 1 ELSE i
        BY <2>4, Zenon
      <4>3. f = g /\ k = 1
        <5>1. g \in 1..Len(queue) /\ 1 \in 1..Len(queue[g]) /\ queue[g][1] = c
          BY <2>4, <2>9, Zenon
        <5> QED
          BY <3>2, <4>2, <5>1, Zenon DEF Once
      <4> QED
        BY <4>1, <4>2, <4>3, Zenon
    <3>4. Sent(c)' /\ Handled(c)' /\ pc'[c] = pc[c] /\ pc'[Agent] = "handle"
      BY <2>2, <2>9, <3>2 DEF Sent, Handled
    <3> QED
      BY <1>2, <3>2, <3>3, <3>4 DEF FailInv, Released
  <2> QED
    BY <1>6, <2>8, <2>9 DEF SeenInv
<1> QED
  BY <1>7, <1>8

\* The handler returns or raises.
LEMMA HandleSeen ==
  ASSUME LifeInv, SeenInv, Handle
  PROVE  SeenInv'
<1>1. Agent \in Users /\ Clients \subseteq Users /\ \A c \in Clients : c # Agent
  BY UsersAssumption
<1>2. /\ pc[Agent] = "handle"
      /\ UNCHANGED <<queue, hold, state, tracked, doing, done, outcome, late>>
  BY DEF Handle, At, clientVars
<1>3. PICK v \in {"ok", "refused", "fatal"} :
        /\ verdict' = [verdict EXCEPT ![doing] = [what |-> v, file |-> Mine(Agent)]]
        /\ pc' = [pc EXCEPT ![Agent] = IF v = "ok" THEN "release" ELSE "record"]
  BY DEF Handle, Go
<1>4. /\ Mine(Agent) \in 1..Len(state) /\ Mine(Agent) \in Nat /\ Len(state) \in Nat
      /\ doing \in Users
  <2>1. Mine(Agent) \in 1..Len(state)
    BY <1>2, AgentFile DEF Service
  <2> QED
    BY <1>1, <2>1, UserFacts, SMTT(20)
<1>5. FailTypes'
  <2>1. [what |-> v, file |-> Mine(Agent)] \in Verdict
    BY <1>4 DEF Verdict
  <2>2. verdict' \in [Users -> Verdict]
    BY <1>3, <1>4, <2>1 DEF SeenInv, FailTypes
  <2> QED
    BY <1>2, <2>2 DEF SeenInv, FailTypes
<1>6. /\ pc'[Agent] = (IF v = "ok" THEN "release" ELSE "record")
      /\ \A c \in Clients : pc'[c] = pc[c] /\ (Sent(c) => Sent(c)')
  BY <1>1, <1>3 DEF LifeInv, LifeTypes, Sent
<1>7. ASSUME NEW c \in Clients, c # doing PROVE FailInv(c)'
  <2>1. verdict'[c] = verdict[c]
    BY <1>3, <1>7
  <2>2. ~Handled(c)'
    BY <1>2, <1>7 DEF Handled
  <2>3. (In(c)' => In(c)) /\ (Once(c) => Once(c)')
    BY <1>2, KeptQueue
  <2> QED
    BY <1>2, <1>4, <1>6, <2>1, <2>2, <2>3, AsideFail DEF SeenInv
<1>8. ASSUME NEW c \in Clients, c = doing PROVE FailInv(c)'
  <2>1. FailInv(c) /\ Handled(c)
    BY <1>2, <1>8 DEF SeenInv, Handled
  <2>2. /\ ~In(c) /\ Sent(c) /\ done[c] = 0 /\ pc[c] # "woken" /\ outcome[c] # "ok"
        /\ pc[c] = "waiting" => (done[c] = 0 => late[c] = 0) /\ outcome[c] = "none"
    BY <2>1 DEF FailInv
  <2>3. ~In(c)' /\ Sent(c)'
    BY <1>2, <1>6, <2>2, KeptQueue
  <2>4. verdict'[c] = [what |-> v, file |-> Mine(Agent)]
    BY <1>3, <1>4, <1>8 DEF SeenInv, FailTypes
  <2>5. verdict'[c].what = v /\ verdict'[c].file = Mine(Agent) /\ v # "none"
    BY <1>3, <2>4
  <2>6. Mine(Agent)' = Mine(Agent)
    BY <1>2 DEF Mine
  <2>7. /\ done'[c] = 0 /\ pc'[c] = pc[c] /\ pc'[c] # "woken" /\ outcome'[c] # "ok"
        /\ outcome' = outcome /\ late' = late /\ state' = state
    BY <1>2, <1>6, <2>2, Zenon
  <2>8. ~Released(c)' /\ pc'[Agent] # "handle" /\ (pc'[Agent] = "release" => v = "ok")
    <3>1. done'[c] # 1
      BY <2>7
    <3>2. pc'[Agent] \in {"release", "record"} /\ (pc'[Agent] = "release" => v = "ok")
      BY <1>6
    <3> QED
      BY <2>7, <3>1, <3>2 DEF Released
  <2>9. verdict'[c].file \in 1..Len(state')
    BY <1>4, <2>5, <2>7, Zenon
  <2>10. pc'[c] = "waiting" => (done'[c] = 0 => late'[c] = 0) /\ outcome'[c] = "none"
    BY <1>2, <2>2, <2>7, Zenon
  <2> QED
    BY <2>3, <2>5, <2>6, <2>7, <2>8, <2>9, <2>10, Zenon DEF FailInv
<1> QED
  BY <1>5, <1>7, <1>8 DEF SeenInv

\* The failure is recorded, and records past their time go.
LEMMA RecordSeen ==
  ASSUME LifeInv, SeenInv, RecordError
  PROVE  SeenInv'
<1>1. Agent \in Users /\ Clients \subseteq Users /\ \A c \in Clients : c # Agent
  BY UsersAssumption
<1>2. /\ pc[Agent] = "record" /\ pc' = [pc EXCEPT ![Agent] = "release"]
      /\ UNCHANGED <<queue, hold, verdict, doing, done, outcome, late>>
  BY DEF RecordError, Move, At, Go, clientVars
<1>3. PICK k \in 1..Len(state) : k = Mine(Agent) /\ state[k] \in File
  BY <1>2, AgentFile DEF Service
<1>4. PICK old : old = Expired(state[k].errors)
  BY Zenon
<1>5. PICK e : e = [c \in Clients |-> IF c = doing THEN 0 ELSE IF c \in old THEN Gone
                                     ELSE state[k].errors[c]]
  BY Zenon
<1>6. state' = [state EXCEPT ![k].errors = e] /\ tracked' = (tracked \ old) \cup ({doing} \cap Clients)
  BY <1>3, <1>4, <1>5 DEF RecordError
<1>7. /\ Len(state') = Len(state) /\ Len(state) \in Nat /\ state'[k].errors = e
      /\ \A f \in 1..Len(state) : f # k => state'[f] = state[f]
  <2>1. state \in Seq(File) /\ Len(state) \in Nat
    BY <1>1, UserFacts
  <2> QED
    BY <1>3, <1>6, <2>1, SMTT(20) DEF File
<1>8. FailTypes'
  BY <1>2, <1>6 DEF SeenInv, FailTypes
<1>9. pc'[Agent] = "release" /\ \A c \in Clients : pc'[c] = pc[c] /\ (Sent(c) => Sent(c)')
  BY <1>1, <1>2 DEF LifeInv, LifeTypes, Sent
<1>10. Mine(Agent)' = k
  BY <1>2, <1>3 DEF Mine
<1>11. ASSUME NEW c \in Clients, c # doing PROVE FailInv(c)'
  <2>1. FailInv(c)
    BY DEF SeenInv
  <2>2. ~Handled(c)' /\ (In(c)' => In(c)) /\ (Once(c) => Once(c)')
    BY <1>2, <1>11, KeptQueue DEF Handled
  <2>3. Recorded(c) /\ verdict[c].what # "none" => Recorded(c)'
    <3> SUFFICES ASSUME verdict[c].what # "none",
                        state[verdict[c].file].errors[c] = late[c], ~(late[c] > Ttl)
                 PROVE  state'[verdict[c].file].errors[c] = late[c]
      BY <1>2 DEF Recorded
    <3>1. verdict[c].file \in 1..Len(state)
      BY <2>1 DEF FailInv
    <3>2. CASE verdict[c].file # k
      BY <1>7, <3>1, <3>2
    <3>3. CASE verdict[c].file = k
      <4>1. c \notin old
        BY <1>4, <3>3 DEF Expired
      <4>2. e[c] = late[c]
        BY <1>5, <1>11, <3>3, <4>1
      <4> QED
        BY <1>7, <3>3, <4>2
    <3> QED
      BY <3>2, <3>3
  <2>4. Released(c)' => Released(c)
    BY <1>2, <1>9 DEF Released
  <2> QED
    BY <1>2, <1>7, <1>9, <2>1, <2>2, <2>3, <2>4 DEF FailInv
<1>12. ASSUME NEW c \in Clients, c = doing PROVE FailInv(c)'
  <2>1. FailInv(c) /\ Handled(c)
    BY <1>2, <1>12 DEF SeenInv, Handled
  <2>2. /\ ~In(c) /\ Sent(c) /\ done[c] = 0 /\ pc[c] # "woken" /\ outcome[c] # "ok"
        /\ verdict[c].what # "none" /\ verdict[c].file = Mine(Agent)
        /\ pc[c] = "waiting" => (done[c] = 0 => late[c] = 0) /\ outcome[c] = "none"
    BY <1>2, <2>1 DEF FailInv
  <2>3. ~In(c)' /\ Sent(c)'
    BY <1>2, <1>9, <2>2, KeptQueue
  <2>4. state'[k].errors[c] = 0
    BY <1>5, <1>7, <1>12
  <2>5. Mine(Agent)' = k /\ verdict'[c].file = k /\ verdict'[c].what # "none" /\ k \in 1..Len(state')
    BY <1>2, <1>3, <1>7, <2>2 DEF Mine
  <2>6. pc'[Agent] = "release" /\ pc'[c] = pc[c] /\ done'[c] = 0 /\ outcome'[c] = outcome[c]
        /\ late'[c] = late[c]
    BY <1>2, <1>9, <1>10, <2>2
  <2>7. ~Released(c)'
    BY <2>2, <2>6 DEF Released
  <2>8. state'[Mine(Agent)'].errors[c] = 0
    BY <2>4, <2>5
  <2> QED
    BY <2>2, <2>3, <2>5, <2>6, <2>7, <2>8 DEF FailInv
<1> QED
  BY <1>8, <1>11, <1>12 DEF SeenInv

\* The semaphore of the command is released.
LEMMA ReleaseSeen ==
  ASSUME LifeInv, SeenInv, ReleaseSemaphore
  PROVE  SeenInv'
<1>1. Agent \in Users /\ Clients \subseteq Users /\ \A c \in Clients : c # Agent
  BY UsersAssumption
<1>2. /\ pc[Agent] = "release"
      /\ UNCHANGED <<queue, hold, state, tracked, verdict, doing, outcome, late>>
      /\ done' = [c \in Clients |-> IF c = doing THEN 1 ELSE done[c]]
  BY DEF ReleaseSemaphore, Move, At, agentVars, clientVars
<1>3. PICK place \in {"closing", "loop"} : pc' = [pc EXCEPT ![Agent] = place]
  BY DEF ReleaseSemaphore, Move, Go
<1>4. FailTypes'
  BY <1>2 DEF SeenInv, FailTypes
<1>5. /\ pc'[Agent] = place /\ (\A c \in Clients : ~Handled(c)')
      /\ \A c \in Clients : pc'[c] = pc[c] /\ (Sent(c) => Sent(c)')
  BY <1>1, <1>3 DEF LifeInv, LifeTypes, Sent, Handled
<1>6. Len(state') \in Nat /\ Len(state) <= Len(state')
  BY <1>2 DEF LifeInv, LifeTypes
<1>7. ASSUME NEW c \in Clients, c # doing PROVE FailInv(c)'
  <2>1. done'[c] = done[c]
    BY <1>2, <1>7
  <2>2. (In(c)' => In(c)) /\ (Once(c) => Once(c)')
    BY <1>2, KeptQueue
  <2> QED
    BY <1>2, <1>5, <1>6, <2>1, <2>2, AsideFail DEF SeenInv
<1>8. ASSUME NEW c \in Clients, c = doing PROVE FailInv(c)'
  <2>1. FailInv(c) /\ Handled(c)
    BY <1>2, <1>8 DEF SeenInv, Handled
  <2>2. /\ ~In(c) /\ Sent(c) /\ done[c] = 0 /\ pc[c] # "woken" /\ outcome[c] # "ok"
        /\ verdict[c].what # "none" /\ verdict[c].file \in 1..Len(state)
        /\ pc[c] = "waiting" => (done[c] = 0 => late[c] = 0) /\ outcome[c] = "none"
        /\ \/ verdict[c].what = "ok"
           \/ verdict[c].file = Mine(Agent) /\ state[Mine(Agent)].errors[c] = 0
    BY <1>2, <2>1 DEF FailInv
  <2>3. ~In(c)' /\ Sent(c)' /\ done'[c] = 1
    BY <1>2, <1>5, <1>8, <2>2, KeptQueue
  <2>4. Released(c)' => Recorded(c)'
    BY <1>2, <1>5, <2>2 DEF Released, Recorded
  <2> QED
    BY <1>2, <1>5, <2>2, <2>3, <2>4 DEF FailInv
<1> QED
  BY <1>4, <1>7, <1>8 DEF SeenInv

\* The client is let go, looks, or gives up.
LEMMA OutcomeSeen ==
  ASSUME LifeInv, SeenInv, NEW c \in Clients, Acquire(c) \/ ReadOutcome(c) \/ WaitTimeout(c)
  PROVE  SeenInv'
<1>1. c \in Users /\ c # Agent /\ Agent \in Users /\ Clients \subseteq Users
  BY UsersAssumption
<1>2. UNCHANGED <<queue, hold, state, tracked, verdict, doing, late>>
  BY DEF Acquire, ReadOutcome, WaitTimeout, agentVars, clientVars
<1>3. PICK place \in {"woken", "closing"} : pc' = [pc EXCEPT ![c] = place]
  BY DEF Acquire, ReadOutcome, WaitTimeout, Move, Go
<1>4. pc'[c] = place /\ \A q \in Users : q # c => pc'[q] = pc[q]
  BY <1>1, <1>3 DEF LifeInv, LifeTypes
<1>5. /\ \A d \in Clients : (In(d)' => In(d)) /\ (Once(d) => Once(d)') /\ (Handled(d)' => Handled(d))
      /\ pc'[Agent] = pc[Agent]
  BY <1>1, <1>2, <1>4, KeptQueue DEF Handled
<1>6. FailTypes'
  BY <1>2 DEF Acquire, ReadOutcome, WaitTimeout, SeenInv, FailTypes, agentVars, clientVars
<1>7. Len(state') \in Nat /\ Len(state) <= Len(state')
  BY <1>2 DEF LifeInv, LifeTypes
<1>8. ASSUME NEW d \in Clients, d # c PROVE FailInv(d)'
  <2>1. done'[d] = done[d] /\ outcome'[d] = outcome[d]
    BY <1>8 DEF Acquire, ReadOutcome, WaitTimeout, SeenInv, FailTypes, clientVars
  <2>2. pc'[d] = pc[d] /\ (Sent(d) => Sent(d)')
    BY <1>1, <1>4, <1>8 DEF Sent
  <2> QED
    BY <1>2, <1>5, <1>7, <2>1, <2>2, AsideFail DEF SeenInv
<1>9. FailInv(c)'
  <2>1. FailInv(c) /\ Sent(c)'
    BY <1>4 DEF SeenInv, Sent
  <2>2. CASE Acquire(c)
    <3>1. /\ pc[c] = "waiting" /\ pc'[c] = "woken" /\ done[c] > 0 /\ done'[c] = 0
          /\ outcome'[c] = outcome[c]
      BY <1>1, <2>2 DEF Acquire, Move, At, Go, LifeInv, LifeTypes, SeenInv, FailTypes, clientVars
    <3>2. done[c] = 1
      BY <3>1, SMT DEF SeenInv, FailTypes
    <3>3. /\ ~In(c) /\ ~Handled(c) /\ outcome[c] = "none" /\ verdict[c].what # "none" /\ Recorded(c)
          /\ verdict[c].file \in 1..Len(state)
      BY <2>1, <3>1, <3>2 DEF FailInv, Released
    <3>4. Recorded(c)' /\ ~In(c)' /\ ~Handled(c)'
      BY <1>2, <1>5, <3>3 DEF Recorded
    <3> QED
      BY <1>2, <2>1, <3>1, <3>3, <3>4 DEF FailInv
  <2>3. CASE ReadOutcome(c)
    <3>1. /\ pc[c] = "woken" /\ pc'[c] = "closing" /\ done' = done
          /\ outcome'[c] = IF state[Mine(c)].errors[c] # Gone THEN "failed" ELSE "ok"
      BY <1>1, <2>3 DEF ReadOutcome, Move, At, Go, LifeInv, LifeTypes, SeenInv, FailTypes
    <3>2. /\ ~In(c) /\ ~Handled(c) /\ verdict[c].what # "none" /\ Recorded(c)
          /\ verdict[c].file \in 1..Len(state)
      BY <2>1, <3>1 DEF FailInv, Released
    <3>3. ~In(c)' /\ ~Handled(c)'
      BY <1>5, <3>2
    <3>4. late[c] \in Nat /\ (late[c] = Gone => late[c] > Ttl)
      BY ScenarioAssumption DEF SeenInv, FailTypes, Gone
    <3>5. outcome'[c] = "ok" => \/ verdict[c].what = "ok" \/ late[c] > Ttl
                                \/ verdict[c].file # hold[c].state
      BY <3>1, <3>2, <3>4 DEF Recorded, Mine
    <3> QED
      BY <1>2, <2>1, <3>1, <3>2, <3>3, <3>5 DEF FailInv, Released
  <2>4. CASE WaitTimeout(c)
    <3>1. /\ pc[c] = "waiting" /\ pc'[c] = "closing" /\ done' = done /\ outcome'[c] = "timeout"
      BY <1>1, <2>4 DEF WaitTimeout, Move, At, Go, LifeInv, LifeTypes, SeenInv, FailTypes
    <3>2. Handled(c)' =>
            /\ pc'[Agent] = "handle" => verdict'[c].what = "none"
            /\ pc'[Agent] = "record" => verdict'[c].what # "none" /\ verdict'[c].file = Mine(Agent)'
            /\ pc'[Agent] = "release" => \/ verdict'[c].what = "ok"
                                         \/ /\ verdict'[c].what # "none"
                                            /\ verdict'[c].file = Mine(Agent)'
                                            /\ state'[Mine(Agent)'].errors[c] = 0
      BY <1>2, <1>5, <2>1 DEF FailInv, Mine
    <3>3. /\ In(c)' => Once(c)' /\ ~Handled(c)' /\ verdict'[c].what = "none"
          /\ Handled(c)' \/ In(c)' => done'[c] = 0
      BY <1>2, <1>5, <2>1, <3>1 DEF FailInv
    <3> QED
      BY <1>2, <2>1, <3>1, <3>2, <3>3 DEF FailInv, Released
  <2> QED
    BY <2>2, <2>3, <2>4
<1> QED
  BY <1>6, <1>8, <1>9 DEF SeenInv

\* Records and waits grow older together.
LEMMA TickSeen ==
  ASSUME LifeInv, SeenInv, Tick
  PROVE  SeenInv'
<1>1. /\ UNCHANGED <<lifeVars, tracked, verdict, doing, done, outcome>>
      /\ pc[Agent] \notin {"record", "release"}
  BY DEF Tick
<1>2. UNCHANGED <<queue, pc, hold>>
  BY <1>1 DEF lifeVars
<1>3. Ttl \in Nat /\ late \in [Clients -> Nat] /\ Agent \in Users
  BY ScenarioAssumption, UsersAssumption DEF SeenInv, FailTypes
<1>4. state \in Seq(File) /\ Len(state) \in Nat /\ DOMAIN state = 1..Len(state)
  BY <1>3, UserFacts, SMTT(20)
<1>5. /\ late' \in [Clients -> Nat]
      /\ \A c \in Clients : late'[c] = IF Released(c) THEN Older(late[c], Ttl + 1) ELSE late[c]
  <2>1. late' = [c \in Clients |-> IF Released(c) THEN Older(late[c], Ttl + 1) ELSE late[c]]
    BY Zenon DEF Tick, Released
  <2>2. \A c \in Clients : Older(late[c], Ttl + 1) \in Nat /\ late[c] \in Nat
    BY <1>3, SMT DEF Older
  <2> QED
    BY <2>1, <2>2, Zenon
<1>6. FailTypes'
  BY <1>1, <1>5 DEF SeenInv, FailTypes
<1>7. /\ Len(state') = Len(state)
      /\ \A f \in 1..Len(state) : \A c \in Clients :
           state'[f].errors[c] = IF state[f].errors[c] = Gone THEN Gone
                                 ELSE Older(state[f].errors[c], Ttl + 1)
  <2>1. PICK E : E = [f \in 1..Len(state) |->
                       [c \in Clients |-> IF state[f].errors[c] = Gone THEN Gone
                                          ELSE Older(state[f].errors[c], Ttl + 1)]]
    BY Zenon
  <2>2. PICK A : A = [f \in 1..Len(state) |-> Older(state[f].age, Fresh)]
    BY Zenon
  <2>3. state' = [f \in 1..Len(state) |-> [age |-> A[f], errors |-> E[f]]]
    BY <1>4, <2>1, <2>2 DEF Tick
  <2>4. Len(state') = Len(state) /\ \A f \in 1..Len(state) : state'[f].errors = E[f]
    BY <1>4, <2>3, SMTT(20)
  <2> QED
    BY <2>1, <2>4, Zenon
<1>8. ASSUME NEW c \in Clients PROVE FailInv(c)'
  <2>1. FailInv(c) /\ late[c] \in Nat
    BY <1>3 DEF SeenInv
  <2>2. /\ (In(c)' => In(c)) /\ (Once(c) => Once(c)')
    BY <1>2, KeptQueue
  <2>3. /\ (Handled(c)' <=> Handled(c)) /\ (Sent(c)' <=> Sent(c)) /\ (Released(c)' <=> Released(c))
    BY <1>1, <1>2 DEF Handled, Sent, Released
  <2>4. /\ late[c] > Ttl => late'[c] > Ttl
        /\ ~Released(c) => late'[c] = late[c]
    BY <1>3, <1>5, <2>1, SMTT(20) DEF Older
  <2>5. verdict[c].what # "none" /\ Released(c) /\ Recorded(c) => Recorded(c)'
    <3> SUFFICES ASSUME verdict[c].what # "none", Released(c),
                        state[verdict[c].file].errors[c] = late[c], ~(late[c] > Ttl)
                 PROVE  state'[verdict[c].file].errors[c] = late'[c]
      BY <1>1, <2>4 DEF Recorded
    <3>1. verdict[c].file \in 1..Len(state)
      BY <2>1 DEF FailInv
    <3>2. late[c] # Gone
      BY <1>3, <2>1, SMTT(20) DEF Gone
    <3>3. state'[verdict[c].file].errors[c] = Older(late[c], Ttl + 1)
      BY <1>7, <3>1, <3>2
    <3> QED
      BY <1>5, <3>3
  <2>6. ~Sent(c) => ~Released(c)
    BY <2>1 DEF FailInv, Released, Sent
  <2>7. /\ ~Sent(c)' => /\ ~In(c)' /\ ~Handled(c)' /\ done'[c] = 0 /\ late'[c] = 0
                        /\ outcome'[c] = "none" /\ verdict'[c].what = "none"
        /\ pc'[c] = "waiting" => (done'[c] = 0 => late'[c] = 0) /\ outcome'[c] = "none"
    <3>1. pc[c] = "waiting" /\ done[c] = 0 => ~Released(c)
      BY DEF Released
    <3> QED
      BY <1>1, <1>2, <2>1, <2>2, <2>3, <2>4, <2>6, <3>1 DEF FailInv
  <2>8. outcome'[c] = "ok" => \/ verdict'[c].what = "ok" \/ late'[c] > Ttl
                              \/ verdict'[c].file # hold'[c].state
    BY <1>1, <1>2, <2>1, <2>4 DEF FailInv
  <2>9. Handled(c)' => pc'[Agent] = "handle" /\ verdict'[c].what = "none"
    BY <1>1, <1>2, <2>1, <2>3 DEF FailInv, Handled
  <2> QED
    BY <1>1, <1>2, <1>7, <2>1, <2>2, <2>3, <2>5, <2>7, <2>8, <2>9 DEF FailInv
<1> QED
  BY <1>6, <1>8 DEF SeenInv

\* Nothing has been asked for.
LEMMA SeenInit ==
  ASSUME Init
  PROVE  SeenInv
<1>1. Agent \in Users /\ Clients \subseteq Users /\ \A c \in Clients : c # Agent
  BY UsersAssumption
<1>2. /\ pc = [p \in Users |-> "off"] /\ tracked = {} /\ doing = Agent
      /\ verdict = [p \in Users |-> [what |-> "none", file |-> 0]]
      /\ done = [c \in Clients |-> 0] /\ outcome = [c \in Clients |-> "none"]
      /\ late = [c \in Clients |-> 0]
  BY DEF Init
<1>3. FailTypes
  BY <1>2 DEF FailTypes, Verdict
<1>4. ASSUME NEW c \in Clients PROVE ~In(c)
  <2>1. scenario.left \in 0..Capacity /\ Capacity \in Nat
    BY ScenarioAssumption DEF Init
  <2>2. queue = IF scenario.left > 0 THEN <<[i \in 1..scenario.left |-> Agent]>> ELSE <<>>
    BY DEF Init
  <2>3. \A f \in 1..Len(queue) : queue[f] = [i \in 1..scenario.left |-> Agent]
    BY <2>1, <2>2, SMTT(20)
  <2>4. \A k \in Nat : Len([i \in 1..k |-> Agent]) = k
    BY SMTT(20)
  <2>5. \A f \in 1..Len(queue) : \A i \in 1..Len(queue[f]) : queue[f][i] = Agent
    BY <2>1, <2>3, <2>4, SMTT(20)
  <2> QED
    BY <1>1, <2>5, Zenon DEF In
<1>5. ASSUME NEW c \in Clients PROVE FailInv(c)
  <2>1. /\ pc[c] = "off" /\ pc[Agent] = "off" /\ verdict[c].what = "none" /\ done[c] = 0
        /\ outcome[c] = "none" /\ late[c] = 0 /\ ~In(c)
    BY <1>1, <1>2, <1>4
  <2> QED
    BY <2>1 DEF FailInv, Handled, Released
<1> QED
  BY <1>3, <1>5 DEF SeenInv

\* Every step keeps what makes a failure seen.
LEMMA SeenNext ==
  ASSUME LifeInv, SeenInv, [Next]_vars
  PROVE  SeenInv'
<1>1. CASE UNCHANGED vars
  <2>1. UNCHANGED <<queue, pc, hold, state, tracked, verdict, doing, done, outcome, late>>
    BY <1>1 DEF vars, lifeVars, sessionVars, agentVars, clientVars
  <2>2. FailTypes'
    BY <2>1 DEF SeenInv, FailTypes
  <2>3. ASSUME NEW c \in Clients PROVE FailInv(c)'
    <3>1. (In(c)' <=> In(c)) /\ (Once(c)' <=> Once(c))
      BY <2>1, SMT DEF In, Once
    <3>2. /\ (Handled(c)' <=> Handled(c)) /\ (Sent(c)' <=> Sent(c)) /\ (Released(c)' <=> Released(c))
          /\ (Recorded(c)' <=> Recorded(c))
      BY <2>1 DEF Handled, Sent, Released, Recorded
    <3>3. FailInv(c)
      BY DEF SeenInv
    <3> QED
      BY <2>1, <3>1, <3>2, <3>3 DEF FailInv, Mine
  <2> QED
    BY <2>2, <2>3 DEF SeenInv
<1>2. ASSUME NEW p \in Users, UserStep(p) PROVE SeenInv'
  <2>1. CASE Construct(p) /\ UNCHANGED sessionVars
    BY <2>1, ConstructSeen, Zenon
  <2>2. CASE UnlinkNext(p) /\ UNCHANGED sessionVars
    BY <2>2, CloseSeen, Zenon
  <2>3. CASE p = Agent /\ AgentStep
    BY <2>3, AgentSeen, TakeSeen, HandleSeen, RecordSeen, ReleaseSeen, CloseSeen, Zenon DEF AgentStep
  <2>4. CASE p \in Clients /\ ClientStep(p)
    BY <2>4, LookSeen, UseSeen, SendSeen, OutcomeSeen, CloseSeen, Zenon DEF ClientStep
  <2> QED
    BY <1>2, <2>1, <2>2, <2>3, <2>4, Zenon DEF UserStep
<1>3. ASSUME StartAgent \/ AgentDies PROVE SeenInv'
  BY <1>3, AgentSeen, Zenon
<1>4. ASSUME NEW c \in Clients, StartClient(c) \/ WaitTimeout(c) PROVE SeenInv'
  BY <1>4, LookSeen, OutcomeSeen, Zenon
<1>5. ASSUME NEW p \in Users, LeaderFails(p), UNCHANGED sessionVars PROVE SeenInv'
  BY <1>5, ConstructSeen, Zenon
<1> QED
  BY <1>1, <1>2, <1>3, <1>4, <1>5, TickSeen, Zenon DEF Next

\* A command and the record of its failure, always.
LEMMA SeenAlways == Spec => [](LifeInv /\ SeenInv)
<1>1. Init => SeenInv
  BY SeenInit
<1>2. LifeInv /\ SeenInv /\ [Next]_vars => SeenInv'
  BY SeenNext
<1> QED
  BY <1>1, <1>2, LifeAlways, PTL DEF Spec

\* A failed command is never taken for a successful one, whatever ends the agent and
\* whatever it reclaims, unless the client looks after the time to live or in the file
\* of another agent (agent.py records before it releases, client.py reads after).
THEOREM FailureAlwaysSeen == Spec => []FailureIsSeen
<1>1. SeenInv => FailureIsSeen
  BY DEF SeenInv, FailInv, FailureIsSeen
<1> QED
  BY <1>1, SeenAlways, PTL

-----------------------------------------------------------------------------
(* The heartbeat *)

\* Nothing keeps the agent from its loop or ends it.
Steady == ~scenario.slow /\ ~scenario.fatal /\ ~scenario.dies

\* An agent in service has beaten in this tick or in the last one, in the file that
\* has the name.
BeatInv ==
  /\ names["state"] = Mine(Agent)
  /\ state[Mine(Agent)].age \in {0, 1}
  /\ Agent \in turn => state[Mine(Agent)].age = 0

\* A client that found the agent in service is through before time passes.
LuckInv(c) ==
  /\ InService /\ pc[c] \notin {"off", "refused"}
  /\ pc[c] \in {"look", "poll"} => c \notin turn /\ waited[c] = 0
  /\ pc[c] = "poll" => Mine(c) = names["state"]

FoundInv ==
  /\ lucky \subseteq Clients
  /\ \A c \in Clients : pc[c] = "off" => c \notin turn /\ waited[c] = 0
  /\ waited \in [Clients -> Nat]
  /\ Steady => /\ \A p \in Users : verdict[p].what # "fatal"
               /\ InService => BeatInv
               /\ \A c \in lucky : LuckInv(c)

\* The agent goes from one place out of service to another.
LEMMA OutFound ==
  ASSUME LifeInv, FoundInv, NEW place, place \notin Service, pc[Agent] \notin Service,
         Go(Agent, place), UNCHANGED <<scenario, verdict, waited, lucky, turn>>
  PROVE  FoundInv'
<1>1. Agent \in Users /\ Clients \subseteq Users /\ \A c \in Clients : c # Agent
  BY UsersAssumption
<1>2. pc'[Agent] = place /\ \A c \in Clients : pc'[c] = pc[c]
  BY <1>1 DEF Go, LifeInv, LifeTypes
<1>3. ~InService /\ ~InService'
  BY <1>2 DEF InService, Service
<1>4. Steady' <=> Steady
  BY DEF Steady
<1>5. Steady => lucky = {}
  BY <1>3 DEF FoundInv, LuckInv
<1> QED
  BY <1>2, <1>3, <1>4, <1>5 DEF FoundInv

\* The agent goes on in service, and beats or not.
LEMMA ServiceFound ==
  ASSUME LifeInv, FoundInv, NEW place, pc[Agent] \in Service, Steady => place \in Service,
         Go(Agent, place), UNCHANGED <<scenario, hold, names, waited, lucky>>,
         Steady => \A p \in Users : verdict'[p].what # "fatal",
         \/ state'[Mine(Agent)].age = state[Mine(Agent)].age /\ turn' = turn
         \/ state'[Mine(Agent)].age = 0 /\ turn' = turn \cup {Agent}
  PROVE  FoundInv'
<1>1. Agent \in Users /\ Clients \subseteq Users /\ \A c \in Clients : c # Agent
  BY UsersAssumption
<1>2. pc'[Agent] = place /\ \A c \in Clients : pc'[c] = pc[c] /\ (c \in turn' <=> c \in turn)
  BY <1>1 DEF Go, LifeInv, LifeTypes
<1>3. InService /\ (Steady => InService')
  BY <1>2 DEF InService, Service
<1>4. (Steady' <=> Steady) /\ \A p : Mine(p)' = Mine(p)
  BY DEF Steady, Mine
<1>5. Steady => BeatInv'
  BY <1>3, <1>4 DEF FoundInv, BeatInv
<1>6. ASSUME Steady, NEW c \in lucky PROVE LuckInv(c)'
  <2>1. c \in Clients /\ LuckInv(c)
    BY <1>6 DEF FoundInv
  <2> QED
    BY <1>2, <1>3, <1>4, <1>6, <2>1 DEF LuckInv
<1> QED
  BY <1>2, <1>3, <1>4, <1>5, <1>6 DEF FoundInv

\* A client goes on after it has looked for the agent.
LEMMA AsideFound ==
  ASSUME LifeInv, FoundInv, NEW c \in Clients, NEW place,
         place \notin {"off", "look", "poll", "refused"}, Go(c, place),
         UNCHANGED <<scenario, state, verdict, waited, lucky>>,
         turn' = turn \/ turn' = turn \cup {c},
         names'["state"] = names["state"], \A q \in Users \ {c} : hold'[q] = hold[q]
  PROVE  FoundInv'
<1>1. Agent \in Users /\ Clients \subseteq Users /\ \A d \in Clients : d # Agent
  BY UsersAssumption
<1>2. pc'[c] = place /\ \A q \in Users : q # c => pc'[q] = pc[q]
  BY <1>1 DEF Go, LifeInv, LifeTypes
<1>3. (InService' <=> InService) /\ Mine(Agent)' = Mine(Agent) /\ (Agent \in turn' <=> Agent \in turn)
  BY <1>1, <1>2 DEF InService, Mine
<1>4. Steady' <=> Steady
  BY DEF Steady
<1>5. BeatInv => BeatInv'
  BY <1>3 DEF BeatInv
<1>6. ASSUME NEW d \in Clients, d # c, LuckInv(d) PROVE LuckInv(d)'
  <2>1. pc'[d] = pc[d] /\ Mine(d)' = Mine(d) /\ (d \in turn' <=> d \in turn)
    BY <1>1, <1>2, <1>6 DEF Mine
  <2> QED
    BY <1>3, <1>6, <2>1 DEF LuckInv
<1>7. ASSUME LuckInv(c) PROVE LuckInv(c)'
  BY <1>2, <1>3, <1>7 DEF LuckInv
<1>8. ASSUME NEW d \in Clients, pc'[d] = "off" PROVE d \notin turn' /\ waited'[d] = 0
  <2>1. d # c
    BY <1>2, <1>8
  <2>2. d \notin turn /\ waited[d] = 0
    BY <1>1, <1>2, <1>8, <2>1 DEF FoundInv
  <2> QED
    BY <2>1, <2>2
<1>9. lucky' \subseteq Clients /\ waited' \in [Clients -> Nat]
  BY DEF FoundInv
<1>10. Steady => \A d \in lucky : LuckInv(d)'
  BY <1>6, <1>7 DEF FoundInv
<1>11. Steady => /\ \A p \in Users : verdict'[p].what # "fatal"
                 /\ InService' => BeatInv'
  BY <1>3, <1>5 DEF FoundInv
<1> QED
  BY <1>4, <1>8, <1>9, <1>10, <1>11 DEF FoundInv

\* The constructor and the end of the queue, of whomever.
LEMMA QueueFound ==
  ASSUME LifeInv, FoundInv, NEW p \in Users,
         \/ Construct(p) \/ LeaderFails(p) \/ UnlinkNext(p) \/ CloseQueue(p, "closing"),
         UNCHANGED sessionVars
  PROVE  FoundInv'
<1>1. UNCHANGED <<scenario, state, verdict, waited, lucky, turn>>
  BY DEF sessionVars, agentVars, clientVars
<1>2. PICK place \in Building \cup Unlinking \cup {"closed"} :
        /\ Go(p, place) /\ pc[p] \notin Service /\ names'["state"] = names["state"]
        /\ \A q \in Users \ {p} : hold'[q] = hold[q]
  <2>1. CASE Construct(p) \/ LeaderFails(p)
    BY <2>1, Builds, BuildsAlone DEF Building, Service
  <2>2. CASE UnlinkNext(p)
    <3>1. PICK s \in {<<"unlink1", "items", "unlink2">>, <<"unlink2", "space", "unlink3">>,
                      <<"unlink3", "ready", "unlink4">>, <<"unlink4", "queue", "closed">>} :
            /\ Move(p, s[1], s[3]) /\ Unlink(s[2])
            /\ hold' = IF s[3] = "unlink4" THEN LetGo(p) ELSE hold
      BY <2>2, Zenon DEF UnlinkNext
    <3>2. s[1] \in Unlinking /\ s[3] \in Unlinking \cup {"closed"} /\ s[2] # "state"
      BY <3>1, SMT DEF Unlinking
    <3>3. hold \in [Users -> [Names -> Nat]] /\ names \in [Names -> Nat] /\ "state" \in Names
      BY DEF LifeInv, LifeTypes, Names
    <3>4. names'["state"] = names["state"]
      BY <3>1, <3>2, <3>3 DEF Unlink
    <3>5. \A q \in Users \ {p} : hold'[q] = hold[q]
      BY <3>1, <3>3 DEF LetGo
    <3>6. pc[p] \in Unlinking /\ Go(p, s[3])
      BY <3>1, <3>2 DEF Move, At
    <3>7. \A l \in Unlinking : l \notin Service
      BY DEF Unlinking, Service
    <3> QED
      BY <3>2, <3>4, <3>5, <3>6, <3>7
  <2>3. CASE CloseQueue(p, "closing")
    BY <2>3 DEF CloseQueue, Move, At, Unlinking, Service
  <2> QED
    BY <2>1, <2>2, <2>3
<1>3. place \notin Service /\ place \notin {"off", "look", "poll", "refused"}
  BY <1>2 DEF Building, Unlinking, Service
<1>4. p = Agent \/ p \in Clients
  BY UsersAssumption
<1> QED
  BY <1>1, <1>2, <1>3, <1>4, OutFound, AsideFound, Zenon

\* A client with a queue: its command or its use.
LEMMA UsersFound ==
  ASSUME LifeInv, FoundInv, NEW c \in Clients,
         SendCommand(c) \/ Acquire(c) \/ ReadOutcome(c) \/ WaitTimeout(c) \/ UseQueue(c)
  PROVE  FoundInv'
<1>1. UNCHANGED <<scenario, state, verdict, waited, lucky, turn, names>>
  <2>1. CASE UseQueue(c)
    BY <2>1 DEF UseQueue, sessionVars, agentVars, clientVars, ResetPointers, Drain, Refill, CloseHandles
  <2> QED
    BY <2>1 DEF SendCommand, Acquire, ReadOutcome, WaitTimeout, sessionVars, agentVars, clientVars
<1>2. c \in Users /\ c # Agent
  BY UsersAssumption
<1>3. PICK place \in {"waiting", "woken", "closing", "closed", "cleared"} \cup ClearSteps : Go(c, place)
  <2>1. CASE Drain(c)
    <3>1. PICK s \in {<<"drain", "items", "drainspace">>, <<"drainspace", "space", "refill">>} :
            pc[c] = s[1] /\ (pc' = pc \/ Go(c, s[3]))
      BY <2>1 DEF Drain, At
    <3>2. s[1] \in ClearSteps /\ s[3] \in ClearSteps
      BY <3>1, SMT DEF ClearSteps
    <3>3. pc' = pc => Go(c, pc[c])
      BY <1>2 DEF Go, LifeInv, LifeTypes
    <3> QED
      BY <3>1, <3>2, <3>3
  <2>2. CASE ~Drain(c)
    BY <2>2 DEF SendCommand, Acquire, ReadOutcome, WaitTimeout, UseQueue, ResetPointers, Refill,
                CloseHandles, Move, ClearSteps
  <2> QED
    BY <2>1, <2>2
<1>4. \A q \in Users \ {c} : hold'[q] = hold[q]
  <2>1. hold' = hold \/ hold' = LetGo(c)
    BY DEF SendCommand, Acquire, ReadOutcome, WaitTimeout, UseQueue, ResetPointers, Drain, Refill,
           CloseHandles
  <2> QED
    BY <2>1 DEF LetGo, LifeInv, LifeTypes
<1>5. place \notin {"off", "look", "poll", "refused"}
  BY <1>3 DEF ClearSteps
<1> QED
  BY <1>1, <1>3, <1>4, <1>5, AsideFound, Zenon

\* The agent comes, serves and goes.
LEMMA AgentFound ==
  ASSUME LifeInv, FailTypes, FoundInv,
         \/ StartAgent \/ UnlinkState \/ AgentDies
         \/ StepIdle \/ StepCommand \/ Handle \/ RecordError \/ ReleaseSemaphore
  PROVE  FoundInv'
<1>1. Agent \in Users /\ pc \in [Users -> Places]
  BY UsersAssumption DEF LifeInv, LifeTypes
<1>2. CASE StartAgent \/ UnlinkState
  <2>1. UNCHANGED <<scenario, verdict, waited, lucky, turn>>
    BY <1>2 DEF StartAgent, UnlinkState, sessionVars, agentVars, clientVars
  <2>2. PICK place \in {"new", "off"} : Go(Agent, place) /\ pc[Agent] \in {"off", "closed"}
    BY <1>2 DEF StartAgent, UnlinkState, Move, At
  <2>3. place \notin Service /\ pc[Agent] \notin Service
    BY <2>2 DEF Service
  <2> QED
    BY <2>1, <2>2, <2>3, OutFound, Zenon
<1>3. CASE AgentDies
  <2>1. /\ ~Steady /\ UNCHANGED <<scenario, waited, lucky, turn>> /\ Go(Agent, "off")
    BY <1>3 DEF AgentDies, Steady, sessionVars, clientVars
  <2>2. \A c \in Clients : pc'[c] = pc[c]
    BY <1>1, <2>1, UsersAssumption DEF Go
  <2>3. ~Steady'
    BY <2>1 DEF Steady
  <2> QED
    BY <2>1, <2>2, <2>3 DEF FoundInv
<1>4. CASE StepIdle \/ StepCommand
  <2>1. pc[Agent] \in Service /\ UNCHANGED <<scenario, hold, names, waited, lucky, verdict>> /\ Beat
    BY <1>4 DEF StepIdle, StepCommand, At, Service, lifeVars, clientVars
  <2>2. \E place \in Service : Go(Agent, place)
    <3>1. pc' = pc => Go(Agent, pc[Agent])
      BY <1>1 DEF Go
    <3> QED
      BY <1>4, <2>1, <3>1 DEF StepIdle, StepCommand, lifeVars, Service
  <2>3. state'[Mine(Agent)].age = 0 /\ turn' = turn \cup {Agent}
    <3>1. Mine(Agent) \in 1..Len(state) /\ state \in Seq(File)
      BY <1>1, <2>1, AgentFile, UserFacts
    <3>2. state' = [state EXCEPT ![Mine(Agent)].age = 0] /\ turn' = turn \cup {Agent}
      BY <2>1 DEF Beat
    <3> QED
      BY <3>1, <3>2, SMT DEF File
  <2>4. Steady => \A p \in Users : verdict'[p].what # "fatal"
    BY <2>1 DEF FoundInv
  <2> QED
    BY <2>1, <2>2, <2>3, <2>4, ServiceFound, Zenon
<1>5. CASE Handle
  <2>1. /\ pc[Agent] \in Service /\ UNCHANGED <<scenario, hold, names, waited, lucky, state, turn>>
        /\ doing \in Users
    BY <1>1, <1>5, UserFacts DEF Handle, At, Service, clientVars
  <2>2. PICK v \in {"ok", "refused"} \cup (IF scenario.fatal THEN {"fatal"} ELSE {}) :
           /\ verdict' = [verdict EXCEPT ![doing] = [what |-> v, file |-> Mine(Agent)]]
           /\ Go(Agent, IF v = "ok" THEN "release" ELSE "record")
    BY <1>5, Zenon DEF Handle
  <2>3. \E place \in Service : Go(Agent, place)
    BY <2>2 DEF Service
  <2>4. ASSUME Steady, NEW p \in Users PROVE verdict'[p].what # "fatal"
    <3>1. v # "fatal" /\ verdict[p].what # "fatal"
      BY <2>2, <2>4 DEF Steady, FoundInv
    <3>2. p \in DOMAIN verdict
      BY DEF FailTypes
    <3> QED
      BY <2>2, <3>1, <3>2
  <2> QED
    BY <2>1, <2>3, <2>4, ServiceFound, Zenon
<1>6. CASE RecordError
  <2>1. /\ pc[Agent] \in Service /\ UNCHANGED <<scenario, hold, names, waited, lucky, verdict, turn>>
        /\ Go(Agent, "release") /\ "release" \in Service
    BY <1>6 DEF RecordError, Move, At, Service, clientVars
  <2>2. state'[Mine(Agent)].age = state[Mine(Agent)].age
    <3>1. Mine(Agent) \in 1..Len(state) /\ state \in Seq(File)
      BY <1>1, <2>1, AgentFile, UserFacts
    <3>2. PICK e : state' = [state EXCEPT ![Mine(Agent)].errors = e]
      BY <1>6 DEF RecordError
    <3> QED
      BY <3>1, <3>2, SMT DEF File
  <2>3. Steady => \A p \in Users : verdict'[p].what # "fatal"
    BY <2>1 DEF FoundInv
  <2> QED
    BY <2>1, <2>2, <2>3, ServiceFound, Zenon
<1>7. CASE ReleaseSemaphore
  <2>1. /\ pc[Agent] \in Service
        /\ UNCHANGED <<scenario, hold, names, waited, lucky, verdict, state, turn>>
    BY <1>7 DEF ReleaseSemaphore, Move, At, Service, agentVars, clientVars
  <2>2. PICK place \in {"closing", "loop"} :
          Go(Agent, place) /\ (place = "closing" => verdict[doing].what = "fatal")
    BY <1>7 DEF ReleaseSemaphore, Move
  <2>3. Steady => \A p \in Users : verdict'[p].what # "fatal"
    BY <2>1 DEF FoundInv
  <2>4. Steady => place \in Service
    BY <1>1, <2>2, UserFacts DEF FoundInv, Service
  <2> QED
    BY <2>1, <2>2, <2>3, <2>4, ServiceFound, Zenon
<1> QED
  BY <1>2, <1>3, <1>4, <1>5, <1>6, <1>7, Zenon

\* The agent comes into service, and nobody has met it yet.
LEMMA OpenFound ==
  ASSUME LifeInv, FoundInv, OpenState
  PROVE  FoundInv'
<1>1. Agent \in Users /\ Clients \subseteq Users /\ \A c \in Clients : c # Agent
  BY UsersAssumption
<1>2. /\ pc[Agent] = "up" /\ Go(Agent, "loop") /\ turn' = turn \cup {Agent}
      /\ UNCHANGED <<scenario, verdict, waited, lucky>>
  BY DEF OpenState, Move, At, clientVars
<1>3. pc'[Agent] = "loop" /\ \A c \in Clients : pc'[c] = pc[c] /\ (c \in turn' <=> c \in turn)
  BY <1>1, <1>2 DEF Go, LifeInv, LifeTypes
<1>4. Steady' <=> Steady
  BY <1>2 DEF Steady
<1>5. Steady => lucky = {}
  BY <1>2 DEF FoundInv, LuckInv, InService
<1>6. BeatInv'
  <2>1. /\ names \in [Names -> Nat] /\ hold \in [Users -> [Names -> Nat]] /\ state \in Seq(File)
        /\ Len(state) \in Nat /\ names["state"] <= Len(state) /\ "state" \in Names
    BY <1>1, UserFacts DEF InRange, Names, LifeInv, LifeTypes
  <2>2. CASE names["state"] # 0
    <3>1. /\ state' = [state EXCEPT ![names["state"]].age = 0]
          /\ hold' = [hold EXCEPT ![Agent]["state"] = names["state"]] /\ names' = names
      BY <2>2 DEF OpenState, Open
    <3>2. hold'[Agent]["state"] = names["state"]
      BY <1>1, <2>1, <3>1
    <3>3. names["state"] \in 1..Len(state)
      BY <2>1, <2>2, SMT
    <3>4. state'[names["state"]].age = 0
      BY <2>1, <3>1, <3>3, SMTT(20) DEF File
    <3> QED
      BY <3>1, <3>2, <3>4 DEF BeatInv, Mine
  <2>3. CASE names["state"] = 0
    <3>1. /\ state' = Append(state, [age |-> 0, errors |-> NoErrors])
          /\ names' = [names EXCEPT !["state"] = Len(state) + 1]
          /\ hold' = [hold EXCEPT ![Agent]["state"] = Len(state) + 1]
      BY <2>3 DEF OpenState
    <3>2. hold'[Agent]["state"] = Len(state) + 1 /\ names'["state"] = Len(state) + 1
      BY <1>1, <2>1, <3>1
    <3>3. state'[Len(state) + 1].age = 0
      BY <2>1, <3>1, SMT
    <3> QED
      BY <3>2, <3>3 DEF BeatInv, Mine
  <2> QED
    BY <2>2, <2>3
<1> QED
  BY <1>2, <1>3, <1>4, <1>5, <1>6 DEF FoundInv

\* A client begins to look, and finds.
LEMMA ClientsFound ==
  ASSUME LifeInv, FoundInv, NEW c \in Clients,
         StartClient(c) \/ FindState(c) \/ PollHeartbeat(c) \/ Refuse(c)
  PROVE  FoundInv'
<1>1. Agent \in Users /\ Clients \subseteq Users /\ \A d \in Clients : d # Agent
  BY UsersAssumption
<1>2. UNCHANGED <<scenario, state, verdict, waited, names>> /\ pc \in [Users -> Places]
      /\ hold \in [Users -> [Names -> Nat]]
  BY DEF StartClient, FindState, PollHeartbeat, Refuse, agentVars, clientVars, sessionVars, LifeInv,
         LifeTypes
<1>3. Steady' <=> Steady
  BY <1>2 DEF Steady
<1>4. /\ \A q \in Users : q # c => pc'[q] = pc[q] /\ hold'[q] = hold[q]
      /\ turn' = turn \/ turn' = turn \cup {c}
      /\ lucky' = lucky \/ lucky' = lucky \cup {c}
  BY <1>2 DEF StartClient, FindState, PollHeartbeat, Refuse, Go, Open, clientVars, sessionVars
<1>5. (InService' <=> InService) /\ Mine(Agent)' = Mine(Agent) /\ (Agent \in turn' <=> Agent \in turn)
  BY <1>1, <1>4 DEF InService, Mine
<1>6. BeatInv => BeatInv'
  BY <1>2, <1>5 DEF BeatInv
<1>7. ASSUME NEW d \in Clients, d # c, LuckInv(d) PROVE LuckInv(d)'
  <2>1. pc'[d] = pc[d] /\ Mine(d)' = Mine(d) /\ (d \in turn' <=> d \in turn)
    BY <1>1, <1>4, <1>7 DEF Mine
  <2> QED
    BY <1>2, <1>5, <1>7, <2>1 DEF LuckInv
<1>8. pc'[c] # "off"
  <2>1. pc[c] # "off" \/ pc'[c] \in {"look", "new"}
    BY <1>1, <1>2 DEF StartClient, FindState, PollHeartbeat, Refuse, At, Go
  <2>2. pc'[c] = pc[c] \/ pc'[c] \in {"look", "new", "poll", "refused"}
    BY <1>1, <1>2 DEF StartClient, FindState, PollHeartbeat, Refuse, At, Go
  <2> QED
    BY <2>1, <2>2
<1>9. ASSUME Steady, c \in lucky' PROVE LuckInv(c)'
  <2>1. CASE StartClient(c)
    <3>1. pc[c] = "off" /\ pc'[c] = "look" /\ InService /\ turn' = turn
      <4>1. c \notin lucky
        BY <1>9, <2>1 DEF FoundInv, LuckInv, StartClient, At
      <4> QED
        BY <1>1, <1>2, <1>9, <2>1, <4>1 DEF StartClient, At, Go
    <3>2. c \notin turn /\ waited[c] = 0
      BY <3>1 DEF FoundInv
    <3> QED
      BY <1>2, <1>5, <3>1, <3>2 DEF LuckInv
  <2>2. ASSUME ~StartClient(c) PROVE LuckInv(c) /\ BeatInv /\ InService
    <3>1. c \in lucky
      BY <1>9, <2>2 DEF FindState, PollHeartbeat, Refuse, clientVars, sessionVars
    <3> QED
      BY <1>9, <3>1 DEF FoundInv, LuckInv
  <2>3. CASE FindState(c)
    <3>0. LuckInv(c) /\ BeatInv /\ InService
      BY <2>2, <2>3 DEF FindState, StartClient, At
    <3>1. names["state"] # 0
      <4>1. Mine(Agent) \in 1..Len(state)
        BY <3>0, AgentFile DEF InService, Service
      <4> QED
        BY <3>0, <4>1 DEF BeatInv
    <3>2. pc[c] = "look" /\ pc'[c] = "poll" /\ Mine(c)' = names["state"] /\ turn' = turn
      BY <1>1, <1>2, <2>3, <3>1 DEF FindState, At, Go, Open, Mine, Names
    <3> QED
      BY <1>2, <1>5, <3>0, <3>2 DEF LuckInv
  <2>4. CASE PollHeartbeat(c)
    <3>0. LuckInv(c) /\ BeatInv /\ InService
      BY <2>2, <2>4 DEF PollHeartbeat, StartClient, At
    <3>1. pc[c] = "poll" /\ state[Mine(c)].age \in {0, 1}
      BY <2>4, <3>0 DEF PollHeartbeat, At, LuckInv, BeatInv
    <3>2. IsFresh(state[Mine(c)].age)
      BY <3>1, TimeAssumption DEF IsFresh
    <3>3. pc'[c] = "new"
      BY <1>1, <1>2, <2>4, <3>2 DEF PollHeartbeat, Go
    <3> QED
      BY <1>5, <3>0, <3>3 DEF LuckInv
  <2>5. CASE Refuse(c)
    <3>0. LuckInv(c)
      BY <2>2, <2>5 DEF Refuse, StartClient, At
    <3> QED
      BY <2>5, <3>0, TimeAssumption DEF Refuse, LuckInv
  <2> QED
    BY <2>1, <2>3, <2>4, <2>5
<1>10. ASSUME NEW d \in Clients, pc'[d] = "off" PROVE d \notin turn' /\ waited'[d] = 0
  <2>1. d # c
    BY <1>8, <1>10
  <2> QED
    BY <1>1, <1>2, <1>4, <1>10, <2>1 DEF FoundInv
<1>11. lucky' \subseteq Clients /\ waited' \in [Clients -> Nat]
  BY <1>2, <1>4 DEF FoundInv
<1>12. Steady => \A d \in lucky' : LuckInv(d)'
  BY <1>4, <1>7, <1>9 DEF FoundInv
<1>13. Steady => /\ \A p \in Users : verdict'[p].what # "fatal"
                 /\ InService' => BeatInv'
  BY <1>2, <1>5, <1>6 DEF FoundInv
<1> QED
  BY <1>3, <1>10, <1>11, <1>12, <1>13 DEF FoundInv

\* Time passes only after the agent has beaten and everyone who waits has looked.
LEMMA TickFound ==
  ASSUME LifeInv, FoundInv, Tick
  PROVE  FoundInv'
<1>1. Agent \in Users /\ Clients \subseteq Users /\ \A c \in Clients : c # Agent
  BY UsersAssumption
<1>2. /\ Due \subseteq turn /\ pc[Agent] \notin {"record", "release"}
      /\ pc[Agent] = "handle" => scenario.slow
      /\ turn' = {} /\ UNCHANGED <<names, pc, hold, scenario, verdict, lucky>>
      /\ waited' = [c \in Clients |-> IF c \in Due THEN Older(waited[c], Patience + 1) ELSE 0]
  BY DEF Tick, lifeVars
<1>3. (Steady' <=> Steady) /\ (InService' <=> InService) /\ \A p : Mine(p)' = Mine(p)
  BY <1>2 DEF Steady, InService, Mine
<1>4. waited' \in [Clients -> Nat] /\ \A c \in Clients : c \notin Due => waited'[c] = 0
  <2>1. waited \in [Clients -> Nat]
    BY DEF FoundInv
  <2>2. \A c \in Clients : Older(waited[c], Patience + 1) \in Nat
    BY <2>1, TimeAssumption, SMTT(20) DEF Older
  <2> QED
    BY <1>2, <2>2, Zenon
<1>5. ASSUME Steady, InService PROVE BeatInv'
  <2>1. pc[Agent] = "loop" /\ Agent \in turn
    BY <1>2, <1>5 DEF Steady, InService, Due
  <2>2. state[Mine(Agent)].age = 0 /\ names["state"] = Mine(Agent)
    BY <1>5, <2>1 DEF FoundInv, BeatInv
  <2>3. Mine(Agent) \in 1..Len(state) /\ state \in Seq(File)
    BY <1>1, <2>1, AgentFile, UserFacts DEF Service
  <2>4. Mine(Agent) \in DOMAIN state
    <3>1. DOMAIN state = 1..Len(state)
      BY <2>3, SeqDomain, Zenon
    <3> QED
      BY <2>3, <3>1, Zenon
  <2>5. state'[Mine(Agent)].age = Older(state[Mine(Agent)].age, Fresh)
    <3>1. PICK E : E = [s \in DOMAIN state |->
                         [c \in Clients |-> IF state[s].errors[c] = Gone THEN Gone
                                            ELSE Older(state[s].errors[c], Ttl + 1)]]
      BY Zenon
    <3>2. state' = [s \in DOMAIN state |-> [age |-> Older(state[s].age, Fresh), errors |-> E[s]]]
      BY <3>1 DEF Tick
    <3> QED
      BY <2>4, <3>2, SMT
  <2>6. Older(0, Fresh) \in {0, 1}
    BY TimeAssumption, SMT DEF Older
  <2> QED
    BY <1>2, <1>3, <2>2, <2>5, <2>6 DEF BeatInv
<1>6. ASSUME Steady, NEW c \in lucky PROVE LuckInv(c)'
  <2>1. c \in Clients /\ LuckInv(c)
    BY <1>6 DEF FoundInv
  <2>2. pc[c] \notin {"look", "poll"}
    BY <1>2, <2>1 DEF LuckInv, Due
  <2> QED
    BY <1>2, <1>3, <2>1, <2>2 DEF LuckInv
<1>7. ASSUME NEW c \in Clients, pc'[c] = "off" PROVE c \notin turn' /\ waited'[c] = 0
  <2>1. c \notin Due
    BY <1>1, <1>2, <1>7 DEF Due
  <2> QED
    BY <1>2, <1>4, <2>1
<1> QED
  BY <1>2, <1>3, <1>4, <1>5, <1>6, <1>7 DEF FoundInv

\* Nobody has looked for anybody.
LEMMA FoundInit ==
  ASSUME Init
  PROVE  FoundInv
<1>1. /\ pc = [p \in Users |-> "off"] /\ lucky = {} /\ turn = {}
      /\ waited = [c \in Clients |-> 0]
      /\ verdict = [p \in Users |-> [what |-> "none", file |-> 0]]
  BY DEF Init
<1>2. ~InService
  BY <1>1, UsersAssumption DEF InService
<1>3. \A p \in Users : verdict[p].what # "fatal"
  BY <1>1
<1> QED
  BY <1>1, <1>2, <1>3 DEF FoundInv

\* Every step keeps the heartbeat fresh for those who look.
LEMMA FoundNext ==
  ASSUME LifeInv, FailTypes, FoundInv, [Next]_vars
  PROVE  FoundInv'
<1>1. CASE UNCHANGED vars
  <2>1. UNCHANGED <<names, pc, hold, state, verdict, scenario, waited, lucky, turn>>
    BY <1>1 DEF vars, lifeVars, sessionVars, agentVars, clientVars
  <2>2. (Steady' <=> Steady) /\ (InService' <=> InService) /\ \A p : Mine(p)' = Mine(p)
    BY <2>1 DEF Steady, InService, Mine
  <2>3. BeatInv => BeatInv'
    BY <2>1, <2>2 DEF BeatInv
  <2>4. \A c \in lucky : LuckInv(c) => LuckInv(c)'
    BY <2>1, <2>2 DEF LuckInv
  <2> QED
    BY <2>1, <2>2, <2>3, <2>4 DEF FoundInv
<1>2. ASSUME NEW p \in Users, UserStep(p) PROVE FoundInv'
  <2>1. CASE Construct(p) /\ UNCHANGED sessionVars
    BY <2>1, QueueFound, Zenon
  <2>2. CASE UnlinkNext(p) /\ UNCHANGED sessionVars
    BY <2>2, QueueFound, Zenon
  <2>3. CASE p = Agent /\ AgentStep
    BY <2>3, OpenFound, AgentFound, QueueFound, Zenon DEF AgentStep
  <2>4. CASE p \in Clients /\ ClientStep(p)
    BY <2>4, ClientsFound, UsersFound, QueueFound, Zenon DEF ClientStep
  <2> QED
    BY <1>2, <2>1, <2>2, <2>3, <2>4, Zenon DEF UserStep
<1>3. ASSUME StartAgent \/ AgentDies PROVE FoundInv'
  BY <1>3, AgentFound, Zenon
<1>4. ASSUME NEW c \in Clients, StartClient(c) \/ WaitTimeout(c) PROVE FoundInv'
  BY <1>4, ClientsFound, UsersFound, Zenon
<1>5. ASSUME NEW p \in Users, LeaderFails(p), UNCHANGED sessionVars PROVE FoundInv'
  BY <1>5, QueueFound, Zenon
<1> QED
  BY <1>1, <1>2, <1>3, <1>4, <1>5, TickFound, Zenon DEF Next

\* A client that begins to look for an agent in service is not turned away, unless a
\* handler takes its time or something ends the agent: every iteration of the loop
\* beats, and a heartbeat is fresh for longer than an iteration takes (agent.py,
\* _update_heartbeat; client.py, _connect_agent).
THEOREM AgentAlwaysFound == Spec => []LiveAgentFound
<1>1. Init => FoundInv
  BY FoundInit
<1>2. LifeInv /\ SeenInv /\ FoundInv /\ [Next]_vars => FoundInv'
  BY FoundNext DEF SeenInv
<1>3. FoundInv => LiveAgentFound
  BY DEF FoundInv, LuckInv, LiveAgentFound, Steady
<1> QED
  BY <1>1, <1>2, <1>3, SeenAlways, PTL DEF Spec
=============================================================================

-------------------------- MODULE DualBatchProofs ---------------------------
(***************************************************************************)
(* What a rank keeps about a batch by itself, for any number of ranks and  *)
(* any programs of the workers: weights never go back to an older round,   *)
(* no command is lost, and a handler keeps its batch.                      *)
(*                                                                         *)
(* A generation comes into a client's hands only when both roles are       *)
(* registered (GrantInv), and so the commands of an incomplete             *)
(* registration never share the batch with those of a transfer (BatchInv): *)
(* whoever drops the batch knows everyone it keeps waiting.                *)
(*                                                                         *)
(* Then what the ranks have in common: the generations of a batch, which   *)
(* each rank counts for itself, and the order of the collectives on the    *)
(* batch group.  A rank is at most one registration ahead of another, and  *)
(* then what it made of that registration is what the other one is going   *)
(* to make of it: the verdict depends on the gathered layouts, and on      *)
(* nothing else that two ranks can see differently (Verdict).              *)
(***************************************************************************)
EXTENDS DualBatch, TLAPS

\* Most leaves are first-order: Zenon tries them before SMT.
USE ZenonT(3), SMTT(15)

Places == {"dequeue", "register", "pin", "gather", "start", "copied",
           "published", "dead"}
Answers == {"none", "ok", "error", "yes", "no"}
Layouts == {"ok", "other", "empty", "bad"}

\* The direction of a batch, if it has one.
Pins == Roles \cup {"none"}

Entry == [gen : Nat, src : Pins, round : Rounds]

\* The types of the clients' and of the agents' state.
ClientTypes ==
  /\ prog \in Programs
  /\ at \in [Ranks -> [Roles -> Nat]]
  /\ waiting \in [Ranks -> [Roles -> BOOLEAN]]
  /\ handler \in [Ranks -> [Roles -> Nat]]
  /\ stamp \in [Cmds -> Nat]
  /\ inbox \in [Ranks -> Seq(Cmds)]
  /\ reply \in [Cmds -> Answers]
  /\ result \in [Cmds -> Nat]

BatchTypes ==
  /\ pc \in [Ranks -> Places]
  /\ cur \in [Ranks -> Cmds \cup {NoCmd}]
  /\ gens \in [Ranks -> Nat]
  /\ live \in [Ranks -> Nat]
  /\ joined \in [Ranks -> SUBSET Roles]
  /\ held \in [Ranks -> SUBSET Cmds]
  /\ dirn \in [Ranks -> Pins]
  /\ done \in [Ranks -> Rounds \cup {-1}]
  /\ parked \in [Ranks -> [Rounds -> SUBSET Cmds]]
  /\ \A g \in DOMAIN pin : pin[g] \in Roles
  /\ world \in [Ranks -> Seq([arg : Layouts, dup : BOOLEAN])]
  /\ copied \in [Ranks -> Seq(Entry)]

TypeInv == ClientTypes /\ BatchTypes

\* The calls of rank r's workers.
Of(r) == {c \in Calls : c.rank = r}

\* A client is somewhere in its program; a call it has still to make carries no
\* generation, unless it asks again.
ClientInv(r) ==
  /\ \A x \in Roles :
       /\ at[r][x] \in 1..(Len(prog.calls[r][x]) + 1)
       /\ waiting[r][x] => at[r][x] > 1
  /\ \A c \in Of(r) :
       c.k >= at[r][c.role] /\ stamp[c] # 0 =>
         StepOf(c).op = "request" /\ reply[c] # "none"

\* A worker closed a handler of generation g.
Closed(r, g) ==
  \E c \in Of(r) : StepOf(c).op = "close" /\ stamp[c] = g

\* A generation a client may hold was registered by both roles, and its batch is
\* there until one of them closes it.
Grant(r, g) ==
  g # 0 =>
    /\ g <= gens[r]
    /\ g = live[r] => joined[r] = Roles
    /\ g = live[r] \/ Closed(r, g)

GrantInv(r) ==
  /\ \A x \in Roles : Grant(r, handler[r][x])
  /\ \A c \in Cmds : c.rank = r => Grant(r, stamp[c]) /\ Grant(r, result[c])

\* A command that was sent: it carries the handler's generation.
Sent(r, c) ==
  /\ c \in Of(r)
  /\ NeedsHandler(c) => stamp[c] # 0
  /\ StepOf(c).op # "request" => c.k < at[r][c.role]

QueueInv(r) == \A i \in 1..Len(inbox[r]) : Sent(r, inbox[r][i])

Executing == {"gather", "start", "copied", "published"}

\* The command an agent handles, and what it found on the way.
HandlingInv(r) ==
  /\ pc[r] = "dequeue" => cur[r] = NoCmd
  /\ pc[r] = "register" =>
       /\ Sent(r, cur[r])
       /\ StepOf(cur[r]).op = "register"
       /\ Len(world[r]) > 0
       /\ world[r][Len(world[r])].arg = StepOf(cur[r]).arg
       /\ StepOf(cur[r]).arg \in {"ok", "other"} /\ cur[r].role \in joined[r] =>
            world[r][Len(world[r])].dup
  /\ pc[r] \in Executing \cup {"pin"} =>
       /\ Sent(r, cur[r])
       /\ IsTransfer(cur[r])
       /\ live[r] # 0 /\ joined[r] = Roles
       /\ stamp[cur[r]] = live[r]
  /\ pc[r] \in Executing =>
       cur[r] \in parked[r][Round(cur[r])] /\ dirn[r] # "none"
  /\ pc[r] \in {"gather", "start"} => done[r] < Round(cur[r])

\* The batch of a rank: while a registration is incomplete nothing was
\* transferred, and a complete one keeps nobody waiting for it.
BatchInv(r) ==
  /\ live[r] \in {0, gens[r]}
  /\ live[r] = 0 => joined[r] = {} /\ held[r] = {}
  /\ joined[r] = Roles => held[r] = {}
  /\ joined[r] # Roles =>
       dirn[r] = "none" /\ done[r] = -1 /\ \A n \in Rounds : parked[r][n] = {}
  /\ \A c \in held[r] : c.rank = r

\* A copy is of a generation of the rank; one of the batch at hand went its
\* direction, in a round that is done.
Logged(r, e) ==
  /\ e.gen \in 1..gens[r]
  /\ e.gen = live[r] => /\ dirn[r] # "none" /\ e.src = dirn[r]
                        /\ e.round <= done[r]

Precedes(e, f) ==
  \/ e.gen < f.gen
  \/ e.gen = f.gen /\ e.src = f.src /\ e.round < f.round

\* The rounds that a rank executed, and where that leaves its batch.
CopyInv(r) ==
  /\ \A i \in 1..Len(copied[r]) : Logged(r, copied[r][i])
  /\ \A i, j \in 1..Len(copied[r]) : i < j => Precedes(copied[r][i], copied[r][j])

\* A command is kept by the agent that took it.
Kept(r, c) ==
  \/ cur[r] = c
  \/ c \in held[r]
  \/ \E n \in Rounds : c \in parked[r][n]

OrphanInv(r) ==
  \A c \in Of(r) :
    /\ c.k < at[r][c.role]
    /\ ~(NeedsHandler(c) /\ stamp[c] = 0)
    /\ \A n \in 1..Len(inbox[r]) : inbox[r][n] # c
    /\ reply[c] = "none"
    => Kept(r, c)

RankInv(r) ==
  /\ ClientInv(r)
  /\ GrantInv(r)
  /\ QueueInv(r)
  /\ HandlingInv(r)
  /\ BatchInv(r)
  /\ CopyInv(r)
  /\ OrphanInv(r)

Inv == TypeInv /\ \A r \in Ranks : RankInv(r)

-----------------------------------------------------------------------------
(* Types *)

\* What is appended to a sequence is its last element.
LEMMA AppendFacts ==
  ASSUME NEW S, NEW s \in Seq(S), NEW e \in S, NEW t, t = Append(s, e)
  PROVE  /\ Len(s) \in Nat /\ t \in Seq(S)
         /\ Len(t) = Len(s) + 1 /\ t[Len(s) + 1] = e
         /\ \A i \in 1..Len(s) : t[i] = s[i]
         /\ \A i \in 1..Len(t) : i \in 1..Len(s) \/ i = Len(s) + 1
OBVIOUS

\* What is in a log is an entry.
LEMMA EntryType ==
  ASSUME NEW s \in Seq(Entry), NEW i \in 1..Len(s)
  PROVE  s[i] \in Entry
BY SMT

\* Rounds are ordered as integers are.
LEMMA RoundOrder ==
  /\ Rounds \cup {-1} \subseteq Int
  /\ \A k, d, n \in Int : k <= d /\ d < n => k < n
  /\ \A k, n \in Int : k < n => k <= n
BY DualAssumption, SMT DEF Rounds

\* What a client of the program calls, one after the other.
LEMMA CallSequence ==
  ASSUME prog \in Programs, NEW r \in Ranks, NEW x \in Roles
  PROVE  prog.calls[r][x] \in Seq(Step)
<1>1. prog \in Program
  BY DualAssumption, Zenon
<1>2. prog.calls \in [Ranks -> [Roles -> Seq(Step)]]
  BY <1>1, Zenon DEF Program
<1>3. prog.calls[r] \in [Roles -> Seq(Step)]
  BY <1>2, Zenon
<1> QED
  BY <1>3, Zenon

\* A call of the program is one of the kinds of calls, about one of the rounds.
LEMMA StepType ==
  ASSUME prog \in Programs, NEW c \in Calls
  PROVE  /\ c \in Cmds
         /\ StepOf(c) \in Step
         /\ Round(c) \in Rounds
<1>1. c.rank \in Ranks /\ c.role \in Roles /\ c.k \in 1..MaxCalls /\ c \in Cmds
      /\ c.k <= Len(prog.calls[c.rank][c.role])
  BY Zenon DEF Calls, Cmds
<1>2. prog.calls[c.rank][c.role] \in Seq(Step)
  BY <1>1, CallSequence, Zenon
<1>3. c.k \in 1..Len(prog.calls[c.rank][c.role])
  BY <1>1, <1>2
<1>4. StepOf(c) \in Step
  BY <1>2, <1>3 DEF StepOf
<1>5. StepOf(c).round <= MaxRound
  BY <1>1, <1>3, DualAssumption, Zenon DEF StepOf
<1>6. StepOf(c).round \in Nat
  BY <1>4, Zenon DEF Step, Registrations, Directions, Closings
<1>7. MaxRound \in Nat
  BY DualAssumption, Zenon
<1>8. StepOf(c).round \in Rounds
  BY <1>5, <1>6, <1>7 DEF Rounds
<1> QED
  BY <1>1, <1>4, <1>8, Zenon DEF Round

\* The queue's head and what is left of it.
LEMMA HeadType ==
  ASSUME NEW S, NEW s \in Seq(S), s # << >>
  PROVE  /\ Head(s) \in S /\ Tail(s) \in Seq(S)
         /\ Head(s) = s[1] /\ Len(s) \in Nat /\ Len(s) > 0
         /\ Len(Tail(s)) = Len(s) - 1
         /\ \A i \in 1..Len(Tail(s)) : Tail(s)[i] = s[i + 1]
OBVIOUS

\* A client's next call is one of its program.
LEMMA NextType ==
  ASSUME TypeInv, NEW r \in Ranks, NEW x \in Roles, ClientInv(r), HasNext(r, x)
  PROVE  NextCmd(r, x) \in Of(r)
<1>1. at[r][x] \in 1..Len(prog.calls[r][x])
  <2>1. prog.calls[r][x] \in Seq(Step)
    BY CallSequence, Zenon DEF TypeInv, ClientTypes
  <2> QED
    BY <2>1 DEF HasNext, ClientInv
<1>2. Len(prog.calls[r][x]) <= MaxCalls /\ Len(prog.calls[r][x]) \in Nat
  BY DualAssumption, SMT DEF TypeInv, ClientTypes, Program
<1> QED
  BY <1>1, <1>2, DualAssumption DEF NextCmd, Of, Calls, Cmds

\* The call a client waits for is one of its program.
LEMMA LastType ==
  ASSUME TypeInv, NEW r \in Ranks, NEW x \in Roles, ClientInv(r), waiting[r][x]
  PROVE  LastCmd(r, x) \in Of(r)
<1>1. Len(prog.calls[r][x]) <= MaxCalls /\ Len(prog.calls[r][x]) \in Nat
  BY DualAssumption, SMT DEF TypeInv, ClientTypes, Program
<1>2. at[r][x] - 1 \in 1..Len(prog.calls[r][x])
  BY <1>1 DEF ClientInv
<1> QED
  BY <1>1, <1>2, DualAssumption DEF LastCmd, Of, Calls, Cmds

\* Answering commands and leaving a handler.
LEMMA AnswerType ==
  ASSUME reply \in [Cmds -> Answers], NEW S, NEW o \in Answers, Answer(S, o)
  PROVE  reply' \in [Cmds -> Answers]
BY DEF Answer

\* The rank is back in its loop, the others are where they were.
LEMMA LeaveType ==
  ASSUME BatchTypes, NEW r \in Ranks, Leave(r)
  PROVE  /\ pc' \in [Ranks -> Places] /\ cur' \in [Ranks -> Cmds \cup {NoCmd}]
         /\ pc'[r] = "dequeue" /\ cur'[r] = NoCmd
         /\ \A q \in Ranks \ {r} : pc'[q] = pc[q] /\ cur'[q] = cur[q]
BY DEF Leave, Goto, BatchTypes, Places

\* A dropped batch is an empty one.
LEMMA DropType ==
  ASSUME BatchTypes, NEW r \in Ranks, Drop(r)
  PROVE  /\ live' \in [Ranks -> Nat] /\ joined' \in [Ranks -> SUBSET Roles]
         /\ held' \in [Ranks -> SUBSET Cmds] /\ dirn' \in [Ranks -> Pins]
         /\ done' \in [Ranks -> Rounds \cup {-1}]
         /\ parked' \in [Ranks -> [Rounds -> SUBSET Cmds]]
<1>1. live' \in [Ranks -> Nat] /\ joined' \in [Ranks -> SUBSET Roles]
      /\ held' \in [Ranks -> SUBSET Cmds]
  BY DEF Drop, BatchTypes
<1>2. "none" \in Pins
  BY DEF Pins
<1>3. dirn' \in [Ranks -> Pins] /\ done' \in [Ranks -> Rounds \cup {-1}]
  BY <1>2 DEF Drop, BatchTypes
<1>4. [n \in Rounds |-> {}] \in [Rounds -> SUBSET Cmds]
  OBVIOUS
<1>5. parked' \in [Ranks -> [Rounds -> SUBSET Cmds]]
  BY <1>4 DEF Drop, BatchTypes
<1> QED
  BY <1>1, <1>3, <1>5

\* The queue of a rank that takes a command.
LEMMA TakeType ==
  ASSUME ClientTypes, NEW r \in Ranks, Take(r)
  PROVE  /\ Head(inbox[r]) \in Cmds
         /\ inbox' \in [Ranks -> Seq(Cmds)]
         /\ inbox'[r] = Tail(inbox[r])
         /\ \A q \in Ranks \ {r} : inbox'[q] = inbox[q]
         /\ inbox[r] \in Seq(Cmds) /\ inbox[r] # << >>
         /\ pc[r] = "dequeue"
<1>1. inbox[r] \in Seq(Cmds) /\ inbox[r] # << >>
  BY DEF ClientTypes, Take
<1>2. Head(inbox[r]) \in Cmds /\ Tail(inbox[r]) \in Seq(Cmds)
  BY <1>1, HeadType
<1> QED
  BY <1>1, <1>2 DEF ClientTypes, Take

\* The direction of a batch, as the store or the batch has it.
LEMMA PinnedType ==
  ASSUME BatchTypes, NEW r \in Ranks
  PROVE  Pinned(r) \in Pins
BY DEF Pinned, BatchTypes, Pins

\* Who is at a place of a transfer or registration handles a command of the rank.
LEMMA CurType ==
  ASSUME TypeInv, NEW r \in Ranks, HandlingInv(r),
         pc[r] \in Executing \cup {"pin", "register"}
  PROVE  /\ cur[r] \in Cmds /\ cur[r].rank = r /\ cur[r].role \in Roles
         /\ cur[r] \in Of(r) /\ cur[r] \in Calls /\ Round(cur[r]) \in Rounds
         /\ StepOf(cur[r]) \in Step /\ Sent(r, cur[r])
<1>1. Sent(r, cur[r])
  BY DEF HandlingInv
<1>2. cur[r] \in Calls /\ cur[r].rank = r
  BY <1>1 DEF Sent, Of
<1>3. prog \in Programs
  BY DEF TypeInv, ClientTypes
<1>4. cur[r] \in Cmds /\ StepOf(cur[r]) \in Step /\ Round(cur[r]) \in Rounds
  BY <1>2, <1>3, StepType
<1> QED
  BY <1>1, <1>2, <1>4 DEF Cmds, Sent

\* A registration that is not refused is of a role that is still missing.
LEMMA Missing ==
  ASSUME Inv, NEW r \in Ranks, pc[r] = "register", ~Refused(r)
  PROVE  joined[r] # Roles /\ cur[r].role \notin joined[r]
<1>0. TypeInv /\ RankInv(r) /\ ClientTypes /\ BatchTypes /\ HandlingInv(r)
  BY DEF Inv, TypeInv, RankInv
<1> PICK w : w = world[r][Len(world[r])]
  OBVIOUS
<1>1. w \in Gathered(world, r)
  BY DEF Gathered
<1>2. ~w.dup /\ w.arg # "bad" /\ StepOf(cur[r]).arg # "empty"
  BY <1>1 DEF Refused
<1>3. w.arg = StepOf(cur[r]).arg /\ StepOf(cur[r]).arg \in Layouts
  <2>1. cur[r] \in Calls /\ StepOf(cur[r]) \in Step /\ StepOf(cur[r]).op = "register"
    BY <1>0, CurType, Zenon DEF HandlingInv
  <2>2. StepOf(cur[r]).arg \in Layouts
    BY <2>1, Zenon DEF Step, Registrations, Directions, Closings, Layouts
  <2> QED
    BY <1>0, <2>2 DEF HandlingInv
<1>4. cur[r].role \notin joined[r]
  BY <1>0, <1>2, <1>3, Zenon DEF HandlingInv, Layouts
<1> QED
  BY <1>0, <1>4, CurType

\* A transfer is handled by a rank whose registration is complete.
LEMMA TransferFacts ==
  ASSUME Inv, NEW r \in Ranks, pc[r] \in Executing \cup {"pin"}
  PROVE  /\ cur[r] \in Cmds /\ cur[r] \in Of(r) /\ Sent(r, cur[r])
         /\ Round(cur[r]) \in Rounds /\ IsTransfer(cur[r])
         /\ live[r] # 0 /\ live[r] = gens[r] /\ joined[r] = Roles /\ held[r] = {}
         /\ stamp[cur[r]] = live[r]
<1>0. TypeInv /\ RankInv(r) /\ HandlingInv(r) /\ BatchInv(r)
  BY DEF Inv, RankInv
<1> QED
  BY <1>0, CurType DEF HandlingInv, BatchInv

-----------------------------------------------------------------------------
(* What a step leaves alone *)

\* Rank q's clients, its commands and its batch are as they were.
SameClients(q) ==
  /\ prog' = prog
  /\ at'[q] = at[q] /\ waiting'[q] = waiting[q] /\ handler'[q] = handler[q]
  /\ \A c \in Cmds : c.rank = q => stamp'[c] = stamp[c]

SameResults(q) == \A c \in Cmds : c.rank = q => result'[c] = result[c]
SameGeneration(q) == gens'[q] = gens[q] /\ live'[q] = live[q] /\ joined'[q] = joined[q]
SameRound(q) == dirn'[q] = dirn[q] /\ done'[q] = done[q]
SameWaiters(q) == held'[q] = held[q] /\ parked'[q] = parked[q]
SamePlace(q) == pc'[q] = pc[q] /\ cur'[q] = cur[q]

\* An answer is not taken back.
Told(q) ==
  \A c \in Cmds : c.rank = q /\ reply[c] # "none" => reply'[c] # "none"

\* The calls, and what they say, are the program's.
LEMMA CallsKept ==
  ASSUME prog' = prog
  PROVE  /\ Calls' = Calls
         /\ \A r : Of(r)' = Of(r)
         /\ \A c : StepOf(c)' = StepOf(c) /\ Round(c)' = Round(c)
         /\ \A c : NeedsHandler(c)' = NeedsHandler(c) /\ IsTransfer(c)' = IsTransfer(c)
         /\ \A c : Source(c)' = Source(c)
BY DEF Calls, Of, StepOf, Round, NeedsHandler, IsTransfer, Source

\* The clients of a rank that no step of theirs moved.
LEMMA ClientKept ==
  ASSUME NEW q \in Ranks, ClientInv(q), SameClients(q), Told(q)
  PROVE  ClientInv(q)'
<1>1. prog' = prog
  BY DEF SameClients
<1>2. \A c \in Of(q) : c \in Cmds /\ c.rank = q
  BY DEF Of, Calls
<1> QED
  BY <1>1, <1>2, CallsKept DEF ClientInv, SameClients, Told

\* A command that was sent stays sent.
LEMMA SentKept ==
  ASSUME NEW q \in Ranks, SameClients(q), NEW c, Sent(q, c)
  PROVE  Sent(q, c)'
<1>1. prog' = prog
  BY DEF SameClients
<1>2. c \in Cmds /\ c.rank = q
  BY DEF Sent, Of, Calls
<1> QED
  BY <1>1, <1>2, CallsKept DEF Sent, SameClients

\* A queue that lost its head, or nothing.
LEMMA QueueKept ==
  ASSUME NEW q \in Ranks, ClientTypes, QueueInv(q), SameClients(q),
         \/ inbox'[q] = inbox[q]
         \/ inbox[q] # << >> /\ inbox'[q] = Tail(inbox[q])
  PROVE  QueueInv(q)'
<1>0. inbox[q] \in Seq(Cmds)
  BY DEF ClientTypes
<1>1. \A i \in 1..Len(inbox'[q]) :
        \E j \in 1..Len(inbox[q]) : inbox'[q][i] = inbox[q][j]
  <2>1. CASE inbox'[q] = inbox[q]
    BY <2>1
  <2>2. CASE inbox[q] # << >> /\ inbox'[q] = Tail(inbox[q])
    <3> TAKE i \in 1..Len(inbox'[q])
    <3>1. i + 1 \in 1..Len(inbox[q]) /\ inbox'[q][i] = inbox[q][i + 1]
      BY <1>0, <2>2, HeadType, SMT
    <3> QED
      BY <3>1
  <2> QED
    BY <2>1, <2>2
<1>2. \A i \in 1..Len(inbox'[q]) : Sent(q, inbox'[q][i])
  BY <1>1 DEF QueueInv
<1> QED
  BY <1>2, SentKept DEF QueueInv

\* A generation that was closed stays closed.
LEMMA ClosedKept ==
  ASSUME NEW q \in Ranks, SameClients(q), NEW g, Closed(q, g)
  PROVE  Closed(q, g)'
<1>1. prog' = prog
  BY DEF SameClients
<1>2. \A c \in Of(q) : c \in Cmds /\ c.rank = q
  BY DEF Of, Calls
<1> QED
  BY <1>1, <1>2, CallsKept DEF Closed, SameClients

\* The generations of a rank whose batch stays.
LEMMA GrantKept ==
  ASSUME NEW q \in Ranks, GrantInv(q), SameClients(q), SameResults(q),
         SameGeneration(q)
  PROVE  GrantInv(q)'
<1>1. \A g : Grant(q, g) => Grant(q, g)'
  BY ClosedKept DEF Grant, SameGeneration
<1> QED
  BY <1>1 DEF GrantInv, SameClients, SameResults

\* A batch that no step touched.
LEMMA BatchKept ==
  ASSUME NEW q \in Ranks, BatchInv(q), SameGeneration(q), SameRound(q),
         SameWaiters(q)
  PROVE  BatchInv(q)'
BY DEF BatchInv, SameGeneration, SameRound, SameWaiters

\* The rounds of a batch that no step touched.
LEMMA CopyKept ==
  ASSUME NEW q \in Ranks, CopyInv(q), SameGeneration(q), SameRound(q),
         copied'[q] = copied[q]
  PROVE  CopyInv(q)'
BY Zenon DEF CopyInv, Logged, SameGeneration, SameRound

\* An agent that stays where it is.
LEMMA HandlingKept ==
  ASSUME NEW q \in Ranks, HandlingInv(q), SameClients(q), SamePlace(q),
         SameGeneration(q), SameRound(q), parked'[q] = parked[q],
         world'[q] = world[q]
  PROVE  HandlingInv(q)'
<1>1. prog' = prog
  BY DEF SameClients
<1>2. \A c : Sent(q, c) => Sent(q, c)' /\ stamp'[c] = stamp[c]
  <2>1. \A c : Sent(q, c) => c \in Cmds /\ c.rank = q
    BY DEF Sent, Of, Calls
  <2> QED
    BY <2>1, SentKept DEF SameClients
<1> QED
  BY <1>1, <1>2, CallsKept, SMT DEF HandlingInv, SamePlace, SameGeneration, SameRound

\* Commands that stay with their agent.
LEMMA OrphanKept ==
  ASSUME NEW q \in Ranks, OrphanInv(q), SameClients(q), Told(q),
         inbox'[q] = inbox[q], cur'[q] = cur[q], SameWaiters(q)
  PROVE  OrphanInv(q)'
<1>1. prog' = prog
  BY DEF SameClients
<1>2. \A c \in Of(q) : c \in Cmds /\ c.rank = q
  BY DEF Of, Calls
<1> QED
  BY <1>1, <1>2, CallsKept, SMT DEF OrphanInv, Kept, SameClients, SameWaiters, Told

\* A step of one rank is nothing to another.
Untouched(q) ==
  /\ SameClients(q) /\ SameResults(q) /\ SameGeneration(q) /\ SameRound(q)
  /\ SameWaiters(q) /\ SamePlace(q)
  /\ inbox'[q] = inbox[q] /\ world'[q] = world[q] /\ copied'[q] = copied[q]

\* What a rank knows outlasts the steps of the others.
LEMMA RankKept ==
  ASSUME NEW q \in Ranks, ClientTypes, RankInv(q), Untouched(q), Told(q)
  PROVE  RankInv(q)'
BY ClientKept, QueueKept, GrantKept, BatchKept, CopyKept, HandlingKept, OrphanKept
   DEF RankInv, Untouched, SameWaiters, SamePlace

\* What is to be shown of a step of rank r.
Preserved(r) ==
  /\ TypeInv' /\ RankInv(r)'
  /\ \A q \in Ranks \ {r} : Untouched(q) /\ Told(q)

-----------------------------------------------------------------------------
(* Steps of the clients *)

\* A command is known by its rank, its role and its number.
LEMMA SameCmd ==
  ASSUME NEW c \in Cmds, NEW d \in Cmds, c.rank = d.rank, c.role = d.role, c.k = d.k
  PROVE  c = d
BY DEF Cmds

\* A call is made: its command is the rank's youngest.
LEMMA SendStep ==
  ASSUME Inv, NEW r \in Ranks, NEW x \in Roles, Send(r, x), prog' = prog
  PROVE  Preserved(r)
<1> PICK c : c = NextCmd(r, x)
  OBVIOUS
<1>0. TypeInv /\ RankInv(r) /\ ClientTypes /\ BatchTypes
  BY DEF Inv, TypeInv
<1>1. c \in Of(r) /\ c \in Calls /\ c \in Cmds /\ c.rank = r /\ c.role = x
      /\ c.k = at[r][x]
  <2>1. NextCmd(r, x) \in Of(r)
    BY <1>0, NextType DEF Send, RankInv
  <2> QED
    BY <2>1 DEF Of, Calls, NextCmd
<1>2. /\ at' \in [Ranks -> [Roles -> Nat]] /\ at'[r][x] = at[r][x] + 1
      /\ \A y \in Roles \ {x} : at'[r][y] = at[r][y]
      /\ \A q \in Ranks \ {r} : at'[q] = at[q]
  BY <1>0, SMT DEF Send, ClientTypes
<1>3. /\ waiting' \in [Ranks -> [Roles -> BOOLEAN]]
      /\ \A y \in Roles \ {x} : waiting'[r][y] = waiting[r][y]
      /\ \A q \in Ranks \ {r} : waiting'[q] = waiting[q]
  <2>1. StepOf(c).wait \in BOOLEAN
    BY <1>0, <1>1, StepType, Zenon
       DEF Step, Registrations, Directions, Closings, ClientTypes
  <2> QED
    BY <1>0, <2>1 DEF Send, ClientTypes
<1>4. /\ handler' \in [Ranks -> [Roles -> Nat]] /\ handler'[r][x] \in {0, handler[r][x]}
      /\ \A y \in Roles \ {x} : handler'[r][y] = handler[r][y]
      /\ \A q \in Ranks \ {r} : handler'[q] = handler[q]
  BY <1>0 DEF Send, ClientTypes
<1>5. /\ stamp' \in [Cmds -> Nat] /\ stamp'[c] \in {0, handler[r][x]}
      /\ (NeedsHandler(c) => stamp'[c] # 0)
      /\ \A d \in Cmds \ {c} : stamp'[d] = stamp[d]
  BY <1>0, <1>1 DEF Send, ClientTypes
<1>6. /\ inbox' \in [Ranks -> Seq(Cmds)] /\ inbox'[r] = Append(inbox[r], c)
      /\ \A q \in Ranks \ {r} : inbox'[q] = inbox[q]
  BY <1>0, <1>1, SMT DEF Send, ClientTypes
<1>7. reply' \in [Cmds -> Answers] /\ \A d \in Cmds \ {c} : reply'[d] = reply[d]
  BY <1>0, <1>1 DEF Send, ClientTypes, Answers
<1>8. UNCHANGED <<result, pc, cur, gens, live, joined, held, dirn, done, parked,
                  pin, world, copied>>
  BY DEF Send, batch, store, comm
<1>9. TypeInv'
  BY <1>0, <1>2, <1>3, <1>4, <1>5, <1>6, <1>7, <1>8, CallsKept, Zenon
     DEF TypeInv, ClientTypes, BatchTypes
<1>10. ASSUME NEW q \in Ranks \ {r} PROVE Untouched(q) /\ Told(q)
  <2>1. \A d \in Cmds : d.rank = q => stamp'[d] = stamp[d] /\ reply'[d] = reply[d]
    BY <1>1, <1>5, <1>7
  <2>2. waiting'[q] = waiting[q]
    BY <1>3, Zenon
  <2>3. at'[q] = at[q] /\ handler'[q] = handler[q]
    BY <1>2, <1>4
  <2>4. SameClients(q) /\ Told(q)
    BY <2>1, <2>2, <2>3, Zenon DEF SameClients, Told
  <2> QED
    BY <1>6, <1>8, <2>4, Zenon
       DEF Untouched, SameResults, SameGeneration, SameRound, SameWaiters, SamePlace
<1>11. \A d \in Of(r) : d \in Cmds /\ d.rank = r /\ d.role \in Roles /\ d.k \in Nat
  BY DEF Of, Calls, Cmds
<1>12. \A d \in Of(r) : d # c /\ d.k < at'[r][d.role] => d.k < at[r][d.role]
  <2> SUFFICES ASSUME NEW d \in Of(r), d # c, d.k < at'[r][d.role]
               PROVE  d.k < at[r][d.role]
    OBVIOUS
  <2>1. CASE d.role # x
    BY <1>2, <1>11, <2>1
  <2>2. CASE d.role = x
    <3>1. d.k # at[r][x]
      BY <1>1, <1>11, <2>2, SameCmd
    <3>2. at[r][x] \in Nat
      BY <1>0 DEF ClientTypes
    <3> QED
      BY <1>2, <1>11, <2>2, <3>1, <3>2, SMT
  <2> QED
    BY <2>1, <2>2
<1>13. \A d \in Of(r) : d.k < at[r][d.role] => d # c /\ d.k < at'[r][d.role]
  <2>1. \A y \in Roles : at[r][y] \in Nat
    BY <1>0 DEF ClientTypes
  <2> QED
    BY <1>1, <1>2, <1>11, <2>1, SMT
<1>14. \A d \in Of(r) : stamp[d] # 0 /\ StepOf(d).op # "request" => d # c
  <2>1. \A y \in Roles : at[r][y] \in Nat
    BY <1>0 DEF ClientTypes
  <2> QED
    BY <1>0, <1>1, <2>1, SMT DEF RankInv, ClientInv
<1>15. ClientInv(r)'
  <2>1. \A y \in Roles : at'[r][y] \in 1..(Len(prog.calls[r][y]) + 1)
    <3>1. at[r][x] <= Len(prog.calls[r][x])
      BY DEF Send, HasNext
    <3>2. Len(prog.calls[r][x]) \in Nat
      BY <1>0, DualAssumption, SMT DEF ClientTypes, Program
    <3> QED
      BY <1>0, <1>2, <3>1, <3>2, SMT DEF RankInv, ClientInv
  <2>2. \A y \in Roles : waiting'[r][y] => at'[r][y] > 1
    <3>1. \A y \in Roles \ {x} : waiting'[r][y] => at[r][y] > 1
      BY <1>0, <1>3, Zenon DEF RankInv, ClientInv
    <3>2. at[r][x] >= 1 /\ at[r][x] \in Nat
      BY <1>0 DEF RankInv, ClientInv, ClientTypes
    <3> QED
      BY <1>2, <3>1, <3>2, SMT
  <2>3. ASSUME NEW d \in Of(r), d.k >= at'[r][d.role], stamp'[d] # 0
        PROVE  StepOf(d).op = "request" /\ reply'[d] # "none"
    <3>1. \A y \in Roles : at[r][y] \in Nat /\ at'[r][y] \in Nat
      BY <1>0, <1>2 DEF ClientTypes
    <3>2. d # c /\ d.k >= at[r][d.role]
      BY <1>1, <1>2, <1>11, <2>3, <3>1, SMT
    <3> QED
      BY <1>0, <1>5, <1>7, <1>11, <2>3, <3>2 DEF RankInv, ClientInv
  <2> QED
    BY <2>1, <2>2, <2>3, CallsKept, Zenon DEF ClientInv
<1>16. GrantInv(r)'
  <2>1. ASSUME NEW g, g # 0, Closed(r, g) PROVE Closed(r, g)'
    BY <1>5, <1>11, <1>14, <2>1, CallsKept, Zenon DEF Closed
  <2>2. \A g : Grant(r, g) => Grant(r, g)'
    BY <1>8, <2>1, Zenon DEF Grant
  <2>3. Grant(r, 0)
    BY DEF Grant
  <2> QED
    BY <1>0, <1>1, <1>4, <1>5, <1>8, <2>2, <2>3, Zenon DEF RankInv, GrantInv
<1>17. \A d : Sent(r, d) => Sent(r, d)'
  <2> SUFFICES ASSUME NEW d, Sent(r, d) PROVE Sent(r, d)'
    OBVIOUS
  <2>1. d \in Of(r) /\ d \in Cmds
    BY <1>11 DEF Sent
  <2> QED
    BY <1>5, <1>13, <2>1, CallsKept DEF Sent
<1>18. Sent(r, c)'
  <2>1. c.k < at'[r][c.role]
    BY <1>0, <1>1, <1>2 DEF ClientTypes
  <2> QED
    BY <1>1, <1>5, <2>1, CallsKept DEF Sent
<1>19. \A i \in 1..Len(inbox'[r]) :
         inbox'[r][i] = c \/ \E j \in 1..Len(inbox[r]) : inbox'[r][i] = inbox[r][j]
  <2>1. inbox[r] \in Seq(Cmds) /\ c \in Cmds
    BY <1>0, <1>1 DEF ClientTypes
  <2>2. ASSUME NEW t, t = Append(inbox[r], c)
        PROVE  \A i \in 1..Len(t) : t[i] = c \/ \E j \in 1..Len(inbox[r]) : t[i] = inbox[r][j]
    BY <2>1, <2>2, AppendFacts, SMT
  <2> QED
    BY <1>6, <2>2, SMT
<1>20. QueueInv(r)'
  <2>1. ASSUME NEW i \in 1..Len(inbox'[r]), NEW d, d = inbox'[r][i]
        PROVE  Sent(r, d)'
    <3>1. CASE d = c
      BY <1>18, <3>1
    <3>2. CASE \E j \in 1..Len(inbox[r]) : d = inbox[r][j]
      BY <1>0, <1>17, <3>2 DEF RankInv, QueueInv
    <3> QED
      BY <1>19, <2>1, <3>1, <3>2
  <2> QED
    BY <2>1 DEF QueueInv
<1>21. HandlingInv(r)'
  <2>1. \A d : Sent(r, d) /\ IsTransfer(d) => stamp'[d] = stamp[d]
    BY <1>5, <1>11, <1>13 DEF Sent, IsTransfer
  <2> QED
    BY <1>0, <1>8, <1>17, <2>1, CallsKept, Zenon DEF RankInv, HandlingInv
<1>22. BatchInv(r)' /\ CopyInv(r)'
  BY <1>0, <1>8, BatchKept, CopyKept, Zenon
     DEF RankInv, SameGeneration, SameRound, SameWaiters
<1>23. OrphanInv(r)'
  <2> SUFFICES ASSUME NEW d \in Of(r), d.k < at'[r][d.role],
                      ~(NeedsHandler(d) /\ stamp'[d] = 0),
                      \A n \in 1..Len(inbox'[r]) : inbox'[r][n] # d,
                      reply'[d] = "none"
               PROVE  Kept(r, d)
    BY <1>8, CallsKept, Zenon DEF OrphanInv, Kept
  <2>1. inbox[r] \in Seq(Cmds)
    BY <1>0, Zenon DEF ClientTypes
  <2>2. d # c /\ \A n \in 1..Len(inbox[r]) : inbox[r][n] # d
    <3>1. Len(inbox'[r]) = Len(inbox[r]) + 1 /\ inbox'[r][Len(inbox[r]) + 1] = c
          /\ \A n \in 1..Len(inbox[r]) : inbox'[r][n] = inbox[r][n]
      BY <1>1, <1>6, <2>1, SMTT(30)
    <3>2. Len(inbox[r]) \in Nat
      BY <2>1, SMTT(30)
    <3>3. Len(inbox[r]) + 1 \in 1..Len(inbox'[r])
          /\ \A n \in 1..Len(inbox[r]) : n \in 1..Len(inbox'[r])
      BY <3>1, <3>2
    <3> QED
      BY <3>1, <3>3, Zenon
  <2> QED
    BY <1>0, <1>5, <1>7, <1>11, <1>12, <2>2, Zenon DEF RankInv, OrphanInv
<1> QED
  BY <1>9, <1>10, <1>15, <1>16, <1>20, <1>21, <1>22, <1>23 DEF RankInv, Preserved

\* A client that sends nothing goes to call a with handler h, which it was
\* granted; whatever it leaves behind was answered or never sent.
Moves(r, x, a, h) ==
  /\ at' = [at EXCEPT ![r][x] = a]
  /\ waiting' = [waiting EXCEPT ![r][x] = FALSE]
  /\ handler' = [handler EXCEPT ![r][x] = h]
  /\ UNCHANGED <<stamp, inbox, reply, result, pc, cur, gens, batch, store, comm>>
  /\ h \in Nat /\ Grant(r, h)
  /\ a \in 1..(Len(prog.calls[r][x]) + 1)
  /\ \A d \in Of(r) : d.role = x =>
       /\ d.k >= a /\ d.k < at[r][x] => StepOf(d).op = "request" /\ reply[d] # "none"
       /\ d.k >= at[r][x] /\ d.k < a =>
            reply[d] # "none" \/ (NeedsHandler(d) /\ stamp[d] = 0)

\* Such a move keeps what the rank knows.
LEMMA MoveStep ==
  ASSUME Inv, NEW r \in Ranks, NEW x \in Roles, prog' = prog,
         NEW a, NEW h, Moves(r, x, a, h)
  PROVE  Preserved(r)
<1>0. TypeInv /\ RankInv(r) /\ ClientTypes /\ BatchTypes
  BY DEF Inv, TypeInv
<1>1. UNCHANGED <<stamp, inbox, reply, result, pc, cur, gens, live, joined, held,
                  dirn, done, parked, pin, world, copied>>
  BY DEF Moves, batch, store, comm
<1>2. Len(prog.calls[r][x]) \in Nat
  BY <1>0, DualAssumption, SMT DEF ClientTypes, Program
<1>3. /\ at' \in [Ranks -> [Roles -> Nat]] /\ at'[r][x] = a
      /\ \A y \in Roles \ {x} : at'[r][y] = at[r][y]
      /\ \A q \in Ranks \ {r} : at'[q] = at[q]
  BY <1>0, <1>2, SMT DEF ClientTypes, Moves
<1>4. /\ waiting' \in [Ranks -> [Roles -> BOOLEAN]] /\ ~waiting'[r][x]
      /\ \A y \in Roles \ {x} : waiting'[r][y] = waiting[r][y]
      /\ \A q \in Ranks \ {r} : waiting'[q] = waiting[q]
  BY <1>0 DEF ClientTypes, Moves
<1>5. /\ handler' \in [Ranks -> [Roles -> Nat]] /\ handler'[r][x] = h
      /\ \A y \in Roles \ {x} : handler'[r][y] = handler[r][y]
      /\ \A q \in Ranks \ {r} : handler'[q] = handler[q]
  BY <1>0 DEF ClientTypes, Moves
<1>6. TypeInv'
  BY <1>0, <1>1, <1>3, <1>4, <1>5, Zenon DEF TypeInv, ClientTypes, BatchTypes
<1>7. ASSUME NEW q \in Ranks \ {r} PROVE Untouched(q) /\ Told(q)
  <2>1. waiting'[q] = waiting[q]
    BY <1>4, Zenon
  <2>2. at'[q] = at[q] /\ handler'[q] = handler[q]
    BY <1>3, <1>5
  <2>3. SameClients(q) /\ Told(q)
    BY <1>1, <2>1, <2>2, Zenon DEF SameClients, Told
  <2> QED
    BY <1>1, <2>3, Zenon
       DEF Untouched, SameResults, SameGeneration, SameRound, SameWaiters, SamePlace
<1>8. \A y \in Roles : at[r][y] \in Nat /\ at'[r][y] \in Nat
  BY <1>0, <1>3, SMT DEF ClientTypes
<1>9. \A d \in Of(r) : d \in Cmds /\ d.rank = r /\ d.role \in Roles /\ d.k \in Nat
  BY DEF Of, Calls, Cmds
<1>10. \A d \in Of(r) : d.k >= at'[r][d.role] /\ d.k < at[r][d.role] =>
         StepOf(d).op = "request" /\ reply[d] # "none"
  BY <1>3, <1>8, <1>9, SMT DEF Moves
<1>11. \A d \in Of(r) : d.k >= at[r][d.role] /\ d.k < at'[r][d.role] =>
         reply[d] # "none" \/ (NeedsHandler(d) /\ stamp[d] = 0)
  BY <1>3, <1>8, <1>9, SMT DEF Moves
<1>12. ClientInv(r)'
  <2>1. \A y \in Roles : at'[r][y] \in 1..(Len(prog.calls[r][y]) + 1)
    BY <1>0, <1>3, Zenon DEF RankInv, ClientInv, Moves
  <2>2. \A y \in Roles : waiting'[r][y] => at'[r][y] > 1
    <3>1. \A y \in Roles \ {x} : waiting'[r][y] => at[r][y] > 1
      BY <1>0, <1>4, Zenon DEF RankInv, ClientInv
    <3> QED
      BY <1>3, <1>4, <3>1
  <2>3. ASSUME NEW d \in Of(r), d.k >= at'[r][d.role], stamp[d] # 0
        PROVE  StepOf(d).op = "request" /\ reply[d] # "none"
    <3>1. CASE d.k < at[r][d.role]
      BY <1>10, <2>3, <3>1, Zenon
    <3>2. CASE d.k >= at[r][d.role]
      BY <1>0, <2>3, <3>2, Zenon DEF RankInv, ClientInv
    <3> QED
      BY <1>8, <1>9, <3>1, <3>2
  <2> QED
    BY <1>1, <2>1, <2>2, <2>3, CallsKept DEF ClientInv
<1>13. GrantInv(r)'
  <2>1. \A g : Grant(r, g) => Grant(r, g)'
    BY <1>1, CallsKept, Zenon DEF Grant, Closed
  <2> QED
    BY <1>0, <1>1, <1>5, <2>1 DEF RankInv, GrantInv, Moves
<1>14. \A d : Sent(r, d) => Sent(r, d)'
  <2> SUFFICES ASSUME NEW d, Sent(r, d) PROVE Sent(r, d)'
    OBVIOUS
  <2>1. StepOf(d).op # "request" => d.k < at'[r][d.role]
    BY <1>8, <1>9, <1>10 DEF Sent
  <2> QED
    BY <1>1, <2>1, CallsKept, Zenon DEF Sent
<1>15. QueueInv(r)'
  BY <1>0, <1>1, <1>14, Zenon DEF RankInv, QueueInv
<1>16. HandlingInv(r)'
  BY <1>0, <1>1, <1>14, CallsKept, Zenon DEF RankInv, HandlingInv
<1>17. BatchInv(r)' /\ CopyInv(r)'
  BY <1>0, <1>1, BatchKept, CopyKept, Zenon
     DEF RankInv, SameGeneration, SameRound, SameWaiters
<1>18. OrphanInv(r)'
  <2> SUFFICES ASSUME NEW d \in Of(r), d.k < at'[r][d.role],
                      ~(NeedsHandler(d) /\ stamp[d] = 0),
                      \A n \in 1..Len(inbox[r]) : inbox[r][n] # d,
                      reply[d] = "none"
               PROVE  Kept(r, d)
    BY <1>1, CallsKept, Zenon DEF OrphanInv, Kept
  <2>1. d.k < at[r][d.role]
    BY <1>8, <1>9, <1>11, SMTT(30)
  <2> QED
    BY <1>0, <2>1, Zenon DEF RankInv, OrphanInv
<1> QED
  BY <1>6, <1>7, <1>12, <1>13, <1>15, <1>16, <1>17, <1>18 DEF RankInv, Preserved

\* There is no handler to make the call with.
LEMMA SkipStep ==
  ASSUME Inv, NEW r \in Ranks, NEW x \in Roles, Skip(r, x), prog' = prog
  PROVE  Preserved(r)
<1>0. TypeInv /\ RankInv(r) /\ ClientTypes /\ ClientInv(r)
  BY DEF Inv, TypeInv, RankInv
<1>1. NextCmd(r, x) \in Of(r) /\ HasNext(r, x) /\ NeedsHandler(NextCmd(r, x))
  BY <1>0, NextType DEF Skip
<1>2. Len(prog.calls[r][x]) \in Nat /\ at[r][x] \in Nat \ {0}
  BY <1>0, DualAssumption, SMT DEF ClientTypes, Program, ClientInv
<1>3. at[r][x] + 1 \in 1..(Len(prog.calls[r][x]) + 1)
  <2>1. at[r][x] <= Len(prog.calls[r][x])
    BY <1>1, Zenon DEF HasNext
  <2>2. \A n \in Nat, k \in Nat \ {0} : k <= n => k + 1 \in 1..(n + 1)
    OBVIOUS
  <2> QED
    BY <1>2, <2>1, <2>2, Zenon
<1>4. ASSUME NEW d \in Of(r), d.role = x, d.k >= at[r][x], d.k < at[r][x] + 1
      PROVE  reply[d] # "none" \/ (NeedsHandler(d) /\ stamp[d] = 0)
  <2>1. d \in Cmds /\ d.rank = r /\ d.k \in Nat
    BY DEF Of, Calls, Cmds
  <2>2. d = NextCmd(r, x)
    <3>1. d.k = at[r][x]
      BY <1>2, <1>4, <2>1
    <3>2. NextCmd(r, x) \in Cmds
      BY <1>1 DEF Of, Calls
    <3> QED
      BY <1>4, <2>1, <3>1, <3>2, SameCmd DEF NextCmd
  <2> QED
    BY <1>0, <1>1, <1>4, <2>2 DEF ClientInv
<1>5. waiting' = [waiting EXCEPT ![r][x] = FALSE]
  <2>1. waiting' = waiting /\ waiting[r][x] = FALSE
    BY <1>0, <1>1 DEF Skip, HasNext, ClientTypes
  <2> QED
    BY <1>0, <2>1 DEF ClientTypes
<1>6. handler' = [handler EXCEPT ![r][x] = 0]
  BY <1>0 DEF Skip, ClientTypes
<1>7. Grant(r, 0)
  BY DEF Grant
<1>8. at' = [at EXCEPT ![r][x] = at[r][x] + 1]
  BY <1>0 DEF Skip, ClientTypes
<1>9. \A d \in Of(r) : d.role = x => ~(d.k >= at[r][x] + 1 /\ d.k < at[r][x])
  <2>1. \A d \in Of(r) : d.k \in Nat
    BY DEF Of, Calls, Cmds
  <2> QED
    BY <1>2, <2>1
<1>10. UNCHANGED <<stamp, inbox, reply, result, pc, cur, gens, batch, store, comm>>
  BY DEF Skip
<1>11. \A d \in Of(r) : d.role = x =>
         /\ d.k >= at[r][x] + 1 /\ d.k < at[r][x] =>
              StepOf(d).op = "request" /\ reply[d] # "none"
         /\ d.k >= at[r][x] /\ d.k < at[r][x] + 1 =>
              reply[d] # "none" \/ (NeedsHandler(d) /\ stamp[d] = 0)
  BY <1>4, <1>9, Zenon
<1>12. Moves(r, x, at[r][x] + 1, 0)
  BY <1>3, <1>5, <1>6, <1>7, <1>8, <1>10, <1>11 DEF Moves
<1> QED
  BY <1>12, MoveStep

\* A blocking call returns; a client that reacts asks again.
LEMMA ReturnStep ==
  ASSUME Inv, NEW r \in Ranks, NEW x \in Roles, Return(r, x), prog' = prog
  PROVE  Preserved(r)
<1> PICK c : c = LastCmd(r, x)
  OBVIOUS
<1>0. TypeInv /\ RankInv(r) /\ ClientTypes /\ ClientInv(r)
  BY DEF Inv, TypeInv, RankInv
<1>1. c \in Of(r) /\ c \in Cmds /\ c.rank = r /\ c.role = x /\ c.k = at[r][x] - 1
  <2>1. LastCmd(r, x) \in Of(r)
    BY <1>0, LastType DEF Return
  <2> QED
    BY <2>1 DEF Of, Calls, LastCmd
<1>2. /\ Len(prog.calls[r][x]) \in Nat /\ at[r][x] \in Nat /\ at[r][x] > 1
      /\ at[r][x] <= Len(prog.calls[r][x]) + 1
  BY <1>0, DualAssumption, SMT DEF ClientTypes, Program, ClientInv, Return
<1>3. \A d \in Of(r) : d \in Cmds /\ d.rank = r /\ d.k \in Nat
  BY DEF Of, Calls, Cmds
<1>4. PICK a : /\ at' = [at EXCEPT ![r][x] = a]
               /\ a = at[r][x] \/ (a = at[r][x] - 1 /\ StepOf(c).op = "request")
  <2> DEFINE b == IF StepOf(c).op = "request" /\ reply[c] = "no"
                    THEN at[r][x] - 1 ELSE at[r][x]
  <2>1. at' = [at EXCEPT ![r][x] = b]
    BY <1>0 DEF Return, ClientTypes
  <2> QED
    BY <2>1, Zenon
<1>5. PICK h : /\ handler' = [handler EXCEPT ![r][x] = h]
               /\ h \in {0, result[c], handler[r][x]}
  <2> DEFINE g == CASE StepOf(c).op = "close" -> 0
                    [] StepOf(c).op = "register" /\ reply[c] = "ok" -> result[c]
                    [] OTHER -> handler[r][x]
  <2>1. handler' = [handler EXCEPT ![r][x] = g]
    BY <1>0 DEF Return, ClientTypes
  <2>2. g \in {0, result[c], handler[r][x]}
    OBVIOUS
  <2> QED
    BY <2>1, <2>2, Zenon
<1>6. h \in Nat /\ Grant(r, h)
  <2>1. Grant(r, 0)
    BY DEF Grant
  <2>2. Grant(r, result[c]) /\ Grant(r, handler[r][x])
    BY <1>0, <1>1 DEF RankInv, GrantInv
  <2>3. result[c] \in Nat /\ handler[r][x] \in Nat
    BY <1>0, <1>1 DEF ClientTypes
  <2> QED
    BY <1>5, <2>1, <2>2, <2>3
<1>7. ASSUME NEW d \in Of(r), d.role = x, d.k >= a, d.k < at[r][x]
      PROVE  StepOf(d).op = "request" /\ reply[d] # "none"
  <2>1. a = at[r][x] - 1 /\ d.k = at[r][x] - 1 /\ StepOf(c).op = "request"
    BY <1>2, <1>3, <1>4, <1>7
  <2>2. d = c
    BY <1>1, <1>3, <1>7, <2>1, SameCmd
  <2> QED
    BY <2>1, <2>2 DEF Return
<1>8. \A d \in Of(r) : ~(d.k >= at[r][x] /\ d.k < a)
  BY <1>2, <1>3, <1>4
<1>9. a \in 1..(Len(prog.calls[r][x]) + 1)
  BY <1>2, <1>4
<1>10. Moves(r, x, a, h)
  BY <1>4, <1>5, <1>6, <1>7, <1>8, <1>9, Zenon DEF Moves, Return
<1> QED
  BY <1>10, MoveStep

\* A worker stops waiting.
LEMMA GiveUpStep ==
  ASSUME Inv, NEW r \in Ranks, NEW x \in Roles, GiveUp(r, x), prog' = prog
  PROVE  Preserved(r)
<1>0. RankInv(r) /\ ClientTypes /\ ClientInv(r)
  BY DEF Inv, TypeInv, RankInv
<1>1. at[r][x] \in 1..(Len(prog.calls[r][x]) + 1) /\ at[r][x] \in Nat
  BY <1>0 DEF ClientInv, ClientTypes
<1>2. handler[r][x] \in Nat /\ Grant(r, handler[r][x])
  BY <1>0 DEF RankInv, GrantInv, ClientTypes
<1>3. at' = [at EXCEPT ![r][x] = at[r][x]]
      /\ handler' = [handler EXCEPT ![r][x] = handler[r][x]]
  BY <1>0, Zenon DEF GiveUp, ClientTypes
<1>4. \A d \in Of(r) : ~(d.k >= at[r][x] /\ d.k < at[r][x])
  <2>1. \A d \in Of(r) : d.k \in Nat
    BY DEF Of, Calls, Cmds
  <2> QED
    BY <1>1, <2>1
<1>5. Moves(r, x, at[r][x], handler[r][x])
  BY <1>1, <1>2, <1>3, <1>4, Zenon DEF Moves, GiveUp
<1> QED
  BY <1>5, MoveStep

-----------------------------------------------------------------------------
(* The agent takes commands and registers tensors *)

\* An agent does nothing to the clients.
LEMMA ClientsAlone ==
  ASSUME UNCHANGED <<prog, clients>>
  PROVE  \A q \in Ranks : SameClients(q)
BY DEF SameClients, clients

\* An agent's answers add to those that were given.
LEMMA AnswerTold ==
  ASSUME NEW S, NEW o, o # "none", Answer(S, o)
  PROVE  \A q \in Ranks : Told(q)
BY DEF Answer, Told

\* Back in the loop, the agent handles nothing.
LEMMA HandlingLeft ==
  ASSUME NEW r \in Ranks, pc'[r] = "dequeue", cur'[r] = NoCmd
  PROVE  HandlingInv(r)'
BY DEF HandlingInv, Executing

\* A batch that is dropped leaves nothing behind.
LEMMA BatchDropped ==
  ASSUME BatchTypes, NEW r \in Ranks, Drop(r)
  PROVE  BatchInv(r)'
<1>1. /\ live'[r] = 0 /\ joined'[r] = {} /\ held'[r] = {}
      /\ dirn'[r] = "none" /\ done'[r] = -1
      /\ parked'[r] = [n \in Rounds |-> {}]
  BY DEF Drop, BatchTypes
<1> QED
  BY <1>1 DEF BatchInv

\* The rounds of a batch that is dropped: no later generation is theirs.
LEMMA CopyDropped ==
  ASSUME BatchTypes, NEW r \in Ranks, CopyInv(r), live'[r] = 0,
         gens'[r] \in {gens[r], gens[r] + 1}, copied'[r] = copied[r]
  PROVE  CopyInv(r)'
<1>1. gens[r] \in Nat
  BY DEF BatchTypes
<1> QED
  BY <1>1 DEF CopyInv, Logged

\* A batch is dropped before anyone was granted it, or after it was closed.
LEMMA GrantDropped ==
  ASSUME BatchTypes, ClientTypes, NEW r \in Ranks, GrantInv(r), SameClients(r),
         SameResults(r), live'[r] = 0, gens'[r] \in {gens[r], gens[r] + 1},
         live[r] # 0 /\ joined[r] = Roles => Closed(r, live[r])
  PROVE  GrantInv(r)'
<1>1. gens[r] \in Nat
  BY DEF BatchTypes
<1>2. ASSUME NEW g \in Nat, Grant(r, g) PROVE Grant(r, g)'
  <2>1. g # 0 => Closed(r, g)'
    BY <1>2, ClosedKept DEF Grant
  <2> QED
    BY <1>1, <1>2, <2>1 DEF Grant
<1>3. \A x \in Roles : handler[r][x] \in Nat
  BY DEF ClientTypes
<1>4. \A c \in Cmds : stamp[c] \in Nat /\ result[c] \in Nat
  BY DEF ClientTypes
<1> QED
  BY <1>2, <1>3, <1>4 DEF GrantInv, SameClients, SameResults

\* A step that takes no command loses none if it answers those it lets go.
LEMMA OrphanLeft ==
  ASSUME NEW r \in Ranks, OrphanInv(r), SameClients(r), Told(r),
         inbox'[r] = inbox[r],
         \A d \in Of(r) : Kept(r, d) /\ reply'[d] = "none" => Kept(r, d)'
  PROVE  OrphanInv(r)'
<1>1. prog' = prog
  BY DEF SameClients
<1>2. \A c \in Of(r) : c \in Cmds /\ c.rank = r
  BY DEF Of, Calls
<1>3. Of(r)' = Of(r) /\ \A c : NeedsHandler(c)' = NeedsHandler(c)
  BY <1>1, CallsKept, Zenon
<1>4. ASSUME NEW c \in Of(r), c.k < at'[r][c.role], ~(NeedsHandler(c) /\ stamp'[c] = 0),
             \A n \in 1..Len(inbox'[r]) : inbox'[r][n] # c, reply'[c] = "none"
      PROVE  Kept(r, c)'
  <2>1. at'[r] = at[r] /\ stamp'[c] = stamp[c]
    BY <1>2, Zenon DEF SameClients
  <2>2. reply[c] = "none"
    BY <1>2, <1>4, Zenon DEF Told
  <2>3. Kept(r, c)
    BY <1>4, <2>1, <2>2, Zenon DEF OrphanInv
  <2> QED
    BY <1>4, <2>3, Zenon
<1> QED
  BY <1>3, <1>4, Zenon DEF OrphanInv

\* A step that takes a command has to answer it or to keep it.
LEMMA OrphanTaken ==
  ASSUME NEW r \in Ranks, ClientTypes, OrphanInv(r), HandlingInv(r), SameClients(r),
         Told(r), Take(r),
         \A d \in Of(r) : reply'[d] = "none" =>
           /\ d = Head(inbox[r]) => Kept(r, d)'
           /\ Kept(r, d) => Kept(r, d)'
  PROVE  OrphanInv(r)'
<1>1. prog' = prog
  BY DEF SameClients
<1>2. \A c \in Of(r) : c \in Cmds /\ c.rank = r
  BY DEF Of, Calls
<1>3. inbox[r] \in Seq(Cmds) /\ inbox[r] # << >> /\ inbox'[r] = Tail(inbox[r])
  BY TakeType
<1>4. ASSUME NEW d, d # Head(inbox[r]),
             \A n \in 1..Len(inbox'[r]) : inbox'[r][n] # d
      PROVE  \A n \in 1..Len(inbox[r]) : inbox[r][n] # d
  <2> TAKE n \in 1..Len(inbox[r])
  <2>1. CASE n = 1
    BY <1>3, <1>4, <2>1, HeadType
  <2>2. CASE n # 1
    <3>1. n - 1 \in 1..Len(Tail(inbox[r])) /\ Tail(inbox[r])[n - 1] = inbox[r][n]
      BY <1>3, <2>2, HeadType, SMT
    <3> QED
      BY <1>3, <1>4, <3>1
  <2> QED
    BY <2>1, <2>2
<1> SUFFICES ASSUME NEW d \in Of(r), d.k < at[r][d.role],
                    ~(NeedsHandler(d) /\ stamp[d] = 0),
                    \A n \in 1..Len(inbox'[r]) : inbox'[r][n] # d,
                    reply'[d] = "none"
             PROVE  Kept(r, d)'
  BY <1>1, <1>2, CallsKept DEF OrphanInv, SameClients
<1>5. CASE d = Head(inbox[r])
  BY <1>5
<1>6. CASE d # Head(inbox[r])
  <2>1. reply[d] = "none"
    BY <1>2 DEF Told
  <2>2. Kept(r, d)
    BY <1>4, <1>6, <2>1 DEF OrphanInv
  <2> QED
    BY <2>2
<1> QED
  BY <1>5, <1>6

\* The head of the queue is a command that was sent.
LEMMA HeadSent ==
  ASSUME NEW r \in Ranks, ClientTypes, QueueInv(r), Take(r)
  PROVE  Sent(r, Head(inbox[r]))
<1>1. inbox[r] \in Seq(Cmds) /\ inbox[r] # << >>
  BY TakeType
<1>2. 1 \in 1..Len(inbox[r]) /\ Head(inbox[r]) = inbox[r][1]
  BY <1>1, HeadType, SMT
<1> QED
  BY <1>2 DEF QueueInv

\* A command that is answered as soon as it is taken.
LEMMA AnswerStep ==
  ASSUME Inv, NEW r \in Ranks, TakeOnly(r), UNCHANGED prog,
         NEW o \in Answers \ {"none"}, Answer({Head(inbox[r])}, o),
         UNCHANGED <<clients, result, gens, batch, store, comm>>
  PROVE  Preserved(r)
<1>0. TypeInv /\ RankInv(r) /\ ClientTypes /\ BatchTypes /\ Take(r)
  BY DEF Inv, TypeInv, TakeOnly
<1>1. UNCHANGED <<at, waiting, handler, stamp, result, pc, cur, gens, live, joined,
                  held, dirn, done, parked, pin, world, copied>>
  BY DEF clients, batch, store, comm, TakeOnly
<1>2. TypeInv'
  <2>1. reply' \in [Cmds -> Answers]
    BY <1>0, AnswerType DEF ClientTypes
  <2>2. inbox' \in [Ranks -> Seq(Cmds)]
    BY <1>0, TakeType
  <2> QED
    BY <1>0, <1>1, <2>1, <2>2, Zenon DEF TypeInv, ClientTypes, BatchTypes
<1>3. \A q \in Ranks : /\ SameClients(q) /\ SameResults(q) /\ SameGeneration(q)
                       /\ SameRound(q) /\ SameWaiters(q) /\ SamePlace(q) /\ Told(q)
                       /\ world'[q] = world[q] /\ copied'[q] = copied[q]
  BY <1>1, ClientsAlone, AnswerTold
     DEF SameResults, SameGeneration, SameRound, SameWaiters, SamePlace
<1>4. \A q \in Ranks \ {r} : Untouched(q) /\ Told(q)
  BY <1>0, <1>3, TakeType DEF Untouched
<1>5. ClientInv(r)' /\ GrantInv(r)' /\ HandlingInv(r)' /\ BatchInv(r)' /\ CopyInv(r)'
  BY <1>0, <1>3, ClientKept, GrantKept, HandlingKept, BatchKept, CopyKept, Zenon
     DEF RankInv, SameWaiters
<1>6. QueueInv(r)'
  BY <1>0, <1>3, TakeType, QueueKept, Zenon DEF RankInv
<1>7. OrphanInv(r)'
  <2>1. \A d \in Of(r) : reply'[d] = "none" => d # Head(inbox[r])
    BY DEF Answer, Of, Calls
  <2>2. \A d : Kept(r, d) => Kept(r, d)'
    BY <1>1, Zenon DEF Kept
  <2> QED
    BY <1>0, <1>3, <2>1, <2>2, OrphanTaken, Zenon DEF RankInv
<1> QED
  BY <1>2, <1>4, <1>5, <1>6, <1>7 DEF RankInv, Preserved

\* A handler that goes on with the command it took, to a place that is prepared
\* for it.
LEMMA TakeStep ==
  ASSUME Inv, NEW r \in Ranks, NEW l \in Places, TakeTo(r, l), UNCHANGED prog,
         TypeInv', HandlingInv(r)',
         \A q \in Ranks \ {r} : world'[q] = world[q],
         UNCHANGED <<clients, reply, result, gens, batch, copied>>
  PROVE  Preserved(r)
<1>0. TypeInv /\ RankInv(r) /\ ClientTypes /\ BatchTypes /\ Take(r)
  BY DEF Inv, TypeInv, TakeTo
<1>1. UNCHANGED <<at, waiting, handler, stamp, reply, result, gens, live, joined,
                  held, dirn, done, parked, copied>>
  BY DEF clients, batch
<1>2. /\ cur'[r] = Head(inbox[r])
      /\ \A q \in Ranks \ {r} : pc'[q] = pc[q] /\ cur'[q] = cur[q]
  BY <1>0 DEF TakeTo, Goto, BatchTypes
<1>3. \A q \in Ranks : /\ SameClients(q) /\ SameResults(q) /\ SameGeneration(q)
                       /\ SameRound(q) /\ SameWaiters(q) /\ Told(q)
                       /\ copied'[q] = copied[q]
  BY <1>1, ClientsAlone
     DEF SameResults, SameGeneration, SameRound, SameWaiters, Told
<1>4. \A q \in Ranks \ {r} : Untouched(q) /\ Told(q)
  BY <1>0, <1>2, <1>3, TakeType, Zenon DEF Untouched, SamePlace
<1>5. ClientInv(r)' /\ GrantInv(r)' /\ BatchInv(r)' /\ CopyInv(r)'
  BY <1>0, <1>3, ClientKept, GrantKept, BatchKept, CopyKept DEF RankInv
<1>6. QueueInv(r)'
  BY <1>0, <1>3, TakeType, QueueKept DEF RankInv
<1>7. OrphanInv(r)'
  <2>1. cur[r] = NoCmd
    BY <1>0, TakeType, Zenon DEF RankInv, HandlingInv
  <2>2. \A d \in Of(r) : d # NoCmd
    BY NoCmdAssumption DEF Of, Calls
  <2>3. \A d \in Of(r) : Kept(r, d) => Kept(r, d)'
    BY <1>1, <2>1, <2>2 DEF Kept
  <2>4. \A d \in Of(r) : d = Head(inbox[r]) => Kept(r, d)'
    BY <1>2 DEF Kept
  <2> QED
    BY <1>0, <1>3, <2>3, <2>4, OrphanTaken, Zenon DEF RankInv
<1> QED
  BY <1>4, <1>5, <1>6, <1>7 DEF RankInv, Preserved

\* The rank contributes its layout and what it found wrong.
LEMMA TakeRegisterStep ==
  ASSUME Inv, NEW r \in Ranks, TakeRegister(r), UNCHANGED prog
  PROVE  Preserved(r)
<1> PICK c : c = Head(inbox[r])
  OBVIOUS
<1>0. TypeInv /\ RankInv(r) /\ ClientTypes /\ BatchTypes
      /\ Take(r) /\ TakeTo(r, "register")
  BY DEF Inv, TypeInv, TakeRegister, TakeTo
<1>1. Sent(r, c)
  BY <1>0, HeadSent DEF RankInv
<1>2. /\ c \in Cmds /\ c \in Calls /\ StepOf(c) \in Step
      /\ StepOf(c).op = "register"
  <2>1. c \in Calls
    BY <1>1 DEF Sent, Of
  <2> QED
    BY <1>0, <2>1, StepType DEF TakeRegister, ClientTypes
<1>3. StepOf(c).arg \in Layouts
  BY <1>2, Zenon DEF Step, Registrations, Directions, Closings, Layouts
<1>4. PICK w \in [arg : Layouts, dup : BOOLEAN] :
        /\ w.arg = StepOf(c).arg
        /\ StepOf(c).arg \in {"ok", "other"} /\ c.role \in joined[r] => w.dup
        /\ world' = [world EXCEPT ![r] = Append(world[r], w)]
  <2> DEFINE v == [arg |-> StepOf(c).arg,
                   dup |-> StepOf(c).arg \in {"ok", "other"} /\ c.role \in joined[r]]
  <2>1. v \in [arg : Layouts, dup : BOOLEAN]
    BY <1>3
  <2>2. world' = [world EXCEPT ![r] = Append(world[r], v)]
    BY <1>0 DEF TakeRegister, BatchTypes
  <2> QED
    BY <2>1, <2>2, Zenon
<1>5. /\ world' \in [Ranks -> Seq([arg : Layouts, dup : BOOLEAN])]
      /\ Len(world'[r]) > 0 /\ world'[r][Len(world'[r])] = w
      /\ \A q \in Ranks \ {r} : world'[q] = world[q]
  <2>1. world[r] \in Seq([arg : Layouts, dup : BOOLEAN])
    BY <1>0, Zenon DEF BatchTypes
  <2>2. /\ Append(world[r], w) \in Seq([arg : Layouts, dup : BOOLEAN])
        /\ Len(Append(world[r], w)) = Len(world[r]) + 1
        /\ Append(world[r], w)[Len(world[r]) + 1] = w
        /\ Len(world[r]) \in Nat
    BY <2>1, SMT
  <2>3. world'[r] = Append(world[r], w)
    BY <1>0, <1>4 DEF BatchTypes
  <2>4. /\ world' \in [Ranks -> Seq([arg : Layouts, dup : BOOLEAN])]
        /\ \A q \in Ranks \ {r} : world'[q] = world[q]
    BY <1>0, <1>4, <2>2, Zenon DEF BatchTypes
  <2>5. Len(world'[r]) = Len(world[r]) + 1
    BY <2>2, <2>3, Zenon
  <2>6. world'[r][Len(world'[r])] = w
    BY <2>2, <2>3, <2>5, Zenon
  <2>7. Len(world'[r]) > 0
    BY <2>2, <2>5
  <2> QED
    BY <2>4, <2>6, <2>7, Zenon
<1>6. UNCHANGED <<clients, reply, result, gens, batch, copied, pin>>
      /\ UNCHANGED <<at, waiting, handler, stamp, live, joined, held, dirn, done,
                     parked>>
  BY DEF TakeRegister, store, clients, batch
<1>7. /\ pc' \in [Ranks -> Places] /\ cur' \in [Ranks -> Cmds \cup {NoCmd}]
      /\ pc'[r] = "register" /\ cur'[r] = c
  BY <1>0, <1>2 DEF TakeTo, Goto, BatchTypes, Places
<1>8. TypeInv'
  <2>1. inbox' \in [Ranks -> Seq(Cmds)]
    BY <1>0, TakeType, Zenon
  <2> QED
    BY <1>0, <1>5, <1>6, <1>7, <2>1, Zenon DEF TypeInv, ClientTypes, BatchTypes
<1>9. HandlingInv(r)'
  <2>1. Sent(r, c)'
    BY <1>1, <1>6, ClientsAlone, SentKept
  <2>2. StepOf(c)' = StepOf(c)
    BY CallsKept, Zenon
  <2>3. "register" \notin Executing \cup {"pin"} /\ "register" \notin {"dequeue", "gather", "start"}
    BY DEF Executing
  <2>4. /\ StepOf(c)'.op = "register" /\ world'[r][Len(world'[r])].arg = StepOf(c)'.arg
        /\ StepOf(c)'.arg \in {"ok", "other"} /\ c.role \in joined'[r]
             => world'[r][Len(world'[r])].dup
    BY <1>2, <1>4, <1>5, <1>6, <2>2, Zenon
  <2> QED
    BY <1>5, <1>7, <2>1, <2>3, <2>4, Zenon DEF HandlingInv
<1> QED
  BY <1>0, <1>5, <1>6, <1>8, <1>9, TakeStep DEF Places

\* A transfer that is not refused is one of the rank's batch.
LEMMA TakeTransferStep ==
  ASSUME Inv, NEW r \in Ranks, TakeTransfer(r), UNCHANGED prog
  PROVE  Preserved(r)
<1> PICK c : c = Head(inbox[r])
  OBVIOUS
<1>0. TypeInv /\ RankInv(r) /\ ClientTypes /\ BatchTypes
      /\ Take(r) /\ TakeTo(r, "pin")
  BY DEF Inv, TypeInv, TakeTransfer, TakeTo
<1>1. Sent(r, c)
  BY <1>0, HeadSent DEF RankInv
<1>2. /\ c \in Cmds /\ c \in Calls /\ c.role \in Roles /\ c.rank = r
      /\ IsTransfer(c) /\ NeedsHandler(c)
  <2>1. c \in Cmds /\ c \in Calls /\ c.rank = r
    BY <1>1 DEF Sent, Of, Calls
  <2> QED
    BY <2>1 DEF TakeTransfer, IsTransfer, NeedsHandler, Cmds
<1>3. live[r] # 0 /\ stamp[c] = live[r] /\ joined[r] = Roles
  <2>1. stamp[c] # 0
    BY <1>1, <1>2 DEF Sent
  <2>2. live[r] # 0 /\ stamp[c] = live[r]
    BY <2>1 DEF TakeTransfer, NoBatch, Stale
  <2>3. Grant(r, stamp[c])
    BY <1>0, <1>2 DEF RankInv, GrantInv
  <2> QED
    BY <2>2, <2>3 DEF Grant
<1>4. \A g \in DOMAIN pin' : pin'[g] \in Roles
  <2>1. Source(c) \in Roles
    BY <1>2 DEF Source, Other, Roles
  <2>2. \A g \in DOMAIN pin : pin[g] \in Roles
    BY <1>0, Zenon DEF BatchTypes
  <2>3. CASE pin' = pin
    BY <2>2, <2>3
  <2>4. CASE pin' = [g \in DOMAIN pin \cup {live[r]} |->
                       IF g = live[r] THEN Source(c) ELSE pin[g]]
    BY <2>1, <2>2, <2>4
  <2> QED
    BY <2>3, <2>4 DEF TakeTransfer
<1>6. UNCHANGED <<clients, reply, result, gens, batch, copied, world>>
      /\ UNCHANGED <<at, waiting, handler, stamp, live, joined, held, dirn, done,
                     parked>>
  BY DEF TakeTransfer, comm, clients, batch
<1>7. /\ pc' \in [Ranks -> Places] /\ cur' \in [Ranks -> Cmds \cup {NoCmd}]
      /\ pc'[r] = "pin" /\ cur'[r] = c
  BY <1>0, <1>2 DEF TakeTo, Goto, BatchTypes, Places
<1>8. TypeInv'
  <2>1. inbox' \in [Ranks -> Seq(Cmds)]
    BY <1>0, TakeType
  <2> QED
    BY <1>0, <1>4, <1>6, <1>7, <2>1, Zenon DEF TypeInv, ClientTypes, BatchTypes
<1>9. HandlingInv(r)'
  <2>1. Sent(r, c)'
    BY <1>1, <1>6, ClientsAlone, SentKept
  <2> QED
    BY <1>2, <1>3, <1>6, <1>7, <2>1, CallsKept, Zenon DEF HandlingInv, Executing
<1> QED
  BY <1>0, <1>6, <1>8, <1>9, TakeStep DEF Places

\* The state of the other ranks' batches and agents.
OthersAlone(r) ==
  \A q \in Ranks \ {r} :
    /\ SameResults(q) /\ SameGeneration(q) /\ SameRound(q) /\ SameWaiters(q)
    /\ SamePlace(q) /\ world'[q] = world[q] /\ copied'[q] = copied[q]

\* A step within a handler: the commands it lets go have to be answered.
LEMMA HandlerStep ==
  ASSUME Inv, NEW r \in Ranks, UNCHANGED <<prog, clients, inbox>>,
         TypeInv', OthersAlone(r), \A q \in Ranks : Told(q),
         GrantInv(r)', HandlingInv(r)', BatchInv(r)', CopyInv(r)',
         \A d \in Of(r) : Kept(r, d) /\ reply'[d] = "none" => Kept(r, d)'
  PROVE  Preserved(r)
<1>0. RankInv(r) /\ ClientTypes
  BY DEF Inv, TypeInv
<1>1. \A q \in Ranks : SameClients(q) /\ inbox'[q] = inbox[q]
  BY ClientsAlone
<1>2. \A q \in Ranks \ {r} : Untouched(q) /\ Told(q)
  BY <1>1 DEF Untouched, OthersAlone
<1>3. ClientInv(r)' /\ QueueInv(r)' /\ OrphanInv(r)'
  BY <1>0, <1>1, ClientKept, QueueKept, OrphanLeft, Zenon DEF RankInv
<1> QED
  BY <1>2, <1>3 DEF RankInv, Preserved

\* An incomplete registration is dropped with everyone who waits for it.
LEMMA AbortStep ==
  ASSUME Inv, NEW r \in Ranks, UNCHANGED <<prog, clients, inbox, result, pin, world,
                                          copied>>,
         pc[r] = "register", joined[r] # Roles,
         Answer(held[r] \cup {cur[r]}, "error"), Drop(r), Leave(r),
         gens' \in [Ranks -> Nat], gens'[r] \in {gens[r], gens[r] + 1},
         \A q \in Ranks \ {r} : gens'[q] = gens[q]
  PROVE  Preserved(r)
<1>0. TypeInv /\ RankInv(r) /\ ClientTypes /\ BatchTypes
  BY DEF Inv, TypeInv
<1>1. TypeInv'
  <2>1. reply' \in [Cmds -> Answers]
    BY <1>0, AnswerType DEF ClientTypes, Answers
  <2>2. ClientTypes'
    BY <1>0, <2>1 DEF ClientTypes, clients
  <2>3. BatchTypes'
    BY <1>0, DropType, LeaveType, Zenon DEF BatchTypes
  <2> QED
    BY <2>2, <2>3 DEF TypeInv
<1>2. OthersAlone(r)
  <2>1. \A q \in Ranks \ {r} : SamePlace(q)
    BY <1>0, LeaveType DEF SamePlace
  <2>2. \A q \in Ranks \ {r} : SameGeneration(q) /\ SameRound(q) /\ SameWaiters(q)
    BY <1>0 DEF Drop, BatchTypes, SameGeneration, SameRound, SameWaiters
  <2> QED
    BY <2>1, <2>2, Zenon DEF OthersAlone, SameResults
<1>3. \A q \in Ranks : Told(q)
  BY AnswerTold
<1>4. live'[r] = 0 /\ SameClients(r) /\ SameResults(r)
  BY <1>0, ClientsAlone DEF Drop, BatchTypes, SameResults
<1>5. GrantInv(r)' /\ CopyInv(r)'
  BY <1>0, <1>4, GrantDropped, CopyDropped, Zenon DEF RankInv
<1>6. HandlingInv(r)' /\ BatchInv(r)'
  BY <1>0, LeaveType, HandlingLeft, BatchDropped, Zenon
<1>7. \A d \in Of(r) : ~(Kept(r, d) /\ reply'[d] = "none")
  <2>1. \A d \in Of(r) : Kept(r, d) => d \in held[r] \cup {cur[r]}
    BY <1>0, Zenon DEF RankInv, BatchInv, Kept
  <2>2. \A d \in Of(r) : d \in held[r] \cup {cur[r]} => reply'[d] = "error"
    BY DEF Answer, Of, Calls
  <2> QED
    BY <2>1, <2>2
<1> QED
  BY <1>1, <1>2, <1>3, <1>5, <1>6, <1>7, HandlerStep

\* A refused registration takes an incomplete one with it.
LEMMA RefuseStep ==
  ASSUME Inv, NEW r \in Ranks, Refuse(r), UNCHANGED prog
  PROVE  Preserved(r)
<1>0. TypeInv /\ RankInv(r) /\ ClientTypes /\ BatchTypes
  BY DEF Inv, TypeInv
<1>1. CASE held[r] # {}
  <2>1. joined[r] # Roles
    BY <1>0, <1>1 DEF RankInv, BatchInv
  <2>2. Drop(r) /\ UNCHANGED <<clients, inbox, result, pin, world, copied>>
    BY <1>1, Zenon DEF Refuse, store, comm
  <2>3. gens' \in [Ranks -> Nat] /\ gens'[r] \in {gens[r], gens[r] + 1}
        /\ \A q \in Ranks \ {r} : gens'[q] = gens[q]
    BY <1>0 DEF Refuse, BatchTypes
  <2> QED
    BY <2>1, <2>2, <2>3, AbortStep, Zenon DEF Refuse
<1>2. CASE held[r] = {}
  <2>1. UNCHANGED <<clients, inbox, result, gens, live, joined, held, dirn, done,
                    parked, pin, world, copied>>
    BY <1>2, Zenon DEF Refuse, batch, store, comm
  <2>2. Answer({cur[r]}, "error") /\ Leave(r)
    BY <1>2 DEF Refuse
  <2>3. TypeInv'
    <3>1. reply' \in [Cmds -> Answers]
      BY <1>0, <2>2, AnswerType DEF ClientTypes, Answers
    <3>2. ClientTypes'
      BY <1>0, <2>1, <3>1 DEF ClientTypes, clients
    <3>3. BatchTypes'
      BY <1>0, <2>1, <2>2, LeaveType, Zenon DEF BatchTypes
    <3> QED
      BY <3>2, <3>3 DEF TypeInv
  <2>4. \A q \in Ranks : /\ SameResults(q) /\ SameGeneration(q) /\ SameRound(q)
                         /\ SameWaiters(q) /\ SameClients(q) /\ Told(q)
    BY <2>1, <2>2, ClientsAlone, AnswerTold, Zenon
       DEF SameResults, SameGeneration, SameRound, SameWaiters
  <2>5. OthersAlone(r)
    BY <1>0, <2>1, <2>2, <2>4, LeaveType, Zenon DEF OthersAlone, SamePlace
  <2>6. GrantInv(r)' /\ BatchInv(r)' /\ CopyInv(r)' /\ HandlingInv(r)'
    BY <1>0, <2>1, <2>2, <2>4, GrantKept, BatchKept, CopyKept, LeaveType, HandlingLeft, Zenon
       DEF RankInv
  <2>7. \A d \in Of(r) : Kept(r, d) /\ reply'[d] = "none" => Kept(r, d)'
    BY <2>1, <2>2 DEF Kept, Answer, Of, Calls
  <2> QED
    BY <2>1, <2>3, <2>4, <2>5, <2>6, <2>7, HandlerStep
<1> QED
  BY <1>1, <1>2

\* Layouts that differ end the registration.
LEMMA MismatchStep ==
  ASSUME Inv, NEW r \in Ranks, Mismatch(r), UNCHANGED prog
  PROVE  Preserved(r)
<1>0. BatchTypes
  BY DEF Inv, TypeInv
<1>1. joined[r] # Roles
  BY Missing, Zenon DEF Mismatch
<1>2. /\ gens' \in [Ranks -> Nat] /\ gens'[r] \in {gens[r], gens[r] + 1}
      /\ \A q \in Ranks \ {r} : gens'[q] = gens[q]
  BY <1>0, SMT DEF Mismatch, BatchTypes
<1>3. UNCHANGED <<clients, inbox, result, pin, world, copied>>
  BY Zenon DEF Mismatch, store, comm
<1> QED
  BY <1>1, <1>2, <1>3, AbortStep, Zenon DEF Mismatch

\* The copies of older generations say nothing of the one that is registered.
LEMMA CopyOlder ==
  ASSUME NEW r \in Ranks, CopyInv(r), copied' = copied,
         \A i \in 1..Len(copied[r]) :
           copied[r][i].gen \in 1..gens'[r] /\ copied[r][i].gen # live'[r]
  PROVE  CopyInv(r)'
BY Zenon DEF CopyInv, Logged

\* The registration is complete with the second role, and only then are the
\* clients given its generation.
LEMMA JoinStep ==
  ASSUME Inv, NEW r \in Ranks, Join(r), UNCHANGED prog
  PROVE  Preserved(r)
<1> PICK c : c = cur[r]
  OBVIOUS
<1> PICK g : g = Generation(r)
  OBVIOUS
<1> PICK ready : ready = held[r] \cup {c}
  BY Zenon
<1>0. TypeInv /\ RankInv(r) /\ ClientTypes /\ BatchTypes /\ BatchInv(r)
      /\ GrantInv(r) /\ CopyInv(r)
  BY DEF Inv, TypeInv, RankInv
<1>1. joined[r] # Roles /\ pc[r] = "register" /\ Leave(r)
  BY Missing DEF Join
<1>2. c \in Cmds /\ c.rank = r /\ c.role \in Roles
  BY <1>0, <1>1, CurType, Zenon DEF RankInv
<1>3. ready \subseteq Cmds /\ \A d \in ready : d.rank = r
  BY <1>0, <1>2 DEF BatchInv, BatchTypes
<1>4. g \in Nat /\ g # 0 /\ gens[r] \in Nat /\ (live[r] # 0 => g = live[r])
      /\ (live[r] = 0 => g = gens[r] + 1)
  BY <1>0 DEF Generation, NoBatch, BatchTypes
<1>5. /\ gens' \in [Ranks -> Nat] /\ gens'[r] = g
      /\ \A q \in Ranks \ {r} : gens'[q] = gens[q]
  BY <1>0, <1>4 DEF Join, BatchTypes, BatchInv, NoBatch
<1>6. /\ live' \in [Ranks -> Nat] /\ live'[r] = g
      /\ \A q \in Ranks \ {r} : live'[q] = live[q]
  BY <1>0, <1>4 DEF Join, BatchTypes
<1>7. /\ joined' \in [Ranks -> SUBSET Roles] /\ joined'[r] = joined[r] \cup {c.role}
      /\ \A q \in Ranks \ {r} : joined'[q] = joined[q]
  BY <1>0, <1>2 DEF Join, BatchTypes
<1>8. /\ held' \in [Ranks -> SUBSET Cmds]
      /\ joined'[r] = Roles => held'[r] = {}
      /\ joined'[r] # Roles => held'[r] = ready
      /\ \A q \in Ranks \ {r} : held'[q] = held[q]
  BY <1>0, <1>3, <1>7 DEF Join, BatchTypes
<1>9. UNCHANGED <<clients, inbox, dirn, done, parked, pin, world, copied>>
  BY DEF Join, store, comm
<1>10. /\ joined'[r] = Roles =>
            /\ Answer(ready, "ok")
            /\ result' = [d \in Cmds |-> IF d \in ready THEN g ELSE result[d]]
       /\ joined'[r] # Roles => UNCHANGED <<reply, result>>
  BY <1>7 DEF Join
<1>11. /\ reply' \in [Cmds -> Answers] /\ \A q \in Ranks : Told(q)
       /\ \A d \in Cmds : d \in ready /\ joined'[r] = Roles => reply'[d] = "ok"
  <2>1. CASE joined'[r] = Roles
    <3>1. reply' \in [Cmds -> Answers]
      BY <1>0, <1>10, <2>1, AnswerType DEF ClientTypes, Answers
    <3>2. \A q \in Ranks : Told(q)
      BY <1>10, <2>1, AnswerTold
    <3> QED
      BY <1>10, <2>1, <3>1, <3>2, Zenon DEF Answer
  <2>2. CASE joined'[r] # Roles
    BY <1>0, <1>10, <2>2 DEF ClientTypes, Told
  <2> QED
    BY <2>1, <2>2
<1>12. /\ result' \in [Cmds -> Nat]
       /\ \A d \in Cmds : d.rank # r => result'[d] = result[d]
       /\ \A d \in Cmds : \/ result'[d] = result[d]
                          \/ result'[d] = g /\ joined'[r] = Roles
  <2>1. result \in [Cmds -> Nat]
    BY <1>0, Zenon DEF ClientTypes
  <2>2. CASE joined'[r] = Roles
    <3>1. result' = [d \in Cmds |-> IF d \in ready THEN g ELSE result[d]]
      BY <1>10, <2>2, Zenon
    <3> QED
      BY <1>3, <1>4, <2>1, <2>2, <3>1, Zenon
  <2>3. CASE joined'[r] # Roles
    BY <1>10, <2>1, <2>3, Zenon
  <2> QED
    BY <2>2, <2>3, Zenon
<1>13. TypeInv'
  <2>1. ClientTypes'
    BY <1>0, <1>9, <1>11, <1>12, Zenon DEF ClientTypes, clients
  <2>2. BatchTypes'
    BY <1>0, <1>1, <1>5, <1>6, <1>7, <1>8, <1>9, LeaveType, Zenon DEF BatchTypes
  <2> QED
    BY <2>1, <2>2 DEF TypeInv
<1>14. OthersAlone(r)
  <2>1. \A q \in Ranks \ {r} : SamePlace(q)
    BY <1>0, <1>1, LeaveType, Zenon DEF SamePlace
  <2>2. \A q \in Ranks \ {r} : SameResults(q)
    BY <1>12 DEF SameResults
  <2> QED
    BY <1>5, <1>6, <1>7, <1>8, <1>9, <2>1, <2>2, Zenon
       DEF OthersAlone, SameGeneration, SameRound, SameWaiters
<1>15. GrantInv(r)'
  <2>0. SameClients(r)
    BY <1>9, ClientsAlone
  <2>1. ASSUME NEW h \in Nat, Grant(r, h) PROVE Grant(r, h)'
    <3>1. h # 0 => h <= gens[r] /\ h # live[r] /\ Closed(r, h)
      BY <1>1, <2>1, Zenon DEF Grant
    <3>2. h # 0 => Closed(r, h)'
      BY <2>0, <3>1, ClosedKept
    <3>3. live[r] \in {0, gens[r]}
      BY <1>0, Zenon DEF BatchInv
    <3>4. h # 0 => h # g /\ h <= g
      BY <1>4, <3>1, <3>3
    <3> QED
      BY <1>5, <1>6, <3>2, <3>4, Zenon DEF Grant
  <2>2. joined'[r] = Roles => Grant(r, g)'
    BY <1>4, <1>5, <1>6 DEF Grant
  <2>3. \A x \in Roles : handler[r][x] \in Nat
    BY <1>0, Zenon DEF ClientTypes
  <2>4. \A d \in Cmds : stamp[d] \in Nat /\ result[d] \in Nat
    BY <1>0, Zenon DEF ClientTypes
  <2>5. ASSUME NEW d \in Cmds, d.rank = r
        PROVE  Grant(r, stamp[d])' /\ Grant(r, result[d])'
    <3>1. PICK h \in Nat : h = result'[d] /\ (Grant(r, h)')
      BY <1>0, <1>4, <1>12, <2>1, <2>2, <2>4, <2>5, Zenon DEF GrantInv
    <3>2. PICK s \in Nat : s = stamp'[d] /\ (Grant(r, s)')
      BY <1>0, <2>0, <2>1, <2>4, <2>5, Zenon DEF GrantInv, SameClients
    <3> QED
      BY <3>1, <3>2, Zenon DEF Grant, Closed
  <2>6. ASSUME NEW x \in Roles PROVE Grant(r, handler[r][x])'
    <3>1. PICK h \in Nat : h = handler'[r][x] /\ (Grant(r, h)')
      BY <1>0, <2>0, <2>1, <2>3, Zenon DEF GrantInv, SameClients
    <3> QED
      BY <3>1, Zenon DEF Grant, Closed
  <2> QED
    BY <2>5, <2>6 DEF GrantInv
<1>16. HandlingInv(r)'
  BY <1>0, <1>1, LeaveType, HandlingLeft, Zenon
<1>17. BatchInv(r)'
  BY <1>0, <1>1, <1>3, <1>4, <1>5, <1>6, <1>7, <1>8, <1>9, Zenon DEF BatchInv
<1>18. CopyInv(r)'
  <2>1. ASSUME NEW i \in 1..Len(copied[r])
        PROVE  /\ copied[r][i].gen \in 1..g
               /\ copied[r][i].gen # g
    <3>1. /\ copied[r][i].gen \in 1..gens[r]
          /\ copied[r][i].gen = live[r] => dirn[r] # "none"
      BY <1>0, Zenon DEF CopyInv, Logged
    <3>2. dirn[r] = "none" /\ live[r] \in {0, gens[r]}
      BY <1>0, <1>1, Zenon DEF BatchInv
    <3> QED
      BY <1>4, <3>1, <3>2
  <2>2. \A i \in 1..Len(copied[r]) :
          copied[r][i].gen \in 1..gens'[r] /\ copied[r][i].gen # live'[r]
    BY <1>5, <1>6, <2>1, Zenon
  <2> QED
    BY <1>0, <1>9, <2>2, CopyOlder, Zenon
<1>19. \A d \in Of(r) : Kept(r, d) /\ reply'[d] = "none" => Kept(r, d)'
  <2> SUFFICES ASSUME NEW d \in Of(r), Kept(r, d), reply'[d] = "none"
               PROVE  Kept(r, d)'
    OBVIOUS
  <2>1. CASE d \in ready
    <3>1. joined'[r] # Roles
      BY <1>3, <1>11, <2>1
    <3> QED
      BY <1>8, <2>1, <3>1, Zenon DEF Kept
  <2>2. CASE d \notin ready
    BY <1>9, <2>2, Zenon DEF Kept
  <2> QED
    BY <2>1, <2>2
<1> QED
  BY <1>9, <1>11, <1>13, <1>14, <1>15, <1>16, <1>17, <1>18, <1>19, HandlerStep, Zenon

-----------------------------------------------------------------------------
(* Transfers and the clean-up of a batch *)

\* What a step of a transfer changes of the rank's batch: its direction, when it
\* has none, the commands that wait and the last round.
LEMMA TransferStep ==
  ASSUME Inv, NEW r \in Ranks, pc[r] \in Executing \cup {"pin"},
         UNCHANGED <<prog, clients, inbox, result, gens, live, joined, held, pin,
                     world>>,
         pc' \in [Ranks -> Places], cur' \in [Ranks -> Cmds \cup {NoCmd}],
         dirn' \in [Ranks -> Pins], done' \in [Ranks -> Rounds \cup {-1}],
         parked' \in [Ranks -> [Rounds -> SUBSET Cmds]],
         copied' \in [Ranks -> Seq(Entry)],
         reply' \in [Cmds -> Answers], \A q \in Ranks : Told(q),
         \A q \in Ranks \ {r} :
           /\ pc'[q] = pc[q] /\ cur'[q] = cur[q] /\ dirn'[q] = dirn[q]
           /\ done'[q] = done[q] /\ parked'[q] = parked[q] /\ copied'[q] = copied[q],
         HandlingInv(r)', CopyInv(r)',
         \A d \in Of(r) : Kept(r, d) /\ reply'[d] = "none" => Kept(r, d)'
  PROVE  Preserved(r)
<1>0. TypeInv /\ RankInv(r) /\ ClientTypes /\ BatchTypes /\ BatchInv(r)
  BY DEF Inv, TypeInv, RankInv
<1>1. TypeInv'
  <2>1. ClientTypes'
    BY <1>0 DEF ClientTypes, clients
  <2>2. BatchTypes'
    BY <1>0, Zenon DEF BatchTypes
  <2> QED
    BY <2>1, <2>2 DEF TypeInv
<1>2. OthersAlone(r)
  BY DEF OthersAlone, SameResults, SameGeneration, SameRound, SameWaiters, SamePlace
<1>3. GrantInv(r)'
  BY <1>0, ClientsAlone, GrantKept DEF RankInv, SameResults, SameGeneration
<1>4. BatchInv(r)'
  BY <1>0, TransferFacts DEF BatchInv
<1> QED
  BY <1>1, <1>2, <1>3, <1>4, HandlerStep

\* A direction is found by a rank that has none.
LEMMA CopyDirected ==
  ASSUME NEW r \in Ranks, CopyInv(r), gens'[r] = gens[r], live'[r] = live[r],
         done'[r] = done[r], copied'[r] = copied[r],
         dirn'[r] = dirn[r] \/ dirn[r] = "none"
  PROVE  CopyInv(r)'
BY Zenon DEF CopyInv, Logged

\* A rank that knows its direction keeps it.
LEMMA DirectedFacts ==
  ASSUME Inv, NEW r \in Ranks, Directed(r)
  PROVE  /\ pc[r] = "pin" /\ pc[r] \in Executing \cup {"pin"}
         /\ dirn' \in [Ranks -> Pins] /\ dirn'[r] # "none"
         /\ dirn'[r] = dirn[r] \/ dirn[r] = "none"
         /\ \A q \in Ranks \ {r} : dirn'[q] = dirn[q]
<1>0. BatchTypes
  BY DEF Inv, TypeInv
<1> QED
  BY <1>0, PinnedType, Zenon DEF Directed, Pinned, BatchTypes

\* A transfer against the direction of its batch is refused.
LEMMA WrongDirectionStep ==
  ASSUME Inv, NEW r \in Ranks, WrongDirection(r), UNCHANGED prog
  PROVE  Preserved(r)
<1>0. ClientTypes /\ BatchTypes /\ RankInv(r)
  BY DEF Inv, TypeInv
<1>1. Directed(r) /\ Answer({cur[r]}, "error") /\ Leave(r)
      /\ UNCHANGED <<clients, inbox, result, gens, live, joined, held, done, parked,
                     pin, world, copied>>
  BY DEF WrongDirection, store, comm
<1>2. reply' \in [Cmds -> Answers] /\ \A q \in Ranks : Told(q)
  BY <1>0, <1>1, AnswerType, AnswerTold, Zenon DEF ClientTypes, Answers
<1>3. HandlingInv(r)' /\ CopyInv(r)'
  BY <1>0, <1>1, LeaveType, HandlingLeft, DirectedFacts, CopyDirected DEF RankInv
<1>4. \A d \in Of(r) : Kept(r, d) /\ reply'[d] = "none" => Kept(r, d)'
  BY <1>1 DEF Kept, Answer, Of, Calls
<1>5. /\ done' \in [Ranks -> Rounds \cup {-1}] /\ copied' \in [Ranks -> Seq(Entry)]
      /\ parked' \in [Ranks -> [Rounds -> SUBSET Cmds]]
  BY <1>0, <1>1 DEF BatchTypes
<1> QED
  BY <1>0, <1>1, <1>2, <1>3, <1>4, <1>5, LeaveType, DirectedFacts, TransferStep, Zenon

\* The agent ends, and its caller was told.
LEMMA PinTimeoutStep ==
  ASSUME Inv, NEW r \in Ranks, PinTimeout(r), UNCHANGED prog
  PROVE  Preserved(r)
<1>0. ClientTypes /\ BatchTypes /\ RankInv(r)
  BY DEF Inv, TypeInv
<1>1. pc[r] = "pin" /\ Answer({cur[r]}, "error") /\ pc' = [pc EXCEPT ![r] = "dead"]
      /\ UNCHANGED <<clients, inbox, result, cur, gens, live, joined, held, dirn, done,
                     parked, pin, world, copied>>
  BY DEF PinTimeout, Goto, batch, store, comm
<1>2. reply' \in [Cmds -> Answers] /\ \A q \in Ranks : Told(q)
  BY <1>0, <1>1, AnswerType, AnswerTold, Zenon DEF ClientTypes, Answers
<1>3. /\ pc' \in [Ranks -> Places] /\ pc'[r] = "dead"
      /\ \A q \in Ranks \ {r} : pc'[q] = pc[q]
  BY <1>0, <1>1 DEF BatchTypes, Places
<1>4. HandlingInv(r)'
  BY <1>3 DEF HandlingInv, Executing
<1>5. CopyInv(r)'
  BY <1>0, <1>1, CopyDirected DEF RankInv
<1>6. \A d \in Of(r) : Kept(r, d) => Kept(r, d)'
  BY <1>1 DEF Kept
<1>7. /\ cur' \in [Ranks -> Cmds \cup {NoCmd}] /\ dirn' \in [Ranks -> Pins]
      /\ done' \in [Ranks -> Rounds \cup {-1}] /\ copied' \in [Ranks -> Seq(Entry)]
      /\ parked' \in [Ranks -> [Rounds -> SUBSET Cmds]]
  BY <1>0, <1>1 DEF BatchTypes
<1> QED
  BY <1>0, <1>1, <1>2, <1>3, <1>4, <1>5, <1>6, <1>7, TransferStep, Zenon

\* Rounds are emptied and filled one at a time.
LEMMA ParkedType ==
  ASSUME BatchTypes, NEW r \in Ranks, NEW n \in Rounds, NEW S \in SUBSET Cmds,
         parked' = [parked EXCEPT ![r][n] = S]
  PROVE  /\ parked' \in [Ranks -> [Rounds -> SUBSET Cmds]]
         /\ parked'[r][n] = S
         /\ \A m \in Rounds \ {n} : parked'[r][m] = parked[r][m]
         /\ \A q \in Ranks \ {r} : parked'[q] = parked[q]
BY DEF BatchTypes

\* A round that is answered: the rest of the commands stay.
LEMMA RoundAnswered ==
  ASSUME Inv, NEW r \in Ranks, pc[r] \in Executing \cup {"pin"},
         NEW S, NEW o \in Answers \ {"none"}, Answer(S, o),
         parked[r][Round(cur[r])] \cup {cur[r]} \subseteq S,
         parked' = [parked EXCEPT ![r][Round(cur[r])] = {}], held'[r] = held[r]
  PROVE  \A d \in Of(r) : Kept(r, d) /\ reply'[d] = "none" => Kept(r, d)'
<1>0. BatchTypes
  BY DEF Inv, TypeInv
<1>1. Round(cur[r]) \in Rounds
  BY TransferFacts
<1>2. \A m \in Rounds \ {Round(cur[r])} : parked'[r][m] = parked[r][m]
  BY <1>0, <1>1, ParkedType, SMT
<1>3. \A d \in Of(r) : d \in S => reply'[d] # "none"
  BY DEF Answer, Of, Calls
<1> QED
  BY <1>2, <1>3 DEF Kept

\* The handler returns and everyone who waited for the round is answered.
LEMMA RoundOver ==
  ASSUME Inv, NEW r \in Ranks, pc[r] \in Executing \cup {"pin"},
         UNCHANGED <<prog, clients, inbox, result, gens, live, joined, held, done, pin,
                     world, copied>>,
         dirn' \in [Ranks -> Pins], dirn'[r] = dirn[r] \/ dirn[r] = "none",
         \A q \in Ranks \ {r} : dirn'[q] = dirn[q],
         NEW S, NEW o \in Answers \ {"none"}, Answer(S, o),
         parked[r][Round(cur[r])] \cup {cur[r]} \subseteq S,
         parked' = [parked EXCEPT ![r][Round(cur[r])] = {}], Leave(r)
  PROVE  Preserved(r)
<1>0. ClientTypes /\ BatchTypes /\ RankInv(r)
  BY DEF Inv, TypeInv
<1>1. reply' \in [Cmds -> Answers] /\ \A q \in Ranks : Told(q)
  BY <1>0, AnswerType, AnswerTold DEF ClientTypes
<1>2. HandlingInv(r)' /\ CopyInv(r)'
  BY <1>0, LeaveType, HandlingLeft, CopyDirected DEF RankInv
<1>3. \A d \in Of(r) : Kept(r, d) /\ reply'[d] = "none" => Kept(r, d)'
  BY RoundAnswered, Zenon
<1>4. /\ parked' \in [Ranks -> [Rounds -> SUBSET Cmds]]
      /\ \A q \in Ranks \ {r} : parked'[q] = parked[q]
  BY <1>0, TransferFacts, ParkedType, Zenon
<1>5. done' \in [Ranks -> Rounds \cup {-1}] /\ copied' \in [Ranks -> Seq(Entry)]
  BY <1>0 DEF BatchTypes
<1> QED
  BY <1>0, <1>1, <1>2, <1>3, <1>4, <1>5, LeaveType, TransferStep, Zenon

\* An old round is acknowledged.
LEMMA AcknowledgeStep ==
  ASSUME Inv, NEW r \in Ranks, Acknowledge(r), UNCHANGED prog
  PROVE  Preserved(r)
<1>1. Directed(r) /\ Answer(parked[r][Round(cur[r])] \cup {cur[r]}, "ok")
      /\ parked' = [parked EXCEPT ![r][Round(cur[r])] = {}] /\ Leave(r)
      /\ UNCHANGED <<clients, inbox, result, gens, live, joined, held, done, pin,
                     world, copied>>
  BY DEF Acknowledge, InDirection, store, comm
<1> QED
  BY <1>1, DirectedFacts, RoundOver, Zenon DEF Answers

\* The direction has no buckets: the round fails.
LEMMA NoBucketsStep ==
  ASSUME Inv, NEW r \in Ranks, NoBuckets(r), UNCHANGED prog
  PROVE  Preserved(r)
<1>1. Directed(r) /\ Answer(parked[r][Round(cur[r])] \cup {cur[r]}, "error")
      /\ parked' = [parked EXCEPT ![r][Round(cur[r])] = {}] /\ Leave(r)
      /\ UNCHANGED <<clients, inbox, result, gens, live, joined, held, done, pin,
                     world, copied>>
  BY DEF NoBuckets, InDirection, FailRound, Arrived, comm
<1> QED
  BY <1>1, DirectedFacts, RoundOver, Zenon DEF Answers

\* The ranks are at different rounds, which fail.
LEMMA MixedRoundsStep ==
  ASSUME Inv, NEW r \in Ranks, MixedRounds(r), UNCHANGED prog
  PROVE  Preserved(r)
<1>0. BatchTypes
  BY DEF Inv, TypeInv
<1>1. pc[r] = "gather" /\ Answer(parked[r][Round(cur[r])] \cup {cur[r]}, "error")
      /\ parked' = [parked EXCEPT ![r][Round(cur[r])] = {}] /\ Leave(r)
      /\ UNCHANGED <<clients, inbox, result, gens, live, joined, held, dirn, done, pin,
                     world, copied>>
  BY DEF MixedRounds, FailRound, Arrived, comm
<1>2. pc[r] \in Executing \cup {"pin"} /\ dirn' \in [Ranks -> Pins]
  BY <1>0, <1>1 DEF Executing, BatchTypes
<1> QED
  BY <1>1, <1>2, RoundOver, Zenon DEF Answers

\* The round is complete.
LEMMA FinishStep ==
  ASSUME Inv, NEW r \in Ranks, Finish(r), UNCHANGED prog
  PROVE  Preserved(r)
<1>0. BatchTypes /\ HandlingInv(r)
  BY DEF Inv, TypeInv, RankInv
<1>1. pc[r] = "published" /\ Answer(parked[r][Round(cur[r])], "ok")
      /\ parked' = [parked EXCEPT ![r][Round(cur[r])] = {}] /\ Leave(r)
      /\ UNCHANGED <<clients, inbox, result, gens, live, joined, held, dirn, done, pin,
                     world, copied>>
  BY DEF Finish, store, comm
<1>2. pc[r] \in Executing \cup {"pin"} /\ dirn' \in [Ranks -> Pins]
  BY <1>0, <1>1 DEF Executing, BatchTypes
<1>3. parked[r][Round(cur[r])] \cup {cur[r]} \subseteq parked[r][Round(cur[r])]
  BY <1>0, <1>1 DEF HandlingInv, Executing
<1> QED
  BY <1>1, <1>2, <1>3, RoundOver, Zenon DEF Answers

\* The round waits for its other role.
LEMMA ParkStep ==
  ASSUME Inv, NEW r \in Ranks, Park(r), UNCHANGED prog
  PROVE  Preserved(r)
<1> PICK n : n = Round(cur[r])
  OBVIOUS
<1>0. ClientTypes /\ BatchTypes /\ RankInv(r)
  BY DEF Inv, TypeInv
<1>1. Directed(r) /\ parked' = [parked EXCEPT ![r][n] = Arrived(r)] /\ Leave(r)
      /\ UNCHANGED <<clients, inbox, reply, result, gens, live, joined, held, done, pin,
                     world, copied>>
  BY DEF Park, InDirection, comm
<1>2. cur[r] \in Cmds /\ n \in Rounds
  BY <1>1, DirectedFacts, TransferFacts
<1>3. Arrived(r) \in SUBSET Cmds /\ Arrived(r) = parked[r][n] \cup {cur[r]}
  BY <1>0, <1>2 DEF Arrived, BatchTypes
<1>4. /\ parked' \in [Ranks -> [Rounds -> SUBSET Cmds]]
      /\ parked'[r][n] = parked[r][n] \cup {cur[r]}
      /\ \A m \in Rounds \ {n} : parked'[r][m] = parked[r][m]
      /\ \A q \in Ranks \ {r} : parked'[q] = parked[q]
  <2>1. PICK S \in SUBSET Cmds : S = Arrived(r)
    BY <1>3, Zenon
  <2>2. parked' = [parked EXCEPT ![r][n] = S] /\ S = parked[r][n] \cup {cur[r]}
    BY <1>1, <1>3, <2>1, Zenon
  <2> QED
    BY <1>0, <1>2, <2>2, SMT DEF BatchTypes
<1>5. reply' \in [Cmds -> Answers] /\ \A q \in Ranks : Told(q)
  BY <1>0, <1>1 DEF ClientTypes, Told
<1>6. HandlingInv(r)' /\ CopyInv(r)'
  BY <1>0, <1>1, LeaveType, HandlingLeft, DirectedFacts, CopyDirected DEF RankInv
<1>7. \A d \in Of(r) : Kept(r, d) => Kept(r, d)'
  BY <1>1, <1>2, <1>4 DEF Kept
<1>8. done' \in [Ranks -> Rounds \cup {-1}] /\ copied' \in [Ranks -> Seq(Entry)]
  BY <1>0, <1>1 DEF BatchTypes
<1>9. /\ pc' \in [Ranks -> Places] /\ cur' \in [Ranks -> Cmds \cup {NoCmd}]
      /\ \A q \in Ranks \ {r} : pc'[q] = pc[q] /\ cur'[q] = cur[q]
  BY <1>0, <1>1, LeaveType
<1>10. /\ dirn' \in [Ranks -> Pins] /\ pc[r] \in Executing \cup {"pin"}
       /\ \A q \in Ranks \ {r} : dirn'[q] = dirn[q]
  BY <1>1, DirectedFacts
<1> QED
  BY <1>1, <1>4, <1>5, <1>6, <1>7, <1>8, <1>9, <1>10, TransferStep, Zenon

\* The round begins, and it is later than the last one.
LEMMA EnterStep ==
  ASSUME Inv, NEW r \in Ranks, Enter(r), UNCHANGED prog
  PROVE  Preserved(r)
<1> PICK n : n = Round(cur[r])
  OBVIOUS
<1>0. ClientTypes /\ BatchTypes /\ RankInv(r)
  BY DEF Inv, TypeInv
<1>1. Directed(r) /\ parked' = [parked EXCEPT ![r][n] = Arrived(r)]
      /\ pc' = [pc EXCEPT ![r] = "gather"]
      /\ UNCHANGED <<clients, inbox, reply, result, cur, gens, live, joined, held, done,
                     pin, world, copied>>
  BY DEF Enter, InDirection, Goto, store
<1>2. cur[r] \in Cmds /\ n \in Rounds
  BY <1>1, DirectedFacts, TransferFacts
<1>3. Arrived(r) \in SUBSET Cmds /\ Arrived(r) = parked[r][n] \cup {cur[r]}
  BY <1>0, <1>2 DEF Arrived, BatchTypes
<1>4. /\ parked' \in [Ranks -> [Rounds -> SUBSET Cmds]]
      /\ parked'[r][n] = parked[r][n] \cup {cur[r]}
      /\ \A m \in Rounds \ {n} : parked'[r][m] = parked[r][m]
      /\ \A q \in Ranks \ {r} : parked'[q] = parked[q]
  <2>1. PICK S \in SUBSET Cmds : S = Arrived(r)
    BY <1>3, Zenon
  <2>2. parked' = [parked EXCEPT ![r][n] = S] /\ S = parked[r][n] \cup {cur[r]}
    BY <1>1, <1>3, <2>1, Zenon
  <2> QED
    BY <1>0, <1>2, <2>2, SMT DEF BatchTypes
<1>5. reply' \in [Cmds -> Answers] /\ \A q \in Ranks : Told(q)
  BY <1>0, <1>1 DEF ClientTypes, Told
<1>6. /\ pc' \in [Ranks -> Places] /\ pc'[r] = "gather"
      /\ \A q \in Ranks \ {r} : pc'[q] = pc[q]
  BY <1>0, <1>1 DEF BatchTypes, Places
<1>7. HandlingInv(r)'
  <2>1. done[r] < n
    <3>1. ~(n <= done[r])
      BY DEF Enter, Old
    <3>2. n \in Int /\ done[r] \in Int
      BY <1>0, <1>2, DualAssumption, SMT DEF BatchTypes, Rounds
    <3> QED
      BY <3>1, <3>2
  <2>2. \A d : Sent(r, d) => Sent(r, d)'
    BY <1>1, ClientsAlone, SentKept
  <2>3. dirn'[r] # "none" /\ stamp' = stamp
    BY <1>1, DirectedFacts DEF clients
  <2>4. /\ Sent(r, cur[r]) /\ IsTransfer(cur[r]) /\ live[r] # 0 /\ joined[r] = Roles
        /\ stamp[cur[r]] = live[r]
    BY <1>1, DirectedFacts, TransferFacts
  <2> QED
    BY <1>1, <1>4, <1>6, <2>1, <2>2, <2>3, <2>4, CallsKept, Zenon DEF HandlingInv, Executing
<1>8. CopyInv(r)'
  BY <1>0, <1>1, DirectedFacts, CopyDirected DEF RankInv
<1>9. \A d \in Of(r) : Kept(r, d) => Kept(r, d)'
  BY <1>1, <1>2, <1>4 DEF Kept
<1>10. /\ cur' \in [Ranks -> Cmds \cup {NoCmd}]
       /\ done' \in [Ranks -> Rounds \cup {-1}] /\ copied' \in [Ranks -> Seq(Entry)]
  BY <1>0, <1>1 DEF BatchTypes
<1>11. /\ UNCHANGED <<prog, clients, inbox, result, gens, live, joined, held, pin, world>>
       /\ pc[r] \in Executing \cup {"pin"} /\ dirn' \in [Ranks -> Pins]
  BY <1>1, DirectedFacts, Zenon
<1>12. \A q \in Ranks \ {r} :
         /\ pc'[q] = pc[q] /\ cur'[q] = cur[q] /\ dirn'[q] = dirn[q]
         /\ done'[q] = done[q] /\ parked'[q] = parked[q] /\ copied'[q] = copied[q]
  BY <1>1, <1>4, <1>6, DirectedFacts, Zenon
<1> QED
  BY <1>4, <1>5, <1>6, <1>7, <1>8, <1>9, <1>10, <1>11, <1>12, TransferStep, Zenon

\* From one barrier to the next.
LEMMA PassFacts ==
  ASSUME Inv, NEW r \in Ranks, NEW from, NEW to \in Places, Pass(r, from, to)
  PROVE  /\ pc[r] = from /\ pc' \in [Ranks -> Places] /\ pc'[r] = to
         /\ \A q \in Ranks \ {r} : pc'[q] = pc[q]
<1>0. BatchTypes
  BY DEF Inv, TypeInv
<1> QED
  BY <1>0 DEF Pass, Goto, BatchTypes

\* A barrier changes nothing but where the rank is.
LEMMA BarrierStep ==
  ASSUME Inv, NEW r \in Ranks, NEW from \in Executing, NEW to \in Executing,
         Pass(r, from, to), to = "start" => from = "gather", to # "gather",
         UNCHANGED <<prog, clients, inbox, reply, result, cur, gens, batch, pin,
                     world, copied>>
  PROVE  Preserved(r)
<1>0. ClientTypes /\ BatchTypes /\ RankInv(r) /\ HandlingInv(r)
  BY DEF Inv, TypeInv, RankInv
<1>1. UNCHANGED <<stamp, live, joined, held, dirn, done, parked>>
  BY DEF clients, batch
<1>2. /\ pc[r] = from /\ pc' \in [Ranks -> Places] /\ pc'[r] = to
      /\ \A q \in Ranks \ {r} : pc'[q] = pc[q]
  BY PassFacts, SMT DEF Executing, Places
<1>3. HandlingInv(r)'
  <2>1. \A d : Sent(r, d) => Sent(r, d)'
    BY ClientsAlone, SentKept
  <2> QED
    BY <1>0, <1>1, <1>2, <2>1, CallsKept, Zenon DEF HandlingInv, Executing
<1>4. CopyInv(r)'
  BY <1>0, <1>1, CopyDirected, Zenon DEF RankInv
<1>5. \A d \in Of(r) : Kept(r, d) => Kept(r, d)'
  BY <1>1, Zenon DEF Kept
<1>6. /\ cur' \in [Ranks -> Cmds \cup {NoCmd}] /\ dirn' \in [Ranks -> Pins]
      /\ done' \in [Ranks -> Rounds \cup {-1}] /\ copied' \in [Ranks -> Seq(Entry)]
      /\ parked' \in [Ranks -> [Rounds -> SUBSET Cmds]]
      /\ reply' \in [Cmds -> Answers] /\ \A q \in Ranks : Told(q)
  BY <1>0, <1>1 DEF BatchTypes, ClientTypes, Told
<1>7. pc[r] \in Executing \cup {"pin"}
  BY <1>2
<1> QED
  BY <1>1, <1>2, <1>3, <1>4, <1>5, <1>6, <1>7, TransferStep, Zenon

\* All ranks are at the same round.
LEMMA BeginStep ==
  ASSUME Inv, NEW r \in Ranks, Begin(r), UNCHANGED prog
  PROVE  Preserved(r)
<1>1. Pass(r, "gather", "start")
      /\ UNCHANGED <<clients, inbox, reply, result, cur, gens, batch, pin, world,
                     copied>>
  BY DEF Begin, store
<1> QED
  BY <1>1, BarrierStep DEF Executing

\* The round is published.
LEMMA PublishStep ==
  ASSUME Inv, NEW r \in Ranks, Publish(r), UNCHANGED prog
  PROVE  Preserved(r)
<1>1. Pass(r, "copied", "published")
      /\ UNCHANGED <<clients, inbox, reply, result, cur, gens, batch, pin, world,
                     copied>>
  BY DEF Publish
<1> QED
  BY <1>1, BarrierStep DEF Executing

\* The weights are copied: for the live generation, in its direction and for a
\* round that is later than all of it so far.
LEMMA CopyStep ==
  ASSUME Inv, NEW r \in Ranks, Copy(r), UNCHANGED prog
  PROVE  Preserved(r)
<1> PICK n : n = Round(cur[r])
  OBVIOUS
<1> PICK e : e = [gen |-> live[r], src |-> dirn[r], round |-> n]
  BY Zenon
<1>0. ClientTypes /\ BatchTypes /\ RankInv(r) /\ HandlingInv(r) /\ CopyInv(r)
  BY Zenon DEF Inv, TypeInv, RankInv
<1>1. /\ Pass(r, "start", "copied")
      /\ copied' = [copied EXCEPT ![r] = Append(copied[r], e)]
      /\ done' = [done EXCEPT ![r] = n]
      /\ UNCHANGED <<clients, inbox, reply, result, cur, gens, live, joined, held, dirn,
                     parked, pin, world>>
  BY <1>0 DEF Copy, store, BatchTypes
<1>2. /\ pc[r] = "start" /\ pc' \in [Ranks -> Places] /\ pc'[r] = "copied"
      /\ \A q \in Ranks \ {r} : pc'[q] = pc[q]
  BY <1>1, PassFacts DEF Places
<1>3. pc[r] \in Executing \cup {"pin"} /\ pc[r] \in Executing
  BY <1>2 DEF Executing
<1>4. n \in Rounds /\ live[r] # 0 /\ live[r] = gens[r] /\ live[r] \in Nat
  BY <1>0, <1>3, TransferFacts DEF BatchTypes
<1>5. /\ done' \in [Ranks -> Rounds \cup {-1}] /\ done'[r] = n
      /\ \A q \in Ranks \ {r} : done'[q] = done[q]
  BY <1>0, <1>1, <1>4 DEF BatchTypes
<1>6. e \in Entry /\ e.gen = live[r] /\ e.src = dirn[r] /\ e.round = n
  BY <1>0, <1>4 DEF Entry, BatchTypes
<1>7. copied[r] \in Seq(Entry)
  BY <1>0 DEF BatchTypes
<1>8. /\ copied' \in [Ranks -> Seq(Entry)] /\ copied'[r] = Append(copied[r], e)
      /\ \A q \in Ranks \ {r} : copied'[q] = copied[q]
  <2>1. Append(copied[r], e) \in Seq(Entry)
    BY <1>6, <1>7
  <2> QED
    BY <1>0, <1>1, <2>1, Zenon DEF BatchTypes
<1>9. /\ Len(copied[r]) \in Nat /\ Len(copied'[r]) = Len(copied[r]) + 1
      /\ copied'[r][Len(copied[r]) + 1] = e
      /\ \A i \in 1..Len(copied[r]) : copied'[r][i] = copied[r][i]
      /\ \A i \in 1..Len(copied'[r]) : i \in 1..Len(copied[r]) \/ i = Len(copied[r]) + 1
  BY <1>6, <1>7, <1>8, AppendFacts, SMT
<1>10. dirn[r] # "none" /\ done[r] < n /\ done[r] \in Int /\ n \in Int
  <2>1. dirn[r] # "none" /\ done[r] < n
    BY <1>0, <1>2, <1>3, Zenon DEF HandlingInv
  <2>2. done[r] \in Rounds \cup {-1}
    BY <1>0, Zenon DEF BatchTypes
  <2> QED
    BY <1>4, <2>1, <2>2, RoundOrder, Zenon
<1>11. ASSUME NEW i \in 1..Len(copied[r])
       PROVE  /\ copied[r][i].gen \in 1..gens[r] /\ copied[r][i].round \in Int
              /\ copied[r][i].gen = live[r] =>
                   copied[r][i].src = dirn[r] /\ copied[r][i].round < n
  <2>0. copied[r][i] \in Entry
    BY <1>7, EntryType, Zenon
  <2>1. copied[r][i].round \in Int
    BY <2>0, RoundOrder, Zenon DEF Entry
  <2>2. /\ copied[r][i].gen \in 1..gens[r]
        /\ copied[r][i].gen = live[r] =>
             copied[r][i].src = dirn[r] /\ copied[r][i].round <= done[r]
    BY <1>0, Zenon DEF CopyInv, Logged
  <2> QED
    BY <1>10, <2>1, <2>2, RoundOrder, Zenon
<1>12. CopyInv(r)'
  <2>1. ASSUME NEW i \in 1..Len(copied'[r])
        PROVE  /\ copied'[r][i].gen \in 1..gens[r]
               /\ copied'[r][i].gen = live[r] =>
                    copied'[r][i].src = dirn[r] /\ copied'[r][i].round <= n
    <3>1. CASE i \in 1..Len(copied[r])
      <4>1. copied'[r][i] = copied[r][i]
        BY <1>9, <3>1, Zenon
      <4> QED
        BY <1>10, <1>11, <3>1, <4>1, RoundOrder, Zenon
    <3>2. CASE i = Len(copied[r]) + 1
      BY <1>4, <1>6, <1>9, <1>10, <3>2
    <3> QED
      BY <1>9, <3>1, <3>2, Zenon
  <2>2. ASSUME NEW i \in 1..Len(copied'[r]), NEW j \in 1..Len(copied'[r]), i < j
        PROVE  Precedes(copied'[r][i], copied'[r][j])
    <3>1. i \in 1..Len(copied[r])
      BY <1>9, <2>2
    <3>2. CASE j \in 1..Len(copied[r])
      <4>1. copied'[r][i] = copied[r][i] /\ copied'[r][j] = copied[r][j]
        BY <1>9, <3>1, <3>2, Zenon
      <4> QED
        BY <1>0, <2>2, <3>1, <3>2, <4>1, Zenon DEF CopyInv
    <3>3. CASE j = Len(copied[r]) + 1
      <4>1. copied'[r][j] = e /\ copied'[r][i] = copied[r][i]
        BY <1>9, <3>1, <3>3, Zenon
      <4>2. copied[r][i].gen < live[r] \/ copied[r][i].gen = live[r]
        <5>1. \A x, y \in Nat : x \in 1..y => x < y \/ x = y
          BY SMT
        <5>2. copied[r][i].gen \in Nat
          BY <1>7, <3>1, EntryType, Zenon DEF Entry
        <5> QED
          BY <1>4, <1>11, <3>1, <5>1, <5>2, Zenon
      <4> QED
        BY <1>6, <1>11, <3>1, <4>1, <4>2, Zenon DEF Precedes
    <3> QED
      BY <1>9, <3>2, <3>3, Zenon
  <2> QED
    BY <1>1, <1>5, <1>10, <2>1, <2>2, Zenon DEF CopyInv, Logged
<1>13. HandlingInv(r)'
  <2>1. \A d : Sent(r, d) => Sent(r, d)'
    BY <1>1, ClientsAlone, SentKept, Zenon
  <2>2. stamp' = stamp
    BY <1>1 DEF clients
  <2> QED
    BY <1>0, <1>1, <1>2, <1>3, <2>1, <2>2, CallsKept, Zenon DEF HandlingInv, Executing
<1>14. \A d \in Of(r) : Kept(r, d) => Kept(r, d)'
  BY <1>1, Zenon DEF Kept
<1>15. /\ cur' \in [Ranks -> Cmds \cup {NoCmd}] /\ dirn' \in [Ranks -> Pins]
       /\ parked' \in [Ranks -> [Rounds -> SUBSET Cmds]]
       /\ reply' \in [Cmds -> Answers] /\ \A q \in Ranks : Told(q)
  BY <1>0, <1>1 DEF BatchTypes, ClientTypes, Told
<1> QED
  BY <1>1, <1>2, <1>3, <1>5, <1>8, <1>12, <1>13, <1>14, <1>15, TransferStep, Zenon

\* A batch is closed with everyone it keeps waiting.
LEMMA CleanupStep ==
  ASSUME Inv, NEW r \in Ranks, Cleanup(r), UNCHANGED prog
  PROVE  Preserved(r)
<1> PICK c : c = Head(inbox[r])
  OBVIOUS
<1>0. TypeInv /\ ClientTypes /\ BatchTypes /\ RankInv(r) /\ Take(r)
  BY DEF Inv, TypeInv, Cleanup, TakeOnly
<1>1. Sent(r, c)
  BY <1>0, HeadSent, Zenon DEF RankInv
<1>2. c \in Cmds /\ c \in Of(r) /\ StepOf(c).op = "close" /\ NeedsHandler(c)
  BY <1>1 DEF Sent, Of, Calls, Cleanup, NeedsHandler
<1>3. live[r] # 0 /\ Closed(r, live[r])
  <2>1. stamp[c] # 0
    BY <1>1, <1>2 DEF Sent
  <2>2. live[r] # 0 /\ stamp[c] = live[r]
    BY <2>1 DEF Cleanup, NoBatch, Stale
  <2> QED
    BY <1>2, <2>2 DEF Closed
<1>4. Drop(r) /\ Release(r, c)
      /\ UNCHANGED <<clients, result, pc, cur, gens, pin, world, copied>>
  BY DEF Cleanup, TakeOnly, comm
<1>5. /\ reply' \in [Cmds -> Answers] /\ \A q \in Ranks : Told(q)
      /\ \A d \in Cmds : d \in Waiters(r) \cup {c} => reply'[d] # "none"
  <2>1. reply' = [d \in Cmds |-> IF d \in Waiters(r) THEN "error"
                                ELSE IF d = c THEN "ok" ELSE reply[d]]
    BY <1>4 DEF Release
  <2>2. reply \in [Cmds -> Answers]
    BY <1>0 DEF ClientTypes
  <2>3. reply' \in [Cmds -> Answers]
    BY <2>1, <2>2 DEF Answers
  <2>4. \A d \in Cmds : reply'[d] # "none" \/ (reply'[d] = reply[d]
                                                 /\ d \notin Waiters(r) \cup {c})
    BY <2>1
  <2> QED
    BY <2>3, <2>4 DEF Told
<1>6. TypeInv'
  <2>1. inbox' \in [Ranks -> Seq(Cmds)]
    BY <1>0, TakeType
  <2>2. ClientTypes'
    BY <1>0, <1>4, <1>5, <2>1 DEF ClientTypes, clients
  <2>3. BatchTypes'
    BY <1>0, <1>4, DropType, Zenon DEF BatchTypes
  <2> QED
    BY <2>2, <2>3 DEF TypeInv
<1>7. \A q \in Ranks : SameClients(q) /\ SameResults(q)
  BY <1>4, ClientsAlone DEF SameResults
<1>8. \A q \in Ranks \ {r} : Untouched(q) /\ Told(q)
  <2>1. \A q \in Ranks \ {r} : SameGeneration(q) /\ SameRound(q) /\ SameWaiters(q)
    BY <1>0, <1>4, Zenon DEF Drop, BatchTypes, SameGeneration, SameRound, SameWaiters
  <2>2. \A q \in Ranks \ {r} : inbox'[q] = inbox[q]
    BY <1>0, TakeType
  <2> QED
    BY <1>4, <1>5, <1>7, <2>1, <2>2 DEF Untouched, SamePlace
<1>9. live'[r] = 0 /\ gens'[r] \in {gens[r], gens[r] + 1}
  BY <1>0, <1>4 DEF Drop, BatchTypes
<1>10. GrantInv(r)' /\ CopyInv(r)'
  BY <1>0, <1>3, <1>4, <1>7, <1>9, GrantDropped, CopyDropped, Zenon DEF RankInv
<1>11. BatchInv(r)'
  BY <1>0, <1>4, BatchDropped
<1>12. HandlingInv(r)'
  <2>1. pc'[r] = "dequeue" /\ cur'[r] = NoCmd
    BY <1>0, <1>4, TakeType, Zenon DEF RankInv, HandlingInv
  <2> QED
    BY <2>1, HandlingLeft
<1>13. ClientInv(r)' /\ QueueInv(r)'
  BY <1>0, <1>5, <1>7, TakeType, ClientKept, QueueKept, Zenon DEF RankInv
<1>14. OrphanInv(r)'
  <2>1. cur[r] = NoCmd
    BY <1>0, TakeType, Zenon DEF RankInv, HandlingInv
  <2>2. \A d \in Of(r) : d \in Cmds /\ d # NoCmd
    BY NoCmdAssumption DEF Of, Calls
  <2>3. \A d \in Of(r) : Kept(r, d) => d \in Waiters(r)
    BY <2>1, <2>2 DEF Kept, Waiters
  <2>4. \A d \in Of(r) : reply'[d] = "none" => d # Head(inbox[r]) /\ ~Kept(r, d)
    BY <1>5, <2>2, <2>3
  <2> QED
    BY <1>0, <1>5, <1>7, <2>4, OrphanTaken DEF RankInv
<1> QED
  BY <1>6, <1>8, <1>10, <1>11, <1>12, <1>13, <1>14 DEF RankInv, Preserved

-----------------------------------------------------------------------------
(* The theorems *)

\* Nobody has asked for anything.
LEMMA InvInit == Init => Inv
<1> SUFFICES ASSUME Init PROVE Inv
  OBVIOUS
<1>1. ClientTypes
  <2>1. << >> \in Seq(Cmds)
    OBVIOUS
  <2> QED
    BY <2>1 DEF Init, ClientTypes, Answers
<1>2. BatchTypes
  <2>1. /\ pc \in [Ranks -> Places] /\ cur \in [Ranks -> Cmds \cup {NoCmd}]
        /\ gens \in [Ranks -> Nat] /\ live \in [Ranks -> Nat]
        /\ joined \in [Ranks -> SUBSET Roles] /\ held \in [Ranks -> SUBSET Cmds]
    BY DEF Init, Places
  <2>2. /\ dirn \in [Ranks -> Pins] /\ (\A g \in DOMAIN pin : pin[g] \in Roles)
    BY DEF Init, Pins
  <2>3. /\ done \in [Ranks -> Rounds \cup {-1}]
        /\ parked \in [Ranks -> [Rounds -> SUBSET Cmds]]
    BY DEF Init
  <2>4. /\ world \in [Ranks -> Seq([arg : Layouts, dup : BOOLEAN])]
        /\ copied \in [Ranks -> Seq(Entry)]
    BY DEF Init
  <2> QED
    BY <2>1, <2>2, <2>3, <2>4, Zenon DEF BatchTypes
<1>3. ASSUME NEW r \in Ranks PROVE RankInv(r)
  <2>1. ClientInv(r)
    <3>1. \A x \in Roles : Len(prog.calls[r][x]) \in Nat
      BY <1>1, DualAssumption, SMT DEF ClientTypes, Program
    <3>2. \A c \in Of(r) : stamp[c] = 0
      BY DEF Init, Of, Calls
    <3>3. \A x \in Roles : ~waiting[r][x]
      BY DEF Init
    <3>4. \A x \in Roles : at[r][x] = 1
      BY DEF Init
    <3> QED
      BY <3>1, <3>2, <3>3, <3>4 DEF ClientInv
  <2>2. GrantInv(r)
    BY DEF Init, GrantInv, Grant
  <2>3. QueueInv(r) /\ HandlingInv(r)
    BY DEF Init, QueueInv, HandlingInv, Executing
  <2>4. BatchInv(r)
    BY DEF Init, BatchInv, Roles
  <2>5. CopyInv(r)
    BY DEF Init, CopyInv
  <2>6. OrphanInv(r)
    BY SMT DEF Init, OrphanInv, Of, Calls, Cmds
  <2> QED
    BY <2>1, <2>2, <2>3, <2>4, <2>5, <2>6 DEF RankInv
<1> QED
  BY <1>1, <1>2, <1>3 DEF Inv, TypeInv

\* A step that keeps what one rank knows and leaves the others alone.
LEMMA StepKeeps ==
  ASSUME Inv, NEW r \in Ranks, Preserved(r)
  PROVE  Inv'
<1>1. \A q \in Ranks \ {r} : RankInv(q)'
  BY RankKept DEF Inv, TypeInv, Preserved
<1> QED
  BY <1>1 DEF Inv, Preserved

\* Every step keeps what the ranks know.
LEMMA InvNext == Inv /\ [Next]_vars => Inv'
<1> SUFFICES ASSUME Inv, [Next]_vars PROVE Inv'
  OBVIOUS
<1>1. CASE UNCHANGED vars
  <2>1. UNCHANGED <<prog, at, waiting, handler, stamp, inbox, reply, result, pc, cur, gens,
                    live, joined, held, dirn, done, parked, pin, world, copied>>
    BY <1>1 DEF vars, clients, batch, store, comm
  <2>2. TypeInv'
    BY <2>1, Zenon DEF Inv, TypeInv, ClientTypes, BatchTypes
  <2>3. \A q \in Ranks : Untouched(q) /\ Told(q)
    BY <2>1 DEF Untouched, SameClients, SameResults, SameGeneration, SameRound,
                SameWaiters, SamePlace, Told
  <2>4. \A q \in Ranks : RankInv(q)'
    BY <2>3, RankKept DEF Inv, TypeInv
  <2> QED
    BY <2>2, <2>4 DEF Inv
<1>2. ASSUME NEW r \in Ranks, NEW x \in Roles, Client(r, x) PROVE Inv'
  <2>1. prog' = prog /\ (Send(r, x) \/ Skip(r, x) \/ Return(r, x))
    BY <1>2 DEF Client
  <2> QED
    BY <2>1, SendStep, SkipStep, ReturnStep, StepKeeps
<1>3. ASSUME NEW r \in Ranks, Agent(r) PROVE Inv'
  <2>0. prog' = prog
    BY <1>3 DEF Agent
  <2>1. CASE Registration(r)
    BY <2>0, <2>1, TakeRegisterStep, RefuseStep, MismatchStep, JoinStep, StepKeeps
       DEF Registration
  <2>2. CASE RefuseTransfer(r) \/ Query(r) \/ IgnoreCleanup(r)
    <3>1. PICK o \in Answers \ {"none"} : Answer({Head(inbox[r])}, o)
      BY <2>2 DEF RefuseTransfer, Query, IgnoreCleanup, Answers
    <3>2. TakeOnly(r) /\ UNCHANGED <<clients, result, gens, batch, store, comm>>
      BY <2>2 DEF RefuseTransfer, Query, IgnoreCleanup
    <3> QED
      BY <2>0, <3>1, <3>2, AnswerStep, StepKeeps, Zenon
  <2>3. CASE TakeTransfer(r) \/ WrongDirection(r) \/ Acknowledge(r) \/ Park(r)
             \/ NoBuckets(r) \/ Enter(r)
    BY <2>0, <2>3, TakeTransferStep, WrongDirectionStep, AcknowledgeStep, ParkStep,
       NoBucketsStep, EnterStep, StepKeeps
  <2>4. CASE MixedRounds(r) \/ Begin(r) \/ Copy(r) \/ Publish(r) \/ Finish(r)
    BY <2>0, <2>4, MixedRoundsStep, BeginStep, CopyStep, PublishStep, FinishStep,
       StepKeeps
  <2>5. CASE Cleanup(r)
    BY <2>0, <2>5, CleanupStep, StepKeeps
  <2> QED
    BY <1>3, <2>1, <2>2, <2>3, <2>4, <2>5 DEF Agent, Transfer
<1>4. CASE Expiry
  <2>1. prog' = prog
    BY <1>4 DEF Expiry
  <2>2. PICK r \in Ranks : PinTimeout(r) \/ \E x \in Roles : GiveUp(r, x)
    BY <1>4 DEF Expiry
  <2> QED
    BY <2>1, <2>2, PinTimeoutStep, GiveUpStep, StepKeeps
<1>5. CASE \E r \in Ranks : DequeueTimeout(r)
  BY <1>1, <1>5 DEF DequeueTimeout
<1> QED
  BY <1>1, <1>2, <1>3, <1>4, <1>5 DEF Next

\* The invariant holds always.
LEMMA InvAlways == Spec => []Inv
BY InvInit, InvNext, PTL DEF Spec

\* A round is executed once, never after a later one of its generation, and a
\* generation only ever copies in one direction, whatever the workers ask for and
\* however often the batch id is registered again: an old round is acknowledged, and
\* what a new registration starts with is past everything copied before.
THEOREM RoundsNeverGoBack == Spec => []NoRollback
<1>1. Inv => NoRollback
  BY Zenon DEF Inv, RankInv, CopyInv, Precedes, NoRollback
<1> QED
  BY <1>1, InvAlways, PTL

\* A command that an agent took is answered, in its hands or with its live batch: no
\* refusal, abort, failure, acknowledgement or cleanup lets one go without an answer.
THEOREM NoSemaphoreOrphaned == Spec => []NoOrphan
<1>1. Inv => NoOrphan
  <2> SUFFICES ASSUME Inv, NEW c \in Calls,
                      c.k < at[c.rank][c.role],
                      ~(NeedsHandler(c) /\ stamp[c] = 0),
                      \A n \in 1..Len(inbox[c.rank]) : inbox[c.rank][n] # c,
                      reply[c] = "none"
               PROVE  \/ cur[c.rank] = c
                      \/ /\ live[c.rank] # 0
                         /\ \/ c \in held[c.rank]
                            \/ \E n \in Rounds : c \in parked[c.rank][n]
    BY DEF NoOrphan
  <2>1. c.rank \in Ranks /\ c \in Of(c.rank)
    BY DEF Calls, Cmds, Of
  <2>2. RankInv(c.rank)
    BY <2>1, Zenon DEF Inv
  <2>3. Kept(c.rank, c)
    BY <2>1, <2>2 DEF RankInv, OrphanInv
  <2>4. live[c.rank] = 0 => held[c.rank] = {} /\ \A n \in Rounds : parked[c.rank][n] = {}
    BY <2>2, Zenon DEF RankInv, BatchInv, Roles
  <2> QED
    BY <2>3, <2>4 DEF Kept
<1> QED
  BY <1>1, InvAlways, PTL

\* A handler's batch is there until a client of that rank closes a handler of the same
\* registration: refused and aborted registrations, and the cleanups of older
\* generations, leave it alone.
THEOREM HandlersKeepTheirBatch == Spec => []HandlerKeepsBatch
<1>1. Inv => HandlerKeepsBatch
  <2> SUFFICES ASSUME Inv, NEW r \in Ranks, NEW x \in Roles, handler[r][x] # 0
               PROVE  live[r] = handler[r][x] \/ Closed(r, handler[r][x])
    BY SMT DEF HandlerKeepsBatch, Closed, Of
  <2>1. Grant(r, handler[r][x])
    BY DEF Inv, RankInv, GrantInv
  <2> QED
    BY <2>1 DEF Grant
<1> QED
  BY <1>1, InvAlways, PTL

-----------------------------------------------------------------------------
(* What the ranks have in common *)

\* Every registration names pairs of one membership.  The check of this is the
\* one part of the verdict that looks at the rank's own call only, so that a
\* rank may refuse what the others count as a generation.
OneMembership ==
  \A p \in Programs : \A r \in Ranks, x \in Roles :
    \A k \in 1..Len(p.calls[r][x]) : p.calls[r][x][k].arg # "empty"

Turn == [op : Executing, round : Rounds]

SharedTypes ==
  /\ sign \in [Ranks -> Layouts \cup {"none"}]
  /\ group \in [Ranks -> Seq(Turn)]
  /\ signal \in Rounds \cup {-1}

\* The registrations a rank has decided on.
Applied(r) == IF pc[r] = "register" THEN Len(world[r]) - 1 ELSE Len(world[r])

\* A registration that waits for its second role.
Open(r) == live[r] # 0 /\ joined[r] # Roles

OpenInv(r) ==
  /\ live[r] = 0 => sign[r] = "none"
  /\ live[r] # 0 => joined[r] # {}
  /\ Open(r) => held[r] # {}
  /\ \A c \in held[r] : c \in Of(r) /\ StepOf(c).op = "register"

\* What rank r is going to make of the registration it is at.
NextGens(r) == IF Refused(r) \/ ~NoBatch(r) THEN gens[r] ELSE gens[r] + 1
NextOpen(r) == ~Refused(r) /\ ~Differ(r) /\ NoBatch(r)

\* Two ranks that decided on the same registrations.
Agree(q, r) ==
  /\ gens[q] = gens[r]
  /\ Open(q) <=> Open(r)
  /\ Open(q) => sign[q] = sign[r]

\* A rank that decided on one more.
Leads(q, r) ==
  /\ gens[q] = NextGens(r)
  /\ Open(q) <=> NextOpen(r)
  /\ Open(q) => sign[q] = StepOf(cur[r]).arg

WorldInv ==
  /\ \A r \in Ranks : OpenInv(r)
  /\ \A q, r \in Ranks : Applied(q) <= Len(world[r])
  /\ \A q, r \in Ranks : Applied(q) = Applied(r) => Agree(q, r)
  /\ \A q, r \in Ranks : Applied(q) = Applied(r) + 1 => Leads(q, r)

-----------------------------------------------------------------------------
(* Registrations *)

\* The layout of a registration.
LEMMA ArgType ==
  ASSUME Inv, NEW r \in Ranks, pc[r] = "register"
  PROVE  /\ StepOf(cur[r]).arg \in Layouts
         /\ OneMembership => StepOf(cur[r]).arg # "empty"
         /\ cur[r].role \in Roles /\ cur[r] \in Of(r)
         /\ StepOf(cur[r]).op = "register"
<1>0. TypeInv /\ ClientTypes /\ HandlingInv(r) /\ prog \in Programs
  BY DEF Inv, RankInv, TypeInv, ClientTypes
<1>1. /\ StepOf(cur[r]) \in Step /\ StepOf(cur[r]).op = "register"
      /\ cur[r] \in Calls /\ cur[r] \in Of(r) /\ cur[r].role \in Roles
  BY <1>0, CurType, Zenon DEF HandlingInv
<1>2. StepOf(cur[r]).arg \in Layouts
  BY <1>1, Zenon DEF Step, Registrations, Directions, Closings, Layouts
<1>3. /\ cur[r].rank \in Ranks /\ cur[r].k \in 1..MaxCalls
      /\ cur[r].k <= Len(prog.calls[cur[r].rank][cur[r].role])
  BY <1>1, Zenon DEF Calls, Cmds
<1>4. prog.calls[cur[r].rank][cur[r].role] \in Seq(Step)
  BY <1>0, <1>1, <1>3, CallSequence, Zenon
<1>5. cur[r].k \in 1..Len(prog.calls[cur[r].rank][cur[r].role])
  BY <1>3, <1>4
<1>6. OneMembership => StepOf(cur[r]).arg # "empty"
  BY <1>0, <1>1, <1>3, <1>5, Zenon DEF OneMembership, StepOf
<1> QED
  BY <1>1, <1>2, <1>6

\* The length of what a rank contributed.
LEMMA WorldLength ==
  ASSUME Inv, NEW r \in Ranks
  PROVE  /\ Len(world[r]) \in Nat
         /\ Applied(r) \in Nat
         /\ pc[r] = "register" => Applied(r) + 1 = Len(world[r])
         /\ pc[r] # "register" => Applied(r) = Len(world[r])
<1>1. world[r] \in Seq([arg : Layouts, dup : BOOLEAN])
  BY Zenon DEF Inv, TypeInv, BatchTypes
<1>2. Len(world[r]) \in Nat
  BY <1>1
<1>3. pc[r] = "register" => Len(world[r]) > 0
  BY DEF Inv, RankInv, HandlingInv
<1>4. CASE pc[r] = "register"
  <2>1. Applied(r) = Len(world[r]) - 1
    BY <1>4, Zenon DEF Applied
  <2>2. Len(world[r]) - 1 \in Nat /\ Len(world[r]) - 1 + 1 = Len(world[r])
    BY <1>2, <1>3, <1>4
  <2> QED
    BY <1>2, <1>4, <2>1, <2>2, Zenon
<1>5. CASE pc[r] # "register"
  BY <1>2, <1>5, Zenon DEF Applied
<1> QED
  BY <1>4, <1>5, Zenon

\* Ranks that are at the same registration, from the same generation, come to
\* the same verdict.
LEMMA Verdict ==
  ASSUME Inv, OneMembership, NEW q \in Ranks, NEW r \in Ranks,
         pc[q] = "register", pc[r] = "register",
         Len(world[q]) = Len(world[r]), OpenInv(q), OpenInv(r), Agree(q, r)
  PROVE  /\ NextGens(q) = NextGens(r)
         /\ NextOpen(q) <=> NextOpen(r)
         /\ NextOpen(q) => StepOf(cur[q]).arg = StepOf(cur[r]).arg
<1>1. Gathered(world, q) = Gathered(world, r)
  BY Zenon DEF Gathered
<1>2. Refused(q) <=> Refused(r)
  BY <1>1, ArgType, Zenon DEF Refused
<1>3. CASE Refused(q)
  BY <1>2, <1>3, Zenon DEF NextGens, NextOpen, Agree
<1>4. CASE ~Refused(q)
  <2>1. joined[q] # Roles /\ joined[r] # Roles
    BY <1>2, <1>4, Missing
  <2>2. NoBatch(q) <=> NoBatch(r)
    BY <2>1 DEF NoBatch, Open, Agree
  <2>3. NextGens(q) = NextGens(r)
    BY <1>2, <1>4, <2>2, Zenon DEF NextGens, Agree
  <2>4. sign[q] = sign[r]
    BY <2>1, <2>2 DEF Agree, Open, OpenInv, NoBatch
  <2>5. /\ world[q][Len(world[q])] \in Gathered(world, r)
        /\ world[r][Len(world[r])] \in Gathered(world, r)
    BY <1>1 DEF Gathered
  <2>6. /\ world[q][Len(world[q])].arg = StepOf(cur[q]).arg
        /\ world[r][Len(world[r])].arg = StepOf(cur[r]).arg
    BY Zenon DEF Inv, RankInv, HandlingInv
  <2>7. ~Differ(q) \/ ~Differ(r) => StepOf(cur[q]).arg = StepOf(cur[r]).arg
    BY <1>1, <2>5, <2>6, Zenon DEF Differ
  <2>8. Differ(q) <=> Differ(r)
    BY <1>1, <2>4, <2>7, Zenon DEF Differ
  <2> QED
    BY <1>2, <2>2, <2>3, <2>7, <2>8, Zenon DEF NextOpen
<1> QED
  BY <1>3, <1>4

-----------------------------------------------------------------------------
(* Steps that decide on no registration *)

\* Rank q stays where it is with its registrations.
Steady(q) ==
  /\ OpenInv(q)'
  /\ gens'[q] = gens[q]
  /\ Open(q)' <=> Open(q)
  /\ Open(q) => sign'[q] = sign[q]
  /\ world'[q] = world[q]
  /\ pc[q] = "register" \/ pc'[q] = "register" =>
       SamePlace(q) /\ SameGeneration(q) /\ sign'[q] = sign[q]

\* A rank whose registration is as it was.
SameRegistration(q) == SameGeneration(q) /\ held'[q] = held[q] /\ sign'[q] = sign[q]

\* It stays open, or closed, for the same commands.
LEMMA OpenKept ==
  ASSUME NEW q \in Ranks, OpenInv(q), SameRegistration(q), prog' = prog
  PROVE  OpenInv(q)'
BY CallsKept, Zenon DEF OpenInv, Open, SameRegistration, SameGeneration

\* Such a rank is steady.
LEMMA SteadyKept ==
  ASSUME NEW q \in Ranks, OpenInv(q), SameRegistration(q), prog' = prog,
         world'[q] = world[q],
         pc[q] = "register" \/ pc'[q] = "register" => SamePlace(q)
  PROVE  Steady(q)
<1>1. OpenInv(q)'
  BY OpenKept
<1> QED
  BY <1>1, Zenon DEF Steady, SameRegistration, SameGeneration, Open

\* What a rank is going to decide depends on its registration and on what the ranks
\* contributed.
LEMMA VerdictKept ==
  ASSUME NEW r \in Ranks, prog' = prog, SamePlace(r), SameGeneration(r),
         sign'[r] = sign[r], Gathered(world, r)' = Gathered(world, r)
  PROVE  /\ NextGens(r)' = NextGens(r)
         /\ NextOpen(r)' <=> NextOpen(r)
         /\ StepOf(cur[r])' = StepOf(cur[r])
<1>1. StepOf(cur[r])' = StepOf(cur[r])
  BY CallsKept, Zenon DEF SamePlace
<1>2. Refused(r)' <=> Refused(r)
  BY <1>1, Zenon DEF Refused
<1>3. Differ(r)' <=> Differ(r)
  BY <1>1, Zenon DEF Differ
<1>4. NoBatch(r)' <=> NoBatch(r)
  BY DEF NoBatch, SameGeneration
<1> QED
  BY <1>1, <1>2, <1>3, <1>4, Zenon DEF NextGens, NextOpen, SameGeneration

\* All ranks are steady.
LEMMA QuietWorld ==
  ASSUME Inv, WorldInv, prog' = prog, \A q \in Ranks : Steady(q)
  PROVE  WorldInv'
<1>1. \A q \in Ranks : Applied(q)' = Applied(q) /\ Len(world[q])' = Len(world[q])
  BY DEF Applied, Steady, SamePlace
<1>2. \A q \in Ranks : OpenInv(q)'
  BY Zenon DEF Steady
<1>3. \A q, r \in Ranks : Applied(q)' <= Len(world[r])'
  BY <1>1 DEF WorldInv
<1>4. ASSUME NEW q \in Ranks, NEW r \in Ranks, Applied(q)' = Applied(r)'
      PROVE  Agree(q, r)'
  <2>1. Agree(q, r)
    BY <1>1, <1>4, Zenon DEF WorldInv
  <2> QED
    BY <2>1, Zenon DEF Agree, Steady
<1>5. ASSUME NEW q \in Ranks, NEW r \in Ranks, Applied(q)' = Applied(r)' + 1
      PROVE  Leads(q, r)'
  <2>1. Leads(q, r) /\ pc[r] = "register"
    BY <1>1, <1>5, WorldLength DEF WorldInv
  <2>2. Gathered(world, r)' = Gathered(world, r)
    BY DEF Gathered, Steady
  <2>3. SamePlace(r) /\ SameGeneration(r) /\ sign'[r] = sign[r]
    BY <2>1, Zenon DEF Steady
  <2> QED
    BY <2>1, <2>2, <2>3, VerdictKept, Zenon DEF Leads, Steady
<1> QED
  BY <1>2, <1>3, <1>4, <1>5, Zenon DEF WorldInv

\* A step of rank r that is not about a registration.
LEMMA QuietStep ==
  ASSUME Inv, WorldInv, NEW r \in Ranks, prog' = prog,
         UNCHANGED <<gens, live, joined, sign, held, world>>,
         \A q \in Ranks \ {r} : SamePlace(q),
         SamePlace(r) \/ (pc[r] # "register" /\ pc'[r] # "register")
  PROVE  WorldInv'
<1>1. ASSUME NEW q \in Ranks PROVE Steady(q)
  <2>1. OpenInv(q) /\ SameRegistration(q)
    BY Zenon DEF WorldInv, SameRegistration, SameGeneration
  <2>2. pc[q] = "register" \/ pc'[q] = "register" => SamePlace(q)
    BY DEF SamePlace
  <2> QED
    BY <2>1, <2>2, SteadyKept
<1> QED
  BY <1>1, QuietWorld, Zenon

\* A complete batch is closed.
LEMMA CleanupWorld ==
  ASSUME Inv, SharedTypes, WorldInv, NEW r \in Ranks, Cleanup(r), prog' = prog
  PROVE  WorldInv'
<1>0. TypeInv /\ ClientTypes /\ BatchTypes /\ RankInv(r) /\ Take(r)
  BY DEF Inv, TypeInv, Cleanup, TakeOnly
<1> PICK c : c = Head(inbox[r])
  OBVIOUS
<1>1. c \in Cmds /\ Sent(r, c) /\ StepOf(c).op = "close"
  <2>1. c = inbox[r][1] /\ 1 \in 1..Len(inbox[r]) /\ c \in Cmds
    BY <1>0, TakeType, HeadType
  <2> QED
    BY <1>0, <2>1 DEF RankInv, QueueInv, Cleanup
<1>2. stamp[c] = live[r] /\ stamp[c] # 0
  BY <1>1 DEF Cleanup, NoBatch, Stale, Sent, NeedsHandler
<1>3. joined[r] = Roles
  BY <1>0, <1>1, <1>2 DEF RankInv, GrantInv, Grant, Sent, Of
<1>4. pc[r] = "dequeue" /\ UNCHANGED <<pc, cur, gens, world>> /\ Drop(r)
  BY <1>0, TakeType DEF Cleanup, TakeOnly, comm
<1>5. live'[r] = 0 /\ held'[r] = {} /\ sign'[r] = "none"
  BY <1>0, <1>4 DEF Drop, BatchTypes, SharedTypes
<1>6. \A q \in Ranks \ {r} : SameRegistration(q)
  BY <1>0, <1>4 DEF Drop, BatchTypes, SharedTypes, SameRegistration, SameGeneration
<1>7. Steady(r)
  <2>1. ~Open(r) /\ ~Open(r)'
    BY <1>3, <1>5 DEF Open
  <2>2. OpenInv(r)'
    BY <1>5, <2>1 DEF OpenInv
  <2> QED
    BY <1>4, <2>1, <2>2 DEF Steady
<1>8. ASSUME NEW q \in Ranks \ {r} PROVE Steady(q)
  <2>1. OpenInv(q)
    BY Zenon DEF WorldInv
  <2> QED
    BY <1>4, <1>6, <2>1, SteadyKept DEF SamePlace
<1> QED
  BY <1>7, <1>8, QuietWorld

-----------------------------------------------------------------------------
(* The steps of a registration *)

\* A rank contributes to the next registration.  Whoever is ahead is so by a
\* registration that all ranks contributed to.
LEMMA TakeRegisterWorld ==
  ASSUME Inv, SharedTypes, WorldInv, NEW r \in Ranks, TakeRegister(r), prog' = prog
  PROVE  WorldInv'
<1>0. TypeInv /\ ClientTypes /\ BatchTypes /\ Take(r) /\ TakeTo(r, "register")
  BY DEF Inv, TypeInv, TakeRegister, TakeTo
<1>1. pc[r] = "dequeue" /\ pc'[r] = "register" /\ \A q \in Ranks \ {r} : SamePlace(q)
  BY <1>0, TakeType DEF TakeTo, Goto, BatchTypes, SamePlace
<1>2. PICK w : world' = [world EXCEPT ![r] = Append(@, w)]
  BY Zenon DEF TakeRegister
<1>3. world \in [Ranks -> Seq([arg : Layouts, dup : BOOLEAN])]
  BY <1>0, Zenon DEF BatchTypes
<1>4. /\ world[r] \in Seq([arg : Layouts, dup : BOOLEAN])
      /\ world'[r] = Append(world[r], w)
      /\ \A q \in Ranks \ {r} : world'[q] = world[q]
  BY <1>2, <1>3, Zenon
<1>5. /\ Len(world[r]) \in Nat /\ Len(world[r])' = Len(world[r]) + 1
      /\ \A k \in 1..Len(world[r]) : world'[r][k] = world[r][k]
  BY <1>4
<1>6. \A q \in Ranks : Applied(q)' = Applied(q) /\ Len(world[q])' >= Len(world[q])
  <2>1. Applied(r)' = Applied(r) /\ Len(world[r])' >= Len(world[r])
    BY <1>1, <1>5 DEF Applied
  <2>2. ASSUME NEW q \in Ranks \ {r}
        PROVE  Applied(q)' = Applied(q) /\ Len(world[q])' = Len(world[q])
    BY <1>1, <1>4 DEF Applied, SamePlace
  <2>3. \A q \in Ranks : Len(world[q]) \in Nat
    BY WorldLength
  <2> QED
    BY <2>1, <2>2, <2>3
<1>7. UNCHANGED <<gens, live, joined, held, sign>>
  BY DEF TakeRegister, batch
<1>8. \A q \in Ranks : SameRegistration(q)
  BY <1>7 DEF SameRegistration, SameGeneration
<1>9. \A q \in Ranks : OpenInv(q)'
  BY <1>8, OpenKept DEF WorldInv
<1>10. \A q, p \in Ranks : Applied(q)' <= Len(world[p])'
  <2>1. \A q \in Ranks : Len(world[q]) \in Nat /\ Len(world[q])' \in Nat /\ Applied(q) \in Nat
    BY <1>4, <1>5, WorldLength
  <2> QED
    BY <1>6, <2>1 DEF WorldInv
<1>11. \A q, p \in Ranks : Agree(q, p)' <=> Agree(q, p)
  BY <1>7, Zenon DEF Agree, Open
<1>12. ASSUME NEW q \in Ranks, NEW p \in Ranks, Applied(q)' = Applied(p)' + 1
       PROVE  Leads(q, p)'
  <2>1. Leads(q, p) /\ pc[p] = "register" /\ Len(world[p]) = Applied(q)
    BY <1>6, <1>12, WorldLength DEF WorldInv
  <2>2. p # r /\ SamePlace(p) /\ world'[p] = world[p]
    BY <1>1, <1>4, <2>1
  <2>3. Len(world[p]) \in 1..Len(world[r])
    <3>1. Applied(q) <= Len(world[r])
      BY DEF WorldInv
    <3>2. Len(world[p]) \in Nat /\ Len(world[p]) > 0
      BY <2>1, WorldLength
    <3> QED
      BY <1>5, <2>1, <3>1, <3>2
  <2>4. \A o \in Ranks : world'[o][Len(world[p])] = world[o][Len(world[p])]
    BY <1>4, <1>5, <2>3
  <2>5. Gathered(world, p)' = Gathered(world, p)
    BY <2>2, <2>4 DEF Gathered
  <2>6. /\ NextGens(p)' = NextGens(p) /\ (NextOpen(p)' <=> NextOpen(p))
        /\ StepOf(cur[p])' = StepOf(cur[p])
    BY <1>8, <2>2, <2>5, VerdictKept, Zenon DEF SameRegistration
  <2> QED
    BY <1>7, <2>1, <2>6, Zenon DEF Leads, Open
<1> QED
  BY <1>6, <1>9, <1>10, <1>11, <1>12, Zenon DEF WorldInv

\* A rank decides as it was bound to: whoever decided before it agrees, and whoever
\* did not will.
LEMMA DecidingWorld ==
  ASSUME Inv, OneMembership, WorldInv, NEW r \in Ranks, prog' = prog,
         pc[r] = "register", Everywhere(world, r), Leave(r), world' = world,
         \A q \in Ranks \ {r} : gens'[q] = gens[q] /\ SameRegistration(q),
         OpenInv(r)', gens'[r] = NextGens(r), Open(r)' <=> NextOpen(r),
         Open(r)' => sign'[r] = StepOf(cur[r]).arg
  PROVE  WorldInv'
<1>0. BatchTypes
  BY DEF Inv, TypeInv
<1>1. pc'[r] = "dequeue" /\ \A q \in Ranks \ {r} : SamePlace(q)
  BY <1>0, LeaveType DEF SamePlace
<1>2. \A q \in Ranks : Len(world[q])' = Len(world[q]) /\ Gathered(world, q)' = Gathered(world, q)
  BY DEF Gathered
<1>3. /\ \A q \in Ranks \ {r} : Applied(q)' = Applied(q)
      /\ Applied(r)' = Applied(r) + 1 /\ Applied(r)' = Len(world[r])
  BY <1>1, <1>2, WorldLength DEF Applied, SamePlace
<1>4. \A q \in Ranks : OpenInv(q)'
  BY OpenKept, Zenon DEF WorldInv
<1>5. \A q \in Ranks : Len(world[q]) >= Len(world[r])
  BY DEF Everywhere
<1>6. \A q, p \in Ranks : Applied(q)' <= Len(world[p])'
  <2>1. ASSUME NEW p \in Ranks PROVE Applied(r)' <= Len(world[p])
    BY <1>3, <1>5, WorldLength
  <2>2. \A q \in Ranks \ {r}, p \in Ranks : Applied(q)' <= Len(world[p])
    BY <1>3 DEF WorldInv
  <2> QED
    BY <1>2, <2>1, <2>2
<1>7. ASSUME NEW q \in Ranks \ {r}
      PROVE  \/ Applied(q) = Applied(r) + 1 /\ Leads(q, r)
             \/ /\ Applied(q) = Applied(r) /\ pc[q] = "register"
                /\ NextGens(q) = NextGens(r) /\ (NextOpen(q) <=> NextOpen(r))
                /\ NextOpen(q) => StepOf(cur[q]).arg = StepOf(cur[r]).arg
  <2>1. Applied(q) <= Len(world[r]) /\ Len(world[q]) >= Len(world[r])
    BY <1>5 DEF WorldInv
  <2>2. \/ Applied(q) = Applied(r) + 1
        \/ /\ Applied(q) = Applied(r) /\ pc[q] = "register"
           /\ Len(world[q]) = Len(world[r])
    BY <2>1, WorldLength
  <2>3. CASE Applied(q) = Applied(r) + 1
    BY <2>3, Zenon DEF WorldInv
  <2>4. CASE Applied(q) = Applied(r) /\ pc[q] = "register" /\ Len(world[q]) = Len(world[r])
    <3>1. OpenInv(q) /\ OpenInv(r) /\ Agree(q, r)
      BY <2>4, Zenon DEF WorldInv
    <3> QED
      BY <2>4, <3>1, Verdict, Zenon
  <2> QED
    BY <2>2, <2>3, <2>4
<1>8. \A q \in Ranks \ {r} : Open(q)' <=> Open(q)
  BY DEF SameRegistration, SameGeneration, Open
<1>9. \A q \in Ranks \ {r} : sign'[q] = sign[q]
  BY DEF SameRegistration
<1>10. ASSUME NEW q \in Ranks \ {r}
       PROVE  /\ Applied(q)' = Applied(r)' => Agree(q, r)' /\ Agree(r, q)'
              /\ Applied(r)' = Applied(q)' + 1 => Leads(r, q)'
              /\ Applied(q)' # Applied(r)' + 1
  <2>0. Applied(q) \in Nat /\ Applied(r) \in Nat
    BY WorldLength
  <2>1. CASE Applied(q) = Applied(r) + 1 /\ Leads(q, r)
    <3>1. Applied(q)' = Applied(r)' /\ Applied(r)' # Applied(q)' + 1
          /\ Applied(q)' # Applied(r)' + 1
      BY <1>3, <2>0, <2>1
    <3>2. Agree(q, r)' /\ Agree(r, q)'
      BY <1>8, <1>9, <2>1, Zenon DEF Leads, Agree
    <3> QED
      BY <3>1, <3>2
  <2>2. CASE /\ Applied(q) = Applied(r) /\ pc[q] = "register"
             /\ NextGens(q) = NextGens(r) /\ (NextOpen(q) <=> NextOpen(r))
             /\ NextOpen(q) => StepOf(cur[q]).arg = StepOf(cur[r]).arg
    <3>1. Applied(q)' # Applied(r)' /\ Applied(q)' # Applied(r)' + 1
      BY <1>3, <2>0, <2>2
    <3>2. /\ NextGens(q)' = NextGens(q) /\ (NextOpen(q)' <=> NextOpen(q))
          /\ StepOf(cur[q])' = StepOf(cur[q])
      BY <1>1, <1>2, VerdictKept, Zenon DEF SameRegistration
    <3>3. Leads(r, q)'
      BY <2>2, <3>2, Zenon DEF Leads
    <3> QED
      BY <3>1, <3>3
  <2> QED
    BY <1>7, <2>1, <2>2
<1>11. ASSUME NEW q \in Ranks \ {r}, NEW p \in Ranks \ {r}
       PROVE  /\ Applied(q)' = Applied(p)' => Agree(q, p)'
              /\ Applied(q)' = Applied(p)' + 1 => Leads(q, p)'
  <2>1. ASSUME Applied(q)' = Applied(p)' PROVE Agree(q, p)'
    <3>1. Agree(q, p)
      BY <1>3, <2>1, Zenon DEF WorldInv
    <3>2. /\ gens'[q] = gens[q] /\ gens'[p] = gens[p]
          /\ sign'[q] = sign[q] /\ sign'[p] = sign[p]
          /\ (Open(q)' <=> Open(q)) /\ (Open(p)' <=> Open(p))
      BY <1>8, <1>9, Zenon
    <3> QED
      BY <3>1, <3>2, Zenon DEF Agree
  <2>2. ASSUME Applied(q)' = Applied(p)' + 1 PROVE Leads(q, p)'
    <3>1. Leads(q, p)
      BY <1>3, <2>2, Zenon DEF WorldInv
    <3>2. /\ NextGens(p)' = NextGens(p) /\ (NextOpen(p)' <=> NextOpen(p))
          /\ StepOf(cur[p])' = StepOf(cur[p])
      BY <1>1, <1>2, VerdictKept, Zenon DEF SameRegistration
    <3> QED
      BY <1>8, <1>9, <3>1, <3>2, Zenon DEF Leads
  <2> QED
    BY <2>1, <2>2
<1>12. Agree(r, r)' /\ Applied(r)' # Applied(r)' + 1
  BY <1>3, WorldLength DEF Agree
<1>13. \A q, p \in Ranks : Applied(q)' = Applied(p)' => Agree(q, p)'
  BY <1>10, <1>11, <1>12, Zenon
<1>14. \A q, p \in Ranks : Applied(q)' = Applied(p)' + 1 => Leads(q, p)'
  BY <1>10, <1>11, <1>12, Zenon
<1> QED
  BY <1>4, <1>6, <1>13, <1>14, Zenon DEF WorldInv

\* The three ways a registration ends.
LEMMA RefuseWorld ==
  ASSUME Inv, OneMembership, SharedTypes, WorldInv, NEW r \in Ranks, Refuse(r), prog' = prog
  PROVE  WorldInv'
<1>0. BatchTypes /\ Refused(r) /\ pc[r] = "register" /\ OpenInv(r) /\ BatchInv(r)
  BY DEF Inv, TypeInv, Refuse, WorldInv, RankInv
<1>1. NextGens(r) = gens[r] /\ ~NextOpen(r) /\ gens' = gens
  BY <1>0, Zenon DEF NextGens, NextOpen, Refuse
<1>2. Everywhere(world, r) /\ Leave(r) /\ world' = world
  BY DEF Refuse, comm
<1>3. CASE held[r] # {}
  <2>1. Drop(r)
    BY <1>3 DEF Refuse
  <2>2. live'[r] = 0 /\ held'[r] = {} /\ sign'[r] = "none"
    BY <1>0, <2>1 DEF Drop, BatchTypes, SharedTypes
  <2>3. \A q \in Ranks \ {r} : SameRegistration(q)
    BY <1>0, <1>1, <2>1 DEF Drop, BatchTypes, SharedTypes, SameRegistration, SameGeneration
  <2>4. OpenInv(r)' /\ ~Open(r)'
    BY <2>2 DEF OpenInv, Open
  <2> QED
    BY <1>0, <1>1, <1>2, <2>3, <2>4, DecidingWorld
<1>4. CASE held[r] = {}
  <2>1. UNCHANGED <<live, joined, sign, held>>
    BY <1>4 DEF Refuse, batch
  <2>2. \A q \in Ranks : SameRegistration(q)
    BY <1>1, <2>1 DEF SameRegistration, SameGeneration
  <2>3. OpenInv(r)' /\ ~Open(r)'
    BY <1>0, <1>4, <2>1, <2>2, OpenKept, Zenon DEF OpenInv, Open
  <2> QED
    BY <1>0, <1>1, <1>2, <2>2, <2>3, DecidingWorld
<1> QED
  BY <1>3, <1>4

\* A rank finds that the layouts differ, as every rank will.
LEMMA MismatchWorld ==
  ASSUME Inv, OneMembership, SharedTypes, WorldInv, NEW r \in Ranks, Mismatch(r), prog' = prog
  PROVE  WorldInv'
<1>0. BatchTypes /\ ~Refused(r) /\ Differ(r) /\ pc[r] = "register"
  BY DEF Inv, TypeInv, Mismatch
<1>1. ~NextOpen(r) /\ gens'[r] = NextGens(r) /\ \A q \in Ranks \ {r} : gens'[q] = gens[q]
  BY <1>0 DEF NextGens, NextOpen, Mismatch, BatchTypes
<1>2. Everywhere(world, r) /\ Leave(r) /\ world' = world /\ Drop(r)
  BY DEF Mismatch, comm
<1>3. live'[r] = 0 /\ held'[r] = {} /\ sign'[r] = "none"
  BY <1>0, <1>2 DEF Drop, BatchTypes, SharedTypes
<1>4. \A q \in Ranks \ {r} : SameRegistration(q)
  BY <1>0, <1>1, <1>2 DEF Drop, BatchTypes, SharedTypes, SameRegistration, SameGeneration
<1>5. OpenInv(r)' /\ ~Open(r)'
  BY <1>3 DEF OpenInv, Open
<1> QED
  BY <1>0, <1>1, <1>2, <1>4, <1>5, DecidingWorld

\* A rank takes part in the registration, as every rank will.
LEMMA JoinWorld ==
  ASSUME Inv, OneMembership, SharedTypes, WorldInv, NEW r \in Ranks, Join(r), prog' = prog
  PROVE  WorldInv'
<1>0. BatchTypes /\ ~Refused(r) /\ ~Differ(r) /\ pc[r] = "register" /\ OpenInv(r)
      /\ BatchInv(r)
  BY DEF Inv, TypeInv, Join, WorldInv, RankInv
<1>1. gens'[r] = NextGens(r) /\ \A q \in Ranks \ {r} : gens'[q] = gens[q]
  BY <1>0 DEF NextGens, Join, BatchTypes
<1>2. Everywhere(world, r) /\ Leave(r) /\ world' = world
  BY DEF Join, comm
<1>3. cur[r].role \in Roles /\ cur[r] \in Of(r) /\ StepOf(cur[r]).op = "register"
  BY <1>0, ArgType
<1>4. joined[r] # Roles /\ cur[r].role \notin joined[r]
  BY <1>0, Missing
<1>5. /\ live'[r] = Generation(r) /\ joined'[r] = joined[r] \cup {cur[r].role}
      /\ sign'[r] = StepOf(cur[r]).arg
      /\ held'[r] = IF joined'[r] = Roles THEN {} ELSE held[r] \cup {cur[r]}
  BY <1>0 DEF Join, BatchTypes, SharedTypes
<1>6. \A q \in Ranks \ {r} : SameRegistration(q)
  BY <1>0, <1>1 DEF Join, BatchTypes, SharedTypes, SameRegistration, SameGeneration
<1>7. live'[r] # 0
  BY <1>0, <1>5 DEF Generation, NoBatch, BatchTypes
<1>8. joined'[r] # Roles <=> NoBatch(r)
  <2>1. NoBatch(r) => joined[r] = {}
    BY <1>0 DEF BatchInv, NoBatch
  <2>2. ~NoBatch(r) => joined[r] # {}
    BY <1>0 DEF OpenInv, NoBatch
  <2>3. joined[r] \in SUBSET Roles
    BY <1>0 DEF BatchTypes
  <2> QED
    BY <1>3, <1>4, <1>5, <2>1, <2>2, <2>3 DEF Roles
<1>9. Open(r)' <=> NextOpen(r)
  BY <1>0, <1>7, <1>8 DEF Open, NextOpen
<1>10. OpenInv(r)'
  <2>1. joined'[r] # {}
    BY <1>5
  <2>2. Open(r)' => held'[r] # {}
    BY <1>5 DEF Open
  <2>3. \A c \in held'[r] : c \in Of(r) /\ StepOf(c).op = "register"
    BY <1>0, <1>3, <1>5 DEF OpenInv
  <2> QED
    BY <1>7, <2>1, <2>2, <2>3, CallsKept, Zenon DEF OpenInv
<1> QED
  BY <1>0, <1>1, <1>2, <1>5, <1>6, <1>9, <1>10, DecidingWorld, Zenon

-----------------------------------------------------------------------------
(* All steps *)

\* The steps in which an agent stays in its loop and answers its command.
Aside(r) == RefuseTransfer(r) \/ Query(r) \/ IgnoreCleanup(r)

\* The steps of a transfer that has found its batch.
Handling(r) ==
  \/ WrongDirection(r) \/ PinTimeout(r) \/ Acknowledge(r) \/ Park(r) \/ NoBuckets(r)
  \/ Enter(r) \/ MixedRounds(r) \/ Begin(r) \/ Copy(r) \/ Publish(r) \/ Finish(r)

\* Clients change nothing but what is theirs.
LEMMA ClientFrame ==
  ASSUME NEW r \in Ranks, NEW x \in Roles, Client(r, x) \/ GiveUp(r, x)
  PROVE  UNCHANGED <<result, pc, cur, gens, live, joined, sign, held, dirn, done,
                     parked, pin, signal, request, world, group, copied>>
BY DEF Client, Send, Skip, Return, GiveUp, batch, store, comm

\* Answers on the side leave the batch and the collectives alone.
LEMMA AsideFrame ==
  ASSUME NEW r \in Ranks, Aside(r)
  PROVE  UNCHANGED <<at, waiting, handler, stamp, result, pc, cur, gens, live, joined,
                     sign, held, dirn, done, parked, pin, signal, request, world,
                     group, copied>>
BY DEF Aside, RefuseTransfer, Query, IgnoreCleanup, TakeOnly, clients, batch, store, comm

\* A transfer leaves the registration alone.
LEMMA HandlingFrame ==
  ASSUME Inv, NEW r \in Ranks, Handling(r)
  PROVE  /\ UNCHANGED <<at, waiting, handler, stamp, inbox, result, gens, live, joined,
                        sign, held, pin, world>>
         /\ pc[r] \in Executing \cup {"pin"} /\ pc'[r] # "register"
         /\ \A q \in Ranks \ {r} : SamePlace(q)
<1>0. BatchTypes
  BY DEF Inv, TypeInv
<1>1. CASE WrongDirection(r) \/ Acknowledge(r) \/ Park(r) \/ NoBuckets(r)
  <2>1. pc[r] = "pin" /\ Leave(r)
    BY <1>1 DEF WrongDirection, Acknowledge, Park, NoBuckets, InDirection, Directed,
                FailRound
  <2>2. UNCHANGED <<at, waiting, handler, stamp, inbox, result, gens, live, joined,
                    sign, held, pin, world>>
    BY <1>1 DEF WrongDirection, Acknowledge, Park, NoBuckets, clients, store, comm
  <2> QED
    BY <1>0, <2>1, <2>2, LeaveType DEF SamePlace
<1>2. CASE MixedRounds(r) \/ Finish(r)
  <2>1. pc[r] \in Executing /\ Leave(r)
    BY <1>2 DEF MixedRounds, Finish, FailRound, Executing
  <2>2. UNCHANGED <<at, waiting, handler, stamp, inbox, result, gens, live, joined,
                    sign, held, pin, world>>
    BY <1>2 DEF MixedRounds, Finish, clients, store, comm
  <2> QED
    BY <1>0, <2>1, <2>2, LeaveType DEF SamePlace
<1>3. CASE PinTimeout(r)
  <2>1. pc[r] = "pin" /\ Goto(r, "dead") /\ cur' = cur
    BY <1>3 DEF PinTimeout
  <2>2. UNCHANGED <<at, waiting, handler, stamp, inbox, result, gens, live, joined,
                    sign, held, pin, world>>
    BY <1>3, Zenon DEF PinTimeout, clients, batch, store, comm
  <2> QED
    BY <1>0, <2>1, <2>2 DEF Goto, SamePlace, BatchTypes
<1>4. CASE Enter(r) \/ Begin(r) \/ Copy(r) \/ Publish(r)
  <2>1. pc[r] \in Executing \cup {"pin"} /\ cur' = cur
    BY <1>4 DEF Enter, Begin, Copy, Publish, Pass, InDirection, Directed, Executing
  <2>2. \E l \in Executing : Goto(r, l)
    BY <1>4 DEF Enter, Begin, Copy, Publish, Pass, Executing
  <2>3. pc'[r] \in Executing /\ \A q \in Ranks \ {r} : pc'[q] = pc[q]
    BY <1>0, <2>2 DEF Goto, BatchTypes
  <2>4. UNCHANGED <<at, waiting, handler, stamp, inbox, result, gens, live, joined,
                    sign, held, pin, world>>
    BY <1>4 DEF Enter, Begin, Copy, Publish, clients, batch, store
  <2> QED
    BY <2>1, <2>3, <2>4 DEF SamePlace, Executing
<1> QED
  BY <1>1, <1>2, <1>3, <1>4, Zenon DEF Handling

\* Every step is one of these.
LEMMA StepKinds ==
  ASSUME [Next]_vars
  PROVE  \/ UNCHANGED vars
         \/ /\ prog' = prog
            /\ \E r \in Ranks :
                 \/ \E x \in Roles : Client(r, x) \/ GiveUp(r, x)
                 \/ Aside(r) \/ Registration(r) \/ TakeTransfer(r) \/ Handling(r)
                 \/ Cleanup(r)
<1>1. CASE \E r \in Ranks, x \in Roles : Client(r, x)
  BY <1>1 DEF Client
<1>2. CASE \E r \in Ranks : Agent(r)
  BY <1>2 DEF Agent, Transfer, Aside, Handling
<1>3. CASE \E r \in Ranks : DequeueTimeout(r)
  BY <1>3 DEF DequeueTimeout
<1>4. CASE Expiry
  BY <1>4 DEF Expiry, Handling
<1> QED
  BY <1>1, <1>2, <1>3, <1>4 DEF Next

\* A transfer is taken from the queue.
LEMMA TakeTransferFrame ==
  ASSUME Inv, NEW r \in Ranks, TakeTransfer(r)
  PROVE  /\ UNCHANGED <<at, waiting, handler, stamp, reply, result, gens, live, joined,
                        sign, held, dirn, done, parked, signal, request, world, group,
                        copied>>
         /\ pc[r] = "dequeue" /\ pc'[r] = "pin"
         /\ \A q \in Ranks \ {r} : SamePlace(q)
<1>0. BatchTypes /\ pc[r] = "dequeue" /\ TakeTo(r, "pin")
  BY DEF Inv, TypeInv, TakeTransfer, TakeTo, Take
<1>1. pc'[r] = "pin" /\ \A q \in Ranks \ {r} : SamePlace(q)
  BY <1>0 DEF TakeTo, Goto, SamePlace, BatchTypes
<1> QED
  BY <1>0, <1>1 DEF TakeTransfer, clients, batch, comm

\* Every step keeps the ranks in step with their registrations.
LEMMA WorldNext ==
  ASSUME Inv, OneMembership, SharedTypes, WorldInv, [Next]_vars
  PROVE  WorldInv'
<1>0. \A q \in Ranks : OpenInv(q)
  BY Zenon DEF WorldInv
<1>1. CASE UNCHANGED vars
  <2>1. UNCHANGED <<prog, pc, cur, gens, live, joined, sign, held, world>>
    BY <1>1 DEF vars, batch, comm
  <2>2. \A q \in Ranks : SameRegistration(q) /\ SamePlace(q) /\ world'[q] = world[q]
    BY <2>1 DEF SameRegistration, SameGeneration, SamePlace
  <2> QED
    BY <1>0, <2>1, <2>2, SteadyKept, QuietWorld, Zenon
<1>2. ASSUME prog' = prog, NEW r \in Ranks,
             \/ \E x \in Roles : Client(r, x) \/ GiveUp(r, x)
             \/ Aside(r)
      PROVE  WorldInv'
  <2>1. UNCHANGED <<pc, cur, gens, live, joined, sign, held, world>>
    BY <1>2, ClientFrame, AsideFrame
  <2>2. \A q \in Ranks : SamePlace(q)
    BY <2>1 DEF SamePlace
  <2> QED
    BY <1>2, <2>1, <2>2, QuietStep
<1>3. ASSUME prog' = prog, NEW r \in Ranks, TakeTransfer(r) PROVE WorldInv'
  BY <1>3, TakeTransferFrame, QuietStep
<1>4. ASSUME prog' = prog, NEW r \in Ranks, Handling(r) PROVE WorldInv'
  BY <1>4, HandlingFrame, QuietStep DEF Executing
<1>5. ASSUME prog' = prog, NEW r \in Ranks, Registration(r) PROVE WorldInv'
  BY <1>5, TakeRegisterWorld, RefuseWorld, MismatchWorld, JoinWorld DEF Registration
<1>6. ASSUME prog' = prog, NEW r \in Ranks, Cleanup(r) PROVE WorldInv'
  BY <1>6, CleanupWorld
<1> QED
  BY <1>1, <1>2, <1>3, <1>4, <1>5, <1>6, StepKinds

-----------------------------------------------------------------------------
(* The batch group *)

\* The last collective of a rank, and how many of them it has left behind.
Last(r) == group[r][Len(group[r])]
Passed(r) == IF pc[r] \in Executing THEN Len(group[r]) - 1 ELSE Len(group[r])

\* The k-th collective found the ranks in different rounds.
Apart(k) == \E p, q \in Ranks : group[p][k].round # group[q][k].round

\* Two ranks at the same collective; the gather may be of different rounds.
Alike(e, f) == e.op = f.op /\ (e.op # "gather" => e.round = f.round)

\* What comes after a collective of rank r.
Successor(op, apart) ==
  CASE op = "gather" -> IF apart THEN "gather" ELSE "start"
    [] op = "start" -> "copied"
    [] op = "copied" -> "published"
    [] op = "published" -> "gather"

Follows(e, r) ==
  IF Len(group[r]) = 0 THEN e.op = "gather"
  ELSE /\ e.op = Successor(Last(r).op, Apart(Len(group[r])))
       /\ e.op # "gather" => e.round = Last(r).round

\* A rank that executes no round is done with the last one it was in.
Ended(r) ==
  Len(group[r]) > 0 =>
    \/ Last(r).op = "published"
    \/ Last(r).op = "gather" /\ Apart(Len(group[r]))

PlaceInv(r) ==
  IF pc[r] \in Executing
  THEN Len(group[r]) > 0 /\ Last(r) = [op |-> pc[r], round |-> Round(cur[r])]
  ELSE Ended(r)

GroupInv ==
  /\ \A r \in Ranks : PlaceInv(r)
  /\ \A q, r \in Ranks : Passed(q) <= Len(group[r])
  /\ \A q, r \in Ranks :
       Len(group[q]) = Len(group[r]) /\ Len(group[r]) > 0 => Alike(Last(q), Last(r))
  /\ \A q, r \in Ranks :
       Len(group[q]) = Len(group[r]) + 1 => Follows(Last(q), r)

\* The types of the collectives.
LEMMA GroupLength ==
  ASSUME SharedTypes, GroupInv, NEW r \in Ranks
  PROVE  /\ group[r] \in Seq(Turn) /\ Len(group[r]) \in Nat /\ Passed(r) \in Nat
         /\ pc[r] \in Executing => Passed(r) = Len(group[r]) - 1
         /\ pc[r] \notin Executing => Passed(r) = Len(group[r])
         /\ Len(group[r]) > 0 => Last(r) \in Turn /\ Last(r).op \in Executing
<1>1. group[r] \in Seq(Turn)
  BY Zenon DEF SharedTypes
<1>2. Len(group[r]) \in Nat
  BY <1>1
<1>3. Len(group[r]) > 0 => Last(r) \in Turn
  BY <1>1 DEF Last
<1>4. pc[r] \in Executing => Len(group[r]) > 0
  BY Zenon DEF GroupInv, PlaceInv
<1>5. \A e \in Turn : e.op \in Executing
  BY DEF Turn
<1> QED
  BY <1>1, <1>2, <1>3, <1>4, <1>5 DEF Passed

\* What is appended to the collectives of a rank.
LEMMA CollectiveFacts ==
  ASSUME SharedTypes, NEW r \in Ranks, NEW op \in Executing, NEW n \in Rounds,
         Collective(r, op, n)
  PROVE  /\ group' \in [Ranks -> Seq(Turn)]
         /\ Len(group[r])' = Len(group[r]) + 1 /\ Last(r)' = [op |-> op, round |-> n]
         /\ \A k \in 1..Len(group[r]) : group'[r][k] = group[r][k]
         /\ \A q \in Ranks \ {r} : group'[q] = group[q] /\ Last(q)' = Last(q)
<1>0. group \in [Ranks -> Seq(Turn)] /\ group[r] \in Seq(Turn)
  BY Zenon DEF SharedTypes
<1> PICK e : e = [op |-> op, round |-> n]
  BY Zenon
<1>1. e \in Turn
  BY DEF Turn
<1>2. group' = [group EXCEPT ![r] = Append(@, e)]
  BY DEF Collective
<1>3. /\ group'[r] = Append(group[r], e)
      /\ \A q \in Ranks \ {r} : group'[q] = group[q]
  BY <1>0, <1>2, Zenon
<1>4. /\ Append(group[r], e) \in Seq(Turn) /\ Len(group[r]) \in Nat
      /\ Len(group'[r]) = Len(group[r]) + 1 /\ group'[r][Len(group[r]) + 1] = e
      /\ \A k \in 1..Len(group[r]) : group'[r][k] = group[r][k]
  BY <1>0, <1>1, <1>3
<1>5. group' \in [Ranks -> Seq(Turn)]
  BY <1>0, <1>2, <1>4
<1> QED
  BY <1>3, <1>4, <1>5 DEF Last

\* The state that is not about one batch.
LEMMA SharedNext ==
  ASSUME Inv, SharedTypes, [Next]_vars
  PROVE  SharedTypes'
<1>0. BatchTypes /\ sign \in [Ranks -> Layouts \cup {"none"}]
      /\ signal \in Rounds \cup {-1}
  BY DEF Inv, TypeInv, SharedTypes
<1>1. CASE UNCHANGED vars
  BY <1>1 DEF SharedTypes, vars, batch, store, comm
<1>2. ASSUME NEW r \in Ranks,
             \/ \E x \in Roles : Client(r, x) \/ GiveUp(r, x)
             \/ Aside(r) \/ TakeTransfer(r)
      PROVE  SharedTypes'
  <2>1. UNCHANGED <<sign, signal, group>>
    BY <1>2, ClientFrame, AsideFrame, TakeTransferFrame
  <2> QED
    BY <2>1 DEF SharedTypes
<1>3. ASSUME NEW r \in Ranks, Registration(r) PROVE SharedTypes'
  <2>1. UNCHANGED <<group, signal>>
    BY <1>3 DEF Registration, TakeRegister, Refuse, Mismatch, Join, comm, store
  <2>2. sign' \in [Ranks -> Layouts \cup {"none"}]
    <3>1. CASE TakeRegister(r) \/ Refuse(r) \/ Mismatch(r)
      BY <1>0, <3>1, Zenon DEF TakeRegister, Refuse, Mismatch, Drop, batch
    <3>2. CASE Join(r)
      <4>1. StepOf(cur[r]).arg \in Layouts
        BY <3>2, ArgType DEF Join
      <4> QED
        BY <1>0, <3>2, <4>1 DEF Join
    <3> QED
      BY <1>3, <3>1, <3>2 DEF Registration
  <2> QED
    BY <2>1, <2>2 DEF SharedTypes
<1>4. ASSUME NEW r \in Ranks, Cleanup(r) PROVE SharedTypes'
  <2>1. UNCHANGED group /\ Drop(r) /\ signal' \in {signal, -1}
    BY <1>4 DEF Cleanup, Reset, comm
  <2> QED
    BY <1>0, <2>1 DEF Drop, SharedTypes
<1>5. ASSUME NEW r \in Ranks, Handling(r) PROVE SharedTypes'
  <2>0. pc[r] \in Executing \cup {"pin"} /\ sign' = sign /\ Round(cur[r]) \in Rounds
    BY <1>5, HandlingFrame, TransferFacts
  <2>1. signal' \in {signal, Round(cur[r])}
    BY <1>5, Zenon DEF Handling, WrongDirection, PinTimeout, Acknowledge, Park, NoBuckets, Enter,
                MixedRounds, Begin, Copy, Publish, Finish, store
  <2>2. group' = group \/ \E op \in Executing : Collective(r, op, Round(cur[r]))
    BY <1>5, Zenon DEF Handling, WrongDirection, PinTimeout, Acknowledge, Park, NoBuckets, Enter,
                MixedRounds, Begin, Copy, Publish, Finish, Pass, Executing, comm
  <2>3. group' \in [Ranks -> Seq(Turn)]
    BY <2>0, <2>2, CollectiveFacts DEF SharedTypes
  <2> QED
    BY <1>0, <2>0, <2>1, <2>3 DEF SharedTypes
<1> QED
  BY <1>1, <1>2, <1>3, <1>4, <1>5, StepKinds

\* A step in which no rank comes to a collective of the batch group or leaves one.
LEMMA QuietGroup ==
  ASSUME GroupInv, prog' = prog, group' = group,
         \A q \in Ranks : \/ SamePlace(q)
                          \/ pc[q] \notin Executing /\ pc'[q] \notin Executing
  PROVE  GroupInv'
<1>1. \A q \in Ranks : pc'[q] \in Executing <=> pc[q] \in Executing
  BY DEF SamePlace
<1>2. \A q \in Ranks : Passed(q)' = Passed(q)
  BY <1>1, Zenon DEF Passed
<1>3. \A k : Apart(k)' <=> Apart(k)
  BY Zenon DEF Apart
<1>4. \A q : Last(q)' = Last(q)
  BY DEF Last
<1>5. \A e, q : Follows(e, q)' <=> Follows(e, q)
  BY <1>3, <1>4, Zenon DEF Follows, Successor
<1>6. ASSUME NEW q \in Ranks PROVE PlaceInv(q)'
  <2>1. PlaceInv(q)
    BY Zenon DEF GroupInv
  <2>2. CASE SamePlace(q)
    BY <1>3, <1>4, <2>1, <2>2, CallsKept, Zenon DEF PlaceInv, Ended, SamePlace
  <2>3. CASE pc[q] \notin Executing /\ pc'[q] \notin Executing
    BY <1>3, <1>4, <2>1, <2>3, Zenon DEF PlaceInv, Ended
  <2> QED
    BY <2>2, <2>3
<1> QED
  BY <1>2, <1>4, <1>5, <1>6, Zenon DEF GroupInv

\* A rank leaves the last collective of its round, which all ranks came to.
LEMMA LeaveGroup ==
  ASSUME Inv, SharedTypes, GroupInv, prog' = prog, group' = group, NEW r \in Ranks,
         pc[r] \in Executing, Everywhere(group, r), Leave(r), Ended(r)
  PROVE  GroupInv'
<1>0. BatchTypes
  BY DEF Inv, TypeInv
<1>1. pc'[r] = "dequeue" /\ \A q \in Ranks \ {r} : SamePlace(q)
  BY <1>0, LeaveType DEF SamePlace
<1>3. \A k : Apart(k)' <=> Apart(k)
  BY Zenon DEF Apart
<1>4. \A q : Last(q)' = Last(q)
  BY DEF Last
<1>5. \A e, q : Follows(e, q)' <=> Follows(e, q)
  BY <1>3, <1>4, Zenon DEF Follows, Successor
<1>6. ASSUME NEW q \in Ranks PROVE PlaceInv(q)'
  <2>1. PlaceInv(q)
    BY Zenon DEF GroupInv
  <2>2. CASE q # r
    BY <1>1, <1>3, <1>4, <2>1, <2>2, CallsKept, Zenon DEF PlaceInv, Ended, SamePlace
  <2>3. CASE q = r
    BY <1>1, <1>3, <1>4, <2>3, Zenon DEF PlaceInv, Ended, Executing
  <2> QED
    BY <2>2, <2>3
<1>7. \A q, p \in Ranks : Passed(q)' <= Len(group[p])'
  <2>1. ASSUME NEW p \in Ranks PROVE Passed(r)' <= Len(group[p])'
    <3>1. Passed(r)' = Len(group[r])
      BY <1>1 DEF Passed, Executing
    <3> QED
      BY <3>1, GroupLength DEF Everywhere
  <2>2. \A q \in Ranks \ {r} : Passed(q)' = Passed(q)
    BY <1>1 DEF Passed, SamePlace
  <2> QED
    BY <2>1, <2>2 DEF GroupInv
<1> QED
  BY <1>4, <1>5, <1>6, <1>7, Zenon DEF GroupInv

\* What follows a collective of rank r is the same for all that are there.
LEMMA FollowsAlike ==
  ASSUME SharedTypes, GroupInv, NEW r \in Ranks, NEW q \in Ranks,
         Len(group[q]) = Len(group[r]), NEW e, Follows(e, r)
  PROVE  Follows(e, q)
<1>1. CASE Len(group[r]) = 0
  BY <1>1 DEF Follows
<1>2. CASE Len(group[r]) # 0
  <2>1. Len(group[r]) > 0
    BY <1>2, GroupLength
  <2>2. Alike(Last(q), Last(r))
    BY <2>1, Zenon DEF GroupInv
  <2>3. e.op = Successor(Last(q).op, Apart(Len(group[q])))
    BY <1>2, <2>2, Zenon DEF Follows, Alike
  <2>4. ASSUME e.op # "gather" PROVE e.round = Last(q).round
    <3>1. e.round = Last(r).round
      BY <1>2, <2>4 DEF Follows
    <3>2. CASE Last(r).op # "gather"
      BY <2>2, <3>1, <3>2 DEF Alike
    <3>3. CASE Last(r).op = "gather"
      <4>1. ~Apart(Len(group[r]))
        BY <1>2, <2>4, <3>3 DEF Follows, Successor
      <4> QED
        BY <3>1, <4>1, Zenon DEF Apart, Last
    <3> QED
      BY <3>2, <3>3
  <2> QED
    BY <1>2, <2>3, <2>4 DEF Follows
<1> QED
  BY <1>1, <1>2

\* Two collectives that follow the same one.
LEMMA FollowersAlike ==
  ASSUME NEW r \in Ranks, NEW e, NEW f, Follows(e, r), Follows(f, r)
  PROVE  Alike(e, f)
<1>1. CASE Len(group[r]) = 0
  <2>1. e.op = "gather" /\ f.op = "gather"
    BY <1>1, Zenon DEF Follows
  <2> QED
    BY <2>1, Zenon DEF Alike
<1>2. CASE Len(group[r]) # 0
  <2>1. e.op = f.op /\ (e.op # "gather" => e.round = Last(r).round /\ f.round = Last(r).round)
    BY <1>2, Zenon DEF Follows
  <2> QED
    BY <2>1, Zenon DEF Alike
<1> QED
  BY <1>1, <1>2, Zenon

\* A rank comes to the collective that follows its last one.
LEMMA CollectiveGroup ==
  ASSUME Inv, SharedTypes, GroupInv, prog' = prog, NEW r \in Ranks,
         NEW op \in Executing, NEW n \in Rounds, Collective(r, op, n),
         pc'[r] = op, Round(cur[r])' = n, \A q \in Ranks \ {r} : SamePlace(q),
         Everywhere(group, r), Follows([op |-> op, round |-> n], r)
  PROVE  GroupInv'
<1> PICK e : e = [op |-> op, round |-> n]
  BY Zenon
<1>1. /\ Len(group[r])' = Len(group[r]) + 1 /\ Last(r)' = e
      /\ \A k \in 1..Len(group[r]) : group'[r][k] = group[r][k]
      /\ \A q \in Ranks \ {r} : group'[q] = group[q] /\ Last(q)' = Last(q)
  BY CollectiveFacts, Zenon
<1>2. /\ \A q \in Ranks : Len(group[q]) \in Nat /\ Passed(q) \in Nat
      /\ \A q \in Ranks : Len(group[q]) <= Passed(q) + 1 /\ Passed(q) <= Len(group[q])
      /\ \A q \in Ranks : pc[q] \notin Executing => Passed(q) = Len(group[q])
  BY GroupLength
<1>3. \A q \in Ranks : Passed(q) <= Len(group[r]) /\ Len(group[q]) >= Len(group[r])
  BY Zenon DEF GroupInv, Everywhere
<1>4. \A k \in 1..Len(group[r]) : Apart(k)' <=> Apart(k)
  <2> SUFFICES ASSUME NEW k \in 1..Len(group[r]) PROVE Apart(k)' <=> Apart(k)
    BY Zenon
  <2>1. \A q \in Ranks : group'[q][k] = group[q][k]
    BY <1>1
  <2> QED
    BY <2>1, Zenon DEF Apart
<1>5. ASSUME NEW q \in Ranks \ {r}, Len(group[q]) <= Len(group[r])
      PROVE  /\ \A f : Follows(f, q) => Follows(f, q)'
             /\ Ended(q) => Ended(q)'
  <2>1. Len(group[q])' = Len(group[q]) /\ Last(q)' = Last(q)
    BY <1>1
  <2>2. CASE Len(group[q]) = 0
    <3>1. ~(Len(group[q])' > 0) /\ Len(group[q])' = 0
      BY <2>1, <2>2
    <3> QED
      BY <2>2, <3>1, Zenon DEF Follows, Ended
  <2>3. CASE Len(group[q]) # 0
    <3>1. Len(group[q]) \in 1..Len(group[r])
      <4>1. Len(group[q]) \in Nat /\ Len(group[r]) \in Nat
        BY <1>2, Zenon
      <4> QED
        BY <1>5, <2>3, <4>1
    <3>2. Apart(Len(group[q]))' <=> Apart(Len(group[q]))
      BY <1>4, <2>1, <3>1, Zenon
    <3> QED
      BY <2>1, <2>3, <3>2, Zenon DEF Follows, Ended, Successor
  <2> QED
    BY <2>2, <2>3, Zenon
<1>6. ASSUME NEW q \in Ranks PROVE PlaceInv(q)'
  <2>1. CASE q = r
    <3>1. Len(group[r])' > 0
      <4>1. Len(group[r]) \in Nat /\ Len(group[r])' = Len(group[r]) + 1
        BY <1>1, <1>2, Zenon
      <4> QED
        BY <4>1
    <3>2. pc'[r] \in Executing /\ Last(r)' = [op |-> pc'[r], round |-> Round(cur[r])']
      BY <1>1, Zenon
    <3> QED
      BY <2>1, <3>1, <3>2, Zenon DEF PlaceInv
  <2>2. CASE q # r /\ pc[q] \in Executing
    <3>1. PlaceInv(q)
      BY Zenon DEF GroupInv
    <3> QED
      BY <1>1, <2>2, <3>1, CallsKept, Zenon DEF PlaceInv, SamePlace
  <2>3. CASE q # r /\ pc[q] \notin Executing
    <3>1. Ended(q)
      BY <2>3, Zenon DEF GroupInv, PlaceInv
    <3>2. Len(group[q]) <= Len(group[r])
      BY <1>2, <1>3, <2>3
    <3>3. Ended(q)'
      BY <1>5, <2>3, <3>1, <3>2, Zenon
    <3> QED
      BY <2>3, <3>3, Zenon DEF PlaceInv, SamePlace
  <2> QED
    BY <2>1, <2>2, <2>3, Zenon
<1>7. \A q, p \in Ranks : Passed(q)' <= Len(group[p])'
  <2>1. \A q \in Ranks \ {r} : Passed(q)' = Passed(q)
    BY <1>1 DEF Passed, SamePlace
  <2>2. Passed(r)' = Len(group[r])
    <3>1. pc'[r] \in Executing
      OBVIOUS
    <3>2. Passed(r)' = Len(group[r])' - 1
      BY <3>1, Zenon DEF Passed
    <3>3. Len(group[r])' = Len(group[r]) + 1 /\ Len(group[r]) \in Nat
      BY <1>1, <1>2, Zenon
    <3> QED
      BY <3>2, <3>3
  <2>3. \A p \in Ranks : Len(group[p]) <= Len(group[p])'
    <3>1. \A p \in Ranks \ {r} : Len(group[p])' = Len(group[p])
      BY <1>1, Zenon
    <3>2. Len(group[r])' = Len(group[r]) + 1 /\ \A p \in Ranks : Len(group[p]) \in Nat
      BY <1>1, <1>2, Zenon
    <3> QED
      BY <3>1, <3>2
  <2>4. \A q, p \in Ranks : Passed(q)' \in Nat /\ Passed(q)' <= Len(group[p])
    BY <1>2, <1>3, <2>1, <2>2, Zenon DEF GroupInv
  <2>5. \A p \in Ranks : Len(group[p])' \in Nat
    <3>1. /\ \A p \in Ranks \ {r} : Len(group[p])' = Len(group[p])
          /\ Len(group[r])' = Len(group[r]) + 1 /\ \A p \in Ranks : Len(group[p]) \in Nat
      BY <1>1, <1>2, Zenon
    <3> QED
      BY <3>1
  <2>6. \A p \in Ranks : Len(group[p]) \in Nat
    BY <1>2, Zenon
  <2> QED
    BY <2>3, <2>4, <2>5, <2>6
<1>8. \A q \in Ranks \ {r} : Len(group[q]) \in {Len(group[r]), Len(group[r]) + 1}
  <2> SUFFICES ASSUME NEW q \in Ranks \ {r}
               PROVE  Len(group[q]) \in {Len(group[r]), Len(group[r]) + 1}
    BY Zenon
  <2>1. /\ Len(group[q]) \in Nat /\ Len(group[r]) \in Nat /\ Passed(q) \in Nat
        /\ Len(group[q]) <= Passed(q) + 1 /\ Passed(q) <= Len(group[r]) /\ Len(group[q]) >= Len(group[r])
    BY <1>2, <1>3, Zenon
  <2> QED
    BY <2>1
<1>9. ASSUME NEW q \in Ranks \ {r}, Len(group[q]) = Len(group[r]) + 1
      PROVE  Alike(Last(q), e) /\ Alike(e, Last(q))
  <2>1. Follows(Last(q), r)
    BY <1>9, Zenon DEF GroupInv
  <2> QED
    BY <2>1, FollowersAlike, Zenon
<1>10. ASSUME NEW q \in Ranks, NEW p \in Ranks,
              Len(group[q])' = Len(group[p])', Len(group[p])' > 0
       PROVE  Alike(Last(q), Last(p))'
  <2>1. CASE q # r /\ p # r
    <3>1. Alike(Last(q), Last(p))
      BY <1>1, <1>10, <2>1, Zenon DEF GroupInv
    <3> QED
      BY <1>1, <2>1, <3>1, Zenon
  <2>2. CASE q = r /\ p # r
    BY <1>1, <1>9, <1>10, <2>2, Zenon
  <2>3. CASE q # r /\ p = r
    BY <1>1, <1>9, <1>10, <2>3, Zenon
  <2>4. CASE q = r /\ p = r
    BY <2>4 DEF Alike
  <2> QED
    BY <2>1, <2>2, <2>3, <2>4, Zenon
<1>11. ASSUME NEW q \in Ranks, NEW p \in Ranks, Len(group[q])' = Len(group[p])' + 1
       PROVE  Follows(Last(q), p)'
  <2>1. p # r /\ Len(group[p])' = Len(group[p]) /\ Len(group[p]) <= Len(group[r])
    <3>0. Len(group[r]) \in Nat /\ Len(group[q])' <= Len(group[r]) + 1
      <4>1. CASE q = r
        <5>1. Len(group[r]) \in Nat /\ Len(group[q])' = Len(group[r]) + 1
          BY <1>1, <1>2, <4>1, Zenon
        <5> QED
          BY <5>1
      <4>2. CASE q # r
        <5>1. Len(group[q])' = Len(group[q])
          BY <1>1, <4>2
        <5>2. Len(group[q]) \in {Len(group[r]), Len(group[r]) + 1}
          BY <1>8, <4>2
        <5>3. Len(group[r]) \in Nat
          BY <1>2, Zenon
        <5> QED
          BY <5>1, <5>2, <5>3
      <4> QED
        BY <4>1, <4>2
    <3>1. p # r
      BY <1>1, <1>11, <3>0, SMTT(20)
    <3>2. Len(group[p])' = Len(group[p]) /\ Len(group[p]) \in {Len(group[r]), Len(group[r]) + 1}
      BY <1>1, <1>8, <3>1
    <3>3. Len(group[q])' \in {Len(group[r]), Len(group[r]) + 1}
      BY <1>1, <1>8
    <3> QED
      BY <1>2, <1>11, <3>1, <3>2, <3>3
  <2> PICK f : f = Last(q)'
    BY Zenon
  <2>2. Follows(f, p)
    <3>1. CASE q # r
      BY <1>1, <1>11, <2>1, <3>1, Zenon DEF GroupInv
    <3>2. CASE q = r
      <4>1. Len(group[p]) = Len(group[r])
        BY <1>1, <1>2, <1>11, <2>1, <3>2
      <4> QED
        BY <1>1, <3>2, <4>1, FollowsAlike
    <3> QED
      BY <3>1, <3>2, Zenon
  <2>3. Follows(f, p)'
    BY <1>5, <2>1, <2>2, Zenon
  <2> QED
    BY <2>3
<1> QED
  BY <1>6, <1>7, <1>10, <1>11, Zenon DEF GroupInv

\* A rank that comes to its next collective.
LEMMA PassGroup ==
  ASSUME Inv, SharedTypes, GroupInv, prog' = prog, NEW r \in Ranks,
         NEW from \in Executing, NEW to \in Executing, Pass(r, from, to), cur' = cur,
         Follows([op |-> to, round |-> Round(cur[r])], r)
  PROVE  GroupInv'
<1>0. BatchTypes /\ pc[r] \in Executing \cup {"pin"}
  BY DEF Inv, TypeInv, Pass
<1>1. Round(cur[r]) \in Rounds /\ Round(cur[r])' = Round(cur[r])
  BY <1>0, TransferFacts, CallsKept, Zenon
<1>2. pc'[r] = to /\ \A q \in Ranks \ {r} : SamePlace(q)
  BY <1>0 DEF Pass, Goto, SamePlace, BatchTypes
<1>3. Collective(r, to, Round(cur[r])) /\ Everywhere(group, r)
  BY DEF Pass
<1> QED
  BY <1>1, <1>2, <1>3, CollectiveGroup, Zenon

\* Every step keeps the ranks in step with the collectives of the batch group.
LEMMA GroupNext ==
  ASSUME Inv, SharedTypes, GroupInv, [Next]_vars
  PROVE  GroupInv'
<1>0. BatchTypes
  BY DEF Inv, TypeInv
<1>1. CASE UNCHANGED vars
  <2>1. UNCHANGED <<prog, pc, cur, group>>
    BY <1>1 DEF vars, comm
  <2> QED
    BY <2>1, QuietGroup DEF SamePlace
<1>2. ASSUME prog' = prog, NEW r \in Ranks,
             \/ \E x \in Roles : Client(r, x) \/ GiveUp(r, x)
             \/ Aside(r) \/ Cleanup(r)
      PROVE  GroupInv'
  <2>1. UNCHANGED <<pc, cur, group>>
    BY <1>2, ClientFrame, AsideFrame DEF Cleanup, TakeOnly, comm
  <2> QED
    BY <1>2, <2>1, QuietGroup DEF SamePlace
<1>3. ASSUME prog' = prog, NEW r \in Ranks, TakeTransfer(r) \/ Registration(r)
      PROVE  GroupInv'
  <2>1. group' = group
    BY <1>3, TakeTransferFrame
       DEF Registration, TakeRegister, Refuse, Mismatch, Join, comm
  <2>2. /\ pc[r] \notin Executing /\ pc'[r] \notin Executing
        /\ \A q \in Ranks \ {r} : SamePlace(q)
    <3>1. CASE TakeTransfer(r)
      BY <3>1, TakeTransferFrame DEF Executing
    <3>2. CASE TakeRegister(r)
      BY <1>0, <3>2 DEF TakeRegister, TakeTo, Take, Goto, BatchTypes, SamePlace, Executing
    <3>3. CASE Refuse(r) \/ Mismatch(r) \/ Join(r)
      <4>1. pc[r] = "register" /\ Leave(r)
        BY <3>3 DEF Refuse, Mismatch, Join
      <4> QED
        BY <1>0, <4>1, LeaveType DEF SamePlace, Executing
    <3> QED
      BY <1>3, <3>1, <3>2, <3>3 DEF Registration
  <2> QED
    BY <1>3, <2>1, <2>2, QuietGroup
<1>4. ASSUME prog' = prog, NEW r \in Ranks, Handling(r) PROVE GroupInv'
  <2>0. /\ pc[r] \in Executing \cup {"pin"} /\ \A q \in Ranks \ {r} : SamePlace(q)
        /\ PlaceInv(r) /\ Round(cur[r]) \in Rounds
    BY <1>4, HandlingFrame, TransferFacts, Zenon DEF GroupInv
  <2>1. CASE WrongDirection(r) \/ PinTimeout(r) \/ Acknowledge(r) \/ Park(r) \/ NoBuckets(r)
    <3>1. group' = group /\ pc[r] = "pin"
      BY <2>1 DEF WrongDirection, PinTimeout, Acknowledge, Park, NoBuckets, InDirection,
                  Directed, comm
    <3>2. pc'[r] \in {"dequeue", "dead"}
      BY <1>0, <2>1 DEF WrongDirection, PinTimeout, Acknowledge, Park, NoBuckets, FailRound,
                        Leave, Goto, BatchTypes
    <3> QED
      BY <1>4, <2>0, <3>1, <3>2, QuietGroup DEF Executing
  <2>2. CASE Enter(r)
    <3>1. pc[r] = "pin" /\ pc'[r] = "gather" /\ cur' = cur
      BY <1>0, <2>2 DEF Enter, InDirection, Directed, Goto, BatchTypes
    <3>2. Collective(r, "gather", Round(cur[r]))
      BY <2>2 DEF Enter
    <3>3. Ended(r)
      BY <2>0, <3>1, Zenon DEF PlaceInv, Executing
    <3>4. Follows([op |-> "gather", round |-> Round(cur[r])], r)
      <4>1. Len(group[r]) \in Nat
        BY GroupLength
      <4> QED
        BY <3>3, <4>1 DEF Follows, Ended, Successor
    <3>5. Everywhere(group, r)
      <4>1. Passed(r) = Len(group[r])
        BY <3>1, GroupLength DEF Executing
      <4>2. \A q \in Ranks : Len(group[r]) <= Len(group[q])
        BY <4>1, Zenon DEF GroupInv
      <4>3. \A q \in Ranks : Len(group[q]) \in Nat
        BY GroupLength
      <4> QED
        BY <4>2, <4>3 DEF Everywhere
    <3>6. Round(cur[r])' = Round(cur[r]) /\ "gather" \in Executing
      BY <1>4, <3>1, CallsKept DEF Executing
    <3> QED
      BY <1>4, <2>0, <3>1, <3>2, <3>4, <3>5, <3>6, CollectiveGroup, Zenon
  <2>3. CASE Begin(r) \/ Copy(r) \/ Publish(r)
    <3>0. pc[r] \in Executing
      BY <2>3, Zenon DEF Begin, Copy, Publish, Pass, Executing
    <3>1. /\ Len(group[r]) \in Nat /\ Len(group[r]) > 0
          /\ Last(r).op = pc[r] /\ Last(r).round = Round(cur[r])
      BY <2>0, <3>0, GroupLength DEF PlaceInv
    <3>2. CASE Begin(r)
      <4>1. ~Apart(Len(group[r]))
        BY <3>2, Zenon DEF Begin, Mixed, Gathered, Apart
      <4>2. pc[r] = "gather" /\ cur' = cur /\ Pass(r, "gather", "start")
        BY <3>2 DEF Begin, Pass
      <4>3. Follows([op |-> "start", round |-> Round(cur[r])], r)
        BY <3>1, <4>1, <4>2 DEF Follows, Successor
      <4>4. "gather" \in Executing /\ "start" \in Executing
        BY DEF Executing
      <4> QED
        BY <1>4, <4>2, <4>3, <4>4, PassGroup, Zenon
    <3>3. CASE Copy(r)
      <4>1. pc[r] = "start" /\ cur' = cur /\ Pass(r, "start", "copied")
        BY <3>3 DEF Copy, Pass
      <4>2. Follows([op |-> "copied", round |-> Round(cur[r])], r)
        BY <3>1, <4>1 DEF Follows, Successor
      <4>3. "copied" \in Executing /\ "start" \in Executing
        BY DEF Executing
      <4> QED
        BY <1>4, <4>1, <4>2, <4>3, PassGroup
    <3>4. CASE Publish(r)
      <4>1. pc[r] = "copied" /\ cur' = cur /\ Pass(r, "copied", "published")
        BY <3>4, Zenon DEF Publish, Pass
      <4>2. Follows([op |-> "published", round |-> Round(cur[r])], r)
        BY <3>1, <4>1 DEF Follows, Successor
      <4>3. "copied" \in Executing /\ "published" \in Executing
        BY DEF Executing
      <4> QED
        BY <1>4, <4>1, <4>2, <4>3, PassGroup, Zenon
    <3> QED
      BY <2>3, <3>2, <3>3, <3>4
  <2>4. CASE MixedRounds(r) \/ Finish(r)
    <3>1. pc[r] \in {"gather", "published"} /\ Everywhere(group, r) /\ Leave(r) /\ group' = group
      BY <2>4 DEF MixedRounds, Finish, FailRound, comm
    <3>2. Last(r).op = pc[r] /\ Last(r).round = Round(cur[r])
      BY <2>0, <3>1 DEF PlaceInv, Executing
    <3>3. pc[r] = "gather" => Apart(Len(group[r]))
      BY <2>4, <3>2 DEF MixedRounds, Finish, Mixed, Gathered, Apart, Last
    <3>4. Ended(r) /\ pc[r] \in Executing
      BY <3>1, <3>2, <3>3, Zenon DEF Ended, Executing
    <3> QED
      BY <1>4, <3>1, <3>4, LeaveGroup
  <2> QED
    BY <1>4, <2>1, <2>2, <2>3, <2>4 DEF Handling
<1> QED
  BY <1>1, <1>2, <1>3, <1>4, StepKinds

\* Ranks in a transfer are in the same generation.
LEMMA SameLive ==
  ASSUME Inv, WorldInv, NEW q \in Ranks, NEW r \in Ranks,
         pc[q] \in Executing \cup {"pin"}, pc[r] \in Executing \cup {"pin"}
  PROVE  live[q] = live[r] /\ gens[q] = gens[r] /\ live[r] = gens[r]
<1>1. pc[q] # "register" /\ pc[r] # "register"
  BY DEF Executing
<1>2. Applied(q) <= Len(world[r]) /\ Applied(r) <= Len(world[q])
  BY Zenon DEF WorldInv
<1>3. Applied(q) = Applied(r)
  BY <1>1, <1>2, WorldLength
<1>4. gens[q] = gens[r]
  BY <1>3, Zenon DEF WorldInv, Agree
<1> QED
  BY <1>4, TransferFacts

\* When a rank passes a barrier, all are in its round: at that barrier or at the next.
LEMMA Together ==
  ASSUME Inv, SharedTypes, WorldInv, GroupInv, NEW q \in Ranks, NEW r \in Ranks,
         pc[r] \in {"start", "copied"}, Everywhere(group, r)
  PROVE  /\ pc[q] \in Executing
         /\ Round(cur[q]) = Round(cur[r]) /\ live[q] = live[r] /\ gens[q] = gens[r]
         /\ \/ pc[q] = pc[r] /\ Len(group[q]) = Len(group[r])
            \/ /\ pc[q] = IF pc[r] = "start" THEN "copied" ELSE "published"
               /\ Len(group[q]) = Len(group[r]) + 1
<1>1. /\ Len(group[r]) \in Nat /\ Len(group[r]) > 0 /\ Len(group[q]) \in Nat
      /\ Last(r).op = pc[r] /\ Last(r).round = Round(cur[r])
  BY GroupLength DEF GroupInv, PlaceInv, Executing
<1>2. Len(group[q]) \in {Len(group[r]), Len(group[r]) + 1}
  <2>1. Passed(q) <= Len(group[r]) /\ Len(group[q]) >= Len(group[r])
    BY Zenon DEF GroupInv, Everywhere
  <2> QED
    BY <1>1, <2>1, GroupLength
<1>3. /\ Last(q).round = Round(cur[r])
      /\ \/ Last(q).op = pc[r] /\ Len(group[q]) = Len(group[r])
         \/ /\ Last(q).op = IF pc[r] = "start" THEN "copied" ELSE "published"
            /\ Len(group[q]) = Len(group[r]) + 1
  <2>1. CASE Len(group[q]) = Len(group[r])
    <3>1. Alike(Last(q), Last(r))
      BY <1>1, <2>1, Zenon DEF GroupInv
    <3> QED
      BY <1>1, <2>1, <3>1 DEF Alike
  <2>2. CASE Len(group[q]) = Len(group[r]) + 1
    <3>1. Follows(Last(q), r)
      BY <2>2, Zenon DEF GroupInv
    <3> QED
      BY <1>1, <2>2, <3>1 DEF Follows, Successor
  <2> QED
    BY <1>2, <2>1, <2>2
<1>4. Len(group[q]) > 0 /\ Last(q).op \in {"start", "copied", "published"}
      /\ (Last(q).op = "published" => Len(group[q]) = Len(group[r]) + 1)
  BY <1>1, <1>2, <1>3
<1>5. pc[q] \in Executing
  <2> SUFFICES ASSUME pc[q] \notin Executing PROVE FALSE
    OBVIOUS
  <2>1. Ended(q) /\ Passed(q) = Len(group[q]) /\ Passed(q) <= Len(group[r])
    BY GroupLength, Zenon DEF GroupInv, PlaceInv
  <2>2. Last(q).op = "published"
    BY <1>4, <2>1 DEF Ended
  <2> QED
    BY <1>1, <1>4, <2>1, <2>2
<1>6. Last(q).op = pc[q] /\ Last(q).round = Round(cur[q])
  BY <1>5 DEF GroupInv, PlaceInv
<1>7. live[q] = live[r] /\ gens[q] = gens[r]
  BY <1>5, SameLive DEF Executing
<1> QED
  BY <1>3, <1>5, <1>6, <1>7
=============================================================================

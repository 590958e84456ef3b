-------------------------- MODULE DualBatchRounds ---------------------------
(***************************************************************************)
(* The rounds of a batch, for any number of ranks: what a rank copies, the *)
(* others copy too, in the same order, and both roles' clients at every    *)
(* rank asked for it; what is published was copied by everyone, and what   *)
(* a client is told was copied has been published.                         *)
(*                                                                         *)
(* A rank leaves a barrier of a round only when all are in that round      *)
(* (Together), in the same generation and in the direction that the leader *)
(* pinned (DirInv), with both roles' commands in hand (BothInv).           *)
(***************************************************************************)
EXTENDS DualBatchProofs

\* Most leaves are first-order: Zenon tries them before SMT.
USE ZenonT(3), SMTT(15)

\* The direction of a batch is the one the store has for its generation.
DirInv(r) == dirn[r] # "none" => live[r] \in DOMAIN pin /\ pin[live[r]] = dirn[r]

\* The commands that wait for a round were sent for that round of this batch.
ParkedInv(r) ==
  \A n \in Rounds : \A c \in parked[r][n] :
    /\ Sent(r, c) /\ IsTransfer(c) /\ Round(c) = n
    /\ stamp[c] = live[r] /\ Source(c) = dirn[r]

\* A round is executed for both roles.
BothInv(r) == pc[r] \in Executing => RolesOf(parked[r][Round(cur[r])]) = Roles

\* The round that is done was copied.
DoneInv(r) ==
  /\ pc[r] \in {"copied", "published"} =>
       /\ done[r] = Round(cur[r])
       /\ Len(copied[r]) > 0
       /\ copied[r][Len(copied[r])] =
            [gen |-> live[r], src |-> dirn[r], round |-> done[r]]
  /\ done[r] # -1 => \E e \in Executed(r) : e.gen = live[r] /\ e.round = done[r]

RoundInv(r) == DirInv(r) /\ ParkedInv(r) /\ BothInv(r) /\ DoneInv(r)

-----------------------------------------------------------------------------
(* What outlasts a step *)

\* A transfer that was sent stays as it was sent.
Standing ==
  \A c \in Calls : IsTransfer(c) /\ c.k < at[c.rank][c.role] =>
    c.k < at'[c.rank][c.role] /\ stamp'[c] = stamp[c]

\* So does a direction that was pinned.
PinKept == \A g \in DOMAIN pin : g \in DOMAIN pin' /\ pin'[g] = pin[g]

\* A call is a command of its rank.
LEMMA CallType ==
  ASSUME NEW c \in Calls
  PROVE  c \in Cmds /\ c.rank \in Ranks /\ c.role \in Roles /\ c.k \in Nat /\ c \in Of(c.rank)
<1>1. c \in Cmds
  BY DEF Calls
<1>2. c.rank \in Ranks /\ c.role \in Roles /\ c.k \in 1..MaxCalls
  BY <1>1, Zenon DEF Cmds
<1> QED
  BY <1>1, <1>2, DualAssumption DEF Of

\* A client sends its next call, or goes back to the call it repeats.
LEMMA StandingClient ==
  ASSUME Inv, NEW r \in Ranks, NEW x \in Roles, Client(r, x) \/ GiveUp(r, x)
  PROVE  Standing
<1>0. at \in [Ranks -> [Roles -> Nat]] /\ stamp \in [Cmds -> Nat]
  BY DEF Inv, TypeInv, ClientTypes
<1>1. CASE Send(r, x)
  <2>1. /\ at'[r][x] = at[r][x] + 1
        /\ \A q \in Ranks, y \in Roles : q # r \/ y # x => at'[q][y] = at[q][y]
    BY <1>0, <1>1 DEF Send
  <2>2. \A c \in Cmds : c # NextCmd(r, x) => stamp'[c] = stamp[c]
    BY <1>0, <1>1 DEF Send
  <2> SUFFICES ASSUME NEW c \in Calls, c.k < at[c.rank][c.role]
               PROVE  c.k < at'[c.rank][c.role] /\ stamp'[c] = stamp[c]
    BY DEF Standing
  <2>3. c \in Cmds /\ c.rank \in Ranks /\ c.role \in Roles /\ c.k \in Nat
    BY CallType
  <2>4. c # NextCmd(r, x)
    BY <1>0, <2>3 DEF NextCmd
  <2> QED
    BY <1>0, <2>1, <2>2, <2>3, <2>4, SMTT(20)
<1>2. CASE Return(r, x)
  <2>0. LastCmd(r, x) \in Of(r) /\ stamp' = stamp
    BY <1>2, LastType DEF Inv, RankInv, Return
  <2>1. /\ \A q \in Ranks, y \in Roles : q # r \/ y # x => at'[q][y] = at[q][y]
        /\ \/ at'[r][x] = at[r][x]
           \/ at'[r][x] = at[r][x] - 1 /\ StepOf(LastCmd(r, x)).op = "request"
    BY <1>0, <1>2 DEF Return
  <2> SUFFICES ASSUME NEW c \in Calls, IsTransfer(c), c.k < at[c.rank][c.role]
               PROVE  c.k < at'[c.rank][c.role]
    BY <2>0 DEF Standing
  <2>3. c \in Cmds /\ c.rank \in Ranks /\ c.role \in Roles /\ c.k \in Nat
    BY CallType
  <2>4. CASE c.rank = r /\ c.role = x /\ at'[r][x] # at[r][x]
    <3>1. c # LastCmd(r, x)
      BY <2>1, <2>4 DEF IsTransfer
    <3>2. /\ LastCmd(r, x) \in Cmds /\ LastCmd(r, x).rank = r
          /\ LastCmd(r, x).role = x /\ LastCmd(r, x).k = at[r][x] - 1
      BY <2>0 DEF Of, Calls, LastCmd
    <3>3. c.k # at[r][x] - 1
      BY <2>3, <2>4, <3>1, <3>2, SameCmd, Zenon
    <3>4. c.k < at[r][x] /\ at[r][x] \in Nat
      BY <1>0, <2>4, Zenon
    <3>5. at'[r][x] = at[r][x] - 1
      BY <2>1, <2>4
    <3>6. c.k < at'[r][x]
      BY <2>3, <3>3, <3>4, <3>5
    <3> QED
      BY <2>4, <3>6, Zenon
  <2>5. CASE ~(c.rank = r /\ c.role = x /\ at'[r][x] # at[r][x])
    BY <2>1, <2>3, <2>5
  <2> QED
    BY <2>4, <2>5
<1>3. CASE Skip(r, x) \/ GiveUp(r, x)
  <2>1. stamp' = stamp
    BY <1>3 DEF Skip, GiveUp
  <2>2. \A q \in Ranks, y \in Roles : at'[q][y] \in {at[q][y], at[q][y] + 1}
    BY <1>0, <1>3, SMT DEF Skip, GiveUp
  <2> SUFFICES ASSUME NEW c \in Calls, c.k < at[c.rank][c.role]
               PROVE  c.k < at'[c.rank][c.role]
    BY <2>1 DEF Standing
  <2>3. c.rank \in Ranks /\ c.role \in Roles /\ c.k \in Nat
    BY CallType
  <2> QED
    BY <1>0, <2>2, <2>3, SMT
<1> QED
  BY <1>1, <1>2, <1>3 DEF Client

\* Agents send nothing.
LEMMA StandingNext ==
  ASSUME Inv, [Next]_vars
  PROVE  Standing /\ PinKept
<1>1. CASE UNCHANGED vars
  BY <1>1 DEF vars, clients, store, Standing, PinKept
<1>2. ASSUME NEW r \in Ranks, NEW x \in Roles, Client(r, x) \/ GiveUp(r, x)
      PROVE  Standing /\ PinKept
  BY <1>2, StandingClient, ClientFrame DEF PinKept
<1>3. ASSUME NEW r \in Ranks, Aside(r) \/ Registration(r) \/ Handling(r) \/ Cleanup(r)
      PROVE  Standing /\ PinKept
  <2>1. UNCHANGED <<at, stamp, pin>>
    BY <1>3, AsideFrame, HandlingFrame
       DEF Registration, TakeRegister, Refuse, Mismatch, Join, Cleanup, clients, store
  <2> QED
    BY <2>1 DEF Standing, PinKept
<1>4. ASSUME NEW r \in Ranks, TakeTransfer(r) PROVE Standing /\ PinKept
  <2>1. UNCHANGED <<at, stamp>>
    BY <1>4, TakeTransferFrame
  <2>2. PinKept
    BY <1>4 DEF TakeTransfer, PinKept
  <2> QED
    BY <2>1, <2>2 DEF Standing
<1> QED
  BY <1>1, <1>2, <1>3, <1>4, StepKinds

-----------------------------------------------------------------------------
(* The rounds of one rank *)

\* A command for a round, sent to the batch at hand, stays one.
LEMMA ParkedKept ==
  ASSUME NEW q \in Ranks, ParkedInv(q), prog' = prog, Standing, live'[q] = live[q],
         \A n \in Rounds : parked'[q][n] \subseteq parked[q][n],
         dirn'[q] = dirn[q]
  PROVE  ParkedInv(q)'
<1> SUFFICES ASSUME NEW n \in Rounds, NEW c \in parked'[q][n]
             PROVE  /\ Sent(q, c)' /\ IsTransfer(c)' /\ Round(c)' = n
                    /\ stamp'[c] = live'[q] /\ Source(c)' = dirn'[q]
  BY Zenon DEF ParkedInv
<1>1. /\ Sent(q, c) /\ IsTransfer(c) /\ Round(c) = n
      /\ stamp[c] = live[q] /\ Source(c) = dirn[q]
  BY DEF ParkedInv
<1>2. c \in Calls /\ c.rank = q /\ c.k < at[q][c.role]
  BY <1>1, Zenon DEF Sent, Of, IsTransfer
<1>3. c.k < at'[q][c.role] /\ stamp'[c] = stamp[c]
  BY <1>1, <1>2 DEF Standing
<1> QED
  BY <1>1, <1>2, <1>3, CallsKept, Zenon DEF Sent

\* A rank that the step is not about.
LEMMA RoundKept ==
  ASSUME NEW q \in Ranks, RoundInv(q), prog' = prog, Standing, PinKept,
         SamePlace(q), live'[q] = live[q], SameRound(q), parked'[q] = parked[q],
         copied'[q] = copied[q]
  PROVE  RoundInv(q)'
<1>1. ParkedInv(q)'
  BY ParkedKept DEF RoundInv, SameRound
<1>2. DirInv(q)'
  BY DEF RoundInv, DirInv, PinKept, SameRound
<1>3. BothInv(q)'
  BY CallsKept, Zenon DEF RoundInv, BothInv, SamePlace, RolesOf
<1>4. DoneInv(q)'
  BY CallsKept, Zenon DEF RoundInv, DoneInv, SamePlace, SameRound, Executed
<1> QED
  BY <1>1, <1>2, <1>3, <1>4 DEF RoundInv

\* A rank that executes no round, and whose batch stays.
LEMMA RoundIdle ==
  ASSUME NEW q \in Ranks, RoundInv(q), prog' = prog, Standing, PinKept,
         pc'[q] \notin Executing, live'[q] = live[q], SameRound(q),
         parked'[q] = parked[q], copied'[q] = copied[q]
  PROVE  RoundInv(q)'
<1>1. ParkedInv(q)'
  BY ParkedKept DEF RoundInv, SameRound
<1>2. DirInv(q)'
  BY DEF RoundInv, DirInv, PinKept, SameRound
<1>3. BothInv(q)'
  BY DEF BothInv
<1>4. DoneInv(q)'
  <2>1. pc'[q] \notin {"copied", "published"}
    BY DEF Executing
  <2> QED
    BY <2>1, Zenon DEF RoundInv, DoneInv, SameRound, Executed
<1> QED
  BY <1>1, <1>2, <1>3, <1>4 DEF RoundInv

\* A batch in which nothing was transferred.
LEMMA RoundFresh ==
  ASSUME NEW q \in Ranks, pc'[q] \notin Executing, dirn'[q] = "none", done'[q] = -1,
         \A n \in Rounds : parked'[q][n] = {}
  PROVE  RoundInv(q)'
BY DEF RoundInv, DirInv, ParkedInv, BothInv, DoneInv, Executing

\* What a step of a transfer does to the rounds of its rank.
LEMMA HandlingEffect ==
  ASSUME Inv, NEW r \in Ranks, Handling(r)
  PROVE  /\ \A q \in Ranks \ {r} : SameRound(q) /\ parked'[q] = parked[q]
         /\ \/ dirn'[r] = dirn[r]
            \/ dirn[r] = "none" /\ live[r] \in DOMAIN pin /\ dirn'[r] = pin[live[r]]
         /\ \A n \in Rounds : \A c \in parked'[r][n] :
              \/ c \in parked[r][n]
              \/ c = cur[r] /\ n = Round(cur[r]) /\ Source(c) = dirn'[r]
         /\ Copy(r) \/ done' = done
<1>0. BatchTypes
  BY DEF Inv, TypeInv
<1>1. ASSUME Directed(r)
      PROVE  /\ \A q \in Ranks \ {r} : dirn'[q] = dirn[q]
             /\ dirn'[r] = Pinned(r)
             /\ \/ dirn'[r] = dirn[r]
                \/ dirn[r] = "none" /\ live[r] \in DOMAIN pin /\ dirn'[r] = pin[live[r]]
  BY <1>0, <1>1 DEF Directed, Pinned, BatchTypes
<1>2. CASE WrongDirection(r)
  BY <1>1, <1>2 DEF WrongDirection, SameRound
<1>3. CASE PinTimeout(r) \/ Begin(r) \/ Publish(r)
  BY <1>3 DEF PinTimeout, Begin, Publish, SameRound, batch
<1>4. CASE Copy(r)
  BY <1>0, <1>4 DEF Copy, SameRound, BatchTypes
<1>5. CASE Acknowledge(r) \/ NoBuckets(r) \/ MixedRounds(r) \/ Finish(r)
  <2>1. parked' = [parked EXCEPT ![r][Round(cur[r])] = {}] /\ done' = done
    BY <1>5 DEF Acknowledge, NoBuckets, MixedRounds, Finish, FailRound
  <2>2. Directed(r) \/ dirn' = dirn
    BY <1>5 DEF Acknowledge, NoBuckets, MixedRounds, Finish, InDirection
  <2>3. /\ \A q \in Ranks \ {r} : parked'[q] = parked[q]
        /\ \A n \in Rounds : parked'[r][n] \subseteq parked[r][n]
    BY <1>0, <2>1 DEF BatchTypes
  <2> QED
    BY <1>1, <2>1, <2>2, <2>3 DEF SameRound
<1>6. CASE Park(r) \/ Enter(r)
  <2>1. /\ parked' = [parked EXCEPT ![r][Round(cur[r])] = Arrived(r)]
        /\ done' = done /\ Directed(r) /\ Source(cur[r]) = Pinned(r)
    BY <1>6 DEF Park, Enter, InDirection
  <2>2. \A q \in Ranks \ {r} : parked'[q] = parked[q]
    BY <1>0, <2>1 DEF BatchTypes
  <2>3. ASSUME NEW n \in Rounds, NEW c \in parked'[r][n]
        PROVE  c \in parked[r][n] \/ (c = cur[r] /\ n = Round(cur[r]))
    BY <1>0, <2>1, <2>3 DEF BatchTypes, Arrived
  <2> QED
    BY <1>1, <2>1, <2>2, <2>3 DEF SameRound
<1> QED
  BY <1>2, <1>3, <1>4, <1>5, <1>6 DEF Handling

\* The direction of a transfer is a role.
LEMMA SourceType ==
  ASSUME NEW c \in Calls
  PROVE  Source(c) \in Roles
<1>1. c.role \in Roles
  BY CallType
<1> QED
  BY <1>1 DEF Source, Other, Roles

\* What a transfer parks is for the batch at hand and its direction.
LEMMA HandlingParked ==
  ASSUME Inv, NEW r \in Ranks, RoundInv(r), Handling(r), prog' = prog, Standing
  PROVE  ParkedInv(r)' /\ DirInv(r)'
<1>0. /\ cur[r] \in Calls /\ Sent(r, cur[r]) /\ IsTransfer(cur[r])
      /\ stamp[cur[r]] = live[r]
  BY HandlingFrame, TransferFacts DEF Of
<1>1. UNCHANGED <<at, stamp, live, pin>>
  BY HandlingFrame
<1>2. DirInv(r)'
  BY <1>1, HandlingEffect DEF RoundInv, DirInv
<1>3. ASSUME NEW n \in Rounds, NEW c \in parked'[r][n]
      PROVE  /\ Sent(r, c) /\ IsTransfer(c) /\ Round(c) = n
             /\ stamp[c] = live[r] /\ Source(c) = dirn'[r]
  <2>1. CASE c \in parked[r][n]
    <3>1. /\ Sent(r, c) /\ IsTransfer(c) /\ Round(c) = n
          /\ stamp[c] = live[r] /\ Source(c) = dirn[r]
      BY <2>1 DEF RoundInv, ParkedInv
    <3>2. dirn[r] # "none"
      BY <3>1, SourceType DEF Sent, Of, Roles
    <3> QED
      BY <3>1, <3>2, HandlingEffect
  <2>2. CASE c = cur[r] /\ n = Round(cur[r]) /\ Source(c) = dirn'[r]
    BY <1>0, <2>2
  <2> QED
    BY <1>3, <2>1, <2>2, HandlingEffect
<1>4. ParkedInv(r)'
  BY <1>1, <1>3, CallsKept, Zenon DEF ParkedInv, Sent
<1> QED
  BY <1>2, <1>4

\* A round is entered for both roles, and left with what it copied.
LEMMA HandlingDone ==
  ASSUME Inv, NEW r \in Ranks, RoundInv(r), Handling(r), prog' = prog
  PROVE  /\ BothInv(r)' /\ DoneInv(r)'
         /\ Copy(r) \/ copied' = copied
         /\ \A q \in Ranks \ {r} : copied'[q] = copied[q]
<1>0. /\ BatchTypes /\ pc[r] \in Executing \cup {"pin"} /\ live' = live
      /\ Round(cur[r]) \in Rounds
  BY HandlingFrame, TransferFacts DEF Inv, TypeInv
<1>1. CASE \/ WrongDirection(r) \/ PinTimeout(r) \/ Acknowledge(r) \/ Park(r)
           \/ NoBuckets(r) \/ MixedRounds(r) \/ Finish(r)
  <2>1. pc'[r] \in {"dequeue", "dead"}
    BY <1>0, <1>1 DEF WrongDirection, PinTimeout, Acknowledge, Park, NoBuckets, MixedRounds,
                      Finish, FailRound, Leave, Goto, BatchTypes
  <2>2. copied' = copied /\ done' = done
    BY <1>1 DEF WrongDirection, PinTimeout, Acknowledge, Park, NoBuckets, MixedRounds,
                Finish, comm, batch
  <2>3. DoneInv(r)'
    BY <1>0, <2>1, <2>2, Zenon DEF RoundInv, DoneInv, Executed
  <2> QED
    BY <2>1, <2>2, <2>3 DEF BothInv, Executing
<1>2. CASE Enter(r)
  <2>1. /\ pc'[r] = "gather" /\ cur' = cur /\ copied' = copied /\ done' = done
        /\ RolesOf(Arrived(r)) = Roles
        /\ parked'[r][Round(cur[r])] = Arrived(r)
    BY <1>0, <1>2 DEF Enter, Goto, BatchTypes
  <2>2. Round(cur[r])' = Round(cur[r])
    BY <2>1, CallsKept
  <2>3. BothInv(r)'
    BY <2>1, <2>2, Zenon DEF BothInv, RolesOf
  <2>4. DoneInv(r)'
    BY <1>0, <2>1, Zenon DEF RoundInv, DoneInv, Executed
  <2> QED
    BY <2>1, <2>3, <2>4
<1>3. CASE Begin(r) \/ Publish(r)
  <2>1. /\ cur' = cur /\ copied' = copied /\ done' = done /\ dirn' = dirn /\ parked' = parked
        /\ pc[r] \in Executing
    BY <1>3 DEF Begin, Publish, Pass, batch, Executing
  <2>2. Round(cur[r])' = Round(cur[r])
    BY <2>1, CallsKept
  <2>3. BothInv(r)'
    BY <2>1, <2>2, Zenon DEF RoundInv, BothInv, RolesOf
  <2>4. pc'[r] \in {"copied", "published"} => pc[r] \in {"copied", "published"}
    BY <1>0, <1>3 DEF Begin, Publish, Pass, Goto, BatchTypes
  <2>5. DoneInv(r)'
    BY <1>0, <2>1, <2>2, <2>4, Zenon DEF RoundInv, DoneInv, Executed
  <2> QED
    BY <2>1, <2>3, <2>5
<1>4. CASE Copy(r)
  <2>1. /\ cur' = cur /\ dirn' = dirn /\ parked' = parked /\ pc[r] \in Executing
        /\ done'[r] = Round(cur[r])
    BY <1>0, <1>4 DEF Copy, Pass, Executing, BatchTypes
  <2> PICK e : e = [gen |-> live[r], src |-> dirn[r], round |-> Round(cur[r])]
    BY Zenon
  <2>2. copied' = [copied EXCEPT ![r] = Append(@, e)]
    BY <1>4 DEF Copy
  <2>3. copied \in [Ranks -> Seq(Entry)]
    BY <1>0, Zenon DEF BatchTypes
  <2>4. /\ copied[r] \in Seq(Entry) /\ copied'[r] = Append(copied[r], e)
        /\ \A q \in Ranks \ {r} : copied'[q] = copied[q]
    BY <2>2, <2>3, Zenon
  <2>5. Len(copied'[r]) > 0 /\ copied'[r][Len(copied'[r])] = e /\ Len(copied'[r]) \in Nat
    BY <2>4
  <2>6. Round(cur[r])' = Round(cur[r])
    BY <2>1, CallsKept
  <2>7. BothInv(r)'
    BY <2>1, <2>6, Zenon DEF RoundInv, BothInv, RolesOf
  <2>8. e \in Executed(r)' /\ e.gen = live'[r] /\ e.round = done'[r]
    BY <1>0, <2>1, <2>5 DEF Executed
  <2>9. e = [gen |-> live'[r], src |-> dirn'[r], round |-> done'[r]]
    BY <1>0, <2>1, Zenon
  <2>10. DoneInv(r)'
    BY <2>1, <2>5, <2>6, <2>8, <2>9, Zenon DEF DoneInv
  <2> QED
    BY <1>4, <2>4, <2>7, <2>10
<1> QED
  BY <1>1, <1>2, <1>3, <1>4 DEF Handling

\* Every step keeps what each rank knows about its rounds.
LEMMA RoundNext ==
  ASSUME Inv, \A q \in Ranks : RoundInv(q), [Next]_vars
  PROVE  \A q \in Ranks : RoundInv(q)'
<1>0. Standing /\ PinKept /\ BatchTypes
  BY StandingNext DEF Inv, TypeInv
<1>1. CASE UNCHANGED vars
  <2>1. UNCHANGED <<prog, pc, cur, live, dirn, done, parked, copied>>
    BY <1>1 DEF vars, batch, comm
  <2> QED
    BY <1>0, <2>1, RoundKept DEF SamePlace, SameRound
<1>2. ASSUME prog' = prog, NEW r \in Ranks,
             \/ \E x \in Roles : Client(r, x) \/ GiveUp(r, x)
             \/ Aside(r)
      PROVE  \A q \in Ranks : RoundInv(q)'
  <2>1. UNCHANGED <<pc, cur, live, dirn, done, parked, copied>>
    BY <1>2, ClientFrame, AsideFrame
  <2> QED
    BY <1>0, <1>2, <2>1, RoundKept DEF SamePlace, SameRound
<1>3. ASSUME prog' = prog, NEW r \in Ranks, TakeTransfer(r)
      PROVE  \A q \in Ranks : RoundInv(q)'
  <2>1. /\ UNCHANGED <<live, dirn, done, parked, copied>> /\ pc'[r] \notin Executing
        /\ \A q \in Ranks \ {r} : SamePlace(q)
    BY <1>3, TakeTransferFrame DEF Executing
  <2>2. RoundInv(r)'
    BY <1>0, <1>3, <2>1, RoundIdle DEF SameRound
  <2>3. \A q \in Ranks \ {r} : RoundInv(q)'
    BY <1>0, <1>3, <2>1, RoundKept DEF SameRound
  <2> QED
    BY <2>2, <2>3
<1>4. ASSUME prog' = prog, NEW r \in Ranks, Registration(r) \/ Cleanup(r)
      PROVE  \A q \in Ranks : RoundInv(q)'
  <2>1. /\ copied' = copied /\ pc'[r] \notin Executing
        /\ \A q \in Ranks \ {r} : SamePlace(q)
    <3>1. CASE TakeRegister(r)
      BY <1>0, <3>1 DEF TakeRegister, TakeTo, Goto, SamePlace, Executing, BatchTypes
    <3>2. CASE Refuse(r) \/ Mismatch(r) \/ Join(r)
      <4>1. Leave(r) /\ copied' = copied
        BY <3>2 DEF Refuse, Mismatch, Join, comm
      <4> QED
        BY <1>0, <4>1, LeaveType DEF SamePlace, Executing
    <3>3. CASE Cleanup(r)
      BY <3>3 DEF Cleanup, TakeOnly, Take, SamePlace, Executing, comm
    <3> QED
      BY <1>4, <3>1, <3>2, <3>3 DEF Registration
  <2>2. \A q \in Ranks \ {r} : live'[q] = live[q] /\ SameRound(q) /\ parked'[q] = parked[q]
    <3>1. CASE Drop(r)
      BY <1>0, <3>1 DEF Drop, SameRound, BatchTypes
    <3>2. CASE UNCHANGED batch
      BY <3>2 DEF batch, SameRound
    <3>3. CASE Join(r)
      BY <1>0, <3>3 DEF Join, SameRound, BatchTypes
    <3> QED
      BY <1>4, <3>1, <3>2, <3>3 DEF Registration, TakeRegister, Refuse, Mismatch, Cleanup
  <2>3. \A q \in Ranks \ {r} : RoundInv(q)'
    BY <1>0, <1>4, <2>1, <2>2, RoundKept
  <2>4. CASE Drop(r)
    <3>1. dirn'[r] = "none" /\ done'[r] = -1 /\ \A n \in Rounds : parked'[r][n] = {}
      BY <1>0, <2>4 DEF Drop, BatchTypes
    <3> QED
      BY <2>1, <2>3, <3>1, RoundFresh
  <2>5. CASE UNCHANGED batch
    <3>1. live' = live /\ SameRound(r) /\ parked' = parked
      BY <2>5 DEF batch, SameRound
    <3>2. RoundInv(r)'
      BY <1>0, <1>4, <2>1, <3>1, RoundIdle
    <3> QED
      BY <2>3, <3>2
  <2>6. CASE Join(r)
    <3>1. joined[r] # Roles /\ UNCHANGED <<dirn, done, parked>>
      BY <2>6, Missing DEF Join
    <3>2. dirn'[r] = "none" /\ done'[r] = -1 /\ \A n \in Rounds : parked'[r][n] = {}
      BY <3>1 DEF Inv, RankInv, BatchInv
    <3> QED
      BY <2>1, <2>3, <3>2, RoundFresh
  <2> QED
    BY <1>4, <2>4, <2>5, <2>6
       DEF Registration, TakeRegister, Refuse, Mismatch, Cleanup
<1>5. ASSUME prog' = prog, NEW r \in Ranks, Handling(r)
      PROVE  \A q \in Ranks : RoundInv(q)'
  <2>1. RoundInv(r)'
    BY <1>0, <1>5, HandlingParked, HandlingDone DEF RoundInv
  <2>2. \A q \in Ranks \ {r} : RoundInv(q)'
    BY <1>0, <1>5, HandlingFrame, HandlingEffect, HandlingDone, RoundKept
  <2> QED
    BY <2>1, <2>2
<1> QED
  BY <1>1, <1>2, <1>3, <1>4, <1>5, StepKinds

-----------------------------------------------------------------------------
(* The rounds of all ranks *)

\* Ranks at the same collective executed as many rounds.
CountInv ==
  /\ \A q, r \in Ranks :
       Len(group[q]) = Len(group[r]) => Len(copied[q]) = Len(copied[r])
  /\ \A q, r \in Ranks :
       Len(group[q]) = Len(group[r]) + 1 =>
         Len(copied[q]) = Len(copied[r]) + (IF Last(q).op = "copied" THEN 1 ELSE 0)

\* What was executed is of a generation that every rank has come to.
GenInv == \A r, q \in Ranks : \A e \in Executed(r) : e.gen <= gens[q]

\* A copy is the last of the rank's.
LEMMA CopyEffect ==
  ASSUME Inv, NEW r \in Ranks, Copy(r)
  PROVE  /\ Len(copied[r]) \in Nat /\ Len(copied[r])' = Len(copied[r]) + 1
         /\ copied'[r][Len(copied[r]) + 1] =
              [gen |-> live[r], src |-> dirn[r], round |-> Round(cur[r])]
         /\ \A i \in 1..Len(copied[r]) : copied'[r][i] = copied[r][i]
         /\ \A q \in Ranks \ {r} : copied'[q] = copied[q]
<1> PICK e : e = [gen |-> live[r], src |-> dirn[r], round |-> Round(cur[r])]
  BY Zenon
<1>1. copied' = [copied EXCEPT ![r] = Append(@, e)]
  BY DEF Copy
<1>2. copied \in [Ranks -> Seq(Entry)]
  BY Zenon DEF Inv, TypeInv, BatchTypes
<1>3. /\ copied[r] \in Seq(Entry) /\ copied'[r] = Append(copied[r], e)
      /\ \A q \in Ranks \ {r} : copied'[q] = copied[q]
  BY <1>1, <1>2, Zenon
<1>4. /\ Len(copied[r]) \in Nat /\ Len(copied[r])' = Len(copied[r]) + 1
      /\ copied'[r][Len(copied[r]) + 1] = e
      /\ \A i \in 1..Len(copied[r]) : copied'[r][i] = copied[r][i]
  BY <1>3
<1> QED
  BY <1>3, <1>4

\* Nothing else is executed.
LEMMA CopiedFrame ==
  ASSUME Inv, \A q \in Ranks : RoundInv(q), [Next]_vars, copied' # copied
  PROVE  prog' = prog /\ \E r \in Ranks : Copy(r)
<1>1. ~UNCHANGED vars
  BY DEF vars, comm
<1>2. ASSUME NEW r \in Ranks,
             \/ \E x \in Roles : Client(r, x) \/ GiveUp(r, x)
             \/ Aside(r) \/ Registration(r) \/ TakeTransfer(r) \/ Cleanup(r)
      PROVE  copied' = copied
  BY <1>2, ClientFrame, AsideFrame, TakeTransferFrame
     DEF Registration, TakeRegister, Refuse, Mismatch, Join, Cleanup, comm
<1> QED
  BY <1>1, <1>2, StepKinds, HandlingDone

\* A rank comes to a collective, or the batch group is as it was.
LEMMA Advance ==
  ASSUME Inv, SharedTypes, GroupInv, NEW r \in Ranks, Handling(r)
  PROVE  \/ group' = group /\ ~Copy(r) /\ ~Publish(r)
         \/ \E op \in Executing :
              /\ Collective(r, op, Round(cur[r])) /\ Everywhere(group, r)
              /\ pc'[r] = op /\ cur' = cur
              /\ op = "copied" <=> Copy(r)
              /\ op = "published" <=> Publish(r)
<1>0. BatchTypes
  BY DEF Inv, TypeInv
<1>1. CASE Enter(r)
  <2>1. pc[r] = "pin" /\ Collective(r, "gather", Round(cur[r])) /\ pc'[r] = "gather" /\ cur' = cur
    BY <1>0, <1>1 DEF Enter, InDirection, Directed, Goto, BatchTypes
  <2>2. Passed(r) = Len(group[r])
    BY <2>1, GroupLength DEF Executing
  <2>3. \A q \in Ranks : Len(group[r]) <= Len(group[q])
    BY <2>2, Zenon DEF GroupInv
  <2>4. \A q \in Ranks : Len(group[q]) \in Nat
    BY GroupLength
  <2>5. Everywhere(group, r)
    BY <2>3, <2>4 DEF Everywhere
  <2>6. "gather" \in Executing /\ ~Copy(r) /\ ~Publish(r)
    BY <2>1 DEF Executing, Copy, Publish, Pass
  <2> QED
    BY <2>1, <2>5, <2>6
<1>2. CASE Begin(r)
  <2>1. /\ Collective(r, "start", Round(cur[r])) /\ Everywhere(group, r)
        /\ pc[r] = "gather" /\ pc'[r] = "start" /\ cur' = cur
    BY <1>0, <1>2 DEF Begin, Pass, Goto, BatchTypes
  <2>2. "start" \in Executing /\ ~Copy(r) /\ ~Publish(r)
    BY <2>1 DEF Executing, Copy, Publish, Pass
  <2> QED
    BY <2>1, <2>2
<1>3. CASE Copy(r)
  <2>1. /\ Collective(r, "copied", Round(cur[r])) /\ Everywhere(group, r)
        /\ pc[r] = "start" /\ pc'[r] = "copied" /\ cur' = cur
    BY <1>0, <1>3 DEF Copy, Pass, Goto, BatchTypes
  <2>2. "copied" \in Executing /\ ~Publish(r)
    BY <2>1 DEF Executing, Publish, Pass
  <2> QED
    BY <1>3, <2>1, <2>2
<1>4. CASE Publish(r)
  <2>1. /\ Collective(r, "published", Round(cur[r])) /\ Everywhere(group, r)
        /\ pc[r] = "copied" /\ pc'[r] = "published" /\ cur' = cur
    BY <1>0, <1>4 DEF Publish, Pass, Goto, BatchTypes
  <2>2. "published" \in Executing /\ ~Copy(r)
    BY <2>1 DEF Executing, Copy, Pass
  <2> QED
    BY <1>4, <2>1, <2>2
<1>5. CASE \/ WrongDirection(r) \/ PinTimeout(r) \/ Acknowledge(r) \/ Park(r)
           \/ NoBuckets(r) \/ MixedRounds(r) \/ Finish(r)
  <2>1. group' = group
    BY <1>5 DEF WrongDirection, PinTimeout, Acknowledge, Park, NoBuckets, MixedRounds,
                Finish, comm
  <2>2. pc[r] \in {"pin", "gather", "published"}
    BY <1>5 DEF WrongDirection, PinTimeout, Acknowledge, Park, NoBuckets, MixedRounds,
                Finish, InDirection, Directed
  <2> QED
    BY <2>1, <2>2 DEF Copy, Publish, Pass
<1> QED
  BY <1>1, <1>2, <1>3, <1>4, <1>5 DEF Handling

\* The collectives of the batch group are those of transfers.
LEMMA GroupFrame ==
  ASSUME [Next]_vars, group' # group, Inv
  PROVE  prog' = prog /\ \E r \in Ranks : Handling(r)
<1>1. ~UNCHANGED vars
  BY DEF vars, comm
<1>2. ASSUME NEW r \in Ranks,
             \/ \E x \in Roles : Client(r, x) \/ GiveUp(r, x)
             \/ Aside(r) \/ Registration(r) \/ TakeTransfer(r) \/ Cleanup(r)
      PROVE  group' = group
  BY <1>2, ClientFrame, AsideFrame, TakeTransferFrame
     DEF Registration, TakeRegister, Refuse, Mismatch, Join, Cleanup, comm
<1> QED
  BY <1>1, <1>2, StepKinds

\* Counting with a rank that takes a collective, and perhaps a copy, more.
LEMMA CountNext ==
  ASSUME Inv, SharedTypes, GroupInv, GroupInv', CountInv, \A q \in Ranks : RoundInv(q),
         [Next]_vars
  PROVE  CountInv'
<1>0. \A q \in Ranks : Len(group[q]) \in Nat /\ Len(copied[q]) \in Nat
  <2>1. \A q \in Ranks : copied[q] \in Seq(Entry)
    BY Zenon DEF Inv, TypeInv, BatchTypes
  <2> QED
    BY <2>1, GroupLength
<1>1. CASE group' = group
  <2>1. copied' = copied
    <3>1. ASSUME NEW r \in Ranks, Copy(r) PROVE FALSE
      <4>1. PICK op \in Executing : Collective(r, op, Round(cur[r])) /\ Round(cur[r]) \in Rounds
        BY <1>1, <3>1, Advance, TransferFacts
           DEF Handling, Copy, Pass, Executing
      <4>2. Len(group[r])' = Len(group[r]) + 1 /\ Len(group[r])' = Len(group[r]) /\ Len(group[r]) \in Nat
        BY <1>0, <1>1, <4>1, CollectiveFacts, Zenon
      <4> QED
        BY <4>2
    <3> QED
      BY <3>1, CopiedFrame
  <2> QED
    BY <1>1, <2>1, Zenon DEF CountInv, Last
<1>2. CASE group' # group
  <2>1. PICK r \in Ranks : Handling(r)
    BY <1>2, GroupFrame
  <2>2. prog' = prog /\ Round(cur[r]) \in Rounds
    BY <1>2, <2>1, GroupFrame, HandlingFrame, TransferFacts
  <2>3. PICK op \in Executing :
          /\ Collective(r, op, Round(cur[r])) /\ Everywhere(group, r)
          /\ op = "copied" <=> Copy(r)
    BY <1>2, <2>1, Advance
  <2>4. /\ Len(group[r])' = Len(group[r]) + 1 /\ Last(r)'.op = op
        /\ \A q \in Ranks \ {r} : group'[q] = group[q] /\ Last(q)' = Last(q)
    BY <2>2, <2>3, CollectiveFacts, SMTT(20)
  <2> PICK d : d = IF op = "copied" THEN 1 ELSE 0
    BY Zenon
  <2>5. /\ Len(copied[r])' = Len(copied[r]) + d /\ d \in {0, 1}
        /\ \A q \in Ranks \ {r} : copied'[q] = copied[q]
    <3>1. CASE op = "copied"
      <4>1. d = 1 /\ Copy(r)
        BY <2>3, <3>1, Zenon
      <4> QED
        BY <4>1, CopyEffect, Zenon
    <3>2. CASE op # "copied"
      <4>1. copied' = copied
        BY <2>1, <2>2, <2>3, <3>2, HandlingDone
      <4> QED
        BY <1>0, <3>2, <4>1
    <3> QED
      BY <3>1, <3>2, Zenon
  <2>6. ASSUME NEW q \in Ranks \ {r}
        PROVE  /\ Len(group[q]) \in {Len(group[r]), Len(group[r]) + 1}
               /\ Len(group[q]) = Len(group[r]) => Len(copied[q]) = Len(copied[r])
               /\ Len(group[q]) = Len(group[r]) + 1 =>
                    Len(copied[q]) = Len(copied[r]) + d /\ Last(q).op = op
    <3>1. Passed(q) <= Len(group[r]) /\ Len(group[q]) >= Len(group[r])
      BY <2>3, Zenon DEF GroupInv, Everywhere
    <3>2. Len(group[q]) \in {Len(group[r]), Len(group[r]) + 1}
      BY <1>0, <3>1, GroupLength, SMTT(20)
    <3>3. Len(group[q]) = Len(group[r]) => Len(copied[q]) = Len(copied[r])
      BY Zenon DEF CountInv
    <3>4. ASSUME Len(group[q]) = Len(group[r]) + 1 PROVE Last(q).op = op
      <4>1. Len(group[q])' = Len(group[r])' /\ Len(group[r])' > 0
        BY <1>0, <2>4, <3>4
      <4>2. Alike(Last(q)', Last(r)')
        BY <4>1, Zenon DEF GroupInv
      <4> QED
        BY <2>4, <4>2 DEF Alike
    <3>5. ASSUME Len(group[q]) = Len(group[r]) + 1
          PROVE  Len(copied[q]) = Len(copied[r]) + d
      BY <3>4, <3>5, Zenon DEF CountInv
    <3> QED
      BY <3>2, <3>3, <3>4, <3>5, Zenon
  <2>7. ASSUME NEW q \in Ranks \ {r}
        PROVE  /\ Len(group[q])' = Len(group[r])' => Len(copied[q])' = Len(copied[r])'
               /\ Len(group[r])' = Len(group[q])' + 1 =>
                    Len(copied[r])' = Len(copied[q])' + d
               /\ Len(group[q])' # Len(group[r])' + 1
    <3>1. Len(group[q])' = Len(group[q]) /\ Len(copied[q])' = Len(copied[q])
      BY <2>4, <2>5, Zenon
    <3>a. PICK k, n, l, c, k1, n1 :
          /\ k = Len(group[r]) /\ n = Len(copied[r]) /\ l = Len(group[q])
          /\ c = Len(copied[q]) /\ k1 = Len(group[r])' /\ n1 = Len(copied[r])'
      BY Zenon
    <3>2. k \in Nat /\ n \in Nat /\ l \in Nat /\ c \in Nat
      BY <1>0, <3>a, Zenon
    <3>3. l \in {k, k + 1} /\ (l = k => c = n) /\ (l = k + 1 => c = n + d)
      BY <2>6, <3>a, Zenon
    <3>4. k1 = k + 1 /\ n1 = n + d /\ d \in {0, 1}
      BY <2>4, <2>5, <3>a, Zenon
    <3>5. /\ l = k1 => c = n1
          /\ k1 = l + 1 => n1 = c + d
          /\ l # k1 + 1
      BY <3>2, <3>3, <3>4
    <3> QED
      BY <3>1, <3>5, <3>a, Zenon
  <2>8. ASSUME NEW q \in Ranks, NEW p \in Ranks, Len(group[q])' = Len(group[p])'
        PROVE  Len(copied[q])' = Len(copied[p])'
    <3>1. CASE q # r /\ p # r
      <4>1. /\ group'[q] = group[q] /\ group'[p] = group[p]
            /\ copied'[q] = copied[q] /\ copied'[p] = copied[p]
        BY <2>4, <2>5, <3>1, Zenon
      <4> QED
        BY <2>8, <4>1, Zenon DEF CountInv
    <3>2. CASE q = r /\ p # r
      BY <2>7, <2>8, <3>2, Zenon
    <3>3. CASE q # r /\ p = r
      BY <2>7, <2>8, <3>3, Zenon
    <3> QED
      BY <3>1, <3>2, <3>3, Zenon
  <2>9. ASSUME NEW q \in Ranks, NEW p \in Ranks, Len(group[q])' = Len(group[p])' + 1
        PROVE  Len(copied[q])' = Len(copied[p])' + (IF Last(q)'.op = "copied" THEN 1 ELSE 0)
    <3>1. CASE q # r /\ p # r
      <4>1. /\ group'[q] = group[q] /\ group'[p] = group[p] /\ Last(q)' = Last(q)
            /\ copied'[q] = copied[q] /\ copied'[p] = copied[p]
        BY <2>4, <2>5, <3>1, Zenon
      <4>2. Len(copied[q]) = Len(copied[p]) + (IF Last(q).op = "copied" THEN 1 ELSE 0)
        BY <2>9, <4>1, Zenon DEF CountInv
      <4> QED
        BY <4>1, <4>2, Zenon
    <3>2. CASE q = r /\ p # r
      BY <2>4, <2>7, <2>9, <3>2, Zenon
    <3>3. CASE p = r
      <4>1. Len(group[r])' # Len(group[r])' + 1
        BY <1>0, <2>4
      <4> QED
        BY <2>7, <2>9, <3>3, <4>1, Zenon
    <3> QED
      BY <3>1, <3>2, <3>3, Zenon
  <2> QED
    BY <2>8, <2>9, Zenon DEF CountInv
<1> QED
  BY <1>1, <1>2

\* When a rank copies, every rank is about to make that copy or has made it.
LEMMA CopiedTogether ==
  ASSUME Inv, SharedTypes, WorldInv, GroupInv, CountInv, \A p \in Ranks : RoundInv(p),
         NEW r \in Ranks, Copy(r), NEW q \in Ranks
  PROVE  /\ pc[q] \in Executing /\ Round(cur[q]) = Round(cur[r])
         /\ live[q] = live[r] /\ gens[q] = live[r] /\ dirn[q] = dirn[r]
         /\ \/ Len(copied[q]) = Len(copied[r])
            \/ /\ Len(copied[q]) = Len(copied[r]) + 1
               /\ copied[q][Len(copied[q])] =
                    [gen |-> live[r], src |-> dirn[r], round |-> Round(cur[r])]
<1>0. pc[r] = "start" /\ Everywhere(group, r)
  BY DEF Copy, Pass
<1>1. /\ pc[q] \in Executing /\ pc[r] \in Executing
      /\ Round(cur[q]) = Round(cur[r]) /\ live[q] = live[r] /\ gens[q] = gens[r]
      /\ \/ pc[q] = "start" /\ Len(group[q]) = Len(group[r])
         \/ pc[q] = "copied" /\ Len(group[q]) = Len(group[r]) + 1
  BY <1>0, Together DEF Executing
<1>2. live[r] = gens[r]
  BY <1>1, TransferFacts
<1>3. dirn[q] = dirn[r]
  <2>1. dirn[q] # "none" /\ dirn[r] # "none"
    BY <1>1, Zenon DEF Inv, RankInv, HandlingInv
  <2>2. dirn[q] = pin[live[q]] /\ dirn[r] = pin[live[r]]
    BY <2>1, Zenon DEF RoundInv, DirInv
  <2> QED
    BY <1>1, <2>2
<1>4. CASE pc[q] = "start" /\ Len(group[q]) = Len(group[r])
  <2>1. Len(copied[q]) = Len(copied[r])
    BY <1>4, Zenon DEF CountInv
  <2> QED
    BY <1>1, <1>2, <1>3, <2>1
<1>5. CASE pc[q] = "copied" /\ Len(group[q]) = Len(group[r]) + 1
  <2>1. Last(q).op = "copied"
    BY <1>1, <1>5 DEF GroupInv, PlaceInv
  <2>2. Len(copied[q]) = Len(copied[r]) + 1
    BY <1>5, <2>1, Zenon DEF CountInv
  <2>3. /\ done[q] = Round(cur[q])
        /\ copied[q][Len(copied[q])] = [gen |-> live[q], src |-> dirn[q], round |-> done[q]]
    BY <1>5 DEF RoundInv, DoneInv
  <2>4. copied[q][Len(copied[q])] = [gen |-> live[r], src |-> dirn[r], round |-> Round(cur[r])]
    BY <1>1, <1>3, <2>3, Zenon
  <2> QED
    BY <1>1, <1>2, <1>3, <2>2, <2>4
<1> QED
  BY <1>1, <1>4, <1>5

\* Ranks execute the same rounds.
LEMMA SameRoundsNext ==
  ASSUME Inv, SharedTypes, WorldInv, GroupInv, CountInv, \A p \in Ranks : RoundInv(p),
         SameRounds, [Next]_vars
  PROVE  SameRounds'
<1>1. CASE copied' = copied
  BY <1>1, Zenon DEF SameRounds
<1>2. CASE copied' # copied
  <2>1. PICK r \in Ranks : Copy(r)
    BY <1>2, CopiedFrame
  <2>a. PICK e : e = [gen |-> live[r], src |-> dirn[r], round |-> Round(cur[r])]
    BY Zenon
  <2>2. /\ Len(copied[r]) \in Nat /\ Len(copied[r])' = Len(copied[r]) + 1
        /\ copied'[r][Len(copied[r]) + 1] = e
        /\ \A i \in 1..Len(copied[r]) : copied'[r][i] = copied[r][i]
        /\ \A q \in Ranks \ {r} : copied'[q] = copied[q]
    BY <2>1, <2>a, CopyEffect
  <2>3. ASSUME NEW q \in Ranks \ {r}
        PROVE  /\ Len(copied[q])' = Len(copied[q]) /\ Len(copied[q]) \in Nat
               /\ \/ Len(copied[q]) = Len(copied[r])
                  \/ Len(copied[q]) = Len(copied[r]) + 1 /\ copied[q][Len(copied[q])] = e
    <3>1. Len(copied[q])' = Len(copied[q])
      BY <2>2, Zenon
    <3>2. \/ Len(copied[q]) = Len(copied[r])
          \/ Len(copied[q]) = Len(copied[r]) + 1 /\ copied[q][Len(copied[q])] = e
      BY <2>1, <2>a, CopiedTogether, Zenon
    <3> QED
      BY <2>2, <3>1, <3>2, SMTT(20)
  <2>4. ASSUME NEW q \in Ranks \ {r}, NEW i \in 1..Len(copied[r])', i <= Len(copied[q])'
        PROVE  copied'[q][i] = copied'[r][i]
    <3>0. copied'[q] = copied[q]
      BY <2>2
    <3>1. CASE i \in 1..Len(copied[r])
      <4>1. i <= Len(copied[q])
        BY <2>3, <2>4
      <4>2. copied[q][i] = copied[r][i]
        BY <3>1, <4>1, Zenon DEF SameRounds
      <4> QED
        BY <2>2, <3>0, <3>1, <4>2
    <3>2. CASE i = Len(copied[r]) + 1
      <4>1. Len(copied[q]) = i /\ copied[q][i] = e
        BY <2>2, <2>3, <2>4, <3>2, SMTT(20)
      <4> QED
        BY <2>2, <3>0, <3>2, <4>1
    <3> QED
      BY <2>2, <2>4, <3>1, <3>2, SMTT(20)
  <2>5. ASSUME NEW p \in Ranks, NEW q \in Ranks, NEW i \in 1..Len(copied[p])',
               i <= Len(copied[q])'
        PROVE  copied'[q][i] = copied'[p][i]
    <3>1. CASE p = q
      BY <3>1
    <3>2. CASE p = r /\ q # r
      BY <2>4, <2>5, <3>2
    <3>3. CASE p # r /\ q = r
      <4>1. i \in 1..Len(copied[r])' /\ i <= Len(copied[p])'
        BY <2>2, <2>3, <2>5, <3>3, SMTT(20)
      <4> QED
        BY <2>4, <3>3, <4>1
    <3>4. CASE p # r /\ q # r
      <4>1. copied'[p] = copied[p] /\ copied'[q] = copied[q]
        BY <2>2, <3>4, Zenon
      <4>2. i \in 1..Len(copied[p]) /\ i <= Len(copied[q])
        BY <2>5, <4>1
      <4>3. copied[q][i] = copied[p][i]
        BY <4>2, Zenon DEF SameRounds
      <4> QED
        BY <4>1, <4>3, Zenon
    <3> QED
      BY <3>1, <3>2, <3>3, <3>4
  <2> QED
    BY <2>5, Zenon DEF SameRounds
<1> QED
  BY <1>1, <1>2

\* What a rank executes after a copy.
LEMMA ExecutedCopy ==
  ASSUME Inv, NEW r \in Ranks, Copy(r)
  PROVE  /\ \A q \in Ranks \ {r} : Executed(q)' = Executed(q)
         /\ \A e \in Executed(r)' :
              \/ e \in Executed(r)
              \/ e = [gen |-> live[r], src |-> dirn[r], round |-> Round(cur[r])]
         /\ Executed(r) \subseteq Executed(r)'
<1>1. /\ Len(copied[r]) \in Nat /\ Len(copied[r])' = Len(copied[r]) + 1
      /\ copied'[r][Len(copied[r]) + 1] =
           [gen |-> live[r], src |-> dirn[r], round |-> Round(cur[r])]
      /\ \A i \in 1..Len(copied[r]) : copied'[r][i] = copied[r][i]
      /\ \A q \in Ranks \ {r} : copied'[q] = copied[q]
  BY CopyEffect
<1>2. \A q \in Ranks \ {r} : Executed(q)' = Executed(q)
  BY <1>1, Zenon DEF Executed
<1>3. ASSUME NEW i \in 1..Len(copied[r])'
      PROVE  i \in 1..Len(copied[r]) \/ i = Len(copied[r]) + 1
  BY <1>1, SMT
<1>4. ASSUME NEW i \in 1..Len(copied[r])
      PROVE  i \in 1..Len(copied[r])'
  BY <1>1, SMT
<1> QED
  BY <1>1, <1>2, <1>3, <1>4, Zenon DEF Executed

\* Who asked has asked.
LEMMA AskedKept ==
  ASSUME NEW q, NEW x, NEW e, Asked(q, x, e), Standing, prog' = prog
  PROVE  Asked(q, x, e)'
<1>1. PICK c \in Calls : /\ c.rank = q /\ c.role = x /\ IsTransfer(c)
                         /\ c.k < at[q][x]
                         /\ Round(c) = e.round /\ Source(c) = e.src
                         /\ stamp[c] = e.gen
  BY Zenon DEF Asked
<1>2. c.k < at'[q][x] /\ stamp'[c] = stamp[c]
  BY <1>1, Zenon DEF Standing
<1>3. c \in Calls' /\ IsTransfer(c)' /\ Round(c)' = Round(c) /\ Source(c)' = Source(c)
  BY <1>1, CallsKept, Zenon
<1> QED
  BY <1>1, <1>2, <1>3, Zenon DEF Asked

\* The program is chosen once.
LEMMA ProgKept ==
  ASSUME [Next]_vars
  PROVE  prog' = prog
BY StepKinds DEF vars

\* Both roles' clients asked for what is copied.
LEMMA ReadyNext ==
  ASSUME Inv, SharedTypes, WorldInv, GroupInv, CountInv, \A p \in Ranks : RoundInv(p),
         ReadyEverywhere, [Next]_vars
  PROVE  ReadyEverywhere'
<1>0. Standing /\ prog' = prog
  BY StandingNext, ProgKept
<1>1. \A r, q \in Ranks : \A e \in Executed(r) : \A x \in Roles : Asked(q, x, e)'
  BY <1>0, AskedKept, Zenon DEF ReadyEverywhere
<1>2. CASE copied' = copied
  BY <1>1, <1>2, Zenon DEF ReadyEverywhere, Executed
<1>3. CASE copied' # copied
  <2>1. PICK r \in Ranks : Copy(r)
    BY <1>3, CopiedFrame
  <2>a. PICK e : e = [gen |-> live[r], src |-> dirn[r], round |-> Round(cur[r])]
    BY Zenon
  <2>2. ASSUME NEW q \in Ranks, NEW x \in Roles PROVE Asked(q, x, e)
    <3>1. /\ pc[q] \in Executing /\ Round(cur[q]) = Round(cur[r])
          /\ live[q] = live[r] /\ dirn[q] = dirn[r]
      BY <2>1, CopiedTogether, Zenon
    <3>2. x \in RolesOf(parked[q][Round(cur[q])])
      BY <3>1, Zenon DEF RoundInv, BothInv
    <3>3. PICK c \in parked[q][Round(cur[q])] : c.role = x
      BY <3>2 DEF RolesOf
    <3>4. Round(cur[q]) \in Rounds
      BY <3>1, TransferFacts
    <3>5. /\ Sent(q, c) /\ IsTransfer(c) /\ Round(c) = Round(cur[q])
          /\ stamp[c] = live[q] /\ Source(c) = dirn[q]
      BY <3>3, <3>4 DEF RoundInv, ParkedInv
    <3>6. c \in Calls /\ c.rank = q /\ c.k < at[q][c.role]
      BY <3>5, Zenon DEF Sent, Of, IsTransfer
    <3>7. Round(c) = e.round /\ Source(c) = e.src /\ stamp[c] = e.gen
      BY <2>a, <3>1, <3>5
    <3> QED
      BY <3>3, <3>5, <3>6, <3>7, Zenon DEF Asked
  <2>3. \A q \in Ranks, x \in Roles : Asked(q, x, e)'
    BY <1>0, <2>2, AskedKept, Zenon
  <2>4. \A p \in Ranks : \A f \in Executed(p)' : f \in Executed(p) \/ f = e
    BY <2>1, <2>a, ExecutedCopy, Zenon
  <2>5. ASSUME NEW p \in Ranks, NEW q \in Ranks, NEW f \in Executed(p)', NEW x \in Roles
        PROVE  Asked(q, x, f)'
    BY <1>1, <2>3, <2>4, Zenon
  <2> QED
    BY <2>5, Zenon DEF ReadyEverywhere
<1> QED
  BY <1>2, <1>3

\* Generations are counted up.
LEMMA GensGrow ==
  ASSUME Inv, [Next]_vars, NEW q \in Ranks
  PROVE  gens[q] \in Nat /\ gens'[q] \in Nat /\ gens[q] <= gens'[q]
<1>0. gens \in [Ranks -> Nat]
  BY DEF Inv, TypeInv, BatchTypes
<1>1. gens' = gens \/ \E r \in Ranks : Mismatch(r) \/ Join(r)
  <2>1. ASSUME NEW r \in Ranks,
               \/ \E x \in Roles : Client(r, x) \/ GiveUp(r, x)
               \/ Aside(r) \/ TakeTransfer(r) \/ Handling(r)
        PROVE  gens' = gens
    BY <2>1, ClientFrame, AsideFrame, TakeTransferFrame, HandlingFrame
  <2>2. ASSUME NEW r \in Ranks, TakeRegister(r) \/ Refuse(r) \/ Cleanup(r)
        PROVE  gens' = gens
    BY <2>2 DEF TakeRegister, Refuse, Cleanup
  <2>3. UNCHANGED vars => gens' = gens
    BY DEF vars
  <2> QED
    BY <2>1, <2>2, <2>3, StepKinds DEF Registration
<1>2. ASSUME NEW r \in Ranks, Mismatch(r) \/ Join(r)
      PROVE  gens'[q] \in {gens[q], gens[q] + 1}
  BY <1>0, <1>2 DEF Mismatch, Join
<1> QED
  BY <1>0, <1>1, <1>2

\* A copy is made by all ranks in one generation, which all of them have counted.
LEMMA GenNext ==
  ASSUME Inv, SharedTypes, WorldInv, GroupInv, CountInv, \A p \in Ranks : RoundInv(p),
         GenInv, [Next]_vars
  PROVE  GenInv'
<1>1. \A p \in Ranks : \A e \in Executed(p) : e.gen \in Nat
  <2>1. \A p \in Ranks : copied[p] \in Seq(Entry)
    BY Zenon DEF Inv, TypeInv, BatchTypes
  <2>2. ASSUME NEW p \in Ranks, NEW i \in 1..Len(copied[p]) PROVE copied[p][i].gen \in Nat
    <3>1. copied[p][i] \in Entry
      BY <2>1
    <3> QED
      BY <3>1 DEF Entry
  <2> QED
    BY <2>2, Zenon DEF Executed
<1>2. ASSUME NEW p \in Ranks, NEW q \in Ranks, NEW e \in Executed(p)
      PROVE  e.gen <= gens'[q]
  <2>1. e.gen \in Nat /\ e.gen <= gens[q]
    BY <1>1, Zenon DEF GenInv
  <2> QED
    BY <2>1, GensGrow
<1>3. CASE copied' = copied
  BY <1>2, <1>3, Zenon DEF GenInv, Executed
<1>4. CASE copied' # copied
  <2>1. PICK r \in Ranks : Copy(r)
    BY <1>4, CopiedFrame
  <2>a. PICK e : e = [gen |-> live[r], src |-> dirn[r], round |-> Round(cur[r])]
    BY Zenon
  <2>2. ASSUME NEW q \in Ranks PROVE e.gen <= gens'[q]
    <3>1. e.gen = gens[q]
      BY <2>1, <2>a, CopiedTogether
    <3> QED
      BY <3>1, GensGrow
  <2>3. \A p \in Ranks : \A f \in Executed(p)' : f \in Executed(p) \/ f = e
    BY <2>1, <2>a, ExecutedCopy, Zenon
  <2>4. ASSUME NEW p \in Ranks, NEW q \in Ranks, NEW f \in Executed(p)'
        PROVE  f.gen <= gens'[q]
    BY <1>2, <2>2, <2>3, Zenon
  <2> QED
    BY <2>4, Zenon DEF GenInv
<1> QED
  BY <1>3, <1>4

-----------------------------------------------------------------------------
(* The published round *)

\* The signal is about the leader's batch, at most as far as that has come.
SignalInv ==
  /\ signal # -1 => live[Leader] # 0 /\ joined[Leader] = Roles /\ signal <= done[Leader]
  /\ pc[Leader] = "published" => signal = done[Leader]
  /\ SignalIsTrue

\* A rank has copied what the leader has still to publish.
Behind(r) ==
  \/ pc[r] = "copied"
  \/ pc[r] = "published" /\ Len(group[Leader]) < Len(group[r])

\* A rank of the leader's batch that is not behind did only published rounds.
QueryInv ==
  \A r \in Ranks :
    live[r] = live[Leader] /\ live[r] # 0 /\ ~Behind(r) => signal >= done[r]

\* The leader is a rank.
LEMMA LeaderRank == Leader \in Ranks
BY DualAssumption DEF Leader, Ranks

\* Rounds are numbered from 0; -1 is none.
LEMMA RoundFacts ==
  ASSUME NEW n \in Rounds
  PROVE  n \in Int /\ n >= 0 /\ n # -1
BY DualAssumption DEF Rounds

\* What was executed stays so.
LEMMA ExecutedGrows ==
  ASSUME Inv, \A p \in Ranks : RoundInv(p), [Next]_vars, NEW q \in Ranks
  PROVE  Executed(q) \subseteq Executed(q)'
<1>1. CASE copied' = copied
  BY <1>1, Zenon DEF Executed
<1>2. CASE copied' # copied
  <2>1. PICK r \in Ranks : Copy(r)
    BY <1>2, CopiedFrame
  <2> QED
    BY <2>1, ExecutedCopy, Zenon
<1> QED
  BY <1>1, <1>2

\* How a registration or a cleanup leaves the batch of a rank.
LEMMA BatchMoves ==
  ASSUME Inv, NEW r \in Ranks, Registration(r) \/ Cleanup(r)
  PROVE  /\ UNCHANGED <<copied, group>>
         /\ pc'[r] \notin Executing /\ pc[r] \notin Executing
         /\ \A q \in Ranks \ {r} : /\ SamePlace(q) /\ live'[q] = live[q]
                                   /\ joined'[q] = joined[q] /\ done'[q] = done[q]
         /\ \/ live'[r] = live[r] /\ joined'[r] = joined[r] /\ done'[r] = done[r]
            \/ live'[r] = 0 /\ (Registration(r) => joined[r] # Roles)
            \/ /\ Join(r) /\ live'[r] = Generation(r) /\ joined[r] # Roles
               /\ done[r] = -1 /\ done'[r] = -1
         /\ \/ signal' = signal /\ Registration(r)
            \/ signal' = signal /\ r # Leader /\ live'[r] = 0
            \/ signal' = -1 /\ r = Leader /\ live'[r] = 0
<1>0. BatchTypes /\ BatchInv(r)
  BY DEF Inv, TypeInv, RankInv
<1>1. CASE TakeRegister(r)
  <2>1. /\ UNCHANGED <<copied, group, live, joined, done, signal>>
        /\ pc[r] = "dequeue" /\ TakeTo(r, "register")
    BY <1>1 DEF TakeRegister, TakeTo, Take, batch, store
  <2>2. pc'[r] = "register" /\ \A q \in Ranks \ {r} : SamePlace(q)
    BY <1>0, <2>1 DEF TakeTo, Goto, SamePlace, BatchTypes
  <2> QED
    BY <1>1, <2>1, <2>2 DEF Registration, Executing
<1>2. CASE Refuse(r) \/ Mismatch(r) \/ Join(r)
  <2>1. UNCHANGED <<copied, group, signal>> /\ pc[r] = "register" /\ Leave(r)
    BY <1>2 DEF Refuse, Mismatch, Join, store, comm
  <2>2. /\ pc'[r] \notin Executing /\ pc[r] \notin Executing
        /\ \A q \in Ranks \ {r} : SamePlace(q)
    BY <1>0, <2>1, LeaveType DEF SamePlace, Executing
  <2>3. CASE Drop(r) /\ ~Join(r)
    <3>1. /\ \A q \in Ranks \ {r} : /\ live'[q] = live[q] /\ joined'[q] = joined[q]
                                    /\ done'[q] = done[q]
          /\ live'[r] = 0
      BY <1>0, <2>3 DEF Drop, BatchTypes
    <3>2. joined[r] # Roles
      <4>1. CASE Mismatch(r)
        BY <2>1, <4>1, Missing DEF Mismatch
      <4>2. CASE Refuse(r) /\ held[r] # {}
        BY <1>0, <4>2 DEF BatchInv
      <4>3. CASE Refuse(r) /\ held[r] = {}
        <5>1. live'[r] = live[r]
          BY <4>3 DEF Refuse, batch
        <5> QED
          BY <1>0, <3>1, <5>1 DEF BatchInv, Roles
      <4> QED
        BY <1>2, <2>3, <4>1, <4>2, <4>3
    <3> QED
      BY <1>2, <2>1, <2>2, <3>1, <3>2 DEF Registration
  <2>4. CASE UNCHANGED batch
    BY <1>2, <2>1, <2>2, <2>4 DEF batch, Registration
  <2>5. CASE Join(r)
    <3>1. joined[r] # Roles /\ done' = done
      BY <2>1, <2>5, Missing DEF Join
    <3>2. done[r] = -1
      BY <1>0, <3>1 DEF BatchInv
    <3>3. /\ \A q \in Ranks \ {r} : live'[q] = live[q] /\ joined'[q] = joined[q]
          /\ live'[r] = Generation(r)
      BY <1>0, <2>5 DEF Join, BatchTypes
    <3> QED
      BY <1>2, <2>1, <2>2, <2>5, <3>1, <3>2, <3>3 DEF Registration
  <2> QED
    BY <1>2, <2>3, <2>4, <2>5 DEF Refuse, Mismatch
<1>3. CASE Cleanup(r)
  <2>1. /\ UNCHANGED <<copied, group, pc, cur>> /\ pc[r] = "dequeue" /\ Drop(r)
        /\ signal' = IF r = Leader THEN -1 ELSE signal
    BY <1>3 DEF Cleanup, TakeOnly, Take, Reset, comm
  <2>2. /\ \A q \in Ranks \ {r} : /\ live'[q] = live[q] /\ joined'[q] = joined[q]
                                  /\ done'[q] = done[q]
        /\ live'[r] = 0
    BY <1>0, <2>1 DEF Drop, BatchTypes
  <2>3. ~Registration(r)
    BY <1>3, <2>1 DEF Registration, TakeRegister, Refuse, Mismatch, Join, Cleanup, TakeOnly,
                      TakeTo, Take
  <2> QED
    BY <2>1, <2>2, <2>3 DEF SamePlace, Executing
<1> QED
  BY <1>1, <1>2, <1>3 DEF Registration

\* What a step of a transfer does to the signal.
LEMMA HandlingSignal ==
  ASSUME Inv, NEW r \in Ranks, Handling(r)
  PROVE  /\ signal' = signal \/ (Publish(r) /\ r = Leader /\ signal' = Round(cur[r]))
         /\ Publish(r) => /\ pc[r] = "copied" /\ Everywhere(group, r)
                          /\ done' = done /\ pc'[r] = "published" /\ cur' = cur
                          /\ r = Leader => signal' = Round(cur[r])
         /\ pc'[r] = "published" => Publish(r)
         /\ Copy(r) => /\ pc[r] = "start" /\ pc'[r] = "copied" /\ signal' = signal
                       /\ done'[r] = Round(cur[r])
                       /\ \A q \in Ranks \ {r} : done'[q] = done[q]
         /\ ~Copy(r) => done' = done
<1>0. BatchTypes
  BY DEF Inv, TypeInv
<1>1. CASE Publish(r)
  BY <1>0, <1>1 DEF Publish, Pass, Goto, BatchTypes, batch, Copy
<1>2. CASE Copy(r)
  BY <1>0, <1>2 DEF Publish, Pass, Goto, BatchTypes, Copy, store
<1>3. CASE Enter(r) \/ Begin(r)
  <2>1. /\ signal' = signal /\ done' = done /\ pc[r] \in {"pin", "gather"}
        /\ pc'[r] \in {"gather", "start"}
    BY <1>0, <1>3 DEF Enter, InDirection, Directed, Begin, Pass, Goto, BatchTypes, store, batch
  <2> QED
    BY <2>1 DEF Publish, Copy, Pass
<1>4. CASE \/ WrongDirection(r) \/ PinTimeout(r) \/ Acknowledge(r) \/ Park(r)
           \/ NoBuckets(r) \/ MixedRounds(r) \/ Finish(r)
  <2>1. signal' = signal /\ done' = done /\ pc[r] \in {"pin", "gather", "published"}
    BY <1>4 DEF WrongDirection, PinTimeout, Acknowledge, Park, NoBuckets, MixedRounds,
                Finish, InDirection, Directed, store, batch
  <2>2. pc'[r] \in {"dequeue", "dead"}
    BY <1>0, <1>4 DEF WrongDirection, PinTimeout, Acknowledge, Park, NoBuckets, MixedRounds,
                      Finish, FailRound, Leave, Goto, BatchTypes
  <2> QED
    BY <2>1, <2>2 DEF Publish, Copy, Pass
<1> QED
  BY <1>1, <1>2, <1>3, <1>4 DEF Handling

\* The round that the leader publishes is what every rank copied last.
LEMMA PublishedTogether ==
  ASSUME Inv, SharedTypes, WorldInv, GroupInv, \A p \in Ranks : RoundInv(p),
         NEW r \in Ranks, Publish(r), NEW q \in Ranks
  PROVE  /\ done[q] = Round(cur[r]) /\ live[q] = live[r]
         /\ \/ pc[q] = "copied" /\ Len(group[q]) = Len(group[r])
            \/ pc[q] = "published" /\ Len(group[q]) = Len(group[r]) + 1
         /\ \E e \in Executed(q) : e.gen = live[r] /\ e.round = Round(cur[r])
<1>1. pc[r] = "copied" /\ Everywhere(group, r)
  BY DEF Publish, Pass
<1>2. /\ Round(cur[q]) = Round(cur[r]) /\ live[q] = live[r]
      /\ \/ pc[q] = "copied" /\ Len(group[q]) = Len(group[r])
         \/ pc[q] = "published" /\ Len(group[q]) = Len(group[r]) + 1
  BY <1>1, Together
<1>3. done[q] = Round(cur[q])
  <2>1. pc[q] \in {"copied", "published"} /\ DoneInv(q)
    BY <1>2, Zenon DEF RoundInv
  <2> QED
    BY <2>1, Zenon DEF DoneInv
<1>4. done[q] # -1
  <2>1. Round(cur[r]) \in Rounds
    BY <1>1, TransferFacts DEF Executing
  <2> QED
    BY <1>2, <1>3, <2>1, RoundFacts
<1>5. \E e \in Executed(q) : e.gen = live[q] /\ e.round = done[q]
  BY <1>4, Zenon DEF RoundInv, DoneInv
<1> QED
  BY <1>2, <1>3, <1>5, Zenon

\* Whatever was published stays true: the round of a later publication was
\* copied by everyone, and a batch that goes takes the signal with it.
LEMMA SignalNext ==
  ASSUME Inv, SharedTypes, WorldInv, GroupInv, \A p \in Ranks : RoundInv(p), SignalInv,
         [Next]_vars
  PROVE  SignalInv'
<1>0. /\ Leader \in Ranks /\ BatchTypes /\ signal \in Rounds \cup {-1}
      /\ done \in [Ranks -> Rounds \cup {-1}]
  BY LeaderRank, Zenon DEF Inv, TypeInv, BatchTypes, SharedTypes
<1>1. \A q \in Ranks : Executed(q) \subseteq Executed(q)'
  BY ExecutedGrows
<1>2. ASSUME signal' = signal, live'[Leader] = live[Leader] PROVE SignalIsTrue'
  BY <1>1, <1>2, Zenon DEF SignalInv, SignalIsTrue
<1>3. ASSUME signal' = -1, pc'[Leader] # "published" PROVE SignalInv'
  BY <1>3 DEF SignalInv, SignalIsTrue
<1>4. ASSUME signal' = signal, live'[Leader] = live[Leader],
             joined'[Leader] = joined[Leader], done'[Leader] = done[Leader],
             pc'[Leader] = pc[Leader] \/ pc'[Leader] # "published"
      PROVE  SignalInv'
  BY <1>2, <1>4 DEF SignalInv
<1>5. CASE UNCHANGED vars
  BY <1>4, <1>5 DEF vars, store, batch
<1>6. ASSUME NEW r \in Ranks,
             (\E x \in Roles : Client(r, x) \/ GiveUp(r, x)) \/ Aside(r)
      PROVE  SignalInv'
  <2>1. UNCHANGED <<signal, live, joined, done, pc>>
    BY <1>6, ClientFrame, AsideFrame
  <2> QED
    BY <1>4, <2>1
<1>7. ASSUME NEW r \in Ranks, TakeTransfer(r) PROVE SignalInv'
  <2>1. /\ UNCHANGED <<signal, live, joined, done>> /\ pc'[r] # "published"
        /\ r # Leader => pc'[Leader] = pc[Leader]
    BY <1>0, <1>7, TakeTransferFrame DEF SamePlace
  <2> QED
    BY <1>4, <2>1
<1>8. ASSUME NEW r \in Ranks, Registration(r) \/ Cleanup(r) PROVE SignalInv'
  <2>1. CASE r # Leader
    <3>1. signal' = signal
      BY <1>8, <2>1, BatchMoves
    <3>2. /\ SamePlace(Leader) /\ live'[Leader] = live[Leader]
          /\ joined'[Leader] = joined[Leader] /\ done'[Leader] = done[Leader]
      BY <1>0, <1>8, <2>1, BatchMoves
    <3> QED
      BY <1>4, <3>1, <3>2 DEF SamePlace
  <2>2. CASE r = Leader
    <3>1. pc'[Leader] # "published"
      BY <1>8, <2>2, BatchMoves DEF Executing
    <3>2. CASE signal' = -1
      BY <1>3, <3>1, <3>2
    <3>3. CASE signal' # -1
      <4>1. signal' = signal /\ Registration(r)
        BY <1>8, <2>2, <3>3, BatchMoves
      <4>2. joined[r] = Roles
        BY <2>2, <3>3, <4>1 DEF SignalInv
      <4>3. live'[r] = live[r] /\ joined'[r] = joined[r] /\ done'[r] = done[r]
        BY <1>8, <4>1, <4>2, BatchMoves
      <4> QED
        BY <1>4, <2>2, <3>1, <4>1, <4>3
    <3> QED
      BY <3>2, <3>3
  <2> QED
    BY <2>1, <2>2
<1>9. ASSUME NEW r \in Ranks, Handling(r), prog' = prog PROVE SignalInv'
  <2>0. UNCHANGED <<live, joined>> /\ (r # Leader => SamePlace(Leader))
    BY <1>0, <1>9, HandlingFrame
  <2>1. CASE Publish(r) /\ r = Leader
    <3>1. /\ signal' = Round(cur[r]) /\ done' = done /\ pc[r] = "copied"
      BY <1>9, <2>1, HandlingSignal
    <3>2. live[r] # 0 /\ joined[r] = Roles /\ Round(cur[r]) \in Rounds
      BY <3>1, TransferFacts DEF Executing
    <3>3. done[r] = Round(cur[r])
      BY <2>1, PublishedTogether
    <3>4. \A q \in Ranks : \E e \in Executed(q)' : e.gen = live[r] /\ e.round = Round(cur[r])
      BY <1>1, <2>1, PublishedTogether, SMTT(20)
    <3>5. SignalIsTrue'
      BY <2>0, <2>1, <3>1, <3>4, Zenon DEF SignalIsTrue
    <3>6. signal' <= done'[Leader] /\ signal' = done'[Leader]
      BY <2>1, <3>1, <3>2, <3>3, RoundFacts
    <3> QED
      BY <2>0, <2>1, <3>2, <3>5, <3>6 DEF SignalInv
  <2>2. CASE Copy(r) /\ r = Leader
    <3>1. /\ signal' = signal /\ done'[r] = Round(cur[r]) /\ pc[r] = "start"
          /\ pc'[r] = "copied"
      BY <1>9, <2>2, HandlingSignal
    <3>2. done[r] < Round(cur[r])
      BY <3>1 DEF Inv, RankInv, HandlingInv
    <3>3. Round(cur[r]) \in Rounds
      BY <3>1, TransferFacts DEF Executing
    <3>4. signal # -1 => signal <= Round(cur[r])
      <4>1. signal # -1 => signal <= done[r]
        BY <2>2 DEF SignalInv
      <4>2. signal \in Int /\ done[r] \in Int /\ Round(cur[r]) \in Int
        <5>1. \A n \in Rounds \cup {-1} : n \in Int
          BY RoundOrder, Zenon
        <5>2. done[r] \in Rounds \cup {-1} /\ signal \in Rounds \cup {-1}
          BY Zenon DEF Inv, TypeInv, BatchTypes, SharedTypes
        <5> QED
          BY <3>3, <5>1, <5>2, Zenon
      <4> QED
        BY <3>2, <4>1, <4>2
    <3> QED
      BY <1>2, <2>0, <2>2, <3>1, <3>4 DEF SignalInv
  <2>3. CASE ~(Publish(r) /\ r = Leader) /\ ~(Copy(r) /\ r = Leader)
    <3>1. signal' = signal
      BY <1>9, <2>3, HandlingSignal
    <3>2. done'[Leader] = done[Leader]
      BY <1>0, <1>9, <2>3, HandlingSignal
    <3>3. pc'[Leader] = pc[Leader] \/ pc'[Leader] # "published"
      BY <1>9, <2>0, <2>3, HandlingSignal DEF SamePlace
    <3> QED
      BY <1>4, <2>0, <3>1, <3>2, <3>3
  <2> QED
    BY <2>1, <2>2, <2>3
<1> QED
  BY <1>5, <1>6, <1>7, <1>8, <1>9, StepKinds

\* How the leader's batch and the signal move.
LEMMA LeaderMoves ==
  ASSUME Inv, [Next]_vars
  PROVE  \/ live'[Leader] = 0
         \/ /\ live'[Leader] = live[Leader]
            /\ \/ signal' = signal
               \/ Publish(Leader) /\ signal' = Round(cur[Leader]) /\ live' = live
         \/ live'[Leader] = gens[Leader] + 1 /\ Join(Leader)
<1>0. Leader \in Ranks
  BY LeaderRank
<1>1. CASE UNCHANGED vars
  BY <1>1 DEF vars, store, batch
<1>2. ASSUME NEW r \in Ranks,
             (\E x \in Roles : Client(r, x) \/ GiveUp(r, x)) \/ Aside(r) \/ TakeTransfer(r)
      PROVE  UNCHANGED <<live, signal>>
  BY <1>2, ClientFrame, AsideFrame, TakeTransferFrame
<1>3. ASSUME NEW r \in Ranks, Registration(r) \/ Cleanup(r), live'[Leader] # 0
      PROVE  \/ live'[Leader] = live[Leader] /\ signal' = signal
             \/ live'[Leader] = gens[Leader] + 1 /\ Join(Leader)
  <2>1. CASE r # Leader
    BY <1>0, <1>3, <2>1, BatchMoves
  <2>2. CASE r = Leader
    BY <1>3, <2>2, BatchMoves DEF Generation, NoBatch
  <2> QED
    BY <2>1, <2>2
<1>4. ASSUME NEW r \in Ranks, Handling(r)
      PROVE  /\ live' = live
             /\ signal' = signal \/ (Publish(Leader) /\ signal' = Round(cur[Leader]))
  BY <1>4, HandlingFrame, HandlingSignal
<1> QED
  BY <1>1, <1>2, <1>3, <1>4, StepKinds

\* A registration copies nothing; a batch that is new at the leader has a
\* generation in which nothing was copied yet.
LEMMA QueryQuiet ==
  ASSUME Inv, SharedTypes, QueryInv, GenInv, \A p \in Ranks : RoundInv(p),
         NEW r \in Ranks, Registration(r) \/ Cleanup(r)
  PROVE  QueryInv'
<1>1. /\ \A p \in Ranks \ {r} : live'[p] = live[p]
      /\ live'[r] \in {live[r], 0, Generation(r)}
  BY BatchMoves
<1>2. /\ Leader \in Ranks /\ gens \in [Ranks -> Nat] /\ live \in [Ranks -> Nat]
      /\ done \in [Ranks -> Rounds \cup {-1}] /\ signal \in Rounds \cup {-1}
  BY LeaderRank, Zenon DEF Inv, TypeInv, BatchTypes, SharedTypes
<1>3. signal >= -1
  BY <1>2, RoundFacts, SMTT(20)
<1>4. group' = group
  BY BatchMoves
<1> SUFFICES ASSUME NEW q \in Ranks, live'[q] = live'[Leader], live'[q] # 0, ~Behind(q)'
             PROVE  signal' >= done'[q]
  BY Zenon DEF QueryInv
<1>5. signal' = signal
  BY <1>2, BatchMoves
<1>6. Behind(q) => Behind(q)'
  <2>1. CASE q = r
    BY <2>1, BatchMoves DEF Behind, Executing
  <2>2. CASE q # r
    BY <1>4, <2>2, BatchMoves DEF Behind, SamePlace
  <2> QED
    BY <2>1, <2>2
<1>7. CASE done'[q] = -1
  BY <1>3, <1>5, <1>7
<1>8. CASE done'[q] # -1
  <2>1. live'[q] = live[q] /\ done'[q] = done[q]
    BY <1>8, BatchMoves
  <2>2. CASE live'[Leader] = live[Leader]
    <3>1. live[q] = live[Leader] /\ live[q] # 0 /\ ~Behind(q)
      BY <1>6, <2>1, <2>2, Zenon
    <3>2. signal >= done[q]
      BY <3>1, Zenon DEF QueryInv
    <3> QED
      BY <1>5, <2>1, <3>2
  <2>3. CASE live'[Leader] # live[Leader]
    <3>0. r = Leader
      BY <1>2, <1>1, <2>3
    <3>1. live'[Leader] = Generation(Leader)
      BY <1>1, <2>1, <2>3, <3>0, Zenon
    <3>2. live[q] = gens[Leader] + 1
      <4>1. Generation(Leader) # live[Leader] /\ live[q] = Generation(Leader)
        BY <2>1, <2>3, <3>1, Zenon
      <4>2. Generation(Leader) = gens[Leader] + 1
        BY <4>1, Zenon DEF Generation, NoBatch
      <4> QED
        BY <4>1, <4>2, Zenon
    <3>3. PICK e \in Executed(q) : e.gen = live[q]
      BY <1>8, <2>1, Zenon DEF RoundInv, DoneInv
    <3>4. e.gen <= gens[Leader]
      BY <1>2, Zenon DEF GenInv
    <3> QED
      BY <1>2, <3>2, <3>3, <3>4
  <2> QED
    BY <2>2, <2>3
<1> QED
  BY <1>7, <1>8

\* From the last two barriers a rank only goes on.
LEMMA LastBarriers ==
  ASSUME Inv, NEW r \in Ranks, Handling(r)
  PROVE  /\ pc[r] = "copied" => Publish(r)
         /\ pc[r] = "published" => Everywhere(group, r)
<1>1. CASE \/ WrongDirection(r) \/ PinTimeout(r) \/ Acknowledge(r) \/ Park(r)
           \/ NoBuckets(r) \/ Enter(r)
  BY <1>1 DEF WrongDirection, PinTimeout, Acknowledge, Park, NoBuckets, Enter, InDirection,
              Directed
<1>2. CASE MixedRounds(r) \/ Begin(r) \/ Copy(r) \/ Publish(r) \/ Finish(r)
  BY <1>2 DEF MixedRounds, Begin, Copy, Publish, Finish, Pass
<1> QED
  BY <1>1, <1>2 DEF Handling

\* A rank comes to the publication with the leader, or before it; when it
\* leaves the last barrier the leader has published.
LEMMA QueryHandling ==
  ASSUME Inv, SharedTypes, WorldInv, GroupInv, GroupInv', \A p \in Ranks : RoundInv(p),
         SignalInv, QueryInv, NEW r \in Ranks, Handling(r), prog' = prog
  PROVE  QueryInv'
<1>1. /\ Leader \in Ranks /\ live' = live /\ \A q \in Ranks \ {r} : SamePlace(q)
  BY LeaderRank, HandlingFrame
<1>2. \A q \in Ranks : Len(group[q]) \in Nat /\ done[q] \in Int /\ signal \in Int
  <2>1. done \in [Ranks -> Rounds \cup {-1}] /\ signal \in Rounds \cup {-1}
    BY Zenon DEF Inv, TypeInv, BatchTypes, SharedTypes
  <2> QED
    BY <2>1, GroupLength, RoundFacts, SMTT(20)
<1>3. CASE Publish(r) /\ r = Leader
  <2>1. signal' = Round(cur[r]) /\ done' = done
    BY <1>3, HandlingSignal
  <2>2. \A q \in Ranks : done[q] = Round(cur[r])
    BY <1>3, PublishedTogether
  <2> QED
    BY <1>2, <2>1, <2>2 DEF QueryInv
<1>4. CASE ~(Publish(r) /\ r = Leader)
  <2>0. signal' = signal
    BY <1>4, HandlingSignal
  <2> SUFFICES ASSUME NEW q \in Ranks, live[q] = live[Leader], live[q] # 0, ~Behind(q)'
               PROVE  signal >= done'[q]
    BY <1>1, <2>0, Zenon DEF QueryInv
  <2>1. CASE q = r /\ Copy(r)
    BY <2>1, HandlingSignal DEF Behind
  <2>2. CASE q = r /\ Publish(r)
    <3>1. r # Leader /\ done' = done /\ pc'[r] = "published"
      BY <1>4, <2>2, HandlingSignal
    <3>2. done[r] = Round(cur[r]) /\ done[Leader] = Round(cur[r])
      BY <1>1, <2>2, PublishedTogether
    <3>3. pc[Leader] # "published" => Len(group[Leader]) = Len(group[r])
      BY <1>1, <2>2, PublishedTogether
    <3>4. Len(group[r])' = Len(group[r]) + 1 /\ group'[Leader] = group[Leader]
      <4>1. Collective(r, "published", Round(cur[r])) /\ Round(cur[r]) \in Rounds
        BY <2>2, TransferFacts DEF Publish, Pass, Executing
      <4>2. "published" \in Executing
        BY DEF Executing
      <4> QED
        BY <1>1, <3>1, <4>1, <4>2, CollectiveFacts
    <3>5. pc[Leader] = "published"
      <4> SUFFICES ASSUME pc[Leader] # "published" PROVE Behind(r)'
        BY <2>2
      <4>1. Len(group[Leader])' < Len(group[r])'
        BY <1>1, <1>2, <3>3, <3>4
      <4> QED
        BY <3>1, <4>1 DEF Behind
    <3>6. signal = done[Leader]
      BY <3>5 DEF SignalInv
    <3> QED
      BY <1>2, <2>2, <3>1, <3>2, <3>6
  <2>3. CASE q = r /\ ~Copy(r) /\ ~Publish(r)
    <3>1. done' = done
      BY <2>3, HandlingSignal
    <3>2. ~Behind(r)
      <4>1. pc[r] # "copied" /\ (pc[r] = "published" => Everywhere(group, r))
        BY <2>3, LastBarriers
      <4>2. Everywhere(group, r) => Len(group[Leader]) >= Len(group[r])
        BY <1>1 DEF Everywhere
      <4> QED
        BY <1>1, <1>2, <4>1, <4>2 DEF Behind
    <3>3. signal >= done[r]
      BY <2>3, <3>2, Zenon DEF QueryInv
    <3> QED
      BY <2>3, <3>1, <3>3
  <2>4. CASE q # r
    <3>1. done'[q] = done[q] /\ pc'[q] = pc[q]
      BY <1>1, <2>4, HandlingEffect DEF SamePlace, SameRound
    <3>2. ASSUME Behind(q) PROVE FALSE
      <4>1. /\ pc[q] = "published" /\ Len(group[Leader]) < Len(group[q])
            /\ ~(Len(group[Leader])' < Len(group[q])')
        BY <3>1, <3>2 DEF Behind
      <4>2. group' # group
        BY <4>1
      <4>3. PICK op \in Executing :
              /\ Collective(r, op, Round(cur[r])) /\ pc'[r] = op
              /\ op = "published" <=> Publish(r)
        BY <4>2, Advance
      <4>4. Round(cur[r]) \in Rounds
        BY HandlingFrame, TransferFacts
      <4>5. /\ Len(group[r])' = Len(group[r]) + 1 /\ Last(r)'.op = op
            /\ \A p \in Ranks \ {r} : group'[p] = group[p]
        BY <4>3, <4>4, CollectiveFacts, SMTT(20)
      <4>6. r = Leader
        BY <1>1, <2>4, <4>1, <4>5
      <4>7. Len(group[q])' = Len(group[r])' /\ Len(group[r])' > 0
        BY <1>2, <2>4, <4>1, <4>5, <4>6
      <4>8. Alike(Last(q), Last(r))'
        BY <4>7, Zenon DEF GroupInv
      <4>9. Last(q)'.op = "published"
        <5>1. PlaceInv(q)' /\ pc'[q] = "published" /\ pc'[q] \in Executing
          BY <3>1, <4>1 DEF GroupInv, Executing
        <5> QED
          BY <5>1 DEF PlaceInv
      <4> QED
        BY <1>4, <4>3, <4>5, <4>6, <4>8, <4>9 DEF Alike
    <3>3. signal >= done[q]
      BY <3>2, Zenon DEF QueryInv
    <3> QED
      BY <3>1, <3>3
  <2> QED
    BY <2>1, <2>2, <2>3, <2>4
<1> QED
  BY <1>3, <1>4

\* The other steps leave the copies and the signal alone.
LEMMA QueryNext ==
  ASSUME Inv, SharedTypes, WorldInv, GroupInv, GroupInv', \A p \in Ranks : RoundInv(p),
         GenInv, SignalInv, QueryInv, [Next]_vars
  PROVE  QueryInv'
<1>1. ASSUME UNCHANGED <<signal, live, done, group>>,
             \A q \in Ranks : \/ pc'[q] = pc[q]
                              \/ /\ pc[q] \notin {"copied", "published"}
                                 /\ pc'[q] \notin {"copied", "published"}
      PROVE  QueryInv'
  <2>1. ASSUME NEW q \in Ranks PROVE Behind(q)' <=> Behind(q)
    <3>1. CASE pc'[q] = pc[q]
      BY <1>1, <3>1, Zenon DEF Behind
    <3>2. CASE pc'[q] # pc[q]
      <4>1. /\ pc[q] # "copied" /\ pc[q] # "published"
            /\ pc'[q] # "copied" /\ pc'[q] # "published"
        BY <1>1, <3>2, Zenon
      <4> QED
        BY <4>1, Zenon DEF Behind
    <3> QED
      BY <3>1, <3>2
  <2> QED
    BY <1>1, <2>1, Zenon DEF QueryInv
<1>2. CASE UNCHANGED vars
  BY <1>1, <1>2 DEF vars, batch, store, comm
<1>3. ASSUME NEW r \in Ranks,
             (\E x \in Roles : Client(r, x) \/ GiveUp(r, x)) \/ Aside(r)
      PROVE  QueryInv'
  BY <1>1, <1>3, ClientFrame, AsideFrame
<1>4. ASSUME NEW r \in Ranks, TakeTransfer(r) PROVE QueryInv'
  BY <1>1, <1>4, TakeTransferFrame DEF SamePlace
<1>5. ASSUME NEW r \in Ranks, Registration(r) \/ Cleanup(r) PROVE QueryInv'
  BY <1>5, QueryQuiet
<1>6. ASSUME NEW r \in Ranks, Handling(r), prog' = prog PROVE QueryInv'
  BY <1>6, QueryHandling
<1> QED
  BY <1>2, <1>3, <1>4, <1>5, <1>6, StepKinds

-----------------------------------------------------------------------------
(* What a transfer's client is told *)

\* Rank r tells c that its round was done, after the last barrier.
Confirms(r, c) ==
  /\ Handling(r) /\ signal' = signal /\ ~Behind(r)
  /\ c.rank = r /\ stamp[c] = live[r] /\ Round(c) <= done[r]

\* A command of a rank's transfer is confirmed.
LEMMA ConfirmedRound ==
  ASSUME Inv, SharedTypes, GroupInv, \A p \in Ranks : RoundInv(p),
         NEW r \in Ranks, Acknowledge(r) \/ Finish(r),
         NEW c \in Calls, reply'[c] = "ok", reply[c] # "ok"
  PROVE  Confirms(r, c)
<1>1. /\ Handling(r) /\ pc[r] \in Executing \cup {"pin"} /\ signal' = signal
  BY DEF Handling, Acknowledge, Finish, InDirection, Directed, Executing, store
<1>2. /\ cur[r] \in Calls /\ cur[r].rank = r /\ Round(cur[r]) \in Rounds
      /\ stamp[cur[r]] = live[r]
  BY <1>1, TransferFacts, Zenon DEF Of
<1>3. c \in Cmds /\ c \in parked[r][Round(cur[r])] \cup {cur[r]}
  BY CallType DEF Acknowledge, Finish, Answer
<1>4. c.rank = r /\ stamp[c] = live[r] /\ Round(c) = Round(cur[r])
  <2>1. CASE c = cur[r]
    BY <1>2, <2>1
  <2>2. CASE c \in parked[r][Round(cur[r])]
    <3>1. ParkedInv(r)
      BY DEF RoundInv
    <3>2. Sent(r, c) /\ Round(c) = Round(cur[r]) /\ stamp[c] = live[r]
      BY <1>2, <2>2, <3>1, Zenon DEF ParkedInv
    <3> QED
      BY <3>2, Zenon DEF Sent, Of
  <2> QED
    BY <1>3, <2>1, <2>2
<1>5. ~Behind(r) /\ Round(cur[r]) <= done[r]
  <2>1. CASE Acknowledge(r)
    BY <2>1 DEF Acknowledge, InDirection, Directed, Behind, Old
  <2>2. CASE Finish(r)
    <3>1. pc[r] = "published" /\ Everywhere(group, r)
      BY <2>2 DEF Finish
    <3>2. ~(Len(group[Leader]) < Len(group[r]))
      <4>1. Len(group[Leader]) >= Len(group[r])
        BY <3>1, LeaderRank, Zenon DEF Everywhere
      <4>2. Len(group[Leader]) \in Nat /\ Len(group[r]) \in Nat
        BY LeaderRank, GroupLength
      <4> QED
        BY <4>1, <4>2
    <3>3. done[r] = Round(cur[r])
      BY <3>1, Zenon DEF RoundInv, DoneInv
    <3>4. Round(cur[r]) <= done[r]
      <4>1. Round(cur[r]) \in Int
        BY <1>2, RoundFacts, Zenon
      <4> QED
        BY <3>3, <4>1
    <3> QED
      BY <3>1, <3>2, <3>4 DEF Behind
  <2> QED
    BY <2>1, <2>2
<1> QED
  BY <1>1, <1>4, <1>5 DEF Confirms

\* A transfer that is told it succeeded was told so before, or is confirmed.
LEMMA Successes ==
  ASSUME Inv, SharedTypes, WorldInv, GroupInv, \A p \in Ranks : RoundInv(p), [Next]_vars,
         NEW c \in Calls, IsTransfer(c), reply'[c] = "ok"
  PROVE  /\ stamp'[c] = stamp[c]
         /\ reply[c] = "ok" \/ \E r \in Ranks : Confirms(r, c)
<1>0. /\ c \in Cmds /\ reply \in [Cmds -> Answers] /\ stamp \in [Cmds -> Nat]
  BY CallType, Zenon DEF Inv, TypeInv, ClientTypes
<1>1. CASE UNCHANGED vars
  BY <1>1 DEF vars, clients
<1>2. ASSUME NEW r \in Ranks, NEW x \in Roles, Client(r, x) \/ GiveUp(r, x)
      PROVE  stamp'[c] = stamp[c] /\ reply[c] = "ok"
  <2>1. CASE Send(r, x)
    <3>1. c # NextCmd(r, x)
      BY <1>0, <2>1 DEF Send
    <3> QED
      BY <1>0, <2>1, <3>1 DEF Send
  <2>2. CASE Skip(r, x) \/ Return(r, x) \/ GiveUp(r, x)
    BY <2>2 DEF Skip, Return, GiveUp
  <2> QED
    BY <1>2, <2>1, <2>2 DEF Client
<1>3. ASSUME NEW r \in Ranks, Aside(r)
      PROVE  stamp'[c] = stamp[c] /\ reply[c] = "ok"
  <2>1. stamp' = stamp
    BY <1>3, AsideFrame
  <2>2. CASE RefuseTransfer(r) \/ Query(r)
    <3>1. \A o \in {"error", "yes", "no"} : Answer({Head(inbox[r])}, o) => reply[c] = "ok"
      BY <1>0 DEF Answer
    <3>2. \E o \in {"error", "yes", "no"} : Answer({Head(inbox[r])}, o)
      BY <2>2 DEF RefuseTransfer, Query
    <3> QED
      BY <2>1, <3>1, <3>2
  <2>3. CASE IgnoreCleanup(r)
    <3>1. StepOf(Head(inbox[r])).op = "close" /\ Answer({Head(inbox[r])}, "ok")
      BY <2>3 DEF IgnoreCleanup
    <3>2. c # Head(inbox[r])
      BY <3>1 DEF IsTransfer
    <3> QED
      BY <1>0, <2>1, <3>1, <3>2 DEF Answer
  <2> QED
    BY <1>3, <2>2, <2>3 DEF Aside
<1>4. ASSUME NEW r \in Ranks, Registration(r)
      PROVE  stamp'[c] = stamp[c] /\ reply[c] = "ok"
  <2>1. stamp' = stamp
    BY <1>4 DEF Registration, TakeRegister, Refuse, Mismatch, Join, clients
  <2>2. CASE TakeRegister(r) \/ reply' = reply
    BY <2>1, <2>2 DEF TakeRegister
  <2>3. CASE Refuse(r) \/ Mismatch(r)
    <3>1. Answer(held[r] \cup {cur[r]}, "error")
      BY <2>3 DEF Refuse, Mismatch
    <3> QED
      BY <1>0, <2>1, <3>1 DEF Answer
  <2>4. CASE Join(r) /\ reply' # reply
    <3>1. Answer(held[r] \cup {cur[r]}, "ok") /\ pc[r] = "register"
      BY <2>4 DEF Join
    <3>2. c # cur[r]
      BY <3>1 DEF Inv, RankInv, HandlingInv, IsTransfer
    <3>3. c \notin held[r]
      BY Zenon DEF WorldInv, OpenInv, IsTransfer
    <3> QED
      BY <1>0, <2>1, <3>1, <3>2, <3>3 DEF Answer
  <2> QED
    BY <1>4, <2>2, <2>3, <2>4 DEF Registration
<1>5. ASSUME NEW r \in Ranks, Cleanup(r)
      PROVE  stamp'[c] = stamp[c] /\ reply[c] = "ok"
  <2>1. /\ stamp' = stamp /\ StepOf(Head(inbox[r])).op = "close"
        /\ Release(r, Head(inbox[r]))
    BY <1>5 DEF Cleanup, clients
  <2>2. c # Head(inbox[r])
    BY <2>1 DEF IsTransfer
  <2> QED
    BY <1>0, <2>1, <2>2 DEF Release
<1>6. ASSUME NEW r \in Ranks, TakeTransfer(r)
      PROVE  stamp'[c] = stamp[c] /\ reply[c] = "ok"
  BY <1>6, TakeTransferFrame
<1>7. ASSUME NEW r \in Ranks, Handling(r)
      PROVE  stamp'[c] = stamp[c] /\ (reply[c] = "ok" \/ Confirms(r, c))
  <2>1. stamp' = stamp
    BY <1>7, HandlingFrame
  <2>2. CASE Acknowledge(r) \/ Finish(r)
    BY <2>1, <2>2, ConfirmedRound
  <2>3. CASE Park(r) \/ Enter(r) \/ Begin(r) \/ Copy(r) \/ Publish(r)
    BY <2>1, <2>3 DEF Park, Enter, Begin, Copy, Publish
  <2>4. CASE WrongDirection(r) \/ PinTimeout(r) \/ NoBuckets(r) \/ MixedRounds(r)
    <3>1. Answer({cur[r]}, "error") \/ Answer(Arrived(r), "error")
      BY <2>4 DEF WrongDirection, PinTimeout, NoBuckets, MixedRounds, FailRound
    <3> QED
      BY <1>0, <2>1, <3>1 DEF Answer
  <2> QED
    BY <1>7, <2>2, <2>3, <2>4 DEF Handling
<1> QED
  BY <1>1, <1>2, <1>3, <1>4, <1>5, <1>6, <1>7, StepKinds

\* A call is about a round.
LEMMA CallRound ==
  ASSUME Inv, NEW c \in Calls
  PROVE  Round(c) \in Rounds
BY StepType DEF Inv, TypeInv, ClientTypes

\* What is executed is of a generation that was counted.
LEMMA ExecutedGen ==
  ASSUME Inv, NEW r \in Ranks, NEW e \in Executed(r)
  PROVE  e.gen \in Nat /\ e.gen # 0 /\ e.round \in Int
<1>1. PICK i \in 1..Len(copied[r]) : e = copied[r][i]
  BY DEF Executed
<1>2. copied[r] \in Seq(Entry)
  BY Zenon DEF Inv, TypeInv, BatchTypes
<1>3. e \in Entry
  BY <1>1, <1>2
<1>4. e.gen \in 1..gens[r]
  BY <1>1, Zenon DEF Inv, RankInv, CopyInv, Logged
<1>5. e.round \in Rounds /\ e.gen \in Nat
  BY <1>3 DEF Entry
<1> QED
  BY <1>4, <1>5, RoundFacts

\* What a rank confirms was executed there.
LEMMA ConfirmedExecuted ==
  ASSUME Inv, \A p \in Ranks : RoundInv(p), NEW r \in Ranks, NEW c \in Calls, IsTransfer(c),
         Confirms(r, c)
  PROVE  \E e \in Executed(r) : e.gen = stamp[c] /\ e.round = done[r]
<1>1. done[r] # -1
  <2>1. Round(c) \in Rounds
    BY CallRound
  <2> QED
    BY <2>1, RoundFacts DEF Confirms
<1> QED
  BY <1>1, Zenon DEF RoundInv, DoneInv, Confirms

\* Success is only ever told of what was executed.
LEMMA FailClosedNext ==
  ASSUME Inv, SharedTypes, WorldInv, GroupInv, \A p \in Ranks : RoundInv(p), FailClosed,
         [Next]_vars
  PROVE  FailClosed'
<1>0. prog' = prog
  BY ProgKept
<1> SUFFICES ASSUME NEW c \in Calls, IsTransfer(c), reply'[c] = "ok"
             PROVE  \E e \in Executed(c.rank)' : e.gen = stamp'[c] /\ e.round >= Round(c)
  BY <1>0, CallsKept, Zenon DEF FailClosed
<1>1. stamp'[c] = stamp[c]
  BY Successes
<1>2. \E e \in Executed(c.rank) : e.gen = stamp[c] /\ e.round >= Round(c)
  <2>1. CASE reply[c] = "ok"
    BY <2>1, Zenon DEF FailClosed
  <2>2. CASE \E r \in Ranks : Confirms(r, c)
    <3>1. PICK r \in Ranks : Confirms(r, c)
      BY <2>2
    <3>2. PICK e \in Executed(r) : e.gen = stamp[c] /\ e.round = done[r]
      BY <3>1, ConfirmedExecuted
    <3>3. c.rank = r /\ Round(c) <= done[r]
      BY <3>1 DEF Confirms
    <3>4. e.round >= Round(c)
      <4>1. e.round \in Int /\ Round(c) \in Int
        BY ExecutedGen, CallRound, RoundFacts
      <4> QED
        BY <3>2, <3>3, <4>1
    <3> QED
      BY <3>2, <3>3, <3>4, Zenon
  <2> QED
    BY <2>1, <2>2, Successes
<1>3. Executed(c.rank) \subseteq Executed(c.rank)'
  BY CallType, ExecutedGrows
<1> QED
  BY <1>1, <1>2, <1>3, Zenon

\* Whoever was told of a success finds the round published, for as long as the
\* leader has the batch: a new batch of the leader has another generation.
LEMMA QueryableNext ==
  ASSUME Inv, SharedTypes, WorldInv, GroupInv, \A p \in Ranks : RoundInv(p), GenInv,
         SignalInv, QueryInv, FailClosed, QueryableOnReturn, [Next]_vars
  PROVE  QueryableOnReturn'
<1>0. prog' = prog /\ Leader \in Ranks
  BY ProgKept, LeaderRank
<1> SUFFICES ASSUME NEW c \in Calls, IsTransfer(c), reply'[c] = "ok",
                    stamp'[c] = live'[Leader]
             PROVE  signal' >= Round(c)
  BY <1>0, CallsKept, Zenon DEF QueryableOnReturn
<1>1. stamp'[c] = stamp[c]
  BY Successes
<1>2. /\ signal \in Int /\ done[Leader] \in Int /\ Round(c) \in Int /\ Round(c) >= 0
      /\ gens[Leader] \in Nat
  <2>1. /\ done \in [Ranks -> Rounds \cup {-1}] /\ signal \in Rounds \cup {-1}
        /\ gens \in [Ranks -> Nat]
    BY Zenon DEF Inv, TypeInv, BatchTypes, SharedTypes
  <2>2. \A n \in Rounds \cup {-1} : n \in Int
    BY RoundOrder, Zenon
  <2>3. Round(c) \in Int /\ Round(c) >= 0
    BY CallRound, RoundFacts, Zenon
  <2> QED
    BY <1>0, <2>1, <2>2, <2>3, Zenon
<1>3. CASE \E r \in Ranks : Confirms(r, c)
  <2>1. PICK r \in Ranks : Confirms(r, c)
    BY <1>3
  <2>2. live' = live /\ signal' = signal
    BY <2>1, HandlingFrame DEF Confirms
  <2>3. live[r] = live[Leader] /\ live[r] # 0 /\ ~Behind(r)
    <3>1. live[r] # 0
      BY <2>1, HandlingFrame, TransferFacts DEF Confirms
    <3> QED
      BY <1>1, <2>1, <2>2, <3>1, Zenon DEF Confirms
  <2>4. signal >= done[r]
    BY <2>3, Zenon DEF QueryInv
  <2>5. done[r] \in Int
    <3>1. done[r] \in Rounds \cup {-1}
      BY Zenon DEF Inv, TypeInv, BatchTypes
    <3> QED
      BY <3>1, RoundFacts
  <2> QED
    BY <1>2, <2>1, <2>2, <2>4, <2>5 DEF Confirms
<1>4. CASE reply[c] = "ok"
  <2>1. PICK e \in Executed(c.rank) : e.gen = stamp[c]
    BY <1>4, Zenon DEF FailClosed
  <2>2. c.rank \in Ranks
    BY CallType
  <2>3. e.gen \in Nat /\ e.gen # 0 /\ e.gen <= gens[Leader]
    BY <1>0, <2>2, ExecutedGen, Zenon DEF GenInv
  <2>4. CASE live'[Leader] = live[Leader] /\ signal' = signal
    BY <1>1, <1>4, <2>4, Zenon DEF QueryableOnReturn
  <2>5. CASE live'[Leader] = live[Leader] /\ Publish(Leader) /\ signal' = Round(cur[Leader])
    <3>1. signal >= Round(c)
      BY <1>1, <1>4, <2>5, Zenon DEF QueryableOnReturn
    <3>2. done[Leader] = Round(cur[Leader])
      BY <1>0, <2>5, PublishedTogether
    <3>3. signal # -1 => signal <= done[Leader]
      BY DEF SignalInv
    <3> QED
      BY <1>2, <2>5, <3>1, <3>2, <3>3
  <2>6. CASE live'[Leader] = 0 \/ live'[Leader] = gens[Leader] + 1
    <3>1. e.gen = 0 \/ e.gen = gens[Leader] + 1
      BY <1>1, <2>1, <2>6, Zenon
    <3>2. gens[Leader] \in Nat /\ e.gen \in Nat /\ e.gen # 0 /\ e.gen <= gens[Leader]
      BY <1>2, <2>3, Zenon
    <3> QED
      BY <3>1, <3>2
  <2> QED
    BY <2>4, <2>5, <2>6, LeaderMoves
<1> QED
  BY <1>3, <1>4, Successes

-----------------------------------------------------------------------------
(* All of it *)

GlobalInv ==
  /\ SharedTypes /\ WorldInv /\ GroupInv
  /\ \A r \in Ranks : RoundInv(r)
  /\ CountInv /\ GenInv
  /\ RoundsAreGlobal
  /\ SignalInv /\ QueryInv
  /\ SuccessIsTrue

\* Nothing is registered, transferred or published at first.
LEMMA GlobalInit ==
  ASSUME Init
  PROVE  GlobalInv
<1>1. SharedTypes
  BY DEF Init, SharedTypes, Layouts
<1>2. /\ \A r \in Ranks : /\ pc[r] = "dequeue" /\ live[r] = 0 /\ held[r] = {} /\ gens[r] = 0
                          /\ sign[r] = "none" /\ dirn[r] = "none" /\ done[r] = -1
                          /\ group[r] = << >> /\ world[r] = << >> /\ copied[r] = << >>
      /\ \A r \in Ranks : \A n \in Rounds : parked[r][n] = {}
      /\ \A c \in Cmds : reply[c] = "none"
      /\ signal = -1
  BY DEF Init
<1>3. \A r \in Ranks : /\ Len(group[r]) = 0 /\ Len(world[r]) = 0 /\ Len(copied[r]) = 0
                       /\ Executed(r) = {}
  BY <1>2, SMTT(20) DEF Executed
<1>4. WorldInv
  <2>1. \A r \in Ranks : OpenInv(r) /\ ~Open(r) /\ Applied(r) = 0
    BY <1>2, <1>3 DEF OpenInv, Open, Applied
  <2> QED
    BY <1>2, <1>3, <2>1, SMTT(20) DEF WorldInv, Agree
<1>5. GroupInv
  <2>1. \A r \in Ranks : PlaceInv(r) /\ Passed(r) = 0
    BY <1>2, <1>3, SMT DEF PlaceInv, Ended, Passed, Executing
  <2> QED
    BY <1>3, <2>1 DEF GroupInv
<1>6. \A r \in Ranks : RoundInv(r)
  BY <1>2 DEF RoundInv, DirInv, ParkedInv, BothInv, DoneInv, Executing
<1>7. CountInv /\ GenInv
  <2>1. \A q, r \in Ranks : /\ Len(copied[q]) = Len(copied[r])
                            /\ Len(group[q]) # Len(group[r]) + 1
    BY <1>3
  <2>2. CountInv
    BY <2>1, Zenon DEF CountInv
  <2> QED
    BY <1>3, <2>2, Zenon DEF GenInv
<1>8. RoundsAreGlobal
  BY <1>3, SMTT(20) DEF RoundsAreGlobal, ReadyEverywhere, SameRounds
<1>9. SignalInv /\ QueryInv
  <2>1. SignalInv
    BY <1>2, LeaderRank DEF SignalInv, SignalIsTrue
  <2>2. \A r \in Ranks : live[r] = 0
    BY <1>2
  <2> QED
    BY <2>1, <2>2, Zenon DEF QueryInv
<1>10. SuccessIsTrue
  BY <1>2, CallType DEF SuccessIsTrue, FailClosed, QueryableOnReturn
<1> QED
  BY <1>1, <1>4, <1>5, <1>6, <1>7, <1>8, <1>9, <1>10 DEF GlobalInv

\* Every step keeps it.
LEMMA GlobalNext ==
  ASSUME OneMembership, Inv, GlobalInv, [Next]_vars
  PROVE  GlobalInv'
<1>0. /\ SharedTypes /\ WorldInv /\ GroupInv /\ CountInv /\ GenInv /\ SignalInv /\ QueryInv
      /\ ReadyEverywhere /\ SameRounds /\ FailClosed /\ QueryableOnReturn
      /\ \A r \in Ranks : RoundInv(r)
  BY DEF GlobalInv, RoundsAreGlobal, SuccessIsTrue
<1>1. SharedTypes'
  BY <1>0, SharedNext
<1>2. WorldInv'
  BY <1>0, WorldNext
<1>3. GroupInv'
  BY <1>0, GroupNext
<1>4. \A r \in Ranks : RoundInv(r)'
  BY <1>0, RoundNext
<1>5. CountInv'
  BY <1>0, <1>3, CountNext
<1>6. GenInv'
  BY <1>0, GenNext
<1>7. RoundsAreGlobal'
  BY <1>0, ReadyNext, SameRoundsNext DEF RoundsAreGlobal
<1>8. SignalInv'
  BY <1>0, SignalNext
<1>9. QueryInv'
  BY <1>0, <1>3, QueryNext
<1>10. SuccessIsTrue'
  BY <1>0, FailClosedNext, QueryableNext DEF SuccessIsTrue
<1> QED
  BY <1>1, <1>2, <1>3, <1>4, <1>5, <1>6, <1>7, <1>8, <1>9, <1>10 DEF GlobalInv

-----------------------------------------------------------------------------
(* The theorems *)

\* The ranks stay in step, when no rank refuses on its own what the others count.
LEMMA GlobalAlways ==
  ASSUME OneMembership
  PROVE  Spec => []GlobalInv
<1>1. Init => GlobalInv
  BY GlobalInit
<1>2. Inv /\ GlobalInv /\ [Next]_vars => GlobalInv'
  BY GlobalNext
<1> QED
  BY <1>1, <1>2, InvAlways, PTL DEF Spec

\* Ranks that handled the same registrations count the same generations, whichever of
\* them were refused, aborted, mismatched or joined and whatever was closed in between.
THEOREM GenerationsAgree ==
  ASSUME OneMembership
  PROVE  Spec => []SameGenerations
<1>1. GlobalInv => SameGenerations
  <2> SUFFICES ASSUME GlobalInv, NEW r \in Ranks, NEW q \in Ranks,
                      Len(world[r]) = Len(world[q]),
                      pc[r] # "register", pc[q] # "register"
               PROVE  gens[r] = gens[q]
    BY DEF SameGenerations
  <2>1. Applied(r) = Applied(q)
    BY Zenon DEF Applied
  <2> QED
    BY <2>1, Zenon DEF GlobalInv, WorldInv, Agree
<1> QED
  BY <1>1, GlobalAlways, PTL

\* A rank copies weights only after both roles' clients at every rank asked for that
\* round in that generation, and all ranks copy the same rounds in the same order.
THEOREM RoundsAreShared ==
  ASSUME OneMembership
  PROVE  Spec => []RoundsAreGlobal
<1>1. GlobalInv => RoundsAreGlobal
  BY DEF GlobalInv
<1> QED
  BY <1>1, GlobalAlways, PTL

\* The round that the store says is complete is one of the leader's present batch that
\* every rank has copied.
THEOREM PublishedIsCopied ==
  ASSUME OneMembership
  PROVE  Spec => []SignalIsTrue
<1>1. GlobalInv => SignalIsTrue
  BY DEF GlobalInv, SignalInv
<1> QED
  BY <1>1, GlobalAlways, PTL

\* A transfer that its client is told succeeded was executed at that rank in its
\* generation, or a later round was, and it can be queried from then on.
THEOREM SuccessIsNeverFalse ==
  ASSUME OneMembership
  PROVE  Spec => []SuccessIsTrue
<1>1. GlobalInv => SuccessIsTrue
  BY DEF GlobalInv
<1> QED
  BY <1>1, GlobalAlways, PTL
=============================================================================

--------------------------- MODULE BucketPipeline ---------------------------
(***************************************************************************)
(* bucket_comm on every rank of a redistribution (comm/comm_methods.py,    *)
(* comm/ir.py, comm/transfer.py): buckets are prepared, launched and       *)
(* finalized, channel by channel, while the other ranks do the same at     *)
(* their own pace.                                                         *)
(*                                                                         *)
(* A value is the bag of source cells, <<rank, tensor, cell>>, summed into *)
(* it.  The k-th operation a rank posts on a wire meets the k-th of the    *)
(* other members; the k-th all_reduce of a group likewise, and it blocks.  *)
(***************************************************************************)
EXTENDS Buckets, Bags

LOCAL INSTANCE SequencesExt

CONSTANTS
  Jobs,         \* the redistributions to run
  MaxInFlight   \* buckets of a channel prepared or in flight: 2 in bucket_comm

VARIABLES
  job,      \* the redistribution of this behaviour
  plan,     \* what registration computed for it: routes, buckets, channels, groups
  phase,    \* per rank: the loop of bucket_comm it is in
  chan,     \* per rank: the channel that loop served last
  nprep, nlaunch, nfinal,  \* per rank and channel: buckets that got that far
  busy,     \* per rank: the reduction inside Chunk.prepare it is blocked in
  calls,    \* per rank: its all_reduce calls
  buffer,   \* per rank and bucket: the values assembled by prepare
  posted,   \* per rank: the buckets whose wire operation it posted
  target    \* per rank: cells written to the target tensors

vars == <<job, plan, phase, chan, nprep, nlaunch, nfinal, busy, calls, buffer, posted, target>>

Ranks == RanksIn(job)
Bucket(r, b) == plan.buckets[r][b]
NBuckets(r) == Len(plan.buckets[r])

-----------------------------------------------------------------------------
(* Channels *)

\* The buckets that are the first ones with their key.
FirstOfKeys(buckets) ==
  SelectSeq([b \in 1..Len(buckets) |-> b],
            LAMBDA b : \A a \in 1..(b - 1) : buckets[a].key # buckets[b].key)

\* Keys in the order the bucket list meets them, each with its buckets.
ByKey(buckets) ==
  With(FirstOfKeys(buckets), LAMBDA first :
    [k \in 1..Len(first) |->
       SelectSeq([b \in 1..Len(buckets) |-> b],
                 LAMBDA b : buckets[b].key = buckets[first[k]].key)])

\* Mutant: sequential=True is ignored.
NeverSequential(j) == FALSE

\* Dual-endpoint batches ask for it.
Sequential(j) == j.sequential

\* One queue per key.  The sequential mode runs the list one bucket at a time,
\* which is one queue with room for one bucket.
Channels(j, buckets) ==
  IF Sequential(j) THEN <<[b \in 1..Len(buckets) |-> b]>> ELSE ByKey(buckets)

\* What registration computes once for a job.
PlanOf(j, there, back) ==
  With([r \in RanksIn(j) |-> BucketsOf(j, there, r)], LAMBDA buckets :
    [routes   |-> there,
     middle   |-> MiddleShape(Effective(j.src), j.tgt),
     buckets  |-> buckets,
     channels |-> [r \in RanksIn(j) |-> Channels(j, buckets[r])],
     groups   |-> [r \in RanksIn(j) |-> CreatedGroups(j, there, back, r)]])

\* A split pair registers both directions.
RoutesBack(j) ==
  IF RanksOf(j.src) \cap RanksOf(j.tgt) = {} /\ PartialDims(j.src) = <<>>
    THEN Routes(j.tgt, j.src) ELSE <<>>

Chans(r) == 1..Len(plan.channels[r])
Queue(r, c) == plan.channels[r][c]
Limit == IF Sequential(job) THEN 1 ELSE MaxInFlight

\* On CUDA the pipeline polls; on the CPU, and in sequential mode, it waits.
Polls == job.device = "cuda" /\ ~Sequential(job)

HasCandidate(r, c) == nprep[r][c] < Len(Queue(r, c))

MayPrepare(r, c) == HasCandidate(r, c) /\ nprep[r][c] - nfinal[r][c] < Limit
InFlight(r, c) == nfinal[r][c] < nlaunch[r][c]
HasWork(r) == \E c \in Chans(r) : nfinal[r][c] < Len(Queue(r, c))

\* The loops go over the channels again and again: the next one, after the last
\* served, that is in S.
NextChannel(r, S) ==
  IF \E c \in S : c > chan[r]
    THEN CHOOSE c \in S : c > chan[r] /\ \A d \in S : d > chan[r] => c <= d
    ELSE CHOOSE c \in S : \A d \in S : c <= d

-----------------------------------------------------------------------------
(* Prepare *)

\* What a rank reads for a source chunk.
OwnValue(r, c) ==
  SetToBag({<<r, c.tensor,
              GlobalCell(Effective(job.src), plan.middle, r, c.src.cell)>>})

Value(r, c) == IF c.isSource THEN OwnValue(r, c) ELSE EmptyBag

\* The all_reduce of chunk number i of bucket b over its group number g.
Call(r, b, i, g, v) ==
  [group |-> Bucket(r, b).chunks[i].groups[g], value |-> v,
   what |-> [tensor |-> Bucket(r, b).chunks[i].tensor, cell |-> Bucket(r, b).chunks[i].src.cell]]

PrepareBucket(r) ==
  /\ phase[r] = "prepare"
  /\ \E c \in Chans(r) : MayPrepare(r, c)
  /\ LET c == NextChannel(r, {d \in Chans(r) : MayPrepare(r, d)})
         b == Queue(r, c)[nprep[r][c] + 1]
         chunks == Bucket(r, b).chunks IN
     /\ chan' = [chan EXCEPT ![r] = c]
     /\ IF chunks[1].groups = <<>>
          THEN /\ buffer' = [buffer EXCEPT ![r][b] = [i \in 1..Len(chunks) |-> Value(r, chunks[i])]]
               /\ nprep' = [nprep EXCEPT ![r][c] = @ + 1]
               /\ UNCHANGED <<phase, busy, calls>>
          ELSE /\ phase' = [phase EXCEPT ![r] = "reduce"]
               /\ busy' = [busy EXCEPT ![r] = [bucket |-> b, chunk |-> 1, group |-> 1]]
               /\ calls' = [calls EXCEPT ![r] = Append(@, Call(r, b, 1, 1, OwnValue(r, chunks[1])))]
               /\ UNCHANGED <<buffer, nprep>>
  /\ UNCHANGED <<job, plan, nlaunch, nfinal, posted, target>>

CallsOn(r, group) == SelectSeq(calls[r], LAMBDA k : k.group = group)

\* The all_reduce a rank is in returns once every member has made it.
FinishReduce(r) ==
  LET at     == busy[r]
      chunks == Bucket(r, at.bucket).chunks
      group  == chunks[at.chunk].groups[at.group]
      k      == Len(CallsOn(r, group))
      sum    == FoldLeft(LAMBDA v, q : v (+) CallsOn(q, group)[k].value, EmptyBag, AsTuple(group))
      issue(i, g, v) ==
        /\ busy' = [busy EXCEPT ![r] = [bucket |-> at.bucket, chunk |-> i, group |-> g]]
        /\ calls' = [calls EXCEPT ![r] = Append(@, Call(r, at.bucket, i, g, v))] IN
  /\ phase[r] = "reduce"
  /\ \A q \in group : Len(CallsOn(q, group)) >= k
  /\ \/ /\ at.group < Len(chunks[at.chunk].groups)
        /\ issue(at.chunk, at.group + 1, sum)
        /\ UNCHANGED <<phase, nprep, buffer>>
     \/ /\ at.group = Len(chunks[at.chunk].groups)
        /\ buffer' = [buffer EXCEPT ![r][at.bucket] = Append(@, sum)]
        /\ IF at.chunk < Len(chunks)
             THEN /\ issue(at.chunk + 1, 1, OwnValue(r, chunks[at.chunk + 1]))
                  /\ UNCHANGED <<phase, nprep>>
             ELSE /\ phase' = [phase EXCEPT ![r] = "prepare"]
                  /\ nprep' = [nprep EXCEPT ![r][chan[r]] = @ + 1]
                  /\ UNCHANGED <<busy, calls>>
  /\ UNCHANGED <<job, plan, chan, nlaunch, nfinal, posted, target>>

-----------------------------------------------------------------------------
(* Launch *)

\* Each pass over the channels launches one prepared bucket of each.
LaunchOrder(r) ==
  FlattenSeq([p \in 1..Limit |->
    FlattenSeq([c \in Chans(r) |->
      IF nlaunch[r][c] + p <= nprep[r][c] THEN <<Queue(r, c)[nlaunch[r][c] + p]>> ELSE <<>>])])

\* Once nothing more can be prepared, what is prepared is launched; waiting for
\* the buffer's event keeps the order.
LaunchPrepared(r) ==
  /\ phase[r] = "prepare"
  /\ \A c \in Chans(r) : ~MayPrepare(r, c)
  /\ posted' = [posted EXCEPT ![r] = @ \o SelectSeq(LaunchOrder(r), LAMBDA b : HasWire(Bucket(r, b)))]
  /\ nlaunch' = [nlaunch EXCEPT ![r] = nprep[r]]
  /\ phase' = [phase EXCEPT ![r] = "finalize"]
  /\ chan' = [chan EXCEPT ![r] = 0]
  /\ UNCHANGED <<job, plan, nprep, nfinal, busy, calls, buffer, target>>

-----------------------------------------------------------------------------
(* Finalize *)

PostedOn(r, w) == SelectSeq(posted[r], LAMBDA b : Wire(Bucket(r, b)) = w)

\* Which operation of its wire a posted bucket is.
Turn(r, b) ==
  LET ops == PostedOn(r, Wire(Bucket(r, b))) IN CHOOSE k \in 1..Len(ops) : ops[k] = b

IsComplete(r, b) ==
  HasWire(Bucket(r, b)) =>
    LET w == Wire(Bucket(r, b)) IN
    \A q \in WireMembers(w) : Len(PostedOn(q, w)) >= Turn(r, b)

\* What arrives in chunk i of bucket b: its own value, or what the source put
\* into the operation of that turn.
Arrived(r, b, i) ==
  LET own == Bucket(r, b)
      s   == own.key.src IN
  IF own.isSource
    THEN buffer[r][b][i]
    ELSE LET sb == PostedOn(s, Wire(own))[Turn(r, b)] IN
         IF i <= Len(buffer[s][sb]) THEN buffer[s][sb][i] ELSE EmptyBag

FinalizeHead(r, c) ==
  LET b      == Queue(r, c)[nfinal[r][c] + 1]
      chunks == Bucket(r, b).chunks IN
  /\ InFlight(r, c)
  /\ IsComplete(r, b)
  /\ nfinal' = [nfinal EXCEPT ![r][c] = @ + 1]
  /\ chan' = [chan EXCEPT ![r] = c]
  /\ target' = [target EXCEPT ![r] = @ \cup
       IF Bucket(r, b).isTarget
         THEN {[tensor |-> chunks[i].tensor, cell |-> chunks[i].dstCell,
                value |-> Arrived(r, b, i)] : i \in 1..Len(chunks)}
         ELSE {}]

\* Polling may see any completed head first; waiting takes the channels in turn.
FinalizeBucket(r) ==
  /\ phase[r] = "finalize"
  /\ \E c \in Chans(r) : InFlight(r, c)
  /\ \/ Polls /\ \E c \in Chans(r) : FinalizeHead(r, c)
     \/ ~Polls /\ FinalizeHead(r, NextChannel(r, {c \in Chans(r) : InFlight(r, c)}))
  /\ UNCHANGED <<job, plan, phase, nprep, nlaunch, busy, calls, buffer, posted>>

\* The next round of the loop.  One that could prepare nothing would come back
\* here with nothing changed.
NextRound(r) ==
  /\ phase[r] = "finalize"
  /\ HasWork(r)
  /\ \/ Polls /\ \E c \in Chans(r) : MayPrepare(r, c)
     \/ ~Polls /\ \A c \in Chans(r) : ~InFlight(r, c)
  /\ phase' = [phase EXCEPT ![r] = "prepare"]
  /\ chan' = [chan EXCEPT ![r] = 0]
  /\ UNCHANGED <<job, plan, nprep, nlaunch, nfinal, busy, calls, buffer, posted, target>>

Return(r) ==
  /\ phase[r] = "finalize"
  /\ ~HasWork(r)
  /\ phase' = [phase EXCEPT ![r] = "done"]
  /\ UNCHANGED <<job, plan, chan, nprep, nlaunch, nfinal, busy, calls, buffer, posted, target>>

-----------------------------------------------------------------------------

Idle == [bucket |-> 0, chunk |-> 0, group |-> 0]

Init ==
  /\ job \in Jobs
  /\ \E there \in {Routes(job.src, job.tgt)}, back \in {RoutesBack(job)} : plan = PlanOf(job, there, back)
  /\ phase = [r \in Ranks |-> IF NBuckets(r) > 0 THEN "prepare" ELSE "done"]
  /\ chan = [r \in Ranks |-> 0]
  /\ nprep = [r \in Ranks |-> [c \in Chans(r) |-> 0]]
  /\ nlaunch = nprep
  /\ nfinal = nprep
  /\ busy = [r \in Ranks |-> Idle]
  /\ calls = [r \in Ranks |-> <<>>]
  /\ buffer = [r \in Ranks |-> [b \in 1..NBuckets(r) |-> <<>>]]
  /\ posted = [r \in Ranks |-> <<>>]
  /\ target = [r \in Ranks |-> {}]

AllDone == \A r \in Ranks : phase[r] = "done"

Finished == AllDone /\ UNCHANGED vars

Step(r) ==
  \/ PrepareBucket(r)
  \/ FinishReduce(r)
  \/ LaunchPrepared(r)
  \/ FinalizeBucket(r)
  \/ NextRound(r)
  \/ Return(r)

Next == Finished \/ \E r \in Ranks : Step(r)

Spec == Init /\ [][Next]_vars

\* Every agent process keeps running.
FairSpec == Spec /\ WF_vars(\E r \in Ranks : Step(r))

-----------------------------------------------------------------------------
(* Properties *)

From == Effective(job.src)
Middle == plan.middle

\* The stamps of get_m2m_map survive their trip through float32.
CodesFit ==
  \A r \in RanksOf(From), c \in LocalCells(From, Middle) :
    FoldLeft(LAMBDA x, k : x * Base(Middle) + k, r, c) <= 2^Mantissa

\* get_m2m_map: while the codes fit, every cell of every target rank is the
\* destination of exactly one route, and the source of that route is a cell of a
\* source rank that is the same piece of the whole tensor.
RoutesServeTarget ==
  CodesFit =>
    \A t \in RanksOf(job.tgt), c \in LocalCells(job.tgt, Middle) :
      LET routes  == plan.routes
          serving == {i \in 1..Len(routes) : [rank |-> t, cell |-> c] \in routes[i].dsts} IN
      /\ Cardinality(serving) = 1
      /\ \A i \in serving :
           /\ routes[i].src.rank \in RanksOf(From)
           /\ routes[i].src.cell \in LocalCells(From, Middle)
           /\ GlobalCell(From, Middle, routes[i].src.rank, routes[i].src.cell)
                = GlobalCell(job.tgt, Middle, t, c)

\* get_m2m_map: the isends of the source ranks are exactly the irecvs the target
\* ranks post, also where the meshes overlap, so no request waits for ever.
ExchangeMatches == Sends(job.src, job.tgt) = Recvs(job.src, job.tgt)

\* prewarm_broadcast_groups: with both directions of a split pair broadcasting,
\* all ranks create the same process groups in the same order.
SameGroupOrder ==
  \A q, r \in Ranks : plan.groups[q] = plan.groups[r]

\* A lone received chunk whose tensor has a wider item than the wire's.
Widens(bucket) ==
  Len(bucket.chunks) = 1 /\ ~bucket.isSource /\ bucket.chunks[1].local > bucket.chunks[1].nbytes

Cargo(bucket) ==
  [root |-> bucket.key.src,
   chunks |-> [i \in 1..Len(bucket.chunks) |->
                 <<bucket.chunks[i].tensor, bucket.chunks[i].src>>]]

\* bucket_comm: the operations two ranks post for the same turn of a wire carry
\* the same chunks from the same root, in buffers of the same size unless the
\* receiver widens a lone chunk: both sides cut their buckets at the same places
\* although each sees only its own chunks, and timing does not reorder them.
WireMatches ==
  \A q, r \in Ranks :
    \A a \in 1..Len(posted[q]), b \in 1..Len(posted[r]) :
      LET x == Bucket(q, posted[q][a]) y == Bucket(r, posted[r][b]) IN
      Wire(x) = Wire(y) /\ Turn(q, posted[q][a]) = Turn(r, posted[r][b]) =>
        /\ Cargo(x) = Cargo(y)
        /\ PostedBytes(x) = PostedBytes(y) \/ Widens(x) \/ Widens(y)

\* Chunk.prepare: the members of a Partial sub-group make their all_reduce calls
\* in lock-step, the same turn always for the same tensor and cell.
ReduceLockStep ==
  \A q, r \in Ranks :
    \A k \in 1..Len(calls[q]) :
      LET g == calls[q][k].group
          n == Len(SelectSeq(SubSeq(calls[q], 1, k), LAMBDA c : c.group = g)) IN
      r \in g /\ Len(CallsOn(r, g)) >= n => CallsOn(r, g)[n].what = calls[q][k].what

\* Ranks whose contributions make up what rank s holds of a Partial tensor.
Contributors(s) ==
  {q \in RanksOf(job.src) :
     \A i \in 1..Len(job.src.placements) :
       job.src.placements[i] # Partial => Coord(job.src, q)[i] = Coord(job.src, s)[i]}

\* Whatever is written to a target cell is the right piece of the right tensor,
\* with every Partial contribution in it exactly once.
LandsWhole ==
  \A r \in Ranks : \A w \in target[r] :
    \E s \in RanksOf(job.src) :
      w.value = SetToBag({<<q, w.tensor, GlobalCell(job.tgt, Middle, r, w.cell)>> :
                            q \in Contributors(s)})

\* Every bucket_comm returns, and by then every cell of every target is written.
AllDelivered ==
  <>(/\ AllDone
     /\ \A t \in RanksOf(job.tgt), x \in 1..Len(job.tensors), c \in LocalCells(job.tgt, Middle) :
          \E w \in target[t] : w.tensor = x /\ w.cell = c)
=============================================================================

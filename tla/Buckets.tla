------------------------------- MODULE Buckets ------------------------------
(***************************************************************************)
(* From routes to what one rank executes: chunks (comm/get_chunks.py) and  *)
(* the buckets that coalesce them (comm/get_buckets.py, comm/ir.py), and   *)
(* the order in which broadcast groups are created.                        *)
(*                                                                         *)
(* A job is a redistribution: source and target layouts, a sequence of     *)
(* tensors (elements of a cell, item sizes at the source and at the        *)
(* target), the bucket size in bytes, and the mode of bucket_comm.         *)
(***************************************************************************)
EXTENDS M2MMap

LOCAL INSTANCE SequencesExt

RanksIn(job) == RanksOf(job.src) \cup RanksOf(job.tgt)

\* transfer_dtype: the smaller item of the two sides.
WireItem(tensor) == IF tensor.from <= tensor.to THEN tensor.from ELSE tensor.to

\* Mutant: only the first Partial dimension is reduced.
FirstReduceGroup(src, r) ==
  [i \in {1} \cap 1..Len(PartialDims(src)) |-> SubGroup(src, PartialDims(src)[i], r)]

\* source_partial_groups of a rank, one per Partial mesh dimension.
ReduceGroups(src, r) ==
  [i \in 1..Len(PartialDims(src)) |-> SubGroup(src, PartialDims(src)[i], r)]

\* The chunks of one route at rank r, for tensor number x: what it sends, then
\* what it receives.  A route to the rank itself needs no wire; with a Partial
\* source a broadcast's own target is written from the reduced buffer.
RouteChunks(job, route, r, x) ==
  LET tensor  == job.tensors[x]
      dsts    == {d.rank : d \in route.dsts}
      source  == route.src.rank = r /\ r \in RanksOf(job.src)
      target  == r \in dsts
      selfP2P == route.kind = "p2p" /\ dsts = {r}
      partial == IF source THEN ReduceGroups(job.src, r) ELSE <<>>
      merged  == source /\ target /\ partial # <<>> /\ ~selfP2P
      dstCell == IF target THEN (CHOOSE d \in route.dsts : d.rank = r).cell ELSE <<>>
      chunk(transport, isSource, isTarget, groups) ==
        [tensor |-> x, src |-> route.src, dsts |-> dsts, transport |-> transport,
         isSource |-> isSource, isTarget |-> isTarget, groups |-> groups,
         dstCell |-> IF isTarget THEN dstCell ELSE <<>>,
         nbytes |-> tensor.elems * WireItem(tensor),
         local  |-> tensor.elems * (IF isTarget THEN tensor.to ELSE tensor.from)]
      sends == IF source /\ ~selfP2P
                 THEN <<chunk(route.kind, TRUE, merged, partial)>> ELSE <<>>
      takes == CASE ~target \/ merged -> <<>>
                 [] source -> <<chunk("local", TRUE, TRUE,
                                      IF selfP2P THEN partial ELSE <<>>)>>
                 [] OTHER -> <<chunk(route.kind, FALSE, TRUE, <<>>)>> IN
  sends \o takes

\* m2m_to_chunks over every tensor of the batch.
Chunks(job, routes, r) ==
  FlattenSeq([x \in 1..Len(job.tensors) |->
    FlattenSeq([i \in 1..Len(routes) |-> RouteChunks(job, routes[i], r, x)])])

-----------------------------------------------------------------------------

\* bucket_key.
BucketKey(c) ==
  [src |-> c.src.rank, dsts |-> c.dsts, partial |-> c.groups,
   cell |-> IF c.groups # <<>> /\ c.dsts = {} THEN c.src.cell ELSE <<>>,
   transport |-> c.transport]

SumBytes(chunks) == FoldLeft(LAMBDA n, c : n + c.nbytes, 0, chunks)

\* A chunk as large as a bucket is one; smaller ones collect, by key, until they
\* fill one.  Keys stay in the order they were first met.
AddChunk(st, c, size) ==
  LET old    == {i \in 1..Len(st.open) : st.open[i].key = BucketKey(c)}
      i      == IF old = {} THEN Len(st.open) + 1 ELSE CHOOSE j \in old : TRUE
      before == IF old = {} THEN <<>> ELSE st.open[i].chunks
      now    == Append(before, c)
      full   == SumBytes(now) >= size
      entry  == [key |-> BucketKey(c), chunks |-> IF full THEN <<>> ELSE now] IN
  IF c.nbytes >= size
    THEN [st EXCEPT !.out = Append(@, <<c>>)]
    ELSE [out  |-> IF full THEN Append(st.out, now) ELSE st.out,
          open |-> [k \in 1..Len(st.open) \cup {i} |-> IF k = i THEN entry ELSE st.open[k]]]

Collected(chunks, size) ==
  FoldLeft(LAMBDA st, c : With(st, LAMBDA s : AddChunk(s, c, size)),
           [out |-> <<>>, open |-> <<>>], chunks)

\* Mutant: buckets that never filled up are forgotten.
FullBucketsOnly(chunks, size) == Collected(chunks, size).out

\* chunk_to_bucket_ops; agents use bucket_size or 1.
BucketOps(chunks, size) ==
  With(Collected(chunks, size), LAMBDA end :
    end.out \o SelectSeq([i \in 1..Len(end.open) |-> end.open[i].chunks],
                         LAMBDA b : b # <<>>))

\* A bucket's identity is its first chunk's.
BucketsOf(job, routes, r) ==
  LET bucket(op) == [key |-> BucketKey(op[1]), chunks |-> op,
                     isSource |-> op[1].isSource, isTarget |-> op[1].isTarget]
      all(chunks) == BucketOps(chunks, IF job.size = 0 THEN 1 ELSE job.size) IN
  With(With(Chunks(job, routes, r), all),
       LAMBDA ops : [i \in 1..Len(ops) |-> bucket(ops[i])])

\* Size of the buffer handed to the wire: Bucket.prepare allocates the wire bytes
\* of its chunks, but a lone received chunk is a view of the target tensor.
PostedBytes(bucket) ==
  IF Len(bucket.chunks) = 1 /\ ~bucket.isSource
    THEN bucket.chunks[1].local
    ELSE SumBytes(bucket.chunks)

\* The process group or pair of ranks a bucket's operation runs on.
Wire(bucket) ==
  CASE bucket.key.transport = "p2p" -> [from |-> bucket.key.src, ranks |-> bucket.key.dsts]
    [] bucket.key.transport = "broadcast" ->
         [from |-> -1, ranks |-> bucket.key.dsts \cup {bucket.key.src}]
    [] OTHER -> [from |-> -1, ranks |-> {}]

HasWire(bucket) == bucket.key.transport \in {"p2p", "broadcast"}

WireMembers(w) == IF w.from = -1 THEN w.ranks ELSE w.ranks \cup {w.from}

-----------------------------------------------------------------------------
(* Broadcast groups: new_group is collective, so the order of the calls counts *)

BroadcastGroups(routes) ==
  {{routes[i].src.rank} \cup {d.rank : d \in routes[i].dsts} :
     i \in {k \in 1..Len(routes) : routes[k].kind = "broadcast"}}

AsTuple(S) == Sorted(S, <)

SortedGroups(groups) ==
  LET before(a, b) == /\ a # b
                      /\ LET s == AsTuple(a) t == AsTuple(b)
                             diff == {k \in 1..Len(s) : k > Len(t) \/ s[k] # t[k]} IN
                         IF diff = {} THEN TRUE
                           ELSE LET k == CHOOSE k \in diff : \A l \in diff : k <= l IN
                                k <= Len(t) /\ s[k] < t[k] IN
  Sorted(groups, before)

\* Mutant: nothing is created before the chunks are.
PrewarmNothing(there, back) == <<>>

\* prewarm_broadcast_groups over both directions of a split pair.
PrewarmGroups(there, back) ==
  SortedGroups(BroadcastGroups(there) \cup BroadcastGroups(back))

\* The order a rank creates groups in: the prewarmed ones, then those of
\* m2m_to_chunks, local send direction first, unless the cache has them.
CreatedGroups(job, there, back, r) ==
  LET first == SortedGroups(BroadcastGroups(IF r \in RanksOf(job.src) THEN there ELSE back))
      last  == SortedGroups(BroadcastGroups(IF r \in RanksOf(job.src) THEN back ELSE there))
      add(s, g) == IF g \in ToSet(s) THEN s ELSE Append(s, g) IN
  FoldLeft(LAMBDA s, g : With(s, LAMBDA t : add(t, g)), PrewarmGroups(there, back), first \o last)
=============================================================================

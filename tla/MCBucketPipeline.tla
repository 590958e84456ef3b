-------------------------- MODULE MCBucketPipeline --------------------------
(***************************************************************************)
(* Small redistributions for BucketPipeline.  A job without tensors checks *)
(* its routes only.                                                        *)
(***************************************************************************)
EXTENDS BucketPipeline

Layout(shape, ranks, placements) ==
  [shape |-> shape, ranks |-> ranks, placements |-> placements]

Tensor(elems, from, to) == [elems |-> elems, from |-> from, to |-> to]

Job(src, tgt, tensors, size, sequential, device) ==
  [src |-> src, tgt |-> tgt, tensors |-> tensors, size |-> size,
   sequential |-> sequential, device |-> device]

RoutesOnly(src, tgt) == Job(src, tgt, <<>>, 1, FALSE, "cpu")

On(ranks, placement) == Layout(<<Len(ranks)>>, ranks, <<placement>>)

\* The worked example of docs/design/get-m2m-map.md, resharding over coprime
\* sizes, nested sharding of one dimension, two Partial dimensions, meshes that
\* overlap, broadcasts in both directions, and codes at and above the precision of the stamps.
RouteJobs ==
  {RoutesOnly(Layout(<<4, 1>>, <<0, 1, 2, 3>>, <<Shard(1), Replicate>>),
              Layout(<<2, 2>>, <<4, 5, 6, 7>>, <<Shard(1), Shard(2)>>)),
   RoutesOnly(Layout(<<2, 2>>, <<0, 1, 2, 3>>, <<Shard(1), Shard(1)>>),
              On(<<4, 5, 6>>, Shard(1))),
   RoutesOnly(Layout(<<2, 2>>, <<0, 1, 2, 3>>, <<Partial, Partial>>),
              On(<<4, 5>>, Shard(2))),
   RoutesOnly(On(<<0, 1>>, Shard(1)), On(<<1, 2, 3>>, Replicate)),
   RoutesOnly(On(<<0, 1>>, Replicate), On(<<2, 0>>, Shard(2))),
   RoutesOnly(Layout(<<2, 2>>, <<0, 1, 2, 3>>, <<Shard(1), Replicate>>),
              Layout(<<2, 2>>, <<4, 5, 6, 7>>, <<Replicate, Shard(1)>>)),
   RoutesOnly(On(<<30, 31>>, Shard(3)), On(<<2, 3>>, Shard(1)))}

Split(n, size, device) ==
  Job(On(<<0, 1>>, Shard(1)), On(<<2, 3, 4>>, Shard(1)),
      [x \in 1..n |-> Tensor(x, 2, 2)], size, FALSE, device)

Scatter(item, size) ==
  Job(On(<<0>>, Replicate), On(<<1, 2>>, Shard(1)),
      [x \in 1..3 |-> Tensor(x, 2, item)], size, FALSE, "cuda")

Spread(n, size, device) ==
  Job(On(<<0, 1>>, Shard(1)), On(<<2, 3>>, Replicate),
      [x \in 1..n |-> Tensor(1, 4, 2)], size, FALSE, device)

Reduced(n, size, device) ==
  Job(On(<<0, 1>>, Partial), On(<<2, 3>>, Shard(1)),
      [x \in 1..n |-> Tensor(1, 2, 2)], size, FALSE, device)

Reduced2D ==
  Job(Layout(<<2, 2>>, <<0, 1, 2, 3>>, <<Partial, Partial>>), On(<<4>>, Replicate),
      <<Tensor(1, 2, 2)>>, 1, FALSE, "cpu")

Colocated(src, ranks, n, device) ==
  Job(On(<<0, 1>>, src), On(ranks, Replicate),
      [x \in 1..n |-> Tensor(1, 2, 2)], 1, TRUE, device)

MCJobs ==
  RouteJobs \cup
  {Split(2, 6, "cpu"), Scatter(2, 1), Scatter(4, 6),
   Spread(2, 4, "cuda"), Spread(3, 1, "cpu"),
   Reduced(2, 1, "cuda"), Reduced(2, 4, "cpu"), Reduced2D,
   Colocated(Shard(1), <<0, 1>>, 3, "cuda"), Colocated(Partial, <<0, 1, 2>>, 2, "cuda")}

\* Three tensors of a Partial source on CUDA: one more than are in flight.
MCReduceJobs == {Reduced(3, 1, "cuda")}
=============================================================================

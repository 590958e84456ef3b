------------------------------- MODULE M2MMap -------------------------------
(***************************************************************************)
(* get_m2m_map: from the layout (mesh and placements) of a tensor at its   *)
(* source and at its target to the routes that redistribute it             *)
(* (comm/get_m2m_map.py, comm/utils.py).                                   *)
(*                                                                         *)
(* A mesh is its shape and its ranks in row-major order; a placement names *)
(* the tensor dimension, counted from 1, that a mesh dimension shards.     *)
(* The tensor is the "middle" tensor: the coarsest grid of cells that both *)
(* layouts divide.  A cell of a rank's shard is its local multi-index.     *)
(***************************************************************************)
EXTENDS Integers, Sequences, FiniteSets

LOCAL INSTANCE SequencesExt
LOCAL INSTANCE Relation

CONSTANT Mantissa  \* bits of a float32 significand: larger codes are rounded

Shard(d) == [kind |-> "shard", dim |-> d]
Replicate == [kind |-> "replicate", dim |-> 0]
Partial == [kind |-> "partial", dim |-> 0]

RanksOf(layout) == {layout.ranks[i] : i \in 1..Len(layout.ranks)}
IndexOf(layout, r) == (CHOOSE i \in 1..Len(layout.ranks) : layout.ranks[i] = r) - 1

Product(s) == FoldLeft(LAMBDA x, y : x * y, 1, s)
GreatestOf(S) == CHOOSE x \in S : \A y \in S : y <= x

\* F(x); a long x is evaluated once.
With(x, F(_)) == CHOOSE y \in {F(v) : v \in {x}} : TRUE

\* The elements of S in the order of Less.
Sorted(S, Less(_, _)) ==
  With(S, LAMBDA T : [i \in 1..Cardinality(T) |->
                        CHOOSE x \in T : Cardinality({y \in T : Less(y, x)}) = i - 1])

\* Coordinates of a rank in its mesh.
Coord(layout, r) ==
  LET shape == layout.shape IN
  [i \in 1..Len(shape) |->
     (IndexOf(layout, r) \div Product(SubSeq(shape, i + 1, Len(shape)))) % shape[i]]

-----------------------------------------------------------------------------
(* Shapes *)

TensorNdim(layout) ==
  GreatestOf({1} \cup {layout.placements[i].dim : i \in 1..Len(layout.placements)})

Ndim(src, tgt) == GreatestOf({TensorNdim(src), TensorNdim(tgt)})

\* Into how many shards each tensor dimension is cut.
ShardShape(layout, n) ==
  [d \in 1..n |->
     FoldLeftDomain(LAMBDA x, i : IF layout.placements[i] = Shard(d)
                                    THEN x * layout.shape[i] ELSE x,
                    1, layout.placements)]

Lcm(a, b) == CHOOSE m \in 1..(a * b) :
  /\ m % a = 0 /\ m % b = 0
  /\ \A k \in 1..(m - 1) : ~(k % a = 0 /\ k % b = 0)

MiddleShape(src, tgt) ==
  LET n == Ndim(src, tgt) IN
  [d \in 1..n |-> Lcm(ShardShape(src, n)[d], ShardShape(tgt, n)[d])]

\* source_num_slicers, target_num_slicers: cells of one shard, by dimension.
NumSlicers(layout, middle) ==
  [d \in 1..Len(middle) |-> middle[d] \div ShardShape(layout, Len(middle))[d]]

Cells(shape) ==
  {c \in [1..Len(shape) -> 0..(GreatestOf({shape[d] : d \in 1..Len(shape)}) - 1)] :
     \A d \in 1..Len(shape) : c[d] < shape[d]}

-----------------------------------------------------------------------------
(* DTensor: what distribute_tensor and full_tensor do with even shards *)

\* The mesh dimensions that shard a tensor dimension split it one after the other.
Block(layout, r, d) ==
  FoldLeftDomain(LAMBDA x, i : IF layout.placements[i] = Shard(d)
                                 THEN x * layout.shape[i] + Coord(layout, r)[i]
                                 ELSE x,
                 0, layout.placements)

\* The cell of the whole tensor that a rank's local cell is.
GlobalCell(layout, middle, r, c) ==
  [d \in 1..Len(middle) |-> Block(layout, r, d) * NumSlicers(layout, middle)[d] + c[d]]

LocalCells(layout, middle) == Cells(NumSlicers(layout, middle))

IsShard(p) == p.kind = "shard"

\* full_tensor gathers over the sharding dimensions only: a cell comes from the
\* rank that holds it among those with r's other coordinates.
HolderFor(layout, middle, r, g) ==
  CHOOSE e \in [rank : RanksOf(layout), cell : LocalCells(layout, middle)] :
    /\ GlobalCell(layout, middle, e.rank, e.cell) = g
    /\ \A i \in 1..Len(layout.placements) :
         ~IsShard(layout.placements[i]) =>
           Coord(layout, e.rank)[i] = Coord(layout, r)[i]

-----------------------------------------------------------------------------
(* The trace: cells are stamped at the source and read at the target *)

\* Partial sources are traced as if they were replicated.
Effective(layout) ==
  [layout EXCEPT !.placements =
     [i \in 1..Len(@) |-> IF @[i] = Partial THEN Replicate ELSE @[i]]]

Base(middle) == GreatestOf({middle[d] : d \in 1..Len(middle)}) + 1

\* What float32 keeps of an integer: the nearest multiple of its last place.
Stored(v) ==
  LET unit == CHOOSE u \in {2^k : k \in 0..20} :
                v < u * 2^Mantissa /\ (u = 1 \/ v >= (u \div 2) * 2^Mantissa)
      low  == v % unit
      up   == 2 * low > unit \/ (2 * low = unit /\ (v \div unit) % 2 = 1) IN
  v - low + (IF up THEN unit ELSE 0)

Encode(r, cell, base) == Stored(FoldLeft(LAMBDA x, c : x * base + c, r, cell))

\* Mutant: the coordinates are read in the order they come out.
DecodeReversed(v, n, base) ==
  [rank |-> v \div base^n, cell |-> [d \in 1..n |-> (v \div base^(d - 1)) % base]]

Decode(v, n, base) ==
  [rank |-> v \div base^n, cell |-> [d \in 1..n |-> (v \div base^(n - d)) % base]]

\* full_tensor_restored at source rank s.
Stamps(src, middle, s) ==
  [g \in Cells(middle) |->
     LET e == HolderFor(src, middle, s, g) IN Encode(e.rank, e.cell, Base(middle))]

\* Mutant: a source also sends to the targets that are sources themselves.
SendsToAll(src, tgt) ==
  {[from |-> src.ranks[((j - 1) % Len(src.ranks)) + 1], to |-> tgt.ranks[j]] :
     j \in 1..Len(tgt.ranks)}

\* The i-th source rank sends its copy to the target ranks i, i + len(source), ...
\* of the target list, but to none that is a source itself.
Sends(src, tgt) ==
  {[from |-> src.ranks[i], to |-> tgt.ranks[j]] :
     <<i, j>> \in {ij \in (1..Len(src.ranks)) \X (1..Len(tgt.ranks)) :
                     /\ (ij[2] - ij[1]) % Len(src.ranks) = 0
                     /\ tgt.ranks[ij[2]] \notin RanksOf(src)}}

\* Only a target that is no source receives a copy.
Recvs(src, tgt) ==
  {[from |-> src.ranks[(IndexOf(tgt, t) % Len(src.ranks)) + 1], to |-> t] :
     t \in RanksOf(tgt) \ RanksOf(src)}

\* full_tensor_restored at a target rank: its own, or the one it received.
Restored(src, tgt, middle, t) ==
  IF t \in RanksOf(src)
    THEN Stamps(src, middle, t)
    ELSE Stamps(src, middle, (CHOOSE m \in Recvs(src, tgt) : m.to = t).from)

\* m2m_map of one target rank: where each of its cells comes from.
LocalMap(src, tgt, middle, t) ==
  LET full == Restored(src, tgt, middle, t) IN
  {[src |-> Decode(full[GlobalCell(tgt, middle, t, c)], Len(middle), Base(middle)),
    dst |-> [rank |-> t, cell |-> c]] : c \in LocalCells(tgt, middle)}

\* merged_m2m_map, after all_gather_object.
MergedMap(src, tgt) ==
  LET from == Effective(src) mid == MiddleShape(from, tgt) IN
  UNION {LocalMap(from, tgt, mid, t) : t \in RanksOf(tgt)}

-----------------------------------------------------------------------------
(* Partial sources *)

PartialDims(layout) ==
  SelectSeq([i \in 1..Len(layout.placements) |-> i],
            LAMBDA i : layout.placements[i] = Partial)

\* enumerate_partial_subgroup_ranks: the slice through r along mesh dimension i.
SubGroup(layout, i, r) ==
  {q \in RanksOf(layout) :
     \A k \in 1..Len(layout.shape) \ {i} : Coord(layout, q)[k] = Coord(layout, r)[k]}

\* Ranks linked by shared sub-groups (the union-find of _expand_partial_shadows).
Component(layout, r) ==
  LET ranks  == RanksOf(layout)
      linked == [p \in ranks \X ranks |->
                   \E i \in ToSet(PartialDims(layout)) : p[2] \in SubGroup(layout, i, p[1])]
      reach  == ReflexiveTransitiveClosure(linked, ranks) IN
  {q \in ranks : reach[r, q]}

\* Every rank linked to a sender takes part in the reduction of its cells.
ExpandPartialShadows(src, keys) ==
  {[rank |-> r, cell |-> k.cell] :
     <<k, r>> \in {kr \in keys \X RanksOf(src) :
                     kr[1].rank \in RanksOf(src) /\ kr[2] \in Component(src, kr[1].rank)}}

-----------------------------------------------------------------------------
(* Routes *)

RECURSIVE CellBefore(_, _)
CellBefore(a, b) ==
  a # <<>> /\ (a[1] < b[1] \/ (a[1] = b[1] /\ CellBefore(Tail(a), Tail(b))))

EndpointBefore(a, b) ==
  a.rank < b.rank \/ (a.rank = b.rank /\ CellBefore(a.cell, b.cell))

\* Mutant: the reduce-only entries stay where they were added, at the end.
ShadowsLast(keys, shadows) ==
  Sorted(keys, EndpointBefore) \o Sorted(shadows \ keys, EndpointBefore)

\* Sorted by (src_rank, cell): every rank has the same list.
RouteOrder(keys, shadows) == Sorted(keys \cup shadows, EndpointBefore)

RouteKind(dsts) ==
  CASE Cardinality(dsts) = 0 -> "none"
    [] Cardinality(dsts) = 1 -> "p2p"
    [] OTHER -> "broadcast"

\* _dict_to_routes.
DictToRoutes(src, map) ==
  LET keys    == {m.src : m \in map}
      dsts(k) == {m.dst : m \in {n \in map : n.src = k}} IN
  With(RouteOrder(keys, ExpandPartialShadows(src, keys)),
       LAMBDA order : [i \in 1..Len(order) |->
                         [src |-> order[i], dsts |-> dsts(order[i]),
                          kind |-> RouteKind(dsts(order[i]))]])

Routes(src, tgt) == With(MergedMap(src, tgt), LAMBDA map : DictToRoutes(src, map))
=============================================================================

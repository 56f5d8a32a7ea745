------------------------------- MODULE IdCodec -------------------------------
(***************************************************************************)
(* The node identity layout of graph/chunkedgraph.py: an id is            *)
(*   [ layer : L ][ x : S_l ][ y : S_l ][ z : S_l ][ segment ]            *)
(* in IdBits bits, where S_l = bitmasks[layer].  The operators translate   *)
(* the ChunkedGraph methods that pack and unpack ids and derive the chunk *)
(* hierarchy.  The width is a constant, so a configuration can shrink the  *)
(* 64 bits of the code to a width TLC's integers hold while keeping every *)
(* shift and mask of the code.                                            *)
(***************************************************************************)
EXTENDS Integers

CONSTANTS
    IdBits,       \* 64 in the code
    LayerBits,    \* _n_bits_for_layer_id
    Bitmasks,     \* bitmasks: layer -> spatial bits per dimension
    FanOut,       \* fan_out
    NLayers       \* n_layers

Dims == 1..3
LayerIds == 1..NLayers

ASSUME /\ FanOut \in Nat \ {0, 1}
       /\ Bitmasks \in [LayerIds -> Nat \ {0}]
       /\ \A l \in LayerIds : LayerBits + 3 * Bitmasks[l] < IdBits
       /\ NLayers < 2^LayerBits

\* The shifts and masks of the code on non-negative integers: x >> k,
\* x << k, x & (2^k - 1) and x | y.  (Written with \div and % rather than
\* taken from Bitwise so that TLC evaluates the constant checks below once.)
ShiftR(n, k) == n \div 2^k
ShiftL(n, k) == n * 2^k
LowBits(n, k) == n % 2^k

RECURSIVE BitOr(_, _)
BitOr(x, y) ==
    IF x = 0 /\ y = 0 THEN 0
    ELSE 2 * BitOr(x \div 2, y \div 2) + (IF x % 2 = 1 \/ y % 2 = 1 THEN 1 ELSE 0)

\* get_chunk_layer: int(id) >> 64 - _n_bits_for_layer_id
GetChunkLayer(id) == ShiftR(id, IdBits - LayerBits)

\* Offset of the lowest bit of the chunk part for a layer.
ChunkOffset(l) == IdBits - LayerBits - 3 * Bitmasks[l]

\* Mutant: the mask `& 2 ** bits_per_dim - 1` is left out.
GetChunkCoordinatesNoMask(id) ==
    LET bits == Bitmasks[GetChunkLayer(id)]
        xOffset == IdBits - LayerBits - bits
    IN  [i \in Dims |-> ShiftR(id, xOffset - (i - 1) * bits)]

\* get_chunk_coordinates: x, y and z below the layer bits, S_l bits each.
GetChunkCoordinates(id) ==
    LET bits == Bitmasks[GetChunkLayer(id)]
        xOffset == IdBits - LayerBits - bits
    IN  [i \in Dims |-> LowBits(ShiftR(id, xOffset - (i - 1) * bits), bits)]

\* compute_chunk_id (utils, not under src): the fields shifted into place
\* and or-ed together.
ComputeChunkId(l, c) ==
    LET bits == Bitmasks[l]
        xOffset == IdBits - LayerBits - bits
    IN  BitOr(BitOr(ShiftL(l, IdBits - LayerBits), ShiftL(c[1], xOffset)),
              BitOr(ShiftL(c[2], xOffset - bits), ShiftL(c[3], xOffset - 2 * bits)))

\* get_chunk_id(node_id): the segment bits cleared by a shift right and left.
GetChunkId(id) ==
    LET co == ChunkOffset(GetChunkLayer(id))
    IN  ShiftL(ShiftR(id, co), co)

\* get_segment_id_limit: 2 ** chunk_offset - 1
GetSegmentIdLimit(id) == 2^ChunkOffset(GetChunkLayer(id)) - 1

\* get_segment_id: node_id & get_segment_id_limit(node_id); the limit is
\* 2 ** chunk_offset - 1, so the mask is a remainder.
GetSegmentId(id) == id % (GetSegmentIdLimit(id) + 1)

\* get_node_id(segment_id, chunk_id): chunk_id | segment_id
GetNodeId(seg, chunk) == BitOr(chunk, seg)

\* Mutant: the offsets are added to the coordinates without the fan-out.
GetChildChunkIdsNoScale(id) ==
    LET c == GetChunkCoordinates(id)
        l == GetChunkLayer(id)
    IN  IF l = 1 THEN {}
        ELSE IF l = 2 THEN {ComputeChunkId(1, c)}
        ELSE {ComputeChunkId(l - 1, [i \in Dims |-> c[i] + d[i]])
                : d \in [Dims -> 0..(FanOut - 1)]}

\* get_child_chunk_ids: none at layer 1, the chunk with the same
\* coordinates at layer 1 for layer 2, else coords * fan_out + d for every
\* d in range(fan_out)^3.
GetChildChunkIds(id) ==
    LET c == GetChunkCoordinates(id)
        l == GetChunkLayer(id)
    IN  IF l = 1 THEN {}
        ELSE IF l = 2 THEN {ComputeChunkId(1, c)}
        ELSE {ComputeChunkId(l - 1, [i \in Dims |-> c[i] * FanOut + d[i]])
                : d \in [Dims -> 0..(FanOut - 1)]}

\* Coordinates divided k times by the fan-out (chunk_coord // fan_out).
DivCoords(c, k) == [i \in Dims |-> c[i] \div FanOut^k]

\* get_parent_chunk_ids: the chunk of the id, then for every layer above
\* it the coordinates divided once more by the fan-out.
GetParentChunkIds(id) ==
    LET l == GetChunkLayer(id)
    IN  [j \in 1..(NLayers - l + 1) |->
            IF j = 1 THEN GetChunkId(id)
            ELSE ComputeChunkId(l + j - 1, DivCoords(GetChunkCoordinates(id), j - 1))]

\* get_parent_chunk_id_dict: zip(range(layer, n_layers + 1), parent ids)
GetParentChunkIdDict(id) ==
    LET l == GetChunkLayer(id)
        ids == GetParentChunkIds(id)
    IN  [k \in l..NLayers |-> ids[k - l + 1]]

\* The loop of get_cross_chunk_edges_layer, one pass of
\* `for _ in range(2, n_layers)` per call.
RECURSIVE CrossLayerLoop(_, _, _, _)
CrossLayerLoop(ca, cb, layer, pass) ==
    IF pass >= NLayers THEN layer
    ELSE CrossLayerLoop(DivCoords(ca, 1), DivCoords(cb, 1),
                        IF ca # cb THEN layer + 1 ELSE layer, pass + 1)

\* Mutant: the coordinates are divided before the difference is taken.
RECURSIVE CrossLayerLoopDivFirst(_, _, _, _)
CrossLayerLoopDivFirst(ca, cb, layer, pass) ==
    IF pass >= NLayers THEN layer
    ELSE LET da == DivCoords(ca, 1)
             db == DivCoords(cb, 1)
         IN  CrossLayerLoopDivFirst(da, db, IF da # db THEN layer + 1 ELSE layer,
                                    pass + 1)

GetCrossChunkEdgesLayerDivFirst(a, b) ==
    CrossLayerLoopDivFirst(GetChunkCoordinates(a), GetChunkCoordinates(b), 1, 2)

\* get_cross_chunk_edges_layer for one edge (a, b) of atomic ids: start at
\* 1 and add one per pass while the coordinates differ.
GetCrossChunkEdgesLayer(a, b) ==
    CrossLayerLoop(GetChunkCoordinates(a), GetChunkCoordinates(b), 1, 2)

\* get_cross_chunk_edge_dict: an (empty) entry for every layer in
\* range(2, n_layers), and for every layer get_cross_chunk_edges_layer
\* gives an edge, the edges of that layer.
CrossChunkEdgeDict(E) ==
    LET layerOf(e) == GetCrossChunkEdgesLayer(e[1], e[2])
    IN  [l \in {layerOf(e) : e \in E} \cup 2..(NLayers - 1) |->
            {e \in E : layerOf(e) = l}]

-----------------------------------------------------------------------------
(* Bounded inputs and reference definitions.                               *)

\* Every coordinate the bit field of a layer holds.
FieldCoords(l) == [Dims -> 0..(2^Bitmasks[l] - 1)]

\* The chunks of the dataset at a layer: fan_out^(n_layers - l) per
\* dimension, with layer 1 on the grid of layer 2 (the root chunk is one).
GridCoords(l) ==
    [Dims -> 0..(FanOut^(NLayers - (IF l = 1 THEN 2 ELSE l)) - 1)]

\* Spec 8.2: 1 for one chunk, else one more than the number of divisions by
\* the fan-out after which the two chunks coincide.
RefCrossLayer(ca, cb) ==
    IF ca = cb THEN 1
    ELSE 1 + (CHOOSE k \in 1..NLayers :
                /\ DivCoords(ca, k) = DivCoords(cb, k)
                /\ \A j \in 1..(k - 1) : DivCoords(ca, j) # DivCoords(cb, j))

\* An atomic node of a chunk (segment 1), as get_cross_chunk_edges_layer
\* receives them.
AtomicNode(c) == GetNodeId(1, ComputeChunkId(1, c))

\* An id taken apart by get_chunk_layer, get_chunk_coordinates,
\* get_chunk_id and get_segment_id packs back into itself.
IdRoundTrips(id) ==
    /\ ComputeChunkId(GetChunkLayer(id), GetChunkCoordinates(id)) = GetChunkId(id)
    /\ GetNodeId(GetSegmentId(id), GetChunkId(id)) = id

\* Spec 8.1: a node id built by get_node_id from every layer, every
\* coordinate its bit field holds and every segment below the limit gives
\* back its layer, coordinates and segment through get_chunk_layer,
\* get_chunk_coordinates and get_segment_id, and get_chunk_id | segment is
\* the id again.  A wrong shift or mask in any of them shows up here.
CodecRoundTrip ==
    \A l \in LayerIds : \A c \in FieldCoords(l) :
        LET chunk == ComputeChunkId(l, c)
        IN  \A s \in 0..GetSegmentIdLimit(chunk) :
                LET id == GetNodeId(s, chunk)
                IN  /\ GetChunkLayer(id) = l
                    /\ GetChunkCoordinates(id) = c
                    /\ GetSegmentId(id) = s
                    /\ GetChunkId(id) = chunk
                    /\ BitOr(GetChunkId(id), GetSegmentId(id)) = id

\* Spec 8.2 and scenario S2: for every pair of atomic chunks of the
\* dataset, get_cross_chunk_edges_layer is 1 exactly for the same chunk and
\* otherwise the layer whose parent chunk first holds both ends.
CrossChunkLayerMatchesReference ==
    \A ca, cb \in GridCoords(1) :
        GetCrossChunkEdgesLayer(AtomicNode(ca), AtomicNode(cb))
            = RefCrossLayer(ca, cb)

\* The chunk hierarchy above layer 2 is a tree: every child chunk
\* get_child_chunk_ids lists has the chunk as its parent in
\* get_parent_chunk_id_dict, and every chunk of the grid is a child of its
\* parent there.
ChunkTreeConsistent ==
    \A l \in 3..NLayers : \A c \in GridCoords(l) :
        LET chunk == ComputeChunkId(l, c)
        IN  /\ \A k \in GetChildChunkIds(chunk) :
                    GetParentChunkIdDict(k)[l] = chunk
            /\ \A c2 \in GridCoords(l - 1) :
                  LET k == ComputeChunkId(l - 1, c2)
                  IN  k \in GetChildChunkIds(GetParentChunkIdDict(k)[l])

\* get_cross_chunk_edge_dict over the edges from one atomic chunk to every
\* chunk of the dataset: each edge is filed under the layer whose parent
\* chunk first holds both ends, so at most n_layers - 1 (the root chunk
\* keeps no cross edges), and every layer from 2 to n_layers - 1 has an
\* entry.
CrossChunkEdgeDictFilesEdges ==
    LET origin == [i \in Dims |-> 0]
        E == {<<AtomicNode(origin), AtomicNode(c)>> : c \in GridCoords(1)}
        d == CrossChunkEdgeDict(E)
    IN  /\ DOMAIN d \subseteq 1..(NLayers - 1)
        /\ 2..(NLayers - 1) \subseteq DOMAIN d
        /\ \A l \in DOMAIN d : \A e \in d[l] :
              l = RefCrossLayer(origin, GetChunkCoordinates(e[2]))
        /\ UNION {d[l] : l \in DOMAIN d} = E

=============================================================================

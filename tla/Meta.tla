-------------------------------- MODULE Meta --------------------------------
(***************************************************************************)
(* The dataset-derived layout of ChunkedGraphMeta (graph/meta.py): the     *)
(* number of layers and the number of chunks per dimension at every layer *)
(* below the root, computed from the volume's voxel bounds and the chunk  *)
(* size.  The ingest drivers iterate over these to create and count the  *)
(* chunks of every layer.                                                  *)
(***************************************************************************)
EXTENDS Integers, FiniteSets

CONSTANTS
    Fanout,      \* graph_config.fanout
    ChunkSize    \* graph_config.chunk_size

Dims == 1..3

\* voxel_counts: the upper voxel bound minus the lower one per dimension.
VoxelCounts(bounds) == [i \in Dims |-> bounds.hi[i] - bounds.lo[i]]

\* get_chunks_boundary (chunks/utils, not under src): the chunks per
\* dimension, voxel_counts / chunk_size; modelled on volumes that are a
\* whole number of chunks, where it is exact.
ChunksBoundary(bounds) == [i \in Dims |-> VoxelCounts(bounds)[i] \div ChunkSize[i]]

\* ceil(log_n(x, fanout)) in exact arithmetic: the least k with
\* fanout^k >= x.
CeilLog(x) == CHOOSE k \in 0..x : Fanout^k >= x /\ \A j \in 0..(k - 1) : Fanout^j < x

\* Mutant: the logarithm is rounded down.
LayerCountFloor(bounds) ==
    LET n == [i \in Dims |-> VoxelCounts(bounds)[i] \div ChunkSize[i]]
        m == CHOOSE v \in {n[i] : i \in Dims} : \A i \in Dims : n[i] <= v
    IN  (CHOOSE k \in 0..m : Fanout^k <= m /\ Fanout^(k + 1) > m) + 2

\* layer_count: n_chunks = (bbox[1] - bbox[0]) / chunk_size truncated,
\* then ceil(log_fanout(max(n_chunks))) + 2.
LayerCount(bounds) ==
    LET n == [i \in Dims |-> VoxelCounts(bounds)[i] \div ChunkSize[i]]
        m == CHOOSE v \in {n[i] : i \in Dims} : \A i \in Dims : n[i] <= v
    IN  CeilLog(m) + 2

\* layer_chunk_bounds: for layer in range(2, layer_count), the chunk
\* boundary divided by 2 ** (layer - 2) and rounded up.
LayerChunkBounds(bounds) ==
    [l \in 2..(LayerCount(bounds) - 1) |->
        [i \in Dims |-> -((-ChunksBoundary(bounds)[i]) \div 2^(l - 2))]]

\* layer_chunk_counts: the product of the bounds of every layer.
LayerChunkCounts(bounds) ==
    LET b == LayerChunkBounds(bounds)
    IN  [l \in DOMAIN b |-> b[l][1] * b[l][2] * b[l][3]]

-----------------------------------------------------------------------------
\* The chunks per dimension at layer l of the id hierarchy over n atomic
\* chunks: the distinct coordinates chunk_coord // fanout^(l - 2).
HierarchyChunks(n, l) == Cardinality({x \div Fanout^(l - 2) : x \in 0..(n - 1)})

\* For every volume of whole chunks: layer_count is the first layer at
\* which the id hierarchy (coordinates divided by the fan-out per layer)
\* has a single chunk, so the root chunk (layer_count, 0, 0, 0) holds the
\* whole volume and the layer below it does not; and layer_chunk_bounds
\* and layer_chunk_counts, which the ingest drivers iterate over, count
\* the chunks of that hierarchy at every layer below the root.
LayoutMatchesDataset(Volumes) ==
    \A bounds \in Volumes :
        LET lc == LayerCount(bounds)
            n == ChunksBoundary(bounds)
        IN  /\ \A i \in Dims : HierarchyChunks(n[i], lc) = 1
            /\ lc > 2 => \E i \in Dims : HierarchyChunks(n[i], lc - 1) > 1
            /\ \A l \in DOMAIN LayerChunkBounds(bounds) :
                  /\ \A i \in Dims :
                        LayerChunkBounds(bounds)[l][i] = HierarchyChunks(n[i], l)
                  /\ LayerChunkCounts(bounds)[l]
                        = HierarchyChunks(n[1], l) * HierarchyChunks(n[2], l)
                          * HierarchyChunks(n[3], l)

=============================================================================

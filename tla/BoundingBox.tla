----------------------------- MODULE BoundingBox -----------------------------
(***************************************************************************)
(* normalize_bounding_box and get_chunk_coordinates_from_vol_coordinates   *)
(* (graph/chunkedgraph.py): a box in voxel coordinates, as the leaves and  *)
(* subgraph handlers pass it (bb_is_coordinate=True), turned into the box *)
(* of atomic chunk coordinates that _get_subgraph_higher_layer_nodes      *)
(* filters by.  The float arithmetic of numpy is kept exactly: every       *)
(* quotient is a rational, rounded the way the code rounds it.            *)
(***************************************************************************)
EXTENDS Integers

CONSTANTS
    FanOut,        \* fan_out
    ChunkSize,     \* chunk_size, voxels per atomic chunk and dimension
    VxVolLo,       \* vx_vol_bounds[:, 0], the first voxel of the volume
    CvResolution   \* cv.resolution

Dims == 1..3

\* np.ceil(n / d) and .astype(np.int) (truncation toward zero) of n / d
\* for d > 0; \div is floor division.
CeilDiv(n, d) == -((-n) \div d)
TruncDiv(n, d) == IF n >= 0 THEN n \div d ELSE -((-n) \div d)

\* Mutant: the ceil flag is ignored, every coordinate is truncated.
GetChunkCoordinatesFromVolCoordinatesNoCeil(v, resolution, ceil, layer) ==
    LET scaling == [i \in Dims |-> CvResolution[i] \div resolution[i]]
        k == IF layer > 2 THEN layer - 2 ELSE 0
        num == [i \in Dims |-> v[i] - scaling[i] * VxVolLo[i]]
        den == [i \in Dims |-> scaling[i] * ChunkSize[i] * FanOut^k]
    IN  [i \in Dims |-> TruncDiv(num[i], den[i])]

\* get_chunk_coordinates_from_vol_coordinates: scaling is
\* int(cv.resolution / resolution); (v / scaling - vx_vol_bounds[:, 0])
\* / chunk_size / fan_out^max(layer - 2, 0) is the quotient of the
\* integers below, then np.ceil when asked, then astype(np.int).
GetChunkCoordinatesFromVolCoordinates(v, resolution, ceil, layer) ==
    LET scaling == [i \in Dims |-> CvResolution[i] \div resolution[i]]
        k == IF layer > 2 THEN layer - 2 ELSE 0
        num == [i \in Dims |-> v[i] - scaling[i] * VxVolLo[i]]
        den == [i \in Dims |-> scaling[i] * ChunkSize[i] * FanOut^k]
    IN  [i \in Dims |-> IF ceil THEN CeilDiv(num[i], den[i])
                        ELSE TruncDiv(num[i], den[i])]

\* normalize_bounding_box for a box given in voxels: the lower corner
\* rounded down, the upper one up, both at cv.resolution and layer 1.
NormalizeBoundingBox(bbox) ==
    [lo |-> GetChunkCoordinatesFromVolCoordinates(bbox.lo, CvResolution, FALSE, 1),
     hi |-> GetChunkCoordinatesFromVolCoordinates(bbox.hi, CvResolution, TRUE, 1)]

-----------------------------------------------------------------------------
\* The voxels of atomic chunk c: [VxVolLo + c * ChunkSize, + ChunkSize).
ChunkMeetsVoxelBox(c, bbox) ==
    \A i \in Dims : /\ VxVolLo[i] + c[i] * ChunkSize[i] < bbox.hi[i]
                    /\ VxVolLo[i] + (c[i] + 1) * ChunkSize[i] > bbox.lo[i]

\* The leaves handler's voxel box, after normalize_bounding_box, selects
\* (lo <= c < hi, the test get_subgraph_nodes applies at layer 2) exactly
\* the atomic chunks of the grid holding a voxel of the box, for boxes
\* inside, across and outside the volume's lower edge.
VoxelBoxSelectsChunks(Grid, Coords) ==
    \A a, b \in Coords :
        a < b =>
            LET vb == [lo |-> [i \in Dims |-> a], hi |-> [i \in Dims |-> b]]
                cb == NormalizeBoundingBox(vb)
            IN  \A c \in Grid :
                    (\A i \in Dims : cb.lo[i] <= c[i] /\ c[i] < cb.hi[i])
                        <=> ChunkMeetsVoxelBox(c, vb)

=============================================================================

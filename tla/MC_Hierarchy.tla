---------------------------- MODULE MC_Hierarchy ----------------------------
(* Two supervoxels in two neighbouring atomic chunks, each under its own  *)
(* level-2 node and ingested root; four new root ids, enough for a merge, *)
(* a split and a second merge.  The ids are real node ids of a 3-layer    *)
(* graph with 12-bit ids, built by get_node_id.                           *)
EXTENDS Hierarchy, TLC

CONSTANTS rd, none, inf, oob,
          MetaFanout   \* graph_config.fanout of the Meta checks

\* bitmasks of the 3-layer graph: atomic chunks hold 2 bits per
\* dimension, the layers above one.
MCBitmasks == <<2, 1, 1>>

Node(l, c, seg) == GetNodeId(seg, ComputeChunkId(l, c))

\* The ids as literals (TLC substitutes them into every state it builds);
\* the ASSUME checks them against get_node_id once.
a == 1025
b == 1281
la == 2049
lb == 2561
RootNode(seg) == 3072 + seg

ASSUME /\ a = Node(1, <<0, 0, 0>>, 1)
       /\ b = Node(1, <<1, 0, 0>>, 1)
       /\ la = Node(2, <<0, 0, 0>>, 1)
       /\ lb = Node(2, <<1, 0, 0>>, 1)
       /\ \A seg \in 1..6 : RootNode(seg) = Node(3, <<0, 0, 0>>, seg)

MCSVs == {a, b}
MCL2s == {la, lb}
MCL2Of == [s \in {a, b} |-> IF s = a THEN la ELSE lb]
MCInitChild == [r \in {RootNode(1), RootNode(2)} |->
                    IF r = RootNode(1) THEN {la} ELSE {lb}]
MCRootPool == [i \in 1..4 |-> RootNode(i + 2)]
MCReaders == {rd}
\* a and b are each other's only partner, at a finite affinity.
MCPartners == [s \in {a, b} |-> IF s = a THEN <<b>> ELSE <<a>>]
MCAffinities == [s \in {a, b} |-> <<1>>]

(* The id layout of the default graph of the spec's scenarios (4 layers,  *)
(* fan-out 2, more spatial bits for the atomic layer), at 16 bits.        *)
Default == INSTANCE IdCodec WITH IdBits <- 16, LayerBits <- 3,
                                 Bitmasks <- <<3, 2, 1, 1>>, FanOut <- 2,
                                 NLayers <- 4

\* The id codec against the spec, on the default layout and on the ids
\* get_root visits: spec 8.1, every (layer, x, y, z, segment) the bit
\* fields hold packs by get_node_id into an id that get_chunk_layer,
\* get_chunk_coordinates, get_segment_id and get_chunk_id take apart again;
\* spec 8.2 and scenario S2, get_cross_chunk_edges_layer gives every pair
\* of atomic chunks of the dataset the first layer whose parent chunk holds
\* both; and above layer 2 get_child_chunk_ids and get_parent_chunk_id_dict
\* name each other's chunks; get_cross_chunk_edge_dict files every edge
\* under that layer.  Every id a reader's walk reaches decodes and packs
\* back into itself.
IdCodecMatchesSpec ==
    /\ Default!CodecRoundTrip
    /\ Default!CrossChunkLayerMatchesReference
    /\ Default!ChunkTreeConsistent
    /\ Default!CrossChunkEdgeDictFilesEdges
    /\ \A r \in Readers : IdRoundTrips(rCur[r])

(* A tree of the default layout: root R (layer 4) over two layer-3 nodes  *)
(* and one level-2 node Y that skips layer 3 (its chunk lies under the    *)
(* second layer-3 chunk); every level-2 node over supervoxels of its chunk.*)
DNode(l, x, seg) == Default!GetNodeId(seg, Default!ComputeChunkId(l, <<x, 0, 0>>))
DR == DNode(4, 0, 1)
DX == DNode(3, 0, 1)
DZ == DNode(3, 1, 1)
DY == DNode(2, 2, 1)
DA == DNode(2, 0, 1)
DB == DNode(2, 1, 1)
DC == DNode(2, 3, 1)
DefaultTree ==
    (DR :> {DX, DZ, DY}) @@ (DX :> {DA, DB}) @@ (DZ :> {DC})
    @@ (DA :> {DNode(1, 0, 1), DNode(1, 0, 2)}) @@ (DB :> {DNode(1, 1, 1)})
    @@ (DC :> {DNode(1, 3, 1)}) @@ (DY :> {DNode(1, 2, 1)})
DefaultChildren(n) == IF n \in DOMAIN DefaultTree THEN DefaultTree[n] ELSE {}

\* Nonempty boxes over the atomic chunks: every x range, and y ranges
\* that hold the nodes, miss them, or are wider than them.
DefaultBoxes ==
    {bb \in {[lo |-> <<xl, yl, 0>>, hi |-> <<xh, yh, 1>>] :
                xl \in 0..3, xh \in 1..4, yl \in {0, 1}, yh \in {1, 4}} :
        \A i \in Dims : bb.lo[i] < bb.hi[i]}

DefaultSub == INSTANCE Subgraph WITH IdBits <- 16, LayerBits <- 3,
                                     Bitmasks <- <<3, 2, 1, 1>>, FanOut <- 2,
                                     NLayers <- 4, ChildrenOf <- DefaultChildren,
                                     NoBox <- none

\* The volume of the default graph: chunks of 2, 3 and 2 voxels, the
\* volume starting at voxel 0, 1 and 2; voxel boxes from below the volume
\* to past the grid.
DefaultBox == INSTANCE BoundingBox WITH FanOut <- 2, ChunkSize <- <<2, 3, 2>>,
                                        VxVolLo <- <<0, 1, 2>>,
                                        CvResolution <- <<8, 8, 40>>
DefaultVoxelBoxCorrect == DefaultBox!VoxelBoxSelectsChunks(Default!GridCoords(1), -2..14)

DefaultSubgraphCorrect == DefaultSub!SubgraphMatchesReference(DR, DefaultBoxes)

\* get_subgraph_nodes against the pruned-subtree reference on the default
\* tree, for every box and every set of return layers (skip connections
\* and the per-layer box scaling of spec 4.4 included), and on the live
\* hierarchy between edits: the supervoxels it returns for a current root
\* are the ones get_root maps to it.
SubgraphNodesMatch ==
    /\ DefaultSubgraphCorrect
    /\ DefaultVoxelBoxCorrect
    /\ SubgraphMatchesRoots

(* The layout ChunkedGraphMeta derives from the volume, for fan-out       *)
(* MetaFanout (2 in every cfg) and                                       *)
(* chunks of 2 x 3 x 1 voxels, on every volume of 1 to 9 chunks per       *)
(* dimension; the hierarchy above is the one of a volume of 2 x 1 x 1      *)
(* chunks.                                                                 *)
DefaultMeta == INSTANCE Meta WITH Fanout <- MetaFanout, ChunkSize <- <<2, 3, 1>>
Volume(n) == [lo |-> <<0, 1, 2>>, hi |-> [i \in Dims |-> <<0, 1, 2>>[i] + n[i] * <<2, 3, 1>>[i]]]
DefaultLayoutCorrect == DefaultMeta!LayoutMatchesDataset({Volume(n) : n \in [Dims -> 1..9]})
HierarchyVolume == Volume(<<2, 1, 1>>)
HierarchyLayerCount == DefaultMeta!LayerCount(HierarchyVolume)

\* layer_count and layer_chunk_bounds agree with the chunk hierarchy of
\* the ids on every volume (see Meta), and the hierarchy checked here
\* has as many layers as layer_count gives its volume: every id a
\* reader's get_root walk visits is at a layer up to it, and the walk
\* stops at it.
LayoutMatchesIds ==
    /\ DefaultLayoutCorrect
    /\ HierarchyLayerCount = NLayers
    /\ \A r \in Readers : GetChunkLayer(rCur[r]) <= HierarchyLayerCount

(* A ring of five supervoxels: 1-2, 2-3 and 4-5 are chunk-split pairs     *)
(* (infinite affinity), 3-4 and 5-1 ordinary edges.                        *)
RingPartners == <<<<2, 5>>, <<1, 3>>, <<2, 4>>, <<3, 5>>, <<4, 1>>>>
RingAffinities == <<<<inf, 1>>, <<inf, inf>>, <<inf, 1>>, <<1, inf>>, <<inf, 1>>>>
Ring == INSTANCE Connectivity WITH Partners <- RingPartners, Affinities <- RingAffinities,
                                   Inf <- inf, ChildrenOf <- DefaultChildren

RECURSIVE Closure(_, _)
Closure(E, S) ==
    LET next == {y \in 1..5 : \E x \in S : <<x, y>> \in E} \ S
    IN  IF next = {} THEN S ELSE Closure(E, S \cup next)

\* get_chunk_split_partners and get_all_original_partners against the
\* closure over the connected infinite-affinity edges, for every
\* Connected state of the ring (each row one generation); and the two
\* readings of a Connected column, flatten_row_dict's odd counts and
\* _retrieve_connectivity's toggling, on every list of up to three
\* generations over three indices.
RingCorrect ==
    /\ \A C \in [1..5 -> SUBSET {0, 1}] :
          LET G == [s \in 1..5 |-> {[ts |-> 0, val |-> C[s]]}]
              E(aff) == UNION {{<<x, RingPartners[x][i + 1]>> :
                                  i \in {i \in C[x] : (RingAffinities[x][i + 1] = inf) = aff}}
                               : x \in 1..5}
          IN  \A s \in 1..5 :
                LET ref == Closure(E(TRUE), {s})
                IN  /\ Ring!ChunkSplitPartners(s, G) = ref
                    /\ Ring!AllOriginalPartners(s, G)
                          = [x \in ref |-> {y \in 1..5 : <<x, y>> \in E(FALSE)}]
    /\ \A V \in [1..3 -> SUBSET {0, 1, 2}] : \A n \in 0..3 :
          LET gens == {[ts |-> k, val |-> V[k]] : k \in 1..n}
          IN  Ring!FlattenConnected(gens) = Ring!RetrieveConnected(gens)

\* The connectivity reads, on the ring and on the live hierarchy.
ConnectivityCorrect == RingCorrect /\ ConnectivityMatchesHistory

(* Twenty-one voxels along x: five of a (atomic chunk 0) and sixteen of  *)
(* b (chunk 1); the blocks of the five tries reach 19 voxels, so clicks    *)
(* near either end meet the clamp at 0 and the upper face.                 *)
MCSeg == [v \in 0..20 |-> IF v < 5 THEN a ELSE b]
Lookup == INSTANCE CoordLookup WITH Seg <- MCSeg, OutOfBounds <- oob

\* The first try whose block passes the upper face, NTries if none does.
FirstPast(x) ==
    LET P == {i \in 0..(Lookup!NTries - 1) : Lookup!PastVolume(x, i)}
    IN  IF P = {} THEN Lookup!NTries ELSE CHOOSE i \in P : \A j \in P : i <= j

\* The voxels the search reads before it stops or raises.
ReadVoxels(x) == UNION {Lookup!Block(x, j) : j \in 0..(FirstPast(x) - 1)}

=============================================================================

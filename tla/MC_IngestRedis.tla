---------------------------- MODULE MC_IngestRedis ----------------------------
(* The chunk list enqueue_atomic_tasks uses (the test chunks of            *)
(* ran_ingestion_v2.py lines 105-114): the eight chunks of a 2x2x2 atomic  *)
(* layer under one layer-3 root chunk, fanout 2.                           *)
EXTENDS IngestRedis

CONSTANTS w1, w2, absent

MCWorkers == {w1, w2}
MCBounds == <<2, 2, 2>>
MCOrder == << <<0, 0, 0>>, <<0, 0, 1>>, <<0, 1, 0>>, <<0, 1, 1>>,
              <<1, 0, 0>>, <<1, 0, 1>>, <<1, 1, 0>>, <<1, 1, 1>> >>

(* An atomic chunk with supervoxels 1, 2 and 3; 4 and 5 lie in the       *)
(* neighbouring chunks.  Every edge dict over these pairs, and every set  *)
(* of agglomeration edges among the dict's edges and the edge {4, 5}      *)
(* between the neighbours (read from their remap files).                  *)
Atomic == INSTANCE AtomicChunk
Rel == INSTANCE Relation

EdgeDicts == [in : SUBSET {<<1, 2>>, <<1, 3>>, <<2, 3>>},
              between : SUBSET {<<1, 4>>, <<2, 5>>, <<3, 4>>},
              cross : SUBSET {<<3, 5>>}]

Pairs(E) == {{e[1], e[2]} : e \in UNION {E[k] : k \in DOMAIN E}}

\* Spec 4.8: an edge is active when both ends are in the same component
\* of the agglomeration, i.e. connected by agglomeration edges.
SpecActive(E, agg) ==
    LET S == UNION agg
        conn == Rel!ReflexiveTransitiveClosure([p \in S \X S |-> {p[1], p[2]} \in agg], S)
    IN  [k \in DOMAIN E |-> {e \in E[k] : {e[1], e[2]} \subseteq S /\ conn[e[1], e[2]]}]

\* Spec 4.8: the isolated supervoxels are the chunk's supervoxels with no
\* active edge.
SpecIsolated(E, agg) ==
    LET act == UNION {SpecActive(E, agg)[k] : k \in DOMAIN E}
        side == {e[1] : e \in UNION {E[k] : k \in DOMAIN E}} \cup {e[2] : e \in E["in"]}
    IN  {s \in side : \A e \in act : s \notin {e[1], e[2]}}

\* The data path of one atomic job, for every edge dict and every
\* agglomeration whose edges at the chunk are among the chunk's edges:
\* the edges _get_active_edges hands to add_atomic_edges, and its
\* isolated ids.  A constant, so TLC evaluates it once.
AtomicPathOK ==
    \A E \in EdgeDicts : \A agg \in SUBSET (Pairs(E) \cup {{4, 5}}) :
        LET out == Atomic!GetActiveEdges(E, Atomic!Mapping(agg))
        IN  /\ out.edges = SpecActive(E, agg)
            /\ out.isolated = SpecIsolated(E, agg)

\* Every atomic chunk whose job completed (_create_atomic_chunk, through
\* _get_active_edges, _define_active_edges and the component mapping of
\* _read_raw_agglomeration_data) built its level-2 nodes as spec 4.8 says:
\* the active edges are exactly those with both ends in one component,
\* and the isolated ids exactly the chunk's supervoxels without such an
\* edge, so every supervoxel gets a level-2 id once.
AtomicChunkMatchesSpec ==
    \A c \in done : AtomicPathOK
=============================================================================

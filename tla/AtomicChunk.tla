----------------------------- MODULE AtomicChunk -----------------------------
(***************************************************************************)
(* The data path of an atomic chunk job (ingest/ran_ingestion_v2.py):      *)
(* _create_atomic_chunk reads the chunk's edges by type and the           *)
(* supervoxel -> component mapping built from the agglomeration edges,    *)
(* then _get_active_edges keeps the edges whose two ends the mapping puts  *)
(* in the same component and collects the isolated ids; both go to       *)
(* add_atomic_edges, which gives the level-2 ids.                          *)
(*                                                                         *)
(* An edge dict is a function from the edge types to sets of edges        *)
(* <<sv1, sv2>>: the numpy arrays node_ids1 and node_ids2 side by side;   *)
(* the affinities and areas go along with the active flags unchanged and  *)
(* are left out.  sv1 is the supervoxel of the chunk (the loader and the  *)
(* swap of _collect_edge_data normalise the order); for "in" edges both   *)
(* ends are.  Agglomeration edges are the pairs {a, b} of the remap       *)
(* files.                                                                  *)
(***************************************************************************)
EXTENDS FiniteSets

\* mapping.get(k, -1) for a supervoxel the mapping does not hold.  Component
\* labels are the components themselves, which are never empty.
Unmapped == {}

\* nx.connected_components: the nodes reached from S by a breadth-first
\* search over the edges agg.
RECURSIVE Component(_, _)
Component(S, agg) ==
    LET next == S \cup UNION {e \in agg : e \cap S # {}}
    IN  IF next = S THEN S ELSE Component(next, agg)

\* _read_raw_agglomeration_data: nx.Graph().add_edges_from(edges), then
\* every supervoxel of the i_cc-th connected component is mapped to i_cc.
\* Only equality of labels is used, so a component is its own label.
Mapping(agg) == [s \in UNION agg |-> Component({s}, agg)]

\* mapping_vec: the label of s, -1 when s is not in the mapping.
Label(m, s) == IF s \in DOMAIN m THEN m[s] ELSE Unmapped

\* Mutant: the edges with two unmapped ends are not set to False.
DefineActiveNoMask(E, m) ==
    [k \in DOMAIN E |-> {e \in E[k] : Label(m, e[1]) = Label(m, e[2])}]

\* _define_active_edges, the active flags: agg_id_1 == agg_id_2, then
\* active[k][agg_id_1 == -1] = False.  A type without edges gets an
\* empty flag array.
DefineActive(E, m) ==
    [k \in DOMAIN E |-> {e \in E[k] : /\ Label(m, e[1]) = Label(m, e[2])
                                      /\ Label(m, e[1]) # Unmapped}]

\* Mutant: only node_ids1 is searched for unmapped ids.
DefineIsolatedSv1Only(E, m) ==
    UNION {{e[1] : e \in {x \in E[k] : Label(m, x[1]) = Unmapped}} : k \in DOMAIN E}

\* _define_active_edges, the isolated ids: the unmapped node_ids1 of every
\* type and, for "in" edges, the unmapped node_ids2 too; np.unique of
\* their concatenation.
DefineIsolated(E, m) ==
    UNION {{e[1] : e \in {x \in E[k] : Label(m, x[1]) = Unmapped}}
           \cup {e[2] : e \in {x \in E[k] : k = "in" /\ Label(m, x[2]) = Unmapped}}
             : k \in DOMAIN E}

\* _get_active_edges: the edges of every type masked by the flags, and the
\* isolated ids; what _create_atomic_chunk hands to add_atomic_edges.
GetActiveEdges(E, m) ==
    [edges |-> DefineActive(E, m), isolated |-> DefineIsolated(E, m)]

=============================================================================

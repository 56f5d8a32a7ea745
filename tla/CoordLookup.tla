----------------------------- MODULE CoordLookup -----------------------------
(***************************************************************************)
(* get_atomic_id_from_coord (graph/chunkedgraph.py) and the request checks *)
(* of handle_merge (app/segmentation/common.py): a click is a node id and  *)
(* a voxel coordinate, and the supervoxel of the click is searched in      *)
(* growing blocks of the segmentation around the voxel for an id whose     *)
(* root is the root of the clicked node.                                   *)
(*                                                                         *)
(* The segmentation is a line of voxels along x, Seg[x] the supervoxel at  *)
(* x, and constant across y and z inside a block: every id's count in a    *)
(* block is its count along x times the same y-z area, so the frequency    *)
(* order, which is all the search uses, is the order along x.  cv_mip is   *)
(* 0 (its default), so x is the voxel index the handler passes in.  The    *)
(* lower end of a block is clamped at 0 by the code; self.cv is a bounded  *)
(* CloudVolume (chunkedgraph.py:296), so a block whose upper end passes   *)
(* the volume raises OutOfBoundsError out of the search.                   *)
(***************************************************************************)
EXTENDS Integers, FiniteSets, Sequences

CONSTANTS
    Seg,    \* Seg[x]: the supervoxel id of voxel x (self.cv)
    None,        \* Python None
    OutOfBounds  \* the OutOfBoundsError self.cv[...] raises past the volume

Voxels == DOMAIN Seg


\* The default n_tries of get_atomic_id_from_coord.
NTries == 5

Pad(i) == (i - 1) * (i - 1)

\* The block of try i passes the upper face of the volume: x_h > size.
PastVolume(x, i) == x + 1 + Pad(i) > Cardinality(Voxels)

\* The voxels of the block of try i: [x - (i - 1)^2, x + 1 + (i - 1)^2),
\* the lower end clamped at 0.
Block(x, i) ==
    {v \in Voxels : /\ v >= x - Pad(i) /\ v >= 0
                    /\ v < x + 1 + Pad(i)}

\* np.unique(atomic_id_block, return_counts=True).
BlockIds(x, i) == {Seg[v] : v \in Block(x, i)}
BlockCount(x, i, s) == Cardinality({v \in Block(x, i) : Seg[v] = s})

\* Mutant: a candidate is taken without comparing its root.
RECURSIVE TriesOneShort(_, _, _, _, _)
\* Mutant: the loop stops one try early, as range(n_tries - 1) would.
TriesOneShort(x, i, root, rootOf, checked) ==
    IF i = NTries - 1 THEN {None}
    ELSE IF PastVolume(x, i) THEN {OutOfBounds}
    ELSE LET cand == BlockIds(x, i) \ checked
             match == {s \in cand : rootOf[s] = root}
         IN  IF match = {} THEN TriesOneShort(x, i + 1, root, rootOf, checked \cup cand)
             ELSE {s \in match : \A t \in match : BlockCount(x, i, s) <= BlockCount(x, i, t)}

\* The loop over i_try: the ids of the block not in checked, by ascending
\* count (np.argsort's order among equal counts is not specified, so
\* every least-frequent matching id is a possible result); the first
\* whose get_root is root is returned, the others go to checked.  A try
\* with no match puts all its ids in checked; after NTries the result is
\* None.  A try whose block passes the volume raises.  The set of
\* possible results.
RECURSIVE Tries(_, _, _, _, _)
Tries(x, i, root, rootOf, checked) ==
    IF i = NTries THEN {None}
    ELSE IF PastVolume(x, i) THEN {OutOfBounds}
    ELSE LET cand == BlockIds(x, i) \ checked
             match == {s \in cand : rootOf[s] = root}
         IN  IF match = {} THEN Tries(x, i + 1, root, rootOf, checked \cup cand)
             ELSE {s \in match : \A t \in match : BlockCount(x, i, s) <= BlockCount(x, i, t)}

\* get_atomic_id_from_coord(x, parent_id): a supervoxel parent_id is
\* returned as it is; else the search for an id under
\* root_id = get_root(parent_id).  rootOf[n] is get_root(n), layerOf[n]
\* get_chunk_layer(n) and coordOf[n] get_chunk_coordinates(n).
GetAtomicIdFromCoord(x, parentId, layerOf, rootOf) ==
    IF layerOf[parentId] = 1 THEN {parentId}
    ELSE Tries(x, 0, rootOf[parentId], rootOf, {})

\* The sequences that take, at every position k, one of the possible
\* results in R[k].
Choices(R) == {f \in [DOMAIN R -> UNION {R[k] : k \in DOMAIN R}] : \A k \in DOMAIN R : f[k] \in R[k]}

\* The handlers look the clicks up in order and stop at the first that
\* fails: None raises BadRequest, OutOfBoundsError goes up uncaught.
FirstFailure(ids) ==
    LET bad == {k \in DOMAIN ids : ids[k] \in {None, OutOfBounds}}
    IN  IF bad = {} THEN "ok"
        ELSE ids[CHOOSE k \in bad : \A j \in bad : k <= j]

\* handle_merge for two clicks [node, x]: each atomic id is looked up,
\* None raises BadRequest; then the Chebyshev distance of the two
\* supervoxels' chunk coordinates must be at most 3, else BadRequest;
\* otherwise the edge goes to add_edges.  The set of possible outcomes.
HandleMerge(clicks, layerOf, coordOf, rootOf) ==
    LET ids == [k \in 1..2 |-> GetAtomicIdFromCoord(clicks[k].x, clicks[k].node,
                                                   layerOf, rootOf)]
        far(e) == \E d \in 1..3 : coordOf[e[1]][d] - coordOf[e[2]][d] > 3
                                  \/ coordOf[e[2]][d] - coordOf[e[1]][d] > 3
    IN  {[raised |-> FirstFailure(e) = OutOfBounds,
          badRequest |-> FirstFailure(e) = None \/ (FirstFailure(e) = "ok" /\ far(e)),
          edge |-> e] : e \in Choices(ids)}

\* handle_split: every source and then every sink click [node, x] is
\* looked up the same way; the ids go to remove_edges as the source and
\* sink lists.  The set of possible outcomes.
HandleSplit(sources, sinks, layerOf, rootOf) ==
    LET look(c) == GetAtomicIdFromCoord(c.x, c.node, layerOf, rootOf)
        n == Len(sources)
        all(src, snk) == [k \in 1..(n + Len(sinks)) |-> IF k <= n THEN src[k] ELSE snk[k - n]]
    IN  {[raised |-> FirstFailure(all(src, snk)) = OutOfBounds,
          badRequest |-> FirstFailure(all(src, snk)) = None,
          sources |-> src, sinks |-> snk] :
            src \in Choices([k \in DOMAIN sources |-> look(sources[k])]),
            snk \in Choices([k \in DOMAIN sinks |-> look(sinks[k])])}

=============================================================================

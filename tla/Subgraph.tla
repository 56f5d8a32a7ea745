------------------------------ MODULE Subgraph ------------------------------
(***************************************************************************)
(* get_subgraph_nodes and _get_subgraph_higher_layer_nodes               *)
(* (graph/chunkedgraph.py): the nodes below an agglomeration id, layer by *)
(* layer, whose chunks meet a bounding box given in atomic chunk          *)
(* coordinates.  The walk reads the latest Child rows through             *)
(* ChildrenOf; a node whose parent skips layers stays in the frontier    *)
(* until the loop reaches its layer.  Arrays of ids are sets (children of *)
(* distinct nodes are disjoint); the result is the layer -> ids dict.     *)
(***************************************************************************)
EXTENDS IdCodec, FiniteSetsExt, TLC

CONSTANTS
    ChildrenOf(_),  \* get_children(node_id): the newest Child cell, or none
    NoBox           \* bounding_box=None

\* get_children(node_ids, flatten=True)
ChildrenFlat(S) == UNION {ChildrenOf(n) : n \in S}

\* Mutant: the upper bound test is `<=` instead of `<`.
InBoxInclusive(c, bbox) ==
    LET k == Max({GetChunkLayer(c) - 2, 0})
        cc == GetChunkCoordinates(c)
    IN  \A i \in Dims : /\ cc[i] * FanOut^k <= bbox.hi[i]
                        /\ (cc[i] + 1) * FanOut^k > bbox.lo[i]

\* The bound check of _get_subgraph_higher_layer_nodes_threaded: the box
\* divided by fan_out ** max(layer - 2, 0) per child, then
\* coords < hi / F^k and coords + 1 > lo / F^k (the division by a power of
\* the fan-out is exact, so both sides are multiplied out).
InBox(c, bbox) ==
    LET k == Max({GetChunkLayer(c) - 2, 0})
        cc == GetChunkCoordinates(c)
    IN  \A i \in Dims : /\ cc[i] * FanOut^k < bbox.hi[i]
                        /\ (cc[i] + 1) * FanOut^k > bbox.lo[i]

\* _get_subgraph_higher_layer_nodes_threaded: the children of the ids,
\* filtered by the box when there is one.
ThreadedChildren(S, bbox) ==
    LET children == ChildrenFlat(S)
    IN  IF bbox = NoBox THEN children ELSE {c \in children : InBox(c, bbox)}

\* Mutant: the ids below the current layer are dropped, not carried.
RECURSIVE HigherLoopNoCarry(_, _, _, _, _, _)
HigherLoopNoCarry(ids, layer, stop, ret, bbox, acc) ==
    IF layer <= stop THEN acc
    ELSE LET this == {c \in ids : GetChunkLayer(c) = layer}
             next == ThreadedChildren(this, bbox)
         IN  HigherLoopNoCarry(next, layer - 1, stop, ret, bbox,
                               IF layer - 1 \in ret THEN (layer - 1 :> next) @@ acc
                               ELSE acc)

\* The while loop: expand the ids at this layer, keep the others, step down
\* and record the frontier when the layer is requested.
RECURSIVE HigherLoop(_, _, _, _, _, _)
HigherLoop(ids, layer, stop, ret, bbox, acc) ==
    IF layer <= stop THEN acc
    ELSE LET this == {c \in ids : GetChunkLayer(c) = layer}
             next == ThreadedChildren(this, bbox) \cup (ids \ this)
         IN  HigherLoop(next, layer - 1, stop, ret, bbox,
                        IF layer - 1 \in ret THEN (layer - 1 :> next) @@ acc
                        ELSE acc)

\* _get_subgraph_higher_layer_nodes(node_id, bounding_box, return_layers)
GetSubgraphHigherLayerNodes(node, bbox, ret) ==
    LET layer == GetChunkLayer(node)
    IN  HigherLoop({node}, layer, Max({2, Min(ret)}), ret, bbox,
                   IF layer \in ret THEN (layer :> {node})
                   ELSE [l \in {} |-> {}])

\* get_subgraph_nodes: layer 2 is always computed when layer 1 is asked
\* for, its children are fetched unfiltered, and layer 2 is dropped again
\* unless it was requested.
GetSubgraphNodes(node, bbox, ret) ==
    IF Min(ret) >= 2 THEN GetSubgraphHigherLayerNodes(node, bbox, ret)
    ELSE LET npl == GetSubgraphHigherLayerNodes(node, bbox, ret \cup {2})
             kept == [l \in DOMAIN npl \ (IF 2 \in ret THEN {} ELSE {2}) |-> npl[l]]
         IN  (1 :> ChildrenFlat(npl[2])) @@ kept

-----------------------------------------------------------------------------
(* Reference: the subtree pruned to the box, cut at a layer.               *)

\* A chunk meets the box when some atomic chunk of the dataset inside the
\* box lies in it (spec 4.4: the box in layer-1 coordinates, layer 1
\* counted as layer 2).
MeetsBox(c, bbox) ==
    LET l == GetChunkLayer(c)
        up == IF l <= 2 THEN 0 ELSE l - 2
    IN  \E x \in GridCoords(1) :
            /\ \A i \in Dims : bbox.lo[i] <= x[i] /\ x[i] < bbox.hi[i]
            /\ DivCoords(x, up) = GetChunkCoordinates(c)

\* The nodes of layer <= l reached from n through children whose chunks
\* meet the box, stopping at the first such node of every path.
RECURSIVE RefFrontier(_, _, _)
RefFrontier(n, l, bbox) ==
    IF GetChunkLayer(n) <= l THEN {n}
    ELSE UNION {RefFrontier(c, l, bbox) :
                    c \in {c \in ChildrenOf(n) : bbox = NoBox \/ MeetsBox(c, bbox)}}

\* For every box and every set of requested layers up to the layer of the
\* root, get_subgraph_nodes returns at each layer the reference frontier.
SubgraphMatchesReference(root, Boxes) ==
    \A bbox \in Boxes \cup {NoBox} :
        \A ret \in SUBSET (1..GetChunkLayer(root)) \ {{}} :
            GetSubgraphNodes(root, bbox, ret) = [l \in ret |-> RefFrontier(root, l, bbox)]

=============================================================================

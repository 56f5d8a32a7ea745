----------------------------- MODULE Connectivity -----------------------------
(***************************************************************************)
(* The read side of the Connectivity columns of a supervoxel row          *)
(* (graph/chunkedgraph.py).  Partner, Affinity and Area are arrays written *)
(* at ingest; Connected is a list of generations (cells), each an array   *)
(* of indices into Partner, and an index is connected when it occurs in   *)
(* an odd number of generations: an edit toggles an edge by appending its *)
(* index (spec 4.3, invariant 5).  Here Partners[s] and Affinities[s] are *)
(* the arrays of s, and a row's Connected generations are a set of cells  *)
(* [ts, val] with val the set of indices of the generation.               *)
(***************************************************************************)
EXTENDS Integers, Sequences, FiniteSets

CONSTANTS
    Partners,      \* Partners[s]: Connectivity.Partner of supervoxel s
    Affinities,    \* Affinities[s]: Connectivity.Affinity, parallel to it
    Inf,           \* np.inf, the affinity of a chunk-split supervoxel pair
    ChildrenOf(_)  \* get_children(node_id) for one id

SVs == DOMAIN Partners

\* np.arange(len(Partner)) and Partner[i], Affinity[i] (0-based).
PartnerIdx(s) == 0..(Len(Partners[s]) - 1)
PartnerAt(s, i) == Partners[s][i + 1]
AffinityAt(s, i) == Affinities[s][i + 1]

\* Mutant: np.unique without the odd-count filter.
FlattenConnectedAny(gens) == UNION {g.val : g \in gens}

\* flatten_row_dict for the Connected column: the generations are
\* concatenated, np.unique counts every index, and the indices with an odd
\* count are kept.
FlattenConnected(gens) ==
    {i \in UNION {g.val : g \in gens} : Cardinality({g \in gens : i \in g.val}) % 2 = 1}

\* _get_atomic_node_info_core: Disconnected is every index of Partner not
\* in the flattened Connected.
AtomicNodeInfo(s, gens) ==
    LET connected == FlattenConnected(gens)
    IN  [connected |-> connected, disconnected |-> PartnerIdx(s) \ connected]

\* _get_atomic_partners_core after get_atomic_node_info: the included
\* indices select Partner and Affinity; an index past the end of Partner
\* raises IndexError (ok = FALSE).
GetAtomicPartners(s, gens, inclConnected, inclDisconnected) ==
    LET info == AtomicNodeInfo(s, gens)
        incl == (IF inclConnected THEN info.connected ELSE {})
                \cup (IF inclDisconnected THEN info.disconnected ELSE {})
    IN  [ok |-> incl \subseteq PartnerIdx(s), idx |-> incl \cap PartnerIdx(s)]

\* get_atomic_node_partners: Partner[flattened Connected].
GetAtomicNodePartners(s, gens) ==
    LET c == FlattenConnected(gens)
    IN  [ok |-> c \subseteq PartnerIdx(s),
         ids |-> {PartnerAt(s, i) : i \in c \cap PartnerIdx(s)}]

\* The connected partners of s at infinite (chunk split) and at finite
\* affinity, as the two loops below take them from get_atomic_partners.
InfPartners(s, G) ==
    {PartnerAt(s, i) : i \in {i \in GetAtomicPartners(s, G[s], TRUE, FALSE).idx :
                                  AffinityAt(s, i) = Inf}}
FinitePartners(s, G) ==
    {PartnerAt(s, i) : i \in {i \in GetAtomicPartners(s, G[s], TRUE, FALSE).idx :
                                  AffinityAt(s, i) # Inf}}

\* The while loop of get_chunk_split_partners: pop an id, append its
\* infinite-affinity partners not yet in chunk_split_partners to both lists.
RECURSIVE SplitPartnersLoop(_, _, _)
SplitPartnersLoop(queue, found, G) ==
    IF queue = {} THEN found
    ELSE LET x == CHOOSE x \in queue : TRUE
             new == InfPartners(x, G) \ found
         IN  SplitPartnersLoop((queue \ {x}) \cup new, found \cup new, G)

\* Mutant: the new partners are not put back on atomic_ids, so only the
\* direct partners of atomic_id are found.
ChunkSplitPartnersDirect(s, G) == {s} \cup InfPartners(s, G)

\* get_chunk_split_partners(atomic_id), with G[s] the Connected
\* generations of every row.
ChunkSplitPartners(s, G) == SplitPartnersLoop({s}, {s}, G)

\* The while loop of get_all_original_partners: partner_dict[x] gets the
\* finite-affinity partners of the popped x, and the infinite-affinity
\* partners not yet keys of partner_dict are appended to atomic_ids.
RECURSIVE AllPartnersLoop(_, _, _)
AllPartnersLoop(queue, dict, G) ==
    IF queue = {} THEN dict
    ELSE LET x == CHOOSE x \in queue : TRUE
             d == [y \in DOMAIN dict \cup {x} |->
                      IF y = x THEN FinitePartners(x, G) ELSE dict[y]]
         IN  AllPartnersLoop((queue \ {x}) \cup (InfPartners(x, G) \ DOMAIN d), d, G)

\* get_all_original_partners(atomic_id).
AllOriginalPartners(s, G) == AllPartnersLoop({s}, [y \in {} |-> {}], G)

-----------------------------------------------------------------------------
\* Mutant: a toggle only ever adds the index.
RECURSIVE RetrieveConnectedAddOnly(_)
RetrieveConnectedAddOnly(gens) ==
    IF gens = {} THEN {}
    ELSE LET g == CHOOSE g \in gens : \A h \in gens : h.ts <= g.ts
         IN  RetrieveConnectedAddOnly(gens \ {g}) \cup g.val

\* _retrieve_connectivity: over the generations oldest first (the row
\* lists them newest first and the loop reverses it), tmp.remove(x) if x
\* is in tmp else tmp.add(x); the newest generation is applied last.
RECURSIVE RetrieveConnected(_)
RetrieveConnected(gens) ==
    IF gens = {} THEN {}
    ELSE LET g == CHOOSE g \in gens : \A h \in gens : h.ts <= g.ts
             tmp == RetrieveConnected(gens \ {g})
         IN  (tmp \ g.val) \cup (g.val \ tmp)

\* _connected_or_not: mask[connected_indices] = True raises IndexError for
\* an index past the array; else the masked rows or their complement.
ConnectedOrNot(s, idx, connected) ==
    [ok |-> idx \subseteq PartnerIdx(s),
     sel |-> IF connected THEN idx \cap PartnerIdx(s) ELSE PartnerIdx(s) \ idx]

\* _retrieve_connectivity for one row: row[Connected] raises KeyError when
\* the row has no Connected cell; the edges (node_id, partner) are taken
\* only when the row has a Partner column.
RetrieveConnectivity(s, gens, connected) ==
    LET c == ConnectedOrNot(s, RetrieveConnected(gens), connected)
    IN  IF Len(Partners[s]) = 0 THEN [ok |-> gens # {}, edges |-> {}]
        ELSE [ok |-> gens # {} /\ c.ok, edges |-> {<<s, PartnerAt(s, i)>> : i \in c.sel}]

SortedEdge(e) == IF e[1] <= e[2] THEN e ELSE <<e[2], e[1]>>

\* get_subgraph_chunk(node_ids): the rows of the children of node_ids that
\* hold connectivity columns (the supervoxels), each through
\* _retrieve_connectivity; with make_unique every edge is sorted and
\* np.unique drops the copy stored at its other end.
GetSubgraphChunk(nodeIds, makeUnique, connected, G) ==
    LET rows == UNION {ChildrenOf(n) : n \in nodeIds} \cap SVs
        res == [s \in rows |-> RetrieveConnectivity(s, G[s], connected)]
        edges == UNION {res[s].edges : s \in rows}
    IN  [ok |-> \A s \in rows : res[s].ok,
         edges |-> IF makeUnique THEN {SortedEdge(e) : e \in edges} ELSE edges]

=============================================================================

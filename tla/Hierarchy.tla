------------------------------ MODULE Hierarchy ------------------------------
(***************************************************************************)
(* The hierarchy read path and the lineage columns (graph/chunkedgraph.py) *)
(* against the writes of one edit at a time.  Every cell of the table is  *)
(* a versioned cell [row, col, ts, val].  A read is a point-in-time read:  *)
(* read_byte_rows filters a column by an end time and returns the versions *)
(* newest first, so get_parent(n, ts) is the newest Parent cell with      *)
(* timestamp <= ts.  get_root walks up with one get_parent per step.       *)
(*                                                                         *)
(* An edit (operation.py, spec 4.7 step 8) stamps all its row mutations    *)
(* with the operation timestamp T and hands them to bulk_write.  The block *)
(* goes to Bigtable mutate_rows, which applies each row atomically and the *)
(* rows independently, in any order; a row whose transient errors outlast  *)
(* the retry deadline fails while the others are written, and bulk_write   *)
(* raises after the block.  The layers are: supervoxels (1), level-2 nodes *)
(* (2) and roots (3 = n_layers); edits replace roots, as a merge or split  *)
(* across chunks does at the top layer.                                    *)
(***************************************************************************)
EXTENDS Integers, Sequences, FiniteSets, IdCodec

CONSTANTS
    SVs,          \* supervoxels (layer 1)
    L2s,          \* level-2 nodes
    L2Of,         \* L2Of[sv]: the level-2 parent of sv written at ingest
    InitChild,    \* InitChild[r]: the children of an ingested root r
    RootPool,     \* ids create_segment_id hands to new roots, in order
    Readers,      \* threads calling get_root
    MaxTime,      \* the last clock value
    MaxFailures,  \* bound on rows that fail for good
    Partners,     \* Partners[sv]: the Connectivity.Partner array of sv
    Affinities,   \* Affinities[sv]: the Connectivity.Affinity array
    Inf,          \* np.inf
    None          \* Python None

InitRoots == DOMAIN InitChild
PoolIds == {RootPool[i] : i \in DOMAIN RootPool}
RootIds == InitRoots \cup PoolIds
Nodes == SVs \cup L2s \cup RootIds
Cols == {"Parent", "Child", "FormerParent", "NewParent", "Connected"}
Forever == MaxTime + 1    \* get_max_time(): no end-time filter
Origin == -1              \* get_min_time()

ASSUME /\ L2Of \in [SVs -> L2s]
       /\ \A r \in InitRoots : InitChild[r] \subseteq L2s
       /\ PoolIds \cap InitRoots = {}
       /\ \A s \in SVs : GetChunkLayer(s) = 1
       /\ \A l \in L2s : GetChunkLayer(l) = 2
       /\ \A r \in RootIds : GetChunkLayer(r) = NLayers
       /\ DOMAIN Partners = SVs
       /\ \A s \in SVs : \A i \in DOMAIN Partners[s] : Partners[s][i] \in SVs \ {s}

InitRootOf(l) == CHOOSE r \in InitRoots : l \in InitChild[r]

InitTree == [s \in SVs |-> InitRootOf(L2Of[s])]

\* The rows written at ingest, all at timestamp 0; Connected holds the
\* indices of the partners the agglomeration puts in the same component
\* (spec 4.8, active edges).
IngestCells ==
    {[row |-> s, col |-> "Connected", ts |-> 0,
      val |-> {i \in 0..(Len(Partners[s]) - 1) : InitTree[Partners[s][i + 1]] = InitTree[s]}]
        : s \in SVs} \cup
    {[row |-> s, col |-> "Parent", ts |-> 0, val |-> {L2Of[s]}] : s \in SVs}
    \cup {[row |-> l, col |-> "Child", ts |-> 0, val |-> {s \in SVs : L2Of[s] = l}] : l \in L2s}
    \cup {[row |-> l, col |-> "Parent", ts |-> 0, val |-> {InitRootOf(l)}] : l \in L2s}
    \cup {[row |-> r, col |-> "Child", ts |-> 0, val |-> InitChild[r]] : r \in InitRoots}

VARIABLES
    cells,      \* the versioned cells of the table
    now,        \* utcnow()
    lastT,      \* timestamp of the last edit
    ephase,     \* edit phase: idle or write (inside bulk_write)
    eT,         \* timestamp of the running edit
    pending,    \* rows of the running bulk_write not yet applied
    eFailed,    \* some row of the running bulk_write failed
    failures,   \* rows failed so far
    nextId,     \* index of the next id of RootPool
    tree,       \* history: root of every supervoxel after the last edit
    eTree,      \* history: root of every supervoxel the running edit makes
    hist,       \* history: [ts, tree] of every committed edit
    failedTs,   \* history: timestamps of edits whose bulk_write raised
    rpc,        \* reader phase: idle, walk, done, error
    rSv,        \* node_id passed to get_root
    rTs,        \* time_stamp passed to get_root
    rCur,       \* parent_id of the walk
    rDirty,     \* history: an uncommitted edit with T <= rTs overlapped the read
    rExpect     \* history: the root the committed edits gave rSv at rTs on return

edVars == <<cells, lastT, ephase, eT, pending, eFailed, failures, nextId, tree,
            eTree, hist, failedTs>>
rdVars == <<rpc, rSv, rTs, rCur, rDirty, rExpect>>
vars == <<now, edVars, rdVars>>

-----------------------------------------------------------------------------
(* Reads.                                                                  *)

\* read_byte_rows: the column filter and the time range filter (end time
\* inclusive or not) of one row; the cells come back newest first.
Versions(row, col, end, incl) ==
    {c \in cells : /\ c.row = row /\ c.col = col
                   /\ IF incl THEN c.ts <= end ELSE c.ts < end}

\* read_byte_row(...)[0] for one column: the newest version, None if the
\* filtered row is empty.
Newest(row, col, end, incl) ==
    LET vs == Versions(row, col, end, incl)
    IN  IF vs = {} THEN None
        ELSE CHOOSE c \in vs : \A d \in vs : d.ts <= c.ts

\* read_node_id_row without a time filter.
Latest(row, col) == Newest(row, col, Forever, TRUE)

\* A cell value is a set of ids: the id array of Child, FormerParent and
\* NewParent, and for the scalar Parent column the set of its one id.
TheId(S) == CHOOSE x \in S : TRUE

\* get_parent(node_id, time_stamp=ts)
GetParent(n, ts) ==
    LET c == Newest(n, "Parent", ts, TRUE) IN IF c = None THEN None ELSE TheId(c.val)

\* get_children(node_id) for one id: the newest Child cell, empty if none.
GetChildren(n) == LET c == Latest(n, "Child") IN IF c = None THEN {} ELSE c.val

Conn == INSTANCE Connectivity WITH ChildrenOf <- GetChildren

\* The Connected generations of every supervoxel row at time ts.
ConnectedAt(ts) == [s \in SVs |-> Versions(s, "Connected", ts, TRUE)]

\* get_parents(node_ids, time_stamp=ts) with get_only_relevant_parents:
\* read_node_id_rows returns only the rows holding a Parent cell <= ts;
\* none gives None, and a missing row among others raises KeyError.
GetParents(ids, ts) ==
    LET has == {n \in ids : Versions(n, "Parent", ts, TRUE) # {}}
    IN  IF has = {} THEN None
        ELSE [ok |-> has = ids, val |-> [n \in has |-> GetParent(n, ts)]]

Above(p, stop) == {i \in DOMAIN p : GetChunkLayer(p[i]) >= stop}

\* Mutant: layer_mask is not cleared for the ids that reached stop_layer.
RECURSIVE RootsRoundsNoMask(_, _, _, _, _)
RootsRoundsNoMask(p, mask, ts, stop, k) ==
    LET t == GetParents({p[i] : i \in mask}, ts)
    IN  IF k = 0 \/ t = None THEN [ok |-> TRUE, p |-> p, mask |-> mask]
        ELSE IF ~t.ok THEN [ok |-> FALSE, p |-> p, mask |-> mask]
        ELSE LET p2 == [i \in DOMAIN p |-> IF i \in mask THEN t.val[p[i]] ELSE p[i]]
             IN  IF Above(p2, stop) = DOMAIN p2 THEN [ok |-> TRUE, p |-> p2, mask |-> mask]
                 ELSE RootsRoundsNoMask(p2, mask, ts, stop, k - 1)

\* The inner loop of get_roots (at most stop_layer + 1 rounds): get_parents
\* of the unique masked ids, written back through inverse; layer_mask is
\* cleared where the layer reached stop_layer, and the loop returns when
\* no id is below it, or breaks when get_parents returns None.
RECURSIVE RootsRounds(_, _, _, _, _)
RootsRounds(p, mask, ts, stop, k) ==
    LET t == GetParents({p[i] : i \in mask}, ts)
    IN  IF k = 0 \/ t = None THEN [ok |-> TRUE, p |-> p, mask |-> mask]
        ELSE IF ~t.ok THEN [ok |-> FALSE, p |-> p, mask |-> mask]
        ELSE LET p2 == [i \in DOMAIN p |-> IF i \in mask THEN t.val[p[i]] ELSE p[i]]
                 m2 == mask \ Above(p2, stop)
             IN  IF Above(p2, stop) = DOMAIN p2 THEN [ok |-> TRUE, p |-> p2, mask |-> m2]
                 ELSE RootsRounds(p2, m2, ts, stop, k - 1)

\* The tries of get_roots: each restarts parent_ids from node_ids but keeps
\* layer_mask from the previous try; the result is parent_ids of the last
\* try (or of the first one with no id below stop_layer).
RECURSIVE RootsTries(_, _, _, _, _, _)
RootsTries(ids, mask, ts, stop, n, last) ==
    IF n = 0 THEN last
    ELSE LET r == RootsRounds(ids, mask \ Above(ids, stop), ts, stop, stop + 1)
         IN  IF ~r.ok \/ Above(r.p, stop) = DOMAIN ids THEN r
             ELSE RootsTries(ids, r.mask, ts, stop, n - 1, r)

\* get_roots(node_ids, time_stamp, stop_layer, n_tries) for a sequence of
\* ids: [ok |-> no KeyError, p |-> the returned parent_ids].
GetRoots(ids, ts, stopLayer, nTries) ==
    LET stop == IF stopLayer = None THEN NLayers
                ELSE IF stopLayer < NLayers THEN stopLayer ELSE NLayers
    IN  RootsTries(ids, DOMAIN ids, ts, stop, nTries, [ok |-> TRUE, p |-> ids, mask |-> {}])

\* get_root(node_id, time_stamp, get_all_parents=True) with n_tries = 1:
\* the parents the walk appends until a None or stop_layer.
RECURSIVE ParentsWalk(_, _, _)
ParentsWalk(n, ts, k) ==
    LET q == GetParent(n, ts)
    IN  IF k = 0 \/ q = None THEN <<>>
        ELSE IF GetChunkLayer(q) >= NLayers THEN <<q>>
        ELSE <<q>> \o ParentsWalk(q, ts, k - 1)

\* get_all_parents_dict: {layer: parent} over those parents; get_root
\* raises when the walk ends below the top layer.
GetAllParentsDict(n, ts) ==
    LET ps == ParentsWalk(n, ts, NLayers + 1 - GetChunkLayer(n))
        last == IF ps = <<>> THEN n ELSE ps[Len(ps)]
    IN  [ok |-> GetChunkLayer(last) >= NLayers,
         d |-> [l \in {GetChunkLayer(ps[i]) : i \in DOMAIN ps} |->
                  CHOOSE x \in {ps[i] : i \in DOMAIN ps} : GetChunkLayer(x) = l]]

\* get_root(node_id, time_stamp=ts) with n_tries = 1: the last id of the
\* walk; it raises (ok = FALSE) when that is below the top layer.
GetRoot(n, ts) ==
    LET ps == ParentsWalk(n, ts, NLayers + 1 - GetChunkLayer(n))
        last == IF ps = <<>> THEN n ELSE ps[Len(ps)]
    IN  [ok |-> GetChunkLayer(last) >= NLayers, id |-> last]

\* One row of the lineage walks: the newest cell of col (NewParent or
\* FormerParent) with its ids, else the Child cell with no ids; a row with
\* neither raises ChunkedGraphError.
LineageRow(n, col) ==
    LET c == Latest(n, col)
        k == Latest(n, "Child")
    IN  CASE c # None -> [ok |-> TRUE, ids |-> c.val, ts |-> c.ts]
          [] k # None -> [ok |-> TRUE, ids |-> {}, ts |-> k.ts]
          [] OTHER    -> [ok |-> FALSE, ids |-> {}, ts |-> 0]

\* The while loop of get_future_root_ids over next_ids: a row is kept when
\* its timestamp is before time_stamp, its NewParent ids are followed, and
\* every kept id but root_id goes to id_history.
RECURSIVE FutureWalk(_, _, _)
FutureWalk(next, ts, root) ==
    IF next = {} THEN [ok |-> TRUE, ids |-> {}]
    ELSE LET row  == [n \in next |-> LineageRow(n, "NewParent")]
             kept == {n \in next : row[n].ts < ts}
             rest == FutureWalk(UNION {row[n].ids : n \in kept}, ts, root)
         IN  IF \E n \in next : ~row[n].ok THEN [ok |-> FALSE, ids |-> {}]
             ELSE [ok |-> rest.ok, ids |-> (kept \ {root}) \cup rest.ids]

\* The same loop of get_past_root_ids over FormerParent, keeping the rows
\* whose timestamp is after time_stamp.
RECURSIVE PastWalk(_, _, _)
PastWalk(next, ts, root) ==
    IF next = {} THEN [ok |-> TRUE, ids |-> {}]
    ELSE LET row  == [n \in next |-> LineageRow(n, "FormerParent")]
             kept == {n \in next : row[n].ts > ts}
             rest == PastWalk(UNION {row[n].ids : n \in kept}, ts, root)
         IN  IF \E n \in next : ~row[n].ok THEN [ok |-> FALSE, ids |-> {}]
             ELSE [ok |-> rest.ok, ids |-> (kept \ {root}) \cup rest.ids]

\* Mutant: only the first former parent of a row is followed, as
\* get_change_log does with ids[0].
RECURSIVE PastWalkFirstOnly(_, _, _)
PastWalkFirstOnly(next, ts, root) ==
    IF next = {} THEN [ok |-> TRUE, ids |-> {}]
    ELSE LET row  == [n \in next |-> LineageRow(n, "FormerParent")]
             kept == {n \in next : row[n].ts > ts}
             first(S) == IF S = {} THEN {} ELSE {CHOOSE x \in S : TRUE}
             rest == PastWalkFirstOnly(UNION {first(row[n].ids) : n \in kept}, ts, root)
         IN  IF \E n \in next : ~row[n].ok THEN [ok |-> FALSE, ids |-> {}]
             ELSE [ok |-> rest.ok, ids |-> (kept \ {root}) \cup rest.ids]

FutureRootIds(r, ts) == FutureWalk({r}, ts, r)

PastRootIdsFirstOnly(r, ts) == PastWalkFirstOnly({r}, ts, r)

PastRootIds(r, ts) == PastWalk({r}, ts, r)

\* get_root_id_history: past ids, the root itself and future ids.
RootIdHistory(r, tPast, tFuture) ==
    LET p == PastRootIds(r, tPast)
        f == FutureRootIds(r, tFuture)
    IN  [ok |-> p.ok /\ f.ok, ids |-> p.ids \cup {r} \cup f.ids]

-----------------------------------------------------------------------------
(* The edit engine (operation.py, not in the source tree: spec 4.7).       *)

\* The roots an edit may act on: a Child row and no NewParent cell.
CurrentRoots == {r \in RootIds : Latest(r, "Child") # None /\ Latest(r, "NewParent") = None}

Set(col, v) == [col |-> col, val |-> v]
RowMut(key, cs) == [key |-> key, cs |-> cs]

\* The supervoxels under a set of level-2 nodes, and the Partner index
\* of v in the row of u.
SVsUnder(L) == UNION {GetChildren(l) : l \in L}
PartnerIndex(u, v) == CHOOSE i \in Conn!PartnerIdx(u) : Conn!PartnerAt(u, i) = v

\* The atomic edges a merge of a and b may add: partners u under a and v
\* under b.
MergeEdges(a, b) ==
    {<<u, v>> \in SVsUnder(GetChildren(a)) \X SVsUnder(GetChildren(b)) :
        \E i \in Conn!PartnerIdx(u) : Conn!PartnerAt(u, i) = v}

\* Mutant: the toggle is appended to the row of one end of the edge only.
MergeRowsOneEnd(a, b, n, e) ==
    LET C == GetChildren(a) \cup GetChildren(b)
    IN  {RowMut(l, {Set("Parent", {n})}) : l \in C}
        \cup {RowMut(n, {Set("Child", C), Set("FormerParent", {a, b})})}
        \cup {RowMut(x, {Set("NewParent", {n})}) : x \in {a, b}}
        \cup {RowMut(e[1], {Set("Connected", {PartnerIndex(e[1], e[2])})})}

\* Step 8 for a merge of roots a and b into n over the edge e: Parent of
\* the children, Child and FormerParent of n, NewParent of a and b, and
\* the index of the edge toggled on in the Connected column of both ends.
MergeRows(a, b, n, e) ==
    LET C == GetChildren(a) \cup GetChildren(b)
    IN  {RowMut(l, {Set("Parent", {n})}) : l \in C}
        \cup {RowMut(n, {Set("Child", C), Set("FormerParent", {a, b})})}
        \cup {RowMut(x, {Set("NewParent", {n})}) : x \in {a, b}}
        \cup {RowMut(e[1], {Set("Connected", {PartnerIndex(e[1], e[2])})}),
              RowMut(e[2], {Set("Connected", {PartnerIndex(e[2], e[1])})})}

\* Step 8 for a split of root x into n1 (children A) and n2 (the rest):
\* the connected edges between the two sides are toggled off at both ends.
SplitRows(x, A, n1, n2) ==
    LET B == GetChildren(x) \ A
        side(u) == IF L2Of[u] \in A THEN A ELSE B
        cut(u) == {i \in Conn!FlattenConnected(Versions(u, "Connected", Forever, TRUE)) \cap Conn!PartnerIdx(u) :
                      Conn!PartnerAt(u, i) \in SVsUnder(GetChildren(x)) \ SVsUnder(side(u))}
    IN  {RowMut(u, {Set("Connected", cut(u))}) : u \in {u \in SVsUnder(GetChildren(x)) : cut(u) # {}}}
        \cup {RowMut(l, {Set("Parent", {n1})}) : l \in A}
        \cup {RowMut(l, {Set("Parent", {n2})}) : l \in B}
        \cup {RowMut(n1, {Set("Child", A), Set("FormerParent", {x})}),
              RowMut(n2, {Set("Child", B), Set("FormerParent", {x})}),
              RowMut(x, {Set("NewParent", {n1, n2})})}

\* Readers inside get_root with time_stamp >= T see the edit partially.
MarkReaders(T) ==
    rDirty' = [r \in Readers |-> rDirty[r] \/ (rpc[r] = "walk" /\ T <= rTs[r])]

\* An edit takes its timestamp, builds its rows and enters bulk_write.  The
\* lock round trips before it put the clock past the previous edit.
BeginEdit(rows, newTree, nIds) ==
    /\ ephase = "idle"
    /\ now > lastT
    /\ nextId + nIds - 1 <= Len(RootPool)
    /\ ephase' = "write"
    /\ eT' = now
    /\ lastT' = now
    /\ pending' = rows
    /\ eTree' = newTree
    /\ nextId' = nextId + nIds
    /\ MarkReaders(now)
    /\ UNCHANGED <<now, cells, eFailed, failures, tree, hist, failedTs,
                   rpc, rSv, rTs, rCur, rExpect>>

Merge(a, b, e) ==
    LET n == RootPool[nextId]
    IN  /\ nextId <= Len(RootPool)
        /\ BeginEdit(MergeRows(a, b, n, e),
                     [s \in SVs |-> IF tree[s] \in {a, b} THEN n ELSE tree[s]], 1)

Split(x, A) ==
    LET n1 == RootPool[nextId]
        n2 == RootPool[nextId + 1]
    IN  /\ nextId + 1 <= Len(RootPool)
        /\ BeginEdit(SplitRows(x, A, n1, n2),
                     [s \in SVs |-> IF tree[s] # x THEN tree[s]
                                    ELSE IF L2Of[s] \in A THEN n1 ELSE n2], 2)

-----------------------------------------------------------------------------
(* bulk_write: one mutate_rows block.                                      *)

\* Mutant: mutate_row drops time_stamp and the server stamps the cells.
WriteRowServerTime(m) ==
    /\ ephase = "write"
    /\ m \in pending
    /\ cells' = cells \cup {[row |-> m.key, col |-> c.col, ts |-> now, val |-> c.val] : c \in m.cs}
    /\ pending' = pending \ {m}
    /\ UNCHANGED <<now, lastT, ephase, eT, eFailed, failures, nextId, tree,
                   eTree, hist, failedTs, rdVars>>

\* mutate_row(key, val_dict, time_stamp=T): Bigtable applies the row's
\* cells at once, at timestamp T.
WriteRow(m) ==
    /\ ephase = "write"
    /\ m \in pending
    /\ cells' = cells \cup {[row |-> m.key, col |-> c.col, ts |-> eT, val |-> c.val] : c \in m.cs}
    /\ pending' = pending \ {m}
    /\ UNCHANGED <<now, lastT, ephase, eT, eFailed, failures, nextId, tree,
                   eTree, hist, failedTs, rdVars>>

\* The retry policy gives up on a row (its status is not OK); the other
\* rows of the block are still applied.
FailRow(m) ==
    /\ ephase = "write"
    /\ m \in pending
    /\ failures < MaxFailures
    /\ pending' = pending \ {m}
    /\ eFailed' = TRUE
    /\ failures' = failures + 1
    /\ UNCHANGED <<now, cells, lastT, ephase, eT, nextId, tree, eTree, hist,
                   failedTs, rdVars>>

\* mutate_rows returns: bulk_write raises ChunkedGraphError if a status is
\* not OK, else the edit has committed.
EndWrite ==
    /\ ephase = "write"
    /\ pending = {}
    /\ ephase' = "idle"
    /\ eFailed' = FALSE
    /\ IF eFailed
       THEN /\ failedTs' = failedTs \cup {eT}
            /\ UNCHANGED <<tree, hist>>
       ELSE /\ tree' = eTree
            /\ hist' = hist \cup {[ts |-> eT, tree |-> eTree]}
            /\ UNCHANGED failedTs
    /\ UNCHANGED <<now, cells, lastT, eT, pending, failures, nextId, eTree,
                   rdVars>>

\* The root of s at time ts by the committed edits: the tree of the last
\* edit with timestamp <= ts.
HistRoot(s, ts) ==
    LET h == CHOOSE h \in hist : h.ts <= ts /\ \A g \in hist : g.ts <= ts => g.ts <= h.ts
    IN  h.tree[s]

-----------------------------------------------------------------------------
(* get_root(node_id, time_stamp) with n_tries = 1.                         *)

\* get_root is called for a supervoxel at a time_stamp no later than now.
StartRead(r, s, ts) ==
    /\ rpc[r] # "walk"
    /\ rpc' = [rpc EXCEPT ![r] = "walk"]
    /\ rSv' = [rSv EXCEPT ![r] = s]
    /\ rTs' = [rTs EXCEPT ![r] = ts]
    /\ rCur' = [rCur EXCEPT ![r] = s]
    /\ rDirty' = [rDirty EXCEPT ![r] = (ephase = "write" /\ eT <= ts)
                                       \/ \E f \in failedTs : f <= ts]
    /\ UNCHANGED <<now, edVars, rExpect>>

\* One iteration: get_parent(parent_id, time_stamp); the loop breaks on
\* None or at stop_layer, and a walk that ends below stop_layer raises
\* "Cannot find root id".
ReadParent(r) ==
    LET p == GetParent(rCur[r], rTs[r])
    IN  /\ rpc[r] = "walk"
        /\ rCur' = [rCur EXCEPT ![r] = IF p = None THEN @ ELSE p]
        /\ rpc' = [rpc EXCEPT ![r] = IF p = None THEN "error"
                                     ELSE IF GetChunkLayer(p) >= NLayers THEN "done"
                                     ELSE "walk"]
        /\ rExpect' = [rExpect EXCEPT ![r] = HistRoot(rSv[r], rTs[r])]
        /\ UNCHANGED <<now, edVars, rSv, rTs, rDirty>>

Tick ==
    /\ now < MaxTime
    /\ now' = now + 1
    /\ UNCHANGED <<edVars, rdVars>>

Init ==
    /\ cells = IngestCells
    /\ now = 0
    /\ lastT = 0
    /\ ephase = "idle"
    /\ eT = 0
    /\ pending = {}
    /\ eFailed = FALSE
    /\ failures = 0
    /\ nextId = 1
    /\ tree = InitTree
    /\ eTree = InitTree
    /\ hist = {[ts |-> 0, tree |-> InitTree]}
    /\ failedTs = {}
    /\ rpc = [r \in Readers |-> "idle"]
    /\ rSv = [r \in Readers |-> CHOOSE s \in SVs : TRUE]
    /\ rTs = [r \in Readers |-> 0]
    /\ rCur = [r \in Readers |-> CHOOSE s \in SVs : TRUE]
    /\ rDirty = [r \in Readers |-> FALSE]
    /\ rExpect = [r \in Readers |-> InitTree[rSv[r]]]

Next ==
    \/ \E a, b \in CurrentRoots : a # b /\ \E e \in MergeEdges(a, b) : Merge(a, b, e)
    \/ \E x \in CurrentRoots : \E A \in SUBSET GetChildren(x) :
           A \notin {{}, GetChildren(x)} /\ Split(x, A)
    \/ \E m \in pending : WriteRow(m) \/ FailRow(m)
    \/ EndWrite
    \/ \E r \in Readers : \/ \E s \in SVs, ts \in 0..now : StartRead(r, s, ts)
                          \/ ReadParent(r)
    \/ Tick

Spec == Init /\ [][Next]_vars

-----------------------------------------------------------------------------
\* Spec 5 (ordering): a get_root at a time_stamp outside the [start,
\* commit] interval of every edit sees all or none of each edit: the walk
\* of get_parent reads, interleaved with bulk_write rows and clock ticks,
\* returns the root the edits committed by then give the supervoxel at
\* that time, and never raises.
RootReadMatchesHistory ==
    \A r \in Readers :
        rpc[r] \in {"done", "error"} /\ ~rDirty[r] =>
            rpc[r] = "done" /\ rCur[r] = rExpect[r]

\* Spec 8.4 (lineage closure): between edits, and with every bulk_write
\* committed, get_root_id_history never raises and is symmetric: a root in
\* the history of r has r in its own history, through merges (two former
\* parents) and splits (two new parents).
LineageClosure ==
    ephase = "idle" /\ failures = 0 =>
        \A r \in RootIds :
            Latest(r, "Child") # None =>
                LET h == RootIdHistory(r, Origin, Forever)
                IN  h.ok /\ \A x \in h.ids : r \in RootIdHistory(x, Origin, Forever).ids

Sub == INSTANCE Subgraph WITH ChildrenOf <- GetChildren, NoBox <- None

\* Between committed edits, get_subgraph_nodes(root) (return_layers [1],
\* no box) walking the latest Child rows returns exactly the supervoxels
\* whose root the edits made it, for every current root.
SubgraphMatchesRoots ==
    ephase = "idle" /\ failures = 0 =>
        \A r \in CurrentRoots :
            Sub!GetSubgraphNodes(r, None, {1})[1] = {s \in SVs : tree[s] = r}

\* The supervoxels reachable from S over the pairs E.
RECURSIVE Reach(_, _)
Reach(E, S) ==
    LET next == {v \in SVs : \E u \in S : <<u, v>> \in E} \ S
    IN  IF next = {} THEN S ELSE Reach(E, S \cup next)

\* The timestamps every edit so far is all or nothing at: no edit whose
\* bulk_write raised, or is still running, has a timestamp <= ts.
Settled(ts) == (\A f \in failedTs : ts < f) /\ (ephase = "write" => ts < eT)

\* Spec 4.3 and invariant 5, against the edits: at every settled time t,
\* the Connected toggles the merges and splits appended read back, through
\* get_atomic_node_partners (flatten_row_dict's odd counts) and through
\* get_subgraph_chunk (_retrieve_connectivity's set toggling), without an
\* IndexError, as a graph whose components are the roots the committed
\* edits gave the supervoxels at t; the get_atomic_node_partners graph is
\* followed one way, so an edge connected at one end only breaks it.
ConnectivityMatchesHistory ==
    \A t \in 0..now : Settled(t) =>
        LET G == ConnectedAt(t)
            np == [u \in SVs |-> Conn!GetAtomicNodePartners(u, G[u])]
            sub == Conn!GetSubgraphChunk(L2s, TRUE, TRUE, G)
            byPartners == {<<u, v>> \in SVs \X SVs : v \in np[u].ids}
            bySubgraph == sub.edges \cup {<<e[2], e[1]>> : e \in sub.edges}
        IN  /\ sub.ok
            /\ \A u \in SVs :
                  LET same == {v \in SVs : HistRoot(v, t) = HistRoot(u, t)}
                  IN  /\ np[u].ok
                      /\ Reach(byPartners, {u}) = same
                      /\ Reach(bySubgraph, {u}) = same

\* The root of node n (a supervoxel or a level-2 node) at ts by the
\* committed edits.
RootAt(n, ts) == IF n \in SVs THEN HistRoot(n, ts)
                 ELSE HistRoot(CHOOSE s \in SVs : L2Of[s] = n, ts)

\* The batched readers against the committed edits: between edits (and
\* get_root walks), at every settled time t, get_roots of any two supervoxels or level-2 nodes returns, position
\* by position, their roots (stop_layer None) or their level-2 nodes
\* (stop_layer 2), with the layer_mask bookkeeping of ids that finish in
\* different rounds and repeated ids, and without a KeyError from
\* get_parents; get_all_parents_dict of a supervoxel maps layer 2 to its
\* level-2 node and the top layer to its root.
BatchReadsMatchHistory ==
    ephase = "idle" /\ (\A r \in Readers : rpc[r] # "walk") =>
    \A t \in 0..now : Settled(t) =>
        /\ \A ids \in [1..2 -> SVs \cup L2s] :
              /\ GetRoots(ids, t, None, 1).ok
              /\ GetRoots(ids, t, None, 1).p = [i \in 1..2 |-> RootAt(ids[i], t)]
              /\ GetRoots(ids, t, 2, 1).p
                    = [i \in 1..2 |-> IF ids[i] \in SVs THEN L2Of[ids[i]] ELSE ids[i]]
        /\ \A s \in SVs :
              GetAllParentsDict(s, t)
                = [ok |-> TRUE, d |-> [l \in {2, NLayers} |->
                                        IF l = 2 THEN L2Of[s] ELSE HistRoot(s, t)]]

\* Spec 7: a bulk_write that fails part-way "leaves the graph consistent
\* because no NewParent links were created": between edits, at every time
\* t the parent of every node has it among its children.
TreeConsistent ==
    ephase = "idle" =>
        \A t \in 0..now : \A n \in SVs \cup L2s :
            LET p == GetParent(n, t)
            IN  p # None => n \in GetChildren(p)

=============================================================================

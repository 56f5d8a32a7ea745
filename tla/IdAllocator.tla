----------------------------- MODULE IdAllocator -----------------------------
(***************************************************************************)
(* Segment id allocation (graph/chunkedgraph.py).  Every chunk has an     *)
(* incrementer row; a Bigtable increment is atomic and returns the value   *)
(* after incrementing, from which _get_unique_range derives a range of     *)
(* `step` ids.  The root chunk is sharded over NCounters = 2^n_bits_root_   *)
(* counter incrementer rows: counter cid hands out the ids m * NCounters + *)
(* cid.  get_max_seg_id_root_chunk reads the shards one after another,     *)
(* while other clients keep allocating.  Operation ids come from one more *)
(* incrementer row, row_keys.OperationID, one id per call.                 *)
(***************************************************************************)
EXTENDS Integers, FiniteSets, FiniteSetsExt

CONSTANTS
    Chunks,      \* non-root chunks (their incrementer rows)
    Root,        \* the root chunk
    NCounters,   \* 2^n_bits_root_counter (1 when the root is not sharded)
    Steps,       \* step sizes callers request
    OpRow,       \* the row row_keys.OperationID
    Readers,     \* callers of get_max_seg_id(_root_chunk), get_max_operation_id
    MaxCounter,  \* bound on every segment counter value
    MaxOps       \* bound on the OperationID counter

ASSUME /\ Root \notin Chunks /\ OpRow \notin Chunks \cup {Root}
       /\ NCounters \in Nat \ {0}
       /\ Steps \subseteq Nat \ {0}

Keys == Chunks \cup {Root}
CounterIds == 0..(NCounters - 1)
SegmentIds == Nat \ {0}
Grant == [key : Keys \cup {OpRow}, id : SegmentIds, seq : Nat]

VARIABLES
    counter,      \* counter[ch]: the CounterID cell of a non-root chunk
    rootCounter,  \* rootCounter[cid]: the CounterID cell of root shard cid
    opCounter,    \* the CounterID cell of the OperationID row
    issued,       \* history: every id handed out, with its allocation number
    nAlloc,       \* number of allocations so far
    rpc,          \* reader phase: idle, reading, done
    rIdx,         \* counter_id the reader reads next
    rAcc,         \* max_value of the reader's loop
    rSnap,        \* history: root ids issued when the reader started
    rResult       \* the value the reader returned

vars == <<counter, rootCounter, opCounter, issued, nAlloc, rpc, rIdx, rAcc, rSnap, rResult>>

\* Mutant: min = max - step.
UniqueRangeOffByOne(old, step) == (old + step - step)..(old + step)

\* _get_unique_range: the increment returns max; min = max + 1 - step.
UniqueRange(old, step) == (old + step + 1 - step)..(old + step)

\* Mutant: the shard offset counter_id is left out of the arange bounds.
RootIdsNoShardOffset(old, step, cid) ==
    {m * NCounters : m \in UniqueRange(old, step)}

\* get_unique_segment_id_root_row: np.arange(min * n + cid,
\* max * n + 1 + cid, n), i.e. the ids m * n + cid for m in min..max.
RootIds(old, step, cid) ==
    {m * NCounters + cid : m \in UniqueRange(old, step)}

Grants(key, ids) == {[key |-> key, id |-> i, seq |-> nAlloc] : i \in ids}

Init ==
    /\ counter = [ch \in Chunks |-> 0]
    /\ rootCounter = [cid \in CounterIds |-> 0]
    /\ opCounter = 0
    /\ issued = {}
    /\ nAlloc = 0
    /\ rpc = [r \in Readers |-> "idle"]
    /\ rIdx = [r \in Readers |-> 0]
    /\ rAcc = [r \in Readers |-> 0]
    /\ rSnap = [r \in Readers |-> {}]
    /\ rResult = [r \in Readers |-> 0]

\* get_unique_segment_id_range for a chunk below the root layer.
AllocChunk(ch, step) ==
    /\ counter[ch] + step <= MaxCounter
    /\ counter' = [counter EXCEPT ![ch] = @ + step]
    /\ issued' = issued \cup Grants(ch, UniqueRange(counter[ch], step))
    /\ nAlloc' = nAlloc + 1
    /\ UNCHANGED <<rootCounter, opCounter, rpc, rIdx, rAcc, rSnap, rResult>>

\* get_unique_segment_id_root_row with a random counter_id.
AllocRoot(cid, step) ==
    /\ rootCounter[cid] + step <= MaxCounter
    /\ rootCounter' = [rootCounter EXCEPT ![cid] = @ + step]
    /\ issued' = issued \cup Grants(Root, RootIds(rootCounter[cid], step, cid))
    /\ nAlloc' = nAlloc + 1
    /\ UNCHANGED <<counter, opCounter, rpc, rIdx, rAcc, rSnap, rResult>>

\* get_unique_operation_id: increment_cell_value by 1 on the OperationID
\* row; the commit returns the value after incrementing, which is the id.
\* (The grant is numbered by the operation counter: operation ids are
\* only compared with each other.)
AllocOperation ==
    /\ opCounter + 1 <= MaxOps
    /\ opCounter' = opCounter + 1
    /\ issued' = issued \cup {[key |-> OpRow, id |-> opCounter + 1, seq |-> opCounter]}
    /\ UNCHANGED <<counter, rootCounter, nAlloc, rpc, rIdx, rAcc, rSnap, rResult>>

IssuedIds(k) == {g.id : g \in {x \in issued : x.key = k}}

IssuedRootIds == {g.id : g \in {x \in issued : x.key = Root}}

\* get_max_seg_id_root_chunk is called: max_value = 0.
StartMax(r) ==
    /\ rpc[r] \in {"idle", "done"}
    /\ rpc' = [rpc EXCEPT ![r] = "reading"]
    /\ rIdx' = [rIdx EXCEPT ![r] = 0]
    /\ rAcc' = [rAcc EXCEPT ![r] = 0]
    /\ rSnap' = [rSnap EXCEPT ![r] = IssuedRootIds]
    /\ UNCHANGED <<counter, rootCounter, opCounter, issued, nAlloc, rResult>>

\* get_max_seg_id for a chunk below the root layer: one read_byte_row of
\* the chunk's CounterID cell, 0 for a missing row.
ReadMaxSegId(r, ch) ==
    /\ rpc[r] \in {"idle", "done"}
    /\ rpc' = [rpc EXCEPT ![r] = "done"]
    /\ rSnap' = [rSnap EXCEPT ![r] = IssuedIds(ch)]
    /\ rResult' = [rResult EXCEPT ![r] = counter[ch]]
    /\ UNCHANGED <<counter, rootCounter, opCounter, issued, nAlloc, rIdx, rAcc>>

\* get_max_operation_id: one read of the OperationID row's CounterID cell,
\* 0 for a missing row.
ReadMaxOperationId(r) ==
    /\ rpc[r] \in {"idle", "done"}
    /\ rpc' = [rpc EXCEPT ![r] = "done"]
    /\ rSnap' = [rSnap EXCEPT ![r] = IssuedIds(OpRow)]
    /\ rResult' = [rResult EXCEPT ![r] = opCounter]
    /\ UNCHANGED <<counter, rootCounter, opCounter, issued, nAlloc, rIdx, rAcc>>

\* Mutant: the counter is taken for the next id to hand out.
ShardValueBefore(v) == (v - 1) * NCounters

\* One iteration: read shard rIdx and keep the largest counter * n.
ShardValue(v) == v * NCounters

ReadShard(r) ==
    /\ rpc[r] = "reading"
    /\ rIdx[r] < NCounters
    /\ rAcc' = [rAcc EXCEPT ![r] = Max({@, ShardValue(rootCounter[rIdx[r]])})]
    /\ rIdx' = [rIdx EXCEPT ![r] = @ + 1]
    /\ UNCHANGED <<counter, rootCounter, opCounter, issued, nAlloc, rpc, rSnap, rResult>>

\* The loop is over: return max_value.
ReturnMax(r) ==
    /\ rpc[r] = "reading"
    /\ rIdx[r] = NCounters
    /\ rpc' = [rpc EXCEPT ![r] = "done"]
    /\ rResult' = [rResult EXCEPT ![r] = rAcc[r]]
    /\ UNCHANGED <<counter, rootCounter, opCounter, issued, nAlloc, rIdx, rAcc, rSnap>>

Next ==
    \/ \E ch \in Chunks, s \in Steps : AllocChunk(ch, s)
    \/ \E cid \in CounterIds, s \in Steps : AllocRoot(cid, s)
    \/ AllocOperation
    \/ \E r \in Readers : \/ StartMax(r) \/ ReadShard(r) \/ ReturnMax(r)
                          \/ ReadMaxOperationId(r)
                          \/ \E ch \in Chunks : ReadMaxSegId(r, ch)

Spec == Init /\ [][Next]_vars

-----------------------------------------------------------------------------
TypeOK ==
    /\ counter \in [Chunks -> 0..MaxCounter]
    /\ rootCounter \in [CounterIds -> 0..MaxCounter]
    /\ opCounter \in 0..MaxOps
    /\ issued \subseteq Grant
    /\ nAlloc \in Nat
    /\ rpc \in [Readers -> {"idle", "reading", "done"}]
    /\ rIdx \in [Readers -> 0..NCounters]
    /\ rAcc \in [Readers -> Nat]
    /\ rSnap \in [Readers -> SUBSET SegmentIds]
    /\ rResult \in [Readers -> Nat]

\* No id of a chunk is handed out by two allocations, whichever shards and
\* step sizes concurrent callers use: the sharded ranges of the root chunk
\* never overlap each other, nor a range of the same shard.
UniqueIds ==
    \A g, h \in issued : g.key = h.key /\ g.id = h.id => g.seq = h.seq

\* The docstrings of get_max_seg_id_root_chunk, get_max_seg_id and
\* get_max_operation_id: "it is guaranteed that no larger id exist at the
\* time this function is executed".  range_read_chunk uses the value as the
\* end of the key range of a chunk.
MaxSegIdBound ==
    \A r \in Readers : rpc[r] = "done" => \A i \in rSnap[r] : i <= rResult[r]

=============================================================================

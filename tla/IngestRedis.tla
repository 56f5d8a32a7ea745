----------------------------- MODULE IngestRedis -----------------------------
(***************************************************************************)
(* Distributed ingest (ingest/ran_ingestion_v2.py).  enqueue_atomic_tasks  *)
(* puts one rq job per atomic chunk on the queue while rq workers run      *)
(* them.  A finished job reports through _post_task_completion: it counts  *)
(* down the parent chunk's children in the redis hash of the parent layer  *)
(* and should enqueue the parent job when the count reaches zero.          *)
(*                                                                         *)
(* Every redis command is atomic on its own; the handler issues several in *)
(* a row, and the model has one action per command.  A reply of hget is   *)
(* bytes (or None for a missing field), so it is kept as a bytes value.    *)
(* Chunk coordinates are triples; building a chunk is one step.            *)
(***************************************************************************)
EXTENDS Integers, Sequences, FiniteSets

CONSTANTS
    Workers,      \* rq worker processes
    Fanout,       \* graph_config.fanout
    Bounds,       \* layer_chunk_bounds[2][:, 1]: chunks per dimension
    NLayers,      \* imanager.n_layers
    AtomicOrder,  \* the chunk_coords list enqueue_atomic_tasks walks
    Absent        \* a missing hash field

Dims == 1..3
Coords == [Dims -> Nat]
AtomicChunks == {AtomicOrder[i] : i \in DOMAIN AtomicOrder}

ASSUME /\ Fanout \in Nat \ {0}
       /\ AtomicChunks \subseteq Coords

\* parent_coords = coords // fanout
ParentCoords(c) == [i \in Dims |-> c[i] \div Fanout]

ParentKeys == {ParentCoords(c) : c \in AtomicChunks}

\* Mutant: the offsets run over range(fanout - 1).
ChildrenCoordsShortRange(p) ==
    LET cand == {[i \in Dims |-> p[i] * Fanout + d[i]] : d \in [Dims -> 0..(Fanout - 2)]}
    IN  {c \in cand : \A i \in Dims : c[i] < Bounds[i]}

\* _get_children_coords: the child offsets in range(fanout)^3 whose
\* coordinates lie below the layer bounds.
ChildrenCoords(p) ==
    LET cand == {[i \in Dims |-> p[i] * Fanout + d[i]] : d \in [Dims -> 0..(Fanout - 1)]}
    IN  {c \in cand : \A i \in Dims : c[i] < Bounds[i]}

\* Replies of the redis client.
None == [type |-> "none"]
Bytes(n) == [type |-> "bytes", val |-> n]
\* Python truth value of a reply: None is false, non-empty bytes are true.
Truthy(r) == r.type = "bytes"
\* `reply == n` for an int n: bytes never compare equal to an int.
EqualsInt(r, n) == r.type = "int" /\ r.val = n

Reply(v) == IF v = Absent THEN None ELSE Bytes(v)

VARIABLES
    toEnqueue,   \* the part of the chunk_coords list not yet enqueued
    queue,       \* rq queue: jobs [layer, coords] in order
    hash,        \* hash[p]: field of p in the hash of the parent layer
    completed,   \* field "completed" of STATS_HASH
    pc,          \* worker phase
    job,         \* the job a worker runs
    reply,       \* the last hget reply a worker got
    done,        \* history: the chunks whose decrement was applied
    parentJobs   \* history: the parent jobs enqueued

vars == <<toEnqueue, queue, hash, completed, pc, job, reply, done, parentJobs>>

Phases == {"idle", "build", "hget", "hset", "hincr", "hget2", "test", "stat"}
NoJob == [layer |-> 0, coords |-> [i \in Dims |-> 0]]

Init ==
    /\ toEnqueue = AtomicOrder
    /\ queue = <<>>
    /\ hash = [p \in ParentKeys |-> Absent]
    /\ completed = 0
    /\ pc = [w \in Workers |-> "idle"]
    /\ job = [w \in Workers |-> NoJob]
    /\ reply = [w \in Workers |-> None]
    /\ done = {}
    /\ parentJobs = {}

Goto(w, ph) == pc' = [pc EXCEPT ![w] = ph]
par(w) == ParentCoords(job[w].coords)

\* enqueue_atomic_tasks: task_q.enqueue(_create_atomic_chunk, coord).  The
\* batch_size check never sleeps with fewer jobs than the batch size.
Enqueue ==
    /\ toEnqueue # <<>>
    /\ queue' = Append(queue, [layer |-> 2, coords |-> Head(toEnqueue)])
    /\ toEnqueue' = Tail(toEnqueue)
    /\ UNCHANGED <<hash, completed, pc, job, reply, done, parentJobs>>

\* An idle rq worker dequeues the oldest job.
Dequeue(w) ==
    /\ pc[w] = "idle"
    /\ queue # <<>>
    /\ job' = [job EXCEPT ![w] = Head(queue)]
    /\ queue' = Tail(queue)
    /\ Goto(w, "build")
    /\ UNCHANGED <<toEnqueue, hash, completed, reply, done, parentJobs>>

\* _create_atomic_chunk (or _create_parent_chunk) builds the chunk and calls
\* _post_task_completion(imanager, 2, coords); it returns at once when the
\* parent layer 3 is above n_layers.
Build(w) ==
    /\ pc[w] = "build"
    /\ Goto(w, IF 3 > NLayers THEN "idle" ELSE "hget")
    /\ UNCHANGED <<toEnqueue, queue, hash, completed, job, reply, done,
                   parentJobs>>

\* Mutant: the `not` of the test is dropped.
HGetWithoutNot(w) ==
    /\ pc[w] = "hget"
    /\ Goto(w, IF Truthy(Reply(hash[par(w)])) THEN "hset" ELSE "hincr")
    /\ UNCHANGED <<toEnqueue, queue, hash, completed, job, reply, done,
                   parentJobs>>

\* if not imanager.redis.hget(parent_layer, parent_chunk_str)
HGet(w) ==
    /\ pc[w] = "hget"
    /\ Goto(w, IF Truthy(Reply(hash[par(w)])) THEN "hincr" ELSE "hset")
    /\ UNCHANGED <<toEnqueue, queue, hash, completed, job, reply, done,
                   parentJobs>>

\* imanager.redis.hset(parent_layer, parent_chunk_str, children_count)
HSet(w) ==
    /\ pc[w] = "hset"
    /\ hash' = [hash EXCEPT ![par(w)] = Cardinality(ChildrenCoords(par(w)))]
    /\ Goto(w, "hincr")
    /\ UNCHANGED <<toEnqueue, queue, completed, job, reply, done, parentJobs>>

\* imanager.redis.hincrby(parent_layer, parent_chunk_str, -1)
HIncr(w) ==
    /\ pc[w] = "hincr"
    /\ hash' = [hash EXCEPT ![par(w)] = IF @ = Absent THEN -1 ELSE @ - 1]
    /\ done' = done \cup {job[w].coords}
    /\ Goto(w, "hget2")
    /\ UNCHANGED <<toEnqueue, queue, completed, job, reply, parentJobs>>

\* children_left = imanager.redis.hget(parent_layer, parent_chunk_str)
HGet2(w) ==
    /\ pc[w] = "hget2"
    /\ reply' = [reply EXCEPT ![w] = Reply(hash[par(w)])]
    /\ Goto(w, "test")
    /\ UNCHANGED <<toEnqueue, queue, hash, completed, job, done, parentJobs>>

\* if children_left == 0: enqueue _create_parent_chunk for the parent.
Test(w) ==
    /\ pc[w] = "test"
    /\ IF EqualsInt(reply[w], 0)
       THEN /\ queue' = Append(queue, [layer |-> 3, coords |-> par(w)])
            /\ parentJobs' = parentJobs \cup {par(w)}
       ELSE UNCHANGED <<queue, parentJobs>>
    /\ Goto(w, "stat")
    /\ UNCHANGED <<toEnqueue, hash, completed, job, reply, done>>

\* imanager.redis.hincrby(r_keys.STATS_HASH, "completed", 1)
Stat(w) ==
    /\ pc[w] = "stat"
    /\ completed' = completed + 1
    /\ Goto(w, "idle")
    /\ UNCHANGED <<toEnqueue, queue, hash, job, reply, done, parentJobs>>

WorkerStep(w) ==
    \/ Dequeue(w) \/ Build(w) \/ HGet(w) \/ HSet(w) \/ HIncr(w)
    \/ HGet2(w) \/ Test(w) \/ Stat(w)

Next == Enqueue \/ \E w \in Workers : WorkerStep(w)

Spec == Init /\ [][Next]_vars

-----------------------------------------------------------------------------
TypeOK ==
    /\ queue \in Seq([layer : {2, 3}, coords : Coords])
    /\ hash \in [ParentKeys -> Nat \cup {Absent}]
    /\ completed \in Nat
    /\ pc \in [Workers -> Phases]
    /\ done \subseteq AtomicChunks
    /\ parentJobs \subseteq ParentKeys

\* The children of p whose decrement has not been applied yet.
Remaining(p) == {c \in ChildrenCoords(p) : c \notin done}

\* The count in the hash never drops below the children still to come, so
\* a parent is never released before its last child is built, however the
\* workers' hget/hset/hincrby commands interleave.
CountAtLeastRemaining ==
    \A p \in ParentKeys :
        hash[p] # Absent => hash[p] >= Cardinality(Remaining(p))

\* The docstring of _post_task_completion: the hash holds the number of
\* children still to finish ("add children count ... decrement children
\* count by 1 ... if count is 0 enqueue parent").
CountIsRemaining ==
    \A p \in ParentKeys :
        hash[p] # Absent => hash[p] = Cardinality(Remaining(p))

=============================================================================

----------------------------- MODULE IngestLocal -----------------------------
(***************************************************************************)
(* Single-machine ingest (ingest/main.py).  start_ingest queues the atomic *)
(* chunk tasks in random order and starts worker processes.  A worker      *)
(* takes tasks while the queue is not empty, builds the chunk, and counts  *)
(* down the parent's children in a manager dict under the parent's        *)
(* manager Lock; the worker that reaches zero queues the parent task and   *)
(* installs a fresh Lock for the grandparent.                              *)
(*                                                                         *)
(* Every access to a manager dict is one request to the manager process,   *)
(* so `d[k] -= 1` is a read and a write, and `with locks[k]` takes the     *)
(* Lock object that is in the dict at that moment.  A multiprocessing      *)
(* Queue hands a put item to a feeder thread of the putting process; until *)
(* that thread has written it to the pipe, empty() and get() do not see    *)
(* it (FeederDelay).  A read or del of a count key another worker deleted  *)
(* raises KeyError: the with block releases the Lock and the worker        *)
(* process ends ("died"); join returns for it as for a worker that exits.  *)
(* The layer progress counters only feed the progress printout and are     *)
(* left out.                                                               *)
(***************************************************************************)
EXTENDS Integers, Sequences, FiniteSets, SequencesExt

CONSTANTS
    Workers,      \* worker processes
    Main,         \* the process running start_ingest
    Tasks,        \* chunk tasks, as positive numbers
    Parent,       \* Parent[t]: the parent task, 0 above the top layer
    AtomicTasks,  \* the layer-2 tasks start_ingest queues
    FeederDelay,  \* TRUE: a put becomes visible to other calls later
    NoLock        \* no Lock object

ASSUME /\ Tasks \subseteq Nat \ {0}
       /\ Parent \in [Tasks -> Tasks \cup {0}]
       /\ AtomicTasks \subseteq Tasks
       /\ FeederDelay \in BOOLEAN

Procs == Workers \cup {Main}
LockKeys == Tasks \cup {0}
\* Lock objects: one per parent at start, one more per queued parent.
LockIds == 1..(Max(Tasks) + Cardinality(Tasks) + 2)

\* len(parent.children_coords): the child chunks of the parent.
ChildCount(p) == Cardinality({t \in Tasks : Parent[t] = p})

VARIABLES
    pipe,      \* items the queue's pipe holds, in order
    buf,       \* buf[p]: items put by p that its feeder has not written yet
    locks,     \* parent_children_count_d_locks: key -> Lock object
    nextLock,  \* the next fresh Lock object
    holder,    \* holder[l]: the workers holding Lock l ({} = free)
    counted,   \* the keys of parent_children_count_d_shared
    count,     \* its values
    pc,        \* worker phase
    cur,       \* the task a worker runs
    tmp,       \* the value a worker read from the count dict
    held,      \* the Lock a worker holds
    built,     \* history: how often each task was built
    queued     \* history: how often each task was queued

vars == <<pipe, buf, locks, nextLock, holder, counted, count,
          pc, cur, tmp, held, built, queued>>

Phases == {"check", "get", "build", "acquire", "incheck", "init", "decread",
           "decwrite", "zero", "del", "replace", "put", "release", "exited",
           "died"}

\* A worker process has ended: join returns for it.
Ended == {"exited", "died"}

par(w) == Parent[cur[w]]

\* The Lock objects start_ingest creates for the parents of atomic tasks.
InitLockKeys == {Parent[t] : t \in AtomicTasks}

Init ==
    /\ \E order \in SetToSeqs(AtomicTasks) :
          IF FeederDelay
          THEN /\ pipe = <<>>
               /\ buf = [p \in Procs |-> IF p = Main THEN order ELSE <<>>]
          ELSE /\ pipe = order
               /\ buf = [p \in Procs |-> <<>>]
    /\ locks = [k \in LockKeys |-> IF k \in InitLockKeys THEN k + 1 ELSE NoLock]
    /\ nextLock = Max(Tasks) + 2
    /\ holder = [l \in LockIds |-> {}]
    /\ counted = {}
    /\ count = [t \in Tasks |-> 0]
    /\ pc = [w \in Workers |-> "check"]
    /\ cur = [w \in Workers |-> 0]
    /\ tmp = [w \in Workers |-> 0]
    /\ held = [w \in Workers |-> NoLock]
    /\ built = [t \in Tasks |-> 0]
    /\ queued = [t \in Tasks |-> 0]

Goto(w, ph) == pc' = [pc EXCEPT ![w] = ph]

\* while not task_queue.empty()
CheckEmpty(w) ==
    /\ pc[w] = "check"
    /\ Goto(w, IF pipe = <<>> THEN "exited" ELSE "get")
    /\ UNCHANGED <<pipe, buf, locks, nextLock, holder, counted, count,
                   cur, tmp, held, built, queued>>

\* task_queue.get() blocks until the pipe has an item.
Get(w) ==
    /\ pc[w] = "get"
    /\ pipe # <<>>
    /\ cur' = [cur EXCEPT ![w] = Head(pipe)]
    /\ pipe' = Tail(pipe)
    /\ Goto(w, "build")
    /\ UNCHANGED <<buf, locks, nextLock, holder, counted, count,
                   tmp, held, built, queued>>

\* task = func(*args); break when the parent is above the top layer.
Build(w) ==
    /\ pc[w] = "build"
    /\ built' = [built EXCEPT ![cur[w]] = @ + 1]
    /\ Goto(w, IF par(w) = 0 THEN "exited" ELSE "acquire")
    /\ UNCHANGED <<pipe, buf, locks, nextLock, holder, counted, count,
                   cur, tmp, held, queued>>

\* with parent_children_count_d_locks[parent.id]: the Lock now in the dict.
Acquire(w) ==
    /\ pc[w] = "acquire"
    /\ holder[locks[par(w)]] = {}
    /\ holder' = [holder EXCEPT ![locks[par(w)]] = {w}]
    /\ held' = [held EXCEPT ![w] = locks[par(w)]]
    /\ Goto(w, "incheck")
    /\ UNCHANGED <<pipe, buf, locks, nextLock, counted, count,
                   cur, tmp, built, queued>>

\* if not parent.id in parent_children_count_d_shared
InCheck(w) ==
    /\ pc[w] = "incheck"
    /\ Goto(w, IF par(w) \in counted THEN "decread" ELSE "init")
    /\ UNCHANGED <<pipe, buf, locks, nextLock, holder, counted, count,
                   cur, tmp, held, built, queued>>

\* Mutant: the count starts one below the number of children.
InitCountMinusOne(w) ==
    /\ pc[w] = "init"
    /\ counted' = counted \cup {par(w)}
    /\ count' = [count EXCEPT ![par(w)] = ChildCount(par(w)) - 1]
    /\ Goto(w, "decread")
    /\ UNCHANGED <<pipe, buf, locks, nextLock, holder, cur, tmp, held,
                   built, queued>>

\* d[parent.id] = len(parent.children_coords)
InitCount(w) ==
    /\ pc[w] = "init"
    /\ counted' = counted \cup {par(w)}
    /\ count' = [count EXCEPT ![par(w)] = ChildCount(par(w))]
    /\ Goto(w, "decread")
    /\ UNCHANGED <<pipe, buf, locks, nextLock, holder, cur, tmp, held,
                   built, queued>>

\* KeyError on a count key another worker deleted: leaving the with block
\* releases the Lock, and the exception ends the worker process.
KeyErrorExit(w) ==
    /\ holder' = [holder EXCEPT ![held[w]] = {}]
    /\ held' = [held EXCEPT ![w] = NoLock]
    /\ Goto(w, "died")
    /\ UNCHANGED <<pipe, buf, locks, nextLock, counted, count, cur, tmp,
                   built, queued>>

\* d[parent.id] -= 1: the read.  The key is there: it is deleted only when
\* a count of 0 was read, which takes the decrement of every child, this
\* one's included, and a lost update only leaves the count higher.
DecRead(w) ==
    /\ pc[w] = "decread"
    /\ tmp' = [tmp EXCEPT ![w] = count[par(w)]]
    /\ Goto(w, "decwrite")
    /\ UNCHANGED <<pipe, buf, locks, nextLock, holder, counted, count,
                   cur, held, built, queued>>

\* ... and the write of the decremented value, which puts the key back.
DecWrite(w) ==
    /\ pc[w] = "decwrite"
    /\ counted' = counted \cup {par(w)}
    /\ count' = [count EXCEPT ![par(w)] = tmp[w] - 1]
    /\ Goto(w, "zero")
    /\ UNCHANGED <<pipe, buf, locks, nextLock, holder, cur, tmp, held,
                   built, queued>>

\* Mutant: the test compares with 1, as if it ran before the decrement.
ZeroCheckAtOne(w) ==
    /\ pc[w] = "zero"
    /\ \/ /\ par(w) \in counted
          /\ Goto(w, IF count[par(w)] <= 1 THEN "del" ELSE "release")
          /\ UNCHANGED <<pipe, buf, locks, nextLock, holder, counted, count,
                         cur, tmp, held, built, queued>>
       \/ /\ par(w) \notin counted
          /\ KeyErrorExit(w)

\* if d[parent.id] == 0
ZeroCheck(w) ==
    /\ pc[w] = "zero"
    /\ \/ /\ par(w) \in counted
          /\ Goto(w, IF count[par(w)] = 0 THEN "del" ELSE "release")
          /\ UNCHANGED <<pipe, buf, locks, nextLock, holder, counted, count,
                         cur, tmp, held, built, queued>>
       \/ /\ par(w) \notin counted
          /\ KeyErrorExit(w)

\* Mutant: the key is dropped without raising when it is already gone,
\* as d.pop(parent.id, None) would.
DelNoKeyError(w) ==
    /\ pc[w] = "del"
    /\ counted' = counted \ {par(w)}
    /\ Goto(w, "replace")
    /\ UNCHANGED <<pipe, buf, locks, nextLock, holder, count,
                   cur, tmp, held, built, queued>>

\* del d[parent.id]
Del(w) ==
    /\ pc[w] = "del"
    /\ \/ /\ par(w) \in counted
          /\ counted' = counted \ {par(w)}
          /\ Goto(w, "replace")
          /\ UNCHANGED <<pipe, buf, locks, nextLock, holder, count,
                         cur, tmp, held, built, queued>>
       \/ /\ par(w) \notin counted
          /\ KeyErrorExit(w)

\* locks[parent.parent_task().id] = manager.Lock()
ReplaceLock(w) ==
    /\ pc[w] = "replace"
    /\ locks' = [locks EXCEPT ![Parent[par(w)]] = nextLock]
    /\ nextLock' = nextLock + 1
    /\ Goto(w, "put")
    /\ UNCHANGED <<pipe, buf, holder, counted, count, cur, tmp, held,
                   built, queued>>

\* task_queue.put(parent task)
Put(w) ==
    /\ pc[w] = "put"
    /\ IF FeederDelay
       THEN /\ buf' = [buf EXCEPT ![w] = Append(@, par(w))]
            /\ UNCHANGED pipe
       ELSE /\ pipe' = Append(pipe, par(w))
            /\ UNCHANGED buf
    /\ queued' = [queued EXCEPT ![par(w)] = @ + 1]
    /\ Goto(w, "release")
    /\ UNCHANGED <<locks, nextLock, holder, counted, count, cur, tmp, held,
                   built>>

\* Leaving the with block; the progress counters are updated after it.
Release(w) ==
    /\ pc[w] = "release"
    /\ holder' = [holder EXCEPT ![held[w]] = {}]
    /\ held' = [held EXCEPT ![w] = NoLock]
    /\ Goto(w, "check")
    /\ UNCHANGED <<pipe, buf, locks, nextLock, counted, count, cur, tmp,
                   built, queued>>

\* The feeder thread of p writes its oldest item to the pipe.
Flush(p) ==
    /\ buf[p] # <<>>
    /\ pipe' = Append(pipe, Head(buf[p]))
    /\ buf' = [buf EXCEPT ![p] = Tail(@)]
    /\ UNCHANGED <<locks, nextLock, holder, counted, count, pc, cur, tmp,
                   held, built, queued>>

WorkerStep(w) ==
    \/ CheckEmpty(w) \/ Get(w) \/ Build(w) \/ Acquire(w) \/ InCheck(w)
    \/ InitCount(w) \/ DecRead(w) \/ DecWrite(w) \/ ZeroCheck(w) \/ Del(w)
    \/ ReplaceLock(w) \/ Put(w) \/ Release(w)

Next ==
    \/ \E w \in Workers : WorkerStep(w)
    \/ \E p \in Procs : Flush(p)

Spec == Init /\ [][Next]_vars

\* Worker processes and feeder threads are scheduled by the OS: each is
\* weakly fair.  A worker blocked in get() or on a Lock is not enabled.
FairSpec == Spec /\ \A w \in Workers : WF_vars(WorkerStep(w))
                 /\ \A p \in Procs : WF_vars(Flush(p))

-----------------------------------------------------------------------------
TypeOK ==
    /\ pipe \in Seq(Tasks)
    /\ buf \in [Procs -> Seq(Tasks)]
    /\ locks \in [LockKeys -> LockIds \cup {NoLock}]
    /\ holder \in [LockIds -> SUBSET Workers]
    /\ counted \subseteq Tasks
    /\ count \in [Tasks -> 0..Cardinality(Tasks)]
    /\ pc \in [Workers -> Phases]
    /\ cur \in [Workers -> Tasks \cup {0}]
    /\ held \in [Workers -> LockIds \cup {NoLock}]

Children(p) == {t \in Tasks : Parent[t] = p}

\* A parent chunk task is queued only once every child chunk has been
\* built: create_parent_chunk reads the children's rows, and the last
\* decrement of the count must come after the last child's build.
QueuedAfterChildren ==
    \A p \in Tasks : queued[p] > 0 => \A c \in Children(p) : built[c] > 0

\* No chunk task is queued twice, whatever the interleaving of the
\* workers' count-dict requests (a second build would allocate new ids
\* for the same chunk).
QueuedOnce == \A t \in Tasks : queued[t] <= 1

\* Every chunk task is eventually built, so the graph is complete when the
\* workers have ended: the last child of every parent counts it down to 0
\* at main.py:60 and queues it.
AllTasksBuilt == <>(\A t \in Tasks : built[t] > 0)

\* Every worker process eventually exits, so start_ingest's joins return.
WorkersExit == <>(\A w \in Workers : pc[w] \in Ended)

=============================================================================

------------------------------ MODULE RootLock ------------------------------
(***************************************************************************)
(* The root-lock protocol that serialises edits of the chunked graph.      *)
(*                                                                         *)
(* An edit (RootLock.__enter__/__exit__, graph/locks.py) locks the latest  *)
(* versions of its roots with lock_root_loop, then writes its rows with    *)
(* bulk_write, which first re-checks every lock with                       *)
(* check_and_renew_root_locks, and finally unlocks its roots with          *)
(* unlock_root (graph/chunkedgraph.py).  All mutual exclusion comes from   *)
(* conditional writes on the Lock column of the root's row.               *)
(*                                                                         *)
(* The data family has no garbage-collection rule, so the Lock column      *)
(* keeps every version written to it: lockCells[r] is that set of cells.   *)
(* A conditional filter matches when ANY version satisfies it, and         *)
(* unlock_root deletes every version of the column.  Time is a global     *)
(* clock of ticks; Expiry is LOCK_EXPIRED_TIME_DELTA.                      *)
(*                                                                         *)
(* With Indefinite, the write runs inside IndefiniteRootLock (locks.py,    *)
(* spec 4.7 step 9): renew_locks and lock_roots_indefinitely before        *)
(* bulk_write, unlock_indefinitely_locked_root after it.  These cg.client  *)
(* calls are not in the repository and follow spec 4.5; indef[r] is the   *)
(* holder of the indefinite lock of r, which never expires.               *)
(*                                                                         *)
(* The graph itself is abstracted to its roots: an edit supersedes the     *)
(* roots it locked (NewParent) by one new root (merge) or two (split),     *)
(* whose ids come from the root chunk's counter.                           *)
(***************************************************************************)
EXTENDS Integers, FiniteSets, FiniteSetsExt

CONSTANTS
    Ops,        \* operation ids; each edit runs once
    InitRoots,  \* the roots present before any edit
    MaxRootId,  \* largest root id the counter hands out in the model
    Expiry,     \* LOCK_EXPIRED_TIME_DELTA, in ticks
    MaxTime,    \* bound on the clock
    MaxTries,   \* max_tries passed to lock_roots by RootLock.__enter__
    TimelyPhases, \* phases in which the clock never expires a lock of the edit
    Indefinite, \* TRUE when the write runs inside IndefiniteRootLock
    NoOp        \* no edit (a model value outside Ops)

ASSUME /\ InitRoots \subseteq Nat \ {0}
       /\ MaxRootId >= Max(InitRoots) + 2 * Cardinality(Ops)
       /\ Expiry \in Nat \ {0}
       /\ MaxTries \in Nat \ {0}
       /\ NoOp \notin Ops
       /\ Indefinite \in BOOLEAN

RootIds == 1..MaxRootId
Time == 0..MaxTime
Cell == [op : Ops, ts : Time]
Kinds == {"merge", "split"}

VARIABLES
    now,        \* the clock
    lockCells,  \* lockCells[r]: every version of the Lock cell of root r
    newParent,  \* newParent[r]: the NewParent column of r ({} = absent)
    created,    \* roots whose rows exist (they carry a Child column)
    nextId,     \* next value of the root chunk's id counter
    writers,    \* history: the edits that wrote NewParent on r
    pc,         \* phase of each edit
    kind,       \* merge or split
    requested,  \* root_ids of lock_root_loop (reassigned each try)
    toLock,     \* the deduplicated latest roots of the current try
    held,       \* roots this edit has locked in the current try
    pending,    \* roots still to visit in a rollback, renew or unlock loop
    tries,      \* i_try of lock_root_loop
    indef,      \* indef[r]: the holder of the indefinite lock of r, or NoOp
    indefPending \* roots IndefiniteRootLock.__exit__ has still to unlock

vars == <<now, lockCells, newParent, created, nextId, writers,
          pc, kind, requested, toLock, held, pending, tries, indef, indefPending>>

Phases == {"idle", "resolve", "lock", "indef", "rollback", "renew", "write",
           "unlock", "abort", "done", "failed", "crashed"}

ASSUME TimelyPhases \subseteq Phases

-----------------------------------------------------------------------------
(* Lineage reads.                                                          *)

\* Ids reachable from the frontier over NewParent links.
RECURSIVE Reach(_, _)
Reach(frontier, seen) ==
    IF frontier = {} THEN seen
    ELSE LET next == UNION {newParent[r] : r \in frontier} \ seen
         IN  Reach(next, seen \cup next)

\* get_future_root_ids: every id that emerged from r, intermediate
\* superseded roots included, r itself excluded.
FutureRoots(r) == Reach({r}, {}) \ {r}

\* get_latest_root_id: the ids reached from r that have no NewParent.
LatestRoots(r) == {x \in Reach({r}, {r}) : newParent[x] = {}}

Current == {r \in created : newParent[r] = {}}

-----------------------------------------------------------------------------
(* Conditional row writes on the Lock column.                              *)

\* lock_single_root's predicate fails (so the lock is set) iff no version of
\* Lock is younger than the cutoff and the row has no NewParent.
CanLock(r) ==
    /\ ~\E c \in lockCells[r] : c.ts >= now - Expiry
    /\ newParent[r] = {}

\* Mutant: the unlock predicate drops the value filter on the op id.
UnlockedAnyOwner(r, o) ==
    IF \E c \in lockCells[r] : c.ts >= now - Expiry
    THEN {} ELSE lockCells[r]

\* unlock_root: delete the whole column iff some unexpired version holds o.
Unlocked(r, o) ==
    IF \E c \in lockCells[r] : c.op = o /\ c.ts >= now - Expiry
    THEN {} ELSE lockCells[r]

\* check_and_renew_root_lock_single succeeds iff some version of Lock holds
\* o (any age) and the row has no NewParent.
RenewOk(r, o) ==
    /\ \E c \in lockCells[r] : c.op = o
    /\ newParent[r] = {}

NewCell(o) == [op |-> o, ts |-> now]

-----------------------------------------------------------------------------
Init ==
    /\ now = 0
    /\ lockCells = [r \in RootIds |-> {}]
    /\ newParent = [r \in RootIds |-> {}]
    /\ created = InitRoots
    /\ nextId = Max(InitRoots) + 1
    /\ writers = [r \in RootIds |-> {}]
    /\ pc = [o \in Ops |-> "idle"]
    /\ kind = [o \in Ops |-> "merge"]
    /\ requested = [o \in Ops |-> {}]
    /\ toLock = [o \in Ops |-> {}]
    /\ held = [o \in Ops |-> {}]
    /\ pending = [o \in Ops |-> {}]
    /\ tries = [o \in Ops |-> 0]
    /\ indef = [r \in RootIds |-> NoOp]
    /\ indefPending = [o \in Ops |-> {}]

\* The edit reads the roots of its supervoxels (two roots for a merge, one
\* for a split) and enters RootLock; the roots may be stale when it locks.
Start(o) ==
    /\ pc[o] = "idle"
    /\ \E k \in Kinds, R \in SUBSET Current :
          /\ Cardinality(R) = IF k = "merge" THEN 2 ELSE 1
          /\ kind' = [kind EXCEPT ![o] = k]
          /\ requested' = [requested EXCEPT ![o] = R]
    /\ pc' = [pc EXCEPT ![o] = "resolve"]
    /\ tries' = [tries EXCEPT ![o] = 0]
    /\ UNCHANGED <<now, lockCells, newParent, created, nextId, writers,
                   toLock, held, pending, indef, indefPending>>

\* Top of a try: replace every requested root by its future roots, if any.
Resolve(o) ==
    /\ pc[o] = "resolve"
    /\ LET targets == UNION {IF FutureRoots(r) = {} THEN {r} ELSE FutureRoots(r)
                              : r \in requested[o]}
       IN  /\ requested' = [requested EXCEPT ![o] = targets]
           /\ toLock' = [toLock EXCEPT ![o] = targets]
    /\ held' = [held EXCEPT ![o] = {}]
    /\ pc' = [pc EXCEPT ![o] = "lock"]
    /\ UNCHANGED <<now, lockCells, newParent, created, nextId, writers,
                   kind, pending, tries, indef, indefPending>>

\* lock_single_root on the next root (in id order) succeeds.
LockSucceeds(o) ==
    /\ pc[o] = "lock"
    /\ LET r == Min(toLock[o] \ held[o])
       IN  /\ CanLock(r)
           /\ lockCells' = [lockCells EXCEPT ![r] = @ \cup {NewCell(o)}]
           /\ held' = [held EXCEPT ![o] = @ \cup {r}]
           /\ IF held'[o] = toLock[o]
              THEN /\ pc' = [pc EXCEPT ![o] = IF Indefinite THEN "indef" ELSE "renew"]
                   /\ pending' = [pending EXCEPT ![o] = toLock[o]]
              ELSE UNCHANGED <<pc, pending>>
    /\ UNCHANGED <<now, newParent, created, nextId, writers,
                   kind, requested, toLock, tries, indef, indefPending>>

\* lock_single_root fails: roll back by unlocking every root of the try.
LockFails(o) ==
    /\ pc[o] = "lock"
    /\ ~CanLock(Min(toLock[o] \ held[o]))
    /\ pc' = [pc EXCEPT ![o] = "rollback"]
    /\ pending' = [pending EXCEPT ![o] = toLock[o]]
    /\ UNCHANGED <<now, lockCells, newParent, created, nextId, writers,
                   kind, requested, toLock, held, tries, indef, indefPending>>

\* One unlock_root call of the rollback loop, or of RootLock.__exit__.
UnlockNext(o) ==
    /\ pc[o] \in {"rollback", "unlock", "abort"}
    /\ pending[o] # {}
    /\ indefPending[o] = {}
    /\ LET r == Min(pending[o])
       IN  /\ lockCells' = [lockCells EXCEPT ![r] = Unlocked(r, o)]
           /\ pending' = [pending EXCEPT ![o] = @ \ {r}]
    /\ UNCHANGED <<now, newParent, created, nextId, writers,
                   pc, kind, requested, toLock, held, tries, indef, indefPending>>

\* Mutant: one try too many (i_try <= max_tries).
RetryOrGiveUpOffByOne(o) ==
    /\ pc[o] = "rollback"
    /\ pending[o] = {}
    /\ tries' = [tries EXCEPT ![o] = @ + 1]
    /\ pc' = [pc EXCEPT ![o] = IF tries[o] + 1 <= MaxTries THEN "resolve"
                                                           ELSE "failed"]
    /\ held' = [held EXCEPT ![o] = {}]
    /\ UNCHANGED <<now, lockCells, newParent, created, nextId, writers,
                   kind, requested, toLock, pending, indef, indefPending>>

\* Mutant: i_try is never incremented.
RetryOrGiveUpForever(o) ==
    /\ pc[o] = "rollback"
    /\ pending[o] = {}
    /\ pc' = [pc EXCEPT ![o] = "resolve"]
    /\ held' = [held EXCEPT ![o] = {}]
    /\ UNCHANGED <<now, lockCells, newParent, created, nextId, writers,
                   kind, requested, toLock, pending, tries, indef, indefPending>>

\* After a rollback: sleep and retry, or raise LockingError.
RetryOrGiveUp(o) ==
    /\ pc[o] = "rollback"
    /\ pending[o] = {}
    /\ tries' = [tries EXCEPT ![o] = @ + 1]
    /\ pc' = [pc EXCEPT ![o] = IF tries[o] + 1 < MaxTries THEN "resolve"
                                                          ELSE "failed"]
    /\ held' = [held EXCEPT ![o] = {}]
    /\ UNCHANGED <<now, lockCells, newParent, created, nextId, writers,
                   kind, requested, toLock, pending, indef, indefPending>>

\* cg.client.renew_locks (spec 4.5, renew): every root's Lock holds o
\* within the expiry window; its cells are renewed.
RenewLocksOk(R, o) ==
    \A r \in R : \E c \in lockCells[r] : c.op = o /\ c.ts >= now - Expiry

\* Mutant: the existing indefinite lock is not checked.
CanLockIndefinitelyAnyHolder(R) == \A r \in R : newParent[r] = {}

\* cg.client.lock_roots_indefinitely (spec 4.5, indefinite lock): the lock
\* is re-taken without the expiry predicate, conditioned on no indefinite
\* lock on the row (and, as every lock, on no NewParent); all or none.
CanLockIndefinitely(R) == \A r \in R : indef[r] = NoOp /\ newParent[r] = {}

\* IndefiniteRootLock.__enter__ succeeds: renew_locks, then
\* lock_roots_indefinitely on the locked roots; __exit__ will unlock them.
IndefiniteLock(o) ==
    /\ pc[o] = "indef"
    /\ RenewLocksOk(held[o], o)
    /\ CanLockIndefinitely(held[o])
    /\ lockCells' = [r \in RootIds |->
                        IF r \in held[o] THEN lockCells[r] \cup {NewCell(o)} ELSE lockCells[r]]
    /\ indef' = [r \in RootIds |-> IF r \in held[o] THEN o ELSE indef[r]]
    /\ indefPending' = [indefPending EXCEPT ![o] = held[o]]
    /\ pc' = [pc EXCEPT ![o] = "renew"]
    /\ pending' = [pending EXCEPT ![o] = held[o]]
    /\ UNCHANGED <<now, newParent, created, nextId, writers,
                   kind, requested, toLock, held, tries>>

\* IndefiniteRootLock.__enter__ raises LockingError: renew_locks failed
\* (nothing written), or it renewed and lock_roots_indefinitely failed.
\* __exit__ of RootLock unlocks every locked root.
IndefiniteLockFails(o) ==
    /\ pc[o] = "indef"
    /\ ~(RenewLocksOk(held[o], o) /\ CanLockIndefinitely(held[o]))
    /\ lockCells' = IF RenewLocksOk(held[o], o)
                    THEN [r \in RootIds |->
                            IF r \in held[o] THEN lockCells[r] \cup {NewCell(o)} ELSE lockCells[r]]
                    ELSE lockCells
    /\ pc' = [pc EXCEPT ![o] = "abort"]
    /\ pending' = [pending EXCEPT ![o] = held[o]]
    /\ UNCHANGED <<now, newParent, created, nextId, writers,
                   kind, requested, toLock, held, tries, indef, indefPending>>

\* One unlock_indefinitely_locked_root of IndefiniteRootLock.__exit__,
\* which runs before RootLock.__exit__, whether bulk_write returned or
\* raised: the indefinite lock is deleted if o holds it.
UnlockIndefiniteNext(o) ==
    /\ pc[o] \in {"unlock", "abort"}
    /\ indefPending[o] # {}
    /\ LET r == Min(indefPending[o])
       IN  /\ indef' = [indef EXCEPT ![r] = IF @ = o THEN NoOp ELSE @]
           /\ indefPending' = [indefPending EXCEPT ![o] = @ \ {r}]
    /\ UNCHANGED <<now, lockCells, newParent, created, nextId, writers,
                   pc, kind, requested, toLock, held, pending, tries>>

\* bulk_write renews the lock of the next root before writing.
RenewSucceeds(o) ==
    /\ pc[o] = "renew"
    /\ LET r == Min(pending[o])
       IN  /\ RenewOk(r, o)
           /\ lockCells' = [lockCells EXCEPT ![r] = @ \cup {NewCell(o)}]
           /\ pending' = [pending EXCEPT ![o] = @ \ {r}]
           /\ IF pending'[o] = {}
              THEN pc' = [pc EXCEPT ![o] = "write"]
              ELSE UNCHANGED pc
    /\ UNCHANGED <<now, newParent, created, nextId, writers,
                   kind, requested, toLock, held, tries, indef, indefPending>>

\* Mutant: __exit__ skips the unlocks when bulk_write raised.
RenewFailsWithoutUnlock(o) ==
    /\ pc[o] = "renew"
    /\ ~RenewOk(Min(pending[o]), o)
    /\ pc' = [pc EXCEPT ![o] = "abort"]
    /\ pending' = [pending EXCEPT ![o] = {}]
    /\ UNCHANGED <<now, lockCells, newParent, created, nextId, writers,
                   kind, requested, toLock, held, tries, indef, indefPending>>

\* Mutant: a raising bulk_write skips IndefiniteRootLock.__exit__.
RenewFailsKeepIndefinite(o) ==
    /\ pc[o] = "renew"
    /\ ~RenewOk(Min(pending[o]), o)
    /\ pc' = [pc EXCEPT ![o] = "abort"]
    /\ pending' = [pending EXCEPT ![o] = held[o]]
    /\ indefPending' = [indefPending EXCEPT ![o] = {}]
    /\ UNCHANGED <<now, lockCells, newParent, created, nextId, writers,
                   kind, requested, toLock, held, tries, indef>>

\* Renewal fails: bulk_write raises LockError and RootLock.__exit__
\* unlocks every locked root.
RenewFails(o) ==
    /\ pc[o] = "renew"
    /\ ~RenewOk(Min(pending[o]), o)
    /\ pc' = [pc EXCEPT ![o] = "abort"]
    /\ pending' = [pending EXCEPT ![o] = held[o]]
    /\ UNCHANGED <<now, lockCells, newParent, created, nextId, writers,
                   kind, requested, toLock, held, tries, indef, indefPending>>

\* The rows of the edit are written: the locked roots get NewParent, the
\* new roots (ids from the root chunk counter) get their rows.
Write(o) ==
    /\ pc[o] = "write"
    /\ LET n == IF kind[o] = "merge" THEN 1 ELSE 2
           newIds == nextId..(nextId + n - 1)
       IN  /\ newParent' = [r \in RootIds |->
                               IF r \in held[o] THEN newIds ELSE newParent[r]]
           /\ created' = created \cup newIds
           /\ nextId' = nextId + n
    /\ writers' = [r \in RootIds |->
                      IF r \in held[o] THEN writers[r] \cup {o} ELSE writers[r]]
    /\ pc' = [pc EXCEPT ![o] = "unlock"]
    /\ pending' = [pending EXCEPT ![o] = held[o]]
    /\ UNCHANGED <<now, lockCells, kind, requested, toLock, held, tries, indef, indefPending>>

\* RootLock.__exit__ has visited every locked root.
Finish(o) ==
    /\ pc[o] \in {"unlock", "abort"}
    /\ pending[o] = {} /\ indefPending[o] = {}
    /\ pc' = [pc EXCEPT ![o] = IF pc[o] = "unlock" THEN "done" ELSE "failed"]
    /\ UNCHANGED <<now, lockCells, newParent, created, nextId, writers,
                   kind, requested, toLock, held, pending, tries, indef, indefPending>>

\* The worker running the edit dies; its Lock cells stay until they expire.
Crash(o) ==
    /\ pc[o] \in {"resolve", "lock", "indef", "rollback", "renew", "write",
                  "unlock", "abort"}
    /\ pc' = [pc EXCEPT ![o] = "crashed"]
    /\ UNCHANGED <<now, lockCells, newParent, created, nextId, writers,
                   kind, requested, toLock, held, pending, tries, indef, indefPending>>

\* Every lock of an edit in a timely phase stays unexpired one tick from now.
NoLiveLockExpires ==
    \A o \in Ops : pc[o] \in TimelyPhases =>
        \A r \in held[o] : \E c \in lockCells[r] :
            c.op = o /\ c.ts >= now + 1 - Expiry

Tick ==
    /\ now < MaxTime
    /\ NoLiveLockExpires
    /\ now' = now + 1
    /\ UNCHANGED <<lockCells, newParent, created, nextId, writers,
                   pc, kind, requested, toLock, held, pending, tries, indef, indefPending>>

Finished == \A o \in Ops : pc[o] \in {"done", "failed", "crashed"}

Terminated == Finished /\ UNCHANGED vars

Next ==
    \/ \E o \in Ops :
          \/ Start(o) \/ Resolve(o) \/ LockSucceeds(o) \/ LockFails(o)
          \/ IndefiniteLock(o) \/ IndefiniteLockFails(o) \/ UnlockIndefiniteNext(o)
          \/ UnlockNext(o) \/ RetryOrGiveUp(o) \/ RenewSucceeds(o)
          \/ RenewFails(o) \/ Write(o) \/ Finish(o) \/ Crash(o)
    \/ Tick
    \/ Terminated

Spec == Init /\ [][Next]_vars

\* The steps an edit takes once its request has started.  Each edit runs on
\* its own request thread and never waits for another one (a failed lock
\* is retried after a sleep), so each of them is weakly fair.  Start and
\* Crash are the environment's and carry no fairness.
EditStep(o) ==
    \/ Resolve(o) \/ LockSucceeds(o) \/ LockFails(o) \/ UnlockNext(o)
    \/ IndefiniteLock(o) \/ IndefiniteLockFails(o) \/ UnlockIndefiniteNext(o)
    \/ RetryOrGiveUp(o) \/ RenewSucceeds(o) \/ RenewFails(o) \/ Write(o)
    \/ Finish(o)

FairSpec == Spec /\ \A o \in Ops : WF_vars(EditStep(o))

-----------------------------------------------------------------------------
(* Properties.                                                             *)

TypeOK ==
    /\ now \in Time
    /\ lockCells \in [RootIds -> SUBSET Cell]
    /\ newParent \in [RootIds -> SUBSET RootIds]
    /\ created \subseteq RootIds
    /\ nextId \in 1..(MaxRootId + 1)
    /\ writers \in [RootIds -> SUBSET Ops]
    /\ pc \in [Ops -> Phases]
    /\ kind \in [Ops -> Kinds]
    /\ requested \in [Ops -> SUBSET RootIds]
    /\ toLock \in [Ops -> SUBSET RootIds]
    /\ held \in [Ops -> SUBSET RootIds]
    /\ pending \in [Ops -> SUBSET RootIds]
    /\ tries \in [Ops -> 0..MaxTries]
    /\ indef \in [RootIds -> Ops \cup {NoOp}]
    /\ indefPending \in [Ops -> SUBSET RootIds]

\* A root is superseded by at most one edit: two edits never both write
\* NewParent on the same root (which would fork its lineage and re-parent
\* the same children twice).  This is what the lock, the renewal in
\* bulk_write and the expiry together must guarantee.
NoForkedLineage == \A r \in RootIds : Cardinality(writers[r]) <= 1

\* An edit that ends normally or with an error leaves no unexpired lock
\* behind on any root: the rollback of lock_root_loop and the unlocks of
\* RootLock.__exit__ (after a commit or a failed renewal) remove every
\* lock it set, so only a crashed edit can keep a root locked.
NoLeakedLocks ==
    \A r \in RootIds : \A c \in lockCells[r] :
        pc[c.op] \in {"done", "failed"} => c.ts < now - Expiry

\* The indefinite locks, which never expire, are held only by edits that
\* are still running or crashed: IndefiniteRootLock.__exit__ releases
\* them whether the write returned or raised, before RootLock.__exit__
\* releases the temporal locks.  An indefinite lock left by an edit that
\* ended would block its roots for good.
IndefiniteLocksReleased ==
    \A r \in RootIds : indef[r] # NoOp => pc[indef[r]] \notin {"done", "failed"}

\* Every edit that has started eventually ends: it commits, gives up with
\* LockingError after max_tries, fails with LockError, or crashes; the
\* retry loop and the unlock loops are bounded.
EditsTerminate ==
    \A o \in Ops : pc[o] # "idle" ~> pc[o] \in {"done", "failed", "crashed"}

(* Refinement: while an edit renews or writes it is the holder of each of *)
(* its roots in the abstract lock of RootLockAbstract.                     *)
InCS(o) == pc[o] \in {"renew", "write"}

HolderOf(r) ==
    IF \E o \in Ops : InCS(o) /\ r \in held[o]
    THEN CHOOSE o \in Ops : InCS(o) /\ r \in held[o]
    ELSE NoOp

Abstract == INSTANCE RootLockAbstract
    WITH holder <- [r \in RootIds |-> HolderOf(r)],
         superseded <- {r \in RootIds : newParent[r] # {}},
         created <- created

\* Every behaviour of the protocol is a behaviour of the abstract lock:
\* roots are held by at most one edit, only current roots are acquired,
\* and only the holder supersedes a root.
AbstractSpecHolds == Abstract!Spec

=============================================================================

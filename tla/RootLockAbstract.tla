-------------------------- MODULE RootLockAbstract --------------------------
(***************************************************************************)
(* What the root lock promises to the edit path (spec section 4.5): an     *)
(* edit atomically acquires a set of current roots that nobody holds,      *)
(* and only the holder of a root may supersede it by new roots; the        *)
(* holder then releases.  An abort releases without superseding.          *)
(***************************************************************************)
EXTENDS FiniteSets

CONSTANTS Ops, RootIds, InitRoots, NoOp

VARIABLES holder, superseded, created

avars == <<holder, superseded, created>>

AInit ==
    /\ holder = [r \in RootIds |-> NoOp]
    /\ superseded = {}
    /\ created = InitRoots

HeldBy(o) == {r \in RootIds : holder[r] = o}

\* Acquire a non-empty set of current, free roots, holding nothing else.
Acquire(o, S) ==
    /\ S # {}
    /\ S \subseteq created \ superseded
    /\ \A r \in S : holder[r] = NoOp
    /\ HeldBy(o) = {}
    /\ holder' = [r \in RootIds |-> IF r \in S THEN o ELSE holder[r]]
    /\ UNCHANGED <<superseded, created>>

\* Give the roots up without changing the graph.
Release(o) ==
    /\ HeldBy(o) # {}
    /\ holder' = [r \in RootIds |-> IF holder[r] = o THEN NoOp ELSE holder[r]]
    /\ UNCHANGED <<superseded, created>>

\* Supersede every held root by fresh roots and release them.
Commit(o) ==
    /\ HeldBy(o) # {}
    /\ \E N \in SUBSET (RootIds \ created) :
          /\ N # {}
          /\ created' = created \cup N
    /\ superseded' = superseded \cup HeldBy(o)
    /\ holder' = [r \in RootIds |-> IF holder[r] = o THEN NoOp ELSE holder[r]]

ANext ==
    \E o \in Ops :
        \/ \E S \in SUBSET RootIds : Acquire(o, S)
        \/ Release(o)
        \/ Commit(o)

Spec == AInit /\ [][ANext]_avars

=============================================================================

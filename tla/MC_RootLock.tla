---------------------------- MODULE MC_RootLock ----------------------------
(* Models of the root lock with two initial roots.  Root ids are numbers *)
(* because the loops of the code visit them in sorted order (np.unique). *)
EXTENDS RootLock

CONSTANTS o1, o2, none

\* Two edits: every pair of interleavings, crashes and lock expiries.
MCOps == {o1, o2}
MCMaxRootId == 6

MCInitRoots == {1, 2}
=============================================================================

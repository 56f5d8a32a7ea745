--------------------------- MODULE MC_IngestLocal ---------------------------
(* Two layer-3 chunks under one top chunk: tasks 1 and 2 are the children *)
(* of 4, task 3 the only child of 5, and 4 and 5 the children of 6.       *)
EXTENDS IngestLocal

CONSTANTS w1, w2, main, nolock

MCWorkers == {w1, w2}
MCTasks == 1..6
MCParent == (1 :> 4) @@ (2 :> 4) @@ (3 :> 5) @@ (4 :> 6) @@ (5 :> 6) @@ (6 :> 0)
MCAtomic == {1, 2, 3}
\* A single worker process: no two requests of the count dict interleave.
=============================================================================

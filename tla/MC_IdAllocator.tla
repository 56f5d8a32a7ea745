--------------------------- MODULE MC_IdAllocator ---------------------------
(* One chunk below the root, the root chunk, and one caller of the max.  *)
EXTENDS IdAllocator

CONSTANTS c1, root, r1, oprow

MCChunks == {c1}
MCReaders == {r1}

\* The sharded runs need no chunk below the root.
MCNoChunks == {}
=============================================================================

--------------------------- MODULE MCGnoiShutdown ---------------------------
(* Two DPUs and two threads: one handler each, or two for one if it could. *)
EXTENDS GnoiShutdown
CONSTANTS d1, d2, x1, x2

MCDpus == {d1, d2}
MCThreads == {x1, x2}
=============================================================================

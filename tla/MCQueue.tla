------------------------------- MODULE MCQueue -------------------------------
(* Two jobs and three goroutines in two processes. *)
EXTENDS DistributedQueue, TLC

CONSTANTS g1, g2, g3, w1, w2

\* The deployment: g1 and g2 are goroutines of one process.
SharedIds == [g \in Goroutines |-> IF g = g3 THEN w2 ELSE w1]
=============================================================================

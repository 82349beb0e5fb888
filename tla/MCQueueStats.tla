---------------------------- MODULE MCQueueStats ----------------------------
(* Instances of QueueStats for TLC.                                        *)
EXTENDS QueueStats, TLC

CONSTANTS p1, p2

TwoBackends == {p1, p2}
=============================================================================

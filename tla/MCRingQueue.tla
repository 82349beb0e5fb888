---------------------------- MODULE MCRingQueue -----------------------------
(* Instances of RingQueue for TLC.                                         *)
EXTENDS RingQueue, TLC

CONSTANTS p1, p2

TwoBackends == {p1, p2}
=============================================================================

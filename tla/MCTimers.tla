------------------------------ MODULE MCTimers ------------------------------
(* Small instances of Timers for TLC. *)
EXTENDS Timers

CONSTANTS t1, t2

MCThreads == {t1, t2}
PastAndFuture == {-1, 2}
Immediate == {0, 2}

=============================================================================

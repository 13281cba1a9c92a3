------------------------------ MODULE MCSched ------------------------------
(* Small instances of Sched for TLC. *)
EXTENDS SchedSemaphore, TLC

CONSTANTS t1, t2, t3, s1

MCThreads2 == {t1, t2}
MCThreads3 == {t1, t2, t3}
MCOne      == <<t1>>
MCTwo      == <<t1, t2>>
MCThree    == <<t1, t2, t3>>
MCSemaphores == {s1}
MCMutex    == s1 :> 1

=============================================================================

------------------------------ MODULE MCMutex ------------------------------
(* Small instances of Mutex for TLC. *)
EXTENDS Mutex, TLC

CONSTANTS t1, t2, t3, s1

MCThreads2 == {t1, t2}
MCThreads3 == {t1, t2, t3}
MCTwo      == <<t1, t2>>
MCThree    == <<t1, t2, t3>>
MCSemaphores == {s1}
MCMutex    == s1 :> 1

=============================================================================

------------------------------ MODULE MCDBPool ------------------------------
(***************************************************************************)
(* An instance of DBPool for TLC: the threads are model values.            *)
(***************************************************************************)
EXTENDS DBPool

CONSTANTS t1, t2, t3, t4, t5

\* Threads that call the pool, and the one that calls with a timeout.
Callers == {t1, t2, t3, t4, t5}
Impatient == {t5}
=============================================================================

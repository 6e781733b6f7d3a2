-------------------------- MODULE MC_IntakePolling --------------------------
(* A small instance of IntakePolling: two threads, the first message of one  *)
(* of them can never be inserted.                                            *)
EXTENDS IntakePolling

CONSTANTS t1, t2

MCThreads == {t1, t2}
MCPoison == {<<t2, 1>>}

=============================================================================

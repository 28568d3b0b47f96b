-------------------------- MODULE MCExecutorTasks --------------------------
EXTENDS ExecutorTasks, TLC

CONSTANTS t1, t2, t3, t4, w1, w2, w3

\* The first task makes two others ready, one of them by an event, and another
\* task follows that one.
MCReady == (t1 :> {t2, t3}) @@ (t2 :> {}) @@ (t3 :> {t4}) @@ (t4 :> {})

=============================================================================

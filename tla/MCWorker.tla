------------------------------- MODULE MCWorker -------------------------------
\* Bounds of the executor's runs: every graph over at most three tasks on two
\* workers.  That makes a queue longer than the pool, a task with several
\* dependencies and one that is ready twice possible; WorkerProofs has the
\* safety properties for every graph.
EXTENDS WorkerInv

CONSTANTS t1, t2, t3

ThreeTasks == {t1, t2, t3}
TwoTasks == {t1, t2}
Limit == 2

===============================================================================

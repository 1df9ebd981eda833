----------------------------- MODULE MCBuilderList ----------------------------
\* Bounds of the client run.  Three threads: one asks, one waits for the write
\* lock, one begins later.  Cooldowns of 2 and 1 keep the order of those of the
\* code; the clock passes two of them.
EXTENDS BuilderList, TLC

CONSTANTS t1, t2, t3

ThreeThreads == {t1, t2, t3}

\* Threads are alike.
Symmetry == Permutations(ThreeThreads)

===============================================================================

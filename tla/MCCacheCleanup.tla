---------------------------- MODULE MCCacheCleanup ----------------------------
\* Bounds of the clean-up runs.  Files of size 1 and 2 against a limit of 1: a
\* small old file could still fit where a larger newer one did not, an empty
\* one fits beside it, and equal modification times are possible.
EXTENDS CacheCleanup, TLC

CONSTANTS c1, c2

TwoCleaners == {c1, c2}

\* Cleaners are alike.
Symmetry == Permutations(Cleaners)

===============================================================================

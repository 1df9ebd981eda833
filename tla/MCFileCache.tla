------------------------------ MODULE MCFileCache -----------------------------
\* Bounds of the cache runs.  Three calls: one to tear or mix an entry, one to
\* interleave with it, one to read what they left.  Five blocks: the packed
\* object file spans two of them, so a mixture of two files is possible, and a
\* precompiled header follows in the third.
EXTENDS FileCache, TLC

CONSTANTS p1, p2, p3, clang8, clang9

ThreeCalls == {p1, p2, p3}
TwoCalls == {p1, p2}

TwoOutputs == <<3, 4>>
OneOutput == <<2>>

\* Calls are alike.
Symmetry == Permutations(ThreeCalls)

===============================================================================

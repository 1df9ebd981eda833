----------------------------- MODULE MCCoordinator ----------------------------
\* Bounds of the coordinator run: the periods of the code, in seconds.  A
\* second of delay leaves room for exactly one lost update.  A builder that is
\* started again has a new guid and is to the coordinator just another one, so
\* one start each is enough.  A builder that dies at once is forgotten by 7.
EXTENDS Coordinator, TLC

CONSTANTS n1, n2

TwoNodes == {n1, n2}

\* Hosts are alike.
Symmetry == Permutations(TwoNodes)

===============================================================================

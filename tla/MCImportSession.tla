--------------------------- MODULE MCImportSession ---------------------------
(* An upload, and requests of the same kind, all alike.                    *)
EXTENDS ImportSession, TLC

CONSTANTS s1, d1, d2, r1, r2, r3

SomeRequests == {r1, r2, r3}

Symmetric == Permutations(SomeRequests)

=============================================================================

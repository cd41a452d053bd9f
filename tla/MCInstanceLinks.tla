--------------------------- MODULE MCInstanceLinks ---------------------------
(* Requests on few dossiers, all alike.                                    *)
EXTENDS InstanceLinks, TLC

CONSTANTS i1, i2, i3, i4, r1, r2, r3

SomeInstances == {i1, i2, i3, i4}
SomeRequests == {r1, r2, r3}

Symmetric == Permutations(SomeInstances) \cup Permutations(SomeRequests)

=============================================================================

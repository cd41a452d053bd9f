---------------------------- MODULE MCEbauNumbers ----------------------------
(* Dossiers of two municipalities, numbered by overlapping requests.       *)
EXTENDS EbauNumbers, TLC

CONSTANTS d1, d2, d3, r1, r2, r3, m1, m2

SomeDossiers == {d1, d2, d3}
SomeRequests == {r1, r2, r3}
BothMunicipalities == {m1, m2}

Symmetric ==
  Permutations(SomeDossiers) \cup Permutations(SomeRequests)
    \cup Permutations(BothMunicipalities)

=============================================================================

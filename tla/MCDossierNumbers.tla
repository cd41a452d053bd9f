-------------------------- MODULE MCDossierNumbers --------------------------
(* Few dossiers, numbered after others that were numbered before.          *)
EXTENDS DossierNumbers, TLC

CONSTANTS d1, d2, d3, r1, r2, r3, r4

TwoDossiers == {d1, d2}
ThreeDossiers == {d1, d2, d3}
TwoRequests == {r1, r2}
FourRequests == {r1, r2, r3, r4}

Symmetric == Permutations(ThreeDossiers) \cup Permutations(FourRequests)

=============================================================================

--------------------------- MODULE MCDistribution ---------------------------
(* A distribution with two authorities, a service and a subservice.        *)
EXTENDS Distribution, TLC

CONSTANTS a1, a2, s1, u1, none

MCServices == {a1, a2, s1}
MCSubservices == {u1}
MCAuthorities == {a1, a2}

(* Nothing tells the two authorities apart.                                *)
Symmetric == Permutations(MCAuthorities)

=============================================================================

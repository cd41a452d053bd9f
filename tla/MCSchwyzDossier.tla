-------------------------- MODULE MCSchwyzDossier --------------------------
(* A dossier of a municipality that involves a service and a subservice.   *)
EXTENDS SchwyzDossier, TLC

CONSTANTS muni, canton, sub, none

MCServices == {muni, canton}
MCAuthorities == {muni}

=============================================================================

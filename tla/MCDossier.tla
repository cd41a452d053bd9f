----------------------------- MODULE MCDossier -----------------------------
(* A dossier of a municipality with a construction control and a district  *)
(* authority without one, that may involve a subservice.                   *)
EXTENDS ImportedDossier, TLC

CONSTANTS muni, district, sub, ctrl, other, none

MCServices == {muni, district}
MCSubservices == {sub}
MCAuthorities == {muni, district}
MCMunicipalities == {muni}
MCControls == {ctrl, other}
MCControlOf == muni :> ctrl

(* Users complete the items of all side tasks, or of some.                 *)
MCAllTasks == SideTasks
MCSomeTasks == {"nfd", "fill-publication", "check-sb1", "awa"}

(* A dossier enters through the portal or through an import.               *)
AnySpec == (DossierInit \/ ImportedInit) /\ [][Next]_vars

=============================================================================

-------------------------- MODULE ImportedDossier --------------------------
(***************************************************************************)
(* A dossier that was not submitted through the portal but imported from   *)
(* the archive of a municipality: the writer creates it in the state that  *)
(* its row asks for and then fast-forwards the case there, by skipping     *)
(* work items instead of completing them, so that no handler of completed  *)
(* items runs.  From then on it is a building permit like any other; of    *)
(* the three workflows only that one accepts the form of imported dossiers.*)
(***************************************************************************)
EXTENDS Dossier

ASSUME ImportedAssumption == "building-permit" \in Kinds

Targets == {"SUBMITTED", "APPROVED", "DONE"}

(* The states of INSTANCE_STATE_MAPPING, in which dossiers are created.    *)
TargetState ==
  [target \in Targets |-> CASE target = "SUBMITTED" -> "new"
                            [] target = "APPROVED"  -> "sb1"
                            [] target = "DONE"      -> "finished"]

(* Skipping an item, after what PRE_COMPLETE says about it.  Every imported *)
(* decision is an approval, so the procedure goes on after it.  A task     *)
(* without an open item is passed over.                                    *)
SkipItem(its, task) ==
  CASE its[task] = 0     -> its
    [] task = "decision" -> Decided(its, TRUE)
    [] task = "complete" -> Cancel(PreComplete(its), {"complete"})
    [] OTHER             -> Process(its, {task})

(* The paths: "submit" is skipped for every target, then "ebau-number",    *)
(* "distribution" and "decision" for an approved dossier, and "sb1", "sb2" *)
(* and "complete" as well for one that is done.                            *)
SubmittedItems == SkipItem([t \in Tasks |-> IF t = "submit" THEN 1 ELSE 0], "submit")
NumberedItems == SkipItem(SubmittedItems, "ebau-number")
ApprovedItems == SkipItem(SkipItem(NumberedItems, "distribution"), "decision")
DoneItems == SkipItem(SkipItem(SkipItem(ApprovedItems, "sb1"), "sb2"), "complete")

(* A submitted dossier that has a number is past its "ebau-number" item.   *)
FastForwarded(target, numbered) ==
  CASE target = "APPROVED" -> ApprovedItems
    [] target = "DONE"     -> DoneItems
    [] OTHER               -> IF numbered THEN NumberedItems ELSE SubmittedItems

ImportedState(target, numbered) ==
  IF target # "SUBMITTED" THEN TargetState[target]
  ELSE IF numbered THEN "circulation_init"
  ELSE "subm"

(* The municipality is responsible, its control joins with the decision.   *)
ImportedRowsMutant(target) == [NoRows EXCEPT ![FormMunicipality] = "active"]
ImportedRows(target) ==
  LET rows == [NoRows EXCEPT ![FormMunicipality] = "active"]
  IN IF target = "SUBMITTED" THEN rows
     ELSE [rows EXCEPT ![ControlOf[FormMunicipality]] = "active"]

(* The distribution has been started with its item, and cancelled with it. *)
ImportedDistribution(target, numbered) ==
  LET started == target # "SUBMITTED" \/ numbered
      skipped == target # "SUBMITTED"
      status  == IF skipped THEN "canceled" ELSE "ready"
  IN IF started
     THEN /\ dcase = IF skipped THEN "canceled" ELSE "running"
          /\ init = status
          /\ finish = status
          /\ lead = FormMunicipality
          /\ creates = [s \in Services |->
               IF s = FormMunicipality /\ ~skipped THEN 1 ELSE 0]
          /\ inquiries = <<>>
          /\ thawed = FALSE
     ELSE DistInit

ImportedInit ==
  \E target \in Targets, numbered \in BOOLEAN :
    /\ kind = "building-permit"
    /\ state = ImportedState(target, numbered)
    /\ prev = TargetState[target]
    /\ items = FastForwarded(target, numbered)
    /\ case = IF \A t \in Tasks : items[t] = 0 THEN "completed" ELSE "running"
    /\ involved = ImportedRows(target)
    /\ addressee = [t \in Tasks |->
         IF items[t] = 0 THEN NoService ELSE AddressGroup(t, involved)]
    /\ handler = "idle" /\ seen = "new"
    /\ ImportedDistribution(target, numbered)

ImportedSpec == ImportedInit /\ [][Next]_vars

=============================================================================

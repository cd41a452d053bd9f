------------------------------ MODULE Dossier ------------------------------
(***************************************************************************)
(* One dossier of the canton of Bern, from its creation to its end: the    *)
(* instance with its state and responsible services, its Caluma case with  *)
(* the work items of the workflows "building-permit", "preliminary-        *)
(* clarification" and "internal", and the distribution below it.           *)
(*                                                                         *)
(* An action is one transaction, with every event handler it runs.  The    *)
(* eCH-0211 send handlers and the buttons that a canton configures as      *)
(* lists of actions are no transactions: each of their API calls is one,   *)
(* and between them a handler may fail and other requests may run.  Spec   *)
(* lets them run undisturbed, FaultySpec does not.                         *)
(***************************************************************************)
EXTENDS Distribution

CONSTANTS
  Municipalities,    \* the authorities that have a construction control
  Controls,          \* the construction controls
  ControlOf,         \* the control of each municipality
  FormMunicipality,  \* the municipality named in the form
  Kinds,             \* the kinds of dossiers considered
  UserTasks,         \* bound: tasks beside the procedure whose items users complete
  MaxManual          \* bound: open manual work items

AllKinds == {"building-permit", "extend-validity", "preliminary-clarification",
             "internal"}

ASSUME DossierAssumption ==
  /\ Municipalities \subseteq Authorities
  /\ Controls \cap Authorities = {}
  /\ NoService \notin Controls
  /\ ControlOf \in [Municipalities -> Controls]
  /\ FormMunicipality \in Municipalities
  /\ Kinds \subseteq AllKinds
  /\ MaxManual \in Nat

VARIABLES
  kind,      \* the form and workflow of the dossier, chosen at its creation
  state,     \* instance.instance_state
  prev,      \* instance.previous_instance_state
  case,      \* status of the case; its open items are READY or SUSPENDED with it
  items,     \* number of open work items per task
  addressee, \* the service the open item of a task is addressed to
  involved,  \* the InstanceService rows: none, active or inactive per service
  handler,   \* what the running eCH handler or button does next
  seen       \* the instance state that it loaded, or that it goes back to

ownVars == <<kind, state, prev, case, items, addressee, involved>>
dossierVars == <<kind, state, prev, case, items, addressee, involved, handler, seen>>
vars == <<dossierVars, distVars>>

MunicipalTasks == {"ebau-number", "audit", "publication", "fill-publication",
                   "create-publication", "information-of-neighbors",
                   "create-information-of-neighbors", "nfd", "distribution",
                   "decision"}
ControlTasks == {"check-sb1", "check-sb2", "complete"}

(* "awa" stands for one item of the task "create-manual-workitems", which  *)
(* has an addressee of its own.                                            *)
Tasks == MunicipalTasks \cup ControlTasks
           \cup {"submit", "create-manual-workitems", "awa", "sb1", "sb2"}

(* The tasks whose items carry the procedure; exactly one of them is open. *)
MainTasks == {"submit", "ebau-number", "distribution", "decision", "sb1", "sb2",
              "complete"}

States == {"new", "subm", "in_progress_internal", "circulation_init", "circulation",
           "coordination", "rejected", "correction", "sb1", "sb2", "conclusion", "evaluated",
           "finished", "finished_internal", "archived"}
ClosedStates == {"evaluated", "finished", "finished_internal", "archived"}

EchSteps == {"declining", "suspending", "ruling", "deciding", "closing sb1",
             "closing sb2", "completing"}
ButtonSteps == {"rejecting", "saving rejected", "cancelling rejection",
                "undoing rejection", "correcting", "saving correction",
                "ending correction", "undoing correction",
                "reporting", "checking sb1", "saving sb2",
                "finalizing", "checking sb2", "saving conclusion",
                "ending sb1", "ending sb2", "ending conclusion", "saving finished"}
HandlerSteps == {"idle"} \cup EchSteps \cup ButtonSteps

OpenCase == {"running", "suspended"}

DossierTypeOK ==
  /\ kind \in Kinds
  /\ {state, prev, seen} \subseteq States
  /\ case \in CaseStatus \ {"none"}
  /\ items \in [Tasks -> Nat]
  /\ addressee \in [Tasks -> Authorities \cup Controls \cup {NoService}]
  /\ involved \in [Authorities \cup Controls -> {"none", "active", "inactive"}]
  /\ handler \in HandlerSteps
  /\ DistTypeOK

-----------------------------------------------------------------------------
(* Responsible services.                                                   *)

ActiveIn(services, rows) == {s \in services : rows[s] = "active"}

(* responsible_service(filter_type): the active service of the kind asked  *)
(* for, NoService if there is none.                                        *)
Responsible(services, rows) ==
  IF ActiveIn(services, rows) = {} THEN NoService
  ELSE CHOOSE s \in ActiveIn(services, rows) : TRUE

(* The states in which responsible_service() without filter is the         *)
(* construction control; in all others it is the authority.                *)
ControlStates == {<<"sb1", "coordination">>, <<"sb2", "sb1">>,
                  <<"conclusion", "sb2">>, <<"finished", "conclusion">>}

DefaultResponsible ==
  IF <<state, prev>> \in ControlStates THEN Responsible(Controls, involved)
  ELSE Responsible(Authorities, involved)

(* The groups a new work item of a task is addressed to.                   *)
AddressGroup(t, rows) ==
  CASE t \in MunicipalTasks -> Responsible(Authorities, rows)
    [] t \in ControlTasks \cup {"awa"} -> Responsible(Controls, rows)
    [] OTHER                -> NoService

-----------------------------------------------------------------------------
(* The flows of the workflows, and what handlers do to the work items.     *)

AfterSubmit ==
  IF kind = "internal"
  THEN {"ebau-number", "audit", "nfd", "decision", "create-manual-workitems"}
  ELSE {"ebau-number", "nfd", "create-manual-workitems"}

(* The tasks that follow a task; "decision" is followed by a dynamic task. *)
Flow(t) ==
  CASE t = "submit" -> AfterSubmit
    [] t = "ebau-number" /\ kind # "internal" ->
         {"distribution", "audit", "publication", "fill-publication",
          "information-of-neighbors"}
    [] t = "distribution" -> {"decision"}
    [] t = "sb1" -> {"sb2", "check-sb1"}
    [] t = "sb2" -> {"complete", "check-sb2"}
    [] t = "fill-publication" -> {"create-publication"}
    [] t = "create-publication" -> {"fill-publication"}
    [] t = "information-of-neighbors" -> {"create-information-of-neighbors"}
    [] t = "create-information-of-neighbors" -> {"information-of-neighbors"}
    [] OTHER -> {}

Cancel(its, ts) == [t \in Tasks |-> IF t \in ts THEN 0 ELSE its[t]]

Create(its, ts) == [t \in Tasks |-> its[t] + (IF t \in ts THEN 1 ELSE 0)]

(* Completing or skipping every open item of some tasks creates the items  *)
(* that follow them.                                                       *)
Process(its, ts) ==
  LET done == {t \in ts : its[t] > 0}
  IN Create(Cancel(its, ts), UNION {Flow(t) : t \in done})

(* The PRE_COMPLETE settings, in the order in which they are applied.      *)
Manual == {"create-manual-workitems", "awa"}

PreDecision(its) ==
  Process(Cancel(Process(its, {"audit", "publication", "fill-publication"}),
                 Manual \cup {"create-publication", "information-of-neighbors",
                              "create-information-of-neighbors"}),
          {"nfd"})

PreComplete(its) ==
  Cancel(Process(its, {"check-sb1", "check-sb2"}),
         Manual \cup {"create-publication", "fill-publication"})

(* A case without open items is completed.                                 *)
CaseWith(its) == IF \A t \in Tasks : its[t] = 0 THEN "completed" ELSE case

Ready(t) == case = "running" /\ items[t] > 0

(* The items become its: new ones are addressed by their task's groups, in *)
(* the services as they are after the step.                                *)
SetItems(its) ==
  /\ items' = its
  /\ addressee' = [t \in Tasks |->
       IF its[t] = 0 THEN NoService
       ELSE IF items[t] > 0 THEN addressee[t]
       ELSE AddressGroup(t, involved')]

(* The handler of a new "distribution" item starts the distribution.       *)
StartIfCreatedMutant(its) == UNCHANGED distVars
StartIfCreated(its) ==
  IF its["distribution"] > items["distribution"]
  THEN StartDistribution(Responsible(Authorities, involved'))
  ELSE UNCHANGED distVars

GoTo(s) ==
  /\ state' = s
  /\ prev' = state

(* The last state of a dossier that it holds while it is rejected or       *)
(* corrected as well.                                                      *)
Reached == IF state \in {"rejected", "correction"} THEN prev ELSE state

Keep == UNCHANGED <<handler, seen>>
KeepState == UNCHANGED <<state, prev>>

-----------------------------------------------------------------------------
(* The requests of applicants, authorities and construction controls.      *)

NoRows == [s \in Authorities \cup Controls |-> "none"]

(* A dossier is created by an applicant, or on paper by an authority, that *)
(* is then responsible for it.                                             *)
DossierInit ==
  /\ kind \in Kinds
  /\ state = "new" /\ prev = "new"
  /\ case = "running"
  /\ items = [t \in Tasks |-> IF t = "submit" THEN 1 ELSE 0]
  /\ addressee = [t \in Tasks |-> NoService]
  /\ involved \in {NoRows} \cup {[NoRows EXCEPT ![a] = "active"] : a \in Authorities}
  /\ handler = "idle" /\ seen = "new"
  /\ DistInit

SubmittedState ==
  CASE kind = "internal"        -> "in_progress_internal"
    [] kind = "extend-validity" -> "circulation_init"
    [] OTHER                    -> "subm"

(* The municipality of the form becomes responsible if nobody is yet.      *)
SubmittedRows ==
  IF Responsible(Authorities, involved) = NoService
  THEN [involved EXCEPT ![FormMunicipality] = "active"]
  ELSE involved

Submit ==
  LET submitted == Process(items, {"submit"})
      its == IF kind = "extend-validity"
             THEN Process(submitted, {"ebau-number"}) ELSE submitted
  IN /\ state = "new"
     /\ Ready("submit")
     /\ GoTo(SubmittedState)
     /\ involved' = SubmittedRows
     /\ SetItems(its)
     /\ StartIfCreated(its)
     /\ UNCHANGED <<kind, case>> /\ Keep

(* The submit permission also admits rejected dossiers.  No "submit" item  *)
(* is open any more, so only the state changes; the form "extend-validity" *)
(* fails on its closed "ebau-number" item.                                 *)
SubmitRejected ==
  /\ state = "rejected"
  /\ kind # "extend-validity"
  /\ GoTo(SubmittedState)
  /\ involved' = SubmittedRows
  /\ UNCHANGED <<kind, case, items, addressee>> /\ Keep
  /\ UNCHANGED distVars

(* "ebau-number": the dossier leaves the state "subm" when it is completed.*)
CompleteEbauNumber ==
  LET its == Process(items, {"ebau-number"})
  IN /\ Ready("ebau-number")
     /\ IF state = "subm" THEN GoTo("circulation_init") ELSE KeepState
     /\ UNCHANGED <<kind, case, involved>> /\ Keep
     /\ SetItems(its)
     /\ StartIfCreated(its)

(* The items beside the procedure that users complete one by one.          *)
SideTasks == {"audit", "publication", "fill-publication", "create-publication",
              "information-of-neighbors", "create-information-of-neighbors", "nfd",
              "check-sb1", "check-sb2", "awa"}

CompleteSideTask(t) ==
  LET its == Process(items, {t})
  IN /\ Ready(t)
     /\ UNCHANGED <<kind, involved>> /\ KeepState /\ Keep
     /\ SetItems(its)
     /\ case' = CaseWith(its)
     /\ UNCHANGED distVars

(* Manual items are created while an item of the task is open, which no    *)
(* user completes.                                                         *)
CreateManual ==
  /\ Ready("create-manual-workitems")
  /\ items["create-manual-workitems"] < MaxManual
  /\ UNCHANGED <<kind, case, involved>> /\ KeepState /\ Keep
  /\ SetItems(Create(items, {"create-manual-workitems"}))
  /\ UNCHANGED distVars

CompleteManual ==
  /\ Ready("create-manual-workitems")
  /\ items["create-manual-workitems"] > 1
  /\ UNCHANGED <<kind, case, involved>> /\ KeepState /\ Keep
  /\ SetItems([items EXCEPT !["create-manual-workitems"] = @ - 1])
  /\ UNCHANGED distVars

-----------------------------------------------------------------------------
(* The distribution below the dossier.                                     *)

(* Steps that leave the dossier alone, unless they complete the item       *)
(* "init-distribution", which starts the circulation.                      *)
StateAfterInit ==
  IF init # "completed" /\ init' = "completed" THEN GoTo("circulation") ELSE KeepState

Distribute ==
  /\ \/ \E s \in Services, targets \in TargetLists : CreateInquiries(s, targets)
     \/ \E i \in 1..Len(inquiries) : \/ SendInquiry(i)
                                     \/ AnswerInquiry(i)
                                     \/ WithdrawInquiry(i)
                                     \/ CheckInquiry(i)
     \/ CompleteInit
  /\ StateAfterInit
  /\ UNCHANGED <<kind, case, items, addressee, involved>> /\ Keep

(* The end of the distribution completes the item "distribution".          *)
EndDistribution ==
  LET its == Process(items, {"distribution"})
  IN /\ CompleteDistribution
     /\ Ready("distribution")
     /\ GoTo("coordination")
     /\ UNCHANGED <<kind, case, involved>> /\ Keep
     /\ SetItems(its)

-----------------------------------------------------------------------------
(* The decision and what follows it.                                       *)

DecidedState(continue) ==
  CASE kind \in {"building-permit", "extend-validity"} ->
         IF continue THEN "sb1" ELSE "finished"
    [] kind = "preliminary-clarification" -> "evaluated"
    [] OTHER -> "finished_internal"

(* The municipality whose construction control takes over.                 *)
DecidingMunicipalities ==
  LET rows == {m \in Municipalities : involved[m] # "none"}
      active == ActiveIn(Municipalities, involved)
  IN IF active # {} THEN active
     ELSE IF rows # {} THEN rows
     ELSE {FormMunicipality}

(* What the decision leaves open.  An internal dossier also skips an       *)
(* "ebau-number" item that is still READY.                                 *)
DecidedMutant(its, continue) ==
  LET left == Cancel(PreDecision(its), {})
  IN IF continue
     THEN Create(left, {"sb1", "create-manual-workitems", "create-publication"})
     ELSE left
Decided(its, continue) ==
  LET closed == Cancel(PreDecision(its),
                       {"decision"} \cup IF kind = "internal" THEN {"ebau-number"} ELSE {})
  IN IF continue
     THEN Create(closed, {"sb1", "create-manual-workitems", "create-publication"})
     ELSE closed

MayContinue == kind \in {"building-permit", "extend-validity"}

DecisionTaken(continue) ==
  LET its == Decided(items, continue)
  IN /\ Ready("decision")
     /\ continue => MayContinue
     /\ GoTo(DecidedState(continue))
     /\ IF continue
        THEN \E m \in DecidingMunicipalities :
               involved' = [involved EXCEPT ![ControlOf[m]] = "active"]
        ELSE UNCHANGED involved
     /\ SetItems(its)
     /\ case' = CaseWith(its)
     /\ UNCHANGED kind
     /\ UNCHANGED distVars

Decide(continue) == DecisionTaken(continue) /\ Keep

ReportedItemsMutant == items
ReportedItems == IF Ready("sb1") THEN Process(items, {"sb1"}) ELSE items

(* The applicant reports: the state changes even if "sb1" is not open.     *)
Report ==
  /\ state = "sb1"
  /\ GoTo("sb2")
  /\ UNCHANGED <<kind, case, involved>> /\ Keep
  /\ SetItems(ReportedItems)
  /\ UNCHANGED distVars

(* The applicant finalizes.  Stored substances add a manual item for the   *)
(* construction control that is responsible now; without one it fails.     *)
Finalize(stored) ==
  LET its  == IF Ready("sb2") THEN Process(items, {"sb2"}) ELSE items
      more == IF Ready("sb2") /\ stored THEN Create(its, {"awa"}) ELSE its
  IN /\ state = "sb2"
     /\ Ready("sb2") /\ stored => Responsible(Controls, involved) # NoService
     /\ GoTo("conclusion")
     /\ UNCHANGED <<kind, case, involved>> /\ Keep
     /\ SetItems(more)
     /\ UNCHANGED distVars

Completed ==
  LET its == Cancel(PreComplete(items), {"complete"})
  IN /\ Ready("complete")
     /\ GoTo("finished")
     /\ UNCHANGED <<kind, involved>>
     /\ SetItems(its)
     /\ case' = CaseWith(its)
     /\ UNCHANGED distVars

Complete == Completed /\ Keep

-----------------------------------------------------------------------------
(* Responsibility, archiving, resubmission.                                *)

(* Manual items stay with the service they were made for.                  *)
ReaddressedMutant(from, to) ==
  [t \in Tasks |->
     IF t \notin Manual /\ addressee[t] = from /\ case = "running" THEN to
     ELSE addressee[t]]
Readdressed(from, to) ==
  [t \in Tasks |->
     IF t \notin Manual /\ addressee[t] = from THEN to ELSE addressee[t]]

(* The row of the old service is closed before that of the new one, which  *)
(* may be the same, is opened.                                             *)
HandedOverKeepMutant(from, to) == [involved EXCEPT ![to] = "active"]
HandedOverSwapMutant(from, to) == [involved EXCEPT ![to] = "active", ![from] = "inactive"]
HandedOver(from, to) == [involved EXCEPT ![from] = "inactive", ![to] = "active"]

(* The service responsible in a kind of services hands over to another one *)
(* of that kind; the request fails if nobody is responsible.  The open     *)
(* items and the distribution follow.                                      *)
ChangeResponsible(services, to) ==
  LET from == Responsible(services, involved)
  IN /\ from # NoService
     /\ involved' = HandedOver(from, to)
     /\ addressee' = Readdressed(from, to)
     /\ IF to \in Authorities /\ dcase \in OpenCase
        THEN ReassignDistribution(from, to)
        ELSE UNCHANGED distVars
     /\ UNCHANGED <<kind, case, items>> /\ KeepState /\ Keep

(* Cancelling the case cancels every open item, in the distribution too.   *)
CaseCancelledMutant ==
  /\ case' = "canceled"
  /\ items' = [t \in Tasks |-> 0]
  /\ addressee' = [t \in Tasks |-> NoService]
  /\ UNCHANGED distVars
CaseCancelled ==
  /\ case' = "canceled"
  /\ items' = [t \in Tasks |-> 0]
  /\ addressee' = [t \in Tasks |-> NoService]
  /\ IF dcase \in OpenCase THEN CancelDistribution ELSE UNCHANGED distVars

(* The statuses of a case that archiving cancels.                          *)
ArchiveCancelsMutant == {"running"}
ArchiveCancels == {"running", "suspended"}

CaseArchivedMutant == UNCHANGED <<case, items, addressee>> /\ UNCHANGED distVars
CaseArchived ==
  IF case \in ArchiveCancels
  THEN CaseCancelled
  ELSE UNCHANGED <<case, items, addressee>> /\ UNCHANGED distVars

Archive ==
  /\ GoTo("archived")
  /\ CaseArchived
  /\ UNCHANGED <<kind, involved>> /\ Keep

(* A copy of the rejected dossier is submitted, which ends this one.       *)
ResubmitCopy ==
  /\ state = "rejected"
  /\ case \in OpenCase
  /\ GoTo("finished")
  /\ CaseCancelled
  /\ UNCHANGED <<kind, involved>> /\ Keep

-----------------------------------------------------------------------------
(* What eCH handlers and buttons do to the case, one transaction each.     *)

(* Suspending the case suspends its open items, and the distribution.      *)
CaseSuspended ==
  /\ case' = "suspended"
  /\ IF dcase = "running" THEN SuspendDistribution ELSE UNCHANGED distVars

CaseResumed ==
  /\ case = "suspended"
  /\ case' = "running"
  /\ IF dcase = "suspended" THEN ResumeDistribution ELSE UNCHANGED distVars

(* A task is skipped, or its item completed, if it is open.                *)
HandlerSkips(task, step, next) ==
  /\ handler = step
  /\ handler' = next
  /\ UNCHANGED <<kind, case, involved, seen>> /\ KeepState
  /\ IF Ready(task)
     THEN SetItems(Process(items, {task}))
     ELSE UNCHANGED <<items, addressee>>
  /\ UNCHANGED distVars

-----------------------------------------------------------------------------
(* The eCH-0211 send handlers: the instance is loaded and the permission   *)
(* checked, then one transaction follows the other.                        *)

EchReceive ==
  /\ handler = "idle"
  /\ \/ /\ state \in {"circulation_init", "circulation", "coordination"}
        /\ handler' = "declining"
     \/ /\ state \in {"circulation", "coordination"}
        /\ handler' = "ruling"
     \/ /\ state \in {"sb1", "sb2", "conclusion"}
        /\ handler' = "closing sb1"
  /\ seen' = state
  /\ UNCHANGED ownVars /\ UNCHANGED distVars

(* NoticeRuling, declined: the instance is saved as rejected, with the     *)
(* state it was loaded with as the previous one ...                        *)
EchReject ==
  /\ handler = "declining"
  /\ handler' = "suspending"
  /\ state' = "rejected"
  /\ prev' = seen
  /\ UNCHANGED <<kind, case, items, addressee, involved, seen>>
  /\ UNCHANGED distVars

(* ... and then the case is suspended, if it is still running.             *)
EchSuspend ==
  /\ handler = "suspending"
  /\ handler' = "idle"
  /\ IF case = "running" THEN CaseSuspended ELSE UNCHANGED case /\ UNCHANGED distVars
  /\ UNCHANGED <<kind, items, addressee, involved, seen>> /\ KeepState

(* NoticeRuling, accepted: the distribution is skipped if it still runs    *)
(* and leaves the instance state as it is ...                              *)
EchSkipDistribution ==
  LET its == Process(items, {"distribution"})
  IN /\ handler = "ruling"
     /\ handler' = "deciding"
     /\ UNCHANGED <<kind, case, involved, seen>> /\ KeepState
     /\ IF Ready("distribution")
        THEN SetItems(its) /\ CancelDistribution
        ELSE UNCHANGED <<items, addressee>> /\ UNCHANGED distVars

(* ... then the decision is completed; without one the handler fails.      *)
EchDecide(continue) ==
  /\ handler = "deciding"
  /\ handler' = "idle"
  /\ UNCHANGED seen
  /\ DecisionTaken(continue)

EchNoDecision ==
  /\ handler = "deciding"
  /\ ~Ready("decision")
  /\ handler' = "idle"
  /\ UNCHANGED seen /\ UNCHANGED ownVars /\ UNCHANGED distVars

(* CloseArchiveDossier: "sb1" and "sb2" are skipped, "complete" completed, *)
(* each if it is READY when its turn comes.                                *)
EchComplete ==
  /\ handler = "completing"
  /\ handler' = "idle"
  /\ UNCHANGED seen
  /\ IF Ready("complete") THEN Completed ELSE UNCHANGED ownVars /\ UNCHANGED distVars

EchStep ==
  \/ EchReject
  \/ EchSuspend
  \/ EchSkipDistribution
  \/ \E continue \in BOOLEAN : EchDecide(continue)
  \/ EchNoDecision
  \/ HandlerSkips("sb1", "closing sb1", "closing sb2")
  \/ HandlerSkips("sb2", "closing sb2", "completing")
  \/ EchComplete

-----------------------------------------------------------------------------
(* The buttons of the authorities that are configured as lists of actions. *)
(* The instance is loaded when a button is pressed; an action that finds   *)
(* nothing to act on where it must, ends the list.                         *)

PressButton ==
  /\ handler = "idle"
  /\ \/ /\ state \in {"circulation_init", "circulation"}
        /\ handler' \in {"rejecting", "correcting"}
     \/ /\ state = "rejected"
        /\ handler' = "cancelling rejection"
     \/ /\ state = "correction"
        /\ handler' = "ending correction"
     \/ /\ state = "sb1"
        /\ handler' \in {"reporting", "ending sb1"}
     \/ /\ state = "sb2"
        /\ handler' \in {"finalizing", "ending sb1"}
  /\ seen' = Reached
  /\ UNCHANGED ownVars /\ UNCHANGED distVars

ButtonSuspends(step, next) ==
  /\ handler = step
  /\ handler' = next
  /\ case = "running"
  /\ CaseSuspended
  /\ UNCHANGED <<kind, items, addressee, involved, seen>> /\ KeepState

(* Resuming the case may complete "init-distribution", as sending an       *)
(* inquiry does, and starts the circulation then.                          *)
ButtonResumes(step, next) ==
  /\ handler = step
  /\ handler' = next
  /\ CaseResumed
  /\ StateAfterInit
  /\ UNCHANGED <<kind, items, addressee, involved, seen>>

ButtonCloses(task, step, next) == Ready(task) /\ HandlerSkips(task, step, next)

ButtonCompletes ==
  /\ handler = "ending conclusion"
  /\ handler' = "saving finished"
  /\ Completed
  /\ UNCHANGED seen

(* The new state is saved, with the state that the button loaded or the    *)
(* one that it finds as the previous one.                                  *)
ButtonSaves(step, target) ==
  /\ handler = step
  /\ handler' = "idle"
  /\ state' = target
  /\ prev' \in {seen, state}
  /\ UNCHANGED <<kind, case, items, addressee, involved, seen>>
  /\ UNCHANGED distVars

(* Back to the previous state, as it was loaded.  If the dossier has left  *)
(* the state the button was for, the action may not apply any more.        *)
ButtonReturnsMutant(step, origin) ==
  /\ handler = step
  /\ handler' = "idle"
  /\ state' = seen
  /\ UNCHANGED <<prev, kind, case, items, addressee, involved, seen>>
  /\ UNCHANGED distVars
ButtonReturns(step, origin) ==
  /\ handler = step
  /\ handler' = "idle"
  /\ \/ state' = seen /\ prev' = origin
     \/ state # origin /\ KeepState
  /\ UNCHANGED <<kind, case, items, addressee, involved, seen>>
  /\ UNCHANGED distVars

ButtonStep ==
  \/ ButtonSuspends("rejecting", "saving rejected")
  \/ ButtonSaves("saving rejected", "rejected")
  \/ ButtonResumes("cancelling rejection", "undoing rejection")
  \/ ButtonReturns("undoing rejection", "rejected")
  \/ ButtonSuspends("correcting", "saving correction")
  \/ ButtonSaves("saving correction", "correction")
  \/ ButtonResumes("ending correction", "undoing correction")
  \/ ButtonReturns("undoing correction", "correction")
  \/ ButtonCloses("sb1", "reporting", "checking sb1")
  \/ HandlerSkips("check-sb1", "checking sb1", "saving sb2")
  \/ ButtonSaves("saving sb2", "sb2")
  \/ ButtonCloses("sb2", "finalizing", "checking sb2")
  \/ HandlerSkips("check-sb2", "checking sb2", "saving conclusion")
  \/ ButtonSaves("saving conclusion", "conclusion")
  \/ HandlerSkips("sb1", "ending sb1", "ending sb2")
  \/ ButtonCloses("sb2", "ending sb2", "ending conclusion")
  \/ ButtonCompletes
  \/ ButtonSaves("saving finished", "finished")

(* A handler or button fails between two of its transactions.              *)
HandlerFails ==
  /\ handler # "idle"
  /\ handler' = "idle"
  /\ UNCHANGED seen /\ UNCHANGED ownVars /\ UNCHANGED distVars

-----------------------------------------------------------------------------

Request ==
  \/ Submit
  \/ SubmitRejected
  \/ CompleteEbauNumber
  \/ \E t \in SideTasks \cap UserTasks : CompleteSideTask(t)
  \/ CreateManual
  \/ CompleteManual
  \/ Distribute
  \/ EndDistribution
  \/ \E continue \in BOOLEAN : Decide(continue)
  \/ Report
  \/ \E stored \in BOOLEAN : Finalize(stored)
  \/ Complete
  \/ \E a \in Authorities : ChangeResponsible(Authorities, a)
  \/ \E c \in Controls : ChangeResponsible(Controls, c)
  \/ Archive
  \/ ResubmitCopy

(* Every handler runs to its end before the next request is served.        *)
Next ==
  \/ handler = "idle" /\ Request
  \/ EchReceive
  \/ EchStep
  \/ PressButton
  \/ ButtonStep

Spec == DossierInit /\ [][Next]_vars

(* Requests interleave with the transactions of a handler, and it may fail *)
(* between any two of them.                                                *)
FaultyNext ==
  \/ Request
  \/ EchReceive
  \/ EchStep
  \/ PressButton
  \/ ButtonStep
  \/ HandlerFails

FaultySpec == DossierInit /\ [][FaultyNext]_vars

-----------------------------------------------------------------------------
(* Properties of both specifications.                                      *)

OpenMainItems == {t \in MainTasks : items[t] > 0}

(* While its case is open, a dossier has one main item and only one: it    *)
(* can always go on, and never on two ways.  The two items of an internal  *)
(* dossier are no exception: its decision does not wait for the number.    *)
OneMainItem ==
  case \in OpenCase =>
    /\ \A t \in MainTasks : items[t] <= 1
    /\ Cardinality(OpenMainItems \
         (IF kind = "internal" THEN {"ebau-number"} ELSE {})) = 1

(* A closed case has no open item left, and no open distribution.          *)
ClosedCaseIsClean ==
  case \notin OpenCase => /\ \A t \in Tasks : items[t] = 0
                          /\ dcase \notin OpenCase

(* The distribution runs below an open item, and stands still with it.     *)
DistributionFollowsItem ==
  /\ items["distribution"] > 0 <=> dcase \in OpenCase
  /\ dcase \in OpenCase => dcase = case

(* There is never more than one responsible authority, nor more than one   *)
(* responsible construction control, whoever hands over to whom.           *)
OneResponsible ==
  /\ Cardinality(ActiveIn(Authorities, involved)) <= 1
  /\ Cardinality(ActiveIn(Controls, involved)) <= 1

(* Every open item, of a suspended dossier as well, is addressed to the    *)
(* service that is responsible now, and so is the distribution.  Only the  *)
(* manual item of the finalization stays with the construction control it  *)
(* was made for, which is or was involved.                                 *)
AddressedToResponsible ==
  /\ \A t \in Tasks \ {"awa"} : items[t] > 0 => addressee[t] = AddressGroup(t, involved)
  /\ dcase \in OpenCase => lead = Responsible(Authorities, involved)
  /\ \A t \in ControlTasks \cup {"awa"} :
       items[t] > 0 => /\ addressee[t] \in Controls
                       /\ involved[addressee[t]] # "none"

(* How far the procedure has come.                                         *)
Rank(s) ==
  CASE s = "new" -> 0
    [] s \in {"subm", "in_progress_internal"} -> 1
    [] s = "circulation_init" -> 2
    [] s = "circulation" -> 3
    [] s = "coordination" -> 4
    [] s = "sb1" -> 5
    [] s = "sb2" -> 6
    [] s = "conclusion" -> 7
    [] s \in {"evaluated", "finished", "finished_internal"} -> 8
    [] OTHER -> 9

(* What a dossier has reached it never loses, through any number of        *)
(* rejections, corrections and their ends, but in two ways: a rejected     *)
(* dossier is submitted again as it is, or a handler or button goes on     *)
(* with an instance that is not the one it loaded.  The latter takes no    *)
(* other request: when resuming the case completes "init-distribution",    *)
(* the button still goes back from the circulation to the state before.    *)
ReachedIsKept ==
  [][\/ Rank(Reached') >= Rank(Reached)
     \/ state = "rejected" /\ state' \in {"subm", "in_progress_internal"}
     \/ handler # handler' /\ seen # Reached]_vars

(* Below the dossier runs a distribution as the module Distribution has    *)
(* it: no handler of the dossier touches the items of the child case but   *)
(* by its steps, and only at a time and with the lead they expect.         *)
ImplementsDistribution == DistSpec

-----------------------------------------------------------------------------
(* Properties that hold as long as the eCH handlers are not disturbed.     *)

(* The item that a state requires, as in REQUIRED_CONFIG of the command    *)
(* fix_work_items.                                                         *)
RequiredItem(s) ==
  CASE s = "new" -> "submit"
    [] s = "subm" -> "ebau-number"
    [] s \in {"circulation_init", "circulation"} -> "distribution"
    [] s \in {"coordination", "in_progress_internal"} -> "decision"
    [] s = "sb1" -> "sb1"
    [] s = "sb2" -> "sb2"
    [] s = "conclusion" -> "complete"
    [] OTHER -> "none"

(* A running dossier is where its state says: the item this state requires *)
(* is open, no closed, rejected or corrected dossier runs, and the         *)
(* distribution has begun in the circulation.  It has not begun before,    *)
(* unless the dossier has come back from a rejection or correction, which  *)
(* may have sent inquiries.  Suspended are rejected and corrected dossiers *)
(* and, for good, those that were submitted again when rejected.           *)
StateMatchesItem ==
  handler = "idle" =>
    /\ case = "running" =>
         /\ RequiredItem(state) \in OpenMainItems
         /\ state = "circulation_init" =>
              \/ init = "ready"
              \/ init = "completed" /\ prev \in {"rejected", "correction"}
         /\ state = "circulation" => init = "completed"
    /\ case = "suspended" =>
         \/ state \in {"rejected", "correction"}
         \/ state \in {"subm", "in_progress_internal"} /\ prev = "rejected"

(* Closed states are final, and closed for good: such a dossier is only    *)
(* ever archived, and its case never reopened.                             *)
ClosedIsFinal ==
  [][/\ state \in ClosedStates => state' \in {state, "archived"}
     /\ case \notin OpenCase => case' = case]_vars

(* A dossier is in a closed state exactly if its case is closed.           *)
ClosedStateClosesCase == state \in ClosedStates <=> case \notin OpenCase

(* From the decision on a construction control is involved.                *)
ControlIsInvolved ==
  state \in {"sb1", "sb2", "conclusion"} => ActiveIn(Controls, involved) # {}

(* The status notification to the responsible service, by the state and    *)
(* the one before.                                                         *)
MessageType(st, previous) ==
  IF st = "circulation_init" THEN "number assigned"
  ELSE IF st = "circulation" \/ previous = "rejected" THEN "circulation started"
  ELSE CASE st = "sb1" -> "report pending"
         [] st \in {"evaluated", "finished"} -> "closed"
         [] st = "rejected" -> "rejected"
         [] st = "coordination" -> "in coordination"
         [] OTHER -> "none"

(* The steps that send one: those that reach a new state by an item, a     *)
(* ruling or a rejection, the end of a rejection, but neither a correction *)
(* or its end nor the end of a dossier whose copy is submitted.            *)
RejectionUndone == handler = "undoing rejection" /\ state' = seen

StatusNotified ==
  /\ kind \notin {"internal", "extend-validity"}
  /\ state' # state
  /\ \/ /\ state' \in {"circulation_init", "circulation", "coordination", "sb1",
                        "evaluated", "rejected"}
        /\ handler # "undoing correction"
     \/ state' = "finished" /\ case' # "canceled"

(* Every status notification has a type, without which the request would   *)
(* fail, and names the state the dossier has come to.  The type depends on *)
(* the state before as well, which must not be left as "rejected" by steps *)
(* that go on with a rejected dossier.  The end of a rejection announces   *)
(* the circulation whatever has been reached, but for a dossier that comes *)
(* back to the state in which it waits for its circulation.                *)
NotificationNamesState ==
  [][StatusNotified =>
       LET type == MessageType(state', prev')
       IN /\ type # "none"
          /\ type = "circulation started" => state' = "circulation" \/ RejectionUndone
          /\ RejectionUndone =>
               type = IF state' = "circulation_init" THEN "number assigned"
                      ELSE "circulation started"]_vars

-----------------------------------------------------------------------------
(* What a test of the repository says, and the code does not.              *)

(* A decided dossier that goes on is in the hands of the construction      *)
(* control: responsible_service() returns it, as the test of the ruling    *)
(* handler asserts.                                                        *)
DecisionHandsOver == state = "sb1" => DefaultResponsible \in Controls

=============================================================================

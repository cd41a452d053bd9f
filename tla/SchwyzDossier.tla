--------------------------- MODULE SchwyzDossier ---------------------------
(***************************************************************************)
(* One dossier of the canton of Schwyz: the instance and its state, the    *)
(* items of its Caluma workflow "building-permit", and the distribution    *)
(* below it, in which an answer is reviewed before it counts.              *)
(*                                                                         *)
(* Other than in Bern the authority does not complete work items: it       *)
(* presses the button of a state, and the button completes the item of one *)
(* task.  Which buttons a state has and which items are open is configured *)
(* in two places; a button without an open item fails.                     *)
(***************************************************************************)
EXTENDS Distribution

CONSTANTS
  Municipality,  \* the service of the group the dossier was handed in to
  MaxManual      \* bound: open manual work items

ASSUME SchwyzAssumption ==
  /\ Municipality \in Authorities
  /\ MaxManual \in Nat

VARIABLES
  state,     \* instance.instance_state
  prev,      \* instance.previous_instance_state
  case,      \* status of the case
  items,     \* number of READY work items per task
  imported,  \* whether the dossier entered through an import
  review     \* the READY items of the child case of every inquiry

schwyzVars == <<state, prev, case, items, imported, review>>
vars == <<schwyzVars, distVars>>

SubmitTasks == {"submit", "submit-additional-demand", "formal-addition"}
Tasks == SubmitTasks \cup
  {"complete-check", "reject-form", "create-manual-workitems", "depreciate-case",
   "distribution", "additional-demand", "publication", "building-authority",
   "make-decision", "archive-instance"}

-----------------------------------------------------------------------------
(* What completing an item does to the other items.                        *)

Flow ==
  [t \in Tasks |->
     CASE t = "submit" -> {"complete-check", "reject-form", "depreciate-case",
                           "create-manual-workitems"}
       [] t = "complete-check" -> {"distribution", "additional-demand", "publication",
                                   "building-authority"}
       [] t = "additional-demand" -> {"submit-additional-demand"}
       [] t = "submit-additional-demand" -> {"additional-demand"}
       [] t = "distribution" -> {"make-decision"}
       [] t = "reject-form" -> {"formal-addition", "archive-instance"}
       [] t = "formal-addition" -> {"reject-form", "complete-check", "depreciate-case"}
       [] t \in {"make-decision", "depreciate-case"} -> {"archive-instance"}
       [] OTHER -> {}]

(* The tasks whose items PRE_COMPLETE closes first, be it by cancelling,   *)
(* skipping or completing them.                                            *)
PreComplete ==
  [t \in Tasks |->
     CASE t = "complete-check" -> {"reject-form"}
       [] t = "reject-form" -> {"complete-check", "depreciate-case"}
       [] t = "formal-addition" -> {"archive-instance"}
       [] t = "make-decision" -> {"depreciate-case"}
       [] t = "distribution" -> {"additional-demand"}
       [] t = "depreciate-case" -> {"formal-addition", "complete-check", "reject-form",
                                    "publication", "distribution", "additional-demand",
                                    "submit-additional-demand", "make-decision"}
       [] t = "archive-instance" -> {"create-manual-workitems", "building-authority"}
       [] OTHER -> {}]

Without(its, ts) == [t \in Tasks |-> IF t \in ts THEN 0 ELSE its[t]]
Create(its, ts) == [t \in Tasks |-> its[t] + (IF t \in ts THEN 1 ELSE 0)]

(* "make-decision" and "depreciate-case" share one flow: it continues when *)
(* neither of them is READY any more.                                      *)
Sharing == {"make-decision", "depreciate-case"}
Following(its, t) ==
  IF t \in Sharing /\ \E u \in Sharing : its[u] > 0 THEN {} ELSE Flow[t]

(* None of the items closed first is followed by another: a skipped        *)
(* "depreciate-case" still waits for "make-decision".                      *)
ClosedWithCaseMutant(t) ==
  {t} \cup (PreComplete[t] \ IF t = "reject-form" THEN {"depreciate-case"} ELSE {})
ClosedWithDemandMutant(t) == {t} \cup (PreComplete[t] \ {"submit-additional-demand"})
ClosedWith(t) == {t} \cup PreComplete[t]

Completed(its, t) ==
  LET left == Without(its, ClosedWith(t))
  IN Create(left, Following(left, t))

CaseWith(its) == IF \A t \in Tasks : its[t] = 0 THEN "completed" ELSE "running"

Ready(t) == case = "running" /\ items[t] > 0

(* SIMPLE_WORKFLOW: the state a completed item leads to.                   *)
StateAfter(t) ==
  CASE t = "formal-addition"   -> "subm"
    [] t = "complete-check"    -> "comm"
    [] t = "reject-form"       -> "rejected"
    [] t = "make-decision"     -> "done"
    [] t = "archive-instance"  -> "arch"
    [] t = "depreciate-case"   -> "stopped"
    [] t = "additional-demand" -> "nfd"
    [] t = "init-distribution" -> "circ"
    [] t = "distribution"      -> "redac"

GoTo(s) ==
  /\ state' = s
  /\ prev' = state

-----------------------------------------------------------------------------
(* Dossiers enter through the portal or through an import, which skips the *)
(* items on the way to the state that the row asks for.                    *)

NoItems == [t \in Tasks |-> 0]
NewItems == Create(NoItems, {"submit"})
SubmittedItems == Without(Completed(NewItems, "submit"), {"reject-form"})
ApprovedItems ==
  LET checked == Completed(SubmittedItems, "complete-check")
      distributed == Completed(checked, "distribution")
  IN Completed(Without(distributed, {"publication"}), "make-decision")
DoneItems == Completed(ApprovedItems, "archive-instance")

ImportedItems(s) ==
  CASE s = "subm" -> SubmittedItems
    [] s = "done" -> ApprovedItems
    [] s = "arch" -> DoneItems

(* The distribution that was started and cancelled on the way.             *)
SkippedDistribution ==
  /\ dcase = "canceled"
  /\ init = "canceled"
  /\ finish = "canceled"
  /\ lead = Municipality
  /\ creates = [s \in Services |-> 0]
  /\ inquiries = <<>>
  /\ thawed = FALSE

Init ==
  /\ imported \in BOOLEAN
  /\ state \in IF imported THEN {"subm", "done", "arch"} ELSE {"new"}
  /\ review = <<>>
  /\ prev = state
  /\ items = IF imported THEN ImportedItems(state) ELSE NewItems
  /\ case = CaseWith(items)
  /\ IF imported /\ state # "subm" THEN SkippedDistribution ELSE DistInit

-----------------------------------------------------------------------------
(* The requests of applicants.                                             *)

OpenSubmits == {t \in SubmitTasks : items[t] > 0}

(* The one endpoint for handing in a dossier, its addition after a         *)
(* rejection, and the documents demanded later.  It first moves the state  *)
(* on or back and then completes the one open submit item; completing      *)
(* "formal-addition" moves the state once more.                            *)
Submit ==
  LET target == IF state = "new" THEN "subm" ELSE prev
  IN /\ state \in {"new", "nfd", "rejected"}
     /\ case = "running"
     /\ \E t \in SubmitTasks :
          /\ OpenSubmits = {t}
          /\ items[t] = 1
          /\ items' = Completed(items, t)
          /\ IF t = "formal-addition"
             THEN state' = StateAfter(t) /\ prev' = target
             ELSE GoTo(target)
     /\ UNCHANGED <<case, imported, review, distVars>>

-----------------------------------------------------------------------------
(* The buttons of the authority.                                           *)

Buttons == {"complete-check", "reject-form", "make-decision", "archive-instance",
            "additional-demand", "depreciate-case"}

OfferedIn(t) ==
  CASE t \in {"complete-check", "reject-form"} -> {"subm"}
    [] t = "make-decision"     -> {"redac"}
    [] t = "archive-instance"  -> {"done", "rejected", "stopped"}
    [] t = "additional-demand" -> {"circ"}
    [] t = "depreciate-case"   -> {"comm", "circ", "redac", "nfd"}

NoReviews == [i \in 1..Len(inquiries) |-> {}]

(* A new "distribution" item starts the distribution; closing it from      *)
(* outside cancels the distribution with every inquiry.                    *)
DistributionFollows(its) ==
  CASE its["distribution"] > items["distribution"] ->
         StartDistribution(Municipality) /\ UNCHANGED review
    [] its["distribution"] < items["distribution"] ->
         CancelDistribution /\ review' = NoReviews
    [] OTHER -> UNCHANGED <<distVars, review>>

(* A change of the form presses the button of "reject-form" as well.       *)
Press(t) ==
  LET its == Completed(items, t)
  IN /\ state \in OfferedIn(t)
     /\ Ready(t)
     /\ GoTo(StateAfter(t))
     /\ items' = its
     /\ case' = CaseWith(its)
     /\ DistributionFollows(its)
     /\ UNCHANGED imported

(* The publication is closed in its own module, whatever the state.        *)
ClosePublication ==
  LET its == Completed(items, "publication")
  IN /\ Ready("publication")
     /\ items' = its
     /\ case' = CaseWith(its)
     /\ UNCHANGED <<state, prev, imported, review, distVars>>

(* Manual items are created while an item of the task is open, which no    *)
(* user completes.                                                         *)
CreateManual ==
  /\ Ready("create-manual-workitems")
  /\ items["create-manual-workitems"] < MaxManual
  /\ items' = Create(items, {"create-manual-workitems"})
  /\ UNCHANGED <<state, prev, case, imported, review, distVars>>

CompleteManual ==
  /\ Ready("create-manual-workitems")
  /\ items["create-manual-workitems"] > 1
  /\ items' = [items EXCEPT !["create-manual-workitems"] = @ - 1]
  /\ UNCHANGED <<state, prev, case, imported, review, distVars>>

-----------------------------------------------------------------------------
(* The distribution, which its own page offers in every state.             *)

StateAfterInit ==
  IF init = "ready" /\ init' = "completed" THEN GoTo(StateAfter("init-distribution"))
  ELSE UNCHANGED <<state, prev>>

Distribute ==
  /\ \/ \E s \in Services, targets \in TargetLists :
          /\ CreateInquiries(s, targets)
          /\ review' = review \o [k \in 1..Len(targets) |-> {}]
     \/ \E i \in 1..Len(inquiries) :
          \/ SendInquiry(i) /\ review' = [review EXCEPT ![i] = {"fill"}]
          \/ WithdrawInquiry(i) /\ review' = [review EXCEPT ![i] = {}]
          \/ CheckInquiry(i) /\ UNCHANGED review
     \/ CompleteInit /\ UNCHANGED review
  /\ StateAfterInit
  /\ UNCHANGED <<case, items, imported>>

(* The answer is written, then checked or sent back and altered: the child *)
(* case of an inquiry has these items.                                     *)
ReviewTasks == {"fill", "check", "revise", "alter"}

ReviewFlow(t) ==
  CASE t \in {"fill", "alter"} -> {"check", "revise"}
    [] t = "revise"            -> {"alter"}
    [] t = "check"             -> {}

ReviewClosesMutant(t) == IF t = "revise" THEN {"check"} ELSE {}
ReviewCloses(t) ==
  CASE t = "check"  -> {"revise"}
    [] t = "revise" -> {"check"}
    [] OTHER        -> {}

(* With the last open item the child case ends, and with it the inquiry:   *)
(* "answer" in the distribution stands for the child case here.            *)
ReviewStep(i, t) ==
  LET open == (review[i] \ ({t} \cup ReviewCloses(t))) \cup ReviewFlow(t)
  IN /\ dcase = "running"
     /\ t \in review[i]
     /\ review' = [review EXCEPT ![i] = open]
     /\ IF open = {} THEN AnswerInquiry(i) ELSE UNCHANGED distVars
     /\ UNCHANGED <<state, prev, case, items, imported>>

(* The end of the distribution completes the item "distribution".          *)
EndDistribution ==
  /\ Ready("distribution")
  /\ CompleteDistribution
  /\ GoTo(StateAfter("distribution"))
  /\ items' = Completed(items, "distribution")
  /\ review' = NoReviews
  /\ UNCHANGED <<case, imported>>

Next ==
  \/ Submit
  \/ \E t \in Buttons : Press(t)
  \/ ClosePublication
  \/ CreateManual
  \/ CompleteManual
  \/ Distribute
  \/ \E i \in 1..Len(inquiries), t \in ReviewTasks : ReviewStep(i, t)
  \/ EndDistribution

Spec == Init /\ [][Next]_vars

-----------------------------------------------------------------------------
(* Properties.                                                             *)

Open == {t \in Tasks : items[t] > 0}

(* The buttons of a state and the items of the workflow never part,        *)
(* whatever was rejected, added, demanded or cut short before: every       *)
(* button a state offers finds exactly one item to complete, and an        *)
(* applicant who may hand something in finds exactly one item for it.      *)
(* The rejection of an imported dossier is the exception: the import       *)
(* cancels "reject-form", and its button fails.                            *)
OfferedIsOpen ==
  /\ \A t \in Buttons :
       state \in OfferedIn(t) /\ ~(imported /\ t = "reject-form") => Ready(t) /\ items[t] = 1
  /\ state \in {"new", "nfd", "rejected"} =>
       case = "running" /\ Cardinality(OpenSubmits) = 1

(* What an archived dossier leaves behind.  The case ends only there, and  *)
(* it goes on as long as something is open: a publication, the addition to *)
(* a rejected dossier, or documents that were demanded but not handed in   *)
(* before the distribution ended, which nobody can complete any more.  A   *)
(* dossier that was written off leaves nothing.                            *)
LeftInArchive ==
  /\ case = "completed" <=> state = "arch" /\ Open = {}
  /\ state = "arch" =>
       /\ Open \subseteq {"publication", "submit-additional-demand", "formal-addition"}
       /\ items["formal-addition"] > 0 <=> prev = "rejected"
       /\ items["submit-additional-demand"] > 0 => prev = "done"
       /\ prev \in {"stopped", "arch"} => Open = {}
       /\ dcase \notin {"running", "suspended"}

(* The review of an answer and its inquiry agree, whoever closes either:   *)
(* while the inquiry waits, the answer is being written, or judged (to     *)
(* check or to send back, never only one of the two), or altered; after    *)
(* that nothing of the review is open.                                     *)
ReviewMatchesAnswer ==
  /\ Len(review) = Len(inquiries)
  /\ \A i \in 1..Len(inquiries) :
       review[i] \in IF inquiries[i].answer = "ready"
                     THEN {{"fill"}, {"check", "revise"}, {"alter"}}
                     ELSE {{}}

=============================================================================

------------------------- MODULE DossierStateProofs -------------------------
(***************************************************************************)
(* Proofs about the state of a dossier: that it agrees with the items that *)
(* are open, that closed states are closed for good, and that what has     *)
(* been reached is kept.  The last one is proved of FaultySpec, the others *)
(* need the handlers to be undisturbed and are proved of Spec.  All of it  *)
(* is then proved of imported dossiers.                                    *)
(***************************************************************************)
EXTENDS DossierProofs, ImportedDossier

-----------------------------------------------------------------------------
(* Where the steps of the procedure lead.                                  *)

LEMMA RequiredValues ==
  /\ RequiredItem("new") = "submit"
  /\ RequiredItem("subm") = "ebau-number"
  /\ RequiredItem("circulation_init") = "distribution"
  /\ RequiredItem("circulation") = "distribution"
  /\ RequiredItem("coordination") = "decision"
  /\ RequiredItem("in_progress_internal") = "decision"
  /\ RequiredItem("sb1") = "sb1"
  /\ RequiredItem("sb2") = "sb2"
  /\ RequiredItem("conclusion") = "complete"
  /\ \A s \in ClosedStates \cup {"rejected", "correction"} : RequiredItem(s) = "none"
BY DEF RequiredItem, ClosedStates

(* The task that a state requires is never a task that an internal dossier *)
(* does not count.                                                         *)
LEMMA RequiredKnown ==
  ASSUME NEW s \in States, RequiredItem(s) # "none"
  PROVE  RequiredItem(s) \in MainTasks
BY RequiredValues DEF States, ClosedStates, MainTasks

LEMMA ItemsNat ==
  ASSUME DossierInv
  PROVE  items \in Items /\ \A t \in Tasks : items[t] \in Nat
BY DEF DossierInv, DossierTypeOK, Items

(* The submission opens the item of the new state.                         *)
LEMMA SubmitLeads ==
  ASSUME DossierInv, Submit
  PROVE  /\ UNCHANGED <<kind, case, handler, seen>> /\ case = "running"
         /\ state' = SubmittedState /\ prev' = state /\ state = "new"
         /\ items'[RequiredItem(state')] > 0
         /\ state' = "circulation_init" => init' = "ready"
<1> DEFINE submitted == Process(items, {"submit"})
           its == IF kind = "extend-validity"
                  THEN Process(submitted, {"ebau-number"}) ELSE submitted
<1>1. /\ case = "running" /\ items["submit"] > 0 /\ SetItems(its) /\ StartIfCreated(its)
      /\ UNCHANGED <<kind, case, handler, seen>> /\ state = "new"
      /\ state' = SubmittedState /\ prev' = state
  BY DEF Submit, Ready, GoTo, Keep
<1>2. items["submit"] = 1 /\ \A t \in Tasks \ {"submit"} : items[t] = 0
  <2>1. "submit" \in Counted
    BY DEF Counted, MainTasks
  <2> QED
    BY <1>1, <2>1, OpenMain DEF DossierInv, SubmitFirst
<1>3. /\ its["ebau-number"] = IF kind = "extend-validity" THEN 0 ELSE 1
      /\ its["distribution"] = IF kind = "extend-validity" THEN 1 ELSE 0
      /\ its["decision"] = IF kind = "internal" THEN 1 ELSE 0
  BY <1>2, SubmittedValues
<1> HIDE DEF its, submitted
<1>4. items' = its
  BY <1>1 DEF SetItems
<1>5. items'[RequiredItem(state')] > 0
  BY <1>1, <1>3, <1>4, RequiredValues DEF SubmittedState
<1>6. state' = "circulation_init" => init' = "ready"
  <2> SUFFICES ASSUME state' = "circulation_init" PROVE init' = "ready"
    OBVIOUS
  <2>1. kind = "extend-validity"
    BY <1>1 DEF SubmittedState
  <2>2. items["distribution"] = 0
    BY <1>2 DEF Tasks, MunicipalTasks
  <2> QED
    BY <1>1, <1>3, <2>1, <2>2 DEF StartIfCreated, StartDistribution
<1> QED
  BY <1>1, <1>5, <1>6

(* The number opens the distribution, unless the dossier is internal.      *)
LEMMA NumberLeads ==
  ASSUME DossierInv, CompleteEbauNumber
  PROVE  /\ UNCHANGED <<kind, case, handler, seen>>
         /\ case = "running" /\ items["ebau-number"] > 0
         /\ IF state = "subm" THEN GoTo("circulation_init") ELSE KeepState
         /\ kind = "internal" => items'["decision"] = items["decision"]
         /\ kind # "internal" => items'["distribution"] > 0 /\ init' = "ready"
<1> DEFINE its == Process(items, {"ebau-number"})
<1>1. /\ case = "running" /\ items["ebau-number"] > 0 /\ SetItems(its) /\ StartIfCreated(its)
      /\ UNCHANGED <<kind, case, involved, handler, seen>>
      /\ IF state = "subm" THEN GoTo("circulation_init") ELSE KeepState
  BY DEF CompleteEbauNumber, Ready, Keep
<1>2. {"ebau-number"} \in SUBSET Tasks /\ {"decision", "distribution"} \subseteq Tasks
  BY DEF Tasks, MunicipalTasks
<1>3. \A x \in Tasks :
        its[x] = IF x \in Flow("ebau-number")
                 THEN (IF x = "ebau-number" THEN 0 ELSE items[x]) + 1
                 ELSE (IF x = "ebau-number" THEN 0 ELSE items[x])
  BY <1>1, <1>2, ItemsNat, ProcessValues
<1> HIDE DEF its
<1>4. /\ kind = "internal" => its["decision"] = items["decision"]
      /\ kind # "internal" => its["distribution"] = items["distribution"] + 1
  BY <1>2, <1>3, FlowValues
<1>5. items' = its
  BY <1>1 DEF SetItems
<1>6. ASSUME kind # "internal"
      PROVE  items'["distribution"] > 0 /\ init' = "ready"
  <2>1. items["distribution"] \in Nat
    BY <1>2, ItemsNat
  <2>2. its["distribution"] > items["distribution"] /\ its["distribution"] > 0
    BY <1>4, <1>6, <2>1
  <2> QED
    BY <1>1, <1>5, <2>2 DEF StartIfCreated, StartDistribution
<1> QED
  BY <1>1, <1>4, <1>5, <1>6

(* Side tasks and manual items leave the main items and the case alone.    *)
LEMMA SideLeads ==
  ASSUME DossierInv,
         \/ \E t \in SideTasks : CompleteSideTask(t)
         \/ CreateManual \/ CompleteManual
  PROVE  /\ UNCHANGED <<kind, case, state, prev, handler, seen>> /\ UNCHANGED distVars
         /\ \A t \in MainTasks : items'[t] = items[t]
<1>1. CASE CreateManual \/ CompleteManual
  <2>1. /\ UNCHANGED <<kind, case, state, prev, handler, seen>> /\ UNCHANGED distVars
        /\ \/ items' = Create(items, {"create-manual-workitems"})
           \/ items' = [items EXCEPT !["create-manual-workitems"] = @ - 1]
    BY <1>1 DEF CreateManual, CompleteManual, KeepState, Keep, SetItems
  <2>2. \A t \in MainTasks : t # "create-manual-workitems"
    BY DEF MainTasks
  <2>3. \A t \in Tasks : Create(items, {"create-manual-workitems"})[t] =
          IF t \in {"create-manual-workitems"} THEN items[t] + 1 ELSE items[t]
    BY ItemsNat, CreateValues
  <2>4. items \in Items
    BY ItemsNat
  <2> QED
    BY <2>1, <2>2, <2>3, <2>4, TasksKnown DEF Items
<1>2. ASSUME NEW t \in SideTasks, CompleteSideTask(t)
      PROVE  /\ UNCHANGED <<kind, case, state, prev, handler, seen>> /\ UNCHANGED distVars
             /\ \A x \in MainTasks : items'[x] = items[x]
  <2> DEFINE its == Process(items, {t})
  <2>1. /\ case = "running" /\ items' = its /\ case' = CaseWith(its)
        /\ UNCHANGED <<kind, state, prev, handler, seen>> /\ UNCHANGED distVars
    BY <1>2 DEF CompleteSideTask, Ready, KeepState, Keep, SetItems
  <2>2. \A x \in MainTasks : its[x] = items[x]
    BY ItemsNat, SideTaskValues
  <2> HIDE DEF its
  <2>3. PICK m \in Counted : items[m] = 1
    BY <2>1 DEF DossierInv, OneMain, OpenCase
  <2>4. m \in MainTasks /\ m \in Tasks /\ its[m] = 1
    BY <2>2, <2>3, TasksKnown
  <2>5. case' = case
    BY <2>1, <2>4 DEF CaseWith
  <2> QED
    BY <2>1, <2>2, <2>5
<1> QED
  BY <1>1, <1>2

(* The end of the distribution opens the decision.                         *)
LEMMA DistributionLeads ==
  ASSUME DossierInv, items["distribution"] > 0,
         SetItems(Process(items, {"distribution"}))
  PROVE  items'["decision"] > 0
<1>1. /\ {"distribution"} \in SUBSET Tasks /\ "decision" \in Tasks
  BY DEF Tasks, MunicipalTasks
<1>2. Process(items, {"distribution"})["decision"] = items["decision"] + 1
  BY <1>1, ItemsNat, ProcessValues, FlowValues
<1>3. items' = Process(items, {"distribution"}) /\ items["decision"] \in Nat
  BY <1>1, ItemsNat DEF SetItems
<1> QED
  BY <1>2, <1>3

(* The decision opens "sb1", or ends the case.                             *)
LEMMA DecisionLeads ==
  ASSUME DossierInv, NEW continue \in BOOLEAN, DecisionTaken(continue)
  PROVE  /\ case = "running" /\ items["decision"] > 0 /\ kind' = kind
         /\ state' = DecidedState(continue) /\ prev' = state
         /\ continue => MayContinue /\ case' = "running" /\ items'["sb1"] > 0
         /\ ~continue => case' = "completed"
<1> DEFINE its == Decided(items, continue)
           more == IF continue THEN 1 ELSE 0
<1>1. /\ case = "running" /\ items["decision"] > 0 /\ items' = its
      /\ case' = CaseWith(its) /\ kind' = kind
      /\ state' = DecidedState(continue) /\ prev' = state
      /\ continue => MayContinue
  BY DEF DecisionTaken, Ready, GoTo, SetItems
<1>2. /\ items \in Items /\ \A t \in Tasks : items[t] \in Nat
      /\ "decision" \in Counted /\ "decision" \in BeforeDecision
      /\ "submit" \in Counted /\ "distribution" \in Counted
      /\ kind # "internal" => "ebau-number" \in Counted
  BY ItemsNat DEF Counted, MainTasks, BeforeDecision
<1>3. \A t \in Counted \ {"decision"} : items[t] = 0
  BY <1>1, <1>2, OpenMain
<1>4. \A t \in ControlTasks \cup {"sb1", "sb2"} : items[t] = 0
  <2>1. items["decision"] # 0
    BY <1>1
  <2> QED
    BY <1>2, <2>1 DEF DossierInv, ControlAfterDecision
<1>5. /\ its["decision"] = 0 /\ its["sb1"] = more /\ its["ebau-number"] = 0
      /\ \A x \in {"submit", "distribution", "sb2"} \cup ControlTasks : its[x] = 0
      /\ \A x \in {"create-manual-workitems", "create-publication"} : its[x] = more
      /\ \A x \in {"audit", "publication", "fill-publication", "nfd", "awa",
                    "information-of-neighbors", "create-information-of-neighbors"} :
           its[x] = 0
  BY <1>2, <1>3, <1>4, DecidedValues
<1> HIDE DEF its
<1>6. CASE continue
  <2>1. its["sb1"] = 1 /\ "sb1" \in Tasks
    BY <1>5, <1>6 DEF Tasks
  <2> QED
    BY <1>1, <1>6, <2>1 DEF CaseWith
<1>7. CASE ~continue
  <2>1. \A t \in Tasks : its[t] = 0
    BY <1>5, <1>7 DEF Tasks, MunicipalTasks, ControlTasks
  <2> QED
    BY <1>1, <1>7, <2>1 DEF CaseWith
<1> QED
  BY <1>1, <1>6, <1>7

(* A report opens what comes after it.                                     *)
LEMMA ReportLeads ==
  ASSUME DossierInv, NEW task \in {"sb1", "sb2"}, items[task] > 0
  PROVE  /\ Process(items, {task}) \in Items
         /\ Process(items, {task})[IF task = "sb1" THEN "sb2" ELSE "complete"] > 0
<1> DEFINE main == IF task = "sb1" THEN "sb2" ELSE "complete"
<1>1. /\ {task} \in SUBSET Tasks /\ main \in Tasks /\ main # task /\ main \in Flow(task)
  BY FlowValues DEF Tasks, ControlTasks
<1> HIDE DEF main
<1>2. /\ Process(items, {task}) \in Items
      /\ Process(items, {task})[main] = items[main] + 1
  BY <1>1, ItemsNat, ProcessValues
<1>3. items[main] \in Nat
  BY <1>1, ItemsNat
<1> QED
  BY <1>2, <1>3 DEF main

(* "complete" ends the case.                                               *)
LEMMA CompletedLeads ==
  ASSUME DossierInv, Completed
  PROVE  /\ case = "running" /\ items["complete"] > 0 /\ kind' = kind
         /\ state' = "finished" /\ prev' = state /\ case' = "completed"
<1> DEFINE its == Cancel(PreComplete(items), {"complete"})
<1>1. /\ case = "running" /\ items["complete"] > 0
      /\ case' = CaseWith(its) /\ kind' = kind /\ state' = "finished" /\ prev' = state
  BY DEF Completed, Ready, GoTo
<1>2. /\ \A t \in Counted \ {"complete"} : items[t] = 0
      /\ \A t \in BeforeDecision : items[t] = 0
  BY <1>1, AfterDecision
<1>3. \A x \in Tasks :
        its[x] = IF x \in {"complete", "check-sb1", "check-sb2", "create-manual-workitems",
                           "awa", "create-publication", "fill-publication"}
                 THEN 0 ELSE items[x]
  <2>1. /\ PreComplete(items) \in Items
        /\ \A x \in Tasks : PreComplete(items)[x] =
             IF x \in {"check-sb1", "check-sb2", "create-manual-workitems", "awa",
                       "create-publication", "fill-publication"}
             THEN 0 ELSE items[x]
    BY ItemsNat, PreCompleteValues
  <2> QED
    BY <2>1, CancelValues
<1> HIDE DEF its
<1>4. \A t \in Tasks : its[t] = 0
  <2>1. \A t \in Tasks : \/ t \in {"complete", "check-sb1", "check-sb2",
                                 "create-manual-workitems", "awa",
                                 "create-publication", "fill-publication"}
                         \/ t \in BeforeDecision
                         \/ t \in Counted \ {"complete"}
    BY DEF Tasks, MunicipalTasks, ControlTasks, BeforeDecision, Counted, MainTasks
  <2> QED
    BY <1>2, <1>3, <2>1
<1> QED
  BY <1>1, <1>4 DEF CaseWith

-----------------------------------------------------------------------------
(* What a dossier has reached, in every interleaving with the handlers.    *)

Halted == {"rejected", "correction"}
Early == {"new", "subm", "in_progress_internal", "circulation_init", "circulation"}
Undecided == Early \cup {"coordination"}

(* Something is open that comes before the circulation has started.        *)
StillToStart ==
  \/ items["submit"] > 0
  \/ kind # "internal" /\ items["ebau-number"] > 0
  \/ dcase \in OpenCase /\ init # "completed"

StillToDecide == \E t \in {"submit", "distribution", "decision"} : items[t] > 0

(* The states that the open items allow a dossier to have reached.         *)
Behind ==
  {s \in States \ Halted :
     /\ s = "archived" => case \notin OpenCase
     /\ StillToDecide => s \in Undecided
     /\ StillToStart => s \in Early}

(* What a handler that is going to save the state has loaded.              *)
Loaded ==
  /\ handler \in {"declining", "rejecting", "saving rejected", "correcting",
                  "saving correction"} => state \notin Halted
  /\ handler \in {"reporting", "checking sb1", "saving sb2"} => seen = "sb1"
  /\ handler \in {"finalizing", "checking sb2", "saving conclusion"} => seen = "sb2"
  /\ handler \in {"ending sb1", "ending sb2", "ending conclusion", "saving finished"} =>
       seen \in {"sb1", "sb2"}

(* How far the state may be while something is open: a stale save of a     *)
(* handler, a submission of a rejected dossier or a failed handler put the *)
(* state back, but never ahead of the items.                               *)
NotAhead == {Reached, seen} \subseteq Behind /\ Loaded

(* A step does not reopen what comes before.                               *)
Progress ==
  /\ kind' = kind
  /\ case' \in OpenCase => case \in OpenCase
  /\ StillToStart' => StillToStart
  /\ StillToDecide' => StillToDecide \/ StillToStart

LEMMA NotAheadInit == DossierInit => NotAhead
BY DEF DossierInit, DistInit, NotAhead, Loaded, Reached, Behind, Halted, States, Early,
   Undecided, OpenCase

LEMMA ProgressKeeps ==
  ASSUME Progress
  PROVE  Behind \subseteq Behind'
BY DEF Progress, Behind, Early, Undecided

(* Which states are never ahead, and which are not once nothing of the     *)
(* time before the decision is open.                                       *)
LEMMA BehindStates ==
  /\ Early \subseteq Behind
  /\ ~StillToStart => "coordination" \in Behind
  /\ ~StillToStart /\ ~StillToDecide => States \ (Halted \cup {"archived"}) \subseteq Behind
  /\ ~StillToStart /\ ~StillToDecide /\ case \notin OpenCase => "archived" \in Behind
  /\ "sb1" \in Behind \/ "sb2" \in Behind =>
       {"sb1", "sb2", "conclusion", "finished"} \subseteq Behind
  /\ StillToStart => Behind \subseteq Early
  /\ StillToDecide => Behind \subseteq Undecided
  /\ case \in OpenCase => "archived" \notin Behind
BY DEF Behind, Early, Undecided, Halted, States

LEMMA RankValues ==
  /\ \A s \in States : Rank(s) >= Rank(s) /\ Rank("archived") >= Rank(s)
  /\ \A s \in States \ (Halted \cup {"archived"}) : Rank("finished") >= Rank(s)
  /\ \A s \in Undecided : Rank("coordination") >= Rank(s)
  /\ \A s \in Undecided,
        t \in {"sb1", "evaluated", "finished", "finished_internal"} : Rank(t) >= Rank(s)
  /\ \A s \in Early : Rank("circulation") >= Rank(s)
  /\ \A t \in {"subm", "in_progress_internal", "circulation_init"} : Rank(t) >= Rank("new")
  /\ Rank("circulation_init") >= Rank("subm")
  /\ Rank("sb2") >= Rank("sb1")
  /\ Rank("conclusion") >= Rank("sb2")
<1>1. /\ Rank("new") = 0 /\ Rank("subm") = 1 /\ Rank("in_progress_internal") = 1
      /\ Rank("circulation_init") = 2 /\ Rank("circulation") = 3
      /\ Rank("coordination") = 4 /\ Rank("sb1") = 5 /\ Rank("sb2") = 6
      /\ Rank("conclusion") = 7
      /\ \A s \in {"evaluated", "finished", "finished_internal"} : Rank(s) = 8
      /\ \A s \in {"archived", "rejected", "correction"} : Rank(s) = 9
  BY DEF Rank
<1> QED
  BY <1>1 DEF States, Halted, Undecided, Early

(* What belongs before the decision is closed with it.                     *)
LEMMA BeforeIsOver ==
  DossierInv /\ ( \/ case \notin OpenCase
                  \/ \E t \in {"sb1", "sb2", "complete"} : items[t] > 0 )
    => ~StillToStart /\ ~StillToDecide
<1> SUFFICES ASSUME DossierInv,
                    \/ case \notin OpenCase
                    \/ \E t \in {"sb1", "sb2", "complete"} : items[t] > 0
             PROVE  ~StillToStart /\ ~StillToDecide
  OBVIOUS
<1>1. /\ {"submit", "distribution", "decision", "ebau-number"} \subseteq BeforeDecision
      /\ {"submit", "distribution", "decision", "ebau-number"} \subseteq Tasks
      /\ {"sb1", "sb2", "complete"} \subseteq ControlTasks \cup {"sb1", "sb2"}
  BY DEF BeforeDecision, ControlTasks, Tasks, MunicipalTasks
<1>2. \A t \in {"submit", "distribution", "decision", "ebau-number"} : items[t] = 0
  <2>1. CASE case \notin OpenCase
    BY <1>1, <2>1 DEF DossierInv, ClosedCaseIsClean
  <2>2. ASSUME NEW t \in {"sb1", "sb2", "complete"}, items[t] > 0
        PROVE  \A x \in BeforeDecision : items[x] = 0
    <3>1. items[t] # 0
      BY <2>2
    <3> QED
      BY <1>1, <2>2, <3>1 DEF DossierInv, ControlAfterDecision
  <2> QED
    BY <1>1, <2>1, <2>2
<1>3. dcase \notin OpenCase
  BY <1>2 DEF DossierInv, DistributionFollowsItem
<1> QED
  BY <1>2, <1>3 DEF StillToStart, StillToDecide

(* The same of the state after a step.                                     *)
LEMMA BeforeIsOverNext ==
  ASSUME DossierInv', \/ case' \notin OpenCase
                      \/ \E t \in {"sb1", "sb2", "complete"} : items'[t] > 0
  PROVE  ~StillToStart' /\ ~StillToDecide'
<1>1. /\ {"submit", "distribution", "decision", "ebau-number"} \subseteq BeforeDecision
      /\ {"submit", "distribution", "decision", "ebau-number"} \subseteq Tasks
      /\ {"sb1", "sb2", "complete"} \subseteq ControlTasks \cup {"sb1", "sb2"}
  BY DEF BeforeDecision, ControlTasks, Tasks, MunicipalTasks
<1>2. \A t \in {"submit", "distribution", "decision", "ebau-number"} : items'[t] = 0
  <2>1. CASE case' \notin OpenCase
    BY <1>1, <2>1 DEF DossierInv, ClosedCaseIsClean
  <2>2. ASSUME NEW t \in {"sb1", "sb2", "complete"}, items'[t] > 0
        PROVE  \A x \in BeforeDecision : items'[x] = 0
    <3>1. items'[t] # 0
      BY <2>2
    <3> QED
      BY <1>1, <2>2, <3>1 DEF DossierInv, ControlAfterDecision
  <2> QED
    BY <1>1, <2>1, <2>2
<1>3. dcase' \notin OpenCase
  BY <1>2 DEF DossierInv, DistributionFollowsItem
<1> QED
  BY <1>2, <1>3 DEF StillToStart, StillToDecide

(* Steps that leave the items before the decision alone.                   *)
LEMMA StillProgress ==
  ASSUME kind' = kind, case' \in OpenCase => case \in OpenCase,
         \A t \in {"submit", "distribution", "decision", "ebau-number"} : items'[t] = items[t],
         dcase' \in OpenCase /\ init' # "completed" => dcase \in OpenCase /\ init # "completed"
  PROVE  Progress
BY DEF Progress, StillToStart, StillToDecide

LEMMA NumberProgress ==
  ASSUME DossierInv, CompleteEbauNumber
  PROVE  Progress
<1>1. /\ UNCHANGED <<kind, case>> /\ items["ebau-number"] > 0
  BY NumberLeads
<1>2. CASE kind # "internal"
  BY <1>1, <1>2 DEF Progress, StillToStart
<1>3. CASE kind = "internal"
  <2> DEFINE its == Process(items, {"ebau-number"})
  <2>1. {"ebau-number"} \in SUBSET Tasks
        /\ {"submit", "distribution", "decision", "ebau-number"} \subseteq Tasks
    BY DEF Tasks, MunicipalTasks
  <2>2. items' = its /\ StartIfCreated(its)
    BY DEF CompleteEbauNumber, SetItems
  <2>3. \A t \in {"submit", "distribution", "decision"} : its[t] = items[t]
    BY <1>3, <2>1, ItemsNat, ProcessValues, FlowValues
  <2> HIDE DEF its
  <2>4. items["distribution"] \in Nat
    BY <2>1, ItemsNat
  <2>5. UNCHANGED distVars
    BY <2>2, <2>3, <2>4 DEF StartIfCreated
  <2> QED
    BY <1>1, <1>3, <2>2, <2>3, <2>5 DEF Progress, StillToStart, StillToDecide, distVars
<1> QED
  BY <1>2, <1>3

(* The end of the distribution, by the lead or by a ruling.                *)
LEMMA DistributionEnds ==
  ASSUME DossierInv, items["distribution"] > 0, UNCHANGED <<kind, case>>,
         SetItems(Process(items, {"distribution"})), dcase' \notin OpenCase
  PROVE  Progress /\ (case \in OpenCase => ~StillToStart')
<1>1. /\ {"distribution"} \in SUBSET Tasks
      /\ {"submit", "distribution", "ebau-number"} \subseteq Tasks
  BY DEF Tasks, MunicipalTasks
<1>2. /\ items'["submit"] = items["submit"] /\ items'["ebau-number"] = items["ebau-number"]
  BY <1>1, ItemsNat, ProcessValues, FlowValues DEF SetItems
<1>3. Progress
  BY <1>2 DEF Progress, StillToStart, StillToDecide
<1>4. ASSUME case \in OpenCase PROVE ~StillToStart'
  <2>1. /\ "distribution" \in Counted /\ "submit" \in Counted
        /\ kind # "internal" => "ebau-number" \in Counted
    BY DEF Counted, MainTasks
  <2>2. PICK m \in Counted : \A t \in Counted \ {m} : items[t] = 0
    BY <1>4 DEF DossierInv, OneMain
  <2>3. m = "distribution"
    BY <2>1, <2>2
  <2> QED
    BY <1>2, <2>1, <2>2, <2>3 DEF StillToStart
<1> QED
  BY <1>3, <1>4

(* Closing a report or its check leaves the time before the decision alone.*)
LEMMA ReportProgress ==
  ASSUME DossierInv, UNCHANGED <<kind, case>>, UNCHANGED distVars,
         NEW task \in {"sb1", "sb2", "check-sb1", "check-sb2"},
         NEW more \in SUBSET {"awa"},
         \/ items' = items
         \/ items' = Process(items, {task})
         \/ items' = Create(Process(items, {task}), more)
  PROVE  Progress
<1> DEFINE its == Process(items, {task})
<1>1. /\ {task} \in SUBSET Tasks
      /\ {"submit", "distribution", "decision", "ebau-number"} \subseteq Tasks
      /\ Flow(task) \subseteq {"sb2", "check-sb1", "complete", "check-sb2"}
  BY FlowValues DEF Tasks, MunicipalTasks, ControlTasks
<1>2. its \in Items /\ \A t \in {"submit", "distribution", "decision", "ebau-number"} :
        its[t] = items[t]
  BY <1>1, ItemsNat, ProcessValues
<1> HIDE DEF its
<1>3. \A t \in {"submit", "distribution", "decision", "ebau-number"} :
        Create(its, more)[t] = its[t]
  BY <1>1, <1>2, CreateValues
<1>4. \A t \in {"submit", "distribution", "decision", "ebau-number"} : items'[t] = items[t]
  BY <1>2, <1>3 DEF its
<1> QED
  BY <1>4, StillProgress DEF distVars

LEMMA CaseTurnProgress ==
  ASSUME UNCHANGED <<kind, items>>, (case = "running" /\ CaseSuspended) \/ CaseResumed
  PROVE  Progress
<1>1. case \in OpenCase
  BY DEF CaseResumed, OpenCase
<1>2. dcase' \in OpenCase /\ init' # "completed" => dcase \in OpenCase /\ init # "completed"
  BY DEF CaseSuspended, CaseResumed, SuspendDistribution, ResumeDistribution, Suspended,
     Resumed, InitAfterResume, InitAfterSend, distVars, OpenCase
<1> QED
  BY <1>1, <1>2, StillProgress

(* After a decision and after the end, nothing that comes before is open.  *)
LEMMA OverProgress ==
  ASSUME DossierInv', kind' = kind, case \in OpenCase \/ case' \notin OpenCase,
         \/ case' \notin OpenCase
         \/ \E t \in {"sb1", "sb2", "complete"} : items'[t] > 0
  PROVE  Progress /\ ~StillToStart' /\ ~StillToDecide'
BY BeforeIsOverNext DEF Progress

(* The steps that go on to another state, or keep the one that they find.  *)
Kept ==
  \/ Rank(Reached') >= Rank(Reached)
  \/ state = "rejected" /\ state' \in {"subm", "in_progress_internal"}

ReachStep == {Reached', seen'} \subseteq Behind' /\ Kept

LEMMA QuietReach ==
  ASSUME DossierInv, NotAhead, Progress, UNCHANGED <<state, prev>>, seen' \in {seen, Reached}
  PROVE  ReachStep
<1>1. Reached' = Reached /\ Behind \subseteq Behind'
  BY ProgressKeeps DEF Reached
<1>2. Reached \in States
  BY DEF NotAhead, Behind
<1> QED
  BY <1>1, <1>2, RankValues DEF NotAhead, ReachStep, Kept

LEMMA GoReach ==
  ASSUME NotAhead, Progress, seen' = seen, state' \in Behind',
         \/ Rank(state') >= Rank(Reached)
         \/ state = "rejected" /\ state' \in {"subm", "in_progress_internal"}
  PROVE  ReachStep
<1>1. state' \notin Halted
  BY DEF Behind
<1>2. Reached' = state' /\ Behind \subseteq Behind'
  BY <1>1, ProgressKeeps DEF Reached, Halted
<1> QED
  BY <1>2 DEF NotAhead, ReachStep, Kept

LEMMA SubmitReach ==
  ASSUME DossierInv, NotAhead, Submit \/ SubmitRejected \/ CompleteEbauNumber
  PROVE  ReachStep
<1>1. Progress
  <2>1. CASE Submit
    BY <2>1 DEF Submit, Ready, Progress, StillToStart
  <2>2. CASE SubmitRejected
    BY <2>2, StillProgress DEF SubmitRejected, distVars
  <2> QED
    BY <2>1, <2>2, NumberProgress
<1>2. Early \subseteq Behind'
  BY BehindStates DEF Behind, Early, Undecided, Halted, States
<1>3. CASE Submit \/ SubmitRejected
  <2>1. /\ state' = SubmittedState /\ state \in {"new", "rejected"} /\ seen' = seen
        /\ state = "rejected" => kind # "extend-validity"
    BY <1>3 DEF Submit, SubmitRejected, GoTo, Keep
  <2>2. /\ state' \in {"subm", "in_progress_internal", "circulation_init"}
        /\ state = "rejected" => state' \in {"subm", "in_progress_internal"}
    BY <2>1 DEF SubmittedState
  <2>3. state = "new" => Reached = "new"
    BY DEF Reached
  <2> QED
    BY <1>1, <1>2, <2>1, <2>2, <2>3, GoReach, RankValues DEF Early
<1>4. CASE CompleteEbauNumber
  <2>1. seen' = seen /\ IF state = "subm" THEN GoTo("circulation_init") ELSE KeepState
    BY <1>4, NumberLeads
  <2>2. CASE state = "subm"
    <3>1. Reached = "subm" /\ state' = "circulation_init"
      BY <2>1, <2>2 DEF Reached, GoTo
    <3> QED
      BY <1>1, <1>2, <2>1, <3>1, GoReach, RankValues DEF Early
  <2>3. CASE state # "subm"
    BY <1>1, <2>1, <2>3, QuietReach DEF KeepState
  <2> QED
    BY <2>2, <2>3
<1> QED
  BY <1>3, <1>4

(* Where completing "init-distribution" leads.                             *)
LEMMA InitReach ==
  ASSUME DossierInv, NotAhead, Progress, StateAfterInit, seen' = seen, dcase \in OpenCase
  PROVE  ReachStep
<1>1. CASE init # "completed" /\ init' = "completed"
  <2>1. state' = "circulation" /\ "circulation" \in Behind'
    BY <1>1, BehindStates, ProgressKeeps DEF StateAfterInit, GoTo, Early
  <2>2. Reached \in Early
    BY <1>1, BehindStates DEF NotAhead, StillToStart
  <2> QED
    BY <2>1, <2>2, GoReach, RankValues
<1>2. CASE ~(init # "completed" /\ init' = "completed")
  BY <1>2, QuietReach DEF StateAfterInit, KeepState
<1> QED
  BY <1>1, <1>2

LEMMA DistributionReach ==
  ASSUME DossierInv, NotAhead, Distribute \/ EndDistribution \/ EchSkipDistribution
  PROVE  ReachStep
<1>1. CASE Distribute
  <2>1. /\ dcase = "running" /\ dcase' = dcase /\ init' \in {init, "completed"}
        /\ UNCHANGED <<kind, case, items, seen>> /\ StateAfterInit
    BY <1>1 DEF Distribute, CreateInquiries, SendInquiry, InitAfterSend, AnswerInquiry,
       WithdrawInquiry, CheckInquiry, CompleteInit, Keep
  <2>2. Progress
    BY <2>1, StillProgress
  <2> QED
    BY <2>1, <2>2, InitReach DEF OpenCase
<1>2. CASE EndDistribution
  <2>1. /\ items["distribution"] > 0 /\ SetItems(Process(items, {"distribution"}))
        /\ state' = "coordination" /\ UNCHANGED <<kind, case, seen>> /\ case = "running"
        /\ dcase' \notin OpenCase
    BY <1>2 DEF EndDistribution, Ready, GoTo, CompleteDistribution, Keep, OpenCase
  <2>2. Progress /\ ~StillToStart'
    BY <2>1, DistributionEnds DEF OpenCase
  <2>3. "coordination" \in Behind'
    BY <2>2 DEF Behind, Undecided, Halted, States
  <2>4. Reached \in Undecided
    BY <2>1, BehindStates DEF NotAhead, StillToDecide
  <2> QED
    BY <2>1, <2>2, <2>3, <2>4, GoReach, RankValues
<1>3. CASE EchSkipDistribution
  <2>1. UNCHANGED <<state, prev, kind, case, seen>>
    BY <1>3 DEF EchSkipDistribution, KeepState
  <2>2. CASE Ready("distribution")
    <3>1. /\ items["distribution"] > 0 /\ SetItems(Process(items, {"distribution"}))
          /\ dcase' \notin OpenCase
      BY <1>3, <2>2 DEF EchSkipDistribution, Ready, CancelDistribution, OpenCase
    <3> QED
      BY <2>1, <3>1, DistributionEnds, QuietReach
  <2>3. CASE ~Ready("distribution")
    BY <1>3, <2>1, <2>3, StillProgress, QuietReach DEF EchSkipDistribution, distVars
  <2> QED
    BY <2>2, <2>3
<1> QED
  BY <1>1, <1>2, <1>3

(* The decision, the reports and the end of the procedure.                 *)
LEMMA DecidedReach ==
  ASSUME DossierInv, NotAhead, DossierInv', seen' = seen,
         \/ \E continue \in BOOLEAN : DecisionTaken(continue)
         \/ Completed \/ Archive \/ ResubmitCopy
  PROVE  ReachStep
<1>0. Reached \in States \ Halted /\ case \in CaseStatus \ {"none"}
  BY DEF NotAhead, Behind, DossierInv, DossierTypeOK
<1>1. ASSUME Progress, ~StillToStart', ~StillToDecide', state' \in States \ Halted,
             state' = "archived" => case' \notin OpenCase
      PROVE  state' \in Behind'
  BY <1>1 DEF Behind
<1>2. ASSUME NEW continue \in BOOLEAN, DecisionTaken(continue)
      PROVE  ReachStep
  <2>1. /\ items["decision"] > 0 /\ state' = DecidedState(continue) /\ kind' = kind
        /\ case = "running"
        /\ continue => items'["sb1"] > 0
        /\ ~continue => case' = "completed"
    BY <1>2, DecisionLeads
  <2>2. state' \in {"sb1", "evaluated", "finished", "finished_internal"}
    BY <2>1 DEF DecidedState
  <2>3. Progress /\ ~StillToStart' /\ ~StillToDecide'
    BY <2>1, OverProgress DEF OpenCase
  <2>4. Reached \in Undecided
    BY <2>1, BehindStates DEF NotAhead, StillToDecide
  <2>5. state' \in Behind'
    BY <1>1, <2>2, <2>3 DEF States, Halted
  <2> QED
    BY <2>2, <2>3, <2>4, <2>5, GoReach, RankValues
<1>3. CASE Completed \/ ResubmitCopy
  <2>1. case \in OpenCase /\ case' \notin OpenCase /\ state' = "finished" /\ kind' = kind
    BY <1>3, CompletedLeads DEF ResubmitCopy, GoTo, CaseCancelled, OpenCase
  <2>2. Progress /\ ~StillToStart' /\ ~StillToDecide'
    BY <2>1, OverProgress
  <2>3. Reached # "archived"
    BY <2>1, BehindStates DEF NotAhead
  <2>4. state' \in Behind' /\ Rank(state') >= Rank(Reached)
    BY <1>0, <1>1, <2>1, <2>2, <2>3, RankValues DEF States, Halted
  <2> QED
    BY <2>2, <2>4, GoReach
<1>4. CASE Archive
  <2>1. case' \notin OpenCase /\ state' = "archived" /\ kind' = kind
    BY <1>0, <1>4 DEF Archive, GoTo, CaseArchived, CaseCancelled, ArchiveCancels, OpenCase,
       CaseStatus
  <2>2. Progress /\ ~StillToStart' /\ ~StillToDecide'
    BY <2>1, OverProgress
  <2>3. state' \in Behind' /\ Rank(state') >= Rank(Reached)
    BY <1>0, <1>1, <2>1, <2>2, RankValues DEF States, Halted
  <2> QED
    BY <2>2, <2>3, GoReach
<1> QED
  BY <1>2, <1>3, <1>4

LEMMA ReportReach ==
  ASSUME DossierInv, NotAhead, Report \/ \E stored \in BOOLEAN : Finalize(stored)
  PROVE  ReachStep
<1>1. CASE Report
  <2>1. /\ state = "sb1" /\ state' = "sb2" /\ UNCHANGED <<kind, case, seen>>
        /\ UNCHANGED distVars /\ items' \in {items, Process(items, {"sb1"})}
    BY <1>1 DEF Report, GoTo, SetItems, Keep, ReportedItems
  <2>2. Progress
    BY <2>1, ReportProgress
  <2>3. Reached = "sb1"
    BY <2>1 DEF Reached
  <2>4. "sb2" \in Behind'
    BY <2>2, <2>3, BehindStates, ProgressKeeps DEF NotAhead
  <2> QED
    BY <2>1, <2>2, <2>3, <2>4, GoReach, RankValues
<1>2. ASSUME NEW stored \in BOOLEAN, Finalize(stored) PROVE ReachStep
  <2>1. /\ state = "sb2" /\ state' = "conclusion" /\ UNCHANGED <<kind, case, seen>>
        /\ UNCHANGED distVars
        /\ \/ items' = items
           \/ items' = Process(items, {"sb2"})
           \/ items' = Create(Process(items, {"sb2"}), {"awa"})
    BY <1>2 DEF Finalize, GoTo, SetItems, Keep
  <2>2. Progress
    BY <2>1, ReportProgress
  <2>3. Reached = "sb2"
    BY <2>1 DEF Reached
  <2>4. "conclusion" \in Behind'
    BY <2>2, <2>3, BehindStates, ProgressKeeps DEF NotAhead
  <2> QED
    BY <2>1, <2>2, <2>3, <2>4, GoReach, RankValues
<1> QED
  BY <1>1, <1>2

LEMMA RequestReach ==
  ASSUME DossierInv, NotAhead, DossierInv', Request
  PROVE  ReachStep
<1>1. CASE \/ \E t \in SideTasks : CompleteSideTask(t)
           \/ CreateManual \/ CompleteManual
  <2>1. /\ UNCHANGED <<kind, case, state, prev, seen>> /\ UNCHANGED distVars
        /\ \A t \in MainTasks : items'[t] = items[t]
    BY <1>1, SideLeads
  <2> QED
    BY <2>1, StillProgress, QuietReach DEF MainTasks, distVars
<1>2. CASE \/ \E a \in Authorities : ChangeResponsible(Authorities, a)
           \/ \E c \in Controls : ChangeResponsible(Controls, c)
  <2>1. /\ UNCHANGED <<kind, case, items, state, prev, seen>> /\ dcase' = dcase /\ init' = init
    BY <1>2 DEF ChangeResponsible, ReassignDistribution, KeepState, Keep, distVars
  <2> QED
    BY <2>1, StillProgress, QuietReach
<1>3. CASE \/ \E continue \in BOOLEAN : Decide(continue)
           \/ Complete \/ Archive \/ ResubmitCopy
  BY <1>3, DecidedReach DEF Decide, Complete, Archive, ResubmitCopy, Keep
<1> QED
  BY <1>1, <1>2, <1>3, SubmitReach, DistributionReach, ReportReach DEF Request

(* A handler that takes a step keeps what it has loaded at the latest.     *)
Stale == handler # handler' /\ seen # Reached

LEMMA SavingReach ==
  ASSUME DossierInv, NotAhead,
         \/ EchReject
         \/ ButtonSaves("saving rejected", "rejected")
         \/ ButtonSaves("saving correction", "correction")
         \/ ButtonSaves("saving sb2", "sb2")
         \/ ButtonSaves("saving conclusion", "conclusion")
         \/ ButtonSaves("saving finished", "finished")
         \/ ButtonReturns("undoing rejection", "rejected")
         \/ ButtonReturns("undoing correction", "correction")
  PROVE  {Reached', seen'} \subseteq Behind' /\ (Kept \/ Stale)
<1>1. /\ UNCHANGED <<kind, case, items, seen>> /\ UNCHANGED distVars /\ handler # handler'
  BY DEF EchReject, ButtonSaves, ButtonReturns
<1>2. Progress
  BY <1>1, StillProgress DEF distVars
<1>3. Behind \subseteq Behind' /\ {Reached, seen} \subseteq Behind
  BY <1>2, ProgressKeeps DEF NotAhead
<1>4. ASSUME Reached' \in {Reached, seen}
      PROVE  {Reached', seen'} \subseteq Behind' /\ (Kept \/ Stale)
  <2>1. {Reached', seen'} \subseteq Behind' /\ Reached \in States
    BY <1>1, <1>3, <1>4 DEF Behind
  <2>2. ASSUME Reached' = Reached PROVE Kept
    <3>1. Rank(Reached) >= Rank(Reached)
      BY <2>1, RankValues, Zenon
    <3> QED
      BY <2>2, <3>1, Zenon DEF Kept
  <2>3. ASSUME Reached' = seen, seen # Reached PROVE Stale
    BY <1>1, <2>3 DEF Stale
  <2> QED
    BY <1>4, <2>1, <2>2, <2>3
<1>5. CASE \/ EchReject
           \/ ButtonSaves("saving rejected", "rejected")
           \/ ButtonSaves("saving correction", "correction")
  <2>1. state \notin Halted
    BY <1>5 DEF NotAhead, Loaded, EchReject, ButtonSaves
  <2>2. state' \in Halted /\ prev' \in {seen, state}
    BY <1>5 DEF EchReject, ButtonSaves, Halted
  <2> QED
    BY <1>4, <2>1, <2>2 DEF Reached, Halted
<1>6. CASE \/ ButtonReturns("undoing rejection", "rejected")
           \/ ButtonReturns("undoing correction", "correction")
  <2>1. state' = seen \/ UNCHANGED <<state, prev>>
    BY <1>6 DEF ButtonReturns, KeepState
  <2>2. seen \notin Halted
    BY <1>3 DEF Behind
  <2> QED
    BY <1>4, <2>1, <2>2 DEF Reached, Halted
<1>7. CASE \/ ButtonSaves("saving sb2", "sb2")
           \/ ButtonSaves("saving conclusion", "conclusion")
           \/ ButtonSaves("saving finished", "finished")
  <2>1. /\ seen \in {"sb1", "sb2"} /\ state' \in {"sb2", "conclusion", "finished"}
        /\ state' = "sb2" => seen = "sb1"
        /\ state' = "conclusion" => seen = "sb2"
    BY <1>7 DEF NotAhead, Loaded, ButtonSaves
  <2>2. Reached' = state'
    BY <2>1 DEF Reached
  <2>3. Reached' \in Behind'
    BY <1>3, <2>1, <2>2, BehindStates
  <2>4. Rank(state') >= Rank(seen)
    <3>1. {"sb1", "sb2"} \subseteq States \ (Halted \cup {"archived"})
          /\ {"sb1", "sb2", "conclusion"} \subseteq States
      BY DEF States, Halted
    <3> QED
      BY <2>1, <3>1, RankValues
  <2> QED
    BY <1>1, <1>3, <2>2, <2>3, <2>4 DEF Kept, Stale
<1> QED
  BY <1>5, <1>6, <1>7

LEMMA HandlerReach ==
  ASSUME DossierInv, NotAhead, DossierInv',
         EchReceive \/ EchStep \/ PressButton \/ ButtonStep \/ HandlerFails \/ UNCHANGED vars
  PROVE  {Reached', seen'} \subseteq Behind' /\ (Kept \/ Stale)
<1>1. CASE EchReceive \/ PressButton \/ EchNoDecision \/ HandlerFails \/ UNCHANGED vars
  <2>1. /\ UNCHANGED <<kind, case, items, state, prev>> /\ UNCHANGED distVars
        /\ seen' \in {seen, Reached}
    BY <1>1 DEF EchReceive, PressButton, EchNoDecision, HandlerFails, vars, dossierVars,
       ownVars, Reached
  <2> QED
    BY <2>1, StillProgress, QuietReach DEF distVars, ReachStep
<1>2. CASE \/ EchSuspend
           \/ ButtonSuspends("rejecting", "saving rejected")
           \/ ButtonSuspends("correcting", "saving correction")
  <2>1. UNCHANGED <<kind, items, seen, state, prev>>
    BY <1>2 DEF EchSuspend, ButtonSuspends, KeepState
  <2>2. \/ case = "running" /\ CaseSuspended
        \/ UNCHANGED case /\ UNCHANGED distVars
    BY <1>2 DEF EchSuspend, ButtonSuspends
  <2>3. Progress
    BY <2>1, <2>2, CaseTurnProgress, StillProgress DEF distVars
  <2> QED
    BY <2>1, <2>3, QuietReach DEF ReachStep
<1>3. CASE \/ ButtonResumes("cancelling rejection", "undoing rejection")
           \/ ButtonResumes("ending correction", "undoing correction")
  <2>1. UNCHANGED <<kind, items, seen>> /\ CaseResumed /\ StateAfterInit
    BY <1>3 DEF ButtonResumes
  <2>2. Progress
    BY <2>1, CaseTurnProgress
  <2>3. CASE dcase \in OpenCase
    BY <2>1, <2>2, <2>3, InitReach DEF ReachStep
  <2>4. CASE dcase \notin OpenCase
    <3>1. init' = init
      BY <2>1, <2>4 DEF CaseResumed, OpenCase, distVars
    <3> QED
      BY <2>1, <2>2, <3>1, QuietReach DEF StateAfterInit, KeepState, ReachStep
  <2> QED
    BY <2>3, <2>4
<1>4. CASE EchSkipDistribution
  BY <1>4, DistributionReach DEF ReachStep
<1>5. CASE \/ \E continue \in BOOLEAN : EchDecide(continue)
           \/ EchComplete \/ ButtonCompletes
  <2>1. seen' = seen
    BY <1>5 DEF EchDecide, EchComplete, ButtonCompletes
  <2>2. CASE \/ \E continue \in BOOLEAN : DecisionTaken(continue)
             \/ Completed
    BY <2>1, <2>2, DecidedReach DEF ReachStep
  <2>3. CASE UNCHANGED ownVars /\ UNCHANGED distVars
    BY <2>1, <2>3, StillProgress, QuietReach DEF ownVars, distVars, ReachStep
  <2> QED
    BY <1>5, <2>2, <2>3 DEF EchDecide, EchComplete, ButtonCompletes
<1>6. ASSUME NEW task \in {"sb1", "sb2", "check-sb1", "check-sb2"}, NEW step, NEW next,
             HandlerSkips(task, step, next)
      PROVE  ReachStep
  <2>1. /\ UNCHANGED <<kind, case, state, prev, seen>> /\ UNCHANGED distVars
        /\ items' \in {items, Process(items, {task})}
    BY <1>6 DEF HandlerSkips, KeepState, SetItems
  <2> QED
    BY <2>1, ReportProgress, QuietReach
<1>7. CASE \/ HandlerSkips("sb1", "closing sb1", "closing sb2")
           \/ HandlerSkips("sb2", "closing sb2", "completing")
           \/ ButtonCloses("sb1", "reporting", "checking sb1")
           \/ HandlerSkips("check-sb1", "checking sb1", "saving sb2")
           \/ ButtonCloses("sb2", "finalizing", "checking sb2")
           \/ HandlerSkips("check-sb2", "checking sb2", "saving conclusion")
           \/ HandlerSkips("sb1", "ending sb1", "ending sb2")
           \/ ButtonCloses("sb2", "ending sb2", "ending conclusion")
  BY <1>6, <1>7 DEF ButtonCloses, ReachStep
<1> QED
  BY <1>1, <1>2, <1>3, <1>4, <1>5, <1>7, SavingReach DEF EchStep, ButtonStep

(* What is loaded stays loaded.                                            *)
LEMMA LoadedStep ==
  ASSUME DossierInv, NotAhead, [FaultyNext]_vars
  PROVE  Loaded'
<1>1. ASSUME handler' = handler, seen' = seen, state' = state \/ state' \notin Halted
      PROVE  Loaded'
  BY <1>1 DEF NotAhead, Loaded
<1>2. CASE Request \/ UNCHANGED vars
  <2>1. CASE UNCHANGED vars
    BY <1>1, <2>1 DEF vars, dossierVars
  <2>2. CASE Submit \/ SubmitRejected
    BY <1>1, <2>2 DEF Submit, SubmitRejected, GoTo, Keep, SubmittedState, Halted
  <2>3. CASE \/ CompleteEbauNumber \/ \E t \in SideTasks : CompleteSideTask(t)
             \/ CreateManual \/ CompleteManual \/ Distribute \/ EndDistribution
    BY <1>1, <2>3 DEF CompleteEbauNumber, CompleteSideTask, CreateManual, CompleteManual,
       Distribute, EndDistribution, StateAfterInit, GoTo, KeepState, Keep, Halted
  <2>4. CASE \/ \E continue \in BOOLEAN : Decide(continue)
             \/ Report \/ \E stored \in BOOLEAN : Finalize(stored)
             \/ Complete \/ Archive \/ ResubmitCopy
    BY <1>1, <2>4 DEF Decide, DecisionTaken, DecidedState, Report, Finalize, Complete,
       Completed, Archive, ResubmitCopy, GoTo, Keep, Halted
  <2>5. CASE \/ \E a \in Authorities : ChangeResponsible(Authorities, a)
             \/ \E c \in Controls : ChangeResponsible(Controls, c)
    BY <1>1, <2>5 DEF ChangeResponsible, KeepState, Keep
  <2> QED
    BY <1>2, <2>1, <2>2, <2>3, <2>4, <2>5 DEF Request
<1>3. CASE EchReceive \/ EchStep \/ HandlerFails
  BY <1>3 DEF EchReceive, EchStep, EchReject, EchSuspend, EchSkipDistribution, EchDecide,
     EchNoDecision, HandlerSkips, EchComplete, HandlerFails, Loaded, ownVars, Halted
<1>4. CASE PressButton
  BY <1>4 DEF PressButton, Loaded, ownVars, Reached, Halted
<1>5. CASE ButtonStep
  <2>1. CASE \/ ButtonSuspends("rejecting", "saving rejected")
             \/ ButtonSuspends("correcting", "saving correction")
             \/ ButtonResumes("cancelling rejection", "undoing rejection")
             \/ ButtonResumes("ending correction", "undoing correction")
    BY <2>1 DEF ButtonSuspends, ButtonResumes, KeepState, NotAhead, Loaded
  <2>2. CASE \/ ButtonSaves("saving rejected", "rejected")
             \/ ButtonSaves("saving correction", "correction")
             \/ ButtonSaves("saving sb2", "sb2")
             \/ ButtonSaves("saving conclusion", "conclusion")
             \/ ButtonSaves("saving finished", "finished")
             \/ ButtonReturns("undoing rejection", "rejected")
             \/ ButtonReturns("undoing correction", "correction")
    BY <2>2 DEF ButtonSaves, ButtonReturns, Loaded
  <2>3. CASE \/ ButtonCloses("sb1", "reporting", "checking sb1")
             \/ HandlerSkips("check-sb1", "checking sb1", "saving sb2")
             \/ ButtonCloses("sb2", "finalizing", "checking sb2")
             \/ HandlerSkips("check-sb2", "checking sb2", "saving conclusion")
             \/ HandlerSkips("sb1", "ending sb1", "ending sb2")
             \/ ButtonCloses("sb2", "ending sb2", "ending conclusion")
    BY <2>3 DEF ButtonCloses, HandlerSkips, KeepState, NotAhead, Loaded
  <2>4. CASE ButtonCompletes
    BY <2>4 DEF ButtonCompletes, NotAhead, Loaded
  <2> QED
    BY <1>5, <2>1, <2>2, <2>3, <2>4 DEF ButtonStep
<1> QED
  BY <1>2, <1>3, <1>4, <1>5 DEF FaultyNext

LEMMA NotAheadStep ==
  DossierInv /\ NotAhead /\ DossierInv' /\ [FaultyNext]_vars => NotAhead' /\ (Kept \/ Stale)
<1> SUFFICES ASSUME DossierInv, NotAhead, DossierInv', [FaultyNext]_vars
             PROVE  NotAhead' /\ (Kept \/ Stale)
  OBVIOUS
<1>1. {Reached', seen'} \subseteq Behind' /\ (Kept \/ Stale)
  BY RequestReach, HandlerReach DEF ReachStep, FaultyNext
<1> QED
  BY <1>1, LoadedStep DEF NotAhead

LEMMA StepsKeepReached ==
  Kept \/ Stale =>
    [\/ Rank(Reached') >= Rank(Reached)
     \/ state = "rejected" /\ state' \in {"subm", "in_progress_internal"}
     \/ handler # handler' /\ seen # Reached]_vars
BY DEF Kept, Stale

(* What a dossier has reached is kept through rejections, corrections and  *)
(* their ends, when requests run between the transactions of an eCH        *)
(* handler or a button, and when one fails half way.  It is lost only if a *)
(* rejected dossier is submitted again, or a handler goes on with another  *)
(* state than the one that has been reached by now.                        *)
THEOREM ReachedStays == FaultySpec => ReachedIsKept
BY StepsKeepReached, DossierInvariant, NotAheadInit, NotAheadStep, PTL
   DEF FaultySpec, ReachedIsKept

-----------------------------------------------------------------------------
(* The state agrees with the items, as long as handlers are undisturbed.   *)

(* The steps of a handler before which it has changed nothing.             *)
Steady == {"idle", "declining", "ruling", "closing sb1", "rejecting", "correcting",
           "reporting", "finalizing", "ending sb1"}
Saving == {"saving rejected", "saving correction"}
Closing == {"closing sb1", "closing sb2", "completing"}
Reports == {"reporting", "checking sb1", "saving sb2"}
Finals == {"finalizing", "checking sb2", "saving conclusion"}
Endings == {"ending sb1", "ending sb2", "ending conclusion"}
Circulating == {"circulation_init", "circulation", "coordination"}
Reporting == {"sb1", "sb2", "conclusion"}

KindFits ==
  /\ kind = "internal" =>
       state \in {"new", "in_progress_internal", "finished_internal", "archived"}
  /\ kind # "internal" => state \notin {"in_progress_internal", "finished_internal"}

(* Only rejected and corrected dossiers are suspended, and a rejected one  *)
(* stays so when it is submitted once more.                                *)
CaseFits ==
  /\ state \in ClosedStates <=> case \notin OpenCase
  /\ case = "suspended" => \/ state \in Halted
                           \/ handler = "idle" /\ state = "subm" /\ prev = "rejected"
                           \/ handler \in Saving

(* A dossier with this item open and a distribution as far as this may be  *)
(* in the state s.                                                         *)
Fits(s) ==
  /\ s \in Circulating
  /\ items[RequiredItem(s)] > 0
  /\ s = "circulation" => init = "completed"

(* The item "init-distribution" is closed or goes with the distribution.   *)
PhaseFits ==
  /\ dcase = "running" => init \in {"ready", "completed"}
  /\ dcase = "suspended" => init \in {"suspended", "completed"}

ItemFits ==
  case = "running" /\ handler \in Steady =>
    /\ RequiredItem(state) # "none"
    /\ items[RequiredItem(state)] > 0
    /\ state = "circulation_init" =>
         init = "ready" \/ (init = "completed" /\ prev \in Halted)
    /\ state = "circulation" => init = "completed"

(* A rejected or corrected dossier can go back to where it was.            *)
HaltFits == state \in Halted => Fits(prev)

(* A button that resumed the case goes back, or has found the circulation. *)
Undoing(origin) ==
  /\ case = "running" /\ Fits(seen)
  /\ \/ state = origin
     \/ state = "circulation" /\ prev = origin /\ Fits(state) /\ seen # state

(* What a handler finds before each of its steps.                          *)
HandlerFits ==
  /\ handler \in {"declining", "rejecting", "correcting"} =>
       case = "running" /\ state \in Circulating /\ seen = state
  /\ handler = "suspending" => case = "running" /\ state = "rejected"
  /\ handler \in Saving => case = "suspended" /\ Fits(state) /\ seen = state
  /\ handler = "cancelling rejection" =>
       case = "suspended" /\ state = "rejected" /\ seen = prev
  /\ handler = "ending correction" =>
       case = "suspended" /\ state = "correction" /\ seen = prev
  /\ handler = "undoing rejection" => Undoing("rejected")
  /\ handler = "undoing correction" => Undoing("correction")
  /\ handler \in {"ruling", "deciding"} =>
       case = "running" /\ state \in {"circulation", "coordination"}
  /\ handler = "deciding" => items["decision"] > 0
  /\ handler \in Closing => case = "running" /\ state \in Reporting
  /\ handler = "closing sb2" => items["sb2"] > 0 \/ items["complete"] > 0
  /\ handler \in {"completing", "checking sb2", "saving conclusion", "ending conclusion"} =>
       items["complete"] > 0
  /\ handler \in {"checking sb1", "saving sb2", "ending sb2"} => items["sb2"] > 0
  /\ handler \in Reports => case = "running" /\ state = "sb1"
  /\ handler \in Finals => case = "running" /\ state = "sb2"
  /\ handler \in Endings => case = "running" /\ state \in {"sb1", "sb2"}
  /\ handler = "saving finished" => state = "finished"

StateInv == KindFits /\ CaseFits /\ ItemFits /\ HaltFits /\ HandlerFits

LEMMA PhaseStep == PhaseFits /\ [DistNext]_distVars => PhaseFits'
<1> SUFFICES ASSUME PhaseFits, [DistNext]_distVars PROVE PhaseFits'
  OBVIOUS
<1>1. CASE \/ \E a \in Authorities : StartDistribution(a)
           \/ CompleteDistribution \/ CancelDistribution
           \/ SuspendDistribution \/ ResumeDistribution
  BY <1>1 DEF PhaseFits, StartDistribution, CompleteDistribution, CancelDistribution,
     SuspendDistribution, ResumeDistribution, Suspended, Resumed, InitAfterResume,
     InitAfterSend
<1>2. CASE \/ \E s \in Services, targets \in TargetLists : CreateInquiries(s, targets)
           \/ \E i \in 1..Len(inquiries) : \/ SendInquiry(i) \/ AnswerInquiry(i)
                                          \/ WithdrawInquiry(i) \/ CheckInquiry(i)
           \/ CompleteInit
           \/ \E a \in Authorities : ReassignDistribution(lead, a)
           \/ UNCHANGED distVars
  BY <1>2 DEF PhaseFits, CreateInquiries, SendInquiry, InitAfterSend, AnswerInquiry,
     WithdrawInquiry, CheckInquiry, CompleteInit, ReassignDistribution, distVars
<1> QED
  BY <1>1, <1>2 DEF DistNext

LEMMA StateInvInit == DossierInit => StateInv /\ PhaseFits
<1> SUFFICES ASSUME DossierInit PROVE StateInv /\ PhaseFits
  OBVIOUS
<1>1. /\ state = "new" /\ case = "running" /\ handler = "idle" /\ "submit" \in Tasks
      /\ items = [t \in Tasks |-> IF t = "submit" THEN 1 ELSE 0] /\ dcase = "none"
  BY DEF DossierInit, DistInit, Tasks
<1>2. HandlerFits
  BY <1>1 DEF HandlerFits, Saving, Closing, Reports, Finals, Endings
<1> QED
  BY <1>1, <1>2, RequiredValues DEF StateInv, KindFits, CaseFits, ItemFits, HaltFits, PhaseFits,
     ClosedStates, OpenCase, Halted

(* Between handlers there is nothing that a handler relies on.             *)
LEMMA IdleFits == ASSUME handler' = "idle" PROVE HandlerFits'
BY DEF HandlerFits, Saving, Closing, Reports, Finals, Endings

(* The open main item tells the state.                                     *)
LEMMA ItemTells ==
  ASSUME DossierInv, StateInv, case = "running", handler \in Steady,
         NEW m \in Counted, items[m] > 0
  PROVE  RequiredItem(state) = m
<1>1. \A t \in Counted \ {m} : items[t] = 0
  BY OpenMain
<1>2. /\ state \in States /\ RequiredItem(state) # "none"
      /\ items[RequiredItem(state)] > 0
  BY DEF DossierInv, DossierTypeOK, StateInv, ItemFits
<1>3. RequiredItem(state) \in MainTasks
  BY <1>2, RequiredKnown
<1>4. RequiredItem(state) = "ebau-number" => kind # "internal"
  BY RequiredValues DEF StateInv, KindFits, ClosedStates
<1>5. RequiredItem(state) \in Counted
  BY <1>3, <1>4 DEF Counted
<1> QED
  BY <1>1, <1>2, <1>5

LEMMA StateOfItem ==
  ASSUME NEW s \in States
  PROVE  /\ RequiredItem(s) = "submit" => s = "new"
         /\ RequiredItem(s) = "ebau-number" => s = "subm"
         /\ RequiredItem(s) = "distribution" => s \in {"circulation_init", "circulation"}
         /\ RequiredItem(s) = "decision" => s \in {"coordination", "in_progress_internal"}
         /\ RequiredItem(s) = "sb1" => s = "sb1"
         /\ RequiredItem(s) = "sb2" => s = "sb2"
         /\ RequiredItem(s) = "complete" => s = "conclusion"
BY RequiredValues DEF States, ClosedStates

(* What a step may not do to a closed dossier, and the previous state that *)
(* a notified one may not leave, but for the end of a rejection.           *)
Final ==
  /\ state \in ClosedStates => state' \in {state, "archived"}
  /\ case \notin OpenCase => case' = case
Told ==
  IF handler = "undoing rejection"
  THEN state' = state \/ (state' = seen /\ prev' = "rejected")
  ELSE \/ state' = state \/ prev' # "rejected"
       \/ state' = "finished" /\ case' = "canceled"
       \/ state' \notin {"coordination", "sb1", "evaluated", "rejected", "finished"}
StepFits == StateInv' /\ Final /\ Told

(* A step that leaves the dossier running at the item of its new state.    *)
LEMMA ArriveStep ==
  ASSUME handler' = "idle", handler # "undoing rejection",
         case = "running", case' = "running", state \notin ClosedStates, KindFits',
         RequiredItem(state') # "none", items'[RequiredItem(state')] > 0,
         state' = "circulation_init" =>
           init' = "ready" \/ (init' = "completed" /\ prev' \in Halted),
         state' = "circulation" => init' = "completed",
         prev' # "rejected" \/ state' = state \/ state' \notin {"coordination", "sb1"}
  PROVE  StepFits
<1>1. state' \notin ClosedStates /\ state' \notin Halted
  BY RequiredValues DEF Halted
<1>2. state' \notin {"evaluated", "rejected", "finished"}
  BY <1>1 DEF Halted, ClosedStates
<1> QED
  BY <1>1, <1>2, IdleFits DEF StepFits, StateInv, CaseFits, ItemFits, HaltFits, OpenCase, Final,
     Told

(* A step that ends an open case.                                          *)
LEMMA CloseStep ==
  ASSUME \/ handler' = "idle"
         \/ handler' = "saving finished" /\ state' = "finished",
         handler # "undoing rejection", case \in OpenCase, case' \in {"completed", "canceled"},
         state \notin ClosedStates, state' \in ClosedStates, KindFits',
         \/ prev' # "rejected"
         \/ state' = "archived"
         \/ (state' = "finished" /\ case' = "canceled")
  PROVE  StepFits
<1>1. HandlerFits'
  BY DEF HandlerFits, Saving, Closing, Reports, Finals, Endings
<1> QED
  BY <1>1 DEF StepFits, StateInv, CaseFits, ItemFits, HaltFits, OpenCase, Halted, ClosedStates,
     Final, Told

(* A request that leaves the state, the case and the main items alone.     *)
LEMMA StayStep ==
  ASSUME DossierInv, StateInv, handler = "idle",
         UNCHANGED <<kind, case, state, prev, handler, seen>>, init' = init,
         \A t \in MainTasks : items'[t] = items[t]
  PROVE  StepFits
<1>1. case = "running" => RequiredItem(state) \in MainTasks
  BY RequiredKnown DEF StateInv, ItemFits, Steady, DossierInv, DossierTypeOK
<1>2. state \in Halted => RequiredItem(prev) \in MainTasks
  BY RequiredValues DEF StateInv, HaltFits, Fits, Circulating, MainTasks
<1>3. StateInv'
  BY <1>1, <1>2, IdleFits DEF StateInv, KindFits, CaseFits, ItemFits, HaltFits, Fits
<1> QED
  BY <1>3 DEF StepFits, Final, Told

(* A step of a handler amid its work, which changes items.                 *)
LEMMA MidStep ==
  ASSUME StateInv, UNCHANGED <<kind, case, state, prev>>, case = "running",
         state \notin Halted, handler' \notin Steady, HandlerFits'
  PROVE  StepFits
<1>1. StateInv'
  BY DEF StateInv, KindFits, CaseFits, ItemFits, HaltFits
<1> QED
  BY <1>1 DEF StepFits, Final, Told

(* In which states a running dossier is between handlers.                  *)
LEMMA RunningState ==
  ASSUME DossierInv, StateInv, case = "running"
  PROVE  /\ state \notin ClosedStates
         /\ handler \in Steady => state \notin Halted
BY RequiredValues DEF StateInv, CaseFits, ItemFits, OpenCase, Halted

LEMMA SubmitFits ==
  ASSUME DossierInv, StateInv, handler = "idle",
         Submit \/ SubmitRejected \/ CompleteEbauNumber
  PROVE  StepFits
<1>0. "idle" \in Steady
  BY DEF Steady
<1>1. CASE Submit
  <2>1. /\ UNCHANGED <<kind, case, handler, seen>> /\ case = "running"
        /\ state' = SubmittedState /\ prev' = state /\ state = "new"
        /\ items'[RequiredItem(state')] > 0
        /\ state' = "circulation_init" => init' = "ready"
    BY <1>1, SubmitLeads
  <2>2. /\ state' \in {"subm", "in_progress_internal", "circulation_init"}
        /\ state' = "in_progress_internal" <=> kind = "internal"
    BY <2>1 DEF SubmittedState
  <2>3. RequiredItem(state') # "none" /\ state \notin ClosedStates
    BY <2>1, <2>2, RequiredValues DEF ClosedStates
  <2>4. KindFits'
    BY <2>1, <2>2 DEF KindFits
  <2> QED
    BY <2>1, <2>2, <2>3, <2>4, ArriveStep
<1>2. CASE SubmitRejected
  <2>1. /\ state = "rejected" /\ kind # "extend-validity" /\ state' = SubmittedState
        /\ UNCHANGED <<kind, case, handler, seen>>
    BY <1>2 DEF SubmitRejected, GoTo, Keep
  <2>2. kind # "internal"
    BY <2>1 DEF StateInv, KindFits
  <2>3. state' = "subm"
    BY <2>1, <2>2 DEF SubmittedState
  <2>4. case = "suspended"
    <3>1. case \in OpenCase
      BY <2>1 DEF StateInv, CaseFits, ClosedStates
    <3>2. case # "running"
      BY <1>0, <2>1, RunningState DEF Halted
    <3> QED
      BY <3>1, <3>2 DEF OpenCase
  <2>5. StateInv'
    <3>1. prev' = "rejected" /\ handler' = "idle"
      BY <1>2, <2>1 DEF SubmitRejected, GoTo
    <3>2. KindFits' /\ CaseFits' /\ ItemFits' /\ HaltFits'
      BY <2>1, <2>2, <2>3, <2>4, <3>1
         DEF KindFits, CaseFits, ItemFits, HaltFits, OpenCase, ClosedStates, Halted
    <3> QED
      BY <3>1, <3>2, IdleFits DEF StateInv
  <2> QED
    BY <2>1, <2>3, <2>5 DEF StepFits, Final, Told, ClosedStates
<1>3. CASE CompleteEbauNumber
  <2>1. /\ UNCHANGED <<kind, case, handler, seen>>
        /\ case = "running" /\ items["ebau-number"] > 0
        /\ IF state = "subm" THEN GoTo("circulation_init") ELSE KeepState
        /\ kind = "internal" => items'["decision"] = items["decision"]
        /\ kind # "internal" => items'["distribution"] > 0 /\ init' = "ready"
    BY <1>3, NumberLeads
  <2>2. state \in States /\ state \notin ClosedStates
    BY <2>1, RunningState DEF DossierInv, DossierTypeOK
  <2>3. CASE kind # "internal"
    <3>1. "ebau-number" \in Counted
      BY <2>3 DEF Counted, MainTasks
    <3>2. state = "subm"
      BY <1>0, <2>1, <2>2, <3>1, ItemTells, StateOfItem
    <3>3. state' = "circulation_init" /\ prev' = "subm"
      BY <2>1, <3>2 DEF GoTo
    <3>4. KindFits'
      BY <2>1, <2>3, <3>3 DEF KindFits
    <3> QED
      BY <2>1, <2>2, <2>3, <3>3, <3>4, RequiredValues, ArriveStep
  <2>4. CASE kind = "internal"
    <3>1. items["submit"] = 0
      BY <2>1, TasksKnown, ItemsNat DEF DossierInv, SubmitFirst, MainTasks
    <3>2. state \in {"new", "in_progress_internal"}
      BY <2>2, <2>4 DEF StateInv, KindFits, ClosedStates
    <3>3. state = "in_progress_internal" /\ items["decision"] > 0
      BY <1>0, <2>1, <3>1, <3>2, RequiredValues DEF StateInv, ItemFits
    <3>4. state' = state
      BY <2>1, <3>3 DEF KeepState
    <3>5. KindFits'
      BY <2>1, <2>4, <3>3, <3>4 DEF KindFits
    <3> QED
      BY <2>1, <2>2, <2>4, <3>3, <3>4, <3>5, RequiredValues, ArriveStep
  <2> QED
    BY <2>3, <2>4
<1> QED
  BY <1>1, <1>2, <1>3

LEMMA DistributionFits ==
  ASSUME DossierInv, StateInv, handler = "idle", Distribute \/ EndDistribution
  PROVE  StepFits
<1>0. /\ "idle" \in Steady /\ state \in States /\ "distribution" \in Counted
  BY DEF Steady, DossierInv, DossierTypeOK, Counted, MainTasks
<1>1. ASSUME dcase = "running"
      PROVE  /\ case = "running" /\ items["distribution"] > 0
             /\ state \in {"circulation_init", "circulation"} /\ kind # "internal"
  <2>1. case = "running" /\ items["distribution"] > 0
    BY <1>1, DistributionRuns DEF OpenCase
  <2>2. state \in {"circulation_init", "circulation"}
    BY <1>0, <2>1, ItemTells, StateOfItem
  <2> QED
    BY <1>0, <2>1, <2>2 DEF StateInv, KindFits
<1>2. CASE Distribute
  <2>1. /\ dcase = "running"
        /\ init' # init => init = "ready" /\ init' = "completed"
        /\ UNCHANGED <<kind, case, items, handler, seen>> /\ StateAfterInit
    BY <1>2 DEF Distribute, CreateInquiries, SendInquiry, InitAfterSend, AnswerInquiry,
       WithdrawInquiry, CheckInquiry, CompleteInit, Keep
  <2>2. CASE init = "ready" /\ init' = "completed"
    <3>1. state' = "circulation" /\ prev' = state /\ state \notin ClosedStates
      BY <1>1, <2>1, <2>2 DEF StateAfterInit, GoTo, ClosedStates
    <3>2. KindFits'
      BY <1>1, <2>1, <3>1 DEF KindFits
    <3> QED
      BY <1>1, <2>1, <2>2, <3>1, <3>2, RequiredValues, ArriveStep
  <2>3. CASE ~(init = "ready" /\ init' = "completed")
    <3>1. UNCHANGED <<state, prev>> /\ init' = init
      BY <2>1, <2>3 DEF StateAfterInit, KeepState
    <3> QED
      BY <2>1, <3>1, StayStep
  <2> QED
    BY <2>2, <2>3
<1>3. CASE EndDistribution
  <2>1. /\ dcase = "running" /\ SetItems(Process(items, {"distribution"}))
        /\ state' = "coordination" /\ prev' = state
        /\ UNCHANGED <<kind, case, handler, seen>>
    BY <1>3 DEF EndDistribution, CompleteDistribution, GoTo, Keep
  <2>2. items'["decision"] > 0
    BY <1>1, <2>1, DistributionLeads
  <2>3. KindFits' /\ state \notin ClosedStates
    BY <1>1, <2>1 DEF KindFits, ClosedStates
  <2> QED
    BY <1>1, <2>1, <2>2, <2>3, RequiredValues, ArriveStep
<1> QED
  BY <1>2, <1>3

(* A decision, taken in a state that waits for it.                         *)
LEMMA DecisionFits ==
  ASSUME DossierInv, StateInv, NEW continue \in BOOLEAN, DecisionTaken(continue),
         handler \in Steady \cup {"deciding"}, handler' = "idle"
  PROVE  StepFits
<1>1. /\ case = "running" /\ items["decision"] > 0 /\ kind' = kind
      /\ state' = DecidedState(continue) /\ prev' = state
      /\ continue => MayContinue /\ case' = "running" /\ items'["sb1"] > 0
      /\ ~continue => case' = "completed"
  BY DecisionLeads
<1>2. /\ state \notin ClosedStates /\ state # "rejected" /\ handler # "undoing rejection"
  BY <1>1, RunningState DEF StateInv, HandlerFits, Halted, Steady
<1>3. /\ state' \in {"sb1", "evaluated", "finished", "finished_internal"}
      /\ state' = "finished_internal" <=> kind = "internal"
      /\ state' = "sb1" <=> continue
  <2>1. kind \in AllKinds
    BY DossierAssumption DEF DossierInv, DossierTypeOK
  <2> QED
    BY <1>1, <2>1 DEF DecidedState, MayContinue, AllKinds
<1>4. KindFits'
  BY <1>1, <1>3 DEF KindFits, MayContinue
<1>5. CASE continue
  BY <1>1, <1>2, <1>3, <1>4, <1>5, RequiredValues, ArriveStep
<1>6. CASE ~continue
  <2>1. state' \in ClosedStates /\ case \in OpenCase
    BY <1>1, <1>3, <1>6 DEF ClosedStates, OpenCase
  <2> QED
    BY <1>1, <1>2, <1>4, <1>6, <2>1, CloseStep
<1> QED
  BY <1>5, <1>6

(* A state in which the applicant reports is one of a running case.        *)
LEMMA ReportingRuns ==
  ASSUME StateInv, DossierInv, state \in Reporting
  PROVE  case = "running" /\ kind # "internal" /\ state \notin ClosedStates
<1>1. state \notin ClosedStates /\ state \notin Halted \cup {"subm"} \cup Circulating
  BY DEF Reporting, ClosedStates, Halted, Circulating
<1>2. case = "running"
  BY <1>1 DEF StateInv, CaseFits, HandlerFits, Fits, OpenCase
<1>3. kind # "internal"
  BY DEF StateInv, KindFits, Reporting
<1> QED
  BY <1>1, <1>2, <1>3

LEMMA ReportFits ==
  ASSUME DossierInv, StateInv, handler = "idle", Report \/ \E stored \in BOOLEAN : Finalize(stored)
  PROVE  StepFits
<1>0. "idle" \in Steady
  BY DEF Steady
<1>1. CASE Report
  <2>1. /\ state = "sb1" /\ state' = "sb2" /\ prev' = state
        /\ UNCHANGED <<kind, case, handler, seen>> /\ items' = ReportedItems
    BY <1>1 DEF Report, GoTo, SetItems, Keep
  <2>2. case = "running" /\ kind # "internal" /\ state \notin ClosedStates
    BY <2>1, ReportingRuns DEF Reporting
  <2>3. items["sb1"] > 0
    BY <1>0, <2>1, <2>2, RequiredValues DEF StateInv, ItemFits
  <2>4. items'["sb2"] > 0
    BY <2>1, <2>2, <2>3, ReportLeads DEF ReportedItems, Ready
  <2>5. KindFits'
    BY <2>1, <2>2 DEF KindFits
  <2> QED
    BY <2>1, <2>2, <2>4, <2>5, RequiredValues, ArriveStep
<1>2. ASSUME NEW stored \in BOOLEAN, Finalize(stored)
      PROVE  StepFits
  <2> DEFINE its  == Process(items, {"sb2"})
  <2>1. /\ state = "sb2" /\ state' = "conclusion" /\ prev' = state
        /\ UNCHANGED <<kind, case, handler, seen>>
        /\ Ready("sb2") =>
             items' = IF stored THEN Create(its, {"awa"}) ELSE its
    BY <1>2 DEF Finalize, GoTo, SetItems, Keep
  <2>2. case = "running" /\ kind # "internal" /\ state \notin ClosedStates
    BY <2>1, ReportingRuns DEF Reporting
  <2>3. items["sb2"] > 0
    BY <1>0, <2>1, <2>2, RequiredValues DEF StateInv, ItemFits
  <2>4. its \in Items /\ its["complete"] > 0 /\ "complete" \in Tasks
    BY <2>3, ReportLeads DEF Tasks, ControlTasks
  <2>5. Ready("sb2")
    BY <2>2, <2>3 DEF Ready
  <2> HIDE DEF its
  <2>6. items'["complete"] > 0
    <3>1. \A x \in Tasks : Create(its, {"awa"})[x] =
            IF x \in {"awa"} THEN its[x] + 1 ELSE its[x]
      BY <2>4, CreateValues
    <3> QED
      BY <2>1, <2>4, <2>5, <3>1
  <2>7. KindFits'
    BY <2>1, <2>2 DEF KindFits
  <2> QED
    BY <2>1, <2>2, <2>6, <2>7, RequiredValues, ArriveStep
<1> QED
  BY <1>1, <1>2

LEMMA CompletedFits ==
  ASSUME DossierInv, StateInv, Completed,
         handler \in {"idle", "completing", "ending conclusion"},
         handler' \in {"idle", "saving finished"}
  PROVE  StepFits
<1>1. /\ case = "running" /\ items["complete"] > 0 /\ kind' = kind
      /\ state' = "finished" /\ prev' = state /\ case' = "completed"
  BY CompletedLeads
<1>2. state \in Reporting
  <2>1. CASE handler \in {"completing", "ending conclusion"}
    BY <2>1 DEF StateInv, HandlerFits, Closing, Endings, Reporting
  <2>2. CASE handler = "idle"
    <3>1. "complete" \in Counted /\ "idle" \in Steady /\ state \in States
      BY DEF Counted, MainTasks, Steady, DossierInv, DossierTypeOK
    <3>2. RequiredItem(state) = "complete"
      BY <1>1, <2>2, <3>1, ItemTells
    <3> QED
      BY <3>1, <3>2, StateOfItem DEF Reporting
  <2> QED
    BY <2>1, <2>2
<1>3. kind # "internal" /\ state \notin ClosedStates /\ state # "rejected"
  BY <1>2, ReportingRuns DEF Reporting
<1>4. KindFits' /\ state' \in ClosedStates /\ case \in OpenCase
  BY <1>1, <1>3 DEF KindFits, ClosedStates, OpenCase
<1> QED
  BY <1>1, <1>3, <1>4, CloseStep

LEMMA ArchiveFits ==
  ASSUME DossierInv, StateInv, handler = "idle", Archive \/ ResubmitCopy
  PROVE  StepFits
<1>1. /\ UNCHANGED <<kind, handler>> /\ prev' = state
      /\ Archive => state' = "archived"
      /\ ResubmitCopy => state' = "finished" /\ state = "rejected" /\ case \in OpenCase
  BY DEF Archive, ResubmitCopy, GoTo, Keep
<1>2. KindFits' /\ state' \in ClosedStates
  BY <1>1 DEF StateInv, KindFits, ClosedStates
<1>3. CASE case \in OpenCase
  <2>1. case' = "canceled"
    BY <1>3 DEF Archive, ResubmitCopy, CaseArchived, CaseCancelled, ArchiveCancels, OpenCase
  <2>2. state \notin ClosedStates
    BY <1>3 DEF StateInv, CaseFits
  <2> QED
    BY <1>1, <1>2, <1>3, <2>1, <2>2, CloseStep
<1>4. CASE case \notin OpenCase
  <2>1. state' = "archived" /\ case' = case
    BY <1>1, <1>4 DEF Archive, CaseArchived, ArchiveCancels, OpenCase
  <2>2. StateInv'
    BY <1>1, <1>2, <1>4, <2>1, IdleFits
       DEF StateInv, CaseFits, ItemFits, HaltFits, OpenCase, ClosedStates, Halted
  <2> QED
    BY <2>1, <2>2 DEF StepFits, Final, Told
<1> QED
  BY <1>3, <1>4

LEMMA RequestFits ==
  ASSUME DossierInv, StateInv, handler = "idle", Request
  PROVE  StepFits
<1>1. CASE Submit \/ SubmitRejected \/ CompleteEbauNumber
  BY <1>1, SubmitFits
<1>2. CASE \/ \E t \in SideTasks : CompleteSideTask(t)
           \/ CreateManual \/ CompleteManual
  <2>1. init' = init
    BY <1>2, SideLeads DEF distVars
  <2> QED
    BY <1>2, <2>1, SideLeads, StayStep
<1>3. CASE Distribute \/ EndDistribution
  BY <1>3, DistributionFits
<1>4. ASSUME NEW continue \in BOOLEAN, Decide(continue) PROVE StepFits
  BY <1>4, DecisionFits DEF Decide, Keep, Steady
<1>5. CASE Report \/ \E stored \in BOOLEAN : Finalize(stored)
  BY <1>5, ReportFits
<1>6. CASE Complete
  BY <1>6, CompletedFits DEF Complete, Keep
<1>7. CASE \/ \E a \in Authorities : ChangeResponsible(Authorities, a)
           \/ \E c \in Controls : ChangeResponsible(Controls, c)
  <2>1. UNCHANGED <<kind, case, state, prev, handler, seen, items>> /\ init' = init
    BY <1>7 DEF ChangeResponsible, ReassignDistribution, KeepState, Keep, distVars
  <2> QED
    BY <2>1, StayStep
<1>8. CASE Archive \/ ResubmitCopy
  BY <1>8, ArchiveFits
<1> QED
  BY <1>1, <1>2, <1>3, <1>4, <1>5, <1>6, <1>7, <1>8 DEF Request

(* The handlers, step by step.                                             *)

LEMMA ReceiveFits ==
  ASSUME DossierInv, StateInv, EchReceive
  PROVE  StepFits
<1>1. /\ handler = "idle" /\ seen' = state
      /\ \/ handler' = "declining" /\ state \in Circulating
         \/ handler' = "ruling" /\ state \in {"circulation", "coordination"}
         \/ handler' = "closing sb1" /\ state \in Reporting
      /\ UNCHANGED <<kind, state, prev, case, items>> /\ UNCHANGED distVars
  BY DEF EchReceive, ownVars, Circulating, Reporting
<1>2. case = "running" /\ state \notin Halted
  <2>1. state \notin ClosedStates /\ state \notin Halted \cup {"subm"}
    BY <1>1 DEF Circulating, Reporting, ClosedStates, Halted
  <2> QED
    BY <1>1, <2>1 DEF StateInv, CaseFits, OpenCase, Saving
<1>3. StateInv'
  <2>1. KindFits' /\ CaseFits' /\ HaltFits'
    BY <1>1, <1>2 DEF StateInv, KindFits, CaseFits, HaltFits, OpenCase
  <2>2. ItemFits'
    BY <1>1, <1>2 DEF StateInv, ItemFits, Steady, distVars
  <2>3. HandlerFits'
    BY <1>1, <1>2 DEF HandlerFits, Closing, Saving, Reports, Finals, Endings
  <2> QED
    BY <2>1, <2>2, <2>3 DEF StateInv
<1> QED
  BY <1>1, <1>3 DEF StepFits, Final, Told

LEMMA PressFits ==
  ASSUME DossierInv, StateInv, PressButton
  PROVE  StepFits
<1>1. /\ handler = "idle" /\ seen' = Reached
      /\ \/ handler' \in {"rejecting", "correcting"} /\ state \in {"circulation_init", "circulation"}
         \/ handler' = "cancelling rejection" /\ state = "rejected"
         \/ handler' = "ending correction" /\ state = "correction"
         \/ handler' \in {"reporting", "ending sb1"} /\ state = "sb1"
         \/ handler' \in {"finalizing", "ending sb1"} /\ state = "sb2"
      /\ UNCHANGED <<kind, state, prev, case, items>> /\ UNCHANGED distVars
  BY DEF PressButton, ownVars
<1>2. case = IF state \in Halted THEN "suspended" ELSE "running"
  <2>1. case \in OpenCase /\ state # "subm"
    BY <1>1 DEF StateInv, CaseFits, ClosedStates
  <2>2. state \in Halted => case # "running"
    BY <1>1, RunningState DEF Steady
  <2>3. case = "suspended" => state \in Halted
    BY <1>1, <2>1 DEF StateInv, CaseFits, Saving
  <2> QED
    BY <2>1, <2>2, <2>3 DEF OpenCase
<1>3. Reached = IF state \in Halted THEN prev ELSE state
  BY DEF Reached, Halted
<1>4. StateInv'
  <2>1. KindFits' /\ HaltFits'
    BY <1>1 DEF StateInv, KindFits, HaltFits, Fits, distVars
  <2>2. CaseFits'
    BY <1>1, <1>2 DEF StateInv, CaseFits
  <2>3. ItemFits'
    BY <1>1, <1>2 DEF StateInv, ItemFits, Steady, distVars
  <2>4. HandlerFits'
    BY <1>1, <1>2, <1>3
       DEF HandlerFits, Halted, Circulating, Closing, Saving, Reports, Finals, Endings
  <2> QED
    BY <2>1, <2>2, <2>3, <2>4 DEF StateInv
<1> QED
  BY <1>1, <1>4 DEF StepFits, Final, Told

(* Suspending or resuming the case takes nothing from what a state needs.  *)
LEMMA TurnFits ==
  ASSUME (case = "running" /\ CaseSuspended) \/ CaseResumed, items' = items
  PROVE  \A s \in States : Fits(s) => Fits(s)'
<1>1. init = "completed" => init' = "completed"
  BY DEF CaseSuspended, CaseResumed, SuspendDistribution, ResumeDistribution, Suspended,
     Resumed, InitAfterResume, InitAfterSend, distVars
<1> QED
  BY <1>1 DEF Fits

(* A running dossier at rest fits its own state.                           *)
LEMMA RestFits ==
  ASSUME StateInv, case = "running", handler \in Steady, state \in Circulating
  PROVE  Fits(state)
BY DEF StateInv, ItemFits, Fits

LEMMA DeclineFits ==
  ASSUME DossierInv, StateInv, EchReject \/ EchSuspend
  PROVE  StepFits
<1>1. CASE EchReject
  <2>1. /\ handler = "declining" /\ handler' = "suspending" /\ state' = "rejected" /\ prev' = seen
        /\ UNCHANGED <<kind, case, items>> /\ UNCHANGED distVars
    BY <1>1 DEF EchReject
  <2>2. case = "running" /\ state \in Circulating /\ seen = state
    BY <2>1 DEF StateInv, HandlerFits
  <2>3. kind # "internal" /\ state \notin ClosedStates
    BY <2>2 DEF StateInv, KindFits, Circulating, ClosedStates
  <2>4. HaltFits'
    BY <2>1, <2>2, RestFits DEF HaltFits, Fits, Steady, distVars
  <2>5. KindFits' /\ CaseFits' /\ ItemFits' /\ HandlerFits'
    BY <2>1, <2>2, <2>3
       DEF KindFits, CaseFits, ItemFits, HandlerFits, OpenCase, ClosedStates,
           Saving, Closing, Reports, Finals, Endings, Steady
  <2> QED
    BY <2>1, <2>2, <2>3, <2>4, <2>5 DEF StepFits, StateInv, Final, Told, Circulating, OpenCase
<1>2. CASE EchSuspend
  <2>1. /\ handler = "suspending" /\ handler' = "idle" /\ UNCHANGED <<kind, items, state, prev>>
    BY <1>2 DEF EchSuspend, KeepState
  <2>2. case = "running" /\ state = "rejected"
    BY <2>1 DEF StateInv, HandlerFits
  <2>3. CaseSuspended /\ case' = "suspended"
    BY <1>2, <2>2 DEF EchSuspend, CaseSuspended
  <2>4. prev \in States /\ Fits(prev)
    BY <2>2 DEF StateInv, HaltFits, Halted, DossierInv, DossierTypeOK
  <2>5. Fits(prev)'
    BY <2>1, <2>2, <2>3, <2>4, TurnFits
  <2>6. KindFits' /\ CaseFits' /\ ItemFits' /\ HaltFits'
    BY <2>1, <2>2, <2>3, <2>5
       DEF StateInv, KindFits, CaseFits, ItemFits, HaltFits, OpenCase, ClosedStates, Halted
  <2> QED
    BY <2>1, <2>2, <2>6, IdleFits DEF StepFits, StateInv, Final, Told, OpenCase
<1> QED
  BY <1>1, <1>2

LEMMA RulingFits ==
  ASSUME DossierInv, StateInv,
         \/ EchSkipDistribution \/ EchNoDecision
         \/ \E continue \in BOOLEAN : EchDecide(continue)
  PROVE  StepFits
<1>1. CASE EchSkipDistribution
  <2>1. /\ handler = "ruling" /\ handler' = "deciding" /\ UNCHANGED <<kind, case, state, prev>>
    BY <1>1 DEF EchSkipDistribution, KeepState
  <2>2. case = "running" /\ state \in {"circulation", "coordination"}
    BY <2>1 DEF StateInv, HandlerFits
  <2>3. items'["decision"] > 0
    <3>1. CASE Ready("distribution")
      BY <1>1, <3>1, DistributionLeads DEF EchSkipDistribution, Ready
    <3>2. CASE ~Ready("distribution")
      <4>1. items' = items /\ ~(items["distribution"] > 0)
        BY <1>1, <2>2, <3>2 DEF EchSkipDistribution, Ready
      <4>2. items[RequiredItem(state)] > 0
        BY <2>1, <2>2 DEF StateInv, ItemFits, Steady
      <4> QED
        BY <2>2, <4>1, <4>2, RequiredValues
    <3> QED
      BY <3>1, <3>2
  <2>4. HandlerFits' /\ handler' \notin Steady /\ state \notin Halted
    BY <2>1, <2>2, <2>3
       DEF HandlerFits, Steady, Halted, Saving, Closing, Reports, Finals, Endings
  <2> QED
    BY <2>1, <2>2, <2>4, MidStep
<1>2. CASE EchNoDecision
  BY <1>2 DEF EchNoDecision, Ready, StateInv, HandlerFits
<1>3. ASSUME NEW continue \in BOOLEAN, EchDecide(continue) PROVE StepFits
  BY <1>3, DecisionFits DEF EchDecide
<1> QED
  BY <1>1, <1>2, <1>3

LEMMA ClosingFits ==
  ASSUME DossierInv, StateInv,
         \/ HandlerSkips("sb1", "closing sb1", "closing sb2")
         \/ HandlerSkips("sb2", "closing sb2", "completing")
         \/ EchComplete
  PROVE  StepFits
<1>1. CASE HandlerSkips("sb1", "closing sb1", "closing sb2")
  <2>1. /\ handler = "closing sb1" /\ handler' = "closing sb2" /\ UNCHANGED <<kind, case, state, prev>>
    BY <1>1 DEF HandlerSkips, KeepState
  <2>2. case = "running" /\ state \in Reporting
    BY <2>1 DEF StateInv, HandlerFits, Closing
  <2>3. items'["sb2"] > 0 \/ items'["complete"] > 0
    <3>1. CASE Ready("sb1")
      BY <1>1, <3>1, ReportLeads DEF HandlerSkips, Ready, SetItems
    <3>2. CASE ~Ready("sb1")
      <4>1. items' = items /\ ~(items["sb1"] > 0)
        BY <1>1, <2>2, <3>2 DEF HandlerSkips, Ready
      <4>2. items[RequiredItem(state)] > 0
        BY <2>1, <2>2 DEF StateInv, ItemFits, Steady
      <4> QED
        BY <2>2, <4>1, <4>2, RequiredValues DEF Reporting
    <3> QED
      BY <3>1, <3>2
  <2>4. HandlerFits' /\ handler' \notin Steady /\ state \notin Halted
    BY <2>1, <2>2, <2>3
       DEF HandlerFits, Steady, Halted, Saving, Closing, Reports, Finals, Endings, Reporting
  <2> QED
    BY <2>1, <2>2, <2>4, MidStep
<1>2. CASE HandlerSkips("sb2", "closing sb2", "completing")
  <2>1. /\ handler = "closing sb2" /\ handler' = "completing" /\ UNCHANGED <<kind, case, state, prev>>
    BY <1>2 DEF HandlerSkips, KeepState
  <2>2. /\ case = "running" /\ state \in Reporting
        /\ items["sb2"] > 0 \/ items["complete"] > 0
    BY <2>1 DEF StateInv, HandlerFits, Closing
  <2>3. items'["complete"] > 0
    <3>1. CASE Ready("sb2")
      BY <1>2, <3>1, ReportLeads DEF HandlerSkips, Ready, SetItems
    <3>2. CASE ~Ready("sb2")
      BY <1>2, <2>2, <3>2 DEF HandlerSkips, Ready
    <3> QED
      BY <3>1, <3>2
  <2>4. HandlerFits' /\ handler' \notin Steady /\ state \notin Halted
    BY <2>1, <2>2, <2>3
       DEF HandlerFits, Steady, Halted, Saving, Closing, Reports, Finals, Endings, Reporting
  <2> QED
    BY <2>1, <2>2, <2>4, MidStep
<1>3. CASE EchComplete
  <2>1. handler = "completing" /\ handler' = "idle"
    BY <1>3 DEF EchComplete
  <2>2. Ready("complete")
    BY <2>1 DEF StateInv, HandlerFits, Ready, Closing
  <2> QED
    BY <1>3, <2>1, <2>2, CompletedFits DEF EchComplete
<1> QED
  BY <1>1, <1>2, <1>3

(* The buttons that reject or correct a dossier, and those that undo it.   *)

LEMMA HaltingFits ==
  ASSUME DossierInv, StateInv,
         \/ ButtonSuspends("rejecting", "saving rejected")
         \/ ButtonSaves("saving rejected", "rejected")
         \/ ButtonSuspends("correcting", "saving correction")
         \/ ButtonSaves("saving correction", "correction")
  PROVE  StepFits
<1>1. state \in States
  BY DEF DossierInv, DossierTypeOK
<1>2. CASE \/ ButtonSuspends("rejecting", "saving rejected")
           \/ ButtonSuspends("correcting", "saving correction")
  <2>1. /\ handler \in {"rejecting", "correcting"} /\ handler' \in Saving
        /\ case = "running" /\ CaseSuspended /\ case' = "suspended"
        /\ UNCHANGED <<kind, items, seen, state, prev>>
    BY <1>2 DEF ButtonSuspends, KeepState, CaseSuspended, Saving
  <2>2. state \in Circulating /\ seen = state
    BY <2>1 DEF StateInv, HandlerFits
  <2>3. Fits(state)'
    BY <1>1, <2>1, <2>2, RestFits, TurnFits DEF Steady
  <2>4. state \notin ClosedStates /\ state \notin Halted
    BY <2>2 DEF Circulating, ClosedStates, Halted
  <2>5. KindFits' /\ CaseFits' /\ ItemFits' /\ HaltFits'
    BY <2>1, <2>4 DEF StateInv, KindFits, CaseFits, ItemFits, HaltFits, OpenCase
  <2>6. HandlerFits'
    BY <2>1, <2>2, <2>3 DEF HandlerFits, Saving, Closing, Reports, Finals, Endings
  <2> QED
    BY <2>1, <2>4, <2>5, <2>6 DEF StepFits, StateInv, Final, Told, OpenCase
<1>3. CASE \/ ButtonSaves("saving rejected", "rejected")
           \/ ButtonSaves("saving correction", "correction")
  <2>1. /\ handler \in Saving /\ handler' = "idle" /\ handler # "undoing rejection"
        /\ state' \in Halted /\ prev' \in {seen, state}
        /\ UNCHANGED <<kind, case, items>> /\ UNCHANGED distVars
    BY <1>3 DEF ButtonSaves, Saving, Halted
  <2>2. case = "suspended" /\ Fits(state) /\ prev' = state /\ state \in Circulating
    BY <2>1 DEF StateInv, HandlerFits, Fits
  <2>3. /\ kind # "internal" /\ state \notin ClosedStates
        /\ state' \notin ClosedStates /\ prev' # "rejected"
        /\ state' \notin {"in_progress_internal", "finished_internal"}
    BY <2>1, <2>2 DEF StateInv, KindFits, Circulating, ClosedStates, Halted
  <2>4. KindFits' /\ CaseFits' /\ ItemFits' /\ HaltFits'
    BY <2>1, <2>2, <2>3
       DEF KindFits, CaseFits, ItemFits, HaltFits, Fits, OpenCase, distVars
  <2> QED
    BY <2>1, <2>2, <2>3, <2>4, IdleFits DEF StepFits, StateInv, Final, Told, OpenCase
<1> QED
  BY <1>2, <1>3

LEMMA UndoingFits ==
  ASSUME DossierInv, StateInv, PhaseFits,
         NEW origin \in Halted, NEW ending, NEW undoing,
         \/ origin = "rejected" /\ ending = "cancelling rejection" /\ undoing = "undoing rejection"
         \/ origin = "correction" /\ ending = "ending correction" /\ undoing = "undoing correction",
         ButtonResumes(ending, undoing) \/ ButtonReturns(undoing, origin)
  PROVE  StepFits
<1>1. CASE ButtonResumes(ending, undoing)
  <2>1. /\ handler = ending /\ handler' = undoing /\ CaseResumed /\ case' = "running"
        /\ case = "suspended" /\ UNCHANGED <<kind, items, seen>> /\ StateAfterInit
    BY <1>1 DEF ButtonResumes, CaseResumed
  <2>2. state = origin /\ seen = prev /\ prev \in States /\ Fits(prev)
    BY <2>1 DEF StateInv, HandlerFits, HaltFits, Halted, DossierInv, DossierTypeOK
  <2>3. Fits(seen)' /\ Fits(prev) /\ kind # "internal" /\ state \notin ClosedStates
    BY <2>1, <2>2, TurnFits DEF StateInv, KindFits, Halted, ClosedStates, Fits
  <2>4. handler' \notin Steady
    BY <2>1 DEF Steady
  <2>5. CASE init # "completed" /\ init' = "completed"
    <3>1. state' = "circulation" /\ prev' = origin
      BY <2>1, <2>2, <2>5 DEF StateAfterInit, GoTo
    <3>2. seen # "circulation"
      BY <2>2, <2>5 DEF Fits
    <3>3. dcase \in OpenCase
      BY <2>1, <2>5 DEF CaseResumed, OpenCase, distVars
    <3>4. items["distribution"] > 0
      BY <3>3, DistributionRuns
    <3>5. Fits(state)'
      BY <2>1, <2>5, <3>1, <3>4, RequiredValues DEF Fits, Circulating
    <3>6. Undoing(origin)'
      BY <2>1, <2>3, <3>1, <3>2, <3>5 DEF Undoing
    <3>7. HandlerFits'
      BY <2>1, <3>6 DEF HandlerFits, Saving, Closing, Reports, Finals, Endings
    <3>8. KindFits' /\ CaseFits' /\ ItemFits' /\ HaltFits'
      BY <2>1, <2>3, <2>4, <3>1
         DEF KindFits, CaseFits, ItemFits, HaltFits, OpenCase, Halted, ClosedStates
    <3> QED
      BY <2>1, <2>3, <3>1, <3>7, <3>8 DEF StepFits, StateInv, Final, Told, OpenCase
  <2>6. CASE ~(init # "completed" /\ init' = "completed")
    <3>1. UNCHANGED <<state, prev>>
      BY <2>1, <2>6 DEF StateAfterInit, KeepState
    <3>2. Undoing(origin)'
      BY <2>1, <2>2, <2>3, <3>1 DEF Undoing
    <3>3. HandlerFits'
      BY <2>1, <3>2 DEF HandlerFits, Saving, Closing, Reports, Finals, Endings
    <3>4. Fits(prev)'
      BY <2>2, <2>3, <2>1, <3>1, TurnFits
    <3>5. KindFits' /\ CaseFits' /\ ItemFits' /\ HaltFits'
      BY <2>1, <2>3, <2>4, <3>1, <3>4
         DEF StateInv, KindFits, CaseFits, ItemFits, HaltFits, OpenCase
    <3> QED
      BY <2>1, <3>1, <3>3, <3>5 DEF StepFits, StateInv, Final, Told, OpenCase
  <2> QED
    BY <2>5, <2>6
<1>2. CASE ButtonReturns(undoing, origin)
  <2>1. /\ handler = undoing /\ handler' = "idle" /\ UNCHANGED <<kind, case, items, seen>>
        /\ UNCHANGED distVars
        /\ \/ state' = seen /\ prev' = origin
           \/ state # origin /\ UNCHANGED <<state, prev>>
    BY <1>2 DEF ButtonReturns, KeepState
  <2>2. Undoing(origin)
    BY <2>1 DEF StateInv, HandlerFits
  <2>3. /\ case = "running" /\ prev' = origin
        /\ state' = seen \/ state' = state
        /\ state' \in Circulating /\ items[RequiredItem(state')] > 0
        /\ state' = "circulation" => init = "completed"
    <3>1. CASE state' = seen /\ prev' = origin
      BY <2>2, <3>1 DEF Undoing, Fits
    <3>2. CASE state # origin /\ UNCHANGED <<state, prev>>
      BY <2>2, <3>2 DEF Undoing, Fits
    <3> QED
      BY <2>1, <3>1, <3>2
  <2>4. kind # "internal" /\ state \notin ClosedStates
    BY <2>2 DEF Undoing, Fits, StateInv, KindFits, Halted, ClosedStates, Circulating
  <2>5. state' = "circulation_init" => init \in {"ready", "completed"}
    <3> SUFFICES ASSUME state' = "circulation_init" PROVE init \in {"ready", "completed"}
      OBVIOUS
    <3>1. items["distribution"] > 0
      BY <2>3, RequiredValues
    <3>2. dcase = "running"
      BY <2>3, <3>1 DEF DossierInv, DistributionFollowsItem
    <3> QED
      BY <3>2 DEF PhaseFits
  <2>6. /\ RequiredItem(state') # "none" /\ items'[RequiredItem(state')] > 0
        /\ state' = "circulation_init" => init' \in {"ready", "completed"}
        /\ state' = "circulation" => init' = "completed"
    BY <2>1, <2>3, <2>5, RequiredValues DEF Circulating, distVars
  <2>7. KindFits' /\ state' \notin ClosedStates /\ state' \notin Halted
    BY <2>1, <2>3, <2>4 DEF KindFits, Circulating, ClosedStates, Halted
  <2>8. CaseFits' /\ ItemFits' /\ HaltFits'
    BY <2>1, <2>3, <2>6, <2>7 DEF CaseFits, ItemFits, HaltFits, OpenCase
  <2>9. Told
    BY <2>1, <2>3 DEF Told
  <2> QED
    BY <2>1, <2>3, <2>4, <2>7, <2>8, <2>9, IdleFits DEF StepFits, StateInv, Final, OpenCase
<1> QED
  BY <1>1, <1>2

(* The buttons of the construction control.                                *)

LEMMA CheckLeads ==
  ASSUME DossierInv, NEW task \in {"check-sb1", "check-sb2"}, NEW step, NEW next,
         HandlerSkips(task, step, next)
  PROVE  \A t \in MainTasks : items'[t] = items[t]
<1>1. task \in SideTasks
  BY DEF SideTasks
<1>2. \A t \in MainTasks : Process(items, {task})[t] = items[t]
  BY <1>1, ItemsNat, SideTaskValues
<1> QED
  BY <1>2 DEF HandlerSkips, SetItems

LEMMA ControlButtonFits ==
  ASSUME DossierInv, StateInv,
         \/ ButtonCloses("sb1", "reporting", "checking sb1")
         \/ HandlerSkips("check-sb1", "checking sb1", "saving sb2")
         \/ ButtonCloses("sb2", "finalizing", "checking sb2")
         \/ HandlerSkips("check-sb2", "checking sb2", "saving conclusion")
         \/ HandlerSkips("sb1", "ending sb1", "ending sb2")
         \/ ButtonCloses("sb2", "ending sb2", "ending conclusion")
  PROVE  StepFits
<1>1. /\ UNCHANGED <<kind, case, state, prev>>
      /\ handler \in Reports \cup Finals \cup Endings
      /\ handler' \in {"checking sb1", "saving sb2", "checking sb2", "saving conclusion",
                       "ending sb2", "ending conclusion"}
  BY DEF ButtonCloses, HandlerSkips, KeepState, Reports, Finals, Endings
<1>2. case = "running" /\ state \in {"sb1", "sb2"} /\ state \notin Halted /\ handler' \notin Steady
  BY <1>1 DEF StateInv, HandlerFits, Reports, Finals, Endings, Halted, Steady
<1>3. /\ handler' \in {"checking sb1", "saving sb2"} => state = "sb1"
      /\ handler' \in {"checking sb2", "saving conclusion"} => state = "sb2"
  BY <1>1 DEF ButtonCloses, HandlerSkips, StateInv, HandlerFits, Reports, Finals
<1>4. /\ handler' \in {"checking sb1", "saving sb2", "ending sb2"} => items'["sb2"] > 0
      /\ handler' \in {"checking sb2", "saving conclusion", "ending conclusion"} =>
           items'["complete"] > 0
  <2>1. CASE ButtonCloses("sb1", "reporting", "checking sb1")
    BY <2>1, ReportLeads DEF ButtonCloses, HandlerSkips, Ready, SetItems
  <2>2. CASE \/ ButtonCloses("sb2", "finalizing", "checking sb2")
             \/ ButtonCloses("sb2", "ending sb2", "ending conclusion")
    BY <2>2, ReportLeads DEF ButtonCloses, HandlerSkips, Ready, SetItems
  <2>3. CASE HandlerSkips("check-sb1", "checking sb1", "saving sb2")
    <3>1. handler = "checking sb1" /\ handler' = "saving sb2" /\ items'["sb2"] = items["sb2"]
      BY <2>3, CheckLeads DEF HandlerSkips, MainTasks
    <3> QED
      BY <3>1 DEF StateInv, HandlerFits
  <2>4. CASE HandlerSkips("check-sb2", "checking sb2", "saving conclusion")
    <3>1. /\ handler = "checking sb2" /\ handler' = "saving conclusion"
          /\ items'["complete"] = items["complete"]
      BY <2>4, CheckLeads DEF HandlerSkips, MainTasks
    <3> QED
      BY <3>1 DEF StateInv, HandlerFits
  <2>5. CASE HandlerSkips("sb1", "ending sb1", "ending sb2")
    <3>1. handler = "ending sb1" /\ handler' = "ending sb2"
      BY <2>5 DEF HandlerSkips
    <3>2. items[RequiredItem(state)] > 0
      BY <1>2, <3>1 DEF StateInv, ItemFits, Steady
    <3>3. CASE Ready("sb1")
      BY <2>5, <3>1, <3>3, ReportLeads DEF HandlerSkips, Ready, SetItems
    <3>4. CASE ~Ready("sb1")
      <4>1. items' = items /\ ~(items["sb1"] > 0)
        BY <1>2, <2>5, <3>4 DEF HandlerSkips, Ready
      <4> QED
        BY <1>2, <3>1, <3>2, <4>1, RequiredValues
    <3> QED
      BY <3>3, <3>4
  <2> QED
    BY <2>1, <2>2, <2>3, <2>4, <2>5
<1>5. HandlerFits'
  BY <1>1, <1>2, <1>3, <1>4 DEF HandlerFits, Saving, Closing, Reports, Finals, Endings
<1> QED
  BY <1>1, <1>2, <1>5, MidStep

LEMMA ControlSaveFits ==
  ASSUME DossierInv, StateInv,
         \/ ButtonSaves("saving sb2", "sb2")
         \/ ButtonSaves("saving conclusion", "conclusion")
         \/ ButtonSaves("saving finished", "finished")
  PROVE  StepFits
<1>1. /\ UNCHANGED <<kind, case, items>> /\ handler' = "idle" /\ handler # "undoing rejection"
      /\ \/ handler = "saving sb2" /\ state' = "sb2"
         \/ handler = "saving conclusion" /\ state' = "conclusion"
         \/ handler = "saving finished" /\ state' = "finished"
  BY DEF ButtonSaves
<1>2. CASE state' \in {"sb2", "conclusion"}
  <2>1. case = "running" /\ state \in Reporting
    BY <1>1, <1>2 DEF StateInv, HandlerFits, Reports, Finals, Reporting
  <2>2. kind # "internal" /\ state \notin ClosedStates
    BY <2>1, ReportingRuns
  <2>3. KindFits'
    BY <1>1, <1>2, <2>2 DEF KindFits
  <2>4. RequiredItem(state') # "none" /\ items'[RequiredItem(state')] > 0
    BY <1>1, <1>2, RequiredValues DEF StateInv, HandlerFits
  <2> QED
    BY <1>1, <1>2, <2>1, <2>2, <2>3, <2>4, ArriveStep
<1>3. CASE state' = "finished"
  <2>1. state = "finished"
    BY <1>1, <1>3 DEF StateInv, HandlerFits
  <2>2. case \notin OpenCase
    BY <2>1 DEF StateInv, CaseFits, ClosedStates
  <2>3. KindFits' /\ CaseFits' /\ ItemFits' /\ HaltFits'
    BY <1>1, <1>3, <2>1, <2>2
       DEF StateInv, KindFits, CaseFits, ItemFits, HaltFits, OpenCase, Halted
  <2> QED
    BY <1>1, <1>3, <2>1, <2>3, IdleFits DEF StepFits, StateInv, Final, Told
<1> QED
  BY <1>1, <1>2, <1>3

LEMMA ButtonFits ==
  ASSUME DossierInv, StateInv, PhaseFits, ButtonStep
  PROVE  StepFits
<1>1. CASE \/ ButtonSuspends("rejecting", "saving rejected")
           \/ ButtonSaves("saving rejected", "rejected")
           \/ ButtonSuspends("correcting", "saving correction")
           \/ ButtonSaves("saving correction", "correction")
  BY <1>1, HaltingFits
<1>2. CASE \/ ButtonResumes("cancelling rejection", "undoing rejection")
           \/ ButtonReturns("undoing rejection", "rejected")
  BY <1>2, UndoingFits DEF Halted
<1>3. CASE \/ ButtonResumes("ending correction", "undoing correction")
           \/ ButtonReturns("undoing correction", "correction")
  BY <1>3, UndoingFits DEF Halted
<1>4. CASE ButtonCompletes
  BY <1>4, CompletedFits DEF ButtonCompletes
<1> QED
  BY <1>1, <1>2, <1>3, <1>4, ControlButtonFits, ControlSaveFits DEF ButtonStep

LEMMA StateStep == DossierInv /\ StateInv /\ PhaseFits /\ [Next]_vars => StepFits
<1> SUFFICES ASSUME DossierInv, StateInv, PhaseFits, [Next]_vars PROVE StepFits
  OBVIOUS
<1>1. CASE handler = "idle" /\ Request
  BY <1>1, RequestFits
<1>2. CASE EchReceive
  BY <1>2, ReceiveFits
<1>3. CASE EchStep
  BY <1>3, DeclineFits, RulingFits, ClosingFits DEF EchStep
<1>4. CASE PressButton \/ ButtonStep
  BY <1>4, PressFits, ButtonFits
<1>5. CASE UNCHANGED vars
  <2>1. KindFits' /\ CaseFits'
    BY <1>5 DEF vars, dossierVars, distVars, StateInv, KindFits, CaseFits
  <2>2. ItemFits' /\ HaltFits'
    BY <1>5 DEF vars, dossierVars, distVars, StateInv, ItemFits, HaltFits, Fits
  <2>3. HandlerFits'
    BY <1>5 DEF vars, dossierVars, distVars, StateInv, HandlerFits, Undoing, Fits
  <2> QED
    BY <1>5, <2>1, <2>2, <2>3 DEF vars, dossierVars, StepFits, StateInv, Final, Told
<1> QED
  BY <1>1, <1>2, <1>3, <1>4, <1>5 DEF Next

StateInvs == DossierInv /\ StateInv /\ PhaseFits

LEMMA StateInvsStep == StateInvs /\ [Next]_vars => StateInvs'
<1> SUFFICES ASSUME StateInvs, [Next]_vars PROVE StateInvs'
  OBVIOUS
<1>1. [FaultyNext]_vars
  BY DEF Next, FaultyNext
<1>2. DossierInv' /\ PhaseFits'
  BY <1>1, DossierInvariantNext, DossierStepsDistribution, PhaseStep DEF StateInvs
<1>3. StateInv'
  BY StateStep DEF StateInvs, StepFits
<1> QED
  BY <1>2, <1>3 DEF StateInvs

LEMMA StateInvariant == Spec => []StateInvs
<1>1. DossierInit => StateInvs
  BY InitialInvariant, StateInvInit DEF StateInvs
<1> QED
  BY <1>1, StateInvsStep, PTL DEF Spec

-----------------------------------------------------------------------------
(* The theorems.                                                           *)

(* A dossier at rest has the item its state requires open while it runs,   *)
(* and is rejected or corrected, or was rejected before, while it does not.*)
LEMMA InvariantsAgree == StateInvs => StateMatchesItem
<1> SUFFICES ASSUME StateInvs, handler = "idle" PROVE StateMatchesItem
  BY DEF StateMatchesItem
<1>1. ASSUME case = "running"
      PROVE  /\ RequiredItem(state) \in OpenMainItems
             /\ state = "circulation_init" =>
                  \/ init = "ready"
                  \/ init = "completed" /\ prev \in {"rejected", "correction"}
             /\ state = "circulation" => init = "completed"
  <2>1. /\ RequiredItem(state) # "none" /\ items[RequiredItem(state)] > 0
        /\ state = "circulation_init" =>
             init = "ready" \/ (init = "completed" /\ prev \in Halted)
        /\ state = "circulation" => init = "completed"
        /\ state \in States
    BY <1>1 DEF StateInvs, StateInv, ItemFits, Steady, DossierInv, DossierTypeOK
  <2> QED
    BY <2>1, RequiredKnown DEF OpenMainItems, Halted
<1>2. ASSUME case = "suspended"
      PROVE  \/ state \in {"rejected", "correction"}
             \/ state \in {"subm", "in_progress_internal"} /\ prev = "rejected"
  BY <1>2 DEF StateInvs, StateInv, CaseFits, Halted, Saving
<1> QED
  BY <1>1, <1>2 DEF StateMatchesItem

(* The state and the item agree in every dossier created in the portal.    *)
THEOREM StateAndItemAgree == Spec => []StateMatchesItem
BY InvariantsAgree, StateInvariant, PTL

(* A dossier is in a closed state exactly if its case is closed, through   *)
(* decisions, archiving, resubmission, eCH handlers and buttons.           *)
THEOREM ClosedTogether == Spec => []ClosedStateClosesCase
<1>1. StateInvs => ClosedStateClosesCase
  BY DEF StateInvs, StateInv, CaseFits, ClosedStateClosesCase
<1> QED
  BY <1>1, StateInvariant, PTL

(* From the decision on a construction control is involved, however the    *)
(* decision was reached and whoever the controls hand over to.             *)
LEMMA InvariantsControl == StateInvs => ControlIsInvolved
<1> SUFFICES ASSUME StateInvs, state \in Reporting
             PROVE  ActiveIn(Controls, involved) # {}
  BY DEF ControlIsInvolved, Reporting
<1>0. DossierInv /\ StateInv /\ handler \in HandlerSteps
  BY DEF StateInvs, DossierInv, DossierTypeOK
<1>1. case = "running"
  BY <1>0, ReportingRuns
<1>2. \E t \in {"sb1", "sb2", "complete"} : items[t] > 0
  <2>1. CASE handler \in Steady
    BY <1>0, <1>1, <2>1, RequiredValues DEF StateInv, ItemFits, Reporting
  <2>2. CASE handler \in {"closing sb2", "completing", "checking sb1", "saving sb2",
                          "checking sb2", "saving conclusion", "ending sb2",
                          "ending conclusion"}
    BY <1>0, <2>2 DEF StateInv, HandlerFits
  <2>3. CASE handler \notin Steady \cup {"closing sb2", "completing", "checking sb1",
                                       "saving sb2", "checking sb2", "saving conclusion",
                                       "ending sb2", "ending conclusion"}
    <3>1. handler \in {"suspending", "deciding", "saving rejected", "saving correction",
                       "cancelling rejection", "ending correction", "undoing rejection",
                       "undoing correction", "saving finished"}
      BY <1>0, <2>3 DEF HandlerSteps, EchSteps, ButtonSteps, Steady
    <3>2. state \in {"rejected", "correction", "circulation", "coordination", "finished"}
          \/ case = "suspended"
      BY <1>0, <3>1 DEF StateInv, HandlerFits, Undoing, Saving
    <3> QED
      BY <1>1, <3>2 DEF Reporting
  <2> QED
    BY <2>1, <2>2, <2>3
<1>3. PICK t \in {"sb1", "sb2", "complete"} : items[t] > 0
  BY <1>2
<1>4. t \in ControlTasks \cup {"sb1", "sb2"} /\ items[t] # 0
  BY <1>3 DEF ControlTasks
<1> QED
  BY <1>0, <1>4 DEF DossierInv, ControlAfterDecision

(* A control is involved in every dossier that was decided in the portal.  *)
THEOREM ControlThere == Spec => []ControlIsInvolved
BY InvariantsControl, StateInvariant, PTL

LEMMA StepsAreFinal ==
  StateInvs /\ [Next]_vars =>
    [/\ state \in ClosedStates => state' \in {state, "archived"}
     /\ case \notin OpenCase => case' = case]_vars
BY StateStep DEF StateInvs, StepFits, Final

LEMMA StepsAreTold ==
  StateInvs /\ [Next]_vars =>
    [StatusNotified =>
       LET type == MessageType(state', prev')
       IN  /\ type # "none"
           /\ type = "circulation started" => state' = "circulation" \/ RejectionUndone
           /\ RejectionUndone =>
                type = IF state' = "circulation_init" THEN "number assigned"
                       ELSE "circulation started"]_vars
<1> DEFINE type == MessageType(state', prev')
           Told2 == /\ type # "none"
                    /\ type = "circulation started" => state' = "circulation" \/ RejectionUndone
                    /\ RejectionUndone =>
                         type = IF state' = "circulation_init" THEN "number assigned"
                                ELSE "circulation started"
<1> SUFFICES ASSUME Told, StatusNotified PROVE Told2
  BY StateStep DEF StateInvs, StepFits
<1>1. CASE handler = "undoing rejection"
  <2>1. state' = seen /\ prev' = "rejected" /\ RejectionUndone
    BY <1>1 DEF Told, StatusNotified, RejectionUndone
  <2> QED
    BY <2>1 DEF MessageType
<1>2. CASE handler # "undoing rejection"
  <2>1. ~RejectionUndone /\ (state' \in {"circulation_init", "circulation"} \/ prev' # "rejected")
    BY <1>2 DEF Told, StatusNotified, RejectionUndone
  <2> QED
    BY <2>1 DEF StatusNotified, MessageType
<1> QED
  BY <1>1, <1>2

(* A closed dossier is only ever archived, and its case never reopened.    *)
THEOREM ClosedForGood == Spec => ClosedIsFinal
BY StepsAreFinal, StateInvariant, PTL DEF Spec, ClosedIsFinal

(* The status notification that follows a step has a type, and names the   *)
(* state the dossier has come to; that of a cancelled rejection announces  *)
(* the circulation, or for a dossier that still waits for it its number.   *)
THEOREM NotifiedRight == Spec => NotificationNamesState
BY StepsAreTold, StateInvariant, PTL DEF Spec, NotificationNamesState

-----------------------------------------------------------------------------
(* Imported dossiers: where the writer leaves them, the invariants hold,   *)
(* so that the procedure keeps them from there on.                         *)

OneItemEach(ts) == [t \in Tasks |-> IF t \in ts THEN 1 ELSE 0]

LEMMA SkipValues ==
  ASSUME NEW its \in Items, NEW task \in Tasks \ {"decision", "complete"}, its[task] > 0
  PROVE  /\ SkipItem(its, task) \in Items
         /\ \A x \in Tasks :
              LET rest == IF x = task THEN 0 ELSE its[x]
              IN  SkipItem(its, task)[x] = IF x \in Flow(task) THEN rest + 1 ELSE rest
<1>0. its[task] # 0 /\ task # "decision" /\ task # "complete"
  BY DEF Items
<1>1. SkipItem(its, task) = Process(its, {task})
  BY <1>0, Zenon DEF SkipItem
<1>2. {task} \in SUBSET Tasks
  OBVIOUS
<1> QED
  BY <1>1, <1>2, ProcessValues

LEMMA ItemsByValue ==
  ASSUME NEW its \in Items, NEW ts, \A x \in Tasks : its[x] = IF x \in ts THEN 1 ELSE 0
  PROVE  its = OneItemEach(ts)
BY DEF Items, OneItemEach

LEMMA OneItemEachValues ==
  ASSUME NEW ts
  PROVE  /\ OneItemEach(ts) \in Items
         /\ \A x \in Tasks : OneItemEach(ts)[x] = IF x \in ts THEN 1 ELSE 0
BY DEF OneItemEach, Items

AfterNumber == {"distribution", "audit", "publication", "fill-publication",
                "information-of-neighbors", "nfd", "create-manual-workitems"}

LEMMA ImportedValues ==
  ASSUME kind = "building-permit"
  PROVE  /\ SubmittedItems = OneItemEach({"ebau-number", "nfd", "create-manual-workitems"})
         /\ NumberedItems = OneItemEach(AfterNumber)
         /\ ApprovedItems = OneItemEach({"sb1", "create-manual-workitems", "create-publication"})
         /\ DoneItems = OneItemEach({})
<1> DEFINE start == OneItemEach({"submit"})
           decide == SkipItem(NumberedItems, "distribution")
           second == SkipItem(ApprovedItems, "sb1")
           third == SkipItem(second, "sb2")
<1>0. /\ {"submit", "ebau-number", "distribution", "decision", "sb1", "sb2", "complete"}
           \subseteq Tasks
  BY DEF Tasks, MunicipalTasks, ControlTasks
<1>1. start \in Items /\ \A x \in Tasks : start[x] = IF x \in {"submit"} THEN 1 ELSE 0
  BY OneItemEachValues
<1>2. SubmittedItems = SkipItem(start, "submit")
  BY DEF SubmittedItems, OneItemEach
<1> HIDE DEF start
<1>3. SubmittedItems = OneItemEach({"ebau-number", "nfd", "create-manual-workitems"})
  <2>1. /\ SubmittedItems \in Items
        /\ \A x \in Tasks :
             SubmittedItems[x] = IF x \in AfterSubmit
                                 THEN (IF x = "submit" THEN 0 ELSE start[x]) + 1
                                 ELSE (IF x = "submit" THEN 0 ELSE start[x])
    BY <1>0, <1>1, <1>2, SkipValues, FlowValues
  <2>2. \A x \in Tasks : SubmittedItems[x] =
          IF x \in {"ebau-number", "nfd", "create-manual-workitems"} THEN 1 ELSE 0
    BY <1>1, <2>1 DEF AfterSubmit
  <2> QED
    BY <2>1, <2>2, ItemsByValue
<1>4. NumberedItems = OneItemEach(AfterNumber)
  <2>1. /\ SubmittedItems \in Items /\ \A x \in Tasks : SubmittedItems[x] =
             IF x \in {"ebau-number", "nfd", "create-manual-workitems"} THEN 1 ELSE 0
    BY <1>3, OneItemEachValues
  <2>2. /\ NumberedItems \in Items
        /\ \A x \in Tasks :
             NumberedItems[x] =
               IF x \in {"distribution", "audit", "publication", "fill-publication",
                         "information-of-neighbors"}
               THEN (IF x = "ebau-number" THEN 0 ELSE SubmittedItems[x]) + 1
               ELSE (IF x = "ebau-number" THEN 0 ELSE SubmittedItems[x])
    BY <1>0, <2>1, SkipValues, FlowValues DEF NumberedItems
  <2>3. \A x \in Tasks : NumberedItems[x] = IF x \in AfterNumber THEN 1 ELSE 0
    BY <2>1, <2>2 DEF AfterNumber
  <2> QED
    BY <2>2, <2>3, ItemsByValue
<1>5. ApprovedItems = OneItemEach({"sb1", "create-manual-workitems", "create-publication"})
  <2>1. NumberedItems \in Items /\ \A x \in Tasks :
          NumberedItems[x] = IF x \in AfterNumber THEN 1 ELSE 0
    BY <1>4, OneItemEachValues
  <2>2. /\ decide \in Items
        /\ \A x \in Tasks :
             decide[x] = IF x \in {"decision"}
                         THEN (IF x = "distribution" THEN 0 ELSE NumberedItems[x]) + 1
                         ELSE (IF x = "distribution" THEN 0 ELSE NumberedItems[x])
    BY <1>0, <2>1, SkipValues, FlowValues DEF AfterNumber
  <2>3. ApprovedItems = SkipItem(decide, "decision")
    BY DEF ApprovedItems
  <2> HIDE DEF decide
  <2>4. decide["decision"] = 1
    BY <1>0, <2>1, <2>2 DEF AfterNumber
  <2>5. ApprovedItems = Decided(decide, TRUE)
    BY <2>3, <2>4 DEF SkipItem
  <2>6. \A x \in {"submit", "distribution", "sb1", "sb2", "ebau-number"} \cup ControlTasks :
          x \in Tasks /\ decide[x] = 0
    BY <1>0, <2>1, <2>2, TasksKnown DEF AfterNumber, ControlTasks
  <2>7. /\ ApprovedItems \in Items
        /\ ApprovedItems["decision"] = 0 /\ ApprovedItems["sb1"] = 1
        /\ ApprovedItems["ebau-number"] = 0
        /\ \A x \in {"submit", "distribution", "sb2"} \cup ControlTasks :
             ApprovedItems[x] = 0
        /\ \A x \in {"create-manual-workitems", "create-publication"} :
             ApprovedItems[x] = 1
        /\ \A x \in {"audit", "publication", "fill-publication", "nfd", "awa",
                      "information-of-neighbors", "create-information-of-neighbors"} :
             ApprovedItems[x] = 0
    <3>1. decide \in Items /\ kind # "internal"
      BY <2>2
    <3>2. decide["sb1"] = 0 /\ decide["ebau-number"] = 0
          /\ \A x \in {"submit", "distribution", "sb2"} \cup ControlTasks : decide[x] = 0
      BY <2>6
    <3> HIDE DEF decide
    <3>3. LET out == Decided(decide, TRUE)
          IN  /\ out \in Items
              /\ out["decision"] = 0
              /\ out["sb1"] = decide["sb1"] + 1
              /\ out["ebau-number"] = decide["ebau-number"]
              /\ \A x \in {"submit", "distribution", "sb2"} \cup ControlTasks :
                   out[x] = decide[x]
              /\ \A x \in {"create-manual-workitems", "create-publication"} : out[x] = 1
              /\ \A x \in {"audit", "publication", "fill-publication", "nfd", "awa",
                            "information-of-neighbors",
                            "create-information-of-neighbors"} :
                   out[x] = 0
      BY <3>1, DecidedValues
    <3>4. ApprovedItems["sb1"] = 0 + 1
      BY <2>5, <3>2, <3>3
    <3>5. \A x \in {"submit", "distribution", "sb2"} \cup ControlTasks :
            ApprovedItems[x] = 0
      <4> TAKE x \in {"submit", "distribution", "sb2"} \cup ControlTasks
      <4>1. Decided(decide, TRUE)[x] = decide[x] /\ decide[x] = 0
        BY <3>2, <3>3, Zenon
      <4> QED
        BY <2>5, <4>1
    <3>6. 0 + 1 = 1
      OBVIOUS
    <3> QED
      BY <2>5, <3>2, <3>3, <3>4, <3>5, <3>6, Zenon
  <2>8. \A x \in Tasks : ApprovedItems[x] =
          IF x \in {"sb1", "create-manual-workitems", "create-publication"} THEN 1 ELSE 0
    BY <2>7 DEF Tasks, MunicipalTasks, ControlTasks
  <2> QED
    BY <2>7, <2>8, ItemsByValue
<1>6. DoneItems = OneItemEach({})
  <2>1. ApprovedItems \in Items /\ \A x \in Tasks : ApprovedItems[x] =
          IF x \in {"sb1", "create-manual-workitems", "create-publication"} THEN 1 ELSE 0
    BY <1>5, OneItemEachValues
  <2>2. /\ second \in Items
        /\ \A x \in Tasks :
             second[x] = IF x \in {"sb2", "check-sb1"}
                         THEN (IF x = "sb1" THEN 0 ELSE ApprovedItems[x]) + 1
                         ELSE (IF x = "sb1" THEN 0 ELSE ApprovedItems[x])
    BY <1>0, <2>1, SkipValues, FlowValues
  <2>3. DoneItems = SkipItem(third, "complete")
    BY DEF DoneItems
  <2> HIDE DEF second
  <2>4. second["sb2"] > 0
    BY <1>0, <2>1, <2>2
  <2>5. /\ third \in Items
        /\ \A x \in Tasks :
             third[x] = IF x \in {"complete", "check-sb2"}
                        THEN (IF x = "sb2" THEN 0 ELSE second[x]) + 1
                        ELSE (IF x = "sb2" THEN 0 ELSE second[x])
    BY <1>0, <2>2, <2>4, SkipValues, FlowValues
  <2> HIDE DEF third
  <2>6. third["complete"] = 1
    BY <1>0, <2>1, <2>2, <2>5
  <2>7. DoneItems = Cancel(PreComplete(third), {"complete"})
    BY <2>3, <2>6 DEF SkipItem
  <2>8. /\ PreComplete(third) \in Items
        /\ \A x \in Tasks : PreComplete(third)[x] =
             IF x \in {"check-sb1", "check-sb2", "create-manual-workitems", "awa",
                       "create-publication", "fill-publication"}
             THEN 0 ELSE third[x]
    BY <2>5, PreCompleteValues
  <2>9. /\ DoneItems \in Items
        /\ \A x \in Tasks : DoneItems[x] =
             IF x \in {"complete"} THEN 0 ELSE PreComplete(third)[x]
    BY <2>7, <2>8, CancelValues
  <2>10. \A x \in Tasks : DoneItems[x] = IF x \in {} THEN 1 ELSE 0
    BY <2>1, <2>2, <2>5, <2>8, <2>9
  <2> QED
    BY <2>9, <2>10, ItemsByValue
<1> QED
  BY <1>3, <1>4, <1>5, <1>6

(* The municipality of the form is responsible, and from the decision on   *)
(* its construction control.                                               *)
LEMMA ImportedRowsValues ==
  ASSUME NEW target \in Targets
  PROVE  /\ ImportedRows(target) \in Rows
         /\ ActiveIn(Authorities, ImportedRows(target)) = {FormMunicipality}
         /\ ActiveIn(Controls, ImportedRows(target)) =
              IF target = "SUBMITTED" THEN {} ELSE {ControlOf[FormMunicipality]}
         /\ Responsible(Authorities, ImportedRows(target)) = FormMunicipality
<1>1. /\ FormMunicipality \in Authorities /\ Controls \cap Authorities = {}
      /\ ControlOf[FormMunicipality] \in Controls /\ NoService \notin Authorities
  BY DossierAssumption, DistributionAssumption
<1>2. /\ ImportedRows(target) \in Rows
      /\ \A s \in AllServices : ImportedRows(target)[s] =
           IF s = FormMunicipality THEN "active"
           ELSE IF s = ControlOf[FormMunicipality] /\ target # "SUBMITTED" THEN "active"
           ELSE "none"
  BY <1>1 DEF ImportedRows, NoRows, Rows, AllServices
<1>3. /\ ActiveIn(Authorities, ImportedRows(target)) = {FormMunicipality}
      /\ ActiveIn(Controls, ImportedRows(target)) =
           IF target = "SUBMITTED" THEN {} ELSE {ControlOf[FormMunicipality]}
  BY <1>1, <1>2 DEF ActiveIn, AllServices
<1> QED
  BY <1>1, <1>2, <1>3, OnlyActiveIsResponsible

(* The tasks left open, by the target and the number.                      *)
Left(target, numbered) ==
  CASE target = "APPROVED" -> {"sb1", "create-manual-workitems", "create-publication"}
    [] target = "DONE"     -> {}
    [] OTHER               -> IF numbered THEN AfterNumber
                              ELSE {"ebau-number", "nfd", "create-manual-workitems"}

LeftMain(target, numbered) ==
  CASE target = "APPROVED" -> {"sb1"}
    [] target = "DONE"     -> {}
    [] OTHER               -> IF numbered THEN {"distribution"} ELSE {"ebau-number"}

LEMMA LeftValues ==
  ASSUME NEW target \in Targets, NEW numbered \in BOOLEAN
  PROVE  /\ Left(target, numbered) \subseteq Tasks
         /\ Left(target, numbered) \cap MainTasks = LeftMain(target, numbered)
         /\ target = "SUBMITTED" =>
              Left(target, numbered) \cap (ControlTasks \cup {"sb1", "sb2"}) = {}
         /\ target # "SUBMITTED" => Left(target, numbered) \cap BeforeDecision = {}
         /\ Left(target, numbered) = {} <=> target = "DONE"
<1>1. CASE target = "APPROVED"
  BY <1>1 DEF Left, LeftMain, Tasks, MunicipalTasks, ControlTasks, MainTasks,
     BeforeDecision
<1>2. CASE target = "DONE"
  BY <1>2 DEF Left, LeftMain
<1>3. CASE target = "SUBMITTED" /\ numbered
  BY <1>3 DEF Left, LeftMain, AfterNumber, Tasks, MunicipalTasks, ControlTasks, MainTasks
<1>4. CASE target = "SUBMITTED" /\ ~numbered
  BY <1>4 DEF Left, LeftMain, Tasks, MunicipalTasks, ControlTasks, MainTasks
<1> QED
  BY <1>1, <1>2, <1>3, <1>4 DEF Targets

LEMMA ImportedInvariants == ImportedInit => StateInvs
<1> SUFFICES ASSUME ImportedInit PROVE StateInvs
  OBVIOUS
<1>1. PICK target \in Targets, numbered \in BOOLEAN :
        /\ kind = "building-permit"
        /\ state = ImportedState(target, numbered)
        /\ prev = TargetState[target]
        /\ items = FastForwarded(target, numbered)
        /\ case = IF \A t \in Tasks : items[t] = 0 THEN "completed" ELSE "running"
        /\ involved = ImportedRows(target)
        /\ addressee = [t \in Tasks |->
             IF items[t] = 0 THEN NoService ELSE AddressGroup(t, involved)]
        /\ handler = "idle" /\ seen = "new"
        /\ ImportedDistribution(target, numbered)
  BY Zenon DEF ImportedInit
<1> DEFINE left == Left(target, numbered)
           main == LeftMain(target, numbered)
<1>2. items \in Items /\ \A t \in Tasks : items[t] = IF t \in left THEN 1 ELSE 0
  <2>1. items = OneItemEach(left)
    BY <1>1, ImportedValues DEF FastForwarded, Left, Targets
  <2> QED
    BY <2>1, OneItemEachValues
<1>3. /\ left \subseteq Tasks /\ left \cap MainTasks = main
      /\ target = "SUBMITTED" => left \cap (ControlTasks \cup {"sb1", "sb2"}) = {}
      /\ target # "SUBMITTED" => left \cap BeforeDecision = {}
      /\ left = {} <=> target = "DONE"
  BY LeftValues
<1> HIDE DEF left
<1>4. /\ state = IF target = "APPROVED" THEN "sb1"
                 ELSE IF target = "DONE" THEN "finished"
                 ELSE IF numbered THEN "circulation_init" ELSE "subm"
      /\ prev \in {"new", "sb1", "finished"}
  BY <1>1 DEF ImportedState, TargetState, Targets
<1>5. case = IF target = "DONE" THEN "completed" ELSE "running"
  <2>1. left = {} <=> \A t \in Tasks : items[t] = 0
    BY <1>2, <1>3
  <2> QED
    BY <1>1, <1>3, <2>1
<1>6. /\ involved \in Rows
      /\ ActiveIn(Authorities, involved) = {FormMunicipality}
      /\ ActiveIn(Controls, involved) =
           IF target = "SUBMITTED" THEN {} ELSE {ControlOf[FormMunicipality]}
      /\ Responsible(Authorities, involved) = FormMunicipality
  BY <1>1, ImportedRowsValues
<1>7. /\ DistTypeOK
      /\ dcase \in OpenCase <=> target = "SUBMITTED" /\ numbered
      /\ target = "SUBMITTED" /\ numbered =>
           dcase = "running" /\ init = "ready" /\ lead = FormMunicipality
  <2>1. CASE target = "SUBMITTED" /\ ~numbered
    BY <1>1, <2>1, TypeInit DEF ImportedDistribution, DistInit, OpenCase
  <2>2. CASE ~(target = "SUBMITTED" /\ ~numbered)
    <3>1. /\ dcase = IF target = "SUBMITTED" THEN "running" ELSE "canceled"
          /\ init = IF target = "SUBMITTED" THEN "ready" ELSE "canceled"
          /\ finish = init /\ lead = FormMunicipality /\ inquiries = <<>>
          /\ creates = [s \in Services |->
               IF s = FormMunicipality /\ target = "SUBMITTED" THEN 1 ELSE 0]
          /\ thawed = FALSE
      BY <1>1, <2>2 DEF ImportedDistribution
    <3>2. creates \in [Services -> Nat] /\ lead \in Authorities /\ inquiries \in Seq(Inquiry)
      BY <3>1, DossierAssumption
    <3> QED
      BY <2>2, <3>1, <3>2 DEF DistTypeOK, CaseStatus, ItemStatus, OpenCase
  <2> QED
    BY <2>1, <2>2
<1>8. Counted = MainTasks
  BY <1>1 DEF Counted
<1>9. DossierTypeOK
  <2>1. /\ kind \in Kinds /\ state \in States /\ prev \in States /\ seen \in States
        /\ case \in CaseStatus \ {"none"} /\ handler \in HandlerSteps
    BY <1>1, <1>4, <1>5, ImportedAssumption DEF States, CaseStatus, HandlerSteps, EchSteps
  <2>2. addressee \in [Tasks -> Authorities \cup Controls \cup {NoService}]
    BY <1>1, AddressGroupType
  <2> QED
    BY <1>2, <1>6, <1>7, <2>1, <2>2 DEF DossierTypeOK, Items, Rows, AllServices
<1>10. OneMain
  <2>1. case \in OpenCase => \E m \in MainTasks : left \cap MainTasks = {m}
    BY <1>3, <1>5 DEF LeftMain, OpenCase, MainTasks, Targets
  <2>2. \A t \in MainTasks : items[t] = IF t \in left \cap MainTasks THEN 1 ELSE 0
    BY <1>2, TasksKnown
  <2>3. case \in OpenCase =>
          \E m \in MainTasks : items[m] = 1 /\ \A t \in MainTasks \ {m} : items[t] = 0
    BY <2>1, <2>2
  <2>4. items["ebau-number"] <= 1
    BY <2>2 DEF MainTasks
  <2> QED
    BY <1>8, <2>3, <2>4 DEF OneMain
<1>11. ClosedCaseIsClean /\ DistributionFollowsItem
  <2>1. "distribution" \in left <=> target = "SUBMITTED" /\ numbered
    <3>1. "distribution" \in left <=> "distribution" \in main
      BY <1>3 DEF MainTasks
    <3> QED
      BY <3>1 DEF LeftMain, Targets
  <2>2. items["distribution"] > 0 <=> "distribution" \in left
    BY <1>2, TasksKnown DEF MainTasks
  <2>3. case \notin OpenCase => target = "DONE"
    BY <1>5 DEF OpenCase
  <2>4. target = "DONE" => \A t \in Tasks : items[t] = 0
    BY <1>2, <1>3
  <2> QED
    BY <1>5, <1>7, <2>1, <2>2, <2>3, <2>4 DEF ClosedCaseIsClean, DistributionFollowsItem
<1>12. OneActive /\ SomebodyResponsible
  BY <1>6 DEF OneActive, SomebodyResponsible
<1>13. SubmitFirst
  <2>1. "submit" \notin left
    BY <1>3 DEF LeftMain, MainTasks
  <2> QED
    BY <1>2, <2>1 DEF SubmitFirst, Tasks
<1>14. ControlAfterDecision
  <2>1. CASE target = "SUBMITTED"
    <3>1. \A t \in ControlTasks \cup {"sb1", "sb2"} : t \in Tasks /\ t \notin left
      BY <1>3, <2>1, TasksKnown DEF MainTasks
    <3> QED
      BY <1>2, <1>6, <2>1, <3>1 DEF ControlAfterDecision
  <2>2. CASE target # "SUBMITTED"
    <3>1. \A t \in BeforeDecision : t \in Tasks /\ t \notin left
      BY <1>3, <2>2, TasksKnown
    <3> QED
      BY <1>2, <1>6, <2>2, <3>1 DEF ControlAfterDecision
  <2> QED
    BY <2>1, <2>2
<1>15. AddressedToResponsible
  <2>1. \A t \in Tasks : items[t] > 0 => addressee[t] = AddressGroup(t, involved)
    BY <1>1, <1>2
  <2>2. dcase \in OpenCase => lead = Responsible(Authorities, involved)
    BY <1>6, <1>7
  <2>3. "awa" \notin left
    BY DEF left, Left, AfterNumber
  <2>4. \A t \in ControlTasks \cup {"awa"} :
          items[t] > 0 => addressee[t] \in Controls /\ involved[addressee[t]] # "none"
    <3> SUFFICES ASSUME NEW t \in ControlTasks \cup {"awa"}, items[t] > 0
                 PROVE  addressee[t] \in Controls /\ involved[addressee[t]] # "none"
      OBVIOUS
    <3>1. t \in ControlTasks /\ t \in Tasks /\ items[t] # 0
      BY <1>2, <2>3, TasksKnown DEF Tasks
    <3>2. ActiveIn(Controls, involved) # {}
      BY <1>14, <3>1 DEF ControlAfterDecision
    <3>3. addressee[t] = Responsible(Controls, involved)
      BY <2>1, <3>1, AddressGroupType
    <3> QED
      BY <3>2, <3>3, ResponsibleIsActive, TasksKnown DEF ActiveIn
  <2> QED
    BY <2>1, <2>2, <2>4 DEF AddressedToResponsible
<1>16. KindFits /\ CaseFits /\ HaltFits /\ HandlerFits /\ PhaseFits
  <2>1. HandlerFits
    BY <1>1 DEF HandlerFits, Saving, Closing, Reports, Finals, Endings
  <2>2. PhaseFits
    BY <1>7 DEF PhaseFits, OpenCase
  <2> QED
    BY <1>1, <1>4, <1>5, <2>1, <2>2 DEF KindFits, CaseFits, HaltFits, Halted, ClosedStates,
       OpenCase, Targets
<1>17. ItemFits
  <2> SUFFICES ASSUME case = "running" PROVE ItemFits
    BY DEF ItemFits
  <2>1. target # "DONE"
    BY <1>5
  <2>2. RequiredItem(state) # "none" /\ RequiredItem(state) \in main
    BY <1>4, <2>1, RequiredValues DEF LeftMain, Targets
  <2>3. RequiredItem(state) \in Tasks /\ RequiredItem(state) \in left
    BY <1>3, <2>2, TasksKnown
  <2>4. items[RequiredItem(state)] > 0
    BY <1>2, <2>3
  <2>5. (state = "circulation_init" => init = "ready") /\ state # "circulation"
    BY <1>4, <1>7, <2>1 DEF Targets
  <2> QED
    BY <2>2, <2>4, <2>5 DEF ItemFits
<1> QED
  BY <1>9, <1>10, <1>11, <1>12, <1>13, <1>14, <1>15, <1>16, <1>17
     DEF DossierInv, StateInv, StateInvs

LEMMA ImportedInvariant == ImportedSpec => []StateInvs
BY ImportedInvariants, StateInvsStep, PTL DEF ImportedSpec

(* Wherever the import leaves a dossier, its state and its open item agree *)
(* from there on, as if it had come that far through the portal.           *)
THEOREM ImportedStateAgrees == ImportedSpec => []StateMatchesItem
BY InvariantsAgree, ImportedInvariant, PTL

(* An imported dossier that is past its decision has a construction        *)
(* control, although no decision handler ran for it.                       *)
THEOREM ImportedHasControl == ImportedSpec => []ControlIsInvolved
BY InvariantsControl, ImportedInvariant, PTL

(* A dossier that runs or is closed, and is in no handler, is not ahead of *)
(* its items: its state is the one that requires the item that is open.    *)
LEMMA SettledNotAhead ==
  ASSUME StateInvs, handler = "idle", seen = "new", case # "suspended"
  PROVE  NotAhead
<1>0. DossierInv /\ StateInv /\ state \in States
  BY DEF StateInvs, DossierInv, DossierTypeOK
<1>1. Loaded /\ seen \in Behind
  BY BehindStates DEF Loaded, Early
<1>2. CASE case \notin OpenCase
  <2>1. /\ \A t \in Tasks : items[t] = 0
        /\ dcase \notin OpenCase
    BY <1>0, <1>2 DEF DossierInv, ClosedCaseIsClean
  <2>2. {"submit", "distribution", "decision", "ebau-number"} \subseteq Tasks
    BY DEF Tasks, MunicipalTasks
  <2>3. ~StillToStart /\ ~StillToDecide
    BY <2>1, <2>2 DEF StillToStart, StillToDecide
  <2>4. state \notin Halted
    BY <1>0, <1>2 DEF StateInv, CaseFits, ClosedStates, Halted
  <2>5. Reached \in Behind
    BY <1>0, <1>2, <2>3, <2>4, BehindStates DEF Reached, Halted
  <2> QED
    BY <1>1, <2>5 DEF NotAhead
<1>3. CASE case = "running"
  <2>1. \A m \in Counted : items[m] > 0 => RequiredItem(state) = m
    BY <1>0, <1>3, ItemTells DEF Steady
  <2>2. /\ {"submit", "distribution", "decision"} \subseteq Counted
        /\ kind # "internal" => "ebau-number" \in Counted
    BY DEF Counted, MainTasks
  <2>3. state # "archived" /\ state \notin Halted
    <3>1. RequiredItem(state) # "none"
      BY <1>0, <1>3 DEF StateInv, ItemFits, Steady
    <3> QED
      BY <3>1, RequiredValues DEF ClosedStates, Halted
  <2>4. dcase \in OpenCase => items["distribution"] > 0
    BY <1>0, DistributionRuns
  <2>5. /\ items["submit"] > 0 => state = "new"
        /\ items["distribution"] > 0 => state \in {"circulation_init", "circulation"}
        /\ items["decision"] > 0 => state \in {"coordination", "in_progress_internal"}
        /\ kind # "internal" /\ items["ebau-number"] > 0 => state = "subm"
    BY <1>0, <2>1, <2>2, StateOfItem
  <2>6. /\ StillToStart => state \in Early
        /\ StillToDecide => state \in Undecided
    BY <2>4, <2>5 DEF StillToStart, StillToDecide, Undecided, Early
  <2>7. Reached \in Behind
    BY <1>0, <2>3, <2>6 DEF Reached, Behind, Halted
  <2> QED
    BY <1>1, <2>7 DEF NotAhead
<1> QED
  BY <1>0, <1>2, <1>3 DEF DossierInv, DossierTypeOK, CaseStatus, OpenCase

(* Imported dossiers are like those of the portal also where handlers and  *)
(* buttons are overtaken or fail: one way on, nothing left open, one       *)
(* responsible service to which everything is addressed, what is reached   *)
(* is kept, and below them runs a distribution that takes only the steps   *)
(* of one.                                                                 *)
THEOREM ImportedLikeOthers ==
  ImportedInit /\ [][FaultyNext]_vars =>
    /\ [](DossierTypeOK /\ OneMainItem /\ ClosedCaseIsClean
          /\ DistributionFollowsItem /\ OneResponsible /\ AddressedToResponsible)
    /\ ReachedIsKept
    /\ [][DistNext]_distVars
<1>1. ImportedInit => DossierInv /\ NotAhead
  <2>1. ImportedInit => handler = "idle" /\ seen = "new" /\ case # "suspended"
    BY DEF ImportedInit
  <2> QED
    BY <2>1, ImportedInvariants, SettledNotAhead DEF StateInvs
<1>2. DossierInv /\ NotAhead /\ [FaultyNext]_vars => (DossierInv /\ NotAhead)'
  BY DossierInvariantNext, NotAheadStep
<1>3. DossierInv => /\ DossierTypeOK /\ OneMainItem /\ ClosedCaseIsClean
                    /\ DistributionFollowsItem /\ OneResponsible /\ AddressedToResponsible
  BY InvariantOneMain, InvariantOneResponsible DEF DossierInv
<1>4. DossierInv /\ NotAhead /\ [FaultyNext]_vars =>
        [\/ Rank(Reached') >= Rank(Reached)
         \/ state = "rejected" /\ state' \in {"subm", "in_progress_internal"}
         \/ handler # handler' /\ seen # Reached]_vars
  BY DossierInvariantNext, NotAheadStep, StepsKeepReached
<1>5. DossierInv /\ [FaultyNext]_vars => [DistNext]_distVars
  BY DossierStepsDistribution
<1> QED
  BY <1>1, <1>2, <1>3, <1>4, <1>5, PTL DEF ReachedIsKept

(* A closed dossier stays closed, and the notifications name its state,    *)
(* also if an import closed or decided it.                                 *)
THEOREM ImportedClosedForGood ==
  ImportedSpec => []ClosedStateClosesCase /\ ClosedIsFinal /\ NotificationNamesState
<1>1. StateInvs => ClosedStateClosesCase
  BY DEF StateInvs, StateInv, CaseFits, ClosedStateClosesCase
<1> QED
  BY <1>1, StepsAreFinal, StepsAreTold, ImportedInvariant, PTL
     DEF ImportedSpec, ClosedIsFinal, NotificationNamesState

=============================================================================

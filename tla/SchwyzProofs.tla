---------------------------- MODULE SchwyzProofs ----------------------------
(***************************************************************************)
(* Proofs about a dossier of Schwyz, for every number of services,         *)
(* inquiries, invitations and manual items.                                *)
(***************************************************************************)
EXTENDS SchwyzDossier, DistributionProofs, FiniteSetTheorems

-----------------------------------------------------------------------------
(* The items of the workflow.                                              *)

Manual == "create-manual-workitems"

(* Every task of must has an open item, only those of must and may have    *)
(* one, and only the manual items are more than one.                       *)
Holds(its, must, may) ==
  /\ its \in [Tasks -> Nat]
  /\ \A t \in Tasks :
       /\ t \in must => its[t] > 0
       /\ t \notin must \cup may => its[t] = 0
       /\ t # Manual => its[t] <= 1

(* The tables, entry by entry.                                             *)
LEMMA FlowOf ==
  /\ Flow["submit"] = {"complete-check", "reject-form", "depreciate-case", Manual}
  /\ Flow["formal-addition"] = {"reject-form", "complete-check", "depreciate-case"}
  /\ Flow["submit-additional-demand"] = {"additional-demand"}
  /\ Flow["complete-check"] = {"distribution", "additional-demand", "publication",
                               "building-authority"}
  /\ Flow["reject-form"] = {"formal-addition", "archive-instance"}
  /\ Flow["additional-demand"] = {"submit-additional-demand"}
  /\ Flow["distribution"] = {"make-decision"}
  /\ Flow["make-decision"] = {"archive-instance"}
  /\ Flow["depreciate-case"] = {"archive-instance"}
  /\ Flow["archive-instance"] = {}
  /\ Flow["publication"] = {}
BY DEF Flow, Tasks, SubmitTasks, Manual

LEMMA ClosedWithOf ==
  /\ ClosedWith("submit") = {"submit"}
  /\ ClosedWith("formal-addition") = {"formal-addition", "archive-instance"}
  /\ ClosedWith("submit-additional-demand") = {"submit-additional-demand"}
  /\ ClosedWith("complete-check") = {"complete-check", "reject-form"}
  /\ ClosedWith("reject-form") = {"reject-form", "complete-check", "depreciate-case"}
  /\ ClosedWith("additional-demand") = {"additional-demand"}
  /\ ClosedWith("distribution") = {"distribution", "additional-demand"}
  /\ ClosedWith("make-decision") = {"make-decision", "depreciate-case"}
  /\ ClosedWith("depreciate-case") =
       {"depreciate-case", "formal-addition", "complete-check", "reject-form",
        "publication", "distribution", "additional-demand",
        "submit-additional-demand", "make-decision"}
  /\ ClosedWith("archive-instance") = {"archive-instance", Manual, "building-authority"}
  /\ ClosedWith("publication") = {"publication"}
<1>1. /\ PreComplete["submit"] = {}
      /\ PreComplete["formal-addition"] = {"archive-instance"}
      /\ PreComplete["submit-additional-demand"] = {}
      /\ PreComplete["complete-check"] = {"reject-form"}
      /\ PreComplete["reject-form"] = {"complete-check", "depreciate-case"}
      /\ PreComplete["additional-demand"] = {}
      /\ PreComplete["distribution"] = {"additional-demand"}
      /\ PreComplete["make-decision"] = {"depreciate-case"}
      /\ PreComplete["archive-instance"] = {Manual, "building-authority"}
      /\ PreComplete["publication"] = {}
  BY DEF PreComplete, Tasks, SubmitTasks, Manual
<1>2. PreComplete["depreciate-case"] =
        {"formal-addition", "complete-check", "reject-form", "publication",
         "distribution", "additional-demand", "submit-additional-demand",
         "make-decision"}
  BY DEF PreComplete, Tasks, SubmitTasks
<1> QED
  BY <1>1, <1>2 DEF ClosedWith

(* Of the two tasks that share a flow each closes the other, so that the   *)
(* flow always continues.                                                  *)
LEMMA FlowContinues ==
  ASSUME NEW its, NEW t \in Tasks
  PROVE  Following(Without(its, ClosedWith(t)), t) = Flow[t]
<1>1. CASE t \notin Sharing
  BY <1>1 DEF Following
<1>2. CASE t \in Sharing
  <2>1. \A u \in Sharing : u \in ClosedWith(t) /\ u \in Tasks
    BY <1>2, ClosedWithOf DEF Sharing, Tasks
  <2>2. \A u \in Sharing : Without(its, ClosedWith(t))[u] = 0
    BY <2>1 DEF Without
  <2> QED
    BY <2>2 DEF Following
<1> QED
  BY <1>1, <1>2

(* What completing an item leaves of every task.                           *)
LEMMA CompletedAt ==
  ASSUME NEW its \in [Tasks -> Nat], NEW t \in Tasks
  PROVE  /\ Completed(its, t) \in [Tasks -> Nat]
         /\ \A u \in Tasks :
              Completed(its, t)[u] = (IF u \in ClosedWith(t) THEN 0 ELSE its[u])
                                     + (IF u \in Flow[t] THEN 1 ELSE 0)
<1> DEFINE left == Without(its, ClosedWith(t))
<1>1. /\ left \in [Tasks -> Nat]
      /\ \A u \in Tasks : left[u] = IF u \in ClosedWith(t) THEN 0 ELSE its[u]
  BY DEF Without
<1>2. Completed(its, t) = Create(left, Flow[t])
  BY FlowContinues DEF Completed
<1> HIDE DEF left
<1> QED
  BY <1>1, <1>2 DEF Create

(* Completing an item, in terms of the tasks that have one open.           *)
LEMMA Completing ==
  ASSUME NEW its, NEW must, NEW may, Holds(its, must, may), NEW t \in Tasks,
         NEW must1, NEW may1,
         Flow[t] \cap ((must \cup may) \ ClosedWith(t)) = {},
         must1 \subseteq (must \ ClosedWith(t)) \cup Flow[t],
         ((must \cup may) \ ClosedWith(t)) \cup Flow[t] \subseteq must1 \cup may1
  PROVE  Holds(Completed(its, t), must1, may1)
<1>1. /\ its \in [Tasks -> Nat]
      /\ Completed(its, t) \in [Tasks -> Nat]
      /\ \A u \in Tasks :
           Completed(its, t)[u] = (IF u \in ClosedWith(t) THEN 0 ELSE its[u])
                                  + (IF u \in Flow[t] THEN 1 ELSE 0)
  BY CompletedAt DEF Holds
<1> DEFINE its1 == Completed(its, t)
<1> HIDE DEF its1
<1> SUFFICES ASSUME NEW u \in Tasks
             PROVE  /\ u \in must1 => its1[u] > 0
                    /\ u \notin must1 \cup may1 => its1[u] = 0
                    /\ u # Manual => its1[u] <= 1
  BY <1>1 DEF Holds, its1
<1>2. /\ its[u] \in Nat
      /\ its1[u] = (IF u \in ClosedWith(t) THEN 0 ELSE its[u])
                   + (IF u \in Flow[t] THEN 1 ELSE 0)
      /\ u \in must => its[u] > 0
      /\ u \notin must \cup may => its[u] = 0
      /\ u # Manual => its[u] <= 1
  BY <1>1 DEF Holds, its1
<1>3. u \in Flow[t] => u \in ClosedWith(t) \/ u \notin must \cup may
  OBVIOUS
<1> QED
  BY <1>2, <1>3

(* Closing items without completing them, and knowing less of them.        *)
LEMMA Closing ==
  ASSUME NEW its, NEW must, NEW may, Holds(its, must, may), NEW ts
  PROVE  Holds(Without(its, ts), must \ ts, may \ ts)
BY DEF Holds, Without

(* The case runs as long as one item is open.                              *)
LEMMA CaseRuns ==
  ASSUME NEW its, NEW must, NEW may, Holds(its, must, may), must \cap Tasks # {}
  PROVE  CaseWith(its) = "running"
<1>1. PICK t \in Tasks : t \in must
  OBVIOUS
<1>2. its[t] # 0
  BY <1>1 DEF Holds
<1> QED
  BY <1>1, <1>2 DEF CaseWith

-----------------------------------------------------------------------------
(* The items of a state.                                                   *)

States == {"new", "subm", "rejected", "comm", "circ", "nfd", "redac", "done",
           "stopped", "arch"}

(* The states in which the item "distribution" is open.                    *)
Distributing == {"comm", "circ", "nfd"}

(* The tasks that have an open item in state s, entered from state p, of   *)
(* an imported dossier or of one handed in.                                *)
OpenIn(s, p, i) ==
  CASE s = "new"      -> {"submit"}
    [] s = "subm"     -> {"complete-check", "depreciate-case", Manual}
                           \cup (IF i THEN {} ELSE {"reject-form"})
    [] s = "rejected" -> {"formal-addition", "archive-instance", Manual}
    [] s \in {"comm", "circ"} ->
         {"distribution", "additional-demand", "building-authority",
          "depreciate-case", Manual}
    [] s = "nfd"      ->
         {"distribution", "submit-additional-demand", "building-authority",
          "depreciate-case", Manual}
    [] s = "redac"    ->
         {"make-decision", "building-authority", "depreciate-case", Manual}
    [] s \in {"done", "stopped"} -> {"archive-instance", "building-authority", Manual}
    [] s = "arch"     -> IF p = "rejected" THEN {"formal-addition"} ELSE {}

(* Those that may have one: the publication, and the documents that were   *)
(* demanded before the distribution ended.                                 *)
MayBeOpenIn(s, p) ==
  IF s \in Distributing THEN {"publication"}
  ELSE IF s \in {"redac", "done"} \/ (s = "arch" /\ p = "done")
       THEN {"publication", "submit-additional-demand"}
  ELSE {}

Fits(its, s, p, i) == Holds(its, OpenIn(s, p, i), MayBeOpenIn(s, p))

(* The tables of OpenIn and MayBeOpenIn, state by state.                   *)
LEMMA OpenInOf ==
  ASSUME NEW p, NEW i
  PROVE  /\ OpenIn("new", p, i) = {"submit"}
         /\ OpenIn("subm", p, i) = {"complete-check", "depreciate-case", Manual}
                                     \cup (IF i THEN {} ELSE {"reject-form"})
         /\ OpenIn("rejected", p, i) = {"formal-addition", "archive-instance", Manual}
         /\ \A s \in {"comm", "circ"} : OpenIn(s, p, i) =
              {"distribution", "additional-demand", "building-authority",
               "depreciate-case", Manual}
         /\ OpenIn("nfd", p, i) =
              {"distribution", "submit-additional-demand", "building-authority",
               "depreciate-case", Manual}
         /\ OpenIn("redac", p, i) =
              {"make-decision", "building-authority", "depreciate-case", Manual}
         /\ \A s \in {"done", "stopped"} : OpenIn(s, p, i) =
              {"archive-instance", "building-authority", Manual}
         /\ OpenIn("arch", p, i) = IF p = "rejected" THEN {"formal-addition"} ELSE {}
BY DEF OpenIn

LEMMA MayBeOpenInOf ==
  ASSUME NEW p
  PROVE  /\ \A s \in {"new", "subm", "rejected", "stopped"} : MayBeOpenIn(s, p) = {}
         /\ \A s \in Distributing : MayBeOpenIn(s, p) = {"publication"}
         /\ \A s \in {"redac", "done"} :
              MayBeOpenIn(s, p) = {"publication", "submit-additional-demand"}
         /\ MayBeOpenIn("arch", p) = IF p = "done"
                                     THEN {"publication", "submit-additional-demand"}
                                     ELSE {}
BY DEF MayBeOpenIn, Distributing

(* The tasks that lead from a state to another one.                        *)
Leads(s, t, s1, i) ==
  \/ ~i /\ t = "submit" /\ s = "new" /\ s1 = "subm"
  \/ ~i /\ t = "reject-form" /\ s = "subm" /\ s1 = "rejected"
  \/ ~i /\ t = "formal-addition" /\ s = "rejected" /\ s1 = "subm"
  \/ t = "complete-check" /\ s = "subm" /\ s1 = "comm"
  \/ t = "additional-demand" /\ s = "circ" /\ s1 = "nfd"
  \/ t = "submit-additional-demand" /\ s = "nfd" /\ s1 = "circ"
  \/ t = "distribution" /\ s \in Distributing /\ s1 = "redac"
  \/ t = "make-decision" /\ s = "redac" /\ s1 = "done"
  \/ t = "depreciate-case" /\ s \in {"comm", "circ", "redac", "nfd"} /\ s1 = "stopped"
  \/ t = "archive-instance" /\ s \in {"done", "rejected", "stopped"} /\ s1 = "arch"

(* Where a task leads, the items it leaves and creates are those of the    *)
(* state it leads to.                                                      *)
LEMMA ItemsFollow ==
  ASSUME NEW its, NEW s, NEW p, NEW i, Fits(its, s, p, i),
         NEW t, NEW s1, NEW p1, Leads(s, t, s1, i), s1 = "arch" => p1 = s
  PROVE  Fits(Completed(its, t), s1, p1, i)
<1> DEFINE must == OpenIn(s, p, i)
           may  == MayBeOpenIn(s, p)
           must1 == OpenIn(s1, p1, i)
           may1  == MayBeOpenIn(s1, p1)
<1>1. t \in Tasks
  BY DEF Leads, Tasks, SubmitTasks
<1>2. /\ Flow[t] \cap ((must \cup may) \ ClosedWith(t)) = {}
      /\ must1 \subseteq (must \ ClosedWith(t)) \cup Flow[t]
      /\ ((must \cup may) \ ClosedWith(t)) \cup Flow[t] \subseteq must1 \cup may1
  <2> USE FlowOf, ClosedWithOf, OpenInOf, MayBeOpenInOf DEF Distributing
  <2>1. CASE ~i /\ t = "submit" /\ s = "new" /\ s1 = "subm"
    BY <2>1
  <2>2. CASE ~i /\ t = "reject-form" /\ s = "subm" /\ s1 = "rejected"
    BY <2>2 DEF Manual
  <2>3. CASE ~i /\ t = "formal-addition" /\ s = "rejected" /\ s1 = "subm"
    BY <2>3 DEF Manual
  <2>4. CASE t = "complete-check" /\ s = "subm" /\ s1 = "comm"
    BY <2>4 DEF Manual
  <2>5. CASE t = "additional-demand" /\ s = "circ" /\ s1 = "nfd"
    BY <2>5 DEF Manual
  <2>6. CASE t = "submit-additional-demand" /\ s = "nfd" /\ s1 = "circ"
    BY <2>6 DEF Manual
  <2>7. CASE t = "distribution" /\ s \in Distributing /\ s1 = "redac"
    BY <2>7 DEF Manual
  <2>8. CASE t = "make-decision" /\ s = "redac" /\ s1 = "done"
    BY <2>8 DEF Manual
  <2>9. CASE t = "depreciate-case" /\ s \in {"comm", "circ", "redac", "nfd"}
             /\ s1 = "stopped"
    BY <2>9 DEF Manual
  <2>10. CASE t = "archive-instance" /\ s \in {"done", "rejected", "stopped"}
              /\ s1 = "arch"
    BY <2>10 DEF Manual
  <2> QED
    BY <2>1, <2>2, <2>3, <2>4, <2>5, <2>6, <2>7, <2>8, <2>9, <2>10 DEF Leads
<1> HIDE DEF must, may, must1, may1
<1>3. Holds(its, must, may)
  BY DEF Fits, must, may
<1>4. Holds(Completed(its, t), must1, may1)
  BY <1>1, <1>2, <1>3, Completing
<1> QED
  BY <1>4 DEF Fits, must1, may1

LEMMA StateRuns ==
  ASSUME NEW its, NEW s \in States \ {"arch"}, NEW p, NEW i, Fits(its, s, p, i)
  PROVE  CaseWith(its) = "running"
<1>1. OpenIn(s, p, i) \cap Tasks # {}
  <2>1. Manual \in Tasks /\ "submit" \in Tasks
    BY DEF Manual, Tasks, SubmitTasks
  <2>2. "submit" \in OpenIn(s, p, i) \/ Manual \in OpenIn(s, p, i)
    BY OpenInOf DEF States
  <2> QED
    BY <2>1, <2>2
<1> QED
  BY <1>1, CaseRuns DEF Fits

(* The item "distribution" is open in the states of the distribution.      *)
LEMMA DistributionIn ==
  ASSUME NEW its, NEW s \in States, NEW p, NEW i, Fits(its, s, p, i)
  PROVE  its["distribution"] = IF s \in Distributing THEN 1 ELSE 0
<1>1. "distribution" \in Tasks /\ "distribution" # Manual
  BY DEF Tasks, Manual
<1>2. /\ "distribution" \notin MayBeOpenIn(s, p)
      /\ "distribution" \in OpenIn(s, p, i) <=> s \in Distributing
  BY OpenInOf, MayBeOpenInOf DEF States, Distributing, Manual
<1>3. its["distribution"] \in Nat
  BY <1>1 DEF Fits, Holds
<1> QED
  BY <1>1, <1>2, <1>3 DEF Fits, Holds

-----------------------------------------------------------------------------
(* The dossier.                                                            *)

(* The items are those of the state, and the case is as they are.  An      *)
(* imported dossier is never new or rejected, documents are demanded only  *)
(* while the distribution circulates.                                      *)
ItemsInv ==
  /\ imported \in BOOLEAN
  /\ state \in States
  /\ Fits(items, state, prev, imported)
  /\ case = CaseWith(items)
  /\ state = "arch" => prev \in {"rejected", "done", "stopped", "arch"}
  /\ state = "nfd" => prev = "circ"
  /\ imported => state \notin {"new", "rejected"}

(* The distribution runs in its states, is over after them, and does not   *)
(* exist before them; it is only in the first that it has not begun.       *)
PartInv ==
  /\ state \in {"new", "subm", "rejected"} => dcase = "none"
  /\ state \in Distributing => dcase = "running"
  /\ state \in {"redac", "done", "stopped"} => dcase \in {"completed", "canceled"}
  /\ state = "arch" => dcase \in {"none", "completed", "canceled"}
  /\ state \in {"circ", "nfd"} => init # "ready"

(* A step along a task keeps the items in line with the state.             *)
LEMMA Moved ==
  ASSUME ItemsInv, NEW t, Leads(state, t, state', imported),
         items' = Completed(items, t), imported' = imported,
         case' = CaseWith(items'),
         state' = "arch" => prev' = state, state' = "nfd" => prev' = state
  PROVE  ItemsInv'
<1>1. Fits(items', state', prev', imported')
  BY ItemsFollow DEF ItemsInv
<1>2. /\ state' \in States
      /\ imported => state' \notin {"new", "rejected"}
      /\ state' = "arch" => prev' \in {"rejected", "done", "stopped", "arch"}
      /\ state' = "nfd" => prev' = "circ"
  BY DEF Leads, States, ItemsInv
<1> QED
  BY <1>1, <1>2 DEF ItemsInv

(* Handing in completes the one item the state has for it.                 *)
LEMMA SubmitLeads ==
  ASSUME ItemsInv, Submit
  PROVE  \E t \in SubmitTasks :
           items' = Completed(items, t) /\ Leads(state, t, state', imported)
<1>1. PICK t \in SubmitTasks :
        /\ OpenSubmits = {t}
        /\ items' = Completed(items, t)
        /\ IF t = "formal-addition"
           THEN state' = StateAfter(t)
           ELSE state' = IF state = "new" THEN "subm" ELSE prev
  BY DEF Submit, GoTo
<1>2. state \in {"new", "nfd", "rejected"}
  BY DEF Submit
<1>3. /\ state = "new" => t = "submit"
      /\ state = "nfd" => t = "submit-additional-demand"
      /\ state = "rejected" => t = "formal-addition"
  <2>1. \A u \in SubmitTasks \cap OpenIn(state, prev, imported) : u \in OpenSubmits
    BY DEF ItemsInv, Fits, Holds, OpenSubmits, Tasks
  <2>2. /\ state = "new" => "submit" \in OpenIn(state, prev, imported)
        /\ state = "nfd" => "submit-additional-demand" \in OpenIn(state, prev, imported)
        /\ state = "rejected" => "formal-addition" \in OpenIn(state, prev, imported)
    BY OpenInOf
  <2> QED
    BY <1>1, <2>1, <2>2 DEF SubmitTasks
<1>4. /\ state = "new" => state' = "subm"
      /\ state = "nfd" => state' = "circ"
      /\ state = "rejected" => state' = "subm"
  BY <1>1, <1>2, <1>3 DEF StateAfter, ItemsInv
<1>5. Leads(state, t, state', imported)
  BY <1>2, <1>3, <1>4 DEF Leads, ItemsInv
<1> QED
  BY <1>1, <1>5

LEMMA SubmitKeeps ==
  ASSUME ItemsInv, PartInv, Submit
  PROVE  ItemsInv' /\ PartInv' /\ UNCHANGED distVars
<1>1. PICK t \in SubmitTasks :
        items' = Completed(items, t) /\ Leads(state, t, state', imported)
  BY SubmitLeads
<1>2. /\ case = "running" /\ case' = case /\ imported' = imported
      /\ UNCHANGED distVars
  BY DEF Submit
<1>3. \/ state \in {"new", "rejected"} /\ state' = "subm"
      \/ state = "nfd" /\ state' = "circ"
  BY <1>1 DEF Leads, SubmitTasks
<1>4. case' = CaseWith(items')
  <2>1. Fits(items', state', prev', imported)
    BY <1>1, <1>3, ItemsFollow DEF ItemsInv
  <2>2. state' \in States \ {"arch"}
    BY <1>3 DEF States
  <2> QED
    BY <1>2, <2>1, <2>2, StateRuns
<1>5. ItemsInv'
  BY <1>1, <1>2, <1>3, <1>4, Moved
<1>6. dcase' = dcase /\ init' = init
  BY <1>2 DEF distVars
<1>7. PartInv'
  BY <1>3, <1>6 DEF PartInv, Distributing
<1> QED
  BY <1>2, <1>5, <1>7

(* Where the button of a task leads, unless an imported dossier is         *)
(* rejected, which fails.                                                  *)
LEMMA PressLeads ==
  ASSUME ItemsInv, NEW t \in Buttons, Press(t)
  PROVE  Leads(state, t, state', imported)
<1>1. /\ state \in OfferedIn(t) /\ items[t] > 0
      /\ state' = StateAfter(t)
  BY DEF Press, Ready, GoTo
<1>2. t = "reject-form" => ~imported
  <2> SUFFICES ASSUME t = "reject-form", imported
               PROVE  FALSE
    OBVIOUS
  <2>1. state = "subm" /\ t \in Tasks
    BY <1>1 DEF OfferedIn, Tasks
  <2>2. t \notin OpenIn(state, prev, imported) \cup MayBeOpenIn(state, prev)
    <3>1. /\ OpenIn("subm", prev, imported) =
               {"complete-check", "depreciate-case", Manual}
                 \cup (IF imported THEN {} ELSE {"reject-form"})
          /\ MayBeOpenIn("subm", prev) = {}
      BY OpenInOf, MayBeOpenInOf
    <3>2. OpenIn("subm", prev, imported) = {"complete-check", "depreciate-case", Manual}
      BY <3>1
    <3> QED
      BY <2>1, <3>1, <3>2 DEF Manual
  <2>3. items[t] = 0
    BY <2>1, <2>2 DEF ItemsInv, Fits, Holds
  <2> QED
    BY <1>1, <2>3
<1>3. /\ t = "complete-check" => state = "subm" /\ state' = "comm"
      /\ t = "reject-form" => state = "subm" /\ state' = "rejected"
      /\ t = "make-decision" => state = "redac" /\ state' = "done"
      /\ t = "archive-instance" =>
           state \in {"done", "rejected", "stopped"} /\ state' = "arch"
      /\ t = "additional-demand" => state = "circ" /\ state' = "nfd"
      /\ t = "depreciate-case" =>
           state \in {"comm", "circ", "redac", "nfd"} /\ state' = "stopped"
  BY <1>1 DEF OfferedIn, StateAfter
<1> QED
  BY <1>2, <1>3 DEF Leads, Buttons

LEMMA PressKeeps ==
  ASSUME ItemsInv, PartInv, NEW t \in Buttons, Press(t)
  PROVE  /\ ItemsInv' /\ PartInv'
         /\ \/ StartDistribution(Municipality) /\ UNCHANGED review
            \/ CancelDistribution /\ review' = NoReviews
            \/ UNCHANGED <<distVars, review>>
<1>1. /\ state' = StateAfter(t) /\ prev' = state /\ imported' = imported
      /\ items' = Completed(items, t) /\ case' = CaseWith(items')
      /\ DistributionFollows(items')
  BY DEF Press, GoTo
<1>2. Leads(state, t, state', imported)
  BY PressLeads
<1>3. ItemsInv'
  BY <1>1, <1>2, Moved
<1>4. /\ items["distribution"] = IF state \in Distributing THEN 1 ELSE 0
      /\ items'["distribution"] = IF state' \in Distributing THEN 1 ELSE 0
  BY <1>3, DistributionIn DEF ItemsInv
<1>5. /\ state \notin Distributing /\ state' \in Distributing =>
           StartDistribution(Municipality) /\ UNCHANGED review
      /\ state \in Distributing /\ state' \notin Distributing =>
           CancelDistribution /\ review' = NoReviews
      /\ (state \in Distributing <=> state' \in Distributing) =>
           UNCHANGED <<distVars, review>>
  BY <1>1, <1>4 DEF DistributionFollows
<1>6. PartInv'
  <2>1. CASE state \notin Distributing /\ state' \in Distributing
    <3>1. state' = "comm" /\ dcase' = "running"
      BY <1>2, <1>5, <2>1 DEF Leads, Distributing, StartDistribution, Buttons
    <3> QED
      BY <3>1 DEF PartInv, Distributing
  <2>2. CASE state \in Distributing /\ state' \notin Distributing
    <3>1. state' \in {"stopped", "redac"} /\ dcase' = "canceled"
      BY <1>2, <1>5, <2>2 DEF Leads, Distributing, CancelDistribution
    <3> QED
      BY <3>1 DEF PartInv, Distributing
  <2>3. CASE state \in Distributing <=> state' \in Distributing
    <3>1. dcase' = dcase /\ init' = init
      BY <1>5, <2>3 DEF distVars
    <3>2. \/ state \in {"circ", "nfd"} /\ state' \in {"circ", "nfd"}
          \/ state \in {"subm", "rejected", "new"} /\ state' \in {"subm", "rejected", "arch"}
          \/ state \in {"redac", "done", "stopped"} /\ state' \in {"done", "stopped", "arch"}
      BY <1>2, <2>3 DEF Leads, Distributing
    <3> QED
      BY <3>1, <3>2 DEF PartInv, Distributing
  <2> QED
    BY <2>1, <2>2, <2>3
<1> QED
  BY <1>3, <1>5, <1>6

(* A step that leaves the state keeps the items in line with it.           *)
LEMMA Unmoved ==
  ASSUME ItemsInv, UNCHANGED <<state, prev, imported>>,
         Fits(items', state, prev, imported), case' = CaseWith(items')
  PROVE  ItemsInv'
BY DEF ItemsInv

(* Only an archived dossier has a closed case.                             *)
LEMMA RunningOutsideArchive ==
  ASSUME ItemsInv
  PROVE  state # "arch" => case = "running"
BY StateRuns DEF ItemsInv

LEMMA ClosePublicationKeeps ==
  ASSUME ItemsInv, PartInv, ClosePublication
  PROVE  ItemsInv' /\ PartInv' /\ UNCHANGED <<distVars, review>>
<1>1. /\ items' = Completed(items, "publication") /\ case' = CaseWith(items')
      /\ UNCHANGED <<state, prev, imported, review, distVars>>
  BY DEF ClosePublication
<1>2. "publication" \in Tasks
  BY DEF Tasks
<1>3. "publication" \notin OpenIn(state, prev, imported)
  BY OpenInOf DEF ItemsInv, States, Manual
<1>4. Fits(items', state, prev, imported)
  BY <1>1, <1>2, <1>3, Completing, FlowOf, ClosedWithOf DEF ItemsInv, Fits
<1>5. PartInv'
  BY <1>1 DEF PartInv, distVars
<1> QED
  BY <1>1, <1>4, <1>5, Unmoved

LEMMA ManualKeeps ==
  ASSUME ItemsInv, PartInv, CreateManual \/ CompleteManual
  PROVE  ItemsInv' /\ PartInv' /\ UNCHANGED <<distVars, review>>
<1>1. /\ items[Manual] > 0 /\ case = "running" /\ case' = case
      /\ UNCHANGED <<state, prev, imported, review, distVars>>
  BY DEF CreateManual, CompleteManual, Ready, Manual
<1>2. /\ items \in [Tasks -> Nat] /\ Manual \in Tasks
      /\ state \in States
  BY DEF ItemsInv, Fits, Holds, Tasks, Manual
<1>3. /\ items' \in [Tasks -> Nat]
      /\ items'[Manual] > 0
      /\ \A t \in Tasks \ {Manual} : items'[t] = items[t]
  <2>1. CASE CreateManual
    BY <1>1, <1>2, <2>1 DEF CreateManual, Create, Manual
  <2>2. CASE CompleteManual
    <3>1. items' = [items EXCEPT ![Manual] = items[Manual] - 1] /\ items[Manual] > 1
      BY <2>2 DEF CompleteManual, Manual
    <3> QED
      BY <1>2, <3>1
  <2> QED
    BY <2>1, <2>2
<1>4. Fits(items', state, prev, imported)
  BY <1>1, <1>2, <1>3 DEF ItemsInv, Fits, Holds
<1>5. case' = CaseWith(items')
  BY <1>1, <1>2, <1>3 DEF CaseWith
<1>6. PartInv'
  BY <1>1 DEF PartInv, distVars
<1> QED
  BY <1>1, <1>4, <1>5, <1>6, Unmoved

(* What the page of the distribution does to the child case.               *)
LEMMA DistributeSteps ==
  ASSUME Distribute
  PROVE  /\ dcase = "running" /\ dcase' = dcase
         /\ init' = init \/ (init = "ready" /\ init' = "completed")
         /\ UNCHANGED <<case, items, imported>>
         /\ StateAfterInit
BY DEF Distribute, CreateInquiries, SendInquiry, WithdrawInquiry, CheckInquiry,
       CompleteInit, InitAfterSend

LEMMA DistributeKeeps ==
  ASSUME ItemsInv, PartInv, Distribute
  PROVE  ItemsInv' /\ PartInv'
<1>1. /\ dcase = "running" /\ dcase' = dcase
      /\ init' = init \/ (init = "ready" /\ init' = "completed")
      /\ case' = case /\ items' = items /\ imported' = imported
      /\ StateAfterInit
  BY DistributeSteps
<1>2. state \in Distributing
  BY <1>1 DEF PartInv, ItemsInv, States, Distributing
<1>3. CASE init = "ready" /\ init' = "completed"
  <2>1. state \in {"comm", "circ"} /\ state' = "circ" /\ prev' = state
    BY <1>1, <1>2, <1>3 DEF StateAfterInit, GoTo, StateAfter, PartInv, Distributing
  <2>2. /\ OpenIn(state', prev', imported) = OpenIn(state, prev, imported)
        /\ MayBeOpenIn(state', prev') = MayBeOpenIn(state, prev)
    BY <2>1 DEF OpenIn, MayBeOpenIn, Distributing
  <2>3. Fits(items', state', prev', imported')
    BY <1>1, <2>2 DEF ItemsInv, Fits
  <2>4. ItemsInv'
    BY <1>1, <2>1, <2>3 DEF ItemsInv, States
  <2> QED
    BY <1>1, <1>3, <2>1, <2>4 DEF PartInv, Distributing
<1>4. CASE ~(init = "ready" /\ init' = "completed")
  <2>1. state' = state /\ prev' = prev /\ init' = init
    BY <1>1, <1>4 DEF StateAfterInit
  <2> QED
    BY <1>1, <2>1 DEF ItemsInv, PartInv
<1> QED
  BY <1>3, <1>4

LEMMA ReviewStepKeeps ==
  ASSUME ItemsInv, PartInv, NEW i \in 1..Len(inquiries), NEW t \in ReviewTasks,
         ReviewStep(i, t)
  PROVE  ItemsInv' /\ PartInv'
<1>1. UNCHANGED <<state, prev, case, items, imported, dcase, init>>
  BY DEF ReviewStep, AnswerInquiry, distVars
<1> QED
  BY <1>1 DEF ItemsInv, PartInv

LEMMA EndKeeps ==
  ASSUME ItemsInv, PartInv, EndDistribution
  PROVE  ItemsInv' /\ PartInv'
<1>1. /\ case = "running" /\ case' = case /\ imported' = imported
      /\ items["distribution"] > 0
      /\ items' = Completed(items, "distribution")
      /\ state' = "redac" /\ prev' = state /\ dcase' = "completed"
  BY DEF EndDistribution, Ready, GoTo, StateAfter, CompleteDistribution
<1>2. state \in Distributing
  <2>1. items["distribution"] = IF state \in Distributing THEN 1 ELSE 0
    BY DistributionIn DEF ItemsInv
  <2> QED
    BY <1>1, <2>1
<1>3. Leads(state, "distribution", state', imported)
  BY <1>1, <1>2 DEF Leads
<1>4. case' = CaseWith(items')
  <2>1. Fits(items', state', prev', imported)
    BY <1>1, <1>3, ItemsFollow DEF ItemsInv
  <2>2. state' \in States \ {"arch"}
    BY <1>1 DEF States
  <2> QED
    BY <1>1, <2>1, <2>2, StateRuns
<1>5. ItemsInv'
  BY <1>1, <1>3, <1>4, Moved
<1>6. PartInv'
  BY <1>1 DEF PartInv, Distributing
<1> QED
  BY <1>5, <1>6

(* The items and the part of the dossier stay in line, whatever happens.   *)
LEMMA ItemsNext == ItemsInv /\ PartInv /\ [Next]_vars => ItemsInv' /\ PartInv'
<1> SUFFICES ASSUME ItemsInv, PartInv, [Next]_vars
             PROVE  ItemsInv' /\ PartInv'
  OBVIOUS
<1>1. CASE UNCHANGED vars
  <2>1. UNCHANGED <<state, prev, case, items, imported, dcase, init>>
    BY <1>1 DEF vars, schwyzVars, distVars
  <2> QED
    BY <2>1 DEF ItemsInv, PartInv
<1>2. CASE Next
  BY <1>2, SubmitKeeps, PressKeeps, ClosePublicationKeeps, ManualKeeps,
     DistributeKeeps, ReviewStepKeeps, EndKeeps DEF Next
<1> QED
  BY <1>1, <1>2

LEMMA ItemsInit == Init => ItemsInv /\ PartInv
<1> SUFFICES ASSUME Init PROVE ItemsInv /\ PartInv
  OBVIOUS
<1> DEFINE demanded == {"complete-check", "depreciate-case", Manual}
<1>1. Fits(NewItems, "new", "new", FALSE)
  <2>1. Holds(NewItems, {"submit"}, {})
    BY DEF Holds, NewItems, Create, NoItems, Tasks, SubmitTasks, Manual
  <2>2. OpenIn("new", "new", FALSE) = {"submit"} /\ MayBeOpenIn("new", "new") = {}
    BY OpenInOf, MayBeOpenInOf
  <2> QED
    BY <2>1, <2>2 DEF Fits
<1>2. Holds(SubmittedItems, demanded, {})
  <2>1. Leads("new", "submit", "subm", FALSE)
    BY DEF Leads
  <2>2. Fits(Completed(NewItems, "submit"), "subm", "new", FALSE)
    BY <1>1, <2>1, ItemsFollow
  <2>3. Holds(Completed(NewItems, "submit"), demanded \cup {"reject-form"}, {})
    <3>1. /\ OpenIn("subm", "new", FALSE) = demanded \cup {"reject-form"}
          /\ MayBeOpenIn("subm", "new") = {}
      BY MayBeOpenInOf DEF OpenIn
    <3> QED
      BY <2>2, <3>1 DEF Fits
  <2>4. Holds(SubmittedItems, (demanded \cup {"reject-form"}) \ {"reject-form"},
              {} \ {"reject-form"})
    BY <2>3, Closing DEF SubmittedItems
  <2>5. /\ (demanded \cup {"reject-form"}) \ {"reject-form"} = demanded
        /\ {} \ {"reject-form"} = {}
    BY DEF Manual
  <2> QED
    BY <2>4, <2>5
<1>3. Holds(ApprovedItems, {"archive-instance", "building-authority", Manual}, {})
  <2> DEFINE checked == Completed(SubmittedItems, "complete-check")
             distributed == Completed(checked, "distribution")
             closed == Without(distributed, {"publication"})
  <2>0. {"complete-check", "distribution", "make-decision"} \subseteq Tasks
    BY DEF Tasks
  <2>1. Holds(checked, {"distribution", "additional-demand", "building-authority",
                        "depreciate-case", Manual}, {"publication"})
    BY <1>2, <2>0, Completing, FlowOf, ClosedWithOf DEF Manual
  <2> HIDE DEF checked
  <2>2. Holds(distributed, {"make-decision", "building-authority", "depreciate-case",
                            Manual}, {"publication"})
    BY <2>0, <2>1, Completing, FlowOf, ClosedWithOf DEF Manual
  <2> HIDE DEF distributed
  <2>3. Holds(closed, {"make-decision", "building-authority", "depreciate-case",
                       Manual}, {})
    <3>1. /\ {"make-decision", "building-authority", "depreciate-case", Manual}
               \ {"publication"}
             = {"make-decision", "building-authority", "depreciate-case", Manual}
          /\ {"publication"} \ {"publication"} = {}
      BY DEF Manual
    <3> QED
      BY <2>2, <3>1, Closing
  <2> HIDE DEF closed
  <2>4. Holds(Completed(closed, "make-decision"),
              {"archive-instance", "building-authority", Manual}, {})
    BY <2>0, <2>3, Completing, FlowOf, ClosedWithOf DEF Manual
  <2> QED
    BY <2>4 DEF ApprovedItems, checked, distributed, closed
<1>4. Holds(DoneItems, {}, {})
  <2>1. "archive-instance" \in Tasks
    BY DEF Tasks
  <2> QED
    BY <1>3, <2>1, Completing, FlowOf, ClosedWithOf DEF DoneItems, Manual
<1>5. CASE ~imported
  <2>1. state = "new" /\ prev = state /\ items = NewItems /\ imported = FALSE
    BY <1>5 DEF Init
  <2>2. Fits(items, state, prev, imported)
    BY <1>1, <2>1
  <2>3. DistInit /\ case = CaseWith(items)
    BY <1>5 DEF Init
  <2> QED
    BY <2>1, <2>2, <2>3 DEF ItemsInv, PartInv, States, DistInit, Distributing
<1>6. CASE imported
  <2>0. imported = TRUE
    BY <1>6 DEF Init
  <2>1. /\ state \in {"subm", "done", "arch"} /\ prev = state
        /\ items = ImportedItems(state) /\ case = CaseWith(items)
        /\ state # "subm" => SkippedDistribution
        /\ state = "subm" => DistInit
    BY <2>0 DEF Init
  <2>2. Fits(items, state, prev, imported)
    <3>1. CASE state = "subm"
      <4>1. /\ OpenIn(state, prev, TRUE) = demanded
            /\ MayBeOpenIn(state, prev) = {}
        BY <3>1, OpenInOf, MayBeOpenInOf
      <4>2. items = SubmittedItems
        BY <2>1, <3>1 DEF ImportedItems
      <4> QED
        BY <1>2, <2>0, <4>1, <4>2 DEF Fits
    <3>2. CASE state = "done"
      <4>1. /\ OpenIn(state, prev, TRUE) =
                 {"archive-instance", "building-authority", Manual}
            /\ items = ApprovedItems
        BY <2>1, <3>2, OpenInOf DEF ImportedItems
      <4>2. Holds(items, OpenIn(state, prev, TRUE), {})
        BY <1>3, <4>1
      <4>3. Holds(items, OpenIn(state, prev, TRUE), MayBeOpenIn(state, prev))
        BY <4>2 DEF Holds
      <4> QED
        BY <2>0, <4>3 DEF Fits
    <3>3. CASE state = "arch"
      <4>1. /\ OpenIn(state, prev, TRUE) = {} /\ MayBeOpenIn(state, prev) = {}
            /\ items = DoneItems
        BY <2>1, <3>3, OpenInOf, MayBeOpenInOf DEF ImportedItems
      <4> QED
        BY <1>4, <2>0, <4>1 DEF Fits
    <3> QED
      BY <2>1, <3>1, <3>2, <3>3
  <2>3. PartInv
    BY <2>1 DEF PartInv, SkippedDistribution, DistInit, Distributing
  <2>4. /\ imported \in BOOLEAN /\ state \in States
        /\ state = "arch" => prev \in {"rejected", "done", "stopped", "arch"}
        /\ state = "nfd" => prev = "circ"
        /\ state \notin {"new", "rejected"}
    BY <2>0, <2>1 DEF States
  <2> QED
    BY <2>1, <2>2, <2>3, <2>4 DEF ItemsInv
<1> QED
  BY <1>5, <1>6

LEMMA ItemsAlways == Spec => [](ItemsInv /\ PartInv)
BY ItemsInit, ItemsNext, PTL DEF Spec

(* The one task by which a state is handed in.                             *)
LEMMA OneSubmit ==
  ASSUME ItemsInv, state \in {"new", "nfd", "rejected"}
  PROVE  Cardinality(OpenSubmits) = 1
<1> DEFINE task == CASE state = "new" -> "submit"
                     [] state = "nfd" -> "submit-additional-demand"
                     [] state = "rejected" -> "formal-addition"
<1>1. task \in SubmitTasks /\ task \in OpenIn(state, prev, imported)
  BY OpenInOf DEF SubmitTasks
<1>2. \A t \in SubmitTasks : t # task =>
        t \notin OpenIn(state, prev, imported) \cup MayBeOpenIn(state, prev)
  BY OpenInOf, MayBeOpenInOf DEF SubmitTasks, Distributing, Manual
<1> HIDE DEF task
<1>3. \A t \in SubmitTasks : items[t] > 0 <=> t = task
  BY <1>1, <1>2 DEF ItemsInv, Fits, Holds, Tasks
<1>4. OpenSubmits = {task}
  BY <1>1, <1>3 DEF OpenSubmits
<1> QED
  BY <1>4, FS_Singleton

LEMMA ButtonOpen ==
  ASSUME ItemsInv, NEW t \in Buttons, state \in OfferedIn(t),
         ~(imported /\ t = "reject-form")
  PROVE  Ready(t) /\ items[t] = 1
<1>1. t \in Tasks /\ t # Manual /\ state # "arch"
  BY DEF Buttons, Tasks, Manual, OfferedIn
<1>2. t \in OpenIn(state, prev, imported)
  <2>1. \/ t = "complete-check" /\ state = "subm"
        \/ t = "reject-form" /\ state = "subm"
        \/ t = "make-decision" /\ state = "redac"
        \/ t = "archive-instance" /\ state \in {"done", "rejected", "stopped"}
        \/ t = "additional-demand" /\ state = "circ"
        \/ t = "depreciate-case" /\ state \in {"comm", "circ", "redac", "nfd"}
    BY DEF Buttons, OfferedIn
  <2>2. CASE t = "reject-form" /\ state = "subm"
    BY <2>2 DEF OpenIn
  <2> QED
    BY <2>1, <2>2, OpenInOf
<1>3. items[t] > 0 /\ items[t] <= 1 /\ items[t] \in Nat
  BY <1>1, <1>2 DEF ItemsInv, Fits, Holds
<1> QED
  BY <1>1, <1>3, RunningOutsideArchive DEF Ready

(* Every button a state offers finds its item, and who may hand something  *)
(* in finds exactly one item for it, whatever came before.                 *)
THEOREM ButtonsWork == Spec => []OfferedIsOpen
<1>1. ItemsInv => OfferedIsOpen
  <2> SUFFICES ASSUME ItemsInv PROVE OfferedIsOpen
    OBVIOUS
  <2>1. state \in {"new", "nfd", "rejected"} => case = "running"
    BY RunningOutsideArchive
  <2> QED
    BY <2>1, OneSubmit, ButtonOpen DEF OfferedIsOpen
<1> QED
  BY <1>1, ItemsAlways, PTL

(* An archived dossier leaves open only a publication, the addition to a   *)
(* rejected dossier or documents that were demanded and not handed in, and *)
(* its case goes on exactly as long as one of them is open.                *)
THEOREM ArchiveLeaves == Spec => []LeftInArchive
<1>1. ItemsInv /\ PartInv => LeftInArchive
  <2> SUFFICES ASSUME ItemsInv, PartInv PROVE LeftInArchive
    OBVIOUS
  <2>1. \A t \in Tasks : items[t] \in Nat
    BY DEF ItemsInv, Fits, Holds
  <2>2. case = "completed" <=> Open = {}
    <3>1. Open = {} <=> \A t \in Tasks : items[t] = 0
      BY <2>1 DEF Open
    <3> QED
      BY <3>1 DEF ItemsInv, CaseWith
  <2>3. case = "completed" => state = "arch"
    BY RunningOutsideArchive
  <2>4. ASSUME state = "arch"
        PROVE  /\ Open \subseteq {"publication", "submit-additional-demand",
                                  "formal-addition"}
               /\ items["formal-addition"] > 0 <=> prev = "rejected"
               /\ items["submit-additional-demand"] > 0 => prev = "done"
               /\ prev \in {"stopped", "arch"} => Open = {}
               /\ dcase \notin {"running", "suspended"}
    <3>1. /\ OpenIn(state, prev, imported) =
               IF prev = "rejected" THEN {"formal-addition"} ELSE {}
          /\ MayBeOpenIn(state, prev) =
               IF prev = "done" THEN {"publication", "submit-additional-demand"} ELSE {}
      BY <2>4, OpenInOf, MayBeOpenInOf
    <3>2. Open \subseteq OpenIn(state, prev, imported) \cup MayBeOpenIn(state, prev)
      BY <2>1 DEF Open, ItemsInv, Fits, Holds
    <3>3. \A t \in OpenIn(state, prev, imported) \cap Tasks : items[t] > 0
      BY DEF ItemsInv, Fits, Holds
    <3>4. /\ "formal-addition" \in Tasks /\ "submit-additional-demand" \in Tasks
          /\ \A t \in Tasks : t \in Open <=> items[t] > 0
      BY DEF Tasks, SubmitTasks, Open
    <3>5. dcase \notin {"running", "suspended"}
      BY <2>4 DEF PartInv
    <3> QED
      BY <3>1, <3>2, <3>3, <3>4, <3>5
  <2> QED
    BY <2>2, <2>3, <2>4 DEF LeftInArchive
<1> QED
  BY <1>1, ItemsAlways, PTL

-----------------------------------------------------------------------------
(* No way back.                                                            *)

(* Every step along a task is one of Leads; the others leave the state, or *)
(* begin the circulation.                                                  *)
LEMMA StateSteps ==
  ItemsInv /\ PartInv /\ [Next]_vars =>
    \/ state' = state
    \/ state \in Distributing /\ state' = "circ"
    \/ \E t \in Tasks : Leads(state, t, state', imported)
<1> SUFFICES ASSUME ItemsInv, PartInv, [Next]_vars
             PROVE  \/ state' = state
                    \/ state \in Distributing /\ state' = "circ"
                    \/ \E t \in Tasks : Leads(state, t, state', imported)
  OBVIOUS
<1>1. CASE Submit
  <2>1. \E t \in SubmitTasks : Leads(state, t, state', imported)
    BY <1>1, SubmitLeads
  <2> QED
    BY <2>1 DEF Tasks
<1>2. ASSUME NEW t \in Buttons, Press(t)
      PROVE  \E u \in Tasks : Leads(state, u, state', imported)
  <2>1. t \in Tasks
    BY DEF Buttons, Tasks
  <2> QED
    BY <1>2, <2>1, PressLeads
<1>3. CASE ClosePublication \/ CreateManual \/ CompleteManual \/ UNCHANGED vars
  BY <1>3 DEF ClosePublication, CreateManual, CompleteManual, vars, schwyzVars
<1>4. CASE Distribute
  <2>1. dcase = "running" /\ StateAfterInit
    BY <1>4, DistributeSteps
  <2>2. state \in Distributing
    BY <2>1 DEF PartInv, ItemsInv, States, Distributing
  <2> QED
    BY <2>1, <2>2 DEF StateAfterInit, GoTo, StateAfter
<1>5. ASSUME NEW i \in 1..Len(inquiries), NEW t \in ReviewTasks, ReviewStep(i, t)
      PROVE  state' = state
  BY <1>5 DEF ReviewStep
<1>6. CASE EndDistribution
  <2>1. items["distribution"] > 0 /\ state' = "redac"
    BY <1>6 DEF EndDistribution, Ready, GoTo, StateAfter
  <2>2. state \in Distributing
    BY <2>1, DistributionIn DEF ItemsInv
  <2>3. Leads(state, "distribution", state', imported)
    BY <2>1, <2>2 DEF Leads
  <2> QED
    BY <2>3 DEF Tasks
<1> QED
  BY <1>1, <1>2, <1>3, <1>4, <1>5, <1>6 DEF Next

(* Once the distribution is over there is no way back to it: the decision  *)
(* is drafted, made or dropped, and then archived for good, although the   *)
(* page of the distribution and the closing of publications are offered in *)
(* every state; and no dossier that is rejected or still to be examined    *)
(* reaches a decision without having been distributed.                     *)
THEOREM NoWayBack ==
  Spec => [][/\ state = "redac" => state' \in {"redac", "done", "stopped"}
             /\ state \in {"done", "stopped"} => state' \in {state, "arch"}
             /\ state = "arch" => state' = "arch"
             /\ state \in {"new", "subm", "rejected"} =>
                  state' \in {"subm", "rejected", "comm", "arch", state}
             /\ state' = "redac" => state \in {"comm", "circ", "nfd", "redac"}]_vars
<1>1. ItemsInv /\ PartInv /\ [Next]_vars =>
        [/\ state = "redac" => state' \in {"redac", "done", "stopped"}
         /\ state \in {"done", "stopped"} => state' \in {state, "arch"}
         /\ state = "arch" => state' = "arch"
         /\ state \in {"new", "subm", "rejected"} =>
              state' \in {"subm", "rejected", "comm", "arch", state}
         /\ state' = "redac" => state \in {"comm", "circ", "nfd", "redac"}]_vars
  BY StateSteps DEF Leads, Distributing
<1> QED
  BY <1>1, ItemsAlways, PTL DEF Spec

-----------------------------------------------------------------------------
(* The distribution of the dossier.                                        *)

LEMMA ReviewStepForm ==
  ASSUME NEW i \in 1..Len(inquiries), NEW t \in ReviewTasks, ReviewStep(i, t)
  PROVE  LET open == (review[i] \ ({t} \cup ReviewCloses(t))) \cup ReviewFlow(t)
         IN  /\ t \in review[i]
             /\ review' = [review EXCEPT ![i] = open]
             /\ \/ open = {} /\ AnswerInquiry(i)
                \/ open # {} /\ UNCHANGED distVars
BY DEF ReviewStep

(* Whatever happens to the dossier, its distribution takes one of the      *)
(* steps of the distribution, or none.                                     *)
LEMMA DistributionSteps == ItemsInv /\ PartInv /\ [Next]_vars => [DistNext]_distVars
<1> SUFFICES ASSUME ItemsInv, PartInv, [Next]_vars
             PROVE  [DistNext]_distVars
  OBVIOUS
<1>1. CASE UNCHANGED vars
  BY <1>1 DEF vars
<1>2. CASE Submit
  BY <1>2, SubmitKeeps
<1>3. ASSUME NEW t \in Buttons, Press(t)
      PROVE  [DistNext]_distVars
  <2>1. Municipality \in Authorities
    BY SchwyzAssumption
  <2> QED
    BY <1>3, <2>1, PressKeeps DEF DistNext
<1>4. CASE ClosePublication \/ CreateManual \/ CompleteManual
  BY <1>4, ClosePublicationKeeps, ManualKeeps
<1>5. CASE Distribute
  BY <1>5 DEF Distribute, DistNext
<1>6. ASSUME NEW i \in 1..Len(inquiries), NEW t \in ReviewTasks, ReviewStep(i, t)
      PROVE  [DistNext]_distVars
  BY <1>6, ReviewStepForm DEF DistNext
<1>7. CASE EndDistribution
  BY <1>7 DEF EndDistribution, DistNext
<1> QED
  BY <1>1, <1>2, <1>3, <1>4, <1>5, <1>6, <1>7 DEF Next

(* The distribution that an import started and cancelled is as good as one *)
(* that ended.                                                             *)
LEMMA SkippedIsOver ==
  ASSUME SkippedDistribution
  PROVE  DistInv /\ AnswersAreShown
<1>1. inquiries = <<>> /\ Len(inquiries) = 0 /\ inquiries \in Seq(Inquiry)
  BY EmptySeq DEF SkippedDistribution
<1>2. /\ dcase = "canceled" /\ init = "canceled" /\ finish = "canceled"
      /\ creates = [s \in Services |-> 0]
      /\ lead = Municipality /\ Municipality \in Authorities
      /\ thawed = FALSE
  BY SchwyzAssumption DEF SkippedDistribution
<1>3. DistTypeOK
  BY <1>1, <1>2 DEF DistTypeOK, CaseStatus, ItemStatus
<1> QED
  BY <1>1, <1>2, <1>3
     DEF DistInv, NothingBeforeStart, OneCreateInquiry, InitNotSuspended, Begun,
         PartiesCanInvite, LeadCanInvite, OnlyDraftsBeforeStart,
         AnswerMatchesInquiry, NothingOpenAtEnd, AnswersAreShown, OpenStatus

LEMMA DistributionStarts == Init => DistInv /\ AnswersAreShown
BY SkippedIsOver, InvariantInit, ShownInit DEF Init

(* No button of Schwyz suspends the case of a dossier.                     *)
NeverSuspended == dcase # "suspended" /\ ~thawed

LEMMA NeverSuspendedInit == Init => NeverSuspended
BY DEF Init, DistInit, SkippedDistribution, NeverSuspended

LEMMA NeverSuspendedNext ==
  ItemsInv /\ PartInv /\ NeverSuspended /\ [Next]_vars => NeverSuspended'
<1> SUFFICES ASSUME ItemsInv, PartInv, NeverSuspended, [Next]_vars
             PROVE  NeverSuspended'
  OBVIOUS
<1>1. CASE UNCHANGED distVars
  BY <1>1 DEF NeverSuspended, distVars
<1>2. CASE StartDistribution(Municipality) \/ CancelDistribution \/ CompleteDistribution
  BY <1>2 DEF NeverSuspended, StartDistribution, CancelDistribution, CompleteDistribution
<1>3. CASE Distribute
  <2>1. \/ \E s \in Services, targets \in TargetLists : CreateInquiries(s, targets)
        \/ \E i \in 1..Len(inquiries) :
             SendInquiry(i) \/ WithdrawInquiry(i) \/ CheckInquiry(i)
        \/ CompleteInit
    BY <1>3 DEF Distribute
  <2>2. ASSUME NEW s \in Services, NEW targets \in TargetLists,
               CreateInquiries(s, targets)
        PROVE  dcase' = dcase /\ thawed' = thawed
    BY <2>2 DEF CreateInquiries
  <2>3. ASSUME NEW i \in 1..Len(inquiries),
               SendInquiry(i) \/ WithdrawInquiry(i) \/ CheckInquiry(i)
        PROVE  dcase' = dcase /\ thawed' = thawed
    BY <2>3 DEF SendInquiry, WithdrawInquiry, CheckInquiry
  <2>4. CompleteInit => dcase' = dcase /\ thawed' = thawed
    BY DEF CompleteInit
  <2> QED
    BY <2>1, <2>2, <2>3, <2>4 DEF NeverSuspended
<1>4. ASSUME NEW t \in Buttons, Press(t)
      PROVE  NeverSuspended'
  <2>1. \/ StartDistribution(Municipality) \/ CancelDistribution
        \/ UNCHANGED <<distVars, review>>
    BY <1>4, PressKeeps
  <2> QED
    BY <1>1, <1>2, <2>1
<1>5. ASSUME NEW i \in 1..Len(inquiries), NEW t \in ReviewTasks, ReviewStep(i, t)
      PROVE  NeverSuspended'
  <2>1. CASE AnswerInquiry(i)
    BY <2>1 DEF NeverSuspended, AnswerInquiry
  <2> QED
    BY <1>1, <1>5, <2>1, ReviewStepForm
<1>6. CASE EndDistribution
  BY <1>2, <1>6 DEF EndDistribution
<1>7. CASE Submit \/ ClosePublication \/ CreateManual \/ CompleteManual \/ UNCHANGED vars
  BY <1>1, <1>7 DEF Submit, ClosePublication, CreateManual, CompleteManual, vars
<1> QED
  BY <1>3, <1>4, <1>5, <1>6, <1>7 DEF Next

SchwyzInv == ItemsInv /\ PartInv /\ DistInv /\ AnswersAreShown /\ NeverSuspended

LEMMA SchwyzInit == Init => SchwyzInv
BY ItemsInit, DistributionStarts, NeverSuspendedInit DEF SchwyzInv

LEMMA SchwyzNext == SchwyzInv /\ [Next]_vars => SchwyzInv'
BY ItemsNext, DistributionSteps, InvariantNext, ShownNext, NeverSuspendedNext
   DEF SchwyzInv

LEMMA SchwyzAlways == Spec => []SchwyzInv
BY SchwyzInit, SchwyzNext, PTL DEF Spec

(* Everything that holds of a distribution holds of the one of a dossier   *)
(* of Schwyz, which takes only its steps, even where a review stands       *)
(* between the answer and the inquiry.  It is never suspended nor resumed, *)
(* so that what a resumption may break holds of it without exception.      *)
THEOREM SchwyzDistribution ==
  Spec => /\ [](DistTypeOK /\ OneCreateInquiry /\ InvolvedCanInvite
                /\ OnlyDraftsBeforeStart /\ AnswerMatchesInquiry /\ NothingOpenAtEnd
                /\ ~thawed)
          /\ [][DistNext]_distVars
          /\ AnswersAreFinal
<1>1. SchwyzInv => /\ DistTypeOK /\ OneCreateInquiry /\ InvolvedCanInvite
                   /\ OnlyDraftsBeforeStart /\ AnswerMatchesInquiry /\ NothingOpenAtEnd
                   /\ ~thawed
  BY DEF SchwyzInv, DistInv, InvolvedCanInvite, PartiesCanInvite, LeadCanInvite, Begun,
         NeverSuspended
<1>2. SchwyzInv /\ [Next]_vars => [DistNext]_distVars
  BY DistributionSteps DEF SchwyzInv
<1>3. SchwyzInv /\ [Next]_vars => [AnswersKept]_distVars
  BY <1>2, ShownNext DEF SchwyzInv
<1>4. [][AnswersKept]_distVars => AnswersAreFinal
  BY PTL DEF AnswersKept, AnswersAreFinal
<1> QED
  BY <1>1, <1>2, <1>3, <1>4, SchwyzAlways, PTL DEF Spec

LEMMA SchwyzRefInv == Spec => []RefInv
<1>1. SkippedDistribution => RefInv
  <2> SUFFICES ASSUME SkippedDistribution PROVE RefInv
    OBVIOUS
  <2>1. Len(inquiries) = 0
    BY EmptySeq DEF SkippedDistribution
  <2> QED
    BY <2>1, SkippedIsOver DEF RefInv, DraftsAreUnasked
<1>2. Init => RefInv
  BY <1>1, RefInvInit DEF Init
<1>3. SchwyzInv /\ RefInv /\ [Next]_vars => RefInv'
  BY DistributionSteps, RefInvNext DEF SchwyzInv
<1> QED
  BY <1>2, <1>3, SchwyzAlways, PTL DEF Spec

(* The services of a dossier of Schwyz consult each other as the abstract  *)
(* consultation says, reviews or not; only an import that skipped the      *)
(* distribution starts where it is over already.                           *)
THEOREM SchwyzConsults ==
  Spec => [][C!Next]_C!vars /\ (DistInit => ImplementsConsultation)
<1>1. SchwyzInv /\ RefInv /\ [Next]_vars => [C!Next]_C!vars
  BY DistributionSteps, RefinementNext DEF SchwyzInv
<1>2. DistInit => C!Init
  BY RefinementInit
<1>3. Spec => [][C!Next]_C!vars
  BY <1>1, SchwyzAlways, SchwyzRefInv, PTL DEF Spec
<1> QED
  BY <1>2, <1>3, PTL DEF ImplementsConsultation, C!Spec

-----------------------------------------------------------------------------
(* The reviews.                                                            *)

(* What may be open in the child case of an inquiry.                       *)
StagesOf(answer) ==
  IF answer = "ready" THEN {{"fill"}, {"check", "revise"}, {"alter"}} ELSE {{}}

ReviewInv ==
  /\ review \in Seq(SUBSET ReviewTasks)
  /\ Len(review) = Len(inquiries)
  /\ \A i \in 1..Len(inquiries) : review[i] \in StagesOf(inquiries[i].answer)

(* A review goes from one stage to the next, or ends.                      *)
LEMMA StageSteps ==
  ASSUME NEW stage \in StagesOf("ready"), NEW t \in stage
  PROVE  LET open == (stage \ ({t} \cup ReviewCloses(t))) \cup ReviewFlow(t)
         IN  open # {} => open \in StagesOf("ready")
<1>1. \/ stage = {"fill"} /\ t = "fill"
      \/ stage = {"check", "revise"} /\ t = "check"
      \/ stage = {"check", "revise"} /\ t = "revise"
      \/ stage = {"alter"} /\ t = "alter"
  BY DEF StagesOf
<1>2. CASE stage = {"fill"} /\ t = "fill"
  <2>1. ReviewCloses(t) = {} /\ ReviewFlow(t) = {"check", "revise"}
    BY <1>2 DEF ReviewCloses, ReviewFlow
  <2>2. (stage \ ({t} \cup ReviewCloses(t))) \cup ReviewFlow(t) = {"check", "revise"}
    BY <1>2, <2>1
  <2> QED
    BY <2>2 DEF StagesOf
<1>3. CASE stage = {"check", "revise"} /\ t = "check"
  <2>1. ReviewCloses(t) = {"revise"} /\ ReviewFlow(t) = {}
    BY <1>3 DEF ReviewCloses, ReviewFlow
  <2>2. (stage \ ({t} \cup ReviewCloses(t))) \cup ReviewFlow(t) = {}
    BY <1>3, <2>1
  <2> QED
    BY <2>2
<1>4. CASE stage = {"check", "revise"} /\ t = "revise"
  <2>1. ReviewCloses(t) = {"check"} /\ ReviewFlow(t) = {"alter"}
    BY <1>4 DEF ReviewCloses, ReviewFlow
  <2>2. (stage \ ({t} \cup ReviewCloses(t))) \cup ReviewFlow(t) = {"alter"}
    BY <1>4, <2>1
  <2> QED
    BY <2>2 DEF StagesOf
<1>5. CASE stage = {"alter"} /\ t = "alter"
  <2>1. ReviewCloses(t) = {} /\ ReviewFlow(t) = {"check", "revise"}
    BY <1>5 DEF ReviewCloses, ReviewFlow
  <2>2. (stage \ ({t} \cup ReviewCloses(t))) \cup ReviewFlow(t) = {"check", "revise"}
    BY <1>5, <2>1
  <2> QED
    BY <2>2 DEF StagesOf
<1> QED
  BY <1>1, <1>2, <1>3, <1>4, <1>5

LEMMA StagesAreTasks ==
  ASSUME NEW a, NEW stage \in StagesOf(a)
  PROVE  stage \in SUBSET ReviewTasks
BY DEF StagesOf, ReviewTasks

(* What the handlers do to the item that a review stands for.              *)
LEMMA HandlersAndReview ==
  ASSUME NEW inq \in Inquiry, NEW c, NEW t, Matches(inq, c, t)
  PROVE  /\ Sent(inq).answer = "ready"
         /\ Answered(inq).answer = "completed"
         /\ Withdrawn(inq).answer # "ready"
         /\ Checked(inq).answer = inq.answer
         /\ Ended(inq).answer # "ready"
         /\ CancelOpen(inq).answer # "ready"
BY DEF Matches, Inquiry, Sent, Answered, Withdrawn, Checked, Ended, SkipUnanswered,
       CancelOpen, Cancelled, OpenStatus

LEMMA ReviewNext == SchwyzInv /\ ReviewInv /\ [Next]_vars => ReviewInv'
<1> SUFFICES ASSUME SchwyzInv, ReviewInv, [Next]_vars
             PROVE  ReviewInv'
  OBVIOUS
<1>0. /\ inquiries \in Seq(Inquiry)
      /\ Len(inquiries) \in Nat
      /\ \A i \in 1..Len(inquiries) :
           /\ inquiries[i] \in Inquiry
           /\ Matches(inquiries[i], dcase, thawed)
           /\ review[i] \in StagesOf(inquiries[i].answer)
      /\ review \in Seq(SUBSET ReviewTasks)
      /\ Len(review) = Len(inquiries)
      /\ DistTypeOK
  BY LenProperties, ElementOfSeq
     DEF SchwyzInv, DistInv, DistTypeOK, AnswerMatchesInquiry, Matches, ReviewInv
<1>1. ASSUME UNCHANGED inquiries, UNCHANGED review
      PROVE  ReviewInv'
  BY <1>1 DEF ReviewInv
<1>2. ASSUME NEW i \in 1..Len(inquiries), NEW out \in Inquiry,
             NEW stage \in StagesOf(out.answer),
             inquiries' = [inquiries EXCEPT ![i] = out],
             review' = [review EXCEPT ![i] = stage]
      PROVE  ReviewInv'
  <2>1. /\ Len(inquiries') = Len(inquiries)
        /\ \A j \in 1..Len(inquiries) :
             inquiries'[j] = IF j = i THEN out ELSE inquiries[j]
    BY <1>0, <1>2, OneChanged
  <2>2. stage \in SUBSET ReviewTasks
    BY StagesAreTasks
  <2>3. i \in 1..Len(review)
    BY <1>0
  <2>4. /\ review' \in Seq(SUBSET ReviewTasks)
        /\ Len(review') = Len(review)
        /\ \A j \in 1..Len(review) : review'[j] = IF j = i THEN stage ELSE review[j]
    BY <1>0, <1>2, <2>2, <2>3, ExceptSeq
  <2>5. \A j \in 1..Len(inquiries) : review'[j] \in StagesOf(inquiries'[j].answer)
    BY <1>0, <2>1, <2>4
  <2> QED
    BY <1>0, <2>1, <2>4, <2>5 DEF ReviewInv
<1>3. ASSUME NEW g \in [1..Len(inquiries) -> Inquiry], inquiries' = g,
             \A i \in 1..Len(inquiries) : g[i].answer # "ready",
             review' = NoReviews
      PROVE  ReviewInv'
  <2>1. Len(inquiries') = Len(inquiries)
    BY <1>0, <1>3, AllChanged
  <2>2. NoReviews \in [1..Len(inquiries) -> SUBSET ReviewTasks]
    BY DEF NoReviews
  <2>3. review' \in Seq(SUBSET ReviewTasks) /\ Len(review') = Len(inquiries)
    BY <1>0, <1>3, <2>2, FunctionIsSeq
  <2>4. \A i \in 1..Len(inquiries) : review'[i] = {}
    BY <1>3 DEF NoReviews
  <2> QED
    BY <1>3, <2>1, <2>3, <2>4 DEF ReviewInv, StagesOf
<1>4. ASSUME NEW s \in Services, NEW targets \in TargetLists,
             CreateInquiries(s, targets),
             review' = review \o [k \in 1..Len(targets) |-> {}]
      PROVE  ReviewInv'
  <2> DEFINE new == [k \in 1..Len(targets) |-> {}]
  <2>1. inquiries' = inquiries \o Drafts(s, targets)
    BY <1>4 DEF CreateInquiries
  <2>2. /\ Len(inquiries') = Len(inquiries) + Len(targets)
        /\ \A i \in 1..Len(inquiries) : inquiries'[i] = inquiries[i]
        /\ \A i \in 1..Len(inquiries') : i > Len(inquiries) =>
             \E k \in 1..Len(targets) : inquiries'[i] = Draft(s, targets[k])
    BY <1>0, <2>1, DraftsAppended
  <2>3. Len(targets) \in Nat
    BY TargetsAreServices, LenProperties
  <2>4. new \in [1..Len(targets) -> SUBSET ReviewTasks]
    OBVIOUS
  <2>5. /\ new \in Seq(SUBSET ReviewTasks) /\ Len(new) = Len(targets)
        /\ \A k \in 1..Len(targets) : new[k] = {}
    BY <2>3, <2>4, FunctionIsSeq
  <2>6. review' = review \o new
    BY <1>4
  <2> HIDE DEF new
  <2>7. /\ review' \in Seq(SUBSET ReviewTasks)
        /\ Len(review') = Len(review) + Len(new)
        /\ \A i \in 1..Len(review) + Len(new) :
             review'[i] = IF i <= Len(review) THEN review[i] ELSE new[i - Len(review)]
    BY <1>0, <2>5, <2>6, ConcatProperties
  <2>8. ASSUME NEW i \in 1..Len(inquiries')
        PROVE  review'[i] \in StagesOf(inquiries'[i].answer)
    <3>1. CASE i <= Len(inquiries)
      <4>1. i \in 1..Len(inquiries) /\ review'[i] = review[i]
        BY <1>0, <2>2, <2>3, <2>5, <2>7, <2>8, <3>1
      <4> QED
        BY <1>0, <2>2, <4>1
    <3>2. CASE i > Len(inquiries)
      <4>1. i - Len(review) \in 1..Len(new) /\ review'[i] = new[i - Len(review)]
        BY <1>0, <2>2, <2>3, <2>5, <2>7, <2>8, <3>2
      <4>2. review'[i] = {}
        BY <2>5, <4>1
      <4>3. inquiries'[i].answer = "none"
        BY <2>2, <2>8, <3>2 DEF Draft
      <4> QED
        BY <4>2, <4>3 DEF StagesOf
    <3>3. i \in Nat
      BY <1>0, <2>2, <2>3, <2>8
    <3> QED
      BY <1>0, <3>1, <3>2, <3>3
  <2> QED
    BY <1>0, <2>2, <2>5, <2>7, <2>8 DEF ReviewInv
<1>5. \A i \in 1..Len(inquiries) :
        /\ {Sent(inquiries[i]), Answered(inquiries[i]), Withdrawn(inquiries[i]),
            Checked(inquiries[i]), Ended(inquiries[i]), CancelOpen(inquiries[i])}
             \subseteq Inquiry
        /\ Sent(inquiries[i]).answer = "ready"
        /\ Answered(inquiries[i]).answer = "completed"
        /\ Withdrawn(inquiries[i]).answer # "ready"
        /\ Checked(inquiries[i]).answer = inquiries[i].answer
        /\ Ended(inquiries[i]).answer # "ready"
        /\ CancelOpen(inquiries[i]).answer # "ready"
  BY <1>0, InquiryOperators, HandlersAndReview
<1>6. \A i \in 1..Len(inquiries) : [review EXCEPT ![i] = review[i]] = review
  BY <1>0, SeqDef
<1>7. ASSUME NEW i \in 1..Len(inquiries), SendInquiry(i),
             review' = [review EXCEPT ![i] = {"fill"}]
      PROVE  ReviewInv'
  <2>1. {"fill"} \in StagesOf(Sent(inquiries[i]).answer)
    BY <1>5 DEF StagesOf
  <2>2. inquiries' = [inquiries EXCEPT ![i] = Sent(inquiries[i])]
    BY <1>7 DEF SendInquiry
  <2> QED
    BY <1>2, <1>5, <1>7, <2>1, <2>2
<1>8. ASSUME NEW i \in 1..Len(inquiries), WithdrawInquiry(i),
             review' = [review EXCEPT ![i] = {}]
      PROVE  ReviewInv'
  <2>1. {} \in StagesOf(Withdrawn(inquiries[i]).answer)
    BY <1>5 DEF StagesOf
  <2>2. inquiries' = [inquiries EXCEPT ![i] = Withdrawn(inquiries[i])]
    BY <1>8 DEF WithdrawInquiry
  <2> QED
    BY <1>2, <1>5, <1>8, <2>1, <2>2
<1>9. ASSUME NEW i \in 1..Len(inquiries), CheckInquiry(i), UNCHANGED review
      PROVE  ReviewInv'
  <2>1. review[i] \in StagesOf(Checked(inquiries[i]).answer)
    BY <1>0, <1>5
  <2>2. inquiries' = [inquiries EXCEPT ![i] = Checked(inquiries[i])]
    BY <1>9 DEF CheckInquiry
  <2>3. review' = [review EXCEPT ![i] = review[i]]
    BY <1>6, <1>9
  <2> QED
    BY <1>2, <1>5, <2>1, <2>2, <2>3
<1>10. CASE Distribute
  <2>1. CompleteInit /\ UNCHANGED review => ReviewInv'
    BY <1>1 DEF CompleteInit
  <2> QED
    BY <1>4, <1>7, <1>8, <1>9, <1>10, <2>1 DEF Distribute
<1>11. ASSUME NEW i \in 1..Len(inquiries), NEW t \in ReviewTasks, ReviewStep(i, t)
       PROVE  ReviewInv'
  <2> DEFINE open == (review[i] \ ({t} \cup ReviewCloses(t))) \cup ReviewFlow(t)
  <2>1. /\ t \in review[i] /\ review' = [review EXCEPT ![i] = open]
        /\ \/ open = {} /\ AnswerInquiry(i)
           \/ open # {} /\ UNCHANGED distVars
    BY <1>11, ReviewStepForm
  <2>2. inquiries[i].answer = "ready"
    BY <1>0, <2>1 DEF StagesOf
  <2>3. CASE open = {} /\ AnswerInquiry(i)
    <3>1. inquiries' = [inquiries EXCEPT ![i] = Answered(inquiries[i])]
      BY <2>3 DEF AnswerInquiry
    <3>2. open \in StagesOf(Answered(inquiries[i]).answer)
      BY <1>5, <2>3 DEF StagesOf
    <3> QED
      BY <1>2, <1>5, <2>1, <3>1, <3>2
  <2>4. CASE open # {} /\ UNCHANGED distVars
    <3>1. review[i] \in StagesOf("ready")
      BY <1>0, <2>2
    <3>2. open \in StagesOf(inquiries[i].answer)
      BY <2>1, <2>2, <2>4, <3>1, StageSteps
    <3>3. inquiries' = [inquiries EXCEPT ![i] = inquiries[i]]
      BY <1>0, <2>4, SeqDef DEF distVars
    <3> QED
      BY <1>0, <1>2, <2>1, <3>2, <3>3
  <2> QED
    BY <2>1, <2>3, <2>4
<1>12. ASSUME CompleteDistribution \/ CancelDistribution, review' = NoReviews
       PROVE  ReviewInv'
  <2>1. CASE CompleteDistribution
    <3>1. /\ inquiries' = [i \in 1..Len(inquiries) |-> Ended(inquiries[i])]
          /\ inquiries' \in [1..Len(inquiries) -> Inquiry]
      BY <1>5, <2>1 DEF CompleteDistribution
    <3>2. \A i \in 1..Len(inquiries) : inquiries'[i].answer # "ready"
      BY <1>5, <3>1
    <3> QED
      BY <1>3, <1>12, <3>1, <3>2
  <2>2. CASE CancelDistribution
    <3>1. /\ inquiries' = [i \in 1..Len(inquiries) |-> CancelOpen(inquiries[i])]
          /\ inquiries' \in [1..Len(inquiries) -> Inquiry]
      BY <1>5, <2>2 DEF CancelDistribution
    <3>2. \A i \in 1..Len(inquiries) : inquiries'[i].answer # "ready"
      BY <1>5, <3>1
    <3> QED
      BY <1>3, <1>12, <3>1, <3>2
  <2> QED
    BY <1>12, <2>1, <2>2
<1>13. ASSUME NEW t \in Buttons, Press(t)
       PROVE  ReviewInv'
  <2>1. ItemsInv /\ PartInv
    BY DEF SchwyzInv
  <2>2. \/ StartDistribution(Municipality) /\ UNCHANGED review
        \/ CancelDistribution /\ review' = NoReviews
        \/ UNCHANGED <<distVars, review>>
    BY <1>13, <2>1, PressKeeps
  <2> QED
    BY <1>1, <1>12, <2>2 DEF StartDistribution, distVars
<1>14. ASSUME Submit \/ ClosePublication \/ CreateManual \/ CompleteManual
              \/ UNCHANGED vars
       PROVE  ReviewInv'
  <2>1. UNCHANGED <<distVars, review>>
    BY <1>14 DEF Submit, ClosePublication, CreateManual, CompleteManual, vars, schwyzVars
  <2> QED
    BY <1>1, <2>1 DEF distVars
<1>15. CASE EndDistribution
  BY <1>12, <1>15 DEF EndDistribution
<1> QED
  BY <1>10, <1>11, <1>13, <1>14, <1>15 DEF Next

(* The review of an answer and its inquiry agree, whoever closes either    *)
(* and however often the answer is sent back.                              *)
THEOREM ReviewsMatch == Spec => []ReviewMatchesAnswer
<1>1. Init => ReviewInv
  <2> SUFFICES ASSUME Init PROVE ReviewInv
    OBVIOUS
  <2>1. review = <<>> /\ inquiries = <<>> /\ Len(inquiries) = 0
    BY DEF Init, DistInit, SkippedDistribution
  <2> QED
    BY <2>1, EmptySeq DEF ReviewInv
<1>2. ReviewInv => ReviewMatchesAnswer
  BY DEF ReviewInv, ReviewMatchesAnswer, StagesOf
<1> QED
  BY <1>1, <1>2, ReviewNext, SchwyzAlways, PTL DEF Spec

=============================================================================

---------------------------- MODULE DossierProofs ----------------------------
(***************************************************************************)
(* Proofs about dossiers, for every set of authorities, construction       *)
(* controls and kinds, whether eCH handlers and buttons run undisturbed or *)
(* not.                                                                    *)
(***************************************************************************)
EXTENDS Dossier, DistributionProofs, FiniteSetTheorems

-----------------------------------------------------------------------------
(* Responsible services.                                                   *)

LEMMA ResponsibleIsActive ==
  ASSUME NEW services, NEW rows, NoService \notin services
  PROVE  /\ ActiveIn(services, rows) = {} <=> Responsible(services, rows) = NoService
         /\ ActiveIn(services, rows) # {} =>
              Responsible(services, rows) \in ActiveIn(services, rows)
<1>1. CASE ActiveIn(services, rows) = {}
  BY <1>1 DEF Responsible
<1>2. CASE ActiveIn(services, rows) # {}
  <2>1. Responsible(services, rows) \in ActiveIn(services, rows)
    BY <1>2 DEF Responsible
  <2> QED
    BY <1>2, <2>1 DEF ActiveIn
<1> QED
  BY <1>1, <1>2

(* Only the rows of a kind of services say who is responsible in it.       *)
LEMMA SameRowsSameResponsible ==
  ASSUME NEW services, NEW rows, NEW rows1,
         \A s \in services : rows1[s] = rows[s]
  PROVE  /\ ActiveIn(services, rows1) = ActiveIn(services, rows)
         /\ Responsible(services, rows1) = Responsible(services, rows)
<1>1. ActiveIn(services, rows1) = ActiveIn(services, rows)
  BY DEF ActiveIn
<1> QED
  BY <1>1 DEF Responsible

(* The only active service is the responsible one.                         *)
LEMMA OnlyActiveIsResponsible ==
  ASSUME NEW services, NEW rows, NEW s \in services,
         NoService \notin services,
         ActiveIn(services, rows) = {s}
  PROVE  Responsible(services, rows) = s
BY ResponsibleIsActive

AllServices == Authorities \cup Controls

Rows == [AllServices -> {"none", "active", "inactive"}]

(* Handing over leaves exactly the new service active.                     *)
LEMMA HandedOverActive ==
  ASSUME NEW services \in SUBSET AllServices, NEW rows \in Rows,
         NEW from \in services, NEW to \in services,
         ActiveIn(services, rows) = {from},
         NEW new,
         \A s \in AllServices : new[s] = IF s = to THEN "active"
                                        ELSE IF s = from THEN "inactive" ELSE rows[s]
  PROVE  /\ ActiveIn(services, new) = {to}
         /\ \A s \in AllServices \ services : new[s] = rows[s]
BY DEF ActiveIn, Rows

-----------------------------------------------------------------------------
(* What flows and handlers do to the numbers of open items.                *)

Items == [Tasks -> Nat]

LEMMA CancelValues ==
  ASSUME NEW its \in Items, NEW ts
  PROVE  /\ Cancel(its, ts) \in Items
         /\ \A x \in Tasks : Cancel(its, ts)[x] = IF x \in ts THEN 0 ELSE its[x]
BY DEF Cancel, Items

LEMMA CreateValues ==
  ASSUME NEW its \in Items, NEW ts
  PROVE  /\ Create(its, ts) \in Items
         /\ \A x \in Tasks : Create(its, ts)[x] = IF x \in ts THEN its[x] + 1 ELSE its[x]
BY DEF Create, Items

LEMMA ProcessValues ==
  ASSUME NEW its \in Items, NEW ts \in SUBSET Tasks
  PROVE  /\ Process(its, ts) \in Items
         /\ \A x \in Tasks :
              LET rest == IF x \in ts THEN 0 ELSE its[x]
              IN  Process(its, ts)[x] =
                    IF \E t \in ts : its[t] > 0 /\ x \in Flow(t) THEN rest + 1 ELSE rest
<1> DEFINE done == {t \in ts : its[t] > 0}
           next == UNION {Flow(t) : t \in done}
           left == Cancel(its, ts)
<1>1. left \in Items /\ \A x \in Tasks : left[x] = IF x \in ts THEN 0 ELSE its[x]
  BY CancelValues DEF Items
<1>2. \A x : x \in next <=> \E t \in ts : its[t] > 0 /\ x \in Flow(t)
  OBVIOUS
<1>3. Process(its, ts) = Create(left, next)
  BY DEF Process
<1> HIDE DEF left, next
<1>4. /\ Create(left, next) \in Items
      /\ \A x \in Tasks : Create(left, next)[x] = IF x \in next THEN left[x] + 1 ELSE left[x]
  BY <1>1, CreateValues
<1> QED
  BY <1>1, <1>2, <1>3, <1>4

(* The flows, task by task.                                                *)
LEMMA FlowValues ==
  /\ Flow("submit") = AfterSubmit
  /\ Flow("ebau-number") =
       IF kind = "internal" THEN {}
       ELSE {"distribution", "audit", "publication", "fill-publication",
             "information-of-neighbors"}
  /\ Flow("distribution") = {"decision"}
  /\ Flow("sb1") = {"sb2", "check-sb1"}
  /\ Flow("sb2") = {"complete", "check-sb2"}
  /\ Flow("fill-publication") = {"create-publication"}
  /\ Flow("create-publication") = {"fill-publication"}
  /\ Flow("information-of-neighbors") = {"create-information-of-neighbors"}
  /\ Flow("create-information-of-neighbors") = {"information-of-neighbors"}
  /\ \A t \in {"audit", "publication", "nfd", "check-sb1", "check-sb2", "complete",
               "decision", "create-manual-workitems", "awa"} : Flow(t) = {}
BY DEF Flow

(* A side task is followed by at most another one of the same subject.     *)
LEMMA SideTaskValues ==
  ASSUME NEW its \in Items, NEW t \in SideTasks
  PROVE  /\ Process(its, {t}) \in Items
         /\ \A x \in MainTasks \cup {"create-manual-workitems"} : Process(its, {t})[x] = its[x]
         /\ \A x \in ControlTasks \cup {"audit", "publication", "nfd", "awa"} :
              Process(its, {t})[x] <= its[x]
         /\ \A x \in {"information-of-neighbors", "create-information-of-neighbors"} :
              its["information-of-neighbors"] = 0 /\ its["create-information-of-neighbors"] = 0
                => Process(its, {t})[x] = 0
<1>1. {t} \in SUBSET Tasks
  BY DEF SideTasks, Tasks, MunicipalTasks, ControlTasks
<1>2. /\ Process(its, {t}) \in Items
      /\ \A x \in Tasks :
           LET rest == IF x = t THEN 0 ELSE its[x]
           IN  Process(its, {t})[x] =
                 IF its[t] > 0 /\ x \in Flow(t) THEN rest + 1 ELSE rest
  BY <1>1, ProcessValues, Zenon
<1>3. \A x \in Tasks : its[x] \in Nat
  BY DEF Items
<1> QED
  BY <1>2, <1>3, FlowValues
     DEF SideTasks, Tasks, MunicipalTasks, ControlTasks, MainTasks

LEMMA PreDecisionValues ==
  ASSUME NEW its \in Items
  PROVE  /\ PreDecision(its) \in Items
         /\ \A x \in MainTasks \cup ControlTasks : PreDecision(its)[x] = its[x]
         /\ \A x \in Tasks \ (MainTasks \cup ControlTasks) : PreDecision(its)[x] = 0
<1> DEFINE skipped  == {"audit", "publication", "fill-publication"}
           cancelled == {"create-manual-workitems", "awa", "create-publication",
                         "information-of-neighbors", "create-information-of-neighbors"}
           first  == Process(its, skipped)
           second == Cancel(first, cancelled)
<1>1. /\ skipped \in SUBSET Tasks /\ {"nfd"} \in SUBSET Tasks
      /\ MainTasks \subseteq Tasks /\ ControlTasks \subseteq Tasks
      /\ Tasks \ (MainTasks \cup ControlTasks) = skipped \cup cancelled \cup {"nfd"}
  BY DEF Tasks, MunicipalTasks, ControlTasks, MainTasks
<1>2. \A t \in skipped : Flow(t) \subseteq {"create-publication"}
  BY FlowValues
<1>3. first \in Items /\ \A x \in Tasks \ {"create-publication"} :
        first[x] = IF x \in skipped THEN 0 ELSE its[x]
  BY <1>1, <1>2, ProcessValues
<1> HIDE DEF first
<1>4. second \in Items /\ \A x \in Tasks :
        second[x] = IF x \in skipped \cup cancelled THEN 0 ELSE its[x]
  BY <1>3, CancelValues
<1> HIDE DEF second
<1>5. Process(second, {"nfd"}) \in Items /\ \A x \in Tasks :
        Process(second, {"nfd"})[x] = IF x = "nfd" THEN 0 ELSE second[x]
  BY <1>1, <1>4, FlowValues, ProcessValues
<1>6. PreDecision(its) = Process(second, {"nfd"})
  <2>1. cancelled = Manual \cup {"create-publication", "information-of-neighbors",
                                 "create-information-of-neighbors"}
    BY DEF Manual
  <2> QED
    BY <2>1 DEF PreDecision, first, second
<1>7. \A x \in MainTasks \cup ControlTasks : x \notin skipped \cup cancelled \cup {"nfd"}
  BY DEF MainTasks, ControlTasks
<1> QED
  BY <1>1, <1>4, <1>5, <1>6, <1>7

(* What the decision leaves open.                                          *)
LEMMA DecidedValues ==
  ASSUME NEW its \in Items, NEW continue \in BOOLEAN
  PROVE  LET out == Decided(its, continue)
             more == IF continue THEN 1 ELSE 0
         IN  /\ out \in Items
             /\ out["decision"] = 0
             /\ out["sb1"] = its["sb1"] + more
             /\ out["ebau-number"] = IF kind = "internal" THEN 0 ELSE its["ebau-number"]
             /\ \A x \in {"submit", "distribution", "sb2"} \cup ControlTasks : out[x] = its[x]
             /\ \A x \in {"create-manual-workitems", "create-publication"} : out[x] = more
             /\ \A x \in {"audit", "publication", "fill-publication", "nfd", "awa",
                           "information-of-neighbors", "create-information-of-neighbors"} :
                  out[x] = 0
<1> DEFINE done == {"decision"} \cup IF kind = "internal" THEN {"ebau-number"} ELSE {}
           next == {"sb1", "create-manual-workitems", "create-publication"}
           first == PreDecision(its)
           closed == Cancel(first, done)
<1>1. \A x \in Tasks : its[x] \in Nat
  BY DEF Items
<1>2. /\ first \in Items
      /\ \A x \in MainTasks \cup ControlTasks : first[x] = its[x]
      /\ \A x \in Tasks \ (MainTasks \cup ControlTasks) : first[x] = 0
  BY PreDecisionValues
<1> HIDE DEF first
<1>3. closed \in Items /\ \A x \in Tasks : closed[x] = IF x \in done THEN 0 ELSE first[x]
  BY <1>2, CancelValues
<1> HIDE DEF closed
<1>4. Create(closed, next) \in Items /\ \A x \in Tasks :
        Create(closed, next)[x] = IF x \in next THEN closed[x] + 1 ELSE closed[x]
  BY <1>3, CreateValues
<1>5. Decided(its, continue) = IF continue THEN Create(closed, next) ELSE closed
  BY DEF Decided, closed, first
<1>6. CASE continue
  BY <1>1, <1>2, <1>3, <1>4, <1>5, <1>6 DEF Tasks, MunicipalTasks, ControlTasks, MainTasks
<1>7. CASE ~continue
  BY <1>1, <1>2, <1>3, <1>5, <1>7 DEF Tasks, MunicipalTasks, ControlTasks, MainTasks
<1> QED
  BY <1>6, <1>7

(* What the completion of "complete" leaves open.                          *)
LEMMA PreCompleteValues ==
  ASSUME NEW its \in Items
  PROVE  /\ PreComplete(its) \in Items
         /\ \A x \in Tasks : PreComplete(its)[x] =
              IF x \in {"check-sb1", "check-sb2", "create-manual-workitems", "awa",
                        "create-publication", "fill-publication"}
              THEN 0 ELSE its[x]
<1> DEFINE first == Process(its, {"check-sb1", "check-sb2"})
<1>1. {"check-sb1", "check-sb2"} \in SUBSET Tasks
  BY DEF Tasks, ControlTasks
<1>2. first \in Items /\ \A x \in Tasks :
        first[x] = IF x \in {"check-sb1", "check-sb2"} THEN 0 ELSE its[x]
  BY <1>1, FlowValues, ProcessValues
<1> HIDE DEF first
<1>3. \A x : x \in Manual \cup {"create-publication", "fill-publication"} <=>
             x \in {"create-manual-workitems", "awa", "create-publication",
                    "fill-publication"}
  BY DEF Manual
<1> QED
  BY <1>2, <1>3, CancelValues DEF PreComplete, first

-----------------------------------------------------------------------------
(* The invariant.  It holds in both specifications.                        *)

(* The main items that exclude each other.                                 *)
Counted == MainTasks \ (IF kind = "internal" THEN {"ebau-number"} ELSE {})

OneMain ==
  /\ items["ebau-number"] <= 1
  /\ case \in OpenCase =>
       \E m \in Counted : items[m] = 1 /\ \A t \in Counted \ {m} : items[t] = 0

OneActive ==
  /\ \A a, b \in ActiveIn(Authorities, involved) : a = b
  /\ \A a, b \in ActiveIn(Controls, involved) : a = b

(* Nothing else is open as long as the dossier has not been submitted.     *)
SubmitFirst == items["submit"] > 0 => \A t \in Tasks \ {"submit"} : items[t] = 0

(* What the decision ends.                                                 *)
BeforeDecision == {"submit", "ebau-number", "distribution", "decision", "audit",
                   "publication", "nfd", "information-of-neighbors",
                   "create-information-of-neighbors"}

(* The construction control joins with the decision: before, nothing is    *)
(* asked of it; after, nothing is open that belongs before.                *)
ControlAfterDecision ==
  /\ ActiveIn(Controls, involved) = {} =>
       \A t \in ControlTasks \cup {"sb1", "sb2"} : items[t] = 0
  /\ ActiveIn(Controls, involved) # {} =>
       \A t \in BeforeDecision : items[t] = 0

(* Only a dossier that was never submitted has no responsible authority.   *)
SomebodyResponsible ==
  ActiveIn(Authorities, involved) = {} =>
    /\ handler = "idle"
    /\ state \in {"new", "archived"}
    /\ \A t \in Tasks \ {"submit"} : items[t] = 0

DossierInv ==
  /\ DossierTypeOK
  /\ OneMain
  /\ ClosedCaseIsClean
  /\ DistributionFollowsItem
  /\ OneActive
  /\ SubmitFirst
  /\ ControlAfterDecision
  /\ SomebodyResponsible
  /\ AddressedToResponsible

LEMMA InitialInvariant == DossierInit => DossierInv
<1> SUFFICES ASSUME DossierInit PROVE DossierInv
  OBVIOUS
<1>1. /\ kind \in Kinds /\ state = "new" /\ prev = "new" /\ seen = "new"
      /\ case = "running" /\ handler = "idle" /\ dcase = "none"
      /\ items = [t \in Tasks |-> IF t = "submit" THEN 1 ELSE 0]
      /\ addressee = [t \in Tasks |-> NoService]
  BY DEF DossierInit, DistInit
<1>2. /\ \A t \in Tasks : items[t] = IF t = "submit" THEN 1 ELSE 0
      /\ MainTasks \cup ControlTasks \cup {"submit", "sb1", "sb2"} \subseteq Tasks
      /\ BeforeDecision \subseteq Tasks
  BY <1>1 DEF Tasks, MunicipalTasks, ControlTasks, MainTasks, BeforeDecision
<1>3. /\ involved \in Rows
      /\ ActiveIn(Controls, involved) = {}
      /\ \A a, b \in ActiveIn(Authorities, involved) : a = b
  <2>1. CASE involved = NoRows
    BY <2>1 DEF NoRows, Rows, AllServices, ActiveIn
  <2>2. ASSUME NEW a \in Authorities, involved = [NoRows EXCEPT ![a] = "active"]
        PROVE  /\ involved \in Rows
               /\ ActiveIn(Controls, involved) = {}
               /\ \A x, y \in ActiveIn(Authorities, involved) : x = y
    BY <2>2, DossierAssumption DEF NoRows, Rows, AllServices, ActiveIn
  <2> QED
    BY <2>1, <2>2 DEF DossierInit
<1>4. DossierTypeOK
  BY <1>1, <1>3, TypeInit
     DEF DossierInit, DossierTypeOK, States, CaseStatus, HandlerSteps, EchSteps, Rows, AllServices
<1>5. OneMain
  <2>1. "submit" \in Counted
    BY DEF Counted, MainTasks
  <2> QED
    BY <1>2, <2>1 DEF OneMain, Counted, MainTasks
<1>6. DistributionFollowsItem /\ ClosedCaseIsClean /\ SubmitFirst
  BY <1>1, <1>2 DEF DistributionFollowsItem, ClosedCaseIsClean, SubmitFirst, OpenCase,
     MainTasks
<1>7. ControlAfterDecision /\ SomebodyResponsible
  BY <1>1, <1>2, <1>3 DEF ControlAfterDecision, SomebodyResponsible, ControlTasks
<1>8. AddressedToResponsible
  <2>1. /\ "awa" \in Tasks /\ ControlTasks \subseteq Tasks
        /\ \A t \in ControlTasks \cup {"awa"} : t # "submit"
    BY DEF Tasks, ControlTasks
  <2>2. \A t \in Tasks : items[t] > 0 => t = "submit"
    BY <1>2
  <2>3. AddressGroup("submit", involved) = NoService
    BY DEF AddressGroup, MunicipalTasks, ControlTasks
  <2>4. \A t \in Tasks : addressee[t] = NoService
    BY <1>1
  <2> QED
    BY <1>1, <2>1, <2>2, <2>3, <2>4 DEF AddressedToResponsible, OpenCase
<1> QED
  BY <1>3, <1>4, <1>5, <1>6, <1>7, <1>8 DEF DossierInv, OneActive

-----------------------------------------------------------------------------
(* Steps that change items, and steps that do not.                         *)

LEMMA TasksKnown ==
  /\ MainTasks \subseteq Tasks /\ ControlTasks \subseteq Tasks
  /\ SideTasks \subseteq Tasks /\ BeforeDecision \subseteq Tasks
  /\ "create-manual-workitems" \in Tasks /\ "awa" \in Tasks
  /\ "awa" \notin MainTasks \cup ControlTasks \cup BeforeDecision
  /\ NoService \notin Authorities /\ NoService \notin Controls
  /\ Counted \subseteq MainTasks
BY DistributionAssumption, DossierAssumption
   DEF Tasks, MunicipalTasks, ControlTasks, MainTasks, SideTasks, BeforeDecision, Counted

LEMMA AddressGroupType ==
  ASSUME NEW t, NEW rows
  PROVE  /\ AddressGroup(t, rows) \in Authorities \cup Controls \cup {NoService}
         /\ t \in MunicipalTasks => AddressGroup(t, rows) = Responsible(Authorities, rows)
         /\ t \in ControlTasks \cup {"awa"} =>
              AddressGroup(t, rows) = Responsible(Controls, rows)
         /\ t \notin MunicipalTasks \cup ControlTasks \cup {"awa"} =>
              AddressGroup(t, rows) = NoService
<1>1. /\ Responsible(Authorities, rows) \in Authorities \cup {NoService}
      /\ Responsible(Controls, rows) \in Controls \cup {NoService}
  BY ResponsibleIsActive, TasksKnown DEF ActiveIn
<1>2. MunicipalTasks \cap (ControlTasks \cup {"awa"}) = {}
  BY DEF MunicipalTasks, ControlTasks
<1> QED
  BY <1>1, <1>2 DEF AddressGroup

(* A step that changes the open items of a running case: what must be      *)
(* shown of the new items for the invariant to be kept.                    *)
LEMMA ItemStep ==
  ASSUME DossierInv, case = "running",
         NEW its \in Items, SetItems(its),
         kind' = kind,
         case' = IF \A t \in Tasks : its[t] = 0 THEN "completed" ELSE case,
         {state', prev', seen'} \subseteq States, handler' \in HandlerSteps,
         involved' \in Rows,
         DistTypeOK',
         its["ebau-number"] <= 1,
         \/ \E m \in Counted : its[m] = 1 /\ \A t \in Counted \ {m} : its[t] = 0
         \/ \A t \in Tasks : its[t] = 0,
         its["distribution"] > 0 <=> dcase' \in OpenCase,
         dcase' \in OpenCase => dcase' = "running" /\ lead' = Responsible(Authorities, involved'),
         OneActive', ControlAfterDecision',
         ActiveIn(Authorities, involved') # {},
         its["submit"] > 0 => \A t \in Tasks \ {"submit"} : its[t] = 0,
         \A t \in Tasks \ {"awa"} : items[t] > 0 /\ its[t] > 0 =>
           AddressGroup(t, involved') = AddressGroup(t, involved),
         \A c \in Controls : involved[c] # "none" => involved'[c] # "none",
         its["awa"] > items["awa"] => ActiveIn(Controls, involved') # {}
  PROVE  DossierInv'
<1>1. /\ items' = its
      /\ \A t \in Tasks : addressee'[t] =
           IF its[t] = 0 THEN NoService
           ELSE IF items[t] > 0 THEN addressee[t]
           ELSE AddressGroup(t, involved')
      /\ addressee' = [t \in Tasks |->
           IF its[t] = 0 THEN NoService
           ELSE IF items[t] > 0 THEN addressee[t]
           ELSE AddressGroup(t, involved')]
  BY DEF SetItems
<1>2. \A t \in Tasks : its[t] \in Nat /\ items[t] \in Nat
  BY DEF Items, DossierInv, DossierTypeOK
<1>3. DossierTypeOK'
  <2>1. \A t \in Tasks : AddressGroup(t, involved') \in Authorities \cup Controls \cup {NoService}
    BY AddressGroupType
  <2>2. addressee' \in [Tasks -> Authorities \cup Controls \cup {NoService}]
    BY <1>1, <2>1 DEF DossierInv, DossierTypeOK
  <2>3. case' \in CaseStatus \ {"none"}
    BY DEF DossierInv, DossierTypeOK, CaseStatus
  <2> QED
    BY <1>1, <2>2, <2>3 DEF DossierInv, DossierTypeOK, Items, Rows, AllServices
<1>4. Counted' = Counted
  BY DEF Counted
<1>5. OneMain'
  <2>1. CASE \A t \in Tasks : its[t] = 0
    BY <1>1, <2>1 DEF OneMain, OpenCase
  <2>2. CASE \E m \in Counted : its[m] = 1 /\ \A t \in Counted \ {m} : its[t] = 0
    BY <1>1, <1>4, <2>2 DEF OneMain
  <2> QED
    BY <2>1, <2>2
<1>6. case' \notin OpenCase => \A t \in Tasks : its[t] = 0
  BY DEF OpenCase
<1>7. ClosedCaseIsClean'
  BY <1>1, <1>2, <1>6, TasksKnown DEF ClosedCaseIsClean, MainTasks
<1>8. DistributionFollowsItem'
  <2>1. dcase' \in OpenCase => case' = case
    BY TasksKnown DEF MainTasks
  <2> QED
    BY <1>1, <2>1 DEF DistributionFollowsItem
<1>9. SubmitFirst' /\ SomebodyResponsible'
  BY <1>1 DEF SubmitFirst, SomebodyResponsible
<1>10. AddressedToResponsible'
  <2>1. ASSUME NEW t \in Tasks \ {"awa"}, its[t] > 0
        PROVE  addressee'[t] = AddressGroup(t, involved')
    <3>1. CASE items[t] > 0
      BY <1>1, <1>2, <2>1, <3>1 DEF DossierInv, AddressedToResponsible
    <3>2. CASE items[t] = 0
      BY <1>1, <1>2, <2>1, <3>2
    <3> QED
      BY <1>2, <3>1, <3>2
  <2>2. ASSUME NEW t, ActiveIn(Controls, involved') # {},
               addressee'[t] = Responsible(Controls, involved')
        PROVE  addressee'[t] \in Controls /\ involved'[addressee'[t]] # "none"
    BY <2>2, ResponsibleIsActive, TasksKnown DEF ActiveIn
  <2>3. ASSUME NEW t \in ControlTasks, its[t] > 0
        PROVE  addressee'[t] \in Controls /\ involved'[addressee'[t]] # "none"
    <3>1. t \in Tasks \ {"awa"} /\ addressee'[t] = Responsible(Controls, involved')
      BY <2>1, <2>3, TasksKnown, AddressGroupType
    <3>2. ActiveIn(Controls, involved') # {}
      BY <1>1, <1>2, <2>3, <3>1 DEF ControlAfterDecision
    <3> QED
      BY <2>2, <3>1, <3>2
  <2>4. ASSUME its["awa"] > 0
        PROVE  addressee'["awa"] \in Controls /\ involved'[addressee'["awa"]] # "none"
    <3>1. CASE items["awa"] > 0
      <4>1. addressee'["awa"] = addressee["awa"]
        BY <1>1, <1>2, <2>4, <3>1, TasksKnown
      <4>2. addressee["awa"] \in Controls /\ involved[addressee["awa"]] # "none"
        BY <3>1 DEF DossierInv, AddressedToResponsible
      <4> QED
        BY <4>1, <4>2
    <3>2. CASE items["awa"] = 0
      <4>1. addressee'["awa"] = Responsible(Controls, involved')
        BY <1>1, <1>2, <2>4, <3>2, TasksKnown, AddressGroupType
      <4>2. ActiveIn(Controls, involved') # {}
        BY <2>4, <3>2
      <4> QED
        BY <2>2, <4>1, <4>2
    <3> QED
      BY <1>2, <3>1, <3>2, TasksKnown
  <2> QED
    BY <1>1, <2>1, <2>3, <2>4 DEF AddressedToResponsible
<1> QED
  BY <1>3, <1>5, <1>7, <1>8, <1>9, <1>10 DEF DossierInv

(* A step that leaves items, rows and case as they are.                    *)
LEMMA KeepStep ==
  ASSUME DossierInv,
         UNCHANGED <<kind, case, items, addressee, involved>>,
         dcase' = dcase, lead' = lead, DistTypeOK',
         {state', prev', seen'} \subseteq States, handler' \in HandlerSteps,
         SomebodyResponsible'
  PROVE  DossierInv'
<1>1. DossierTypeOK'
  BY DEF DossierInv, DossierTypeOK
<1>2. OneMain' /\ OneActive' /\ SubmitFirst' /\ ControlAfterDecision'
  BY DEF DossierInv, OneMain, OneActive, SubmitFirst, ControlAfterDecision, Counted
<1>3. ClosedCaseIsClean' /\ DistributionFollowsItem' /\ AddressedToResponsible'
  BY DEF DossierInv, ClosedCaseIsClean, DistributionFollowsItem, AddressedToResponsible
<1> QED
  BY <1>1, <1>2, <1>3 DEF DossierInv

(* The counted main item that is open is the only one.                     *)
LEMMA OpenMain ==
  ASSUME DossierInv, case = "running", NEW m \in Counted, items[m] > 0
  PROVE  items[m] = 1 /\ \A t \in Counted \ {m} : items[t] = 0
BY DEF DossierInv, OneMain, OpenCase

(* A step beside the procedure keeps the main items.                       *)
LEMMA QuietStep ==
  ASSUME DossierInv, case = "running",
         NEW its \in Items, SetItems(its),
         UNCHANGED <<kind, involved, state, prev, seen>>, UNCHANGED distVars,
         handler' \in HandlerSteps,
         case' = case \/ case' = CaseWith(its),
         \A t \in MainTasks : its[t] = items[t],
         \A t \in ControlTasks \cup {"audit", "publication", "nfd", "awa"} :
           its[t] <= items[t],
         \A t \in {"information-of-neighbors", "create-information-of-neighbors"} :
           /\ items["information-of-neighbors"] = 0
           /\ items["create-information-of-neighbors"] = 0
           => its[t] = 0,
         NEW u \in Tasks \ {"submit"}, items[u] > 0
  PROVE  DossierInv'
<1>1. \A t \in Tasks : items[t] \in Nat /\ its[t] \in Nat
  BY DEF DossierInv, DossierTypeOK, Items
<1>2. PICK m \in Counted : items[m] = 1 /\ \A t \in Counted \ {m} : items[t] = 0
  BY DEF DossierInv, OneMain, OpenCase
<1>3. m \in MainTasks /\ m \in Tasks /\ its[m] = 1 /\ \A t \in Counted \ {m} : its[t] = 0
  BY <1>2, TasksKnown
<1>4. case' = IF \A t \in Tasks : its[t] = 0 THEN "completed" ELSE case
  BY <1>3 DEF CaseWith
<1>5. /\ {state', prev', seen'} \subseteq States /\ handler' \in HandlerSteps
      /\ involved' \in Rows /\ DistTypeOK'
  BY TypeNext DEF DossierInv, DossierTypeOK, Rows, AllServices
<1>6. /\ its["ebau-number"] <= 1
      /\ its["distribution"] > 0 <=> dcase' \in OpenCase
      /\ dcase' \in OpenCase => dcase' = "running" /\ lead' = Responsible(Authorities, involved')
  BY DEF DossierInv, OneMain, DistributionFollowsItem, AddressedToResponsible, MainTasks,
     distVars
<1>7. OneActive' /\ ActiveIn(Authorities, involved') # {}
  BY <1>1 DEF DossierInv, OneActive, SomebodyResponsible
<1>8. items["submit"] = 0 /\ its["submit"] = 0
  BY <1>1, TasksKnown DEF DossierInv, SubmitFirst, MainTasks
<1>9. ControlAfterDecision'
  <2>1. items' = its
    BY DEF SetItems
  <2>2. ActiveIn(Controls, involved) = {} =>
          \A t \in ControlTasks \cup {"sb1", "sb2"} : its[t] = 0
    <3>1. \A t \in ControlTasks : its[t] \in Nat /\ items[t] \in Nat
      BY <1>1, TasksKnown
    <3> QED
      BY <3>1 DEF DossierInv, ControlAfterDecision, MainTasks
  <2>3. ActiveIn(Controls, involved) # {} => \A t \in BeforeDecision : its[t] = 0
    <3>1. \A t \in BeforeDecision : its[t] \in Nat /\ items[t] \in Nat
      BY <1>1, TasksKnown
    <3> QED
      BY <3>1 DEF DossierInv, ControlAfterDecision, MainTasks, BeforeDecision
  <2> QED
    BY <2>1, <2>2, <2>3 DEF ControlAfterDecision
<1>10. its["awa"] <= items["awa"] /\ its["awa"] \in Nat /\ items["awa"] \in Nat
  BY <1>1, TasksKnown
<1> QED
  BY <1>3, <1>4, <1>5, <1>6, <1>7, <1>8, <1>9, <1>10, ItemStep

-----------------------------------------------------------------------------
(* The requests, one by one.                                               *)

(* A new "distribution" item starts the distribution, with the responsible *)
(* authority as its lead.                                                  *)
LEMMA StartStep ==
  ASSUME DossierInv, NEW its \in Items, StartIfCreated(its),
         items["distribution"] = 0, its["distribution"] \in {0, 1},
         ActiveIn(Authorities, involved') # {}
  PROVE  /\ DistTypeOK'
         /\ its["distribution"] > 0 <=> dcase' \in OpenCase
         /\ dcase' \in OpenCase =>
              dcase' = "running" /\ lead' = Responsible(Authorities, involved')
<1>1. dcase \notin OpenCase /\ DistTypeOK
  BY DEF DossierInv, DossierTypeOK, DistributionFollowsItem
<1>2. CASE its["distribution"] = 1
  <2>1. StartDistribution(Responsible(Authorities, involved'))
    BY <1>2 DEF StartIfCreated
  <2>2. Responsible(Authorities, involved') \in Authorities
    BY ResponsibleIsActive, TasksKnown DEF ActiveIn
  <2>3. DistTypeOK'
    BY <1>1, <2>1, <2>2, TypeNext DEF DistNext
  <2> QED
    BY <1>2, <2>1, <2>3 DEF StartDistribution, OpenCase
<1>3. CASE its["distribution"] = 0
  <2>1. UNCHANGED distVars
    BY <1>3 DEF StartIfCreated
  <2>2. DistTypeOK'
    BY <1>1, <2>1, TypeNext
  <2> QED
    BY <1>1, <1>3, <2>1, <2>2 DEF distVars
<1> QED
  BY <1>2, <1>3

(* Submission makes exactly one authority responsible.                     *)
LEMMA SubmittedRowsValues ==
  ASSUME DossierInv
  PROVE  /\ SubmittedRows \in Rows
         /\ ActiveIn(Authorities, SubmittedRows) # {}
         /\ \A a, b \in ActiveIn(Authorities, SubmittedRows) : a = b
         /\ \A s \in Controls : SubmittedRows[s] = involved[s]
         /\ ActiveIn(Authorities, involved) # {} => SubmittedRows = involved
<1>1. involved \in Rows /\ FormMunicipality \in Authorities
  BY DossierAssumption DEF DossierInv, DossierTypeOK, Rows, AllServices
<1>2. CASE ActiveIn(Authorities, involved) = {}
  <2>1. SubmittedRows = [involved EXCEPT ![FormMunicipality] = "active"]
    BY <1>2, ResponsibleIsActive, TasksKnown DEF SubmittedRows
  <2>2. ActiveIn(Authorities, SubmittedRows) = {FormMunicipality}
    BY <1>1, <1>2, <2>1 DEF ActiveIn, Rows, AllServices
  <2> QED
    BY <1>1, <1>2, <2>1, <2>2, DossierAssumption DEF Rows, AllServices
<1>3. CASE ActiveIn(Authorities, involved) # {}
  <2>1. SubmittedRows = involved
    BY <1>3, ResponsibleIsActive, TasksKnown DEF SubmittedRows
  <2> QED
    BY <1>1, <1>3, <2>1 DEF DossierInv, OneActive
<1> QED
  BY <1>2, <1>3

(* What the submission opens.                                              *)
LEMMA SubmittedValues ==
  ASSUME DossierInv, items["submit"] = 1,
         \A t \in Tasks \ {"submit"} : items[t] = 0
  PROVE  LET submitted == Process(items, {"submit"})
             its == IF kind = "extend-validity"
                    THEN Process(submitted, {"ebau-number"}) ELSE submitted
         IN  /\ its \in Items
             /\ \A t \in ControlTasks \cup {"submit", "sb1", "sb2", "awa"} : its[t] = 0
             /\ its["nfd"] = 1
             /\ its["ebau-number"] = IF kind = "extend-validity" THEN 0 ELSE 1
             /\ its["distribution"] = IF kind = "extend-validity" THEN 1 ELSE 0
             /\ its["decision"] = IF kind = "internal" THEN 1 ELSE 0
<1> DEFINE submitted == Process(items, {"submit"})
           numbered  == Process(submitted, {"ebau-number"})
<1>1. items \in Items /\ {"submit"} \in SUBSET Tasks /\ {"ebau-number"} \in SUBSET Tasks
  BY DEF DossierInv, DossierTypeOK, Items, Tasks, MunicipalTasks
<1>2. submitted \in Items /\ \A x \in Tasks :
        submitted[x] = IF x \in AfterSubmit THEN 1 ELSE 0
  <2>1. submitted \in Items /\ \A x \in Tasks :
          submitted[x] = IF items["submit"] > 0 /\ x \in Flow("submit")
                         THEN (IF x = "submit" THEN 0 ELSE items[x]) + 1
                         ELSE (IF x = "submit" THEN 0 ELSE items[x])
    BY <1>1, ProcessValues
  <2> QED
    BY <2>1, FlowValues
<1> HIDE DEF submitted
<1>3. numbered \in Items /\ \A x \in Tasks :
        numbered[x] =
          IF submitted["ebau-number"] > 0 /\ x \in Flow("ebau-number")
          THEN (IF x = "ebau-number" THEN 0 ELSE submitted[x]) + 1
          ELSE (IF x = "ebau-number" THEN 0 ELSE submitted[x])
  BY <1>1, <1>2, ProcessValues
<1> HIDE DEF numbered
<1>4. CASE kind = "extend-validity"
  BY <1>2, <1>3, <1>4, FlowValues
     DEF AfterSubmit, Tasks, MunicipalTasks, ControlTasks, submitted, numbered
<1>5. CASE kind # "extend-validity"
  BY <1>2, <1>5 DEF AfterSubmit, Tasks, MunicipalTasks, ControlTasks, submitted
<1> QED
  BY <1>4, <1>5

LEMMA SubmitStep == DossierInv /\ Submit => DossierInv'
<1> SUFFICES ASSUME DossierInv, Submit PROVE DossierInv'
  OBVIOUS
<1> DEFINE submitted == Process(items, {"submit"})
           its == IF kind = "extend-validity"
                  THEN Process(submitted, {"ebau-number"}) ELSE submitted
<1>1. /\ case = "running" /\ items["submit"] > 0 /\ SetItems(its) /\ StartIfCreated(its)
      /\ involved' = SubmittedRows /\ kind' = kind /\ case' = case
      /\ state' = SubmittedState /\ prev' = state /\ handler' = handler /\ seen' = seen
  BY DEF Submit, Ready, GoTo, Keep
<1>2. items["submit"] = 1 /\ \A t \in Tasks \ {"submit"} : items[t] = 0
  <2>1. "submit" \in Counted
    BY DEF Counted, MainTasks
  <2> QED
    BY <1>1, <2>1, OpenMain DEF DossierInv, SubmitFirst
<1>3. /\ its \in Items
      /\ \A t \in ControlTasks \cup {"submit", "sb1", "sb2", "awa"} : its[t] = 0
      /\ its["nfd"] = 1
      /\ its["ebau-number"] = IF kind = "extend-validity" THEN 0 ELSE 1
      /\ its["distribution"] = IF kind = "extend-validity" THEN 1 ELSE 0
      /\ its["decision"] = IF kind = "internal" THEN 1 ELSE 0
  BY <1>2, SubmittedValues
<1> HIDE DEF its, submitted
<1>4. /\ involved' \in Rows /\ ActiveIn(Authorities, involved') # {}
      /\ \A a, b \in ActiveIn(Authorities, involved') : a = b
      /\ ActiveIn(Controls, involved') = ActiveIn(Controls, involved)
      /\ \A c \in Controls : involved'[c] = involved[c]
  BY <1>1, SubmittedRowsValues, SameRowsSameResponsible
<1>5. /\ DistTypeOK'
      /\ its["distribution"] > 0 <=> dcase' \in OpenCase
      /\ dcase' \in OpenCase =>
           dcase' = "running" /\ lead' = Responsible(Authorities, involved')
  <2>1. items["distribution"] = 0
    BY <1>2, TasksKnown DEF MainTasks
  <2> QED
    BY <1>1, <1>3, <1>4, <2>1, StartStep
<1>6. \E m \in Counted : its[m] = 1 /\ \A t \in Counted \ {m} : its[t] = 0
  <2>1. CASE kind = "internal"
    <3>1. "decision" \in Counted
      BY DEF Counted, MainTasks
    <3> QED
      BY <1>3, <2>1, <3>1 DEF Counted, MainTasks, ControlTasks
  <2>2. CASE kind = "extend-validity"
    <3>1. "distribution" \in Counted
      BY DEF Counted, MainTasks
    <3> QED
      BY <1>3, <2>2, <3>1 DEF Counted, MainTasks, ControlTasks
  <2>3. CASE kind \notin {"internal", "extend-validity"}
    <3>1. "ebau-number" \in Counted
      BY <2>3 DEF Counted, MainTasks
    <3> QED
      BY <1>3, <2>3, <3>1 DEF Counted, MainTasks, ControlTasks
  <2> QED
    BY <2>1, <2>2, <2>3
<1>7. OneActive' /\ ControlAfterDecision'
  <2>1. ActiveIn(Controls, involved) = {}
    BY <1>2 DEF DossierInv, ControlAfterDecision, BeforeDecision
  <2>2. items' = its
    BY <1>1 DEF SetItems
  <2> QED
    BY <1>3, <1>4, <2>1, <2>2 DEF OneActive, ControlAfterDecision
<1>8. /\ {state', prev', seen'} \subseteq States /\ handler' \in HandlerSteps
  BY <1>1 DEF SubmittedState, States, DossierInv, DossierTypeOK
<1>9. /\ case' = IF \A t \in Tasks : its[t] = 0 THEN "completed" ELSE case
      /\ its["ebau-number"] <= 1
      /\ its["submit"] > 0 => \A t \in Tasks \ {"submit"} : its[t] = 0
  BY <1>1, <1>3, TasksKnown DEF SideTasks
<1>10. \A t \in Tasks : items[t] > 0 /\ its[t] > 0 =>
         AddressGroup(t, involved') = AddressGroup(t, involved)
  BY <1>2, <1>3
<1>11. its["awa"] = 0 /\ items["awa"] = 0
  BY <1>2, <1>3, TasksKnown DEF MainTasks
<1> QED
  BY <1>1, <1>3, <1>4, <1>5, <1>6, <1>7, <1>8, <1>9, <1>10, <1>11, ItemStep

LEMMA SubmitRejectedStep == DossierInv /\ SubmitRejected => DossierInv'
<1> SUFFICES ASSUME DossierInv, SubmitRejected PROVE DossierInv'
  OBVIOUS
<1>1. ActiveIn(Authorities, involved) # {}
  BY DEF SubmitRejected, DossierInv, SomebodyResponsible
<1>2. involved' = involved
  BY <1>1, SubmittedRowsValues DEF SubmitRejected
<1>3. /\ UNCHANGED <<kind, case, items, addressee, involved>> /\ UNCHANGED distVars
      /\ handler' = handler /\ seen' = seen /\ state' = SubmittedState /\ prev' = state
  BY <1>2 DEF SubmitRejected, Keep, GoTo
<1>4. {state', prev', seen'} \subseteq States /\ handler' \in HandlerSteps
  BY <1>3 DEF SubmittedState, States, DossierInv, DossierTypeOK
<1>5. DistTypeOK' /\ dcase' = dcase /\ lead' = lead
  BY <1>3, TypeNext DEF DossierInv, DossierTypeOK, distVars
<1>6. SomebodyResponsible'
  BY <1>1, <1>2 DEF SomebodyResponsible
<1> QED
  BY <1>3, <1>4, <1>5, <1>6, KeepStep

LEMMA EbauNumberStep == DossierInv /\ CompleteEbauNumber => DossierInv'
<1> SUFFICES ASSUME DossierInv, CompleteEbauNumber PROVE DossierInv'
  OBVIOUS
<1> DEFINE its == Process(items, {"ebau-number"})
<1>1. /\ case = "running" /\ items["ebau-number"] > 0 /\ SetItems(its) /\ StartIfCreated(its)
      /\ UNCHANGED <<kind, case, involved, handler, seen>>
      /\ {state', prev'} \subseteq {"circulation_init", state, prev}
  BY DEF CompleteEbauNumber, Ready, GoTo, KeepState, Keep
<1>2. items \in Items /\ \A t \in Tasks : items[t] \in Nat
  BY DEF DossierInv, DossierTypeOK, Items
<1>3. its \in Items /\ \A x \in Tasks :
        its[x] = IF x \in Flow("ebau-number")
                 THEN (IF x = "ebau-number" THEN 0 ELSE items[x]) + 1
                 ELSE (IF x = "ebau-number" THEN 0 ELSE items[x])
  <2>1. {"ebau-number"} \in SUBSET Tasks
    BY DEF Tasks, MunicipalTasks
  <2> QED
    BY <1>1, <1>2, <2>1, ProcessValues
<1> HIDE DEF its
<1>4. /\ its["ebau-number"] = 0
      /\ \A x \in {"submit", "decision", "sb1", "sb2", "awa"} \cup ControlTasks :
           its[x] = items[x]
      /\ its["distribution"] = IF kind = "internal" THEN items["distribution"]
                               ELSE items["distribution"] + 1
  BY <1>2, <1>3, FlowValues DEF Tasks, MunicipalTasks, ControlTasks
<1>5. ActiveIn(Controls, involved) = {} /\ ActiveIn(Authorities, involved) # {}
      /\ items["submit"] = 0
  BY <1>1, <1>2, TasksKnown
     DEF DossierInv, ControlAfterDecision, BeforeDecision, SomebodyResponsible, SubmitFirst,
         MainTasks
<1>6. \E m \in Counted : its[m] = 1 /\ \A t \in Counted \ {m} : its[t] = 0
  <2>1. CASE kind = "internal"
    <3>1. \A t \in Counted : its[t] = items[t]
      BY <1>4, <2>1 DEF Counted, MainTasks, ControlTasks
    <3> QED
      BY <1>1, <3>1 DEF DossierInv, OneMain, OpenCase
  <2>2. CASE kind # "internal"
    <3>1. "ebau-number" \in Counted /\ "distribution" \in Counted
      BY <2>2 DEF Counted, MainTasks
    <3>2. \A t \in Counted \ {"ebau-number"} : items[t] = 0
      BY <1>1, <3>1, OpenMain
    <3> QED
      BY <1>4, <2>2, <3>1, <3>2 DEF Counted, MainTasks, ControlTasks
  <2> QED
    BY <2>1, <2>2
<1>7. /\ DistTypeOK'
      /\ its["distribution"] > 0 <=> dcase' \in OpenCase
      /\ dcase' \in OpenCase =>
           dcase' = "running" /\ lead' = Responsible(Authorities, involved')
  <2>1. CASE kind = "internal"
    <3>1. UNCHANGED distVars
      BY <1>1, <1>2, <1>4, <2>1, TasksKnown DEF StartIfCreated, MainTasks
    <3> QED
      BY <1>1, <1>4, <2>1, <3>1, TypeNext
         DEF distVars, DossierInv, DossierTypeOK, DistributionFollowsItem,
             AddressedToResponsible
  <2>2. CASE kind # "internal"
    <3>1. "ebau-number" \in Counted /\ "distribution" \in Counted
      BY <2>2 DEF Counted, MainTasks
    <3>2. items["distribution"] = 0 /\ its["distribution"] = 1
      BY <1>1, <1>4, <2>2, <3>1, OpenMain
    <3> QED
      BY <1>1, <1>3, <1>5, <3>2, StartStep
  <2> QED
    BY <2>1, <2>2
<1>8. OneActive' /\ ControlAfterDecision'
  <2>1. items' = its
    BY <1>1 DEF SetItems
  <2>2. \A t \in ControlTasks \cup {"sb1", "sb2"} : its[t] = 0
    BY <1>4, <1>5 DEF DossierInv, ControlAfterDecision
  <2> QED
    BY <1>1, <1>5, <2>1, <2>2 DEF DossierInv, OneActive, ControlAfterDecision
<1>9. /\ {state', prev', seen'} \subseteq States /\ handler' \in HandlerSteps /\ involved' \in Rows
  BY <1>1 DEF States, DossierInv, DossierTypeOK, Rows, AllServices
<1>10. /\ case' = IF \A t \in Tasks : its[t] = 0 THEN "completed" ELSE case
       /\ its["ebau-number"] <= 1
       /\ its["submit"] > 0 => \A t \in Tasks \ {"submit"} : its[t] = 0
  BY <1>1, <1>4, <1>5, <1>6, TasksKnown
<1>11. its["awa"] = items["awa"] /\ items["awa"] \in Nat
  BY <1>2, <1>4, TasksKnown
<1> QED
  BY <1>1, <1>3, <1>5, <1>6, <1>7, <1>8, <1>9, <1>10, <1>11, ItemStep

LEMMA SideTaskStep ==
  ASSUME DossierInv, NEW t \in SideTasks, CompleteSideTask(t)
  PROVE  DossierInv'
<1> DEFINE its == Process(items, {t})
<1>1. /\ case = "running" /\ items[t] > 0 /\ SetItems(its) /\ case' = CaseWith(its)
      /\ UNCHANGED <<kind, involved, state, prev, handler, seen>> /\ UNCHANGED distVars
  BY DEF CompleteSideTask, Ready, KeepState, Keep
<1>2. items \in Items /\ t \in Tasks \ {"submit"} /\ handler' \in HandlerSteps
  BY <1>1, TasksKnown DEF DossierInv, DossierTypeOK, Items, SideTasks
<1>3. /\ its \in Items
      /\ \A x \in MainTasks \cup {"create-manual-workitems"} : its[x] = items[x]
      /\ \A x \in ControlTasks \cup {"audit", "publication", "nfd", "awa"} :
           its[x] <= items[x]
      /\ \A x \in {"information-of-neighbors", "create-information-of-neighbors"} :
           items["information-of-neighbors"] = 0 /\ items["create-information-of-neighbors"] = 0
             => its[x] = 0
  BY <1>2, SideTaskValues
<1> HIDE DEF its
<1> QED
  BY <1>1, <1>2, <1>3, QuietStep

LEMMA ManualStep == DossierInv /\ (CreateManual \/ CompleteManual) => DossierInv'
<1> SUFFICES ASSUME DossierInv, CreateManual \/ CompleteManual PROVE DossierInv'
  OBVIOUS
<1>1. items \in Items /\ \A t \in Tasks : items[t] \in Nat
  BY DEF DossierInv, DossierTypeOK, Items
<1>2. /\ case = "running" /\ items["create-manual-workitems"] > 0 /\ case' = case
      /\ UNCHANGED <<kind, involved, state, prev, handler, seen>> /\ UNCHANGED distVars
  BY DEF CreateManual, CompleteManual, Ready, KeepState, Keep
<1>3. PICK its \in Items :
        SetItems(its) /\ \A t \in Tasks \ {"create-manual-workitems"} : its[t] = items[t]
  <2>1. CASE CreateManual
    BY <1>1, <2>1, CreateValues DEF CreateManual
  <2>2. CASE CompleteManual
    <3>1. /\ "create-manual-workitems" \in Tasks
          /\ items["create-manual-workitems"] > 1
          /\ SetItems([items EXCEPT !["create-manual-workitems"] = @ - 1])
      BY <2>2, TasksKnown DEF CompleteManual
    <3>2. items["create-manual-workitems"] - 1 \in Nat
      BY <1>1, <3>1
    <3>3. [items EXCEPT !["create-manual-workitems"] = @ - 1] \in Items
      BY <1>1, <3>2, Zenon DEF Items
    <3>4. \A t \in Tasks \ {"create-manual-workitems"} :
            [items EXCEPT !["create-manual-workitems"] = @ - 1][t] = items[t]
      BY <1>1 DEF Items
    <3> QED
      BY <3>1, <3>3, <3>4
  <2> QED
    BY <2>1, <2>2
<1>4. /\ \A t \in MainTasks \cup ControlTasks \cup BeforeDecision \cup {"awa"} :
           t \in Tasks /\ t # "create-manual-workitems"
      /\ "create-manual-workitems" \in Tasks \ {"submit"}
  BY DEF Tasks, MainTasks, ControlTasks, MunicipalTasks, BeforeDecision
<1>5. /\ \A t \in MainTasks : its[t] = items[t]
      /\ \A t \in ControlTasks \cup {"audit", "publication", "nfd", "awa"} :
           its[t] <= items[t]
      /\ \A t \in {"information-of-neighbors", "create-information-of-neighbors"} :
           /\ items["information-of-neighbors"] = 0
           /\ items["create-information-of-neighbors"] = 0
           => its[t] = 0
  BY <1>1, <1>3, <1>4 DEF BeforeDecision
<1>6. handler' \in HandlerSteps
  BY <1>2 DEF DossierInv, DossierTypeOK
<1> QED
  BY <1>2, <1>3, <1>4, <1>5, <1>6, QuietStep

-----------------------------------------------------------------------------
(* The distribution below the dossier.                                     *)

(* While it runs, the dossier has its "distribution" item and a            *)
(* responsible authority, and its construction control is not yet active.  *)
LEMMA DistributionRuns ==
  ASSUME DossierInv, dcase \in OpenCase
  PROVE  /\ items["distribution"] > 0 /\ dcase = case
         /\ lead = Responsible(Authorities, involved)
         /\ ActiveIn(Authorities, involved) # {}
         /\ ActiveIn(Controls, involved) = {}
<1>1. /\ items["distribution"] \in Nat /\ items["distribution"] > 0 /\ dcase = case
      /\ "distribution" \in Tasks \ {"submit"} /\ "distribution" \in BeforeDecision
  BY DEF DossierInv, DossierTypeOK, DistributionFollowsItem, Tasks, MunicipalTasks,
     BeforeDecision
<1> QED
  BY <1>1 DEF DossierInv, AddressedToResponsible, SomebodyResponsible, ControlAfterDecision

LEMMA DistributeStep == DossierInv /\ Distribute => DossierInv'
<1> SUFFICES ASSUME DossierInv, Distribute PROVE DossierInv'
  OBVIOUS
<1>1. dcase = "running" /\ dcase' = dcase /\ lead' = lead
  BY DEF Distribute, CreateInquiries, SendInquiry, AnswerInquiry, WithdrawInquiry,
     CheckInquiry, CompleteInit
<1>2. DistTypeOK'
  <2>1. DistNext
    BY DEF Distribute, DistNext
  <2> QED
    BY <2>1, TypeNext DEF DossierInv, DossierTypeOK
<1>3. /\ UNCHANGED <<kind, case, items, addressee, involved>>
      /\ handler' = handler /\ seen' = seen
      /\ {state', prev'} \subseteq {"circulation", state, prev}
  BY DEF Distribute, Keep, StateAfterInit, KeepState, GoTo
<1>4. {state', prev', seen'} \subseteq States /\ handler' \in HandlerSteps
  BY <1>3 DEF States, DossierInv, DossierTypeOK
<1>5. SomebodyResponsible'
  BY <1>1, <1>3, DistributionRuns DEF SomebodyResponsible, OpenCase
<1> QED
  BY <1>1, <1>2, <1>3, <1>4, <1>5, KeepStep

(* Completing or skipping "distribution" opens the decision.               *)
LEMMA AfterDistribution ==
  ASSUME DossierInv, Ready("distribution"),
         SetItems(Process(items, {"distribution"})),
         CompleteDistribution \/ CancelDistribution,
         UNCHANGED <<kind, case, involved>>,
         {state', prev', seen'} \subseteq States, handler' \in HandlerSteps
  PROVE  DossierInv'
<1> DEFINE its == Process(items, {"distribution"})
<1>1. /\ case = "running" /\ items["distribution"] > 0
      /\ items \in Items /\ \A t \in Tasks : items[t] \in Nat
      /\ "distribution" \in Counted /\ "decision" \in Counted
      /\ "decision" \in Tasks /\ "distribution" \in Tasks
  BY DEF Ready, DossierInv, DossierTypeOK, Items, Counted, MainTasks, Tasks, MunicipalTasks
<1>2. /\ items["distribution"] = 1
      /\ \A t \in Counted \ {"distribution"} : items[t] = 0
  BY <1>1, OpenMain
<1>3. its \in Items /\ \A x \in Tasks :
        its[x] = IF x = "decision" THEN 1 ELSE IF x = "distribution" THEN 0 ELSE items[x]
  <2>1. {"distribution"} \in SUBSET Tasks
    BY <1>1
  <2>2. its \in Items /\ \A x \in Tasks :
          its[x] = IF x \in {"decision"}
                   THEN (IF x = "distribution" THEN 0 ELSE items[x]) + 1
                   ELSE (IF x = "distribution" THEN 0 ELSE items[x])
    BY <1>1, <2>1, ProcessValues, FlowValues
  <2> QED
    BY <1>1, <1>2, <2>2
<1> HIDE DEF its
<1>4. \A t \in Counted \ {"decision"} : its[t] = 0
  BY <1>2, <1>3, TasksKnown
<1>5. /\ ActiveIn(Authorities, involved) # {} /\ ActiveIn(Controls, involved) = {}
      /\ items["submit"] = 0 /\ dcase \in OpenCase
  BY <1>1, <1>2, TasksKnown, DistributionRuns
     DEF DossierInv, DistributionFollowsItem, Counted, MainTasks
<1>6. DistTypeOK' /\ dcase' \notin OpenCase
  <2>1. DistNext
    BY DEF DistNext
  <2> QED
    BY <2>1, TypeNext
       DEF DossierInv, DossierTypeOK, CompleteDistribution, CancelDistribution, OpenCase
<1>7. OneActive' /\ ControlAfterDecision'
  <2>1. items' = its
    BY DEF SetItems, its
  <2>2. \A t \in ControlTasks \cup {"sb1", "sb2"} : its[t] = 0
    <3>1. \A t \in ControlTasks \cup {"sb1", "sb2"} :
            t \in Tasks /\ t \notin {"decision", "distribution"}
      BY DEF Tasks, ControlTasks
    <3> QED
      BY <1>3, <1>5, <3>1 DEF DossierInv, ControlAfterDecision
  <2> QED
    BY <1>5, <2>1, <2>2 DEF DossierInv, OneActive, ControlAfterDecision
<1>8. /\ its["ebau-number"] <= 1 /\ its["distribution"] = 0 /\ its["submit"] = 0
      /\ its["decision"] = 1
  BY <1>1, <1>3, <1>5, TasksKnown DEF DossierInv, OneMain, Tasks, MunicipalTasks
<1>9. /\ involved' \in Rows /\ SetItems(its)
      /\ case' = IF \A t \in Tasks : its[t] = 0 THEN "completed" ELSE case
      /\ \A t \in Tasks : AddressGroup(t, involved') = AddressGroup(t, involved)
  BY <1>1, <1>8 DEF its, DossierInv, DossierTypeOK, Rows, AllServices
<1>10. its["awa"] = items["awa"] /\ items["awa"] \in Nat
  BY <1>1, <1>3, TasksKnown DEF Counted
<1> QED
  BY <1>1, <1>3, <1>4, <1>5, <1>6, <1>7, <1>8, <1>9, <1>10, ItemStep

LEMMA EndDistributionStep == DossierInv /\ EndDistribution => DossierInv'
<1> SUFFICES ASSUME DossierInv, EndDistribution PROVE DossierInv'
  OBVIOUS
<1>1. /\ Ready("distribution") /\ SetItems(Process(items, {"distribution"}))
      /\ CompleteDistribution /\ UNCHANGED <<kind, case, involved>>
      /\ state' = "coordination" /\ prev' = state /\ handler' = handler /\ seen' = seen
  BY DEF EndDistribution, GoTo, Keep
<1>2. {state', prev', seen'} \subseteq States /\ handler' \in HandlerSteps
  BY <1>1 DEF States, DossierInv, DossierTypeOK
<1> QED
  BY <1>1, <1>2, AfterDistribution

(* While an eCH handler runs, there is a responsible authority.            *)
LEMMA BusyIsSubmitted ==
  DossierInv /\ handler # "idle" => ActiveIn(Authorities, involved) # {}
BY DEF DossierInv, SomebodyResponsible

LEMMA SkipDistributionStep == DossierInv /\ EchSkipDistribution => DossierInv'
<1> SUFFICES ASSUME DossierInv, EchSkipDistribution PROVE DossierInv'
  OBVIOUS
<1>1. /\ handler = "ruling" /\ handler' = "deciding"
      /\ UNCHANGED <<kind, case, involved, seen, state, prev>>
      /\ {state', prev', seen'} \subseteq States /\ handler' \in HandlerSteps
  BY DEF EchSkipDistribution, KeepState, DossierInv, DossierTypeOK, HandlerSteps, EchSteps
<1>2. CASE Ready("distribution")
  BY <1>1, <1>2, AfterDistribution DEF EchSkipDistribution
<1>3. CASE ~Ready("distribution")
  <2>1. UNCHANGED <<items, addressee>> /\ UNCHANGED distVars
    BY <1>3 DEF EchSkipDistribution
  <2>2. DistTypeOK' /\ dcase' = dcase /\ lead' = lead
    BY <2>1, TypeNext DEF DossierInv, DossierTypeOK, distVars
  <2>3. SomebodyResponsible'
    BY <1>1, BusyIsSubmitted DEF SomebodyResponsible
  <2> QED
    BY <1>1, <2>1, <2>2, <2>3, KeepStep
<1> QED
  BY <1>2, <1>3

-----------------------------------------------------------------------------
(* The decision and what follows it.                                       *)

(* A row of a construction control changes no work item of the others.     *)
LEMMA ControlJoins ==
  ASSUME DossierInv, ActiveIn(Controls, involved) = {},
         NEW c \in Controls, involved' = [involved EXCEPT ![c] = "active"]
  PROVE  /\ involved' \in Rows
         /\ ActiveIn(Controls, involved') = {c}
         /\ ActiveIn(Authorities, involved') = ActiveIn(Authorities, involved)
         /\ \A t \in Tasks \ (ControlTasks \cup {"awa"}) :
              AddressGroup(t, involved') = AddressGroup(t, involved)
         /\ \A s \in Controls : involved[s] # "none" => involved'[s] # "none"
<1>1. involved \in Rows /\ c \notin Authorities
  BY DossierAssumption DEF DossierInv, DossierTypeOK, Rows, AllServices
<1>2. involved' \in Rows /\ \A s \in AllServices :
        involved'[s] = IF s = c THEN "active" ELSE involved[s]
  BY <1>1 DEF Rows, AllServices
<1>3. /\ ActiveIn(Authorities, involved') = ActiveIn(Authorities, involved)
      /\ Responsible(Authorities, involved') = Responsible(Authorities, involved)
  <2>1. \A s \in Authorities : involved'[s] = involved[s]
    BY <1>1, <1>2 DEF AllServices
  <2> QED
    BY <2>1, SameRowsSameResponsible
<1>4. ActiveIn(Controls, involved') = {c}
  BY <1>2 DEF ActiveIn, AllServices
<1>5. \A t \in Tasks \ (ControlTasks \cup {"awa"}) :
        AddressGroup(t, involved') = AddressGroup(t, involved)
  BY <1>3, AddressGroupType
<1>6. \A s \in Controls : involved[s] # "none" => involved'[s] # "none"
  BY <1>2 DEF AllServices
<1> QED
  BY <1>2, <1>3, <1>4, <1>5, <1>6

LEMMA DecisionTakenStep ==
  ASSUME DossierInv, NEW continue \in BOOLEAN, DecisionTaken(continue),
         seen' = seen, handler' \in HandlerSteps
  PROVE  DossierInv'
<1> DEFINE its == Decided(items, continue)
           more == IF continue THEN 1 ELSE 0
<1>1. /\ case = "running" /\ items["decision"] > 0 /\ SetItems(its)
      /\ case' = CaseWith(its) /\ kind' = kind /\ UNCHANGED distVars
      /\ state' \in States /\ prev' = state
  BY DEF DecisionTaken, Ready, GoTo, DecidedState, States
<1>2. /\ items \in Items /\ \A t \in Tasks : items[t] \in Nat
      /\ "decision" \in Counted /\ "decision" \in Tasks
  BY DEF DossierInv, DossierTypeOK, Items, Counted, MainTasks, Tasks, MunicipalTasks
<1>3. \A t \in Counted \ {"decision"} : items[t] = 0
  BY <1>1, <1>2, OpenMain
<1>4. /\ ActiveIn(Controls, involved) = {} /\ ActiveIn(Authorities, involved) # {}
      /\ items["submit"] = 0 /\ items["distribution"] = 0 /\ dcase \notin OpenCase
      /\ \A t \in ControlTasks \cup {"sb1", "sb2"} : items[t] = 0
  <2>1. /\ "decision" \in BeforeDecision /\ "decision" \in Tasks \ {"submit"}
        /\ "submit" \in Counted /\ "distribution" \in Counted
    BY <1>2 DEF BeforeDecision, Counted, MainTasks
  <2> QED
    BY <1>1, <1>2, <1>3, <2>1
       DEF DossierInv, ControlAfterDecision, SomebodyResponsible, DistributionFollowsItem
<1>5. kind # "internal" => items["ebau-number"] = 0
  BY <1>3 DEF Counted, MainTasks
<1>6. /\ its \in Items /\ its["decision"] = 0 /\ its["sb1"] = more
      /\ its["ebau-number"] = 0
      /\ \A x \in {"submit", "distribution", "sb2"} \cup ControlTasks : its[x] = 0
      /\ \A x \in {"create-manual-workitems", "create-publication"} : its[x] = more
      /\ \A x \in {"audit", "publication", "fill-publication", "nfd", "awa",
                    "information-of-neighbors", "create-information-of-neighbors"} :
           its[x] = 0
  BY <1>2, <1>4, <1>5, DecidedValues
<1> HIDE DEF its
<1>7. \A t \in BeforeDecision : its[t] = 0
  BY <1>6 DEF BeforeDecision
<1>8. \/ \E m \in Counted : its[m] = 1 /\ \A t \in Counted \ {m} : its[t] = 0
      \/ \A t \in Tasks : its[t] = 0
  <2>1. CASE continue
    <3>1. "sb1" \in Counted
      BY DEF Counted, MainTasks
    <3>2. \A t \in Counted \ {"sb1"} : its[t] = 0
      BY <1>6 DEF Counted, MainTasks, ControlTasks
    <3> QED
      BY <1>6, <2>1, <3>1, <3>2
  <2>2. CASE ~continue
    BY <1>6, <2>2 DEF Tasks, MunicipalTasks, ControlTasks
  <2> QED
    BY <2>1, <2>2
<1>9. case' = IF \A t \in Tasks : its[t] = 0 THEN "completed" ELSE case
  BY <1>1 DEF CaseWith
<1>10. /\ {state', prev', seen'} \subseteq States /\ its["ebau-number"] <= 1
       /\ DistTypeOK' /\ dcase' \notin OpenCase
       /\ its["distribution"] = 0 /\ its["submit"] = 0
  BY <1>1, <1>4, <1>6, TypeNext DEF DossierInv, DossierTypeOK, distVars
<1>11. /\ involved' \in Rows /\ OneActive' /\ ActiveIn(Authorities, involved') # {}
       /\ ControlAfterDecision'
       /\ \A t \in Tasks \ (ControlTasks \cup {"awa"}) :
            AddressGroup(t, involved') = AddressGroup(t, involved)
       /\ \A s \in Controls : involved[s] # "none" => involved'[s] # "none"
  <2>1. items' = its
    BY <1>1 DEF SetItems
  <2>2. CASE continue
    <3>1. PICK m \in DecidingMunicipalities :
            involved' = [involved EXCEPT ![ControlOf[m]] = "active"]
      BY <2>2 DEF DecisionTaken
    <3>2. ControlOf[m] \in Controls
      BY DossierAssumption DEF DecidingMunicipalities, ActiveIn
    <3>3. /\ involved' \in Rows
          /\ ActiveIn(Controls, involved') = {ControlOf[m]}
          /\ ActiveIn(Authorities, involved') = ActiveIn(Authorities, involved)
          /\ \A t \in Tasks \ (ControlTasks \cup {"awa"}) :
               AddressGroup(t, involved') = AddressGroup(t, involved)
          /\ \A s \in Controls : involved[s] # "none" => involved'[s] # "none"
      BY <1>4, <3>1, <3>2, ControlJoins
    <3> QED
      <4>1. OneActive'
        BY <3>3 DEF DossierInv, OneActive
      <4>2. ControlAfterDecision'
        BY <1>7, <2>1, <3>3 DEF ControlAfterDecision
      <4> QED
        BY <1>4, <3>3, <4>1, <4>2
  <2>3. CASE ~continue
    <3>1. involved' = involved
      BY <2>3 DEF DecisionTaken
    <3> QED
      BY <1>4, <1>6, <1>7, <2>1, <2>3, <3>1
         DEF DossierInv, DossierTypeOK, OneActive, ControlAfterDecision, Rows, AllServices
  <2> QED
    BY <2>2, <2>3
<1>12. \A t \in Tasks : items[t] > 0 /\ its[t] > 0 =>
         AddressGroup(t, involved') = AddressGroup(t, involved)
  <2> SUFFICES ASSUME NEW t \in Tasks, its[t] > 0
               PROVE  AddressGroup(t, involved') = AddressGroup(t, involved)
    OBVIOUS
  <2>1. \A x \in ControlTasks \cup {"awa"} : its[x] = 0
    BY <1>6
  <2>2. t \notin ControlTasks \cup {"awa"}
    BY <2>1
  <2> QED
    BY <1>11, <2>2
<1>13. /\ its["distribution"] > 0 <=> dcase' \in OpenCase
       /\ dcase' \in OpenCase =>
            dcase' = "running" /\ lead' = Responsible(Authorities, involved')
       /\ its["submit"] > 0 => \A t \in Tasks \ {"submit"} : its[t] = 0
  BY <1>10
<1>14. its["awa"] = 0 /\ items["awa"] \in Nat
  BY <1>2, <1>6, TasksKnown
<1> QED
  BY <1>1, <1>6, <1>8, <1>9, <1>10, <1>11, <1>12, <1>13, <1>14, ItemStep

(* While an item of the construction control or of the applicant's reports *)
(* is open, nothing of the time before the decision is.                    *)
LEMMA AfterDecision ==
  ASSUME DossierInv, case = "running", NEW task \in {"sb1", "sb2", "complete"},
         items[task] > 0
  PROVE  /\ items[task] = 1 /\ \A t \in Counted \ {task} : items[t] = 0
         /\ ActiveIn(Controls, involved) # {} /\ ActiveIn(Authorities, involved) # {}
         /\ \A t \in BeforeDecision : items[t] = 0
         /\ items["distribution"] = 0 /\ dcase \notin OpenCase
<1>1. /\ task \in Counted /\ task \in ControlTasks \cup {"sb1", "sb2"}
      /\ task \in Tasks \ {"submit"} /\ "distribution" \in BeforeDecision
  BY DEF Counted, MainTasks, ControlTasks, Tasks, BeforeDecision
<1>2. items[task] # 0
  OBVIOUS
<1>3. ActiveIn(Controls, involved) # {} /\ ActiveIn(Authorities, involved) # {}
  BY <1>1, <1>2 DEF DossierInv, ControlAfterDecision, SomebodyResponsible
<1>4. \A t \in BeforeDecision : items[t] = 0
  BY <1>3 DEF DossierInv, ControlAfterDecision
<1>5. items["distribution"] = 0 /\ dcase \notin OpenCase
  BY <1>1, <1>4 DEF DossierInv, DistributionFollowsItem
<1> QED
  BY <1>1, <1>3, <1>4, <1>5, OpenMain

(* "sb1" and "sb2" hand on to the next report and its check.               *)
LEMMA ReportStep ==
  ASSUME DossierInv, NEW task \in {"sb1", "sb2"}, Ready(task),
         NEW its \in Items, SetItems(its),
         \A t \in Tasks \ {"awa"} : its[t] = Process(items, {task})[t],
         UNCHANGED <<kind, case, involved, seen>>, UNCHANGED distVars,
         {state', prev'} \subseteq States, handler' \in HandlerSteps
  PROVE  DossierInv'
<1> DEFINE main  == IF task = "sb1" THEN "sb2" ELSE "complete"
           check == IF task = "sb1" THEN "check-sb1" ELSE "check-sb2"
<1>1. case = "running" /\ items[task] > 0
  BY DEF Ready
<1>2. /\ items[task] = 1 /\ \A t \in Counted \ {task} : items[t] = 0
      /\ ActiveIn(Controls, involved) # {} /\ ActiveIn(Authorities, involved) # {}
      /\ \A t \in BeforeDecision : items[t] = 0
      /\ items["distribution"] = 0 /\ dcase \notin OpenCase
  BY <1>1, AfterDecision
<1>3. /\ {task} \in SUBSET Tasks /\ items \in Items /\ \A t \in Tasks : items[t] \in Nat
      /\ Flow(task) = {main, check}
      /\ main \in Counted /\ main # task /\ check \notin Counted \cup BeforeDecision
      /\ task \notin BeforeDecision /\ main \notin BeforeDecision
      /\ "awa" \notin Counted \cup BeforeDecision
      /\ {"submit", "distribution", "ebau-number"} \subseteq BeforeDecision
      /\ "submit" \in Tasks
  BY FlowValues
     DEF Tasks, MunicipalTasks, ControlTasks, MainTasks, Counted, BeforeDecision,
         DossierInv, DossierTypeOK, Items
<1> HIDE DEF main, check
<1>4. \A x \in Tasks \ {"awa"} :
        its[x] = IF x \in {main, check} THEN (IF x = task THEN 0 ELSE items[x]) + 1
                 ELSE (IF x = task THEN 0 ELSE items[x])
  BY <1>1, <1>3, ProcessValues
<1>5. its[main] = 1 /\ \A t \in Counted \ {main} : its[t] = 0
  BY <1>2, <1>3, <1>4, TasksKnown
<1>6. \A t \in BeforeDecision : its[t] = 0
  BY <1>2, <1>3, <1>4, TasksKnown
<1>7. /\ its["ebau-number"] = 0 /\ its["distribution"] = 0 /\ its["submit"] = 0
      /\ DistTypeOK' /\ dcase' \notin OpenCase
      /\ {state', prev', seen'} \subseteq States /\ involved' \in Rows
  BY <1>2, <1>3, <1>6, TypeNext
     DEF DossierInv, DossierTypeOK, distVars, Rows, AllServices
<1>8. OneActive' /\ ControlAfterDecision'
  <2>1. items' = its
    BY DEF SetItems
  <2> QED
    BY <1>2, <1>6, <2>1 DEF DossierInv, OneActive, ControlAfterDecision
<1>9. /\ case' = IF \A t \in Tasks : its[t] = 0 THEN "completed" ELSE case
      /\ its["ebau-number"] <= 1
      /\ its["submit"] > 0 => \A t \in Tasks \ {"submit"} : its[t] = 0
      /\ its["distribution"] > 0 <=> dcase' \in OpenCase
      /\ dcase' \in OpenCase =>
            dcase' = "running" /\ lead' = Responsible(Authorities, involved')
      /\ \A t \in Tasks : AddressGroup(t, involved') = AddressGroup(t, involved)
  <2>1. main \in Tasks /\ its[main] # 0
    BY <1>3, <1>5, TasksKnown
  <2> QED
    BY <1>7, <2>1
<1> QED
  BY <1>1, <1>2, <1>3, <1>5, <1>7, <1>8, <1>9, ItemStep

(* A step that only changes the state, and sets the items to what they are.*)
LEMMA SameItemsStep ==
  ASSUME DossierInv, SetItems(items),
         UNCHANGED <<kind, case, involved, handler, seen>>, UNCHANGED distVars,
         {state', prev'} \subseteq States,
         ActiveIn(Authorities, involved) # {}
  PROVE  DossierInv'
<1>1. /\ items' = items
      /\ addressee' = [t \in Tasks |-> IF items[t] = 0 THEN NoService
                                       ELSE IF items[t] > 0 THEN addressee[t]
                                       ELSE AddressGroup(t, involved')]
      /\ \A t \in Tasks : items[t] \in Nat
  BY DEF SetItems, DossierInv, DossierTypeOK
<1>2. /\ \A t \in Tasks : addressee'[t] = IF items[t] = 0 THEN NoService ELSE addressee[t]
      /\ addressee' \in [Tasks -> Authorities \cup Controls \cup {NoService}]
  <2>1. addressee' = [t \in Tasks |-> IF items[t] = 0 THEN NoService ELSE addressee[t]]
    BY <1>1
  <2> QED
    BY <2>1 DEF DossierInv, DossierTypeOK
<1>3. DistTypeOK' /\ dcase' = dcase /\ lead' = lead
  BY TypeNext DEF DossierInv, DossierTypeOK, distVars
<1>4. DossierTypeOK'
  BY <1>1, <1>2, <1>3 DEF DossierInv, DossierTypeOK
<1>5. OneMain' /\ OneActive' /\ SubmitFirst' /\ ControlAfterDecision' /\ SomebodyResponsible'
  BY <1>1 DEF DossierInv, OneMain, OneActive, SubmitFirst, ControlAfterDecision,
     SomebodyResponsible, Counted
<1>6. ClosedCaseIsClean' /\ DistributionFollowsItem'
  BY <1>1, <1>3 DEF DossierInv, ClosedCaseIsClean, DistributionFollowsItem
<1>7. AddressedToResponsible'
  BY <1>1, <1>2, <1>3, TasksKnown DEF DossierInv, AddressedToResponsible
<1> QED
  BY <1>4, <1>5, <1>6, <1>7 DEF DossierInv

LEMMA ReportedStep == DossierInv /\ Report => DossierInv'
<1> SUFFICES ASSUME DossierInv, Report PROVE DossierInv'
  OBVIOUS
<1>1. /\ state = "sb1" /\ state' = "sb2" /\ prev' = state /\ handler' = handler /\ seen' = seen
      /\ UNCHANGED <<kind, case, involved>> /\ SetItems(ReportedItems)
      /\ UNCHANGED distVars
  BY DEF Report, GoTo, Keep
<1>2. /\ {state', prev'} \subseteq States /\ handler' \in HandlerSteps /\ items \in Items
      /\ {"sb1"} \in SUBSET Tasks
  BY <1>1 DEF States, DossierInv, DossierTypeOK, Items, Tasks
<1>3. CASE Ready("sb1")
  <2>1. Process(items, {"sb1"}) \in Items
    BY <1>2, ProcessValues
  <2> QED
    BY <1>1, <1>2, <1>3, <2>1, ReportStep DEF ReportedItems
<1>4. CASE ~Ready("sb1")
  <2>1. ActiveIn(Authorities, involved) # {}
    BY <1>1 DEF DossierInv, SomebodyResponsible
  <2> QED
    BY <1>1, <1>2, <1>4, <2>1, SameItemsStep DEF ReportedItems
<1> QED
  BY <1>3, <1>4

LEMMA FinalizeStep ==
  ASSUME DossierInv, NEW stored \in BOOLEAN, Finalize(stored)
  PROVE  DossierInv'
<1> DEFINE its  == IF Ready("sb2") THEN Process(items, {"sb2"}) ELSE items
           more == IF Ready("sb2") /\ stored THEN Create(its, {"awa"}) ELSE its
<1>1. /\ state = "sb2" /\ state' = "conclusion" /\ prev' = state /\ handler' = handler
      /\ UNCHANGED <<kind, case, involved, seen>> /\ SetItems(more)
      /\ UNCHANGED distVars
  BY DEF Finalize, GoTo, Keep
<1>2. /\ {state', prev'} \subseteq States /\ handler' \in HandlerSteps /\ items \in Items
      /\ {"sb2"} \in SUBSET Tasks
  BY <1>1 DEF States, DossierInv, DossierTypeOK, Items, Tasks
<1>3. CASE Ready("sb2")
  <2>1. its = Process(items, {"sb2"}) /\ its \in Items
    BY <1>2, <1>3, ProcessValues
  <2> HIDE DEF its
  <2>2. /\ Create(its, {"awa"}) \in Items
        /\ \A t \in Tasks \ {"awa"} :
             Create(its, {"awa"})[t] = its[t]
    BY <2>1, CreateValues
  <2>3. /\ more \in Items
        /\ \A t \in Tasks \ {"awa"} :
             more[t] = Process(items, {"sb2"})[t]
    BY <2>1, <2>2
  <2> HIDE DEF more
  <2> QED
    BY <1>1, <1>2, <1>3, <2>3, ReportStep
<1>4. CASE ~Ready("sb2")
  <2>1. ActiveIn(Authorities, involved) # {}
    BY <1>1 DEF DossierInv, SomebodyResponsible
  <2> QED
    BY <1>1, <1>2, <1>4, <2>1, SameItemsStep
<1> QED
  BY <1>3, <1>4

LEMMA SkipStep ==
  ASSUME DossierInv, NEW task \in {"sb1", "sb2"}, NEW next \in HandlerSteps, handler # "idle",
         HandlerSkips(task, handler, next)
  PROVE  DossierInv'
<1>1. /\ handler' \in HandlerSteps /\ UNCHANGED <<kind, case, involved, seen, state, prev>>
      /\ UNCHANGED distVars
  BY DEF HandlerSkips, KeepState
<1>2. /\ {state', prev', seen'} \subseteq States /\ items \in Items
      /\ {task} \in SUBSET Tasks
  BY <1>1 DEF States, DossierInv, DossierTypeOK, Items, Tasks
<1>3. CASE Ready(task)
  <2>1. Process(items, {task}) \in Items
    BY <1>2, ProcessValues
  <2>2. SetItems(Process(items, {task}))
    BY <1>3 DEF HandlerSkips
  <2> QED
    BY <1>1, <1>2, <1>3, <2>1, <2>2, ReportStep
<1>4. CASE ~Ready(task)
  <2>1. UNCHANGED <<items, addressee>>
    BY <1>4 DEF HandlerSkips
  <2>2. DistTypeOK' /\ dcase' = dcase /\ lead' = lead
    BY <1>1, TypeNext DEF DossierInv, DossierTypeOK, distVars
  <2>3. SomebodyResponsible'
    BY <1>1, BusyIsSubmitted DEF SomebodyResponsible
  <2> QED
    BY <1>1, <1>2, <2>1, <2>2, <2>3, KeepStep
<1> QED
  BY <1>3, <1>4

(* "complete" ends the case: nothing else is left open.                    *)
LEMMA CompletedStep ==
  ASSUME DossierInv, Completed, seen' = seen, handler' \in HandlerSteps
  PROVE  DossierInv'
<1> DEFINE its == Cancel(PreComplete(items), {"complete"})
<1>1. /\ case = "running" /\ items["complete"] > 0 /\ SetItems(its)
      /\ case' = CaseWith(its) /\ UNCHANGED <<kind, involved>> /\ UNCHANGED distVars
      /\ state' = "finished" /\ prev' = state
  BY DEF Completed, Ready, GoTo
<1>2. /\ \A t \in Counted \ {"complete"} : items[t] = 0
      /\ ActiveIn(Controls, involved) # {} /\ ActiveIn(Authorities, involved) # {}
      /\ \A t \in BeforeDecision : items[t] = 0
      /\ dcase \notin OpenCase
  BY <1>1, AfterDecision
<1>3. items \in Items
  BY DEF DossierInv, DossierTypeOK, Items
<1>4. its \in Items /\ \A x \in Tasks :
        its[x] = IF x \in {"complete", "check-sb1", "check-sb2", "create-manual-workitems",
                           "awa", "create-publication", "fill-publication"}
                 THEN 0 ELSE items[x]
  <2>1. /\ PreComplete(items) \in Items
        /\ \A x \in Tasks : PreComplete(items)[x] =
             IF x \in {"check-sb1", "check-sb2", "create-manual-workitems", "awa",
                       "create-publication", "fill-publication"}
             THEN 0 ELSE items[x]
    BY <1>3, PreCompleteValues
  <2> QED
    BY <2>1, CancelValues
<1> HIDE DEF its
<1>5. \A t \in Tasks : its[t] = 0
  <2>1. \A t \in Tasks : \/ t \in {"complete", "check-sb1", "check-sb2",
                                 "create-manual-workitems", "awa",
                                 "create-publication", "fill-publication"}
                         \/ t \in BeforeDecision
                         \/ t \in Counted \ {"complete"}
    BY DEF Tasks, MunicipalTasks, ControlTasks, BeforeDecision, Counted, MainTasks
  <2> QED
    BY <1>2, <1>4, <2>1
<1>6. case' = IF \A t \in Tasks : its[t] = 0 THEN "completed" ELSE case
  BY <1>1 DEF CaseWith
<1>7. /\ {state', prev', seen'} \subseteq States /\ involved' \in Rows
      /\ DistTypeOK' /\ dcase' \notin OpenCase
  BY <1>1, <1>2, TypeNext
     DEF DossierInv, DossierTypeOK, States, distVars, Rows, AllServices
<1>8. /\ its["ebau-number"] = 0 /\ its["distribution"] = 0 /\ its["submit"] = 0
      /\ \A t \in BeforeDecision : its[t] = 0
  BY <1>5, TasksKnown DEF MainTasks
<1>9. OneActive' /\ ControlAfterDecision'
  <2>1. items' = its
    BY <1>1 DEF SetItems
  <2> QED
    BY <1>1, <1>2, <1>8, <2>1 DEF DossierInv, OneActive, ControlAfterDecision
<1>10. /\ its["ebau-number"] <= 1
       /\ its["submit"] > 0 => \A t \in Tasks \ {"submit"} : its[t] = 0
       /\ its["distribution"] > 0 <=> dcase' \in OpenCase
       /\ dcase' \in OpenCase =>
             dcase' = "running" /\ lead' = Responsible(Authorities, involved')
       /\ \A t \in Tasks : AddressGroup(t, involved') = AddressGroup(t, involved)
  BY <1>1, <1>7, <1>8
<1>11. its["awa"] = 0 /\ items["awa"] \in Nat
  BY <1>3, <1>5, TasksKnown DEF Items
<1> QED
  BY <1>1, <1>2, <1>4, <1>5, <1>6, <1>7, <1>9, <1>10, <1>11, ItemStep

-----------------------------------------------------------------------------
(* Responsibility, archiving, resubmission.                                *)

(* Who is responsible after a change, in both kinds of services.           *)
LEMMA ResponsibleChanges ==
  ASSUME DossierInv, NEW services \in {Authorities, Controls}, NEW to \in services,
         ChangeResponsible(services, to)
  PROVE  LET from  == Responsible(services, involved)
             other == IF services = Authorities THEN Controls ELSE Authorities
         IN  /\ from \in services /\ ActiveIn(services, involved) = {from}
             /\ involved' \in Rows
             /\ ActiveIn(services, involved') = {to}
             /\ Responsible(services, involved') = to
             /\ ActiveIn(other, involved') = ActiveIn(other, involved)
             /\ Responsible(other, involved') = Responsible(other, involved)
             /\ \A s \in AllServices : involved[s] # "none" => involved'[s] # "none"
<1> DEFINE from  == Responsible(services, involved)
           other == IF services = Authorities THEN Controls ELSE Authorities
<1>1. /\ from # NoService /\ involved' = HandedOver(from, to)
      /\ services \in SUBSET AllServices /\ NoService \notin services
      /\ involved \in Rows /\ other \subseteq AllServices \ services
  <2>1. from # NoService /\ involved' = HandedOver(from, to)
    BY DEF ChangeResponsible
  <2>2. services \in SUBSET AllServices /\ other \subseteq AllServices \ services
    BY DossierAssumption DEF AllServices
  <2> QED
    BY <2>1, <2>2, TasksKnown DEF DossierInv, DossierTypeOK, Rows, AllServices
<1>2. from \in services /\ ActiveIn(services, involved) = {from}
  <2>1. from \in ActiveIn(services, involved)
    BY <1>1, ResponsibleIsActive
  <2>2. \A a, b \in ActiveIn(services, involved) : a = b
    BY DEF DossierInv, OneActive
  <2> QED
    BY <2>1, <2>2 DEF ActiveIn
<1> HIDE DEF from, other
<1>3. /\ involved' \in Rows /\ ActiveIn(services, involved') = {to}
      /\ \A s \in AllServices \ services : involved'[s] = involved[s]
      /\ \A s \in AllServices : involved[s] # "none" => involved'[s] # "none"
  <2>1. /\ involved' \in Rows
        /\ \A s \in AllServices :
             involved'[s] = IF s = to THEN "active"
                            ELSE IF s = from THEN "inactive" ELSE involved[s]
    BY <1>1, <1>2 DEF HandedOver, Rows
  <2> QED
    BY <1>1, <1>2, <2>1, HandedOverActive
<1>4. \A s \in other : involved'[s] = involved[s]
  BY <1>1, <1>3
<1>5. Responsible(services, involved') = to
  BY <1>1, <1>3, OnlyActiveIsResponsible
<1>6. /\ ActiveIn(other, involved') = ActiveIn(other, involved)
      /\ Responsible(other, involved') = Responsible(other, involved)
  BY <1>4, SameRowsSameResponsible
<1> QED
  BY <1>2, <1>3, <1>5, <1>6 DEF from, other, Rows

LEMMA ChangeResponsibleStep ==
  ASSUME DossierInv, NEW services \in {Authorities, Controls}, NEW to \in services,
         ChangeResponsible(services, to)
  PROVE  DossierInv'
<1> DEFINE from  == Responsible(services, involved)
           other == IF services = Authorities THEN Controls ELSE Authorities
<1>1. /\ from \in services /\ ActiveIn(services, involved) = {from}
      /\ involved' \in Rows
      /\ ActiveIn(services, involved') = {to}
      /\ Responsible(services, involved') = to
      /\ ActiveIn(other, involved') = ActiveIn(other, involved)
      /\ Responsible(other, involved') = Responsible(other, involved)
      /\ \A s \in AllServices : involved[s] # "none" => involved'[s] # "none"
  BY ResponsibleChanges
<1>2. /\ UNCHANGED <<kind, case, items, state, prev, handler, seen>>
      /\ addressee' = Readdressed(from, to)
      /\ IF to \in Authorities /\ dcase \in OpenCase
         THEN ReassignDistribution(from, to) ELSE UNCHANGED distVars
  BY DEF ChangeResponsible, KeepState, Keep
<1> HIDE DEF from, other
<1>3. /\ DistTypeOK' /\ dcase' = dcase
      /\ dcase \in OpenCase => lead' = Responsible(Authorities, involved')
  <2>1. CASE to \in Authorities /\ dcase \in OpenCase
    <3>1. services = Authorities /\ lead = from /\ ReassignDistribution(lead, to)
      BY <1>2, <2>1, DossierAssumption, DistributionRuns DEF from
    <3>2. DistTypeOK'
      BY <2>1, <3>1, TypeNext DEF DistNext, DossierInv, DossierTypeOK
    <3> QED
      BY <1>1, <3>1, <3>2 DEF ReassignDistribution
  <2>2. CASE ~(to \in Authorities /\ dcase \in OpenCase)
    <3>1. UNCHANGED distVars
      BY <1>2, <2>2
    <3>2. DistTypeOK' /\ dcase' = dcase /\ lead' = lead
      BY <3>1, TypeNext DEF distVars, DossierInv, DossierTypeOK
    <3>3. dcase \in OpenCase =>
            Responsible(Authorities, involved') = Responsible(Authorities, involved)
      BY <1>1, <2>2 DEF other
    <3> QED
      BY <3>2, <3>3, DistributionRuns
  <2> QED
    BY <2>1, <2>2
<1>4. /\ ActiveIn(Authorities, involved') = {} <=> ActiveIn(Authorities, involved) = {}
      /\ ActiveIn(Controls, involved') = {} <=> ActiveIn(Controls, involved) = {}
      /\ OneActive'
  BY <1>1 DEF other, DossierInv, OneActive
<1>5. \A t \in Tasks : addressee'[t] = IF t \notin Manual /\ addressee[t] = from THEN to
                                       ELSE addressee[t]
  BY <1>2 DEF Readdressed
<1>6. DossierTypeOK'
  <2>1. addressee' \in [Tasks -> Authorities \cup Controls \cup {NoService}]
    <3>1. to \in Authorities \cup Controls \cup {NoService}
      OBVIOUS
    <3>2. \A t \in Tasks : addressee[t] \in Authorities \cup Controls \cup {NoService}
      BY DEF DossierInv, DossierTypeOK
    <3> QED
      BY <1>2, <3>1, <3>2 DEF Readdressed
  <2> QED
    BY <1>1, <1>2, <1>3, <2>1 DEF DossierInv, DossierTypeOK, Rows, AllServices
<1>7. OneMain' /\ SubmitFirst' /\ ControlAfterDecision' /\ SomebodyResponsible'
  BY <1>2, <1>4 DEF DossierInv, OneMain, SubmitFirst, ControlAfterDecision,
     SomebodyResponsible, Counted
<1>8. ClosedCaseIsClean' /\ DistributionFollowsItem'
  BY <1>2, <1>3 DEF DossierInv, ClosedCaseIsClean, DistributionFollowsItem
<1>9. AddressedToResponsible'
  <2>1. ASSUME NEW t \in Tasks \ {"awa"}, items[t] > 0
        PROVE  addressee'[t] = AddressGroup(t, involved')
    <3>1. addressee[t] = AddressGroup(t, involved)
      BY <2>1 DEF DossierInv, AddressedToResponsible
    <3>2. CASE t \in MunicipalTasks
      <4>1. addressee[t] = Responsible(Authorities, involved)
        BY <3>1, <3>2, AddressGroupType
      <4>2. AddressGroup(t, involved') = Responsible(Authorities, involved')
        BY <3>2, AddressGroupType
      <4>3. Responsible(Authorities, involved) \notin Controls
        BY ResponsibleIsActive, TasksKnown, DossierAssumption DEF ActiveIn
      <4>4. t \notin Manual
        BY <3>2 DEF Manual, MunicipalTasks, ControlTasks
      <4> QED
        BY <1>1, <1>5, <4>1, <4>2, <4>3, <4>4 DEF from, other
    <3>3. CASE t \in ControlTasks
      <4>1. addressee[t] = Responsible(Controls, involved)
        BY <3>1, <3>3, AddressGroupType
      <4>2. AddressGroup(t, involved') = Responsible(Controls, involved')
        BY <3>3, AddressGroupType
      <4>3. Responsible(Controls, involved) \notin Authorities
        BY ResponsibleIsActive, TasksKnown, DossierAssumption DEF ActiveIn
      <4>4. t \notin Manual
        BY <3>3 DEF Manual, MunicipalTasks, ControlTasks
      <4> QED
        BY <1>1, <1>5, <4>1, <4>2, <4>3, <4>4 DEF from, other
    <3>4. CASE t \notin MunicipalTasks \cup ControlTasks \cup {"awa"}
      <4>1. addressee[t] = NoService /\ AddressGroup(t, involved') = NoService
        BY <3>1, <3>4, AddressGroupType
      <4> QED
        BY <1>1, <1>5, <4>1, TasksKnown
    <3> QED
      BY <3>2, <3>3, <3>4
  <2>2. ASSUME NEW t \in ControlTasks \cup {"awa"}, items[t] > 0
        PROVE  addressee'[t] \in Controls /\ involved'[addressee'[t]] # "none"
    <3>1. /\ addressee[t] \in Controls /\ involved[addressee[t]] # "none"
          /\ t \in Tasks
      BY <2>2, TasksKnown DEF DossierInv, AddressedToResponsible
    <3>2. CASE addressee'[t] = addressee[t]
      BY <1>1, <3>1, <3>2 DEF AllServices
    <3>3. CASE addressee[t] = from /\ addressee'[t] = to
      <4>1. to \in Controls /\ to \in ActiveIn(services, involved')
        BY <1>1, <3>1, <3>3, DossierAssumption
      <4> QED
        BY <3>3, <4>1 DEF ActiveIn
    <3> QED
      BY <1>5, <3>1, <3>2, <3>3
  <2> QED
    BY <1>2, <1>3, <2>1, <2>2 DEF AddressedToResponsible
<1> QED
  BY <1>4, <1>6, <1>7, <1>8, <1>9 DEF DossierInv

LEMMA CancelStep ==
  ASSUME DossierInv, CaseCancelled,
         UNCHANGED <<kind, involved, handler, seen>>, {state', prev'} \subseteq States,
         ActiveIn(Authorities, involved) = {} => handler = "idle" /\ state' = "archived"
  PROVE  DossierInv'
<1>1. /\ case' = "canceled" /\ items' = [t \in Tasks |-> 0]
      /\ addressee' = [t \in Tasks |-> NoService]
      /\ \A t \in Tasks : items'[t] = 0
  BY DEF CaseCancelled
<1>2. DistTypeOK' /\ dcase' \notin OpenCase
  <2>1. CASE dcase \in OpenCase
    <3>1. CancelDistribution
      BY <2>1 DEF CaseCancelled
    <3> QED
      BY <3>1, TypeNext DEF DistNext, CancelDistribution, OpenCase, DossierInv, DossierTypeOK
  <2>2. CASE dcase \notin OpenCase
    <3>1. UNCHANGED distVars
      BY <2>2 DEF CaseCancelled
    <3> QED
      BY <2>2, <3>1, TypeNext DEF distVars, DossierInv, DossierTypeOK
  <2> QED
    BY <2>1, <2>2
<1>3. DossierTypeOK'
  BY <1>1, <1>2 DEF DossierInv, DossierTypeOK, CaseStatus
<1>4. case' \notin OpenCase /\ items'["ebau-number"] = 0 /\ items'["distribution"] = 0
  BY <1>1, TasksKnown DEF OpenCase, MainTasks
<1>5. OneMain' /\ ClosedCaseIsClean' /\ DistributionFollowsItem' /\ SubmitFirst'
  BY <1>1, <1>2, <1>4 DEF OneMain, ClosedCaseIsClean, DistributionFollowsItem, SubmitFirst
<1>6. \A t \in ControlTasks \cup {"sb1", "sb2"} \cup BeforeDecision : items'[t] = 0
  BY <1>1, TasksKnown DEF MainTasks
<1>7. OneActive' /\ ControlAfterDecision' /\ SomebodyResponsible'
  BY <1>1, <1>6 DEF DossierInv, OneActive, ControlAfterDecision, SomebodyResponsible
<1>8. AddressedToResponsible'
  BY <1>1, <1>2, <1>6, TasksKnown DEF AddressedToResponsible
<1> QED
  BY <1>3, <1>5, <1>7, <1>8 DEF DossierInv

LEMMA ArchiveStep == DossierInv /\ (Archive \/ ResubmitCopy) => DossierInv'
<1> SUFFICES ASSUME DossierInv, Archive \/ ResubmitCopy PROVE DossierInv'
  OBVIOUS
<1>1. /\ UNCHANGED <<kind, involved, handler, seen>> /\ {state', prev'} \subseteq States
      /\ state' \in {"archived", "finished"}
  BY DEF Archive, ResubmitCopy, GoTo, Keep, States, DossierInv, DossierTypeOK
<1>2. ActiveIn(Authorities, involved) = {} => handler = "idle" /\ state' = "archived"
  BY DEF DossierInv, SomebodyResponsible, Archive, ResubmitCopy, GoTo
<1>3. CASE CaseCancelled
  BY <1>1, <1>2, <1>3, CancelStep
<1>4. CASE ~CaseCancelled
  <2>1. UNCHANGED <<case, items, addressee>> /\ UNCHANGED distVars
    BY <1>4 DEF Archive, ResubmitCopy, CaseArchived
  <2>2. DistTypeOK' /\ dcase' = dcase /\ lead' = lead
    BY <2>1, TypeNext DEF distVars, DossierInv, DossierTypeOK
  <2>3. SomebodyResponsible'
    BY <1>1, <1>2, <2>1 DEF DossierInv, SomebodyResponsible
  <2>4. seen' \in States /\ handler' \in HandlerSteps
    BY <1>1 DEF DossierInv, DossierTypeOK
  <2> QED
    BY <1>1, <2>1, <2>2, <2>3, <2>4, KeepStep
<1> QED
  BY <1>3, <1>4

-----------------------------------------------------------------------------
(* The eCH handlers.                                                       *)

(* The states that handlers and buttons save.                              *)
SavedStates == {"rejected", "correction", "sb2", "conclusion", "finished"}

(* The steps of buttons that only save the instance.                       *)
SavingStep ==
  \/ ButtonSaves("saving rejected", "rejected")
  \/ ButtonReturns("undoing rejection", "rejected")
  \/ ButtonSaves("saving correction", "correction")
  \/ ButtonReturns("undoing correction", "correction")
  \/ ButtonSaves("saving sb2", "sb2")
  \/ ButtonSaves("saving conclusion", "conclusion")
  \/ ButtonSaves("saving finished", "finished")

(* Steps of a handler that leave the work items alone.                     *)
LEMMA QuietHandlerStep ==
  ASSUME DossierInv,
         \/ EchReceive \/ EchReject \/ EchNoDecision \/ HandlerFails
         \/ PressButton \/ SavingStep
         \/ UNCHANGED vars
  PROVE  DossierInv'
<1>1. /\ UNCHANGED <<kind, case, items, addressee, involved>> /\ UNCHANGED distVars
      /\ {state', prev', seen'} \subseteq {state, prev, seen} \cup SavedStates
      /\ handler' \in HandlerSteps
  BY DEF EchReceive, EchReject, EchNoDecision, HandlerFails, PressButton, Reached,
     SavingStep, ButtonSaves, ButtonReturns, KeepState, vars, ownVars, dossierVars,
     HandlerSteps, EchSteps, ButtonSteps, SavedStates, DossierInv, DossierTypeOK
<1>2. {state', prev', seen'} \subseteq States
  BY <1>1 DEF DossierInv, DossierTypeOK, States, SavedStates
<1>3. DistTypeOK' /\ dcase' = dcase /\ lead' = lead
  BY <1>1, TypeNext DEF distVars, DossierInv, DossierTypeOK
<1>4. SomebodyResponsible'
  <2>1. CASE UNCHANGED vars
    BY <2>1 DEF vars, dossierVars, DossierInv, SomebodyResponsible
  <2>2. CASE ~UNCHANGED vars
    <3>1. ActiveIn(Authorities, involved) # {}
      BY <2>2, BusyIsSubmitted
         DEF EchReceive, EchReject, EchNoDecision, HandlerFails, PressButton, SavingStep,
             ButtonSaves, ButtonReturns, DossierInv, SomebodyResponsible
    <3> QED
      BY <1>1, <3>1 DEF SomebodyResponsible
  <2> QED
    BY <2>1, <2>2
<1> QED
  BY <1>1, <1>2, <1>3, <1>4, KeepStep

(* Suspending and resuming the case takes the distribution along.          *)
LEMMA CaseTurnStep ==
  ASSUME DossierInv,
         \/ case = "running" /\ CaseSuspended
         \/ CaseResumed,
         UNCHANGED <<kind, items, addressee, involved, seen>>,
         {state', prev'} \subseteq States, handler' \in HandlerSteps,
         ActiveIn(Authorities, involved) # {}
  PROVE  DossierInv'
<1>1. /\ case \in OpenCase /\ case' \in OpenCase
      /\ case = "running" => CaseSuspended /\ case' = "suspended"
      /\ case = "suspended" => CaseResumed /\ case' = "running"
  BY DEF CaseSuspended, CaseResumed, OpenCase
<1>2. /\ DistTypeOK' /\ lead' = lead
      /\ dcase' \in OpenCase <=> dcase \in OpenCase
      /\ dcase' \in OpenCase => dcase' = case'
  <2>1. CASE dcase \in OpenCase
    <3>1. dcase = case
      BY <2>1 DEF DossierInv, DistributionFollowsItem
    <3>2. \/ SuspendDistribution /\ case' = "suspended"
          \/ ResumeDistribution /\ case' = "running"
      BY <1>1, <3>1 DEF CaseSuspended, CaseResumed, OpenCase
    <3> QED
      BY <2>1, <3>2, TypeNext
         DEF DistNext, SuspendDistribution, ResumeDistribution, OpenCase, DossierInv,
             DossierTypeOK
  <2>2. CASE dcase \notin OpenCase
    <3>1. UNCHANGED distVars
      BY <1>1, <2>2 DEF CaseSuspended, CaseResumed, OpenCase
    <3> QED
      BY <2>2, <3>1, TypeNext DEF distVars, DossierInv, DossierTypeOK
  <2> QED
    BY <2>1, <2>2
<1>3. DossierTypeOK'
  BY <1>1, <1>2 DEF DossierInv, DossierTypeOK, CaseStatus, OpenCase
<1>4. OneMain' /\ OneActive' /\ SubmitFirst' /\ ControlAfterDecision'
  BY <1>1 DEF DossierInv, OneMain, OneActive, SubmitFirst, ControlAfterDecision, Counted
<1>5. ClosedCaseIsClean' /\ DistributionFollowsItem' /\ SomebodyResponsible'
  BY <1>1, <1>2 DEF DossierInv, ClosedCaseIsClean, DistributionFollowsItem,
     SomebodyResponsible
<1>6. AddressedToResponsible'
  BY <1>2 DEF DossierInv, AddressedToResponsible
<1> QED
  BY <1>3, <1>4, <1>5, <1>6 DEF DossierInv

LEMMA SuspendStep == DossierInv /\ EchSuspend => DossierInv'
<1> SUFFICES ASSUME DossierInv, EchSuspend PROVE DossierInv'
  OBVIOUS
<1>1. /\ UNCHANGED <<kind, items, addressee, involved, seen, state, prev>>
      /\ handler = "suspending" /\ handler' = "idle" /\ ActiveIn(Authorities, involved) # {}
      /\ {state', prev', seen'} \subseteq States /\ handler' \in HandlerSteps
  BY BusyIsSubmitted
     DEF EchSuspend, KeepState, DossierInv, DossierTypeOK, HandlerSteps
<1>2. CASE case = "running"
  BY <1>1, <1>2, CaseTurnStep DEF EchSuspend
<1>3. CASE case # "running"
  <2>1. case' = case /\ UNCHANGED distVars
    BY <1>3 DEF EchSuspend
  <2>2. DistTypeOK' /\ dcase' = dcase /\ lead' = lead
    BY <2>1, TypeNext DEF distVars, DossierInv, DossierTypeOK
  <2>3. SomebodyResponsible'
    BY <1>1 DEF SomebodyResponsible
  <2> QED
    BY <1>1, <2>1, <2>2, <2>3, KeepStep
<1> QED
  BY <1>2, <1>3

LEMMA EchStepStep == DossierInv /\ EchStep => DossierInv'
<1> SUFFICES ASSUME DossierInv, EchStep PROVE DossierInv'
  OBVIOUS
<1>1. CASE EchReject \/ EchNoDecision
  BY <1>1, QuietHandlerStep
<1>2. CASE EchSuspend
  BY <1>2, SuspendStep
<1>3. CASE EchSkipDistribution
  BY <1>3, SkipDistributionStep
<1>4. ASSUME NEW continue \in BOOLEAN, EchDecide(continue) PROVE DossierInv'
  <2>1. DecisionTaken(continue) /\ seen' = seen /\ handler' \in HandlerSteps
    BY <1>4 DEF EchDecide, HandlerSteps, EchSteps
  <2> QED
    BY <2>1, DecisionTakenStep
<1>5. CASE HandlerSkips("sb1", "closing sb1", "closing sb2")
  <2>1. handler # "idle" /\ HandlerSkips("sb1", handler, "closing sb2") /\ "closing sb2" \in HandlerSteps
    BY <1>5 DEF HandlerSkips, HandlerSteps, EchSteps
  <2> QED
    BY <2>1, SkipStep
<1>6. CASE HandlerSkips("sb2", "closing sb2", "completing")
  <2>1. handler # "idle" /\ HandlerSkips("sb2", handler, "completing") /\ "completing" \in HandlerSteps
    BY <1>6 DEF HandlerSkips, HandlerSteps, EchSteps
  <2> QED
    BY <2>1, SkipStep
<1>7. CASE EchComplete
  <2>1. seen' = seen /\ handler = "completing" /\ handler' = "idle" /\ handler' \in HandlerSteps
    BY <1>7 DEF EchComplete, HandlerSteps, EchSteps
  <2>2. CASE Ready("complete")
    BY <1>7, <2>1, <2>2, CompletedStep DEF EchComplete
  <2>3. CASE ~Ready("complete")
    <3>1. UNCHANGED ownVars /\ UNCHANGED distVars
      BY <1>7, <2>3 DEF EchComplete
    <3>2. handler # "idle" /\ HandlerFails
      BY <2>1, <3>1 DEF HandlerFails
    <3> QED
      BY <3>2, QuietHandlerStep
  <2> QED
    BY <2>2, <2>3
<1> QED
  BY <1>1, <1>2, <1>3, <1>4, <1>5, <1>6, <1>7 DEF EchStep

-----------------------------------------------------------------------------
(* The buttons.                                                            *)

(* A check is closed without another item to follow it.                    *)
LEMMA CheckStep ==
  ASSUME DossierInv, NEW task \in {"check-sb1", "check-sb2"}, NEW next \in HandlerSteps,
         handler # "idle", HandlerSkips(task, handler, next)
  PROVE  DossierInv'
<1>1. /\ handler' \in HandlerSteps /\ UNCHANGED <<kind, case, involved, seen, state, prev>>
      /\ UNCHANGED distVars
  BY DEF HandlerSkips, KeepState
<1>2. /\ {state', prev', seen'} \subseteq States /\ items \in Items
      /\ task \in SideTasks /\ task \in Tasks \ {"submit"}
  BY <1>1 DEF States, DossierInv, DossierTypeOK, Items, Tasks, SideTasks, ControlTasks
<1>3. CASE Ready(task)
  <2> DEFINE its == Process(items, {task})
  <2>1. /\ its \in Items
        /\ \A x \in MainTasks \cup {"create-manual-workitems"} : its[x] = items[x]
        /\ \A x \in ControlTasks \cup {"audit", "publication", "nfd", "awa"} :
             its[x] <= items[x]
        /\ \A x \in {"information-of-neighbors", "create-information-of-neighbors"} :
             items["information-of-neighbors"] = 0
               /\ items["create-information-of-neighbors"] = 0 => its[x] = 0
    BY <1>2, SideTaskValues
  <2>2. SetItems(its) /\ case = "running" /\ items[task] > 0
    BY <1>3 DEF HandlerSkips, Ready
  <2> HIDE DEF its
  <2> QED
    BY <1>1, <1>2, <2>1, <2>2, QuietStep
<1>4. CASE ~Ready(task)
  <2>1. UNCHANGED <<items, addressee>>
    BY <1>4 DEF HandlerSkips
  <2>2. DistTypeOK' /\ dcase' = dcase /\ lead' = lead
    BY <1>1, TypeNext DEF DossierInv, DossierTypeOK, distVars
  <2>3. SomebodyResponsible'
    BY <1>1, BusyIsSubmitted DEF SomebodyResponsible
  <2> QED
    BY <1>1, <1>2, <2>1, <2>2, <2>3, KeepStep
<1> QED
  BY <1>3, <1>4

LEMMA ButtonTurnStep ==
  ASSUME DossierInv,
         \/ ButtonSuspends("rejecting", "saving rejected")
         \/ ButtonSuspends("correcting", "saving correction")
         \/ ButtonResumes("cancelling rejection", "undoing rejection")
         \/ ButtonResumes("ending correction", "undoing correction")
  PROVE  DossierInv'
<1>1. /\ \/ case = "running" /\ CaseSuspended
         \/ CaseResumed
      /\ UNCHANGED <<kind, items, addressee, involved, seen>>
      /\ {state', prev'} \subseteq {state, prev, "circulation"}
      /\ handler # "idle" /\ handler' \in HandlerSteps
  BY DEF ButtonSuspends, ButtonResumes, StateAfterInit, GoTo, KeepState, HandlerSteps,
     ButtonSteps
<1>2. {state', prev'} \subseteq States /\ ActiveIn(Authorities, involved) # {}
  BY <1>1, BusyIsSubmitted DEF DossierInv, DossierTypeOK, States
<1> QED
  BY <1>1, <1>2, CaseTurnStep

LEMMA ButtonStepStep == DossierInv /\ ButtonStep => DossierInv'
<1> SUFFICES ASSUME DossierInv, ButtonStep PROVE DossierInv'
  OBVIOUS
<1>1. CASE SavingStep
  BY <1>1, QuietHandlerStep
<1>2. CASE \/ ButtonSuspends("rejecting", "saving rejected")
           \/ ButtonSuspends("correcting", "saving correction")
           \/ ButtonResumes("cancelling rejection", "undoing rejection")
           \/ ButtonResumes("ending correction", "undoing correction")
  BY <1>2, ButtonTurnStep
<1>3. ASSUME NEW task \in {"sb1", "sb2"}, NEW step \in ButtonSteps,
             NEW next \in ButtonSteps, HandlerSkips(task, step, next)
      PROVE  DossierInv'
  <2>1. handler # "idle" /\ next \in HandlerSteps /\ HandlerSkips(task, handler, next)
    BY <1>3 DEF HandlerSkips, HandlerSteps, ButtonSteps
  <2> QED
    BY <2>1, SkipStep
<1>4. CASE \/ ButtonCloses("sb1", "reporting", "checking sb1")
           \/ ButtonCloses("sb2", "finalizing", "checking sb2")
           \/ HandlerSkips("sb1", "ending sb1", "ending sb2")
           \/ ButtonCloses("sb2", "ending sb2", "ending conclusion")
  BY <1>3, <1>4 DEF ButtonCloses, ButtonSteps
<1>5. ASSUME NEW task \in {"check-sb1", "check-sb2"}, NEW step \in ButtonSteps,
             NEW next \in ButtonSteps, HandlerSkips(task, step, next)
      PROVE  DossierInv'
  <2>1. handler # "idle" /\ next \in HandlerSteps /\ HandlerSkips(task, handler, next)
    BY <1>5 DEF HandlerSkips, HandlerSteps, ButtonSteps
  <2> QED
    BY <2>1, CheckStep
<1>6. CASE \/ HandlerSkips("check-sb1", "checking sb1", "saving sb2")
           \/ HandlerSkips("check-sb2", "checking sb2", "saving conclusion")
  BY <1>5, <1>6 DEF ButtonSteps
<1>7. CASE ButtonCompletes
  <2>1. Completed /\ seen' = seen /\ handler' \in HandlerSteps
    BY <1>7 DEF ButtonCompletes, HandlerSteps, ButtonSteps
  <2> QED
    BY <2>1, CompletedStep
<1> QED
  BY <1>1, <1>2, <1>4, <1>6, <1>7 DEF ButtonStep, SavingStep

-----------------------------------------------------------------------------
(* The theorems.                                                           *)

LEMMA RequestStep == DossierInv /\ Request => DossierInv'
<1> SUFFICES ASSUME DossierInv, Request PROVE DossierInv'
  OBVIOUS
<1>1. CASE Submit \/ SubmitRejected \/ CompleteEbauNumber
  BY <1>1, SubmitStep, SubmitRejectedStep, EbauNumberStep
<1>2. CASE \E t \in SideTasks \cap UserTasks : CompleteSideTask(t)
  BY <1>2, SideTaskStep
<1>3. CASE CreateManual \/ CompleteManual
  BY <1>3, ManualStep
<1>4. CASE Distribute \/ EndDistribution
  BY <1>4, DistributeStep, EndDistributionStep
<1>5. ASSUME NEW continue \in BOOLEAN, Decide(continue) PROVE DossierInv'
  <2>1. DecisionTaken(continue) /\ seen' = seen /\ handler' \in HandlerSteps
    BY <1>5 DEF Decide, Keep, DossierInv, DossierTypeOK
  <2> QED
    BY <2>1, DecisionTakenStep
<1>6. CASE Report \/ \E stored \in BOOLEAN : Finalize(stored)
  BY <1>6, ReportedStep, FinalizeStep
<1>7. CASE Complete
  <2>1. Completed /\ seen' = seen /\ handler' \in HandlerSteps
    BY <1>7 DEF Complete, Keep, DossierInv, DossierTypeOK
  <2> QED
    BY <2>1, CompletedStep
<1>8. CASE \/ \E a \in Authorities : ChangeResponsible(Authorities, a)
           \/ \E c \in Controls : ChangeResponsible(Controls, c)
  BY <1>8, ChangeResponsibleStep
<1>9. CASE Archive \/ ResubmitCopy
  BY <1>9, ArchiveStep
<1> QED
  BY <1>1, <1>2, <1>3, <1>4, <1>5, <1>6, <1>7, <1>8, <1>9 DEF Request

LEMMA DossierInvariantNext == DossierInv /\ [FaultyNext]_vars => DossierInv'
<1>1. CASE Request
  BY <1>1, RequestStep
<1>2. CASE EchReceive \/ PressButton \/ HandlerFails \/ UNCHANGED vars
  BY <1>2, QuietHandlerStep
<1>3. CASE EchStep
  BY <1>3, EchStepStep
<1>4. CASE ButtonStep
  BY <1>4, ButtonStepStep
<1> QED
  BY <1>1, <1>2, <1>3, <1>4 DEF FaultyNext

LEMMA DossierInvariant == FaultySpec => []DossierInv
<1> QED
  BY InitialInvariant, DossierInvariantNext, PTL DEF FaultySpec

(* An undisturbed handler is one that happens not to be disturbed: what    *)
(* holds of every interleaving also holds of Spec.                         *)
THEOREM Undisturbed == Spec => FaultySpec
<1>1. [Next]_vars => [FaultyNext]_vars
  BY DEF Next, FaultyNext
<1> QED
  BY <1>1, PTL DEF Spec, FaultySpec

(* Every variable of the dossier and of its distribution keeps its type,   *)
(* however requests and the transactions of handlers interleave.           *)
THEOREM DossierTypeCorrect == FaultySpec => []DossierTypeOK
<1>1. DossierInv => DossierTypeOK
  BY DEF DossierInv
<1> QED
  BY <1>1, DossierInvariant, PTL

LEMMA InvariantOneMain == DossierInv => OneMainItem
<1> SUFFICES ASSUME DossierInv, case \in OpenCase PROVE OneMainItem
  BY DEF OneMainItem
<1>1. PICK m \in Counted : items[m] = 1 /\ \A t \in Counted \ {m} : items[t] = 0
  BY DEF DossierInv, OneMain
<1>2. OpenMainItems \ (IF kind = "internal" THEN {"ebau-number"} ELSE {}) = {m}
  BY <1>1 DEF OpenMainItems, Counted
<1>3. \A t \in MainTasks : items[t] <= 1
  BY <1>1 DEF DossierInv, OneMain, Counted
<1> QED
  BY <1>1, <1>2, <1>3, FS_Singleton DEF OneMainItem

(* An open case has exactly one main item, the internal dossier's number   *)
(* aside: the flows, the dynamic task after the decision, the skipped and  *)
(* the cancelled items never leave it with none or with two.               *)
THEOREM OneWayOn == FaultySpec => []OneMainItem
BY InvariantOneMain, DossierInvariant, PTL

(* A closed case has no open item left and no open distribution below it,  *)
(* whether it was completed, archived or resubmitted.                      *)
THEOREM ClosedCasesClean == FaultySpec => []ClosedCaseIsClean
<1>1. DossierInv => ClosedCaseIsClean
  BY DEF DossierInv
<1> QED
  BY <1>1, DossierInvariant, PTL

(* The distribution is open exactly while its item is, and suspended       *)
(* exactly with the case.                                                  *)
THEOREM DistributionFollows == FaultySpec => []DistributionFollowsItem
<1>1. DossierInv => DistributionFollowsItem
  BY DEF DossierInv
<1> QED
  BY <1>1, DossierInvariant, PTL

LEMMA InvariantOneResponsible == DossierInv => OneResponsible
<1> SUFFICES ASSUME DossierInv PROVE OneResponsible
  OBVIOUS
<1>1. ASSUME NEW services \in {Authorities, Controls}
      PROVE  Cardinality(ActiveIn(services, involved)) <= 1
  <2>1. CASE ActiveIn(services, involved) = {}
    BY <2>1, FS_EmptySet
  <2>2. ASSUME NEW s \in ActiveIn(services, involved)
        PROVE  Cardinality(ActiveIn(services, involved)) <= 1
    <3>1. ActiveIn(services, involved) = {s}
      BY <2>2 DEF DossierInv, OneActive
    <3> QED
      BY <3>1, FS_Singleton
  <2> QED
    BY <2>1, <2>2
<1> QED
  BY <1>1 DEF OneResponsible

(* There is never more than one responsible authority, nor more than one   *)
(* responsible construction control.                                       *)
THEOREM OneResponsibleService == FaultySpec => []OneResponsible
BY InvariantOneResponsible, DossierInvariant, PTL

(* Every open item, and the distribution, is addressed to the service that *)
(* is responsible now, through every change of responsibility and also     *)
(* while the dossier is suspended; the manual item of the finalization to  *)
(* a construction control that is or was involved.                         *)
THEOREM AddressedRight == FaultySpec => []AddressedToResponsible
<1>1. DossierInv => AddressedToResponsible
  BY DEF DossierInv
<1> QED
  BY <1>1, DossierInvariant, PTL

(* Starting the distribution is one of its own steps, as there is a        *)
(* responsible authority to lead it.                                       *)
LEMMA StartIsStep ==
  ASSUME NEW its, StartIfCreated(its), ActiveIn(Authorities, involved') # {}
  PROVE  [DistNext]_distVars
<1>1. Responsible(Authorities, involved') \in Authorities
  BY ResponsibleIsActive, TasksKnown DEF ActiveIn
<1> QED
  BY <1>1 DEF StartIfCreated, DistNext

LEMMA DossierStepsDistribution == DossierInv /\ [FaultyNext]_vars => [DistNext]_distVars
<1> SUFFICES ASSUME DossierInv, [FaultyNext]_vars PROVE [DistNext]_distVars
  OBVIOUS
<1>1. CASE Submit
  <2>1. ActiveIn(Authorities, involved') # {}
    BY <1>1, SubmittedRowsValues DEF Submit
  <2> QED
    BY <1>1, <2>1, StartIsStep DEF Submit
<1>2. CASE CompleteEbauNumber
  <2>1. items["ebau-number"] # 0 /\ "ebau-number" \in Tasks \ {"submit"} /\ involved' = involved
    BY <1>2 DEF CompleteEbauNumber, Ready, Tasks, MunicipalTasks
  <2>2. ActiveIn(Authorities, involved') # {}
    BY <2>1 DEF DossierInv, SomebodyResponsible
  <2> QED
    BY <1>2, <2>2, StartIsStep DEF CompleteEbauNumber
<1>3. CASE Distribute \/ EndDistribution \/ EchSkipDistribution \/ EchSuspend
  BY <1>3
     DEF Distribute, EndDistribution, EchSkipDistribution, EchSuspend, CaseSuspended, DistNext
<1>4. ASSUME NEW services \in {Authorities, Controls}, NEW to \in services,
             ChangeResponsible(services, to)
      PROVE  [DistNext]_distVars
  <2>1. CASE to \in Authorities /\ dcase \in OpenCase
    <3>1. services = Authorities
      BY <2>1, DossierAssumption
    <3>2. ReassignDistribution(lead, to)
      BY <1>4, <2>1, <3>1, DistributionRuns DEF ChangeResponsible
    <3> QED
      BY <2>1, <3>2 DEF DistNext
  <2>2. CASE ~(to \in Authorities /\ dcase \in OpenCase)
    BY <1>4, <2>2 DEF ChangeResponsible
  <2> QED
    BY <2>1, <2>2
<1>5. CASE Archive \/ ResubmitCopy
  BY <1>5 DEF Archive, ResubmitCopy, CaseArchived, CaseCancelled, DistNext
<1>6. CASE \/ SubmitRejected \/ CreateManual \/ CompleteManual
           \/ \E t \in SideTasks : CompleteSideTask(t)
           \/ Report \/ \E stored \in BOOLEAN : Finalize(stored)
  BY <1>6 DEF SubmitRejected, CreateManual, CompleteManual, CompleteSideTask, Report, Finalize
<1>7. CASE \/ \E continue \in BOOLEAN : Decide(continue) \/ EchDecide(continue)
           \/ Complete \/ EchComplete
  BY <1>7 DEF Decide, EchDecide, DecisionTaken, Complete, EchComplete, Completed
<1>8. CASE \/ EchReceive \/ EchReject \/ EchNoDecision \/ HandlerFails \/ UNCHANGED vars
           \/ HandlerSkips("sb1", "closing sb1", "closing sb2")
           \/ HandlerSkips("sb2", "closing sb2", "completing")
  BY <1>8 DEF EchReceive, EchReject, EchNoDecision, HandlerFails, HandlerSkips, vars
<1>9. CASE PressButton \/ ButtonStep
  <2>1. CASE \/ ButtonSuspends("rejecting", "saving rejected")
             \/ ButtonSuspends("correcting", "saving correction")
    BY <2>1 DEF ButtonSuspends, CaseSuspended, DistNext
  <2>2. CASE \/ ButtonResumes("cancelling rejection", "undoing rejection")
             \/ ButtonResumes("ending correction", "undoing correction")
    BY <2>2 DEF ButtonResumes, CaseResumed, DistNext
  <2>3. CASE SavingStep \/ PressButton \/ ButtonCompletes
    BY <2>3 DEF SavingStep, ButtonSaves, ButtonReturns, PressButton, ButtonCompletes, Completed
  <2>4. \A task, step, next :
          HandlerSkips(task, step, next) \/ ButtonCloses(task, step, next) =>
            UNCHANGED distVars
    BY DEF HandlerSkips, ButtonCloses
  <2> QED
    BY <1>9, <2>1, <2>2, <2>3, <2>4 DEF ButtonStep, SavingStep
<1> QED
  BY <1>1, <1>2, <1>3, <1>4, <1>5, <1>6, <1>7, <1>8, <1>9
     DEF FaultyNext, Request, EchStep

(* The distribution of a dossier is a distribution: whatever is proved of  *)
(* DistSpec, the absence of duplicate invitations or the abstract          *)
(* consultation, holds of it inside the procedure as well.                 *)
THEOREM DistributionWithin == FaultySpec => ImplementsDistribution
<1>1. DossierInit => DistInit
  BY DEF DossierInit
<1> QED
  BY <1>1, DossierInvariant, DossierStepsDistribution, PTL
     DEF FaultySpec, DistSpec, ImplementsDistribution

=============================================================================

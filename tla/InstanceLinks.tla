---------------------------- MODULE InstanceLinks ----------------------------
(***************************************************************************)
(* Links between dossiers.  Every dossier refers to a group or to none;    *)
(* dossiers of one group are linked.                                       *)
(*                                                                         *)
(* Linking is no transaction: the request loads both dossiers and saves    *)
(* them one after the other.  Every save, those of requests about          *)
(* something else included, writes the group that was loaded.              *)
(***************************************************************************)
EXTENDS Naturals, FiniteSets

CONSTANTS
  Instances,
  Requests,  \* bound: requests that load and save dossiers
  NoGroup,
  NoInstance

ASSUME InstanceLinksAssumption ==
  /\ IsFiniteSet(Instances)
  /\ NoGroup \notin Requests
  /\ NoInstance \notin Instances

VARIABLES
  group,       \* the group of each dossier; one made by a request is named by it
  pc,          \* next step of each request
  first,       \* the dossier it is about
  second,      \* the one to link
  firstCopy,   \* the group of the former, as it was loaded
  secondCopy,  \* that of the latter
  disturbed,   \* requests that overlapped another one
  asked        \* dossiers that were asked to be linked, one by the other

requestVars == <<pc, first, second, firstCopy, secondCopy, disturbed, asked>>
vars == <<group, requestVars>>

Running == {r \in Requests : pc[r] \notin {"idle", "done"}}

(* The dossiers that get_linked_instances finds, and the dossier itself.   *)
LinkedTo(i) ==
  {i} \cup {j \in Instances : group[i] # NoGroup /\ group[j] = group[i]}

Spec_Links == INSTANCE Links WITH
  links <- [i \in Instances |-> LinkedTo(i)],
  calm <- Running \cap disturbed = {}

Init ==
  /\ group = [i \in Instances |-> NoGroup]
  /\ pc = [r \in Requests |-> "idle"]
  /\ first = [r \in Requests |-> NoInstance]
  /\ second = [r \in Requests |-> NoInstance]
  /\ firstCopy = [r \in Requests |-> NoGroup]
  /\ secondCopy = [r \in Requests |-> NoGroup]
  /\ disturbed = {}
  /\ asked = [i \in Instances |-> {i}]

-----------------------------------------------------------------------------
(* Steps of a request.                                                     *)

(* The request is let in, and loads the dossier it is about.               *)
Begin(r, i, step) ==
  /\ pc[r] = "idle"
  /\ pc' = [pc EXCEPT ![r] = step]
  /\ first' = [first EXCEPT ![r] = i]
  /\ firstCopy' = [firstCopy EXCEPT ![r] = group[i]]
  /\ disturbed' = IF Running = {} THEN disturbed
                  ELSE disturbed \cup Running \cup {r}
  /\ UNCHANGED <<group, secondCopy>>

GoTo(r, from, to) ==
  /\ pc[r] = from
  /\ pc' = [pc EXCEPT ![r] = to]
  /\ UNCHANGED <<first, second, firstCopy, disturbed, asked>>

BeginLink(r) ==
  \E i, j \in Instances :
    /\ Begin(r, i, "load second")
    /\ second' = [second EXCEPT ![r] = j]
    /\ asked' = Spec_Links!Joined(asked, i, j)

LoadSecond(r) ==
  /\ GoTo(r, "load second", "link")
  /\ secondCopy' = [secondCopy EXCEPT ![r] = group[second[r]]]
  /\ UNCHANGED group

(* Neither has a group: a new one is made.                                 *)
LinkNew(r) ==
  /\ firstCopy[r] = NoGroup /\ secondCopy[r] = NoGroup
  /\ GoTo(r, "link", "save second")
  /\ group' = [group EXCEPT ![first[r]] = r]
  /\ UNCHANGED secondCopy

(* The second dossier is given the group it was loaded with.               *)
SaveSecondMutant(r) ==
  /\ GoTo(r, "save second", "done")
  /\ group' = [group EXCEPT ![second[r]] = secondCopy[r]]
  /\ UNCHANGED secondCopy

SaveSecond(r) ==
  /\ GoTo(r, "save second", "done")
  /\ group' = [group EXCEPT ![second[r]] = r]
  /\ UNCHANGED secondCopy

(* Only the second dossier moves to the group of the first.                *)
JoinGroupsMutant(r) ==
  /\ firstCopy[r] # NoGroup /\ secondCopy[r] # NoGroup
  /\ GoTo(r, "link", "done")
  /\ group' = [group EXCEPT ![second[r]] = firstCopy[r]]
  /\ UNCHANGED secondCopy

(* Both have one: all that are in the group of the second move.            *)
JoinGroups(r) ==
  /\ firstCopy[r] # NoGroup /\ secondCopy[r] # NoGroup
  /\ GoTo(r, "link", "done")
  /\ group' = [i \in Instances |-> IF group[i] = secondCopy[r] THEN firstCopy[r]
                                   ELSE group[i]]
  /\ UNCHANGED secondCopy

JoinFirst(r) ==
  /\ firstCopy[r] # NoGroup /\ secondCopy[r] = NoGroup
  /\ GoTo(r, "link", "done")
  /\ group' = [group EXCEPT ![second[r]] = firstCopy[r]]
  /\ UNCHANGED secondCopy

JoinSecond(r) ==
  /\ firstCopy[r] = NoGroup /\ secondCopy[r] # NoGroup
  /\ GoTo(r, "link", "done")
  /\ group' = [group EXCEPT ![first[r]] = secondCopy[r]]
  /\ UNCHANGED secondCopy

(* Unlinking: when one other dossier is left in the group, it is unlinked  *)
(* as well.  Without a group, the others are those without a group.        *)
Others(r) == {i \in Instances \ {first[r]} : group[i] = firstCopy[r]}

BeginUnlink(r) ==
  /\ \E i \in Instances : Begin(r, i, "count")
  /\ UNCHANGED <<second, asked>>

Count(r) ==
  /\ GoTo(r, "count", IF Cardinality(Others(r)) = 1 THEN "unlink both" ELSE "unlink")
  /\ UNCHANGED <<group, secondCopy>>

UnlinkBoth(r) ==
  /\ GoTo(r, "unlink both", "done")
  /\ group' = [i \in Instances |-> IF i \in Others(r) \cup {first[r]} THEN NoGroup
                                   ELSE group[i]]
  /\ UNCHANGED secondCopy

UnlinkOne(r) ==
  /\ GoTo(r, "unlink", "done")
  /\ group' = [group EXCEPT ![first[r]] = NoGroup]
  /\ UNCHANGED secondCopy

(* Any other request that saves the dossier it has loaded.                 *)
BeginChange(r) ==
  /\ \E i \in Instances : Begin(r, i, "change")
  /\ UNCHANGED <<second, asked>>

SaveChange(r) ==
  /\ GoTo(r, "change", "done")
  /\ group' = [group EXCEPT ![first[r]] = firstCopy[r]]
  /\ UNCHANGED secondCopy

(* A request ends before it is done.                                       *)
Fail(r) ==
  /\ r \in Running
  /\ GoTo(r, pc[r], "done")
  /\ UNCHANGED <<group, secondCopy>>

LinkStep(r) ==
  \/ LoadSecond(r)
  \/ LinkNew(r) \/ SaveSecond(r)
  \/ JoinGroups(r) \/ JoinFirst(r) \/ JoinSecond(r)

UnlinkStep(r) == Count(r) \/ UnlinkBoth(r) \/ UnlinkOne(r)

Next ==
  \E r \in Requests :
    \/ BeginLink(r) \/ BeginUnlink(r) \/ BeginChange(r)
    \/ LinkStep(r) \/ UnlinkStep(r) \/ SaveChange(r)
    \/ Fail(r)

Spec == Init /\ [][Next]_vars

-----------------------------------------------------------------------------
LinksTypeOK ==
  /\ group \in [Instances -> Requests \cup {NoGroup}]
  /\ pc \in [Requests -> {"idle", "load second", "link", "save second", "count",
                          "unlink both", "unlink", "change", "done"}]
  /\ first \in [Requests -> Instances \cup {NoInstance}]
  /\ second \in [Requests -> Instances \cup {NoInstance}]
  /\ firstCopy \in [Requests -> Requests \cup {NoGroup}]
  /\ secondCopy \in [Requests -> Requests \cup {NoGroup}]
  /\ disturbed \subseteq Requests
  /\ asked \in [Instances -> SUBSET Instances]

(* A request that links two dossiers, and overlaps no other one, leaves    *)
(* them linked, whatever earlier requests that failed half way left in the *)
(* groups.                                                                 *)
LinkEstablished ==
  [][\A r \in Requests :
       LinkStep(r) /\ pc'[r] = "done" /\ r \notin disturbed =>
         second[r] \in LinkedTo(first[r])']_vars

(* Requests that do not overlap join groups and leave them as the abstract *)
(* links do, those that fail half way included; and no stale copy of any   *)
(* request ever puts dossiers into one group that nobody asked to link.    *)
ImplementsLinks == Spec_Links!LinksSpec

=============================================================================

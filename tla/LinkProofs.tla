----------------------------- MODULE LinkProofs -----------------------------
(***************************************************************************)
(* Proofs about InstanceLinks, for any number of dossiers and requests.    *)
(***************************************************************************)
EXTENDS InstanceLinks, FiniteSetTheorems, TLAPS

Began ==
  \A r \in Requests :
    /\ pc[r] # "idle" => first[r] \in Instances
    /\ pc[r] \in {"load second", "link", "save second"} =>
         second[r] \in Instances /\ second[r] \in asked[first[r]]
    /\ pc[r] \in {"idle", "load second"} => secondCopy[r] = NoGroup

(* A group is named by the request that made it: every dossier in it, now  *)
(* or in a copy some request holds, was asked to be linked to the one that *)
(* request is about.                                                       *)
Made(g, i) ==
  /\ pc[g] \in {"save second", "done"}
  /\ i \in Instances
  /\ i \in asked[first[g]]

Anchored ==
  \A g \in Requests :
    /\ \A i \in Instances : group[i] = g => Made(g, i)
    /\ \A r \in Requests : firstCopy[r] = g => Made(g, first[r])
    /\ \A r \in Requests : secondCopy[r] = g => Made(g, second[r])

(* A request that overlaps no other runs alone, and its copies are current. *)
Current(r) ==
  /\ pc[r] # "save second" => firstCopy[r] = group[first[r]]
  /\ pc[r] = "link" => secondCopy[r] = group[second[r]]
  /\ pc[r] = "save second" =>
       /\ \A i \in Instances : group[i] = r <=> i = first[r]
       /\ second[r] # first[r] => group[second[r]] = NoGroup
  /\ pc[r] = "unlink both" => Cardinality(Others(r)) = 1

RunsAlone ==
  \A r \in Running \ disturbed : Running = {r} /\ Current(r)

LinkInv ==
  LinksTypeOK /\ Spec_Links!Groups(asked) /\ Began /\ Anchored /\ RunsAlone

-----------------------------------------------------------------------------
(* What was asked forms groups, which only grow.                           *)
LEMMA JoinedGroups ==
  ASSUME NEW g \in [Instances -> SUBSET Instances], Spec_Links!Groups(g),
         NEW a \in Instances, NEW b \in Instances
  PROVE  /\ Spec_Links!Joined(g, a, b) \in [Instances -> SUBSET Instances]
         /\ Spec_Links!Groups(Spec_Links!Joined(g, a, b))
         /\ \A i \in Instances : g[i] \subseteq Spec_Links!Joined(g, a, b)[i]
         /\ b \in Spec_Links!Joined(g, a, b)[a]
<1> DEFINE h == Spec_Links!Joined(g, a, b)
<1>1. \A i \in Instances :
        h[i] = IF i \in g[a] \cup g[b] THEN g[a] \cup g[b] ELSE g[i]
  BY DEF Spec_Links!Joined
<1>2. \A i, j \in Instances : i \in g[i] /\ (i \in g[j] => g[i] = g[j])
  BY DEF Spec_Links!Groups
<1>3. h \in [Instances -> SUBSET Instances]
  BY DEF Spec_Links!Joined
<1>4. \A i \in Instances : g[i] \subseteq h[i]
  BY <1>1, <1>2
<1>5. ASSUME NEW i \in Instances, NEW j \in Instances, i \in h[j]  PROVE  h[i] = h[j]
  BY <1>1, <1>2, <1>5
<1>6. Spec_Links!Groups(h)
  BY <1>2, <1>3, <1>4, <1>5 DEF Spec_Links!Groups
<1>7. b \in h[a]
  BY <1>1, <1>2
<1> QED BY <1>3, <1>4, <1>6, <1>7

(* The groups of the dossiers are groups, and within what was asked.       *)
LEMMA LinkedGroups == Spec_Links!Groups([i \in Instances |-> LinkedTo(i)])
BY DEF Spec_Links!Groups, LinkedTo

LEMMA LinkedWithin ==
  ASSUME LinkInv  PROVE  Spec_Links!Within([i \in Instances |-> LinkedTo(i)], asked)
<1> SUFFICES ASSUME NEW i \in Instances, NEW j \in LinkedTo(i)  PROVE  j \in asked[i]
  BY DEF Spec_Links!Within
<1>1. \A k, l \in Instances : k \in asked[k] /\ (k \in asked[l] => asked[k] = asked[l])
  BY DEF LinkInv, Spec_Links!Groups
<1>2. CASE j = i
  BY <1>1, <1>2
<1>3. CASE j \in Instances /\ group[i] # NoGroup /\ group[j] = group[i]
  <2>1. group[i] \in Requests
    BY <1>3 DEF LinkInv, LinksTypeOK
  <2>2. Made(group[i], i) /\ Made(group[i], j)
    BY <1>3, <2>1 DEF LinkInv, Anchored
  <2>3. first[group[i]] \in Instances
    BY <2>1, <2>2 DEF LinkInv, Began, Made
  <2> QED BY <1>1, <1>3, <2>2, <2>3 DEF Made
<1> QED BY <1>2, <1>3 DEF LinkedTo

-----------------------------------------------------------------------------
LEMMA InitLinks == Init => LinkInv
BY InstanceLinksAssumption
   DEF Init, LinkInv, LinksTypeOK, Spec_Links!Groups, Began, Anchored, RunsAlone, Running

(* A request begins with a copy of the group of its dossier.               *)
LEMMA BeginKeeps ==
  ASSUME LinkInv, NEW r \in Requests, NEW i \in Instances,
         NEW step \in {"load second", "count", "change"}, Begin(r, i, step),
         second' \in [Requests -> Instances \cup {NoInstance}],
         \A q \in Requests : q # r => second'[q] = second[q],
         asked' \in [Instances -> SUBSET Instances],
         Spec_Links!Groups(asked'),
         \A j \in Instances : asked[j] \subseteq asked'[j],
         step = "load second" => second'[r] \in Instances /\ second'[r] \in asked'[i]
  PROVE  LinkInv'
<1>1. /\ pc[r] = "idle" /\ pc'[r] = step
      /\ first'[r] = i /\ firstCopy'[r] = group[i]
      /\ UNCHANGED <<group, secondCopy>>
  BY DEF Begin, LinkInv, LinksTypeOK
<1>2. \A q \in Requests : q # r =>
        pc'[q] = pc[q] /\ first'[q] = first[q] /\ firstCopy'[q] = firstCopy[q]
  BY DEF Begin, LinkInv, LinksTypeOK
<1>3. LinksTypeOK'
  <2>1. /\ pc' \in [Requests -> {"idle", "load second", "link", "save second", "count",
                                 "unlink both", "unlink", "change", "done"}]
        /\ first' \in [Requests -> Instances \cup {NoInstance}]
        /\ firstCopy' \in [Requests -> Requests \cup {NoGroup}]
    BY DEF Begin, LinkInv, LinksTypeOK
  <2>2. disturbed' \subseteq Requests
    BY DEF Begin, LinkInv, LinksTypeOK, Running
  <2> QED BY <1>1, <2>1, <2>2 DEF LinkInv, LinksTypeOK
<1>4. Began'
  BY <1>1, <1>2 DEF LinkInv, Began, LinksTypeOK
<1>5. \A g \in Requests, j \in Instances :
        Made(g, j) => g # r /\ Made(g, j)'
  BY <1>1, <1>2 DEF Made, LinkInv, Began
<1>6. secondCopy[r] = NoGroup
  BY <1>1 DEF LinkInv, Began
<1>7. Anchored'
  <2> SUFFICES ASSUME NEW g \in Requests
               PROVE  /\ \A j \in Instances : group[j] = g => Made(g, j)'
                      /\ \A q \in Requests : firstCopy'[q] = g => Made(g, first[q])'
                      /\ \A q \in Requests : secondCopy[q] = g => Made(g, second[q])'
    BY <1>1 DEF Anchored
  <2>1. ASSUME NEW j \in Instances, group[j] = g  PROVE  Made(g, j)'
    BY <2>1, <1>5 DEF LinkInv, Anchored
  <2>2. ASSUME NEW q \in Requests, firstCopy'[q] = g  PROVE  Made(g, first[q])'
    <3>1. CASE q = r
      BY <3>1, <2>1, <2>2, <1>1 DEF Made
    <3>2. CASE q # r
      <4>1. Made(g, first[q]) /\ first[q] \in Instances
        BY <3>2, <2>2, <1>2 DEF LinkInv, Anchored, Made
      <4> QED BY <4>1, <3>2, <1>2, <1>5 DEF Made
    <3> QED BY <3>1, <3>2
  <2>3. ASSUME NEW q \in Requests, secondCopy[q] = g  PROVE  Made(g, second[q])'
    <3>1. q # r
      BY <2>3, <1>6, InstanceLinksAssumption
    <3>2. Made(g, second[q]) /\ second[q] \in Instances
      BY <2>3 DEF LinkInv, Anchored, Made
    <3> QED BY <3>1, <3>2, <1>5 DEF Made
  <2> QED BY <2>1, <2>2, <2>3
<1>8. RunsAlone'
  <2>1. Running' = Running \cup {r}
    BY <1>1, <1>2 DEF Running
  <2>2. CASE Running = {}
    <3>1. Current(r)'
      BY <1>1 DEF Current
    <3> QED BY <2>1, <2>2, <3>1 DEF RunsAlone
  <2>3. CASE Running # {}
    BY <2>1, <2>3 DEF RunsAlone, Begin
  <2> QED BY <2>2, <2>3
<1> QED BY <1>3, <1>4, <1>7, <1>8 DEF LinkInv

LEMMA BeginsKeep ==
  ASSUME LinkInv, NEW r \in Requests, BeginLink(r) \/ BeginUnlink(r) \/ BeginChange(r)
  PROVE  LinkInv'
<1>1. CASE BeginLink(r)
  <2>1. PICK i \in Instances, j \in Instances :
          /\ Begin(r, i, "load second")
          /\ second' = [second EXCEPT ![r] = j]
          /\ asked' = Spec_Links!Joined(asked, i, j)
    BY <1>1 DEF BeginLink
  <2>2. /\ asked \in [Instances -> SUBSET Instances] /\ Spec_Links!Groups(asked)
        /\ second \in [Requests -> Instances \cup {NoInstance}]
    BY DEF LinkInv, LinksTypeOK
  <2>3. /\ asked' \in [Instances -> SUBSET Instances]
        /\ Spec_Links!Groups(asked')
        /\ \A k \in Instances : asked[k] \subseteq asked'[k]
        /\ j \in asked'[i]
    BY <2>1, <2>2, JoinedGroups
  <2>4. /\ second' \in [Requests -> Instances \cup {NoInstance}]
        /\ second'[r] = j
        /\ \A q \in Requests : q # r => second'[q] = second[q]
    BY <2>1, <2>2
  <2> QED BY <2>1, <2>3, <2>4, BeginKeeps
<1>2. CASE BeginUnlink(r)
  BY <1>2, BeginKeeps DEF BeginUnlink, LinkInv, LinksTypeOK, Spec_Links!Groups
<1>3. CASE BeginChange(r)
  BY <1>3, BeginKeeps DEF BeginChange, LinkInv, LinksTypeOK, Spec_Links!Groups
<1> QED BY <1>1, <1>2, <1>3


(* A later step of a request gives dossiers no group but one of those that *)
(* were asked to be linked to them.                                        *)
LEMMA StepKeeps ==
  ASSUME LinkInv, NEW r \in Running,
         NEW to \in {"link", "save second", "unlink both", "unlink", "done"},
         GoTo(r, pc[r], to),
         to = "link" => pc[r] = "load second",
         to = "save second" => pc[r] = "link",
         pc[r] = "save second" => to = "done",
         group' \in [Instances -> Requests \cup {NoGroup}],
         secondCopy' \in [Requests -> Requests \cup {NoGroup}],
         \A q \in Requests : q # r => secondCopy'[q] = secondCopy[q],
         \A g \in Requests, i \in Instances :
           group'[i] = g => Made(g, i) \/ (g = r /\ i = first[r] /\ pc'[r] = "save second"),
         \A g \in Requests : secondCopy'[r] = g => Made(g, second[r]),
         r \notin disturbed /\ pc'[r] # "done" => Current(r)'
  PROVE  LinkInv'
<1>0. r \in Requests /\ pc[r] \notin {"idle", "done"}
  BY DEF Running
<1>1. /\ pc'[r] = to
      /\ UNCHANGED <<first, second, firstCopy, disturbed, asked>>
      /\ \A q \in Requests : q # r => pc'[q] = pc[q]
  BY <1>0 DEF GoTo, LinkInv, LinksTypeOK
<1>2. LinksTypeOK'
  BY <1>0 DEF GoTo, LinkInv, LinksTypeOK
<1>3. Spec_Links!Groups(asked)'
  BY <1>1 DEF LinkInv, Spec_Links!Groups
<1>4. Began'
  BY <1>0, <1>1 DEF LinkInv, Began, LinksTypeOK
<1>5. \A g \in Requests : \A i \in Instances : Made(g, i) => Made(g, i)'
  BY <1>0, <1>1 DEF Made
<1>6. first[r] \in Instances /\ first[r] \in asked[first[r]]
  BY <1>0 DEF LinkInv, Began, Spec_Links!Groups
<1>7. Anchored'
  <2> SUFFICES ASSUME NEW g \in Requests
               PROVE  /\ \A i \in Instances : group'[i] = g => Made(g, i)'
                      /\ \A q \in Requests : firstCopy[q] = g => Made(g, first[q])'
                      /\ \A q \in Requests : secondCopy'[q] = g => Made(g, second[q])'
    BY <1>1 DEF Anchored
  <2>1. ASSUME NEW i \in Instances, group'[i] = g  PROVE  Made(g, i)'
    <3>1. CASE Made(g, i)
      BY <3>1, <1>5
    <3>2. CASE g = r /\ i = first[r] /\ pc'[r] = "save second"
      BY <3>2, <1>1, <1>6 DEF Made
    <3> QED BY <2>1, <3>1, <3>2
  <2>2. ASSUME NEW q \in Requests, firstCopy[q] = g  PROVE  Made(g, first[q])'
    <3>1. Made(g, first[q]) /\ first[q] \in Instances
      BY <2>2 DEF LinkInv, Anchored, Made
    <3> QED BY <3>1, <1>1, <1>5 DEF Made
  <2>3. ASSUME NEW q \in Requests, secondCopy'[q] = g  PROVE  Made(g, second[q])'
    <3>1. Made(g, second[q])
      BY <2>3, <1>0 DEF LinkInv, Anchored
    <3> QED BY <3>1, <1>1, <1>5 DEF Made
  <2> QED BY <2>1, <2>2, <2>3
<1>8. RunsAlone'
  <2>1. Running' = IF to = "done" THEN Running \ {r} ELSE Running
    BY <1>0, <1>1 DEF Running
  <2> SUFFICES ASSUME NEW q \in Running', q \notin disturbed
               PROVE  Running' = {q} /\ Current(q)'
    BY <1>1 DEF RunsAlone
  <2>2. Running = {q}
    BY <2>1 DEF LinkInv, RunsAlone
  <2>3. q = r /\ pc'[r] # "done"
    BY <2>1, <2>2, <1>1
  <2> QED BY <2>1, <2>2, <2>3, <1>1
<1> QED BY <1>2, <1>3, <1>4, <1>7, <1>8 DEF LinkInv

(* A request that has begun to link or unlink holds current copies, unless *)
(* others disturbed it.                                                    *)
LEMMA AloneIsCurrent ==
  ASSUME LinkInv, NEW r \in Running, r \notin disturbed  PROVE  Current(r)
BY DEF LinkInv, RunsAlone

LEMMA LoadSecondKeeps ==
  ASSUME LinkInv, NEW r \in Requests, LoadSecond(r)  PROVE  LinkInv'
<1>1. /\ pc[r] = "load second" /\ pc'[r] = "link"
      /\ secondCopy'[r] = group[second[r]]
      /\ UNCHANGED <<group, first, second, firstCopy, disturbed>>
  BY DEF LoadSecond, GoTo, LinkInv, LinksTypeOK
<1>2. r \in Running /\ second[r] \in Instances
  BY <1>1 DEF Running, LinkInv, Began
<1>3. /\ secondCopy' \in [Requests -> Requests \cup {NoGroup}]
      /\ \A q \in Requests : q # r => secondCopy'[q] = secondCopy[q]
  BY <1>2 DEF LoadSecond, LinkInv, LinksTypeOK
<1>4. \A g \in Requests : secondCopy'[r] = g => Made(g, second[r])
  BY <1>1, <1>2 DEF LinkInv, Anchored
<1>5. r \notin disturbed => Current(r)'
  BY <1>1, <1>2, AloneIsCurrent DEF Current
<1>6. \A g \in Requests, i \in Instances : group'[i] = g => Made(g, i)
  BY <1>1 DEF LinkInv, Anchored
<1>7. group' \in [Instances -> Requests \cup {NoGroup}]
  BY <1>1 DEF LinkInv, LinksTypeOK
<1>8. GoTo(r, pc[r], "link")
  BY <1>1 DEF LoadSecond
<1> QED BY <1>1, <1>2, <1>3, <1>4, <1>5, <1>6, <1>7, <1>8, StepKeeps

LEMMA LinkNewKeeps ==
  ASSUME LinkInv, NEW r \in Requests, LinkNew(r)  PROVE  LinkInv'
<1>1. /\ pc[r] = "link" /\ pc'[r] = "save second"
      /\ firstCopy[r] = NoGroup /\ secondCopy[r] = NoGroup
      /\ UNCHANGED <<first, second, firstCopy, disturbed, secondCopy>>
  BY DEF LinkNew, GoTo, LinkInv, LinksTypeOK
<1>2. r \in Running /\ first[r] \in Instances /\ second[r] \in Instances
  BY <1>1 DEF Running, LinkInv, Began
<1>3. /\ group' \in [Instances -> Requests \cup {NoGroup}]
      /\ group'[first[r]] = r
      /\ \A i \in Instances : i # first[r] => group'[i] = group[i]
  BY <1>2 DEF LinkNew, LinkInv, LinksTypeOK
<1>4. \A i \in Instances : group[i] # r
  BY <1>1 DEF LinkInv, Anchored, Made
<1>5. r \notin disturbed /\ pc'[r] # "done" => Current(r)'
  BY <1>1, <1>2, <1>3, <1>4, AloneIsCurrent DEF Current
<1>6. \A g \in Requests, i \in Instances :
        group'[i] = g =>
          Made(g, i) \/ (g = r /\ i = first[r] /\ pc'[r] = "save second")
  <2> TAKE g \in Requests, i \in Instances
  <2>1. group[i] = g => Made(g, i)
    BY DEF LinkInv, Anchored
  <2> QED BY <1>1, <1>3, <2>1
<1>7. secondCopy' \in [Requests -> Requests \cup {NoGroup}]
  BY <1>1 DEF LinkInv, LinksTypeOK
<1>8. GoTo(r, pc[r], "save second")
  BY <1>1 DEF LinkNew
<1>9. \A g \in Requests : secondCopy'[r] = g => Made(g, second[r])
  BY <1>1, InstanceLinksAssumption
<1>10. \A q \in Requests : secondCopy'[q] = secondCopy[q]
  BY <1>1
<1> QED BY <1>1, <1>2, <1>3, <1>5, <1>6, <1>7, <1>8, <1>9, <1>10, StepKeeps

(* The last step of a request: it changes the groups of some dossiers to   *)
(* another one of those that were asked to be linked to them, or to none.  *)
LEMMA LastStepKeeps ==
  ASSUME LinkInv, NEW r \in Running, GoTo(r, pc[r], "done"), UNCHANGED secondCopy,
         group' \in [Instances -> Requests \cup {NoGroup}],
         \A i \in Instances :
           group'[i] = group[i] \/ group'[i] = NoGroup \/ Made(group'[i], i)
  PROVE  LinkInv'
<1>1. \A g \in Requests, i \in Instances : group'[i] = g => Made(g, i)
  BY InstanceLinksAssumption DEF LinkInv, Anchored
<1>2. secondCopy' \in [Requests -> Requests \cup {NoGroup}]
  BY DEF LinkInv, LinksTypeOK
<1>3. \A g \in Requests : secondCopy'[r] = g => Made(g, second[r])
  BY DEF LinkInv, Anchored, Running
<1>4. pc'[r] = "done"
  BY DEF GoTo, LinkInv, LinksTypeOK, Running
<1> QED BY <1>1, <1>2, <1>3, <1>4, StepKeeps

(* What the copies of a request that links have to do with each other.     *)
LEMMA LinkAnchors ==
  ASSUME LinkInv, NEW r \in Requests, pc[r] \in {"link", "save second"}
  PROVE  /\ first[r] \in Instances /\ second[r] \in Instances
         /\ \A g \in Requests :
              Made(g, first[r]) \/ Made(g, second[r]) => Made(g, first[r]) /\ Made(g, second[r])
         /\ \A g, h \in Requests, i \in Instances :
              Made(g, i) /\ Made(g, second[r]) /\ Made(h, first[r]) => Made(h, i)
<1>1. first[r] \in Instances /\ second[r] \in Instances /\ second[r] \in asked[first[r]]
  BY DEF LinkInv, Began
<1>2. \A i, j \in Instances : i \in asked[i] /\ (i \in asked[j] => asked[i] = asked[j])
  BY DEF LinkInv, Spec_Links!Groups
<1>3. \A g \in Requests : pc[g] # "idle" => first[g] \in Instances
  BY DEF LinkInv, Began
<1>4. \A g \in Requests, i \in Instances :
        Made(g, i) => first[g] \in Instances /\ asked[i] = asked[first[g]]
  BY <1>2, <1>3 DEF Made
<1>5. \A g \in Requests, i, j \in Instances :
        Made(g, i) /\ asked[i] = asked[j] => Made(g, j)
  BY <1>2, <1>4 DEF Made
<1>6. asked[first[r]] = asked[second[r]]
  BY <1>1, <1>2
<1>7. \A g \in Requests :
        Made(g, first[r]) \/ Made(g, second[r]) => Made(g, first[r]) /\ Made(g, second[r])
  BY <1>1, <1>5, <1>6
<1>8. ASSUME NEW g \in Requests, NEW h \in Requests, NEW i \in Instances,
             Made(g, i), Made(g, second[r]), Made(h, first[r])
      PROVE  Made(h, i)
  <2>1. asked[i] = asked[first[g]] /\ asked[second[r]] = asked[first[g]]
    BY <1>1, <1>4, <1>8
  <2>2. asked[first[r]] = asked[i]
    BY <1>6, <2>1
  <2> QED BY <1>1, <1>5, <1>8, <2>2
<1> QED BY <1>1, <1>7, <1>8

LEMMA LinkStepKeeps ==
  ASSUME LinkInv, NEW r \in Requests, LinkStep(r)  PROVE  LinkInv'
<1> USE InstanceLinksAssumption
<1>0. group \in [Instances -> Requests \cup {NoGroup}]
      /\ firstCopy \in [Requests -> Requests \cup {NoGroup}]
      /\ secondCopy \in [Requests -> Requests \cup {NoGroup}]
  BY DEF LinkInv, LinksTypeOK
<1>1. CASE LoadSecond(r)
  BY <1>1, LoadSecondKeeps
<1>2. CASE LinkNew(r)
  BY <1>2, LinkNewKeeps
<1>3. CASE SaveSecond(r)
  <2>1. pc[r] = "save second"
    BY <1>3 DEF SaveSecond, GoTo
  <2>2. first[r] \in Instances /\ second[r] \in Instances /\ Made(r, second[r])
    BY <2>1 DEF LinkInv, Began, Made
  <2>3. \A i \in Instances : group'[i] = group[i] \/ Made(group'[i], i)
    BY <1>0, <1>3, <2>2 DEF SaveSecond
  <2>4. group' \in [Instances -> Requests \cup {NoGroup}]
    BY <1>0, <1>3 DEF SaveSecond
  <2>5. r \in Running /\ GoTo(r, pc[r], "done") /\ UNCHANGED secondCopy
    BY <1>3 DEF SaveSecond, GoTo, Running
  <2> QED BY <2>3, <2>4, <2>5, LastStepKeeps
<1>4. CASE JoinGroups(r)
  <2>1. pc[r] = "link" /\ firstCopy[r] \in Requests /\ secondCopy[r] \in Requests
    BY <1>0, <1>4 DEF JoinGroups, GoTo
  <2>2. Made(firstCopy[r], first[r]) /\ Made(secondCopy[r], second[r])
    BY <2>1 DEF LinkInv, Anchored
  <2>3. \A i \in Instances : group[i] = secondCopy[r] => Made(secondCopy[r], i)
    BY <2>1 DEF LinkInv, Anchored
  <2>4. \A i \in Instances : group[i] = secondCopy[r] => Made(firstCopy[r], i)
    BY <2>1, <2>2, <2>3, LinkAnchors
  <2>5. \A i \in Instances : group'[i] = group[i] \/ Made(group'[i], i)
    BY <1>4, <2>4 DEF JoinGroups
  <2>6. group' \in [Instances -> Requests \cup {NoGroup}]
    BY <1>0, <1>4, <2>1 DEF JoinGroups
  <2>7. r \in Running /\ GoTo(r, pc[r], "done") /\ UNCHANGED secondCopy
    BY <1>4 DEF JoinGroups, GoTo, Running
  <2> QED BY <2>5, <2>6, <2>7, LastStepKeeps
<1>5. CASE JoinFirst(r)
  <2>1. pc[r] = "link" /\ firstCopy[r] \in Requests
    BY <1>0, <1>5 DEF JoinFirst, GoTo
  <2>2. Made(firstCopy[r], first[r])
    BY <2>1 DEF LinkInv, Anchored
  <2>3. Made(firstCopy[r], second[r])
    BY <2>1, <2>2, LinkAnchors
  <2>4. \A i \in Instances : group'[i] = group[i] \/ Made(group'[i], i)
    BY <1>0, <1>5, <2>3 DEF JoinFirst
  <2>5. group' \in [Instances -> Requests \cup {NoGroup}]
    BY <1>0, <1>5, <2>1 DEF JoinFirst
  <2>6. r \in Running /\ GoTo(r, pc[r], "done") /\ UNCHANGED secondCopy
    BY <1>5 DEF JoinFirst, GoTo, Running
  <2> QED BY <2>4, <2>5, <2>6, LastStepKeeps
<1>6. CASE JoinSecond(r)
  <2>1. pc[r] = "link" /\ secondCopy[r] \in Requests
    BY <1>0, <1>6 DEF JoinSecond, GoTo
  <2>2. Made(secondCopy[r], second[r])
    BY <2>1 DEF LinkInv, Anchored
  <2>3. Made(secondCopy[r], first[r])
    BY <2>1, <2>2, LinkAnchors
  <2>4. \A i \in Instances : group'[i] = group[i] \/ Made(group'[i], i)
    BY <1>0, <1>6, <2>3 DEF JoinSecond
  <2>5. group' \in [Instances -> Requests \cup {NoGroup}]
    BY <1>0, <1>6, <2>1 DEF JoinSecond
  <2>6. r \in Running /\ GoTo(r, pc[r], "done") /\ UNCHANGED secondCopy
    BY <1>6 DEF JoinSecond, GoTo, Running
  <2> QED BY <2>4, <2>5, <2>6, LastStepKeeps
<1> QED BY <1>1, <1>2, <1>3, <1>4, <1>5, <1>6 DEF LinkStep

LEMMA OtherStepKeeps ==
  ASSUME LinkInv, NEW r \in Requests, UnlinkStep(r) \/ SaveChange(r) \/ Fail(r)
  PROVE  LinkInv'
<1> USE InstanceLinksAssumption
<1>0. /\ group \in [Instances -> Requests \cup {NoGroup}]
      /\ firstCopy \in [Requests -> Requests \cup {NoGroup}]
      /\ secondCopy \in [Requests -> Requests \cup {NoGroup}]
      /\ \A g \in Requests, i \in Instances : group[i] = g => Made(g, i)
      /\ \A g \in Requests : secondCopy[r] = g => Made(g, second[r])
  BY DEF LinkInv, LinksTypeOK, Anchored
<1>1. CASE Count(r)
  <2> DEFINE to == IF Cardinality(Others(r)) = 1 THEN "unlink both" ELSE "unlink"
  <2>1. /\ GoTo(r, pc[r], to) /\ UNCHANGED <<group, secondCopy>>
        /\ pc[r] = "count" /\ pc'[r] = to
        /\ UNCHANGED <<first, second, firstCopy>>
    BY <1>1 DEF Count, GoTo, LinkInv, LinksTypeOK
  <2>0. r \in Running
    BY <2>1 DEF Running
  <2>2. Others(r)' = Others(r)
    BY <2>1 DEF Others
  <2>3. r \notin disturbed => Current(r)'
    <3>2. pc'[r] = "unlink both" => Cardinality(Others(r)') = 1
      BY <2>1, <2>2
    <3>3. pc'[r] \notin {"link", "save second"}
      BY <2>1
    <3> QED BY <2>1, <2>0, <3>2, <3>3, AloneIsCurrent DEF Current
  <2>4. to \in {"unlink both", "unlink"}
    OBVIOUS
  <2>5. pc[r] = "count" /\ to # "link" /\ to # "save second"
    BY <2>1
  <2> HIDE DEF to
  <2> QED BY <1>0, <2>0, <2>1, <2>3, <2>4, <2>5, StepKeeps
<1>2. CASE UnlinkBoth(r)
  <2>1. \A i \in Instances : group'[i] = group[i] \/ group'[i] = NoGroup
    BY <1>2 DEF UnlinkBoth
  <2>2. group' \in [Instances -> Requests \cup {NoGroup}]
    BY <1>0, <1>2 DEF UnlinkBoth
  <2>3. r \in Running /\ GoTo(r, pc[r], "done") /\ UNCHANGED secondCopy
    BY <1>2 DEF UnlinkBoth, GoTo, Running
  <2> QED BY <2>1, <2>2, <2>3, LastStepKeeps
<1>3. CASE UnlinkOne(r)
  <2>1. \A i \in Instances : group'[i] = group[i] \/ group'[i] = NoGroup
    BY <1>0, <1>3 DEF UnlinkOne
  <2>2. group' \in [Instances -> Requests \cup {NoGroup}]
    BY <1>0, <1>3 DEF UnlinkOne
  <2>3. r \in Running /\ GoTo(r, pc[r], "done") /\ UNCHANGED secondCopy
    BY <1>3 DEF UnlinkOne, GoTo, Running
  <2> QED BY <2>1, <2>2, <2>3, LastStepKeeps
<1>4. CASE SaveChange(r)
  <2>1. firstCopy[r] \in Requests => Made(firstCopy[r], first[r])
    BY DEF LinkInv, Anchored
  <2>2. \A i \in Instances :
          group'[i] = group[i] \/ group'[i] = NoGroup \/ Made(group'[i], i)
    BY <1>0, <1>4, <2>1 DEF SaveChange
  <2>3. group' \in [Instances -> Requests \cup {NoGroup}]
    BY <1>0, <1>4 DEF SaveChange
  <2>4. r \in Running /\ GoTo(r, pc[r], "done") /\ UNCHANGED secondCopy
    BY <1>4 DEF SaveChange, GoTo, Running
  <2> QED BY <2>2, <2>3, <2>4, LastStepKeeps
<1>5. CASE Fail(r)
  BY <1>0, <1>5, LastStepKeeps DEF Fail
<1> QED BY <1>1, <1>2, <1>3, <1>4, <1>5 DEF UnlinkStep

LEMMA LinkInvStep == ASSUME LinkInv, [Next]_vars  PROVE  LinkInv'
<1>1. CASE UNCHANGED vars
  <2> USE <1>1 DEF vars, requestVars
  <2>1. LinksTypeOK' /\ Spec_Links!Groups(asked)' /\ Began'
    BY DEF LinkInv, LinksTypeOK, Spec_Links!Groups, Began
  <2>2. Anchored'
    BY DEF LinkInv, Anchored, Made
  <2>3. RunsAlone'
    <3>1. Running' = Running
      BY DEF Running
    <3>2. \A r \in Requests : Current(r) => Current(r)'
      BY DEF Current, Others
    <3> QED BY <3>1, <3>2 DEF LinkInv, RunsAlone, Running
  <2> QED BY <2>1, <2>2, <2>3 DEF LinkInv
<1>2. CASE Next
  BY <1>2, BeginsKeep, LinkStepKeeps, OtherStepKeeps DEF Next
<1> QED BY <1>1, <1>2

LEMMA LinkInvariant == Spec => []LinkInv
BY InitLinks, LinkInvStep, PTL DEF Spec

-----------------------------------------------------------------------------
(* Requests that run alone do what the abstract links do.                  *)
Calm == Running \cap disturbed = {}
LinksOf == [i \in Instances |-> LinkedTo(i)]

LEMMA CalmRequest ==
  ASSUME LinkInv, Calm, NEW r \in Requests, pc[r] \notin {"idle", "done"}
  PROVE  /\ r \in Running /\ r \notin disturbed /\ Current(r)
         /\ first[r] \in Instances
         /\ pc[r] \in {"link", "save second"} =>
              second[r] \in Instances /\ second[r] \in asked[first[r]]
BY AloneIsCurrent DEF Calm, Running, LinkInv, Began

LEMMA StepOfLink ==
  ASSUME LinkInv, Calm, NEW a \in Instances, NEW b \in Instances, b \in asked[a],
         UNCHANGED asked,
         \A i, j \in Instances :
           j \in LinkedTo(i)' <=>
             j \in IF i \in LinkedTo(a) \cup LinkedTo(b) THEN LinkedTo(a) \cup LinkedTo(b)
                   ELSE LinkedTo(i)
  PROVE  Spec_Links!Link(a, b)
<1>1. \A i \in Instances : LinkedTo(i) \subseteq Instances /\ LinkedTo(i)' \subseteq Instances
  BY DEF LinkedTo
<1>2. \A i \in Instances :
        LinkedTo(i)' = IF i \in LinkedTo(a) \cup LinkedTo(b)
                       THEN LinkedTo(a) \cup LinkedTo(b) ELSE LinkedTo(i)
  <2> TAKE i \in Instances
  <2> DEFINE S == IF i \in LinkedTo(a) \cup LinkedTo(b)
                  THEN LinkedTo(a) \cup LinkedTo(b) ELSE LinkedTo(i)
  <2>1. S \subseteq Instances /\ \A j \in Instances : j \in LinkedTo(i)' <=> j \in S
    BY <1>1
  <2> HIDE DEF S
  <2>2. LinkedTo(i)' = S
    BY <1>1, <2>1
  <2> QED BY <2>2 DEF S
<1>3. LinksOf' = Spec_Links!Joined(LinksOf, a, b)
  BY <1>2 DEF LinksOf, Spec_Links!Joined
<1> QED BY <1>3 DEF Calm, LinksOf, Spec_Links!Link

LEMMA StepOfUnlink ==
  ASSUME LinkInv, Calm, NEW a \in Instances, UNCHANGED asked,
         \A i, j \in Instances :
           j \in LinkedTo(i)' <=> j \in IF i = a THEN {a} ELSE LinkedTo(i) \ {a}
  PROVE  Spec_Links!Unlink(a)
<1>1. \A i \in Instances : LinkedTo(i) \subseteq Instances /\ LinkedTo(i)' \subseteq Instances
  BY DEF LinkedTo
<1>2. \A i \in Instances : LinkedTo(i)' = IF i = a THEN {a} ELSE LinkedTo(i) \ {a}
  BY <1>1
<1>3. LinksOf' = Spec_Links!Without(LinksOf, a)
  BY <1>2 DEF LinksOf, Spec_Links!Without
<1> QED BY <1>3 DEF Calm, LinksOf, Spec_Links!Unlink

LEMMA StepOfTurn ==
  ASSUME UNCHANGED asked, \A i \in Instances : LinkedTo(i)' = LinkedTo(i)
  PROVE  Spec_Links!Turn
<1>1. LinksOf' = LinksOf
  BY DEF LinksOf
<1> QED BY <1>1 DEF LinksOf, Spec_Links!Turn

LEMMA WithinNext ==
  LinkInv' => Spec_Links!Within([i \in Instances |-> LinkedTo(i)], asked)'
BY LinkedWithin, PTL

LEMMA StepOfDisturb ==
  ASSUME LinkInv', ~Calm, UNCHANGED asked  PROVE  Spec_Links!Disturb
<1>1. Spec_Links!Groups([i \in Instances |-> LinkedTo(i)])'
  BY DEF Spec_Links!Groups, LinkedTo
<1>2. Spec_Links!Within([i \in Instances |-> LinkedTo(i)], asked)'
  BY WithinNext
<1> QED BY <1>1, <1>2 DEF Calm, Spec_Links!Disturb, Spec_Links!Groups, Spec_Links!Within

LEMMA SaveSecondLinks ==
  ASSUME LinkInv, Calm, NEW r \in Requests, SaveSecond(r)
  PROVE  Spec_Links!Link(first[r], second[r])
<1>1. pc[r] = "save second" /\ UNCHANGED asked
  BY DEF SaveSecond, GoTo
<1>2. /\ Current(r) /\ first[r] \in Instances /\ second[r] \in Instances
      /\ second[r] \in asked[first[r]]
  BY <1>1, CalmRequest
<1>3. \A i \in Instances : group'[i] = IF i \in {first[r], second[r]} THEN r ELSE group[i]
  BY <1>1, <1>2 DEF SaveSecond, Current, LinkInv, LinksTypeOK
<1>4. /\ \A i \in Instances : group[i] = r <=> i = first[r]
      /\ second[r] # first[r] => group[second[r]] = NoGroup
      /\ r # NoGroup
  BY <1>1, <1>2, InstanceLinksAssumption DEF Current
<1>5. LinkedTo(first[r]) = {first[r]} /\ LinkedTo(second[r]) = {second[r]}
  BY <1>2, <1>4 DEF LinkedTo
<1>6. \A i, j \in Instances :
        j \in LinkedTo(i)' <=>
          j \in IF i \in {first[r], second[r]} THEN {first[r], second[r]} ELSE LinkedTo(i)
  BY <1>2, <1>3, <1>4 DEF LinkedTo
<1> QED BY <1>1, <1>2, <1>5, <1>6, StepOfLink

LEMMA JoinGroupsLinks ==
  ASSUME LinkInv, Calm, NEW r \in Requests, JoinGroups(r)
  PROVE  Spec_Links!Link(first[r], second[r])
<1>1. /\ pc[r] = "link" /\ UNCHANGED asked
      /\ firstCopy[r] # NoGroup /\ secondCopy[r] # NoGroup
  BY DEF JoinGroups, GoTo
<1>2. /\ first[r] \in Instances /\ second[r] \in Instances
      /\ second[r] \in asked[first[r]]
      /\ firstCopy[r] = group[first[r]] /\ secondCopy[r] = group[second[r]]
  BY <1>1, CalmRequest DEF Current
<1>3. \A i \in Instances :
        group'[i] = IF group[i] = group[second[r]] THEN group[first[r]] ELSE group[i]
  BY <1>2 DEF JoinGroups
<1>4. \A i, j \in Instances :
        j \in LinkedTo(i)' <=>
          j \in IF i \in LinkedTo(first[r]) \cup LinkedTo(second[r])
                THEN LinkedTo(first[r]) \cup LinkedTo(second[r]) ELSE LinkedTo(i)
  BY <1>1, <1>2, <1>3 DEF LinkedTo
<1> QED BY <1>1, <1>2, <1>4, StepOfLink

LEMMA JoinOneLinks ==
  ASSUME LinkInv, Calm, NEW r \in Requests, JoinFirst(r) \/ JoinSecond(r)
  PROVE  Spec_Links!Link(first[r], second[r])
<1>1. /\ pc[r] = "link" /\ UNCHANGED asked
  BY DEF JoinFirst, JoinSecond, GoTo
<1>2. /\ first[r] \in Instances /\ second[r] \in Instances
      /\ second[r] \in asked[first[r]]
      /\ firstCopy[r] = group[first[r]] /\ secondCopy[r] = group[second[r]]
  BY <1>1, CalmRequest DEF Current
<1>3. PICK a \in {first[r], second[r]}, b \in {first[r], second[r]} :
        /\ {a, b} = {first[r], second[r]}
        /\ group[a] # NoGroup /\ group[b] = NoGroup
        /\ \A i \in Instances : group'[i] = IF i = b THEN group[a] ELSE group[i]
  BY <1>2 DEF JoinFirst, JoinSecond, LinkInv, LinksTypeOK
<1>4. \A i, j \in Instances :
        j \in LinkedTo(i)' <=>
          j \in IF i \in LinkedTo(a) \cup LinkedTo(b)
                THEN LinkedTo(a) \cup LinkedTo(b) ELSE LinkedTo(i)
  BY <1>2, <1>3 DEF LinkedTo
<1>5. LinkedTo(a) \cup LinkedTo(b) = LinkedTo(first[r]) \cup LinkedTo(second[r])
  BY <1>3
<1> QED BY <1>1, <1>2, <1>4, <1>5, StepOfLink

(* What an unlinking request leaves: the dossier is alone, and so is the   *)
(* only other one that was in its group.                                   *)
LEMMA UnlinkLinks ==
  ASSUME LinkInv, Calm, NEW r \in Requests, UnlinkOne(r) \/ UnlinkBoth(r)
  PROVE  Spec_Links!Unlink(first[r])
<1>1. pc[r] \in {"unlink", "unlink both"} /\ UNCHANGED asked
  BY DEF UnlinkOne, UnlinkBoth, GoTo
<1>2. Current(r) /\ first[r] \in Instances /\ firstCopy[r] = group[first[r]]
  BY <1>1, CalmRequest DEF Current
<1>3. group \in [Instances -> Requests \cup {NoGroup}]
  BY DEF LinkInv, LinksTypeOK
<1>4. CASE UnlinkOne(r)
  <2>1. \A i \in Instances : group'[i] = IF i = first[r] THEN NoGroup ELSE group[i]
    BY <1>2, <1>3, <1>4 DEF UnlinkOne
  <2>2. \A i, j \in Instances :
          j \in LinkedTo(i)' <=>
            j \in IF i = first[r] THEN {first[r]} ELSE LinkedTo(i) \ {first[r]}
    BY <1>2, <2>1 DEF LinkedTo
  <2> QED BY <1>1, <1>2, <2>2, StepOfUnlink
<1>5. CASE UnlinkBoth(r)
  <2>1. Cardinality(Others(r)) = 1
    BY <1>1, <1>2, <1>5 DEF Current, UnlinkBoth, GoTo
  <2>2. PICK o : Others(r) = {o}
    <3>1. IsFiniteSet(Others(r))
      BY InstanceLinksAssumption, FS_Subset DEF Others
    <3> QED BY <2>1, <3>1, FS_Singleton
  <2>3. /\ o \in Instances /\ o # first[r]
        /\ \A i \in Instances \ {first[r]} : group[i] = group[first[r]] <=> i = o
    BY <1>2, <2>2 DEF Others
  <2>4. \A i \in Instances : group'[i] = IF i \in {o, first[r]} THEN NoGroup ELSE group[i]
    BY <1>5, <2>2 DEF UnlinkBoth
  <2>5. \A i, j \in Instances :
          j \in LinkedTo(i)' <=>
            j \in IF i = first[r] THEN {first[r]} ELSE LinkedTo(i) \ {first[r]}
    BY <1>2, <2>3, <2>4 DEF LinkedTo
  <2> QED BY <1>1, <1>2, <2>5, StepOfUnlink
<1> QED BY <1>4, <1>5

LEMMA QuietStep ==
  ASSUME LinkInv, Calm, NEW r \in Requests,
         LoadSecond(r) \/ LinkNew(r) \/ Count(r) \/ SaveChange(r) \/ Fail(r)
  PROVE  Spec_Links!Turn
<1>1. CASE LoadSecond(r) \/ Count(r) \/ Fail(r)
  <2>1. UNCHANGED <<group, asked>>
    BY <1>1 DEF LoadSecond, Count, Fail, GoTo
  <2> QED BY <2>1, StepOfTurn DEF LinkedTo
<1>2. CASE LinkNew(r)
  <2>1. pc[r] = "link" /\ firstCopy[r] = NoGroup /\ UNCHANGED asked
    BY <1>2 DEF LinkNew, GoTo
  <2>2. first[r] \in Instances /\ group[first[r]] = NoGroup
    BY <2>1, CalmRequest DEF Current
  <2>3. \A i \in Instances : group[i] # r
    BY <2>1 DEF LinkInv, Anchored, Made
  <2>4. \A i \in Instances : group'[i] = IF i = first[r] THEN r ELSE group[i]
    BY <1>2, <2>2 DEF LinkNew, LinkInv, LinksTypeOK
  <2>5. \A i \in Instances : LinkedTo(i)' = LinkedTo(i)
    BY <2>2, <2>3, <2>4 DEF LinkedTo
  <2> QED BY <2>1, <2>5, StepOfTurn
<1>3. CASE SaveChange(r)
  <2>1. pc[r] = "change" /\ UNCHANGED asked
    BY <1>3 DEF SaveChange, GoTo
  <2>2. firstCopy[r] = group[first[r]]
    BY <2>1, CalmRequest DEF Current
  <2>3. group' = group
    BY <1>3, <2>2 DEF SaveChange, LinkInv, LinksTypeOK
  <2> QED BY <2>1, <2>3, StepOfTurn DEF LinkedTo
<1> QED BY <1>1, <1>2, <1>3

LEMMA BeginLinks ==
  ASSUME LinkInv, NEW r \in Requests, BeginLink(r) \/ BeginUnlink(r) \/ BeginChange(r)
  PROVE  Spec_Links!LinksNext
<1>1. \A i \in Instances : LinkedTo(i)' = LinkedTo(i)
  BY DEF BeginLink, BeginUnlink, BeginChange, Begin, LinkedTo
<1>2. [i \in Instances |-> LinkedTo(i)]' = [i \in Instances |-> LinkedTo(i)]
  BY <1>1
<1>3. CASE BeginLink(r)
  <2>1. \E i, j \in Instances : asked' = Spec_Links!Joined(asked, i, j)
    BY <1>3 DEF BeginLink
  <2> QED BY <1>2, <2>1 DEF Spec_Links!LinksNext, Spec_Links!Ask
<1>4. CASE BeginUnlink(r) \/ BeginChange(r)
  BY <1>1, <1>4, StepOfTurn DEF BeginUnlink, BeginChange, Spec_Links!LinksNext
<1> QED BY <1>3, <1>4

LEMMA LinksRefined ==
  ASSUME LinkInv, LinkInv', [Next]_vars
  PROVE  [Spec_Links!LinksNext]_(Spec_Links!linksVars)
<1>1. CASE UNCHANGED vars
  BY <1>1, StepOfTurn DEF vars, requestVars, LinkedTo, Spec_Links!LinksNext
<1>2. ASSUME NEW r \in Requests, BeginLink(r) \/ BeginUnlink(r) \/ BeginChange(r)
      PROVE  Spec_Links!LinksNext
  BY <1>2, BeginLinks
<1>3. ASSUME NEW r \in Requests, LinkStep(r) \/ UnlinkStep(r) \/ SaveChange(r) \/ Fail(r)
      PROVE  Spec_Links!LinksNext
  <2>1. CASE ~Calm
    <3>1. UNCHANGED asked
      BY <1>3 DEF LinkStep, UnlinkStep, LoadSecond, LinkNew, SaveSecond, JoinGroups,
           JoinFirst, JoinSecond, Count, UnlinkBoth, UnlinkOne, SaveChange, Fail, GoTo
    <3> QED BY <2>1, <3>1, StepOfDisturb DEF Spec_Links!LinksNext
  <2>2. CASE Calm /\ (SaveSecond(r) \/ JoinGroups(r) \/ JoinFirst(r) \/ JoinSecond(r))
    <3>1. pc[r] \in {"link", "save second"}
      BY <2>2 DEF SaveSecond, JoinGroups, JoinFirst, JoinSecond, GoTo
    <3>2. first[r] \in Instances /\ second[r] \in Instances
      BY <2>2, <3>1, CalmRequest
    <3>3. Spec_Links!Link(first[r], second[r])
      BY <2>2, SaveSecondLinks, JoinGroupsLinks, JoinOneLinks
    <3> QED BY <3>2, <3>3 DEF Spec_Links!LinksNext
  <2>3. CASE Calm /\ (UnlinkOne(r) \/ UnlinkBoth(r))
    <3>1. pc[r] \in {"unlink", "unlink both"}
      BY <2>3 DEF UnlinkOne, UnlinkBoth, GoTo
    <3>2. first[r] \in Instances
      BY <2>3, <3>1, CalmRequest
    <3> QED BY <2>3, <3>2, UnlinkLinks DEF Spec_Links!LinksNext
  <2>4. CASE Calm /\ (LoadSecond(r) \/ LinkNew(r) \/ Count(r) \/ SaveChange(r) \/ Fail(r))
    BY <2>4, QuietStep DEF Spec_Links!LinksNext
  <2> QED BY <1>3, <2>1, <2>2, <2>3, <2>4 DEF LinkStep, UnlinkStep
<1> QED BY <1>1, <1>2, <1>3 DEF Next

LEMMA LinksStart == Init => Spec_Links!LinksInit
<1> SUFFICES ASSUME Init  PROVE  Spec_Links!LinksInit
  OBVIOUS
<1>1. \A i \in Instances : LinkedTo(i) = {i}
  BY DEF Init, LinkedTo
<1>2. Running = {}
  BY DEF Init, Running
<1> QED BY <1>1, <1>2 DEF Init, Spec_Links!LinksInit, Spec_Links!Alone

-----------------------------------------------------------------------------
(* The variables of dossiers and requests keep their types.                *)
THEOREM LinksTypeCorrect == Spec => []LinksTypeOK
<1>1. LinkInv => LinksTypeOK
  BY DEF LinkInv
<1> QED BY <1>1, LinkInvariant, PTL

(* However many requests on however many dossiers: requests that do not    *)
(* overlap join groups and leave them as the abstract links do, and those  *)
(* that overlap never link dossiers that nobody asked to link.             *)
THEOREM LinksImplemented == Spec => ImplementsLinks
<1> QED
  BY LinkInvariant, LinksRefined, LinksStart, PTL
     DEF Spec, ImplementsLinks, Spec_Links!LinksSpec

(* What the last step of such a request leaves.                            *)
LEMMA EstablishedStep ==
  ASSUME LinkInv, [Next]_vars, NEW r \in Requests,
         LinkStep(r), pc'[r] = "done", r \notin disturbed
  PROVE  second[r] \in LinkedTo(first[r])'
<1>1. SaveSecond(r) \/ JoinGroups(r) \/ JoinFirst(r) \/ JoinSecond(r)
  BY DEF LinkStep, LoadSecond, LinkNew, GoTo, LinkInv, LinksTypeOK
<1>2. r \in Running /\ pc[r] \in {"link", "save second"}
  BY <1>1 DEF Running, SaveSecond, JoinGroups, JoinFirst, JoinSecond, GoTo
<1>3. Running = {r}
  BY <1>2 DEF LinkInv, RunsAlone
<1>4. Calm
  BY <1>3 DEF Calm
<1>5. first[r] \in Instances /\ second[r] \in Instances
  BY <1>2, <1>4, CalmRequest DEF Running
<1>6. Spec_Links!Link(first[r], second[r])
  BY <1>1, <1>4, SaveSecondLinks, JoinGroupsLinks, JoinOneLinks
<1>7. LinksOf' = Spec_Links!Joined(LinksOf, first[r], second[r])
  BY <1>6 DEF Spec_Links!Link, LinksOf
<1>8. \A i \in Instances : LinkedTo(i)' = Spec_Links!Joined(LinksOf, first[r], second[r])[i]
  BY <1>7 DEF LinksOf
<1>9. second[r] \in LinkedTo(second[r]) /\ first[r] \in LinkedTo(first[r])
  BY DEF LinkedTo
<1>10. second[r] \in Spec_Links!Joined(LinksOf, first[r], second[r])[first[r]]
  BY <1>5, <1>9 DEF LinksOf, Spec_Links!Joined
<1>11. UNCHANGED first
  BY <1>1 DEF SaveSecond, JoinGroups, JoinFirst, JoinSecond, GoTo
<1> QED BY <1>5, <1>8, <1>10, <1>11

(* However many requests there are: one that links two dossiers, and       *)
(* overlaps no other one, leaves them linked.                              *)
THEOREM LinksEstablished == Spec => LinkEstablished
<1>1. LinkInv /\ [Next]_vars =>
        [\A r \in Requests :
           LinkStep(r) /\ pc'[r] = "done" /\ r \notin disturbed =>
             second[r] \in LinkedTo(first[r])']_vars
  BY EstablishedStep
<1> QED BY <1>1, LinkInvariant, PTL DEF Spec, LinkEstablished

=============================================================================

---------------------------- MODULE ImportProofs ----------------------------
(***************************************************************************)
(* Proofs about ImportSession, for any number of uploads, dossiers,        *)
(* requests, workers and crashes.                                          *)
(***************************************************************************)
EXTENDS ImportSession, FiniteSetTheorems, TLAPS

(* What a request knows of the session when it goes on with its copy: the  *)
(* copies that are saved or handed on as imported have a full report.      *)
RequestInv(r) ==
  /\ pc[r] = "idle" => posts[r] = 0
  /\ pc[r] # "idle" => target[r] \in Sessions
  /\ pc[r] \in {"idle", "save in-progress", "enqueue", "enqueue transmission"} =>
       task[r] = "none"
  /\ pc[r] \in {"save in-progress", "enqueue"} => op[r] = "start"
  /\ pc[r] \in {"enqueue", "save task id"} => copy[r].status = "in-progress"
  /\ pc[r] \in {"save confirmed", "enqueue transmission", "save transmitting"} =>
       copy[r].report = Dossiers

(* What a task has reported, and what it has posted.                       *)
TaskInv(r) ==
  /\ op[r] = "transmit" /\ task[r] # "none" => taskCopy[r].report = Dossiers
  /\ task[r] \in {"post", "finish transmission", "fail transmission"} =>
       op[r] = "transmit"
  /\ task[r] \in {"next", "create", "save message"} =>
       taskCopy[r].status = "in-progress" /\ Dossiers \subseteq taskCopy[r].report \cup todo[r]
  /\ task[r] \in {"create", "save message"} => at[r] \in Dossiers
  /\ task[r] = "finish" => taskCopy[r].report = Dossiers
  /\ task[r] \in {"none", "queued", "post"} => posts[r] <= crashes[r]
  /\ task[r] = "finish transmission" => posts[r] > 0
  /\ posts[r] <= 1 + crashes[r]

Posted(s) == \E r \in Requests : target[r] = s /\ posts[r] > 0

(* What may be stored in the row of a session.                             *)
RowInv(s) ==
  /\ rows[s].status \in Imported => rows[s].report = Dossiers
  /\ rows[s].status = "transmitted" => Posted(s)

SessionInv ==
  /\ ImportTypeOK
  /\ \A r \in Requests : RequestInv(r) /\ TaskInv(r)
  /\ \A s \in Sessions : RowInv(s)

-----------------------------------------------------------------------------
LEMMA InitSessions == ImportInit => SessionInv
<1> SUFFICES ASSUME ImportInit  PROVE  SessionInv
  OBVIOUS
<1>1. ImportTypeOK
  BY ImportAssumption DEF ImportInit, ImportTypeOK, NoRow, Row
<1>2. \A r \in Requests : RequestInv(r) /\ TaskInv(r)
  BY DEF ImportInit, RequestInv, TaskInv
<1>3. \A s \in Sessions : RowInv(s)
  BY DEF ImportInit, RowInv, NoRow, Imported
<1> QED BY <1>1, <1>2, <1>3 DEF SessionInv

(* A step of an upload stores a row that is not imported yet.              *)
LEMMA UploadKeeps ==
  ASSUME SessionInv, NEW s \in Sessions, UploadStep(s)  PROVE  SessionInv'
<1>1. UNCHANGED <<requestVars, taskVars, instances>>
  BY DEF UploadStep, Create, MarkInProgress, ReadForValidation, Validate, Upload
<1>2. \/ rows' = rows
      \/ \E st \in {"new", "in-progress", "verified", "failed"} :
           rows' = [rows EXCEPT ![s] = [status |-> st, report |-> {}]]
  BY DEF UploadStep, Create, MarkInProgress, ReadForValidation, Validate, Save,
         WithStatus, NewRow
<1>3. ImportTypeOK'
  <2>1. rows' \in [Sessions -> Row]
    <3>1. \A st \in {"new", "in-progress", "verified", "failed"} :
            [status |-> st, report |-> {}] \in Row
      BY DEF Row, Status
    <3> QED BY <1>2, <3>1 DEF SessionInv, ImportTypeOK
  <2>2. files' \subseteq Sessions
    BY DEF UploadStep, Create, MarkInProgress, ReadForValidation, Validate, SessionInv,
           ImportTypeOK
  <2>3. upload' \in [Sessions -> {"unused", "created", "marked", "validating",
                                  "validated", "raised"}]
    BY DEF UploadStep, Create, MarkInProgress, ReadForValidation, Validate, Upload,
           SessionInv, ImportTypeOK
  <2> QED BY <1>1, <2>1, <2>2, <2>3 DEF SessionInv, ImportTypeOK, requestVars, taskVars
<1>4. \A r \in Requests : RequestInv(r)' /\ TaskInv(r)'
  BY <1>1 DEF SessionInv, RequestInv, TaskInv, requestVars, taskVars
<1>5. ASSUME NEW t \in Sessions  PROVE  RowInv(t)'
  <2>1. RowInv(t) /\ (Posted(t) => Posted(t)')
    BY <1>1 DEF SessionInv, Posted, requestVars, taskVars
  <2>2. rows'[t] = rows[t] \/ rows'[t].status \in {"new", "in-progress", "verified", "failed"}
    <3>1. \A st : [status |-> st, report |-> {}].status = st
      OBVIOUS
    <3>2. rows \in [Sessions -> Row]
      BY DEF SessionInv, ImportTypeOK
    <3> QED BY <1>2, <3>1, <3>2
  <2> QED BY <2>1, <2>2 DEF RowInv, Imported
<1> QED BY <1>3, <1>4, <1>5 DEF SessionInv

(* A step that concerns one request or its task.                           *)
Own(r) == <<pc[r], op[r], target[r], copy[r], task[r], taskCopy[r], todo[r], at[r],
            crashes[r], posts[r]>>

LEMMA RequestKeeps ==
  ASSUME SessionInv, NEW r \in Requests, ImportTypeOK',
         \A q \in Requests : q # r => Own(q)' = Own(q),
         RequestInv(r)', TaskInv(r)',
         posts[r] > 0 => target'[r] = target[r] /\ posts'[r] > 0,
         \A s \in Sessions :
           \/ rows'[s] = rows[s]
           \/ /\ rows'[s].status \in Imported => rows'[s].report = Dossiers
              /\ rows'[s].status = "transmitted" => target'[r] = s /\ posts'[r] > 0
  PROVE  SessionInv'
<1>1. ASSUME NEW q \in Requests, q # r  PROVE  RequestInv(q)' /\ TaskInv(q)'
  <2>1. /\ pc'[q] = pc[q] /\ op'[q] = op[q] /\ target'[q] = target[q] /\ copy'[q] = copy[q]
        /\ task'[q] = task[q] /\ taskCopy'[q] = taskCopy[q] /\ todo'[q] = todo[q]
        /\ at'[q] = at[q] /\ crashes'[q] = crashes[q] /\ posts'[q] = posts[q]
    BY <1>1 DEF Own
  <2>2. RequestInv(q) /\ TaskInv(q)
    BY DEF SessionInv
  <2>3. RequestInv(q)'
    BY <2>1, <2>2 DEF RequestInv
  <2>4. TaskInv(q)'
    BY <2>1, <2>2 DEF TaskInv
  <2> QED BY <2>3, <2>4
<1>2. ASSUME NEW s \in Sessions, Posted(s)  PROVE  Posted(s)'
  <2>1. PICK q \in Requests : target[q] = s /\ posts[q] > 0
    BY <1>2 DEF Posted
  <2>2. target'[q] = s /\ posts'[q] > 0
    BY <2>1 DEF Own
  <2> QED BY <2>2 DEF Posted
<1>3. ASSUME NEW s \in Sessions  PROVE  RowInv(s)'
  BY <1>2 DEF SessionInv, RowInv, Posted
<1> QED BY <1>1, <1>3 DEF SessionInv

-----------------------------------------------------------------------------
(* Requests.                                                               *)

LEMMA Rows ==
  ASSUME NEW row \in Row, NEW st \in Status
  PROVE  /\ WithStatus(row, st) \in Row
         /\ WithStatus(row, st).status = st
         /\ WithStatus(row, st).report = row.report
BY DEF Row, WithStatus

LEMMA BeginKeeps ==
  ASSUME SessionInv, NEW r \in Requests, Begin(r)  PROVE  SessionInv'
<1>1. PICK o \in Operations, s \in Sessions, role \in {"municipality", "support"} :
        /\ Allowed(role, o, rows[s].status)
        /\ pc' = [pc EXCEPT ![r] = FirstStep(o)]
        /\ op' = [op EXCEPT ![r] = o]
        /\ target' = [target EXCEPT ![r] = s]
        /\ copy' = [copy EXCEPT ![r] = rows[s]]
  BY DEF Begin
<1>2. pc[r] = "idle" /\ UNCHANGED <<rows, files, upload, overtaken, taskVars, instances>>
  BY DEF Begin
<1>3. /\ o \in {"start", "confirm", "transmit", "undo", "destroy"}
      /\ o = "confirm" => rows[s].status = "imported"
      /\ o = "transmit" => rows[s].status = "confirmed"
  BY <1>1, ImportAssumption DEF Allowed, CanConfirm, CanTransmit
<1>4. FirstStep(o) = IF o = "start" THEN "save in-progress"
                     ELSE IF o = "confirm" THEN "save confirmed"
                     ELSE IF o = "transmit" THEN "enqueue transmission"
                     ELSE IF o = "undo" THEN "delete instances" ELSE "delete row"
  BY <1>3 DEF FirstStep
<1>5. ImportTypeOK /\ RequestInv(r) /\ TaskInv(r) /\ RowInv(s)
  BY DEF SessionInv
<1>6. /\ pc'[r] = FirstStep(o) /\ op'[r] = o /\ target'[r] = s /\ copy'[r] = rows[s]
      /\ task'[r] = task[r] /\ posts'[r] = posts[r] /\ crashes'[r] = crashes[r]
      /\ taskCopy'[r] = taskCopy[r] /\ todo'[r] = todo[r] /\ at'[r] = at[r]
  BY <1>1, <1>2, <1>5 DEF ImportTypeOK, taskVars
<1>7. task[r] = "none" /\ posts[r] = 0
  BY <1>2, <1>5 DEF RequestInv
<1>8. ImportTypeOK'
  <2>1. pc' \in [Requests -> {"idle", "save in-progress", "enqueue", "save task id",
                              "save confirmed", "enqueue transmission",
                              "save transmitting", "delete instances",
                              "delete row", "done"}]
    BY <1>1, <1>4, <1>5 DEF ImportTypeOK
  <2>2. /\ op' \in [Requests -> Operations \cup {"none"}]
        /\ target' \in [Requests -> Sessions \cup {NoSession}]
        /\ copy' \in [Requests -> Row]
    BY <1>1, <1>5 DEF ImportTypeOK
  <2> QED BY <1>2, <1>5, <2>1, <2>2 DEF ImportTypeOK, taskVars
<1>9. RequestInv(r)'
  <2>1. o \in {"confirm", "transmit"} => rows[s].report = Dossiers
    BY <1>3, <1>5 DEF RowInv, Imported
  <2> QED BY <1>3, <1>4, <1>6, <1>7, <2>1 DEF RequestInv
<1>10. TaskInv(r)'
  BY <1>5, <1>6, <1>7 DEF TaskInv, ImportTypeOK
<1>11. \A q \in Requests : q # r => Own(q)' = Own(q)
  BY <1>1, <1>2, <1>5 DEF ImportTypeOK, taskVars, Own
<1> QED BY <1>2, <1>7, <1>8, <1>9, <1>10, <1>11, RequestKeeps

(* A request saves its copy.                                               *)
LEMMA SaveCopyKeeps ==
  ASSUME SessionInv, NEW r \in Requests, NEW st \in Status,
         NEW from \in {"save in-progress", "save task id", "save confirmed",
                       "save transmitting"},
         NEW to \in {"enqueue", "done"},
         GoTo(r, from, to), SaveCopy(r, st),
         st \in {"in-progress", "confirmed", "transmitting"},
         st # "in-progress" => from \in {"save confirmed", "save transmitting"},
         to = "enqueue" <=> from = "save in-progress",
         to = "enqueue" => st = "in-progress"
  PROVE  SessionInv'
<1>1. ImportTypeOK /\ RequestInv(r) /\ TaskInv(r)
  BY DEF SessionInv
<1>2. copy[r] \in Row /\ target[r] \in Sessions
  BY <1>1 DEF ImportTypeOK, RequestInv, GoTo
<1> DEFINE row == WithStatus(copy[r], st)
<1>3. row \in Row /\ row.status = st /\ row.report = copy[r].report
  BY <1>2, Rows
<1>4. /\ pc[r] = from /\ pc'[r] = to /\ UNCHANGED <<upload, op, target>>
      /\ \A q \in Requests : q # r => pc'[q] = pc[q]
      /\ UNCHANGED <<files, taskVars, instances>>
  BY <1>1 DEF GoTo, SaveCopy, ImportTypeOK
<1>5. copy' = [copy EXCEPT ![r] = row]
  BY DEF SaveCopy, WithStatus
<1>6. rows' = [rows EXCEPT ![target[r]] = row]
  BY DEF SaveCopy, Save
<1> HIDE DEF row
<1>7. ImportTypeOK'
  <2>1. /\ rows' \in [Sessions -> Row] /\ copy' \in [Requests -> Row]
    BY <1>1, <1>2, <1>3, <1>5, <1>6 DEF ImportTypeOK
  <2>2. pc' \in [Requests -> {"idle", "save in-progress", "enqueue", "save task id",
                              "save confirmed", "enqueue transmission",
                              "save transmitting", "delete instances",
                              "delete row", "done"}]
    BY <1>1 DEF ImportTypeOK, GoTo
  <2>3. overtaken' \subseteq Requests
    BY <1>1 DEF ImportTypeOK, SaveCopy
  <2> QED BY <1>1, <1>4, <2>1, <2>2, <2>3 DEF ImportTypeOK, taskVars
<1>8. copy'[r] = row
  BY <1>1, <1>5 DEF ImportTypeOK
<1>9. RequestInv(r)'
  BY <1>1, <1>3, <1>4, <1>8 DEF RequestInv, taskVars
<1>10. TaskInv(r)'
  BY <1>1, <1>4 DEF TaskInv, taskVars
<1>11. \A q \in Requests : q # r => Own(q)' = Own(q)
  BY <1>1, <1>4, <1>5 DEF ImportTypeOK, taskVars, Own
<1>12. \A s \in Sessions :
         \/ rows'[s] = rows[s]
         \/ /\ rows'[s].status \in Imported => rows'[s].report = Dossiers
            /\ rows'[s].status # "transmitted"
  BY <1>1, <1>2, <1>3, <1>4, <1>6 DEF ImportTypeOK, RequestInv, Imported
<1> QED BY <1>4, <1>7, <1>9, <1>10, <1>11, <1>12, RequestKeeps DEF taskVars

(* A request enqueues its task.                                            *)
LEMMA AsyncTaskKeeps ==
  ASSUME SessionInv, NEW r \in Requests, StartEnqueue(r) \/ TransmitEnqueue(r)
  PROVE  SessionInv'
<1>1. ImportTypeOK /\ RequestInv(r) /\ TaskInv(r)
  BY DEF SessionInv
<1>2. /\ \/ pc[r] = "enqueue" /\ pc'[r] = "save task id"
         \/ pc[r] = "enqueue transmission" /\ pc'[r] = "save transmitting"
      /\ \A q \in Requests : q # r => pc'[q] = pc[q]
      /\ UNCHANGED <<upload, op, target, rows, files, copy, overtaken, todo, at, crashes,
                     posts, instances>>
  BY <1>1 DEF StartEnqueue, TransmitEnqueue, GoTo, AsyncTask, ImportTypeOK
<1>3. /\ task' = [task EXCEPT ![r] = "queued"]
      /\ taskCopy' = [taskCopy EXCEPT ![r] = copy[r]]
  BY DEF StartEnqueue, TransmitEnqueue, AsyncTask
<1>4. task'[r] = "queued" /\ taskCopy'[r] = copy[r]
  BY <1>1, <1>3 DEF ImportTypeOK
<1>5. ImportTypeOK'
  <2>1. pc' \in [Requests -> {"idle", "save in-progress", "enqueue", "save task id",
                              "save confirmed", "enqueue transmission",
                              "save transmitting", "delete instances",
                              "delete row", "done"}]
    BY <1>1 DEF StartEnqueue, TransmitEnqueue, GoTo, ImportTypeOK
  <2>2. /\ task' \in [Requests -> {"none", "queued", "next", "create", "save message",
                                   "finish", "fail import", "post",
                                   "finish transmission", "fail transmission",
                                   "acknowledge", "ended"}]
        /\ taskCopy' \in [Requests -> Row]
    BY <1>1, <1>3 DEF ImportTypeOK
  <2> QED BY <1>1, <1>2, <2>1, <2>2 DEF ImportTypeOK
<1>6. RequestInv(r)'
  BY <1>1, <1>2 DEF RequestInv
<1>7. task[r] = "none" /\ (op[r] = "transmit" => copy[r].report = Dossiers)
  BY <1>1, <1>2 DEF RequestInv
<1>8. TaskInv(r)'
  BY <1>1, <1>2, <1>4, <1>7 DEF TaskInv
<1>9. \A q \in Requests : q # r => Own(q)' = Own(q)
  BY <1>1, <1>2, <1>3 DEF ImportTypeOK, Own
<1> QED BY <1>2, <1>5, <1>6, <1>8, <1>9, RequestKeeps

(* An import is undone, or a session deleted.                              *)
LEMMA DeleteKeeps ==
  ASSUME SessionInv, NEW r \in Requests, UndoDeleteInstances(r) \/ DeleteRow(r)
  PROVE  SessionInv'
<1>1. ImportTypeOK /\ RequestInv(r) /\ TaskInv(r)
  BY DEF SessionInv
<1>2. /\ pc[r] \in {"delete instances", "delete row"}
      /\ pc' = [pc EXCEPT ![r] = IF pc[r] = "delete row" THEN "done" ELSE "delete row"]
      /\ UNCHANGED <<upload, op, target, copy, overtaken, taskVars>>
      /\ rows' = rows \/ rows' = [rows EXCEPT ![target[r]] = NoRow]
      /\ files' \subseteq files /\ instances' \subseteq instances
  BY DEF UndoDeleteInstances, DeleteRow, GoTo, Save
<1>3. target[r] \in Sessions
  BY <1>1, <1>2 DEF RequestInv
<1>4. NoRow \in Row /\ NoRow.status = "absent"
  BY DEF NoRow, Row
<1>5. /\ pc'[r] \in {"delete row", "done"}
      /\ \A q \in Requests : q # r => pc'[q] = pc[q]
  BY <1>1, <1>2 DEF ImportTypeOK
<1>6. ImportTypeOK'
  <2>1. pc' \in [Requests -> {"idle", "save in-progress", "enqueue", "save task id",
                              "save confirmed", "enqueue transmission",
                              "save transmitting", "delete instances",
                              "delete row", "done"}]
    BY <1>1, <1>2 DEF ImportTypeOK
  <2>2. rows' \in [Sessions -> Row]
    BY <1>1, <1>2, <1>3, <1>4 DEF ImportTypeOK
  <2>3. files' \subseteq Sessions /\ instances' \subseteq Requests \X Dossiers
    BY <1>1, <1>2 DEF ImportTypeOK
  <2> QED BY <1>1, <1>2, <2>1, <2>2, <2>3 DEF ImportTypeOK, taskVars
<1>7. RequestInv(r)'
  BY <1>1, <1>2, <1>5 DEF RequestInv, taskVars
<1>8. TaskInv(r)'
  BY <1>1, <1>2 DEF TaskInv, taskVars
<1>9. \A q \in Requests : q # r => Own(q)' = Own(q)
  BY <1>2, <1>5 DEF taskVars, Own
<1>10. \A s \in Sessions : rows'[s] = rows[s] \/ rows'[s].status = "absent"
  BY <1>1, <1>2, <1>3, <1>4 DEF ImportTypeOK
<1> QED BY <1>2, <1>6, <1>7, <1>8, <1>9, <1>10, RequestKeeps DEF taskVars, Imported

LEMMA RequestStepKeeps ==
  ASSUME SessionInv, NEW r \in Requests, Request(r)  PROVE  SessionInv'
<1>1. CASE StartSave(r)
  BY <1>1, SaveCopyKeeps DEF StartSave, Status
<1>2. CASE StartSaveTaskId(r)
  <2>1. copy[r].status = "in-progress"
    BY <1>2 DEF StartSaveTaskId, GoTo, SessionInv, RequestInv
  <2> QED BY <1>2, <2>1, SaveCopyKeeps DEF StartSaveTaskId, Status
<1>3. CASE Confirm(r)
  BY <1>3, SaveCopyKeeps DEF Confirm, Status
<1>4. CASE TransmitSave(r)
  BY <1>4, SaveCopyKeeps DEF TransmitSave, Status
<1>5. CASE StartEnqueue(r) \/ TransmitEnqueue(r)
  BY <1>5, AsyncTaskKeeps
<1>6. CASE UndoDeleteInstances(r) \/ DeleteRow(r)
  BY <1>6, DeleteKeeps
<1> QED BY <1>1, <1>2, <1>3, <1>4, <1>5, <1>6 DEF Request

-----------------------------------------------------------------------------
(* Tasks.                                                                  *)

LEMMA Counters ==
  ASSUME ImportTypeOK, NEW r \in Requests
  PROVE  posts[r] \in Nat /\ crashes[r] \in Nat /\ MaxCrashes \in Nat
<1>1. crashes[r] \in 0..MaxCrashes /\ posts[r] \in Nat
  BY DEF ImportTypeOK
<1>2. MaxCrashes \in Nat
  BY ImportAssumption
<1> QED BY <1>1, <1>2

(* A step of a task that has not to do with rows.                          *)
Moves(r, step) ==
  /\ task[r] # "none"
  /\ task' = [task EXCEPT ![r] = step]
  /\ UNCHANGED <<rows, files, upload>>
  /\ UNCHANGED <<pc, op, target, copy, overtaken>>
  /\ taskCopy' \in [Requests -> Row]
  /\ todo' \in [Requests -> SUBSET Dossiers]
  /\ at' \in [Requests -> Dossiers \cup {NoDossier}]
  /\ crashes' \in [Requests -> 0..MaxCrashes]
  /\ posts' \in [Requests -> Nat]
  /\ instances' \subseteq Requests \X Dossiers
  /\ \A q \in Requests : q # r =>
       /\ taskCopy'[q] = taskCopy[q] /\ todo'[q] = todo[q] /\ at'[q] = at[q]
       /\ crashes'[q] = crashes[q] /\ posts'[q] = posts[q]
  /\ posts[r] > 0 => posts'[r] > 0

LEMMA TaskQuietKeeps ==
  ASSUME SessionInv, NEW r \in Requests,
         NEW step \in {"queued", "next", "create", "save message", "finish",
                       "fail import", "post", "finish transmission",
                       "fail transmission", "acknowledge", "ended"},
         Moves(r, step), TaskInv(r)'
  PROVE  SessionInv'
<1>1. ImportTypeOK /\ RequestInv(r)
  BY DEF SessionInv
<1>2. ImportTypeOK'
  <2>1. task' \in [Requests -> {"none", "queued", "next", "create", "save message",
                               "finish", "fail import", "post",
                               "finish transmission", "fail transmission",
                               "acknowledge", "ended"}]
    BY <1>1 DEF ImportTypeOK, Moves
  <2> QED BY <1>1, <2>1 DEF ImportTypeOK, Moves
<1>3. RequestInv(r)'
  <2>1. /\ task[r] # "none" /\ UNCHANGED <<pc, op, target, copy>>
    BY DEF Moves
  <2> QED BY <1>1, <2>1 DEF RequestInv
<1>4. \A q \in Requests : q # r => Own(q)' = Own(q)
  BY <1>1 DEF Own, ImportTypeOK, Moves
<1>5. posts[r] > 0 => target'[r] = target[r] /\ posts'[r] > 0
  BY DEF Moves
<1>6. \A s \in Sessions : rows'[s] = rows[s]
  BY DEF Moves
<1> QED BY <1>2, <1>3, <1>4, <1>5, <1>6, RequestKeeps

(* A task saves its copy.                                                  *)
LEMMA TaskSaveKeeps ==
  ASSUME SessionInv, NEW r \in Requests, task[r] \notin {"none", "queued"},
         NEW step \in {"next", "finish", "acknowledge"}, NEW row \in Row,
         TaskGoTo(r, task[r], step), TaskSave(r, row),
         UNCHANGED <<files, posts, instances>>,
         todo' \in [Requests -> SUBSET Dossiers],
         at' \in [Requests -> Dossiers \cup {NoDossier}],
         \A q \in Requests : q # r => todo'[q] = todo[q] /\ at'[q] = at[q],
         step = "next" => row.status = "in-progress"
                          /\ Dossiers \subseteq row.report \cup todo'[r],
         step = "finish" => row.report = Dossiers,
         op[r] = "transmit" => row.report = Dossiers,
         row.status \in Imported => row.report = Dossiers,
         row.status = "transmitted" => posts[r] > 0
  PROVE  SessionInv'
<1>1. ImportTypeOK /\ RequestInv(r) /\ TaskInv(r)
  BY DEF SessionInv
<1>2. /\ task' = [task EXCEPT ![r] = step] /\ UNCHANGED <<upload, requestVars, crashes>>
      /\ taskCopy' = [taskCopy EXCEPT ![r] = row]
      /\ rows' = [rows EXCEPT ![target[r]] = row]
  BY DEF TaskGoTo, TaskSave, Save
<1>3. target[r] \in Sessions
  BY <1>1 DEF RequestInv
<1>4. task'[r] = step /\ taskCopy'[r] = row
  BY <1>1, <1>2 DEF ImportTypeOK
<1>5. ImportTypeOK'
  <2>1. task' \in [Requests -> {"none", "queued", "next", "create", "save message",
                               "finish", "fail import", "post",
                               "finish transmission", "fail transmission",
                               "acknowledge", "ended"}]
    BY <1>1, <1>2 DEF ImportTypeOK
  <2>2. rows' \in [Sessions -> Row] /\ taskCopy' \in [Requests -> Row]
    BY <1>1, <1>2, <1>3 DEF ImportTypeOK
  <2> QED BY <1>1, <1>2, <2>1, <2>2 DEF ImportTypeOK, requestVars
<1>6. RequestInv(r)'
  BY <1>1, <1>2 DEF RequestInv, requestVars
<1>7. TaskInv(r)'
  BY <1>1, <1>2, <1>4 DEF TaskInv, requestVars
<1>8. \A q \in Requests : q # r => Own(q)' = Own(q)
  BY <1>1, <1>2 DEF Own, ImportTypeOK, requestVars
<1>9. \A s \in Sessions : rows'[s] = rows[s] \/ (s = target[r] /\ rows'[s] = row)
  BY <1>1, <1>2, <1>3 DEF ImportTypeOK
<1> QED BY <1>2, <1>5, <1>6, <1>7, <1>8, <1>9, RequestKeeps DEF requestVars

LEMMA TakesKeep ==
  ASSUME SessionInv, NEW r \in Requests, TakeImport(r) \/ TakeTransmission(r)
  PROVE  SessionInv'
<1>1. ImportTypeOK /\ TaskInv(r)
  BY DEF SessionInv
<1>2. CASE TakeImport(r)
  <2>1. PICK step \in {"next", "fail import"} : TaskGoTo(r, "queued", step)
    BY <1>2 DEF TakeImport
  <2>2. /\ op[r] = "start" /\ UNCHANGED <<rows, files, at, posts, instances>>
        /\ taskCopy' = [taskCopy EXCEPT ![r] = WithStatus(NewRow, "in-progress")]
        /\ todo' = [todo EXCEPT ![r] = Dossiers]
    BY <1>2 DEF TakeImport
  <2>3. /\ task[r] = "queued" /\ task' = [task EXCEPT ![r] = step]
        /\ UNCHANGED <<upload, requestVars, crashes>>
    BY <2>1 DEF TaskGoTo
  <2>4. /\ WithStatus(NewRow, "in-progress") \in Row
        /\ WithStatus(NewRow, "in-progress").status = "in-progress"
    BY DEF WithStatus, NewRow, Row, Status
  <2>5. /\ task'[r] = step /\ todo'[r] = Dossiers
        /\ taskCopy'[r] = WithStatus(NewRow, "in-progress")
    BY <1>1, <2>2, <2>3 DEF ImportTypeOK
  <2>6. TaskInv(r)'
    BY <1>1, <2>2, <2>3, <2>4, <2>5 DEF TaskInv, requestVars, ImportTypeOK
  <2>7. /\ taskCopy' \in [Requests -> Row] /\ todo' \in [Requests -> SUBSET Dossiers]
        /\ \A q \in Requests : q # r => taskCopy'[q] = taskCopy[q] /\ todo'[q] = todo[q]
    BY <1>1, <2>2, <2>4 DEF ImportTypeOK
  <2>8. Moves(r, step)
    BY <1>1, <2>2, <2>3, <2>7 DEF Moves, ImportTypeOK, requestVars
  <2> QED BY <2>6, <2>8, TaskQuietKeeps
<1>3. CASE TakeTransmission(r)
  <2>1. PICK step \in {"post", "fail transmission"} : TaskGoTo(r, "queued", step)
    BY <1>3 DEF TakeTransmission
  <2>2. /\ op[r] = "transmit" /\ UNCHANGED <<rows, files, todo, at, posts, instances>>
        /\ taskCopy' = [taskCopy EXCEPT ![r] = WithStatus(taskCopy[r], "confirmed")]
    BY <1>3 DEF TakeTransmission, WithStatus
  <2>3. /\ task[r] = "queued" /\ task' = [task EXCEPT ![r] = step]
        /\ UNCHANGED <<upload, requestVars, crashes>>
    BY <2>1 DEF TaskGoTo
  <2>4. /\ WithStatus(taskCopy[r], "confirmed") \in Row
        /\ WithStatus(taskCopy[r], "confirmed").report = taskCopy[r].report
    BY <1>1, Rows DEF ImportTypeOK, Status
  <2>5. task'[r] = step /\ taskCopy'[r] = WithStatus(taskCopy[r], "confirmed")
    BY <1>1, <2>2, <2>3 DEF ImportTypeOK
  <2>6. TaskInv(r)'
    BY <1>1, <2>2, <2>3, <2>4, <2>5 DEF TaskInv, requestVars, ImportTypeOK
  <2>7. /\ taskCopy' \in [Requests -> Row]
        /\ \A q \in Requests : q # r => taskCopy'[q] = taskCopy[q]
    BY <1>1, <2>2, <2>4 DEF ImportTypeOK
  <2>8. Moves(r, step)
    BY <1>1, <2>2, <2>3, <2>7 DEF Moves, ImportTypeOK, requestVars
  <2> QED BY <2>6, <2>8, TaskQuietKeeps
<1> QED BY <1>2, <1>3

LEMMA ReadTagKeeps ==
  ASSUME SessionInv, NEW r \in Requests, ReadTag(r)  PROVE  SessionInv'
<1>1. ImportTypeOK /\ TaskInv(r)
  BY DEF SessionInv
<1>2. PICK d \in todo[r], step \in {"save message", "create"} :
        at' = [at EXCEPT ![r] = d] /\ TaskGoTo(r, "next", step)
  BY DEF ReadTag
<1>3. /\ task[r] = "next" /\ task' = [task EXCEPT ![r] = step]
      /\ UNCHANGED <<upload, requestVars, crashes>>
      /\ UNCHANGED <<rows, files, taskCopy, todo, posts, instances>>
  BY <1>2 DEF TaskGoTo, ReadTag
<1>4. d \in Dossiers
  BY <1>1 DEF ImportTypeOK
<1>5. task'[r] = step /\ at'[r] = d
  BY <1>1, <1>2, <1>3 DEF ImportTypeOK
<1>6. TaskInv(r)'
  BY <1>1, <1>3, <1>4, <1>5 DEF TaskInv, requestVars
<1>7. /\ at' \in [Requests -> Dossiers \cup {NoDossier}]
      /\ \A q \in Requests : q # r => at'[q] = at[q]
  BY <1>1, <1>2, <1>4 DEF ImportTypeOK
<1>9. Moves(r, step)
  BY <1>1, <1>3, <1>7 DEF Moves, ImportTypeOK, requestVars
<1> QED BY <1>6, <1>9, TaskQuietKeeps

LEMMA CreateInstanceKeeps ==
  ASSUME SessionInv, NEW r \in Requests, CreateInstance(r)  PROVE  SessionInv'
<1>1. ImportTypeOK /\ TaskInv(r)
  BY DEF SessionInv
<1>2. /\ task[r] = "create" /\ task' = [task EXCEPT ![r] = "save message"]
      /\ UNCHANGED <<upload, requestVars, crashes>>
      /\ UNCHANGED <<rows, files, taskCopy, todo, at, posts>>
      /\ instances' = instances \cup {<<r, at[r]>>}
  BY DEF TaskGoTo, CreateInstance
<1>3. at[r] \in Dossiers
  BY <1>1, <1>2 DEF TaskInv
<1>4. TaskInv(r)'
  BY <1>1, <1>2 DEF TaskInv, requestVars, ImportTypeOK
<1>5. instances' \subseteq Requests \X Dossiers
  <2>1. <<r, at[r]>> \in Requests \X Dossiers
    BY <1>3
  <2>2. instances \subseteq Requests \X Dossiers
    BY <1>1 DEF ImportTypeOK
  <2> QED BY <1>2, <2>1, <2>2
<1>9. Moves(r, "save message")
  BY <1>1, <1>2, <1>5 DEF Moves, ImportTypeOK, requestVars
<1> QED BY <1>4, <1>9, TaskQuietKeeps

LEMMA ImportRaisesKeeps ==
  ASSUME SessionInv, NEW r \in Requests, ImportRaises(r)  PROVE  SessionInv'
<1>1. ImportTypeOK /\ TaskInv(r)
  BY DEF SessionInv
<1>2. /\ task[r] \in {"next", "create"} /\ task' = [task EXCEPT ![r] = "fail import"]
      /\ UNCHANGED <<upload, requestVars, crashes>>
      /\ UNCHANGED <<rows, files, taskCopy, todo, posts, instances>>
      /\ at' = [at EXCEPT ![r] = NoDossier]
  BY DEF TaskGoTo, ImportRaises
<1>3. TaskInv(r)'
  BY <1>1, <1>2 DEF TaskInv, requestVars, ImportTypeOK
<1>4. /\ at' \in [Requests -> Dossiers \cup {NoDossier}]
      /\ \A q \in Requests : q # r => at'[q] = at[q]
  BY <1>1, <1>2 DEF ImportTypeOK
<1>9. Moves(r, "fail import")
  BY <1>1, <1>2, <1>4 DEF Moves, ImportTypeOK, requestVars
<1> QED BY <1>3, <1>9, TaskQuietKeeps

LEMMA PostCounts ==
  ASSUME ImportTypeOK, NEW r \in Requests, posts[r] <= crashes[r],
         posts' \in {posts, [posts EXCEPT ![r] = @ + 1]}
  PROVE  /\ posts' \in [Requests -> Nat]
         /\ \A q \in Requests : q # r => posts'[q] = posts[q]
         /\ posts[r] > 0 => posts'[r] > 0
         /\ posts' = [posts EXCEPT ![r] = @ + 1] => posts'[r] > 0
         /\ posts'[r] <= 1 + crashes[r]
<1>1. posts \in [Requests -> Nat]
  BY DEF ImportTypeOK
<1>2. posts[r] \in Nat /\ crashes[r] \in Nat
  BY Counters
<1>3. posts[r] + 1 \in Nat /\ posts[r] + 1 > 0 /\ posts[r] + 1 <= 1 + crashes[r]
  BY <1>2
<1>4. posts[r] <= 1 + crashes[r]
  BY <1>2
<1> QED BY <1>1, <1>3, <1>4

LEMMA PostKeeps ==
  ASSUME SessionInv, NEW r \in Requests, Post(r)  PROVE  SessionInv'
<1>1. ImportTypeOK /\ TaskInv(r)
  BY DEF SessionInv
<1>2. PICK step \in {"finish transmission", "fail transmission"} :
        /\ TaskGoTo(r, "post", step)
        /\ posts' \in {posts, [posts EXCEPT ![r] = @ + 1]}
        /\ step = "finish transmission" => posts' = [posts EXCEPT ![r] = @ + 1]
  BY DEF Post
<1>3. /\ task[r] = "post" /\ task' = [task EXCEPT ![r] = step]
      /\ UNCHANGED <<upload, requestVars, crashes>>
      /\ UNCHANGED <<rows, files, taskCopy, todo, at, instances>>
  BY <1>2 DEF TaskGoTo, Post
<1>4. posts[r] <= crashes[r] /\ op[r] = "transmit" /\ taskCopy[r].report = Dossiers
  BY <1>1, <1>3 DEF TaskInv
<1>5. /\ posts' \in [Requests -> Nat]
      /\ \A q \in Requests : q # r => posts'[q] = posts[q]
      /\ posts[r] > 0 => posts'[r] > 0
      /\ step = "finish transmission" => posts'[r] > 0
      /\ posts'[r] <= 1 + crashes[r]
  BY <1>1, <1>2, <1>4, PostCounts
<1>6. task'[r] = step /\ op' = op
  BY <1>1, <1>3 DEF ImportTypeOK, requestVars
<1>7. TaskInv(r)'
  BY <1>3, <1>4, <1>5, <1>6 DEF TaskInv
<1>8. Moves(r, step)
  BY <1>1, <1>3, <1>5 DEF Moves, ImportTypeOK, requestVars
<1> QED BY <1>7, <1>8, TaskQuietKeeps

LEMMA AcknowledgeKeeps ==
  ASSUME SessionInv, NEW r \in Requests, Acknowledge(r)  PROVE  SessionInv'
<1>1. ImportTypeOK /\ TaskInv(r)
  BY DEF SessionInv
<1>2. /\ task[r] = "acknowledge" /\ task' = [task EXCEPT ![r] = "ended"]
      /\ UNCHANGED <<upload, requestVars, crashes>>
      /\ UNCHANGED <<rows, files, taskCopy, todo, at, posts, instances>>
  BY DEF TaskGoTo, Acknowledge
<1>3. TaskInv(r)'
  BY <1>1, <1>2 DEF TaskInv, requestVars, ImportTypeOK
<1>9. Moves(r, "ended")
  BY <1>1, <1>2 DEF Moves, ImportTypeOK, requestVars
<1> QED BY <1>3, <1>9, TaskQuietKeeps

LEMMA CrashKeeps ==
  ASSUME SessionInv, NEW r \in Requests, Crash(r)  PROVE  SessionInv'
<1>1. ImportTypeOK /\ TaskInv(r)
  BY DEF SessionInv
<1>2. /\ task[r] \notin {"none", "queued", "ended"} /\ task' = [task EXCEPT ![r] = "queued"]
      /\ crashes[r] < MaxCrashes /\ crashes' = [crashes EXCEPT ![r] = @ + 1]
      /\ at' = [at EXCEPT ![r] = NoDossier]
      /\ UNCHANGED <<rows, files, upload, requestVars, taskCopy, todo, posts, instances>>
  BY DEF Crash, Running
<1>3. /\ crashes' \in [Requests -> 0..MaxCrashes]
      /\ crashes'[r] = crashes[r] + 1 /\ crashes[r] \in Nat /\ posts[r] \in Nat
      /\ at' \in [Requests -> Dossiers \cup {NoDossier}]
      /\ \A q \in Requests : q # r => at'[q] = at[q] /\ crashes'[q] = crashes[q]
  <2>1. /\ crashes \in [Requests -> 0..MaxCrashes]
        /\ at \in [Requests -> Dossiers \cup {NoDossier}]
    BY <1>1 DEF ImportTypeOK
  <2>2. posts[r] \in Nat /\ crashes[r] \in Nat /\ crashes[r] + 1 \in 0..MaxCrashes
    BY <1>1, <1>2, Counters
  <2> QED BY <1>2, <2>1, <2>2
<1>4. TaskInv(r)'
  <2>1. task'[r] = "queued" /\ op' = op
    BY <1>1, <1>2 DEF ImportTypeOK, requestVars
  <2>2. posts[r] <= 1 + crashes[r] /\ (op[r] = "transmit" => taskCopy[r].report = Dossiers)
    BY <1>1, <1>2 DEF TaskInv
  <2>3. posts'[r] <= crashes'[r] /\ posts'[r] <= 1 + crashes'[r]
    BY <1>2, <1>3, <2>2
  <2> QED BY <1>2, <2>1, <2>2, <2>3 DEF TaskInv
<1>9. Moves(r, "queued")
  BY <1>1, <1>2, <1>3 DEF Moves, ImportTypeOK, requestVars
<1> QED BY <1>4, <1>9, TaskQuietKeeps

(* The steps of tasks that save.                                           *)
LEMMA SaveMessageKeeps ==
  ASSUME SessionInv, NEW r \in Requests, SaveMessage(r)  PROVE  SessionInv'
<1>1. ImportTypeOK /\ TaskInv(r)
  BY DEF SessionInv
<1> DEFINE row == [taskCopy[r] EXCEPT !.report = @ \cup {at[r]}]
<1>2. /\ task[r] = "save message" /\ TaskGoTo(r, task[r], "next") /\ TaskSave(r, row)
      /\ todo' = [todo EXCEPT ![r] = @ \ {at[r]}]
      /\ at' = [at EXCEPT ![r] = NoDossier]
      /\ UNCHANGED <<files, posts, instances>>
  BY DEF SaveMessage, TaskGoTo
<1>3. at[r] \in Dossiers /\ taskCopy[r] \in Row
  BY <1>1, <1>2 DEF TaskInv, ImportTypeOK
<1>4. /\ row \in Row
      /\ row.status = taskCopy[r].status
      /\ row.report = taskCopy[r].report \cup {at[r]}
  BY <1>3 DEF Row
<1> HIDE DEF row
<1>5. /\ todo' \in [Requests -> SUBSET Dossiers]
      /\ at' \in [Requests -> Dossiers \cup {NoDossier}]
      /\ todo'[r] = todo[r] \ {at[r]}
      /\ \A q \in Requests : q # r => todo'[q] = todo[q] /\ at'[q] = at[q]
  BY <1>1, <1>2 DEF ImportTypeOK
<1>6. /\ row.status = "in-progress" /\ Dossiers \subseteq row.report \cup todo'[r]
      /\ op[r] = "transmit" => row.report = Dossiers
  <2>1. /\ taskCopy[r].status = "in-progress"
        /\ Dossiers \subseteq taskCopy[r].report \cup todo[r]
        /\ op[r] = "transmit" => taskCopy[r].report = Dossiers
    BY <1>1, <1>2 DEF TaskInv
  <2> QED BY <1>3, <1>4, <1>5, <2>1
<1> QED BY <1>2, <1>4, <1>5, <1>6, TaskSaveKeeps DEF Imported

LEMMA UpdateSummaryKeeps ==
  ASSUME SessionInv, NEW r \in Requests, UpdateSummary(r)  PROVE  SessionInv'
<1>1. ImportTypeOK /\ TaskInv(r)
  BY DEF SessionInv
<1>2. /\ task[r] = "next" /\ todo[r] = {} /\ TaskGoTo(r, task[r], "finish")
      /\ TaskSave(r, taskCopy[r]) /\ UNCHANGED <<files, todo, at, posts, instances>>
  BY DEF UpdateSummary, TaskGoTo
<1>3. taskCopy[r] \in Row /\ taskCopy[r].report \subseteq Dossiers
  BY <1>1 DEF ImportTypeOK, Row
<1>4. taskCopy[r].report = Dossiers /\ taskCopy[r].status = "in-progress"
  BY <1>1, <1>2, <1>3 DEF TaskInv
<1> QED BY <1>1, <1>2, <1>3, <1>4, TaskSaveKeeps DEF ImportTypeOK

LEMMA LastSaveKeeps ==
  ASSUME SessionInv, NEW r \in Requests,
         FinishImport(r) \/ FailImport(r) \/ FinishTransmission(r) \/ FailTransmission(r)
  PROVE  SessionInv'
<1>1. ImportTypeOK /\ TaskInv(r)
  BY DEF SessionInv
<1>2. PICK st \in {"imported", "import-failed", "transmitted", "transmission-failed"} :
        /\ task[r] = CASE st = "imported" -> "finish"
                       [] st = "import-failed" -> "fail import"
                       [] st = "transmitted" -> "finish transmission"
                       [] st = "transmission-failed" -> "fail transmission"
        /\ TaskGoTo(r, task[r], "acknowledge")
        /\ TaskSave(r, WithStatus(taskCopy[r], st))
        /\ UNCHANGED <<files, todo, at, posts, instances>>
  BY DEF FinishImport, FailImport, FinishTransmission, FailTransmission, TaskGoTo
<1> DEFINE row == WithStatus(taskCopy[r], st)
<1>3. row \in Row /\ row.status = st /\ row.report = taskCopy[r].report
  <2>1. taskCopy[r] \in Row /\ st \in Status
    BY <1>1 DEF ImportTypeOK, Status
  <2> QED BY <2>1, Rows
<1>4. TaskSave(r, row)
  BY <1>2
<1>5. /\ st \in Imported => taskCopy[r].report = Dossiers
      /\ st = "transmitted" => posts[r] > 0
      /\ op[r] = "transmit" => taskCopy[r].report = Dossiers
      /\ task[r] \notin {"none", "queued"}
  BY <1>1, <1>2 DEF TaskInv, Imported
<1> HIDE DEF row
<1> QED BY <1>1, <1>2, <1>3, <1>4, <1>5, TaskSaveKeeps DEF ImportTypeOK

LEMMA SessionStep == ASSUME SessionInv, [ImportNext]_vars  PROVE  SessionInv'
<1>1. CASE UNCHANGED vars
  <2>1. ImportTypeOK'
    BY <1>1 DEF SessionInv, ImportTypeOK, vars, requestVars, taskVars
  <2>2. \A r \in Requests : RequestInv(r)' /\ TaskInv(r)'
    BY <1>1 DEF SessionInv, RequestInv, TaskInv, vars, requestVars, taskVars
  <2>3. \A s \in Sessions : RowInv(s)'
    BY <1>1 DEF SessionInv, RowInv, Posted, vars, requestVars, taskVars
  <2> QED BY <2>1, <2>2, <2>3 DEF SessionInv
<1>2. CASE ImportNext
  <2>1. ASSUME NEW r \in Requests, Task(r)  PROVE  SessionInv'
    BY <2>1, TakesKeep, ReadTagKeeps, CreateInstanceKeeps, ImportRaisesKeeps, PostKeeps,
       AcknowledgeKeeps, SaveMessageKeeps, UpdateSummaryKeeps, LastSaveKeeps
       DEF Task, ImportTask, TransmitTask
  <2> QED BY <1>2, <2>1, UploadKeeps, BeginKeeps, RequestStepKeeps, CrashKeeps
          DEF ImportNext
<1> QED BY <1>1, <1>2

LEMMA SessionInvariant == ImportSpec => []SessionInv
BY InitSessions, SessionStep, PTL DEF ImportSpec

-----------------------------------------------------------------------------
(* Copies of a dossier: those that exist, and those that a task which has  *)
(* found none is about to create.                                          *)
Copies(d) ==
  {r \in Requests : <<r, d>> \in instances \/ (task[r] = "create" /\ at[r] = d)}

BusyInv ==
  /\ Cardinality(Running) <= Workers
  /\ \A d \in Dossiers : Cardinality(Copies(d)) <= Workers

LEMMA Fewer ==
  ASSUME NEW T \in SUBSET Requests, NEW S \in SUBSET T, Cardinality(T) <= Workers
  PROVE  Cardinality(S) <= Workers
<1>1. IsFiniteSet(T) /\ Workers \in Nat
  BY ImportAssumption, FS_Subset
<1>2. IsFiniteSet(S) /\ Cardinality(S) <= Cardinality(T)
  BY <1>1, FS_Subset
<1>3. Cardinality(S) \in Nat /\ Cardinality(T) \in Nat
  BY <1>1, <1>2, FS_CardinalityType
<1> QED BY <1>1, <1>2, <1>3

LEMMA OneMore ==
  ASSUME NEW T \in SUBSET Requests, NEW r \in Requests, NEW S \in SUBSET (T \cup {r}),
         Cardinality(T) < Workers
  PROVE  Cardinality(S) <= Workers
<1>1. IsFiniteSet(T) /\ Workers \in Nat
  BY ImportAssumption, FS_Subset
<1>2. Cardinality(T) \in Nat
  BY <1>1, FS_CardinalityType
<1>3. Cardinality(T \cup {r}) = Cardinality(T) \/ Cardinality(T \cup {r}) = Cardinality(T) + 1
  BY <1>1, FS_AddElement
<1>4. Cardinality(T \cup {r}) <= Workers
  BY <1>1, <1>2, <1>3
<1> QED BY <1>4, Fewer

LEMMA InitBusy == ImportInit => BusyInv
<1> SUFFICES ASSUME ImportInit  PROVE  BusyInv
  OBVIOUS
<1>1. Running = {} /\ \A d \in Dossiers : Copies(d) = {}
  BY DEF ImportInit, Running, Copies
<1>2. Cardinality({}) = 0 /\ Workers \in Nat
  BY ImportAssumption, FS_EmptySet
<1>3. Cardinality({}) <= Workers
  BY <1>2
<1> QED BY <1>1, <1>3 DEF BusyInv

(* Only a free worker takes a task.                                        *)
LEMMA RunningStep ==
  ASSUME SessionInv, [ImportNext]_vars
  PROVE  \/ Running' \subseteq Running
         \/ /\ Cardinality(Running) < Workers
            /\ \E r \in Requests : Running' \subseteq Running \cup {r}
<1>0. ImportTypeOK
  BY DEF SessionInv
<1>1. CASE task' = task
  BY <1>1 DEF Running
<1>2. ASSUME NEW r \in Requests, Request(r)  PROVE  Running' \subseteq Running
  <2>1. task' = task \/ task' = [task EXCEPT ![r] = "queued"]
    BY <1>2 DEF Request, StartSave, StartEnqueue, StartSaveTaskId, Confirm, TransmitEnqueue,
         TransmitSave, UndoDeleteInstances, DeleteRow, SaveCopy, AsyncTask, taskVars
  <2> QED BY <1>0, <2>1 DEF Running, ImportTypeOK
<1>3. ASSUME NEW r \in Requests, TakeImport(r) \/ TakeTransmission(r)
      PROVE  /\ Cardinality(Running) < Workers
             /\ Running' \subseteq Running \cup {r}
  <2>1. \A q \in Requests : q # r => task'[q] = task[q]
    BY <1>0, <1>3 DEF TakeImport, TakeTransmission, TaskGoTo, ImportTypeOK
  <2> QED BY <1>3, <2>1 DEF Running, TakeImport, TakeTransmission
<1>4. ASSUME NEW r \in Requests, Task(r), ~TakeImport(r), ~TakeTransmission(r)
      PROVE  Running' \subseteq Running
  <2>1. \A q \in Requests : q # r => task'[q] = task[q]
    BY <1>0, <1>4 DEF Task, ImportTask, TransmitTask, ReadTag, CreateInstance, SaveMessage,
       UpdateSummary, FinishImport, ImportRaises, FailImport, Post, FinishTransmission,
       FailTransmission, Acknowledge, TaskGoTo, ImportTypeOK
  <2>2. task[r] \notin {"none", "queued", "ended"}
    BY <1>4 DEF Task, ImportTask, TransmitTask, ReadTag, CreateInstance, SaveMessage,
       UpdateSummary, FinishImport, ImportRaises, FailImport, Post, FinishTransmission,
       FailTransmission, Acknowledge, TaskGoTo
  <2> QED BY <2>1, <2>2 DEF Running
<1>5. ASSUME NEW r \in Requests, Crash(r)  PROVE  Running' \subseteq Running
  BY <1>0, <1>5 DEF Crash, Running, ImportTypeOK
<1>6. CASE UNCHANGED vars
  BY <1>1, <1>6 DEF vars, taskVars
<1>7. ASSUME NEW s \in Sessions, UploadStep(s)  PROVE  task' = task
  BY <1>7 DEF UploadStep, Create, MarkInProgress, ReadForValidation, Validate, Upload, taskVars
<1>8. ASSUME NEW r \in Requests, Begin(r)  PROVE  task' = task
  BY <1>8 DEF Begin, taskVars
<1> QED BY <1>1, <1>2, <1>3, <1>4, <1>5, <1>6, <1>7, <1>8 DEF ImportNext

(* A new copy of a dossier is one of a running task, and all the others    *)
(* are of running tasks, too.                                              *)
LEMMA CopiesStep ==
  ASSUME SessionInv, [ImportNext]_vars, NEW d \in Dossiers
  PROVE  Copies(d)' \subseteq Copies(d) \/ Copies(d)' \subseteq Running
<1>0. ImportTypeOK
  BY DEF SessionInv
<1>1. CASE UNCHANGED <<task, at>> /\ instances' \subseteq instances
  BY <1>1 DEF Copies
<1>2. ASSUME NEW r \in Requests, NEW step, step # "create",
             task' = [task EXCEPT ![r] = step], instances' = instances,
             \A q \in Requests : q # r => at'[q] = at[q]
      PROVE  Copies(d)' \subseteq Copies(d)
  <2>1. \A q \in Requests : task'[q] = "create" => q # r /\ task[q] = "create"
    BY <1>0, <1>2 DEF ImportTypeOK
  <2> QED BY <1>2, <2>1 DEF Copies
<1>3. ASSUME NEW r \in Requests, ReadTag(r)
      PROVE  Copies(d)' \subseteq Copies(d) \/ Copies(d)' \subseteq Running
  <2>1. PICK c \in todo[r] :
          /\ at' = [at EXCEPT ![r] = c]
          /\ TaskGoTo(r, "next", IF c \in Incomplete \/ Exists(c) THEN "save message"
                                 ELSE "create")
    BY <1>3 DEF ReadTag
  <2>2. /\ task[r] = "next" /\ instances' = instances
        /\ \A q \in Requests : q # r => task'[q] = task[q] /\ at'[q] = at[q]
        /\ at'[r] = c
        /\ task'[r] = IF c \in Incomplete \/ Exists(c) THEN "save message" ELSE "create"
    BY <1>0, <1>3, <2>1 DEF ReadTag, TaskGoTo, ImportTypeOK
  <2>3. CASE task'[r] = "create" /\ c = d
    <3>1. \A q \in Requests : <<q, d>> \notin instances
      BY <2>2, <2>3 DEF Exists
    <3>2. \A q \in Requests : task'[q] = "create" => q \in Running
      BY <2>2 DEF Running
    <3> QED BY <2>2, <3>1, <3>2 DEF Copies
  <2>4. CASE ~(task'[r] = "create" /\ c = d)
    BY <2>2, <2>4 DEF Copies
  <2> QED BY <2>3, <2>4
<1>4. ASSUME NEW r \in Requests, CreateInstance(r)  PROVE  Copies(d)' \subseteq Copies(d)
  <2>1. /\ task[r] = "create" /\ at' = at /\ instances' = instances \cup {<<r, at[r]>>}
        /\ \A q \in Requests : task'[q] = "create" => task[q] = "create"
    BY <1>0, <1>4 DEF CreateInstance, TaskGoTo, ImportTypeOK
  <2> QED BY <2>1 DEF Copies
<1>5. ASSUME NEW r \in Requests, Task(r), ~ReadTag(r), ~CreateInstance(r)
      PROVE  Copies(d)' \subseteq Copies(d)
  <2>1. /\ instances' = instances
        /\ \E step : step # "create" /\ task' = [task EXCEPT ![r] = step]
    BY <1>5 DEF Task, ImportTask, TransmitTask, TakeImport, SaveMessage, TakeTransmission,
       UpdateSummary, FinishImport, ImportRaises, FailImport, Post, FinishTransmission,
       FailTransmission, Acknowledge, TaskGoTo
  <2>2. \A q \in Requests : q # r => at'[q] = at[q]
    BY <1>0, <1>5 DEF Task, ImportTask, TransmitTask, TakeImport, SaveMessage, TakeTransmission,
       UpdateSummary, FinishImport, ImportRaises, FailImport, Post, FinishTransmission,
       FailTransmission, Acknowledge, ImportTypeOK
  <2> QED BY <1>2, <2>1, <2>2
<1>6. ASSUME NEW r \in Requests, Crash(r)  PROVE  Copies(d)' \subseteq Copies(d)
  <2>1. \A q \in Requests : q # r => at'[q] = at[q]
    BY <1>0, <1>6 DEF Crash, ImportTypeOK
  <2> QED BY <1>2, <1>6, <2>1 DEF Crash
<1>7. ASSUME NEW r \in Requests, Request(r)  PROVE  Copies(d)' \subseteq Copies(d)
  <2>1. CASE StartEnqueue(r) \/ TransmitEnqueue(r)
    BY <1>2, <2>1 DEF StartEnqueue, TransmitEnqueue, AsyncTask
  <2>2. CASE ~(StartEnqueue(r) \/ TransmitEnqueue(r))
    <3>1. UNCHANGED taskVars /\ instances' \subseteq instances
      BY <1>7, <2>2 DEF Request, StartSave, StartSaveTaskId, Confirm, TransmitSave,
           UndoDeleteInstances, DeleteRow, SaveCopy
    <3> QED BY <1>1, <3>1 DEF taskVars, Copies
  <2> QED BY <2>1, <2>2
<1>8. CASE UNCHANGED vars
  BY <1>1, <1>8 DEF vars, taskVars
<1>9. ASSUME NEW s \in Sessions, UploadStep(s)
      PROVE  UNCHANGED <<task, at>> /\ instances' = instances
  BY <1>9 DEF UploadStep, Create, MarkInProgress, ReadForValidation, Validate, Upload, taskVars
<1>10. ASSUME NEW r \in Requests, Begin(r)
       PROVE  UNCHANGED <<task, at>> /\ instances' = instances
  BY <1>10 DEF Begin, taskVars
<1> QED BY <1>1, <1>3, <1>4, <1>5, <1>6, <1>7, <1>8, <1>9, <1>10 DEF ImportNext

LEMMA BusyStep == ASSUME SessionInv, BusyInv, [ImportNext]_vars  PROVE  BusyInv'
<1>1. Running \subseteq Requests /\ \A d \in Dossiers : Copies(d) \subseteq Requests
  BY DEF Running, Copies
<1>2. Cardinality(Running') <= Workers
  BY <1>1, RunningStep, Fewer, OneMore DEF BusyInv
<1>3. ASSUME NEW d \in Dossiers  PROVE  Cardinality(Copies(d)') <= Workers
  BY <1>1, CopiesStep, Fewer DEF BusyInv
<1> QED BY <1>2, <1>3 DEF BusyInv

LEMMA BusyInvariant == ImportSpec => []BusyInv
BY InitBusy, BusyStep, SessionInvariant, PTL DEF ImportSpec

-----------------------------------------------------------------------------
(* The variables of sessions, requests and tasks keep their types.         *)
THEOREM ImportTypeCorrect == ImportSpec => []ImportTypeOK
<1>1. SessionInv => ImportTypeOK
  BY DEF SessionInv
<1> QED BY <1>1, SessionInvariant, PTL

(* However many requests and tasks write stale copies of rows over each    *)
(* other, and however often workers die: a session that counts as imported *)
(* has a message on every dossier.                                         *)
THEOREM ReportsComplete == ImportSpec => []ReportComplete
<1>1. SessionInv => ReportComplete
  BY DEF SessionInv, RowInv, ReportComplete
<1> QED BY <1>1, SessionInvariant, PTL

(* A session that counts as transmitted was handed over, and an archive at *)
(* most once more than its worker died.                                    *)
THEOREM TransmittedPosted == ImportSpec => []TransmittedWasPosted
<1>1. SessionInv => TransmittedWasPosted
  BY DEF SessionInv, RowInv, TaskInv, Posted, TransmittedWasPosted
<1> QED BY <1>1, SessionInvariant, PTL

(* However many requests start imports of the same dossier, and however    *)
(* often their tasks are repeated: there are no more copies of it than     *)
(* workers.                                                                *)
THEOREM CopiesBounded == ImportSpec => []AtMostOnePerWorker
<1>1. ASSUME BusyInv  PROVE  AtMostOnePerWorker
  <2> SUFFICES ASSUME NEW d \in Dossiers
               PROVE  Cardinality({r \in Requests : <<r, d>> \in instances}) <= Workers
    BY DEF AtMostOnePerWorker
  <2>1. {r \in Requests : <<r, d>> \in instances} \subseteq Copies(d)
    BY DEF Copies
  <2>2. Copies(d) \subseteq Requests
    BY DEF Copies
  <2> QED BY <1>1, <2>1, <2>2, Fewer DEF BusyInv
<1> QED BY <1>1, BusyInvariant, PTL

-----------------------------------------------------------------------------
(***************************************************************************)
(* What a single step does, request by request: everything below rests on  *)
(* these three forms rather than on the actions.                           *)
(***************************************************************************)

(* A task that has stored its result.  *)
Over(r) == task[r] \in {"acknowledge", "ended"}

(* Only request r, its task and its session are concerned.                 *)
Concerns(r) ==
  /\ upload' = upload
  /\ \A q \in Requests : q # r => Own(q)' = Own(q)
  /\ \A s \in Sessions : s # target'[r] => rows'[s] = rows[s]
  /\ overtaken \subseteq overtaken'

(* A request stores row in its session.                                    *)
Stores(r, row) == target[r] \in Sessions /\ rows'[target[r]] = row

(* The steps of a request after its first: from where to where, and what   *)
(* it stores.                                                              *)
Saving(r) ==
  \E st \in {"in-progress", "confirmed", "transmitting"} :
    /\ Stores(r, copy'[r])
    /\ copy'[r].status = st /\ copy'[r].report = copy[r].report
    /\ task'[r] = task[r] /\ taskCopy'[r] = taskCopy[r]
    /\ instances' = instances
    /\ Over(r) => r \in overtaken'
    /\ \/ st = "in-progress" /\ pc[r] = "save in-progress" /\ pc'[r] = "enqueue"
       \/ st = "in-progress" /\ pc[r] = "save task id" /\ pc'[r] = "done"
       \/ st = "confirmed" /\ pc[r] = "save confirmed" /\ pc'[r] = "done"
       \/ st = "transmitting" /\ pc[r] = "save transmitting" /\ pc'[r] = "done"

Enqueuing(r) ==
  /\ \/ pc[r] = "enqueue" /\ pc'[r] = "save task id"
     \/ pc[r] = "enqueue transmission" /\ pc'[r] = "save transmitting"
  /\ rows' = rows /\ instances' = instances
  /\ copy'[r] = copy[r]
  /\ task'[r] = "queued" /\ taskCopy'[r] = copy[r]

Deleting(r) ==
  /\ copy'[r] = copy[r] /\ task'[r] = task[r] /\ taskCopy'[r] = taskCopy[r]
  /\ \/ /\ pc[r] = "delete instances" /\ pc'[r] = "delete row"
        /\ rows' = rows
        /\ instances' = instances \ InstancesOf(target[r])
     \/ /\ pc[r] = "delete row" /\ pc'[r] = "done"
        /\ Stores(r, NoRow)
        /\ instances' = instances

Requesting(r) ==
  /\ op'[r] = op[r] /\ target'[r] = target[r]
  /\ crashes'[r] = crashes[r] /\ at'[r] = at[r]
  /\ Saving(r) \/ Enqueuing(r) \/ Deleting(r)

(* The dossiers of which a task reports rightly.                           *)
Known == Incomplete \cup {i[2] : i \in instances}

(* The steps of a task.                                                    *)
Reporting(r) ==
  /\ instances' = instances
  /\ Stores(r, taskCopy'[r])
  /\ \/ /\ taskCopy'[r].status = "in-progress"
        /\ \/ /\ task[r] = "save message" /\ task'[r] = "next"
              /\ taskCopy'[r].report = taskCopy[r].report \cup {at[r]}
           \/ /\ task[r] = "next" /\ task'[r] = "finish"
              /\ taskCopy'[r].report = taskCopy[r].report
     \/ /\ task'[r] = "acknowledge"
        /\ taskCopy'[r].report = taskCopy[r].report
        /\ \/ task[r] = "finish" /\ taskCopy'[r].status = "imported"
           \/ task[r] = "fail import" /\ taskCopy'[r].status = "import-failed"
           \/ task[r] = "finish transmission" /\ taskCopy'[r].status = "transmitted"
           \/ task[r] = "fail transmission" /\ taskCopy'[r].status = "transmission-failed"

Creating(r) ==
  /\ task[r] = "create" /\ task'[r] = "save message"
  /\ rows' = rows /\ taskCopy'[r] = taskCopy[r] /\ at'[r] = at[r]
  /\ instances' = instances \cup {<<r, at[r]>>}

Working(r) ==
  /\ rows' = rows /\ instances' = instances
  /\ taskCopy'[r].report \in {taskCopy[r].report, {}}
  /\ \/ task[r] = "queued" /\ op[r] = "start" /\ task'[r] \in {"next", "fail import"}
     \/ task[r] = "queued" /\ op[r] = "transmit" /\ task'[r] \in {"post", "fail transmission"}
     \/ /\ task[r] = "next" /\ task'[r] \in {"save message", "create"}
        /\ task'[r] = "save message" => at'[r] \in Known
     \/ task[r] \in {"next", "create"} /\ task'[r] = "fail import"
     \/ task[r] = "post" /\ task'[r] \in {"finish transmission", "fail transmission"}
     \/ task[r] = "acknowledge" /\ task'[r] = "ended"
     \/ /\ task[r] \notin {"none", "queued", "ended"} /\ task'[r] = "queued"
        /\ crashes'[r] = crashes[r] + 1

Tasking(r) ==
  /\ pc'[r] = pc[r] /\ op'[r] = op[r] /\ target'[r] = target[r] /\ copy'[r] = copy[r]
  /\ crashes'[r] = crashes[r] \/ task'[r] = "queued"
  /\ Reporting(r) \/ Creating(r) \/ Working(r)

LEMMA RequestForm ==
  ASSUME SessionInv, NEW r \in Requests, Request(r)
  PROVE  Concerns(r) /\ Requesting(r)
<1>1. ImportTypeOK /\ RequestInv(r)
  BY DEF SessionInv
<1>2. Concerns(r)
  <2>1. \A q \in Requests : q # r => Own(q)' = Own(q)
    BY <1>1 DEF Request, StartSave, StartEnqueue, StartSaveTaskId, Confirm, TransmitEnqueue,
       TransmitSave, UndoDeleteInstances, DeleteRow, GoTo, SaveCopy, AsyncTask, Save,
       taskVars, ImportTypeOK, Own
  <2>2. /\ upload' = upload /\ target' = target
        /\ overtaken \subseteq overtaken'
    BY DEF Request, StartSave, StartEnqueue, StartSaveTaskId, Confirm, TransmitEnqueue,
       TransmitSave, UndoDeleteInstances, DeleteRow, GoTo, SaveCopy, AsyncTask
  <2>3. rows' = rows \/ \E row : rows' = [rows EXCEPT ![target[r]] = row]
    BY DEF Request, StartSave, StartEnqueue, StartSaveTaskId, Confirm, TransmitEnqueue,
       TransmitSave, UndoDeleteInstances, DeleteRow, GoTo, SaveCopy, AsyncTask, Save
  <2>4. \A s \in Sessions : s # target[r] => rows'[s] = rows[s]
    BY <1>1, <2>3 DEF ImportTypeOK
  <2> QED BY <2>1, <2>2, <2>4 DEF Concerns
<1>3. /\ op'[r] = op[r] /\ target'[r] = target[r]
      /\ crashes'[r] = crashes[r] /\ at'[r] = at[r]
  BY DEF Request, StartSave, StartEnqueue, StartSaveTaskId, Confirm, TransmitEnqueue,
     TransmitSave, UndoDeleteInstances, DeleteRow, GoTo, SaveCopy, AsyncTask, taskVars
<1>4. ASSUME NEW st \in {"in-progress", "confirmed", "transmitting"},
             NEW from, NEW to, GoTo(r, from, to), SaveCopy(r, st),
             \/ st = "in-progress" /\ from = "save in-progress" /\ to = "enqueue"
             \/ st = "in-progress" /\ from = "save task id" /\ to = "done"
             \/ st = "confirmed" /\ from = "save confirmed" /\ to = "done"
             \/ st = "transmitting" /\ from = "save transmitting" /\ to = "done"
      PROVE  Saving(r)
  <2>1. pc[r] = from /\ pc'[r] = to /\ target[r] \in Sessions /\ copy[r] \in Row
    BY <1>1, <1>4 DEF GoTo, ImportTypeOK, RequestInv
  <2>2. copy' = [copy EXCEPT ![r] = WithStatus(copy[r], st)]
    BY <1>4 DEF SaveCopy, WithStatus
  <2>3. copy'[r] = WithStatus(copy[r], st)
    BY <1>1, <2>2 DEF ImportTypeOK
  <2>4. copy'[r].status = st /\ copy'[r].report = copy[r].report
    BY <2>1, <2>3, Rows DEF Status
  <2>5. Stores(r, copy'[r])
    BY <1>1, <1>4, <2>1, <2>3 DEF SaveCopy, Save, Stores, ImportTypeOK
  <2>6. /\ task'[r] = task[r] /\ taskCopy'[r] = taskCopy[r] /\ instances' = instances
        /\ Over(r) => r \in overtaken'
    BY <1>4 DEF SaveCopy, taskVars, Over
  <2> QED BY <1>4, <2>1, <2>4, <2>5, <2>6 DEF Saving
<1>5. CASE StartSave(r)
  BY <1>2, <1>3, <1>4, <1>5 DEF StartSave, Requesting
<1>6. CASE StartSaveTaskId(r)
  <2>1. copy[r].status = "in-progress"
    BY <1>1, <1>6 DEF StartSaveTaskId, GoTo, RequestInv
  <2> QED BY <1>2, <1>3, <1>4, <1>6, <2>1 DEF StartSaveTaskId, Requesting
<1>7. CASE Confirm(r)
  BY <1>2, <1>3, <1>4, <1>7 DEF Confirm, Requesting
<1>8. CASE TransmitSave(r)
  BY <1>2, <1>3, <1>4, <1>8 DEF TransmitSave, Requesting
<1>9. CASE StartEnqueue(r) \/ TransmitEnqueue(r)
  <2>1. Enqueuing(r)
    BY <1>1, <1>9 DEF StartEnqueue, TransmitEnqueue, GoTo, AsyncTask, Enqueuing, ImportTypeOK
  <2> QED BY <1>2, <1>3, <2>1 DEF Requesting
<1>10. CASE UndoDeleteInstances(r) \/ DeleteRow(r)
  <2>1. Deleting(r)
    BY <1>1, <1>10 DEF UndoDeleteInstances, DeleteRow, GoTo, Save, Deleting, Stores, taskVars,
       ImportTypeOK, RequestInv
  <2> QED BY <1>2, <1>3, <2>1 DEF Requesting
<1> QED BY <1>2, <1>5, <1>6, <1>7, <1>8, <1>9, <1>10 DEF Request

LEMMA TaskForm ==
  ASSUME SessionInv, NEW r \in Requests, Task(r) \/ Crash(r)
  PROVE  Concerns(r) /\ Tasking(r)
<1>1. ImportTypeOK /\ RequestInv(r) /\ TaskInv(r)
  BY DEF SessionInv
<1>2. /\ UNCHANGED <<upload, requestVars>>
      /\ \E step : task' = [task EXCEPT ![r] = step]
  BY DEF Task, ImportTask, TransmitTask, TakeImport, ReadTag, CreateInstance, SaveMessage,
     UpdateSummary, FinishImport, ImportRaises, FailImport, TakeTransmission, Post,
     FinishTransmission, FailTransmission, Acknowledge, Crash, TaskGoTo
<1>3. task[r] # "none" /\ target[r] \in Sessions
  <2>1. task[r] # "none"
    BY DEF Task, ImportTask, TransmitTask, TakeImport, ReadTag, CreateInstance, SaveMessage,
       UpdateSummary, FinishImport, ImportRaises, FailImport, TakeTransmission, Post,
       FinishTransmission, FailTransmission, Acknowledge, Crash, TaskGoTo, Running
  <2> QED BY <1>1, <2>1 DEF RequestInv
<1>4. Concerns(r)
  <2>1. \A q \in Requests : q # r => Own(q)' = Own(q)
    <3>1. \A q \in Requests : q # r => /\ taskCopy'[q] = taskCopy[q] /\ todo'[q] = todo[q]
                                       /\ at'[q] = at[q] /\ crashes'[q] = crashes[q]
                                       /\ posts'[q] = posts[q]
      BY <1>1 DEF Task, ImportTask, TransmitTask, TakeImport, ReadTag, CreateInstance,
         SaveMessage, UpdateSummary, FinishImport, ImportRaises, FailImport, TakeTransmission,
         Post, FinishTransmission, FailTransmission, Acknowledge, Crash, TaskGoTo, TaskSave,
         ImportTypeOK
    <3> QED BY <1>1, <1>2, <3>1 DEF Own, requestVars, ImportTypeOK
  <2>2. rows' = rows \/ \E row : rows' = [rows EXCEPT ![target[r]] = row]
    BY DEF Task, ImportTask, TransmitTask, TakeImport, ReadTag, CreateInstance, SaveMessage,
       UpdateSummary, FinishImport, ImportRaises, FailImport, TakeTransmission, Post,
       FinishTransmission, FailTransmission, Acknowledge, Crash, TaskSave, Save
  <2>3. \A s \in Sessions : s # target[r] => rows'[s] = rows[s]
    BY <1>1, <2>2 DEF ImportTypeOK
  <2> QED BY <1>2, <2>1, <2>3 DEF Concerns, requestVars
<1>5. /\ pc'[r] = pc[r] /\ op'[r] = op[r] /\ target'[r] = target[r] /\ copy'[r] = copy[r]
  BY <1>2 DEF requestVars
<1>6. ASSUME NEW row \in Row, TaskSave(r, row)
      PROVE  taskCopy'[r] = row /\ Stores(r, taskCopy'[r])
  BY <1>1, <1>3, <1>6 DEF TaskSave, Save, Stores, ImportTypeOK
<1>7. taskCopy[r] \in Row
  BY <1>1 DEF ImportTypeOK
<1>8. CASE SaveMessage(r)
  <2> DEFINE row == [taskCopy[r] EXCEPT !.report = @ \cup {at[r]}]
  <2>1. task[r] = "save message" /\ task'[r] = "next" /\ crashes' = crashes
        /\ instances' = instances /\ TaskSave(r, row)
    BY <1>1, <1>8 DEF SaveMessage, TaskGoTo, ImportTypeOK
  <2>2. taskCopy[r].status = "in-progress" /\ at[r] \in Dossiers
    BY <1>1, <2>1 DEF TaskInv
  <2>3. /\ row \in Row /\ row.status = "in-progress"
        /\ row.report = taskCopy[r].report \cup {at[r]}
    BY <1>7, <2>2 DEF Row
  <2> HIDE DEF row
  <2>4. Reporting(r)
    BY <1>6, <2>1, <2>3 DEF Reporting
  <2> QED BY <1>4, <1>5, <2>1, <2>4 DEF Tasking
<1>9. CASE UpdateSummary(r)
  <2>1. task[r] = "next" /\ task'[r] = "finish" /\ crashes' = crashes
        /\ instances' = instances /\ TaskSave(r, taskCopy[r])
    BY <1>1, <1>9 DEF UpdateSummary, TaskGoTo, ImportTypeOK
  <2>2. taskCopy[r].status = "in-progress"
    BY <1>1, <2>1 DEF TaskInv
  <2>3. Reporting(r)
    BY <1>6, <1>7, <2>1, <2>2 DEF Reporting
  <2> QED BY <1>4, <1>5, <2>1, <2>3 DEF Tasking
<1>10. CASE FinishImport(r) \/ FailImport(r) \/ FinishTransmission(r) \/ FailTransmission(r)
  <2>1. PICK st \in Status :
          /\ \/ task[r] = "finish" /\ st = "imported"
             \/ task[r] = "fail import" /\ st = "import-failed"
             \/ task[r] = "finish transmission" /\ st = "transmitted"
             \/ task[r] = "fail transmission" /\ st = "transmission-failed"
          /\ TaskGoTo(r, task[r], "acknowledge")
          /\ TaskSave(r, WithStatus(taskCopy[r], st))
          /\ instances' = instances
    <3>1. {"imported", "import-failed", "transmitted", "transmission-failed"} \subseteq Status
      BY DEF Status
    <3> QED BY <1>10, <3>1 DEF FinishImport, FailImport, FinishTransmission,
                               FailTransmission, TaskGoTo
  <2> DEFINE row == WithStatus(taskCopy[r], st)
  <2>2. row \in Row /\ row.status = st /\ row.report = taskCopy[r].report
    BY <1>7, Rows
  <2>3. TaskSave(r, row)
    BY <2>1
  <2>4. task'[r] = "acknowledge" /\ crashes' = crashes
    BY <1>1, <2>1 DEF TaskGoTo, ImportTypeOK
  <2> HIDE DEF row
  <2>5. Reporting(r)
    BY <1>6, <2>1, <2>2, <2>3, <2>4 DEF Reporting
  <2> QED BY <1>4, <1>5, <2>4, <2>5 DEF Tasking
<1>11. CASE CreateInstance(r)
  <2>1. crashes' = crashes /\ Creating(r)
    BY <1>1, <1>11 DEF CreateInstance, TaskGoTo, Creating, ImportTypeOK
  <2> QED BY <1>4, <1>5, <2>1 DEF Tasking
<1>12. CASE TakeImport(r)
  <2>1. /\ crashes' = crashes /\ rows' = rows /\ instances' = instances
        /\ task[r] = "queued" /\ op[r] = "start" /\ task'[r] \in {"next", "fail import"}
        /\ taskCopy'[r] = WithStatus(NewRow, "in-progress")
    BY <1>1, <1>12 DEF TakeImport, TaskGoTo, ImportTypeOK
  <2>2. taskCopy'[r].report = {}
    BY <2>1 DEF WithStatus, NewRow
  <2> QED BY <1>4, <1>5, <2>1, <2>2 DEF Tasking, Working
<1>13. CASE TakeTransmission(r)
  <2>1. /\ crashes' = crashes /\ rows' = rows /\ instances' = instances
        /\ task[r] = "queued" /\ op[r] = "transmit"
        /\ task'[r] \in {"post", "fail transmission"}
        /\ taskCopy'[r] = [taskCopy[r] EXCEPT !.status = "confirmed"]
    BY <1>1, <1>13 DEF TakeTransmission, TaskGoTo, ImportTypeOK
  <2>2. taskCopy'[r].report = taskCopy[r].report
    BY <1>7, <2>1 DEF Row
  <2> QED BY <1>4, <1>5, <2>1, <2>2 DEF Tasking, Working
<1>14. CASE ReadTag(r)
  <2>1. PICK d \in todo[r] :
          /\ at' = [at EXCEPT ![r] = d]
          /\ TaskGoTo(r, "next", IF d \in Incomplete \/ Exists(d) THEN "save message"
                                 ELSE "create")
    BY <1>14 DEF ReadTag
  <2>2. /\ crashes' = crashes /\ rows' = rows /\ instances' = instances
        /\ taskCopy' = taskCopy /\ task[r] = "next" /\ at'[r] = d
        /\ task'[r] = IF d \in Incomplete \/ Exists(d) THEN "save message" ELSE "create"
    BY <1>1, <1>14, <2>1 DEF ReadTag, TaskGoTo, ImportTypeOK
  <2> QED BY <1>4, <1>5, <2>2 DEF Tasking, Working, Exists, Known
<1>15. CASE ImportRaises(r) \/ Post(r) \/ Acknowledge(r)
  <2>1. crashes' = crashes /\ Working(r)
    BY <1>1, <1>15 DEF ImportRaises, Post, Acknowledge, TaskGoTo, Working, ImportTypeOK
  <2> QED BY <1>4, <1>5, <2>1 DEF Tasking
<1>16. CASE Crash(r)
  <2>1. task'[r] = "queued" /\ Working(r)
    BY <1>1, <1>16 DEF Crash, Running, Working, ImportTypeOK
  <2> QED BY <1>4, <1>5, <2>1 DEF Tasking
<1> QED BY <1>8, <1>9, <1>10, <1>11, <1>12, <1>13, <1>14, <1>15, <1>16
        DEF Task, ImportTask, TransmitTask
(* The first step of a request.                                            *)
Beginning(r) ==
  \E o \in Operations, s \in Sessions :
    /\ o = "start" => rows[s].status = "verified"
    /\ o = "confirm" => rows[s].status = "imported"
    /\ o = "transmit" => rows[s].status = "confirmed"
    /\ o = "undo" => rows[s].status \in Imported \cup {"failed"}
    /\ pc[r] = "idle" /\ pc'[r] = FirstStep(o)
    /\ op'[r] = o /\ target'[r] = s /\ copy'[r] = rows[s]
    /\ rows' = rows /\ instances' = instances /\ overtaken' = overtaken
    /\ task[r] = "none" /\ task'[r] = "none" /\ taskCopy'[r] = taskCopy[r]
    /\ crashes'[r] = crashes[r]

Uploading(s) ==
  /\ UNCHANGED <<requestVars, taskVars, instances>>
  /\ \A t \in Sessions : t # s => rows'[t] = rows[t] /\ upload'[t] = upload[t]
  /\ rows'[s].report \in {rows[s].report, {}}
  /\ \/ upload[s] = "unused" /\ upload'[s] = "created" /\ rows'[s].status = "new"
     \/ upload[s] = "created" /\ upload'[s] = "marked" /\ rows'[s].status = "in-progress"
     \/ upload[s] = "marked" /\ upload'[s] \in {"validating", "raised"} /\ rows' = rows
     \/ /\ upload[s] = "validating" /\ upload'[s] = "validated"
        /\ rows'[s].status \in {"verified", "failed"}

LEMMA BeginForm ==
  ASSUME SessionInv, NEW r \in Requests, Begin(r)
  PROVE  Concerns(r) /\ Beginning(r)
<1>1. ImportTypeOK /\ RequestInv(r)
  BY DEF SessionInv
<1>2. PICK o \in Operations, s \in Sessions, role \in {"municipality", "support"} :
        /\ Allowed(role, o, rows[s].status)
        /\ pc' = [pc EXCEPT ![r] = FirstStep(o)]
        /\ op' = [op EXCEPT ![r] = o]
        /\ target' = [target EXCEPT ![r] = s]
        /\ copy' = [copy EXCEPT ![r] = rows[s]]
  BY DEF Begin
<1>3. pc[r] = "idle" /\ UNCHANGED <<rows, files, upload, overtaken, taskVars, instances>>
  BY DEF Begin
<1>4. rows[s].status \in Status \cup {"absent"}
  BY <1>1 DEF ImportTypeOK, Row
<1>5. /\ o = "start" => rows[s].status = "verified"
      /\ o = "confirm" => rows[s].status = "imported"
      /\ o = "transmit" => rows[s].status = "confirmed"
      /\ o = "undo" => rows[s].status \in Imported \cup {"failed"}
  BY <1>2, <1>4 DEF Allowed, CanStart, CanConfirm, CanTransmit, CanUndo, Status, Imported
<1>6. task[r] = "none"
  BY <1>1, <1>3 DEF RequestInv
<1>7. Beginning(r)
  BY <1>1, <1>2, <1>3, <1>5, <1>6 DEF Beginning, ImportTypeOK, taskVars
<1>8. Concerns(r)
  BY <1>1, <1>2, <1>3 DEF Concerns, Own, ImportTypeOK, taskVars
<1> QED BY <1>7, <1>8

LEMMA UploadForm ==
  ASSUME SessionInv, NEW s \in Sessions, UploadStep(s)
  PROVE  Uploading(s)
<1>1. ImportTypeOK
  BY DEF SessionInv
<1>2. UNCHANGED <<requestVars, taskVars, instances>>
  BY DEF UploadStep, Create, MarkInProgress, ReadForValidation, Validate, Upload
<1>3. \A st \in {"new", "in-progress", "verified", "failed"} :
        /\ WithStatus(NewRow, st).status = st /\ WithStatus(NewRow, st).report = {}
        /\ NewRow.status = "new" /\ NewRow.report = {}
  BY DEF WithStatus, NewRow
<1> QED BY <1>1, <1>2, <1>3 DEF UploadStep, Create, MarkInProgress, ReadForValidation,
           Validate, Upload, Save, Uploading, ImportTypeOK

(* Every step is of one of these forms.                                    *)
LEMMA StepForm ==
  ASSUME SessionInv, ImportNext
  PROVE  \/ \E s \in Sessions : Uploading(s)
         \/ \E r \in Requests :
              Concerns(r) /\ (Beginning(r) \/ Requesting(r) \/ Tasking(r))
BY BeginForm, RequestForm, TaskForm, UploadForm DEF ImportNext

-----------------------------------------------------------------------------
(* What a request asks for fixes the steps it and its task take.           *)
RoleInv(r) ==
  /\ pc[r] = "idle" => op[r] = "none"
  /\ pc[r] \in {"save in-progress", "enqueue", "save task id"} => op[r] = "start"
  /\ pc[r] = "save confirmed" => op[r] = "confirm"
  /\ pc[r] \in {"enqueue transmission", "save transmitting"} => op[r] = "transmit"
  /\ pc[r] = "delete instances" => op[r] = "undo"
  /\ pc[r] = "delete row" => op[r] \in {"undo", "destroy"}
  /\ pc[r] \in {"save task id", "save transmitting"} => task[r] # "none"
  /\ task[r] \in {"next", "create", "save message", "finish", "fail import"} =>
       op[r] = "start"

RolesInv == \A r \in Requests : RoleInv(r)

LEMMA RolesStep == ASSUME SessionInv, RolesInv, [ImportNext]_vars  PROVE  RolesInv'
<1>1. CASE UNCHANGED vars
  BY <1>1 DEF RolesInv, RoleInv, vars, requestVars, taskVars
<1>2. ASSUME NEW s \in Sessions, Uploading(s)  PROVE  RolesInv'
  BY <1>2 DEF RolesInv, RoleInv, Uploading, requestVars, taskVars
<1>3. ASSUME NEW r \in Requests, Concerns(r), RoleInv(r)'  PROVE  RolesInv'
  <2>1. ASSUME NEW q \in Requests, q # r  PROVE  RoleInv(q)'
    <3>1. pc'[q] = pc[q] /\ op'[q] = op[q] /\ task'[q] = task[q]
      BY <1>3, <2>1 DEF Concerns, Own
    <3> QED BY <3>1 DEF RolesInv, RoleInv
  <2> QED BY <1>3, <2>1 DEF RolesInv
<1>4. ASSUME NEW r \in Requests, Beginning(r)  PROVE  RoleInv(r)'
  <2>1. PICK o \in Operations : pc'[r] = FirstStep(o) /\ op'[r] = o /\ task'[r] = "none"
    BY <1>4 DEF Beginning
  <2>2. o \in {"start", "confirm", "transmit", "undo", "destroy"}
    BY ImportAssumption
  <2>3. FirstStep(o) = IF o = "start" THEN "save in-progress"
                       ELSE IF o = "confirm" THEN "save confirmed"
                       ELSE IF o = "transmit" THEN "enqueue transmission"
                       ELSE IF o = "undo" THEN "delete instances" ELSE "delete row"
    BY <2>2 DEF FirstStep
  <2> QED BY <2>1, <2>2, <2>3 DEF RoleInv
<1>5. ASSUME NEW r \in Requests, Requesting(r)  PROVE  RoleInv(r)'
  <2>1. RoleInv(r) /\ RequestInv(r)
    BY DEF RolesInv, SessionInv
  <2> QED BY <1>5, <2>1 DEF RoleInv, RequestInv, Requesting, Saving, Enqueuing, Deleting
<1>6. ASSUME NEW r \in Requests, Tasking(r)  PROVE  RoleInv(r)'
  <2>1. RoleInv(r) /\ task[r] # "none" => task'[r] # "none"
    BY <1>6 DEF RolesInv, Tasking, Reporting, Creating, Working
  <2>2. RoleInv(r)
    BY DEF RolesInv
  <2> QED BY <1>6, <2>1, <2>2 DEF RoleInv, Tasking, Reporting, Creating, Working
<1> QED BY <1>1, <1>2, <1>3, <1>4, <1>5, <1>6, StepForm

LEMMA RolesInvariant == ImportSpec => []RolesInv
<1>1. ImportInit => RolesInv
  BY DEF ImportInit, RolesInv, RoleInv
<1> QED BY <1>1, RolesStep, SessionInvariant, PTL DEF ImportSpec

-----------------------------------------------------------------------------
(* What is reported exists: until an import is undone, in the rows and in  *)
(* every copy of them.                                                     *)
Undone == \E r \in Requests : op[r] = "undo" /\ pc[r] \in {"delete row", "done"}

BackedInv ==
  /\ \A s \in Sessions : rows[s].report \subseteq Known
  /\ \A r \in Requests : copy[r].report \subseteq Known /\ taskCopy[r].report \subseteq Known
  /\ \A r \in Requests :
       task[r] = "save message" => at[r] \in Known

LEMMA UndoneStays ==
  ASSUME SessionInv, RolesInv, Undone, ImportNext  PROVE  Undone'
<1>1. PICK q \in Requests : op[q] = "undo" /\ pc[q] \in {"delete row", "done"}
  BY DEF Undone
<1>2. op'[q] = "undo" /\ pc'[q] \in {"delete row", "done"}
  <2>1. ASSUME NEW s \in Sessions, Uploading(s)  PROVE  pc'[q] = pc[q] /\ op'[q] = op[q]
    BY <2>1 DEF Uploading, requestVars
  <2>2. ASSUME NEW r \in Requests, Concerns(r), q # r  PROVE  pc'[q] = pc[q] /\ op'[q] = op[q]
    BY <2>2 DEF Concerns, Own
  <2>3. ~Beginning(q)
    BY <1>1 DEF Beginning
  <2>4. ASSUME Requesting(q)  PROVE  op'[q] = op[q] /\ pc'[q] \in {"delete row", "done"}
    BY <1>1, <2>4 DEF Requesting, Saving, Enqueuing, Deleting
  <2>5. ASSUME Tasking(q)  PROVE  pc'[q] = pc[q] /\ op'[q] = op[q]
    BY <2>5 DEF Tasking
  <2> QED BY <1>1, <2>1, <2>2, <2>3, <2>4, <2>5, StepForm
<1> QED BY <1>2 DEF Undone

LEMMA BackedStep ==
  ASSUME SessionInv, RolesInv, BackedInv, ImportNext  PROVE  Undone' \/ BackedInv'
<1>1. ASSUME instances \subseteq instances'
      PROVE  Known \subseteq Known'
  BY <1>1 DEF Known
<1>2. {} \subseteq Known'
  OBVIOUS
<1>3. ASSUME NEW s \in Sessions, Uploading(s)  PROVE  BackedInv'
  <2>1. UNCHANGED <<copy, task, taskCopy, at, instances>>
    BY <1>3 DEF Uploading, requestVars, taskVars
  <2>2. \A t \in Sessions : rows'[t].report \in {rows[t].report, {}}
    BY <1>3 DEF Uploading
  <2>3. \A t \in Sessions : rows'[t].report \subseteq Known'
    BY <1>1, <1>2, <2>1, <2>2 DEF BackedInv
  <2> QED BY <1>1, <2>1, <2>3 DEF BackedInv
<1>4. ASSUME NEW r \in Requests, Concerns(r), instances \subseteq instances',
             \A s \in Sessions : s = target'[r] => rows'[s].report \subseteq Known',
             copy'[r].report \subseteq Known', taskCopy'[r].report \subseteq Known',
             task'[r] = "save message" => at'[r] \in Known'
      PROVE  BackedInv'
  <2>1. \A s \in Sessions : rows'[s].report \subseteq Known'
    BY <1>1, <1>4 DEF BackedInv, Concerns
  <2>2. ASSUME NEW q \in Requests, q # r
        PROVE  /\ copy'[q].report \subseteq Known' /\ taskCopy'[q].report \subseteq Known'
               /\ task'[q] = "save message" => at'[q] \in Known'
    <3>1. copy'[q] = copy[q] /\ taskCopy'[q] = taskCopy[q] /\ task'[q] = task[q] /\ at'[q] = at[q]
      BY <1>4, <2>2 DEF Concerns, Own
    <3> QED BY <1>1, <1>4, <3>1 DEF BackedInv
  <2> QED BY <1>4, <2>1, <2>2 DEF BackedInv
<1>5. ASSUME NEW r \in Requests, Concerns(r), Beginning(r)  PROVE  BackedInv'
  <2>1. PICK s \in Sessions :
          /\ target'[r] = s /\ copy'[r] = rows[s] /\ rows' = rows /\ instances' = instances
          /\ task'[r] = "none" /\ taskCopy'[r] = taskCopy[r]
    BY <1>5 DEF Beginning
  <2> QED BY <1>1, <1>4, <1>5, <2>1 DEF BackedInv
<1>6. ASSUME NEW r \in Requests, Concerns(r), Requesting(r)  PROVE  Undone' \/ BackedInv'
  <2>1. CASE Saving(r) \/ Enqueuing(r)
    <3>1. copy'[r].report = copy[r].report /\ instances' = instances
      BY <2>1 DEF Saving, Enqueuing
    <3>2. copy'[r].report \subseteq Known'
      BY <1>1, <3>1 DEF BackedInv
    <3>3. \A s \in Sessions : s = target'[r] => rows'[s].report \subseteq Known'
      BY <1>1, <1>6, <2>1, <3>1, <3>2
         DEF BackedInv, Saving, Enqueuing, Stores, Requesting
    <3>4. taskCopy'[r].report \subseteq Known'
      BY <1>1, <2>1, <3>1 DEF BackedInv, Saving, Enqueuing
    <3>5. task'[r] = "save message" => at'[r] \in Known'
      <4>1. at'[r] = at[r] /\ (task'[r] = task[r] \/ task'[r] = "queued")
        BY <1>6, <2>1 DEF Saving, Enqueuing, Requesting
      <4>2. task[r] = "save message" => at[r] \in Known
        BY DEF BackedInv
      <4> QED BY <1>1, <3>1, <4>1, <4>2
    <3> QED BY <1>4, <1>6, <3>1, <3>2, <3>3, <3>4, <3>5
  <2>2. CASE Deleting(r) /\ pc[r] = "delete instances"
    <3>1. op'[r] = "undo" /\ pc'[r] = "delete row"
      BY <1>6, <2>2 DEF RolesInv, RoleInv, Requesting, Deleting
    <3> QED BY <3>1 DEF Undone
  <2>3. CASE Deleting(r) /\ pc[r] = "delete row"
    <3>1. /\ instances' = instances /\ copy'[r] = copy[r] /\ taskCopy'[r] = taskCopy[r]
          /\ task'[r] = task[r] /\ at'[r] = at[r] /\ target'[r] = target[r]
          /\ rows'[target[r]] = NoRow
      BY <1>6, <2>3 DEF Requesting, Deleting, Stores
    <3>2. \A s \in Sessions : s = target'[r] => rows'[s].report \subseteq Known'
      BY <1>2, <3>1 DEF NoRow
    <3> QED BY <1>1, <1>4, <1>6, <3>1, <3>2 DEF BackedInv
  <2> QED BY <1>6, <2>1, <2>2, <2>3 DEF Requesting, Deleting
<1>7. ASSUME NEW r \in Requests, Concerns(r), Tasking(r)  PROVE  BackedInv'
  <2>1. instances \subseteq instances' /\ copy'[r] = copy[r] /\ target'[r] = target[r]
    BY <1>7 DEF Tasking, Reporting, Creating, Working
  <2>2. taskCopy'[r].report \subseteq Known'
    <3>1. CASE taskCopy'[r].report \in {taskCopy[r].report, {}}
      BY <1>1, <1>2, <2>1, <3>1 DEF BackedInv
    <3>2. CASE task[r] = "save message" /\ taskCopy'[r].report = taskCopy[r].report \cup {at[r]}
      <4>1. taskCopy[r].report \subseteq Known' /\ at[r] \in Known'
        BY <1>1, <2>1, <3>2 DEF BackedInv
      <4> QED BY <3>2, <4>1
    <3> QED BY <1>7, <3>1, <3>2 DEF Tasking, Reporting, Creating, Working
  <2>3. \A s \in Sessions : s = target'[r] => rows'[s].report \subseteq Known'
    BY <1>1, <1>7, <2>1, <2>2
       DEF BackedInv, Tasking, Reporting, Creating, Working, Stores
  <2>4. task'[r] = "save message" => at'[r] \in Known'
    <3>1. CASE Creating(r)
      <4>1. <<r, at[r]>> \in instances' /\ at'[r] = at[r] /\ <<r, at[r]>>[2] = at[r]
        BY <3>1 DEF Creating
      <4> QED BY <4>1 DEF Known
    <3>2. CASE Working(r)
      BY <2>1, <3>2 DEF Working, Known
    <3>3. CASE Reporting(r)
      BY <3>3 DEF Reporting
    <3> QED BY <1>7, <3>1, <3>2, <3>3 DEF Tasking
  <2> QED BY <1>1, <1>4, <1>7, <2>1, <2>2, <2>3, <2>4 DEF BackedInv
<1> QED BY <1>3, <1>5, <1>6, <1>7, StepForm

(* Tasks are repeated and stale copies saved over newer rows, and still    *)
(* every dossier a session reports exists, until an import is undone.      *)
THEOREM ReportedDossiersExist == ImportSpec => []ReportedExists
<1>1. ImportInit => BackedInv
  BY DEF ImportInit, BackedInv, NoRow
<1>2. ASSUME SessionInv, RolesInv, Undone \/ BackedInv, [ImportNext]_vars
      PROVE  (Undone \/ BackedInv)'
  <2>1. CASE UNCHANGED vars
    BY <1>2, <2>1 DEF Undone, BackedInv, Known, vars, requestVars, taskVars
  <2> QED BY <1>2, <2>1, UndoneStays, BackedStep
<1>3. Undone \/ BackedInv => ReportedExists
  BY DEF Undone, BackedInv, Known, Exists, ReportedExists
<1> QED BY <1>1, <1>2, <1>3, SessionInvariant, RolesInvariant, PTL DEF ImportSpec

-----------------------------------------------------------------------------
(* A request that has begun is about the same thing for ever, and the only *)
(* way back for a task that has stored its result is a crash.              *)
LEMMA GoesOn ==
  ASSUME SessionInv, RolesInv, ImportNext, NEW r \in Requests, op[r] # "none"
  PROVE  /\ op'[r] = op[r] /\ target'[r] = target[r]
         /\ crashes'[r] = 0 => crashes[r] = 0
         /\ Over(r) /\ crashes'[r] = 0 => Over(r)'
         /\ pc[r] = "done" => pc'[r] = "done"
<1>1. RequestInv(r) /\ crashes[r] \in Nat /\ RoleInv(r)
  BY Counters DEF SessionInv, RolesInv
<1>2. ASSUME NEW s \in Sessions, Uploading(s)
      PROVE  /\ pc'[r] = pc[r] /\ op'[r] = op[r] /\ target'[r] = target[r]
             /\ task'[r] = task[r] /\ crashes'[r] = crashes[r]
  BY <1>2 DEF Uploading, requestVars, taskVars
<1>3. ASSUME NEW q \in Requests, q # r, Concerns(q)
      PROVE  /\ pc'[r] = pc[r] /\ op'[r] = op[r] /\ target'[r] = target[r]
             /\ task'[r] = task[r] /\ crashes'[r] = crashes[r]
  BY <1>3 DEF Concerns, Own
<1>4. ~Beginning(r)
  BY <1>1 DEF RoleInv, Beginning
<1>5. ASSUME Requesting(r)
      PROVE  /\ op'[r] = op[r] /\ target'[r] = target[r] /\ crashes'[r] = crashes[r]
             /\ Over(r) => task'[r] = task[r]
             /\ pc[r] # "done"
  BY <1>1, <1>5 DEF Requesting, Saving, Enqueuing, Deleting, Over, RequestInv
<1>6. ASSUME Tasking(r)
      PROVE  /\ op'[r] = op[r] /\ target'[r] = target[r] /\ pc'[r] = pc[r]
             /\ crashes'[r] = crashes[r] \/ crashes'[r] = crashes[r] + 1
             /\ Over(r) => task'[r] = "ended" \/ crashes'[r] = crashes[r] + 1
  BY <1>6 DEF Tasking, Reporting, Creating, Working, Over
<1> QED BY <1>1, <1>2, <1>3, <1>4, <1>5, <1>6, StepForm DEF Over

-----------------------------------------------------------------------------
(* A session waits for somebody.                                           *)

(* Who is waited for goes on to be waited for, or stores a result.         *)
LEMMA WaitsStays ==
  ASSUME SessionInv, RolesInv, ImportNext, NEW s \in Sessions,
         NEW o \in {"start", "transmit"}, Waits(s, o)
  PROVE  Waits(s, o)' \/ rows'[s].status \notin {"in-progress", "transmitting"}
<1>1. PICK q \in Requests :
        /\ op[q] = o /\ target[q] = s
        /\ pc[q] = "enqueue" \/ Unfinished(q) \/ q \in overtaken
  BY DEF Waits
<1>2. op'[q] = o /\ target'[q] = s
  BY <1>1, GoesOn
<1>3. RequestInv(q) /\ RoleInv(q)
  BY DEF SessionInv, RolesInv
<1>4. ASSUME NEW u \in Sessions, Uploading(u)
      PROVE  pc'[q] = pc[q] /\ task'[q] = task[q] /\ overtaken' = overtaken
  BY <1>4 DEF Uploading, requestVars, taskVars
<1>5. ASSUME NEW r \in Requests, Concerns(r), q # r
      PROVE  pc'[q] = pc[q] /\ task'[q] = task[q] /\ overtaken \subseteq overtaken'
  BY <1>5 DEF Concerns, Own
<1>6. ~Beginning(q)
  BY <1>1, <1>3 DEF Beginning, RoleInv
<1>7. ASSUME Requesting(q)
      PROVE  \/ task'[q] = task[q] /\ pc[q] # "enqueue"
             \/ task'[q] = "queued"
  BY <1>7 DEF Requesting, Saving, Enqueuing, Deleting
<1>8. ASSUME Tasking(q), task'[q] \in {"acknowledge", "ended"}
      PROVE  \/ rows'[s].status \notin {"in-progress", "transmitting"}
             \/ ~Unfinished(q) /\ pc[q] # "enqueue"
  BY <1>1, <1>3, <1>8 DEF Tasking, Reporting, Creating, Working, Stores, Unfinished, RequestInv
<1>9. ASSUME Tasking(q)  PROVE  pc'[q] = pc[q] /\ task'[q] # "none"
  BY <1>9 DEF Tasking, Reporting, Creating, Working
<1>10. \/ rows'[s].status \notin {"in-progress", "transmitting"}
       \/ pc'[q] = "enqueue" \/ Unfinished(q)' \/ q \in overtaken'
  <2>1. CASE \E u \in Sessions : Uploading(u)
    BY <1>1, <1>4, <2>1 DEF Unfinished
  <2>2. CASE \E r \in Requests : Concerns(r) /\ q # r
    BY <1>1, <1>5, <2>2 DEF Unfinished
  <2>3. CASE Concerns(q) /\ Requesting(q)
    BY <1>1, <1>7, <2>3 DEF Unfinished, Concerns
  <2>4. CASE Concerns(q) /\ Tasking(q)
    BY <1>1, <1>8, <1>9, <2>4 DEF Unfinished, Concerns
  <2> QED BY <1>6, <2>1, <2>2, <2>3, <2>4, StepForm
<1> QED BY <1>2, <1>10 DEF Waits

LEMMA WaitingStep ==
  ASSUME SessionInv, RolesInv, WaitingHasReason, ImportNext  PROVE  WaitingHasReason'
<1> DEFINE Left(s) == upload[s] \in {"marked", "validating", "raised"}
<1>1. ASSUME NEW s \in Sessions, NEW r \in Requests, Stores(r, copy'[r]), Requesting(r),
             Saving(r), target[r] = s
      PROVE  /\ rows'[s].status = "in-progress" => Waits(s, "start")'
             /\ rows'[s].status = "transmitting" => Waits(s, "transmit")'
  <2>1. RoleInv(r)
    BY DEF RolesInv
  <2>2. op'[r] = op[r] /\ target'[r] = s /\ rows'[s].status = copy'[r].status
    BY <1>1 DEF Requesting, Stores
  <2>3. \/ rows'[s].status = "in-progress" /\ op[r] = "start"
        \/ rows'[s].status = "confirmed"
        \/ rows'[s].status = "transmitting" /\ op[r] = "transmit"
    BY <1>1, <2>1, <2>2 DEF Saving, RoleInv
  <2>4. \/ pc'[r] = "enqueue"
        \/ task'[r] # "none" /\ (Over(r) => r \in overtaken') /\ task'[r] = task[r]
        \/ rows'[s].status = "confirmed"
    BY <1>1, <2>1, <2>2 DEF Saving, RoleInv
  <2>5. pc'[r] = "enqueue" \/ Unfinished(r)' \/ r \in overtaken' \/ rows'[s].status = "confirmed"
    BY <2>4 DEF Unfinished, Over
  <2> QED BY <2>2, <2>3, <2>5 DEF Waits
<1>2. ASSUME NEW s \in Sessions, NEW r \in Requests, Tasking(r), Reporting(r), target[r] = s
      PROVE  /\ rows'[s].status = "in-progress" => Waits(s, "start")'
             /\ rows'[s].status # "transmitting"
  <2>1. RoleInv(r)
    BY DEF RolesInv
  <2>2. op'[r] = op[r] /\ target'[r] = s /\ rows'[s].status = taskCopy'[r].status
    BY <1>2 DEF Tasking, Reporting, Stores
  <2>3. \/ rows'[s].status = "in-progress" /\ op[r] = "start" /\ task'[r] \in {"next", "finish"}
        \/ rows'[s].status \notin {"in-progress", "transmitting"}
    BY <1>2, <2>1, <2>2 DEF Reporting, RoleInv
  <2> QED BY <2>2, <2>3 DEF Waits, Unfinished
<1>3. ASSUME NEW s \in Sessions, Uploading(s)
      PROVE  /\ rows'[s].status # "transmitting" \/ rows'[s] = rows[s]
             /\ \/ rows'[s].status # "in-progress"
                \/ Left(s)'
  BY <1>3 DEF Uploading
<1>4. ASSUME NEW s \in Sessions
      PROVE  \/ rows'[s] = rows[s] /\ (Left(s) => Left(s)')
             \/ /\ rows'[s].status = "in-progress" => Left(s)' \/ Waits(s, "start")'
                /\ rows'[s].status = "transmitting" => Waits(s, "transmit")'
  <2>1. CASE Uploading(s)
    BY <1>3, <2>1 DEF Uploading
  <2>2. ASSUME NEW u \in Sessions, Uploading(u), u # s
        PROVE  rows'[s] = rows[s] /\ upload'[s] = upload[s]
    BY <2>2 DEF Uploading
  <2>3. ASSUME NEW r \in Requests, Concerns(r), Beginning(r)
        PROVE  rows'[s] = rows[s] /\ upload'[s] = upload[s]
    BY <2>3 DEF Concerns, Beginning
  <2>4. ASSUME NEW r \in Requests, Concerns(r), Requesting(r) \/ Tasking(r), target[r] # s
        PROVE  rows'[s] = rows[s] /\ upload'[s] = upload[s]
    BY <2>4 DEF Concerns, Requesting, Tasking
  <2>5. ASSUME NEW r \in Requests, Concerns(r), Requesting(r), target[r] = s
        PROVE  \/ rows'[s] = rows[s] /\ upload'[s] = upload[s]
               \/ /\ rows'[s].status = "in-progress" => Waits(s, "start")'
                  /\ rows'[s].status = "transmitting" => Waits(s, "transmit")'
    <3>1. CASE Saving(r)
      BY <1>1, <2>5, <3>1 DEF Saving
    <3>2. CASE Enqueuing(r)
      BY <2>5, <3>2 DEF Enqueuing, Concerns
    <3>3. CASE Deleting(r)
      <4>1. rows'[s] = rows[s] \/ rows'[s] = NoRow
        BY <2>5, <3>3 DEF Deleting, Stores
      <4> QED BY <2>5, <4>1 DEF Concerns, NoRow
    <3> QED BY <2>5, <3>1, <3>2, <3>3 DEF Requesting
  <2>6. ASSUME NEW r \in Requests, Concerns(r), Tasking(r), target[r] = s
        PROVE  \/ rows'[s] = rows[s] /\ upload'[s] = upload[s]
               \/ /\ rows'[s].status = "in-progress" => Waits(s, "start")'
                  /\ rows'[s].status # "transmitting"
    <3>1. CASE Reporting(r)
      BY <1>2, <2>6, <3>1
    <3>2. CASE Creating(r) \/ Working(r)
      BY <2>6, <3>2 DEF Creating, Working, Concerns
    <3> QED BY <2>6, <3>1, <3>2 DEF Tasking
  <2> HIDE DEF Left
  <2>7. upload'[s] = upload[s] => (Left(s) => Left(s)')
    BY DEF Left
  <2> QED BY <2>1, <2>2, <2>3, <2>4, <2>5, <2>6, <2>7, StepForm
<1> SUFFICES ASSUME NEW s \in Sessions
             PROVE  /\ rows'[s].status = "in-progress" => Left(s)' \/ Waits(s, "start")'
                    /\ rows'[s].status = "transmitting" => Waits(s, "transmit")'
  BY DEF WaitingHasReason
<1>5. /\ rows[s].status = "in-progress" => Left(s) \/ Waits(s, "start")
      /\ rows[s].status = "transmitting" => Waits(s, "transmit")
  BY DEF WaitingHasReason
<1> HIDE DEF Left
<1> QED BY <1>4, <1>5, WaitsStays

(* A session that says an import or a transmission is under way has one,   *)
(* or was left by its upload, or was overwritten by a late save.           *)
THEOREM WaitingSessionsHaveReason == ImportSpec => []WaitingHasReason
<1>1. ImportInit => WaitingHasReason
  BY DEF ImportInit, WaitingHasReason, NoRow
<1>2. ASSUME SessionInv, RolesInv, WaitingHasReason, [ImportNext]_vars
      PROVE  WaitingHasReason'
  <2>1. CASE UNCHANGED vars
    BY <1>2, <2>1 DEF WaitingHasReason, Waits, Unfinished, vars, requestVars, taskVars
  <2> QED BY <1>2, <2>1, WaitingStep
<1> QED BY <1>1, <1>2, SessionInvariant, RolesInvariant, PTL DEF ImportSpec

-----------------------------------------------------------------------------
(* Where a session can be before its archive has been validated, who can   *)
(* have made its row disappear, and who imports dossiers.                  *)
Early == {"absent", "new", "in-progress"}

ProgressInv ==
  /\ \A s \in Sessions : rows[s].status \notin Early => upload[s] = "validated"
  /\ \A r \in Requests :
       op[r] \in {"start", "confirm", "transmit", "undo"} => upload[target[r]] = "validated"
  /\ \A s \in Sessions : rows[s].status = "absent" =>
       \/ upload[s] = "unused"
       \/ \E r \in Requests :
            op[r] \in {"undo", "destroy"} /\ target[r] = s /\ pc[r] = "done"
  /\ \A i \in instances : op[i[1]] = "start"

LEMMA ValidatedStays ==
  ASSUME SessionInv, ImportNext, NEW s \in Sessions, upload[s] = "validated"
  PROVE  upload'[s] = "validated"
BY StepForm DEF Uploading, Concerns

(* What requests and tasks may store in the row of a session.              *)
Storing(s) ==
  \/ rows'[s].status \in {"in-progress", "import-failed"}
     /\ \E r \in Requests : op[r] = "start" /\ target[r] = s
  \/ rows'[s].status = "imported"
     /\ \E r \in Requests : op[r] = "start" /\ target[r] = s
                            /\ op'[r] = "start" /\ target'[r] = s /\ Over(r)'
  \/ rows'[s].status \in {"confirmed", "transmitting", "transmitted", "transmission-failed"}
     /\ \E r \in Requests : op[r] \in {"confirm", "transmit"} /\ target[r] = s
  \/ rows'[s].status = "absent"
     /\ \E r \in Requests : op'[r] \in {"undo", "destroy"} /\ target'[r] = s
                            /\ pc'[r] = "done"

LEMMA StoredRows ==
  ASSUME SessionInv, RolesInv, ImportNext, NEW s \in Sessions
  PROVE  rows'[s] = rows[s] \/ Uploading(s) \/ Storing(s)
<1> SUFFICES ASSUME rows'[s] # rows[s], ~Uploading(s)  PROVE  Storing(s)
  OBVIOUS
<1>1. PICK r \in Requests : Concerns(r) /\ (Requesting(r) \/ Tasking(r))
  BY StepForm DEF Uploading, Beginning
<1>2. target'[r] = target[r] /\ op'[r] = op[r] /\ target[r] = s
  BY <1>1 DEF Requesting, Tasking, Concerns
<1>3. RoleInv(r) /\ TaskInv(r)
  BY DEF SessionInv, RolesInv
<1>4. CASE Requesting(r)
  <2>1. CASE Saving(r)
    BY <1>2, <1>3, <2>1 DEF Saving, Stores, RoleInv, Storing
  <2>2. CASE Deleting(r)
    <3>1. rows' # rows
      OBVIOUS
    <3>2. pc[r] = "delete row" /\ pc'[r] = "done" /\ Stores(r, NoRow)
      BY <2>2, <3>1 DEF Deleting
    <3>3. op'[r] \in {"undo", "destroy"} /\ target'[r] = s /\ rows'[s] = NoRow
      BY <1>2, <1>3, <3>2 DEF RoleInv, Stores
    <3>4. NoRow.status = "absent"
      BY DEF NoRow
    <3> QED BY <3>2, <3>3, <3>4 DEF Storing
  <2>3. ~Enqueuing(r)
    BY DEF Enqueuing
  <2> QED BY <1>4, <2>1, <2>2, <2>3 DEF Requesting
<1>5. CASE Tasking(r)
  <2>1. Reporting(r)
    BY <1>5 DEF Tasking, Creating, Working
  <2> QED BY <1>2, <1>3, <2>1 DEF Reporting, Stores, RoleInv, TaskInv, Over, Storing
<1> QED BY <1>1, <1>4, <1>5

(* What a step may do to what requests ask for.                            *)
LEMMA NewRequests ==
  ASSUME SessionInv, RolesInv, ImportNext, NEW r \in Requests, op'[r] # "none"
  PROVE  \/ op[r] # "none" /\ op'[r] = op[r] /\ target'[r] = target[r]
         \/ /\ Beginning(r) /\ rows' = rows /\ op[r] = "none"
            /\ \A s \in Sessions : ~Uploading(s)
<1>1. CASE op[r] # "none"
  BY <1>1, GoesOn
<1>2. CASE op[r] = "none"
  <2>1. ASSUME NEW s \in Sessions, Uploading(s)  PROVE  FALSE
    BY <1>2, <2>1 DEF Uploading, requestVars
  <2>2. ASSUME NEW q \in Requests, q # r, Concerns(q)  PROVE  FALSE
    BY <1>2, <2>2 DEF Concerns, Own
  <2>3. Beginning(r)
    BY <1>2, <2>1, <2>2, StepForm DEF Requesting, Tasking
  <2> QED BY <1>2, <2>1, <2>3 DEF Beginning
<1> QED BY <1>1, <1>2

LEMMA NewInstances ==
  ASSUME SessionInv, RolesInv, ImportNext, NEW i \in instances', i \notin instances
  PROVE  i[1] \in Requests /\ Creating(i[1]) /\ op[i[1]] = "start"
<1>1. PICK r \in Requests : Concerns(r) /\ Tasking(r) /\ Creating(r)
  BY StepForm DEF Uploading, Beginning, Requesting, Saving, Enqueuing, Deleting, Tasking,
     Reporting, Working
<1>2. i = <<r, at[r]>>
  BY <1>1 DEF Creating
<1>3. op[r] = "start"
  BY <1>1 DEF RolesInv, RoleInv, Creating
<1> QED BY <1>1, <1>2, <1>3

LEMMA ProgressStep ==
  ASSUME SessionInv, RolesInv, ProgressInv, ImportNext  PROVE  ProgressInv'
<1>0. ImportTypeOK /\ SessionInv'
  BY SessionStep DEF SessionInv
<1>1. ASSUME NEW s \in Sessions, rows'[s].status \notin Early
      PROVE  upload'[s] = "validated"
  <2>1. CASE rows'[s] = rows[s]
    BY <1>1, <2>1, ValidatedStays DEF ProgressInv
  <2>2. CASE Uploading(s)
    <3>1. upload'[s] = "validated" \/ rows' = rows
      BY <1>1, <2>2 DEF Uploading, Early
    <3> QED BY <2>1, <3>1
  <2>3. ASSUME NEW r \in Requests, op[r] \in {"start", "confirm", "transmit"}, target[r] = s
        PROVE  upload'[s] = "validated"
    BY <2>3, ValidatedStays DEF ProgressInv
  <2> QED BY <1>1, <2>1, <2>2, <2>3, StoredRows DEF Early, Storing
<1>2. ASSUME NEW r \in Requests, op'[r] \in {"start", "confirm", "transmit", "undo"}
      PROVE  upload'[target'[r]] = "validated"
  <2>1. CASE op[r] = op'[r] /\ target'[r] = target[r]
    <3>1. target[r] \in Sessions
      BY <1>2, <2>1 DEF SessionInv, RequestInv, RolesInv, RoleInv
    <3> QED BY <1>2, <2>1, <3>1, ValidatedStays DEF ProgressInv
  <2>2. CASE Beginning(r)
    <3>1. target'[r] \in Sessions /\ rows[target'[r]].status \notin Early
      BY <1>2, <2>2 DEF Beginning, Early, Imported
    <3> QED BY <3>1, ValidatedStays DEF ProgressInv
  <2> QED BY <1>2, <2>1, <2>2, NewRequests
<1>3. ASSUME NEW s \in Sessions, rows'[s].status = "absent"
      PROVE  \/ upload'[s] = "unused"
             \/ \E r \in Requests :
                  op'[r] \in {"undo", "destroy"} /\ target'[r] = s /\ pc'[r] = "done"
  <2>1. CASE rows'[s] = rows[s]
    <3>1. CASE upload[s] = "unused"
      <4>1. ~Uploading(s)
        BY <1>3, <3>1 DEF Uploading
      <4>2. upload'[s] = upload[s]
        BY <4>1, StepForm DEF Uploading, Concerns
      <4> QED BY <3>1, <4>2
    <3>2. CASE \E r \in Requests :
                 op[r] \in {"undo", "destroy"} /\ target[r] = s /\ pc[r] = "done"
      BY <3>2, GoesOn
    <3> QED BY <1>3, <2>1, <3>1, <3>2 DEF ProgressInv
  <2>2. CASE Uploading(s)
    BY <1>3, <2>1, <2>2 DEF Uploading
  <2> QED BY <1>3, <2>1, <2>2, StoredRows DEF Storing
<1>4. ASSUME NEW i \in instances'  PROVE  op'[i[1]] = "start"
  <2>1. i[1] \in Requests
    BY <1>0 DEF SessionInv, ImportTypeOK
  <2>2. op[i[1]] = "start"
    BY NewInstances DEF ProgressInv
  <2> QED BY <2>1, <2>2, GoesOn
<1> QED BY <1>1, <1>2, <1>3, <1>4 DEF ProgressInv

LEMMA ProgressInvariant == ImportSpec => []ProgressInv
<1>1. ImportInit => ProgressInv
  BY DEF ImportInit, ProgressInv, NoRow, Early
<1>2. ASSUME SessionInv, RolesInv, ProgressInv, [ImportNext]_vars  PROVE  ProgressInv'
  <2>1. CASE UNCHANGED vars
    BY <1>2, <2>1 DEF ProgressInv, vars, requestVars, taskVars
  <2> QED BY <1>2, <2>1, ProgressStep
<1> QED BY <1>1, <1>2, SessionInvariant, RolesInvariant, PTL DEF ImportSpec

-----------------------------------------------------------------------------
(* A session that nobody deleted or started twice, and whose import no     *)
(* crash interrupted.                                                      *)
Plain(s) ==
  /\ \A r \in Requests : target[r] = s => op[r] # "destroy"
  /\ \A q, r \in Requests :
       op[q] = "start" /\ target[q] = s /\ op[r] = "start" /\ target[r] = s => q = r
  /\ \A r \in Requests : op[r] = "start" /\ target[r] = s => crashes[r] = 0

ImportOver(s) == \E r \in Requests : op[r] = "start" /\ target[r] = s /\ Over(r)

(* An undo comes after the end of the import, and is thorough: neither is  *)
(* so when the import was started twice or repeated after a crash.         *)
PlainInv(s) ==
  /\ rows[s].status \in Imported => ImportOver(s)
  /\ \A r \in Requests : op[r] \in {"confirm", "transmit"} /\ target[r] = s => ImportOver(s)
  /\ \A q, r \in Requests :
       op[r] = "undo" /\ target[r] = s /\ op[q] = "start" /\ target[q] = s => Over(q)
  /\ \A r \in Requests :
       op[r] = "undo" /\ target[r] = s /\ pc[r] # "delete instances" => InstancesOf(s) = {}

(* A session that failed validation is never imported, and one that is     *)
(* undone is never validated again.                                        *)
OnceInv(s) ==
  /\ rows[s].status = "failed" =>
       \A r \in Requests : ~(op[r] = "start" /\ target[r] = s)
  /\ \A r \in Requests : op[r] = "undo" /\ target[r] = s => rows[s].status # "verified"

UndoInv == \A s \in Sessions : OnceInv(s) /\ (Plain(s) => PlainInv(s))

LEMMA PlainBefore ==
  ASSUME SessionInv, RolesInv, ImportNext, NEW s \in Sessions, Plain(s)'  PROVE  Plain(s)
<1>1. ASSUME NEW r \in Requests, op[r] # "none"
      PROVE  /\ op'[r] = op[r] /\ target'[r] = target[r]
             /\ crashes'[r] = 0 => crashes[r] = 0
  BY <1>1, GoesOn
<1> QED BY <1>1 DEF Plain

LEMMA OverStays ==
  ASSUME SessionInv, RolesInv, ImportNext, NEW s \in Sessions, Plain(s)',
         NEW r \in Requests, op[r] = "start", target[r] = s, Over(r)
  PROVE  op'[r] = "start" /\ target'[r] = s /\ Over(r)'
<1>1. op'[r] = "start" /\ target'[r] = s
  BY GoesOn
<1>2. crashes'[r] = 0
  BY <1>1 DEF Plain
<1> QED BY <1>1, <1>2, GoesOn

LEMMA ImportOverStays ==
  ASSUME SessionInv, RolesInv, ImportNext, NEW s \in Sessions, Plain(s)', ImportOver(s)
  PROVE  ImportOver(s)'
BY OverStays DEF ImportOver

LEMMA OnceStep ==
  ASSUME SessionInv, RolesInv, ProgressInv, ImportNext, NEW s \in Sessions, OnceInv(s)
  PROVE  OnceInv(s)'
<1>1. CASE Uploading(s) /\ rows' # rows
  <2>1. /\ upload[s] # "validated" /\ op' = op /\ target' = target
        /\ rows'[s].status \in {"failed", "verified"} => upload[s] = "validating"
    BY <1>1 DEF Uploading, requestVars
  <2>2. \A r \in Requests : op[r] \in {"start", "undo"} => target[r] # s
    BY <2>1 DEF ProgressInv
  <2> QED BY <2>1, <2>2 DEF OnceInv
<1>2. CASE rows'[s].status \notin {"failed", "verified"}
  BY <1>2 DEF OnceInv
<1>3. CASE rows'[s] = rows[s]
  <2>1. ASSUME NEW r \in Requests, target'[r] = s, op'[r] \in {"start", "undo"}
        PROVE  /\ op'[r] = "start" => rows[s].status # "failed"
               /\ op'[r] = "undo" => rows[s].status # "verified"
    <3>1. CASE op'[r] = op[r] /\ target'[r] = target[r]
      BY <2>1, <3>1 DEF OnceInv
    <3>2. CASE Beginning(r)
      BY <2>1, <3>2 DEF Beginning, Imported
    <3> QED BY <2>1, <3>1, <3>2, NewRequests
  <2> QED BY <1>3, <2>1 DEF OnceInv
<1> QED BY <1>1, <1>2, <1>3, StoredRows DEF Storing

LEMMA PlainStep ==
  ASSUME SessionInv, RolesInv, ProgressInv, ImportNext, NEW s \in Sessions,
         OnceInv(s), PlainInv(s), Plain(s), Plain(s)'
  PROVE  PlainInv(s)'
<1>0. ImportTypeOK /\ ImportTypeOK'
  BY SessionStep DEF SessionInv
<1>1. ASSUME rows'[s].status \in Imported  PROVE  ImportOver(s)'
  <2>1. CASE rows'[s] = rows[s]
    BY <1>1, <2>1, ImportOverStays DEF PlainInv
  <2>2. CASE Uploading(s)
    BY <1>1, <2>1, <2>2 DEF Uploading, Imported
  <2>3. CASE \E r \in Requests : op'[r] = "start" /\ target'[r] = s /\ Over(r)'
    BY <2>3 DEF ImportOver
  <2>4. CASE \E r \in Requests : op[r] \in {"confirm", "transmit"} /\ target[r] = s
    BY <2>4, ImportOverStays DEF PlainInv
  <2> QED BY <1>1, <2>1, <2>2, <2>3, <2>4, StoredRows DEF Imported, Storing
<1>2. ASSUME NEW r \in Requests, op'[r] \in {"confirm", "transmit"}, target'[r] = s
      PROVE  ImportOver(s)'
  <2>1. CASE op'[r] = op[r] /\ target'[r] = target[r]
    BY <1>2, <2>1, ImportOverStays DEF PlainInv
  <2>2. CASE Beginning(r)
    <3>1. rows[s].status \in Imported
      BY <1>2, <2>2 DEF Beginning, Imported
    <3> QED BY <3>1, ImportOverStays DEF PlainInv
  <2> QED BY <1>2, <2>1, <2>2, NewRequests
<1>3. ASSUME NEW q \in Requests, NEW r \in Requests,
             op'[r] = "undo", target'[r] = s, op'[q] = "start", target'[q] = s
      PROVE  Over(q)'
  <2>1. CASE op[r] = "undo" /\ target[r] = s /\ op[q] = "start" /\ target[q] = s
    BY <2>1, OverStays DEF PlainInv
  <2>2. CASE Beginning(r) /\ op[q] = "start" /\ target[q] = s
    <3>1. rows[s].status \in Imported \cup {"failed"}
      BY <1>3, <2>2 DEF Beginning
    <3>2. ImportOver(s)
      BY <2>2, <3>1 DEF OnceInv, PlainInv
    <3>3. Over(q)
      BY <2>2, <3>2 DEF ImportOver, Plain
    <3> QED BY <2>2, <3>3, OverStays
  <2>3. CASE Beginning(q) /\ op[r] = "undo" /\ target[r] = s
    BY <1>3, <2>3 DEF Beginning, OnceInv
  <2>4. ~(Beginning(q) /\ Beginning(r) /\ q # r)
    <3>1. ASSUME Beginning(q), Beginning(r), q # r  PROVE  FALSE
      <4>1. op[q] = "none" /\ op[r] = "none" /\ op'[q] # "none" /\ op'[r] # "none"
        BY <1>3, <3>1 DEF Beginning, RolesInv, RoleInv
      <4>2. \A s_1 \in Sessions : ~Uploading(s_1)
        BY <4>1, NewRequests
      <4>3. PICK p \in Requests : Concerns(p)
        BY <4>2, StepForm
      <4> QED BY <3>1, <4>1, <4>3 DEF Concerns, Own
    <3> QED BY <3>1
  <2> QED BY <1>3, <2>1, <2>2, <2>3, <2>4, NewRequests
<1>4. ASSUME NEW r \in Requests, op'[r] = "undo", target'[r] = s, pc'[r] # "delete instances"
      PROVE  InstancesOf(s)' = {}
  <2>1. op[r] = "undo" /\ target[r] = s
    <3>1. ASSUME Beginning(r)  PROVE  FALSE
      BY <1>4, <3>1 DEF Beginning, FirstStep
    <3> QED BY <1>4, <3>1, NewRequests
  <2>2. ASSUME NEW i \in instances', target'[i[1]] = s
        PROVE  i \in InstancesOf(s)
    <3>1. i[1] \in Requests
      BY <1>0 DEF ImportTypeOK
    <3>2. CASE i \in instances
      <4>1. op[i[1]] = "start"
        BY <3>2 DEF ProgressInv
      <4>2. target'[i[1]] = target[i[1]]
        BY <3>1, <4>1, GoesOn
      <4> QED BY <2>2, <3>2, <4>2 DEF InstancesOf
    <3>3. CASE i \notin instances
      <4>1. Creating(i[1]) /\ op[i[1]] = "start"
        BY <3>3, NewInstances
      <4>2. target[i[1]] = s
        BY <2>2, <3>1, <4>1, GoesOn
      <4>3. Over(i[1])
        BY <2>1, <3>1, <4>1, <4>2 DEF PlainInv
      <4> QED BY <4>1, <4>3 DEF Creating, Over
    <3> QED BY <3>2, <3>3
  <2>3. CASE pc[r] # "delete instances"
    BY <2>1, <2>2, <2>3 DEF PlainInv, InstancesOf
  <2>4. CASE pc[r] = "delete instances"
    <3>1. instances' = instances \ InstancesOf(s)
      <4>1. ASSUME NEW u \in Sessions, Uploading(u)  PROVE  pc' = pc
        BY <4>1 DEF Uploading, requestVars
      <4>2. ASSUME NEW q \in Requests, q # r, Concerns(q)  PROVE  pc'[r] = pc[r]
        BY <4>2 DEF Concerns, Own
      <4>3. Requesting(r)
        BY <1>4, <2>4, <4>1, <4>2, StepForm DEF Beginning, Tasking
      <4> QED BY <2>1, <2>4, <4>3 DEF Requesting, Saving, Enqueuing, Deleting
    <3> QED BY <2>2, <3>1 DEF InstancesOf
  <2> QED BY <2>3, <2>4
<1> QED BY <1>1, <1>2, <1>3, <1>4 DEF PlainInv

LEMMA UndoInvariant == ImportSpec => []UndoInv
<1>1. ASSUME ImportInit  PROVE  UndoInv
  BY <1>1 DEF ImportInit, UndoInv, OnceInv, PlainInv, NoRow, Imported
<1>2. ASSUME SessionInv, RolesInv, ProgressInv, UndoInv, [ImportNext]_vars  PROVE  UndoInv'
  <2>1. CASE UNCHANGED vars
    <3>1. UNCHANGED <<rows, op, target, pc, task, crashes, instances>>
      BY <2>1 DEF vars, requestVars, taskVars
    <3>2. ASSUME NEW s \in Sessions  PROVE  OnceInv(s)'
      BY <1>2, <3>1 DEF UndoInv, OnceInv
    <3>3. ASSUME NEW s \in Sessions, Plain(s)'  PROVE  PlainInv(s)'
      <4>1. Plain(s)
        BY <3>1, <3>3 DEF Plain
      <4>2. PlainInv(s)
        BY <1>2, <4>1 DEF UndoInv
      <4>3. ImportOver(s)' = ImportOver(s) /\ InstancesOf(s)' = InstancesOf(s)
        BY <3>1 DEF ImportOver, Over, InstancesOf
      <4> QED BY <3>1, <4>2, <4>3 DEF PlainInv, Over
    <3> QED BY <3>2, <3>3 DEF UndoInv
  <2>2. CASE ImportNext
    BY <1>2, <2>2, OnceStep, PlainBefore, PlainStep DEF UndoInv
  <2> QED BY <1>2, <2>1, <2>2
<1> QED BY <1>1, <1>2, SessionInvariant, RolesInvariant, ProgressInvariant, PTL
        DEF ImportSpec

(* Whatever requests overlap and however often the archive is imported:    *)
(* dossiers are left without a session by a deletion, a second start or a  *)
(* crash only.                                                             *)
THEOREM OrphanedDossiersHaveReason == ImportSpec => []OrphansHaveReason
<1>1. ASSUME SessionInv, ProgressInv, UndoInv  PROVE  OrphansHaveReason
  <2> SUFFICES ASSUME NEW s \in Sessions, rows[s].status = "absent", InstancesOf(s) # {},
                      \A r \in Requests : target[r] = s => op[r] # "destroy",
                      \A q, r \in Requests :
                        ~(/\ q # r /\ {op[q], op[r]} = {"start"}
                          /\ {target[q], target[r]} = {s}),
                      \A r \in Requests :
                        ~(op[r] = "start" /\ target[r] = s /\ crashes[r] > 0)
               PROVE  FALSE
    BY DEF OrphansHaveReason
  <2>1. \A r \in Requests : op[r] = "start" /\ target[r] = s => crashes[r] = 0
    BY <1>1, Counters DEF SessionInv
  <2>2. \A q, r \in Requests :
          op[q] = "start" /\ target[q] = s /\ op[r] = "start" /\ target[r] = s => q = r
    OBVIOUS
  <2>3. PlainInv(s)
    BY <1>1, <2>1, <2>2 DEF UndoInv, Plain
  <2>4. PICK i \in instances : target[i[1]] = s
    BY DEF InstancesOf
  <2>5. upload[s] = "validated"
    <3>1. i[1] \in Requests /\ op[i[1]] = "start"
      BY <1>1, <2>4 DEF SessionInv, ImportTypeOK, ProgressInv
    <3> QED BY <1>1, <2>4, <3>1 DEF ProgressInv
  <2>6. PICK r \in Requests : op[r] \in {"undo", "destroy"} /\ target[r] = s /\ pc[r] = "done"
    BY <1>1, <2>5 DEF ProgressInv
  <2> QED BY <2>3, <2>6 DEF PlainInv
<1> QED BY <1>1, SessionInvariant, ProgressInvariant, UndoInvariant, PTL

=============================================================================

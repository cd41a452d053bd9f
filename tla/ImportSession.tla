---------------------------- MODULE ImportSession ----------------------------
(***************************************************************************)
(* Import sessions: an archive of dossiers is uploaded and validated, then *)
(* imported by a background task, confirmed by the municipality, and the   *)
(* archive is transmitted to the production system; an import can be       *)
(* undone and a session deleted.                                           *)
(*                                                                         *)
(* Neither the requests nor the tasks run in a transaction of their own    *)
(* (only the import of one dossier does), so every read and every save is  *)
(* a step.  A save writes the whole row from the copy the request or the   *)
(* task holds, and inserts the row again when it is gone.  The task queue  *)
(* is django-q, outside the repository: it hands a task the pickled copy   *)
(* of the row, and delivers it again when its worker died before the task  *)
(* was acknowledged ("timeout" and "retry" of Q_CLUSTER).                  *)
(*                                                                         *)
(* A request enqueues at most one task, which bears the request's name.    *)
(***************************************************************************)
EXTENDS Integers, FiniteSets

CONSTANTS
  Sessions,    \* uploads
  Dossiers,    \* identifiers of dossiers in the archives, of one service
  Incomplete,  \* dossiers whose row in the archive lacks a required value
  Requests,    \* bound: the requests that change sessions
  Operations,  \* bound: what these requests may ask for
  Workers,     \* worker processes of the task queue
  MaxCrashes,  \* bound: how often the worker of one task dies
  Prod,        \* whether this is the production system
  NoSession,   \* target of a request that was not made
  NoDossier    \* what a task works at between two dossiers

ASSUME ImportAssumption ==
  /\ Incomplete \subseteq Dossiers
  /\ Operations \subseteq {"start", "confirm", "transmit", "undo", "destroy"}
  /\ IsFiniteSet(Requests)
  /\ Workers \in Nat \ {0}
  /\ MaxCrashes \in Nat
  /\ Prod \in BOOLEAN
  /\ NoSession \notin Sessions
  /\ NoDossier \notin Dossiers

VARIABLES
  rows,       \* the stored sessions; status "absent" where there is no row
  files,      \* sessions whose archive is stored
  upload,     \* where the upload of each session stands
  pc,         \* next step of each request
  op,         \* what it asks for
  target,     \* the session it is about
  copy,       \* its copy of the row
  overtaken,  \* requests whose last save came after the last save of their task
  task,       \* next step of each task
  taskCopy,   \* its copy of the row
  todo,       \* dossiers of the archive it has not come to
  at,         \* the dossier it is working at
  crashes,    \* how often its worker died
  posts,      \* how often it handed the archive to the production system
  instances   \* imported dossiers, as <<task, dossier>>

requestVars == <<pc, op, target, copy, overtaken>>
taskVars == <<task, taskCopy, todo, at, crashes, posts>>
vars == <<rows, files, upload, requestVars, taskVars, instances>>

Status == {"new", "in-progress", "verified", "failed", "imported",
           "import-failed", "confirmed", "transmitting", "transmitted",
           "transmission-failed"}

(* "report" stands for messages["import"]["details"].                      *)
Row == [status : Status \cup {"absent"}, report : SUBSET Dossiers]

NoRow == [status |-> "absent", report |-> {}]
NewRow == [status |-> "new", report |-> {}]

Imported == {"imported", "confirmed", "transmitting", "transmitted",
             "transmission-failed"}

WithStatus(row, st) == [row EXCEPT !.status = st]

Running == {r \in Requests : task[r] \notin {"none", "queued", "ended"}}

(* A task whose final save is still to come.                               *)
Unfinished(r) == task[r] \notin {"none", "acknowledge", "ended"}

InstancesOf(s) == {i \in instances : target[i[1]] = s}
Exists(d) == \E i \in instances : i[2] = d

ImportInit ==
  /\ rows = [s \in Sessions |-> NoRow]
  /\ files = {}
  /\ upload = [s \in Sessions |-> "unused"]
  /\ pc = [r \in Requests |-> "idle"]
  /\ op = [r \in Requests |-> "none"]
  /\ target = [r \in Requests |-> NoSession]
  /\ copy = [r \in Requests |-> NoRow]
  /\ overtaken = {}
  /\ task = [r \in Requests |-> "none"]
  /\ taskCopy = [r \in Requests |-> NoRow]
  /\ todo = [r \in Requests |-> {}]
  /\ at = [r \in Requests |-> NoDossier]
  /\ crashes = [r \in Requests |-> 0]
  /\ posts = [r \in Requests |-> 0]
  /\ instances = {}

(* Model.save() of a copy of the row.                                      *)
Save(s, row) == rows' = [rows EXCEPT ![s] = row]

-----------------------------------------------------------------------------
(* Upload: the row is inserted, saved as being in progress, then validated *)
(* from a fresh read.                                                      *)

Upload(s, from, to) ==
  /\ upload[s] = from
  /\ upload' = [upload EXCEPT ![s] = to]
  /\ UNCHANGED <<requestVars, taskVars, instances>>

Create(s) ==
  /\ Upload(s, "unused", "created")
  /\ Save(s, NewRow)
  /\ files' = files \cup {s}

MarkInProgress(s) ==
  /\ Upload(s, "created", "marked")
  /\ Save(s, WithStatus(NewRow, "in-progress"))
  /\ UNCHANGED files

(* Reading the archive fails when the row is gone, and raises an error     *)
(* when the sheet lacks a column.  The row is left as it is.               *)
ReadForValidation(s) ==
  /\ \/ /\ rows[s].status # "absent"
        /\ Upload(s, "marked", "validating")
     \/ Upload(s, "marked", "raised")
  /\ UNCHANGED <<rows, files>>

Validate(s) ==
  /\ Upload(s, "validating", "validated")
  /\ \/ Save(s, WithStatus(NewRow, "verified")) /\ UNCHANGED files
     \/ Save(s, WithStatus(NewRow, "failed")) /\ files' = files \ {s}

-----------------------------------------------------------------------------
(* Requests.  Each reads the row, checks its guard, and goes on with the   *)
(* copy it read.                                                           *)

Visible(role) == role = "municipality" => ~Prod

CanStart(st) == st = "verified"
CanConfirm(st) == st = "imported"
CanTransmit(role, st) == role = "support" /\ ~Prod /\ st = "confirmed"
CanUndo(role, st) ==
  /\ ~Prod
  /\ \/ role = "municipality" /\ st = "imported"
     \/ /\ role = "support"
        /\ st \notin {"new", "verified", "import-failed", "in-progress"}

(* Nothing restricts the deletion of a session.                            *)
Allowed(role, o, st) ==
  /\ st # "absent"
  /\ Visible(role)
  /\ \/ o = "start" /\ CanStart(st)
     \/ o = "confirm" /\ CanConfirm(st)
     \/ o = "transmit" /\ CanTransmit(role, st)
     \/ o = "undo" /\ CanUndo(role, st)
     \/ o = "destroy"

FirstStep(o) ==
  CASE o = "start"    -> "save in-progress"
    [] o = "confirm"  -> "save confirmed"
    [] o = "transmit" -> "enqueue transmission"
    [] o = "undo"     -> "delete instances"
    [] o = "destroy"  -> "delete row"

Begin(r) ==
  /\ pc[r] = "idle"
  /\ \E o \in Operations, s \in Sessions, role \in {"municipality", "support"} :
       /\ Allowed(role, o, rows[s].status)
       /\ pc' = [pc EXCEPT ![r] = FirstStep(o)]
       /\ op' = [op EXCEPT ![r] = o]
       /\ target' = [target EXCEPT ![r] = s]
       /\ copy' = [copy EXCEPT ![r] = rows[s]]
  /\ UNCHANGED <<rows, files, upload, overtaken, taskVars, instances>>

GoTo(r, from, to) ==
  /\ pc[r] = from
  /\ pc' = [pc EXCEPT ![r] = to]
  /\ UNCHANGED <<upload, op, target>>

SaveCopy(r, st) ==
  /\ copy' = [copy EXCEPT ![r].status = st]
  /\ Save(target[r], WithStatus(copy[r], st))
  /\ overtaken' = IF task[r] \in {"acknowledge", "ended"}
                  THEN overtaken \cup {r} ELSE overtaken
  /\ UNCHANGED <<files, taskVars, instances>>

(* async_task: the task gets the copy as it is at this moment.             *)
AsyncTask(r) ==
  /\ task' = [task EXCEPT ![r] = "queued"]
  /\ taskCopy' = [taskCopy EXCEPT ![r] = copy[r]]
  /\ UNCHANGED <<rows, files, copy, overtaken, todo, at, crashes, posts, instances>>

StartSave(r) == GoTo(r, "save in-progress", "enqueue") /\ SaveCopy(r, "in-progress")
StartEnqueue(r) == GoTo(r, "enqueue", "save task id") /\ AsyncTask(r)
StartSaveTaskId(r) == GoTo(r, "save task id", "done") /\ SaveCopy(r, copy[r].status)

Confirm(r) == GoTo(r, "save confirmed", "done") /\ SaveCopy(r, "confirmed")

TransmitEnqueue(r) ==
  GoTo(r, "enqueue transmission", "save transmitting") /\ AsyncTask(r)
TransmitSave(r) == GoTo(r, "save transmitting", "done") /\ SaveCopy(r, "transmitting")

(* The dossiers are left where they are.                                   *)
UndoDeleteInstancesMutant(r) ==
  /\ GoTo(r, "delete instances", "delete row")
  /\ UNCHANGED <<rows, files, copy, overtaken, taskVars, instances>>

UndoDeleteInstances(r) ==
  /\ GoTo(r, "delete instances", "delete row")
  /\ instances' = instances \ InstancesOf(target[r])
  /\ UNCHANGED <<rows, files, copy, overtaken, taskVars>>

DeleteRow(r) ==
  /\ GoTo(r, "delete row", "done")
  /\ Save(target[r], NoRow)
  /\ files' = files \ {target[r]}
  /\ UNCHANGED <<copy, overtaken, taskVars, instances>>

(* The steps a request takes once it has been let in.                      *)
Request(r) ==
  \/ StartSave(r) \/ StartEnqueue(r) \/ StartSaveTaskId(r)
  \/ Confirm(r)
  \/ TransmitEnqueue(r) \/ TransmitSave(r)
  \/ UndoDeleteInstances(r) \/ DeleteRow(r)

-----------------------------------------------------------------------------
(* Tasks.                                                                  *)

TaskGoTo(r, from, to) ==
  /\ task[r] = from
  /\ task' = [task EXCEPT ![r] = to]
  /\ UNCHANGED <<upload, requestVars, crashes>>

TaskSave(r, row) ==
  /\ taskCopy' = [taskCopy EXCEPT ![r] = row]
  /\ Save(target[r], row)

(* A worker takes a task and opens the archive; a missing archive raises   *)
(* an error.  What the task wrote to its copy before a crash is forgotten. *)
TakeImport(r) ==
  /\ op[r] = "start"
  /\ Cardinality(Running) < Workers
  /\ TaskGoTo(r, "queued", IF target[r] \in files THEN "next" ELSE "fail import")
  /\ taskCopy' = [taskCopy EXCEPT ![r] = WithStatus(NewRow, "in-progress")]
  /\ todo' = [todo EXCEPT ![r] = Dossiers]
  /\ UNCHANGED <<rows, files, at, posts, instances>>

(* Looks for no tag.                                                       *)
ReadTagMutant(r) ==
  /\ \E d \in todo[r] :
       /\ at' = [at EXCEPT ![r] = d]
       /\ TaskGoTo(r, "next", IF d \in Incomplete THEN "save message" ELSE "create")
  /\ UNCHANGED <<rows, files, taskCopy, todo, posts, instances>>

(* The writer looks for the tag of the next dossier, in a transaction of   *)
(* its own that goes on to create the dossier when there is none.          *)
ReadTag(r) ==
  /\ \E d \in todo[r] :
       /\ at' = [at EXCEPT ![r] = d]
       /\ TaskGoTo(r, "next",
            IF d \in Incomplete \/ Exists(d) THEN "save message" ELSE "create")
  /\ UNCHANGED <<rows, files, taskCopy, todo, posts, instances>>

CreateInstance(r) ==
  /\ TaskGoTo(r, "create", "save message")
  /\ instances' = instances \cup {<<r, at[r]>>}
  /\ UNCHANGED <<rows, files, taskCopy, todo, at, posts>>

SaveMessage(r) ==
  /\ TaskGoTo(r, "save message", "next")
  /\ TaskSave(r, [taskCopy[r] EXCEPT !.report = @ \cup {at[r]}])
  /\ todo' = [todo EXCEPT ![r] = @ \ {at[r]}]
  /\ at' = [at EXCEPT ![r] = NoDossier]
  /\ UNCHANGED <<files, posts, instances>>

(* Leaves the loop before the last dossier.                                *)
UpdateSummaryMutant(r) ==
  /\ TaskGoTo(r, "next", "finish")
  /\ TaskSave(r, taskCopy[r])
  /\ UNCHANGED <<files, todo, at, posts, instances>>

UpdateSummary(r) ==
  /\ todo[r] = {}
  /\ TaskGoTo(r, "next", "finish")
  /\ TaskSave(r, taskCopy[r])
  /\ UNCHANGED <<files, todo, at, posts, instances>>

(* A status the model does not know.                                       *)
FinishImportMutant(r) ==
  /\ TaskGoTo(r, "finish", "acknowledge")
  /\ TaskSave(r, WithStatus(taskCopy[r], "completed"))
  /\ UNCHANGED <<files, todo, at, posts, instances>>

FinishImport(r) ==
  /\ TaskGoTo(r, "finish", "acknowledge")
  /\ TaskSave(r, WithStatus(taskCopy[r], "imported"))
  /\ UNCHANGED <<files, todo, at, posts, instances>>

(* An error in one dossier is caught, and the loop goes on.                *)
ImportRaisesMutant(r) ==
  /\ TaskGoTo(r, "create", "save message")
  /\ UNCHANGED <<rows, files, taskCopy, todo, at, posts, instances>>

(* A dossier that cannot be loaded or written raises an error, which rolls *)
(* back its own transaction only.                                          *)
ImportRaises(r) ==
  /\ \/ todo[r] # {} /\ TaskGoTo(r, "next", "fail import")
     \/ TaskGoTo(r, "create", "fail import")
  /\ at' = [at EXCEPT ![r] = NoDossier]
  /\ UNCHANGED <<rows, files, taskCopy, todo, posts, instances>>

(* The error is logged only.                                               *)
FailImportMutant(r) ==
  /\ TaskGoTo(r, "fail import", "acknowledge")
  /\ TaskSave(r, taskCopy[r])
  /\ UNCHANGED <<files, todo, at, posts, instances>>

FailImport(r) ==
  /\ TaskGoTo(r, "fail import", "acknowledge")
  /\ TaskSave(r, WithStatus(taskCopy[r], "import-failed"))
  /\ UNCHANGED <<files, todo, at, posts, instances>>

TakeTransmission(r) ==
  /\ op[r] = "transmit"
  /\ Cardinality(Running) < Workers
  /\ TaskGoTo(r, "queued", IF target[r] \in files THEN "post" ELSE "fail transmission")
  /\ taskCopy' = [taskCopy EXCEPT ![r].status = "confirmed"]
  /\ UNCHANGED <<rows, files, todo, at, posts, instances>>

(* The production system takes the archive and says so, or takes it and    *)
(* its answer is lost, or refuses it.                                      *)
Post(r) ==
  /\ \/ /\ TaskGoTo(r, "post", "finish transmission")
        /\ posts' = [posts EXCEPT ![r] = @ + 1]
     \/ /\ TaskGoTo(r, "post", "fail transmission")
        /\ posts' \in {posts, [posts EXCEPT ![r] = @ + 1]}
  /\ UNCHANGED <<rows, files, taskCopy, todo, at, instances>>

FinishTransmission(r) ==
  /\ TaskGoTo(r, "finish transmission", "acknowledge")
  /\ TaskSave(r, WithStatus(taskCopy[r], "transmitted"))
  /\ UNCHANGED <<files, todo, at, posts, instances>>

(* The answer of the production system is not looked at.                   *)
FailTransmissionMutant(r) ==
  /\ TaskGoTo(r, "fail transmission", "acknowledge")
  /\ TaskSave(r, WithStatus(taskCopy[r], "transmitted"))
  /\ UNCHANGED <<files, todo, at, posts, instances>>

FailTransmission(r) ==
  /\ TaskGoTo(r, "fail transmission", "acknowledge")
  /\ TaskSave(r, WithStatus(taskCopy[r], "transmission-failed"))
  /\ UNCHANGED <<files, todo, at, posts, instances>>

(* The task stays in the queue.                                            *)
AcknowledgeMutant(r) ==
  /\ TaskGoTo(r, "acknowledge", "queued")
  /\ UNCHANGED <<rows, files, taskCopy, todo, at, posts, instances>>

Acknowledge(r) ==
  /\ TaskGoTo(r, "acknowledge", "ended")
  /\ UNCHANGED <<rows, files, taskCopy, todo, at, posts, instances>>

(* The worker is killed; the transaction it was in is rolled back.         *)
Crash(r) ==
  /\ r \in Running
  /\ crashes[r] < MaxCrashes
  /\ crashes' = [crashes EXCEPT ![r] = @ + 1]
  /\ task' = [task EXCEPT ![r] = "queued"]
  /\ at' = [at EXCEPT ![r] = NoDossier]
  /\ UNCHANGED <<rows, files, upload, requestVars, taskCopy, todo, posts, instances>>

ImportTask(r) ==
  \/ TakeImport(r) \/ ReadTag(r) \/ CreateInstance(r) \/ SaveMessage(r)
  \/ UpdateSummary(r) \/ FinishImport(r) \/ ImportRaises(r) \/ FailImport(r)

TransmitTask(r) ==
  \/ TakeTransmission(r) \/ Post(r)
  \/ FinishTransmission(r) \/ FailTransmission(r)

Task(r) == ImportTask(r) \/ TransmitTask(r) \/ Acknowledge(r)

-----------------------------------------------------------------------------
UploadStep(s) ==
  Create(s) \/ MarkInProgress(s) \/ ReadForValidation(s) \/ Validate(s)

ImportNext ==
  \/ \E s \in Sessions : UploadStep(s)
  \/ \E r \in Requests : Begin(r) \/ Request(r) \/ Task(r) \/ Crash(r)

ImportSpec == ImportInit /\ [][ImportNext]_vars

(* The web server finishes the requests it has let in, and the workers go  *)
(* on with the tasks in the queue.  Nobody has to make a request, and no   *)
(* worker has to die.                                                      *)
ImportFairness ==
  \A r \in Requests : WF_vars(Request(r)) /\ WF_vars(Task(r))

FairImportSpec == ImportSpec /\ ImportFairness

-----------------------------------------------------------------------------
(* Where each variable can be.                                             *)
ImportTypeOK ==
  /\ rows \in [Sessions -> Row]
  /\ files \subseteq Sessions
  /\ upload \in [Sessions -> {"unused", "created", "marked", "validating",
                              "validated", "raised"}]
  /\ pc \in [Requests -> {"idle", "save in-progress", "enqueue", "save task id",
                          "save confirmed", "enqueue transmission",
                          "save transmitting", "delete instances",
                          "delete row", "done"}]
  /\ op \in [Requests -> Operations \cup {"none"}]
  /\ target \in [Requests -> Sessions \cup {NoSession}]
  /\ copy \in [Requests -> Row]
  /\ overtaken \subseteq Requests
  /\ task \in [Requests -> {"none", "queued", "next", "create", "save message",
                            "finish", "fail import", "post",
                            "finish transmission", "fail transmission",
                            "acknowledge", "ended"}]
  /\ taskCopy \in [Requests -> Row]
  /\ todo \in [Requests -> SUBSET Dossiers]
  /\ at \in [Requests -> Dossiers \cup {NoDossier}]
  /\ crashes \in [Requests -> 0..MaxCrashes]
  /\ posts \in [Requests -> Nat]
  /\ instances \subseteq Requests \X Dossiers

(* Stale copies are written over newer rows, tasks are repeated, undone    *)
(* rows come back, yet a session that counts as imported (or is further)   *)
(* has a message on every dossier of its archive.                          *)
ReportComplete ==
  \A s \in Sessions : rows[s].status \in Imported => rows[s].report = Dossiers

(* A task that was repeated after a crash reports the dossiers it had      *)
(* already created as duplicates.  Still, what a session reports exists,   *)
(* unless an import was undone.                                            *)
ReportedExists ==
  \A s \in Sessions : \A d \in rows[s].report \ Incomplete :
    \/ Exists(d)
    \/ \E r \in Requests : op[r] = "undo" /\ pc[r] \in {"delete row", "done"}

(* Two tasks (of two uploads of the same archive, or of two requests that  *)
(* started the same session) that look for the tag of a dossier at the     *)
(* same time both create the dossier.  Its copies are as many as the       *)
(* workers at most, however often it is imported.                          *)
AtMostOnePerWorker ==
  \A d \in Dossiers : Cardinality({r \in Requests : <<r, d>> \in instances}) <= Workers

(* A session that says an import or a transmission is under way says so    *)
(* because one is, or because its upload was left unvalidated, or because  *)
(* the request that started the task saved its copy of the row when the    *)
(* task had already written its result: there is no other way to a         *)
(* session that waits for ever.                                            *)
Waits(s, o) ==
  \E r \in Requests :
    /\ op[r] = o /\ target[r] = s
    /\ pc[r] = "enqueue" \/ Unfinished(r) \/ r \in overtaken

WaitingHasReason ==
  \A s \in Sessions :
    /\ rows[s].status = "in-progress" =>
         upload[s] \in {"marked", "validating", "raised"} \/ Waits(s, "start")
    /\ rows[s].status = "transmitting" => Waits(s, "transmit")

(* Dossiers without a session, which nobody can undo any more, are left by *)
(* a deleted session, by a session started twice, or by a crash.           *)
OrphansHaveReason ==
  \A s \in Sessions :
    rows[s].status = "absent" /\ InstancesOf(s) # {} =>
      \/ \E r \in Requests : op[r] = "destroy" /\ target[r] = s
      \/ \E q, r \in Requests :
           q # r /\ {op[q], op[r]} = {"start"} /\ {target[q], target[r]} = {s}
      \/ \E r \in Requests : op[r] = "start" /\ target[r] = s /\ crashes[r] > 0

(* The production system gets an archive once for each time its task was   *)
(* delivered, and a session is transmitted only when it got one.           *)
TransmittedWasPosted ==
  /\ \A r \in Requests : posts[r] <= 1 + crashes[r]
  /\ \A s \in Sessions : rows[s].status = "transmitted" =>
       \E r \in Requests : target[r] = s /\ posts[r] > 0

(* Every task that was enqueued is carried out and acknowledged.           *)
EveryTaskEnds ==
  \A r \in Requests : (task[r] = "queued") ~> (task[r] = "ended")

(* A session whose import was started shows the result at some time, even  *)
(* if a late save of the request hides it again.                           *)
ImportShowsResult ==
  \A r \in Requests : \A s \in Sessions :
    (op[r] = "start" /\ target[r] = s /\ task[r] = "queued")
      ~> (rows[s].status \in {"imported", "import-failed"})

=============================================================================

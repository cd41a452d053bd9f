# Formal models of eBau

eBau is the building permit platform of several Swiss cantons: a Django
application (`src/django/camac`) on top of the workflow library Caluma, with
Ember frontends. This directory holds TLA+ models of what the application itself
decides: how a dossier moves from its submission to its end in Bern and in Schwyz,
how the services that have a say in it are consulted, how dossiers are imported,
numbered and linked, and how the software of the municipalities learns of them.
TLC checks the models on small instances, TLAPS proves theorems about them for
every value of the constants.

    tlc -workers 2 -config Distribution.cfg MCDistribution
    tlapm DossierProofs.tla

## The system

A *dossier* is three things that different code keeps in step:

- an `Instance` row (`camac/instance/models.py`) with a state and a previous
  state, and `InstanceService` rows that name the services involved and which of
  them are active, i.e. responsible;
- a Caluma *case* with *work items*, which the workflow definition
  (`kt_bern/config/caluma_workflow.json`) creates one after the other;
- below the work item `distribution`, a child case with the inquiries to other
  services (`caluma_distribution.json`), and below each inquiry a child case
  with the answer.

Requests come from the portal (REST and GraphQL) and, as eCH-0211 messages, from
the software of the municipalities. Event handlers
(`camac/caluma/extensions/events`) run inside Caluma's API calls and call the API
again; that is how the parts interact. Only imports run in the background, in a
task queue.

### Components

| Component | State | Operations | Interacts by | Correct when | Here |
|---|---|---|---|---|---|
| Distribution (`events/distribution.py`, `dynamic_groups.py`) | child case, its items, inquiries and answers | invite, send, answer, withdraw, check, end, cancel, suspend, resume, reassign | handlers of the distribution's items; started, skipped and cancelled with the item `distribution` | invitations stay possible but unique; item and answer agree; nothing open at the end; answers are never lost | `Distribution`, `Consultation` |
| Procedure of a dossier (`events/decision.py`, `ebau_number.py`, `simple_workflow.py`, `general.py`, `dynamic_tasks.py`, `kt_bern` workflows) | case, work items, addressees | complete an item, skip, cancel | flows create items; handlers set the instance state | exactly one way on, consistent with the state | `Dossier` |
| Requests on a dossier (`instance/serializers.py`) | instance state, case | submit, report, finalize, archive, change responsibility, resubmit a copy | set the state and complete items | state and items agree; closed stays closed | `Dossier` |
| Responsible services (`instance/models.py`, `caluma/api.py`) | `InstanceService` rows, addressees of open items | activate, deactivate, reassign | read by every handler that addresses an item | at most one active service of each kind; open items are addressed to it | `Dossier` |
| Buttons of the Bernese authorities (`kt_bern/config/core.json`) | none of their own | reject, correct, take up again, report and finalize for the applicant, close without reports | lists of actions on the case, its items and the state, one call each | what has been reached is kept | `Dossier` |
| eCH-0211 send handlers (`ech0211/send_handlers.py`) | none of their own | ruling, closing, change of responsibility, task, report | the same API, in several transactions | as above, and they may fail half way | `Dossier` |
| Creation and import of a dossier (`instance/domain_logic.py`, `dossier_import/config`) | a new dossier | create, fast-forward | skip items without their handlers | an imported dossier is where a submitted one would be | `ImportedDossier` |
| Import sessions (`dossier_import/views.py`, `domain_logic.py`) | row and archive of a session, imported dossiers | upload, start, confirm, transmit, undo, delete; two background tasks | a task queue; each side saves its own copy of the row | an imported session reports on every dossier; every import shows its result; nothing is imported again and again | `ImportSession` |
| Identifiers and eBau numbers (`core/utils.py`, `instance/domain_logic.py`) | numbers given so far | generate, set, import, copy | highest one in the database | never twice | `Numbering`, `EbauNumbers`, `DossierNumbers` |
| eCH-0211 message queue (`ech0211/event_handlers.py`, `views/kt_bern.py`) | messages | store, poll | polling by time of creation | every message is read | `EchMessages` |
| Links between dossiers (`instance/views.py`, `domain_logic.py`) | group of each dossier | link, unlink | `InstanceGroup` rows | groups join and are left; nobody is linked unasked | `InstanceLinks`, `Links` |
| Procedure of Schwyz (`instance/views.py`, `kt_schwyz` workflows and `core.json`) | state, items, distribution, reviews | buttons of a state, submission, addition, demand, review | a button completes the item of a task | every button finds its item; a dossier that ended leaves nothing behind | `SchwyzDossier` |
| Claims | rows of a form | ask, answer, close | validation of a row's new status | no status is skipped | not modelled |
| Permissions and visibility | none | read | every request | | guards only |
| Uri, maintenance commands, notifications, documents, users, Parashift, frontends | | | | | not modelled |

`PROJECT.json` has the same list with all sources and the reasons.

### What is hard about it

- **State in three places.** Requests set the instance state and complete an item
  *if they find one*; handlers set the state when an item is completed. Nothing
  else ties the two together. In Schwyz the buttons of a state are configured in
  one file, the items they complete in another.
- **Order inside a handler.** Skipping an item continues the flow and creates new
  items; whatever cancels must run after whatever skips (`PRE_COMPLETE`,
  `pre_complete_distribution`).
- **Long sequences.** Responsibility may change at any time, even in a rejected
  dossier, while items, invitations and inquiries of the old service are open.
- **There and back.** A dossier that is rejected or corrected has its case suspended,
  with every item and inquiry, and may be taken up again where it was. Resuming
  runs the same handler as sending a draft, for inquiries that were sent before too,
  and in no particular order with `init-distribution`.
- **No transaction around a request.** The API calls of an eCH handler and the
  actions of a button commit one by one, so other requests run in between and they
  may fail half way; linking, setting a number and every request on an import
  session are several saves.
- **Stale copies.** `save()` writes the whole row as it was loaded. Import sessions
  are saved by a request and by the task it has started; dossiers are saved by
  requests that are about something else.
- **Highest number so far.** Numbers are read, incremented and written without a
  lock or a constraint, and identifiers are compared as strings.
- **Time is not order.** Messages are polled by the time at which they were
  stored, and become visible when their transaction commits.
- **Workers die.** The task queue delivers a task again whose worker was killed,
  after half of its dossiers may have been created.
- **Several ways to the same end.** A decision may be reached with or without a
  circulation, by the portal, by eCH or by an import; archiving and resubmitting
  end a case from any state.

`PROJECT.json` lists these hazards line by line, with the properties that are
aimed at each, and those that no property covers.

## The modules

| Module | What it is |
|---|---|
| `Distribution` | the child case of the distribution; one action per request |
| `Consultation` | what a distribution promises, without items and cases |
| `Dossier` | extends `Distribution` by the Bernese dossier above it, and by the eCH handlers and the buttons of the authorities |
| `ImportedDossier` | `Dossier` with the initial states of imported dossiers |
| `SchwyzDossier` | extends `Distribution` by the dossier of Schwyz, and by the review of answers |
| `ImportSession` | import sessions, their requests and their background tasks |
| `Numbering` | a request that reads the highest number and writes the next one |
| `EbauNumbers`, `DossierNumbers` | extend it by the two kinds of numbers |
| `EchMessages` | the queue of messages and the clients that poll it |
| `InstanceLinks` | groups of linked dossiers, save by save |
| `Links` | what links promise, without requests |
| `DistributionProofs` | theorems about `Distribution`, and that it implements `Consultation` |
| `DossierProofs`, `DossierStateProofs` | theorems about `Dossier` and `ImportedDossier` |
| `SchwyzProofs` | theorems about `SchwyzDossier` |
| `ImportProofs`, `NumberProofs`, `QueueProofs`, `LinkProofs` | theorems about the modules of those names |
| `MCDistribution`, `MCDossier`, `MCSchwyzDossier`, `MCImportSession`, `MCEbauNumbers`, `MCDossierNumbers`, `MCEchMessages`, `MCInstanceLinks` | the instances TLC checks |

Where the code runs a transaction, an action is one: the request or API call
together with every event handler it runs. Where it does not, every read and
every save is an action. Operators named `...Mutant` are not part of the models:
each is a plausible bug in the definition that follows it, and `PROJECT.json` says
which property finds it.

### Distribution

`dcase`, `init` and `finish` are the statuses of the child case and of its items
`init-distribution` and `complete-distribution`, `lead` is the authority these are
addressed to, `creates` counts the open `create-inquiry` items of each service,
and `inquiries` is the list of inquiries, each with its own status, that of the
`fill-inquiry` item of its child case and that of the `check-inquiries` item its
end creates. `abandoned` marks an inquiry that was given a second child case, so that
the `fill-inquiry` item of the first one belongs to no inquiry any more. `thawed` is a
history variable: the distribution was suspended and resumed.

| Action | Code |
|---|---|
| `StartDistribution` | `post_create_distribution` |
| `CreateInquiries` | completion of `create-inquiry`: `validate_complete_create_inquiry`, the flow to `inquiry` and (dynamic group `distribution_create_inquiry`) `create-inquiry`, `post_create_inquiry` |
| `SendInquiry` | resuming an inquiry: `post_resume_inquiry` |
| `AnswerInquiry` | completion of `fill-inquiry`: `post_complete_inquiry_or_distribution_case`, flow to `check-inquiries` |
| `WithdrawInquiry`, `CheckInquiry`, `CompleteInit` | cancelling an inquiry, completing `check-inquiries` and `init-distribution` |
| `CompleteDistribution` | completion of `complete-distribution`: `pre_complete_distribution` |
| `CancelDistribution`, `SuspendDistribution` | closing or suspending the item or the whole case |
| `ResumeDistribution` | resuming the whole case, with `post_resume_inquiry` for every suspended inquiry |
| `ReassignDistribution` | `CalumaApi.reassign_work_items` |

`complete-distribution` is itself cancelled by `pre_complete_distribution`, and
then saved as completed by the call that runs the handler; the model has the
outcome, which `test_distribution_workflow.py` asserts too.

When the case is resumed, every suspended item is, and `post_resume_inquiry` cannot tell a
draft from an inquiry that had been sent: it sends the one and starts a second child
case for the other. It completes `init-distribution` if that is READY at this moment.
Caluma promises no order in which items are resumed, so the item may be resumed after
the last inquiry and stay open (`InitAfterResume`). Deadlines,
reminders, the contents of answers and the redirection of an inquiry's answer
form are left out.

`Consultation` knows questions that are drafted, asked, answered or dropped, in a
consultation that is prepared, circulates, freezes and thaws, and is over. It promises
that asking a question makes the consultation circulate, that only what was
asked is answered, that nothing moves while it is frozen, that answers are final and
that nothing is pending at the end. A thaw asks all drafts, and is the one way to do so
without circulating.
`ImplementsConsultation` maps a distribution to it: an open inquiry without a
child case is a draft, one with a child case is asked.

### Dossier

`kind` stands for form and workflow: `building-permit`, `extend-validity` (the
form of that name, which runs in the workflow `building-permit` and skips the
number), `preliminary-clarification` and `internal`. `state` and `prev` are the
instance's, `items` counts the open items of each task, `addressee` is the service
the open item is addressed to, `involved` holds the `InstanceService` rows, and
`case` is the status of the case; its open items are READY or SUSPENDED with it.
`handler` is the program counter of the eCH handler or button that runs, and `seen` the
state of the instance it loaded, or the one it goes back to. The task `awa` stands for
one item of `create-manual-workitems`: the one that `finalize` makes for the construction
control if the form has stored substances, and that stays with this control.

| Action | Code |
|---|---|
| `Submit`, `SubmitRejected` | `CalumaInstanceSubmitSerializer.update`, `has_object_submit_permission` |
| `CompleteEbauNumber` | `post_complete_ebau_number` |
| `CompleteSideTask` | items beside the procedure: audit, publication, neighbours, further claims (`nfd`), the controls |
| `CreateManual`, `CompleteManual` | manual work items |
| `Distribute`, `EndDistribution` | the steps of `Distribution`, with `post_complete_simple_workflow` |
| `Decide` | `handle_pre_complete_work_item`, `post_complete_decision`, `set_construction_control`, the dynamic task `after-decision` |
| `Report`, `Finalize(stored)`, `Complete` | the serializers of that name, `SIMPLE_WORKFLOW`, the button 20048 |
| `ChangeResponsible` | `CalumaInstanceChangeResponsibleServiceSerializer`, `reassign_work_items` |
| `Archive`, `ResubmitCopy` | `CalumaInstanceArchiveSerializer`, `_update_rejected_instance` |
| `EchReceive`, `EchReject` ... `EchComplete`, `HandlerSkips` | `NoticeRulingSendHandler` and `CloseArchiveDossierSendHandler`, one action per transaction |
| `PressButton` | the states in which `BRoleAcl` offers a button in `core.json` |
| `ButtonSuspends`, `ButtonResumes` | the actions on the case: reject (20022) and correct (20046), undo (140000) and end the correction (20047) |
| `ButtonCloses`, `HandlerSkips`, `ButtonCompletes` | the actions on items: report (1200000), finalize (1200001), close without reports (12000000) |
| `ButtonSaves`, `ButtonReturns` | the actions on the state: the next one, or the one before |
| `HandlerFails` | a handler or button fails between two of its transactions |

The other send handlers are one transaction each and do what a request does: the
kind of proceedings completes `init-distribution`, a task creates and sends an
inquiry, an accompanying report answers one, a change of responsibility is
`ChangeResponsible`. `MessageType` is the type of the status notification that a
step sends to the municipality (`ech0211/event_handlers.py`).

The program that runs the actions of a button is PHP code outside of this repository.
Its configuration tells which actions there are and in which order, not what the
program has loaded when: the previous state that it saves is the one loaded or the
current one, and going back may fail to apply when the dossier has left the state in
the meantime. Both are nondeterministic choices. One handler or button runs at a time,
next to any number of requests.

There are two specifications. In `Spec` a handler or button runs to its end before the
next request; in `FaultySpec` requests run between its transactions, and it may
fail between any two. The properties that need the first are marked in the module,
and hold of undisturbed handlers only:
a handler that declined a dossier and failed before it suspended the case leaves
a rejected dossier that runs on, a button that failed between its two actions a
suspended one in circulation (`StateMatchesItem` fails), and a stale save puts a
closed one back to rejected (`ClosedIsFinal` and `ClosedStateClosesCase` fail).

### ImportedDossier

The writer of imports creates a dossier in the state its row asks for, submitted,
approved or done, and skips work items until the case is there. The module builds
these initial states the same way, from the same flows, and lets `Dossier` go on
from them. An approved dossier's previous state is `sb1` as well, a pair that
`ACTIVE_SERVICES` does not list, so that `responsible_service()` without filter is
the municipality there too.

### SchwyzDossier

`state`, `prev`, `case` and `items` are as in `Dossier`; `imported` tells dossiers of an
import, whose `reject-form` item the import has cancelled; `review` has, for each
inquiry, the open items of its child case, in which an answer is written, and
checked or sent back and altered, before it counts.

| Action | Code |
|---|---|
| `Submit` | `_submit_camac_ng`: submission, addition to a rejected dossier, documents demanded later |
| `Press(t)` | the buttons of the authority: offered in the states that `BRoleAcl` grants in `core.json`, completing the item of their `ActionWorkitem`; then `PRE_COMPLETE` and `SIMPLE_WORKFLOW` |
| `ClosePublication` | `CalumaApi.close_publication` |
| `CreateManual`, `CompleteManual` | manual work items |
| `Distribute`, `EndDistribution` | the steps of `Distribution`, with `post_complete_simple_workflow` |
| `ReviewStep` | the items `fill-`, `check-`, `revise-` and `alter-inquiry`; with the last one the inquiry is answered |

The buttons themselves are PHP code outside of this repository and modelled from
their configuration. `make-decision` and `depreciate-case` share one flow, which
Caluma continues when none of them is READY (`Following`).

### ImportSession

`rows` and `files` are the stored sessions and archives, `instances` the imported
dossiers with the task that created them. Every request has a program counter `pc`,
the operation `op`, its session `target` and its `copy` of the row; the task it
enqueues bears its name and has `task`, `taskCopy`, the dossiers `todo`, the one it is
`at`, and counts its `crashes` and its `posts` to the production system. `overtaken`
holds the requests that saved after their task was through.

| Action | Code |
|---|---|
| `Create`, `MarkInProgress`, `ReadForValidation`, `Validate` | `DossierImportSerializer.create` and the validation it calls |
| `Begin` | the permissions of `dossier_import/views.py` |
| `StartSave`, `StartEnqueue`, `StartSaveTaskId` | `DossierImportView.start` |
| `Confirm`, `TransmitEnqueue`, `TransmitSave` | `confirm`, `transmit` |
| `UndoDeleteInstances`, `DeleteRow` | `undo` and `undo_import`; `DeleteRow` is `destroy`, too |
| `TakeImport` ... `FailImport` | `perform_import`, dossier by dossier |
| `TakeTransmission` ... `FailTransmission` | `transmit_import` |
| `Acknowledge`, `Crash` | django-q: a task is taken, acknowledged when it has ended, and delivered again when its worker was killed |

A task that is delivered again starts from the copy it was enqueued with. Saving a
copy of a deleted row inserts it again, as Django does.

### Numbering, EbauNumbers, DossierNumbers

`number` is the number of each dossier and `source` the request that wrote it; a
request reads (`ReadHighest`, `ReadGiven`), holds `value`, and writes or fails. `earlier`
are the requests that had written when it read: two requests `Overlap` when
neither is among the other's.

`EbauNumbers` has the ways to an eBau number (`SetNumber` by hand, `ImportNumber`,
`CopyNumber` for the extension of a validity, ended by `Store` or `Refuse`), and as much
of the dossiers as these look at: `Create`, `Submit`, `ChangeResponsible`,
`DeleteDossier`. `DossierNumbers` has the identifiers of one prefix and year
(`GenerateIdentifier`, `DeleteNumbered`) and the order in which they are compared:
`Width` is the number of digits of a padded number, and `StringLess` its order as a
string.

### EchMessages

A message is stored by a transaction (`CreateMessage`), with the time of the `clock`
(`auto_now_add`), and seen when it commits (`Commit`, or `Rollback`). A client asks for
the message after the last one it has (`Poll`), and may begin again from the first
(`Restart`). An answer that gets lost changes nothing on either side, as the client
asks with the same identifier again. `overtaken` marks the messages that came
late: committed after a message of the same receiver that is not earlier.

### InstanceLinks and Links

`group` is the `InstanceGroup` of each dossier. A request loads one dossier
(`Begin...`), maybe a second (`LoadSecond`), and writes in one or two saves: `LinkNew` and
`SaveSecond`, `JoinGroups`, `JoinFirst`, `JoinSecond`; or it counts the others of the group
and unlinks (`Count`, `UnlinkBoth`, `UnlinkOne`). `BeginChange` and `SaveChange` are any
other request that saves the dossier it has loaded, `Fail` ends one half way.
`disturbed` are the requests that overlapped another, `asked` the dossiers that
anybody asked to link.

`Links` knows groups only. While it is `calm`, groups are joined and left; a request
that overlaps others may undo their work (`Disturb`), but puts no dossiers into
one group that were not asked to be in one. `ImplementsLinks` maps the rows to it.

### What is assumed of Caluma

Caluma is a library (8.0.0b11 in `requirements.txt`) and modelled from how this
code uses it: only READY items of RUNNING cases are completed and only SUSPENDED
ones resumed; completing and skipping continue the flow, cancelling does not;
skipping runs none of the handlers of completion; closing an item cancels its
running child case; suspending a case suspends its READY items and their child
cases, and resuming it resumes its SUSPENDED items in no particular order, running their
handlers; a case without an open item is completed; a call and its handlers are one
transaction. The frontends touch the items of a case only while it runs, and
create manual items only while an item of that task is open.

Requests do not lock what they read. Where several saves make up a request
(imports, numbers, messages, links, eCH handlers, buttons) the models interleave them. In
`Distribution`, `Dossier` and `SchwyzDossier` a request of the portal is one step that
sees all earlier ones, so two of them that overlap are not covered there; see the
plan.

## The runs

| Run | What it asks | Bounds | States |
|---|---|---|---|
| `distribution` | invitations, answers and items stay consistent in all orders of requests, suspended and resumed at any time; the consultation is implemented | two authorities, one service, one subservice, 3 inquiries, 2 per request | |
| `dossier` | state, items, distribution, case and responsibility agree, for all kinds and for imported dossiers | a municipality with its control, an authority without one, a second control, no subservice, 1 inquiry, 2 manual items | 2 700 000 |
| `dossier_faulty` | what of this remains true when eCH handlers and buttons are interrupted or fail | building permits, one control, no subservice, 1 inquiry, 2 manual items, four tasks beside the procedure | 2 200 000 |
| `schwyz` | every button finds its item, reviews end with inquiries, what the archive leaves open | two services, a subservice, 3 inquiries, 2 per request, 2 manual items | 432 000 |
| `import` | what statuses, reports and imported dossiers can be relied on | 1 session, 1 dossier, 3 requests, 2 workers, 1 crash per task | 573 000 |
| `import_live` | every task ends, every import shows its result | 1 session, 2 dossiers of which one is incomplete, 2 requests, 1 worker, 1 crash per task | 45 000 |
| `ebau_numbers` | generated numbers differ unless requests overlap | 3 requests, 3 dossiers, 2 municipalities | |
| `dossier_numbers` | identifiers differ and are new, up to the padded width | 4 requests, 3 dossiers, 7 numbers before, width 1 | |
| `ech_messages` | which messages a client can miss; it reads all others | 3 messages, 3 transactions, 2 services, 3 points in time, 1 restart | 737 000 |
| `links` | the abstract links are implemented, links are established | 4 dossiers, 3 requests | 50 000 |
| `ruling_hands_over` | violation, see below | as `dossier`, with a subservice, building permits | |
| `dossier_numbers_thousand` | violation, see below | 2 dossiers after 999 others, width 3 | |

**Why the bounds are enough.** With three inquiries a service can be invited, invite
and be invited again, two services can invite the same third one, and drafts, open
and answered inquiries exist side by side; two targets make one request create
several. The two authorities hand over to each other and back. `Dossier` needs only
one inquiry: what several of them do to each other is the question of `distribution`,
and the dossier sees of them only whether `init-distribution` has been completed.
Two manual items (`MaxManual`) are one that a user completes and the one that is there
from the start. The second control is needed to change the responsible control. A
subservice differs from a service only in that it never invites, which is the question of
`distribution` again. The procedure returns, by rejections and corrections in Bern, by
rejections and demands in Schwyz, but to states and items it has been in, so that
rounds need no bound: they are cycles of the state graph. In `dossier_faulty` every
interleaving of requests with handlers multiplies the states; there users complete
only the items that `UserTasks` lists, one of each kind (without a successor, with one,
beside the reports, and the manual item of the control), as all others behave like
one of them.

An import needs one request to start it, one to overlap and one to follow (undo,
delete, start again, transmit); two workers run two tasks at once; one crash per
task is a crash at every step, and the second delivery meets what the first one
left. Both runs have one session only. What requests and tasks of several sessions do to
each other is covered by the theorems of `ImportProofs` alone, which hold for any set of
sessions.
In `import_live` a second, incomplete dossier makes the tasks loop. Three
numbering requests are two that overlap and a third that follows or sits between
them; with a width of one digit and seven numbers before, the third request
reaches two digits, which is what 1000 is to the width three, and the fourth finds
9 to be the highest number once more. Three messages are one that is read, one that
overtakes and one that is overtaken. Four dossiers are two groups of two, which
the third request joins or breaks up. Requests, dossiers, municipalities, and the
authorities of `distribution`, without a role of their own are symmetric, where no
liveness is checked.

`CHECK_DEADLOCK FALSE` everywhere: a dossier ends in the archive, requests and messages
are used up, and then nothing is left to do.

**Fairness.** `FairImportSpec` assumes that the web server finishes the requests it
has let in and that the workers go on with the tasks in the queue (`WF` of each);
Q_CLUSTER retries what was not acknowledged, so a killed worker delays a task but
does not lose it. Nobody has to make a request, and crashes are bounded.
`FairEchSpec` assumes that the clients poll on, which is what their software does,
and that an answer gets through at some time; transactions need not end. Of the
other modules no fairness is assumed and no liveness claimed: nothing obliges a
service to answer or an authority to decide. That a dossier is never stuck is
stated as safety instead: `OneMainItem`, `StateMatchesItem` and `OfferedIsOpen` say that
somebody can always go on, `InvolvedCanInvite` that invitations stay possible.

### The properties

Of `distribution`: `OneCreateInquiry`, `InvolvedCanInvite`, `OnlyDraftsBeforeStart`,
`AnswerMatchesInquiry`, `NothingOpenAtEnd`, `AnswersAreFinal`,
`ImplementsConsultation`. Several restate what the command `distribution_analyze`
looks for in a production database. Three of them are weaker than the comments in the
code, because of resumptions: a resumed distribution may have sent its drafts although
`init-distribution` is open (`OnlyDraftsBeforeStart`), an inquiry may have abandoned the item
of its first child case (`AnswerMatchesInquiry`), and a lead that took over while the
distribution was suspended got no `create-inquiry` item (`InvolvedCanInvite`).
`NothingOpenAtEnd` speaks of the items below a distribution's inquiries: what a resumption
abandoned is no longer among them, nothing closes it, and it stays open after the end.

Of the Bernese dossiers: `OneMainItem` (one way on, and only one),
`ClosedCaseIsClean`, `DistributionFollowsItem`, `OneResponsible`,
`AddressedToResponsible` (open items follow the responsible service; the manual item of the
finalization stays with the control it was made for). These five hold whatever the
handlers do. With undisturbed handlers and buttons only: `StateMatchesItem` (the
configuration that `fix_work_items` requires, the phase of the distribution, and
which dossiers are suspended), `ClosedStateClosesCase`, `ControlIsInvolved`, `ClosedIsFinal`,
`NotificationNamesState` (the municipality is told of the state the dossier is in, and
of one that has a message; the end of a rejection has a rule of its own).
`StateMatchesItem` names that a dossier that comes back to `circulation_init` may have its
distribution begun, as resuming it sent the inquiries.

With disturbed handlers too: `ReachedIsKept` and `ImplementsDistribution`. The first says that what
a dossier has reached, the state it is in or was rejected or corrected in, is lost in
two ways only: a rejected dossier is submitted again as it is, or a handler or button
goes on with a state that is not the one it loaded. For the latter no second request
is needed: resuming the case may complete `init-distribution` and start the circulation,
and the button then goes back to `circulation_init` nevertheless. The second says that what runs
below a dossier is a distribution as the module `Distribution` has it.

Of those of Schwyz: `OfferedIsOpen` (every button a state offers finds exactly one
item, and every submission too), `LeftInArchive` (what an archived dossier leaves
open), `ReviewMatchesAnswer`.

Of imports: `ReportComplete` (an imported session has a message on every dossier),
`ReportedExists` (what it reports exists), `AtMostOnePerWorker` (the copies of a
dossier), `WaitingHasReason` (the only ways to a session that waits for ever),
`OrphansHaveReason` (to dossiers without a session), `TransmittedWasPosted`; under
fairness `EveryTaskEnds` and `ImportShowsResult`.

Of numbers `GeneratedUnique`, `NumbersUnique` and `NumbersNew`: two numbers made from the
highest one differ unless their requests overlapped. Of messages
`SkippedWasOvertaken` and `EveryMessageRead`: only a message that came late is missed.
Of links `LinkEstablished` and `ImplementsLinks`.

Several of them name exceptions. The code promises no more, and the exception is
the result: an import *can* wait for ever, and exactly because the request that
started it saved its stale copy last.

### Findings

Two runs are expected to fail, because the code does other than a comment or a
test of the repository says.

- `ruling_hands_over`. A ruling by eCH is accepted in the state `circulation`.
  The dossier then goes to `sb1` with the previous state `circulation`, a pair that
  `ACTIVE_SERVICES` does not list, and `responsible_service()` remains the
  municipality. `test_send_handlers.py` asserts the construction control for both
  states, with a fixture that removes the filters of the setting.
- `dossier_numbers_thousand`. After the identifier 999 every further dossier of the
  prefix and year gets 1000, because `"999"` is the highest string; the comment says
  "Give dossier a unique dossier number".

Other observations made while modelling, without a run of their own:

- Submitting is allowed in the state `rejected`; for a Bernese dossier it sets the
  state to `subm` and leaves the case suspended, so that nobody can complete
  `ebau-number` (`StateMatchesItem` speaks of running cases for this reason).
  Nor can it be taken up again: the button that resumes is offered in `rejected` only.
- A declined ruling, and each of the buttons that reject or correct, suspends the
  inquiries in circulation; `distribution_analyze` says that dossiers in `rejected` and
  `correction` have no suspended inquiries.
- Taking such a dossier up again sends the drafts nobody had sent, and gives an inquiry
  that had been sent a second `fill-inquiry` item, while the first one stays open for good.
- The comment at `ech0211/event_handlers.py:177` says that cancelling a rejection must
  result in the notification of the start of the circulation. A dossier that was
  rejected in `circulation_init` gets "number assigned", since its state is asked for first
  (`NotificationNamesState` has both).
- A dossier that was rejected or corrected in `circulation_init` is back in this state when its
  inquiries have been sent and `init-distribution` is completed, so that nothing will
  set it to `circulation` any more.
- A button that fails between its two actions leaves a dossier whose case is suspended and
  whose state is `circulation`, where no button resumes it; or one that runs and is still
  rejected or in correction, where the button to leave it finds nothing to resume.
- An authority to which a dossier is handed over while the case is suspended cannot invite
  anybody when it is resumed, unless it is invited itself.
- Two services that complete their `create-inquiry` items at once do not see each
  other's new item, although `dynamic_groups.py` says that there should not be two.
- In Schwyz, when the distribution ends while documents are demanded, the item
  `submit-additional-demand` stays open and cannot be completed any more, and it
  keeps the case of an archived dossier running. The same holds for the addition to
  a rejected dossier that is archived, and for an open publication
  (`LeftInArchive` names all three).
- The button that rejects a submitted dossier fails for imported ones, whose
  item the import has cancelled (`OfferedIsOpen` names it).
- An eBau number set by hand must be in use by the same municipality and "mustn't" be
  by another one (`instance/serializers.py:1375`); the code accepts it as soon as one
  of its dossiers belongs, or has belonged, to the municipality, so that after a
  change of responsibility two municipalities may share a number (`SetNumber` has what
  the code does).

## The proofs

All theorems are proved by TLAPS for every value of the constants, under the named
assumptions of the modules: `DistributionAssumption` (authorities are services
without a parent, subservices are not, `NoService` is neither), `DossierAssumption`
(controls are no authorities, every municipality that has one has its own
`ControlOf`, the form names a municipality), `SchwyzAssumption` (the municipality is an
authority), `ImportedAssumption`, `ImportAssumption`,
`NumberingAssumption`, `EbauAssumption`, `DossierNumbersAssumption`, `EchAssumption`,
`InstanceLinksAssumption` (bounds are numbers, the dummies are no members, and the
sets whose sizes are counted are finite). TLC evaluates all of them.

**`DistributionProofs`.** Of `DistSpec`: `TypeCorrect`, `CreateInquiryUnique`,
`InvitationsPossible`, `DraftsBeforeStart`, `AnswerMatches`, `EndIsClean`. They follow
from one inductive invariant, `DistInv`: the five properties and the type, and
`NothingBeforeStart`, without which a starting distribution could find inquiries
that contradict its new items. The two halves of `InvolvedCanInvite` are kept through a
suspension as well (`PartiesCanInvite`, `LeadCanInvite`), for the distribution that is
resumed. `InvariantNext` has a step per action; `HandlersKeepMatch` says of every handler
that it keeps an inquiry and its answer in step, whatever the action that runs it.

The same module proves `Refinement == DistSpec => ImplementsConsultation`. It needs one
more fact than `DistInv`, `DraftsAreUnasked`: a suspended inquiry has no child case
or a suspended one, so that no handler but that of a sending or a resumption turns a draft
into a question, and none turns it back. With it every action is mapped to a step of
`Consultation`, or to a stutter (invitations of nobody, `check-inquiries`, a change of the
lead); suspending and resuming are `Freeze` and `Thaw`. `AnswersFinal` proves
`AnswersAreFinal` by the lemma `HandlersKeepAnswers`, which needs that an answered
inquiry is a completed one (`DistInv`) and has been shown (`AnswersAreShown`).

**`DossierProofs`.** Of `FaultySpec`, in which requests interleave with the transactions
of the eCH handlers and the actions of the buttons, and these fail: `DossierTypeCorrect`, `OneWayOn`,
`ClosedCasesClean`, `DistributionFollows`, `OneResponsibleService`, `AddressedRight`. As
`Undisturbed` proves `Spec => FaultySpec`, they hold of `Spec` too. The inductive
invariant `DossierInv` has, besides these properties:

- `OneMain` and `OneActive`, the properties about one main item and one responsible
  service without cardinalities;
- `SubmitFirst`: nothing else is open before the submission, so that the items it
  creates meet none of their own kind;
- `ControlAfterDecision`: no construction control is active before the decision, and
  nothing of the time before it is open afterwards. It is why the decision may add
  an active control, why the end of a report creates one main item and not two, and
  why `complete` leaves nothing open;
- `SomebodyResponsible`: only a dossier that was never submitted has no responsible
  authority. It is why every new item has an addressee and the distribution a lead.

`AddressedRight` says of the manual item of the finalization that it stays with a construction
control that is or was involved, and of every other open item that the service
responsible now has it: `Readdressed` leaves the former out, as `reassign_work_items` does.

`ItemStep` says what must be shown of the new numbers of open items for all of this
to be kept; the lemmas about single requests compute these numbers from the flows
(`ProcessValues`, `PreDecisionValues`, `DecidedValues`, ...) and cite it. `KeepStep` and
`SameItemsStep` do the same for the steps that leave items alone.

`DistributionWithin == FaultySpec => ImplementsDistribution` composes the two modules:
whatever happens to a dossier is a step of `DistSpec` or a stutter for the distribution
below it, so that the theorems about distributions, and the abstract consultation,
hold inside the procedure too. It needs `DossierInv`: the handler that starts the
distribution must find a responsible authority, and a change of responsibility must
start from the distribution's lead.

**`DossierStateProofs`.** `ReachedStays` proves `ReachedIsKept` of `FaultySpec`. Stale saves and
failed handlers do put the state behind its items, so the state cannot be read off
them; what is inductive is `NotAhead`: while an item of the time before the decision
is open, neither the state that has been reached nor the one that a handler holds is past it
(`Behind`), and a handler that will save a state has loaded the one it is for (`Loaded`).
Of `Spec`: `StateAndItemAgree`, `ClosedTogether`, `ControlThere`, `ClosedForGood`, `NotifiedRight`,
from `StateInvs`: `DossierInv`, `PhaseFits`, by which `init-distribution` is open or
completed with the distribution, and `StateInv`. The latter has

- `KindFits`, the states of each kind;
- `CaseFits`: state and case close together, and only rejected and corrected dossiers are
  suspended;
- `ItemFits`: the item the state requires is open, between requests and at
  the first step of a handler;
- `HaltFits`: a rejected or corrected dossier has open what the state before requires, so
  that it can be taken up there. It is what makes the return of a button as good as
  any other way to that state;
- `HandlerFits`, which says what a handler or button finds before each of its later
  steps, when state and items part for a while; among them `Undoing`, for the button that has
  resumed the case and may have started the circulation with it.

`StepFits` adds what a step may not do, so that the action properties need no second walk
through the actions. `ImportedStateAgrees` and `ImportedHasControl` show that the initial
states of imported dossiers satisfy these invariants: the items they fast-forward to are
computed from the flows, task by task. `ImportedClosedForGood` follows from the same;
`ImportedLikeOthers` goes further and lets the handlers and buttons of imported dossiers
interleave and fail, too. `SettledNotAhead` is what it takes: a dossier in no handler
and not suspended is not ahead of its items, so that an imported dossier satisfies the
invariant of the interleaved handlers, and all the theorems of `FaultySpec` that need no
more than it hold from there on. The rejections and corrections of imported dossiers, and
the ways back from them, are those of all others.

**`SchwyzProofs`.** Of `Spec` of `SchwyzDossier`: `ButtonsWork`, `ArchiveLeaves`, `NoWayBack`,
`SchwyzDistribution`, `SchwyzConsults`, `ReviewsMatch`. The states and the items are kept by
two mechanisms that are configured apart, so the invariant must tie them: `ItemsInv`
lists for each state the tasks that must have an open item (`OpenIn`) and those that
may (`MayBeOpenIn`: a publication, and the documents demanded before the distribution
ended), says that no others have one and that only manual items are more than one.
`Completing` computes, for any such lists, what is left after a task is completed with
the items that are closed before it (`ClosedWith`) and created after it (`Flow`);
`ItemsFollow` applies it to the ten steps from state to state (`Leads`), and the lemmas about
the requests show that each of them takes one of these steps or leaves the state alone. With
`PartInv`, which says in which states the distribution runs, every step of the dossier
is a step of `DistNext` or a stutter (`DistributionSteps`). `SchwyzDistribution` uses it to
carry the invariants of distributions, and the finality of answers, over to Schwyz, and
`SchwyzConsults` the abstract consultation; a distribution that an import skipped satisfies
the invariants too (`SkippedIsOver`), though it is no initial state of the module
`Distribution`. The reviews follow from `ReviewInv`: what is open of a review is one of the three
stages of an inquiry that waits, or nothing, and every handler that changes the answer
closes the review (`HandlersAndReview`).

**`ImportProofs`.** `ImportTypeCorrect`, `ReportsComplete`, `TransmittedPosted` from
`SessionInv`: stale copies are harmless for them because every copy that counts as
imported has a full report (`RequestInv`, `TaskInv`), so that no save can store one
that has not (`RowInv`). `CopiesBounded` proves `AtMostOnePerWorker` from `BusyInv`: there
are never more running tasks than workers, and while a dossier is looked for, found
missing and created, its copies and the tasks about to create it are together
no more than that either.

Three more theorems say what the stale copies can and cannot do; each has an invariant
of its own on top of `RolesInv`, which says which request is where and with which
copy of which row. `ReportedDossiersExist` needs `BackedInv`: whatever a row, a copy of it or a
task's list reports as imported exists, as long as no import was undone; dossiers are
created before they are reported, and a repeated task reports what it finds.
`WaitingSessionsHaveReason` is inductive with `RolesInv`; `GoesOn` says of each kind of step
what it leaves of the requests, and `WaitsStays` that a reason for waiting lasts until the
row is written. `OrphanedDossiersHaveReason` needs `ProgressInv` (whatever is imported or
undone was validated, and a row that is gone was undone or deleted) and `UndoInv`: a
session that was started once, whose worker never died and which nobody deleted
(`Plain`) is undone only when its one import is over (`ImportOver`), so that no task is left
that could create another dossier of it.

**`NumberProofs`.** `GeneratedDiffer`, `IdentifiersDiffer`, `IdentifiersAreNew`,
`EbauTypeCorrect`. One invariant serves both modules, `NumInv(limit)`: a generated number
is above those of all requests that had written when it was read (`AboveEarlier`), as far
as both are below the limit. For eBau numbers there is no limit; for identifiers it
is `Base ^ Padding`, below which the order of strings is the order of numbers.

**`QueueProofs`.** `EchTypeCorrect`, and `OnlyOvertakenMissed == EchSpec =>
[]SkippedWasOvertaken` from `QueueInv`: clients ask with a message of their own queue
(`LastInQueue`), messages of the same time are marked (`TiesMarked`), and one transaction
stores none of the same time (`DistinctTimes`).

**`LinkProofs`.** `LinksTypeCorrect`, `LinksEstablished`, and `LinksImplemented == Spec =>
ImplementsLinks`. `LinkInv` says of the groups that the dossiers of one, stored or in a
copy, were asked to be linked to the one that the request that made it is about
(`Anchored`), which no stale save can break; and of a request that overlapped no
other that its copies are current (`RunsAlone`). Cardinality is needed where
unlinking counts the others of a group; `FiniteSetTheorems` is cited for it.

**Only model-checked:** `EveryMessageRead`, `EveryTaskEnds` and `ImportShowsResult`. They are
liveness properties under fairness, which are out of the prover's reach. Every other
property of a passing run is stated by a theorem.
Nothing is taken on trust.

## Plan

What is left, in this order.

1. Proofs: an abstract specification of an import (a session that is imported, confirmed,
   transmitted or removed, without copies of rows and without tasks) and, of the steps
   of `ImportSession`, which of them implement it and which are the known overwrites.
2. `DistributionRace`, a variant of the distribution whose requests read and write in
   two steps: which of the invariants survive two requests at once. The same for
   items completed twice, which `fix_work_items --duplicated-sb1` repairs, and for
   requests that save a dossier they loaded earlier.
3. The parallel workflows of Uri, as far as their steps are in this repository.
4. Claims, as a machine of statuses per row.

## What is not modelled

- The workflow `migrated`, which only data migrations start, and with it the state
  `in_progress` and the buttons offered there; the deletion of new
  dossiers in `Dossier` (`EbauNumbers` has it); the change of a form and the conversion of
  modifications in Bern, which touch only the form's document.
- Of the Bernese buttons: the PHP program that runs them, with the classes that hide a
  button in the client (for authorities that are not responsible, while inquiries or claims
  are open: the model presses it whenever the state allows); the edits of the form during a
  correction; buttons that only save a form; histories and mails.
- In Schwyz the workflow `internal-document`, two items that nothing follows. Of Uri
  the procedure: its steps are configured in a PHP application that is not in this
  repository.
- Forms and their answers, and with them the claims: the status of a row is
  validated against the row it replaces, in one request and without any further
  state.
- Permissions and visibility beyond the guards of the modelled requests: functions of
  what is stored, without a state of their own.
- Documents, notifications, users, Parashift, the frontends: input and output,
  rendering, and clients of services outside. The generated schemas of eCH-0211 are
  data types.
- Maintenance commands, run by hand on broken data. `fix_work_items` requires items for
  states that the workflow no longer has; the properties take from it what still
  applies.

---------------------------- MODULE Distribution ----------------------------
(***************************************************************************)
(* The distribution ("circulation") of one building permit dossier: the    *)
(* child case that Caluma runs below the work item "distribution", in      *)
(* which the responsible authority and the services it involves ask each   *)
(* other for statements.                                                   *)
(*                                                                         *)
(* Every action is one transaction: a Caluma API call together with every  *)
(* event handler of camac.caluma.extensions.events it runs.                *)
(*                                                                         *)
(* Caluma itself is a library outside the repository.  What the model      *)
(* takes from it: only READY work items of a RUNNING case are completed,   *)
(* only SUSPENDED ones resumed; completing or skipping an item creates the *)
(* items the workflow's flow names; closing (skipping, cancelling) an item *)
(* cancels its running child case; a case with no open item is completed;  *)
(* suspending a case suspends its READY items and their child cases, and   *)
(* resuming it resumes every SUSPENDED item, in no particular order.       *)
(* Clients touch the items of a case only while it runs.                   *)
(*                                                                         *)
(* An operator named "...Mutant" is not part of the model: it is a         *)
(* plausible bug in the definition that follows it, which the properties   *)
(* must be able to detect.                                                 *)
(***************************************************************************)
EXTENDS Integers, Sequences, FiniteSets

CONSTANTS
  Services,      \* services without a parent service
  Subservices,   \* services with a parent: they answer, but never invite
  Authorities,   \* the services that can be responsible for a dossier
  NoService,     \* the lead of a distribution that has not started
  MaxInquiries,  \* bound: inquiries of one distribution
  MaxTargets     \* bound: services invited by one request

ASSUME DistributionAssumption ==
  /\ Authorities \subseteq Services
  /\ Services \cap Subservices = {}
  /\ NoService \notin Services
  /\ MaxInquiries \in Nat
  /\ MaxTargets \in Nat

VARIABLES
  dcase,     \* status of the child case
  init,      \* status of the work item "init-distribution"
  finish,    \* status of the work item "complete-distribution"
  lead,      \* the service both of them are addressed to
  creates,   \* number of open "create-inquiry" work items per service
  inquiries, \* the "inquiry" work items, oldest first
  thawed     \* history variable: the child case was suspended and resumed

distVars == <<dcase, init, finish, lead, creates, inquiries, thawed>>

Everyone == Services \cup Subservices

CaseStatus == {"none", "running", "suspended", "completed", "canceled"}
ItemStatus == {"none", "ready", "suspended", "completed", "skipped", "canceled"}
OpenStatus == {"ready", "suspended"}

(* An inquiry, with the "fill-inquiry" item of its child case (answer) and *)
(* the "check-inquiries" item its answer creates (check).  An inquiry that *)
(* got a second child case has abandoned the first one: its "fill-inquiry" *)
(* item stays open, but is below no inquiry that it could answer any more. *)
Inquiry == [from      : Services,
            to        : Everyone,
            status    : ItemStatus,
            answer    : ItemStatus,
            check     : ItemStatus,
            abandoned : BOOLEAN]

Draft(s, t) == [from      |-> s,
                to        |-> t,
                status    |-> "suspended",
                answer    |-> "none",
                check     |-> "none",
                abandoned |-> FALSE]

DistTypeOK ==
  /\ dcase \in CaseStatus
  /\ init \in ItemStatus
  /\ finish \in ItemStatus
  /\ lead \in Authorities \cup {NoService}
  /\ creates \in [Services -> Nat]
  /\ inquiries \in Seq(Inquiry)
  /\ thawed \in BOOLEAN

-----------------------------------------------------------------------------

DistInit ==
  /\ dcase = "none"
  /\ init = "none"
  /\ finish = "none"
  /\ lead = NoService
  /\ creates = [s \in Services |-> 0]
  /\ inquiries = <<>>
  /\ thawed = FALSE

(* The work item "distribution" was created: its handler starts the child  *)
(* case, whose three start tasks are addressed to the responsible          *)
(* authority.                                                              *)
StartDistribution(authority) ==
  /\ dcase = "none"
  /\ dcase' = "running"
  /\ init' = "ready"
  /\ finish' = "ready"
  /\ lead' = authority
  /\ creates' = [s \in Services |-> IF s = authority THEN 1 ELSE 0]
  /\ UNCHANGED <<inquiries, thawed>>

NewInvitersMutant(open, s, invited) == (invited \cup {s}) \cap Services

(* The services that get a new "create-inquiry" item when one of them is   *)
(* completed: the inviting and the invited services, without those that    *)
(* still have an open one (open counts the items that remain).             *)
NewInviters(open, s, invited) ==
  {x \in (invited \cup {s}) \cap Services : open[x] = 0}

Drafts(s, targets) == [k \in 1..Len(targets) |-> Draft(s, targets[k])]

(* Only a service with an open item of its own invites.                    *)
MayInviteMutant(s) == TRUE
MayInvite(s) == creates[s] > 0

(* Service s completes a "create-inquiry" item.  One draft inquiry per     *)
(* target is created and suspended by its handler.                         *)
CreateInquiries(s, targets) ==
  LET invited == {targets[k] : k \in 1..Len(targets)}
      open    == [creates EXCEPT ![s] = @ - 1]
      new     == NewInviters(open, s, invited)
  IN /\ dcase = "running"
     /\ MayInvite(s)
     /\ s \notin invited
     /\ Len(inquiries) + Len(targets) <= MaxInquiries
     /\ inquiries' = inquiries \o Drafts(s, targets)
     /\ creates' = [x \in Services |-> open[x] + (IF x \in new THEN 1 ELSE 0)]
     /\ UNCHANGED <<dcase, init, finish, lead, thawed>>

(* The handler completes "init-distribution" if it finds it READY.         *)
InitAfterSendMutant(status) == status
InitAfterSend(status) == IF status = "ready" THEN "completed" ELSE status

SentMutant(inq) == [inq EXCEPT !.status = "ready"]
Sent(inq) == [inq EXCEPT !.status = "ready", !.answer = "ready"]

(* A draft is sent: the handler of the resumed inquiry starts a child case *)
(* with the item "fill-inquiry" and completes "init-distribution" if that  *)
(* is READY, as it is when the first inquiry is sent.                      *)
SendInquiry(i) ==
  /\ dcase = "running"
  /\ inquiries[i].status = "suspended"
  /\ inquiries' = [inquiries EXCEPT ![i] = Sent(@)]
  /\ init' = InitAfterSend(init)
  /\ UNCHANGED <<dcase, finish, lead, creates, thawed>>

Answered(inq) == [inq EXCEPT !.status = "completed",
                             !.answer = "completed",
                             !.check  = "ready"]

(* The invited service answers: "fill-inquiry" is completed, which         *)
(* completes the child case, which completes the inquiry, whose flow       *)
(* creates a "check-inquiries" item for the inviting service.              *)
AnswerInquiry(i) ==
  /\ dcase = "running"
  /\ inquiries[i].answer = "ready"
  /\ inquiries[i].status = "ready"
  /\ inquiries' = [inquiries EXCEPT ![i] = Answered(@)]
  /\ UNCHANGED <<dcase, init, finish, lead, creates, thawed>>

Cancelled(status) == IF status \in OpenStatus THEN "canceled" ELSE status

(* The inquiry is withdrawn; a running child case is cancelled with it.    *)
Withdrawn(inq) == [inq EXCEPT !.status = "canceled", !.answer = Cancelled(@)]

WithdrawInquiry(i) ==
  /\ dcase = "running"
  /\ inquiries[i].status \in OpenStatus
  /\ inquiries' = [inquiries EXCEPT ![i] = Withdrawn(@)]
  /\ UNCHANGED <<dcase, init, finish, lead, creates, thawed>>

Checked(inq) == [inq EXCEPT !.check = "completed"]

(* The inviting service has read the answer.                               *)
CheckInquiry(i) ==
  /\ dcase = "running"
  /\ inquiries[i].check = "ready"
  /\ inquiries' = [inquiries EXCEPT ![i] = Checked(@)]
  /\ UNCHANGED <<dcase, init, finish, lead, creates, thawed>>

(* "init-distribution" is completed without an inquiry having been sent.   *)
CompleteInit ==
  /\ dcase = "running"
  /\ init = "ready"
  /\ init' = "completed"
  /\ UNCHANGED <<dcase, finish, lead, creates, inquiries, thawed>>

-----------------------------------------------------------------------------
(* The end of a distribution.                                              *)

(* Skipping an unanswered inquiry cancels its child case and, like an      *)
(* answer, continues the flow with a "check-inquiries" item.               *)
SkipUnansweredMutant(inq) ==
  [inq EXCEPT !.status = "skipped", !.answer = "canceled", !.check = "ready"]
SkipUnanswered(inq) ==
  IF inq.status = "ready"
  THEN [inq EXCEPT !.status = "skipped", !.answer = "canceled", !.check = "ready"]
  ELSE inq

CancelOpen(inq) == [inq EXCEPT !.status = Cancelled(@),
                               !.answer = Cancelled(@),
                               !.check  = Cancelled(@)]

(* The lead ends the distribution: unanswered inquiries are skipped first, *)
(* then everything that is still open is cancelled; with nothing left open *)
(* the child case is completed.                                            *)
EndedMutant(inq) == LET skipped == SkipUnanswered(inq)
                    IN [skipped EXCEPT !.check = Cancelled(@)]
EndedLateMutant(inq) == SkipUnanswered(inq)
Ended(inq) == CancelOpen(SkipUnanswered(inq))

CompleteDistribution ==
  /\ dcase = "running"
  /\ finish = "ready"
  /\ inquiries' = [i \in 1..Len(inquiries) |-> Ended(inquiries[i])]
  /\ creates' = [s \in Services |-> 0]
  /\ init' = Cancelled(init)
  /\ finish' = "completed"
  /\ dcase' = "completed"
  /\ UNCHANGED <<lead, thawed>>

(* The work item "distribution" is skipped, or the whole case cancelled.   *)
CancelDistribution ==
  /\ dcase \in {"running", "suspended"}
  /\ inquiries' = [i \in 1..Len(inquiries) |-> CancelOpen(inquiries[i])]
  /\ creates' = [s \in Services |-> 0]
  /\ init' = Cancelled(init)
  /\ finish' = Cancelled(finish)
  /\ dcase' = "canceled"
  /\ UNCHANGED <<lead, thawed>>

Suspended(status) == IF status = "ready" THEN "suspended" ELSE status

SuspendOpen(inq) == [inq EXCEPT !.status = Suspended(@),
                                !.answer = Suspended(@),
                                !.check  = Suspended(@)]

(* The whole case is suspended, and every READY item with it.              *)
SuspendDistribution ==
  /\ dcase = "running"
  /\ inquiries' = [i \in 1..Len(inquiries) |-> SuspendOpen(inquiries[i])]
  /\ init' = Suspended(init)
  /\ finish' = Suspended(finish)
  /\ dcase' = "suspended"
  /\ UNCHANGED <<lead, creates, thawed>>

(* The case is resumed, and every suspended item with it.  The handler of  *)
(* resumed inquiries treats each like a draft that is sent: it starts a    *)
(* child case, a second one for an inquiry that had been sent before, and  *)
(* completes "init-distribution" if that is READY already.  So this item   *)
(* is left READY only if no inquiry is resumed after it.                   *)
Resumed(status) == IF status = "suspended" THEN "ready" ELSE status

ResumeOpen(inq) ==
  IF inq.status = "suspended"
  THEN [Sent(inq) EXCEPT !.abandoned = @ \/ inq.answer # "none"]
  ELSE [inq EXCEPT !.check = Resumed(@)]

InitAfterResume ==
  IF \E i \in 1..Len(inquiries) : inquiries[i].status = "suspended"
  THEN {Resumed(init), InitAfterSend(Resumed(init))}
  ELSE {Resumed(init)}

ResumeDistribution ==
  /\ dcase = "suspended"
  /\ inquiries' = [i \in 1..Len(inquiries) |-> ResumeOpen(inquiries[i])]
  /\ init' \in InitAfterResume
  /\ finish' = Resumed(finish)
  /\ dcase' = "running"
  /\ thawed' = TRUE
  /\ UNCHANGED <<lead, creates>>

(* The new lead may invite at once, unless the distribution is suspended.  *)
InvitersOfLeadMutant(authority) == creates
InvitersOfLead(authority) ==
  IF dcase = "running" /\ creates[authority] = 0
  THEN [creates EXCEPT ![authority] = 1]
  ELSE creates

(* The responsible authority changes.  The open items addressed to the old *)
(* one are readdressed, its "create-inquiry" item stays, and a running     *)
(* distribution gets one for the new lead if it has none.                  *)
ReassignDistribution(old, authority) ==
  /\ dcase \in {"running", "suspended"}
  /\ lead' = IF lead = old THEN authority ELSE lead
  /\ creates' = InvitersOfLead(authority)
  /\ UNCHANGED <<dcase, init, finish, inquiries, thawed>>

-----------------------------------------------------------------------------

(* The lists of distinct services one request may invite.                  *)
TargetLists ==
  {t \in UNION {[1..n -> Everyone] : n \in 1..MaxTargets} :
     \A j, k \in DOMAIN t : t[j] = t[k] => j = k}

DistNext ==
  \/ \E a \in Authorities : StartDistribution(a)
  \/ \E s \in Services, targets \in TargetLists : CreateInquiries(s, targets)
  \/ \E i \in 1..Len(inquiries) : SendInquiry(i)
  \/ \E i \in 1..Len(inquiries) : AnswerInquiry(i)
  \/ \E i \in 1..Len(inquiries) : WithdrawInquiry(i)
  \/ \E i \in 1..Len(inquiries) : CheckInquiry(i)
  \/ CompleteInit
  \/ CompleteDistribution
  \/ CancelDistribution
  \/ SuspendDistribution
  \/ ResumeDistribution
  \/ \E a \in Authorities : ReassignDistribution(lead, a)

DistSpec == DistInit /\ [][DistNext]_distVars

-----------------------------------------------------------------------------
(* Properties.                                                             *)

(* No service ever has two open "create-inquiry" items in a distribution,  *)
(* however often it invites, is invited, or becomes the lead: the promise  *)
(* of dynamic_groups.py ("We should not create a new create-inquiry work   *)
(* item if there already is a ready one") and of distribution_analyze.     *)
OneCreateInquiry == \A s \in Services : creates[s] <= 1

Involved == {inquiries[i].from : i \in 1..Len(inquiries)}
              \cup {inquiries[i].to : i \in 1..Len(inquiries)}

(* While the distribution runs, every service without parent that invited  *)
(* or was invited can (still) invite, and so can the lead: no order of     *)
(* invitations, suspensions and changes of the lead leaves one without its *)
(* "create-inquiry" item, but for a lead that took over a distribution     *)
(* while it was suspended, and got none.                                   *)
InvolvedCanInvite ==
  dcase = "running" =>
    /\ \A s \in Involved \cap Services : creates[s] > 0
    /\ creates[lead] > 0 \/ thawed

(* Before the circulation has begun nobody has been asked: there are only  *)
(* unsent and withdrawn inquiries, as distribution_analyze demands.  What  *)
(* breaks this rule is a resumption, which sends the drafts even if it     *)
(* leaves "init-distribution" open, and nothing else.                      *)
OnlyDraftsBeforeStart ==
  init \in OpenStatus /\ ~thawed =>
    \A i \in 1..Len(inquiries) :
      /\ inquiries[i].status \in {"suspended", "canceled"}
      /\ inquiries[i].answer = "none"

(* An inquiry and the item of its child case agree, whatever closes them:  *)
(* one is waiting exactly while the other is, in a running distribution    *)
(* and when the dossier has been rejected.  That an inquiry has abandoned  *)
(* an item which asks for an answer as well, comes of a resumption alone.  *)
AnswerMatchesInquiry ==
  \A i \in 1..Len(inquiries) :
    LET inq == inquiries[i] IN
      /\ (inq.status = "ready") <=> (inq.answer = "ready")
      /\ (inq.answer = "suspended") => (inq.status = "suspended" /\ dcase = "suspended")
      /\ (inq.status = "completed") <=> (inq.answer = "completed")
      /\ inq.abandoned => (thawed /\ inq.answer # "none")

(* A distribution that is over has no open item at any level: nobody is    *)
(* still asked to answer, to read an answer or to invite.  This is said of *)
(* the items below the distribution; those that a resumption abandoned are *)
(* not among them, and stay open.                                          *)
NothingOpenAtEnd ==
  dcase \in {"completed", "canceled"} =>
    /\ {init, finish} \cap OpenStatus = {}
    /\ \A s \in Services : creates[s] = 0
    /\ \A i \in 1..Len(inquiries) :
         {inquiries[i].status, inquiries[i].answer, inquiries[i].check}
           \cap OpenStatus = {}

(* An answer given is never lost, reopened or redirected, and its reader   *)
(* is told about it: the "check-inquiries" item exists from then on.       *)
AnswersAreFinal ==
  [][\A i \in 1..Len(inquiries) :
       inquiries[i].answer = "completed" =>
         /\ i \in 1..Len(inquiries')
         /\ inquiries'[i].answer = "completed"
         /\ inquiries'[i].check # "none"
         /\ inquiries'[i].to = inquiries[i].to]_distVars

(* The distribution implements a consultation.  A question is asked while  *)
(* its inquiry waits for the answer, be it suspended with the whole case;  *)
(* a suspended inquiry without a child case is a draft.                    *)
PhaseOf ==
  CASE dcase = "none" -> "idle"
    [] dcase \in {"running", "suspended"} ->
         IF init \in OpenStatus THEN "preparing" ELSE "circulating"
    [] OTHER -> "over"

StateOf(inq) ==
  CASE inq.status = "completed"                           -> "answered"
    [] inq.status \in OpenStatus /\ inq.answer = "none"   -> "draft"
    [] inq.status \in OpenStatus /\ inq.answer # "none"   -> "asked"
    [] OTHER                                              -> "dropped"

QuestionOf(inq) == [from |-> inq.from, to |-> inq.to, state |-> StateOf(inq)]

C == INSTANCE Consultation WITH
       Askers    <- Services,
       Answerers <- Everyone,
       phase     <- PhaseOf,
       frozen    <- dcase = "suspended",
       questions <- [i \in 1..Len(inquiries) |-> QuestionOf(inquiries[i])]

(* Every behaviour of work items, child cases and handlers is one of the   *)
(* abstract consultation.                                                  *)
ImplementsConsultation == C!Spec

=============================================================================

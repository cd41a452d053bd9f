------------------------- MODULE DistributionProofs -------------------------
(***************************************************************************)
(* Proofs about the distribution, for every number of services, inquiries  *)
(* and invitations.                                                        *)
(***************************************************************************)
EXTENDS Distribution, SequenceTheorems, TLAPS

-----------------------------------------------------------------------------
(* What the handlers do to one inquiry.                                    *)

(* Every handler turns an inquiry into an inquiry.                         *)
LEMMA InquiryOperators ==
  ASSUME NEW inq \in Inquiry
  PROVE  /\ Sent(inq) \in Inquiry
         /\ Answered(inq) \in Inquiry
         /\ Withdrawn(inq) \in Inquiry
         /\ Checked(inq) \in Inquiry
         /\ Ended(inq) \in Inquiry
         /\ CancelOpen(inq) \in Inquiry
         /\ SuspendOpen(inq) \in Inquiry
         /\ ResumeOpen(inq) \in Inquiry
<1>1. /\ \A x \in ItemStatus : /\ Cancelled(x) \in ItemStatus
                               /\ Suspended(x) \in ItemStatus
                               /\ Resumed(x) \in ItemStatus
      /\ {"ready", "completed", "canceled", "skipped"} \subseteq ItemStatus
  BY DEF Cancelled, Suspended, Resumed, ItemStatus, OpenStatus
<1>2. Sent(inq) \in Inquiry /\ Answered(inq) \in Inquiry /\ Checked(inq) \in Inquiry
  BY <1>1 DEF Sent, Answered, Checked, Inquiry
<1>3. Withdrawn(inq) \in Inquiry
  BY <1>1 DEF Withdrawn, Inquiry
<1>4. SkipUnanswered(inq) \in Inquiry
  BY <1>1 DEF SkipUnanswered, Inquiry
<1>5. \A x \in Inquiry : CancelOpen(x) \in Inquiry
  BY <1>1 DEF CancelOpen, Inquiry
<1>6. SuspendOpen(inq) \in Inquiry
  BY <1>1 DEF SuspendOpen, Inquiry
<1>7. ResumeOpen(inq) \in Inquiry
  <2>1. (inq.abandoned \/ inq.answer # "none") \in BOOLEAN
    OBVIOUS
  <2>2. \A x \in Inquiry, b \in BOOLEAN : [x EXCEPT !.abandoned = b] \in Inquiry
    BY DEF Inquiry
  <2>3. Sent(inq).abandoned = inq.abandoned
    BY DEF Sent, Inquiry
  <2>4. CASE inq.status = "suspended"
    BY <1>2, <2>1, <2>2, <2>3, <2>4 DEF ResumeOpen
  <2>5. CASE inq.status # "suspended"
    BY <1>1, <2>5 DEF ResumeOpen, Inquiry
  <2> QED
    BY <2>4, <2>5
<1> QED
  BY <1>2, <1>3, <1>4, <1>5, <1>6, <1>7 DEF Ended

(* A function on 1..n is a sequence of length n.                           *)
LEMMA FunctionIsSeq ==
  ASSUME NEW S, NEW n \in Nat, NEW f \in [1..n -> S]
  PROVE  f \in Seq(S) /\ Len(f) = n
<1>1. f \in Seq(S)
  BY SeqDef
<1>2. DOMAIN f = 1..n /\ DOMAIN f = 1..Len(f) /\ Len(f) \in Nat
  BY <1>1, LenProperties
<1> QED
  BY <1>1, <1>2

(* The targets of a request are a non-empty sequence of services.          *)
LEMMA TargetsAreServices ==
  ASSUME NEW targets \in TargetLists
  PROVE  targets \in Seq(Everyone) /\ Len(targets) > 0
<1>1. PICK n \in 1..MaxTargets : targets \in [1..n -> Everyone]
  BY DEF TargetLists
<1>2. n \in Nat /\ n > 0
  BY DistributionAssumption
<1> QED
  BY <1>1, <1>2, FunctionIsSeq

(* The drafts of a request are one suspended inquiry per target.           *)
LEMMA DraftsAreInquiries ==
  ASSUME NEW s \in Services, NEW targets \in TargetLists
  PROVE  /\ Drafts(s, targets) \in Seq(Inquiry)
         /\ Len(Drafts(s, targets)) = Len(targets)
         /\ \A k \in 1..Len(targets) :
              Drafts(s, targets)[k] = Draft(s, targets[k])
<1>1. targets \in Seq(Everyone) /\ Len(targets) \in Nat
  BY TargetsAreServices, LenProperties
<1>2. \A k \in 1..Len(targets) : targets[k] \in Everyone
  BY <1>1, ElementOfSeq
<1>3. \A k \in 1..Len(targets) : Draft(s, targets[k]) \in Inquiry
  BY <1>2 DEF Draft, Inquiry, ItemStatus
<1>4. Drafts(s, targets) \in [1..Len(targets) -> Inquiry]
  BY <1>3 DEF Drafts
<1>5. Drafts(s, targets) \in Seq(Inquiry) /\ Len(Drafts(s, targets)) = Len(targets)
  BY <1>1, <1>4, FunctionIsSeq
<1> QED
  BY <1>5 DEF Drafts

-----------------------------------------------------------------------------
(* Types.                                                                  *)

LEMMA TypeInit == DistInit => DistTypeOK
<1> SUFFICES ASSUME DistInit PROVE DistTypeOK
  OBVIOUS
<1>1. inquiries \in Seq(Inquiry)
  BY EmptySeq DEF DistInit
<1> QED
  BY <1>1 DEF DistInit, DistTypeOK, CaseStatus, ItemStatus

LEMMA TypeNext == DistTypeOK /\ [DistNext]_distVars => DistTypeOK'
<1> SUFFICES ASSUME DistTypeOK, [DistNext]_distVars
             PROVE  DistTypeOK'
  OBVIOUS
<1> USE DEF DistTypeOK
<1>0. /\ Len(inquiries) \in Nat
      /\ \A i \in 1..Len(inquiries) : inquiries[i] \in Inquiry
  BY LenProperties, ElementOfSeq
<1>1. ASSUME NEW a \in Authorities, StartDistribution(a)
      PROVE  DistTypeOK'
  BY <1>1 DEF StartDistribution, CaseStatus, ItemStatus
<1>2. ASSUME NEW s \in Services, NEW targets \in TargetLists,
             CreateInquiries(s, targets)
      PROVE  DistTypeOK'
  <2>1. inquiries' \in Seq(Inquiry)
    BY <1>2, DraftsAreInquiries, ConcatProperties DEF CreateInquiries
  <2>2. creates' \in [Services -> Nat]
    BY <1>2 DEF CreateInquiries, MayInvite
  <2> QED
    BY <1>2, <2>1, <2>2 DEF CreateInquiries
<1>3. ASSUME NEW i \in 1..Len(inquiries), SendInquiry(i)
      PROVE  DistTypeOK'
  <2>1. inquiries' \in Seq(Inquiry)
    BY <1>0, <1>3, InquiryOperators, ExceptSeq DEF SendInquiry
  <2> QED
    BY <1>3, <2>1 DEF SendInquiry, InitAfterSend, ItemStatus
<1>4. ASSUME NEW i \in 1..Len(inquiries), AnswerInquiry(i)
      PROVE  DistTypeOK'
  <2>1. inquiries' \in Seq(Inquiry)
    BY <1>0, <1>4, InquiryOperators, ExceptSeq DEF AnswerInquiry
  <2> QED
    BY <1>4, <2>1 DEF AnswerInquiry
<1>5. ASSUME NEW i \in 1..Len(inquiries), WithdrawInquiry(i)
      PROVE  DistTypeOK'
  <2>1. inquiries' \in Seq(Inquiry)
    BY <1>0, <1>5, InquiryOperators, ExceptSeq DEF WithdrawInquiry
  <2> QED
    BY <1>5, <2>1 DEF WithdrawInquiry
<1>6. ASSUME NEW i \in 1..Len(inquiries), CheckInquiry(i)
      PROVE  DistTypeOK'
  <2>1. inquiries' \in Seq(Inquiry)
    BY <1>0, <1>6, InquiryOperators, ExceptSeq DEF CheckInquiry
  <2> QED
    BY <1>6, <2>1 DEF CheckInquiry
<1>7. CASE CompleteInit
  BY <1>7 DEF CompleteInit, ItemStatus
<1>8. CASE CompleteDistribution
  <2>1. inquiries' \in [1..Len(inquiries) -> Inquiry]
    BY <1>0, <1>8, InquiryOperators DEF CompleteDistribution
  <2>2. inquiries' \in Seq(Inquiry)
    BY <1>0, <2>1, FunctionIsSeq
  <2> QED
    BY <1>8, <2>2 DEF CompleteDistribution, Cancelled, CaseStatus, ItemStatus
<1>9. CASE CancelDistribution
  <2>1. inquiries' \in [1..Len(inquiries) -> Inquiry]
    BY <1>0, <1>9, InquiryOperators DEF CancelDistribution
  <2>2. inquiries' \in Seq(Inquiry)
    BY <1>0, <2>1, FunctionIsSeq
  <2> QED
    BY <1>9, <2>2 DEF CancelDistribution, Cancelled, CaseStatus, ItemStatus
<1>10. CASE SuspendDistribution
  <2>1. inquiries' \in [1..Len(inquiries) -> Inquiry]
    BY <1>0, <1>10, InquiryOperators DEF SuspendDistribution
  <2>2. inquiries' \in Seq(Inquiry)
    BY <1>0, <2>1, FunctionIsSeq
  <2> QED
    BY <1>10, <2>2 DEF SuspendDistribution, Suspended, CaseStatus, ItemStatus
<1>11. CASE ResumeDistribution
  <2>1. inquiries' \in [1..Len(inquiries) -> Inquiry]
    BY <1>0, <1>11, InquiryOperators DEF ResumeDistribution
  <2>2. inquiries' \in Seq(Inquiry)
    BY <1>0, <2>1, FunctionIsSeq
  <2>3. init' \in ItemStatus /\ finish' \in ItemStatus
    BY <1>11 DEF ResumeDistribution, InitAfterResume, InitAfterSend, Resumed, ItemStatus
  <2> QED
    BY <1>11, <2>2, <2>3 DEF ResumeDistribution, CaseStatus
<1>12. ASSUME NEW a \in Authorities, ReassignDistribution(lead, a)
       PROVE  DistTypeOK'
  BY <1>12 DEF ReassignDistribution, InvitersOfLead
<1>13. CASE UNCHANGED distVars
  BY <1>13 DEF distVars
<1> QED
  BY <1>1, <1>2, <1>3, <1>4, <1>5, <1>6, <1>7, <1>8, <1>9, <1>10, <1>11, <1>12, <1>13
     DEF DistNext

(* Every variable keeps its type: statuses are statuses, the lead is an    *)
(* authority, and no service has a negative number of invitations.         *)
THEOREM TypeCorrect == DistSpec => []DistTypeOK
BY TypeInit, TypeNext, PTL DEF DistSpec

-----------------------------------------------------------------------------
(* The invariant.                                                          *)

(* Nothing exists before the distribution starts; without it a start could *)
(* meet inquiries that nobody drafted in it.                               *)
NothingBeforeStart == dcase = "none" => inquiries = <<>>

Begun == dcase \in {"running", "suspended"}

(* The items of a running distribution are not suspended; without it, an   *)
(* inquiry could be sent and "init-distribution" left as it is.            *)
InitNotSuspended == dcase = "running" => init # "suspended"

(* InvolvedCanInvite, for suspended distributions as well, which resume    *)
(* with the "create-inquiry" items that they have.                         *)
PartiesCanInvite == Begun => \A s \in Involved \cap Services : creates[s] > 0

LeadCanInvite ==
  Begun => /\ lead \in Authorities
           /\ creates[lead] > 0 \/ dcase = "suspended" \/ thawed

DistInv ==
  /\ DistTypeOK
  /\ NothingBeforeStart
  /\ InitNotSuspended
  /\ OneCreateInquiry
  /\ PartiesCanInvite
  /\ LeadCanInvite
  /\ OnlyDraftsBeforeStart
  /\ AnswerMatchesInquiry
  /\ NothingOpenAtEnd

(* The part of AnswerMatchesInquiry about one inquiry.                     *)
Matches(inq, caseStatus, resumed) ==
  /\ (inq.status = "ready") <=> (inq.answer = "ready")
  /\ (inq.answer = "suspended") => (inq.status = "suspended" /\ caseStatus = "suspended")
  /\ (inq.status = "completed") <=> (inq.answer = "completed")
  /\ inq.abandoned => (resumed /\ inq.answer # "none")

(* Every handler keeps an inquiry and the item of its child case in step.  *)
LEMMA HandlersKeepMatch ==
  ASSUME NEW inq \in Inquiry, NEW c, NEW t \in BOOLEAN, Matches(inq, c, t)
  PROVE  /\ c = "running" /\ inq.status = "suspended" => Matches(Sent(inq), c, t)
         /\ Matches(Answered(inq), c, t)
         /\ inq.status \in OpenStatus => Matches(Withdrawn(inq), c, t)
         /\ Matches(Checked(inq), c, t)
         /\ Matches(Ended(inq), "completed", t)
         /\ Matches(CancelOpen(inq), "canceled", t)
         /\ c = "running" => Matches(SuspendOpen(inq), "suspended", t)
         /\ Matches(ResumeOpen(inq), "running", TRUE)
<1>1. /\ c = "running" /\ inq.status = "suspended" => Matches(Sent(inq), c, t)
      /\ Matches(Answered(inq), c, t)
      /\ inq.status \in OpenStatus => Matches(Withdrawn(inq), c, t)
      /\ Matches(Checked(inq), c, t)
  BY DEF Matches, Inquiry, ItemStatus, OpenStatus, Sent, Answered, Withdrawn, Checked,
         Cancelled
<1>2. /\ Matches(Ended(inq), "completed", t)
      /\ Matches(CancelOpen(inq), "canceled", t)
      /\ c = "running" => Matches(SuspendOpen(inq), "suspended", t)
  BY DEF Matches, Inquiry, ItemStatus, OpenStatus, Ended, SkipUnanswered, CancelOpen,
         SuspendOpen, Cancelled, Suspended
<1>3. Matches(ResumeOpen(inq), "running", TRUE)
  <2>1. CASE inq.status = "suspended"
    <3>1. /\ ResumeOpen(inq).status = "ready" /\ ResumeOpen(inq).answer = "ready"
      BY <2>1 DEF ResumeOpen, Sent, Inquiry
    <3> QED
      BY <3>1 DEF Matches
  <2>2. CASE inq.status # "suspended"
    <3>1. /\ ResumeOpen(inq).status = inq.status /\ ResumeOpen(inq).answer = inq.answer
          /\ ResumeOpen(inq).abandoned = inq.abandoned
      BY <2>2 DEF ResumeOpen, Inquiry
    <3> QED
      BY <2>2, <3>1 DEF Matches
  <2> QED
    BY <2>1, <2>2
<1> QED
  BY <1>1, <1>2, <1>3

(* A handler changes no party of an inquiry.                               *)
LEMMA HandlersKeepParties ==
  ASSUME NEW inq \in Inquiry,
         NEW out \in {Sent(inq), Answered(inq), Withdrawn(inq), Checked(inq),
                      Ended(inq), CancelOpen(inq), SuspendOpen(inq), ResumeOpen(inq)}
  PROVE  out.from = inq.from /\ out.to = inq.to
BY DEF Inquiry, Sent, Answered, Withdrawn, Checked, Ended, SkipUnanswered,
       CancelOpen, SuspendOpen, ResumeOpen

(* Whatever ends a distribution leaves no item of an inquiry open.         *)
LEMMA EndCloses ==
  ASSUME NEW inq \in Inquiry, NEW out \in {Ended(inq), CancelOpen(inq)}
  PROVE  {out.status, out.answer, out.check} \cap OpenStatus = {}
BY DEF Inquiry, ItemStatus, OpenStatus, Ended, SkipUnanswered, CancelOpen, Cancelled

LEMMA InvariantInit == DistInit => DistInv
<1> SUFFICES ASSUME DistInit PROVE DistInv
  OBVIOUS
<1>1. DistTypeOK
  BY TypeInit
<1>2. inquiries = <<>> /\ Len(inquiries) = 0
  BY DEF DistInit
<1>3. /\ dcase = "none" /\ init = "none"
      /\ \A s \in Services : creates[s] = 0
  BY DEF DistInit
<1> QED
  BY <1>1, <1>2, <1>3 DEF DistInv, NothingBeforeStart, InitNotSuspended, OneCreateInquiry,
     PartiesCanInvite, LeadCanInvite, Begun, OnlyDraftsBeforeStart, AnswerMatchesInquiry,
     NothingOpenAtEnd

LEMMA InvariantNext == DistInv /\ [DistNext]_distVars => DistInv'
<1> SUFFICES ASSUME DistInv, [DistNext]_distVars
             PROVE  DistInv'
  OBVIOUS
<1> USE DEF DistInv
<1>T. DistTypeOK'
  BY TypeNext
<1>0. /\ inquiries \in Seq(Inquiry)
      /\ Len(inquiries) \in Nat
      /\ \A i \in 1..Len(inquiries) : inquiries[i] \in Inquiry
      /\ \A i \in 1..Len(inquiries) : Matches(inquiries[i], dcase, thawed)
      /\ creates \in [Services -> Nat]
      /\ thawed \in BOOLEAN /\ Authorities \subseteq Services
  BY LenProperties, ElementOfSeq, DistributionAssumption
     DEF DistTypeOK, AnswerMatchesInquiry, Matches
<1>1. ASSUME NEW a \in Authorities, StartDistribution(a)
      PROVE  DistInv'
  <2>1. /\ dcase = "none" /\ dcase' = "running" /\ lead' = a
        /\ inquiries' = inquiries /\ inquiries = <<>> /\ Len(inquiries) = 0
        /\ init' = "ready" /\ \A s \in Services : creates'[s] = IF s = a THEN 1 ELSE 0
    BY <1>1 DEF StartDistribution, NothingBeforeStart
  <2>2. LeadCanInvite'
    BY <1>0, <2>1 DEF LeadCanInvite
  <2> QED
    BY <1>T, <2>1, <2>2 DEF NothingBeforeStart, InitNotSuspended, OneCreateInquiry,
       PartiesCanInvite, Involved, OnlyDraftsBeforeStart, AnswerMatchesInquiry,
       NothingOpenAtEnd
<1>2. ASSUME NEW s \in Services, NEW targets \in TargetLists,
             CreateInquiries(s, targets)
      PROVE  DistInv'
  <2> DEFINE invited == {targets[k] : k \in 1..Len(targets)}
  <2>1. /\ dcase = "running" /\ dcase' = dcase /\ init' = init /\ lead' = lead
        /\ thawed' = thawed /\ creates[s] > 0
        /\ inquiries' = inquiries \o Drafts(s, targets)
    BY <1>2 DEF CreateInquiries, MayInvite
  <2>2. Len(targets) \in Nat /\ \A k \in 1..Len(targets) : targets[k] \in Everyone
    BY TargetsAreServices, LenProperties, ElementOfSeq
  <2>3. \A i \in 1..Len(inquiries') :
          \/ i \in 1..Len(inquiries) /\ inquiries'[i] = inquiries[i]
          \/ \E k \in 1..Len(targets) : inquiries'[i] = Draft(s, targets[k])
    <3> DEFINE new == Drafts(s, targets)
    <3>1. /\ new \in Seq(Inquiry) /\ Len(new) = Len(targets)
          /\ \A k \in 1..Len(targets) : new[k] = Draft(s, targets[k])
      BY DraftsAreInquiries
    <3> HIDE DEF new
    <3>2. /\ Len(inquiries \o new) = Len(inquiries) + Len(new)
          /\ \A i \in 1..Len(inquiries) + Len(new) :
               (inquiries \o new)[i] = IF i <= Len(inquiries) THEN inquiries[i]
                                       ELSE new[i - Len(inquiries)]
      BY <1>0, <3>1, ConcatProperties
    <3>3. inquiries' = inquiries \o new
      BY <2>1 DEF new
    <3> SUFFICES ASSUME NEW i \in 1..Len(inquiries')
                 PROVE  \/ i \in 1..Len(inquiries) /\ inquiries'[i] = inquiries[i]
                        \/ \E k \in 1..Len(targets) : inquiries'[i] = Draft(s, targets[k])
      OBVIOUS
    <3>4. CASE i <= Len(inquiries)
      BY <1>0, <3>1, <3>2, <3>3, <3>4
    <3>5. CASE i > Len(inquiries)
      <4>1. i - Len(inquiries) \in 1..Len(targets)
        BY <1>0, <2>2, <3>1, <3>2, <3>3, <3>5
      <4>2. inquiries'[i] = new[i - Len(inquiries)]
        BY <1>0, <2>2, <3>1, <3>2, <3>3, <3>5
      <4>3. inquiries'[i] = Draft(s, targets[i - Len(inquiries)])
        BY <3>1, <4>1, <4>2
      <4> QED
        BY <4>1, <4>3
    <3>6. i \in Nat
      BY <1>0, <2>2, <3>1, <3>2, <3>3
    <3> QED
      BY <1>0, <3>4, <3>5, <3>6
  <2>11. \A k \in 1..Len(targets) :
           /\ Draft(s, targets[k]).from = s /\ Draft(s, targets[k]).to \in invited
           /\ Draft(s, targets[k]).status = "suspended"
           /\ Draft(s, targets[k]).answer = "none"
           /\ ~Draft(s, targets[k]).abandoned
    BY DEF Draft
  <2>12. \A i \in 1..Len(inquiries') :
           \/ i \in 1..Len(inquiries) /\ inquiries'[i] = inquiries[i]
           \/ /\ inquiries'[i].from = s /\ inquiries'[i].to \in invited
              /\ inquiries'[i].status = "suspended" /\ inquiries'[i].answer = "none"
              /\ ~inquiries'[i].abandoned
    BY <2>3, <2>11
  <2>4. \A x \in Services :
          LET rest == IF x = s THEN creates[x] - 1 ELSE creates[x]
          IN  creates'[x] = IF x \in invited \cup {s} /\ rest = 0 THEN rest + 1 ELSE rest
    <3> DEFINE open == [creates EXCEPT ![s] = @ - 1]
    <3>1. \A x \in Services : open[x] = IF x = s THEN creates[x] - 1 ELSE creates[x]
      BY <1>0
    <3>2. \A x \in Services : open[x] \in Int
      BY <1>0, <3>1
    <3>3. creates' = [x \in Services |->
                        open[x] + (IF x \in NewInviters(open, s, invited) THEN 1 ELSE 0)]
      BY <1>2 DEF CreateInquiries
    <3> HIDE DEF open, invited
    <3>4. \A x \in Services : x \in NewInviters(open, s, invited)
                                <=> x \in invited \cup {s} /\ open[x] = 0
      BY DEF NewInviters
    <3> SUFFICES ASSUME NEW x \in Services
                 PROVE  creates'[x] = IF x \in invited \cup {s} /\ open[x] = 0
                                      THEN open[x] + 1 ELSE open[x]
      BY <3>1
    <3>5. creates'[x] = open[x] + (IF x \in NewInviters(open, s, invited) THEN 1 ELSE 0)
      BY <3>3
    <3> QED
      BY <3>2, <3>4, <3>5
  <2>5. \A x \in Services : creates[x] \in Nat /\ creates[x] <= 1
    BY <1>0 DEF OneCreateInquiry
  <2>6. NothingBeforeStart' /\ InitNotSuspended' /\ NothingOpenAtEnd'
    BY <2>1 DEF NothingBeforeStart, InitNotSuspended, NothingOpenAtEnd
  <2>7. OneCreateInquiry'
    BY <2>4, <2>5 DEF OneCreateInquiry
  <2>8. PartiesCanInvite'
    <3>1. Involved' \subseteq Involved \cup invited \cup {s}
      <4>1. \A i \in 1..Len(inquiries') :
              {inquiries'[i].from, inquiries'[i].to} \subseteq Involved \cup invited \cup {s}
        BY <2>12 DEF Involved
      <4> QED
        BY <2>1, <4>1 DEF Involved
    <3>2. \A x \in Involved \cap Services : creates[x] > 0
      BY <2>1 DEF PartiesCanInvite, Begun
    <3>3. \A x \in (invited \cup {s}) \cap Services : creates'[x] > 0
      BY <2>1, <2>4, <2>5
    <3>4. \A x \in Involved \cap Services : creates'[x] > 0
      BY <2>1, <2>4, <2>5, <3>2
    <3> QED
      BY <3>1, <3>3, <3>4 DEF PartiesCanInvite
  <2>13. LeadCanInvite'
    <3>1. lead \in Services /\ (creates[lead] > 0 \/ thawed)
      BY <1>0, <2>1 DEF LeadCanInvite, Begun
    <3>2. creates[lead] > 0 => creates'[lead] > 0
      BY <2>4, <2>5, <3>1
    <3> QED
      BY <2>1, <3>1, <3>2 DEF LeadCanInvite, Begun
  <2>9. OnlyDraftsBeforeStart'
    BY <2>1, <2>12 DEF OnlyDraftsBeforeStart
  <2>10. AnswerMatchesInquiry'
    BY <2>1, <2>12 DEF AnswerMatchesInquiry
  <2> QED
    BY <1>T, <2>6, <2>7, <2>8, <2>9, <2>10, <2>13
<1>3. ASSUME NEW i \in 1..Len(inquiries), SendInquiry(i)
      PROVE  DistInv'
  <2>1. /\ dcase = "running" /\ dcase' = dcase /\ lead' = lead /\ thawed' = thawed
        /\ creates' = creates /\ inquiries' = [inquiries EXCEPT ![i] = Sent(@)]
    BY <1>3 DEF SendInquiry
  <2>2. /\ Len(inquiries') = Len(inquiries)
        /\ \A j \in 1..Len(inquiries) :
             inquiries'[j] = IF j = i THEN Sent(inquiries[i]) ELSE inquiries[j]
    BY <1>0, <2>1, InquiryOperators, ExceptSeq
  <2>3. /\ NothingBeforeStart' /\ OneCreateInquiry' /\ NothingOpenAtEnd' /\ LeadCanInvite'
    BY <2>1 DEF NothingBeforeStart, OneCreateInquiry, NothingOpenAtEnd, LeadCanInvite, Begun
  <2>7. InitNotSuspended'
    BY <2>1, <1>3 DEF SendInquiry, InitAfterSend, InitNotSuspended
  <2>4. PartiesCanInvite'
    <3>1. \A j \in 1..Len(inquiries') : /\ inquiries'[j].from = inquiries[j].from
                                        /\ inquiries'[j].to = inquiries[j].to
      BY <1>0, <2>2, HandlersKeepParties
    <3> QED
      BY <2>1, <2>2, <3>1 DEF PartiesCanInvite, Involved, Begun
  <2>5. OnlyDraftsBeforeStart'
    BY <1>0, <1>3, <2>2 DEF SendInquiry, InitAfterSend, InitNotSuspended, OpenStatus,
       OnlyDraftsBeforeStart
  <2>6. AnswerMatchesInquiry'
    <3>1. Matches(Sent(inquiries[i]), dcase, thawed)
      BY <1>0, <1>3, <2>1, HandlersKeepMatch DEF SendInquiry
    <3> QED
      BY <1>0, <2>1, <2>2, <3>1 DEF AnswerMatchesInquiry, Matches
  <2> QED
    BY <1>T, <2>3, <2>4, <2>5, <2>6, <2>7
<1>4. ASSUME NEW i \in 1..Len(inquiries), AnswerInquiry(i)
      PROVE  DistInv'
  <2>1. /\ dcase = "running" /\ dcase' = dcase /\ lead' = lead /\ thawed' = thawed
        /\ creates' = creates /\ inquiries' = [inquiries EXCEPT ![i] = Answered(@)]
    BY <1>4 DEF AnswerInquiry
  <2>2. /\ Len(inquiries') = Len(inquiries)
        /\ \A j \in 1..Len(inquiries) :
             inquiries'[j] = IF j = i THEN Answered(inquiries[i]) ELSE inquiries[j]
    BY <1>0, <2>1, InquiryOperators, ExceptSeq
  <2>3. /\ NothingBeforeStart' /\ OneCreateInquiry' /\ NothingOpenAtEnd' /\ LeadCanInvite'
    BY <2>1 DEF NothingBeforeStart, OneCreateInquiry, NothingOpenAtEnd, LeadCanInvite, Begun
  <2>7. InitNotSuspended'
    BY <2>1, <1>4 DEF AnswerInquiry, InitNotSuspended
  <2>4. PartiesCanInvite'
    <3>1. \A j \in 1..Len(inquiries') : /\ inquiries'[j].from = inquiries[j].from
                                        /\ inquiries'[j].to = inquiries[j].to
      BY <1>0, <2>2, HandlersKeepParties
    <3> QED
      BY <2>1, <2>2, <3>1 DEF PartiesCanInvite, Involved, Begun
  <2>5. OnlyDraftsBeforeStart'
    BY <1>0, <1>4, <2>2 DEF AnswerInquiry, OnlyDraftsBeforeStart
  <2>6. AnswerMatchesInquiry'
    <3>1. Matches(Answered(inquiries[i]), dcase, thawed)
      BY <1>0, <1>4, <2>1, HandlersKeepMatch DEF AnswerInquiry
    <3> QED
      BY <1>0, <2>1, <2>2, <3>1 DEF AnswerMatchesInquiry, Matches
  <2> QED
    BY <1>T, <2>3, <2>4, <2>5, <2>6, <2>7
<1>5. ASSUME NEW i \in 1..Len(inquiries), WithdrawInquiry(i)
      PROVE  DistInv'
  <2>1. /\ dcase = "running" /\ dcase' = dcase /\ lead' = lead /\ thawed' = thawed
        /\ creates' = creates /\ inquiries' = [inquiries EXCEPT ![i] = Withdrawn(@)]
    BY <1>5 DEF WithdrawInquiry
  <2>2. /\ Len(inquiries') = Len(inquiries)
        /\ \A j \in 1..Len(inquiries) :
             inquiries'[j] = IF j = i THEN Withdrawn(inquiries[i]) ELSE inquiries[j]
    BY <1>0, <2>1, InquiryOperators, ExceptSeq
  <2>3. /\ NothingBeforeStart' /\ OneCreateInquiry' /\ NothingOpenAtEnd' /\ LeadCanInvite'
    BY <2>1 DEF NothingBeforeStart, OneCreateInquiry, NothingOpenAtEnd, LeadCanInvite, Begun
  <2>7. InitNotSuspended'
    BY <2>1, <1>5 DEF WithdrawInquiry, InitNotSuspended
  <2>4. PartiesCanInvite'
    <3>1. \A j \in 1..Len(inquiries') : /\ inquiries'[j].from = inquiries[j].from
                                        /\ inquiries'[j].to = inquiries[j].to
      BY <1>0, <2>2, HandlersKeepParties
    <3> QED
      BY <2>1, <2>2, <3>1 DEF PartiesCanInvite, Involved, Begun
  <2>5. OnlyDraftsBeforeStart'
    BY <1>0, <1>5, <2>2 DEF WithdrawInquiry, Withdrawn, Inquiry, Cancelled, OpenStatus,
       OnlyDraftsBeforeStart
  <2>6. AnswerMatchesInquiry'
    <3>1. Matches(Withdrawn(inquiries[i]), dcase, thawed)
      BY <1>0, <1>5, <2>1, HandlersKeepMatch DEF WithdrawInquiry
    <3> QED
      BY <1>0, <2>1, <2>2, <3>1 DEF AnswerMatchesInquiry, Matches
  <2> QED
    BY <1>T, <2>3, <2>4, <2>5, <2>6, <2>7
<1>6. ASSUME NEW i \in 1..Len(inquiries), CheckInquiry(i)
      PROVE  DistInv'
  <2>1. /\ dcase = "running" /\ dcase' = dcase /\ lead' = lead /\ thawed' = thawed
        /\ creates' = creates /\ inquiries' = [inquiries EXCEPT ![i] = Checked(@)]
    BY <1>6 DEF CheckInquiry
  <2>2. /\ Len(inquiries') = Len(inquiries)
        /\ \A j \in 1..Len(inquiries) :
             inquiries'[j] = IF j = i THEN Checked(inquiries[i]) ELSE inquiries[j]
    BY <1>0, <2>1, InquiryOperators, ExceptSeq
  <2>3. /\ NothingBeforeStart' /\ OneCreateInquiry' /\ NothingOpenAtEnd' /\ LeadCanInvite'
    BY <2>1 DEF NothingBeforeStart, OneCreateInquiry, NothingOpenAtEnd, LeadCanInvite, Begun
  <2>7. InitNotSuspended'
    BY <2>1, <1>6 DEF CheckInquiry, InitNotSuspended
  <2>4. PartiesCanInvite'
    <3>1. \A j \in 1..Len(inquiries') : /\ inquiries'[j].from = inquiries[j].from
                                        /\ inquiries'[j].to = inquiries[j].to
      BY <1>0, <2>2, HandlersKeepParties
    <3> QED
      BY <2>1, <2>2, <3>1 DEF PartiesCanInvite, Involved, Begun
  <2>5. OnlyDraftsBeforeStart'
    BY <1>0, <1>6, <2>2 DEF CheckInquiry, Checked, Inquiry, OnlyDraftsBeforeStart
  <2>6. AnswerMatchesInquiry'
    <3>1. Matches(Checked(inquiries[i]), dcase, thawed)
      BY <1>0, <1>6, <2>1, HandlersKeepMatch DEF CheckInquiry
    <3> QED
      BY <1>0, <2>1, <2>2, <3>1 DEF AnswerMatchesInquiry, Matches
  <2> QED
    BY <1>T, <2>3, <2>4, <2>5, <2>6, <2>7
<1>7. CASE CompleteInit
  BY <1>T, <1>7 DEF CompleteInit, NothingBeforeStart, InitNotSuspended, OneCreateInquiry,
     PartiesCanInvite, LeadCanInvite, Begun, Involved, OnlyDraftsBeforeStart, OpenStatus,
     AnswerMatchesInquiry, NothingOpenAtEnd
<1>8. CASE CompleteDistribution
  <2>1. /\ dcase' = "completed" /\ creates' = [s \in Services |-> 0]
        /\ init' = Cancelled(init) /\ finish' \notin OpenStatus /\ thawed' = thawed
        /\ inquiries' = [i \in 1..Len(inquiries) |-> Ended(inquiries[i])]
    BY <1>8 DEF CompleteDistribution, Cancelled, OpenStatus
  <2>2. /\ Len(inquiries') = Len(inquiries)
        /\ \A i \in 1..Len(inquiries) : inquiries'[i] = Ended(inquiries[i])
    <3>1. inquiries' \in [1..Len(inquiries) -> Inquiry]
      BY <1>0, <2>1, InquiryOperators
    <3> QED
      BY <1>0, <2>1, <3>1, FunctionIsSeq
  <2>3. NothingBeforeStart' /\ InitNotSuspended' /\ OneCreateInquiry'
    BY <2>1 DEF NothingBeforeStart, InitNotSuspended, OneCreateInquiry
  <2>7. PartiesCanInvite' /\ LeadCanInvite'
    BY <2>1 DEF PartiesCanInvite, LeadCanInvite, Begun
  <2>4. OnlyDraftsBeforeStart'
    BY <2>1 DEF OnlyDraftsBeforeStart, Cancelled, OpenStatus
  <2>5. AnswerMatchesInquiry'
    <3>1. \A i \in 1..Len(inquiries) : Matches(Ended(inquiries[i]), "completed", thawed)
      BY <1>0, HandlersKeepMatch
    <3> QED
      BY <2>1, <2>2, <3>1 DEF AnswerMatchesInquiry, Matches
  <2>6. NothingOpenAtEnd'
    <3>1. \A i \in 1..Len(inquiries) :
            {Ended(inquiries[i]).status, Ended(inquiries[i]).answer,
             Ended(inquiries[i]).check} \cap OpenStatus = {}
      BY <1>0, EndCloses
    <3>2. init' \notin OpenStatus
      BY <2>1 DEF Cancelled, OpenStatus
    <3> QED
      BY <2>1, <2>2, <3>1, <3>2 DEF NothingOpenAtEnd
  <2> QED
    BY <1>T, <2>3, <2>4, <2>5, <2>6, <2>7
<1>9. CASE CancelDistribution
  <2>1. /\ dcase' = "canceled" /\ creates' = [s \in Services |-> 0]
        /\ init' = Cancelled(init) /\ finish' \notin OpenStatus /\ thawed' = thawed
        /\ inquiries' = [i \in 1..Len(inquiries) |-> CancelOpen(inquiries[i])]
    BY <1>9 DEF CancelDistribution, Cancelled, OpenStatus
  <2>2. /\ Len(inquiries') = Len(inquiries)
        /\ \A i \in 1..Len(inquiries) : inquiries'[i] = CancelOpen(inquiries[i])
    <3>1. inquiries' \in [1..Len(inquiries) -> Inquiry]
      BY <1>0, <2>1, InquiryOperators
    <3> QED
      BY <1>0, <2>1, <3>1, FunctionIsSeq
  <2>3. NothingBeforeStart' /\ InitNotSuspended' /\ OneCreateInquiry'
    BY <2>1 DEF NothingBeforeStart, InitNotSuspended, OneCreateInquiry
  <2>7. PartiesCanInvite' /\ LeadCanInvite'
    BY <2>1 DEF PartiesCanInvite, LeadCanInvite, Begun
  <2>4. OnlyDraftsBeforeStart'
    BY <2>1 DEF OnlyDraftsBeforeStart, Cancelled, OpenStatus
  <2>5. AnswerMatchesInquiry'
    <3>1. \A i \in 1..Len(inquiries) : Matches(CancelOpen(inquiries[i]), "canceled", thawed)
      BY <1>0, HandlersKeepMatch
    <3> QED
      BY <2>1, <2>2, <3>1 DEF AnswerMatchesInquiry, Matches
  <2>6. NothingOpenAtEnd'
    <3>1. \A i \in 1..Len(inquiries) :
            {CancelOpen(inquiries[i]).status, CancelOpen(inquiries[i]).answer,
             CancelOpen(inquiries[i]).check} \cap OpenStatus = {}
      BY <1>0, EndCloses
    <3>2. init' \notin OpenStatus
      BY <2>1 DEF Cancelled, OpenStatus
    <3> QED
      BY <2>1, <2>2, <3>1, <3>2 DEF NothingOpenAtEnd
  <2> QED
    BY <1>T, <2>3, <2>4, <2>5, <2>6, <2>7
<1>10. CASE SuspendDistribution
  <2>1. /\ dcase = "running" /\ dcase' = "suspended" /\ creates' = creates
        /\ lead' = lead /\ thawed' = thawed
        /\ init' = Suspended(init)
        /\ inquiries' = [i \in 1..Len(inquiries) |-> SuspendOpen(inquiries[i])]
    BY <1>10 DEF SuspendDistribution
  <2>2. /\ Len(inquiries') = Len(inquiries)
        /\ \A i \in 1..Len(inquiries) : inquiries'[i] = SuspendOpen(inquiries[i])
    <3>1. inquiries' \in [1..Len(inquiries) -> Inquiry]
      BY <1>0, <2>1, InquiryOperators
    <3> QED
      BY <1>0, <2>1, <3>1, FunctionIsSeq
  <2>3. /\ NothingBeforeStart' /\ InitNotSuspended' /\ OneCreateInquiry'
        /\ NothingOpenAtEnd' /\ LeadCanInvite'
    BY <2>1 DEF NothingBeforeStart, InitNotSuspended, OneCreateInquiry, NothingOpenAtEnd,
       LeadCanInvite, Begun
  <2>4. OnlyDraftsBeforeStart'
    <3>1. \A i \in 1..Len(inquiries) :
            /\ inquiries[i].status \in {"suspended", "canceled"}
                 => SuspendOpen(inquiries[i]).status \in {"suspended", "canceled"}
            /\ inquiries[i].answer = "none" => SuspendOpen(inquiries[i]).answer = "none"
      BY <1>0 DEF SuspendOpen, Suspended, Inquiry
    <3>2. init' \in OpenStatus => init \in OpenStatus
      BY <2>1 DEF Suspended, OpenStatus
    <3> QED
      BY <2>1, <2>2, <3>1, <3>2 DEF OnlyDraftsBeforeStart
  <2>6. PartiesCanInvite'
    <3>1. \A j \in 1..Len(inquiries') : /\ inquiries'[j].from = inquiries[j].from
                                        /\ inquiries'[j].to = inquiries[j].to
      BY <1>0, <2>2, HandlersKeepParties
    <3> QED
      BY <2>1, <2>2, <3>1 DEF PartiesCanInvite, Involved, Begun
  <2>5. AnswerMatchesInquiry'
    <3>1. \A i \in 1..Len(inquiries) : Matches(SuspendOpen(inquiries[i]), "suspended", thawed)
      BY <1>0, <2>1, HandlersKeepMatch
    <3> QED
      BY <2>1, <2>2, <3>1 DEF AnswerMatchesInquiry, Matches
  <2> QED
    BY <1>T, <2>3, <2>4, <2>5, <2>6
<1>11. CASE ResumeDistribution
  <2>1. /\ dcase = "suspended" /\ dcase' = "running" /\ thawed' = TRUE
        /\ creates' = creates /\ lead' = lead
        /\ inquiries' = [i \in 1..Len(inquiries) |-> ResumeOpen(inquiries[i])]
    BY <1>11 DEF ResumeDistribution
  <2>2. /\ Len(inquiries') = Len(inquiries)
        /\ \A i \in 1..Len(inquiries) : inquiries'[i] = ResumeOpen(inquiries[i])
    <3>1. inquiries' \in [1..Len(inquiries) -> Inquiry]
      BY <1>0, <2>1, InquiryOperators
    <3> QED
      BY <1>0, <2>1, <3>1, FunctionIsSeq
  <2>3. /\ NothingBeforeStart' /\ OneCreateInquiry' /\ NothingOpenAtEnd'
        /\ OnlyDraftsBeforeStart' /\ LeadCanInvite'
    BY <2>1 DEF NothingBeforeStart, OneCreateInquiry, NothingOpenAtEnd,
       OnlyDraftsBeforeStart, LeadCanInvite, Begun
  <2>4. InitNotSuspended'
    BY <1>11 DEF ResumeDistribution, InitAfterResume, InitAfterSend, Resumed,
       InitNotSuspended
  <2>5. PartiesCanInvite'
    <3>1. \A j \in 1..Len(inquiries') : /\ inquiries'[j].from = inquiries[j].from
                                        /\ inquiries'[j].to = inquiries[j].to
      BY <1>0, <2>2, HandlersKeepParties
    <3> QED
      BY <2>1, <2>2, <3>1 DEF PartiesCanInvite, Involved, Begun
  <2>6. AnswerMatchesInquiry'
    <3>1. \A i \in 1..Len(inquiries) : Matches(ResumeOpen(inquiries[i]), "running", TRUE)
      BY <1>0, HandlersKeepMatch
    <3> QED
      BY <2>1, <2>2, <3>1 DEF AnswerMatchesInquiry, Matches
  <2> QED
    BY <1>T, <2>3, <2>4, <2>5, <2>6
<1>12. ASSUME NEW a \in Authorities, ReassignDistribution(lead, a)
       PROVE  DistInv'
  <2>1. /\ dcase \in {"running", "suspended"} /\ dcase' = dcase /\ init' = init
        /\ inquiries' = inquiries /\ lead' = a /\ thawed' = thawed
        /\ creates' = InvitersOfLead(a)
    BY <1>12 DEF ReassignDistribution
  <2>2. a \in Services
    BY DistributionAssumption
  <2>3. \A s \in Services : creates[s] \in Nat
    BY <1>0
  <2>4. /\ NothingBeforeStart' /\ InitNotSuspended' /\ OnlyDraftsBeforeStart'
        /\ NothingOpenAtEnd'
    BY <2>1 DEF NothingBeforeStart, InitNotSuspended, OnlyDraftsBeforeStart, NothingOpenAtEnd
  <2>5. AnswerMatchesInquiry'
    BY <2>1 DEF AnswerMatchesInquiry
  <2>6. OneCreateInquiry'
    BY <1>0, <2>1, <2>2 DEF InvitersOfLead, OneCreateInquiry
  <2>7. PartiesCanInvite'
    <3>1. \A s \in Services : creates'[s] >= creates[s]
      BY <1>0, <2>1, <2>2, <2>3 DEF InvitersOfLead
    <3>2. Involved' = Involved
      BY <2>1 DEF Involved
    <3> QED
      BY <2>1, <3>1, <3>2, <1>0, <2>3, <1>T DEF PartiesCanInvite, Begun, DistTypeOK
  <2>8. LeadCanInvite'
    <3>1. dcase = "running" => creates'[a] > 0
      BY <1>0, <2>1, <2>2, <2>3 DEF InvitersOfLead
    <3> QED
      BY <2>1, <3>1 DEF LeadCanInvite, Begun
  <2> QED
    BY <1>T, <2>4, <2>5, <2>6, <2>7, <2>8
<1>13. CASE UNCHANGED distVars
  BY <1>T, <1>13 DEF distVars, NothingBeforeStart, InitNotSuspended, OneCreateInquiry,
     PartiesCanInvite, LeadCanInvite, Begun, Involved, OnlyDraftsBeforeStart,
     AnswerMatchesInquiry, NothingOpenAtEnd
<1> QED
  BY <1>1, <1>2, <1>3, <1>4, <1>5, <1>6, <1>7, <1>8, <1>9, <1>10, <1>11, <1>12, <1>13
     DEF DistNext

LEMMA Invariant == DistSpec => []DistInv
BY InvariantInit, InvariantNext, PTL DEF DistSpec

(* However often the services invite each other and the lead changes, none *)
(* of them ever has two open "create-inquiry" items.                       *)
THEOREM CreateInquiryUnique == DistSpec => []OneCreateInquiry
BY Invariant, PTL DEF DistInv

(* In a running distribution no service that takes part in it is ever left *)
(* without the possibility to invite, but for a lead that took over while  *)
(* it was suspended.                                                       *)
THEOREM InvitationsPossible == DistSpec => []InvolvedCanInvite
<1>1. DistInv => InvolvedCanInvite
  BY DEF DistInv, PartiesCanInvite, LeadCanInvite, Begun, InvolvedCanInvite
<1> QED
  BY <1>1, Invariant, PTL

(* Nobody has been asked before the circulation begins, unless the case    *)
(* was suspended and resumed before.                                       *)
THEOREM DraftsBeforeStart == DistSpec => []OnlyDraftsBeforeStart
BY Invariant, PTL DEF DistInv

(* An inquiry waits exactly as long as the item of its child case, and has *)
(* abandoned no other one unless the case was resumed.                     *)
THEOREM AnswerMatches == DistSpec => []AnswerMatchesInquiry
BY Invariant, PTL DEF DistInv

(* The end of a distribution leaves nothing open below it.                 *)
THEOREM EndIsClean == DistSpec => []NothingOpenAtEnd
BY Invariant, PTL DEF DistInv

-----------------------------------------------------------------------------
(* A draft has no child case yet, and what is suspended with the whole     *)
(* case has one that is suspended too.                                     *)

DraftOrFrozen(inq) == inq.status = "suspended" => inq.answer \in {"none", "suspended"}

DraftsAreUnasked == \A i \in 1..Len(inquiries) : DraftOrFrozen(inquiries[i])

RefInv == DistInv /\ DraftsAreUnasked

(* No handler leaves a suspended inquiry with a closed child case.         *)
LEMMA HandlersKeepDrafts ==
  ASSUME NEW inq \in Inquiry, NEW c, NEW t, Matches(inq, c, t), DraftOrFrozen(inq)
  PROVE  /\ DraftOrFrozen(Sent(inq))
         /\ DraftOrFrozen(Answered(inq))
         /\ DraftOrFrozen(Withdrawn(inq))
         /\ DraftOrFrozen(Checked(inq))
         /\ DraftOrFrozen(Ended(inq))
         /\ DraftOrFrozen(CancelOpen(inq))
         /\ DraftOrFrozen(SuspendOpen(inq))
         /\ DraftOrFrozen(ResumeOpen(inq))
BY DEF DraftOrFrozen, Matches, Inquiry, ItemStatus, OpenStatus, Sent, Answered,
       Withdrawn, Checked, Ended, SkipUnanswered, CancelOpen, SuspendOpen, ResumeOpen,
       Cancelled, Suspended

-----------------------------------------------------------------------------
(* What a step does to the list of inquiries: it appends drafts, changes   *)
(* one inquiry, or applies a handler to all of them.                       *)

LEMMA OneChanged ==
  ASSUME NEW f \in Seq(Inquiry), NEW i \in 1..Len(f), NEW out \in Inquiry
  PROVE  /\ [f EXCEPT ![i] = out] \in Seq(Inquiry)
         /\ Len([f EXCEPT ![i] = out]) = Len(f)
         /\ \A j \in 1..Len(f) :
              [f EXCEPT ![i] = out][j] = IF j = i THEN out ELSE f[j]
BY ExceptSeq

LEMMA AllChanged ==
  ASSUME NEW f \in Seq(Inquiry), NEW Op \in [1..Len(f) -> Inquiry]
  PROVE  Op \in Seq(Inquiry) /\ Len(Op) = Len(f)
BY FunctionIsSeq, LenProperties

(* The appended drafts follow the inquiries that were there.               *)
LEMMA DraftsAppended ==
  ASSUME DistTypeOK, NEW s \in Services, NEW targets \in TargetLists
  PROVE  LET all == inquiries \o Drafts(s, targets)
         IN  /\ all \in Seq(Inquiry)
             /\ Len(all) = Len(inquiries) + Len(targets)
             /\ \A i \in 1..Len(inquiries) : all[i] = inquiries[i]
             /\ \A i \in 1..Len(all) : i > Len(inquiries) =>
                  \E k \in 1..Len(targets) : all[i] = Draft(s, targets[k])
<1> DEFINE new == Drafts(s, targets)
           all == inquiries \o new
<1>1. inquiries \in Seq(Inquiry) /\ Len(inquiries) \in Nat
  BY LenProperties DEF DistTypeOK
<1>2. /\ new \in Seq(Inquiry) /\ Len(new) = Len(targets) /\ Len(targets) \in Nat
      /\ \A k \in 1..Len(targets) : new[k] = Draft(s, targets[k])
  BY DraftsAreInquiries, TargetsAreServices, LenProperties
<1> HIDE DEF new
<1>3. /\ all \in Seq(Inquiry)
      /\ Len(all) = Len(inquiries) + Len(new)
      /\ \A i \in 1..Len(inquiries) + Len(new) :
           all[i] = IF i <= Len(inquiries) THEN inquiries[i] ELSE new[i - Len(inquiries)]
  BY <1>1, <1>2, ConcatProperties
<1> HIDE DEF all
<1>4. \A i \in 1..Len(inquiries) : all[i] = inquiries[i]
  BY <1>1, <1>2, <1>3
<1>5. ASSUME NEW i \in 1..Len(all), i > Len(inquiries)
      PROVE  \E k \in 1..Len(targets) : all[i] = Draft(s, targets[k])
  <2>1. i - Len(inquiries) \in 1..Len(targets)
    BY <1>1, <1>2, <1>3, <1>5
  <2>2. all[i] = new[i - Len(inquiries)]
    BY <1>1, <1>2, <1>3, <1>5
  <2> QED
    BY <1>2, <2>1, <2>2
<1> QED
  BY <1>2, <1>3, <1>4, <1>5 DEF all, new

-----------------------------------------------------------------------------
(* The invariant of the refinement.                                        *)

LEMMA RefInvInit == DistInit => RefInv
<1> SUFFICES ASSUME DistInit PROVE RefInv
  OBVIOUS
<1>1. Len(inquiries) = 0
  BY DEF DistInit
<1> QED
  BY <1>1, InvariantInit DEF RefInv, DraftsAreUnasked

LEMMA RefInvNext == RefInv /\ [DistNext]_distVars => RefInv'
<1> SUFFICES ASSUME RefInv, [DistNext]_distVars
             PROVE  RefInv'
  OBVIOUS
<1>I. DistInv'
  BY InvariantNext DEF RefInv
<1>0. /\ DistTypeOK
      /\ inquiries \in Seq(Inquiry)
      /\ Len(inquiries) \in Nat
      /\ \A i \in 1..Len(inquiries) :
           /\ inquiries[i] \in Inquiry
           /\ Matches(inquiries[i], dcase, thawed)
           /\ DraftOrFrozen(inquiries[i])
  BY LenProperties, ElementOfSeq
     DEF RefInv, DistInv, DistTypeOK, AnswerMatchesInquiry, Matches, DraftsAreUnasked
<1> SUFFICES DraftsAreUnasked'
  BY <1>I DEF RefInv
<1>1. ASSUME UNCHANGED inquiries
      PROVE  DraftsAreUnasked'
  BY <1>0, <1>1 DEF DraftsAreUnasked
<1>2. ASSUME NEW s \in Services, NEW targets \in TargetLists,
             CreateInquiries(s, targets)
      PROVE  DraftsAreUnasked'
  <2>1. \A k \in 1..Len(targets) : DraftOrFrozen(Draft(s, targets[k]))
    BY DEF DraftOrFrozen, Draft
  <2>2. inquiries' = inquiries \o Drafts(s, targets)
    BY <1>2 DEF CreateInquiries
  <2>3. /\ Len(inquiries') = Len(inquiries) + Len(targets)
        /\ \A i \in 1..Len(inquiries) : inquiries'[i] = inquiries[i]
        /\ \A i \in 1..Len(inquiries') : i > Len(inquiries) =>
             \E k \in 1..Len(targets) : inquiries'[i] = Draft(s, targets[k])
    BY <1>0, <2>2, DraftsAppended
  <2>4. Len(targets) \in Nat
    BY TargetsAreServices, LenProperties
  <2>5. \A i \in 1..Len(inquiries') : i \in 1..Len(inquiries) \/ i > Len(inquiries)
    BY <1>0, <2>3, <2>4
  <2> QED
    BY <1>0, <2>1, <2>3, <2>5 DEF DraftsAreUnasked
<1>3. ASSUME NEW i \in 1..Len(inquiries), NEW out \in Inquiry,
             inquiries' = [inquiries EXCEPT ![i] = out], DraftOrFrozen(out)
      PROVE  DraftsAreUnasked'
  BY <1>0, <1>3, OneChanged DEF DraftsAreUnasked
<1>4. ASSUME NEW f \in [1..Len(inquiries) -> Inquiry], inquiries' = f,
             \A i \in 1..Len(inquiries) : DraftOrFrozen(f[i])
      PROVE  DraftsAreUnasked'
  BY <1>0, <1>4, AllChanged DEF DraftsAreUnasked
<1>5. \A i \in 1..Len(inquiries) :
        /\ {Sent(inquiries[i]), Answered(inquiries[i]), Withdrawn(inquiries[i]),
            Checked(inquiries[i]), Ended(inquiries[i]), CancelOpen(inquiries[i]),
            SuspendOpen(inquiries[i]), ResumeOpen(inquiries[i])} \subseteq Inquiry
        /\ \A out \in {Sent(inquiries[i]), Answered(inquiries[i]),
                        Withdrawn(inquiries[i]), Checked(inquiries[i]),
                        Ended(inquiries[i]), CancelOpen(inquiries[i]),
                        SuspendOpen(inquiries[i]), ResumeOpen(inquiries[i])} :
             DraftOrFrozen(out)
  BY <1>0, InquiryOperators, HandlersKeepDrafts
<1>6. ASSUME NEW i \in 1..Len(inquiries),
             \/ SendInquiry(i) \/ AnswerInquiry(i) \/ WithdrawInquiry(i) \/ CheckInquiry(i)
      PROVE  DraftsAreUnasked'
  BY <1>3, <1>5, <1>6 DEF SendInquiry, AnswerInquiry, WithdrawInquiry, CheckInquiry
<1>7. ASSUME \/ CompleteDistribution \/ CancelDistribution
             \/ SuspendDistribution \/ ResumeDistribution
      PROVE  DraftsAreUnasked'
  BY <1>4, <1>5, <1>7 DEF CompleteDistribution, CancelDistribution, SuspendDistribution,
     ResumeDistribution
<1> QED
  BY <1>1, <1>2, <1>6, <1>7
     DEF DistNext, distVars, StartDistribution, CompleteInit, ReassignDistribution

LEMMA RefInvariant == DistSpec => []RefInv
BY RefInvInit, RefInvNext, PTL DEF DistSpec

-----------------------------------------------------------------------------
(* The mapping.                                                            *)

QuestionsIn(f) == [i \in 1..Len(f) |-> QuestionOf(f[i])]

LEMMA QuestionsAreSeq ==
  ASSUME NEW f \in Seq(Inquiry)
  PROVE  /\ QuestionsIn(f) \in Seq(C!Question)
         /\ Len(QuestionsIn(f)) = Len(f)
         /\ \A i \in 1..Len(f) : /\ QuestionsIn(f)[i] = QuestionOf(f[i])
                                 /\ QuestionsIn(f)[i] \in C!Question
<1>1. Len(f) \in Nat /\ \A i \in 1..Len(f) : f[i] \in Inquiry
  BY LenProperties, ElementOfSeq
<1>2. \A inq \in Inquiry : QuestionOf(inq) \in C!Question
  BY DEF Inquiry, QuestionOf, StateOf, C!Question
<1>3. QuestionsIn(f) \in [1..Len(f) -> C!Question]
  BY <1>1, <1>2 DEF QuestionsIn
<1> QED
  BY <1>1, <1>3, FunctionIsSeq DEF QuestionsIn

(* What each handler does to the question of an inquiry.                   *)
LEMMA HandlersAsQuestions ==
  ASSUME NEW inq \in Inquiry, NEW c, NEW t, Matches(inq, c, t), DraftOrFrozen(inq)
  PROVE  /\ StateOf(Sent(inq)) = "asked"
         /\ StateOf(Answered(inq)) = "answered"
         /\ StateOf(Withdrawn(inq)) = "dropped"
         /\ StateOf(Checked(inq)) = StateOf(inq)
         /\ StateOf(Ended(inq)) =
              IF StateOf(inq) \in C!Pending THEN "dropped" ELSE StateOf(inq)
         /\ StateOf(CancelOpen(inq)) =
              IF StateOf(inq) \in C!Pending THEN "dropped" ELSE StateOf(inq)
         /\ StateOf(SuspendOpen(inq)) = StateOf(inq)
         /\ StateOf(ResumeOpen(inq)) =
              IF StateOf(inq) = "draft" THEN "asked" ELSE StateOf(inq)
         /\ inq.status = "suspended" /\ c = "running" => StateOf(inq) = "draft"
         /\ inq.status = "ready" => StateOf(inq) = "asked"
         /\ inq.status \in OpenStatus => StateOf(inq) \in C!Pending
BY DEF StateOf, C!Pending, Matches, DraftOrFrozen, Inquiry, ItemStatus, OpenStatus,
       Sent, Answered, Withdrawn, Checked, Ended, SkipUnanswered, CancelOpen,
       SuspendOpen, ResumeOpen, Cancelled, Suspended

(* The questions, with the state of one of them changed.                   *)
WithState(questions, i, state) == [questions EXCEPT ![i].state = state]

(* Changing an inquiry changes its question, and only its state.           *)
LEMMA OneQuestionChanged ==
  ASSUME NEW f \in Seq(Inquiry), NEW i \in 1..Len(f), NEW out \in Inquiry,
         out.from = f[i].from, out.to = f[i].to,
         NEW g \in Seq(Inquiry), Len(g) = Len(f),
         \A j \in 1..Len(f) : g[j] = IF j = i THEN out ELSE f[j]
  PROVE  QuestionsIn(g) = WithState(QuestionsIn(f), i, StateOf(out))
<1>1. /\ QuestionsIn(g) = [j \in 1..Len(f) |-> QuestionOf(g[j])]
      /\ QuestionsIn(f) = [j \in 1..Len(f) |-> QuestionOf(f[j])]
  BY DEF QuestionsIn
<1>2. QuestionOf(out) = [QuestionOf(f[i]) EXCEPT !.state = StateOf(out)]
  BY DEF QuestionOf
<1>3. \A j \in 1..Len(f) :
        QuestionOf(g[j]) = IF j = i THEN [QuestionOf(f[i]) EXCEPT !.state = StateOf(out)]
                           ELSE QuestionOf(f[j])
  BY <1>2
<1>4. WithState(QuestionsIn(f), i, StateOf(out)) =
        [j \in 1..Len(f) |->
           IF j = i THEN [QuestionOf(f[i]) EXCEPT !.state = StateOf(out)]
           ELSE QuestionOf(f[j])]
  BY <1>1, Zenon DEF WithState
<1> QED
  BY <1>1, <1>3, <1>4

(* Changing all inquiries changes every question.                          *)
LEMMA AllQuestionsChanged ==
  ASSUME NEW f \in Seq(Inquiry), NEW g \in [1..Len(f) -> Inquiry]
  PROVE  QuestionsIn(g) = [i \in 1..Len(f) |-> QuestionOf(g[i])]
BY AllChanged DEF QuestionsIn

LEMMA RefinementInit == DistInit => C!Init
<1> SUFFICES ASSUME DistInit PROVE C!Init
  OBVIOUS
<1>1. inquiries \in Seq(Inquiry) /\ Len(inquiries) = 0
  BY TypeInit DEF DistInit, DistTypeOK
<1>2. QuestionsIn(inquiries) = <<>>
  BY <1>1, QuestionsAreSeq, EmptySeq
<1>3. PhaseOf = "idle" /\ dcase # "suspended"
  BY DEF DistInit, PhaseOf
<1> QED
  BY <1>2, <1>3 DEF C!Init, QuestionsIn

(* Every step of the distribution is one of the consultation, or changes   *)
(* nothing that the consultation sees.                                     *)
LEMMA RefinementNext ==
  RefInv /\ [DistNext]_distVars => [C!Next]_C!vars
<1> SUFFICES ASSUME RefInv, [DistNext]_distVars
             PROVE  [C!Next]_C!vars
  OBVIOUS
<1> DEFINE asked  == QuestionsIn(inquiries)
           asked1 == QuestionsIn(inquiries')
           phase  == PhaseOf
           frozen == dcase = "suspended"
<1>0. /\ inquiries \in Seq(Inquiry)
      /\ inquiries' \in Seq(Inquiry)
      /\ Len(inquiries) \in Nat
      /\ \A i \in 1..Len(inquiries) :
           /\ inquiries[i] \in Inquiry
           /\ Matches(inquiries[i], dcase, thawed)
           /\ DraftOrFrozen(inquiries[i])
  BY TypeNext, LenProperties, ElementOfSeq
     DEF RefInv, DistInv, DistTypeOK, AnswerMatchesInquiry, Matches, DraftsAreUnasked
<1>Q. /\ asked \in Seq(C!Question) /\ asked1 \in Seq(C!Question)
      /\ Len(asked) = Len(inquiries) /\ Len(asked1) = Len(inquiries')
      /\ \A i \in 1..Len(inquiries) : asked[i] = QuestionOf(inquiries[i])
      /\ \A i \in 1..Len(inquiries') : /\ asked1[i] = QuestionOf(inquiries'[i])
                                       /\ asked1[i] \in C!Question
  BY <1>0, QuestionsAreSeq
<1>N. /\ C!Open <=> /\ phase = "idle" /\ phase' = "preparing" /\ frozen' = frozen
                   /\ asked1 = asked
      /\ C!DraftQuestions <=>
           /\ phase \in {"preparing", "circulating"} /\ ~frozen
           /\ asked1 \in Seq(C!Question)
           /\ Len(asked1) > Len(asked)
           /\ \A i \in 1..Len(asked) : asked1[i] = asked[i]
           /\ \A i \in 1..Len(asked1) :
                i > Len(asked) => /\ asked1[i].state = "draft"
                                  /\ asked1[i].from # asked1[i].to
           /\ phase' = phase /\ frozen' = frozen
      /\ C!Circulate <=> /\ phase \in {"preparing", "circulating"} /\ ~frozen
                        /\ phase' = "circulating" /\ frozen' = frozen /\ asked1 = asked
      /\ C!Freeze <=> /\ phase \in {"preparing", "circulating"} /\ ~frozen
                      /\ phase' = phase /\ frozen' = TRUE /\ asked1 = asked
      /\ C!Thaw <=> /\ phase \in {"preparing", "circulating"} /\ frozen
                    /\ frozen' = FALSE
                    /\ phase' \in IF \E i \in 1..Len(asked) : asked[i].state \in C!Pending
                                  THEN {phase, "circulating"} ELSE {phase}
                    /\ asked1 = [i \in 1..Len(asked) |->
                                   IF asked[i].state = "draft"
                                   THEN [asked[i] EXCEPT !.state = "asked"]
                                   ELSE asked[i]]
      /\ C!Close <=> /\ phase \in {"preparing", "circulating"}
                     /\ phase' = "over" /\ frozen' = FALSE
                     /\ asked1 = [i \in 1..Len(asked) |->
                                    IF asked[i].state \in C!Pending
                                    THEN [asked[i] EXCEPT !.state = "dropped"]
                                    ELSE asked[i]]
  BY DEF C!Open, C!DraftQuestions, C!Circulate, C!Freeze, C!Thaw, C!Close, C!Active,
         C!Begun, QuestionsIn
<1>1. ASSUME UNCHANGED inquiries
      PROVE  asked1 = asked
  BY <1>1
<1>2. ASSUME NEW i \in 1..Len(inquiries), NEW out \in Inquiry,
             out.from = inquiries[i].from, out.to = inquiries[i].to,
             inquiries' = [inquiries EXCEPT ![i] = out]
      PROVE  asked1 = [asked EXCEPT ![i].state = StateOf(out)]
  <2> HIDE DEF asked, asked1, phase
  <2>1. /\ Len(inquiries') = Len(inquiries)
        /\ \A j \in 1..Len(inquiries) :
             inquiries'[j] = IF j = i THEN out ELSE inquiries[j]
    <3>1. /\ Len([inquiries EXCEPT ![i] = out]) = Len(inquiries)
          /\ \A j \in 1..Len(inquiries) :
               [inquiries EXCEPT ![i] = out][j] = IF j = i THEN out ELSE inquiries[j]
      BY <1>0, OneChanged
    <3> QED
      BY <1>2, <3>1
  <2>2. /\ inquiries \in Seq(Inquiry) /\ inquiries' \in Seq(Inquiry)
        /\ out.from = inquiries[i].from /\ out.to = inquiries[i].to
    BY <1>0, <1>2
  <2>3. QuestionsIn(inquiries') = WithState(QuestionsIn(inquiries), i, StateOf(out))
    BY <2>1, <2>2, OneQuestionChanged
  <2> QED
    BY <2>3 DEF asked, asked1, WithState
<1>3. \A i \in 1..Len(inquiries) :
        /\ {Sent(inquiries[i]), Answered(inquiries[i]), Withdrawn(inquiries[i]),
            Checked(inquiries[i]), Ended(inquiries[i]), CancelOpen(inquiries[i]),
            SuspendOpen(inquiries[i]), ResumeOpen(inquiries[i])} \subseteq Inquiry
        /\ \A out \in {Sent(inquiries[i]), Answered(inquiries[i]),
                        Withdrawn(inquiries[i]), Checked(inquiries[i]),
                        Ended(inquiries[i]), CancelOpen(inquiries[i]),
                        SuspendOpen(inquiries[i]), ResumeOpen(inquiries[i])} :
             out.from = inquiries[i].from /\ out.to = inquiries[i].to
  BY <1>0, InquiryOperators, HandlersKeepParties
<1>4. \A i \in 1..Len(inquiries) : asked[i].state = StateOf(inquiries[i])
  <2>1. \A inq : QuestionOf(inq).state = StateOf(inq)
    BY DEF QuestionOf
  <2> QED
    BY <1>Q, <2>1
<1>5. phase \in {"preparing", "circulating"} <=> dcase \in {"running", "suspended"}
  BY DEF PhaseOf
<1> HIDE DEF asked, asked1
<1>6. ASSUME NEW a \in Authorities, StartDistribution(a)
      PROVE  C!Open
  BY <1>6, <1>1, <1>N DEF StartDistribution, PhaseOf, OpenStatus
<1>7. ASSUME NEW i \in 1..Len(inquiries), SendInquiry(i)
      PROVE  C!Ask(i)
  <2>1. StateOf(Sent(inquiries[i])) = "asked" /\ asked[i].state = "draft"
    BY <1>0, <1>4, <1>7, HandlersAsQuestions DEF SendInquiry
  <2>2. asked1 = [asked EXCEPT ![i].state = "asked"]
    BY <1>2, <1>3, <1>7, <2>1 DEF SendInquiry
  <2>3. /\ phase \in {"preparing", "circulating"} /\ phase' = "circulating"
        /\ ~frozen /\ frozen' = frozen
    BY <1>7 DEF SendInquiry, InitAfterSend, PhaseOf, OpenStatus, RefInv, DistInv,
       InitNotSuspended
  <2> QED
    BY <2>1, <2>2, <2>3 DEF C!Ask, C!Active, C!Begun, asked, asked1, QuestionsIn
<1>8. ASSUME NEW i \in 1..Len(inquiries), AnswerInquiry(i)
      PROVE  C!Answer(i)
  <2>1. StateOf(Answered(inquiries[i])) = "answered" /\ asked[i].state = "asked"
    BY <1>0, <1>4, <1>8, HandlersAsQuestions DEF AnswerInquiry
  <2>2. asked1 = [asked EXCEPT ![i].state = "answered"]
    BY <1>2, <1>3, <1>8, <2>1 DEF AnswerInquiry
  <2>3. /\ phase \in {"preparing", "circulating"} /\ phase' = phase
        /\ ~frozen /\ frozen' = frozen
    BY <1>8 DEF AnswerInquiry, PhaseOf
  <2> QED
    BY <2>1, <2>2, <2>3 DEF C!Answer, C!Active, C!Begun, asked, asked1, QuestionsIn
<1>9. ASSUME NEW i \in 1..Len(inquiries), WithdrawInquiry(i)
      PROVE  C!DropQuestion(i)
  <2>1. StateOf(Withdrawn(inquiries[i])) = "dropped" /\ asked[i].state \in C!Pending
    BY <1>0, <1>4, <1>9, HandlersAsQuestions DEF WithdrawInquiry
  <2>2. asked1 = [asked EXCEPT ![i].state = "dropped"]
    <3>1. inquiries' = [inquiries EXCEPT ![i] = Withdrawn(inquiries[i])]
      BY <1>9 DEF WithdrawInquiry
    <3>2. /\ Withdrawn(inquiries[i]) \in Inquiry
          /\ Withdrawn(inquiries[i]).from = inquiries[i].from
          /\ Withdrawn(inquiries[i]).to = inquiries[i].to
      BY <1>3
    <3> QED
      BY <1>2, <2>1, <3>1, <3>2
  <2>3. /\ phase \in {"preparing", "circulating"} /\ phase' = phase
        /\ ~frozen /\ frozen' = frozen
    BY <1>9 DEF WithdrawInquiry, PhaseOf
  <2> QED
    BY <2>1, <2>2, <2>3 DEF C!DropQuestion, C!Active, C!Begun, asked, asked1, QuestionsIn
<1>10. ASSUME NEW i \in 1..Len(inquiries), CheckInquiry(i)
       PROVE  UNCHANGED C!vars
  <2>1. \A j \in 1..Len(inquiries) : inquiries'[j] =
          IF j = i THEN Checked(inquiries[i]) ELSE inquiries[j]
    BY <1>0, <1>3, <1>10, OneChanged DEF CheckInquiry
  <2>2. Len(inquiries') = Len(inquiries)
    BY <1>0, <1>3, <1>10, OneChanged DEF CheckInquiry
  <2>3. QuestionOf(Checked(inquiries[i])) = QuestionOf(inquiries[i])
    BY <1>0, <1>3, HandlersAsQuestions DEF QuestionOf
  <2>4. asked1 = asked
    BY <2>1, <2>2, <2>3 DEF asked, asked1, QuestionsIn
  <2> QED
    BY <1>10, <2>4 DEF C!vars, CheckInquiry, PhaseOf, asked, asked1, QuestionsIn
<1>11. ASSUME NEW s \in Services, NEW targets \in TargetLists,
              CreateInquiries(s, targets)
       PROVE  C!DraftQuestions
  <2>1. Len(targets) \in Nat /\ Len(targets) > 0
    BY TargetsAreServices, LenProperties
  <2>2. inquiries' = inquiries \o Drafts(s, targets)
    BY <1>11 DEF CreateInquiries
  <2>3. /\ Len(inquiries') = Len(inquiries) + Len(targets)
        /\ \A i \in 1..Len(inquiries) : inquiries'[i] = inquiries[i]
        /\ \A i \in 1..Len(inquiries') : i > Len(inquiries) =>
             \E k \in 1..Len(targets) : inquiries'[i] = Draft(s, targets[k])
    BY <2>2, DraftsAppended DEF RefInv, DistInv
  <2>4. \A k \in 1..Len(targets) :
          LET question == QuestionOf(Draft(s, targets[k]))
          IN  question.state = "draft" /\ question.from # question.to
    <3>1. \A k \in 1..Len(targets) : targets[k] # s
      BY <1>11 DEF CreateInquiries
    <3>2. \A k \in 1..Len(targets) : StateOf(Draft(s, targets[k])) = "draft"
      BY DEF StateOf, Draft, OpenStatus
    <3> QED
      BY <3>1, <3>2 DEF QuestionOf, Draft
  <2>5. \A i \in 1..Len(asked1) :
          i > Len(asked) => asked1[i].state = "draft" /\ asked1[i].from # asked1[i].to
    BY <1>Q, <2>3, <2>4
  <2>6. \A i \in 1..Len(asked) : asked1[i] = asked[i]
    BY <1>0, <1>Q, <2>1, <2>3
  <2>7. Len(asked1) > Len(asked)
    BY <1>0, <1>Q, <2>1, <2>3
  <2>8. /\ phase \in {"preparing", "circulating"} /\ phase' = phase
        /\ ~frozen /\ frozen' = frozen
    BY <1>11 DEF CreateInquiries, PhaseOf
  <2> QED
    BY <1>N, <1>Q, <2>5, <2>6, <2>7, <2>8
<1>12. CASE CompleteInit
  <2>1. /\ phase = "preparing" /\ phase' = "circulating"
        /\ ~frozen /\ frozen' = frozen
    BY <1>12 DEF CompleteInit, PhaseOf, OpenStatus
  <2>2. C!Circulate
    BY <1>1, <1>12, <1>N, <2>1 DEF CompleteInit
  <2> QED
    BY <2>2 DEF C!Next
<1>13. ASSUME NEW g \in [1..Len(inquiries) -> Inquiry], inquiries' = g,
              \A i \in 1..Len(inquiries) :
                /\ g[i].from = inquiries[i].from /\ g[i].to = inquiries[i].to
                /\ StateOf(g[i]) = IF StateOf(inquiries[i]) \in C!Pending
                                   THEN "dropped" ELSE StateOf(inquiries[i])
       PROVE  asked1 = [i \in 1..Len(asked) |->
                          IF asked[i].state \in C!Pending
                          THEN [asked[i] EXCEPT !.state = "dropped"]
                          ELSE asked[i]]
  <2>1. asked1 = [i \in 1..Len(inquiries) |-> QuestionOf(g[i])]
    BY <1>0, <1>13, AllQuestionsChanged DEF asked1
  <2>2. \A i \in 1..Len(inquiries) :
          QuestionOf(g[i]) = IF asked[i].state \in C!Pending
                             THEN [asked[i] EXCEPT !.state = "dropped"]
                             ELSE asked[i]
    <3>1. \A i \in 1..Len(inquiries) : asked[i] = QuestionOf(inquiries[i])
      BY <1>Q
    <3> SUFFICES ASSUME NEW i \in 1..Len(inquiries)
                 PROVE  QuestionOf(g[i]) = IF asked[i].state \in C!Pending
                                           THEN [asked[i] EXCEPT !.state = "dropped"]
                                           ELSE asked[i]
      OBVIOUS
    <3>2. QuestionOf(g[i]) = [QuestionOf(inquiries[i]) EXCEPT !.state = StateOf(g[i])]
      BY <1>13 DEF QuestionOf
    <3>3. CASE StateOf(inquiries[i]) \in C!Pending
      BY <1>4, <1>13, <3>1, <3>2, <3>3
    <3>4. CASE StateOf(inquiries[i]) \notin C!Pending
      <4>1. QuestionOf(g[i]) = QuestionOf(inquiries[i])
        BY <1>13, <3>4 DEF QuestionOf
      <4> QED
        BY <1>4, <3>1, <3>4, <4>1
    <3> QED
      BY <3>3, <3>4
  <2> QED
    BY <1>Q, <2>1, <2>2
<1>14. ASSUME CompleteDistribution \/ CancelDistribution
       PROVE  C!Close
  <2>1. /\ phase \in {"preparing", "circulating"}
        /\ phase' = "over" /\ frozen' = FALSE
    BY <1>14 DEF CompleteDistribution, CancelDistribution, PhaseOf
  <2>2. \A i \in 1..Len(inquiries) :
          \A out \in {Ended(inquiries[i]), CancelOpen(inquiries[i])} :
            StateOf(out) = IF StateOf(inquiries[i]) \in C!Pending
                           THEN "dropped" ELSE StateOf(inquiries[i])
    BY <1>0, HandlersAsQuestions
  <2>3. asked1 = [i \in 1..Len(asked) |->
                    IF asked[i].state \in C!Pending
                    THEN [asked[i] EXCEPT !.state = "dropped"]
                    ELSE asked[i]]
    <3>1. CASE CompleteDistribution
      BY <1>3, <1>13, <2>2, <3>1 DEF CompleteDistribution
    <3>2. CASE CancelDistribution
      BY <1>3, <1>13, <2>2, <3>2 DEF CancelDistribution
    <3> QED
      BY <1>14, <3>1, <3>2
  <2> QED
    BY <1>N, <2>1, <2>3
<1>15. ASSUME SuspendDistribution
       PROVE  C!Freeze
  <2>1. /\ phase \in {"preparing", "circulating"} /\ phase' = phase
        /\ ~frozen /\ frozen' = TRUE
        /\ inquiries' = [i \in 1..Len(inquiries) |-> SuspendOpen(inquiries[i])]
    BY <1>15 DEF SuspendDistribution, PhaseOf, Suspended, OpenStatus
  <2>2. asked1 = [i \in 1..Len(inquiries) |-> QuestionOf(inquiries'[i])]
    <3>1. inquiries' \in [1..Len(inquiries) -> Inquiry]
      BY <1>3, <2>1
    <3> QED
      BY <1>0, <3>1, AllQuestionsChanged DEF asked1
  <2>3. \A i \in 1..Len(inquiries) :
          QuestionOf(inquiries'[i]) = QuestionOf(inquiries[i])
    BY <1>0, <1>3, <2>1, HandlersAsQuestions DEF QuestionOf
  <2>4. asked1 = asked
    BY <2>2, <2>3 DEF asked, QuestionsIn
  <2> QED
    BY <1>N, <2>1, <2>4
<1>16. ASSUME ResumeDistribution
       PROVE  C!Thaw
  <2>1. /\ phase \in {"preparing", "circulating"}
        /\ frozen /\ frozen' = FALSE
        /\ inquiries' = [i \in 1..Len(inquiries) |-> ResumeOpen(inquiries[i])]
    BY <1>16 DEF ResumeDistribution, PhaseOf
  <2>2. phase' \in {phase, "circulating"}
    BY <1>16 DEF ResumeDistribution, InitAfterResume, InitAfterSend, Resumed, PhaseOf,
       OpenStatus
  <2>3. \A i \in 1..Len(inquiries) :
          inquiries[i].status = "suspended" => asked[i].state \in C!Pending
    BY <1>0, <1>4, HandlersAsQuestions DEF OpenStatus
  <2>6. ASSUME \A i \in 1..Len(asked) : asked[i].state \notin C!Pending
        PROVE  phase' = phase
    <3>1. init' = Resumed(init)
      BY <1>16, <1>Q, <2>3, <2>6 DEF ResumeDistribution, InitAfterResume
    <3> QED
      BY <1>16, <3>1 DEF ResumeDistribution, Resumed, PhaseOf, OpenStatus
  <2>5. phase' \in IF \E i \in 1..Len(asked) : asked[i].state \in C!Pending
                   THEN {phase, "circulating"} ELSE {phase}
    BY <2>2, <2>6
  <2>7. asked1 = [i \in 1..Len(asked) |-> IF asked[i].state = "draft"
                                          THEN [asked[i] EXCEPT !.state = "asked"]
                                          ELSE asked[i]]
    <3>1. inquiries' \in [1..Len(inquiries) -> Inquiry]
      BY <1>3, <2>1
    <3>2. asked1 = [i \in 1..Len(inquiries) |-> QuestionOf(inquiries'[i])]
      BY <1>0, <3>1, AllQuestionsChanged DEF asked1
    <3> SUFFICES ASSUME NEW i \in 1..Len(inquiries)
                 PROVE  QuestionOf(inquiries'[i]) =
                          IF asked[i].state = "draft"
                          THEN [asked[i] EXCEPT !.state = "asked"] ELSE asked[i]
      BY <1>Q, <3>2
    <3>3. /\ inquiries'[i].from = inquiries[i].from /\ inquiries'[i].to = inquiries[i].to
          /\ StateOf(inquiries'[i]) = IF StateOf(inquiries[i]) = "draft" THEN "asked"
                                      ELSE StateOf(inquiries[i])
      BY <1>0, <1>3, <2>1, HandlersAsQuestions
    <3>4. asked[i] = QuestionOf(inquiries[i])
      BY <1>Q
    <3> QED
      BY <3>3, <3>4 DEF QuestionOf
  <2> QED
    BY <1>N, <2>1, <2>5, <2>7
<1>17. ASSUME \/ \E a \in Authorities : ReassignDistribution(lead, a)
              \/ UNCHANGED distVars
       PROVE  UNCHANGED C!vars
  BY <1>17 DEF ReassignDistribution, distVars, C!vars, PhaseOf
<1>18. \A i \in 1..Len(inquiries) : i \in 1..Len(asked)
  BY <1>Q
<1> QED
  BY <1>6, <1>7, <1>8, <1>9, <1>10, <1>11, <1>12, <1>14, <1>15, <1>16,
     <1>17, <1>18
     DEF DistNext, C!Next, asked, QuestionsIn

(* A distribution of work items, child cases and handlers keeps all that   *)
(* the consultation promises.                                              *)
THEOREM Refinement == DistSpec => ImplementsConsultation
<1>1. DistInit => C!Init
  BY RefinementInit
<1>2. RefInv /\ [DistNext]_distVars => [C!Next]_C!vars
  BY RefinementNext
<1>3. DistSpec => []RefInv
  BY RefInvariant
<1> QED
  BY <1>1, <1>2, <1>3, PTL DEF DistSpec, ImplementsConsultation, C!Spec

-----------------------------------------------------------------------------
(* Answers are never lost.  An answered inquiry has a "check-inquiries"    *)
(* item, whatever became of it, and every handler leaves it one.           *)

AnswerIsShown(inq) == inq.answer = "completed" => inq.check # "none"

AnswersAreShown == \A i \in 1..Len(inquiries) : AnswerIsShown(inquiries[i])

KeepsAnswer(inq, out) ==
  inq.answer = "completed" =>
    /\ out.answer = "completed"
    /\ out.check # "none"
    /\ out.to = inq.to

LEMMA HandlersKeepAnswers ==
  ASSUME NEW inq \in Inquiry, NEW c, NEW t, Matches(inq, c, t), AnswerIsShown(inq)
  PROVE  /\ inq.status = "suspended" =>
              AnswerIsShown(Sent(inq)) /\ KeepsAnswer(inq, Sent(inq))
         /\ AnswerIsShown(Answered(inq)) /\ KeepsAnswer(inq, Answered(inq))
         /\ inq.status \in OpenStatus =>
              AnswerIsShown(Withdrawn(inq)) /\ KeepsAnswer(inq, Withdrawn(inq))
         /\ AnswerIsShown(Checked(inq)) /\ KeepsAnswer(inq, Checked(inq))
         /\ AnswerIsShown(Ended(inq)) /\ KeepsAnswer(inq, Ended(inq))
         /\ AnswerIsShown(CancelOpen(inq)) /\ KeepsAnswer(inq, CancelOpen(inq))
         /\ AnswerIsShown(SuspendOpen(inq)) /\ KeepsAnswer(inq, SuspendOpen(inq))
         /\ AnswerIsShown(ResumeOpen(inq)) /\ KeepsAnswer(inq, ResumeOpen(inq))
BY DEF AnswerIsShown, KeepsAnswer, Matches, Inquiry, ItemStatus, OpenStatus, Sent,
       Answered, Withdrawn, Checked, Ended, SkipUnanswered, CancelOpen, SuspendOpen,
       ResumeOpen, Cancelled, Suspended, Resumed

AnswersKept ==
  \A i \in 1..Len(inquiries) :
    inquiries[i].answer = "completed" =>
      /\ i \in 1..Len(inquiries')
      /\ inquiries'[i].answer = "completed"
      /\ inquiries'[i].check # "none"
      /\ inquiries'[i].to = inquiries[i].to

LEMMA ShownInit == DistInit => AnswersAreShown
BY DEF DistInit, AnswersAreShown

LEMMA ShownNext ==
  DistInv /\ AnswersAreShown /\ [DistNext]_distVars => AnswersAreShown' /\ AnswersKept
<1> SUFFICES ASSUME DistInv, AnswersAreShown, [DistNext]_distVars
             PROVE  AnswersAreShown' /\ AnswersKept
  OBVIOUS
<1>0. /\ DistTypeOK
      /\ inquiries \in Seq(Inquiry)
      /\ Len(inquiries) \in Nat
      /\ \A i \in 1..Len(inquiries) :
           /\ inquiries[i] \in Inquiry
           /\ Matches(inquiries[i], dcase, thawed)
           /\ AnswerIsShown(inquiries[i])
  BY LenProperties, ElementOfSeq
     DEF DistInv, DistTypeOK, AnswerMatchesInquiry, Matches, AnswersAreShown
<1>1. ASSUME UNCHANGED inquiries
      PROVE  AnswersAreShown' /\ AnswersKept
  BY <1>0, <1>1 DEF AnswersAreShown, AnswersKept, AnswerIsShown
<1>2. ASSUME NEW s \in Services, NEW targets \in TargetLists,
             CreateInquiries(s, targets)
      PROVE  AnswersAreShown' /\ AnswersKept
  <2>1. \A k \in 1..Len(targets) : AnswerIsShown(Draft(s, targets[k]))
    BY DEF AnswerIsShown, Draft
  <2>2. inquiries' = inquiries \o Drafts(s, targets)
    BY <1>2 DEF CreateInquiries
  <2>3. /\ Len(inquiries') = Len(inquiries) + Len(targets)
        /\ \A i \in 1..Len(inquiries) : inquiries'[i] = inquiries[i]
        /\ \A i \in 1..Len(inquiries') : i > Len(inquiries) =>
             \E k \in 1..Len(targets) : inquiries'[i] = Draft(s, targets[k])
    BY <1>0, <2>2, DraftsAppended
  <2>4. Len(targets) \in Nat
    BY TargetsAreServices, LenProperties
  <2>5. /\ \A i \in 1..Len(inquiries') : i \in 1..Len(inquiries) \/ i > Len(inquiries)
        /\ \A i \in 1..Len(inquiries) : i \in 1..Len(inquiries')
    BY <1>0, <2>3, <2>4
  <2>6. AnswersAreShown'
    BY <1>0, <2>1, <2>3, <2>5 DEF AnswersAreShown
  <2>7. AnswersKept
    BY <1>0, <2>3, <2>5 DEF AnswersKept, AnswerIsShown
  <2> QED
    BY <2>6, <2>7
<1>3. ASSUME NEW i \in 1..Len(inquiries), NEW out \in Inquiry,
             inquiries' = [inquiries EXCEPT ![i] = out],
             AnswerIsShown(out), KeepsAnswer(inquiries[i], out)
      PROVE  AnswersAreShown' /\ AnswersKept
  <2>1. /\ Len(inquiries') = Len(inquiries)
        /\ \A j \in 1..Len(inquiries) :
             inquiries'[j] = IF j = i THEN out ELSE inquiries[j]
    BY <1>0, <1>3, OneChanged
  <2> QED
    BY <1>0, <1>3, <2>1 DEF AnswersAreShown, AnswersKept, AnswerIsShown, KeepsAnswer
<1>4. ASSUME NEW f \in [1..Len(inquiries) -> Inquiry], inquiries' = f,
             \A i \in 1..Len(inquiries) :
               AnswerIsShown(f[i]) /\ KeepsAnswer(inquiries[i], f[i])
      PROVE  AnswersAreShown' /\ AnswersKept
  <2>1. Len(inquiries') = Len(inquiries)
    BY <1>0, <1>4, AllChanged
  <2> QED
    BY <1>4, <2>1 DEF AnswersAreShown, AnswersKept, KeepsAnswer
<1>5. \A i \in 1..Len(inquiries) :
        {Sent(inquiries[i]), Answered(inquiries[i]), Withdrawn(inquiries[i]),
         Checked(inquiries[i]), Ended(inquiries[i]), CancelOpen(inquiries[i]),
         SuspendOpen(inquiries[i]), ResumeOpen(inquiries[i])} \subseteq Inquiry
  BY <1>0, InquiryOperators
<1>6. \A i \in 1..Len(inquiries) : \A out \in {Ended(inquiries[i]),
             CancelOpen(inquiries[i]), SuspendOpen(inquiries[i]),
             ResumeOpen(inquiries[i])} :
        AnswerIsShown(out) /\ KeepsAnswer(inquiries[i], out)
  BY <1>0, HandlersKeepAnswers
<1>7. ASSUME NEW i \in 1..Len(inquiries), SendInquiry(i)
      PROVE  AnswersAreShown' /\ AnswersKept
  BY <1>0, <1>3, <1>5, <1>7, HandlersKeepAnswers DEF SendInquiry
<1>8. ASSUME NEW i \in 1..Len(inquiries), AnswerInquiry(i)
      PROVE  AnswersAreShown' /\ AnswersKept
  BY <1>0, <1>3, <1>5, <1>8, HandlersKeepAnswers DEF AnswerInquiry
<1>9. ASSUME NEW i \in 1..Len(inquiries), WithdrawInquiry(i)
      PROVE  AnswersAreShown' /\ AnswersKept
  BY <1>0, <1>3, <1>5, <1>9, HandlersKeepAnswers DEF WithdrawInquiry
<1>10. ASSUME NEW i \in 1..Len(inquiries), CheckInquiry(i)
       PROVE  AnswersAreShown' /\ AnswersKept
  BY <1>0, <1>3, <1>5, <1>10, HandlersKeepAnswers DEF CheckInquiry
<1>11. ASSUME \/ CompleteDistribution \/ CancelDistribution
              \/ SuspendDistribution \/ ResumeDistribution
       PROVE  AnswersAreShown' /\ AnswersKept
  BY <1>4, <1>5, <1>6, <1>11
     DEF CompleteDistribution, CancelDistribution, SuspendDistribution, ResumeDistribution
<1> QED
  BY <1>1, <1>2, <1>7, <1>8, <1>9, <1>10, <1>11
     DEF DistNext, distVars, StartDistribution, CompleteInit, ReassignDistribution

(* An answer once given stays, is addressed to who gave it, and is shown   *)
(* to who asked, whatever is withdrawn, ended or suspended around it.      *)
THEOREM AnswersFinal == DistSpec => AnswersAreFinal
<1>1. DistInit => DistInv /\ AnswersAreShown
  BY InvariantInit, ShownInit
<1>2. DistInv /\ AnswersAreShown /\ [DistNext]_distVars => (DistInv /\ AnswersAreShown)'
  BY InvariantNext, ShownNext
<1>3. DistInv /\ AnswersAreShown /\ [DistNext]_distVars => [AnswersKept]_distVars
  BY ShownNext
<1>4. [][AnswersKept]_distVars => AnswersAreFinal
  BY PTL DEF AnswersKept, AnswersAreFinal
<1> QED
  BY <1>1, <1>2, <1>3, <1>4, PTL DEF DistSpec

=============================================================================

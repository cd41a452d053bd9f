---------------------------- MODULE Consultation ----------------------------
(***************************************************************************)
(* What a distribution promises to the services that take part in it,      *)
(* without work items, child cases and handlers: questions are drafted,    *)
(* asked, and then answered or dropped; asking a question makes the        *)
(* consultation circulate, an answer is final, a frozen consultation rests *)
(* until it thaws, and once the consultation is over no question is left   *)
(* and none can be asked or answered.                                      *)
(***************************************************************************)
EXTENDS Integers, Sequences

CONSTANTS
  Askers,     \* the services that may ask
  Answerers   \* the services that may be asked

VARIABLES
  phase,      \* where the consultation stands
  frozen,     \* is it interrupted?
  questions   \* the questions, oldest first

vars == <<phase, frozen, questions>>

Phases == {"idle", "preparing", "circulating", "over"}

Question == [from : Askers, to : Answerers,
             state : {"draft", "asked", "answered", "dropped"}]

Pending == {"draft", "asked"}

Begun == phase \in {"preparing", "circulating"}
Active == Begun /\ ~frozen

Init ==
  /\ phase = "idle"
  /\ ~frozen
  /\ questions = <<>>

Open ==
  /\ phase = "idle"
  /\ phase' = "preparing"
  /\ UNCHANGED <<frozen, questions>>

(* Drafts are appended; what was there stays as it is.                     *)
DraftQuestions ==
  /\ Active
  /\ questions' \in Seq(Question)
  /\ Len(questions') > Len(questions)
  /\ \A i \in 1..Len(questions) : questions'[i] = questions[i]
  /\ \A i \in 1..Len(questions') :
       i > Len(questions) => /\ questions'[i].state = "draft"
                             /\ questions'[i].from # questions'[i].to
  /\ UNCHANGED <<phase, frozen>>

Ask(i) ==
  /\ Active
  /\ questions[i].state = "draft"
  /\ questions' = [questions EXCEPT ![i].state = "asked"]
  /\ phase' = "circulating"
  /\ UNCHANGED frozen

Answer(i) ==
  /\ Active
  /\ questions[i].state = "asked"
  /\ questions' = [questions EXCEPT ![i].state = "answered"]
  /\ UNCHANGED <<phase, frozen>>

DropQuestion(i) ==
  /\ Active
  /\ questions[i].state \in Pending
  /\ questions' = [questions EXCEPT ![i].state = "dropped"]
  /\ UNCHANGED <<phase, frozen>>

Circulate ==
  /\ Active
  /\ phase' = "circulating"
  /\ UNCHANGED <<frozen, questions>>

Freeze ==
  /\ Active
  /\ frozen' = TRUE
  /\ UNCHANGED <<phase, questions>>

(* Every draft is asked when the consultation goes on.  That makes it      *)
(* circulate or not: this is the one way to ask without circulating.       *)
Thaw ==
  /\ Begun
  /\ frozen
  /\ frozen' = FALSE
  /\ phase' \in IF \E i \in 1..Len(questions) : questions[i].state \in Pending
                THEN {phase, "circulating"}
                ELSE {phase}
  /\ questions' = [i \in 1..Len(questions) |->
                     IF questions[i].state = "draft"
                     THEN [questions[i] EXCEPT !.state = "asked"]
                     ELSE questions[i]]

(* Every question still pending is dropped, every other one is kept.       *)
Close ==
  /\ Begun
  /\ phase' = "over"
  /\ frozen' = FALSE
  /\ questions' = [i \in 1..Len(questions) |->
                     IF questions[i].state \in Pending
                     THEN [questions[i] EXCEPT !.state = "dropped"]
                     ELSE questions[i]]

Next ==
  \/ Open
  \/ DraftQuestions
  \/ \E i \in 1..Len(questions) : Ask(i)
  \/ \E i \in 1..Len(questions) : Answer(i)
  \/ \E i \in 1..Len(questions) : DropQuestion(i)
  \/ Circulate
  \/ Freeze
  \/ Thaw
  \/ Close

Spec == Init /\ [][Next]_vars

=============================================================================

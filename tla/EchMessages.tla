----------------------------- MODULE EchMessages -----------------------------
(***************************************************************************)
(* The queue of eCH-0211 messages.  Requests of the portal store messages  *)
(* for services; the programs of these services poll for the message that  *)
(* follows the last one they have.                                         *)
(*                                                                         *)
(* A message bears the time at which it is stored, which is not the time   *)
(* at which the transaction it is stored in is committed (the date that    *)
(* the event handler passes is overwritten by auto_now_add).  The queue is *)
(* in the order of the former, and grows in that of the latter.            *)
(***************************************************************************)
EXTENDS Naturals

CONSTANTS
  Messages,
  Services,      \* receivers of messages
  Transactions,  \* requests that store messages
  MaxTime,       \* bound: of the clock
  MaxRestarts,   \* bound: how often a client forgets what it has read
  NoMessage

ASSUME EchAssumption ==
  /\ MaxTime \in Nat
  /\ MaxRestarts \in Nat
  /\ NoMessage \notin Messages

VARIABLES
  clock,      \* in units between which two messages can be stored
  status,     \* what has become of each message
  writer,     \* the transaction that stored it
  receiver,   \* the service it is for
  created,    \* when it was stored
  ended,      \* transactions that were committed or rolled back
  last,       \* what the client of each service asks with
  received,   \* what it has read
  overtaken,  \* messages committed after, or of the same time as, another
  restarts

messageVars == <<status, writer, receiver, created, ended, overtaken>>
clientVars == <<last, received, restarts>>
echVars == <<clock, messageVars, clientVars>>

Written(m) == status[m] # "unused"
InQueue(m) == status[m] = "committed"
QueueOf(s) == {m \in Messages : InQueue(m) /\ receiver[m] = s}
StoredBy(t) == {m \in Messages : status[m] = "stored" /\ writer[m] = t}

EchInit ==
  /\ clock = 0
  /\ status = [m \in Messages |-> "unused"]
  /\ writer \in [Messages -> Transactions]
  /\ receiver \in [Messages -> Services]
  /\ created = [m \in Messages |-> 0]
  /\ ended = {}
  /\ last = [s \in Services |-> NoMessage]
  /\ received = [s \in Services |-> {}]
  /\ overtaken = {}
  /\ restarts = 0

Tick ==
  /\ clock < MaxTime
  /\ clock' = clock + 1
  /\ UNCHANGED <<messageVars, clientVars>>

-----------------------------------------------------------------------------
(* The transactions.  Two messages of one are never stored at one time.    *)

CreateMessage(m) ==
  /\ status[m] = "unused"
  /\ writer[m] \notin ended
  /\ \A n \in StoredBy(writer[m]) : created[n] # clock
  /\ status' = [status EXCEPT ![m] = "stored"]
  /\ created' = [created EXCEPT ![m] = clock]
  /\ UNCHANGED <<clock, writer, receiver, ended, overtaken, clientVars>>

End(t, result) ==
  /\ t \notin ended
  /\ StoredBy(t) # {}
  /\ ended' = ended \cup {t}
  /\ status' = [m \in Messages |-> IF m \in StoredBy(t) THEN result ELSE status[m]]
  /\ UNCHANGED <<clock, writer, receiver, created, clientVars>>

(* Of messages of the same time both may come first.                       *)
Commit(t) ==
  LET Before(m, n) == receiver[m] = receiver[n] /\ created[m] <= created[n]
      Tied(m, n) == receiver[m] = receiver[n] /\ created[m] = created[n]
      queue == {n \in Messages : InQueue(n)}
  IN /\ End(t, "committed")
     /\ overtaken' = overtaken
          \cup {m \in StoredBy(t) : \E n \in queue : Before(m, n)}
          \cup {n \in queue : \E m \in StoredBy(t) : Tied(m, n)}

Rollback(t) == End(t, "lost") /\ UNCHANGED overtaken

-----------------------------------------------------------------------------
(* The clients.                                                            *)

(* The message asked with is found again.                                  *)
FollowsMutant(m, n) == n # NoMessage => created[n] <= created[m]

Follows(m, n) == n # NoMessage => created[n] < created[m]

(* The queue has no order.                                                 *)
NextMessageMutant(s, m) == m \in QueueOf(s) /\ Follows(m, last[s])

NextMessage(s, m) ==
  /\ m \in QueueOf(s)
  /\ Follows(m, last[s])
  /\ \A n \in QueueOf(s) : Follows(n, last[s]) => created[m] <= created[n]

(* The client reads the message and asks with its identifier from now on.  *)
(* An answer that is lost on its way, or one without a message, leaves     *)
(* both sides as they were.                                                *)
Poll(s) ==
  /\ \E m \in Messages :
       /\ NextMessage(s, m)
       /\ last' = [last EXCEPT ![s] = m]
       /\ received' = [received EXCEPT ![s] = @ \cup {m}]
  /\ UNCHANGED <<clock, messageVars, restarts>>

(* The client begins with the first message again.                         *)
Restart(s) ==
  /\ last[s] # NoMessage
  /\ restarts < MaxRestarts
  /\ restarts' = restarts + 1
  /\ last' = [last EXCEPT ![s] = NoMessage]
  /\ UNCHANGED <<clock, messageVars, received>>

EchNext ==
  \/ Tick
  \/ \E m \in Messages : CreateMessage(m)
  \/ \E t \in Transactions : Commit(t) \/ Rollback(t)
  \/ \E s \in Services : Poll(s) \/ Restart(s)

EchSpec == EchInit /\ [][EchNext]_echVars

(* The clients go on to poll, and at some time an answer arrives.          *)
FairEchSpec == EchSpec /\ \A s \in Services : WF_echVars(Poll(s))

-----------------------------------------------------------------------------
EchTypeOK ==
  /\ clock \in Nat
  /\ status \in [Messages -> {"unused", "stored", "committed", "lost"}]
  /\ writer \in [Messages -> Transactions]
  /\ receiver \in [Messages -> Services]
  /\ created \in [Messages -> Nat]
  /\ ended \subseteq Transactions
  /\ last \in [Services -> Messages \cup {NoMessage}]
  /\ received \in [Services -> SUBSET Messages]
  /\ overtaken \subseteq Messages
  /\ restarts \in Nat

(* A client that has come past a message has read it, unless the message   *)
(* became visible only when a later one already was, or shares its time    *)
(* with another: no other order of storing, committing and polling, and no *)
(* restart, loses a message.                                               *)
SkippedWasOvertaken ==
  \A s \in Services : \A m \in QueueOf(s) :
    last[s] # NoMessage /\ created[m] <= created[last[s]] =>
      m \in received[s] \/ m \in overtaken

(* Every other message that was committed is read.                         *)
EveryMessageRead ==
  \A m \in Messages :
    InQueue(m) ~> (m \in received[receiver[m]] \/ m \in overtaken)

=============================================================================

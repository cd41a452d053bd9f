---------------------------- MODULE QueueProofs ----------------------------
(***************************************************************************)
(* Proofs about EchMessages, for any number of messages, services and      *)
(* transactions.                                                           *)
(***************************************************************************)
EXTENDS EchMessages, TLAPS

(* What a client asks with is a message of its queue, and of two messages  *)
(* of a queue that were stored at the same time both are marked.           *)
LastInQueue ==
  \A s \in Services : last[s] # NoMessage => last[s] \in QueueOf(s)

TiesMarked ==
  \A m, n \in Messages :
    /\ m # n
    /\ InQueue(m) /\ InQueue(n)
    /\ receiver[m] = receiver[n] /\ created[m] = created[n]
    => m \in overtaken

(* The messages of one transaction were stored at different times.         *)
DistinctTimes ==
  \A m, n \in Messages :
    /\ m # n
    /\ status[m] = "stored" /\ status[n] = "stored" /\ writer[m] = writer[n]
    => created[m] # created[n]

QueueInv == EchTypeOK /\ DistinctTimes /\ LastInQueue /\ TiesMarked /\ SkippedWasOvertaken

-----------------------------------------------------------------------------
LEMMA InitQueue == EchInit => QueueInv
BY EchAssumption
   DEF EchInit, QueueInv, EchTypeOK, LastInQueue, TiesMarked, SkippedWasOvertaken,
       DistinctTimes, QueueOf, InQueue

(* The messages in the queue stay as they are when none is committed.      *)
LEMMA SameQueue ==
  ASSUME QueueInv, EchTypeOK', DistinctTimes',
         UNCHANGED <<receiver, last, received, overtaken>>,
         \A m \in Messages : InQueue(m)' <=> InQueue(m),
         \A m \in Messages : InQueue(m) => created'[m] = created[m]
  PROVE  QueueInv'
<1>1. ASSUME NEW s \in Services  PROVE  QueueOf(s)' = QueueOf(s)
  BY DEF QueueOf
<1>2. LastInQueue'
  BY <1>1 DEF QueueInv, LastInQueue
<1>3. TiesMarked'
  BY DEF QueueInv, TiesMarked
<1>4. SkippedWasOvertaken'
  <2> SUFFICES ASSUME NEW s \in Services, NEW m \in QueueOf(s), last[s] # NoMessage,
                      created'[m] <= created'[last[s]]
               PROVE  m \in received[s] \/ m \in overtaken
    BY <1>1 DEF SkippedWasOvertaken
  <2>1. created'[m] = created[m] /\ created'[last[s]] = created[last[s]]
    BY DEF QueueInv, LastInQueue, QueueOf
  <2> QED BY <2>1 DEF QueueInv, SkippedWasOvertaken
<1> QED BY <1>2, <1>3, <1>4 DEF QueueInv

LEMMA TickKeeps == ASSUME QueueInv, Tick  PROVE  QueueInv'
<1>1. EchTypeOK'
  BY DEF QueueInv, EchTypeOK, Tick, messageVars, clientVars
<1>2. DistinctTimes'
  BY DEF QueueInv, DistinctTimes, Tick, messageVars
<1> QED BY <1>1, <1>2, SameQueue DEF Tick, messageVars, clientVars, InQueue

LEMMA CreateKeeps ==
  ASSUME QueueInv, NEW m \in Messages, CreateMessage(m)  PROVE  QueueInv'
<1>1. EchTypeOK'
  BY DEF QueueInv, EchTypeOK, CreateMessage, clientVars
<1>2. \A n \in Messages : InQueue(n)' <=> InQueue(n)
  BY DEF QueueInv, EchTypeOK, CreateMessage, InQueue
<1>3. \A n \in Messages : InQueue(n) => created'[n] = created[n]
  BY DEF QueueInv, EchTypeOK, CreateMessage, InQueue
<1>4. DistinctTimes'
  <2> SUFFICES ASSUME NEW a \in Messages, NEW b \in Messages, a # b,
                      status'[a] = "stored", status'[b] = "stored", writer[a] = writer[b]
               PROVE  created'[a] # created'[b]
    BY DEF DistinctTimes, CreateMessage
  <2>1. CASE a # m /\ b # m
    BY <2>1 DEF QueueInv, EchTypeOK, DistinctTimes, CreateMessage
  <2>2. CASE a = m
    BY <2>2 DEF QueueInv, EchTypeOK, CreateMessage, StoredBy
  <2>3. CASE b = m
    BY <2>3 DEF QueueInv, EchTypeOK, CreateMessage, StoredBy
  <2> QED BY <2>1, <2>2, <2>3
<1> QED BY <1>1, <1>2, <1>3, <1>4, SameQueue DEF CreateMessage, clientVars

LEMMA RollbackKeeps ==
  ASSUME QueueInv, NEW t \in Transactions, Rollback(t)  PROVE  QueueInv'
<1>1. EchTypeOK'
  BY DEF QueueInv, EchTypeOK, Rollback, End, clientVars
<1>2. \A n \in Messages : InQueue(n)' <=> InQueue(n)
  BY DEF QueueInv, EchTypeOK, Rollback, End, InQueue, StoredBy
<1>3. DistinctTimes'
  BY DEF QueueInv, EchTypeOK, DistinctTimes, Rollback, End, StoredBy
<1> QED BY <1>1, <1>2, <1>3, SameQueue DEF Rollback, End, clientVars

(* A commit brings messages into the queue, and marks those that come too  *)
(* late or tie.                                                            *)
LEMMA CommitKeeps ==
  ASSUME QueueInv, NEW t \in Transactions, Commit(t)  PROVE  QueueInv'
<1>1. UNCHANGED <<receiver, writer, created, last, received>>
  BY DEF Commit, End, clientVars
<1>2. \A m \in Messages : status'[m] = IF m \in StoredBy(t) THEN "committed" ELSE status[m]
  BY DEF Commit, End
<1>3. \A m \in Messages : InQueue(m)' <=> InQueue(m) \/ m \in StoredBy(t)
  BY <1>2 DEF InQueue
<1>4. \A m \in StoredBy(t), n \in Messages :
        InQueue(n) /\ receiver[m] = receiver[n] /\ created[m] <= created[n]
          => m \in overtaken'
  BY DEF Commit
<1>5. \A m \in StoredBy(t), n \in Messages :
        InQueue(n) /\ receiver[m] = receiver[n] /\ created[m] = created[n]
          => n \in overtaken'
  BY DEF Commit
<1>6. overtaken \subseteq overtaken'
  BY DEF Commit
<1>7. EchTypeOK'
  BY DEF QueueInv, EchTypeOK, Commit, End, clientVars, StoredBy
<1>8. DistinctTimes'
  BY <1>1, <1>2 DEF QueueInv, DistinctTimes
<1>9. LastInQueue'
  BY <1>1, <1>3 DEF QueueInv, LastInQueue, QueueOf
<1>10. TiesMarked'
  <2> SUFFICES ASSUME NEW m \in Messages, NEW n \in Messages, m # n,
                      InQueue(m)', InQueue(n)', receiver[m] = receiver[n],
                      created[m] = created[n]
               PROVE  m \in overtaken'
    BY <1>1 DEF TiesMarked
  <2>1. CASE InQueue(m) /\ InQueue(n)
    BY <2>1, <1>6 DEF QueueInv, TiesMarked
  <2>2. CASE m \in StoredBy(t) /\ InQueue(n)
    BY <2>2, <1>4 DEF QueueInv, EchTypeOK
  <2>3. CASE n \in StoredBy(t) /\ InQueue(m)
    BY <2>3, <1>5
  <2>4. CASE m \in StoredBy(t) /\ n \in StoredBy(t)
    BY <2>4 DEF QueueInv, DistinctTimes, StoredBy
  <2> QED BY <2>1, <2>2, <2>3, <2>4, <1>3
<1>11. SkippedWasOvertaken'
  <2> SUFFICES ASSUME NEW s \in Services, NEW m \in Messages, InQueue(m)',
                      receiver[m] = s, last[s] # NoMessage,
                      created[m] <= created[last[s]]
               PROVE  m \in received[s] \/ m \in overtaken'
    BY <1>1 DEF SkippedWasOvertaken, QueueOf
  <2>1. last[s] \in Messages /\ InQueue(last[s]) /\ receiver[last[s]] = s
    BY DEF QueueInv, LastInQueue, QueueOf
  <2>2. CASE InQueue(m)
    BY <2>2, <1>6 DEF QueueInv, SkippedWasOvertaken, QueueOf
  <2>3. CASE m \in StoredBy(t)
    BY <2>1, <2>3, <1>4
  <2> QED BY <2>2, <2>3, <1>3
<1> QED BY <1>7, <1>8, <1>9, <1>10, <1>11 DEF QueueInv

(* A client reads the first message after the last: what lies in between   *)
(* was come past before, or is a tie.                                      *)
LEMMA PollKeeps ==
  ASSUME QueueInv, NEW s \in Services, Poll(s)  PROVE  QueueInv'
<1>1. UNCHANGED <<clock, messageVars, restarts>>
  BY DEF Poll
<1>2. PICK m \in Messages :
        /\ NextMessage(s, m)
        /\ last' = [last EXCEPT ![s] = m]
        /\ received' = [received EXCEPT ![s] = @ \cup {m}]
  BY DEF Poll
<1>3. EchTypeOK'
  BY <1>1, <1>2 DEF QueueInv, EchTypeOK, messageVars
<1>4. DistinctTimes' /\ TiesMarked'
  BY <1>1 DEF QueueInv, DistinctTimes, TiesMarked, InQueue, messageVars
<1>5. \A r \in Services : QueueOf(r)' = QueueOf(r)
  BY <1>1 DEF QueueOf, InQueue, messageVars
<1>6. last'[s] = m /\ received'[s] = received[s] \cup {m}
  BY <1>2 DEF QueueInv, EchTypeOK
<1>7. \A r \in Services \ {s} : last'[r] = last[r] /\ received'[r] = received[r]
  BY <1>2 DEF QueueInv, EchTypeOK
<1>8. LastInQueue'
  BY <1>2, <1>5, <1>6, <1>7 DEF QueueInv, LastInQueue, NextMessage
<1>9. SkippedWasOvertaken'
  <2> SUFFICES ASSUME NEW r \in Services, NEW n \in QueueOf(r),
                      last'[r] # NoMessage, created[n] <= created[last'[r]]
               PROVE  n \in received'[r] \/ n \in overtaken
    BY <1>1, <1>5 DEF SkippedWasOvertaken, messageVars
  <2>1. CASE r # s
    BY <2>1, <1>7 DEF QueueInv, SkippedWasOvertaken
  <2>2. CASE r = s /\ ~Follows(n, last[s])
    <3>1. last[s] # NoMessage /\ ~(created[last[s]] < created[n])
      BY <2>2 DEF Follows
    <3>2. last[s] \in Messages /\ n \in Messages
      BY <3>1 DEF QueueInv, LastInQueue, QueueOf
    <3>3. created[n] <= created[last[s]]
      BY <3>1, <3>2 DEF QueueInv, EchTypeOK
    <3> QED BY <2>2, <3>1, <3>3, <1>6 DEF QueueInv, SkippedWasOvertaken
  <2>3. CASE r = s /\ Follows(n, last[s])
    <3>1. created[m] <= created[n] /\ created[n] <= created[m]
      BY <2>3, <1>2, <1>6 DEF NextMessage
    <3>2. n \in Messages /\ created[n] = created[m]
      BY <3>1 DEF QueueInv, EchTypeOK, QueueOf
    <3>3. n = m \/ n \in overtaken
      BY <2>3, <3>2, <1>2 DEF QueueInv, TiesMarked, NextMessage, QueueOf
    <3> QED BY <2>3, <3>3, <1>6
  <2> QED BY <2>1, <2>2, <2>3
<1> QED BY <1>3, <1>4, <1>8, <1>9 DEF QueueInv

LEMMA RestartKeeps ==
  ASSUME QueueInv, NEW s \in Services, Restart(s)  PROVE  QueueInv'
<1>1. UNCHANGED <<clock, messageVars, received>>
  BY DEF Restart
<1>2. EchTypeOK'
  BY <1>1 DEF QueueInv, EchTypeOK, Restart, messageVars
<1>3. DistinctTimes' /\ TiesMarked'
  BY <1>1 DEF QueueInv, DistinctTimes, TiesMarked, InQueue, messageVars
<1>4. \A r \in Services : last'[r] # NoMessage => last'[r] = last[r]
  BY DEF Restart, QueueInv, EchTypeOK
<1>5. \A r \in Services : QueueOf(r)' = QueueOf(r)
  BY <1>1 DEF QueueOf, InQueue, messageVars
<1>6. LastInQueue' /\ SkippedWasOvertaken'
  BY <1>1, <1>4, <1>5 DEF QueueInv, LastInQueue, SkippedWasOvertaken, messageVars
<1> QED BY <1>2, <1>3, <1>6 DEF QueueInv

LEMMA QueueStep == ASSUME QueueInv, [EchNext]_echVars  PROVE  QueueInv'
<1>1. CASE UNCHANGED echVars
  BY <1>1 DEF echVars, messageVars, clientVars, QueueInv, EchTypeOK, DistinctTimes,
       LastInQueue, TiesMarked, SkippedWasOvertaken, QueueOf, InQueue
<1>2. CASE EchNext
  BY <1>2, TickKeeps, CreateKeeps, CommitKeeps, RollbackKeeps, PollKeeps, RestartKeeps
     DEF EchNext
<1> QED BY <1>1, <1>2

LEMMA QueueInvariant == EchSpec => []QueueInv
BY InitQueue, QueueStep, PTL DEF EchSpec

-----------------------------------------------------------------------------
(* The variables of the queue and its clients keep their types.            *)
THEOREM EchTypeCorrect == EchSpec => []EchTypeOK
<1>1. QueueInv => EchTypeOK
  BY DEF QueueInv
<1> QED BY <1>1, QueueInvariant, PTL

(* However many transactions store messages at the same time, and however  *)
(* often clients start again: a client misses a message only if it became  *)
(* visible after a later one, or was stored at the same time as another.   *)
THEOREM OnlyOvertakenMissed == EchSpec => []SkippedWasOvertaken
<1>1. QueueInv => SkippedWasOvertaken
  BY DEF QueueInv
<1> QED BY <1>1, QueueInvariant, PTL

=============================================================================

------------------------------ MODULE Numbering ------------------------------
(***************************************************************************)
(* Requests that give a dossier a number made from the highest number so   *)
(* far.  Each reads the numbers, holds the next one, and writes it later,  *)
(* or fails; nothing locks the numbers in between, and no constraint of    *)
(* the database makes them unique.  What is highest, and what else a       *)
(* request may do, is said by the modules that extend this one.            *)
(***************************************************************************)
EXTENDS Integers

CONSTANTS
  Dossiers,
  Requests,   \* bound: requests that number a dossier
  NoDossier,  \* subject of a request that was not made
  NoRequest   \* source of a number that no request has written

ASSUME NumberingAssumption ==
  NoDossier \notin Dossiers /\ NoRequest \notin Requests

VARIABLES
  number,     \* the number of each dossier, 0 for none
  source,     \* the request that wrote it
  pc,         \* where each request stands
  subject,    \* the dossier it numbers
  value,      \* the number it holds
  generated,  \* requests that made their number from the highest one
  earlier     \* the requests that had written when it read

numberVars == <<number, source>>
requestVars == <<pc, subject, value, generated, earlier>>

NumberingInit ==
  /\ number = [d \in Dossiers |-> 0]
  /\ source = [d \in Dossiers |-> NoRequest]
  /\ pc = [r \in Requests |-> "idle"]
  /\ subject = [r \in Requests |-> NoDossier]
  /\ value = [r \in Requests |-> 0]
  /\ generated = {}
  /\ earlier = [r \in Requests |-> {}]

Taken == {0} \cup {number[d] : d \in Dossiers}

Read(r, d, n) ==
  /\ pc[r] = "idle"
  /\ pc' = [pc EXCEPT ![r] = "read"]
  /\ subject' = [subject EXCEPT ![r] = d]
  /\ value' = [value EXCEPT ![r] = n]
  /\ earlier' = [earlier EXCEPT ![r] = {q \in Requests : pc[q] = "written"}]

(* The highest number is used as it is.                                    *)
ReadHighestMutant(r, d, highest) ==
  /\ Read(r, d, highest)
  /\ generated' = generated \cup {r}

ReadHighest(r, d, highest) ==
  /\ Read(r, d, highest + 1)
  /\ generated' = generated \cup {r}

(* A number that a dossier has already, or none at all.                    *)
ReadGiven(r, d, n) ==
  /\ Read(r, d, n)
  /\ UNCHANGED generated

Write(r) ==
  /\ pc[r] = "read"
  /\ pc' = [pc EXCEPT ![r] = "written"]
  /\ number' = [number EXCEPT ![subject[r]] = value[r]]
  /\ source' = [source EXCEPT ![subject[r]] = r]
  /\ UNCHANGED <<subject, value, generated, earlier>>

(* The request raises an error or its transaction is rolled back.          *)
Fail(r) ==
  /\ pc[r] = "read"
  /\ pc' = [pc EXCEPT ![r] = "failed"]
  /\ UNCHANGED <<number, source, subject, value, generated, earlier>>

(* Marks the number as free.                                               *)
DropNumberMutant(d) ==
  /\ number' = [number EXCEPT ![d] = -1]
  /\ source' = [source EXCEPT ![d] = NoRequest]

DropNumber(d) ==
  /\ number' = [number EXCEPT ![d] = 0]
  /\ source' = [source EXCEPT ![d] = NoRequest]

(* Neither had written when the other read.                                *)
Overlap(q, r) == q \notin earlier[r] /\ r \notin earlier[q]

NumberingTypeOK ==
  /\ number \in [Dossiers -> Nat]
  /\ source \in [Dossiers -> Requests \cup {NoRequest}]
  /\ pc \in [Requests -> {"idle", "read", "written", "failed"}]
  /\ subject \in [Requests -> Dossiers \cup {NoDossier}]
  /\ value \in [Requests -> Nat]
  /\ generated \subseteq Requests
  /\ earlier \in [Requests -> SUBSET Requests]

=============================================================================

----------------------------- MODULE EbauNumbers -----------------------------
(***************************************************************************)
(* eBau numbers of one year: assigned by the municipality or the support,  *)
(* by the import of a dossier, or copied from the dossier whose validity   *)
(* is extended.  Dossiers that belong together share a number, which may   *)
(* therefore be asked for; it is checked against the municipalities that   *)
(* are or were responsible for a dossier of this number.                   *)
(*                                                                         *)
(* Setting a number validates it outside of the transaction that stores    *)
(* it.  The import does both in one transaction, which others do not see   *)
(* before it ends.                                                         *)
(***************************************************************************)
EXTENDS Numbering

CONSTANTS
  Municipalities,
  NoService      \* responsible for a dossier that was not submitted

ASSUME EbauAssumption == NoService \notin Municipalities

VARIABLES
  life,         \* what has become of each dossier
  responsible,  \* the responsible municipality
  involved      \* the municipalities with a row in InstanceService

dossierVars == <<life, responsible, involved>>
ebauVars == <<numberVars, requestVars, dossierVars>>

EbauInit ==
  /\ NumberingInit
  /\ life = [d \in Dossiers |-> "unused"]
  /\ responsible = [d \in Dossiers |-> NoService]
  /\ involved = [d \in Dossiers |-> {}]

Exists(d) == life[d] \in {"new", "submitted", "imported"}

-----------------------------------------------------------------------------
(* The numbers.                                                            *)

(* Some number instead of the highest one.                                 *)
HighestNumberMutant(n) == n \in Taken

HighestNumber(n) == n \in Taken /\ \A m \in Taken : m <= n

GenerateNumber(r, d) == \E n \in Taken : HighestNumber(n) /\ ReadHighest(r, d, n)

(* Without a municipality the filter looks for dossiers without a row.     *)
Shares(d, m) == IF m = NoService THEN involved[d] = {} ELSE m \in involved[d]

(* The number may be left empty, to get a new one, or out, to get none.    *)
SetNumber(r) ==
  /\ \E d \in Dossiers :
       /\ Exists(d)
       /\ \/ GenerateNumber(r, d)
          \/ \E e \in Dossiers :
               /\ number[e] > 0 /\ Shares(e, responsible[d])
               /\ ReadGiven(r, d, number[e])
          \/ ReadGiven(r, d, 0)
  /\ UNCHANGED <<numberVars, dossierVars>>

(* A transaction that creates dossier d for municipality m.                *)
Begin(d, kind, m) ==
  /\ life[d] = "unused"
  /\ life' = [life EXCEPT ![d] = kind]
  /\ responsible' = [responsible EXCEPT ![d] = m]
  /\ UNCHANGED <<numberVars, involved>>

(* The proposed number is taken when the first case that has it belongs to *)
(* the importing municipality; the order of the cases is not determined.   *)
ImportNumber(r) ==
  \E d \in Dossiers, m \in Municipalities :
    /\ Begin(d, "importing", m)
    /\ \/ GenerateNumber(r, d)
       \/ \E e \in Dossiers :
            number[e] > 0 /\ m \in involved[e] /\ ReadGiven(r, d, number[e])
       \/ ReadGiven(r, d, 0)

(* The extension of the validity of dossier e.                             *)
CopyNumber(r) ==
  \E d, e \in Dossiers :
    /\ Begin(d, "copying", NoService)
    /\ Exists(e)
    /\ ReadGiven(r, d, number[e])

(* The end of any of the three.                                            *)
Store(r) ==
  LET d == subject[r] IN
    /\ Write(r)
    /\ \/ Exists(d) /\ UNCHANGED life
       \/ life[d] = "importing" /\ life' = [life EXCEPT ![d] = "imported"]
       \/ life[d] = "copying" /\ life' = [life EXCEPT ![d] = "new"]
    /\ involved' = [involved EXCEPT ![d] = @ \cup ({responsible[d]} \ {NoService})]
    /\ UNCHANGED responsible

Refuse(r) ==
  LET d == subject[r] IN
    /\ Fail(r)
    /\ \/ life[d] \notin {"importing", "copying"} /\ UNCHANGED dossierVars
       \/ /\ life[d] \in {"importing", "copying"}
          /\ life' = [life EXCEPT ![d] = "unused"]
          /\ responsible' = [responsible EXCEPT ![d] = NoService]
          /\ UNCHANGED involved

-----------------------------------------------------------------------------
(* The dossiers.                                                           *)

Involve(d, m) ==
  /\ responsible' = [responsible EXCEPT ![d] = m]
  /\ involved' = [involved EXCEPT ![d] = @ \cup {m}]

(* By an applicant, or by a municipality on paper.                         *)
Create(d) ==
  /\ life[d] = "unused"
  /\ life' = [life EXCEPT ![d] = "new"]
  /\ UNCHANGED <<responsible, involved>> \/ \E m \in Municipalities : Involve(d, m)
  /\ UNCHANGED <<numberVars, requestVars>>

Submit(d) ==
  /\ life[d] = "new"
  /\ life' = [life EXCEPT ![d] = "submitted"]
  /\ IF responsible[d] = NoService
     THEN \E m \in Municipalities : Involve(d, m)
     ELSE UNCHANGED <<responsible, involved>>
  /\ UNCHANGED <<numberVars, requestVars>>

(* The row of the former municipality stays, inactive.                     *)
ChangeResponsible(d) ==
  /\ Exists(d)
  /\ responsible[d] # NoService
  /\ \E m \in Municipalities \ {responsible[d]} : Involve(d, m)
  /\ UNCHANGED <<numberVars, requestVars, life>>

(* The applicant deletes a new dossier, or an import is undone.            *)
DeleteDossier(d) ==
  /\ life[d] \in {"new", "imported"}
  /\ life' = [life EXCEPT ![d] = "deleted"]
  /\ responsible' = [responsible EXCEPT ![d] = NoService]
  /\ involved' = [involved EXCEPT ![d] = {}]
  /\ DropNumber(d)
  /\ UNCHANGED requestVars

EbauNext ==
  \/ \E r \in Requests :
       SetNumber(r) \/ ImportNumber(r) \/ CopyNumber(r) \/ Store(r) \/ Refuse(r)
  \/ \E d \in Dossiers :
       Create(d) \/ Submit(d) \/ ChangeResponsible(d) \/ DeleteDossier(d)

EbauSpec == EbauInit /\ [][EbauNext]_ebauVars

-----------------------------------------------------------------------------
EbauTypeOK ==
  /\ NumberingTypeOK
  /\ life \in [Dossiers -> {"unused", "new", "submitted", "importing", "imported",
                            "copying", "deleted"}]
  /\ responsible \in [Dossiers -> Municipalities \cup {NoService}]
  /\ involved \in [Dossiers -> SUBSET Municipalities]

(* Two dossiers whose numbers were generated never have the same one,      *)
(* unless the two requests ran at the same time.                           *)
GeneratedUnique ==
  \A d, e \in Dossiers :
    number[d] = number[e] /\ {source[d], source[e]} \subseteq generated =>
      source[d] = source[e] \/ Overlap(source[d], source[e])

=============================================================================

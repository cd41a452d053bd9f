---------------------------- MODULE NumberProofs ----------------------------
(***************************************************************************)
(* Proofs about eBau numbers and dossier numbers, for any number of        *)
(* dossiers, requests and municipalities, and for any width of the         *)
(* numbers.                                                                *)
(***************************************************************************)
EXTENDS EbauNumbers, DossierNumbers, TLAPS

(* A request that generated its number holds one that is higher than those *)
(* of all dossiers numbered before it read, as far as both are below the   *)
(* limit.  It is what is left of the highest number when other requests    *)
(* write in between.                                                       *)
AboveEarlier(limit) ==
  \A r \in generated : \A d \in Dossiers :
    source[d] \in earlier[r] /\ number[d] < limit /\ value[r] < limit =>
      number[d] < value[r]

SourceWrote ==
  \A d \in Dossiers :
    source[d] # NoRequest => pc[source[d]] = "written" /\ number[d] = value[source[d]]

EarlierWrote == \A r \in Requests : \A q \in earlier[r] : pc[q] = "written"

IdleIsNew == \A r \in Requests : pc[r] = "idle" => r \notin generated

NumInv(limit) ==
  NumberingTypeOK /\ AboveEarlier(limit) /\ SourceWrote /\ EarlierWrote /\ IdleIsNew

-----------------------------------------------------------------------------
LEMMA ReadHighestKeeps ==
  ASSUME NEW limit \in Nat, NumInv(limit),
         NEW r \in Requests, NEW d \in Dossiers, NEW n \in Nat,
         \A m \in Taken : m < limit /\ n + 1 < limit => m <= n,
         ReadHighest(r, d, n), UNCHANGED numberVars
  PROVE  NumInv(limit)'
<1>1. \A e \in Dossiers : number[e] < limit /\ n + 1 < limit => number[e] <= n
  BY DEF Taken
<1>2. NumberingTypeOK'
  BY DEF NumInv, NumberingTypeOK, ReadHighest, Read, numberVars
<1>3. pc[r] = "idle" /\ r \notin generated
  BY DEF NumInv, IdleIsNew, ReadHighest, Read
<1>4. \A q \in Requests : q # r => pc'[q] = pc[q] /\ value'[q] = value[q] /\ earlier'[q] = earlier[q]
  BY DEF NumInv, NumberingTypeOK, ReadHighest, Read
<1>5. pc'[r] = "read" /\ value'[r] = n + 1 /\ earlier'[r] = {q \in Requests : pc[q] = "written"}
  BY DEF NumInv, NumberingTypeOK, ReadHighest, Read
<1>6. number' = number /\ source' = source /\ generated' = generated \cup {r}
  BY DEF numberVars, ReadHighest
<1>7. \A e \in Dossiers : number[e] \in Nat
  BY DEF NumInv, NumberingTypeOK
<1>8. AboveEarlier(limit)'
  <2> SUFFICES ASSUME NEW q \in generated', NEW e \in Dossiers, source[e] \in earlier'[q],
                      number[e] < limit, value'[q] < limit
               PROVE  number[e] < value'[q]
    BY <1>6 DEF AboveEarlier
  <2>1. CASE q = r
    BY <2>1, <1>1, <1>5, <1>7
  <2>2. CASE q # r
    <3>1. q \in generated /\ q \in Requests
      BY <2>2, <1>6 DEF NumInv, NumberingTypeOK
    <3> QED
      BY <3>1, <2>2, <1>4 DEF NumInv, AboveEarlier
  <2> QED
    BY <2>1, <2>2
<1>9. SourceWrote'
  <2> SUFFICES ASSUME NEW e \in Dossiers, source[e] # NoRequest
               PROVE  pc'[source[e]] = "written" /\ number[e] = value'[source[e]]
    BY <1>6 DEF SourceWrote
  <2>1. source[e] \in Requests /\ pc[source[e]] = "written" /\ number[e] = value[source[e]]
    BY DEF NumInv, NumberingTypeOK, SourceWrote
  <2> QED
    BY <2>1, <1>3, <1>4
<1>10. EarlierWrote'
  <2> SUFFICES ASSUME NEW p \in Requests, NEW q \in earlier'[p] PROVE pc'[q] = "written"
    BY DEF EarlierWrote
  <2>1. q \in Requests /\ pc[q] = "written"
    BY <1>4, <1>5 DEF NumInv, NumberingTypeOK, EarlierWrote
  <2> QED
    BY <2>1, <1>3, <1>4
<1>11. IdleIsNew'
  BY <1>4, <1>5, <1>6 DEF NumInv, IdleIsNew
<1> QED
  BY <1>2, <1>8, <1>9, <1>10, <1>11 DEF NumInv

LEMMA ReadGivenKeeps ==
  ASSUME NEW limit \in Nat, NumInv(limit),
         NEW r \in Requests, NEW d \in Dossiers, NEW n \in Nat,
         ReadGiven(r, d, n), UNCHANGED numberVars
  PROVE  NumInv(limit)'
<1>1. NumberingTypeOK'
  BY DEF NumInv, NumberingTypeOK, ReadGiven, Read, numberVars
<1>2. pc[r] = "idle" /\ r \notin generated
  BY DEF NumInv, IdleIsNew, ReadGiven, Read
<1>3. \A q \in Requests : q # r => pc'[q] = pc[q] /\ value'[q] = value[q] /\ earlier'[q] = earlier[q]
  BY DEF NumInv, NumberingTypeOK, ReadGiven, Read
<1>4. pc'[r] = "read" /\ earlier'[r] = {q \in Requests : pc[q] = "written"}
  BY DEF NumInv, NumberingTypeOK, ReadGiven, Read
<1>5. number' = number /\ source' = source /\ generated' = generated
  BY DEF numberVars, ReadGiven
<1>6. AboveEarlier(limit)'
  BY <1>2, <1>3, <1>5 DEF NumInv, NumberingTypeOK, AboveEarlier
<1>7. SourceWrote'
  <2> SUFFICES ASSUME NEW e \in Dossiers, source[e] # NoRequest
               PROVE  pc'[source[e]] = "written" /\ number[e] = value'[source[e]]
    BY <1>5 DEF SourceWrote
  <2>1. source[e] \in Requests /\ pc[source[e]] = "written" /\ number[e] = value[source[e]]
    BY DEF NumInv, NumberingTypeOK, SourceWrote
  <2> QED
    BY <2>1, <1>2, <1>3
<1>8. EarlierWrote'
  <2> SUFFICES ASSUME NEW p \in Requests, NEW q \in earlier'[p] PROVE pc'[q] = "written"
    BY DEF EarlierWrote
  <2>1. q \in Requests /\ pc[q] = "written"
    BY <1>3, <1>4 DEF NumInv, NumberingTypeOK, EarlierWrote
  <2> QED
    BY <2>1, <1>2, <1>3
<1>9. IdleIsNew'
  BY <1>3, <1>4, <1>5 DEF NumInv, IdleIsNew
<1> QED
  BY <1>1, <1>6, <1>7, <1>8, <1>9 DEF NumInv

LEMMA WriteKeeps ==
  ASSUME NEW limit \in Nat, NumInv(limit), NEW r \in Requests, Write(r)
  PROVE  NumInv(limit)'
<1>1. NumberingTypeOK'
  BY DEF NumInv, NumberingTypeOK, Write
<1>2. pc[r] = "read" /\ pc'[r] = "written"
  BY DEF NumInv, NumberingTypeOK, Write
<1>3. \A q \in Requests : q # r => pc'[q] = pc[q]
  BY DEF NumInv, NumberingTypeOK, Write
<1>4. UNCHANGED <<value, generated, earlier>>
  BY DEF Write
<1>5. \A e \in Dossiers :
        \/ source'[e] = r /\ number'[e] = value[r]
        \/ source'[e] = source[e] /\ number'[e] = number[e]
  BY DEF NumInv, NumberingTypeOK, Write
<1>6. AboveEarlier(limit)'
  <2> SUFFICES ASSUME NEW q \in generated, NEW e \in Dossiers, source'[e] \in earlier[q],
                      number'[e] < limit, value[q] < limit
               PROVE  number'[e] < value[q]
    BY <1>4 DEF AboveEarlier
  <2>1. r \notin earlier[q]
    BY <1>2 DEF NumInv, NumberingTypeOK, EarlierWrote
  <2>2. source[e] \in earlier[q] /\ number'[e] = number[e]
    BY <2>1, <1>5
  <2> QED
    BY <2>2 DEF NumInv, AboveEarlier
<1>7. SourceWrote'
  <2> SUFFICES ASSUME NEW e \in Dossiers, source'[e] # NoRequest
               PROVE  pc'[source'[e]] = "written" /\ number'[e] = value[source'[e]]
    BY <1>4 DEF SourceWrote
  <2>1. CASE source'[e] = r /\ number'[e] = value[r]
    BY <2>1, <1>2
  <2>2. CASE source'[e] = source[e] /\ number'[e] = number[e]
    <3>1. source[e] \in Requests /\ pc[source[e]] = "written" /\ number[e] = value[source[e]]
      BY <2>2 DEF NumInv, NumberingTypeOK, SourceWrote
    <3> QED
      BY <3>1, <2>2, <1>2, <1>3
  <2> QED
    BY <2>1, <2>2, <1>5
<1>8. EarlierWrote'
  BY <1>2, <1>3, <1>4 DEF NumInv, NumberingTypeOK, EarlierWrote
<1>9. IdleIsNew'
  BY <1>2, <1>3, <1>4 DEF NumInv, IdleIsNew
<1> QED
  BY <1>1, <1>6, <1>7, <1>8, <1>9 DEF NumInv

LEMMA FailKeeps ==
  ASSUME NEW limit \in Nat, NumInv(limit), NEW r \in Requests, Fail(r)
  PROVE  NumInv(limit)'
<1>1. NumberingTypeOK'
  BY DEF NumInv, NumberingTypeOK, Fail
<1>2. /\ pc[r] = "read"
      /\ \A q \in Requests : pc[q] = "written" => pc'[q] = "written"
      /\ \A q \in Requests : pc'[q] = "idle" => pc[q] = "idle"
  BY DEF NumInv, NumberingTypeOK, Fail
<1>3. UNCHANGED <<number, source, value, generated, earlier>>
  BY DEF Fail
<1>4. AboveEarlier(limit)' /\ IdleIsNew'
  BY <1>2, <1>3 DEF NumInv, AboveEarlier, IdleIsNew
<1>5. SourceWrote' /\ EarlierWrote'
  BY <1>2, <1>3 DEF NumInv, NumberingTypeOK, SourceWrote, EarlierWrote
<1> QED
  BY <1>1, <1>4, <1>5 DEF NumInv

LEMMA DropKeeps ==
  ASSUME NEW limit \in Nat, NumInv(limit), NEW d \in Dossiers, DropNumber(d), UNCHANGED requestVars
  PROVE  NumInv(limit)'
<1>1. NumberingTypeOK'
  BY DEF NumInv, NumberingTypeOK, DropNumber, requestVars
<1>2. \A e \in Dossiers :
        \/ source'[e] = NoRequest
        \/ source'[e] = source[e] /\ number'[e] = number[e]
  BY DEF NumInv, NumberingTypeOK, DropNumber
<1>3. UNCHANGED <<pc, value, generated, earlier>>
  BY DEF requestVars
<1>4. NoRequest \notin Requests
  BY NumberingAssumption
<1>5. AboveEarlier(limit)'
  <2> SUFFICES ASSUME NEW q \in generated, NEW e \in Dossiers, source'[e] \in earlier[q],
                      number'[e] < limit, value[q] < limit
               PROVE  number'[e] < value[q]
    BY <1>3 DEF AboveEarlier
  <2>1. source'[e] # NoRequest
    BY <1>4 DEF NumInv, NumberingTypeOK
  <2> QED
    BY <2>1, <1>2 DEF NumInv, AboveEarlier
<1>6. SourceWrote' /\ EarlierWrote' /\ IdleIsNew'
  BY <1>2, <1>3 DEF NumInv, SourceWrote, EarlierWrote, IdleIsNew
<1> QED
  BY <1>1, <1>5, <1>6 DEF NumInv

LEMMA SameNumbersKeep ==
  ASSUME NEW limit \in Nat, NumInv(limit), UNCHANGED <<numberVars, requestVars>>
  PROVE  NumInv(limit)'
BY DEF NumInv, NumberingTypeOK, AboveEarlier, SourceWrote, EarlierWrote,
       IdleIsNew, numberVars, requestVars

(* Two requests whose numbers are the same, below the limit, overlap.      *)
LEMMA SameNumberOverlaps ==
  ASSUME NEW limit \in Nat, NumInv(limit), NEW d \in Dossiers, NEW e \in Dossiers,
         number[d] = number[e], number[d] < limit,
         {source[d], source[e]} \subseteq generated
  PROVE  Overlap(source[d], source[e])
<1> SUFFICES ASSUME source[d] \in earlier[source[e]] \/ source[e] \in earlier[source[d]]
             PROVE  FALSE
  BY DEF Overlap
<1>1. source[d] \in Requests /\ source[e] \in Requests
  BY DEF NumInv, NumberingTypeOK
<1>2. number[d] = value[source[d]] /\ number[e] = value[source[e]]
  BY <1>1, NumberingAssumption DEF NumInv, SourceWrote
<1>3. \A n \in Nat : ~(n < n)
  OBVIOUS
<1>4. number[d] \in Nat /\ number[e] \in Nat
  BY DEF NumInv, NumberingTypeOK
<1>5. CASE source[d] \in earlier[source[e]]
  <2>1. number[d] < number[e]
    BY <1>2, <1>5 DEF NumInv, AboveEarlier
  <2> QED
    BY <2>1, <1>3, <1>4
<1>6. CASE source[e] \in earlier[source[d]]
  <2>1. number[e] < number[d]
    BY <1>2, <1>6 DEF NumInv, AboveEarlier
  <2> QED
    BY <2>1, <1>3, <1>4
<1> QED
  BY <1>5, <1>6

-----------------------------------------------------------------------------
(* eBau numbers.                                                           *)

EbauInv == EbauTypeOK /\ \A limit \in Nat : NumInv(limit)

LEMMA ReadKeeps ==
  ASSUME NEW limit \in Nat, NumInv(limit), NEW r \in Requests, UNCHANGED numberVars,
         SetNumber(r) \/ ImportNumber(r) \/ CopyNumber(r)
  PROVE  NumInv(limit)'
<1>1. \E d \in Dossiers : GenerateNumber(r, d) \/ \E n \in Nat : ReadGiven(r, d, n)
  BY DEF NumInv, NumberingTypeOK, SetNumber, ImportNumber, CopyNumber
<1>2. CASE \E d \in Dossiers : GenerateNumber(r, d)
  <2>1. Taken \subseteq Nat
    BY DEF NumInv, NumberingTypeOK, Taken
  <2>2. PICK d \in Dossiers, n \in Taken : HighestNumber(n) /\ ReadHighest(r, d, n)
    BY <1>2 DEF GenerateNumber
  <2> QED
    BY <2>1, <2>2, ReadHighestKeeps DEF HighestNumber
<1>3. CASE \E d \in Dossiers : \E n \in Nat : ReadGiven(r, d, n)
  BY <1>3, ReadGivenKeeps
<1> QED
  BY <1>1, <1>2, <1>3

DossiersTyped ==
  /\ life \in [Dossiers -> {"unused", "new", "submitted", "importing", "imported",
                            "copying", "deleted"}]
  /\ responsible \in [Dossiers -> Municipalities \cup {NoService}]
  /\ involved \in [Dossiers -> SUBSET Municipalities]

LEMMA DossiersStayTyped ==
  ASSUME EbauTypeOK, [EbauNext]_ebauVars
  PROVE  DossiersTyped'
<1> USE DEF EbauTypeOK, DossiersTyped
<1>1. CASE UNCHANGED ebauVars
  BY <1>1 DEF ebauVars, dossierVars
<1>2. ASSUME NEW r \in Requests, SetNumber(r) PROVE DossiersTyped'
  BY <1>2 DEF SetNumber, dossierVars
<1>3. ASSUME NEW r \in Requests, ImportNumber(r) \/ CopyNumber(r) PROVE DossiersTyped'
  BY <1>3 DEF ImportNumber, CopyNumber, Begin
<1>4. ASSUME NEW r \in Requests, Store(r) PROVE DossiersTyped'
  <2>1. life' \in [Dossiers -> {"unused", "new", "submitted", "importing", "imported",
                                "copying", "deleted"}]
    BY <1>4 DEF Store
  <2>2. subject[r] \in Dossiers =>
          responsible[subject[r]] \in Municipalities \cup {NoService}
    OBVIOUS
  <2>3. involved' \in [Dossiers -> SUBSET Municipalities]
    BY <1>4, <2>2 DEF Store
  <2> QED
    BY <1>4, <2>1, <2>3 DEF Store
<1>5. ASSUME NEW r \in Requests, Refuse(r) PROVE DossiersTyped'
  BY <1>5 DEF Refuse, dossierVars
<1>6. ASSUME NEW d \in Dossiers, Create(d) \/ Submit(d) \/ ChangeResponsible(d)
      PROVE  DossiersTyped'
  BY <1>6 DEF Create, Submit, ChangeResponsible, Involve
<1>7. ASSUME NEW d \in Dossiers, DeleteDossier(d) PROVE DossiersTyped'
  BY <1>7 DEF DeleteDossier
<1> QED
  BY <1>1, <1>2, <1>3, <1>4, <1>5, <1>6, <1>7 DEF EbauNext

LEMMA InvInit == EbauInit => EbauInv
BY NumberingAssumption
   DEF EbauInit, NumberingInit, EbauInv, EbauTypeOK, NumberingTypeOK, NumInv,
       AboveEarlier, SourceWrote, EarlierWrote, IdleIsNew

LEMMA NumbersNext ==
  ASSUME NEW limit \in Nat, NumInv(limit), [EbauNext]_ebauVars
  PROVE  NumInv(limit)'
<1>1. CASE UNCHANGED ebauVars
  BY <1>1, SameNumbersKeep DEF ebauVars
<1>2. ASSUME NEW r \in Requests, SetNumber(r) \/ ImportNumber(r) \/ CopyNumber(r)
      PROVE  NumInv(limit)'
  <2>1. UNCHANGED numberVars
    BY <1>2 DEF SetNumber, ImportNumber, CopyNumber, Begin
  <2> QED
    BY <2>1, <1>2, ReadKeeps
<1>3. ASSUME NEW r \in Requests, Store(r)
      PROVE  NumInv(limit)'
  BY <1>3, WriteKeeps DEF Store
<1>4. ASSUME NEW r \in Requests, Refuse(r)
      PROVE  NumInv(limit)'
  BY <1>4, FailKeeps DEF Refuse
<1>5. ASSUME NEW d \in Dossiers, Create(d) \/ Submit(d) \/ ChangeResponsible(d)
      PROVE  NumInv(limit)'
  BY <1>5, SameNumbersKeep DEF Create, Submit, ChangeResponsible
<1>6. ASSUME NEW d \in Dossiers, DeleteDossier(d)
      PROVE  NumInv(limit)'
  BY <1>6, DropKeeps DEF DeleteDossier
<1> QED
  BY <1>1, <1>2, <1>3, <1>4, <1>5, <1>6 DEF EbauNext

LEMMA InvNext == EbauInv /\ [EbauNext]_ebauVars => EbauInv'
<1> SUFFICES ASSUME EbauInv, [EbauNext]_ebauVars
             PROVE  EbauInv'
  OBVIOUS
<1>1. DossiersTyped'
  BY DossiersStayTyped DEF EbauInv
<1>2. \A limit \in Nat : NumInv(limit)'
  BY NumbersNext DEF EbauInv
<1>3. NumberingTypeOK'
  <2>1. NumInv(0)'
    BY <1>2
  <2> QED
    BY <2>1 DEF NumInv
<1> QED
  BY <1>1, <1>2, <1>3 DEF EbauInv, EbauTypeOK, DossiersTyped

LEMMA Inductive == EbauSpec => []EbauInv
BY InvInit, InvNext, PTL DEF EbauSpec

(* The variables keep their types, whatever requests overlap.              *)
THEOREM EbauTypeCorrect == EbauSpec => []EbauTypeOK
<1>1. EbauInv => EbauTypeOK
  BY DEF EbauInv
<1> QED
  BY <1>1, Inductive, PTL

(* Without a lock on the numbers, and although dossiers are renumbered and *)
(* deleted, only requests that overlap can generate the same number.       *)
THEOREM GeneratedDiffer == EbauSpec => []GeneratedUnique
<1>1. ASSUME EbauInv PROVE GeneratedUnique
  <2> SUFFICES ASSUME NEW d \in Dossiers, NEW e \in Dossiers, number[d] = number[e],
                      {source[d], source[e]} \subseteq generated
               PROVE  Overlap(source[d], source[e])
    BY DEF GeneratedUnique
  <2>1. number[d] + 1 \in Nat /\ number[d] < number[d] + 1
    BY <1>1 DEF EbauInv, EbauTypeOK, NumberingTypeOK
  <2>2. NumInv(number[d] + 1)
    BY <1>1, <2>1 DEF EbauInv
  <2> QED
    BY <2>1, <2>2, SameNumberOverlaps
<1> QED
  BY <1>1, Inductive, PTL

-----------------------------------------------------------------------------
(* Dossier numbers.                                                        *)

Limit == Base ^ Padding

LEMMA LimitPositive == Limit \in Nat \ {0}
BY DossierNumbersAssumption DEF Limit

LEMMA WidthOfPadded ==
  ASSUME NEW n \in Nat, n < Limit
  PROVE  Width(n) = Padding
<1> DEFINE Fits(w) == n < Base ^ w /\ \A v \in Padding..(w - 1) : Base ^ v <= n
<1>1. Padding \in Nat \ {0}
  BY DossierNumbersAssumption
<1>2. Padding \in Padding..(Padding + n) /\ Padding..(Padding - 1) = {}
  BY <1>1
<1>3. Fits(Padding)
  BY <1>2 DEF Limit
<1>4. ASSUME NEW w \in Padding..(Padding + n), w # Padding PROVE ~Fits(w)
  <2>1. Padding \in Padding..(w - 1)
    BY <1>1, <1>4
  <2>2. ~(Limit <= n)
    BY LimitPositive
  <2> QED
    BY <2>1, <2>2 DEF Limit
<1>5. Width(n) = CHOOSE w \in Padding..(Padding + n) : Fits(w)
  BY DEF Width
<1> HIDE DEF Fits
<1> QED
  BY <1>2, <1>3, <1>4, <1>5

(* As long as the numbers fit, the strings are ordered as the numbers are. *)
LEMMA PaddedOrder ==
  ASSUME NEW m \in Nat, NEW n \in Nat, m < Limit, n < Limit
  PROVE  StringLess(m, n) <=> m < n
<1>1. Width(m) = Padding /\ Width(n) = Padding
  BY WidthOfPadded
<1>2. StringLess(m, n) <=> m * Limit < n * Limit \/ (m * Limit = n * Limit /\ Padding < Padding)
  BY <1>1 DEF StringLess, Limit
<1>3. \A k \in Nat \ {0} : m * k < n * k <=> m < n
  OBVIOUS
<1>4. ~(Padding < Padding)
  BY DossierNumbersAssumption
<1> QED
  BY <1>2, <1>3, <1>4, LimitPositive

LEMMA HighestIsHighest ==
  ASSUME NumberingTypeOK, NEW n \in Nat, HighestIdentifier(n), n + 1 < Limit
  PROVE  /\ \A m \in Taken : m < Limit => m <= n
         /\ Given <= n
<1>1. Taken \subseteq Nat /\ Given \in Nat /\ Limit \in Nat \ {0}
  BY LimitPositive, DossierNumbersAssumption DEF NumberingTypeOK, Taken
<1>2. ASSUME NEW m \in Numbers, m < Limit PROVE m <= n
  <2>1. m \in Nat /\ n < Limit
    BY <1>1 DEF Numbers
  <2>2. ~(n < m)
    BY <2>1, <1>2, PaddedOrder DEF HighestIdentifier
  <2> QED
    BY <2>1, <2>2
<1>3. CASE Given < Limit
  BY <1>1, <1>2, <1>3 DEF Numbers
<1>4. CASE Limit <= Given
  <2>1. Limit - 1 \in Numbers /\ Limit - 1 < Limit
    BY <1>1, <1>4 DEF Numbers
  <2>2. Limit - 1 <= n
    BY <2>1, <1>2
  <2> QED
    BY <2>2, <1>1
<1> QED
  BY <1>1, <1>2, <1>3, <1>4 DEF Numbers

AboveGiven == \A r \in generated : value[r] < Limit => Given < value[r]

IdentifierInv == NumInv(Limit) /\ AboveGiven

LEMMA IdentifierInit == NumberingInit => IdentifierInv
BY NumberingAssumption
   DEF NumberingInit, IdentifierInv, NumberingTypeOK, NumInv, AboveEarlier, AboveGiven,
       SourceWrote, EarlierWrote, IdleIsNew

LEMMA IdentifierNext ==
  IdentifierInv /\ [DossierNumbersNext]_identifierVars => IdentifierInv'
<1> SUFFICES ASSUME IdentifierInv, [DossierNumbersNext]_identifierVars
             PROVE  IdentifierInv'
  OBVIOUS
<1> NumInv(Limit) /\ AboveGiven /\ NumberingTypeOK /\ Limit \in Nat
  BY LimitPositive DEF IdentifierInv, NumInv
<1>1. CASE UNCHANGED identifierVars
  <2>1. UNCHANGED <<numberVars, requestVars>>
    BY <1>1 DEF identifierVars
  <2> QED
    BY <2>1, SameNumbersKeep DEF IdentifierInv, AboveGiven, requestVars
<1>2. ASSUME NEW r \in Requests, NEW d \in Dossiers, NEW n \in Numbers,
             HighestIdentifier(n), ReadHighest(r, d, n), UNCHANGED numberVars
      PROVE  IdentifierInv'
  <2>1. n \in Nat
    BY DossierNumbersAssumption DEF Numbers, Taken, NumberingTypeOK
  <2>2. n + 1 < Limit => Given <= n /\ \A m \in Taken : m < Limit => m <= n
    BY <1>2, <2>1, HighestIsHighest
  <2>3. NumInv(Limit)'
    BY <1>2, <2>1, <2>2, ReadHighestKeeps
  <2>4. /\ value'[r] = n + 1 /\ generated' = generated \cup {r}
        /\ \A q \in Requests : q # r => value'[q] = value[q]
    BY <1>2 DEF ReadHighest, Read, NumberingTypeOK
  <2>5. AboveGiven'
    BY <2>1, <2>2, <2>4, DossierNumbersAssumption DEF AboveGiven, NumberingTypeOK
  <2> QED
    BY <2>3, <2>5 DEF IdentifierInv
<1>3. ASSUME NEW r \in Requests, NEW d \in Dossiers, ReadGiven(r, d, number[d]),
             UNCHANGED numberVars
      PROVE  IdentifierInv'
  <2>1. NumInv(Limit)'
    BY <1>3, ReadGivenKeeps DEF NumberingTypeOK
  <2>2. r \notin generated
    BY <1>3 DEF ReadGiven, Read, NumInv, IdleIsNew
  <2>3. AboveGiven'
    BY <1>3, <2>2 DEF ReadGiven, Read, AboveGiven, NumberingTypeOK
  <2> QED
    BY <2>1, <2>3 DEF IdentifierInv
<1>4. ASSUME NEW r \in Requests, Write(r) PROVE IdentifierInv'
  <2>1. NumInv(Limit)'
    BY <1>4, WriteKeeps
  <2> QED
    BY <2>1, <1>4 DEF IdentifierInv, AboveGiven, Write
<1>5. ASSUME NEW r \in Requests, Fail(r) PROVE IdentifierInv'
  <2>1. NumInv(Limit)'
    BY <1>5, FailKeeps
  <2> QED
    BY <2>1, <1>5 DEF IdentifierInv, AboveGiven, Fail
<1>6. ASSUME NEW d \in Dossiers, DeleteNumbered(d) PROVE IdentifierInv'
  <2>1. NumInv(Limit)'
    BY <1>6, DropKeeps DEF DeleteNumbered
  <2> QED
    BY <2>1, <1>6 DEF IdentifierInv, AboveGiven, DeleteNumbered, requestVars
<1>7. ASSUME NEW r \in Requests, GenerateIdentifier(r) PROVE IdentifierInv'
  BY <1>7, <1>2, <1>3 DEF GenerateIdentifier
<1> QED
  BY <1>1, <1>4, <1>5, <1>6, <1>7 DEF DossierNumbersNext

LEMMA IdentifierInductive == DossierNumbersSpec => []IdentifierInv
BY IdentifierInit, IdentifierNext, PTL DEF DossierNumbersSpec

(* Dossier numbers that fit into their width are unique, but for requests  *)
(* that overlap, although they are compared as strings.                    *)
THEOREM IdentifiersDiffer == DossierNumbersSpec => []NumbersUnique
<1>1. IdentifierInv => NumbersUnique
  <2> SUFFICES ASSUME IdentifierInv, NEW d \in Dossiers, NEW e \in Dossiers,
                      number[d] = number[e], number[d] < Limit,
                      {source[d], source[e]} \subseteq generated
               PROVE  Overlap(source[d], source[e])
    BY DEF NumbersUnique, Limit
  <2> QED
    BY LimitPositive, SameNumberOverlaps DEF IdentifierInv
<1> QED
  BY <1>1, IdentifierInductive, PTL

(* They are not among those given before either.                           *)
THEOREM IdentifiersAreNew == DossierNumbersSpec => []NumbersNew
<1>1. IdentifierInv => NumbersNew
  <2> SUFFICES ASSUME IdentifierInv, NEW d \in Dossiers, source[d] \in generated,
                      number[d] < Limit
               PROVE  Given < number[d]
    BY DossierNumbersAssumption DEF NumbersNew, Limit, IdentifierInv, NumInv, NumberingTypeOK
  <2>1. number[d] = value[source[d]]
    BY NumberingAssumption DEF IdentifierInv, NumInv, NumberingTypeOK, SourceWrote
  <2> QED
    BY <2>1 DEF IdentifierInv, AboveGiven
<1> QED
  BY <1>1, IdentifierInductive, PTL

=============================================================================

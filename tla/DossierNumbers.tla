--------------------------- MODULE DossierNumbers ---------------------------
(***************************************************************************)
(* Dossier numbers (identifiers) of one prefix and one year.  The highest  *)
(* one is found by comparing them as strings, in which the number is       *)
(* padded with zeros to a width of three (four for imports), so that it is *)
(* not the highest number any more once that width is exceeded.            *)
(***************************************************************************)
EXTENDS Numbering

CONSTANTS
  Base,         \* of the digits, ten
  Padding,      \* the width that numbers are padded to
  Given,        \* dossiers numbered before, without gaps
  Renumbers     \* whether a dossier gets another number when it is submitted

ASSUME DossierNumbersAssumption ==
  /\ Base \in Nat \ {0, 1}
  /\ Padding \in Nat \ {0}
  /\ Base ^ Padding \in Nat \ {0}
  /\ Given \in Nat
  /\ Renumbers \in BOOLEAN

identifierVars == <<numberVars, requestVars>>

(* How many digits number n has, padded.                                   *)
Width(n) ==
  CHOOSE w \in Padding..(Padding + n) :
    n < Base ^ w /\ \A v \in Padding..(w - 1) : Base ^ v <= n

(* Whether padded number m comes before n as a string: as fractions, or as *)
(* a proper prefix.                                                        *)
StringLess(m, n) ==
  LET left == m * Base ^ Width(n)
      right == n * Base ^ Width(m)
  IN left < right \/ (left = right /\ Width(m) < Width(n))

Numbers == 0..Given \cup Taken

HighestIdentifier(n) == n \in Numbers /\ \A m \in Numbers : ~StringLess(n, m)

(* A dossier that has an identifier keeps it; where the number is stored   *)
(* with the case only, none is found and a new one is made.                *)
GenerateIdentifier(r) ==
  /\ \E d \in Dossiers :
       IF number[d] > 0 /\ ~Renumbers
       THEN ReadGiven(r, d, number[d])
       ELSE \E n \in Numbers : HighestIdentifier(n) /\ ReadHighest(r, d, n)
  /\ UNCHANGED numberVars

DeleteNumbered(d) ==
  /\ number[d] > 0
  /\ DropNumber(d)
  /\ UNCHANGED requestVars

DossierNumbersNext ==
  \/ \E r \in Requests : GenerateIdentifier(r) \/ Write(r) \/ Fail(r)
  \/ \E d \in Dossiers : DeleteNumbered(d)

DossierNumbersSpec == NumberingInit /\ [][DossierNumbersNext]_identifierVars

-----------------------------------------------------------------------------
(* Identifiers of two dossiers are different as long as they fit into the  *)
(* padded width, unless the requests that made them ran at the same time.  *)
NumbersUnique ==
  \A d, e \in Dossiers :
    /\ number[d] = number[e] /\ number[d] < Base ^ Padding
    /\ {source[d], source[e]} \subseteq generated
    => source[d] = source[e] \/ Overlap(source[d], source[e])

(* They differ from those given before as well.                            *)
NumbersNew ==
  \A d \in Dossiers :
    source[d] \in generated /\ number[d] < Base ^ Padding => number[d] > Given

(* Claimed by a comment: every dossier gets a unique number.  Here of      *)
(* requests that follow each other.                                        *)
UniqueInSequence ==
  \A d, e \in Dossiers :
    {source[d], source[e]} \subseteq generated /\ number[d] = number[e] =>
      source[d] = source[e] \/ Overlap(source[d], source[e])

=============================================================================

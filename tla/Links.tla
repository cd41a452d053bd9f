-------------------------------- MODULE Links --------------------------------
(***************************************************************************)
(* What links between dossiers promise: linked dossiers form groups, which *)
(* a link joins and an unlinking leaves.  Only dossiers that somebody      *)
(* asked to link, directly or by others in between, are ever in one group. *)
(*                                                                         *)
(* Requests on links that overlap each other (the code does not lock what  *)
(* it reads) may undo each other's work, but stay within what was asked.   *)
(***************************************************************************)
CONSTANT Instances

VARIABLES
  links,  \* the dossiers in the group of each dossier, itself included
  asked,  \* those that were ever asked to be in one group with it
  calm    \* whether no request that overlapped another is under way

linksVars == <<links, asked, calm>>

(* The groups of two dossiers become one.                                  *)
Joined(groups, a, b) ==
  [i \in Instances |-> IF i \in groups[a] \cup groups[b]
                       THEN groups[a] \cup groups[b]
                       ELSE groups[i]]

Without(groups, a) ==
  [i \in Instances |-> IF i = a THEN {a} ELSE groups[i] \ {a}]

Alone == [i \in Instances |-> {i}]

Groups(groups) ==
  \A i, j \in Instances :
    /\ i \in groups[i]
    /\ groups[i] \subseteq Instances
    /\ i \in groups[j] => groups[i] = groups[j]

Within(inner, outer) == \A i \in Instances : inner[i] \subseteq outer[i]

LinksInit == links = Alone /\ asked = Alone /\ calm = TRUE

Ask(a, b) == asked' = Joined(asked, a, b) /\ UNCHANGED links

Link(a, b) ==
  /\ calm
  /\ b \in asked[a]
  /\ links' = Joined(links, a, b)
  /\ UNCHANGED asked

Unlink(a) ==
  /\ calm
  /\ links' = Without(links, a)
  /\ UNCHANGED asked

Disturb ==
  /\ ~calm
  /\ Groups(links')
  /\ Within(links', asked)
  /\ UNCHANGED asked

(* Requests come and go.                                                   *)
Turn == UNCHANGED <<links, asked>>

LinksNext ==
  \/ \E a, b \in Instances : Ask(a, b) \/ Link(a, b)
  \/ \E a \in Instances : Unlink(a)
  \/ Disturb
  \/ Turn

LinksSpec == LinksInit /\ [][LinksNext]_linksVars

=============================================================================

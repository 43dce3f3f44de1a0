--------------------------- MODULE PaletteProject ---------------------------
(***************************************************************************)
(* What the palette write tools promise of a project: it changes by whole   *)
(* calls, one after the other, and its index always says what its records   *)
(* say.  `PaletteCommit' implements it while the tools are alone.           *)
(***************************************************************************)
EXTENDS Naturals

CONSTANTS
    MaxRecords, \* bound on the number of records (and other source documents)
    Texts,      \* what a record may say
    Missing     \* the content of a file that does not exist

VARIABLE project

\* Files are numbered in the order of their paths; the index comes first.
Index   == 0
Records == 1..MaxRecords
Files   == 0..MaxRecords

\* The index of a project is a function of its records (generated.rs).
IndexOf(x) == [r \in Records |-> x[r]]

IndexAgrees(x) == x[Index] = IndexOf(x)

\* The project with the records of S rewritten and everything generated anew.
Rewritten(x, S, new) ==
    LET y == [f \in Files |-> IF f \in S THEN new[f] ELSE x[f]]
    IN [y EXCEPT ![Index] = IndexOf(y)]

ProjectInit ==
    \E recs \in [Records -> Texts \cup {Missing}] :
        project = [f \in Files |-> IF f = Index THEN recs ELSE recs[f]]

\* One call: some records get the call's text or are deleted.
ProjectNext ==
    \E S \in SUBSET Records, t \in Texts :
        \E new \in [S -> {t, Missing}] : project' = Rewritten(project, S, new)

ProjectSpec == ProjectInit /\ [][ProjectNext]_project
=============================================================================

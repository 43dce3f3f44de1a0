------------------------ MODULE PaletteCommitProofs ------------------------
(***************************************************************************)
(* Type correctness of the write calls, the exclusion by the project lock,  *)
(* and that a refused call leaves nothing behind, for any number of calls,  *)
(* records and faults.                                                      *)
(***************************************************************************)
EXTENDS PaletteCommit, SequenceTheorems, TLAPS

\* A file to be renamed into place has new content, and what the rollback will
\* put back is something it may hold.
RenameFits ==
    \A p \in Tools : \A f \in todo[p] :
        /\ pc[p] \in {"staging", "renaming", "replacing"} => changes[p][f] # Nothing
        /\ pc[p] = "replacing" /\ IsFirst(f, p) => previous[p] \in ContentOf(f)

IInv == TypeOK /\ RenameFits /\ OneCallInside

LEMMA FilesFact ==
    /\ Records \subseteq Files
    /\ Index \in Files \ Records
    /\ Files \subseteq Int
  BY MaxRecordsAssumption, SMT DEF Index, Records, Files, Project!Index, Project!Records, Project!Files

LEMMA ContentFact ==
    /\ Missing \in RecordContent
    /\ \A f \in Files : Missing \in ContentOf(f) /\ ContentOf(f) \subseteq Content
    /\ \A f \in Records : ContentOf(f) = RecordContent
    /\ IndexContent \subseteq ContentOf(Index)
  BY FilesFact DEF RecordContent, IndexContent, Content, ContentOf

LEMMA InitIInv == Init => IInv
  <1> SUFFICES ASSUME Init PROVE IInv
    OBVIOUS
  <1> USE DEF Init
  <1>1. PICK recs \in [Records -> {Draft, Missing}] :
          disk = [f \in Files |-> IF f = Index THEN recs ELSE recs[f]]
    OBVIOUS
  <1>2. recs \in IndexContent /\ \A r \in Records : recs[r] \in RecordContent
    BY <1>1 DEF IndexContent, RecordContent, Texts
  <1>3. \A f \in Files : f = Index \/ f \in Records
    BY MaxRecordsAssumption, SMT DEF Index, Records, Files, Project!Index, Project!Records, Project!Files
  <1>4. \A f \in Files : disk[f] \in ContentOf(f)
    BY <1>1, <1>2, <1>3 DEF ContentOf
  <1>5. disk \in [Files -> Content]
    BY <1>1, <1>4, ContentFact
  <1>6. \A p \in Tools, f \in Files : {baseline[p][f], changes[p][f]} \subseteq ContentOf(f) \cup {Nothing}
    BY DEF Blank
  <1>7. {baseline, changes} \subseteq [Tools -> [Files -> Content \cup {Nothing}]]
    BY DEF Blank
  <1>8. undo \in [Tools -> Seq(Undos)]
    OBVIOUS
  <1>9. previous \in [Tools -> Content]
    BY ContentFact DEF Content
  <1>10. TypeOK
    BY <1>4, <1>5, <1>6, <1>7, <1>8, <1>9, MaxEditsAssumption DEF TypeOK
  <1>11. RenameFits /\ OneCallInside
    BY NoToolAssumption DEF RenameFits, OneCallInside, Inside, Committing
  <1> QED
    BY <1>10, <1>11 DEF IInv

\* A call that returns leaves the others and the files alone.
LEMMA ReturnIInv ==
    ASSUME IInv, NEW p \in Tools, NEW how \in Ended, Return(p, how)
    PROVE  IInv'
  <1> USE DEF Return, Forget
  <1>1. TypeOK'
    <2>1. {baseline', changes'} \subseteq [Tools -> [Files -> Content \cup {Nothing}]]
      BY DEF IInv, TypeOK, Blank
    <2>2. \A q \in Tools, f \in Files : {baseline'[q][f], changes'[q][f]} \subseteq ContentOf(f) \cup {Nothing}
      BY DEF IInv, TypeOK, Blank
    <2>3. undo' \in [Tools -> Seq(Undos)]
      BY DEF IInv, TypeOK
    <2>4. previous' \in [Tools -> Content] /\ problems' \in [Tools -> BOOLEAN]
      BY ContentFact DEF IInv, TypeOK, Content
    <2>5. pc' \in [Tools -> {"idle", "waiting"} \cup Inside \cup Ended] /\ lock' \in Tools \cup {NoTool}
      BY DEF IInv, TypeOK
    <2>6. {todo', tmp'} \subseteq [Tools -> SUBSET Files]
      BY DEF IInv, TypeOK
    <2>7. /\ disk' \in [Files -> Content]
          /\ \A f \in Files : disk'[f] \in ContentOf(f)
          /\ edits' \in 0..MaxEdits
      BY DEF IInv, TypeOK
    <2> QED
      BY <2>1, <2>2, <2>3, <2>4, <2>5, <2>6, <2>7 DEF TypeOK, ContentOf
  <1>2. RenameFits'
    BY DEF IInv, TypeOK, RenameFits, IsFirst, ContentOf
  <1>3. OneCallInside'
    BY NoToolAssumption DEF IInv, TypeOK, OneCallInside, Inside, Committing, Ended
  <1> QED
    BY <1>1, <1>2, <1>3 DEF IInv

\* What regenerate writes into the index is an index.
LEMMA GeneratedFits ==
    ASSUME TypeOK, NEW p \in Tools
    PROVE  /\ Generated(p) \in [Files -> Content \cup {Nothing}]
           /\ \A f \in Files : Generated(p)[f] \in ContentOf(f) \cup {Nothing}
  <1> DEFINE index == Project!IndexOf(View(p))
             entry == IF View(p)[Index] = index THEN Nothing ELSE index
  <1>1. \A f \in Files : View(p)[f] \in ContentOf(f)
    BY ContentFact DEF View, Old, TypeOK
  <1>2. \A r \in Records : View(p)[r] \in RecordContent
    BY <1>1, FilesFact, ContentFact
  <1>3. index = [r \in Records |-> View(p)[r]]
    BY DEF Project!IndexOf, Records, Project!Records
  <1>4. index \in IndexContent
    BY <1>2, <1>3 DEF IndexContent
  <1>5. entry \in ContentOf(Index) \cup {Nothing} /\ entry \in Content \cup {Nothing}
    BY <1>4, ContentFact, FilesFact
  <1>6. changes[p] \in [Files -> Content \cup {Nothing}] /\ \A f \in Files : changes[p][f] \in ContentOf(f) \cup {Nothing}
    BY DEF TypeOK
  <1>7. Generated(p) = [changes[p] EXCEPT ![Index] = entry]
    BY DEF Generated
  <1> HIDE DEF entry
  <1> QED
    BY <1>5, <1>6, <1>7, FilesFact

LEMMA NextIInv == IInv /\ [Next]_vars => IInv'
  <1> SUFFICES ASSUME IInv, [Next]_vars PROVE IInv'
    OBVIOUS
  <1> USE DEF IInv, call
  <1>1. ASSUME NEW p \in Tools, Begin(p) PROVE IInv'
    BY <1>1 DEF Begin, TypeOK, RenameFits, IsFirst, OneCallInside, Inside, Committing
  <1>2. ASSUME NEW p \in Tools, Acquire(p) PROVE IInv'
    <2>1. TypeOK'
      BY <1>2 DEF Acquire, TypeOK, Inside
    <2>2. RenameFits' /\ OneCallInside'
      BY <1>2, NoToolAssumption DEF Acquire, TypeOK, RenameFits, IsFirst, OneCallInside, Inside, Committing
    <2> QED
      BY <2>1, <2>2
  <1>3. ASSUME NEW p \in Tools, GiveUp(p) \/ Refuse(p) \/ Killed(p) \/ Committed(p) \/ FinishUnchanged(p)
                                 \/ RolledBack(p) \/ \E f \in Files : Conflict(p, f)
        PROVE IInv'
    <2>1. \E how \in Ended : Return(p, how)
      BY <1>3 DEF GiveUp, Refuse, Killed, Committed, FinishUnchanged, RolledBack, Conflict, Ended
    <2> QED
      BY <2>1, ReturnIInv
  <1>4. ASSUME NEW p \in Tools, NEW f \in Files, Read(p, f) PROVE IInv'
    <2> USE <1>4 DEF Read
    <2>1. /\ baseline' \in [Tools -> [Files -> Content \cup {Nothing}]]
          /\ \A q \in Tools, g \in Files : baseline'[q][g] \in ContentOf(g) \cup {Nothing}
      BY DEF TypeOK
    <2>2. todo' \in [Tools -> SUBSET Files]
      BY DEF TypeOK
    <2>3. TypeOK'
      BY <2>1, <2>2 DEF TypeOK, ContentOf
    <2>4. RenameFits' /\ OneCallInside'
      BY DEF TypeOK, RenameFits, IsFirst, OneCallInside, ContentOf
    <2> QED
      BY <2>3, <2>4
  <1>5. ASSUME NEW p \in Tools, NEW S \in SUBSET Records, NEW new \in [S -> {p, Missing}],
               Operate(p, S, new)
        PROVE IInv'
    <2> USE <1>5 DEF Operate
    <2>1. \A f \in Files : f \in S => new[f] \in ContentOf(f)
      BY ContentFact DEF RecordContent, Texts
    <2>2. /\ changes' \in [Tools -> [Files -> Content \cup {Nothing}]]
          /\ \A q \in Tools, g \in Files : changes'[q][g] \in ContentOf(g) \cup {Nothing}
      BY <2>1, ContentFact DEF TypeOK
    <2>3. /\ baseline' \in [Tools -> [Files -> Content \cup {Nothing}]]
          /\ \A q \in Tools, g \in Files : baseline'[q][g] \in ContentOf(g) \cup {Nothing}
      BY DEF TypeOK
    <2>4. todo' \in [Tools -> SUBSET Files] /\ pc' \in [Tools -> {"idle", "waiting"} \cup Inside \cup Ended]
      BY DEF TypeOK, Inside
    <2>5. TypeOK'
      BY <2>2, <2>3, <2>4 DEF TypeOK, ContentOf
    <2>6. RenameFits' /\ OneCallInside'
      BY DEF TypeOK, RenameFits, IsFirst, OneCallInside, Inside, Committing, ContentOf
    <2> QED
      BY <2>5, <2>6
  <1>6. ASSUME NEW p \in Tools, Finish(p) PROVE IInv'
    <2> USE <1>6 DEF Finish
    <2>1. Generated(p) \in [Files -> Content \cup {Nothing}]
      BY GeneratedFits DEF TypeOK
    <2>2. \A f \in Files : Generated(p)[f] \in ContentOf(f) \cup {Nothing}
      BY GeneratedFits
    <2>3. /\ changes' \in [Tools -> [Files -> Content \cup {Nothing}]]
          /\ \A q \in Tools, g \in Files : changes'[q][g] \in ContentOf(g) \cup {Nothing}
      BY <2>1, <2>2 DEF TypeOK
    <2>4. todo' \in [Tools -> SUBSET Files] /\ pc' \in [Tools -> {"idle", "waiting"} \cup Inside \cup Ended]
      BY DEF TypeOK, Inside, Effective
    <2>5. TypeOK'
      BY <2>3, <2>4 DEF TypeOK, ContentOf
    <2>6. RenameFits' /\ OneCallInside'
      BY DEF TypeOK, RenameFits, IsFirst, OneCallInside, Inside, Committing, ContentOf
    <2> QED
      BY <2>5, <2>6
  <1>7. ASSUME NEW p \in Tools, NEW f \in Files, Check(p, f) \/ Stage(p, f) PROVE IInv'
    <2>a. todo \in [Tools -> SUBSET Files] /\ tmp \in [Tools -> SUBSET Files]
      BY DEF TypeOK
    <2>b. todo' = [todo EXCEPT ![p] = @ \ {f}] /\ (tmp' = tmp \/ tmp' = [tmp EXCEPT ![p] = @ \cup {f}])
      BY <1>7 DEF Check, Stage
    <2>1. {todo', tmp'} \subseteq [Tools -> SUBSET Files] /\ \A q \in Tools : todo'[q] \subseteq todo[q]
      BY <2>a, <2>b
    <2>2. UNCHANGED <<disk, lock, edits, pc, baseline, changes, previous, undo, problems>>
      BY <1>7 DEF Check, Stage
    <2>3. TypeOK'
      BY <2>1, <2>2 DEF TypeOK, ContentOf
    <2>4. pc[p] \in {"checking", "staging"} /\ \A q \in Tools \ {p} : todo'[q] = todo[q]
      BY <1>7 DEF Check, Stage, TypeOK
    <2>5. RenameFits'
      BY <2>1, <2>2, <2>4 DEF RenameFits, IsFirst, ContentOf
    <2>6. OneCallInside'
      BY <2>2 DEF OneCallInside
    <2> QED
      BY <2>3, <2>5, <2>6
  <1>8. ASSUME NEW p \in Tools, NEW f \in Files, ReadPrevious(p, f) PROVE IInv'
    <2> USE <1>8 DEF ReadPrevious
    <2>1. TypeOK' /\ OneCallInside'
      BY DEF TypeOK, OneCallInside, Inside, Committing
    <2>2. RenameFits'
      <3> SUFFICES ASSUME NEW q \in Tools, NEW g \in todo'[q]
                   PROVE /\ pc'[q] \in {"staging", "renaming", "replacing"} => changes'[q][g] # Nothing
                         /\ pc'[q] = "replacing" /\ IsFirst(g, q)' => previous'[q] \in ContentOf(g)
        BY DEF RenameFits, ContentOf
      <3>1. CASE q = p
        <4>1. f \in Int /\ g \in Int /\ f <= g
          BY <3>1, FilesFact DEF IsFirst, TypeOK
        <4>2. IsFirst(g, q)' => g <= f
          BY <3>1 DEF IsFirst
        <4>3. IsFirst(g, q)' => g = f
          BY <4>1, <4>2
        <4>4. previous'[q] = disk[f] /\ disk[f] \in ContentOf(f)
          BY <3>1 DEF TypeOK
        <4>5. changes'[q][g] # Nothing
          BY <3>1 DEF RenameFits
        <4> QED
          BY <4>3, <4>4, <4>5
      <3>2. CASE q # p
        BY <3>2 DEF TypeOK, RenameFits, IsFirst, ContentOf
      <3> QED
        BY <3>1, <3>2
    <2> QED
      BY <2>1, <2>2
  <1>9. ASSUME NEW p \in Tools, NEW f \in Files, Rename(p, f) PROVE IInv'
    <2> USE <1>9 DEF Rename
    <2>1. changes[p][f] \in ContentOf(f) \cap Content
      BY ContentFact DEF TypeOK, RenameFits, IsFirst
    <2>2. disk' \in [Files -> Content] /\ \A g \in Files : disk'[g] \in ContentOf(g)
      BY <2>1 DEF TypeOK
    <2>3. [file |-> f, bytes |-> previous[p]] \in Undos
      BY DEF TypeOK, RenameFits, IsFirst, Undos
    <2>4. undo' \in [Tools -> Seq(Undos)]
      BY <2>3, AppendProperties DEF TypeOK
    <2>5. TypeOK'
      BY <2>2, <2>4 DEF TypeOK, ContentOf, Inside, Committing
    <2>6. RenameFits' /\ OneCallInside'
      BY DEF TypeOK, RenameFits, IsFirst, OneCallInside, Inside, Committing, ContentOf
    <2> QED
      BY <2>5, <2>6
  <1>10. ASSUME NEW p \in Tools, NEW f \in Files, Delete(p, f) PROVE IInv'
    <2> USE <1>10 DEF Delete
    <2>1. disk' \in [Files -> Content] /\ \A g \in Files : disk'[g] \in ContentOf(g)
      BY ContentFact DEF TypeOK
    <2>2. [file |-> f, bytes |-> Old(p, f)] \in Undos
      BY ContentFact DEF TypeOK, Undos, Old
    <2>3. undo' \in [Tools -> Seq(Undos)]
      BY <2>2, AppendProperties DEF TypeOK
    <2>4. TypeOK'
      BY <2>1, <2>3 DEF TypeOK, ContentOf
    <2>5. RenameFits' /\ OneCallInside'
      BY DEF TypeOK, RenameFits, IsFirst, OneCallInside, ContentOf
    <2> QED
      BY <2>4, <2>5
  <1>11. ASSUME NEW p \in Tools, NextPhase(p) PROVE IInv'
    <2> USE <1>11 DEF NextPhase
    <2>1. todo' \in [Tools -> SUBSET Files] /\ pc' \in [Tools -> {"idle", "waiting"} \cup Inside \cup Ended]
      <3>1. PICK to, files :
              /\ pc' = [pc EXCEPT ![p] = to] /\ todo' = [todo EXCEPT ![p] = files]
              /\ to \in {"staging", "renaming", "deleting"} /\ files \in {Writes(p), Deletes(p)}
        OBVIOUS
      <3>2. files \in SUBSET Files /\ to \in Inside
        BY <3>1 DEF Writes, Deletes, Effective, Inside, Committing
      <3>3. todo \in [Tools -> SUBSET Files] /\ pc \in [Tools -> {"idle", "waiting"} \cup Inside \cup Ended]
        BY DEF TypeOK
      <3> QED
        BY ONLY <3>1, <3>2, <3>3
    <2>2. TypeOK'
      BY <2>1 DEF TypeOK, ContentOf
    <2>3. \A q \in Tools : \/ q = p /\ pc'[q] = "deleting"
                           \/ q = p /\ pc'[q] # "replacing" /\ todo'[q] = Writes(q)
                           \/ q # p /\ pc'[q] = pc[q] /\ todo'[q] = todo[q]
      BY DEF TypeOK
    <2>4. \A f \in Writes(p) : changes[p][f] # Nothing
      BY DEF Writes, Effective
    <2>5. RenameFits'
      BY <2>3, <2>4 DEF RenameFits, IsFirst, ContentOf
    <2>6. OneCallInside'
      BY DEF TypeOK, OneCallInside, Inside, Committing
    <2> QED
      BY <2>2, <2>5, <2>6
  <1>12. ASSUME NEW p \in Tools, NEW f \in Files, StepFails(p, f) PROVE IInv'
    <2>1. TypeOK'
      BY <1>12 DEF StepFails, TypeOK, Inside, Committing
    <2>2. RenameFits' /\ OneCallInside'
      BY <1>12 DEF StepFails, TypeOK, RenameFits, IsFirst, OneCallInside, Inside, Committing, ContentOf
    <2> QED
      BY <2>1, <2>2
  <1>13. ASSUME NEW p \in Tools, NEW failed \in BOOLEAN, Undo(p, failed) PROVE IInv'
    <2> DEFINE u == undo[p][Len(undo[p])]
    <2> USE <1>13 DEF Undo
    <2>1. u \in Undos /\ Len(undo[p]) \in Nat \ {0}
      BY EmptySeq, ElementOfSeq DEF TypeOK
    <2>2. u.file \in Files /\ u.bytes \in Content /\ u.bytes \in ContentOf(u.file)
      BY <2>1 DEF Undos
    <2>3. disk' = disk \/ disk' = [disk EXCEPT ![u.file] = u.bytes]
      OBVIOUS
    <2>4. disk' \in [Files -> Content] /\ \A g \in Files : disk'[g] \in ContentOf(g)
      BY <2>2, <2>3 DEF TypeOK
    <2>5. SubSeq(undo[p], 1, Len(undo[p]) - 1) \in Seq(Undos)
      BY <2>1, SubSeqProperties DEF TypeOK
    <2>6. undo' \in [Tools -> Seq(Undos)]
      BY <2>5 DEF TypeOK
    <2>7. problems' \in [Tools -> BOOLEAN]
      BY DEF TypeOK
    <2>8. TypeOK'
      BY <2>4, <2>6, <2>7 DEF TypeOK, ContentOf
    <2>9. RenameFits' /\ OneCallInside'
      BY DEF TypeOK, RenameFits, IsFirst, OneCallInside, ContentOf
    <2> QED
      BY <2>8, <2>9
  <1>14. ASSUME NEW r \in Records, NEW text \in {HandEdit, Missing}, Edit(r, text) PROVE IInv'
    <2> USE <1>14 DEF Edit
    <2>1. text \in RecordContent
      BY DEF RecordContent, Texts
    <2>2. disk' \in [Files -> Content] /\ \A g \in Files : disk'[g] \in ContentOf(g)
      BY <2>1, FilesFact, ContentFact DEF TypeOK
    <2>3. edits' \in 0..MaxEdits
      BY MaxEditsAssumption DEF TypeOK
    <2>4. TypeOK'
      BY <2>2, <2>3 DEF TypeOK, ContentOf
    <2>5. RenameFits' /\ OneCallInside'
      BY DEF RenameFits, IsFirst, OneCallInside, ContentOf
    <2> QED
      BY <2>4, <2>5
  <1>15. CASE UNCHANGED vars
    BY <1>15 DEF vars, TypeOK, RenameFits, IsFirst, OneCallInside, ContentOf
  <1> QED
    BY <1>1, <1>2, <1>3, <1>4, <1>5, <1>6, <1>7, <1>8, <1>9, <1>10, <1>11, <1>12, <1>13, <1>14, <1>15
    DEF Next, CallStep, CallProceeds

(* The variables stay within their types: a record never holds an index and *)
(* an index never a text, in what was read, changed, and put back           *)
(* (vfs.rs Overlay, commit).                                                *)
THEOREM PaletteTypeCorrect == Spec => []TypeOK
  <1>1. Spec => []IInv
    BY InitIInv, NextIInv, PTL DEF Spec
  <1>2. IInv => TypeOK
    BY DEF IInv
  <1> QED
    BY <1>1, <1>2, PTL

(* One call at a time is between taking the lock and returning, however     *)
(* many there are, whatever fails and whoever is killed (ProjectLock).      *)
THEOREM PaletteOneCallInside == Spec => []OneCallInside
  <1>1. Spec => []IInv
    BY InitIInv, NextIInv, PTL DEF Spec
  <1>2. IInv => OneCallInside
    BY DEF IInv
  <1> QED
    BY <1>1, <1>2, PTL
-----------------------------------------------------------------------------
(***************************************************************************)
(* A refused call leaves nothing behind, for any number of calls, records, *)
(* edits by hand and faults, and whoever is killed.  It rests on the type  *)
(* invariant and on the exclusion by the lock.                             *)
(***************************************************************************)
Entries(s) == {s[i] : i \in 1 .. Len(s)}

\* Content c of file f holds the mark of call p: what only p writes.
Bears(f, c, p) == IF f = Index THEN c # Nothing /\ \E r \in Records : c[r] = p ELSE c = p

\* The index is never removed: no call deletes it, and it was there before it was replaced.
IndexStays ==
    /\ disk[Index] # Missing
    /\ \A p \in Tools :
         /\ changes[p][Index] # Missing /\ baseline[p][Index] # Missing
         /\ \A u \in Entries(undo[p]) : u.file = Index => u.bytes # Missing
         /\ pc[p] = "replacing" /\ IsFirst(Index, p) => previous[p] # Missing

\* Only files the call removes are deleted, and a file is replaced once.
Once ==
    \A p \in Tools :
        /\ pc[p] = "deleting" => \A f \in todo[p] : changes[p][f] = Missing
        /\ pc[p] \in {"renaming", "replacing"} => \A u \in Entries(undo[p]) : u.file \notin todo[p]

\* A call has something to put back from its first rename to its end.
PutsBack ==
    \A p \in Tools :
        /\ pc[p] # "rolling" => ~problems[p]
        /\ pc[p] \notin {"renaming", "replacing", "deleting", "rolling"} => undo[p] = <<>>

\* A call that may still be refused.
Open(p) == pc[p] \notin {"done", "broken", "dead"}

\* What it has on disk, its rollback knows; and nobody remembers it.
Known ==
    \A p \in Tools : Open(p) /\ ~problems[p] =>
        \A f \in Files : Bears(f, disk[f], p) => \E u \in Entries(undo[p]) : u.file = f

Unremembered ==
    \A p, q \in Tools : Open(p) =>
        /\ \A f \in Files :
             /\ ~Bears(f, baseline[q][f], p)
             /\ q # p => ~Bears(f, changes[q][f], p)
             /\ pc[q] = "replacing" /\ IsFirst(f, q) => ~Bears(f, previous[q], p)
        /\ \A u \in Entries(undo[q]) : ~Bears(u.file, u.bytes, p)

RInv == IndexStays /\ Once /\ PutsBack /\ Known /\ Unremembered

LEMMA MarksFact ==
    /\ Nothing \notin Tools /\ Missing \notin Tools /\ Missing # Nothing
    /\ HandEdit \notin Tools /\ Draft \notin Tools
    /\ Missing \notin IndexContent /\ Nothing \notin IndexContent
  <1>1. Records = 1 .. MaxRecords
    BY DEF Records, Project!Records
  <1> QED
    BY <1>1, MissingAssumption, NothingAssumption, ToolTextsAssumption
    DEF Texts, IndexContent, RecordContent

LEMMA EntriesAppend ==
    ASSUME NEW S, NEW s \in Seq(S), NEW e \in S
    PROVE  Entries(Append(s, e)) = Entries(s) \cup {e}
  BY DEF Entries

LEMMA EntriesFront ==
    ASSUME NEW S, NEW s \in Seq(S), s # <<>>
    PROVE  /\ Entries(s) = Entries(SubSeq(s, 1, Len(s) - 1)) \cup {s[Len(s)]}
           /\ s[Len(s)] \in Entries(s)
  <1>1. Len(s) \in Nat /\ Len(s) > 0
    BY EmptySeq
  <1> DEFINE n == Len(s) - 1
             t == SubSeq(s, 1, n)
  <1>a. n \in Nat /\ 1 .. Len(s) = 1 .. n \cup {Len(s)}
    BY <1>1
  <1>b. \A i \in 1 .. n : s[i] \in S
    BY <1>a, ElementOfSeq
  <1>2. /\ Len(t) = n
        /\ \A i \in 1 .. n : t[i] = s[i]
    <2>1. /\ Len(SubSeq(s, 1, n)) = IF 1 <= n THEN n - 1 + 1 ELSE 0
          /\ \A i \in 1 .. n - 1 + 1 : SubSeq(s, 1, n)[i] = s[1 + i - 1]
      <3> HIDE DEF n
      <3> QED
        BY <1>a, <1>b, SubSeqProperties
    <2> HIDE DEF n
    <2> QED
      BY <1>a, <2>1
  <1>3. Entries(t) = {s[i] : i \in 1 .. n}
    BY <1>2 DEF Entries
  <1>4. Entries(s) = {s[i] : i \in 1 .. n \cup {Len(s)}}
    BY <1>a DEF Entries
  <1> HIDE DEF n, t
  <1>5. Entries(s) = Entries(t) \cup {s[Len(s)]}
    BY <1>3, <1>4
  <1> QED
    BY <1>5 DEF n, t

LEMMA EntriesEmpty == Entries(<<>>) = {}
  BY DEF Entries

\* The rollback's entries are well typed.
LEMMA EntriesTyped ==
    ASSUME TypeOK, NEW p \in Tools, NEW u \in Entries(undo[p])
    PROVE  u.file \in Files /\ u.bytes \in ContentOf(u.file)
  <1>1. undo[p] \in Seq(Undos)
    BY DEF TypeOK
  <1>2. PICK i \in 1 .. Len(undo[p]) : u = undo[p][i]
    BY DEF Entries
  <1>3. u \in Undos
    BY <1>1, <1>2, ElementOfSeq
  <1> QED
    BY <1>3 DEF Undos

LEMMA InitRInv == Init => RInv
  <1> SUFFICES ASSUME Init PROVE RInv
    OBVIOUS
  <1> USE DEF Init
  <1>1. PICK recs \in [Records -> {Draft, Missing}] :
          disk = [f \in Files |-> IF f = Index THEN recs ELSE recs[f]]
    OBVIOUS
  <1>2. recs \in IndexContent
    BY <1>1 DEF IndexContent, RecordContent, Texts
  <1>3. \A f \in Files : f = Index \/ f \in Records
    BY MaxRecordsAssumption, SMT DEF Index, Records, Files, Project!Index, Project!Records, Project!Files
  <1>4. disk[Index] = recs
    BY <1>1, FilesFact
  <1>5. \A p \in Tools, f \in Files : ~Bears(f, disk[f], p)
    BY <1>1, <1>3, <1>4, MarksFact DEF Bears
  <1>6. IndexStays
    BY <1>2, <1>4, MarksFact, EntriesEmpty, FilesFact DEF IndexStays, Blank
  <1>7. Once /\ PutsBack
    BY EntriesEmpty DEF Once, PutsBack
  <1>8. Known
    BY <1>5 DEF Known
  <1>9. Unremembered
    BY MarksFact, EntriesEmpty DEF Unremembered, Blank, Bears
  <1> QED
    BY <1>6, <1>7, <1>8, <1>9 DEF RInv

\* Nothing of a call that may be refused is on disk while another is inside, or
\* while it has replaced nothing itself.
LEMMA NothingOnDisk ==
    ASSUME IInv, RInv, NEW p \in Tools, NEW q \in Tools, pc[q] \in Inside, Open(p),
           p = q => pc[p] \in {"loading", "reloading", "checking", "staging"}
    PROVE  \A f \in Files : ~Bears(f, disk[f], p)
  <1>1. p = q \/ pc[p] \notin Inside
    BY NoToolAssumption DEF IInv, OneCallInside
  <1>2. pc[p] \notin {"renaming", "replacing", "deleting", "rolling"}
    BY <1>1 DEF Inside, Committing
  <1>3. undo[p] = <<>> /\ ~problems[p]
    BY <1>2 DEF RInv, PutsBack
  <1> QED
    BY <1>3, EntriesEmpty DEF RInv, Known

\* A call returns: with nothing on disk when it was refused.
LEMMA ReturnRInv ==
    ASSUME IInv, RInv, NEW p \in Tools, NEW how \in Ended, Return(p, how),
           how \in {"locked", "refused"} => undo[p] = <<>> /\ ~problems[p] /\ Open(p)
    PROVE  RInv'
  <1> USE DEF Return, Forget
  <1>1. /\ \A q \in Tools \ {p} : /\ pc'[q] = pc[q] /\ baseline'[q] = baseline[q] /\ changes'[q] = changes[q]
                                  /\ todo'[q] = todo[q] /\ previous'[q] = previous[q] /\ undo'[q] = undo[q]
                                  /\ problems'[q] = problems[q]
        /\ pc'[p] = how /\ baseline'[p] = Blank /\ changes'[p] = Blank /\ todo'[p] = {} /\ undo'[p] = <<>>
        /\ problems'[p] = FALSE /\ disk' = disk
    BY DEF IInv, TypeOK
  <1>2. IndexStays'
    BY <1>1, EntriesEmpty, MarksFact, FilesFact DEF RInv, IndexStays, IsFirst, Blank, Ended
  <1>3. Once' /\ PutsBack'
    BY <1>1, EntriesEmpty DEF RInv, Once, PutsBack, Ended
  <1>4. Known'
    BY <1>1, EntriesEmpty DEF RInv, Known, Ended, Open, Bears
  <1>6. \A q \in Tools : Open(q)' => Open(q)
    BY <1>1 DEF Open, Ended
  <1>7. \A f \in Files, q \in Tools : ~Bears(f, Nothing, q)
    BY MarksFact DEF Bears
  <1>8. Unremembered'
    BY <1>1, <1>6, <1>7, EntriesEmpty DEF RInv, Unremembered, IsFirst, Blank, Ended, Bears
  <1> QED
    BY <1>2, <1>3, <1>4, <1>8 DEF RInv

LEMMA ContentsDiffer ==
    ASSUME NEW p \in Tools, NEW q \in Tools, q # p
    PROVE  \A f \in Records : \A c \in {q, Missing, HandEdit, Nothing} : ~Bears(f, c, p)
  BY FilesFact, MarksFact DEF Bears

LEMMA NextRInv == IInv /\ RInv /\ [Next]_vars => RInv'
  <1> SUFFICES ASSUME IInv, RInv, [Next]_vars PROVE RInv'
    OBVIOUS
  <1> USE DEF IInv, call
  <1>1. ASSUME NEW p \in Tools, Begin(p) \/ Acquire(p) PROVE RInv'
    <2>1. /\ UNCHANGED <<disk, baseline, changes, previous, undo, problems>>
          /\ \A q \in Tools : pc'[q] = pc[q] \/ (q = p /\ Open(p) /\ pc'[p] \in {"waiting", "loading"} /\ undo[p] = <<>>)
          /\ \A q \in Tools : pc'[q] \notin {"waiting", "loading"} => todo'[q] = todo[q]
      BY <1>1 DEF Begin, Acquire, TypeOK, Open, RInv, PutsBack
    <2>2. IndexStays'
      BY <2>1 DEF RInv, IndexStays, IsFirst
    <2>3. Once'
      <3> SUFFICES ASSUME NEW q \in Tools
                   PROVE  /\ pc'[q] = "deleting" => \A f \in todo'[q] : changes[q][f] = Missing
                          /\ pc'[q] \in {"renaming", "replacing"} => \A u \in Entries(undo[q]) : u.file \notin todo'[q]
        BY <2>1 DEF Once
      <3>1. CASE pc'[q] = pc[q]
        BY <2>1, <3>1 DEF RInv, Once
      <3>2. CASE pc'[q] \in {"waiting", "loading"}
        BY <3>2
      <3> QED
        BY <2>1, <3>1, <3>2
    <2>5. PutsBack'
      <3> SUFFICES ASSUME NEW q \in Tools
                   PROVE  /\ pc'[q] # "rolling" => ~problems[q]
                          /\ pc'[q] \notin {"renaming", "replacing", "deleting", "rolling"} => undo[q] = <<>>
        BY <2>1 DEF PutsBack
      <3>1. CASE pc'[q] = pc[q]
        BY <3>1 DEF RInv, PutsBack
      <3>2. CASE q = p /\ Open(p) /\ undo[p] = <<>> /\ pc[p] \in {"idle", "waiting"}
        BY <3>2 DEF RInv, PutsBack
      <3> QED
        BY <1>1, <2>1, <3>1, <3>2 DEF Begin, Acquire, TypeOK
    <2>4. Known' /\ Unremembered'
      BY <2>1 DEF RInv, Known, Unremembered, Open, IsFirst, Bears
    <2> QED
      BY <2>2, <2>3, <2>4, <2>5 DEF RInv
  <1>3. ASSUME NEW p \in Tools, GiveUp(p) \/ Refuse(p) \/ Killed(p) \/ Committed(p) \/ FinishUnchanged(p)
                                 \/ RolledBack(p) \/ \E f \in Files : Conflict(p, f)
        PROVE RInv'
    <2>1. PICK how \in Ended : /\ Return(p, how)
                               /\ how \in {"locked", "refused"} => undo[p] = <<>> /\ ~problems[p] /\ Open(p)
      BY <1>3 DEF GiveUp, Refuse, Killed, Committed, FinishUnchanged, RolledBack, Conflict, Ended, RInv, PutsBack, Open
    <2> QED
      BY <2>1, ReturnRInv
  <1>4. ASSUME NEW p \in Tools, NEW f \in Files, Read(p, f) PROVE RInv'
    <2> USE <1>4 DEF Read
    <2>1. pc[p] \in Inside
      BY DEF Inside
    <2>2. /\ UNCHANGED <<disk, pc, changes, previous, undo, problems>>
          /\ \A q \in Tools \ {p} : baseline'[q] = baseline[q] /\ todo'[q] = todo[q]
          /\ \A g \in Files : \/ baseline'[p][g] = baseline[p][g]
                              \/ g = f /\ disk[f] # Missing /\ baseline'[p][f] = disk[f]
      BY DEF TypeOK
    <2>3. \A q \in Tools : Open(q) => ~Bears(f, disk[f], q)
      BY <2>1, NothingOnDisk
    <2>4. IndexStays' /\ Once' /\ PutsBack'
      BY <2>2, FilesFact DEF RInv, IndexStays, Once, PutsBack, IsFirst
    <2>5. Known'
      BY <2>2 DEF RInv, Known, Open, Bears
    <2>6. \A q \in Tools, g \in Files : Open(q) => ~Bears(g, baseline'[p][g], q)
      BY <2>2, <2>3 DEF RInv, Unremembered
    <2>7. Unremembered'
      BY <2>2, <2>6 DEF RInv, Unremembered, Open, IsFirst, Bears
    <2> QED
      BY <2>4, <2>5, <2>7 DEF RInv
  <1>5. ASSUME NEW p \in Tools, NEW S \in SUBSET Records, NEW new \in [S -> {p, Missing}],
               Operate(p, S, new)
        PROVE RInv'
    <2> USE <1>5 DEF Operate
    <2>1. pc[p] = "loading" /\ pc[p] \in Inside
      BY DEF Inside
    <2>2. /\ UNCHANGED <<disk, previous, undo, problems>>
          /\ \A q \in Tools \ {p} : /\ baseline'[q] = baseline[q] /\ todo'[q] = todo[q]
                                    /\ changes'[q] = changes[q] /\ pc'[q] = pc[q]
          /\ pc'[p] = "reloading"
          /\ \A g \in Files : baseline'[p][g] = baseline[p][g] \/ baseline'[p][g] = disk[g]
          /\ \A g \in Files : changes'[p][g] \in {p, Missing, Nothing}
          /\ changes'[p][Index] = Nothing /\ baseline'[p][Index] = baseline[p][Index]
      BY FilesFact DEF TypeOK
    <2>3. \A q \in Tools : Open(q) => \A g \in Files : ~Bears(g, disk[g], q)
      BY <2>1, NothingOnDisk
    <2>4. IndexStays'
      BY <2>2, MarksFact DEF RInv, IndexStays, IsFirst
    <2>5. Once' /\ PutsBack'
      BY <2>1, <2>2 DEF RInv, Once, PutsBack
    <2>6. \A q \in Tools : Open(q)' <=> Open(q)
      BY <2>1, <2>2 DEF Open
    <2>7. Known'
      BY <2>2, <2>6 DEF RInv, Known, Bears
    <2>8. \A q \in Tools, g \in Files : Open(q) => ~Bears(g, baseline'[p][g], q)
      BY <2>2, <2>3 DEF RInv, Unremembered
    <2>9. \A q \in Tools, g \in Files : q # p => ~Bears(g, changes'[p][g], q)
      <3>1. \A g \in Files : g = Index \/ g \in Records
        BY MaxRecordsAssumption, SMT DEF Index, Records, Files, Project!Index, Project!Records, Project!Files
      <3> QED
        BY <2>2, <3>1, ContentsDiffer DEF Bears
    <2>10. Unremembered'
      BY <2>2, <2>6, <2>8, <2>9 DEF RInv, Unremembered, IsFirst, Bears
    <2> QED
      BY <2>4, <2>5, <2>7, <2>10 DEF RInv
  <1>6. ASSUME NEW p \in Tools, Finish(p) PROVE RInv'
    <2> USE <1>6 DEF Finish
    <2> DEFINE index == Project!IndexOf(View(p))
    <2>1. pc[p] \in Inside
      BY DEF Inside
    <2>2. /\ UNCHANGED <<disk, baseline, previous, undo, problems>>
          /\ \A q \in Tools \ {p} : todo'[q] = todo[q] /\ changes'[q] = changes[q] /\ pc'[q] = pc[q]
          /\ pc'[p] = "checking"
          /\ changes'[p] = Generated(p)
      BY DEF TypeOK
    <2>3. changes'[p][Index] \in {index, Nothing} /\ \A r \in Records : changes'[p][r] = changes[p][r]
      BY <2>2, FilesFact DEF Generated, TypeOK
    <2>4. \A r \in Records : View(p)[r] \in RecordContent
      BY FilesFact, ContentFact DEF View, Old, TypeOK
    <2>5. index = [r \in Records |-> View(p)[r]]
      BY DEF Project!IndexOf, Records, Project!Records
    <2>6. index \in IndexContent
      BY <2>4, <2>5 DEF IndexContent
    <2>7. \A q \in Tools : Open(q) /\ q # p => \A r \in Records : View(p)[r] # q
      BY FilesFact, MarksFact DEF View, Old, RInv, Unremembered, Bears
    <2>8. \A q \in Tools : Open(q) /\ q # p => ~Bears(Index, index, q)
      BY <2>5, <2>7 DEF Bears
    <2> HIDE DEF index
    <2>9. \A q \in Tools, g \in Files : Open(q) /\ q # p => ~Bears(g, changes'[p][g], q)
      <3>1. \A g \in Files : g = Index \/ g \in Records
        BY MaxRecordsAssumption, SMT DEF Index, Records, Files, Project!Index, Project!Records, Project!Files
      <3>2. \A q \in Tools : ~Bears(Index, Nothing, q)
        BY DEF Bears
      <3> QED
        BY <2>3, <2>8, <3>1, <3>2 DEF RInv, Unremembered
    <2>10. IndexStays'
      BY <2>2, <2>3, <2>6, MarksFact DEF RInv, IndexStays, IsFirst
    <2>11. Once' /\ PutsBack'
      BY <2>2 DEF RInv, Once, PutsBack
    <2>12. \A q \in Tools : Open(q)' <=> Open(q)
      BY <2>2 DEF Open
    <2>13. Known'
      BY <2>2, <2>12 DEF RInv, Known, Bears
    <2>14. Unremembered'
      BY <2>2, <2>9, <2>12 DEF RInv, Unremembered, IsFirst, Bears
    <2> QED
      BY <2>10, <2>11, <2>13, <2>14 DEF RInv
  <1>7. ASSUME NEW p \in Tools, NEW f \in Files, Check(p, f) \/ Stage(p, f) PROVE RInv'
    <2>1. /\ UNCHANGED <<disk, pc, baseline, changes, previous, undo, problems>>
          /\ \A q \in Tools \ {p} : todo'[q] = todo[q]
          /\ pc[p] \in {"checking", "staging"}
      BY <1>7 DEF Check, Stage, TypeOK
    <2>2. IndexStays' /\ Once' /\ PutsBack'
      BY <2>1 DEF RInv, IndexStays, Once, PutsBack, IsFirst
    <2>3. Known' /\ Unremembered'
      BY <2>1 DEF RInv, Known, Unremembered, Open, IsFirst, Bears
    <2> QED
      BY <2>2, <2>3 DEF RInv
  <1>8. ASSUME NEW p \in Tools, NEW f \in Files, ReadPrevious(p, f) PROVE RInv'
    <2> USE <1>8 DEF ReadPrevious
    <2>1. /\ UNCHANGED <<disk, baseline, changes, todo, undo, problems>>
          /\ \A q \in Tools \ {p} : pc'[q] = pc[q] /\ previous'[q] = previous[q]
          /\ pc[p] = "renaming" /\ pc'[p] = "replacing" /\ previous'[p] = disk[f]
      BY DEF TypeOK
    <2>2. \A g \in Files : IsFirst(g, p) => g = f
      BY FilesFact DEF IsFirst
    <2>3. \A q \in Tools : Open(q) => ~Bears(f, disk[f], q)
      <3>1. ASSUME NEW q \in Tools, Open(q), q # p PROVE ~Bears(f, disk[f], q)
        BY <2>1, <3>1, NothingOnDisk DEF Inside, Committing
      <3>2. ~Bears(f, disk[f], p)
        BY <2>1 DEF RInv, Known, Once, PutsBack, Open, IsFirst
      <3> QED
        BY <3>1, <3>2
    <2>4. IndexStays'
      BY <2>1, <2>2, FilesFact DEF RInv, IndexStays, IsFirst
    <2>5. Once' /\ PutsBack'
      BY <2>1 DEF RInv, Once, PutsBack
    <2>6. \A q \in Tools : Open(q)' <=> Open(q)
      BY <2>1 DEF Open
    <2>7. Known'
      BY <2>1, <2>6 DEF RInv, Known, Bears
    <2>8. Unremembered'
      BY <2>1, <2>2, <2>3, <2>6 DEF RInv, Unremembered, IsFirst, Bears
    <2> QED
      BY <2>4, <2>5, <2>7, <2>8 DEF RInv
  <1>9. ASSUME NEW p \in Tools, NEW f \in Files, Rename(p, f) PROVE RInv'
    <2> USE <1>9 DEF Rename
    <2> DEFINE e == [file |-> f, bytes |-> previous[p]]
    <2>1. e \in Undos
      BY DEF TypeOK, RenameFits, IsFirst, Undos
    <2>2. Entries(undo'[p]) = Entries(undo[p]) \cup {e} /\ e.file = f /\ e.bytes = previous[p]
      BY <2>1, EntriesAppend DEF TypeOK
    <2> HIDE DEF e
    <2>3. /\ UNCHANGED <<baseline, changes, previous, problems>>
          /\ \A q \in Tools \ {p} : pc'[q] = pc[q] /\ undo'[q] = undo[q] /\ todo'[q] = todo[q]
          /\ pc[p] = "replacing" /\ pc'[p] = "renaming" /\ todo'[p] = todo[p] \ {f}
          /\ disk'[f] = changes[p][f] /\ \A g \in Files \ {f} : disk'[g] = disk[g]
      BY DEF TypeOK
    <2>4. \A q \in Tools : Open(q)' <=> Open(q)
      BY <2>3 DEF Open
    <2>5. IndexStays'
      BY <2>2, <2>3, FilesFact DEF RInv, IndexStays, IsFirst
    <2>6. Once' /\ PutsBack'
      BY <2>2, <2>3 DEF RInv, Once, PutsBack
    <2>7. \A q \in Tools : Open(q) /\ q # p => ~Bears(f, disk'[f], q)
      BY <2>3 DEF RInv, Unremembered
    <2>8. Known'
      BY <2>2, <2>3, <2>4, <2>7 DEF RInv, Known, Bears
    <2>9. \A q \in Tools : Open(q) => ~Bears(e.file, e.bytes, q)
      BY <2>2, <2>3 DEF RInv, Unremembered
    <2>10. Unremembered'
      BY <2>2, <2>3, <2>4, <2>9 DEF RInv, Unremembered, IsFirst, Bears
    <2> QED
      BY <2>5, <2>6, <2>8, <2>10 DEF RInv
  <1>10. ASSUME NEW p \in Tools, NEW f \in Files, Delete(p, f) PROVE RInv'
    <2> USE <1>10 DEF Delete
    <2> DEFINE e == [file |-> f, bytes |-> Old(p, f)]
    <2>1. e \in Undos
      BY ContentFact DEF TypeOK, Undos, Old
    <2>2. Entries(undo'[p]) = Entries(undo[p]) \cup {e} /\ e.file = f /\ e.bytes = Old(p, f)
      BY <2>1, EntriesAppend DEF TypeOK
    <2> HIDE DEF e
    <2>3. /\ UNCHANGED <<pc, baseline, changes, previous, problems>>
          /\ \A q \in Tools \ {p} : undo'[q] = undo[q] /\ todo'[q] = todo[q]
          /\ pc[p] = "deleting" /\ todo'[p] \subseteq todo[p] /\ f \in todo[p]
          /\ disk'[f] = Missing /\ \A g \in Files \ {f} : disk'[g] = disk[g]
      BY DEF TypeOK, IsFirst
    <2>4. f # Index
      BY <2>3 DEF RInv, Once, IndexStays
    <2>5. \A q \in Tools : ~Bears(f, Missing, q)
      BY <2>4, MarksFact DEF Bears
    <2>6. IndexStays'
      BY <2>2, <2>3, <2>4, FilesFact DEF RInv, IndexStays, IsFirst
    <2>7. Once' /\ PutsBack'
      BY <2>2, <2>3 DEF RInv, Once, PutsBack
    <2>8. Known'
      BY <2>2, <2>3, <2>5 DEF RInv, Known, Open, Bears
    <2>9. \A q \in Tools : Open(q) => ~Bears(e.file, e.bytes, q)
      BY <2>2, <2>5 DEF RInv, Unremembered, Old
    <2>10. Unremembered'
      BY <2>2, <2>3, <2>9 DEF RInv, Unremembered, Open, IsFirst, Bears
    <2> QED
      BY <2>6, <2>7, <2>8, <2>10 DEF RInv
  <1>11. ASSUME NEW p \in Tools, NextPhase(p) PROVE RInv'
    <2> USE <1>11 DEF NextPhase
    <2>1. /\ UNCHANGED <<disk, baseline, changes, previous, undo, problems>>
          /\ \A q \in Tools \ {p} : pc'[q] = pc[q] /\ todo'[q] = todo[q]
          /\ \/ pc[p] = "checking" /\ pc'[p] = "staging"
             \/ pc[p] = "staging" /\ pc'[p] = "renaming"
             \/ pc[p] = "renaming" /\ pc'[p] = "deleting" /\ todo'[p] = Deletes(p)
      BY DEF TypeOK
    <2>2. \A f \in Deletes(p) : changes[p][f] = Missing
      BY DEF Deletes, Writes
    <2>3. IndexStays'
      BY <2>1 DEF RInv, IndexStays, IsFirst
    <2>4. Once' /\ PutsBack'
      BY <2>1, <2>2, EntriesEmpty DEF RInv, Once, PutsBack
    <2>5. \A q \in Tools : Open(q)' <=> Open(q)
      BY <2>1 DEF Open
    <2>6. Known' /\ Unremembered'
      BY <2>1, <2>5 DEF RInv, Known, Unremembered, IsFirst, Bears
    <2> QED
      BY <2>3, <2>4, <2>6 DEF RInv
  <1>12. ASSUME NEW p \in Tools, NEW f \in Files, StepFails(p, f) PROVE RInv'
    <2>1. /\ UNCHANGED <<disk, baseline, changes, todo, previous, undo, problems>>
          /\ \A q \in Tools \ {p} : pc'[q] = pc[q]
          /\ pc[p] \in {"staging", "replacing", "deleting"} /\ pc'[p] = "rolling"
      BY <1>12 DEF StepFails, TypeOK
    <2>2. IndexStays' /\ Once' /\ PutsBack'
      BY <2>1 DEF RInv, IndexStays, Once, PutsBack, IsFirst
    <2>3. \A q \in Tools : Open(q)' <=> Open(q)
      BY <2>1 DEF Open
    <2>4. Known' /\ Unremembered'
      BY <2>1, <2>3 DEF RInv, Known, Unremembered, IsFirst, Bears
    <2> QED
      BY <2>2, <2>4 DEF RInv
  <1>13. ASSUME NEW p \in Tools, NEW failed \in BOOLEAN, Undo(p, failed) PROVE RInv'
    <2> DEFINE u == undo[p][Len(undo[p])]
               fails == failed \/ (u.bytes = Missing /\ disk[u.file] = Missing)
    <2> USE <1>13 DEF Undo
    <2>1. Entries(undo[p]) = Entries(undo'[p]) \cup {u} /\ u \in Entries(undo[p])
      BY EntriesFront DEF TypeOK
    <2>2. u.file \in Files /\ u.bytes \in ContentOf(u.file)
      BY <2>1, EntriesTyped
    <2>3. /\ UNCHANGED <<pc, baseline, changes, todo, previous>> /\ pc[p] = "rolling"
          /\ \A q \in Tools \ {p} : undo'[q] = undo[q] /\ problems'[q] = problems[q]
          /\ problems'[p] = (problems[p] \/ fails)
          /\ disk' = IF fails THEN disk ELSE [disk EXCEPT ![u.file] = u.bytes]
      BY DEF TypeOK
    <2> HIDE DEF u, fails
    <2>4. \/ disk' = disk
          \/ disk'[u.file] = u.bytes /\ \A g \in Files \ {u.file} : disk'[g] = disk[g]
      BY <2>2, <2>3 DEF TypeOK
    <2>5. \A q \in Tools : Open(q) => ~Bears(u.file, u.bytes, q)
      BY <2>1 DEF RInv, Unremembered
    <2>6. IndexStays'
      BY <2>1, <2>3, <2>4, FilesFact DEF RInv, IndexStays, IsFirst
    <2>7. Once' /\ PutsBack'
      BY <2>3 DEF RInv, Once, PutsBack
    <2>8. \A q \in Tools : Open(q)' <=> Open(q)
      BY <2>3 DEF Open
    <2>9. ASSUME NEW q \in Tools, Open(q), ~problems'[q], NEW f \in Files, Bears(f, disk'[f], q)
          PROVE  \E v \in Entries(undo'[q]) : v.file = f
      <3>1. CASE q # p
        <4>1. Bears(f, disk[f], q)
          BY <2>4, <2>5, <2>9
        <4> QED
          BY <2>3, <2>9, <3>1, <4>1 DEF RInv, Known
      <3>2. CASE q = p
        <4>1. ~fails /\ ~problems[p]
          BY <2>3, <2>9, <3>2
        <4>2. disk'[u.file] = u.bytes
          BY <2>2, <2>3, <4>1 DEF TypeOK
        <4>3. f # u.file
          BY <2>5, <2>9, <4>2
        <4>4. Bears(f, disk[f], q)
          BY <2>4, <2>9, <4>3
        <4>5. \E v \in Entries(undo[p]) : v.file = f
          BY <2>9, <3>2, <4>1, <4>4 DEF RInv, Known
        <4> QED
          BY <2>1, <3>2, <4>3, <4>5
      <3> QED
        BY <3>1, <3>2
    <2>10. Known'
      BY <2>8, <2>9 DEF Known, Bears
    <2>11. Unremembered'
      BY <2>1, <2>3, <2>8 DEF RInv, Unremembered, IsFirst, Bears
    <2> QED
      BY <2>6, <2>7, <2>10, <2>11 DEF RInv
  <1>14. ASSUME NEW r \in Records, NEW text \in {HandEdit, Missing}, Edit(r, text) PROVE RInv'
    <2>1. /\ UNCHANGED <<pc, baseline, changes, todo, previous, undo, problems>>
          /\ disk'[r] = text /\ \A g \in Files \ {r} : disk'[g] = disk[g]
      BY <1>14, FilesFact DEF Edit, TypeOK
    <2>2. \A q \in Tools : ~Bears(r, text, q)
      BY FilesFact, MarksFact DEF Bears
    <2>3. IndexStays' /\ Once' /\ PutsBack'
      BY <2>1, FilesFact DEF RInv, IndexStays, Once, PutsBack, IsFirst
    <2>4. Known'
      <3> SUFFICES ASSUME NEW q \in Tools, Open(q), ~problems[q], NEW f \in Files, Bears(f, disk'[f], q)
                   PROVE  \E u \in Entries(undo[q]) : u.file = f
        BY <2>1 DEF Known, Open, Bears
      <3>1. f # r
        BY <2>1, <2>2
      <3>2. Bears(f, disk[f], q)
        BY <2>1, <3>1 DEF Bears
      <3> QED
        BY <3>2 DEF RInv, Known
    <2>5. Unremembered'
      BY <2>1 DEF RInv, Unremembered, Open, IsFirst, Bears
    <2> QED
      BY <2>3, <2>4, <2>5 DEF RInv
  <1>15. CASE UNCHANGED vars
    <2> USE <1>15 DEF vars
    <2>1. IndexStays' /\ Once' /\ PutsBack'
      BY DEF RInv, IndexStays, Once, PutsBack, IsFirst
    <2>2. Known' /\ Unremembered'
      BY DEF RInv, Known, Unremembered, Open, IsFirst, Bears
    <2> QED
      BY <2>1, <2>2 DEF RInv
  <1> QED
    BY <1>1, <1>3, <1>4, <1>5, <1>6, <1>7, <1>8, <1>9, <1>10, <1>11, <1>12, <1>13, <1>14, <1>15
    DEF Next, CallStep, CallProceeds

LEMMA RInvRefused == IInv /\ RInv => RefusedLeavesNothing
  <1> SUFFICES ASSUME IInv, RInv, NEW p \in Tools, pc[p] = "refused", NEW r \in Records
               PROVE  disk[r] # p /\ disk[Index][r] # p
    BY DEF RefusedLeavesNothing
  <1>1. undo[p] = <<>> /\ ~problems[p] /\ Open(p)
    BY DEF RInv, PutsBack, Open
  <1>2. \A f \in Files : ~Bears(f, disk[f], p)
    BY <1>1, EntriesEmpty DEF RInv, Known
  <1>3. disk[Index] \in IndexContent
    BY FilesFact DEF IInv, TypeOK, RInv, IndexStays, ContentOf
  <1> QED
    BY <1>2, <1>3, FilesFact, MarksFact DEF Bears

(* A call that was refused, by a conflict or after a failed step it rolled  *)
(* back, left nothing of its own in any file, whatever the others did       *)
(* (vfs.rs commit, roll_back).                                              *)
THEOREM PaletteRefusedLeavesNothing == Spec => []RefusedLeavesNothing
  <1>1. Init => IInv /\ RInv
    BY InitIInv, InitRInv
  <1>2. IInv /\ RInv /\ [Next]_vars => (IInv /\ RInv)'
    BY NextIInv, NextRInv
  <1>3. IInv /\ RInv => RefusedLeavesNothing
    BY RInvRefused
  <1> QED
    BY <1>1, <1>2, <1>3, PTL DEF Spec

-----------------------------------------------------------------------------
(***************************************************************************)
(* What a write call does to the project it found: it never overwrites an  *)
(* edit by hand it has not read, a call that succeeds leaves an index of   *)
(* its records, and while nobody else writes, calls that overlap change    *)
(* the project as if each had run alone and at once (PaletteProject).      *)
(***************************************************************************)

Changed(p)  == Effective(p, changes[p])
Replaced(p) == {u.file : u \in Entries(undo[p])}

\* Files that no hand ever edits, and files that none edits while a call checks and commits.
Unedited == IF MaxEdits = 0 THEN Files ELSE {Index}
Steady   == IF LateEdits THEN Unedited ELSE Files

\* A call writes its own text or nothing, and has read what it writes.
Owned(p) ==
    /\ pc[p] = "loading" => changes[p] = Blank
    /\ pc[p] = "reloading" => changes[p][Index] = Nothing
    /\ \A r \in Records : changes[p][r] \in {Nothing, p, Missing}
    /\ \A r \in Records : changes[p][r] # Nothing => baseline[p][r] # Nothing

\* What it remembers of a file is what the disk has, until it replaced the file;
\* the index it has read, and all that is there.
Remembers(p) ==
    /\ \A f \in Unedited : f \notin Replaced(p) /\ ~problems[p] => baseline[p][f] \in {Nothing, disk[f]}
    /\ baseline[p][Index] = Nothing => pc[p] = "loading" /\ Index \in todo[p]
    /\ \A f \in Unedited : f \notin Replaced(p) /\ ~problems[p] /\ baseline[p][f] = Nothing =>
          disk[f] = Missing \/ (pc[p] = "loading" /\ f \in todo[p])

\* What it is going to commit agrees with itself.
Planned(p) == pc[p] \in Committing \cup {"checking"} => View(p)[Index] = Project!IndexOf(View(p))

\* The files a phase still has to do, and those replaced so far.
Listed(p) ==
    /\ pc[p] = "checking" => todo[p] \subseteq Changed(p)
    /\ pc[p] = "staging" => todo[p] \subseteq Writes(p)
    /\ pc[p] \in {"renaming", "replacing"} => todo[p] \subseteq Writes(p) /\ Replaced(p) = Writes(p) \ todo[p]
    /\ pc[p] = "deleting" => todo[p] \subseteq Deletes(p) /\ Replaced(p) = Changed(p) \ todo[p]
    /\ Replaced(p) \subseteq Changed(p)

\* What it checked and has not replaced is as it read it.
Checked(p) ==
    /\ pc[p] = "checking" => \A f \in Changed(p) \cap Steady : f \notin todo[p] => disk[f] = Old(p, f)
    /\ pc[p] \in Committing => \A f \in Changed(p) \cap Steady :
                                  f \notin Replaced(p) /\ ~problems[p] => disk[f] = Old(p, f)
    /\ pc[p] = "replacing" => \A f \in Steady : IsFirst(f, p) => previous[p] = Old(p, f)

\* The rollback would put back what it read, each file once.
Undoes(p) ==
    /\ \A i \in 1 .. Len(undo[p]) : undo[p][i].file \in Steady =>
          undo[p][i].bytes = Old(p, undo[p][i].file) /\ disk[undo[p][i].file] = changes[p][undo[p][i].file]
    /\ \A i, k \in 1 .. Len(undo[p]) : undo[p][i].file = undo[p][k].file => i = k
    /\ Steady = Files /\ "undo" \notin Faults => ~problems[p]

Held(p)  == Owned(p) /\ Remembers(p) /\ Planned(p) /\ Listed(p) /\ Checked(p) /\ Undoes(p)
Clean(p) == changes[p] = Blank /\ baseline[p] = Blank /\ undo[p] = <<>> /\ ~problems[p]

LInv == \A p \in Tools : IF pc[p] \in Inside THEN Held(p) ELSE Clean(p)

LEMMA SteadyFact == Unedited \subseteq Steady /\ Steady \subseteq Files /\ Index \in Unedited
  BY FilesFact DEF Steady, Unedited

LEMMA InitLInv == Init => LInv
  BY DEF Init, LInv, Inside, Committing, Clean

\* Nobody else is inside while a call is.
LEMMA OthersOutside ==
    ASSUME IInv, NEW p \in Tools, pc[p] \in Inside \/ lock = NoTool
    PROVE  \A q \in Tools \ {p} : pc[q] \notin Inside
  BY NoToolAssumption DEF IInv, OneCallInside

\* A step of the call inside.
LEMMA AloneLInv ==
    ASSUME LInv, NEW p \in Tools,
           \A q \in Tools \ {p} : /\ pc[q] \notin Inside /\ pc'[q] = pc[q] /\ changes'[q] = changes[q]
                                  /\ baseline'[q] = baseline[q] /\ undo'[q] = undo[q] /\ problems'[q] = problems[q],
           IF pc'[p] \in Inside THEN Held(p)' ELSE Clean(p)'
    PROVE  LInv'
  <1> SUFFICES ASSUME NEW q \in Tools PROVE IF pc'[q] \in Inside THEN Held(q)' ELSE Clean(q)'
    BY DEF LInv, Inside, Committing
  <1>1. CASE q = p
    BY <1>1
  <1>2. CASE q # p
    BY <1>2 DEF LInv, Clean
  <1> QED
    BY <1>1, <1>2

\* What the plan of a call says depends on what it read and changed only.
LEMMA PlanKept ==
    ASSUME NEW p \in Tools, baseline'[p] = baseline[p], changes'[p] = changes[p]
    PROVE  /\ Changed(p)' = Changed(p) /\ Writes(p)' = Writes(p) /\ Deletes(p)' = Deletes(p)
           /\ View(p)' = View(p)
           /\ \A f : Old(p, f)' = Old(p, f)
  <1>1. \A f : Old(p, f)' = Old(p, f)
    BY DEF Old
  <1>2. Effective(p, changes[p])' = Effective(p, changes[p])
    BY <1>1 DEF Effective, Files, Project!Files
  <1>3. View(p)' = View(p)
    BY <1>1 DEF View, Files, Project!Files
  <1>4. Writes(p)' = Writes(p)
    BY <1>2 DEF Writes
  <1> QED
    BY <1>1, <1>2, <1>3, <1>4 DEF Changed, Deletes

\* Steps of others, and edits, leave a call's memory of the project right.
LEMMA HeldKept ==
    ASSUME RInv, NEW p \in Tools, Held(p),
           pc'[p] = pc[p], changes'[p] = changes[p], baseline'[p] = baseline[p], undo'[p] = undo[p],
           problems'[p] = problems[p], todo'[p] = todo[p], previous'[p] = previous[p],
           \A f \in Unedited : disk'[f] = disk[f],
           pc[p] \in Committing \cup {"checking"} => \A f \in Steady : disk'[f] = disk[f]
    PROVE  Held(p)'
  <1>1. /\ Changed(p)' = Changed(p) /\ Writes(p)' = Writes(p) /\ Deletes(p)' = Deletes(p)
        /\ View(p)' = View(p)
        /\ \A f : Old(p, f)' = Old(p, f)
    BY PlanKept
  <1>2. Replaced(p)' = Replaced(p)
    BY DEF Replaced, Entries
  <1>3. Owned(p)' /\ Remembers(p)' /\ Planned(p)' /\ Listed(p)'
    BY <1>1, <1>2 DEF Held, Owned, Remembers, Planned, Listed, Project!IndexOf
  <1>4. Checked(p)'
    BY <1>1, <1>2 DEF Held, Checked, IsFirst, Committing
  <1>5. Undoes(p)'
    <2>1. CASE pc[p] \in Committing
      BY <1>1, <2>1 DEF Held, Undoes
    <2>2. CASE pc[p] \notin Committing
      <3>1. undo[p] = <<>> /\ Len(<<>>) = 0
        BY <2>2 DEF RInv, PutsBack, Committing
      <3>2. 1 .. Len(undo'[p]) = {}
        BY <3>1
      <3> QED
        BY <3>2 DEF Held, Undoes
    <2> QED
      BY <2>1, <2>2
  <1> QED
    BY <1>3, <1>4, <1>5 DEF Held

\* A call that starts to wait, takes the lock, or returns.
LEMMA EnterLInv ==
    ASSUME IInv, RInv, LInv, NEW p \in Tools, Begin(p) \/ Acquire(p)
    PROVE  LInv'
  <1>1. UNCHANGED <<disk, baseline, changes, previous, undo, problems>> /\ Clean(p)
    BY DEF Begin, Acquire, call, LInv, Inside, Committing
  <1>2. CASE Begin(p)
    <2>1. todo' = todo /\ pc'[p] = "waiting" /\ \A q \in Tools \ {p} : pc'[q] = pc[q]
      BY <1>2 DEF Begin, call, IInv, TypeOK
    <2>2. Clean(p)' /\ pc'[p] \notin Inside
      BY <1>1, <2>1 DEF Clean, Inside, Committing
    <2>3. ASSUME NEW q \in Tools \ {p} PROVE IF pc'[q] \in Inside THEN Held(q)' ELSE Clean(q)'
      <3>1. CASE pc[q] \in Inside
        BY <1>1, <2>1, <3>1, HeldKept DEF LInv
      <3>2. CASE pc[q] \notin Inside
        BY <1>1, <2>1, <3>2 DEF LInv, Clean
      <3> QED
        BY <3>1, <3>2
    <2> QED
      BY <2>2, <2>3 DEF LInv, Inside, Committing
  <1>3. CASE Acquire(p)
    <2>1. pc'[p] = "loading" /\ todo'[p] = Files /\ \A q \in Tools \ {p} : pc'[q] = pc[q]
      BY <1>3 DEF Acquire, IInv, TypeOK
    <2>2. changes'[p] = Blank /\ baseline'[p] = Blank /\ undo'[p] = <<>> /\ ~problems'[p]
      BY <1>1 DEF Clean
    <2>3. Replaced(p)' = {} /\ Len(undo'[p]) = 0
      BY <2>2 DEF Replaced, Entries
    <2>4. /\ \A f \in Files : changes'[p][f] = Nothing /\ baseline'[p][f] = Nothing
          /\ Records \subseteq Files /\ Index \in Files
      BY <2>2, FilesFact DEF Blank
    <2>5. Owned(p)' /\ Remembers(p)'
      BY <2>1, <2>2, <2>4, SteadyFact DEF Owned, Remembers
    <2>6. Planned(p)' /\ Listed(p)' /\ Checked(p)'
      BY <2>1, <2>3 DEF Planned, Listed, Checked, Committing
    <2>7. Undoes(p)'
      <3>1. 1 .. Len(undo'[p]) = {}
        BY <2>3
      <3> QED
        BY <2>2, <3>1 DEF Undoes
    <2>8. Held(p)'
      BY <2>5, <2>6, <2>7 DEF Held
    <2>9. \A q \in Tools \ {p} : pc[q] \notin Inside
      BY <1>3, OthersOutside DEF Acquire
    <2> QED
      BY <1>1, <2>1, <2>8, <2>9, AloneLInv DEF Inside
  <1> QED
    BY <1>2, <1>3

LEMMA ReturnLInv ==
    ASSUME IInv, RInv, LInv, NEW p \in Tools, NEW how \in Ended, Return(p, how)
    PROVE  LInv'
  <1>1. /\ \A q \in Tools \ {p} : /\ pc'[q] = pc[q] /\ baseline'[q] = baseline[q] /\ changes'[q] = changes[q]
                                  /\ todo'[q] = todo[q] /\ previous'[q] = previous[q] /\ undo'[q] = undo[q]
                                  /\ problems'[q] = problems[q]
        /\ pc'[p] = how /\ baseline'[p] = Blank /\ changes'[p] = Blank /\ undo'[p] = <<>>
        /\ problems'[p] = FALSE /\ disk' = disk
    BY DEF Return, Forget, IInv, TypeOK
  <1>2. Clean(p)' /\ pc'[p] \notin Inside
    BY <1>1 DEF Clean, Ended, Inside, Committing
  <1>3. ASSUME NEW q \in Tools \ {p} PROVE IF pc'[q] \in Inside THEN Held(q)' ELSE Clean(q)'
    <2>1. CASE pc[q] \in Inside
      BY <1>1, <2>1, HeldKept DEF LInv
    <2>2. CASE pc[q] \notin Inside
      BY <1>1, <2>2 DEF LInv, Clean
    <2> QED
      BY <2>1, <2>2
  <1> QED
    BY <1>2, <1>3 DEF LInv, Inside, Committing

LEMMA EditLInv ==
    ASSUME IInv, RInv, LInv, NEW r \in Records, NEW text \in {HandEdit, Missing}, Edit(r, text)
    PROVE  LInv'
  <1>1. /\ UNCHANGED <<pc, baseline, changes, todo, previous, undo, problems>>
        /\ \A g \in Files \ {r} : disk'[g] = disk[g]
    BY FilesFact DEF Edit, call, IInv, TypeOK
  <1>2. MaxEdits # 0
    BY MaxEditsAssumption DEF Edit, IInv, TypeOK
  <1>3. \A f \in Unedited : disk'[f] = disk[f]
    BY <1>1, <1>2, FilesFact DEF Unedited
  <1>4. \A q \in Tools : pc[q] \in Committing \cup {"checking"} => \A f \in Steady : disk'[f] = disk[f]
    BY <1>3 DEF Edit, Steady
  <1> SUFFICES ASSUME NEW q \in Tools PROVE IF pc'[q] \in Inside THEN Held(q)' ELSE Clean(q)'
    BY DEF LInv, Inside, Committing
  <1>5. CASE pc[q] \in Inside
    BY <1>1, <1>3, <1>4, <1>5, HeldKept DEF LInv
  <1>6. CASE pc[q] \notin Inside
    BY <1>1, <1>6 DEF LInv, Clean
  <1> QED
    BY <1>1, <1>5, <1>6

\* Before the commit a call has nothing to put back.
LEMMA NothingReplaced ==
    ASSUME RInv, NEW p \in Tools, pc[p] \in {"loading", "reloading", "checking", "staging"}
    PROVE  undo[p] = <<>> /\ 1 .. Len(undo[p]) = {} /\ Replaced(p) = {} /\ ~problems[p]
  <1>1. undo[p] = <<>> /\ ~problems[p] /\ Len(<<>>) = 0
    BY DEF RInv, PutsBack
  <1> QED
    BY <1>1, EntriesEmpty DEF Replaced

LEMMA ReadLInv ==
    ASSUME IInv, RInv, LInv, NEW p \in Tools, NEW f \in Files, Read(p, f)
    PROVE  LInv'
  <1>1. /\ UNCHANGED <<disk, pc, changes, previous, undo, problems>>
        /\ \A q \in Tools \ {p} : baseline'[q] = baseline[q] /\ todo'[q] = todo[q]
        /\ \A g \in Files : \/ baseline'[p][g] = baseline[p][g]
                            \/ g = f /\ disk[f] # Missing /\ baseline'[p][f] = disk[f]
        /\ todo'[p] = todo[p] \ {f}
        /\ disk[f] # Missing /\ baseline[p][f] = Nothing /\ changes[p][f] = Nothing => baseline'[p][f] = disk[f]
    BY DEF Read, IInv, TypeOK
  <1>2. pc[p] \in {"loading", "reloading"} /\ pc[p] \in Inside /\ Held(p)
    BY DEF Read, LInv, Inside
  <1>3. undo[p] = <<>> /\ 1 .. Len(undo[p]) = {} /\ Replaced(p) = {} /\ ~problems[p]
    BY <1>2, NothingReplaced
  <1>4. disk[f] # Nothing
    BY NothingAssumption DEF IInv, TypeOK, Content, RecordContent, IndexContent, Records, Project!Records
  <1>5. changes[p][Index] = Nothing /\ disk[Index] # Missing
    BY <1>2, FilesFact DEF Held, Owned, Blank, RInv, IndexStays
  <1>6. Owned(p)'
    BY <1>1, <1>2, <1>4, FilesFact DEF Held, Owned
  <1>7. Remembers(p)'
    <2>1. \A g \in Unedited : baseline'[p][g] \in {Nothing, disk[g]}
      BY <1>1, <1>2, <1>3, SteadyFact DEF Held, Remembers
    <2>2. baseline'[p][Index] = Nothing => pc[p] = "loading" /\ Index \in todo'[p]
      BY <1>1, <1>2, <1>4, <1>5, FilesFact DEF Held, Remembers
    <2>3. ASSUME NEW g \in Unedited, baseline'[p][g] = Nothing
          PROVE  disk[g] = Missing \/ (pc[p] = "loading" /\ g \in todo'[p])
      <3>1. g \in Files /\ baseline[p][g] = Nothing
        BY <1>1, <1>4, <2>3, SteadyFact
      <3>2. disk[g] = Missing \/ (pc[p] = "loading" /\ g \in todo[p])
        BY <1>2, <1>3, <2>3, <3>1 DEF Held, Remembers
      <3>3. pc[p] = "loading" => changes[p][g] = Nothing
        BY <1>2, <3>1 DEF Held, Owned, Blank
      <3> QED
        BY <1>1, <1>4, <2>3, <3>1, <3>2, <3>3
    <2> QED
      BY <1>1, <2>1, <2>2, <2>3 DEF Remembers
  <1>8. Planned(p)' /\ Checked(p)'
    BY <1>1, <1>2 DEF Planned, Checked, Committing
  <1>9. Replaced(p)' = {}
    BY <1>1, <1>3 DEF Replaced, Entries
  <1>10. Listed(p)' /\ Undoes(p)'
    BY <1>1, <1>2, <1>3, <1>9 DEF Listed, Undoes
  <1> QED
    BY <1>1, <1>2, <1>6, <1>7, <1>8, <1>10, OthersOutside, AloneLInv DEF Held

LEMMA OperateLInv ==
    ASSUME IInv, RInv, LInv, NEW p \in Tools, NEW S \in SUBSET Records, NEW new \in [S -> {p, Missing}],
           Operate(p, S, new)
    PROVE  LInv'
  <1>1. /\ UNCHANGED <<disk, previous, undo, problems>>
        /\ \A q \in Tools \ {p} : /\ baseline'[q] = baseline[q] /\ todo'[q] = todo[q]
                                  /\ changes'[q] = changes[q] /\ pc'[q] = pc[q]
        /\ pc'[p] = "reloading"
        /\ \A g \in Files : baseline'[p][g] = IF g \in S /\ baseline[p][g] = Nothing THEN disk[g] ELSE baseline[p][g]
        /\ \A g \in Files : changes'[p][g] = IF g \in S THEN new[g] ELSE Nothing
    BY DEF Operate, IInv, TypeOK
  <1>2. pc[p] = "loading" /\ pc[p] \in Inside /\ Held(p) /\ todo[p] = {}
    BY DEF Operate, LInv, Inside
  <1>3. undo[p] = <<>> /\ 1 .. Len(undo[p]) = {} /\ Replaced(p) = {} /\ ~problems[p]
    BY <1>2, NothingReplaced
  <1>4. \A g \in Files : disk[g] # Nothing
    BY NothingAssumption DEF IInv, TypeOK, Content, RecordContent, IndexContent, Records, Project!Records
  <1>5. Owned(p)'
    BY <1>1, <1>4, FilesFact DEF Owned
  <1>6. Remembers(p)'
    BY <1>1, <1>2, <1>3, <1>4, FilesFact, SteadyFact DEF Held, Remembers
  <1>7. Planned(p)' /\ Checked(p)'
    BY <1>1 DEF Planned, Checked, Committing
  <1>8. Replaced(p)' = {}
    BY <1>1, <1>3 DEF Replaced, Entries
  <1>9. Listed(p)' /\ Undoes(p)'
    BY <1>1, <1>3, <1>8 DEF Listed, Undoes
  <1> QED
    BY <1>1, <1>2, <1>5, <1>6, <1>7, <1>9, OthersOutside, AloneLInv DEF Held, Inside

LEMMA FinishLInv ==
    ASSUME IInv, RInv, LInv, NEW p \in Tools, Finish(p)
    PROVE  LInv'
  <1>1. /\ UNCHANGED <<disk, baseline, previous, undo, problems>>
        /\ \A q \in Tools \ {p} : todo'[q] = todo[q] /\ changes'[q] = changes[q] /\ pc'[q] = pc[q]
        /\ pc'[p] = "checking" /\ changes'[p] = Generated(p) /\ todo'[p] = Effective(p, Generated(p))
    BY DEF Finish, IInv, TypeOK
  <1>2. pc[p] = "reloading" /\ pc[p] \in Inside /\ Held(p)
    BY DEF Finish, LInv, Inside
  <1>3. undo[p] = <<>> /\ 1 .. Len(undo[p]) = {} /\ Replaced(p) = {} /\ ~problems[p]
    BY <1>2, NothingReplaced
  <1>4. PICK index : index = Project!IndexOf(View(p))
    OBVIOUS
  <1>5. /\ \A r \in Records : changes'[p][r] = changes[p][r]
        /\ changes'[p][Index] = IF View(p)[Index] = index THEN Nothing ELSE index
    BY <1>1, <1>4, FilesFact DEF Generated, IInv, TypeOK
  <1>6. index # Nothing
    <2>1. \A r \in Records : View(p)[r] \in RecordContent
      BY FilesFact, ContentFact DEF View, Old, IInv, TypeOK
    <2>2. index \in IndexContent
      BY <1>4, <2>1 DEF IndexContent, Project!IndexOf, Records, Project!Records
    <2> QED
      BY <2>2, MarksFact
  <1>7. \A g \in Files : Old(p, g)' = Old(p, g)
    BY <1>1 DEF Old
  <1>8. \A r \in Records : View(p)'[r] = View(p)[r]
    BY <1>5, <1>7, FilesFact DEF View, Files, Project!Files
  <1>9. View(p)'[Index] = index
    <2>1. View(p)[Index] = Old(p, Index)
      BY <1>2, FilesFact DEF View, Held, Owned
    <2>2. View(p)'[Index] = IF changes'[p][Index] = Nothing THEN Old(p, Index) ELSE changes'[p][Index]
      BY <1>7, FilesFact DEF View, Files, Project!Files
    <2> QED
      BY <1>5, <1>6, <2>1, <2>2
  <1>10. Project!IndexOf(View(p)') = index
    BY <1>4, <1>8 DEF Project!IndexOf, Records, Project!Records
  <1>11. Planned(p)'
    BY <1>9, <1>10 DEF Planned, Project!IndexOf
  <1>12. Owned(p)' /\ Remembers(p)'
    <2>1. Replaced(p)' = {}
      BY <1>1, <1>3 DEF Replaced, Entries
    <2> QED
      BY <1>1, <1>2, <1>3, <1>5, <2>1 DEF Held, Owned, Remembers
  <1>13. Changed(p)' = todo'[p]
    BY <1>1, <1>7 DEF Changed, Effective, Files, Project!Files
  <1>14. Listed(p)' /\ Checked(p)' /\ Undoes(p)'
    <2>1. Replaced(p)' = {}
      BY <1>1, <1>3 DEF Replaced, Entries
    <2> QED
      BY <1>1, <1>3, <1>13, <2>1 DEF Listed, Checked, Undoes, Committing
  <1> QED
    BY <1>1, <1>2, <1>11, <1>12, <1>14, OthersOutside, AloneLInv DEF Held, Inside

\* What a commit step leaves as it is: the plan of the call, and the others.
LEMMA CommitStep ==
    ASSUME IInv, LInv, NEW p \in Tools, pc[p] \in Inside, pc'[p] \in Inside,
           UNCHANGED <<baseline, changes>>,
           \A q \in Tools \ {p} : pc'[q] = pc[q] /\ undo'[q] = undo[q] /\ problems'[q] = problems[q],
           Remembers(p)' /\ Listed(p)' /\ Checked(p)' /\ Undoes(p)',
           pc[p] \in Committing \cup {"checking"} /\ pc'[p] \in Committing \cup {"checking"}
    PROVE  LInv'
  <1>1. Held(p)
    BY DEF LInv
  <1>2. View(p)' = View(p)
    BY PlanKept
  <1>3. Owned(p)' /\ Planned(p)'
    BY <1>1, <1>2 DEF Held, Owned, Planned, Committing, Project!IndexOf
  <1> QED
    BY <1>3, OthersOutside, AloneLInv DEF Held

LEMMA CheckLInv ==
    ASSUME IInv, RInv, LInv, NEW p \in Tools, NEW f \in Files, Check(p, f) \/ Stage(p, f)
    PROVE  LInv'
  <1>1. /\ UNCHANGED <<disk, pc, baseline, changes, previous, undo, problems>>
        /\ todo'[p] = todo[p] \ {f} /\ pc[p] \in {"checking", "staging"}
        /\ pc[p] = "checking" => disk[f] = Old(p, f)
    BY DEF Check, Stage, Agrees, IInv, TypeOK
  <1>2. pc[p] \in Inside /\ Held(p)
    BY <1>1 DEF LInv, Inside, Committing
  <1>3. undo[p] = <<>> /\ 1 .. Len(undo[p]) = {} /\ Replaced(p) = {} /\ ~problems[p]
    BY <1>1, NothingReplaced
  <1>4. /\ Changed(p)' = Changed(p) /\ Writes(p)' = Writes(p) /\ Deletes(p)' = Deletes(p)
        /\ \A g : Old(p, g)' = Old(p, g)
    BY <1>1, PlanKept
  <1>5. Replaced(p)' = {}
    BY <1>1, <1>3 DEF Replaced, Entries
  <1>6. Remembers(p)' /\ Listed(p)' /\ Undoes(p)'
    BY <1>1, <1>2, <1>3, <1>4, <1>5 DEF Held, Remembers, Listed, Undoes
  <1>7. Checked(p)'
    BY <1>1, <1>2, <1>3, <1>4, <1>5 DEF Held, Checked
  <1> QED
    BY <1>1, <1>2, <1>6, <1>7, CommitStep DEF Committing

LEMMA PhaseLInv ==
    ASSUME IInv, RInv, LInv, NEW p \in Tools, NextPhase(p)
    PROVE  LInv'
  <1>1. /\ UNCHANGED <<disk, baseline, changes, previous, undo, problems>> /\ todo[p] = {}
        /\ \A q \in Tools \ {p} : pc'[q] = pc[q]
        /\ \/ pc[p] = "checking" /\ pc'[p] = "staging" /\ todo'[p] = Writes(p)
           \/ pc[p] = "staging" /\ pc'[p] = "renaming" /\ todo'[p] = Writes(p)
           \/ pc[p] = "renaming" /\ pc'[p] = "deleting" /\ todo'[p] = Deletes(p)
    BY DEF NextPhase, IInv, TypeOK
  <1>2. pc[p] \in Inside /\ Held(p)
    BY <1>1 DEF LInv, Inside, Committing
  <1>3. /\ Changed(p)' = Changed(p) /\ Writes(p)' = Writes(p) /\ Deletes(p)' = Deletes(p)
        /\ \A g : Old(p, g)' = Old(p, g)
    BY <1>1, PlanKept
  <1>4. Replaced(p)' = Replaced(p)
    BY <1>1 DEF Replaced, Entries
  <1>5. pc[p] \in {"checking", "staging"} => Replaced(p) = {}
    BY NothingReplaced
  <1>6. Deletes(p) = Changed(p) \ Writes(p) /\ Writes(p) \subseteq Changed(p)
    BY DEF Deletes, Writes, Changed
  <1>7. Remembers(p)' /\ Undoes(p)'
    BY <1>1, <1>2, <1>3, <1>4 DEF Held, Remembers, Undoes
  <1>8. Listed(p)'
    BY <1>1, <1>2, <1>3, <1>4, <1>5, <1>6 DEF Held, Listed
  <1>9. Checked(p)'
    BY <1>1, <1>2, <1>3, <1>4, <1>5 DEF Held, Checked, Committing
  <1>10. pc[p] \in Committing \cup {"checking"} /\ pc'[p] \in Committing
    BY <1>1 DEF Committing
  <1> QED
    BY <1>1, <1>2, <1>7, <1>8, <1>9, <1>10, CommitStep DEF Inside

LEMMA ReadPreviousLInv ==
    ASSUME IInv, RInv, LInv, NEW p \in Tools, NEW f \in Files, ReadPrevious(p, f)
    PROVE  LInv'
  <1>1. /\ UNCHANGED <<disk, baseline, changes, todo, undo, problems>>
        /\ \A q \in Tools \ {p} : pc'[q] = pc[q]
        /\ pc[p] = "renaming" /\ pc'[p] = "replacing" /\ previous'[p] = disk[f] /\ IsFirst(f, p)
    BY DEF ReadPrevious, IInv, TypeOK
  <1>2. pc[p] \in Inside /\ Held(p) /\ ~problems[p]
    BY <1>1 DEF LInv, Inside, Committing, RInv, PutsBack
  <1>3. /\ Changed(p)' = Changed(p) /\ Writes(p)' = Writes(p) /\ Deletes(p)' = Deletes(p)
        /\ \A g : Old(p, g)' = Old(p, g)
    BY <1>1, PlanKept
  <1>4. Replaced(p)' = Replaced(p)
    BY <1>1 DEF Replaced, Entries
  <1>5. Remembers(p)' /\ Undoes(p)' /\ Listed(p)'
    BY <1>1, <1>2, <1>3, <1>4 DEF Held, Remembers, Undoes, Listed
  <1>6. f \in Changed(p) /\ f \notin Replaced(p)
    BY <1>1, <1>2 DEF Held, Listed, IsFirst, Writes, Changed
  <1>7. \A g \in Files : IsFirst(g, p)' => g = f
    BY <1>1, FilesFact DEF IsFirst
  <1>8. \A g \in Steady : IsFirst(g, p)' => previous'[p] = Old(p, g)
    BY <1>1, <1>2, <1>6, <1>7, SteadyFact DEF Held, Checked, Committing
  <1>9. Checked(p)'
    BY <1>1, <1>2, <1>3, <1>4, <1>8 DEF Held, Checked, Committing
  <1> QED
    BY <1>1, <1>2, <1>5, <1>9, CommitStep DEF Inside, Committing

LEMMA StepFailsLInv ==
    ASSUME IInv, RInv, LInv, NEW p \in Tools, NEW f \in Files, StepFails(p, f)
    PROVE  LInv'
  <1>1. /\ UNCHANGED <<disk, baseline, changes, todo, previous, undo, problems>>
        /\ \A q \in Tools \ {p} : pc'[q] = pc[q]
        /\ pc[p] \in {"staging", "replacing", "deleting"} /\ pc'[p] = "rolling"
    BY DEF StepFails, IInv, TypeOK
  <1>2. pc[p] \in Inside /\ Held(p)
    BY <1>1 DEF LInv, Inside, Committing
  <1>3. /\ Changed(p)' = Changed(p) /\ \A g : Old(p, g)' = Old(p, g)
    BY <1>1, PlanKept
  <1>4. Replaced(p)' = Replaced(p)
    BY <1>1 DEF Replaced, Entries
  <1>5. Remembers(p)' /\ Undoes(p)' /\ Listed(p)'
    BY <1>1, <1>2, <1>3, <1>4 DEF Held, Remembers, Undoes, Listed
  <1>6. Checked(p)'
    BY <1>1, <1>2, <1>3, <1>4 DEF Held, Checked, Committing
  <1> QED
    BY <1>1, <1>2, <1>5, <1>6, CommitStep DEF Inside, Committing

\* One file more is replaced, and the rollback knows.
LEMMA ReplaceLInv ==
    ASSUME IInv, RInv, LInv, NEW p \in Tools, NEW f \in Files,
           UNCHANGED <<baseline, changes, previous, problems>>,
           \A q \in Tools \ {p} : pc'[q] = pc[q] /\ undo'[q] = undo[q],
           \/ pc[p] = "replacing" /\ pc'[p] = "renaming"
           \/ pc[p] = "deleting" /\ pc'[p] = "deleting",
           f \in todo[p], todo'[p] = todo[p] \ {f},
           disk'[f] = changes[p][f], \A g \in Files \ {f} : disk'[g] = disk[g],
           NEW e \in Undos, undo'[p] = Append(undo[p], e), e.file = f, f \in Steady => e.bytes = Old(p, f)
    PROVE  LInv'
  <1>1. pc[p] \in Inside /\ Held(p) /\ ~problems[p]
    BY DEF LInv, Inside, Committing, RInv, PutsBack
  <1>2. /\ Changed(p)' = Changed(p) /\ Writes(p)' = Writes(p) /\ Deletes(p)' = Deletes(p)
        /\ \A g : Old(p, g)' = Old(p, g)
    BY PlanKept
  <1>3. /\ Len(undo[p]) \in Nat /\ Len(undo'[p]) = Len(undo[p]) + 1
        /\ \A i \in 1 .. Len(undo[p]) : undo'[p][i] = undo[p][i]
        /\ undo'[p][Len(undo[p]) + 1] = e
    BY AppendProperties DEF IInv, TypeOK
  <1>4. Replaced(p)' = Replaced(p) \cup {f}
    <2>1. Entries(undo'[p]) = Entries(undo[p]) \cup {e}
      BY EntriesAppend DEF IInv, TypeOK
    <2> QED
      BY <2>1 DEF Replaced
  <1>5. f \in Changed(p) /\ f \notin Replaced(p)
    BY <1>1 DEF Held, Listed, Writes, Deletes, Changed
  <1>6. \A i \in 1 .. Len(undo[p]) : undo[p][i].file \in Replaced(p) /\ undo[p][i].file # f
    BY <1>5 DEF Replaced, Entries
  <1>7. Remembers(p)'
    BY <1>1, <1>4, SteadyFact DEF Held, Remembers
  <1>8. Listed(p)'
    BY <1>1, <1>2, <1>4, <1>5 DEF Held, Listed
  <1>9. Checked(p)'
    BY <1>1, <1>2, <1>4, SteadyFact DEF Held, Checked, Committing
  <1>10. Undoes(p)'
    <2>1. ASSUME NEW i \in 1 .. Len(undo'[p]), undo'[p][i].file \in Steady
          PROVE  /\ undo'[p][i].bytes = Old(p, undo'[p][i].file)
                 /\ disk'[undo'[p][i].file] = changes[p][undo'[p][i].file]
      <3>1. CASE i = Len(undo[p]) + 1
        BY <1>3, <2>1, <3>1
      <3>2. CASE i \in 1 .. Len(undo[p])
        BY <1>1, <1>3, <1>6, <2>1, <3>2, SteadyFact DEF Held, Undoes
      <3> QED
        BY <1>3, <3>1, <3>2
    <2>2. ASSUME NEW i \in 1 .. Len(undo'[p]), NEW k \in 1 .. Len(undo'[p]), undo'[p][i].file = undo'[p][k].file
          PROVE  i = k
      <3>1. \A m \in 1 .. Len(undo'[p]) : m = Len(undo[p]) + 1 \/ m \in 1 .. Len(undo[p])
        BY <1>3
      <3> QED
        BY <1>1, <1>3, <1>6, <2>2, <3>1 DEF Held, Undoes
    <2> QED
      BY <1>1, <1>2, <2>1, <2>2 DEF Undoes
  <1> QED
    BY <1>1, <1>7, <1>8, <1>9, <1>10, CommitStep DEF Inside, Committing

LEMMA RenameLInv ==
    ASSUME IInv, RInv, LInv, NEW p \in Tools, NEW f \in Files, Rename(p, f) \/ Delete(p, f)
    PROVE  LInv'
  <1>1. UNCHANGED <<baseline, changes, previous, problems>> /\ IsFirst(f, p) /\ f \in todo[p] /\ Held(p)
    BY DEF Rename, Delete, IsFirst, LInv, Inside, Committing
  <1>2. CASE Rename(p, f)
    <2>1. PICK e : e = [file |-> f, bytes |-> previous[p]]
      OBVIOUS
    <2>2. e \in Undos /\ e.file = f /\ e.bytes = previous[p]
      BY <1>2, <2>1 DEF IInv, TypeOK, RenameFits, IsFirst, Undos, Rename
    <2>3. f \in Steady => previous[p] = Old(p, f)
      BY <1>1, <1>2 DEF Held, Checked, Rename
    <2>4. /\ pc[p] = "replacing" /\ pc'[p] = "renaming" /\ todo'[p] = todo[p] \ {f}
          /\ disk'[f] = changes[p][f] /\ \A g \in Files \ {f} : disk'[g] = disk[g]
          /\ undo'[p] = Append(undo[p], e)
          /\ \A q \in Tools \ {p} : pc'[q] = pc[q] /\ undo'[q] = undo[q]
      BY <1>2, <2>1 DEF Rename, IInv, TypeOK
    <2> QED
      BY <1>1, <2>2, <2>3, <2>4, ReplaceLInv
  <1>3. CASE Delete(p, f)
    <2>1. PICK e : e = [file |-> f, bytes |-> Old(p, f)]
      OBVIOUS
    <2>2. e \in Undos /\ e.file = f /\ e.bytes = Old(p, f)
      BY <2>1, ContentFact DEF IInv, TypeOK, Undos, Old
    <2>3. changes[p][f] = Missing
      BY <1>1, <1>3 DEF RInv, Once, Delete
    <2>4. /\ pc[p] = "deleting" /\ pc'[p] = "deleting" /\ todo'[p] = todo[p] \ {f}
          /\ disk'[f] = Missing /\ \A g \in Files \ {f} : disk'[g] = disk[g]
          /\ undo'[p] = Append(undo[p], e)
          /\ \A q \in Tools \ {p} : pc'[q] = pc[q] /\ undo'[q] = undo[q]
      BY <1>3, <2>1 DEF Delete, IInv, TypeOK
    <2> QED
      BY <1>1, <2>2, <2>3, <2>4, ReplaceLInv
  <1> QED
    BY <1>2, <1>3

\* Without its last element a list has the others where they were.
LEMMA FrontFacts ==
    ASSUME NEW S, NEW s \in Seq(S), s # <<>>, NEW t, t = SubSeq(s, 1, Len(s) - 1)
    PROVE  Len(s) \in Nat \ {0} /\ Len(t) = Len(s) - 1 /\ \A i \in 1 .. Len(t) : t[i] = s[i]
  <1>1. Len(s) \in Nat /\ Len(s) > 0
    BY EmptySeq
  <1>2. PICK n : n = Len(s) - 1
    OBVIOUS
  <1>3. n \in Nat /\ 1 .. n \subseteq 1 .. Len(s)
    BY <1>1, <1>2
  <1>4. \A i \in 1 .. n : s[i] \in S
    BY <1>3, ElementOfSeq
  <1>5. /\ Len(SubSeq(s, 1, n)) = IF 1 <= n THEN n - 1 + 1 ELSE 0
        /\ \A i \in 1 .. n - 1 + 1 : SubSeq(s, 1, n)[i] = s[1 + i - 1]
    BY <1>3, <1>4, SubSeqProperties
  <1> QED
    BY <1>1, <1>2, <1>3, <1>5

\* One entry of the rollback: the file has what the call read, or the rollback failed.
LEMMA UndoLInv ==
    ASSUME IInv, RInv, LInv, NEW p \in Tools, NEW failed \in BOOLEAN, Undo(p, failed)
    PROVE  LInv'
  <1>1. PICK u : u = undo[p][Len(undo[p])]
    OBVIOUS
  <1>2. PICK fails \in BOOLEAN : fails = (failed \/ (u.bytes = Missing /\ disk[u.file] = Missing))
    OBVIOUS
  <1>3. /\ Entries(undo[p]) = Entries(undo'[p]) \cup {u} /\ u \in Entries(undo[p])
        /\ undo'[p] = SubSeq(undo[p], 1, Len(undo[p]) - 1) /\ undo[p] # <<>>
    BY <1>1, EntriesFront DEF Undo, IInv, TypeOK
  <1>4. u.file \in Files /\ u.bytes \in ContentOf(u.file)
    BY <1>3, EntriesTyped DEF IInv
  <1>5. /\ UNCHANGED <<pc, baseline, changes, todo, previous>> /\ pc[p] = "rolling"
        /\ \A q \in Tools \ {p} : undo'[q] = undo[q] /\ problems'[q] = problems[q]
        /\ problems'[p] = (problems[p] \/ fails)
        /\ failed => "undo" \in Faults
        /\ disk' = IF fails THEN disk ELSE [disk EXCEPT ![u.file] = u.bytes]
    BY <1>1, <1>2 DEF Undo, IInv, TypeOK
  <1>6. pc[p] \in Inside /\ Held(p)
    BY <1>5 DEF LInv, Inside, Committing
  <1>7. /\ Changed(p)' = Changed(p) /\ \A g : Old(p, g)' = Old(p, g)
    BY <1>5, PlanKept
  <1>8. Replaced(p) = Replaced(p)' \cup {u.file}
    BY <1>3 DEF Replaced
  <1>9. /\ Len(undo[p]) \in Nat \ {0} /\ Len(undo'[p]) = Len(undo[p]) - 1
        /\ \A i \in 1 .. Len(undo'[p]) : undo'[p][i] = undo[p][i]
    <2>1. undo[p] \in Seq(Undos)
      BY DEF IInv, TypeOK
    <2> QED
      BY ONLY <1>3, <2>1, FrontFacts
  <1>10. /\ Len(undo[p]) \in 1 .. Len(undo[p])
         /\ \A i \in 1 .. Len(undo'[p]) : i \in 1 .. Len(undo[p]) /\ i # Len(undo[p])
    BY <1>9
  <1>11. u.file \in Steady => u.bytes = Old(p, u.file) /\ disk[u.file] = changes[p][u.file]
    BY <1>1, <1>6, <1>10 DEF Held, Undoes
  <1>12. \A i \in 1 .. Len(undo'[p]) : undo'[p][i].file # u.file
    BY <1>1, <1>6, <1>9, <1>10 DEF Held, Undoes
  <1>13. /\ ~fails => disk'[u.file] = u.bytes
         /\ \A g \in Files \ {u.file} : disk'[g] = disk[g]
    BY <1>4, <1>5 DEF IInv, TypeOK
  <1>14. Remembers(p)'
    <2> SUFFICES ASSUME NEW f \in Unedited, f \notin Replaced(p)', ~problems'[p]
                 PROVE  disk'[f] = Old(p, f)
      BY <1>5, <1>6 DEF Held, Remembers, Old
    <2>1. CASE f = u.file
      BY <1>5, <1>11, <1>13, <2>1, SteadyFact DEF Old
    <2>2. CASE f # u.file
      BY <1>5, <1>6, <1>8, <1>13, <2>2, SteadyFact DEF Held, Remembers, Old
    <2> QED
      BY <2>1, <2>2
  <1>15. Listed(p)'
    BY <1>5, <1>6, <1>7, <1>8 DEF Held, Listed
  <1>16. Checked(p)'
    <2> SUFFICES ASSUME NEW f \in Changed(p) \cap Steady, f \notin Replaced(p)', ~problems'[p]
                 PROVE  disk'[f] = Old(p, f)
      BY <1>5, <1>7 DEF Checked
    <2>1. CASE f = u.file
      BY <1>5, <1>11, <1>13, <2>1
    <2>2. CASE f # u.file
      BY <1>5, <1>6, <1>8, <1>13, <2>2, SteadyFact DEF Held, Checked, Committing
    <2> QED
      BY <2>1, <2>2
  <1>17. Undoes(p)'
    <2>1. ASSUME NEW i \in 1 .. Len(undo'[p]), undo'[p][i].file \in Steady
          PROVE  /\ undo'[p][i].bytes = Old(p, undo'[p][i].file)
                 /\ disk'[undo'[p][i].file] = changes[p][undo'[p][i].file]
      BY <1>6, <1>9, <1>10, <1>12, <1>13, <2>1, SteadyFact DEF Held, Undoes
    <2>2. \A i, k \in 1 .. Len(undo'[p]) : undo'[p][i].file = undo'[p][k].file => i = k
      BY <1>6, <1>9, <1>10 DEF Held, Undoes
    <2>3. ASSUME Steady = Files, "undo" \notin Faults PROVE ~problems'[p]
      <3>1. ~problems[p] /\ ~failed
        BY <1>5, <1>6, <2>3 DEF Held, Undoes
      <3>2. u.file \in Changed(p)
        BY <1>6, <1>8 DEF Held, Listed
      <3>3. changes[p][u.file] # Old(p, u.file)
        BY <3>2 DEF Changed, Effective
      <3>4. ~fails
        BY <1>2, <1>4, <1>11, <2>3, <3>1, <3>3
      <3> QED
        BY <1>5, <3>1, <3>4
    <2> QED
      BY <1>5, <1>7, <2>1, <2>2, <2>3 DEF Undoes
  <1> QED
    BY <1>5, <1>6, <1>14, <1>15, <1>16, <1>17, CommitStep DEF Committing

LEMMA NextLInv == IInv /\ RInv /\ LInv /\ [Next]_vars => LInv'
  <1> SUFFICES ASSUME IInv, RInv, LInv, [Next]_vars PROVE LInv'
    OBVIOUS
  <1>1. ASSUME NEW p \in Tools, Begin(p) \/ Acquire(p) PROVE LInv'
    BY <1>1, EnterLInv
  <1>2. ASSUME NEW p \in Tools, GiveUp(p) \/ Refuse(p) \/ Killed(p) \/ Committed(p) \/ FinishUnchanged(p)
                                 \/ RolledBack(p) \/ \E f \in Files : Conflict(p, f)
        PROVE LInv'
    <2>1. \E how \in Ended : Return(p, how)
      BY <1>2 DEF GiveUp, Refuse, Killed, Committed, FinishUnchanged, RolledBack, Conflict, Ended
    <2> QED
      BY <2>1, ReturnLInv
  <1>3. ASSUME NEW p \in Tools, NEW f \in Files, Read(p, f) PROVE LInv'
    BY <1>3, ReadLInv
  <1>4. ASSUME NEW p \in Tools, NEW S \in SUBSET Records, NEW new \in [S -> {p, Missing}],
               Operate(p, S, new)
        PROVE LInv'
    BY <1>4, OperateLInv
  <1>5. ASSUME NEW p \in Tools, Finish(p) PROVE LInv'
    BY <1>5, FinishLInv
  <1>6. ASSUME NEW p \in Tools, NEW f \in Files, Check(p, f) \/ Stage(p, f) PROVE LInv'
    BY <1>6, CheckLInv
  <1>7. ASSUME NEW p \in Tools, NextPhase(p) PROVE LInv'
    BY <1>7, PhaseLInv
  <1>8. ASSUME NEW p \in Tools, NEW f \in Files, ReadPrevious(p, f) PROVE LInv'
    BY <1>8, ReadPreviousLInv
  <1>9. ASSUME NEW p \in Tools, NEW f \in Files, Rename(p, f) \/ Delete(p, f) PROVE LInv'
    BY <1>9, RenameLInv
  <1>10. ASSUME NEW p \in Tools, NEW f \in Files, StepFails(p, f) PROVE LInv'
    BY <1>10, StepFailsLInv
  <1>11. ASSUME NEW p \in Tools, NEW failed \in BOOLEAN, Undo(p, failed) PROVE LInv'
    BY <1>11, UndoLInv
  <1>12. ASSUME NEW r \in Records, NEW text \in {HandEdit, Missing}, Edit(r, text) PROVE LInv'
    BY <1>12, EditLInv
  <1>13. CASE UNCHANGED vars
    <2> USE <1>13 DEF vars
    <2> SUFFICES ASSUME NEW q \in Tools PROVE IF pc'[q] \in Inside THEN Held(q)' ELSE Clean(q)'
      BY DEF LInv, Inside, Committing
    <2>1. CASE pc[q] \in Inside
      BY <2>1, HeldKept DEF LInv
    <2>2. CASE pc[q] \notin Inside
      BY <2>2 DEF LInv, Clean
    <2> QED
      BY <2>1, <2>2
  <1> QED
    BY <1>1, <1>2, <1>3, <1>4, <1>5, <1>6, <1>7, <1>8, <1>9, <1>10, <1>11, <1>12, <1>13
    DEF Next, CallStep, CallProceeds

AllInv == IInv /\ RInv /\ LInv

LEMMA SpecAllInv == Spec => []AllInv
  <1>1. Init => AllInv
    BY InitIInv, InitRInv, InitLInv DEF AllInv
  <1>2. AllInv /\ [Next]_vars => AllInv'
    BY NextIInv, NextRInv, NextLInv DEF AllInv
  <1> QED
    BY <1>1, <1>2, PTL DEF Spec

-----------------------------------------------------------------------------
\* What a call replaces or puts back, when no edit lands while it commits.
LEMMA StepKeepsUnseen ==
    ASSUME AllInv, ~LateEdits, NEW p \in Tools, CallStep(p), NEW r \in Records,
           disk[r] = HandEdit, disk'[r] # HandEdit
    PROVE  baseline[p][r] = HandEdit
  <1>1. r \in Files /\ r \in Steady
    BY FilesFact DEF Steady
  <1>2. HandEdit \notin {Missing, Nothing} /\ HandEdit # p
    BY MarksFact, MissingAssumption, NothingAssumption DEF Texts
  <1>3. ASSUME pc[p] \in Inside PROVE Held(p)
    BY <1>3 DEF AllInv, LInv
  <1>4. \/ Rename(p, r) \/ Delete(p, r)
        \/ \E failed \in BOOLEAN : Undo(p, failed)
    <2>1. ASSUME NEW f \in Files, Rename(p, f) \/ Delete(p, f) PROVE f = r
      BY <1>1, <2>1 DEF Rename, Delete, AllInv, IInv, TypeOK
    <2>2. disk' # disk
      OBVIOUS
    <2> QED
      BY <2>1, <2>2 DEF CallStep, CallProceeds, Begin, GiveUp, Killed, Acquire, Read, Check, Conflict, Stage,
         ReadPrevious, StepFails, Operate, Finish, FinishUnchanged, Refuse, NextPhase, Committed, RolledBack, Return
  <1>5. CASE Rename(p, r) \/ Delete(p, r)
    <2>1. pc[p] \in {"replacing", "deleting"} /\ r \in todo[p]
      BY <1>5 DEF Rename, Delete, IsFirst
    <2>2. pc[p] \in Committing /\ pc[p] \in Inside /\ Held(p) /\ ~problems[p]
      BY <1>3, <2>1 DEF Committing, Inside, AllInv, RInv, PutsBack
    <2>3. r \in Changed(p) /\ r \notin Replaced(p)
      BY <2>1, <2>2 DEF Held, Listed, Writes, Deletes, Changed
    <2>4. disk[r] = Old(p, r)
      BY <1>1, <2>2, <2>3 DEF Held, Checked
    <2> QED
      BY <1>2, <2>4 DEF Old
  <1>6. ASSUME NEW failed \in BOOLEAN, Undo(p, failed) PROVE FALSE
    <2>1. PICK u : u = undo[p][Len(undo[p])]
      OBVIOUS
    <2>2. undo[p] # <<>> /\ disk' \in {disk, [disk EXCEPT ![u.file] = u.bytes]} /\ pc[p] = "rolling"
      BY <1>6, <2>1 DEF Undo
    <2>3. u.file = r
      BY <1>1, <2>2 DEF AllInv, IInv, TypeOK
    <2>4. Len(undo[p]) \in 1 .. Len(undo[p])
      BY <2>2, FrontFacts DEF AllInv, IInv, TypeOK
    <2>5. Held(p)
      BY <1>3, <2>2 DEF Inside, Committing
    <2>6. disk[r] = changes[p][r]
      BY <1>1, <2>1, <2>3, <2>4, <2>5 DEF Held, Undoes
    <2>7. changes[p][r] \in {Nothing, p, Missing}
      BY <2>5 DEF Held, Owned
    <2> QED
      BY <1>2, <2>6, <2>7
  <1> QED
    BY <1>4, <1>5, <1>6

(* A hand edit is never overwritten by a call that has not read it, however *)
(* many calls there are, whatever fails and whoever is killed, unless it    *)
(* lands between the conflict check and the end of the commit (vfs.rs       *)
(* commit).                                                                 *)
THEOREM PaletteUnseenEditKept == ~LateEdits => (Spec => UnseenEditKept)
  <1> SUFFICES ASSUME ~LateEdits PROVE Spec => UnseenEditKept
    OBVIOUS
  <1>1. AllInv => \A p \in Tools, r \in Records :
                    disk[r] = HandEdit /\ disk'[r] # HandEdit /\ CallStep(p) => baseline[p][r] = HandEdit
    BY StepKeepsUnseen
  <1> QED
    BY <1>1, SpecAllInv, PTL DEF UnseenEditKept

\* What a call that succeeds leaves on disk is what it planned.
LEMMA DoneAsPlanned ==
    ASSUME AllInv, NEW p \in Tools, Committed(p) \/ FinishUnchanged(p)
    PROVE  /\ UNCHANGED disk
           /\ View(p)[Index] = Project!IndexOf(View(p))
           /\ \A f \in Unedited : disk[f] = View(p)[f]
  <1>1. pc[p] \in Inside /\ Held(p) /\ UNCHANGED disk /\ todo[p] = {} /\ ~problems[p] /\ pc[p] \in {"deleting", "reloading"}
    BY DEF Committed, FinishUnchanged, Return, AllInv, LInv, Inside, Committing, RInv, PutsBack
  <1>2. \A f \in Unedited : f \notin Replaced(p) => disk[f] = Old(p, f)
    BY <1>1 DEF Held, Remembers, Old
  <1>3. CASE Committed(p)
    <2>1. pc[p] = "deleting" /\ pc[p] \in Committing
      BY <1>3 DEF Committed, Committing
    <2>2. Replaced(p) = Changed(p)
      BY <1>1, <2>1 DEF Held, Listed
    <2>3. ASSUME NEW f \in Unedited PROVE disk[f] = View(p)[f]
      <3>1. f \in Files /\ f \in Steady
        BY SteadyFact
      <3>2. CASE f \in Replaced(p)
        <4>1. PICK i \in 1 .. Len(undo[p]) : undo[p][i].file = f
          BY <3>2 DEF Replaced, Entries
        <4>2. disk[f] = changes[p][f]
          BY <1>1, <3>1, <4>1 DEF Held, Undoes
        <4>3. changes[p][f] # Nothing
          BY <2>2, <3>2 DEF Changed, Effective
        <4> QED
          BY <3>1, <4>2, <4>3 DEF View
      <3>3. CASE f \notin Replaced(p)
        <4>1. changes[p][f] \in {Nothing, Old(p, f)}
          BY <2>2, <3>1, <3>3 DEF Changed, Effective
        <4> QED
          BY <1>2, <3>1, <3>3, <4>1 DEF View
      <3> QED
        BY <3>2, <3>3
    <2> QED
      BY <1>1, <2>1, <2>3 DEF Held, Planned
  <1>4. CASE FinishUnchanged(p)
    <2>1. pc[p] = "reloading" /\ Effective(p, Generated(p)) = {}
      BY <1>4 DEF FinishUnchanged
    <2>2. Replaced(p) = {}
      BY <2>1, NothingReplaced DEF AllInv
    <2>3. PICK index : index = Project!IndexOf(View(p))
      OBVIOUS
    <2>4. changes[p][Index] = Nothing
      BY <1>1, <2>1 DEF Held, Owned
    <2>5. View(p)[Index] = Old(p, Index)
      BY <2>4, FilesFact DEF View
    <2>6. \A f \in Files : Generated(p)[f] \in {Nothing, Old(p, f)}
      BY <2>1 DEF Effective
    <2>7. /\ \A r \in Records : Generated(p)[r] = changes[p][r]
          /\ Generated(p)[Index] = IF View(p)[Index] = index THEN Nothing ELSE index
      BY <2>3, FilesFact DEF Generated, AllInv, IInv, TypeOK
    <2>8. index # Nothing
      <3>1. \A r \in Records : View(p)[r] \in RecordContent
        BY FilesFact, ContentFact DEF View, Old, AllInv, IInv, TypeOK
      <3>2. index \in IndexContent
        BY <2>3, <3>1 DEF IndexContent, Project!IndexOf, Records, Project!Records
      <3> QED
        BY <3>2, MarksFact
    <2>9. View(p)[Index] = index
      BY <2>5, <2>6, <2>7, <2>8, FilesFact
    <2>10. ASSUME NEW f \in Unedited PROVE disk[f] = View(p)[f]
      <3>1. f \in Files /\ (f = Index \/ f \in Records)
        BY SteadyFact, MaxRecordsAssumption, SMT DEF Index, Records, Files, Project!Index, Project!Records, Project!Files
      <3>2. changes[p][f] \in {Nothing, Old(p, f)}
        BY <2>4, <2>6, <2>7, <3>1
      <3> QED
        BY <1>2, <2>2, <3>1, <3>2 DEF View
    <2> QED
      BY <1>1, <2>3, <2>9, <2>10
  <1> QED
    BY <1>3, <1>4

(* A call that succeeds leaves an index of the records on disk, whatever    *)
(* others that failed or were killed left there, unless a record is no      *)
(* longer what the call read or wrote (ops/mod.rs regenerate).              *)
THEOREM PaletteRepairsIndex == Spec => RepairsIndex
  <1>1. ASSUME AllInv, [Next]_vars, NEW p \in Tools, pc[p] \in Inside, pc'[p] = "done",
               \A r \in Records : disk'[r] = View(p)[r]
        PROVE  Project!IndexAgrees(disk')
    <2>1. Committed(p) \/ FinishUnchanged(p)
      <3>1. pc'[p] # pc[p]
        BY <1>1 DEF Inside, Committing
      <3>2. ASSUME NEW q \in Tools, CallStep(q), q # p PROVE FALSE
        BY <1>1, <3>1, <3>2 DEF CallStep, CallProceeds, Begin, GiveUp, Killed, Acquire, Read, Check, Conflict, Stage,
           ReadPrevious, StepFails, Operate, Finish, FinishUnchanged, Refuse, NextPhase, Committed, RolledBack, Return,
           Rename, Delete, Undo, AllInv, IInv, TypeOK, call
      <3>3. CallStep(p)
        BY <1>1, <3>1, <3>2 DEF Next, Edit, vars
      <3> QED
        BY <1>1, <3>1, <3>3 DEF CallStep, CallProceeds, Begin, GiveUp, Killed, Acquire, Read, Check, Conflict, Stage,
           ReadPrevious, StepFails, Operate, Finish, Refuse, NextPhase, RolledBack, Return,
           Rename, Delete, Undo, AllInv, IInv, TypeOK, call
    <2>2. disk'[Index] = Project!IndexOf(View(p))
      BY <1>1, <2>1, DoneAsPlanned, SteadyFact
    <2>3. Project!IndexOf(View(p)) = Project!IndexOf(disk')
      BY <1>1 DEF Project!IndexOf, Records, Project!Records
    <2> QED
      BY <2>2, <2>3 DEF Project!IndexAgrees, Index, Project!Index
  <1>2. AllInv /\ [Next]_vars =>
          [\A p \in Tools :
            /\ pc[p] \in Inside /\ pc'[p] = "done"
            /\ \A r \in Records : disk'[r] = View(p)[r]
            => Project!IndexAgrees(disk')]_vars
    BY <1>1
  <1> QED
    BY <1>2, SpecAllInv, PTL DEF RepairsIndex, Spec

-----------------------------------------------------------------------------
(***************************************************************************)
(* Refinement.  With nobody else at work the project a reader sees, which  *)
(* is the one a committing call found, changes once per call.              *)
(***************************************************************************)
Quiet == MaxEdits = 0 /\ ~Kill /\ "undo" \notin Faults

\* Outside of a commit the project is what the disk has.
LEMMA SeenOutside ==
    ASSUME TypeOK, \A p \in Tools : pc[p] \notin Committing
    PROVE  Seen = disk
  <1>1. Seen = [f \in 0..MaxRecords |-> disk[f]]
    BY DEF Seen
  <1> QED
    BY <1>1 DEF TypeOK, Files, Project!Files

\* During one it is what the call found.
LEMMA SeenInside ==
    ASSUME OneCallInside, NEW p \in Tools, pc[p] \in Committing
    PROVE  Seen = [f \in Files |-> IF baseline[p][f] # Nothing THEN baseline[p][f] ELSE disk[f]]
  <1>1. \A q \in Tools : pc[q] \in Committing => q = p
    BY DEF OneCallInside, Inside
  <1>2. (CHOOSE q \in Tools : pc[q] \in Committing) = p
    BY <1>1
  <1>3. \A f \in Files : (\E q \in Tools : pc[q] \in Committing /\ baseline[q][f] # Nothing) <=> baseline[p][f] # Nothing
    BY <1>1
  <1> QED
    BY <1>2, <1>3 DEF Seen, Files, Project!Files

\* Both, after a step.
LEMMA SeenOutsideNext ==
    ASSUME TypeOK', \A p \in Tools : pc'[p] \notin Committing
    PROVE  Seen' = disk'
  <1>1. Seen' = [f \in 0..MaxRecords |-> disk'[f]]
    BY DEF Seen
  <1> QED
    BY <1>1 DEF TypeOK, Files, Project!Files

LEMMA SeenInsideNext ==
    ASSUME OneCallInside', NEW p \in Tools, pc'[p] \in Committing
    PROVE  Seen' = [f \in Files |-> IF baseline'[p][f] # Nothing THEN baseline'[p][f] ELSE disk'[f]]
  <1>1. \A q \in Tools : pc'[q] \in Committing => q = p
    BY DEF OneCallInside, Inside
  <1>2. (CHOOSE q \in Tools : pc'[q] \in Committing) = p
    BY <1>1
  <1>3. \A f \in Files : (\E q \in Tools : pc'[q] \in Committing /\ baseline'[q][f] # Nothing) <=> baseline'[p][f] # Nothing
    BY <1>1
  <1> QED
    BY <1>2, <1>3 DEF Seen, Files, Project!Files

\* Nobody else commits while a call is inside.
LEMMA NobodyElse ==
    ASSUME IInv, NEW p \in Tools, pc[p] \in Inside
    PROVE  \A q \in Tools \ {p} : pc[q] \notin Committing
  BY OthersOutside DEF Inside

LEMMA InitSeen == Init => Project!ProjectInit
  <1> SUFFICES ASSUME Init PROVE Project!ProjectInit
    OBVIOUS
  <1>1. PICK recs \in [Records -> {Draft, Missing}] :
          disk = [f \in Files |-> IF f = Index THEN recs ELSE recs[f]]
    BY DEF Init
  <1>2. Seen = disk
    BY InitIInv, SeenOutside DEF Init, IInv, Committing
  <1>3. recs \in [Records -> Texts \cup {Missing}]
    BY <1>1 DEF Texts
  <1> QED
    BY <1>1, <1>2, <1>3 DEF Project!ProjectInit, Records, Files, Index

\* A step that leaves the disk alone, and who commits.
LEMMA SeenKept ==
    ASSUME IInv, IInv', UNCHANGED disk,
           \A q \in Tools : /\ pc'[q] \in Committing <=> pc[q] \in Committing
                            /\ pc[q] \in Committing => baseline'[q] = baseline[q]
    PROVE  Seen' = Seen
  <1>1. CASE \E q \in Tools : pc[q] \in Committing
    <2>1. PICK q \in Tools : pc[q] \in Committing
      BY <1>1
    <2>2. Seen = [f \in Files |-> IF baseline[q][f] # Nothing THEN baseline[q][f] ELSE disk[f]]
      BY <2>1, SeenInside DEF IInv
    <2>3. Seen' = [f \in Files |-> IF baseline'[q][f] # Nothing THEN baseline'[q][f] ELSE disk'[f]]
      BY <2>1, SeenInsideNext DEF IInv
    <2> QED
      BY <2>1, <2>2, <2>3
  <1>2. CASE \A q \in Tools : pc[q] \notin Committing
    <2>1. Seen = disk
      BY <1>2, SeenOutside DEF IInv
    <2>2. Seen' = disk'
      BY <1>2, SeenOutsideNext DEF IInv
    <2> QED
      BY <2>1, <2>2
  <1> QED
    BY <1>1, <1>2

\* A call returns without a commit.
LEMMA ReturnSeen ==
    ASSUME IInv, IInv', NEW p \in Tools, NEW how \in Ended, Return(p, how), pc[p] \notin Committing
    PROVE  Seen' = Seen
  <1>1. /\ UNCHANGED disk /\ pc'[p] \notin Committing
        /\ \A q \in Tools \ {p} : pc'[q] = pc[q] /\ baseline'[q] = baseline[q]
    BY DEF Return, Forget, IInv, TypeOK, Ended, Committing
  <1> QED
    BY <1>1, SeenKept

\* A call that commits writes only files it has read.
LEMMA CommittingSeen ==
    ASSUME AllInv, IInv', NEW p \in Tools, pc[p] \in Committing, pc'[p] \in Committing, UNCHANGED baseline,
           NEW f \in Changed(p), \A g \in Files \ {f} : disk'[g] = disk[g]
    PROVE  Seen' = Seen
  <1>1. Held(p)
    BY DEF AllInv, LInv, Inside
  <1>2. f \in Files /\ changes[p][f] # Nothing /\ (f = Index \/ f \in Records)
    BY MaxRecordsAssumption, SMT
    DEF Changed, Effective, Index, Records, Files, Project!Index, Project!Records, Project!Files
  <1>3. baseline[p][f] # Nothing
    BY <1>1, <1>2 DEF Held, Owned, Remembers, Committing
  <1>4. Seen = [g \in Files |-> IF baseline[p][g] # Nothing THEN baseline[p][g] ELSE disk[g]]
    BY SeenInside DEF AllInv, IInv
  <1>5. Seen' = [g \in Files |-> IF baseline[p][g] # Nothing THEN baseline[p][g] ELSE disk'[g]]
    BY SeenInsideNext DEF IInv
  <1> QED
    BY <1>3, <1>4, <1>5

\* The call begins its commit, or gives it up with everything put back.
LEMMA CommitBegins ==
    ASSUME AllInv, IInv', Quiet, NEW p \in Tools, UNCHANGED disk, pc[p] \in Inside,
           \A q \in Tools \ {p} : pc'[q] = pc[q],
           \/ pc[p] = "checking" /\ pc'[p] \in Committing /\ UNCHANGED baseline
           \/ pc[p] = "rolling" /\ undo[p] = <<>> /\ pc'[p] \notin Committing
    PROVE  Seen' = Seen
  <1>1. Held(p) /\ Unedited = Files /\ Steady = Files
    BY DEF AllInv, LInv, Quiet, Unedited, Steady
  <1>2. Replaced(p) = {} /\ ~problems[p]
    <2>1. undo[p] = <<>>
      BY NothingReplaced DEF AllInv
    <2>2. ~problems[p]
      BY <1>1 DEF Held, Undoes, Quiet
    <2> QED
      BY <2>1, <2>2, EntriesEmpty DEF Replaced
  <1>3. \A f \in Files : baseline[p][f] \in {Nothing, disk[f]}
    BY <1>1, <1>2 DEF Held, Remembers
  <1>4. disk = [f \in Files |-> IF baseline[p][f] # Nothing THEN baseline[p][f] ELSE disk[f]]
    BY <1>3 DEF AllInv, IInv, TypeOK
  <1>5. \A q \in Tools \ {p} : pc[q] \notin Committing
    BY NobodyElse DEF AllInv
  <1>6. CASE pc[p] = "checking" /\ pc'[p] \in Committing /\ UNCHANGED baseline
    <2>1. Seen = disk
      BY <1>5, <1>6, SeenOutside DEF AllInv, IInv, Committing
    <2>2. Seen' = [f \in Files |-> IF baseline[p][f] # Nothing THEN baseline[p][f] ELSE disk[f]]
      BY <1>6, SeenInsideNext DEF IInv
    <2> QED
      BY <1>4, <2>1, <2>2
  <1>7. CASE pc[p] = "rolling" /\ pc'[p] \notin Committing
    <2>1. Seen = [f \in Files |-> IF baseline[p][f] # Nothing THEN baseline[p][f] ELSE disk[f]]
      BY <1>7, SeenInside DEF AllInv, IInv, Committing
    <2>2. Seen' = disk'
      BY <1>5, <1>7, SeenOutsideNext DEF IInv
    <2> QED
      BY <1>4, <2>1, <2>2
  <1> QED
    BY <1>6, <1>7

\* The commit is over: this is the call's one step.
LEMMA CommittedSeen ==
    ASSUME AllInv, IInv', Quiet, NEW p \in Tools, Committed(p)
    PROVE  Project!ProjectNext
  <1>1. /\ pc[p] = "deleting" /\ pc[p] \in Committing /\ pc[p] \in Inside /\ Held(p)
        /\ UNCHANGED disk /\ pc'[p] \notin Committing
        /\ \A q \in Tools \ {p} : pc'[q] = pc[q]
    BY DEF Committed, Return, Inside, Committing, AllInv, LInv, IInv, TypeOK
  <1>2. \A q \in Tools \ {p} : pc[q] \notin Committing
    BY <1>1, NobodyElse DEF AllInv
  <1>3. Seen = [f \in Files |-> IF baseline[p][f] # Nothing THEN baseline[p][f] ELSE disk[f]]
    BY <1>1, SeenInside DEF AllInv, IInv
  <1>4. Seen' = disk /\ DOMAIN disk = Files
    BY <1>1, <1>2, SeenOutsideNext DEF AllInv, IInv, TypeOK
  <1>5. /\ View(p)[Index] = Project!IndexOf(View(p))
        /\ \A f \in Files : disk[f] = View(p)[f]
    BY DoneAsPlanned DEF Quiet, Unedited
  <1>6. PICK S \in SUBSET Records : S = {r \in Records : changes[p][r] # Nothing}
    OBVIOUS
  <1>7. PICK new \in [S -> {p, Missing}] : \A r \in S : new[r] = changes[p][r]
    <2>1. \A r \in S : changes[p][r] \in {p, Missing}
      BY <1>1, <1>6 DEF Held, Owned
    <2>2. [r \in S |-> changes[p][r]] \in [S -> {p, Missing}]
      BY <2>1
    <2> QED
      BY <2>2
  <1>8. PICK y : y = [f \in Files |-> IF f \in S THEN new[f] ELSE Seen[f]]
    OBVIOUS
  <1>9. ASSUME NEW r \in Records PROVE y[r] = disk[r]
    <2>1. r \in Files
      BY FilesFact
    <2>2. View(p)[r] = IF changes[p][r] = Nothing THEN Old(p, r) ELSE changes[p][r]
      BY <2>1 DEF View
    <2>3. CASE r \in S
      BY <1>5, <1>6, <1>7, <1>8, <2>1, <2>2, <2>3
    <2>4. CASE r \notin S
      <3>1. y[r] = Seen[r] /\ changes[p][r] = Nothing
        BY <1>6, <1>8, <2>1, <2>4
      <3>2. disk[r] = Old(p, r)
        BY <1>5, <2>1, <2>2, <3>1
      <3>3. Seen[r] = IF baseline[p][r] # Nothing THEN baseline[p][r] ELSE disk[r]
        BY <1>3, <2>1
      <3> QED
        BY <3>1, <3>2, <3>3 DEF Old
    <2> QED
      BY <2>3, <2>4
  <1>10. disk[Index] = Project!IndexOf(y)
    <2>1. \A r \in Records : y[r] = View(p)[r]
      BY <1>5, <1>9, FilesFact
    <2>2. Project!IndexOf(y) = Project!IndexOf(View(p))
      BY <2>1 DEF Project!IndexOf, Records, Project!Records
    <2> QED
      BY <1>5, <2>2, FilesFact
  <1>11. disk = [y EXCEPT ![Index] = Project!IndexOf(y)]
    <2>1. \A f \in Files : f = Index \/ f \in Records
      BY MaxRecordsAssumption, SMT DEF Index, Records, Files, Project!Index, Project!Records, Project!Files
    <2>2. DOMAIN y = Files /\ y = [f \in Files |-> y[f]]
      BY <1>8
    <2>3. disk = [f \in Files |-> disk[f]]
      BY DEF AllInv, IInv, TypeOK
    <2> QED
      BY <1>9, <1>10, <2>1, <2>2, <2>3
  <1>12. Seen' = Project!Rewritten(Seen, S, new)
    BY <1>4, <1>8, <1>11 DEF Project!Rewritten, Files, Index
  <1>13. p \in Texts
    BY DEF Texts
  <1> QED
    BY <1>6, <1>7, <1>12, <1>13 DEF Project!ProjectNext, Records

LEMMA NextSeen ==
    ASSUME AllInv, AllInv', Quiet, [Next]_vars
    PROVE  [Project!ProjectNext]_Seen
  <1>1. IInv /\ IInv' /\ TypeOK
    BY DEF AllInv, IInv
  <1>2. ASSUME NEW p \in Tools, Begin(p) \/ Acquire(p) PROVE Seen' = Seen
    <2>1. /\ UNCHANGED disk
          /\ \A q \in Tools : (pc'[q] \in Committing <=> pc[q] \in Committing)
                              /\ (pc[q] \in Committing => baseline'[q] = baseline[q])
      BY <1>1, <1>2 DEF Begin, Acquire, call, TypeOK, Committing
    <2> QED
      BY <1>1, <2>1, SeenKept
  <1>3. ASSUME NEW p \in Tools, GiveUp(p) \/ Refuse(p) \/ FinishUnchanged(p) \/ \E f \in Files : Conflict(p, f)
        PROVE Seen' = Seen
    <2>1. pc[p] \notin Committing /\ \E how \in Ended : Return(p, how)
      BY <1>3 DEF GiveUp, Refuse, FinishUnchanged, Conflict, Ended, Committing
    <2> QED
      BY <1>1, <2>1, ReturnSeen
  <1>4. ASSUME NEW p \in Tools,
               \/ \E f \in Files : Read(p, f) \/ Check(p, f)
               \/ \E S \in SUBSET Records : \E new \in [S -> {p, Missing}] : Operate(p, S, new)
               \/ Finish(p)
        PROVE Seen' = Seen
    <2>1. /\ UNCHANGED disk
          /\ \A q \in Tools \ {p} : pc'[q] = pc[q] /\ baseline'[q] = baseline[q]
          /\ pc[p] \notin Committing /\ pc'[p] \notin Committing
      BY <1>1, <1>4 DEF Read, Check, Operate, Finish, TypeOK, Committing
    <2> QED
      BY <1>1, <2>1, SeenKept
  <1>5. ASSUME NEW p \in Tools, \E f \in Files : Stage(p, f) \/ ReadPrevious(p, f) \/ StepFails(p, f)
        PROVE Seen' = Seen
    <2>1. /\ UNCHANGED <<disk, baseline>>
          /\ \A q \in Tools \ {p} : pc'[q] = pc[q]
          /\ pc[p] \in Committing /\ pc'[p] \in Committing
      BY <1>1, <1>5 DEF Stage, ReadPrevious, StepFails, TypeOK, Committing
    <2> QED
      BY <1>1, <2>1, SeenKept
  <1>6. ASSUME NEW p \in Tools, NEW f \in Files, Rename(p, f) \/ Delete(p, f) PROVE Seen' = Seen
    <2>1. /\ pc[p] \in {"replacing", "deleting"} /\ pc'[p] \in Committing /\ UNCHANGED baseline /\ f \in todo[p]
          /\ \A g \in Files \ {f} : disk'[g] = disk[g]
      BY <1>1, <1>6 DEF Rename, Delete, IsFirst, TypeOK, Committing
    <2>2. pc[p] \in Committing /\ Held(p)
      BY <2>1 DEF Committing, AllInv, LInv, Inside
    <2>3. f \in Changed(p)
      BY <2>1, <2>2 DEF Held, Listed, Writes, Deletes, Changed
    <2> QED
      BY <1>1, <2>1, <2>2, <2>3, CommittingSeen
  <1>7. ASSUME NEW p \in Tools, NEW failed \in BOOLEAN, Undo(p, failed) PROVE Seen' = Seen
    <2>1. PICK u : u = undo[p][Len(undo[p])]
      OBVIOUS
    <2>2. undo[p] # <<>> /\ disk' \in {disk, [disk EXCEPT ![u.file] = u.bytes]} /\ UNCHANGED <<pc, baseline>>
          /\ pc[p] \in Committing
      BY <1>7, <2>1 DEF Undo, Committing
    <2>3. u \in Entries(undo[p]) /\ Held(p)
      BY <1>1, <2>1, <2>2, EntriesFront DEF TypeOK, AllInv, LInv, Inside
    <2>4. u.file \in Changed(p)
      BY <2>3 DEF Held, Listed, Replaced
    <2>5. \A g \in Files \ {u.file} : disk'[g] = disk[g]
      BY <1>1, <2>2 DEF TypeOK
    <2> QED
      BY <1>1, <2>2, <2>4, <2>5, CommittingSeen
  <1>8. ASSUME NEW p \in Tools, NextPhase(p) PROVE Seen' = Seen
    <2>1. /\ UNCHANGED <<disk, baseline>> /\ \A q \in Tools \ {p} : pc'[q] = pc[q]
          /\ pc[p] \in {"checking", "staging", "renaming"} /\ pc'[p] \in Committing
      BY <1>1, <1>8 DEF NextPhase, TypeOK, Committing
    <2>2. CASE pc[p] = "checking"
      BY <1>1, <2>1, <2>2, CommitBegins DEF Inside
    <2>3. CASE pc[p] \in Committing
      BY <1>1, <2>1, <2>3, SeenKept
    <2> QED
      BY <2>1, <2>2, <2>3 DEF Committing
  <1>9. ASSUME NEW p \in Tools, RolledBack(p) PROVE Seen' = Seen
    <2>1. /\ UNCHANGED disk /\ \A q \in Tools \ {p} : pc'[q] = pc[q]
          /\ pc[p] = "rolling" /\ undo[p] = <<>> /\ pc'[p] \notin Committing
      BY <1>1, <1>9 DEF RolledBack, Return, TypeOK, Committing
    <2> QED
      BY <1>1, <2>1, CommitBegins DEF Inside, Committing
  <1>10. ASSUME NEW p \in Tools, Committed(p) PROVE Project!ProjectNext
    BY <1>1, <1>10, CommittedSeen
  <1>11. ASSUME NEW r \in Records, NEW text \in {HandEdit, Missing}, Edit(r, text) PROVE FALSE
    BY <1>1, <1>11, MaxEditsAssumption DEF Edit, Quiet, TypeOK
  <1>12. CASE UNCHANGED vars
    <2>1. Seen' = Seen
      BY <1>1, <1>12, SeenKept DEF vars
    <2> QED
      BY <2>1
  <1>13. ASSUME NEW p \in Tools, Killed(p) PROVE FALSE
    BY <1>13 DEF Killed, Quiet
  <1> QED
    BY <1>2, <1>3, <1>4, <1>5, <1>6, <1>7, <1>8, <1>9, <1>10, <1>11, <1>12, <1>13
    DEF Next, CallStep, CallProceeds

(* Calls that overlap, in any number, leave a project as if each had run    *)
(* alone and at once: all of its files or none, and an index of its         *)
(* records.  Steps of a commit may fail; nobody edits by hand meanwhile,    *)
(* nobody is killed, and what the rollback puts back it can put back        *)
(* (ops/mod.rs run_transaction; vfs.rs commit).                             *)
THEOREM PaletteImplementsProject ==
    MaxEdits = 0 /\ ~Kill /\ "undo" \notin Faults => (Spec => ImplementsProject)
  <1> SUFFICES ASSUME Quiet PROVE Spec => ImplementsProject
    BY DEF Quiet
  <1>1. Init => Project!ProjectInit
    BY InitSeen
  <1>2. AllInv /\ AllInv' /\ [Next]_vars => [Project!ProjectNext]_Seen
    BY NextSeen
  <1> QED
    BY <1>1, <1>2, SpecAllInv, PTL DEF Spec, ImplementsProject, Project!ProjectSpec
=============================================================================

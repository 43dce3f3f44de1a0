--------------------------- MODULE PaletteCommit ---------------------------
(***************************************************************************)
(* Write calls of the palette tools on one project: the project lock, the   *)
(* overlay that remembers what was read, the conflict check, the commit of  *)
(* several files and its rollback.  Calls of any number of servers and of   *)
(* the command line run side by side, people edit files by hand, file       *)
(* operations fail and processes are killed.  A step is one operation on    *)
(* the file system.                                                         *)
(***************************************************************************)
EXTENDS Naturals, Sequences, FiniteSets

CONSTANTS
    MaxRecords, \* as in PaletteProject
    Missing,
    Tools,      \* the write calls
    NoTool,     \* nobody holds the lock
    Nothing,    \* no entry in a map
    Draft,      \* what a record says at first
    HandEdit,   \* what a person writes into a record
    MaxEdits,   \* bound: the edits made by hand
    LateEdits,  \* whether an edit may land while a call checks and commits
    Kill,       \* whether processes are killed
    Faults      \* which file operations may fail

Texts == Tools \cup {Draft, HandEdit}

ASSUME MaxRecordsAssumption == MaxRecords \in Nat \ {0}
ASSUME MissingAssumption ==
    Missing \notin Texts \cup [1..MaxRecords -> Texts \cup {Missing}]
ASSUME NothingAssumption ==
    Nothing \notin Texts \cup {Missing} \cup [1..MaxRecords -> Texts \cup {Missing}]
ASSUME NoToolAssumption == NoTool \notin Tools
ASSUME ToolTextsAssumption == {Draft, HandEdit} \cap Tools = {} /\ Draft # HandEdit
ASSUME MaxEditsAssumption == MaxEdits \in Nat
ASSUME FaultsAssumption == Faults \subseteq {"step", "undo"} /\ {LateEdits, Kill} \subseteq BOOLEAN

VARIABLES
    disk,       \* the content of each file
    lock,       \* the call that holds _palette/.palette.lock
    edits,      \* edits made by hand so far
    pc,         \* per call: how far it got
    baseline,   \* per call: what it read of each file, absent ones too
    changes,    \* per call: the content it set for some files
    todo,       \* per call: the files the phase at hand still has to do
    tmp,        \* per call: the files with a temporary sibling on disk
    previous,   \* per call: what the file being replaced held just before
    undo,       \* per call: the rollback's list
    problems    \* per call: whether a step of the rollback failed

call == <<baseline, changes, todo, tmp, previous, undo, problems>>
vars == <<disk, lock, edits, pc, baseline, changes, todo, tmp, previous, undo, problems>>

Committing == {"staging", "renaming", "replacing", "deleting", "rolling"}
Inside     == Committing \cup {"loading", "reloading", "checking"}
Ended      == {"done", "locked", "refused", "broken", "dead"}

\* The project as if a call wrote all of its files the moment it returns.
Seen == [f \in 0..MaxRecords |->
            IF \E p \in Tools : pc[p] \in Committing /\ baseline[p][f] # Nothing
            THEN baseline[CHOOSE p \in Tools : pc[p] \in Committing][f]
            ELSE disk[f]]

Project == INSTANCE PaletteProject WITH project <- Seen

Index   == Project!Index
Records == Project!Records
Files   == Project!Files
RecordContent == Texts \cup {Missing}
IndexContent  == [Records -> RecordContent]
Content == RecordContent \cup IndexContent
Blank   == [f \in Files |-> Nothing]

\* What a file may hold: the index an index, a record a text.
ContentOf(f) == IF f = Index THEN IndexContent \cup {Missing} ELSE RecordContent

\* Undo::Created has Missing for its bytes.
Undos == {u \in [file : Files, bytes : Content] : u.bytes \in ContentOf(u.file)}

TypeOK ==
    /\ disk \in [Files -> Content] /\ \A f \in Files : disk[f] \in ContentOf(f)
    /\ lock \in Tools \cup {NoTool}
    /\ edits \in 0..MaxEdits
    /\ pc \in [Tools -> {"idle", "waiting"} \cup Inside \cup Ended]
    /\ {baseline, changes} \subseteq [Tools -> [Files -> Content \cup {Nothing}]]
    /\ \A p \in Tools, f \in Files : {baseline[p][f], changes[p][f]} \subseteq ContentOf(f) \cup {Nothing}
    /\ {todo, tmp} \subseteq [Tools -> SUBSET Files]
    /\ previous \in [Tools -> Content]
    /\ undo \in [Tools -> Seq(Undos)]
    /\ problems \in [Tools -> BOOLEAN]

Init ==
    /\ \E recs \in [Records -> {Draft, Missing}] :
         disk = [f \in Files |-> IF f = Index THEN recs ELSE recs[f]]
    /\ lock = NoTool
    /\ edits = 0
    /\ pc = [p \in Tools |-> "idle"]
    /\ baseline = [p \in Tools |-> Blank]
    /\ changes = [p \in Tools |-> Blank]
    /\ todo = [p \in Tools |-> {}]
    /\ tmp = [p \in Tools |-> {}]
    /\ previous = [p \in Tools |-> Missing]
    /\ undo = [p \in Tools |-> <<>>]
    /\ problems = [p \in Tools |-> FALSE]

\* What a read through the overlay gave of a file before the call's changes, and
\* gives with them.
Old(p, f) == IF baseline[p][f] = Nothing THEN Missing ELSE baseline[p][f]
View(p)   == [f \in Files |-> IF changes[p][f] = Nothing THEN Old(p, f) ELSE changes[p][f]]

\* effective_changes, and the two loops that go over them in path order.
Effective(p, c) == {f \in Files : c[f] \notin {Nothing, Old(p, f)}}
Writes(p)  == {f \in Effective(p, changes[p]) : changes[p][f] # Missing}
Deletes(p) == Effective(p, changes[p]) \ Writes(p)

IsFirst(f, p) == f \in todo[p] /\ \A g \in todo[p] : f <= g

\* What the call keeps in memory is gone with it.
Forget(p) ==
    /\ baseline' = [baseline EXCEPT ![p] = Blank]
    /\ changes' = [changes EXCEPT ![p] = Blank]
    /\ todo' = [todo EXCEPT ![p] = {}]
    /\ previous' = [previous EXCEPT ![p] = Missing]
    /\ undo' = [undo EXCEPT ![p] = <<>>]
    /\ problems' = [problems EXCEPT ![p] = FALSE]

\* The call returns and its lock is dropped.
Return(p, how) ==
    /\ pc' = [pc EXCEPT ![p] = how]
    /\ lock' = IF lock = p THEN NoTool ELSE lock
    /\ Forget(p)
    /\ UNCHANGED <<disk, edits, tmp>>

-----------------------------------------------------------------------------
(* run_transaction up to the commit.                                        *)

Begin(p) ==
    /\ pc[p] = "idle"
    /\ pc' = [pc EXCEPT ![p] = "waiting"]
    /\ UNCHANGED <<disk, lock, edits, call>>

\* ProjectLock::acquire, one try.  The project is then loaded.
Acquire(p) ==
    /\ pc[p] = "waiting"
    /\ lock = NoTool
    /\ lock' = p
    /\ pc' = [pc EXCEPT ![p] = "loading"]
    /\ todo' = [todo EXCEPT ![p] = Files]
    /\ UNCHANGED <<disk, edits, baseline, changes, tmp, previous, undo, problems>>

\* The ten seconds are over.
GiveUp(p) ==
    /\ pc[p] = "waiting"
    /\ Return(p, "locked")

\* Snapshot::load through the overlay: a file that is listed is read, unless it
\* was before, and what it holds is remembered.  regenerate loads once more.
Read(p, f) ==
    /\ pc[p] \in {"loading", "reloading"}
    /\ IsFirst(f, p)
    /\ baseline' = IF disk[f] # Missing /\ baseline[p][f] = Nothing /\ changes[p][f] = Nothing
                   THEN [baseline EXCEPT ![p][f] = disk[f]] ELSE baseline
    /\ todo' = [todo EXCEPT ![p] = @ \ {f}]
    /\ UNCHANGED <<disk, lock, edits, pc, changes, tmp, previous, undo, problems>>

\* The operation writes and deletes records in the overlay, which remembers what
\* the disk holds of those that were not read.
Operate(p, S, new) ==
    /\ pc[p] = "loading"
    /\ todo[p] = {}
    /\ changes' = [changes EXCEPT ![p] = [f \in Files |-> IF f \in S THEN new[f] ELSE Nothing]]
    /\ baseline' = [baseline EXCEPT ![p] = [f \in Files |->
                        IF f \in S /\ @[f] = Nothing THEN disk[f] ELSE @[f]]]
    /\ pc' = [pc EXCEPT ![p] = "reloading"]
    /\ todo' = [todo EXCEPT ![p] = Files]
    /\ UNCHANGED <<disk, lock, edits, tmp, previous, undo, problems>>

\* slip: the index is generated from what was read, without the call's edits
Generated_Stale(p) ==
    LET index == Project!IndexOf([f \in Files |-> Old(p, f)])
    IN [changes[p] EXCEPT ![Index] = IF View(p)[Index] = index THEN Nothing ELSE index]

\* regenerate: the index is written when it does not say what the records say.
Generated(p) ==
    LET index == Project!IndexOf(View(p))
    IN [changes[p] EXCEPT ![Index] = IF View(p)[Index] = index THEN Nothing ELSE index]

\* finish, when lint finds no error in the files that are to change.
Finish(p) ==
    /\ pc[p] = "reloading"
    /\ todo[p] = {}
    /\ Effective(p, Generated(p)) # {}
    /\ changes' = [changes EXCEPT ![p] = Generated(p)]
    /\ todo' = [todo EXCEPT ![p] = Effective(p, Generated(p))]
    /\ pc' = [pc EXCEPT ![p] = "checking"]
    /\ UNCHANGED <<disk, lock, edits, baseline, tmp, previous, undo, problems>>

\* Without an effective change nothing is committed.
FinishUnchanged(p) ==
    /\ pc[p] = "reloading"
    /\ todo[p] = {}
    /\ Effective(p, Generated(p)) = {}
    /\ Return(p, "done")

\* A file does not parse, the operation is refused, or lint finds an error in a
\* file it would change; a dry run stops here too.
Refuse(p) ==
    /\ pc[p] \in {"loading", "reloading"}
    /\ Return(p, "refused")

-----------------------------------------------------------------------------
(* vfs::commit.                                                             *)

\* slip: no conflict detection
Agrees_Blind(p, f) == TRUE

\* The disk still holds what the call read.
Agrees(p, f) == disk[f] = Old(p, f)

Check(p, f) ==
    /\ pc[p] = "checking"
    /\ IsFirst(f, p)
    /\ Agrees(p, f)
    /\ todo' = [todo EXCEPT ![p] = @ \ {f}]
    /\ UNCHANGED <<disk, lock, edits, pc, baseline, changes, tmp, previous, undo, problems>>

Conflict(p, f) ==
    /\ pc[p] = "checking"
    /\ IsFirst(f, p)
    /\ ~Agrees(p, f)
    /\ Return(p, "refused")

Stage(p, f) ==
    /\ pc[p] = "staging"
    /\ IsFirst(f, p)
    /\ tmp' = [tmp EXCEPT ![p] = @ \cup {f}]
    /\ todo' = [todo EXCEPT ![p] = @ \ {f}]
    /\ UNCHANGED <<disk, lock, edits, pc, baseline, changes, previous, undo, problems>>

\* What the file holds is read again, for the rollback only.
ReadPrevious(p, f) ==
    /\ pc[p] = "renaming"
    /\ IsFirst(f, p)
    /\ previous' = [previous EXCEPT ![p] = disk[f]]
    /\ pc' = [pc EXCEPT ![p] = "replacing"]
    /\ UNCHANGED <<disk, lock, edits, baseline, changes, todo, tmp, undo, problems>>

Rename(p, f) ==
    /\ pc[p] = "replacing"
    /\ IsFirst(f, p)
    /\ disk' = [disk EXCEPT ![f] = changes[p][f]]
    /\ tmp' = [tmp EXCEPT ![p] = @ \ {f}]
    /\ undo' = [undo EXCEPT ![p] = Append(@, [file |-> f, bytes |-> previous[p]])]
    /\ todo' = [todo EXCEPT ![p] = @ \ {f}]
    /\ pc' = [pc EXCEPT ![p] = "renaming"]
    /\ UNCHANGED <<lock, edits, baseline, changes, previous, problems>>

Delete(p, f) ==
    /\ pc[p] = "deleting"
    /\ IsFirst(f, p)
    /\ disk[f] # Missing
    /\ disk' = [disk EXCEPT ![f] = Missing]
    /\ undo' = [undo EXCEPT ![p] = Append(@, [file |-> f, bytes |-> Old(p, f)])]
    /\ todo' = [todo EXCEPT ![p] = @ \ {f}]
    /\ UNCHANGED <<lock, edits, pc, baseline, changes, tmp, previous, problems>>

NextPhase(p) ==
    /\ todo[p] = {}
    /\ \/ /\ pc[p] = "checking"
          /\ pc' = [pc EXCEPT ![p] = "staging"]
          /\ todo' = [todo EXCEPT ![p] = Writes(p)]
       \/ /\ pc[p] = "staging"
          /\ pc' = [pc EXCEPT ![p] = "renaming"]
          /\ todo' = [todo EXCEPT ![p] = Writes(p)]
       \/ /\ pc[p] = "renaming"
          /\ pc' = [pc EXCEPT ![p] = "deleting"]
          /\ todo' = [todo EXCEPT ![p] = Deletes(p)]
    /\ UNCHANGED <<disk, lock, edits, baseline, changes, tmp, previous, undo, problems>>

Committed(p) ==
    /\ pc[p] = "deleting"
    /\ todo[p] = {}
    /\ Return(p, "done")

\* A step fails: the temporary files it knows of are removed and the rollback
\* begins.  One that was created and could not be written is not known yet.  A
\* file to delete that is gone is a failure as well.
StepFails(p, f) ==
    /\ pc[p] \in {"staging", "replacing", "deleting"}
    /\ IsFirst(f, p)
    /\ \/ "step" \in Faults
       \/ pc[p] = "deleting" /\ disk[f] = Missing
    /\ \E left \in IF pc[p] = "staging" THEN {{}, {f}} ELSE {{}} :
         tmp' = [tmp EXCEPT ![p] = left]
    /\ pc' = [pc EXCEPT ![p] = "rolling"]
    /\ UNCHANGED <<disk, lock, edits, baseline, changes, todo, previous, undo, problems>>

\* slip: a created file is left in place
Undo_KeepsCreated(p, failed) ==
    LET u == undo[p][Len(undo[p])]
        fails == failed \/ (u.bytes = Missing /\ disk[u.file] = Missing)
    IN /\ pc[p] = "rolling"
       /\ undo[p] # <<>>
       /\ failed => "undo" \in Faults
       /\ disk' = IF fails \/ u.bytes = Missing THEN disk ELSE [disk EXCEPT ![u.file] = u.bytes]
       /\ problems' = [problems EXCEPT ![p] = @ \/ fails]
       /\ undo' = [undo EXCEPT ![p] = SubSeq(@, 1, Len(@) - 1)]
       /\ UNCHANGED <<lock, edits, pc, baseline, changes, todo, tmp, previous>>

\* One entry of the rollback, the last one first: a created file is removed,
\* any other gets its bytes back.
Undo(p, failed) ==
    LET u == undo[p][Len(undo[p])]
        fails == failed \/ (u.bytes = Missing /\ disk[u.file] = Missing)
    IN /\ pc[p] = "rolling"
       /\ undo[p] # <<>>
       /\ failed => "undo" \in Faults
       /\ disk' = IF fails THEN disk ELSE [disk EXCEPT ![u.file] = u.bytes]
       /\ problems' = [problems EXCEPT ![p] = @ \/ fails]
       /\ undo' = [undo EXCEPT ![p] = SubSeq(@, 1, Len(@) - 1)]
       /\ UNCHANGED <<lock, edits, pc, baseline, changes, todo, tmp, previous>>

\* slip: the lock is not dropped
RolledBack_Locked(p) ==
    /\ pc[p] = "rolling"
    /\ undo[p] = <<>>
    /\ pc' = [pc EXCEPT ![p] = IF problems[p] THEN "broken" ELSE "refused"]
    /\ Forget(p)
    /\ UNCHANGED <<disk, lock, edits, tmp>>

RolledBack(p) ==
    /\ pc[p] = "rolling"
    /\ undo[p] = <<>>
    /\ Return(p, IF problems[p] THEN "broken" ELSE "refused")

-----------------------------------------------------------------------------
(* The world.                                                               *)

\* The process is killed; the system drops its lock, the files stay as they are.
Killed(p) ==
    /\ Kill
    /\ pc[p] \in Inside \cup {"waiting"}
    /\ Return(p, "dead")

\* External: a person changes or removes a record.
Edit(r, text) ==
    /\ edits < MaxEdits
    /\ LateEdits \/ \A p \in Tools : pc[p] \notin Committing \cup {"checking"}
    /\ disk[r] # text
    /\ disk' = [disk EXCEPT ![r] = text]
    /\ edits' = edits + 1
    /\ UNCHANGED <<lock, pc, call>>

CallProceeds(p) ==
    \/ Acquire(p)
    \/ \E f \in Files : Read(p, f) \/ Check(p, f) \/ Conflict(p, f) \/ Stage(p, f) \/ ReadPrevious(p, f)
                        \/ Rename(p, f) \/ Delete(p, f) \/ StepFails(p, f)
    \/ \E S \in SUBSET Records : \E new \in [S -> {p, Missing}] : Operate(p, S, new)
    \/ Finish(p)
    \/ FinishUnchanged(p)
    \/ Refuse(p)
    \/ NextPhase(p)
    \/ Committed(p)
    \/ \E failed \in BOOLEAN : Undo(p, failed)
    \/ RolledBack(p)

CallStep(p) == Begin(p) \/ GiveUp(p) \/ Killed(p) \/ CallProceeds(p)

Next ==
    \/ \E p \in Tools : CallStep(p)
    \/ \E r \in Records, text \in {HandEdit, Missing} : Edit(r, text)

Spec == Init /\ [][Next]_vars

\* A call that runs goes on; nobody has to start one, and the lock's timeout,
\* kills and edits may never come.
LiveSpec == Spec /\ \A p \in Tools : WF_vars(CallProceeds(p))

-----------------------------------------------------------------------------
(* One call at a time is between taking the lock and returning, over any     *)
(* number of processes (vfs.rs ProjectLock).                                *)
OneCallInside == \A p \in Tools : pc[p] \in Inside <=> lock = p

(* With no edits by hand and no kills, and rollbacks that succeed, calls    *)
(* that overlap leave a project as if each had run alone and at once: all   *)
(* of its files or none, and an index of its records (ops/mod.rs            *)
(* run_transaction; vfs.rs commit: "as one transaction").                   *)
ImplementsProject == Project!ProjectSpec

(* A call that succeeds repairs what an earlier one that was killed         *)
(* half-way, or could not roll back, left in the index, whatever it changes *)
(* itself; unless a record is no longer what the call read or wrote, the    *)
(* index is one of the records on disk (ops/mod.rs regenerate).             *)
RepairsIndex ==
    [][\A p \in Tools :
        /\ pc[p] \in Inside /\ pc'[p] = "done"
        /\ \A r \in Records : disk'[r] = View(p)[r]
        => Project!IndexAgrees(disk')]_vars

(* A call that was refused, by a conflict or after a failed step it rolled  *)
(* back, left nothing of its own in any file, whatever the others did.      *)
RefusedLeavesNothing ==
    \A p \in Tools : pc[p] = "refused" =>
        \A r \in Records : disk[r] # p /\ disk[Index][r] # p

(* A hand edit is never overwritten by a call that has not read it (vfs.rs  *)
(* 4: "so a change made between read and write is a `conflict`").           *)
UnseenEditKept ==
    [][\A p \in Tools, r \in Records :
        disk[r] = HandEdit /\ disk'[r] # HandEdit /\ CallStep(p) => baseline[p][r] = HandEdit]_vars

(* A call that waits for the lock ends, even if nobody times out.           *)
CallsEnd == \A p \in Tools : pc[p] = "waiting" ~> pc[p] \in Ended
=============================================================================

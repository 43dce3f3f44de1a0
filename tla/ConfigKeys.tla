----------------------------- MODULE ConfigKeys -----------------------------
(***************************************************************************)
(* How the installer edits one key of a harness configuration file and how *)
(* it undoes the edit (src/shared/setup/src/config/mod.rs, manifest.rs).   *)
(* A key is absent, holds a value, or holds a list, of which the set of    *)
(* entries is kept.  A record is what the manifest stores of an edit.      *)
(***************************************************************************)
CONSTANTS Absent,        \* the key does not exist
          NoRecord       \* the manifest has no record of the key

\* The entries of a list key.
Entries(cur) == IF cur = Absent THEN {} ELSE cur

\* The record of a value written over cur, and of entries added to a list.
ValueRecord(cur, value) ==
  [previous |-> cur, written |-> value, added |-> {}]

ListRecord(cur, items) ==
  [previous |-> cur, written |-> Entries(cur) \cup items,
   added |-> items \ Entries(cur)]

(***************************************************************************)
(* restore: the value the key holds after the edit rec was undone.  A list *)
(* loses the entries the installer added, and the key goes when nothing    *)
(* else is in a list the installer created.  A value is put back only      *)
(* while the key still holds what the installer wrote.                     *)
(***************************************************************************)
RestoreList(cur, rec) ==
  IF cur = Absent \/ (cur \ rec.added = {} /\ rec.previous = Absent)
  THEN Absent
  ELSE cur \ rec.added

RestoreValue(cur, rec) == IF cur = rec.written THEN rec.previous ELSE cur

Restore(cur, rec) ==
  IF rec.added # {} THEN RestoreList(cur, rec) ELSE RestoreValue(cur, rec)

(***************************************************************************)
(* record_config: the record kept when an earlier install already edited   *)
(* the key.  While the key still held what that install wrote, the value   *)
(* before the first edit stays the one to put back.                        *)
(***************************************************************************)
StillOurs(old, rec) ==
  \/ rec.previous = old.written
  \/ old.added # {} /\ rec.previous # Absent

\* Mutant: the newest edit's record replaces the first one's.
RecordConfig_Newest(old, rec) == rec

RecordConfig(old, rec) ==
  IF old = NoRecord \/ ~StillOurs(old, rec)
  THEN rec
  ELSE [rec EXCEPT !.previous = old.previous, !.added = @ \cup old.added]

(***************************************************************************)
(* settle_key: the record left of a list key once the entries in part have *)
(* been restored.                                                          *)
(***************************************************************************)
SettleKey(rec, part) ==
  IF rec.added \subseteq part
  THEN NoRecord
  ELSE [rec EXCEPT !.added = @ \ part]
=============================================================================

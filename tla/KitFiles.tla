------------------------------ MODULE KitFiles ------------------------------
(***************************************************************************)
(* The files slate-setup writes into a harness home: the primary file, the *)
(* rules and skills of a release, the preferences of the person with their *)
(* migration from earlier layouts and names, and copies of the person's    *)
(* own rules.  A run plans from the files it reads, asks and waits for a   *)
(* confirmation, then carries the plan out; a person edits files at any    *)
(* time, and a run may fail at every change it makes.                      *)
(***************************************************************************)
EXTENDS Naturals, Sequences, SequencesExt, FiniteSets, TLC

CONSTANTS
  Kit,        \* release -> the rules, skills and preferences it ships
  Concat,     \* the harness loads one file, which holds the rules too
  Starts,     \* what a behaviour starts from, and its bounds
  Touches     \* what a person may do to a file

VARIABLES
  start,    \* the home before, the releases, answers and folders of rules to choose
            \* from, and how many runs, edits and faults are to come
  files,    \* path -> who owns the file by its signature, and its text
  folders,  \* the folders of the home
  backups,  \* copies made before a file was replaced
  ledger,   \* the manifest: files, copies of the person's rules, folders
  pending,  \* the plan that waits for its confirmation, or Idle
  late,     \* files a person changed since the plan was made
  lapsed,   \* a run ended without saving the manifest
  settled   \* the last run, while it was complete and nothing changed since

kitVars == <<start, files, folders, backups, ledger, pending, late, lapsed, settled>>

Nobody == [cmd |-> "none"]
NoLedger == <<>>
NoFile == [own |-> "none", body |-> <<>>]
ReadFile(fs, p) == IF p \in DOMAIN fs THEN fs[p] ELSE NoFile

Without(f, gone) == [x \in DOMAIN f \ gone |-> f[x]]
Having(f, x, v) == [y \in DOMAIN f \cup {x} |-> IF y = x THEN v ELSE f[y]]
\* Both functions; where both have a value, the first one's.
Over(f, g) == [x \in DOMAIN f \cup DOMAIN g |-> IF x \in DOMAIN f THEN f[x] ELSE g[x]]
FolderOf(p) == p[1]
\* A skill is a folder: its path stands for its SKILL.md and for what else the kit put
\* into it, and a longer path for a file of a person's own in it.
InSkill(q, p) == q[1] = "skills" /\ IsStrictPrefix(p, q)
Inside(fs, p) == { q \in DOMAIN fs : InSkill(q, p) }
OfTheKit(fs) == { p \in DOMAIN fs : fs[p].own = "managed" }

-----------------------------------------------------------------------------
(***************************************************************************)
(* Preferences.  The text of a file is the value under each heading, with  *)
(* Unreadable for a heading without a value line; a section of the         *)
(* person's own is a heading like any other.                               *)
(***************************************************************************)
Unreadable == "unreadable"
Blank == ""
Levels == {"on-request", "suggest", "auto"}
SettingsOf(name) == CASE name = "consult" -> {"Level", "Backend", "Codex model"}
                      [] name = "dispatch" -> {"Level", "Backend", "Model"}
                      [] OTHER -> {"Commit signing"}
Validate(name, h, v) ==
  CASE h = "Level" -> v \in Levels
    [] h = "Backend" /\ name = "consult" -> v \in {"codex", "claude"}
    [] h = "Backend" -> v \in {"codex", "opencode", "claude", "agy"}
    [] h = "Commit signing" -> v \in {"default", "no-gpg-sign", "unset"}
    [] OTHER -> TRUE

Preserved == {"Notes", "Repository overrides"}
\* Sections of the old layouts that a migration reads or drops.
Consumed(name) ==
  CASE name = "consult" -> {"Auto-call policy", "Preferred third-party advisor", "Default models"}
    [] name = "dispatch" -> {"Execution policy", "Approval mode", "Default granularity",
                             "Default backend / model / effort"}
    [] OTHER -> {}
IsLegacyFormat(name, body) ==
  /\ "Level" \notin DOMAIN body
  /\ CASE name = "consult" -> {"Auto-call policy", "Preferred third-party advisor"}
                                \cap DOMAIN body # {}
       [] name = "dispatch" -> "Execution policy" \in DOMAIN body
       [] OTHER -> FALSE

Value(body, h) == IF h \in DOMAIN body THEN body[h] ELSE Unreadable
Readable(f) == [h \in { g \in DOMAIN f : f[g] # Unreadable } |-> f[h]]

\* The settings that the values of an old file amount to; Unreadable for none.
ConsultValues(old) ==
  LET policy == Value(old, "Auto-call policy")
      advisor == Value(old, "Preferred third-party advisor")
      level == CASE advisor = "none" -> "on-request"
                 [] advisor # "none" /\ policy \in {"conservative", "preference-only"} -> "on-request"
                 [] advisor # "none" /\ policy = "proactive" -> "auto"
                 [] OTHER -> Unreadable
      backend == IF advisor \in {"codex", "claude"} THEN advisor
                 ELSE IF advisor = "none" THEN "codex" ELSE Unreadable
  IN  Readable([h \in SettingsOf("consult") |->
                  CASE h = "Level" -> level [] h = "Backend" -> backend
                    [] OTHER -> Value(old, "Default models")])
DispatchValues(old) ==
  LET policy == Value(old, "Execution policy")
      approval == Value(old, "Approval mode")
      level == CASE policy \in {"conservative", "preference-only"} -> "on-request"
                 [] policy = "proactive" -> IF approval = "auto" THEN "auto" ELSE "suggest"
                 [] OTHER -> Unreadable
  IN  Readable([h \in {"Level", "Backend"} |->
                  IF h = "Level" THEN level ELSE Value(old, "Default backend / model / effort")])
OldValues(name, old) ==
  CASE name = "consult" -> ConsultValues(old)
    [] name = "dispatch" -> DispatchValues(old)
    [] OTHER -> Readable([h \in SettingsOf(name) |-> Value(old, h)])

\* Only the sections every file has.
MigrateNotes(name, old, template) ==
  LET v == OldValues(name, old)
  IN  Over([h \in { g \in DOMAIN v : Validate(name, g, v[g]) } |-> v[h]],
           Over([h \in Preserved \cap DOMAIN old |-> old[h]], template))
Migrate(name, old, template) ==
  LET v == OldValues(name, old)
      own == DOMAIN old \ (DOMAIN template \cup Consumed(name) \cup Preserved)
  IN  Over([h \in { g \in DOMAIN v : Validate(name, g, v[g]) } |-> v[h]],
           Over([h \in (Preserved \cap DOMAIN old) \cup own |-> old[h]], template))

EarlierName(name) == IF name = "consult" THEN {"aside"} ELSE {}
PrefsDest(name) == <<"rules", name>>
PrefsNames == {"consult", "dispatch", "git", "aside"}

\* A home whose manifest was not lost, and a person who does not sign for the kit.
ASSUME StartsAssumption ==
  \A s \in Starts :
    /\ {"releases", "custom"} \subseteq DOMAIN s /\ s.releases \subseteq DOMAIN Kit
    /\ IsFiniteSet(DOMAIN s.files)
    /\ \A folder \in s.custom : IsFiniteSet(DOMAIN folder)
    /\ s.ledger = NoLedger => OfTheKit(s.files) = {}
    /\ s.ledger # NoLedger => /\ DOMAIN s.ledger = {"line", "owned", "copies", "made", "backed"}
                             /\ OfTheKit(s.files) \subseteq DOMAIN s.ledger.owned
\* A release has preferences under the names of today, its texts are no preferences,
\* and the headings of a template are the settings and what every migration keeps.
ASSUME KitAssumption ==
  \A r \in DOMAIN Kit :
    /\ IsFiniteSet(Kit[r].rules) /\ IsFiniteSet(Kit[r].skills)
    /\ Kit[r].prefs \subseteq PrefsNames \ {"aside"}
    /\ (Kit[r].rules \cup Kit[r].skills) \cap {PrefsDest(n) : n \in PrefsNames} = {}
    /\ \A n \in Kit[r].prefs : DOMAIN Kit[r].template[n] \subseteq SettingsOf(n) \cup Preserved
ASSUME TouchesAssumption == \A t \in Touches : t.do = "write" => t.file.own # "managed"

\* The manifest as it is read; a line manifest says who owns a file by its name and text.
Ledger ==
  IF ledger = NoLedger THEN [line |-> FALSE, owned |-> <<>>, copies |-> {}, made |-> {}, backed |-> FALSE]
  ELSE IF ~ledger.line THEN ledger
  ELSE [ledger EXCEPT !.owned = [p \in DOMAIN @ |-> p \in {PrefsDest(n) : n \in PrefsNames}
                                   \/ ReadFile(files, p).own = "user"]]

\* What is there of a preferences file, under its name or only under an earlier one.
PrefsState(name) ==
  LET dest == PrefsDest(name)
      earlier == { PrefsDest(n) : n \in EarlierName(name) } \cap DOMAIN files
      from == IF dest \in DOMAIN files THEN {} ELSE earlier
      at == IF from = {} THEN dest ELSE CHOOSE p \in from : TRUE
      body == ReadFile(files, at).body
  IN  [dest |-> dest, from |-> from, at |-> at, body |-> body,
       state |-> CASE at \notin DOMAIN files -> "missing"
                   [] at \in DOMAIN files /\ (IsLegacyFormat(name, body)
                        \/ (Ledger.line /\ at \in DOMAIN Ledger.owned)) -> "legacy"
                   [] OTHER -> "current"]

\* The text the answers are applied to.
BaseDoc(name, st, template) ==
  CASE st.state = "missing" -> template
    [] st.state = "current" -> Over(st.body, [h \in SettingsOf(name) |-> template[h]])
    [] OTHER -> Migrate(name, st.body, template)

-----------------------------------------------------------------------------
(***************************************************************************)
(* The changes of a plan, in their order.                                  *)
(***************************************************************************)
Write(p, f, user) == [do |-> "put", at |-> p, file |-> f, user |-> user, copy |-> FALSE]
\* The whole folder of a skill.
WriteSkill(p, f) == [Write(p, f, FALSE) EXCEPT !.do = "skill"]
\* What is there already is recorded only.
Put(p, f, user) ==
  [Write(p, f, user) EXCEPT !.do = IF ReadFile(files, p) = f THEN "note" ELSE @]
PutCopy(p, f) == [Put(p, f, TRUE) EXCEPT !.copy = TRUE]
Backup(p) == [do |-> "backup", at |-> p]
RemoveFile(p) == [do |-> "delete", at |-> p]
Drop(p) == [do |-> "drop", at |-> p]
MoveTo(p, q) == [do |-> "move", at |-> p, to |-> q]
Keep(p) == [do |-> "keep", at |-> p]

\* preferences: the file is moved to its name, then written.
PlanPrefsOf(name, st, template, answers, migrate) ==
  LET body == Over(answers, BaseDoc(name, st, template))
      f == [own |-> "user", body |-> body]
      move == IF st.from = {} THEN <<>> ELSE << MoveTo(st.at, st.dest) >>
  IN  CASE st.state = "legacy" /\ ~migrate -> move \o << Keep(st.dest) >>
        [] st.state = "legacy" /\ migrate -> move \o << Backup(st.dest), Write(st.dest, f, TRUE) >>
        [] st.state = "current" /\ body = st.body -> move \o << Keep(st.dest) >>
        [] OTHER -> move \o << Write(st.dest, f, TRUE) >>
PlanPrefs(name, template, answers, migrate) ==
  PlanPrefsOf(name, PrefsState(name), template, answers, migrate)
\* An answer needs a value line to go to, in the text it is applied to.
Answerable(name, template, answers, migrate) ==
  LET st == PrefsState(name)
  IN  \/ st.state = "legacy" /\ ~migrate
      \/ \A h \in DOMAIN answers : Value(BaseDoc(name, st, template), h) # Unreadable

\* Text of the kit: what is not its own is backed up first.
DecideText(p, f) ==
  IF p \in DOMAIN files /\ files[p].own # "managed"
  THEN << Backup(p), Put(p, f, FALSE) >> ELSE << Put(p, f, FALSE) >>
DecideRule(p, f) == IF ReadFile(files, p).own = "user" THEN <<>> ELSE DecideText(p, f)
\* A folder whose SKILL.md is another's, or is not there, is left as it is.
DecideSkill(p, f) ==
  IF ReadFile(files, p).own = "managed" \/ (p \notin DOMAIN files /\ Inside(files, p) = {})
  THEN << WriteSkill(p, f) >> ELSE <<>>

KitText(r, p, more) ==
  [own |-> "managed", body |-> [release |-> r, of |-> p, more |-> more]]
Primary == <<"top", "primary">>

\* The person's rules: text by destination, for those that are not refused.
Reserved(r) == Kit[r].rules \cup { PrefsDest(n) : n \in Kit[r].prefs }
CustomRules(r, folder) ==
  LET copyTo(p) == \/ p \notin DOMAIN files
                   \/ files[p] = folder[p] /\ files[p].own # "managed"
                   \/ files[p].own = "user" /\ p \in Ledger.copies
  IN  [p \in { q \in DOMAIN folder \ Reserved(r) : copyTo(q) } |-> folder[p]]
\* Only those whose copies are there already.
EffectiveOnDisk(r, folder) ==
  { <<p, files[p]>> : p \in { q \in DOMAIN folder \cup Ledger.copies :
                               ReadFile(files, q).own = "user" } }
\* The rules that belong in the one file a harness loads.
EffectiveRules(r, folder) ==
  LET prior == { p \in Ledger.copies \ DOMAIN folder : ReadFile(files, p).own = "user" }
      now == CustomRules(r, folder)
  IN  { <<p, files[p]>> : p \in prior } \cup { <<p, now[p]>> : p \in DOMAIN now }

StaleFiles(r) ==
  LET shipped == {Primary} \cup Kit[r].rules \cup Kit[r].skills
      prefs == UNION { {PrefsState(n).dest} \cup PrefsState(n).from : n \in Kit[r].prefs }
  IN  { p \in DOMAIN Ledger.owned \ (shipped \cup prefs) :
          ~Ledger.owned[p] /\ ReadFile(files, p).own = "managed" }

\* What is planned for each of some files, one after the other.
Each(plan) ==
  LET order == SetToSeq(DOMAIN plan)
  IN  FlattenSeq([i \in 1..Cardinality(DOMAIN plan) |-> plan[order[i]]])
AnswersFor(c, n) == IF n \in DOMAIN c.answers THEN c.answers[n] ELSE <<>>
PlanInstall(c) ==
  LET r == c.release
      own == IF Concat THEN EffectiveRules(r, c.folder) ELSE {}
      all == c.cmd = "install"
      stale == [p \in StaleFiles(r) |-> << Drop(p) >>]
      rules == [p \in Kit[r].rules |-> DecideRule(p, KitText(r, p, {}))]
      skills == [p \in Kit[r].skills |-> DecideSkill(p, KitText(r, p, {}))]
      prefs == [n \in Kit[r].prefs |->
                  PlanPrefs(n, Kit[r].template[n], AnswersFor(c, n), c.migrate)]
      custom == CustomRules(r, c.folder)
      copies == [p \in DOMAIN custom |-> << PutCopy(p, custom[p]) >>]
  IN  (IF all THEN Each(stale) ELSE <<>>)
      \o (IF all \/ Concat THEN DecideText(Primary, KitText(r, Primary, own)) ELSE <<>>)
      \o (IF all THEN Each(rules) \o Each(skills) ELSE <<>>)
      \o Each(prefs) \o Each(copies)
Deletions(paths) == [i \in 1..Cardinality(paths) |-> RemoveFile(SetToSeq(paths)[i])]
OnLedger(own) == { p \in DOMAIN Ledger.owned \cap DOMAIN files : files[p].own = own }
PlanUninstall(c) ==
  Deletions(OnLedger("managed")) \o (IF c.owned THEN Deletions(OnLedger("user")) ELSE <<>>)

\* The folders a run may create that are not there yet.
MissingFolders(c) ==
  ({"top", "rules"} \cup (IF c.cmd = "install" /\ Kit[c.release].skills # {}
                         THEN {"skills"} ELSE {})) \ folders

-----------------------------------------------------------------------------
(***************************************************************************)
(* Carrying out a change, on the files, the folders, the backups and the   *)
(* manifest in memory.  A change whose file has gone fails.  A skill is    *)
(* replaced and removed with its folder, whatever else is in there.        *)
(***************************************************************************)
Doable(st, ch) == \/ ch.do \in {"put", "skill", "note", "drop", "keep"}
                  \/ ch.at \in DOMAIN st.files
                  \/ ch.do = "delete" /\ Inside(st.files, ch.at) # {}
Perform(st, ch) ==
  IF ~(st.ok /\ Doable(st, ch)) THEN [st EXCEPT !.ok = FALSE]
  ELSE LET p == ch.at
           there == p \in DOMAIN st.files
           removed == {p} \cup Inside(st.files, p)
           note(q, user) == [st.ledger EXCEPT !.owned = Having(@, q, user)]
           noted == [note(p, ch.user) EXCEPT !.copies = IF ch.copy THEN @ \cup {p} ELSE @]
       IN  CASE ch.do = "put" ->
                  [st EXCEPT !.files = Having(@, p, ch.file),
                             !.folders = @ \cup {FolderOf(p)}, !.ledger = noted]
             [] ch.do = "skill" ->
                  [st EXCEPT !.files = Having(Without(@, removed), p, ch.file),
                             !.folders = @ \cup {FolderOf(p)}, !.ledger = noted]
             [] ch.do = "note" -> [st EXCEPT !.ledger = noted]
             [] ch.do = "backup" -> [st EXCEPT !.backups = @ \cup {st.files[p]}, !.ledger.backed = TRUE]
             [] ch.do = "move" ->
                  [st EXCEPT !.files = Having(Without(@, {p}), ch.to, st.files[p]),
                             !.ledger.owned = Having(Without(@, {p}), ch.to, TRUE)]
             [] ch.do = "keep" -> IF there THEN [st EXCEPT !.ledger = note(p, TRUE)] ELSE st
             [] ch.do = "drop" -> [st EXCEPT !.files = Without(@, removed),
                                             !.ledger.owned = Without(@, {p})]
             [] OTHER -> [st EXCEPT !.files = Without(@, removed)]

\* A manifest that begins anew.
FreshLedger == [line |-> FALSE, owned |-> <<>>, copies |-> {}, made |-> {}, backed |-> FALSE]
LedgerBase == [Ledger EXCEPT !.line = FALSE]
AsFound == [ok |-> TRUE, files |-> files, folders |-> folders, backups |-> backups,
            ledger |-> LedgerBase]
\* After the first n of the changes.
Carry(changes, n) ==
  LET after[k \in 0..n] == IF k = 0 THEN AsFound ELSE Perform(after[k - 1], changes[k])
  IN  after[n]
NothingRecorded(l) == l.owned = <<>> /\ l.copies = {} /\ l.made = {} /\ ~l.backed
\* What the manifest says when the run ends.
Recorded(st, missing) ==
  [st.ledger EXCEPT !.copies = @ \cap DOMAIN st.files,
                    !.made = @ \cup (missing \cap st.folders)]

Spend(field, n) == start' = [start EXCEPT ![field] = @ - n]

\* A run reads the home, asks, and shows its plan.
ShowPlan(c, changes, missing) ==
  /\ pending = Nobody /\ start.runs > 0 /\ Spend("runs", 1)
  /\ pending' = [call |-> c, cmd |-> c.cmd, changes |-> changes, missing |-> missing]
  /\ late' = {}
  /\ UNCHANGED <<files, folders, backups, ledger, lapsed, settled>>

PlanRun ==
  \E cmd \in {"install", "configure"}, r \in start.releases, a \in start.answers,
     m \in BOOLEAN, d \in start.custom :
    LET c == [cmd |-> cmd, release |-> r, answers |-> a, migrate |-> m, folder |-> d]
    IN  /\ \A n \in Kit[r].prefs : Answerable(n, Kit[r].template[n], AnswersFor(c, n), m)
        /\ ShowPlan(c, PlanInstall(c), MissingFolders(c))

PlanRemoval ==
  \E owned \in BOOLEAN :
    LET c == [cmd |-> "uninstall", owned |-> owned]
    IN  ShowPlan(c, PlanUninstall(c), {})

\* The person does not confirm, or the run was a dry one.
Cancel ==
  /\ pending # Nobody /\ pending' = Nobody
  /\ UNCHANGED <<start, files, folders, backups, ledger, late, lapsed, settled>>

\* The run stops after n changes, by a fault unless they were all; saved: it wrote
\* the manifest.
InstallRun ==
  /\ pending # Nobody /\ pending.cmd # "uninstall" /\ pending' = Nobody
  /\ \E n \in 0..Len(pending.changes), saved \in BOOLEAN :
       LET st == Carry(pending.changes, n)
           l == Recorded(st, pending.missing)
           whole == n = Len(pending.changes)
           fault == ~whole \/ ~saved
       IN  /\ fault => start.faults > 0
           /\ Spend("faults", IF fault THEN 1 ELSE 0)
           /\ files' = st.files /\ folders' = st.folders /\ backups' = st.backups
           /\ IF ~saved THEN ledger' = ledger /\ lapsed' = TRUE
              ELSE /\ ledger' = IF ledger = NoLedger /\ NothingRecorded(l) THEN NoLedger ELSE l
                   /\ lapsed' = lapsed
           /\ settled' = IF whole /\ saved /\ st.ok /\ late = {} THEN pending.call ELSE Nobody
  /\ late' = {}

\* The manifest goes last, and then the folders that are empty.
UninstallRun ==
  /\ pending # Nobody /\ pending.cmd = "uninstall" /\ pending' = Nobody
  /\ \E n \in 0..Len(pending.changes), removed \in BOOLEAN :
       LET st == Carry(pending.changes, n)
           whole == n = Len(pending.changes) /\ st.ok /\ removed
           emptied == { d \in Ledger.made : ~\E p \in DOMAIN st.files : FolderOf(p) = d }
           fault == n # Len(pending.changes) \/ ~removed
       IN  /\ fault => start.faults > 0
           /\ Spend("faults", IF fault THEN 1 ELSE 0)
           /\ files' = st.files
           /\ ledger' = IF whole THEN NoLedger ELSE ledger
           /\ folders' = IF whole THEN folders \ emptied ELSE folders
  /\ late' = {} /\ settled' = Nobody /\ UNCHANGED <<backups, lapsed>>

\* A person writes, edits or deletes a file.
Touch ==
  /\ start.touches > 0 /\ Spend("touches", 1)
  /\ \E t \in Touches :
       /\ t.do # "write" => t.at \in DOMAIN files
       /\ CASE t.do = "write" -> files' = Having(files, t.at, t.file)
            [] t.do = "set" -> files' = [files EXCEPT ![t.at] =
                 [own |-> @.own, body |-> Having(@.body, t.heading, t.value)]]
            [] t.do = "disown" -> files' = [files EXCEPT ![t.at] =
                 [own |-> "none", body |-> @.body]]
            [] OTHER -> files' = Without(files, {t.at})
       /\ folders' = folders \cup {FolderOf(t.at)}
       /\ late' = late \cup {t.at}
  /\ settled' = Nobody /\ UNCHANGED <<backups, ledger, pending, lapsed>>

KitInit ==
  /\ start \in Starts
  /\ files = start.files /\ ledger = start.ledger
  /\ folders = { FolderOf(p) : p \in DOMAIN files }
  /\ backups = {} /\ pending = Nobody /\ late = {} /\ lapsed = FALSE /\ settled = Nobody

KitNext == PlanRun \/ PlanRemoval \/ Cancel \/ InstallRun \/ UninstallRun \/ Touch
KitSpec == KitInit /\ [][KitNext]_kitVars

-----------------------------------------------------------------------------
(***************************************************************************)
(* What a person wrote into a file that is not the kit's is still there    *)
(* after a run, however it ended, or in a backup; in a preferences file,   *)
(* under its name, unless this run was given another value for it, and a   *)
(* migration keeps the sections of the person's own and the notes in the   *)
(* file itself.  Excepted are files changed after the plan was made, which *)
(* the run does not read again; copies of the person's rules, which an     *)
(* install makes follow their folder; files signed as the person's in an   *)
(* uninstall that was told to remove them; and files in the folder of a    *)
(* skill that may go itself, which go with it, without a backup or a word. *)
(***************************************************************************)
NewPlace(p) == IF \E n \in PrefsNames : PrefsDest("aside") = p /\ p \notin DOMAIN files'
               THEN PrefsDest("consult") ELSE p
OfTheLayouts ==
  UNION { SettingsOf(n) \cup Consumed(n) : n \in PrefsNames }
Chosen(p) == pending.cmd = "uninstall" /\ pending.call.owned /\ p \in OnLedger("user")
\* The run may replace or remove it.
Given(p) == p \in late \/ ReadFile(files, p).own = "managed" \/ Chosen(p)
GoesWithSkill(p) ==
  pending.cmd # "configure" /\ \E q \in DOMAIN files \cup late : Given(q) /\ InSkill(p, q)
RunKeepsTheirs ==
  pending # Nobody /\ pending' = Nobody =>
    \A p \in DOMAIN files \ late : \A h \in DOMAIN files[p].body :
      LET q == NewPlace(p)
          still == Value(ReadFile(files', q).body, h) = files[p].body[h]
          answered == \E n \in PrefsNames : q = PrefsDest(n) /\ pending.cmd # "uninstall"
                        /\ h \in DOMAIN AnswersFor(pending.call, n)
          excepted == \/ Given(p) \/ GoesWithSkill(p)
                      \/ pending.cmd # "uninstall" /\ p \in Ledger.copies
      IN  \/ excepted \/ answered \/ still
          \/ files[p] \in backups' /\ (p \notin {PrefsDest(n) : n \in PrefsNames}
                                       \/ h \in OfTheLayouts)
TheirWorkKept == [][RunKeepsTheirs]_kitVars

(***************************************************************************)
(* Once the kit is uninstalled nothing of it is in the home: no file with  *)
(* its signature, whatever releases were installed, in part or after each  *)
(* other.  Not if a run ended without saving the manifest, which the       *)
(* report says.                                                            *)
(***************************************************************************)
NothingLeftBehind ==
  ledger = NoLedger /\ ~lapsed /\ pending = Nobody =>
    OfTheKit(files) = {}

(***************************************************************************)
(* A run that was complete is "safe to repeat": planned again with the     *)
(* same choices, it backs up nothing and leaves every file as it is.  Not  *)
(* when a rule of the person's was refused for a file of the kit's that    *)
(* the same run then removed: it is copied by the next.  Nor when the      *)
(* migration was declined: what a line manifest called old is current to   *)
(* the next run, which has no line manifest.                               *)
(***************************************************************************)
Repeatable ==
  /\ settled # Nobody /\ settled.cmd = "install" /\ settled.migrate
  /\ DOMAIN settled.folder \ Reserved(settled.release) \subseteq DOMAIN files
  => \E changes \in { PlanInstall(settled) } :
     \E st \in { Carry(changes, Len(changes)) } :
       /\ st.ok /\ st.files = files
       /\ \A i \in DOMAIN changes : changes[i].do # "backup"
=============================================================================

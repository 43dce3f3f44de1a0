------------------------------- MODULE Setup -------------------------------
(***************************************************************************)
(* slate-setup: runs that install a kit into a harness home, register the  *)
(* servers with several harnesses at once (mcp), retire the servers a      *)
(* release no longer ships, and uninstall.  A manifest per owner, a kit or *)
(* mcp in one home, records what was done; binaries are shared by all.  A  *)
(* step of a run is one phase of the program; between the phases people    *)
(* edit the configuration and the process may die.                         *)
(***************************************************************************)
EXTENDS Naturals, FiniteSets, ConfigKeys

CONSTANTS
    Homes,        \* the harness homes
    Kits,         \* the homes that have a kit besides the mcp servers
    Servers,      \* the servers any release ships
    Rank,         \* server -> its place in the order they are registered in
    Palette,      \* the server whose read-only tools are read from its binary
    Guard,        \* the guard's binary
    GuardUsers,   \* the servers that start backends through the guard
    Releases,
    Ships,        \* release -> the servers it ships
    ShipsGuard,   \* the releases that ship the guard
    Models,       \* subagent models a person may choose
    Prefs,        \* their preferences: Models, Absent when blank, "leave"
    OwnModels,    \* home -> models a person may write into its configuration
    OwnEntries,   \* home -> entries a person may write into its approvals
    Plugin,       \* the registration of the Kimi plugin
    NoManifest,
    Idle,         \* no run is in progress
    Scopes,       \* bounds: the homes in use with their harness, and how many
                  \* runs, edits by hand and faults there are at most
    Faults        \* what may go wrong: "step", "cli", "file", "die"

Owners == (Kits \X {"kit"}) \cup (Homes \X {"mcp"})
Home(o) == o[1]
Binaries == Servers \cup {Guard}

ASSUME SetupAssumption ==
    /\ Kits \subseteq Homes /\ Palette \in Servers /\ GuardUsers \subseteq Servers
    /\ Guard \notin Servers /\ Plugin \notin Servers
    /\ Ships \in [Releases -> SUBSET Servers] /\ ShipsGuard \subseteq Releases
    /\ \A s \in Scopes : {s.runs, s.edits, s.faults} \subseteq Nat /\ DOMAIN s.harness \subseteq Homes
    /\ Prefs \subseteq Models \cup {Absent, "leave"}
    /\ \A h \in Homes : Absent \notin Models \cup OwnModels[h]
    /\ Faults \subseteq {"step", "cli", "file", "die"}

VARIABLES
    harness,    \* the homes in use -> "claude", "codex", "kimi" or "agy"
    model,      \* home -> the subagent model the configuration names
    allow,      \* home -> the approvals in the configuration
    cli,        \* home -> the servers registered with the harness
    bins,       \* the binaries in the binary folder
    manifests,  \* owner -> its manifest
    run,        \* the run in progress
    runs, edits, faults,  \* how many of them are still to come
    mine,       \* home -> what a person wrote: the model and the entries
    handed,     \* home -> servers the report asks to be removed by hand
    kept,       \* home -> history: servers the harness refused to remove at an
                \* uninstall, of which nothing is reported
    torn        \* owners a run ended on without recording what it did

keys == <<model, allow>>
InUse == DOMAIN harness
vars == <<harness, model, allow, cli, bins, manifests, run, runs, edits, faults, mine, handed, kept,
          torn>>

-----------------------------------------------------------------------------
(***************************************************************************)
(* What a manifest records, what a retirement plans, and what a run keeps  *)
(* between its phases, for the owners w.  An edited key is recorded with   *)
(* the value found, the value written and, for a list, what was added.     *)
(***************************************************************************)
Named == Servers \cup UNION {OwnEntries[h] : h \in Homes}
ModelValues  == Models \cup Prefs \cup {Absent} \cup UNION {OwnModels[h] : h \in Homes}
ModelRecords == [previous : ModelValues, written : ModelValues, added : {{}}]
AllowRecords == [previous : {Absent} \cup SUBSET Named, written : SUBSET Named,
                 added : (SUBSET Named) \ {{}}]
Manifest == [regs : SUBSET (Servers \cup {Plugin}), bins : SUBSET Binaries,
             model : {NoRecord} \cup ModelRecords, allow : {NoRecord} \cup AllowRecords]
Plans == [names : SUBSET Servers, registered : SUBSET Servers, plugin : SUBSET Servers,
          binary : UNION {[w -> {"none", "missing", "keep", "remove"}] : w \in SUBSET Servers},
          part : SUBSET Named]
Applications(w) ==
  [cmd : {"kit", "mcp"}, own : {w}, todo : SUBSET w, at : w,
   phase : {"retire", "binaries", "fetch", "serve", "save"}, want : SUBSET Servers,
   got : SUBSET Binaries, pref : Prefs \cup {"leave"}, plan : {Idle} \cup [w -> Plans],
   mf : [w -> Manifest], gone : {Idle} \cup [w -> SUBSET Servers]]
Removals(w) ==
  [cmd : {"uninstall", "drop"}, own : {w}, todo : SUBSET w, at : w,
   phase : {"unregister", "restore", "delete"}, mf : [w -> Manifest],
   want : [w -> SUBSET Servers], doomed : SUBSET Binaries, restored : BOOLEAN]

\* The constants that stand for "there is none" are none of the values.
ASSUME NoneAssumption ==
    /\ \A S \in SUBSET Named : S # Absent
    /\ NoRecord \notin ModelRecords \cup AllowRecords
    /\ NoManifest \notin Manifest
    /\ \A w \in SUBSET Owners : Idle \notin Applications(w) \cup Removals(w)

-----------------------------------------------------------------------------
NewManifest == [regs |-> {}, bins |-> {}, model |-> NoRecord, allow |-> NoRecord]

Prior(o) == IF manifests[o] = NoManifest THEN NewManifest ELSE manifests[o]
Listing(m) == IF m = NoManifest THEN {} ELSE m.bins
Added(rec) == IF rec = NoRecord THEN {} ELSE rec.added

(***************************************************************************)
(* Retirement: what a manifest records of servers outside keep.            *)
(***************************************************************************)
OwnsPlugin(o) == harness[Home(o)] = "kimi" /\ Plugin \in Prior(o).regs
InPlugin(o)   == IF OwnsPlugin(o) THEN cli[Home(o)] ELSE {}

RetiredNames(o, keep) ==
  ((Prior(o).regs \ {Plugin}) \cup InPlugin(o) \cup (Prior(o).bins \ {Guard})) \ keep

\* The binaries whose listing in a manifest keeps b.
KeepersOf(b) == {b} \cup (IF b = Guard THEN GuardUsers ELSE {})

\* Another manifest lists b or, for the guard, a server that needs it.
ListedByOthers(o, siblings, b) ==
  \E p \in Owners \ ({o} \cup siblings) : Listing(manifests[p]) \cap KeepersOf(b) # {}

BinaryPlan(o, siblings, s) ==
  CASE s \notin Prior(o).bins         -> "none"
    [] s \in Prior(o).bins \ bins     -> "missing"
    [] OTHER -> IF ListedByOthers(o, siblings, s) THEN "keep" ELSE "remove"

RetirePlan(o, siblings, keep) ==
  LET names == RetiredNames(o, keep) IN
  [names      |-> names,
   registered |-> names \cap Prior(o).regs,
   plugin     |-> names \cap InPlugin(o),
   binary     |-> [s \in names |-> BinaryPlan(o, siblings, s)],
   part       |-> Added(Prior(o).allow) \cap names]

(***************************************************************************)
(* Starting a run.  What is planned is planned here, from the manifests    *)
(* and the files as they are before the person confirms.                   *)
(***************************************************************************)
Begin(r) ==
  /\ run = Idle
  /\ runs > 0
  /\ runs' = runs - 1
  /\ run' = r
  /\ UNCHANGED <<harness, keys, cli, bins, manifests, edits, faults, mine, handed, kept, torn>>

\* The binaries of a release: its servers and, when it ships it, the guard.
Shipped(rel) == Ships[rel] \cup (IF rel \in ShipsGuard THEN {Guard} ELSE {})

\* pref: a model to set, Absent for a blank preference, or "leave" for none.
Apply(cmd, own, rel, want, got, pref) ==
  [cmd |-> cmd, own |-> own, todo |-> own, at |-> CHOOSE o \in own : TRUE,
   phase |-> "retire", want |-> want, got |-> got, pref |-> pref,
   plan |-> [o \in own |-> RetirePlan(o, own, Ships[rel])],
   mf   |-> [o \in own |-> Prior(o)],
   gone |-> [o \in own |-> {}]]

\* An install, one that skips the binaries and so the servers, a configure.
StartKit(o, rel, pref) ==
  \/ Begin(Apply("kit", {o}, rel, Ships[rel], Shipped(rel), pref))
  \/ Begin(Apply("kit", {o}, rel, {}, {}, pref))
  \/ Begin(Apply("kit", {o}, rel, Ships[rel], {}, pref))

StartMcp(hs, rel) ==
  \/ Begin(Apply("mcp", hs \X {"mcp"}, rel, Ships[rel], Shipped(rel), "leave"))
  \/ Begin(Apply("mcp", hs \X {"mcp"}, rel, Ships[rel], {}, "leave"))

Unregistering(o, rel) ==
  LET regs == Prior(o).regs \ {Plugin}
  IN  IF regs = {} THEN Ships[rel] ELSE regs

Removal(cmd, own, rel, doomed) ==
  [cmd |-> cmd, own |-> own, todo |-> own, at |-> CHOOSE o \in own : TRUE,
   phase |-> "unregister", mf |-> [o \in own |-> Prior(o)],
   want |-> [o \in own |-> Unregistering(o, rel)],
   doomed |-> doomed, restored |-> TRUE]

StartUninstall(o, rel) ==
  Begin(Removal("uninstall", {o}, rel,
                {b \in Prior(o).bins \cap bins : ~ListedByOthers(o, {}, b)}))

StartMcpUninstall(hs, rel) ==
  Begin(Removal("drop", hs \X {"mcp"}, rel, {}))

(***************************************************************************)
(* How a run goes on and how it ends.  A kit's run saves its manifest at   *)
(* the end, also when a step failed; mcp stops at a failure, and what it   *)
(* did since the last save is recorded nowhere.                            *)
(***************************************************************************)
Applying == run.cmd \in {"kit", "mcp"}
Unsaved  == IF Applying THEN {o \in run.own : run.mf[o] # Prior(o)} ELSE {}

Through(r, o, next) ==
  IF r.todo = {o}
  THEN [r EXCEPT !.phase = next, !.todo = r.own]
  ELSE [r EXCEPT !.todo = @ \ {o}]

\* What may go wrong now, and the account of what did.
May(f) == f \in Faults /\ faults > 0
Account(wrong) == faults' = IF wrong THEN faults - 1 ELSE faults
Reads  == IF May("file") THEN BOOLEAN ELSE {TRUE}

Abort(unrecorded) ==
  IF run.cmd = "kit"
  THEN /\ run' = [run EXCEPT !.phase = "save"]
       /\ torn' = torn \cup unrecorded
  ELSE /\ run' = Idle
       /\ torn' = torn \cup unrecorded \cup Unsaved

\* A step fails before it did anything.
StepFails ==
  /\ May("step")
  /\ Account(TRUE)
  /\ run # Idle
  /\ run.phase # "save"
  /\ Abort({})
  /\ UNCHANGED <<harness, keys, cli, bins, manifests, runs, edits, mine, handed, kept>>

\* The process ends, or cannot write the manifest.
Dies ==
  /\ May("die")
  /\ Account(TRUE)
  /\ run # Idle
  /\ run' = Idle
  /\ torn' = torn \cup Unsaved
  /\ UNCHANGED <<harness, keys, cli, bins, manifests, runs, edits, mine, handed, kept>>

(***************************************************************************)
(* What the harness does when asked to remove the servers ss: nothing when *)
(* its CLI is missing; otherwise each is removed or refused, and one that  *)
(* is not registered is always refused.                                    *)
(***************************************************************************)
RemovalOutcomes(h, ss) ==
  LET known == ss \cap cli[h] IN
  {[removed |-> known, refused |-> ss \ known, manual |-> {}, wrong |-> FALSE]} \cup
  (IF May("cli") /\ ss # {}
   THEN {[removed |-> {}, refused |-> {}, manual |-> ss, wrong |-> TRUE]} \cup
        {[removed |-> known \ no, refused |-> (ss \ known) \cup no,
          manual |-> {}, wrong |-> TRUE] : no \in (SUBSET known) \ {{}}}
   ELSE {})

\* With Codex the approvals are part of the server's own table and go with it.
WithoutTables(h, cur, ss) ==
  IF harness[h] = "codex" /\ cur # Absent THEN cur \ ss ELSE cur

Forget(h, ss) ==
  IF harness[h] = "codex" THEN [mine EXCEPT ![h].items = @ \ ss] ELSE mine

(***************************************************************************)
(* apply_servers: the recorded approvals of the retired servers are        *)
(* restored, then the servers are unregistered, and the registrations of   *)
(* those that are gone are dropped.  A refused removal counts as gone.     *)
(* Without the file nothing is restored, without the plugin none leaves it.*)
(***************************************************************************)
OrNone(fault, S) == {S} \cup (IF May(fault) THEN {{}} ELSE {})

Reverted(cur, rec, part) ==
  IF part = {} THEN cur ELSE Restore(cur, [rec EXCEPT !.added = part])
Settled(rec, part) == IF part = {} THEN rec ELSE SettleKey(rec, part)

\* What the harness removed, the approvals restored, the servers unplugged.
RetireWith(o, out, part, unplugged) ==
  LET h == Home(o)
      p == run.plan[o]
      m == run.mf[o]
      gone == (p.names \ (p.registered \cup p.plugin))
                \cup out.removed \cup out.refused \cup unplugged
      m1 == [m EXCEPT !.allow = Settled(@, part), !.regs = @ \ gone]
  IN /\ allow' = [allow EXCEPT ![h] =
                    WithoutTables(h, Reverted(@, m.allow, part), out.removed)]
     /\ mine' = Forget(h, out.removed)
     /\ cli' = [cli EXCEPT ![h] = @ \ (out.removed \cup unplugged)]
     /\ handed' = [handed EXCEPT ![h] = @ \cup out.manual \cup (out.refused \cap cli[h])]
     /\ run' = Through([run EXCEPT !.mf[o] = m1, !.gone[o] = gone], o, "binaries")
     /\ manifests' = IF run.cmd = "mcp" /\ p.names # {}
                     THEN [manifests EXCEPT ![o] = m1] ELSE manifests
     /\ Account(part # p.part \/ unplugged # p.plugin \/ out.wrong)
     /\ UNCHANGED <<harness, model, bins, runs, edits, kept, torn>>

RetireServers(o) ==
  /\ run.phase = "retire"
  /\ o \in run.todo
  /\ \E out \in RemovalOutcomes(Home(o), run.plan[o].registered),
        part \in OrNone("file", run.plan[o].part),
        unplugged \in OrNone("step", run.plan[o].plugin) :
          RetireWith(o, out, part, unplugged)

(***************************************************************************)
(* apply_binaries: the binaries of the servers that are gone go, except    *)
(* one that another manifest lists or that another home of the run still   *)
(* needs.  A file that cannot be removed stays recorded.                   *)
(***************************************************************************)
Needed(o) == {s \in run.plan[o].names \ run.gone[o] : run.plan[o].binary[s] # "none"}
\* Mutant: the other homes of the run do not count.
Held_None(o) == {}
Held(o)   == UNION {Needed(p) : p \in run.own \ {o}}

Gone(o)     == run.plan[o].names \cap run.gone[o]
Doomed(o)   == {s \in Gone(o) : run.plan[o].binary[s] = "remove" /\ s \notin Held(o)}
Released(o) == {s \in Gone(o) : run.plan[o].binary[s] \in {"keep", "missing"}}

RetireBinaries(o) ==
  /\ run.phase = "binaries"
  /\ o \in run.todo
  /\ \E stays \in SUBSET (Doomed(o) \cap bins) :
      LET removed == Doomed(o) \ stays
          m1 == [run.mf[o] EXCEPT !.bins = @ \ (Released(o) \cup removed)]
      IN /\ stays = {} \/ May("step")
         /\ Account(stays # {})
         /\ bins' = bins \ removed
         /\ run' = Through([run EXCEPT !.mf[o] = m1], o, "fetch")
         /\ manifests' = IF run.cmd = "mcp" /\ run.plan[o].names # {}
                         THEN [manifests EXCEPT ![o] = m1] ELSE manifests
         /\ UNCHANGED <<harness, keys, cli, runs, edits, mine, handed, kept, torn>>

(***************************************************************************)
(* binaries::install puts the binaries in place one by one.  A kit records *)
(* them at once, mcp with each home's registration.                        *)
(***************************************************************************)
Fetch ==
  /\ run.phase = "fetch"
  /\ bins' = bins \cup run.got
  /\ run' = [run EXCEPT !.phase = "serve", !.plan = Idle, !.gone = Idle,
       !.mf = IF run.cmd = "mcp" THEN @
              ELSE [o \in run.own |-> [run.mf[o] EXCEPT !.bins = @ \cup run.got]]]
  /\ UNCHANGED <<harness, keys, cli, manifests, runs, edits, faults, mine, handed, kept, torn>>

\* Some of the files are replaced when one cannot be; none of them is recorded.
FetchStops ==
  /\ May("step")
  /\ Account(TRUE)
  /\ run.phase = "fetch"
  /\ \E part \in (SUBSET run.got) \ {{}} : bins' = bins \cup part
  /\ Abort({})
  /\ UNCHANGED <<harness, keys, cli, manifests, runs, edits, mine, handed, kept>>

(***************************************************************************)
(* Registration.  The CLIs remove a server and add it again, one after the *)
(* other, and stop at the first that cannot be added; Kimi's plugin is     *)
(* written as a whole.                                                     *)
(***************************************************************************)
Before(f, want) == {s \in want : Rank[s] < Rank[f]}

AllDone(h, want) ==
  IF harness[h] = "kimi"
  THEN [done |-> want, cli |-> want, regs |-> {Plugin}, wrong |-> FALSE]
  ELSE [done |-> want, cli |-> cli[h] \cup want, regs |-> want, wrong |-> FALSE]

\* Mutant: a registration that stopped is not reported as partly done.
StoppedAt_Nothing(h, want, f) ==
  {[done |-> {}, cli |-> cli[h] \cup Before(f, want), regs |-> {}, wrong |-> TRUE]}

StoppedAt(h, want, f) ==
  {[done |-> Before(f, want), cli |-> left \cup Before(f, want),
    regs |-> Before(f, want), wrong |-> TRUE] :
      left \in {cli[h], cli[h] \ {f}}}

RegisterOutcomes(h, want) ==
  LET nothing == [done |-> {}, cli |-> cli[h], regs |-> {}, wrong |-> want # {}]
  IN  IF want = {} THEN {nothing}
      ELSE {AllDone(h, want)} \cup
           (IF May("cli") /\ harness[h] # "kimi"
            THEN {nothing} \cup UNION {StoppedAt(h, want, f) : f \in want}
            ELSE {})

(***************************************************************************)
(* The edits of the configuration: the approvals of the servers registered *)
(* (palette's only when its tools could be read), and the subagent model.  *)
(***************************************************************************)
Approvals(h, want, reg, tools) ==
  LET served == {s \in want : s # Palette \/ tools}
  IN  CASE harness[h] \in {"claude", "agy"} -> served \cap reg.done
        [] harness[h] = "codex" -> served \cap reg.cli
        [] OTHER -> {}

EditAllow(rec, cur, items) ==
  IF items \subseteq Entries(cur)
  THEN [value |-> cur, rec |-> rec]
  ELSE [value |-> Entries(cur) \cup items, rec |-> RecordConfig(rec, ListRecord(cur, items))]

EditModel(h, rec, cur, pref) ==
  IF \/ pref = "leave" \/ harness[h] = "agy"
     \/ (pref = Absent /\ rec = NoRecord) \/ (pref # Absent /\ cur = pref)
  THEN [value |-> cur, rec |-> rec]
  ELSE IF pref = Absent
       THEN [value |-> Restore(cur, rec), rec |-> NoRecord]
       ELSE [value |-> pref, rec |-> RecordConfig(rec, ValueRecord(cur, pref))]

(***************************************************************************)
(* serve: the servers whose binary is there are registered, then the       *)
(* configuration is edited, unless it cannot be read.                      *)
(***************************************************************************)
Wanted == run.want \cap bins

\* What the registration did; whether palette's tools and the file were read.
ServeWith(o, reg, tools, reads) ==
  LET h == Home(o)
      m == [run.mf[o] EXCEPT !.regs = @ \cup reg.regs, !.bins = @ \cup run.got]
      touched == reg.done \cup (cli[h] \ reg.cli)
      cur == WithoutTables(h, allow[h], touched)
      a == EditAllow(m.allow, cur, Approvals(h, Wanted, reg, tools))
      v == EditModel(h, m.model, model[h], run.pref)
  IN /\ tools => Palette \in Wanted
     /\ Account(reg.wrong \/ ~reads)
     /\ cli' = [cli EXCEPT ![h] = reg.cli]
     /\ handed' = [handed EXCEPT ![h] = @ \ reg.done]
     /\ kept' = [kept EXCEPT ![h] = @ \ reg.done]
     /\ mine' = Forget(h, touched)
     /\ allow' = [allow EXCEPT ![h] = IF reads THEN a.value ELSE cur]
     /\ model' = [model EXCEPT ![h] = IF reads THEN v.value ELSE @]
     /\ run' = [run EXCEPT !.phase = "save", !.at = o,
                  !.mf[o] = IF reads THEN [m EXCEPT !.allow = a.rec, !.model = v.rec]
                                     ELSE m]
     /\ UNCHANGED <<harness, bins, manifests, runs, edits, torn>>

Serve(o) ==
  /\ run.phase = "serve"
  /\ o \in run.todo
  /\ \E reg \in RegisterOutcomes(Home(o), Wanted), tools \in BOOLEAN, reads \in Reads :
       ServeWith(o, reg, tools, reads)

\* The CLI cannot be started any more, or the registry not written: what was
\* registered so far is not recorded.
Cut(h, want, f, left) ==
  IF harness[h] = "kimi" THEN [done |-> want, cli |-> want]
  ELSE [done |-> Before(f, want), cli |-> left \cup Before(f, want)]

ServeStops(o) ==
  LET h == Home(o)
  IN /\ May("step")
     /\ run.phase = "serve"
     /\ o \in run.todo
     /\ \E f \in Wanted : \E left \in {cli[h], cli[h] \ {f}} :
      LET reg == Cut(h, Wanted, f, left)
          touched == reg.done \cup (cli[h] \ reg.cli)
      IN /\ cli' = [cli EXCEPT ![h] = reg.cli]
         /\ allow' = [allow EXCEPT ![h] = WithoutTables(h, @, touched)]
         /\ mine' = Forget(h, touched)
         /\ Account(TRUE)
         /\ Abort({o})
         /\ UNCHANGED <<harness, model, bins, manifests, runs, edits, handed, kept>>

\* A first run that did nothing leaves no manifest.
Save ==
  LET o == run.at
      m == run.mf[o]
      left == run.todo \ {o}
  IN /\ run.phase = "save"
     /\ manifests' = [manifests EXCEPT ![o] =
          IF run.cmd # "mcp" /\ @ = NoManifest /\ m = NewManifest THEN @ ELSE m]
     /\ run' = IF run.cmd # "mcp" \/ left = {} THEN Idle
               ELSE [run EXCEPT !.phase = "serve", !.todo = left]
     /\ UNCHANGED <<harness, keys, cli, bins, runs, edits, faults, mine, handed, kept, torn>>

(***************************************************************************)
(* Uninstall, home after home: unregister, restore the recorded keys, and  *)
(* for a kit remove the binaries nobody else lists; the manifest goes last.*)
(* unserve reads the notes, the commands to run by hand and the servers    *)
(* done, never the refusals: a server the harness kept is told to nobody.  *)
(***************************************************************************)
Unregister(o) ==
  LET h == Home(o)
      ss == IF harness[h] = "kimi" THEN {} ELSE run.want[o]
  IN /\ run.phase = "unregister"
     /\ o \in run.todo
     /\ \E out \in RemovalOutcomes(h, ss) :
      /\ cli' = [cli EXCEPT ![h] = IF harness[h] = "kimi" THEN {} ELSE @ \ out.removed]
      /\ allow' = [allow EXCEPT ![h] = WithoutTables(h, @, out.removed)]
      /\ mine' = Forget(h, out.removed)
      /\ handed' = [handed EXCEPT ![h] = @ \cup out.manual]
      /\ kept' = [kept EXCEPT ![h] = @ \cup (out.refused \cap cli[h])]
      /\ Account(out.wrong)
      /\ run' = [run EXCEPT !.phase = "restore", !.at = o]
      /\ UNCHANGED <<harness, model, bins, manifests, runs, edits, torn>>

RestoreKeys ==
  LET o == run.at
      h == Home(o)
      m == run.mf[o]
  IN /\ run.phase = "restore"
     /\ \E reads \in Reads :
      /\ Account(~reads)
      /\ model' = [model EXCEPT ![h] =
           IF reads /\ m.model # NoRecord THEN Restore(@, m.model) ELSE @]
      /\ allow' = [allow EXCEPT ![h] =
           IF reads /\ m.allow # NoRecord THEN Restore(@, m.allow) ELSE @]
      /\ run' = [run EXCEPT !.phase = "delete",
                   !.restored = reads \/ (m.model = NoRecord /\ m.allow = NoRecord)]
      /\ UNCHANGED <<harness, cli, bins, manifests, runs, edits, mine, handed, kept, torn>>

\* An unreadable configuration is reported and the manifest goes all the same.
Delete ==
  LET o == run.at
      left == run.todo \ {o}
  IN /\ run.phase = "delete"
     /\ bins' = bins \ run.doomed
     /\ manifests' = [manifests EXCEPT ![o] = NoManifest]
     /\ torn' = IF run.restored THEN torn ELSE torn \cup {o}
     /\ run' = IF left = {} THEN Idle
               ELSE [run EXCEPT !.phase = "unregister", !.todo = left]
     /\ UNCHANGED <<harness, keys, cli, runs, edits, faults, mine, handed, kept>>

\* A binary cannot be removed: the manifest is kept, so it can be repeated.
DeleteStops ==
  /\ May("step")
  /\ Account(TRUE)
  /\ run.phase = "delete"
  /\ \E part \in (SUBSET run.doomed) \ {run.doomed} : bins' = bins \ part
  /\ run' = Idle
  /\ UNCHANGED <<harness, keys, cli, manifests, runs, edits, mine, handed, kept, torn>>

(***************************************************************************)
(* People edit the configuration.  A model or an entry they write that the *)
(* installer has on record as its own cannot be told from its own, so they *)
(* write others; they may remove anything.                                 *)
(***************************************************************************)
Records(h) ==
  {Prior(o) : o \in {p \in Owners : Home(p) = h}} \cup
  (IF run = Idle THEN {} ELSE {run.mf[o] : o \in {p \in run.own : Home(p) = h}})

Edited ==
  /\ edits > 0
  /\ edits' = edits - 1
  /\ UNCHANGED <<harness, cli, bins, manifests, run, runs, faults, handed, kept, torn>>

EditOwnModel(h, v) ==
  /\ v # model[h]
  /\ \A m \in Records(h) : m.model # NoRecord => m.model.written # v
  /\ model' = [model EXCEPT ![h] = v]
  /\ mine' = [mine EXCEPT ![h].model = v]
  /\ UNCHANGED allow
  /\ Edited

AddOwnEntry(h, e) ==
  /\ e \notin Entries(allow[h])
  /\ \A m \in Records(h) : e \notin Added(m.allow)
  /\ allow' = [allow EXCEPT ![h] = Entries(@) \cup {e}]
  /\ mine' = [mine EXCEPT ![h].items = @ \cup {e}]
  /\ UNCHANGED model
  /\ Edited

RemoveEntry(h, e) ==
  /\ e \in Entries(allow[h])
  /\ allow' = [allow EXCEPT ![h] = @ \ {e}]
  /\ mine' = [mine EXCEPT ![h].items = @ \ {e}]
  /\ UNCHANGED model
  /\ Edited

-----------------------------------------------------------------------------
Init ==
  /\ \E s \in Scopes : 
        harness = s.harness /\ runs = s.runs /\ edits = s.edits /\ faults = s.faults
  /\ model \in [Homes -> {Absent} \cup UNION {OwnModels[h] : h \in Homes}]
  /\ allow \in [Homes -> {Absent} \cup SUBSET UNION {OwnEntries[h] : h \in Homes}]
  /\ \A h \in Homes :
        /\ model[h] # Absent => h \in InUse /\ model[h] \in OwnModels[h]
        /\ allow[h] # Absent => h \in InUse
        /\ Entries(allow[h]) \subseteq OwnEntries[h]
        /\ OwnEntries[h] = {} => allow[h] = Absent
  /\ mine = [h \in Homes |-> [model |-> model[h], items |-> Entries(allow[h])]]
  /\ cli = [h \in Homes |-> {}]
  /\ bins = {}
  /\ manifests = [o \in Owners |-> NoManifest]
  /\ run = Idle
  /\ handed = [h \in Homes |-> {}]
  /\ kept = [h \in Homes |-> {}]
  /\ torn = {}

Steps ==
  \/ \E o \in run.todo : RetireServers(o) \/ RetireBinaries(o) \/ Serve(o)
                         \/ ServeStops(o) \/ Unregister(o)
  \/ Fetch \/ FetchStops
  \/ Save
  \/ RestoreKeys
  \/ Delete \/ DeleteStops
  \/ StepFails
  \/ Dies

Next ==
  \/ \E h \in Kits \cap InUse, rel \in Releases :
        \/ StartUninstall(<<h, "kit">>, rel)
        \/ \E pref \in Prefs : StartKit(<<h, "kit">>, rel, pref)
  \/ \E hs \in (SUBSET InUse) \ {{}}, rel \in Releases :
        \/ StartMcpUninstall(hs, rel)
        \/ StartMcp(hs, rel)
  \/ run # Idle /\ Steps
  \/ \E h \in InUse :
        \/ \E v \in OwnModels[h] \cup {Absent} : EditOwnModel(h, v)
        \/ \E e \in OwnEntries[h] : AddOwnEntry(h, e)
        \/ \E e \in Entries(allow[h]) : RemoveEntry(h, e)

Spec == Init /\ [][Next]_vars

-----------------------------------------------------------------------------
Free(h) == \A o \in Owners : Home(o) = h => run = Idle \/ o \notin run.own

(***************************************************************************)
(* README.md:21-22: everything is recorded so uninstall can reverse it.    *)
(* Once nothing is installed in a home, its configuration is what the      *)
(* person had or wrote since, whatever was installed over what and         *)
(* whatever failed, unless a run ended without recording what it did.      *)
(***************************************************************************)
SettingsComeBack ==
  \A h \in Homes :
    (Free(h) /\ \A o \in Owners : Home(o) = h => manifests[o] = NoManifest /\ o \notin torn)
      => model[h] = mine[h].model /\ Entries(allow[h]) = mine[h].items

(***************************************************************************)
(* Every server registered with a harness is on record in a manifest of    *)
(* that home, so that an uninstall can remove it, or the report told the   *)
(* person to remove it by hand, or it is one whose removal the harness     *)
(* refused at an uninstall: the manifest goes all the same, and of that    *)
(* one nobody is told (installer.rst:463 has a failure name what failed).  *)
(***************************************************************************)
OnRecord(o, m) ==
  IF m = NoManifest THEN {}
  ELSE IF Plugin \in m.regs THEN cli[Home(o)] ELSE m.regs

RegistrationsOnRecord ==
  \A h \in Homes : LET here == {o \in Owners : Home(o) = h} IN
    Free(h) /\ here \cap torn = {}
      => cli[h] \ (handed[h] \cup kept[h]) \subseteq UNION {OnRecord(o, manifests[o]) : o \in here}

(***************************************************************************)
(* A server that a manifest records as registered, and is, has its binary  *)
(* if the manifest lists it: not after a retirement that one home carried  *)
(* out and the other could not, nor an uninstall that was cut short.  A    *)
(* registration the installer gave up, told or kept, is not counted.       *)
(***************************************************************************)
RegisteredServerHasBinary ==
  \A o \in Owners \ torn :
    Free(Home(o)) =>
      Listing(manifests[o]) \cap OnRecord(o, manifests[o])
        \cap (cli[Home(o)] \ (handed[Home(o)] \cup kept[Home(o)])) \subseteq bins
=============================================================================

---------------------------- MODULE SetupProofs ----------------------------
(***************************************************************************)
(* The installer gives back what it found: type correctness of the runs,   *)
(* and that an uninstall leaves each home's settings as the person had     *)
(* them, that every registration is on record, and that a registered       *)
(* server keeps its binary, for any homes, servers, releases and faults.   *)
(***************************************************************************)
EXTENDS Setup, TLAPS

-----------------------------------------------------------------------------
(***************************************************************************)
(* While a run that applies is in progress, what is on record of an owner  *)
(* is the manifest that the run holds, which it saves if it can.           *)
(***************************************************************************)
Cur == [o \in Owners |-> IF run # Idle /\ Applying /\ o \in run.own THEN run.mf[o] ELSE Prior(o)]
Here(h) == {o \in Owners : Home(o) = h}
Rec(o) == IF Plugin \in Cur[o].regs THEN cli[Home(o)] ELSE Cur[o].regs
Unhanded(h) == cli[h] \ (handed[h] \cup kept[h])
Untorn(h) == Here(h) \cap torn = {}
Undone(cur, rec) == IF rec = NoRecord THEN cur ELSE Restore(cur, rec)
ModelRec(h) == IF h \in Kits THEN Cur[<<h, "kit">>].model ELSE NoRecord

TypeOK ==
  /\ InUse \subseteq Homes
  /\ model \in [Homes -> ModelValues]
  /\ allow \in [Homes -> {Absent} \cup SUBSET Named]
  /\ cli \in [Homes -> SUBSET Servers]
  /\ handed \in [Homes -> SUBSET Servers]
  /\ kept \in [Homes -> SUBSET Servers]
  /\ bins \subseteq Binaries
  /\ manifests \in [Owners -> {NoManifest} \cup Manifest]
  /\ run = Idle \/ (run.own \subseteq Owners /\ run \in Applications(run.own) \cup Removals(run.own))
  /\ mine \in [Homes -> [model : ModelValues, items : SUBSET Named]]
  /\ torn \subseteq Owners

\* A run changes at most one owner of a home: its kit, or the mcp servers of several.
RunOK ==
  run # Idle =>
    /\ \A p, q \in run.own : Home(p) = Home(q) => p = q
    /\ \A o \in run.own : Home(o) \in InUse
    /\ run.cmd \in {"kit", "uninstall"} => run.own = {run.at} /\ run.at[2] # "mcp"
    /\ run.cmd \in {"mcp", "drop"} => \A o \in run.own : o[2] = "mcp"

(***************************************************************************)
(* Only the owner that an mcp run is saving differs from its file; a plan  *)
(* speaks of its own servers; the binaries of the release are in place     *)
(* from the fetch on, until the mcp run is over.                           *)
(***************************************************************************)
ApplyOK ==
  run # Idle /\ Applying =>
    /\ run.cmd = "mcp" =>
         /\ run.pref = "leave"
         /\ \A o \in run.own : Cur[o] = Prior(o) \/ (run.phase = "save" /\ run.at = o)
    /\ run.phase \in {"retire", "binaries"} =>
         /\ run.plan \in [run.own -> Plans] /\ run.gone \in [run.own -> SUBSET Servers]
         /\ \A o \in run.own :
              /\ run.plan[o].plugin \subseteq run.plan[o].names
              /\ run.plan[o].registered \subseteq run.plan[o].names
              /\ run.plan[o].part \subseteq run.plan[o].names
    /\ (run.phase = "serve" \/ (run.phase = "save" /\ run.cmd = "mcp")) => run.got \subseteq bins

\* What an uninstall read is still what is on record, its binaries are nobody
\* else's, and it restores when none of its servers is registered any more.
RemoveOK ==
  run # Idle /\ ~Applying =>
    /\ \A o \in run.todo : run.mf[o] = Cur[o] /\ Cur[o].regs \ {Plugin} \subseteq run.want[o]
    /\ \A q \in Owners : (q \notin run.own \/ run.cmd = "drop") => run.doomed \cap Cur[q].bins = {}
    /\ run.phase \in {"restore", "delete"} =>
         run.at \in run.todo /\ Rec(run.at) \cap Unhanded(Home(run.at)) = {}

\* Only a kit edits the model, and only Kimi has a plugin, which replaces the names.
Fits(o, m) ==
  /\ o[2] = "mcp" => m.model = NoRecord
  /\ Home(o) \in InUse =>
       /\ Plugin \in m.regs => harness[Home(o)] = "kimi"
       /\ harness[Home(o)] = "kimi" => m.regs \subseteq {Plugin}
KindOK == \A o \in Owners : Fits(o, Cur[o]) /\ Fits(o, Prior(o))

(***************************************************************************)
(* Of two homes of a run whose plans share a binary each knows of the      *)
(* other, and no plan removes one that a home outside of the run lists.    *)
(* Until its servers are retired, an owner's plan is what its manifest     *)
(* records; afterwards what is gone is not registered.                     *)
(***************************************************************************)
Retired(o) == run.phase = "binaries" \/ o \notin run.todo
NotOthers ==
  \A p \in run.own, q \in Owners \ run.own : \A s \in run.plan[p].names \cap Cur[q].bins :
    run.plan[p].binary[s] # "remove"
Together ==
  \A p, q \in run.own : \A s \in run.plan[p].names \cap Cur[q].bins :
    s \in run.plan[q].names /\ run.plan[q].binary[s] # "none"
IsGone(o) == run.gone[o] \cap Rec(o) \cap Unhanded(Home(o)) = {}
IsPlanned(o) ==
  /\ run.plan[o].registered = run.plan[o].names \cap Cur[o].regs
  /\ run.plan[o].part \subseteq Added(Cur[o].allow)
  /\ run.plan[o].plugin = IF Plugin \in Cur[o].regs THEN run.plan[o].names \cap cli[Home(o)] ELSE {}
PlanOK ==
  run # Idle /\ Applying /\ run.phase \in {"retire", "binaries"} =>
    /\ NotOthers /\ Together
    /\ \A o \in run.own : IF Retired(o) THEN IsGone(o) ELSE IsPlanned(o)

(***************************************************************************)
(* What SettingsComeBack needs at every step: undoing what is on record    *)
(* gives what the person wrote.  A removal that has restored the settings  *)
(* of its owner has nothing left to undo.                                  *)
(***************************************************************************)
AddedHere(h) == UNION {Added(Cur[o].allow) : o \in Here(h)}
SettingsAt(h) ==
  /\ Undone(model[h], ModelRec(h)) = mine[h].model
  /\ Entries(allow[h]) \ AddedHere(h) = mine[h].items
SettingsOK == \A h \in Homes : Untorn(h) => SettingsAt(h)
RestoredOK ==
  run # Idle /\ run.phase = "delete" /\ run.restored /\ Untorn(Home(run.at)) =>
    /\ run.at[2] = "kit" => model[Home(run.at)] = mine[Home(run.at)].model
    /\ Entries(allow[Home(run.at)]) \cap Added(Cur[run.at].allow) = {}
\* A registration nobody was told of is on record, in a manifest or in the run;
\* what is recorded and registered has its binary, if it is recorded with one.
RegsAt(h) == Unhanded(h) \subseteq UNION {Rec(o) : o \in Here(h)}
RegsOK == \A h \in Homes : Untorn(h) => RegsAt(h)
BinsAt(o) == Cur[o].bins \cap Rec(o) \cap Unhanded(Home(o)) \subseteq bins
BinsOK == \A o \in Owners \ torn : BinsAt(o)

\* An owner is the kit of a home that has one, or the mcp servers of a home.
LEMMA OwnerFacts ==
  /\ \A o \in Owners : Home(o) \in Homes /\ (o[2] # "mcp" => Home(o) \in Kits /\ o = <<Home(o), "kit">>)
                       /\ (o[2] = "mcp" => o = <<Home(o), "mcp">>)
  /\ \A h \in Kits : <<h, "kit">> \in Owners /\ Home(<<h, "kit">>) = h
  /\ \A h \in Homes : <<h, "mcp">> \in Owners /\ Home(<<h, "mcp">>) = h
<1>1. ASSUME NEW o \in Owners
      PROVE  /\ Home(o) \in Homes
             /\ o[2] # "mcp" => Home(o) \in Kits /\ o = <<Home(o), "kit">>
             /\ o[2] = "mcp" => o = <<Home(o), "mcp">>
  <2>1. CASE o \in Kits \X {"kit"}
    BY <2>1, SetupAssumption DEF Home, SetupAssumption
  <2>2. CASE o \in Homes \X {"mcp"}
    BY <2>2 DEF Home
  <2>3. QED BY <2>1, <2>2 DEF Owners
<1>2. \A h \in Kits : <<h, "kit">> \in Owners /\ Home(<<h, "kit">>) = h
  BY DEF Owners, Home
<1>3. \A h \in Homes : <<h, "mcp">> \in Owners /\ Home(<<h, "mcp">>) = h
  BY DEF Owners, Home
<1>4. QED BY <1>1, <1>2, <1>3

LEMMA NewManifestFacts == NewManifest \in Manifest
BY DEF NewManifest, Manifest

\* What is on record of an owner is a manifest.
LEMMA PriorFacts ==
  ASSUME TypeOK, NEW o \in Owners
  PROVE  Prior(o) \in Manifest
BY NewManifestFacts DEF Prior, TypeOK

LEMMA CurFacts ==
  ASSUME TypeOK
  PROVE  Cur \in [Owners -> Manifest]
<1> SUFFICES ASSUME NEW o \in Owners
             PROVE  (IF run # Idle /\ Applying /\ o \in run.own THEN run.mf[o] ELSE Prior(o)) \in Manifest
  BY Zenon DEF Cur
<1>1. CASE run # Idle /\ Applying /\ o \in run.own
  <2>1. run \in Applications(run.own)
    BY <1>1 DEF TypeOK, Applying, Removals
  <2>2. run.mf \in [run.own -> Manifest]
    BY <2>1 DEF Applications
  <2>3. QED BY <1>1, <2>2
<1>2. CASE ~(run # Idle /\ Applying /\ o \in run.own)
  BY <1>2, PriorFacts
<1>3. QED BY <1>1, <1>2

-----------------------------------------------------------------------------
(***************************************************************************)
(* The edits of a key.                                                     *)
(***************************************************************************)
AllowValues == {Absent} \cup SUBSET Named

\* A list of approvals that is absent has no entries.
LEMMA ListsFacts ==
  /\ \A S \in SUBSET Named : S # Absent /\ Entries(S) = S
  /\ \A c \in AllowValues : Entries(c) \in SUBSET Named
  /\ Entries(Absent) = {}
BY NoneAssumption DEF NoneAssumption, Entries, AllowValues

\* Undoing a recorded edit of the model gives one it can have; doing it again changes nothing.
LEMMA RestoreModelFacts ==
  ASSUME NEW rec \in ModelRecords, NEW cur \in ModelValues
  PROVE  /\ Restore(cur, rec) = IF cur = rec.written THEN rec.previous ELSE cur
         /\ Restore(cur, rec) \in ModelValues
         /\ Restore(Restore(cur, rec), rec) = Restore(cur, rec)
BY DEF ModelRecords, Restore, RestoreValue

\* Restoring what a record says was added takes exactly that away.
LEMMA RestoreAllowFacts ==
  ASSUME NEW rec \in AllowRecords, NEW cur \in AllowValues
  PROVE  /\ Restore(cur, rec) \in AllowValues
         /\ Entries(Restore(cur, rec)) = Entries(cur) \ rec.added
<1>1. rec.added \in SUBSET Named /\ rec.added # {}
  BY DEF AllowRecords
<1>2. Restore(cur, rec) = RestoreList(cur, rec)
  BY <1>1 DEF Restore
<1>3. CASE cur = Absent
  BY <1>2, <1>3, ListsFacts DEF RestoreList, AllowValues
<1>4. CASE cur # Absent
  <2>1. cur \in SUBSET Named /\ Entries(cur) = cur /\ cur \ rec.added \in SUBSET Named
    BY <1>4, ListsFacts DEF AllowValues
  <2>2. CASE cur \ rec.added = {} /\ rec.previous = Absent
    <3>1. Restore(cur, rec) = Absent
      BY <1>2, <2>2 DEF RestoreList
    <3>2. QED BY <2>1, <2>2, <3>1, ListsFacts DEF AllowValues
  <2>3. CASE ~(cur \ rec.added = {} /\ rec.previous = Absent)
    <3>1. Restore(cur, rec) = cur \ rec.added
      BY <1>2, <1>4, <2>3 DEF RestoreList
    <3>2. QED BY <2>1, <3>1, ListsFacts DEF AllowValues
  <2>4. QED BY <2>2, <2>3
<1>5. QED BY <1>3, <1>4

\* A record of which a part was restored has the rest still added.
LEMMA SettleFacts ==
  ASSUME NEW rec \in AllowRecords, NEW part
  PROVE  /\ SettleKey(rec, part) \in {NoRecord} \cup AllowRecords
         /\ Added(SettleKey(rec, part)) = rec.added \ part
<1>1. CASE rec.added \subseteq part
  BY <1>1 DEF SettleKey, Added
<1>2. CASE ~(rec.added \subseteq part)
  <2>1. SettleKey(rec, part) = [rec EXCEPT !.added = @ \ part]
    BY <1>2 DEF SettleKey
  <2>2. rec.added \ part \in (SUBSET Named) \ {{}}
    BY <1>2 DEF AllowRecords
  <2>3. [rec EXCEPT !.added = @ \ part] \in AllowRecords
    BY <2>2 DEF AllowRecords
  <2>4. [rec EXCEPT !.added = @ \ part].added = rec.added \ part
    BY DEF AllowRecords
  <2>5. [rec EXCEPT !.added = @ \ part] # NoRecord
    BY <2>3, NoneAssumption DEF NoneAssumption
  <2>6. QED BY <2>1, <2>3, <2>4, <2>5 DEF Added
<1>3. QED BY <1>1, <1>2

\* Restoring a part of what was added takes that part away and nothing else.
LEMMA PartFacts ==
  ASSUME NEW rec \in {NoRecord} \cup AllowRecords, NEW cur \in AllowValues,
         NEW part, part # {}, part \subseteq Added(rec)
  PROVE  /\ rec \in AllowRecords
         /\ Restore(cur, [rec EXCEPT !.added = part]) \in AllowValues
         /\ Entries(Restore(cur, [rec EXCEPT !.added = part])) = Entries(cur) \ part
<1>1. rec \in AllowRecords /\ part \subseteq rec.added
  BY DEF Added
<1>2. part \in (SUBSET Named) \ {{}}
  BY <1>1 DEF AllowRecords
<1>3. [rec EXCEPT !.added = part] \in AllowRecords /\ [rec EXCEPT !.added = part].added = part
  BY <1>1, <1>2 DEF AllowRecords
<1>4. QED BY <1>1, <1>3, RestoreAllowFacts

\* An edit of the approvals records what it adds: without it, they are as before.
LEMMA EditAllowFacts ==
  ASSUME NEW rec \in {NoRecord} \cup AllowRecords, NEW cur \in AllowValues,
         NEW items \in SUBSET Named, NEW e, e = EditAllow(rec, cur, items)
  PROVE  /\ e.value \in AllowValues
         /\ e.rec \in {NoRecord} \cup AllowRecords
         /\ Entries(cur) \ Added(rec) = Entries(e.value) \ Added(e.rec)
         /\ Entries(cur) \subseteq Entries(e.value)
         /\ Entries(e.value) \ Entries(cur) \subseteq Added(e.rec)
         /\ Added(e.rec) \cap Entries(cur) \subseteq Added(rec)
         /\ Added(rec) \cap Entries(cur) \subseteq Added(e.rec)
<1>1. CASE items \subseteq Entries(cur)
  <2>1. e = [value |-> cur, rec |-> rec]
    BY <1>1 DEF EditAllow
  <2>2. QED BY <2>1
<1>2. CASE ~(items \subseteq Entries(cur))
  <2> DEFINE r == ListRecord(cur, items)
  <2>1. Entries(cur) \in SUBSET Named
    BY ListsFacts
  <2>2. r \in AllowRecords /\ r.added = items \ Entries(cur) /\ r.previous = cur
    BY <1>2, <2>1 DEF ListRecord, AllowRecords, AllowValues
  <2>3. e = [value |-> Entries(cur) \cup items, rec |-> RecordConfig(rec, r)]
    BY <1>2 DEF EditAllow
  <2>4. e.value = Entries(cur) \cup items /\ e.value \in AllowValues /\ Entries(e.value) = Entries(cur) \cup items
    BY <2>1, <2>3, ListsFacts DEF AllowValues
  <2>5. e.rec = RecordConfig(rec, r)
    BY <2>3
  <2> HIDE DEF r
  <2>6. CASE rec = NoRecord
    <3>1. e.rec = r /\ Added(rec) = {} /\ Added(e.rec) = items \ Entries(cur)
      BY <2>2, <2>5, <2>6, NoneAssumption DEF RecordConfig, Added, NoneAssumption
    <3>2. QED BY <2>2, <2>4, <3>1
  <2>7. CASE rec # NoRecord /\ ~StillOurs(rec, r)
    <3>1. rec \in AllowRecords /\ rec.added # {}
      BY <2>7 DEF AllowRecords
    <3>2. cur = Absent /\ Entries(cur) = {}
      BY <2>2, <2>7, <3>1, ListsFacts DEF StillOurs
    <3>3. e.rec = r /\ Added(e.rec) = items \ Entries(cur)
      BY <2>2, <2>5, <2>7, NoneAssumption DEF RecordConfig, Added, NoneAssumption
    <3>4. QED BY <2>2, <2>4, <3>2, <3>3
  <2>8. CASE rec # NoRecord /\ StillOurs(rec, r)
    <3>1. rec \in AllowRecords /\ Added(rec) = rec.added
      BY <2>8 DEF Added
    <3>2. e.rec = [r EXCEPT !.previous = rec.previous, !.added = @ \cup rec.added]
      BY <2>5, <2>8 DEF RecordConfig
    <3>3. e.rec \in AllowRecords /\ e.rec.added = (items \ Entries(cur)) \cup rec.added
      BY <2>2, <3>1, <3>2 DEF AllowRecords
    <3>4. Added(e.rec) = (items \ Entries(cur)) \cup rec.added
      BY <3>3, NoneAssumption DEF Added, NoneAssumption
    <3>5. QED BY <2>4, <3>1, <3>3, <3>4
  <2>9. QED BY <2>6, <2>7, <2>8
<1>3. QED BY <1>1, <1>2

\* An edit of the model records what it replaces: undone, it is as before.
LEMMA EditModelFacts ==
  ASSUME NEW h, NEW rec \in {NoRecord} \cup ModelRecords, NEW cur \in ModelValues,
         NEW pref \in Prefs \cup {"leave"}, NEW e, e = EditModel(h, rec, cur, pref)
  PROVE  /\ e.value \in ModelValues
         /\ e.rec \in {NoRecord} \cup ModelRecords
         /\ Undone(e.value, e.rec) = Undone(cur, rec)
         /\ pref = "leave" => e.rec = rec
<1> USE DEF Undone
<1>1. CASE \/ pref = "leave" \/ harness[h] = "agy"
           \/ (pref = Absent /\ rec = NoRecord) \/ (pref # Absent /\ cur = pref)
  BY <1>1 DEF EditModel
<1>2. CASE pref = Absent /\ rec # NoRecord /\ pref # "leave" /\ harness[h] # "agy"
  <2>1. e = [value |-> Restore(cur, rec), rec |-> NoRecord]
    BY <1>2 DEF EditModel
  <2>2. QED BY <1>2, <2>1, RestoreModelFacts
<1>3. CASE pref # Absent /\ pref # "leave" /\ harness[h] # "agy" /\ cur # pref
  <2> DEFINE r == ValueRecord(cur, pref)
  <2>1. r \in ModelRecords /\ r.previous = cur /\ r.written = pref /\ r.added = {} /\ pref \in ModelValues
    BY <1>3 DEF ValueRecord, ModelRecords, ModelValues
  <2>2. e = [value |-> pref, rec |-> RecordConfig(rec, r)]
    BY <1>3 DEF EditModel
  <2>3. e.value = pref /\ e.rec = RecordConfig(rec, r)
    BY <2>2
  <2> HIDE DEF r
  <2>4. CASE rec = NoRecord \/ ~StillOurs(rec, r)
    <3>1. e.rec = r
      BY <2>3, <2>4 DEF RecordConfig
    <3>2. Undone(e.value, e.rec) = cur
      BY <2>1, <2>3, <3>1, RestoreModelFacts, NoneAssumption DEF NoneAssumption
    <3>3. Undone(cur, rec) = cur
      BY <2>1, <2>4, RestoreModelFacts DEF StillOurs
    <3>4. QED BY <1>3, <2>1, <2>3, <3>1, <3>2, <3>3
  <2>5. CASE rec # NoRecord /\ StillOurs(rec, r)
    <3>1. rec \in ModelRecords /\ rec.added = {} /\ cur = rec.written
      BY <2>1, <2>5 DEF StillOurs, ModelRecords
    <3>2. e.rec = [r EXCEPT !.previous = rec.previous, !.added = @ \cup rec.added]
      BY <2>3, <2>5 DEF RecordConfig
    <3>3. e.rec \in ModelRecords /\ e.rec.previous = rec.previous /\ e.rec.written = pref
      BY <2>1, <3>1, <3>2 DEF ModelRecords
    <3>4. Undone(e.value, e.rec) = rec.previous
      BY <2>1, <2>3, <3>3, RestoreModelFacts, NoneAssumption DEF NoneAssumption
    <3>5. Undone(cur, rec) = rec.previous
      BY <2>5, <3>1, RestoreModelFacts
    <3>6. QED BY <1>3, <2>1, <2>3, <3>3, <3>4, <3>5
  <2>6. QED BY <2>4, <2>5
<1>4. QED BY <1>1, <1>2, <1>3

\* With Codex the entries of a server go with the table of the server.
LEMMA TablesFacts ==
  ASSUME NEW h, NEW cur \in AllowValues, NEW ss
  PROVE  /\ WithoutTables(h, cur, ss) \in AllowValues
         /\ Entries(WithoutTables(h, cur, ss)) = Entries(cur) \ (IF harness[h] = "codex" THEN ss ELSE {})
<1>1. CASE cur = Absent
  BY <1>1, ListsFacts DEF WithoutTables
<1>2. CASE cur # Absent
  BY <1>2, ListsFacts DEF WithoutTables, AllowValues
<1>3. QED BY <1>1, <1>2

-----------------------------------------------------------------------------
(***************************************************************************)
(* The invariant.                                                          *)
(***************************************************************************)
IInv ==
  TypeOK /\ RunOK /\ ApplyOK /\ RemoveOK /\ KindOK /\ PlanOK
  /\ SettingsOK /\ RestoredOK /\ RegsOK /\ BinsOK

\* A run is an application or a removal, and which of the two its command tells.
LEMMA RunFacts ==
  ASSUME TypeOK, run # Idle
  PROVE  /\ run.own \subseteq Owners /\ run.todo \subseteq run.own /\ run.at \in run.own
         /\ run.mf \in [run.own -> Manifest]
         /\ Applying => run \in Applications(run.own)
         /\ ~Applying => run \in Removals(run.own)
         /\ Applying <=> run.phase \in {"retire", "binaries", "fetch", "serve", "save"}
         /\ ~Applying <=> run.phase \in {"unregister", "restore", "delete"}
<1>1. run.own \subseteq Owners /\ run \in Applications(run.own) \cup Removals(run.own)
  BY DEF TypeOK
<1>2. CASE run \in Applications(run.own)
  BY <1>1, <1>2 DEF Applications, Applying
<1>3. CASE run \in Removals(run.own)
  BY <1>1, <1>3 DEF Removals, Applying
<1>4. QED BY <1>1, <1>2, <1>3

\* A record stays one of its kind of owner when it is saved or lost.
LEMMA KindKept ==
  ASSUME KindOK, UNCHANGED harness,
         \A o \in Owners : Cur'[o] \in {Cur[o], Prior(o)} /\ Prior(o)' \in {Cur[o], Prior(o)}
  PROVE  KindOK'
<1> SUFFICES ASSUME NEW o \in Owners
             PROVE  Fits(o, Cur[o])' /\ Fits(o, Prior(o))'
  BY DEF KindOK
<1>1. Fits(o, Cur[o]) /\ Fits(o, Prior(o))
  BY DEF KindOK
<1>2. PICK m : m = Cur'[o]
  OBVIOUS
<1>3. PICK n : n = Prior(o)'
  OBVIOUS
<1>4. Fits(o, m) /\ Fits(o, n)
  BY <1>1, <1>2, <1>3
<1>5. Fits(o, Cur[o])'
  BY <1>2, <1>4 DEF Fits, InUse
<1>6. Fits(o, Prior(o))'
  BY <1>3, <1>4 DEF Fits, InUse
<1>7. QED BY <1>5, <1>6

LEMMA SamePrior ==
  ASSUME UNCHANGED manifests
  PROVE  \A o : Prior(o)' = Prior(o)
BY DEF Prior

\* A home whose settings and records stay as they are.
LEMMA SameSettings ==
  ASSUME NEW h \in Homes, SettingsAt(h), model'[h] = model[h], allow'[h] = allow[h], mine'[h] = mine[h],
         \A o \in Here(h) : (Cur'[o]).model = Cur[o].model /\ (Cur'[o]).allow = Cur[o].allow
  PROVE  SettingsAt(h)'
<1>1. ModelRec(h)' = ModelRec(h)
  BY OwnerFacts DEF ModelRec, Here
<1>2. AddedHere(h)' = AddedHere(h)
  BY DEF AddedHere, Here
<1>3. QED BY <1>1, <1>2 DEF SettingsAt

LEMMA SameRec ==
  ASSUME NEW o \in Owners, (Cur'[o]).regs = Cur[o].regs, cli'[Home(o)] = cli[Home(o)]
  PROVE  Rec(o)' = Rec(o)
BY DEF Rec

\* A home whose registrations and records stay as they are.
LEMMA SameRegs ==
  ASSUME NEW h \in Homes, RegsAt(h), cli'[h] = cli[h], handed'[h] = handed[h], kept'[h] = kept[h],
         \A o \in Here(h) : (Cur'[o]).regs = Cur[o].regs
  PROVE  RegsAt(h)'
<1>1. \A o \in Here(h) : Rec(o)' = Rec(o)
  BY SameRec DEF Here
<1>2. Unhanded(h)' = Unhanded(h) /\ Here(h)' = Here(h)
  BY DEF Unhanded, Here
<1>3. QED BY <1>1, <1>2 DEF RegsAt

\* An owner whose registrations and record stay as they are.
LEMMA SameBins ==
  ASSUME NEW o \in Owners, BinsAt(o), cli'[Home(o)] = cli[Home(o)],
         handed'[Home(o)] = handed[Home(o)], kept'[Home(o)] = kept[Home(o)],
         Cur'[o] = Cur[o], bins \cap Cur[o].bins \subseteq bins'
  PROVE  BinsAt(o)'
<1>1. Rec(o)' = Rec(o)
  BY SameRec
<1>2. QED BY <1>1 DEF BinsAt, Unhanded

\* What a step keeps when it changes no setting and no registration, and the
\* records of torn owners only.
LEMMA RestKept ==
  ASSUME SettingsOK, RegsOK, BinsOK, \A o \in Owners : Cur'[o] = Cur[o] \/ o \in torn',
         UNCHANGED <<model, allow, mine, cli, handed, kept>>, torn \subseteq torn', bins \subseteq bins'
  PROVE  SettingsOK' /\ RegsOK' /\ BinsOK'
<1>1. \A h \in Homes : Untorn(h)' => Untorn(h) /\ \A o \in Here(h) : Cur'[o] = Cur[o]
  BY DEF Untorn, Here
<1>2. SettingsOK'
  BY <1>1, SameSettings DEF SettingsOK
<1>3. RegsOK'
  BY <1>1, SameRegs DEF RegsOK
<1>4. BinsOK'
  BY <1>1, SameBins DEF BinsOK
<1>5. QED BY <1>2, <1>3, <1>4

-----------------------------------------------------------------------------
(***************************************************************************)
(* Starting a run.                                                         *)
(***************************************************************************)
LEMMA PlanFacts ==
  ASSUME TypeOK, NEW o \in Owners, NEW own, NEW keep, NEW p, p = RetirePlan(o, own, keep)
  PROVE  /\ p \in Plans
         /\ p.names = RetiredNames(o, keep)
         /\ p.registered = p.names \cap Prior(o).regs
         /\ p.plugin = p.names \cap InPlugin(o)
         /\ p.part = Added(Prior(o).allow) \cap p.names
         /\ \A s \in p.names : p.binary[s] = BinaryPlan(o, own, s)
         /\ Prior(o).bins \cap Servers \subseteq p.names \cup keep
         /\ p.names \cap keep = {}
<1>1. Prior(o) \in Manifest
  BY PriorFacts
<1>2. Prior(o).regs \subseteq Servers \cup {Plugin} /\ Prior(o).bins \subseteq Servers \cup {Guard}
  BY <1>1 DEF Manifest, Binaries
<1>3. InPlugin(o) \subseteq Servers
  BY OwnerFacts DEF TypeOK, InPlugin
<1>4. PICK N : N = RetiredNames(o, keep)
  OBVIOUS
<1>5. N \subseteq Servers /\ N \cap keep = {}
  BY <1>2, <1>3, <1>4 DEF RetiredNames
<1>6. Prior(o).bins \cap Servers \subseteq N \cup keep
  BY <1>4, SetupAssumption DEF RetiredNames, SetupAssumption
<1>7. PICK B : B = [s \in N |-> BinaryPlan(o, own, s)]
  OBVIOUS
<1>8. \A s \in N : BinaryPlan(o, own, s) \in {"none", "missing", "keep", "remove"}
  BY DEF BinaryPlan
<1>9. B \in [N -> {"none", "missing", "keep", "remove"}]
  BY <1>7, <1>8
<1>10. B \in UNION {[w -> {"none", "missing", "keep", "remove"}] : w \in SUBSET Servers}
  BY <1>5, <1>9
<1>11. PICK R : R = N \cap Prior(o).regs
  OBVIOUS
<1>12. PICK Q : Q = N \cap InPlugin(o)
  OBVIOUS
<1>13. PICK A : A = Added(Prior(o).allow) \cap N
  OBVIOUS
<1>14. R \subseteq Servers /\ Q \subseteq Servers /\ A \subseteq Named
  BY <1>5, <1>11, <1>12, <1>13 DEF Named
<1>15. p = [names |-> N, registered |-> R, plugin |-> Q, binary |-> B, part |-> A]
  BY <1>4, <1>7, <1>11, <1>12, <1>13 DEF RetirePlan
<1>16. p \in Plans
  BY <1>5, <1>10, <1>14, <1>15 DEF Plans
<1>17. p.names = N /\ p.registered = R /\ p.plugin = Q /\ p.part = A /\ p.binary = B
  BY <1>15
<1>18. QED BY <1>4, <1>5, <1>6, <1>7, <1>11, <1>12, <1>13, <1>16, <1>17

\* No retirement plans to remove a binary that a manifest outside of its run lists.
LEMMA ListedFacts ==
  ASSUME TypeOK, NEW p \in Owners, NEW own, NEW q \in Owners \ own, q # p, NEW s \in Prior(q).bins
  PROVE  BinaryPlan(p, own, s) # "remove"
<1>1. s \in Listing(manifests[q])
  BY DEF Prior, Listing, NewManifest
<1>2. s \in KeepersOf(s)
  BY DEF KeepersOf
<1>3. ListedByOthers(p, own, s)
  BY <1>1, <1>2 DEF ListedByOthers
<1>4. QED BY <1>3 DEF BinaryPlan

LEMMA IdleFacts ==
  ASSUME TypeOK, run = Idle
  PROVE  \A o \in Owners : Cur[o] = Prior(o)
BY DEF Cur

\* Starting a run changes nothing that is on record.
LEMMA BeginCur ==
  ASSUME run = Idle, manifests' = manifests,
         Applying' => run'.mf = [o \in run'.own |-> Prior(o)]
  PROVE  Cur' = Cur
<1>1. \A o : Prior(o)' = Prior(o)
  BY DEF Prior
<1>2. \A o \in Owners :
        (IF run # Idle /\ Applying /\ o \in run.own THEN run.mf[o] ELSE Prior(o))' = Prior(o)
  BY <1>1
<1>3. Cur' = [o \in Owners |-> Prior(o)]
  BY <1>2, Zenon DEF Cur
<1>4. Cur = [o \in Owners |-> Prior(o)]
  BY DEF Cur
<1>5. QED BY <1>3, <1>4

\* A kit or an mcp run plans its retirement from the manifests on file.
LEMMA ApplyBegins ==
  ASSUME IInv, NEW cmd \in {"kit", "mcp"}, NEW own \in SUBSET Owners, NEW rel \in Releases,
         NEW want \in SUBSET Servers, NEW got \in SUBSET Binaries, NEW pref \in Prefs \cup {"leave"},
         own # {}, \A o \in own : Home(o) \in InUse, \A p, q \in own : Home(p) = Home(q) => p = q,
         cmd = "kit" => \E o \in own : own = {o} /\ o[2] # "mcp",
         cmd = "mcp" => pref = "leave" /\ \A o \in own : o[2] = "mcp",
         Begin(Apply(cmd, own, rel, want, got, pref))
  PROVE  IInv'
<1> USE DEF IInv
<1>1. PICK P : P = [o \in own |-> RetirePlan(o, own, Ships[rel])]
  OBVIOUS
<1>2. PICK M : M = [o \in own |-> Prior(o)]
  OBVIOUS
<1>3. PICK G : G = [o \in own |-> {}]
  OBVIOUS
<1>4. PICK a : a = CHOOSE o \in own : TRUE
  OBVIOUS
<1>5. P \in [own -> Plans]
  <2>1. \A o \in own : RetirePlan(o, own, Ships[rel]) \in Plans
    BY PlanFacts
  <2>2. QED BY <1>1, <2>1
<1>6. M \in [own -> Manifest]
  BY <1>2, PriorFacts
<1>7. G \in [own -> SUBSET Servers]
  BY <1>3
<1>8. a \in own
  BY <1>4
<1>9. PICK r : r = [cmd |-> cmd, own |-> own, todo |-> own, at |-> a, phase |-> "retire", want |-> want,
                    got |-> got, pref |-> pref, plan |-> P, mf |-> M, gone |-> G]
  OBVIOUS
<1>10. r \in Applications(own)
  BY <1>5, <1>6, <1>7, <1>8, <1>9 DEF Applications
<1>11. r # Idle
  BY <1>10, NoneAssumption DEF NoneAssumption
<1>12. /\ run = Idle /\ run' = r
       /\ UNCHANGED <<harness, keys, cli, bins, manifests, edits, faults, mine, handed, kept, torn>>
  BY <1>1, <1>2, <1>3, <1>4, <1>9 DEF Begin, Apply
<1>13. TypeOK'
  BY <1>9, <1>10, <1>12 DEF TypeOK, keys, InUse
<1>14. /\ r.cmd = cmd /\ r.own = own /\ r.todo = own /\ r.at = a /\ r.phase = "retire" /\ r.got = got
       /\ r.pref = pref /\ r.plan = P /\ r.mf = M /\ r.gone = G
  BY <1>9
<1>15. Cur' = Cur
  <2>1. run'.mf = [o \in run'.own |-> Prior(o)]
    BY <1>2, <1>12, <1>14
  <2>2. QED BY <1>12, <2>1, BeginCur
<1>16. \A o \in Owners : Cur[o] = Prior(o) /\ Prior(o)' = Prior(o)
  BY <1>12, IdleFacts DEF Prior
<1>17. KindOK' /\ SettingsOK' /\ RegsOK' /\ BinsOK'
  BY <1>12, <1>15, RestKept, KindKept, SamePrior DEF keys
<1>18. Applying'
  BY <1>12, <1>14 DEF Applying
<1>19. RunOK'
  BY <1>8, <1>12, <1>14 DEF RunOK, InUse
<1>20. \A o \in own : /\ P[o].names = RetiredNames(o, Ships[rel])
                      /\ P[o].registered = P[o].names \cap Cur[o].regs
                      /\ P[o].plugin = P[o].names \cap InPlugin(o)
                      /\ P[o].part = Added(Cur[o].allow) \cap P[o].names
                      /\ \A s \in P[o].names : P[o].binary[s] = BinaryPlan(o, own, s)
                      /\ Cur[o].bins \cap Servers \subseteq P[o].names \cup Ships[rel]
                      /\ P[o].names \cap Ships[rel] = {}
                      /\ P[o].names \subseteq Servers
  <2> SUFFICES ASSUME NEW o \in own
               PROVE  /\ P[o].names = RetiredNames(o, Ships[rel])
                      /\ P[o].registered = P[o].names \cap Cur[o].regs
                      /\ P[o].plugin = P[o].names \cap InPlugin(o)
                      /\ P[o].part = Added(Cur[o].allow) \cap P[o].names
                      /\ \A s \in P[o].names : P[o].binary[s] = BinaryPlan(o, own, s)
                      /\ Cur[o].bins \cap Servers \subseteq P[o].names \cup Ships[rel]
                      /\ P[o].names \cap Ships[rel] = {}
                      /\ P[o].names \subseteq Servers
    OBVIOUS
  <2>1. P[o] = RetirePlan(o, own, Ships[rel]) /\ o \in Owners /\ Cur[o] = Prior(o)
    BY <1>1, <1>16
  <2>2. P[o].names \subseteq Servers
    BY <1>5 DEF Plans
  <2>3. QED BY <2>1, <2>2, PlanFacts
<1>21. ApplyOK'
  BY <1>5, <1>7, <1>12, <1>14, <1>15, <1>16, <1>20 DEF ApplyOK
<1>22. RemoveOK' /\ RestoredOK'
  BY <1>12, <1>14, <1>18 DEF RemoveOK, RestoredOK
<1>23. PlanOK'
  <2>1. \A p \in own, q \in Owners \ own : \A s \in P[p].names \cap Cur[q].bins : P[p].binary[s] # "remove"
    BY <1>16, <1>20, ListedFacts
  <2>2. \A p, q \in own : \A s \in P[p].names \cap Cur[q].bins : s \in P[q].names /\ P[q].binary[s] # "none"
    <3> SUFFICES ASSUME NEW p \in own, NEW q \in own, NEW s \in P[p].names \cap Cur[q].bins
                 PROVE  s \in P[q].names /\ P[q].binary[s] # "none"
      OBVIOUS
    <3>1. s \in P[q].names
      <4>1. s \in Servers /\ s \notin Ships[rel]
        BY <1>20
      <4>2. Cur[q].bins \cap Servers \subseteq P[q].names \cup Ships[rel]
        <5>1. q \in Owners /\ Cur[q] = Prior(q) /\ P[q] = RetirePlan(q, own, Ships[rel])
          BY <1>1, <1>16
        <5>2. QED BY <5>1, PlanFacts
      <4>3. QED BY <4>1, <4>2
    <3>2. s \in Prior(q).bins
      BY <1>16
    <3>3. P[q].binary[s] = BinaryPlan(q, own, s)
      BY <1>20, <3>1
    <3>4. QED BY <3>1, <3>2, <3>3 DEF BinaryPlan
  <2>3. \A o \in own : P[o].plugin = IF Plugin \in Cur[o].regs THEN P[o].names \cap cli[Home(o)] ELSE {}
    BY <1>16, <1>20 DEF InPlugin, OwnsPlugin, KindOK, Fits
  <2>4. \A o \in own : ~Retired(o)'
    BY <1>12, <1>14 DEF Retired
  <2>5. \A o \in own : /\ P[o].registered = P[o].names \cap Cur[o].regs
                       /\ P[o].part \subseteq Added(Cur[o].allow)
    BY <1>20
  <2>6. run'.own = own /\ run'.plan = P /\ cli' = cli
    BY <1>12, <1>14
  <2>7. NotOthers'
    BY <1>15, <2>1, <2>6 DEF NotOthers
  <2>8. Together'
    BY <1>15, <2>2, <2>6 DEF Together
  <2>9. \A o \in own : IsPlanned(o)'
    BY <1>15, <2>3, <2>5, <2>6 DEF IsPlanned
  <2>10. QED BY <2>4, <2>6, <2>7, <2>8, <2>9 DEF PlanOK
<1>24. QED BY <1>13, <1>17, <1>19, <1>21, <1>22, <1>23

\* An uninstall dooms no binary that a manifest outside of it lists.
LEMMA RemovalBegins ==
  ASSUME IInv, NEW cmd \in {"uninstall", "drop"}, NEW own \in SUBSET Owners, NEW rel \in Releases,
         NEW doomed \in SUBSET Binaries,
         own # {}, \A o \in own : Home(o) \in InUse, \A p, q \in own : Home(p) = Home(q) => p = q,
         cmd = "uninstall" => \E o \in own : own = {o} /\ o[2] # "mcp",
         cmd = "drop" => \A o \in own : o[2] = "mcp",
         \A q \in Owners : q \notin own \/ cmd = "drop" => doomed \cap Prior(q).bins = {},
         Begin(Removal(cmd, own, rel, doomed))
  PROVE  IInv'
<1> USE DEF IInv
<1>1. PICK W : W = [o \in own |-> Unregistering(o, rel)]
  OBVIOUS
<1>2. PICK M : M = [o \in own |-> Prior(o)]
  OBVIOUS
<1>3. PICK a : a = CHOOSE o \in own : TRUE
  OBVIOUS
<1>4. M \in [own -> Manifest]
  BY <1>2, PriorFacts
<1>5. \A o \in own : /\ Unregistering(o, rel) \in SUBSET Servers
                     /\ Prior(o).regs \ {Plugin} \subseteq Unregistering(o, rel)
  <2> SUFFICES ASSUME NEW o \in own
               PROVE  /\ Unregistering(o, rel) \in SUBSET Servers
                      /\ Prior(o).regs \ {Plugin} \subseteq Unregistering(o, rel)
    OBVIOUS
  <2>1. Prior(o).regs \subseteq Servers \cup {Plugin}
    BY PriorFacts DEF Manifest
  <2>2. Ships[rel] \subseteq Servers
    BY SetupAssumption DEF SetupAssumption
  <2>3. QED BY <2>1, <2>2 DEF Unregistering
<1>6. W \in [own -> SUBSET Servers]
  BY <1>1, <1>5
<1>7. a \in own
  BY <1>3
<1>8. PICK r : r = [cmd |-> cmd, own |-> own, todo |-> own, at |-> a, phase |-> "unregister", mf |-> M,
                    want |-> W, doomed |-> doomed, restored |-> TRUE]
  OBVIOUS
<1>9. r \in Removals(own)
  BY <1>4, <1>6, <1>7, <1>8 DEF Removals
<1>10. r # Idle
  BY <1>9, NoneAssumption DEF NoneAssumption
<1>11. /\ run = Idle /\ run' = r
       /\ UNCHANGED <<harness, keys, cli, bins, manifests, edits, faults, mine, handed, kept, torn>>
  BY <1>1, <1>2, <1>3, <1>8 DEF Begin, Removal
<1>12. TypeOK'
  BY <1>8, <1>9, <1>11 DEF TypeOK, keys, InUse
<1>13. /\ r.cmd = cmd /\ r.own = own /\ r.todo = own /\ r.at = a /\ r.phase = "unregister"
       /\ r.mf = M /\ r.want = W /\ r.doomed = doomed
  BY <1>8
<1>14. ~Applying'
  BY <1>11, <1>13 DEF Applying
<1>15. Cur' = Cur
  BY <1>11, <1>14, BeginCur
<1>16. \A o \in Owners : Cur[o] = Prior(o)
  BY <1>11, IdleFacts
<1>17. KindOK' /\ SettingsOK' /\ RegsOK' /\ BinsOK'
  BY <1>11, <1>15, RestKept, KindKept, SamePrior DEF keys
<1>18. RunOK'
  BY <1>7, <1>11, <1>13 DEF RunOK, InUse
<1>19. ApplyOK' /\ PlanOK' /\ RestoredOK'
  BY <1>11, <1>13, <1>14 DEF ApplyOK, PlanOK, RestoredOK
<1>20. RemoveOK'
  <2>1. \A o \in own : M[o] = Cur[o] /\ Cur[o].regs \ {Plugin} \subseteq W[o]
    BY <1>1, <1>2, <1>5, <1>16
  <2>2. \A q \in Owners : q \notin own \/ cmd = "drop" => doomed \cap Cur[q].bins = {}
    BY <1>16
  <2>3. QED BY <1>11, <1>13, <1>15, <2>1, <2>2 DEF RemoveOK
<1>21. QED BY <1>12, <1>17, <1>18, <1>19, <1>20

LEMMA StartKitKeeps ==
  ASSUME IInv, NEW h \in Kits \cap InUse, NEW rel \in Releases, NEW pref \in Prefs,
         StartKit(<<h, "kit">>, rel, pref)
  PROVE  IInv'
<1>1. PICK o : o = <<h, "kit">>
  OBVIOUS
<1>2. o \in Owners /\ Home(o) = h /\ o[2] # "mcp"
  BY <1>1, OwnerFacts
<1>3. Ships[rel] \in SUBSET Servers /\ Shipped(rel) \in SUBSET Binaries
  BY SetupAssumption DEF SetupAssumption, Shipped, Binaries
<1>4. \/ Begin(Apply("kit", {o}, rel, Ships[rel], Shipped(rel), pref))
      \/ Begin(Apply("kit", {o}, rel, {}, {}, pref))
      \/ Begin(Apply("kit", {o}, rel, Ships[rel], {}, pref))
  BY <1>1 DEF StartKit
<1>5. \A want \in SUBSET Servers, got \in SUBSET Binaries :
        Begin(Apply("kit", {o}, rel, want, got, pref)) => IInv'
  <2> SUFFICES ASSUME NEW want \in SUBSET Servers, NEW got \in SUBSET Binaries,
                      Begin(Apply("kit", {o}, rel, want, got, pref))
               PROVE  IInv'
    OBVIOUS
  <2> PICK own : own = {o}
    OBVIOUS
  <2>1. own \in SUBSET Owners /\ own # {} /\ (\A q \in own : Home(q) \in InUse)
        /\ (\A p, q \in own : Home(p) = Home(q) => p = q) /\ (\E q \in own : own = {q} /\ q[2] # "mcp")
    BY <1>2
  <2>2. Begin(Apply("kit", own, rel, want, got, pref))
    OBVIOUS
  <2>3. QED BY <2>1, <2>2, ApplyBegins
<1>6. PICK none : none = {}
  OBVIOUS
<1>7. none \in SUBSET Servers /\ none \in SUBSET Binaries
  BY <1>6
<1>8. \/ Begin(Apply("kit", {o}, rel, Ships[rel], Shipped(rel), pref))
      \/ Begin(Apply("kit", {o}, rel, none, none, pref))
      \/ Begin(Apply("kit", {o}, rel, Ships[rel], none, pref))
  BY ONLY <1>4, <1>6
<1>9. QED BY ONLY <1>3, <1>5, <1>7, <1>8, Zenon

LEMMA StartMcpKeeps ==
  ASSUME IInv, NEW hs \in (SUBSET InUse) \ {{}}, NEW rel \in Releases, StartMcp(hs, rel)
  PROVE  IInv'
<1>1. PICK own : own = hs \X {"mcp"}
  OBVIOUS
<1>2. hs \subseteq Homes
  BY DEF IInv, TypeOK
<1>3. \A h \in hs : <<h, "mcp">> \in own
  BY <1>1
<1>4. \A o \in own : o \in Owners /\ Home(o) \in hs /\ o[2] = "mcp" /\ o = <<Home(o), "mcp">>
  BY <1>1, <1>2 DEF Owners, Home
<1>5. own \in SUBSET Owners /\ own # {} /\ (\A q \in own : Home(q) \in InUse)
      /\ (\A p, q \in own : Home(p) = Home(q) => p = q) /\ \A q \in own : q[2] = "mcp"
  BY <1>3, <1>4
<1>6. Ships[rel] \in SUBSET Servers /\ Shipped(rel) \in SUBSET Binaries
  BY SetupAssumption DEF SetupAssumption, Shipped, Binaries
<1>7. \/ Begin(Apply("mcp", own, rel, Ships[rel], Shipped(rel), "leave"))
      \/ Begin(Apply("mcp", own, rel, Ships[rel], {}, "leave"))
  BY <1>1 DEF StartMcp
<1>8. QED BY <1>5, <1>6, <1>7, ApplyBegins

LEMMA StartUninstallKeeps ==
  ASSUME IInv, NEW h \in Kits \cap InUse, NEW rel \in Releases, StartUninstall(<<h, "kit">>, rel)
  PROVE  IInv'
<1>1. PICK o : o = <<h, "kit">>
  OBVIOUS
<1>2. o \in Owners /\ Home(o) = h /\ o[2] # "mcp"
  BY <1>1, OwnerFacts
<1>3. PICK own : own = {o}
  OBVIOUS
<1>4. PICK doomed : doomed = {b \in Prior(o).bins \cap bins : ~ListedByOthers(o, {}, b)}
  OBVIOUS
<1>5. Begin(Removal("uninstall", own, rel, doomed))
  BY <1>1, <1>3, <1>4 DEF StartUninstall
<1>6. doomed \in SUBSET Binaries
  BY <1>4 DEF IInv, TypeOK
<1>7. \A q \in Owners : q \notin own => doomed \cap Prior(q).bins = {}
  <2> SUFFICES ASSUME NEW q \in Owners, q # o, NEW b \in doomed, b \in Prior(q).bins
               PROVE  FALSE
    BY <1>3
  <2>1. b \in Listing(manifests[q]) /\ b \in KeepersOf(b)
    BY DEF Prior, Listing, NewManifest, KeepersOf
  <2>2. ListedByOthers(o, {}, b)
    BY <2>1 DEF ListedByOthers
  <2>3. QED BY <1>4, <2>2
<1>8. own \in SUBSET Owners /\ own # {} /\ (\A q \in own : Home(q) \in InUse)
      /\ (\A p, q \in own : Home(p) = Home(q) => p = q) /\ (\E q \in own : own = {q} /\ q[2] # "mcp")
  BY <1>2, <1>3
<1>9. QED BY <1>5, <1>6, <1>7, <1>8, RemovalBegins

LEMMA StartMcpUninstallKeeps ==
  ASSUME IInv, NEW hs \in (SUBSET InUse) \ {{}}, NEW rel \in Releases, StartMcpUninstall(hs, rel)
  PROVE  IInv'
<1>1. PICK own : own = hs \X {"mcp"}
  OBVIOUS
<1>2. hs \subseteq Homes
  BY DEF IInv, TypeOK
<1>3. \A h \in hs : <<h, "mcp">> \in own
  BY <1>1
<1>4. \A o \in own : o \in Owners /\ Home(o) \in hs /\ o[2] = "mcp" /\ o = <<Home(o), "mcp">>
  BY <1>1, <1>2 DEF Owners, Home
<1>5. own \in SUBSET Owners /\ own # {} /\ (\A q \in own : Home(q) \in InUse)
      /\ (\A p, q \in own : Home(p) = Home(q) => p = q) /\ \A q \in own : q[2] = "mcp"
  BY <1>3, <1>4
<1>6. Begin(Removal("drop", own, rel, {}))
  BY <1>1 DEF StartMcpUninstall
<1>7. QED BY <1>5, <1>6, RemovalBegins

-----------------------------------------------------------------------------
(***************************************************************************)
(* How a run ends.                                                         *)
(***************************************************************************)
\* Without a run there is nothing to know about it.
LEMMA IdleKept ==
  ASSUME run' = Idle
  PROVE  RunOK' /\ ApplyOK' /\ RemoveOK' /\ PlanOK' /\ RestoredOK'
BY DEF RunOK, ApplyOK, RemoveOK, PlanOK, RestoredOK

\* What an owner's record becomes when the run is gone.
LEMMA IdleCur ==
  ASSUME run' = Idle
  PROVE  \A o \in Owners : Cur'[o] = Prior(o)'
BY DEF Cur

\* Of the owners of a run only those with something unsaved have a record that
\* their manifest does not have.
LEMMA UnsavedFacts ==
  ASSUME TypeOK, run # Idle
  PROVE  /\ Unsaved \subseteq Owners
         /\ \A o \in Owners \ Unsaved : Cur[o] = Prior(o)
<1>1. run.own \subseteq Owners
  BY RunFacts
<1>2. QED BY <1>1 DEF Unsaved, Cur

\* A run that ends early keeps what is on record; the owners it could not record are torn.
LEMMA AbortFacts ==
  ASSUME IInv, run # Idle, run.phase # "save", NEW unrecorded \in SUBSET Owners, Abort(unrecorded),
         manifests' = manifests
  PROVE  /\ run' = Idle \/ (run'.own \subseteq Owners /\ run' \in Applications(run'.own))
         /\ Cur' = Cur
         /\ torn \cup unrecorded \subseteq torn' /\ torn' \subseteq Owners
         /\ RemoveOK' /\ PlanOK' /\ RestoredOK' /\ ApplyOK'
         /\ harness' = harness => RunOK'
<1> USE DEF IInv
<1>1. \A o \in Owners : Prior(o)' = Prior(o)
  BY DEF Prior
<1>2. CASE run.cmd = "kit"
  <2>1. run' = [run EXCEPT !.phase = "save"] /\ torn' = torn \cup unrecorded
    BY <1>2 DEF Abort
  <2>2. Applying /\ run.own \subseteq Owners /\ run \in Applications(run.own)
    BY <1>2, RunFacts DEF Applying
  <2>3. run' \in Applications(run.own) /\ run'.own = run.own /\ run'.mf = run.mf /\ run'.cmd = run.cmd
        /\ run'.at = run.at /\ run'.phase = "save"
    BY <2>1, <2>2 DEF Applications
  <2>4. run' # Idle /\ Applying'
    BY <1>2, <2>2, <2>3, NoneAssumption DEF NoneAssumption, Applying
  <2>5. Cur' = Cur
    BY <1>1, <2>2, <2>3, <2>4 DEF Cur
  <2>6. RemoveOK' /\ PlanOK' /\ RestoredOK' /\ ApplyOK'
    BY <1>2, <2>3, <2>4 DEF RemoveOK, PlanOK, RestoredOK, ApplyOK
  <2>7. harness' = harness => RunOK'
    BY <1>2, <2>3 DEF RunOK, InUse
  <2>8. torn' \subseteq Owners
    BY <2>1 DEF TypeOK
  <2>9. QED BY <2>1, <2>2, <2>3, <2>5, <2>6, <2>7, <2>8
<1>3. CASE run.cmd # "kit"
  <2>1. run' = Idle /\ torn' = torn \cup unrecorded \cup Unsaved
    BY <1>3 DEF Abort
  <2>2. \A o \in Owners : Cur[o] = Prior(o)
    <3>1. CASE Applying
      <4>1. run.cmd = "mcp"
        BY <1>3, <3>1 DEF Applying
      <4>2. \A o \in run.own : Cur[o] = Prior(o)
        BY <3>1, <4>1 DEF ApplyOK
      <4>3. QED BY <4>2 DEF Cur
    <3>2. CASE ~Applying
      BY <3>2 DEF Cur
    <3>3. QED BY <3>1, <3>2
  <2>3. Cur \in [Owners -> Manifest]
    BY CurFacts
  <2>4. \A o \in Owners : Cur'[o] = Cur[o]
    BY <1>1, <2>1, <2>2, IdleCur
  <2>5. Cur' = Cur
    BY <2>4 DEF Cur
  <2>6. torn' \subseteq Owners
    BY <2>1, UnsavedFacts DEF TypeOK
  <2>7. QED BY <2>1, <2>5, <2>6, IdleKept
<1>4. QED BY <1>2, <1>3

LEMMA StepFailsKeeps ==
  ASSUME IInv, StepFails
  PROVE  IInv'
<1> USE DEF IInv
<1>1. PICK none : none = {}
  OBVIOUS
<1>2. /\ run # Idle /\ run.phase # "save" /\ Abort(none)
      /\ UNCHANGED <<harness, model, allow, cli, bins, manifests, mine, handed, kept>>
  BY <1>1 DEF StepFails, keys
<1>3. none \in SUBSET Owners
  BY <1>1
<1>4. /\ run' = Idle \/ (run'.own \subseteq Owners /\ run' \in Applications(run'.own))
      /\ Cur' = Cur /\ torn \subseteq torn' /\ torn' \subseteq Owners
      /\ RemoveOK' /\ PlanOK' /\ RestoredOK' /\ ApplyOK' /\ RunOK'
  BY <1>2, <1>3, AbortFacts
<1>5. TypeOK'
  BY <1>2, <1>4 DEF TypeOK, InUse
<1>6. KindOK' /\ SettingsOK' /\ RegsOK' /\ BinsOK'
  BY <1>2, <1>4, RestKept, KindKept, SamePrior
<1>7. QED BY <1>4, <1>5, <1>6

LEMMA DiesKeeps ==
  ASSUME IInv, Dies
  PROVE  IInv'
<1> USE DEF IInv
<1>1. /\ run # Idle /\ run' = Idle /\ torn' = torn \cup Unsaved
      /\ UNCHANGED <<harness, model, allow, cli, bins, manifests, mine, handed, kept>>
  BY DEF Dies, keys
<1>2. \A o \in Owners : Cur'[o] = Prior(o) /\ (Cur[o] = Prior(o) \/ o \in torn')
  <2>1. \A o \in Owners : Prior(o)' = Prior(o)
    BY <1>1 DEF Prior
  <2>2. QED BY <1>1, <2>1, IdleCur, UnsavedFacts
<1>3. TypeOK'
  BY <1>1, UnsavedFacts DEF TypeOK, InUse
<1>4. KindOK' /\ SettingsOK' /\ RegsOK' /\ BinsOK'
  BY <1>1, <1>2, RestKept, KindKept, SamePrior
<1>5. QED BY <1>1, <1>3, <1>4, IdleKept

\* Binaries replaced before the fetch stopped take none away.
LEMMA FetchStopsKeeps ==
  ASSUME IInv, FetchStops, run # Idle
  PROVE  IInv'
<1> USE DEF IInv
<1>1. PICK none : none = {}
  OBVIOUS
<1>2. PICK part \in (SUBSET run.got) \ {{}} : bins' = bins \cup part
  BY DEF FetchStops
<1>3. /\ run # Idle /\ run.phase = "fetch" /\ Abort(none)
      /\ UNCHANGED <<harness, model, allow, cli, manifests, mine, handed, kept>>
  BY <1>1 DEF FetchStops, keys
<1>4. none \in SUBSET Owners
  BY <1>1
<1>5. /\ run' = Idle \/ (run'.own \subseteq Owners /\ run' \in Applications(run'.own))
      /\ Cur' = Cur /\ torn \subseteq torn' /\ torn' \subseteq Owners
      /\ RemoveOK' /\ PlanOK' /\ RestoredOK' /\ ApplyOK' /\ RunOK'
  BY <1>3, <1>4, AbortFacts
<1>6. run.got \subseteq Binaries
  BY <1>3, RunFacts DEF Applications
<1>7. bins' \subseteq Binaries /\ bins \subseteq bins'
  BY <1>2, <1>6 DEF TypeOK
<1>8. TypeOK'
  BY <1>3, <1>5, <1>7 DEF TypeOK, InUse
<1>9. KindOK' /\ SettingsOK' /\ RegsOK' /\ BinsOK'
  BY <1>3, <1>5, <1>7, RestKept, KindKept, SamePrior
<1>10. QED BY <1>5, <1>8, <1>9

\* A saved record is the one the run held.
LEMMA SaveKeeps ==
  ASSUME IInv, Save, run # Idle
  PROVE  IInv'
<1> USE DEF IInv
<1>1. PICK o : o = run.at
  OBVIOUS
<1>2. PICK left : left = run.todo \ {o}
  OBVIOUS
<1>3. /\ run.phase = "save"
      /\ manifests' = [manifests EXCEPT ![o] =
           IF run.cmd # "mcp" /\ @ = NoManifest /\ run.mf[o] = NewManifest THEN @ ELSE run.mf[o]]
      /\ run' = IF run.cmd # "mcp" \/ left = {} THEN Idle
                ELSE [run EXCEPT !.phase = "serve", !.todo = left]
      /\ UNCHANGED <<harness, model, allow, cli, bins, mine, handed, kept, torn>>
  BY <1>1, <1>2 DEF Save, keys
<1>4. Applying /\ run \in Applications(run.own) /\ run.own \subseteq Owners /\ o \in run.own
      /\ run.mf \in [run.own -> Manifest] /\ run.todo \subseteq run.own
  BY <1>1, <1>3, RunFacts
<1>5. run.mf[o] \in Manifest /\ run.mf[o] # NoManifest /\ Cur[o] = run.mf[o]
  BY <1>4, NoneAssumption DEF NoneAssumption, Cur
<1>6. manifests' \in [Owners -> {NoManifest} \cup Manifest]
  BY <1>3, <1>4, <1>5 DEF TypeOK
<1>7. Prior(o)' = Cur[o] /\ \A q \in Owners : q # o => Prior(q)' = Prior(q)
  BY <1>3, <1>4, <1>5 DEF Prior, TypeOK
<1>8. \A q \in Owners : q # o => Cur[q] = Prior(q)
  <2>1. CASE run.cmd = "mcp"
    BY <1>1, <1>4, <2>1 DEF ApplyOK, Cur
  <2>2. CASE run.cmd # "mcp"
    <3>1. run.own = {o}
      BY <1>1, <1>4, <2>2 DEF RunOK, Applying
    <3>2. QED BY <3>1 DEF Cur
  <2>3. QED BY <2>1, <2>2
<1>9. \A q \in Owners : Prior(q)' = Cur[q]
  BY <1>7, <1>8
<1>10. CASE run.cmd # "mcp" \/ left = {}
  <2>1. run' = Idle
    BY <1>3, <1>10
  <2>2. \A q \in Owners : Cur'[q] = Cur[q]
    BY <1>9, <2>1, IdleCur
  <2>3. TypeOK'
    BY <1>3, <1>6, <2>1 DEF TypeOK, InUse
  <2>4. KindOK' /\ SettingsOK' /\ RegsOK' /\ BinsOK'
    BY <1>3, <1>9, <2>2, RestKept, KindKept
  <2>5. QED BY <2>1, <2>3, <2>4, IdleKept
<1>11. CASE run.cmd = "mcp" /\ left # {}
  <2>1. run' = [run EXCEPT !.phase = "serve", !.todo = left]
    BY <1>3, <1>11
  <2>2. /\ run' \in Applications(run.own) /\ run'.own = run.own /\ run'.mf = run.mf /\ run'.cmd = "mcp"
        /\ run'.phase = "serve" /\ run'.got = run.got /\ run'.pref = run.pref /\ run'.at = run.at
    BY <1>2, <1>4, <1>11, <2>1 DEF Applications
  <2>3. run' # Idle /\ Applying'
    BY <1>4, <2>2, NoneAssumption DEF NoneAssumption, Applying
  <2>4. \A q \in Owners : Cur'[q] = Cur[q]
    <3>1. \A q \in Owners : Cur'[q] = IF q \in run.own THEN run.mf[q] ELSE Prior(q)'
      BY <2>2, <2>3 DEF Cur
    <3>2. \A q \in Owners : Cur[q] = IF q \in run.own THEN run.mf[q] ELSE Prior(q)
      BY <1>4 DEF Cur
    <3>3. QED BY <1>4, <1>7, <3>1, <3>2
  <2>5. TypeOK'
    BY <1>3, <1>4, <1>6, <2>2 DEF TypeOK, InUse
  <2>6. KindOK' /\ SettingsOK' /\ RegsOK' /\ BinsOK'
    BY <1>3, <1>9, <2>4, RestKept, KindKept
  <2>7. RunOK'
    BY <1>3, <1>11, <2>2 DEF RunOK, InUse
  <2>8. ApplyOK'
    BY <1>3, <1>4, <1>9, <1>11, <2>2, <2>4 DEF ApplyOK
  <2>9. RemoveOK' /\ PlanOK' /\ RestoredOK'
    BY <2>2, <2>3 DEF RemoveOK, PlanOK, RestoredOK
  <2>10. QED BY <2>5, <2>6, <2>7, <2>8, <2>9
<1>12. QED BY <1>10, <1>11

-----------------------------------------------------------------------------
(***************************************************************************)
(* Uninstalling.                                                           *)
(***************************************************************************)
LEMMA DeleteKeeps ==
  ASSUME IInv, Delete, run # Idle
  PROVE  IInv'
<1> USE DEF IInv
<1>1. PICK o : o = run.at
  OBVIOUS
<1>2. PICK left : left = run.todo \ {o}
  OBVIOUS
<1>3. /\ run.phase = "delete" /\ bins' = bins \ run.doomed
      /\ manifests' = [manifests EXCEPT ![o] = NoManifest]
      /\ torn' = IF run.restored THEN torn ELSE torn \cup {o}
      /\ run' = IF left = {} THEN Idle ELSE [run EXCEPT !.phase = "unregister", !.todo = left]
      /\ UNCHANGED <<harness, model, allow, cli, mine, handed, kept>>
  BY <1>1, <1>2 DEF Delete, keys
<1>4. ~Applying /\ run \in Removals(run.own) /\ run.own \subseteq Owners /\ o \in run.own
      /\ run.todo \subseteq run.own /\ o \in Owners
  BY <1>1, <1>3, RunFacts
<1>5. Prior(o)' = NewManifest /\ \A q \in Owners : q # o => Prior(q)' = Prior(q)
  BY <1>3, <1>4 DEF Prior, TypeOK
<1>6. \A q \in Owners : Cur[q] = Prior(q)
  BY <1>4 DEF Cur
<1>7. run' = Idle \/ (/\ run' \in Removals(run.own) /\ run'.own = run.own /\ run'.mf = run.mf
                      /\ run'.cmd = run.cmd /\ run'.phase = "unregister" /\ run'.todo = left
                      /\ run'.want = run.want /\ run'.doomed = run.doomed /\ run'.at = run.at)
  <2>1. left \subseteq run.own
    BY <1>2, <1>4
  <2>2. QED BY <1>3, <1>4, <2>1 DEF Removals
<1>8. run' # Idle => ~Applying'
  BY <1>4, <1>7 DEF Applying
<1>9. Cur'[o] = NewManifest /\ \A q \in Owners : q # o => Cur'[q] = Cur[q]
  <2>1. \A q \in Owners : Cur'[q] = Prior(q)'
    BY <1>8 DEF Cur
  <2>2. QED BY <1>4, <1>5, <1>6, <2>1
<1>10. TypeOK'
  BY <1>3, <1>4, <1>7 DEF TypeOK, InUse
<1>11. KindOK'
  <2>1. \A q \in Owners : \A m : Fits(q, m)' <=> Fits(q, m)
    BY <1>3 DEF Fits, InUse
  <2>2. Fits(o, NewManifest)
    BY DEF Fits, NewManifest
  <2>3. QED BY <1>5, <1>9, <2>1, <2>2 DEF KindOK
<1>12. NewManifest.allow = NoRecord /\ NewManifest.model = NoRecord /\ NewManifest.regs = {} /\ NewManifest.bins = {}
  BY DEF NewManifest
<1>13. SettingsOK'
  <2> SUFFICES ASSUME NEW h \in Homes, Untorn(h)'
               PROVE  SettingsAt(h)'
    BY DEF SettingsOK
  <2>1. Untorn(h) /\ SettingsAt(h)
    BY <1>3 DEF SettingsOK, Untorn, Here
  <2>2. CASE h # Home(o)
    <3>1. \A q \in Here(h) : Cur'[q] = Cur[q]
      BY <1>9, <2>2 DEF Here
    <3>2. QED BY <1>3, <2>1, <3>1, SameSettings
  <2>3. CASE h = Home(o)
    <3>1. run.restored
      BY <1>3, <1>4, <2>3 DEF Untorn, Here
    <3>2. (o[2] = "kit" => model[h] = mine[h].model) /\ Entries(allow[h]) \cap Added(Cur[o].allow) = {}
      BY <1>1, <1>3, <2>1, <2>3, <3>1 DEF RestoredOK
    <3>3. Undone(model[h], ModelRec(h)') = mine[h].model
      <4>1. CASE h \in Kits /\ o = <<h, "kit">>
        <5>1. ModelRec(h)' = NoRecord /\ o[2] = "kit"
          BY <1>9, <1>12, <4>1 DEF ModelRec
        <5>2. QED BY <3>2, <5>1 DEF Undone
      <4>2. CASE ~(h \in Kits /\ o = <<h, "kit">>)
        <5>1. ModelRec(h)' = ModelRec(h)
          BY <1>9, <4>2, OwnerFacts DEF ModelRec
        <5>2. QED BY <2>1, <5>1 DEF SettingsAt
      <4>3. QED BY <4>1, <4>2
    <3>4. AddedHere(h)' \subseteq AddedHere(h) /\ AddedHere(h) \subseteq AddedHere(h)' \cup Added(Cur[o].allow)
      <4>1. Added(NoRecord) = {}
        BY DEF Added
      <4>2. \A q \in Here(h) : Added((Cur'[q]).allow) = IF q = o THEN {} ELSE Added(Cur[q].allow)
        BY <1>9, <1>12, <4>1 DEF Here
      <4>3. Here(h)' = Here(h)
        BY DEF Here
      <4>4. QED BY <4>2, <4>3 DEF AddedHere
    <3>5. Entries(allow[h]) \ AddedHere(h)' = mine[h].items
      BY <2>1, <3>2, <3>4 DEF SettingsAt
    <3>6. QED BY <1>3, <3>3, <3>5 DEF SettingsAt
  <2>4. QED BY <2>2, <2>3
<1>14. Rec(o) \cap Unhanded(Home(o)) = {}
  BY <1>1, <1>3, <1>4 DEF RemoveOK
<1>15. Rec(o)' = {} /\ \A q \in Owners : q # o => Rec(q)' = Rec(q)
  BY <1>3, <1>9, <1>12 DEF Rec
<1>16. RegsOK'
  <2> SUFFICES ASSUME NEW h \in Homes, Untorn(h)'
               PROVE  RegsAt(h)'
    BY DEF RegsOK
  <2>1. RegsAt(h)
    BY <1>3 DEF RegsOK, Untorn, Here
  <2>2. Here(h)' = Here(h) /\ Unhanded(h)' = Unhanded(h)
    BY <1>3 DEF Here, Unhanded
  <2>3. \A x \in Unhanded(h) : \E q \in Here(h) : x \in Rec(q)'
    <3> SUFFICES ASSUME NEW x \in Unhanded(h)
                 PROVE  \E q \in Here(h) : x \in Rec(q)'
      OBVIOUS
    <3>1. PICK q \in Here(h) : x \in Rec(q)
      BY <2>1 DEF RegsAt
    <3>2. q # o
      BY <1>14, <3>1 DEF Here
    <3>3. QED BY <1>15, <3>1, <3>2 DEF Here
  <2>4. QED BY <2>2, <2>3 DEF RegsAt
<1>17. BinsOK'
  <2> SUFFICES ASSUME NEW q \in Owners, q \notin torn'
               PROVE  BinsAt(q)'
    BY DEF BinsOK
  <2>1. CASE q = o
    BY <1>9, <1>12, <2>1 DEF BinsAt
  <2>2. CASE q # o
    <3>1. run.doomed \cap Cur[q].bins = {}
      BY <1>1, <1>4, <2>2 DEF RemoveOK, RunOK, Removals
    <3>2. BinsAt(q)
      BY <1>3 DEF BinsOK
    <3>3. bins \cap Cur[q].bins \subseteq bins'
      BY <1>3, <3>1
    <3>4. QED BY <1>3, <1>9, <2>2, <3>2, <3>3, SameBins
  <2>3. QED BY <2>1, <2>2
<1>18. CASE run' = Idle
  BY <1>10, <1>11, <1>13, <1>16, <1>17, <1>18, IdleKept
<1>19. CASE run' # Idle
  <2>1. RunOK'
    BY <1>3, <1>7, <1>19 DEF RunOK, InUse
  <2>2. RemoveOK'
    <3>1. \A p \in left : run.mf[p] = Cur'[p] /\ (Cur'[p]).regs \ {Plugin} \subseteq run.want[p]
      BY <1>2, <1>4, <1>9 DEF RemoveOK
    <3>2. \A q \in Owners : q \notin run.own \/ run.cmd = "drop" => run.doomed \cap (Cur'[q]).bins = {}
      BY <1>4, <1>9, <1>12 DEF RemoveOK
    <3>3. QED BY <1>7, <1>19, <3>1, <3>2 DEF RemoveOK
  <2>3. ApplyOK' /\ PlanOK' /\ RestoredOK'
    BY <1>7, <1>8, <1>19 DEF ApplyOK, PlanOK, RestoredOK
  <2>4. QED BY <1>10, <1>11, <1>13, <1>16, <1>17, <2>1, <2>2, <2>3
<1>20. QED BY <1>18, <1>19

\* The manifest stays when a binary or a file of the kit cannot be deleted.
LEMMA DeleteStopsKeeps ==
  ASSUME IInv, DeleteStops, run # Idle
  PROVE  IInv'
<1> USE DEF IInv
<1>1. PICK o : o = run.at
  OBVIOUS
<1>2. PICK part \in (SUBSET run.doomed) \ {run.doomed} : bins' = bins \ part
  BY DEF DeleteStops
<1>3. /\ run.phase = "delete" /\ run' = Idle
      /\ UNCHANGED <<harness, model, allow, cli, manifests, mine, handed, kept, torn>>
  BY DEF DeleteStops, keys
<1>4. ~Applying /\ o \in run.own /\ run.own \subseteq Owners /\ run \in Removals(run.own)
  BY <1>1, <1>3, RunFacts
<1>5. \A q \in Owners : Cur'[q] = Cur[q]
  BY <1>3, <1>4, IdleCur, SamePrior DEF Cur
<1>6. TypeOK'
  BY <1>2, <1>3 DEF TypeOK, InUse
<1>7. KindOK'
  BY <1>3, <1>5, KindKept, SamePrior
<1>8. Rec(o) \cap Unhanded(Home(o)) = {}
  BY <1>1, <1>3, <1>4 DEF RemoveOK
<1>9. SettingsOK'
  BY <1>3, <1>5, SameSettings DEF SettingsOK, Untorn, Here
<1>10. RegsOK'
  BY <1>3, <1>5, SameRegs DEF RegsOK, Untorn, Here
<1>11. BinsOK'
  <2> SUFFICES ASSUME NEW q \in Owners, q \notin torn
               PROVE  BinsAt(q)'
    BY <1>3 DEF BinsOK
  <2>1. CASE q = o
    <3>1. Rec(o)' = Rec(o) /\ Unhanded(Home(o))' = Unhanded(Home(o))
      BY <1>3, <1>5, <2>1, SameRec DEF Unhanded
    <3>2. QED BY <1>8, <2>1, <3>1 DEF BinsAt
  <2>2. CASE q # o
    <3>1. run.doomed \cap Cur[q].bins = {}
      BY <1>1, <1>4, <2>2 DEF RemoveOK, RunOK, Removals
    <3>2. BinsAt(q)
      BY DEF BinsOK
    <3>3. bins \cap Cur[q].bins \subseteq bins'
      BY <1>2, <3>1
    <3>4. QED BY <1>3, <1>5, <3>2, <3>3, SameBins
  <2>3. QED BY <2>1, <2>2
<1>12. QED BY <1>3, <1>6, <1>7, <1>9, <1>10, <1>11, IdleKept

\* What the harness answers when it is asked to remove ss.
LEMMA OutcomeFacts ==
  ASSUME NEW h, NEW ss, NEW out \in RemovalOutcomes(h, ss)
  PROVE  /\ out.removed \subseteq ss \cap cli[h]
         /\ out.refused \subseteq ss /\ out.manual \subseteq ss
         /\ ss \cap cli[h] \subseteq out.removed \cup out.refused \cup out.manual
<1>1. PICK known : known = ss \cap cli[h]
  OBVIOUS
<1>2. \/ out = [removed |-> known, refused |-> ss \ known, manual |-> {}, wrong |-> FALSE]
      \/ out = [removed |-> {}, refused |-> {}, manual |-> ss, wrong |-> TRUE]
      \/ \E no \in SUBSET known : out = [removed |-> known \ no, refused |-> (ss \ known) \cup no,
                                         manual |-> {}, wrong |-> TRUE]
  BY <1>1 DEF RemovalOutcomes
<1>3. CASE out = [removed |-> known, refused |-> ss \ known, manual |-> {}, wrong |-> FALSE]
  BY <1>1, <1>3
<1>4. CASE out = [removed |-> {}, refused |-> {}, manual |-> ss, wrong |-> TRUE]
  BY <1>1, <1>4
<1>5. CASE \E no \in SUBSET known : out = [removed |-> known \ no, refused |-> (ss \ known) \cup no,
                                           manual |-> {}, wrong |-> TRUE]
  BY <1>1, <1>5
<1>6. QED BY <1>2, <1>3, <1>4, <1>5

LEMMA ForgetFacts ==
  ASSUME TypeOK, NEW h \in Homes, NEW ss, mine' = Forget(h, ss)
  PROVE  /\ mine' \in [Homes -> [model : ModelValues, items : SUBSET Named]]
         /\ \A g \in Homes : (mine'[g]).model = mine[g].model
         /\ \A g \in Homes : g # h => mine'[g] = mine[g]
         /\ (mine'[h]).items = mine[h].items \ (IF harness[h] = "codex" THEN ss ELSE {})
BY DEF TypeOK, Forget

\* What is left of the settings of a home when entries go with the tables they are in.
LEMMA SettingsLess ==
  ASSUME NEW h \in Homes, SettingsAt(h), NEW gone,
         Undone(model'[h], ModelRec(h)') = Undone(model[h], ModelRec(h)),
         (mine'[h]).model = mine[h].model, (mine'[h]).items = mine[h].items \ gone,
         Entries(allow'[h]) \ AddedHere(h)' = (Entries(allow[h]) \ AddedHere(h)) \ gone
  PROVE  SettingsAt(h)'
BY DEF SettingsAt

LEMMA SameRecords ==
  ASSUME NEW h \in Homes, \A o \in Here(h) : Cur'[o] = Cur[o]
  PROVE  ModelRec(h)' = ModelRec(h) /\ AddedHere(h)' = AddedHere(h) /\ Here(h)' = Here(h)
<1>1. ModelRec(h)' = ModelRec(h)
  BY OwnerFacts DEF ModelRec, Here
<1>2. AddedHere(h)' = AddedHere(h)
  BY DEF AddedHere, Here
<1>3. QED BY <1>1, <1>2 DEF Here

\* Fewer servers are registered, and fewer on record: each keeps its binary.
LEMMA FewerBins ==
  ASSUME NEW q \in Owners, BinsAt(q), Unhanded(Home(q))' \subseteq Unhanded(Home(q)),
         cli'[Home(q)] \subseteq cli[Home(q)], (Cur'[q]).regs \subseteq Cur[q].regs,
         Plugin \in (Cur'[q]).regs <=> Plugin \in Cur[q].regs,
         (Cur'[q]).bins \subseteq Cur[q].bins, bins \cap (Cur'[q]).bins \subseteq bins'
  PROVE  BinsAt(q)'
<1>1. Rec(q)' \subseteq Rec(q)
  BY DEF Rec
<1>2. QED BY <1>1 DEF BinsAt

\* An uninstall does not go on while a server it recorded is registered.
LEMMA UnregisterKeeps ==
  ASSUME IInv, run # Idle, NEW o \in run.todo, Unregister(o)
  PROVE  IInv'
<1> USE DEF IInv
<1>1. PICK h : h = Home(o)
  OBVIOUS
<1>2. PICK ss : ss = IF harness[h] = "kimi" THEN {} ELSE run.want[o]
  OBVIOUS
<1>3. PICK out \in RemovalOutcomes(h, ss) :
      /\ cli' = [cli EXCEPT ![h] = IF harness[h] = "kimi" THEN {} ELSE @ \ out.removed]
      /\ allow' = [allow EXCEPT ![h] = WithoutTables(h, @, out.removed)]
      /\ mine' = Forget(h, out.removed)
      /\ handed' = [handed EXCEPT ![h] = @ \cup out.manual]
      /\ kept' = [kept EXCEPT ![h] = @ \cup (out.refused \cap cli[h])]
      /\ run' = [run EXCEPT !.phase = "restore", !.at = o]
      /\ UNCHANGED <<harness, model, bins, manifests, torn>>
  BY <1>1, <1>2, Zenon DEF Unregister
<1>4. run.phase = "unregister"
  BY DEF Unregister
<1>5. /\ ~Applying /\ run \in Removals(run.own) /\ run.own \subseteq Owners
      /\ run.todo \subseteq run.own /\ o \in run.own /\ o \in Owners
  BY <1>4, RunFacts
<1>6. h \in Homes /\ h \in InUse
  BY <1>1, <1>5, OwnerFacts DEF RunOK
<1>7. /\ run' \in Removals(run.own) /\ run'.own = run.own /\ run'.mf = run.mf /\ run'.cmd = run.cmd
      /\ run'.phase = "restore" /\ run'.todo = run.todo /\ run'.want = run.want
      /\ run'.doomed = run.doomed /\ run'.at = o
  BY <1>3, <1>5 DEF Removals
<1>8. run' # Idle /\ ~Applying'
  BY <1>5, <1>7, NoneAssumption DEF NoneAssumption, Applying
<1>9. Cur' = Cur
  <2>1. \A q \in Owners : Cur'[q] = Prior(q) /\ Cur[q] = Prior(q)
    BY <1>3, <1>5, <1>8, SamePrior DEF Cur
  <2>2. QED BY <2>1 DEF Cur
<1>10. ss \subseteq Servers
  BY <1>2, <1>5 DEF Removals
<1>11. /\ out.removed \subseteq ss \cap cli[h] /\ out.refused \subseteq ss /\ out.manual \subseteq ss
       /\ ss \cap cli[h] \subseteq out.removed \cup out.refused \cup out.manual
  BY <1>3, OutcomeFacts
<1>12. PICK gone : gone = IF harness[h] = "codex" THEN out.removed ELSE {}
  OBVIOUS
<1>13. allow'[h] \in AllowValues /\ Entries(allow'[h]) = Entries(allow[h]) \ gone
  <2>1. allow[h] \in AllowValues /\ allow'[h] = WithoutTables(h, allow[h], out.removed)
    BY <1>3, <1>6 DEF TypeOK, AllowValues
  <2>2. /\ WithoutTables(h, allow[h], out.removed) \in AllowValues
        /\ Entries(WithoutTables(h, allow[h], out.removed)) = Entries(allow[h]) \ gone
    BY ONLY <1>12, <2>1, TablesFacts
  <2>3. QED BY <2>1, <2>2
<1>14. /\ mine' \in [Homes -> [model : ModelValues, items : SUBSET Named]]
       /\ \A g \in Homes : (mine'[g]).model = mine[g].model
       /\ \A g \in Homes : g # h => mine'[g] = mine[g]
       /\ (mine'[h]).items = mine[h].items \ gone
  BY <1>3, <1>6, <1>12, ForgetFacts
<1>15. TypeOK'
  <2>1. allow' \in [Homes -> {Absent} \cup SUBSET Named]
    BY <1>3, <1>6, <1>13 DEF TypeOK, AllowValues
  <2>2. cli' \in [Homes -> SUBSET Servers]
    BY <1>3, <1>6 DEF TypeOK
  <2>3. handed' \in [Homes -> SUBSET Servers]
    BY <1>3, <1>6, <1>10, <1>11 DEF TypeOK
  <2>4. kept' \in [Homes -> SUBSET Servers]
    BY <1>3, <1>6, <1>10, <1>11 DEF TypeOK
  <2>5. QED BY <1>3, <1>5, <1>7, <1>14, <2>1, <2>2, <2>3, <2>4 DEF TypeOK, InUse
<1>16. RunOK'
  BY <1>3, <1>5, <1>7 DEF RunOK, InUse
<1>17. KindOK'
  BY <1>3, <1>9, KindKept, SamePrior
<1>18. SettingsOK'
  <2> SUFFICES ASSUME NEW g \in Homes, Untorn(g)'
               PROVE  SettingsAt(g)'
    BY DEF SettingsOK
  <2>1. SettingsAt(g)
    BY <1>3 DEF SettingsOK, Untorn, Here
  <2>2. CASE g # h
    BY <1>3, <1>9, <1>14, <2>1, <2>2, SameSettings DEF TypeOK
  <2>3. CASE g = h
    <3>1. ModelRec(h)' = ModelRec(h) /\ AddedHere(h)' = AddedHere(h)
      BY <1>6, <1>9, SameRecords
    <3>2. Undone(model'[h], ModelRec(h)') = Undone(model[h], ModelRec(h))
      BY <1>3, <3>1
    <3>3. Entries(allow'[h]) \ AddedHere(h)' = (Entries(allow[h]) \ AddedHere(h)) \ gone
      BY <1>13, <3>1
    <3>4. QED BY <1>6, <1>14, <2>1, <2>3, <3>2, <3>3, SettingsLess
  <2>4. QED BY <2>2, <2>3
<1>19. \A g \in Homes : /\ g # h => cli'[g] = cli[g] /\ handed'[g] = handed[g] /\ kept'[g] = kept[g]
                        /\ cli'[g] \subseteq cli[g] /\ Unhanded(g)' \subseteq Unhanded(g)
  BY <1>3, <1>6 DEF Unhanded, TypeOK
<1>20. cli'[h] = (IF harness[h] = "kimi" THEN {} ELSE cli[h] \ out.removed)
       /\ handed'[h] = handed[h] \cup out.manual
       /\ kept'[h] = kept[h] \cup (out.refused \cap cli[h])
  BY <1>3, <1>6 DEF TypeOK
<1>21. harness[h] # "kimi" => \A q \in Here(h) : Rec(q)' = Cur[q].regs /\ Rec(q) = Cur[q].regs
  BY <1>6, <1>9 DEF KindOK, Fits, Rec, Here
<1>22. RegsOK'
  <2> SUFFICES ASSUME NEW g \in Homes, Untorn(g)'
               PROVE  RegsAt(g)'
    BY DEF RegsOK
  <2>1. RegsAt(g)
    BY <1>3 DEF RegsOK, Untorn, Here
  <2>2. CASE g # h
    BY <1>9, <1>19, <2>1, <2>2, SameRegs
  <2>3. CASE g = h /\ harness[h] = "kimi"
    <3>1. Unhanded(g)' = {}
      BY <1>20, <2>3 DEF Unhanded
    <3>2. QED BY <3>1 DEF RegsAt
  <2>4. CASE g = h /\ harness[h] # "kimi"
    <3>1. Here(g)' = Here(g) /\ \A q \in Here(g) : Rec(q)' = Rec(q)
      BY <1>21, <2>4 DEF Here
    <3>2. QED BY <1>19, <2>1, <3>1 DEF RegsAt
  <2>5. QED BY <2>2, <2>3, <2>4
<1>23. BinsOK'
  <2> SUFFICES ASSUME NEW q \in Owners, q \notin torn'
               PROVE  BinsAt(q)'
    BY DEF BinsOK
  <2>1. BinsAt(q) /\ Home(q) \in Homes
    BY <1>3, OwnerFacts DEF BinsOK
  <2>2. QED BY <1>3, <1>9, <1>19, <2>1, FewerBins
<1>24. Rec(o)' \cap Unhanded(Home(o))' = {}
  <2>1. CASE harness[h] = "kimi"
    BY <1>1, <1>20, <2>1 DEF Unhanded
  <2>2. CASE harness[h] # "kimi"
    <3>1. Rec(o)' = Cur[o].regs /\ Plugin \notin Cur[o].regs
      BY <1>1, <1>5, <1>6, <1>21, <2>2 DEF Here, KindOK, Fits
    <3>2. Cur[o].regs \subseteq ss
      BY <1>2, <1>5, <2>2, <3>1 DEF RemoveOK
    <3>3. QED BY <1>1, <1>11, <1>20, <2>2, <3>1, <3>2 DEF Unhanded
  <2>3. QED BY <2>1, <2>2
<1>25. RemoveOK'
  <2>1. \A q \in Owners : (q \notin run.own \/ run.cmd = "drop") => run.doomed \cap (Cur'[q]).bins = {}
    BY <1>5, <1>9 DEF RemoveOK
  <2>2. \A p \in run.todo : run.mf[p] = Cur'[p] /\ (Cur'[p]).regs \ {Plugin} \subseteq run.want[p]
    BY <1>5, <1>9 DEF RemoveOK
  <2>3. Rec(run.at)' \cap Unhanded(Home(run.at))' = {}
    BY <1>7, <1>24 DEF Rec, Unhanded
  <2>4. QED BY <1>7, <1>24, <2>1, <2>2, <2>3 DEF RemoveOK
<1>26. ApplyOK' /\ PlanOK' /\ RestoredOK'
  BY <1>7, <1>8 DEF ApplyOK, PlanOK, RestoredOK
<1>27. QED BY <1>15, <1>16, <1>17, <1>18, <1>22, <1>23, <1>25, <1>26

\* Restored settings are what the person wrote, whether or not a record is left.
LEMMA RestoreKeysKeeps ==
  ASSUME IInv, run # Idle, RestoreKeys
  PROVE  IInv'
<1> USE DEF IInv
<1>1. PICK o : o = run.at
  OBVIOUS
<1>2. PICK h : h = Home(o)
  OBVIOUS
<1>3. PICK m : m = run.mf[o]
  OBVIOUS
<1>4. PICK reads \in BOOLEAN :
        /\ model' = [model EXCEPT ![h] =
             IF reads /\ m.model # NoRecord THEN Restore(@, m.model) ELSE @]
        /\ allow' = [allow EXCEPT ![h] =
             IF reads /\ m.allow # NoRecord THEN Restore(@, m.allow) ELSE @]
        /\ run' = [run EXCEPT !.phase = "delete",
                     !.restored = reads \/ (m.model = NoRecord /\ m.allow = NoRecord)]
  BY <1>1, <1>2, <1>3 DEF RestoreKeys, Reads
<1>5. run.phase = "restore" /\ UNCHANGED <<harness, cli, bins, manifests, mine, handed, kept, torn>>
  BY DEF RestoreKeys
<1>6. /\ ~Applying /\ run \in Removals(run.own) /\ run.own \subseteq Owners
      /\ run.todo \subseteq run.own /\ o \in run.own /\ o \in Owners
  BY <1>1, <1>5, RunFacts
<1>7. h \in Homes /\ o \in run.todo /\ m = Cur[o]
  BY <1>1, <1>2, <1>3, <1>5, <1>6, OwnerFacts DEF RemoveOK
<1>8. PICK restored : restored = (reads \/ (m.model = NoRecord /\ m.allow = NoRecord))
  OBVIOUS
<1>9. run' = [run EXCEPT !.phase = "delete", !.restored = restored] /\ restored \in BOOLEAN
  BY <1>4, <1>8
<1>10. /\ run' \in Removals(run.own) /\ run'.own = run.own /\ run'.mf = run.mf /\ run'.cmd = run.cmd
       /\ run'.phase = "delete" /\ run'.todo = run.todo /\ run'.want = run.want
       /\ run'.doomed = run.doomed /\ run'.at = run.at /\ run'.restored = restored
  BY <1>6, <1>9 DEF Removals
<1>11. run' # Idle /\ ~Applying'
  BY <1>6, <1>10, NoneAssumption DEF NoneAssumption, Applying
<1>12. Cur' = Cur
  <2>1. \A q \in Owners : Cur'[q] = Prior(q) /\ Cur[q] = Prior(q)
    BY <1>5, <1>6, <1>11, SamePrior DEF Cur
  <2>2. QED BY <2>1 DEF Cur
<1>13. m \in Manifest /\ m.model \in {NoRecord} \cup ModelRecords /\ m.allow \in {NoRecord} \cup AllowRecords
  BY <1>6, <1>7, CurFacts DEF Manifest
<1>14. model[h] \in ModelValues /\ allow[h] \in AllowValues
  BY <1>7 DEF TypeOK, AllowValues
<1>15. model'[h] = IF reads THEN Undone(model[h], m.model) ELSE model[h]
  BY <1>4, <1>7 DEF TypeOK, Undone
<1>16. model'[h] \in ModelValues /\ Undone(model'[h], m.model) = Undone(model[h], m.model)
  BY <1>13, <1>14, <1>15, RestoreModelFacts DEF Undone
<1>17. allow'[h] \in AllowValues /\ Entries(allow'[h]) = Entries(allow[h]) \ (IF reads THEN Added(m.allow) ELSE {})
  <2>1. allow'[h] = IF reads /\ m.allow # NoRecord THEN Restore(allow[h], m.allow) ELSE allow[h]
    BY <1>4, <1>7 DEF TypeOK
  <2>2. QED BY <1>13, <1>14, <2>1, RestoreAllowFacts DEF Added
<1>18. TypeOK'
  <2>1. model' \in [Homes -> ModelValues] /\ allow' \in [Homes -> {Absent} \cup SUBSET Named]
    BY <1>4, <1>7, <1>16, <1>17 DEF TypeOK, AllowValues
  <2>2. QED BY <1>5, <1>6, <1>10, <2>1 DEF TypeOK, InUse
<1>19. RunOK'
  BY <1>5, <1>6, <1>10 DEF RunOK, InUse
<1>20. KindOK'
  BY <1>5, <1>12, KindKept, SamePrior
<1>21. Added(m.allow) \subseteq AddedHere(h)
  BY <1>2, <1>6, <1>7 DEF AddedHere, Here
<1>22. o[2] = "kit" => ModelRec(h) = m.model
  BY <1>2, <1>6, <1>7, OwnerFacts DEF ModelRec
<1>23. o[2] # "kit" => m.model = NoRecord
  BY <1>6, <1>7, OwnerFacts DEF KindOK, Fits, Owners
<1>24. SettingsOK'
  <2> SUFFICES ASSUME NEW g \in Homes, Untorn(g)'
               PROVE  SettingsAt(g)'
    BY DEF SettingsOK
  <2>1. SettingsAt(g)
    BY <1>5 DEF SettingsOK, Untorn, Here
  <2>2. CASE g # h
    BY <1>4, <1>5, <1>12, <2>1, <2>2, SameSettings DEF TypeOK
  <2>3. CASE g = h
    <3>1. ModelRec(h)' = ModelRec(h) /\ AddedHere(h)' = AddedHere(h)
      BY <1>7, <1>12, SameRecords
    <3>2. Undone(model'[h], ModelRec(h)') = Undone(model[h], ModelRec(h))
      <4>1. CASE o[2] = "kit"
        BY <1>16, <1>22, <3>1, <4>1
      <4>2. CASE o[2] # "kit"
        BY <1>15, <1>23, <3>1, <4>2 DEF Undone
      <4>3. QED BY <4>1, <4>2
    <3>3. Entries(allow'[h]) \ AddedHere(h)' = (Entries(allow[h]) \ AddedHere(h)) \ {}
      BY <1>17, <1>21, <3>1
    <3>4. QED BY <1>5, <1>7, <2>1, <2>3, <3>2, <3>3, SettingsLess
  <2>4. QED BY <2>2, <2>3
<1>25. RegsOK'
  BY <1>5, <1>12, SameRegs DEF RegsOK, Untorn, Here
<1>26. BinsOK'
  BY <1>5, <1>12, SameBins DEF BinsOK
<1>27. RemoveOK'
  <2>1. \A q \in Owners : (q \notin run.own \/ run.cmd = "drop") => run.doomed \cap (Cur'[q]).bins = {}
    BY <1>6, <1>12 DEF RemoveOK
  <2>2. \A p \in run.todo : run.mf[p] = Cur'[p] /\ (Cur'[p]).regs \ {Plugin} \subseteq run.want[p]
    BY <1>6, <1>12 DEF RemoveOK
  <2>3. Rec(run.at)' = Rec(run.at) /\ Unhanded(Home(run.at))' = Unhanded(Home(run.at))
    BY <1>5, <1>10, <1>12 DEF Rec, Unhanded
  <2>4. run'.at = run.at /\ Rec(run.at) \cap Unhanded(Home(run.at)) = {}
    BY <1>5, <1>6, <1>10 DEF RemoveOK
  <2>5. Rec(run.at)' \cap Unhanded(Home(run.at))' = {}
    BY <2>3, <2>4
  <2>6. QED BY <1>1, <1>7, <1>10, <2>1, <2>2, <2>5 DEF RemoveOK
<1>28. RestoredOK'
  <2> SUFFICES ASSUME restored, Untorn(h)'
               PROVE  /\ o[2] = "kit" => model'[h] = mine'[h].model
                      /\ Entries(allow'[h]) \cap Added((Cur'[o]).allow) = {}
    BY <1>1, <1>2, <1>10 DEF RestoredOK, Untorn, Here
  <2>1. SettingsAt(h)
    BY <1>5, <1>7 DEF SettingsOK, Untorn, Here
  <2>2. o[2] = "kit" => model'[h] = mine[h].model
    BY <1>8, <1>15, <1>22, <2>1 DEF SettingsAt, Undone
  <2>3. Entries(allow'[h]) \cap Added(m.allow) = {}
    BY <1>8, <1>17 DEF Added
  <2>4. QED BY <1>5, <1>7, <1>12, <2>2, <2>3
<1>29. ApplyOK' /\ PlanOK'
  BY <1>10, <1>11 DEF ApplyOK, PlanOK
<1>30. QED BY <1>18, <1>19, <1>20, <1>24, <1>25, <1>26, <1>27, <1>28, <1>29

-----------------------------------------------------------------------------
(***************************************************************************)
(* Retiring.                                                               *)
(***************************************************************************)
LEMMA ThroughFacts ==
  ASSUME NEW w, NEW r \in Applications(w), NEW o, NEW next \in {"binaries", "fetch"},
         NEW t, t = Through(r, o, next)
  PROVE  /\ t \in Applications(w)
         /\ t.own = w /\ t.cmd = r.cmd /\ t.at = r.at /\ t.mf = r.mf /\ t.gone = r.gone
         /\ t.plan = r.plan /\ t.got = r.got /\ t.pref = r.pref /\ t.want = r.want
         /\ r.todo = {o} => t.phase = next /\ t.todo = w
         /\ r.todo # {o} => t.phase = r.phase /\ t.todo = r.todo \ {o}
<1>1. r.own = w
  BY DEF Applications
<1>2. CASE r.todo = {o}
  BY <1>1, <1>2 DEF Through, Applications
<1>3. CASE r.todo # {o}
  BY <1>1, <1>3 DEF Through, Applications
<1>4. QED BY <1>2, <1>3

\* Fewer registrations fit as well.
LEMMA FewerFit ==
  ASSUME NEW o, NEW m, NEW n, Fits(o, m), n.model = m.model, n.regs \subseteq m.regs
  PROVE  Fits(o, n)
BY DEF Fits

\* What a step of an application knows of its run.
LEMMA ApplyFacts ==
  ASSUME IInv, run # Idle, Applying, NEW o \in run.todo
  PROVE  /\ run \in Applications(run.own) /\ run.own \subseteq Owners /\ run.todo \subseteq run.own
         /\ o \in run.own /\ o \in Owners /\ Home(o) \in Homes /\ Home(o) \in InUse
         /\ run.mf[o] = Cur[o] /\ Cur[o] \in Manifest
         /\ run.mf \in [run.own -> Manifest]
<1> USE DEF IInv
<1>1. run \in Applications(run.own) /\ run.own \subseteq Owners /\ run.todo \subseteq run.own
      /\ run.mf \in [run.own -> Manifest]
  BY RunFacts
<1>2. o \in run.own /\ o \in Owners
  BY <1>1
<1>3. Home(o) \in Homes /\ Home(o) \in InUse
  BY <1>2, OwnerFacts DEF RunOK
<1>4. run.mf[o] = Cur[o]
  BY <1>2 DEF Cur
<1>5. QED BY <1>1, <1>2, <1>3, <1>4, CurFacts

\* The records after a step that changed the run's record of o to m.
LEMMA RecordOf ==
  ASSUME IInv, run # Idle, Applying, NEW o \in run.own, NEW m \in Manifest,
         run' # Idle, Applying', run'.own = run.own, run'.mf = [run.mf EXCEPT ![o] = m],
         manifests' \in {manifests, [manifests EXCEPT ![o] = m]}
  PROVE  /\ Cur'[o] = m
         /\ \A q \in Owners : q # o => Cur'[q] = Cur[q] /\ Prior(q)' = Prior(q)
         /\ manifests' = manifests => Prior(o)' = Prior(o)
         /\ manifests' # manifests => Prior(o)' = m
         /\ manifests' \in [Owners -> {NoManifest} \cup Manifest]
<1> USE DEF IInv
<1>1. run.own \subseteq Owners /\ run.mf \in [run.own -> Manifest]
  BY RunFacts
<1>2. m # NoManifest
  BY NoneAssumption DEF NoneAssumption
<1>3. manifests \in [Owners -> {NoManifest} \cup Manifest]
  BY DEF TypeOK
<1>4. \A q \in Owners : q # o => Prior(q)' = Prior(q)
  BY <1>3 DEF Prior
<1>5. /\ manifests' = manifests => Prior(o)' = Prior(o)
      /\ manifests' # manifests => Prior(o)' = m
      /\ manifests' \in [Owners -> {NoManifest} \cup Manifest]
  BY <1>1, <1>2, <1>3 DEF Prior
<1>6. \A q \in Owners : Cur'[q] = IF q \in run.own THEN (run'.mf)[q] ELSE Prior(q)'
  BY DEF Cur
<1>7. \A q \in Owners : Cur[q] = IF q \in run.own THEN run.mf[q] ELSE Prior(q)
  BY DEF Cur
<1>8. QED BY <1>1, <1>4, <1>5, <1>6, <1>7

\* What is left of a record and of its entries when part of them is restored.
LEMMA RevertedFacts ==
  ASSUME NEW rec \in {NoRecord} \cup AllowRecords, NEW cur \in AllowValues, NEW part, part \subseteq Added(rec)
  PROVE  /\ Settled(rec, part) \in {NoRecord} \cup AllowRecords
         /\ Added(Settled(rec, part)) = Added(rec) \ part
         /\ Reverted(cur, rec, part) \in AllowValues
         /\ Entries(Reverted(cur, rec, part)) = Entries(cur) \ part
<1>1. CASE part = {}
  BY <1>1 DEF Settled, Reverted
<1>2. CASE part # {}
  <2>1. rec \in AllowRecords /\ Added(rec) = rec.added
    BY <1>2 DEF Added
  <2>2. Settled(rec, part) = SettleKey(rec, part)
        /\ Reverted(cur, rec, part) = Restore(cur, [rec EXCEPT !.added = part])
    BY <1>2 DEF Settled, Reverted
  <2>3. QED BY <1>2, <2>1, <2>2, SettleFacts, PartFacts
<1>3. QED BY <1>1, <1>2

\* Of the retired servers none that is gone is registered, and their approvals are restored.
LEMMA RetireServersKeeps ==
  ASSUME IInv, run # Idle, NEW o \in run.todo, RetireServers(o)
  PROVE  IInv'
<1> USE DEF IInv
<1>1. PICK h : h = Home(o)
  OBVIOUS
<1>2. PICK p : p = run.plan[o]
  OBVIOUS
<1>3. PICK m : m = run.mf[o]
  OBVIOUS
<1>4. PICK out \in RemovalOutcomes(h, p.registered), U \in OrNone("file", p.part),
           unplugged \in OrNone("step", p.plugin) : RetireWith(o, out, U, unplugged)
  BY <1>1, <1>2, Zenon DEF RetireServers
<1>5. run.phase = "retire" /\ UNCHANGED <<harness, model, bins, kept, torn>>
  BY <1>4 DEF RetireServers, RetireWith
<1>6. PICK gone : gone = (p.names \ (p.registered \cup p.plugin))
                          \cup out.removed \cup out.refused \cup unplugged
  OBVIOUS
<1>7. PICK m1 : m1 = [m EXCEPT !.allow = Settled(@, U), !.regs = @ \ gone]
  OBVIOUS
<1>8. /\ allow' = [allow EXCEPT ![h] = WithoutTables(h, Reverted(@, m.allow, U), out.removed)]
      /\ mine' = Forget(h, out.removed)
      /\ cli' = [cli EXCEPT ![h] = @ \ (out.removed \cup unplugged)]
      /\ handed' = [handed EXCEPT ![h] = @ \cup out.manual \cup (out.refused \cap cli[h])]
      /\ run' = Through([run EXCEPT !.mf[o] = m1, !.gone[o] = gone], o, "binaries")
      /\ manifests' = IF run.cmd = "mcp" /\ p.names # {}
                      THEN [manifests EXCEPT ![o] = m1] ELSE manifests
  BY ONLY <1>1, <1>2, <1>3, <1>4, <1>6, <1>7 DEF RetireWith
<1>9. Applying
  BY <1>5, RunFacts
<1>10. /\ run \in Applications(run.own) /\ run.own \subseteq Owners /\ run.todo \subseteq run.own
       /\ o \in run.own /\ o \in Owners /\ h \in Homes /\ h \in InUse
       /\ m = Cur[o] /\ m \in Manifest /\ run.mf \in [run.own -> Manifest]
  BY <1>1, <1>3, <1>9, ApplyFacts
<1>11. /\ run.plan \in [run.own -> Plans] /\ run.gone \in [run.own -> SUBSET Servers]
       /\ p.plugin \subseteq p.names /\ p.registered \subseteq p.names /\ p.part \subseteq p.names
  BY <1>2, <1>5, <1>9, <1>10 DEF ApplyOK
<1>12. U \in {p.part, {}} /\ unplugged \in {p.plugin, {}}
  BY <1>4 DEF OrNone
<1>13. p \in Plans /\ p.names \subseteq Servers
  BY <1>2, <1>10, <1>11 DEF Plans
<1>14. /\ p.registered = p.names \cap m.regs /\ p.part \subseteq Added(m.allow)
       /\ p.plugin = IF Plugin \in m.regs THEN p.names \cap cli[h] ELSE {}
  <2>1. IsPlanned(o)
    BY <1>5, <1>9, <1>10 DEF PlanOK, Retired
  <2>2. QED BY <1>1, <1>2, <1>10, <2>1 DEF IsPlanned
<1>15. /\ out.removed \subseteq p.registered \cap cli[h] /\ out.refused \subseteq p.registered
       /\ out.manual \subseteq p.registered
       /\ p.registered \cap cli[h] \subseteq out.removed \cup out.refused \cup out.manual
  BY OutcomeFacts
<1>16. gone \subseteq p.names /\ Plugin \notin gone /\ unplugged \subseteq p.plugin
  BY <1>12, <1>6, <1>11, <1>13, <1>15, SetupAssumption DEF SetupAssumption
<1>17. m.allow \in {NoRecord} \cup AllowRecords /\ allow[h] \in AllowValues
  BY <1>10 DEF Manifest, TypeOK, AllowValues
<1>18. U \subseteq Added(m.allow)
  BY <1>14, <1>12
<1>19. PICK allow1 : allow1 = Reverted(allow[h], m.allow, U)
  OBVIOUS
<1>20. PICK a1 : a1 = Settled(m.allow, U)
  OBVIOUS
<1>21. a1 \in {NoRecord} \cup AllowRecords /\ Added(a1) = Added(m.allow) \ U
       /\ allow1 \in AllowValues /\ Entries(allow1) = Entries(allow[h]) \ U
  <2>1. PICK rec \in {NoRecord} \cup AllowRecords, cur \in AllowValues : rec = m.allow /\ cur = allow[h]
    BY <1>17
  <2>2. U \subseteq Added(rec)
    BY <1>18, <2>1
  <2>3. /\ Settled(rec, U) \in {NoRecord} \cup AllowRecords
        /\ Added(Settled(rec, U)) = Added(rec) \ U
        /\ Reverted(cur, rec, U) \in AllowValues
        /\ Entries(Reverted(cur, rec, U)) = Entries(cur) \ U
    BY ONLY <2>2, RevertedFacts
  <2>4. QED BY ONLY <1>19, <1>20, <2>1, <2>3
<1>22. m1 \in Manifest /\ m1.allow = a1 /\ m1.regs = m.regs \ gone /\ m1.bins = m.bins /\ m1.model = m.model
  BY <1>20, <1>7, <1>10, <1>21 DEF Manifest
<1>23. PICK r : r = [run EXCEPT !.mf[o] = m1, !.gone[o] = gone]
  OBVIOUS
<1>24. PICK G : G = [run.gone EXCEPT ![o] = gone]
  OBVIOUS
<1>25. PICK M : M = [run.mf EXCEPT ![o] = m1]
  OBVIOUS
<1>26. G \in [run.own -> SUBSET Servers] /\ M \in [run.own -> Manifest]
  BY <1>10, <1>11, <1>13, <1>16, <1>22, <1>24, <1>25
<1>27. r = [run EXCEPT !.mf = M, !.gone = G]
  BY <1>10, <1>23, <1>24, <1>25 DEF Applications
<1>28. r \in Applications(run.own) /\ r.mf = M /\ r.gone = G /\ r.cmd = run.cmd /\ r.at = run.at
       /\ r.plan = run.plan /\ r.got = run.got /\ r.pref = run.pref /\ r.todo = run.todo /\ r.phase = run.phase
  BY <1>10, <1>26, <1>27 DEF Applications
<1>29. run' = Through(r, o, "binaries")
  BY <1>8, <1>23
<1>30. /\ run' \in Applications(run.own) /\ run'.own = run.own /\ run'.cmd = run.cmd /\ run'.at = run.at
       /\ run'.mf = M /\ run'.gone = G /\ run'.plan = run.plan /\ run'.got = run.got /\ run'.pref = run.pref
       /\ run.todo = {o} => run'.phase = "binaries" /\ run'.todo = run.own
       /\ run.todo # {o} => run'.phase = "retire" /\ run'.todo = run.todo \ {o}
  <2>1. PICK t : t = Through(r, o, "binaries")
    OBVIOUS
  <2>2. /\ t \in Applications(run.own) /\ t.own = run.own /\ t.cmd = r.cmd /\ t.at = r.at
        /\ t.mf = r.mf /\ t.gone = r.gone /\ t.plan = r.plan /\ t.got = r.got /\ t.pref = r.pref
        /\ r.todo = {o} => t.phase = "binaries" /\ t.todo = run.own
        /\ r.todo # {o} => t.phase = r.phase /\ t.todo = r.todo \ {o}
    BY ONLY <1>28, <2>1, ThroughFacts
  <2>3. QED BY <1>5, <1>28, <1>29, <2>1, <2>2
<1>31. run' # Idle /\ Applying'
  BY <1>9, <1>10, <1>30, NoneAssumption DEF NoneAssumption, Applying
<1>32. /\ Cur'[o] = m1
       /\ \A q \in Owners : q # o => Cur'[q] = Cur[q] /\ Prior(q)' = Prior(q)
       /\ manifests' = manifests => Prior(o)' = Prior(o)
       /\ manifests' # manifests => Prior(o)' = m1
       /\ manifests' \in [Owners -> {NoManifest} \cup Manifest]
  <2>1. manifests' \in {manifests, [manifests EXCEPT ![o] = m1]}
    BY <1>8
  <2>2. QED BY <1>9, <1>10, <1>22, <1>25, <1>30, <1>31, <2>1, RecordOf
<1>33. PICK X : X = IF harness[h] = "codex" THEN out.removed ELSE {}
  OBVIOUS
<1>34. allow'[h] \in AllowValues /\ Entries(allow'[h]) = (Entries(allow[h]) \ U) \ X
  <2>1. allow'[h] = WithoutTables(h, allow1, out.removed)
    BY <1>19, <1>10, <1>8 DEF TypeOK
  <2>2. /\ WithoutTables(h, allow1, out.removed) \in AllowValues
        /\ Entries(WithoutTables(h, allow1, out.removed)) = Entries(allow1) \ X
    BY ONLY <1>21, <1>33, TablesFacts
  <2>3. QED BY <1>21, <2>1, <2>2
<1>35. /\ mine' \in [Homes -> [model : ModelValues, items : SUBSET Named]]
       /\ \A g \in Homes : (mine'[g]).model = mine[g].model
       /\ \A g \in Homes : g # h => mine'[g] = mine[g]
       /\ (mine'[h]).items = mine[h].items \ X
  BY <1>10, <1>8, <1>33, ForgetFacts
<1>36. cli'[h] = cli[h] \ (out.removed \cup unplugged)
       /\ handed'[h] = handed[h] \cup out.manual \cup (out.refused \cap cli[h])
  BY <1>10, <1>8 DEF TypeOK
<1>37. \A g \in Homes : /\ g # h => cli'[g] = cli[g] /\ handed'[g] = handed[g] /\ kept'[g] = kept[g]
                        /\ cli'[g] \subseteq cli[g] /\ Unhanded(g)' \subseteq Unhanded(g)
  BY <1>5, <1>10, <1>8 DEF Unhanded, TypeOK
<1>38. TypeOK'
  <2>1. allow' \in [Homes -> {Absent} \cup SUBSET Named]
    BY <1>10, <1>8, <1>34 DEF TypeOK, AllowValues
  <2>2. cli' \in [Homes -> SUBSET Servers]
    BY <1>10, <1>8 DEF TypeOK
  <2>3. handed' \in [Homes -> SUBSET Servers]
    BY <1>10, <1>8, <1>11, <1>13, <1>15 DEF TypeOK
  <2>4. QED BY <1>5, <1>10, <1>30, <1>32, <1>35, <2>1, <2>2, <2>3 DEF TypeOK, InUse
<1>39. RunOK'
  BY <1>5, <1>10, <1>30 DEF RunOK, InUse
<1>40. KindOK'
  <2> SUFFICES ASSUME NEW q \in Owners
               PROVE  Fits(q, Cur[q])' /\ Fits(q, Prior(q))'
    BY DEF KindOK
  <2>1. Fits(q, Cur[q]) /\ Fits(q, Prior(q))
    BY DEF KindOK
  <2>2. PICK c : c = Cur'[q]
    OBVIOUS
  <2>3. PICK n : n = Prior(q)'
    OBVIOUS
  <2>4. q = o => Fits(q, m1)
    BY <1>10, <1>22, <2>1, FewerFit
  <2>5. Fits(q, c) /\ Fits(q, n)
    BY <1>32, <2>1, <2>2, <2>3, <2>4
  <2>6. Fits(q, Cur[q])'
    BY <1>5, <2>2, <2>5 DEF Fits, InUse
  <2>7. Fits(q, Prior(q))'
    BY <1>5, <2>3, <2>5 DEF Fits, InUse
  <2>8. QED BY <2>6, <2>7
<1>41. SettingsOK'
  <2> SUFFICES ASSUME NEW g \in Homes, Untorn(g)'
               PROVE  SettingsAt(g)'
    BY DEF SettingsOK
  <2>1. SettingsAt(g)
    BY <1>5 DEF SettingsOK, Untorn, Here
  <2>2. CASE g # h
    <3>1. \A q \in Here(g) : Cur'[q] = Cur[q]
      BY <1>1, <1>32, <2>2 DEF Here
    <3>2. QED BY <1>5, <1>8, <1>35, <2>1, <2>2, <3>1, SameSettings DEF TypeOK
  <2>3. CASE g = h
    <3>1. ModelRec(h)' = ModelRec(h)
      <4>1. \A q \in Owners : (Cur'[q]).model = Cur[q].model
        BY <1>10, <1>22, <1>32
      <4>2. QED BY <4>1, OwnerFacts DEF ModelRec
    <3>2. Undone(model'[h], ModelRec(h)') = Undone(model[h], ModelRec(h))
      BY <1>5, <3>1
    <3>3. /\ AddedHere(h)' \subseteq AddedHere(h) /\ AddedHere(h) \subseteq AddedHere(h)' \cup U
          /\ U \subseteq AddedHere(h)
      <4>1. \A q \in Here(h) : Added((Cur'[q]).allow) = IF q = o THEN Added(Cur[q].allow) \ U ELSE Added(Cur[q].allow)
        BY <1>10, <1>21, <1>22, <1>32 DEF Here
      <4>2. Here(h)' = Here(h) /\ o \in Here(h)
        BY <1>1, <1>10 DEF Here
      <4>3. AddedHere(h)' = UNION {Added((Cur'[q]).allow) : q \in Here(h)}
        BY <4>2 DEF AddedHere
      <4>4. AddedHere(h) = UNION {Added(Cur[q].allow) : q \in Here(h)}
        BY DEF AddedHere
      <4>5. QED BY <1>10, <1>18, <4>1, <4>2, <4>3, <4>4
    <3>4. Entries(allow'[h]) \ AddedHere(h)' = (Entries(allow[h]) \ AddedHere(h)) \ X
      BY <1>34, <3>3
    <3>5. QED BY <1>10, <1>35, <2>1, <2>3, <3>2, <3>4, SettingsLess
  <2>4. QED BY <2>2, <2>3
<1>42. Plugin \in m1.regs <=> Plugin \in m.regs
  BY <1>16, <1>22
<1>43. RegsOK'
  <2> SUFFICES ASSUME NEW g \in Homes, Untorn(g)'
               PROVE  RegsAt(g)'
    BY DEF RegsOK
  <2>1. RegsAt(g)
    BY <1>5 DEF RegsOK, Untorn, Here
  <2>2. CASE g # h
    <3>1. \A q \in Here(g) : Cur'[q] = Cur[q]
      BY <1>1, <1>32, <2>2 DEF Here
    <3>2. QED BY <1>37, <2>1, <2>2, <3>1, SameRegs
  <2>3. CASE g = h
    <3>1. Here(h)' = Here(h) /\ o \in Here(h)
      BY <1>1, <1>10 DEF Here
    <3>2. \A x \in Unhanded(h)' : \E q \in Here(h) : x \in Rec(q)'
      <4> SUFFICES ASSUME NEW x \in Unhanded(h)'
                   PROVE  \E q \in Here(h) : x \in Rec(q)'
        OBVIOUS
      <4>1. x \in cli'[h] /\ x \notin handed'[h] /\ x \in Unhanded(h)
        BY <1>10, <1>37 DEF Unhanded
      <4>2. PICK q \in Here(h) : x \in Rec(q)
        BY <2>1, <2>3, <4>1 DEF RegsAt
      <4>3. CASE q # o
        BY <1>32, <4>1, <4>2, <4>3 DEF Rec, Here
      <4>4. CASE q = o /\ Plugin \in m.regs
        BY <1>1, <1>32, <1>42, <4>1, <4>2, <4>4 DEF Rec
      <4>5. CASE q = o /\ Plugin \notin m.regs
        <5>1. x \in m.regs
          BY <1>10, <4>2, <4>5 DEF Rec
        <5>2. x \notin p.names
          BY <1>14, <1>15, <1>36, <4>1, <5>1 DEF Unhanded
        <5>3. x \in m1.regs
          BY <1>16, <1>22, <5>1, <5>2
        <5>4. QED BY <1>32, <1>42, <4>2, <4>5, <5>3 DEF Rec
      <4>6. QED BY <4>3, <4>4, <4>5
    <3>3. QED BY <2>3, <3>1, <3>2 DEF RegsAt
  <2>4. QED BY <2>2, <2>3
<1>44. BinsOK'
  <2> SUFFICES ASSUME NEW q \in Owners, q \notin torn'
               PROVE  BinsAt(q)'
    BY DEF BinsOK
  <2>1. BinsAt(q) /\ Home(q) \in Homes
    BY <1>5, OwnerFacts DEF BinsOK
  <2>2. /\ (Cur'[q]).regs \subseteq Cur[q].regs /\ (Cur'[q]).bins \subseteq Cur[q].bins
        /\ Plugin \in (Cur'[q]).regs <=> Plugin \in Cur[q].regs
    BY <1>10, <1>22, <1>32, <1>42
  <2>3. QED BY <1>5, <1>37, <2>1, <2>2, FewerBins
<1>45. ApplyOK'
  <2>1. run.cmd = "mcp" => run.pref = "leave" /\ \A q \in run.own : Cur'[q] = Prior(q)'
    <3> SUFFICES ASSUME run.cmd = "mcp", NEW q \in run.own
                 PROVE  run.pref = "leave" /\ Cur'[q] = Prior(q)'
      BY <1>9, <1>10 DEF ApplyOK
    <3>1. run.pref = "leave" /\ Cur[q] = Prior(q)
      BY <1>5, <1>9 DEF ApplyOK
    <3>2. CASE q # o
      BY <1>10, <1>32, <3>1, <3>2
    <3>3. CASE q = o /\ p.names # {}
      <4>1. manifests' = [manifests EXCEPT ![o] = m1]
        BY <1>8, <3>3
      <4>2. Prior(o)' = m1
        BY <1>10, <1>22, <4>1, NoneAssumption DEF NoneAssumption, Prior, TypeOK
      <4>3. QED BY <1>32, <3>1, <3>3, <4>2
    <3>4. CASE q = o /\ p.names = {}
      <4>1. manifests' = manifests /\ gone = {} /\ a1 = m.allow
        BY <1>20, <1>8, <1>11, <1>16, <1>12, <3>4 DEF Settled
      <4>2. m1 = m
        BY <1>20, <1>7, <1>10, <4>1 DEF Manifest
      <4>3. QED BY <1>10, <1>32, <3>1, <3>4, <4>1, <4>2
    <3>5. QED BY <3>2, <3>3, <3>4
  <2>2. run'.phase \in {"retire", "binaries"}
    BY <1>30
  <2>3. /\ run.plan \in [run.own -> Plans] /\ G \in [run.own -> SUBSET Servers]
        /\ \A q \in run.own :
              /\ run.plan[q].plugin \subseteq run.plan[q].names
              /\ run.plan[q].registered \subseteq run.plan[q].names
              /\ run.plan[q].part \subseteq run.plan[q].names
    BY <1>5, <1>9, <1>26 DEF ApplyOK
  <2>4. QED BY <1>30, <1>31, <2>1, <2>2, <2>3 DEF ApplyOK
<1>46. PlanOK'
  <2>1. NotOthers /\ Together /\ \A q \in run.own : IF Retired(q) THEN IsGone(q) ELSE IsPlanned(q)
    BY <1>5, <1>9 DEF PlanOK
  <2>2. \A q \in Owners : (Cur'[q]).bins = Cur[q].bins
    BY <1>10, <1>22, <1>32
  <2>3. NotOthers'
    BY <1>30, <2>1, <2>2 DEF NotOthers
  <2>4. Together'
    BY <1>10, <1>30, <2>1, <2>2 DEF Together
  <2>5. ASSUME NEW q \in run.own
        PROVE  IF Retired(q)' THEN IsGone(q)' ELSE IsPlanned(q)'
    <3>1. CASE q # o
      <4>1. Home(q) # h /\ q \in Owners /\ Home(q) \in Homes
        BY <1>1, <1>10, <3>1, OwnerFacts DEF RunOK
      <4>2. Cur'[q] = Cur[q] /\ cli'[Home(q)] = cli[Home(q)] /\ Unhanded(Home(q))' = Unhanded(Home(q))
        BY <1>32, <1>37, <3>1, <4>1 DEF Unhanded
      <4>3. Rec(q)' = Rec(q)
        BY <4>2 DEF Rec
      <4>4. Retired(q)' <=> Retired(q)
        BY <1>5, <1>30, <3>1 DEF Retired
      <4>5. G[q] = run.gone[q]
        BY <1>11, <1>24, <3>1
      <4>6. IsGone(q) => IsGone(q)'
        BY <1>30, <4>2, <4>3, <4>5 DEF IsGone
      <4>7. IsPlanned(q) => IsPlanned(q)'
        BY <1>30, <4>2 DEF IsPlanned
      <4>8. QED BY <2>1, <4>4, <4>6, <4>7
    <3>2. CASE q = o
      <4>1. Retired(o)'
        BY <1>30 DEF Retired
      <4>2. G[o] = gone
        BY <1>10, <1>11, <1>24
      <4>3. gone \cap Rec(o)' \cap Unhanded(h)' = {}
        <5> SUFFICES ASSUME NEW x \in gone, x \in Rec(o)', x \in cli'[h], x \notin handed'[h]
                     PROVE  FALSE
          BY DEF Unhanded
        <5>1. x \notin out.removed /\ x \notin unplugged /\ x \notin out.refused /\ x \in cli[h]
          BY <1>36
        <5>2. x \in p.names \ p.plugin
          BY <1>6, <5>1
        <5>3. Plugin \notin m.regs
          BY <1>14, <5>1, <5>2
        <5>4. Rec(o)' = m.regs \ gone
          BY <1>22, <1>32, <1>42, <5>3 DEF Rec
        <5>5. QED BY <5>4
      <4>4. IsGone(o)'
        BY <1>1, <1>30, <4>2, <4>3 DEF IsGone
      <4>5. QED BY <3>2, <4>1, <4>4
    <3>3. QED BY <3>1, <3>2
  <2>6. QED BY <1>30, <2>3, <2>4, <2>5 DEF PlanOK
<1>47. RemoveOK' /\ RestoredOK'
  BY <1>30, <1>31 DEF RemoveOK, RestoredOK
<1>48. QED BY <1>38, <1>39, <1>40, <1>41, <1>43, <1>44, <1>45, <1>46, <1>47

\* A binary goes when no home has its server registered any more, or does not list it.
LEMMA RetireBinariesKeeps ==
  ASSUME IInv, run # Idle, NEW o \in run.todo, RetireBinaries(o)
  PROVE  IInv'
<1> USE DEF IInv
<1>1. PICK p : p = run.plan[o]
  OBVIOUS
<1>2. PICK m : m = run.mf[o]
  OBVIOUS
<1>3. PICK doomed : doomed = Doomed(o)
  OBVIOUS
<1>4. PICK released : released = Released(o)
  OBVIOUS
<1>5. PICK stays \in SUBSET (Doomed(o) \cap bins) :
      LET removed == Doomed(o) \ stays
          m1 == [run.mf[o] EXCEPT !.bins = @ \ (Released(o) \cup removed)]
      IN /\ stays = {} \/ May("step")
         /\ Account(stays # {})
         /\ bins' = bins \ removed
         /\ run' = Through([run EXCEPT !.mf[o] = m1], o, "fetch")
         /\ manifests' = IF run.cmd = "mcp" /\ run.plan[o].names # {}
                         THEN [manifests EXCEPT ![o] = m1] ELSE manifests
         /\ UNCHANGED <<harness, keys, cli, runs, edits, mine, handed, kept, torn>>
  BY Zenon DEF RetireBinaries
<1>6. run.phase = "binaries"
  BY DEF RetireBinaries
<1>7. PICK gonebins : gonebins = doomed \ stays
  OBVIOUS
<1>8. PICK m1 : m1 = [m EXCEPT !.bins = @ \ (released \cup gonebins)]
  OBVIOUS
<1>9. /\ bins' = bins \ gonebins
      /\ run' = Through([run EXCEPT !.mf[o] = m1], o, "fetch")
      /\ manifests' = IF run.cmd = "mcp" /\ p.names # {} THEN [manifests EXCEPT ![o] = m1] ELSE manifests
      /\ UNCHANGED <<harness, model, allow, cli, mine, handed, kept, torn>>
  BY ONLY <1>1, <1>2, <1>3, <1>4, <1>5, <1>7, <1>8 DEF keys
<1>10. Applying
  BY <1>6, RunFacts
<1>11. /\ run \in Applications(run.own) /\ run.own \subseteq Owners /\ run.todo \subseteq run.own
       /\ o \in run.own /\ o \in Owners
       /\ m = Cur[o] /\ m \in Manifest /\ run.mf \in [run.own -> Manifest]
  BY <1>2, <1>10, ApplyFacts
<1>12. /\ run.plan \in [run.own -> Plans] /\ run.gone \in [run.own -> SUBSET Servers]
  BY <1>6, <1>10 DEF ApplyOK
<1>13. m1 \in Manifest /\ m1.allow = m.allow /\ m1.regs = m.regs /\ m1.model = m.model
       /\ m1.bins = m.bins \ (released \cup gonebins)
  BY <1>8, <1>11 DEF Manifest
<1>14. PICK r : r = [run EXCEPT !.mf[o] = m1]
  OBVIOUS
<1>15. PICK M : M = [run.mf EXCEPT ![o] = m1]
  OBVIOUS
<1>16. M \in [run.own -> Manifest]
  BY <1>11, <1>13, <1>15
<1>17. r = [run EXCEPT !.mf = M]
  BY <1>11, <1>14, <1>15 DEF Applications
<1>18. r \in Applications(run.own) /\ r.mf = M /\ r.gone = run.gone /\ r.cmd = run.cmd /\ r.at = run.at
       /\ r.plan = run.plan /\ r.got = run.got /\ r.pref = run.pref /\ r.todo = run.todo /\ r.phase = run.phase
  BY <1>11, <1>16, <1>17 DEF Applications
<1>19. run' = Through(r, o, "fetch")
  BY <1>9, <1>14
<1>20. /\ run' \in Applications(run.own) /\ run'.own = run.own /\ run'.cmd = run.cmd /\ run'.at = run.at
       /\ run'.mf = M /\ run'.gone = run.gone /\ run'.plan = run.plan /\ run'.got = run.got /\ run'.pref = run.pref
       /\ run.todo = {o} => run'.phase = "fetch" /\ run'.todo = run.own
       /\ run.todo # {o} => run'.phase = "binaries" /\ run'.todo = run.todo \ {o}
  <2>1. PICK t : t = Through(r, o, "fetch")
    OBVIOUS
  <2>2. /\ t \in Applications(run.own) /\ t.own = run.own /\ t.cmd = r.cmd /\ t.at = r.at
        /\ t.mf = r.mf /\ t.gone = r.gone /\ t.plan = r.plan /\ t.got = r.got /\ t.pref = r.pref
        /\ r.todo = {o} => t.phase = "fetch" /\ t.todo = run.own
        /\ r.todo # {o} => t.phase = r.phase /\ t.todo = r.todo \ {o}
    BY ONLY <1>18, <2>1, ThroughFacts
  <2>3. QED BY <1>6, <1>18, <1>19, <2>1, <2>2
<1>21. run' # Idle /\ Applying'
  BY <1>10, <1>11, <1>20, NoneAssumption DEF NoneAssumption, Applying
<1>22. /\ Cur'[o] = m1
       /\ \A q \in Owners : q # o => Cur'[q] = Cur[q] /\ Prior(q)' = Prior(q)
       /\ manifests' = manifests => Prior(o)' = Prior(o)
       /\ manifests' # manifests => Prior(o)' = m1
       /\ manifests' \in [Owners -> {NoManifest} \cup Manifest]
  <2>1. manifests' \in {manifests, [manifests EXCEPT ![o] = m1]}
    BY <1>9
  <2>2. QED BY <1>10, <1>11, <1>13, <1>15, <1>20, <1>21, <2>1, RecordOf
<1>23. \A q \in Owners : /\ (Cur'[q]).regs = Cur[q].regs /\ (Cur'[q]).allow = Cur[q].allow
                         /\ (Cur'[q]).model = Cur[q].model /\ (Cur'[q]).bins \subseteq Cur[q].bins
                         /\ Rec(q)' = Rec(q)
  BY <1>9, <1>11, <1>13, <1>22 DEF Rec
<1>24. TypeOK'
  <2>1. bins' \subseteq Binaries
    BY <1>9 DEF TypeOK
  <2>2. QED BY <1>9, <1>11, <1>20, <1>22, <2>1 DEF TypeOK, InUse
<1>25. RunOK'
  BY <1>9, <1>11, <1>20 DEF RunOK, InUse
<1>26. KindOK'
  <2> SUFFICES ASSUME NEW q \in Owners
               PROVE  Fits(q, Cur[q])' /\ Fits(q, Prior(q))'
    BY DEF KindOK
  <2>1. Fits(q, Cur[q]) /\ Fits(q, Prior(q))
    BY DEF KindOK
  <2>2. PICK c : c = Cur'[q]
    OBVIOUS
  <2>3. PICK n : n = Prior(q)'
    OBVIOUS
  <2>4. q = o => Fits(q, m1)
    BY <1>11, <1>13, <2>1, FewerFit
  <2>5. Fits(q, c) /\ Fits(q, n)
    BY <1>22, <2>1, <2>2, <2>3, <2>4
  <2>6. Fits(q, Cur[q])'
    BY <1>9, <2>2, <2>5 DEF Fits, InUse
  <2>7. Fits(q, Prior(q))'
    BY <1>9, <2>3, <2>5 DEF Fits, InUse
  <2>8. QED BY <2>6, <2>7
<1>27. SettingsOK' /\ RegsOK'
  <2>1. \A h \in Homes : Untorn(h)' => Untorn(h)
    BY <1>9 DEF Untorn, Here
  <2>2. SettingsOK'
    BY <1>9, <1>23, <2>1, SameSettings DEF SettingsOK, Here
  <2>3. RegsOK'
    BY <1>9, <1>23, <2>1, SameRegs DEF RegsOK, Here
  <2>4. QED BY <2>2, <2>3
<1>28. /\ NotOthers /\ Together
       /\ \A q \in run.own : IsGone(q)
  BY <1>6, <1>10 DEF PlanOK, Retired
<1>29. BinsOK'
  <2> SUFFICES ASSUME NEW q \in Owners, q \notin torn'
               PROVE  BinsAt(q)'
    BY DEF BinsOK
  <2>1. BinsAt(q)
    BY <1>9 DEF BinsOK
  <2>2. (Cur'[q]).bins \cap Rec(q) \cap Unhanded(Home(q)) \cap gonebins = {}
    <3> SUFFICES ASSUME NEW s \in gonebins, s \in (Cur'[q]).bins, s \in Rec(q), s \in Unhanded(Home(q))
                 PROVE  FALSE
      OBVIOUS
    <3>1. s \in p.names /\ p.binary[s] = "remove" /\ s \notin Held(o)
      BY <1>1, <1>3, <1>7 DEF Doomed, Gone
    <3>2. s \in Cur[q].bins
      BY <1>23
    <3>3. CASE q = o
      BY <1>13, <1>22, <3>3
    <3>4. CASE q # o /\ q \in run.own
      <4>1. s \in run.plan[q].names /\ run.plan[q].binary[s] # "none"
        BY <1>1, <1>11, <1>28, <3>1, <3>2, <3>4 DEF Together
      <4>2. s \notin Needed(q)
        BY <3>1, <3>4 DEF Held
      <4>3. s \in run.gone[q]
        BY <4>1, <4>2 DEF Needed
      <4>4. QED BY <1>28, <3>4, <4>3 DEF IsGone
    <3>5. CASE q \notin run.own
      BY <1>1, <1>11, <1>28, <3>1, <3>2, <3>5 DEF NotOthers
    <3>6. QED BY <3>3, <3>4, <3>5
  <2>3. (Cur'[q]).bins \cap Rec(q) \cap Unhanded(Home(q)) \subseteq bins'
    BY <1>9, <1>23, <2>1, <2>2 DEF BinsAt
  <2>4. QED BY <1>9, <1>23, <2>3 DEF BinsAt, Unhanded
<1>30. ApplyOK'
  <2>1. run.cmd = "mcp" => run.pref = "leave" /\ \A q \in run.own : Cur'[q] = Prior(q)'
    <3> SUFFICES ASSUME run.cmd = "mcp", NEW q \in run.own
                 PROVE  run.pref = "leave" /\ Cur'[q] = Prior(q)'
      BY <1>10, <1>11 DEF ApplyOK
    <3>1. run.pref = "leave" /\ Cur[q] = Prior(q)
      BY <1>6, <1>10 DEF ApplyOK
    <3>2. CASE q # o
      BY <1>11, <1>22, <3>1, <3>2
    <3>3. CASE q = o /\ p.names # {}
      <4>1. manifests' = [manifests EXCEPT ![o] = m1]
        BY <1>9, <3>3
      <4>2. Prior(o)' = m1
        BY <1>11, <1>13, <4>1, NoneAssumption DEF NoneAssumption, Prior, TypeOK
      <4>3. QED BY <1>22, <3>1, <3>3, <4>2
    <3>4. CASE q = o /\ p.names = {}
      <4>1. manifests' = manifests /\ released \cup gonebins = {}
        BY <1>1, <1>3, <1>4, <1>7, <1>9, <3>4 DEF Doomed, Released, Gone
      <4>2. m1 = m
        BY <1>8, <1>11, <4>1 DEF Manifest
      <4>3. QED BY <1>11, <1>22, <3>1, <3>4, <4>1, <4>2
    <3>5. QED BY <3>2, <3>3, <3>4
  <2>2. run'.phase \in {"binaries", "fetch"}
    BY <1>20
  <2>3. /\ run.plan \in [run.own -> Plans] /\ run.gone \in [run.own -> SUBSET Servers]
        /\ \A q \in run.own :
              /\ run.plan[q].plugin \subseteq run.plan[q].names
              /\ run.plan[q].registered \subseteq run.plan[q].names
              /\ run.plan[q].part \subseteq run.plan[q].names
    BY <1>6, <1>10 DEF ApplyOK
  <2>4. QED BY <1>20, <1>21, <2>1, <2>2, <2>3 DEF ApplyOK
<1>31. PlanOK'
  <2>1. NotOthers'
    BY <1>20, <1>23, <1>28 DEF NotOthers
  <2>2. Together'
    BY <1>11, <1>20, <1>23, <1>28 DEF Together
  <2>3. ASSUME NEW q \in run.own
        PROVE  IsGone(q)'
    <3>1. Rec(q)' = Rec(q)
      BY <1>11, <1>23
    <3>2. Unhanded(Home(q))' = Unhanded(Home(q))
      BY <1>9 DEF Unhanded
    <3>3. run'.gone[q] = run.gone[q] /\ IsGone(q)
      BY <1>20, <1>28
    <3>4. QED BY ONLY <3>1, <3>2, <3>3 DEF IsGone
  <2>4. run'.phase \in {"binaries", "fetch"}
    BY <1>20
  <2>5. QED BY <1>20, <2>1, <2>2, <2>3, <2>4 DEF PlanOK, Retired
<1>32. RemoveOK' /\ RestoredOK'
  BY <1>20, <1>21 DEF RemoveOK, RestoredOK
<1>33. QED BY <1>24, <1>25, <1>26, <1>27, <1>29, <1>30, <1>31, <1>32

-----------------------------------------------------------------------------
(***************************************************************************)
(* Fetching the binaries and registering the servers.                      *)
(***************************************************************************)
LEMMA FetchKeeps ==
  ASSUME IInv, run # Idle, Fetch
  PROVE  IInv'
<1> USE DEF IInv
<1>1. PICK M : M = IF run.cmd = "mcp" THEN run.mf
                   ELSE [o \in run.own |-> [run.mf[o] EXCEPT !.bins = @ \cup run.got]]
  OBVIOUS
<1>2. /\ run.phase = "fetch" /\ bins' = bins \cup run.got
      /\ run' = [run EXCEPT !.phase = "serve", !.plan = Idle, !.gone = Idle,
                   !.mf = IF run.cmd = "mcp" THEN @
                          ELSE [o \in run.own |-> [run.mf[o] EXCEPT !.bins = @ \cup run.got]]]
      /\ UNCHANGED <<harness, model, allow, cli, manifests, mine, handed, kept, torn>>
  BY DEF Fetch, keys
<1>3. Applying
  BY <1>2, RunFacts
<1>4. run \in Applications(run.own) /\ run.own \subseteq Owners /\ run.mf \in [run.own -> Manifest]
      /\ run.got \subseteq Binaries
  BY <1>3, RunFacts DEF Applications
<1>5. run' = [run EXCEPT !.phase = "serve", !.plan = Idle, !.gone = Idle, !.mf = M]
  BY <1>1, <1>2, <1>4 DEF Applications
<1>6. /\ M \in [run.own -> Manifest]
      /\ run.cmd = "mcp" => M = run.mf
      /\ \A o \in run.own : /\ M[o].regs = run.mf[o].regs /\ M[o].model = run.mf[o].model
                            /\ M[o].allow = run.mf[o].allow
                            /\ M[o].bins \subseteq run.mf[o].bins \cup run.got
  <2>1. CASE run.cmd = "mcp"
    BY <1>1, <1>4, <2>1
  <2>2. CASE run.cmd # "mcp"
    <3>1. M = [o \in run.own |-> [run.mf[o] EXCEPT !.bins = @ \cup run.got]]
      BY <1>1, <2>2
    <3>2. \A o \in run.own : /\ [run.mf[o] EXCEPT !.bins = @ \cup run.got] \in Manifest
                             /\ [run.mf[o] EXCEPT !.bins = @ \cup run.got].regs = run.mf[o].regs
                             /\ [run.mf[o] EXCEPT !.bins = @ \cup run.got].model = run.mf[o].model
                             /\ [run.mf[o] EXCEPT !.bins = @ \cup run.got].allow = run.mf[o].allow
                             /\ [run.mf[o] EXCEPT !.bins = @ \cup run.got].bins = run.mf[o].bins \cup run.got
      BY <1>4 DEF Manifest
    <3>3. QED BY <2>2, <3>1, <3>2
  <2>3. QED BY <2>1, <2>2
<1>7. /\ run' \in Applications(run.own) /\ run'.own = run.own /\ run'.cmd = run.cmd /\ run'.at = run.at
      /\ run'.mf = M /\ run'.got = run.got /\ run'.pref = run.pref /\ run'.phase = "serve"
  BY <1>4, <1>5, <1>6 DEF Applications
<1>8. run' # Idle /\ Applying'
  BY <1>3, <1>4, <1>7, NoneAssumption DEF NoneAssumption, Applying
<1>9. \A q \in Owners : /\ (Cur'[q]).regs = Cur[q].regs /\ (Cur'[q]).allow = Cur[q].allow
                        /\ (Cur'[q]).model = Cur[q].model /\ (Cur'[q]).bins \subseteq Cur[q].bins \cup run.got
                        /\ Rec(q)' = Rec(q) /\ Prior(q)' = Prior(q)
                        /\ run.cmd = "mcp" => Cur'[q] = Cur[q]
  <2> SUFFICES ASSUME NEW q \in Owners
               PROVE  /\ (Cur'[q]).regs = Cur[q].regs /\ (Cur'[q]).allow = Cur[q].allow
                      /\ (Cur'[q]).model = Cur[q].model /\ (Cur'[q]).bins \subseteq Cur[q].bins \cup run.got
                      /\ Rec(q)' = Rec(q) /\ Prior(q)' = Prior(q)
                      /\ run.cmd = "mcp" => Cur'[q] = Cur[q]
    OBVIOUS
  <2>1. Prior(q)' = Prior(q)
    BY <1>2, SamePrior
  <2>2. Cur'[q] = (IF q \in run.own THEN M[q] ELSE Prior(q))
    BY <1>7, <1>8, <2>1 DEF Cur
  <2>3. Cur[q] = (IF q \in run.own THEN run.mf[q] ELSE Prior(q))
    BY <1>3 DEF Cur
  <2>4. /\ (Cur'[q]).regs = Cur[q].regs /\ (Cur'[q]).allow = Cur[q].allow
        /\ (Cur'[q]).model = Cur[q].model /\ (Cur'[q]).bins \subseteq Cur[q].bins \cup run.got
        /\ run.cmd = "mcp" => Cur'[q] = Cur[q]
    BY ONLY <1>6, <2>2, <2>3
  <2>5. Rec(q)' = Rec(q)
    BY <1>2, <2>4 DEF Rec
  <2>6. QED BY <2>1, <2>4, <2>5
<1>10. TypeOK'
  <2>1. bins' \subseteq Binaries
    BY <1>2, <1>4 DEF TypeOK
  <2>2. QED BY <1>2, <1>4, <1>7, <2>1 DEF TypeOK, InUse
<1>11. RunOK'
  BY <1>2, <1>4, <1>7 DEF RunOK, InUse
<1>12. KindOK'
  <2> SUFFICES ASSUME NEW q \in Owners
               PROVE  Fits(q, Cur[q])' /\ Fits(q, Prior(q))'
    BY DEF KindOK
  <2>1. Fits(q, Cur[q]) /\ Fits(q, Prior(q))
    BY DEF KindOK
  <2>2. PICK c : c = Cur'[q]
    OBVIOUS
  <2>3. PICK n : n = Prior(q)'
    OBVIOUS
  <2>4. Fits(q, c) /\ Fits(q, n)
    BY <1>9, <2>1, <2>2, <2>3, FewerFit
  <2>5. Fits(q, Cur[q])'
    BY <1>2, <2>2, <2>4 DEF Fits, InUse
  <2>6. Fits(q, Prior(q))'
    BY <1>2, <2>3, <2>4 DEF Fits, InUse
  <2>7. QED BY <2>5, <2>6
<1>13. SettingsOK' /\ RegsOK'
  <2>1. \A h \in Homes : Untorn(h)' => Untorn(h)
    BY <1>2 DEF Untorn, Here
  <2>2. SettingsOK'
    BY <1>2, <1>9, <2>1, SameSettings DEF SettingsOK, Here
  <2>3. RegsOK'
    BY <1>2, <1>9, <2>1, SameRegs DEF RegsOK, Here
  <2>4. QED BY <2>2, <2>3
<1>14. BinsOK'
  <2> SUFFICES ASSUME NEW q \in Owners, q \notin torn'
               PROVE  BinsAt(q)'
    BY DEF BinsOK
  <2>1. BinsAt(q)
    BY <1>2 DEF BinsOK
  <2>2. QED BY <1>2, <1>9, <2>1 DEF BinsAt, Unhanded
<1>15. ApplyOK'
  <2>1. run.cmd = "mcp" => run.pref = "leave" /\ \A q \in run.own : Cur'[q] = Prior(q)'
    BY <1>2, <1>3, <1>4, <1>9 DEF ApplyOK
  <2>2. run.got \subseteq bins'
    BY <1>2
  <2>3. QED BY <1>7, <1>8, <2>1, <2>2 DEF ApplyOK
<1>16. PlanOK' /\ RemoveOK' /\ RestoredOK'
  BY <1>7, <1>8 DEF PlanOK, RemoveOK, RestoredOK
<1>17. QED BY <1>10, <1>11, <1>12, <1>13, <1>14, <1>15, <1>16

\* What a registration leaves: the servers done are registered and, except with
\* Kimi, on record; nothing else becomes registered.
LEMMA RegisterFacts ==
  ASSUME TypeOK, NEW h \in Homes, NEW want \in SUBSET Servers, NEW reg \in RegisterOutcomes(h, want)
  PROVE  /\ reg.done \subseteq want /\ reg.cli \in SUBSET Servers
         /\ harness[h] # "kimi" => reg.regs = reg.done /\ reg.cli \subseteq cli[h] \cup reg.done
         /\ harness[h] = "kimi" => \/ reg.cli = want /\ reg.regs = {Plugin}
                                   \/ reg.done = {} /\ reg.cli = cli[h] /\ reg.regs = {}
<1>1. cli[h] \in SUBSET Servers
  BY DEF TypeOK
<1>2. PICK nothing : nothing = [done |-> {}, cli |-> cli[h], regs |-> {}, wrong |-> want # {}]
  OBVIOUS
<1>3. \/ reg = nothing
      \/ reg = AllDone(h, want)
      \/ harness[h] # "kimi" /\ \E f \in want : reg \in StoppedAt(h, want, f)
  BY <1>2 DEF RegisterOutcomes
<1>4. CASE reg = nothing
  BY <1>1, <1>2, <1>4
<1>5. CASE reg = AllDone(h, want)
  BY <1>1, <1>5 DEF AllDone
<1>6. CASE harness[h] # "kimi" /\ \E f \in want : reg \in StoppedAt(h, want, f)
  <2>1. PICK f \in want : reg \in StoppedAt(h, want, f)
    BY <1>6
  <2>2. PICK left \in {cli[h], cli[h] \ {f}} :
        reg = [done |-> Before(f, want), cli |-> left \cup Before(f, want),
               regs |-> Before(f, want), wrong |-> TRUE]
    BY <2>1 DEF StoppedAt
  <2>3. Before(f, want) \subseteq want
    BY DEF Before
  <2>4. QED BY <1>1, <1>6, <2>2, <2>3
<1>7. QED BY <1>3, <1>4, <1>5, <1>6

LEMMA ApprovalsFacts ==
  ASSUME NEW h, NEW want \in SUBSET Servers, NEW reg, NEW tools
  PROVE  Approvals(h, want, reg, tools) \in SUBSET Named
<1>1. want \subseteq Named
  BY DEF Named
<1>2. CASE harness[h] \in {"claude", "agy"}
  BY <1>1, <1>2 DEF Approvals
<1>3. CASE harness[h] = "codex"
  BY <1>1, <1>3 DEF Approvals
<1>4. CASE harness[h] \notin {"claude", "agy", "codex"}
  BY <1>4 DEF Approvals
<1>5. QED BY <1>2, <1>3, <1>4

\* What was registered and edited is on record with the run, to be saved next.
LEMMA ServeKeeps ==
  ASSUME IInv, run # Idle, NEW o \in run.todo, Serve(o)
  PROVE  IInv'
<1> USE DEF IInv
<1>1. PICK h : h = Home(o)
  OBVIOUS
<1>2. PICK want : want = Wanted
  OBVIOUS
<1>3. run.phase = "serve"
  BY DEF Serve
<1>4. PICK reg \in RegisterOutcomes(h, want), tools \in BOOLEAN, reads \in BOOLEAN :
           ServeWith(o, reg, tools, reads)
  BY <1>1, <1>2 DEF Serve, Reads
<1>5. Applying
  BY <1>3, RunFacts
<1>6. /\ run \in Applications(run.own) /\ run.own \subseteq Owners /\ run.todo \subseteq run.own
      /\ o \in run.own /\ o \in Owners /\ h \in Homes /\ h \in InUse
      /\ run.mf[o] = Cur[o] /\ Cur[o] \in Manifest /\ run.mf \in [run.own -> Manifest]
      /\ run.got \subseteq bins /\ run.got \subseteq Binaries /\ run.pref \in Prefs \cup {"leave"}
      /\ run.want \subseteq Servers
  <2>1. run.got \subseteq bins
    BY <1>3, <1>5 DEF ApplyOK
  <2>2. run \in Applications(run.own)
    BY <1>5, ApplyFacts
  <2>3. run.got \subseteq Binaries /\ run.pref \in Prefs \cup {"leave"} /\ run.want \subseteq Servers
    BY <2>2 DEF Applications
  <2>4. QED BY <1>1, <1>5, <2>1, <2>3, ApplyFacts
<1>7. want \subseteq Servers /\ want \subseteq bins
  BY <1>2, <1>6 DEF Wanted
<1>8. PICK m : m = [run.mf[o] EXCEPT !.regs = @ \cup reg.regs, !.bins = @ \cup run.got]
  OBVIOUS
<1>9. PICK touched : touched = reg.done \cup (cli[h] \ reg.cli)
  OBVIOUS
<1>10. PICK cur : cur = WithoutTables(h, allow[h], touched)
  OBVIOUS
<1>11. PICK a : a = EditAllow(m.allow, cur, Approvals(h, want, reg, tools))
  OBVIOUS
<1>12. PICK v : v = EditModel(h, m.model, model[h], run.pref)
  OBVIOUS
<1>13. PICK m1 : m1 = IF reads THEN [m EXCEPT !.allow = a.rec, !.model = v.rec] ELSE m
  OBVIOUS
<1>14. /\ cli' = [cli EXCEPT ![h] = reg.cli]
       /\ handed' = [handed EXCEPT ![h] = @ \ reg.done]
       /\ kept' = [kept EXCEPT ![h] = @ \ reg.done]
       /\ mine' = Forget(h, touched)
       /\ allow' = [allow EXCEPT ![h] = IF reads THEN a.value ELSE cur]
       /\ model' = [model EXCEPT ![h] = IF reads THEN v.value ELSE @]
       /\ run' = [run EXCEPT !.phase = "save", !.at = o, !.mf[o] = m1]
       /\ UNCHANGED <<harness, bins, manifests, torn>>
  BY ONLY <1>1, <1>2, <1>4, <1>8, <1>9, <1>10, <1>11, <1>12, <1>13 DEF ServeWith
<1>15. /\ m \in Manifest /\ m.regs = Cur[o].regs \cup reg.regs /\ m.bins = Cur[o].bins \cup run.got
       /\ m.allow = Cur[o].allow /\ m.model = Cur[o].model
  <2>1. reg.regs \subseteq Servers \cup {Plugin}
    BY <1>6, <1>7, RegisterFacts
  <2>2. PICK c \in Manifest : c = Cur[o]
    BY <1>6
  <2>3. PICK rs \in SUBSET (Servers \cup {Plugin}), bs \in SUBSET Binaries : rs = reg.regs /\ bs = run.got
    BY <1>6, <2>1
  <2>4. m = [c EXCEPT !.regs = @ \cup rs, !.bins = @ \cup bs]
    BY <1>6, <1>8, <2>2, <2>3
  <2>5. /\ m \in Manifest /\ m.regs = c.regs \cup rs /\ m.bins = c.bins \cup bs
        /\ m.allow = c.allow /\ m.model = c.model
    BY ONLY <2>4 DEF Manifest
  <2>6. QED BY <2>2, <2>3, <2>5
<1>16. /\ reg.done \subseteq want /\ reg.cli \in SUBSET Servers
       /\ harness[h] # "kimi" => reg.regs = reg.done /\ reg.cli \subseteq cli[h] \cup reg.done
       /\ harness[h] = "kimi" => \/ reg.cli = want /\ reg.regs = {Plugin}
                                 \/ reg.done = {} /\ reg.cli = cli[h] /\ reg.regs = {}
  BY <1>6, <1>7, RegisterFacts
<1>17. PICK X : X = IF harness[h] = "codex" THEN touched ELSE {}
  OBVIOUS
<1>18. cur \in AllowValues /\ Entries(cur) = Entries(allow[h]) \ X
  <2>1. allow[h] \in AllowValues
    BY <1>6 DEF TypeOK, AllowValues
  <2>2. /\ WithoutTables(h, allow[h], touched) \in AllowValues
        /\ Entries(WithoutTables(h, allow[h], touched)) = Entries(allow[h]) \ X
    BY ONLY <1>17, <2>1, TablesFacts
  <2>3. QED BY <1>10, <2>2
<1>19. PICK items : items = Approvals(h, want, reg, tools)
  OBVIOUS
<1>20. m.allow \in {NoRecord} \cup AllowRecords /\ m.model \in {NoRecord} \cup ModelRecords
       /\ model[h] \in ModelValues /\ items \in SUBSET Named
  BY <1>6, <1>7, <1>15, <1>19, ApprovalsFacts DEF Manifest, TypeOK
<1>21. /\ a.value \in AllowValues /\ a.rec \in {NoRecord} \cup AllowRecords
       /\ Entries(cur) \ Added(m.allow) = Entries(a.value) \ Added(a.rec)
  <2>1. PICK rec \in {NoRecord} \cup AllowRecords : rec = m.allow
    BY <1>20
  <2>2. a = EditAllow(rec, cur, items)
    BY <1>11, <1>19, <2>1
  <2>3. /\ a.value \in AllowValues /\ a.rec \in {NoRecord} \cup AllowRecords
        /\ Entries(cur) \ Added(rec) = Entries(a.value) \ Added(a.rec)
    BY ONLY <1>18, <1>20, <2>2, EditAllowFacts
  <2>4. QED BY <2>1, <2>3
<1>22. /\ v.value \in ModelValues /\ v.rec \in {NoRecord} \cup ModelRecords
       /\ Undone(v.value, v.rec) = Undone(model[h], m.model)
       /\ run.pref = "leave" => v.rec = m.model
  <2>1. PICK rec \in {NoRecord} \cup ModelRecords, c \in ModelValues, pref \in Prefs \cup {"leave"} :
          rec = m.model /\ c = model[h] /\ pref = run.pref
    BY <1>6, <1>20
  <2>2. v = EditModel(h, rec, c, pref)
    BY <1>12, <2>1
  <2>3. /\ v.value \in ModelValues /\ v.rec \in {NoRecord} \cup ModelRecords
        /\ Undone(v.value, v.rec) = Undone(c, rec)
        /\ pref = "leave" => v.rec = rec
    BY ONLY <2>2, EditModelFacts
  <2>4. QED BY <2>1, <2>3
<1>23. /\ m1 \in Manifest /\ m1.regs = m.regs /\ m1.bins = m.bins
       /\ m1.allow = (IF reads THEN a.rec ELSE m.allow)
       /\ m1.model = (IF reads THEN v.rec ELSE m.model)
  BY <1>13, <1>15, <1>21, <1>22 DEF Manifest
<1>24. /\ allow'[h] = (IF reads THEN a.value ELSE cur)
       /\ model'[h] = (IF reads THEN v.value ELSE model[h])
       /\ cli'[h] = reg.cli /\ handed'[h] = handed[h] \ reg.done
       /\ kept'[h] = kept[h] \ reg.done
       /\ \A g \in Homes : g # h => /\ allow'[g] = allow[g] /\ model'[g] = model[g]
                                    /\ cli'[g] = cli[g] /\ handed'[g] = handed[g]
                                    /\ kept'[g] = kept[g]
  BY <1>6, <1>14 DEF TypeOK
<1>25. /\ allow'[h] \in AllowValues /\ Entries(allow'[h]) \ Added(m1.allow) = (Entries(allow[h]) \ X) \ Added(Cur[o].allow)
       /\ model'[h] \in ModelValues /\ Undone(model'[h], m1.model) = Undone(model[h], Cur[o].model)
       /\ run.pref = "leave" => m1.model = Cur[o].model
  BY <1>15, <1>18, <1>20, <1>21, <1>22, <1>23, <1>24
<1>26. PICK M : M = [run.mf EXCEPT ![o] = m1]
  OBVIOUS
<1>27. M \in [run.own -> Manifest]
  BY <1>6, <1>23, <1>26
<1>28. run' = [run EXCEPT !.phase = "save", !.at = o, !.mf = M]
  BY <1>6, <1>14, <1>26 DEF Applications
<1>29. /\ run' \in Applications(run.own) /\ run'.own = run.own /\ run'.cmd = run.cmd /\ run'.at = o
       /\ run'.mf = M /\ run'.got = run.got /\ run'.pref = run.pref /\ run'.phase = "save"
  BY <1>6, <1>27, <1>28 DEF Applications
<1>30. run' # Idle /\ Applying'
  BY <1>5, <1>6, <1>29, NoneAssumption DEF NoneAssumption, Applying
<1>31. /\ Cur'[o] = m1
       /\ \A q \in Owners : q # o => Cur'[q] = Cur[q]
       /\ \A q \in Owners : Prior(q)' = Prior(q)
  BY <1>5, <1>6, <1>14, <1>23, <1>26, <1>29, <1>30, RecordOf, SamePrior
<1>32. /\ mine' \in [Homes -> [model : ModelValues, items : SUBSET Named]]
       /\ \A g \in Homes : (mine'[g]).model = mine[g].model
       /\ \A g \in Homes : g # h => mine'[g] = mine[g]
       /\ (mine'[h]).items = mine[h].items \ X
  BY <1>6, <1>14, <1>17, ForgetFacts
<1>33. TypeOK'
  <2>1. allow' \in [Homes -> {Absent} \cup SUBSET Named]
    BY <1>6, <1>14, <1>24, <1>25 DEF TypeOK, AllowValues
  <2>2. model' \in [Homes -> ModelValues]
    BY <1>6, <1>14, <1>24, <1>25 DEF TypeOK
  <2>3. cli' \in [Homes -> SUBSET Servers]
    BY <1>6, <1>14, <1>16 DEF TypeOK
  <2>4. handed' \in [Homes -> SUBSET Servers] /\ kept' \in [Homes -> SUBSET Servers]
    BY <1>6, <1>14 DEF TypeOK
  <2>5. QED BY <1>6, <1>14, <1>29, <1>32, <2>1, <2>2, <2>3, <2>4 DEF TypeOK, InUse
<1>34. RunOK'
  BY <1>6, <1>14, <1>29 DEF RunOK, InUse
<1>35. Plugin \notin reg.done /\ run.own \subseteq Owners
       /\ (o[2] = "mcp" => m1.model = NoRecord)
  <2>1. Plugin \notin reg.done
    BY <1>7, <1>16, SetupAssumption DEF SetupAssumption
  <2>2. o[2] = "mcp" => run.cmd = "mcp"
    BY <1>5, <1>6 DEF RunOK, Applying
  <2>3. o[2] = "mcp" => run.pref = "leave" /\ Cur[o].model = NoRecord
    BY <1>5, <1>6, <2>2 DEF ApplyOK, KindOK, Fits
  <2>4. QED BY <1>6, <1>25, <2>1, <2>3
<1>36. m1.regs = Cur[o].regs \cup reg.regs /\ m1.bins = Cur[o].bins \cup run.got
  BY <1>15, <1>23
<1>37. KindOK'
  <2> SUFFICES ASSUME NEW q \in Owners
               PROVE  Fits(q, Cur[q])' /\ Fits(q, Prior(q))'
    BY DEF KindOK
  <2>1. Fits(q, Cur[q]) /\ Fits(q, Prior(q))
    BY DEF KindOK
  <2>2. PICK c : c = Cur'[q]
    OBVIOUS
  <2>3. PICK n : n = Prior(q)'
    OBVIOUS
  <2>4. Fits(o, Cur[o])
    BY <1>6 DEF KindOK
  <2>5. Fits(o, m1)
    BY <1>1, <1>16, <1>35, <1>36, <2>4 DEF Fits
  <2>6. Fits(q, c) /\ Fits(q, n)
    BY <1>31, <2>1, <2>2, <2>3, <2>5
  <2>7. Fits(q, Cur[q])'
    BY <1>14, <2>2, <2>6 DEF Fits, InUse
  <2>8. Fits(q, Prior(q))'
    BY <1>14, <2>3, <2>6 DEF Fits, InUse
  <2>9. QED BY <2>7, <2>8
<1>38. \A g \in Homes : Untorn(g)' => Untorn(g)
  BY <1>14 DEF Untorn, Here
<1>39. SettingsOK'
  <2> SUFFICES ASSUME NEW g \in Homes, Untorn(g)'
               PROVE  SettingsAt(g)'
    BY DEF SettingsOK
  <2>1. SettingsAt(g)
    BY <1>38 DEF SettingsOK
  <2>2. CASE g # h
    <3>1. \A q \in Here(g) : Cur'[q] = Cur[q]
      BY <1>1, <1>31, <2>2 DEF Here
    <3>2. QED BY <1>24, <1>32, <2>1, <2>2, <3>1, SameSettings
  <2>3. CASE g = h
    <3>1. Undone(model'[h], ModelRec(h)') = Undone(model[h], ModelRec(h))
      <4>1. CASE o[2] = "mcp"
        <5>1. model'[h] = model[h]
          BY <1>6, <1>25, <1>35, <4>1 DEF KindOK, Fits, Undone
        <5>2. \A q \in Owners : (Cur'[q]).model = Cur[q].model
          BY <1>6, <1>31, <1>35, <4>1 DEF KindOK, Fits
        <5>3. ModelRec(h)' = ModelRec(h)
          BY <5>2, OwnerFacts DEF ModelRec
        <5>4. QED BY <5>1, <5>3
      <4>2. CASE o[2] # "mcp"
        <5>1. o = <<h, "kit">> /\ h \in Kits
          BY <1>1, <1>6, <4>2, OwnerFacts
        <5>2. ModelRec(h) = Cur[o].model /\ ModelRec(h)' = m1.model
          BY <1>31, <5>1 DEF ModelRec
        <5>3. QED BY <1>25, <5>2
      <4>3. QED BY <4>1, <4>2
    <3>2. Entries(allow'[h]) \ AddedHere(h)' = (Entries(allow[h]) \ AddedHere(h)) \ X
      <4>1. PICK rest : rest = UNION {Added(Cur[q].allow) : q \in Here(h) \ {o}}
        OBVIOUS
      <4>2. Here(h)' = Here(h) /\ o \in Here(h)
        BY <1>1, <1>6 DEF Here
      <4>3. AddedHere(h) = Added(Cur[o].allow) \cup rest
        BY <4>1, <4>2 DEF AddedHere
      <4>4. AddedHere(h)' = UNION {Added((Cur'[q]).allow) : q \in Here(h)}
        BY <4>2 DEF AddedHere
      <4>5. \A q \in Here(h) : Cur'[q] = IF q = o THEN m1 ELSE Cur[q]
        BY <1>31 DEF Here
      <4>6. AddedHere(h)' = Added(m1.allow) \cup rest
        BY <4>1, <4>2, <4>4, <4>5
      <4>7. Entries(allow'[h]) \ Added(m1.allow) = (Entries(allow[h]) \ X) \ Added(Cur[o].allow)
        BY <1>25
      <4>8. QED BY ONLY <4>3, <4>6, <4>7
    <3>3. QED BY <1>6, <1>32, <2>1, <2>3, <3>1, <3>2, SettingsLess
  <2>4. QED BY <2>2, <2>3
<1>40. Unhanded(h)' = reg.cli \ ((handed[h] \cup kept[h]) \ reg.done)
       /\ \A g \in Homes : g # h => Unhanded(g)' = Unhanded(g)
  BY <1>24 DEF Unhanded
<1>41. \A q \in Here(h) : /\ Fits(q, Cur[q])
                          /\ (Cur'[q]).regs = IF q = o THEN Cur[q].regs \cup reg.regs ELSE Cur[q].regs
                          /\ Rec(q)' = IF Plugin \in (Cur'[q]).regs THEN reg.cli ELSE (Cur'[q]).regs
                          /\ Rec(q) = IF Plugin \in Cur[q].regs THEN cli[h] ELSE Cur[q].regs
                          /\ q \in Owners /\ Home(q) = h
  <2> SUFFICES ASSUME NEW q \in Here(h)
               PROVE  /\ Fits(q, Cur[q])
                      /\ (Cur'[q]).regs = IF q = o THEN Cur[q].regs \cup reg.regs ELSE Cur[q].regs
                      /\ Rec(q)' = IF Plugin \in (Cur'[q]).regs THEN reg.cli ELSE (Cur'[q]).regs
                      /\ Rec(q) = IF Plugin \in Cur[q].regs THEN cli[h] ELSE Cur[q].regs
                      /\ q \in Owners /\ Home(q) = h
    OBVIOUS
  <2>1. q \in Owners /\ Home(q) = h
    BY DEF Here
  <2>2. Fits(q, Cur[q])
    BY <2>1 DEF KindOK
  <2>3. (Cur'[q]).regs = IF q = o THEN Cur[q].regs \cup reg.regs ELSE Cur[q].regs
    BY <1>31, <1>36, <2>1
  <2>4. Rec(q)' = IF Plugin \in (Cur'[q]).regs THEN reg.cli ELSE (Cur'[q]).regs
    BY <1>24, <2>1 DEF Rec
  <2>5. Rec(q) = IF Plugin \in Cur[q].regs THEN cli[h] ELSE Cur[q].regs
    BY <2>1 DEF Rec
  <2>6. QED BY <2>1, <2>2, <2>3, <2>4, <2>5
<1>42. o \in Here(h) /\ Here(h)' = Here(h)
  BY <1>1, <1>6 DEF Here
<1>43. \A q \in Here(h) : \A x \in Rec(q)' \cap Unhanded(h)' : x \in bins \/ (x \in Rec(q) /\ x \in Unhanded(h))
  <2> SUFFICES ASSUME NEW q \in Here(h), NEW x, x \in Rec(q)', x \in Unhanded(h)', x \notin bins
               PROVE  x \in Rec(q) /\ x \in Unhanded(h)
    OBVIOUS
  <2>1. x \in reg.cli /\ x \notin reg.done /\ x \notin handed[h] \cup kept[h] /\ x \notin want
    BY <1>7, <1>16, <1>40
  <2>2. CASE harness[h] # "kimi"
    <3>1. Plugin \notin Cur[q].regs /\ Plugin \notin (Cur'[q]).regs
      BY <1>6, <1>16, <1>35, <1>41, <2>2 DEF Fits
    <3>2. x \in (Cur'[q]).regs /\ Rec(q) = Cur[q].regs
      BY ONLY <1>41, <3>1, x \in Rec(q)', q \in Here(h)
    <3>3. reg.regs = reg.done /\ x \notin reg.regs /\ x \in cli[h]
      BY ONLY <1>16, <2>1, <2>2
    <3>4. x \in Cur[q].regs
      BY ONLY <1>41, <3>2, <3>3, q \in Here(h)
    <3>5. QED BY ONLY <2>1, <3>2, <3>3, <3>4 DEF Unhanded
  <2>3. CASE harness[h] = "kimi"
    <3>1. reg.cli = cli[h] /\ reg.regs = {}
      BY <1>16, <2>1, <2>3
    <3>2. QED BY <1>41, <2>1, <3>1 DEF Unhanded
  <2>4. QED BY <2>2, <2>3
<1>44. RegsOK'
  <2> SUFFICES ASSUME NEW g \in Homes, Untorn(g)'
               PROVE  RegsAt(g)'
    BY DEF RegsOK
  <2>1. RegsAt(g)
    BY <1>38 DEF RegsOK
  <2>2. CASE g # h
    <3>1. \A q \in Here(g) : Cur'[q] = Cur[q]
      BY <1>1, <1>31, <2>2 DEF Here
    <3>2. QED BY <1>24, <2>1, <2>2, <3>1, SameRegs
  <2>3. CASE g = h
    <3>1. \A x \in Unhanded(h)' : \E q \in Here(h) : x \in Rec(q)'
      <4> SUFFICES ASSUME NEW x \in Unhanded(h)'
                   PROVE  \E q \in Here(h) : x \in Rec(q)'
        OBVIOUS
      <4>1. x \in reg.cli /\ (x \in reg.done \/ x \notin handed[h] \cup kept[h])
        BY <1>40
      <4>2. CASE harness[h] = "kimi" /\ reg.regs = {Plugin}
        BY <1>41, <1>42, <4>1, <4>2
      <4>3. CASE x \in Unhanded(h) /\ ~(harness[h] = "kimi" /\ reg.regs = {Plugin})
        <5>1. PICK q \in Here(h) : x \in Rec(q)
          BY <2>1, <2>3, <4>3 DEF RegsAt
        <5>2. CASE harness[h] = "kimi"
          <6>1. reg.cli = cli[h] /\ reg.regs = {}
            BY ONLY <1>16, <4>3, <5>2
          <6>2. (Cur'[q]).regs = Cur[q].regs
            BY ONLY <1>41, <5>1, <6>1
          <6>3. Rec(q)' = Rec(q)
            BY ONLY <1>41, <5>1, <6>1, <6>2
          <6>4. QED BY <5>1, <6>3
        <5>3. CASE harness[h] # "kimi"
          <6>1. Plugin \notin Cur[q].regs /\ Plugin \notin (Cur'[q]).regs
            BY <1>6, <1>16, <1>35, <1>41, <5>3 DEF Fits
          <6>2. QED BY <1>41, <5>1, <6>1
        <5>4. QED BY <5>2, <5>3
      <4>4. CASE x \notin Unhanded(h) /\ ~(harness[h] = "kimi" /\ reg.regs = {Plugin})
        <5>1. harness[h] # "kimi" /\ x \in reg.done /\ reg.regs = reg.done
          BY <1>16, <4>1, <4>4 DEF Unhanded
        <5>2. Plugin \notin (Cur'[o]).regs
          BY <1>6, <1>16, <1>35, <1>41, <1>42, <5>1 DEF Fits
        <5>3. x \in Rec(o)'
          BY <1>41, <1>42, <5>1, <5>2
        <5>4. QED BY <1>42, <5>3
      <4>5. QED BY <4>2, <4>3, <4>4
    <3>2. QED BY <1>42, <2>3, <3>1 DEF RegsAt
  <2>4. QED BY <2>2, <2>3
<1>45. BinsOK'
  <2> SUFFICES ASSUME NEW q \in Owners, q \notin torn'
               PROVE  BinsAt(q)'
    BY DEF BinsOK
  <2>1. BinsAt(q) /\ Home(q) \in Homes
    BY <1>14, OwnerFacts DEF BinsOK
  <2>2. CASE Home(q) # h
    <3>1. Cur'[q] = Cur[q] /\ cli'[Home(q)] = cli[Home(q)] /\ handed'[Home(q)] = handed[Home(q)]
          /\ kept'[Home(q)] = kept[Home(q)]
      BY <1>1, <1>24, <1>31, <2>1, <2>2
    <3>2. QED BY <1>14, <2>1, <3>1, SameBins
  <2>3. CASE Home(q) = h
    <3>1. q \in Here(h)
      BY <2>3 DEF Here
    <3>2. (Cur'[q]).bins \subseteq Cur[q].bins \cup run.got
      BY <1>31, <1>36
    <3>3. \A x \in (Cur'[q]).bins \cap Rec(q)' \cap Unhanded(h)' : x \in bins
      BY <1>6, <1>43, <2>1, <2>3, <3>1, <3>2 DEF BinsAt
    <3>4. QED BY <1>14, <2>3, <3>3 DEF BinsAt
  <2>4. QED BY <2>2, <2>3
<1>46. ApplyOK'
  <2>1. run.cmd = "mcp" => run.pref = "leave" /\ \A q \in run.own : Cur'[q] = Prior(q)' \/ q = o
    BY <1>3, <1>5, <1>6, <1>31 DEF ApplyOK
  <2>2. run.got \subseteq bins'
    BY <1>6, <1>14
  <2>3. QED BY <1>29, <1>30, <2>1, <2>2 DEF ApplyOK
<1>47. PlanOK' /\ RemoveOK' /\ RestoredOK'
  BY <1>29, <1>30 DEF PlanOK, RemoveOK, RestoredOK
<1>48. QED BY <1>33, <1>34, <1>37, <1>39, <1>44, <1>45, <1>46, <1>47

\* A registration cut short leaves its owner torn.
LEMMA ServeStopsKeeps ==
  ASSUME IInv, run # Idle, NEW o \in run.todo, ServeStops(o)
  PROVE  IInv'
<1> USE DEF IInv
<1>1. PICK h : h = Home(o)
  OBVIOUS
<1>2. PICK want : want = Wanted
  OBVIOUS
<1>3. run.phase = "serve" /\ UNCHANGED <<harness, model, bins, manifests, handed, kept>>
  BY DEF ServeStops
<1>4. PICK f \in Wanted : \E left \in {cli[Home(o)], cli[Home(o)] \ {f}} :
      LET reg == Cut(Home(o), Wanted, f, left)
          touched == reg.done \cup (cli[Home(o)] \ reg.cli)
      IN /\ cli' = [cli EXCEPT ![Home(o)] = reg.cli]
         /\ allow' = [allow EXCEPT ![Home(o)] = WithoutTables(Home(o), @, touched)]
         /\ mine' = Forget(Home(o), touched)
         /\ Account(TRUE)
         /\ Abort({o})
         /\ UNCHANGED <<harness, model, bins, manifests, runs, edits, handed, kept>>
  BY Zenon DEF ServeStops
<1>5. PICK left \in {cli[Home(o)], cli[Home(o)] \ {f}} :
      LET reg == Cut(Home(o), Wanted, f, left)
          touched == reg.done \cup (cli[Home(o)] \ reg.cli)
      IN /\ cli' = [cli EXCEPT ![Home(o)] = reg.cli]
         /\ allow' = [allow EXCEPT ![Home(o)] = WithoutTables(Home(o), @, touched)]
         /\ mine' = Forget(Home(o), touched)
         /\ Account(TRUE)
         /\ Abort({o})
         /\ UNCHANGED <<harness, model, bins, manifests, runs, edits, handed, kept>>
  BY <1>4, Zenon
<1>6. PICK reg : reg = Cut(h, want, f, left)
  OBVIOUS
<1>7. PICK touched : touched = reg.done \cup (cli[h] \ reg.cli)
  OBVIOUS
<1>8. PICK un : un = {o}
  OBVIOUS
<1>9. /\ cli' = [cli EXCEPT ![h] = reg.cli]
      /\ allow' = [allow EXCEPT ![h] = WithoutTables(h, @, touched)]
      /\ mine' = Forget(h, touched)
      /\ Abort(un)
  BY ONLY <1>1, <1>2, <1>5, <1>6, <1>7, <1>8
<1>10. Applying
  BY <1>3, RunFacts
<1>11. /\ o \in run.own /\ o \in Owners /\ h \in Homes /\ h \in InUse
       /\ run \in Applications(run.own)
  BY <1>1, <1>10, ApplyFacts
<1>12. want \subseteq Servers /\ want \subseteq bins
  BY <1>2, <1>11 DEF Wanted, Applications
<1>13. /\ run' = Idle \/ (run'.own \subseteq Owners /\ run' \in Applications(run'.own))
       /\ Cur' = Cur /\ torn \cup un \subseteq torn' /\ torn' \subseteq Owners
       /\ RemoveOK' /\ PlanOK' /\ RestoredOK' /\ ApplyOK' /\ RunOK'
  <2>1. un \in SUBSET Owners
    BY <1>8, <1>11
  <2>2. QED BY <1>3, <1>9, <2>1, AbortFacts
<1>14. /\ reg.done \subseteq want /\ reg.cli \in SUBSET Servers
       /\ harness[h] # "kimi" => reg.cli \subseteq cli[h] \cup want
       /\ harness[h] = "kimi" => reg.cli = want
  <2>1. cli[h] \in SUBSET Servers /\ left \subseteq cli[h]
    BY <1>1, <1>5, <1>11 DEF TypeOK
  <2>2. Before(f, want) \subseteq want
    BY DEF Before
  <2>3. CASE harness[h] = "kimi"
    BY <1>6, <1>12, <2>3 DEF Cut
  <2>4. CASE harness[h] # "kimi"
    BY <1>6, <1>12, <2>1, <2>2, <2>4 DEF Cut
  <2>5. QED BY <2>3, <2>4
<1>15. allow'[h] \in AllowValues
  <2>1. allow[h] \in AllowValues /\ allow'[h] = WithoutTables(h, allow[h], touched)
    BY <1>9, <1>11 DEF TypeOK, AllowValues
  <2>2. WithoutTables(h, allow[h], touched) \in AllowValues
    BY ONLY <2>1, TablesFacts
  <2>3. QED BY <2>1, <2>2
<1>16. /\ mine' \in [Homes -> [model : ModelValues, items : SUBSET Named]]
       /\ \A g \in Homes : g # h => mine'[g] = mine[g]
  BY <1>9, <1>11, ForgetFacts
<1>17. /\ cli'[h] = reg.cli
       /\ \A g \in Homes : g # h => allow'[g] = allow[g] /\ cli'[g] = cli[g]
  BY <1>9, <1>11 DEF TypeOK
<1>18. TypeOK'
  <2>1. allow' \in [Homes -> {Absent} \cup SUBSET Named]
    BY <1>9, <1>11, <1>15 DEF TypeOK, AllowValues
  <2>2. cli' \in [Homes -> SUBSET Servers]
    BY <1>9, <1>11, <1>14 DEF TypeOK
  <2>3. QED BY <1>3, <1>13, <1>16, <2>1, <2>2 DEF TypeOK, InUse
<1>19. KindOK'
  BY <1>3, <1>13, KindKept, SamePrior
<1>20. \A g \in Homes : Untorn(g)' => Untorn(g) /\ g # h
  BY <1>1, <1>8, <1>11, <1>13 DEF Untorn, Here
<1>21. SettingsOK'
  BY <1>3, <1>13, <1>16, <1>17, <1>20, SameSettings DEF SettingsOK
<1>22. RegsOK'
  BY <1>3, <1>13, <1>17, <1>20, SameRegs DEF RegsOK
<1>23. BinsOK'
  <2> SUFFICES ASSUME NEW q \in Owners, q \notin torn'
               PROVE  BinsAt(q)'
    BY DEF BinsOK
  <2>1. BinsAt(q) /\ Home(q) \in Homes
    BY <1>13, OwnerFacts DEF BinsOK
  <2>2. CASE Home(q) # h
    BY <1>3, <1>13, <1>17, <2>1, <2>2, SameBins
  <2>3. CASE Home(q) = h
    <3>1. Rec(q)' = (IF Plugin \in Cur[q].regs THEN reg.cli ELSE Cur[q].regs)
          /\ Rec(q) = (IF Plugin \in Cur[q].regs THEN cli[h] ELSE Cur[q].regs)
          /\ Unhanded(h)' = reg.cli \ (handed[h] \cup kept[h])
      BY <1>3, <1>13, <1>17, <2>3 DEF Rec, Unhanded
    <3>2. harness[h] # "kimi" => Plugin \notin Cur[q].regs
      BY <1>11, <2>3 DEF KindOK, Fits
    <3>3. \A x \in Rec(q)' \cap Unhanded(h)' : x \in bins \/ (x \in Rec(q) /\ x \in Unhanded(h))
      BY <1>12, <1>14, <3>1, <3>2 DEF Unhanded
    <3>4. QED BY <1>3, <1>13, <2>1, <2>3, <3>3 DEF BinsAt
  <2>4. QED BY <2>2, <2>3
<1>24. QED BY <1>13, <1>18, <1>19, <1>21, <1>22, <1>23

-----------------------------------------------------------------------------
(***************************************************************************)
(* People edit the configuration.                                          *)
(***************************************************************************)
LEMMA EditKept ==
  ASSUME IInv, UNCHANGED <<harness, cli, bins, manifests, run, handed, kept, torn>>
  PROVE  /\ Cur' = Cur
         /\ RunOK' /\ ApplyOK' /\ RemoveOK' /\ KindOK' /\ PlanOK' /\ RegsOK' /\ BinsOK'
         /\ \A h \in Homes : /\ AddedHere(h)' = AddedHere(h) /\ ModelRec(h)' = ModelRec(h)
                             /\ Untorn(h)' = Untorn(h)
<1> USE DEF IInv
<1>1. \A o : Prior(o)' = Prior(o)
  BY SamePrior
<1>2. Applying' = Applying
  BY DEF Applying
<1>3. Cur' = Cur
  BY <1>1, <1>2 DEF Cur
<1>4. \A o \in Owners : Rec(o)' = Rec(o)
  BY <1>3 DEF Rec
<1>5. \A h \in Homes : Unhanded(h)' = Unhanded(h) /\ Here(h)' = Here(h)
  BY DEF Unhanded, Here
<1>6. RunOK'
  BY DEF RunOK, InUse
<1>7. ApplyOK'
  BY <1>1, <1>2, <1>3 DEF ApplyOK
<1>8. RemoveOK'
  <2>1. run # Idle => run.at \in Owners /\ Home(run.at) \in Homes
    BY RunFacts, OwnerFacts
  <2>2. QED BY <1>2, <1>3, <1>4, <1>5, <2>1 DEF RemoveOK
<1>9. KindOK'
  BY <1>3, KindKept, SamePrior
<1>10. PlanOK'
  <2> SUFFICES ASSUME run # Idle, Applying, run.phase \in {"retire", "binaries"}
               PROVE  PlanOK'
    BY <1>2 DEF PlanOK
  <2>1. /\ NotOthers /\ Together
        /\ \A o \in run.own : IF Retired(o) THEN IsGone(o) ELSE IsPlanned(o)
    BY DEF PlanOK
  <2>2. NotOthers' /\ Together'
    BY <1>3, <2>1 DEF NotOthers, Together
  <2>3. \A o \in run.own : o \in Owners /\ Home(o) \in Homes
    BY RunFacts, OwnerFacts
  <2>4. \A o \in run.own : /\ Retired(o)' = Retired(o) /\ IsGone(o)' = IsGone(o)
                           /\ IsPlanned(o)' = IsPlanned(o)
    BY <1>3, <1>4, <1>5, <2>3 DEF Retired, IsGone, IsPlanned
  <2>5. QED BY <2>1, <2>2, <2>4 DEF PlanOK
<1>11. RegsOK'
  BY <1>3, SameRegs DEF RegsOK, Untorn, Here
<1>12. BinsOK'
  BY <1>3, SameBins, OwnerFacts DEF BinsOK
<1>13. \A h \in Homes : /\ AddedHere(h)' = AddedHere(h) /\ ModelRec(h)' = ModelRec(h)
                        /\ Untorn(h)' = Untorn(h)
  BY <1>3, <1>5, SameRecords DEF Untorn
<1>14. QED BY <1>3, <1>6, <1>7, <1>8, <1>9, <1>10, <1>11, <1>12, <1>13

\* The record of an owner at hand is among those a person looks at.
LEMMA OnHand ==
  ASSUME TypeOK, NEW h \in Homes, NEW o \in Here(h)
  PROVE  Cur[o] \in Records(h)
<1>1. o \in Owners /\ Home(o) = h
  BY DEF Here
<1>2. Prior(o) \in Records(h)
  BY <1>1 DEF Records
<1>3. run # Idle /\ o \in run.own => run.mf[o] \in Records(h)
  BY <1>1 DEF Records
<1>4. QED BY <1>1, <1>2, <1>3 DEF Cur

\* Settings after an edit at h that leaves the other homes alone.
LEMMA SettingsEdited ==
  ASSUME IInv, NEW h \in Homes, SettingsAt(h) => SettingsAt(h)',
         UNCHANGED <<harness, cli, bins, manifests, run, handed, kept, torn>>,
         \A g \in Homes : g # h => model'[g] = model[g] /\ allow'[g] = allow[g] /\ mine'[g] = mine[g]
  PROVE  SettingsOK'
<1> USE DEF IInv
<1>1. Cur' = Cur /\ \A g \in Homes : Untorn(g)' = Untorn(g)
  BY EditKept
<1>2. SUFFICES ASSUME NEW g \in Homes, Untorn(g)'
               PROVE  SettingsAt(g)'
  BY DEF SettingsOK
<1>3. SettingsAt(g)
  BY <1>1, <1>2 DEF SettingsOK
<1>4. CASE g # h
  BY <1>1, <1>3, <1>4, SameSettings
<1>5. CASE g = h
  BY <1>3, <1>5
<1>6. QED BY <1>4, <1>5

LEMMA EditOwnModelKeeps ==
  ASSUME IInv, NEW h \in InUse, NEW v \in OwnModels[h] \cup {Absent}, EditOwnModel(h, v)
  PROVE  IInv'
<1> USE DEF IInv
<1>1. h \in Homes /\ v \in ModelValues
  BY DEF TypeOK, ModelValues
<1>2. /\ model' = [model EXCEPT ![h] = v] /\ mine' = [mine EXCEPT ![h].model = v] /\ UNCHANGED allow
      /\ UNCHANGED <<harness, cli, bins, manifests, run, handed, kept, torn>>
      /\ \A m \in Records(h) : m.model # NoRecord => m.model.written # v
  BY DEF EditOwnModel, Edited
<1>3. /\ Cur' = Cur
      /\ RunOK' /\ ApplyOK' /\ RemoveOK' /\ KindOK' /\ PlanOK' /\ RegsOK' /\ BinsOK'
      /\ \A g \in Homes : /\ AddedHere(g)' = AddedHere(g) /\ ModelRec(g)' = ModelRec(g)
                          /\ Untorn(g)' = Untorn(g)
  BY <1>2, EditKept
<1>4. /\ model' \in [Homes -> ModelValues] /\ model'[h] = v
      /\ mine' \in [Homes -> [model : ModelValues, items : SUBSET Named]]
      /\ (mine'[h]).model = v /\ (mine'[h]).items = mine[h].items
      /\ \A g \in Homes : g # h => model'[g] = model[g] /\ mine'[g] = mine[g]
  BY <1>1, <1>2 DEF TypeOK
<1>5. TypeOK'
  BY <1>2, <1>4 DEF TypeOK, InUse
<1>6. Undone(v, ModelRec(h)) = v
  <2>1. CASE ModelRec(h) = NoRecord
    BY <2>1 DEF Undone
  <2>2. CASE ModelRec(h) # NoRecord
    <3>1. PICK o \in Here(h) : ModelRec(h) = Cur[o].model
      BY <2>2, OwnerFacts DEF ModelRec, Here
    <3>2. ModelRec(h) \in ModelRecords /\ ModelRec(h).written # v
      BY <1>1, <1>2, <2>2, <3>1, OnHand, CurFacts DEF Here, Manifest
    <3>3. QED BY <1>1, <2>2, <3>2, RestoreModelFacts DEF Undone
  <2>3. QED BY <2>1, <2>2
<1>7. SettingsAt(h) => SettingsAt(h)'
  BY <1>1, <1>2, <1>3, <1>4, <1>6 DEF SettingsAt
<1>8. SettingsOK'
  BY <1>1, <1>2, <1>4, <1>7, SettingsEdited
<1>9. RestoredOK'
  <2> SUFFICES ASSUME run # Idle, run.phase = "delete", run.restored, Untorn(Home(run.at))'
               PROVE  /\ run.at[2] = "kit" => model'[Home(run.at)] = (mine'[Home(run.at)]).model
                      /\ Entries(allow[Home(run.at)]) \cap Added(Cur[run.at].allow) = {}
    BY <1>2, <1>3 DEF RestoredOK
  <2>1. Home(run.at) \in Homes
    BY RunFacts, OwnerFacts
  <2>2. /\ run.at[2] = "kit" => model[Home(run.at)] = mine[Home(run.at)].model
        /\ Entries(allow[Home(run.at)]) \cap Added(Cur[run.at].allow) = {}
    BY <1>2, <1>3, <2>1 DEF RestoredOK
  <2>3. QED BY <1>4, <2>1, <2>2
<1>10. QED BY <1>3, <1>5, <1>8, <1>9

LEMMA AddOwnEntryKeeps ==
  ASSUME IInv, NEW h \in InUse, NEW e \in OwnEntries[h], AddOwnEntry(h, e)
  PROVE  IInv'
<1> USE DEF IInv
<1>1. h \in Homes /\ e \in Named
  BY DEF TypeOK, Named
<1>2. /\ allow' = [allow EXCEPT ![h] = Entries(@) \cup {e}]
      /\ mine' = [mine EXCEPT ![h].items = @ \cup {e}] /\ UNCHANGED model
      /\ UNCHANGED <<harness, cli, bins, manifests, run, handed, kept, torn>>
      /\ \A m \in Records(h) : e \notin Added(m.allow)
  BY DEF AddOwnEntry, Edited
<1>3. /\ Cur' = Cur
      /\ RunOK' /\ ApplyOK' /\ RemoveOK' /\ KindOK' /\ PlanOK' /\ RegsOK' /\ BinsOK'
      /\ \A g \in Homes : /\ AddedHere(g)' = AddedHere(g) /\ ModelRec(g)' = ModelRec(g)
                          /\ Untorn(g)' = Untorn(g)
  BY <1>2, EditKept
<1>4. /\ allow' \in [Homes -> AllowValues] /\ Entries(allow'[h]) = Entries(allow[h]) \cup {e}
      /\ \A g \in Homes : g # h => allow'[g] = allow[g]
  <2>1. Entries(allow[h]) \in SUBSET Named
    BY <1>1, ListsFacts DEF TypeOK, AllowValues
  <2>2. PICK S \in SUBSET Named : S = Entries(allow[h]) \cup {e}
    BY <1>1, <2>1
  <2>3. allow' = [allow EXCEPT ![h] = S] /\ allow \in [Homes -> AllowValues]
    BY <1>2, <2>2 DEF TypeOK, AllowValues
  <2>4. S \in AllowValues /\ Entries(S) = S
    BY ListsFacts DEF AllowValues
  <2>5. QED BY <1>1, <2>2, <2>3, <2>4
<1>5. /\ mine' \in [Homes -> [model : ModelValues, items : SUBSET Named]]
      /\ (mine'[h]).model = mine[h].model /\ (mine'[h]).items = mine[h].items \cup {e}
      /\ \A g \in Homes : g # h => mine'[g] = mine[g]
      /\ \A g \in Homes : (mine'[g]).model = mine[g].model
  BY <1>1, <1>2 DEF TypeOK
<1>6. TypeOK'
  BY <1>2, <1>4, <1>5 DEF TypeOK, InUse, AllowValues
<1>7. \A o \in Here(h) : e \notin Added(Cur[o].allow)
  BY <1>1, <1>2, OnHand
<1>8. SettingsAt(h) => SettingsAt(h)'
  <2>1. e \notin AddedHere(h)
    BY <1>7 DEF AddedHere
  <2>2. SUFFICES ASSUME SettingsAt(h)
                 PROVE  SettingsAt(h)'
    OBVIOUS
  <2>3. Undone(model'[h], ModelRec(h)') = (mine'[h]).model
    BY <1>1, <1>2, <1>3, <1>5, <2>2 DEF SettingsAt
  <2>4. Entries(allow'[h]) \ AddedHere(h)' = (mine'[h]).items
    BY <1>1, <1>3, <1>4, <1>5, <2>1, <2>2 DEF SettingsAt
  <2>5. QED BY <2>3, <2>4 DEF SettingsAt
<1>9. SettingsOK'
  BY <1>1, <1>2, <1>4, <1>5, <1>8, SettingsEdited
<1>10. RestoredOK'
  <2> SUFFICES ASSUME run # Idle, run.phase = "delete", run.restored, Untorn(Home(run.at))'
               PROVE  /\ run.at[2] = "kit" => model[Home(run.at)] = (mine'[Home(run.at)]).model
                      /\ Entries(allow'[Home(run.at)]) \cap Added(Cur[run.at].allow) = {}
    BY <1>2, <1>3 DEF RestoredOK
  <2>1. run.at \in Owners /\ Home(run.at) \in Homes
    BY RunFacts, OwnerFacts
  <2>2. /\ run.at[2] = "kit" => model[Home(run.at)] = mine[Home(run.at)].model
        /\ Entries(allow[Home(run.at)]) \cap Added(Cur[run.at].allow) = {}
    BY <1>2, <1>3, <2>1 DEF RestoredOK
  <2>3. Home(run.at) = h => e \notin Added(Cur[run.at].allow)
    BY <1>7, <2>1 DEF Here
  <2>4. QED BY <1>4, <1>5, <2>1, <2>2, <2>3
<1>11. QED BY <1>3, <1>6, <1>9, <1>10

LEMMA RemoveEntryKeeps ==
  ASSUME IInv, NEW h \in InUse, NEW e \in Entries(allow[h]), RemoveEntry(h, e)
  PROVE  IInv'
<1> USE DEF IInv
<1>1. h \in Homes
  BY DEF TypeOK
<1>2. /\ allow' = [allow EXCEPT ![h] = @ \ {e}]
      /\ mine' = [mine EXCEPT ![h].items = @ \ {e}] /\ UNCHANGED model
      /\ UNCHANGED <<harness, cli, bins, manifests, run, handed, kept, torn>>
  BY DEF RemoveEntry, Edited
<1>3. /\ Cur' = Cur
      /\ RunOK' /\ ApplyOK' /\ RemoveOK' /\ KindOK' /\ PlanOK' /\ RegsOK' /\ BinsOK'
      /\ \A g \in Homes : /\ AddedHere(g)' = AddedHere(g) /\ ModelRec(g)' = ModelRec(g)
                          /\ Untorn(g)' = Untorn(g)
  BY <1>2, EditKept
<1>4. /\ allow' \in [Homes -> AllowValues] /\ Entries(allow'[h]) = Entries(allow[h]) \ {e}
      /\ \A g \in Homes : g # h => allow'[g] = allow[g]
  <2>1. allow \in [Homes -> AllowValues] /\ allow[h] \in AllowValues
    BY <1>1 DEF TypeOK, AllowValues
  <2>2. allow[h] \in SUBSET Named /\ Entries(allow[h]) = allow[h]
    BY <2>1, ListsFacts DEF AllowValues
  <2>3. PICK S \in SUBSET Named : S = allow[h] \ {e}
    BY <2>2
  <2>4. allow' = [allow EXCEPT ![h] = S]
    BY <1>2, <2>3
  <2>5. S \in AllowValues /\ Entries(S) = S
    BY ListsFacts DEF AllowValues
  <2>6. QED BY <1>1, <2>1, <2>2, <2>3, <2>4, <2>5
<1>5. /\ mine' \in [Homes -> [model : ModelValues, items : SUBSET Named]]
      /\ (mine'[h]).model = mine[h].model /\ (mine'[h]).items = mine[h].items \ {e}
      /\ \A g \in Homes : g # h => mine'[g] = mine[g]
      /\ \A g \in Homes : (mine'[g]).model = mine[g].model
  BY <1>1, <1>2 DEF TypeOK
<1>6. TypeOK'
  BY <1>2, <1>4, <1>5 DEF TypeOK, InUse, AllowValues
<1>7. SettingsAt(h) => SettingsAt(h)'
  <2>1. SUFFICES ASSUME SettingsAt(h)
                 PROVE  SettingsAt(h)'
    OBVIOUS
  <2>2. Undone(model'[h], ModelRec(h)') = (mine'[h]).model
    BY <1>1, <1>2, <1>3, <1>5, <2>1 DEF SettingsAt
  <2>3. Entries(allow'[h]) \ AddedHere(h)' = (mine'[h]).items
    BY <1>1, <1>3, <1>4, <1>5, <2>1 DEF SettingsAt
  <2>4. QED BY <2>2, <2>3 DEF SettingsAt
<1>8. SettingsOK'
  BY <1>1, <1>2, <1>4, <1>5, <1>7, SettingsEdited
<1>9. RestoredOK'
  <2> SUFFICES ASSUME run # Idle, run.phase = "delete", run.restored, Untorn(Home(run.at))'
               PROVE  /\ run.at[2] = "kit" => model[Home(run.at)] = (mine'[Home(run.at)]).model
                      /\ Entries(allow'[Home(run.at)]) \cap Added(Cur[run.at].allow) = {}
    BY <1>2, <1>3 DEF RestoredOK
  <2>1. run.at \in Owners /\ Home(run.at) \in Homes
    BY RunFacts, OwnerFacts
  <2>2. /\ run.at[2] = "kit" => model[Home(run.at)] = mine[Home(run.at)].model
        /\ Entries(allow[Home(run.at)]) \cap Added(Cur[run.at].allow) = {}
    BY <1>2, <1>3, <2>1 DEF RestoredOK
  <2>3. QED BY <1>4, <1>5, <2>1, <2>2
<1>10. QED BY <1>3, <1>6, <1>8, <1>9

-----------------------------------------------------------------------------
(***************************************************************************)
(* The invariant holds, and what it says of a home no run works on.        *)
(***************************************************************************)
LEMMA InitHolds ==
  ASSUME Init
  PROVE  IInv
<1>1. /\ InUse \subseteq Homes /\ run = Idle
      /\ model \in [Homes -> ModelValues] /\ allow \in [Homes -> AllowValues]
      /\ mine = [h \in Homes |-> [model |-> model[h], items |-> Entries(allow[h])]]
      /\ cli = [h \in Homes |-> {}] /\ handed = cli /\ kept = cli /\ bins = {} /\ torn = {}
      /\ manifests = [o \in Owners |-> NoManifest]
  <2>1. PICK s \in Scopes : harness = s.harness
    BY DEF Init
  <2>2. InUse \subseteq Homes
    BY <2>1, SetupAssumption DEF SetupAssumption, InUse
  <2>3. model \in [Homes -> ModelValues]
    BY DEF Init, ModelValues
  <2>4. allow \in [Homes -> AllowValues]
    BY DEF Init, AllowValues, Named
  <2>5. QED BY <2>2, <2>3, <2>4 DEF Init
<1>2. \A o \in Owners : Cur[o] = NewManifest /\ Prior(o) = NewManifest
  BY <1>1 DEF Cur, Prior
<1>3. TypeOK
  <2>1. \A h \in Homes : Entries(allow[h]) \in SUBSET Named
    BY <1>1, ListsFacts
  <2>2. mine \in [Homes -> [model : ModelValues, items : SUBSET Named]]
    BY <1>1, <2>1
  <2>3. QED BY <1>1, <2>2 DEF TypeOK, AllowValues
<1>4. RunOK /\ ApplyOK /\ RemoveOK /\ PlanOK /\ RestoredOK
  BY <1>1 DEF RunOK, ApplyOK, RemoveOK, PlanOK, RestoredOK
<1>5. KindOK
  BY <1>2 DEF KindOK, Fits, NewManifest
<1>6. SettingsOK
  <2> SUFFICES ASSUME NEW h \in Homes
               PROVE  SettingsAt(h)
    BY DEF SettingsOK
  <2>1. ModelRec(h) = NoRecord
    BY <1>2, OwnerFacts DEF ModelRec, NewManifest
  <2>2. AddedHere(h) = {}
    BY <1>2 DEF AddedHere, Added, NewManifest, Here
  <2>3. QED BY <1>1, <2>1, <2>2 DEF SettingsAt, Undone
<1>7. RegsOK
  BY <1>1 DEF RegsOK, RegsAt, Unhanded
<1>8. BinsOK
  BY <1>2 DEF BinsOK, BinsAt, NewManifest
<1>9. QED BY <1>3, <1>4, <1>5, <1>6, <1>7, <1>8 DEF IInv

LEMMA StutterKeeps ==
  ASSUME IInv, UNCHANGED vars
  PROVE  IInv'
<1> USE DEF IInv
<1>1. UNCHANGED <<harness, model, allow, cli, bins, manifests, run, mine, handed, kept, torn>>
  BY DEF vars, keys
<1>2. /\ Cur' = Cur
      /\ RunOK' /\ ApplyOK' /\ RemoveOK' /\ KindOK' /\ PlanOK' /\ RegsOK' /\ BinsOK'
      /\ \A g \in Homes : Untorn(g)' = Untorn(g)
  BY <1>1, EditKept
<1>3. TypeOK'
  BY <1>1 DEF TypeOK, InUse
<1>4. SettingsOK'
  BY <1>1, <1>2, SameSettings DEF SettingsOK
<1>5. RestoredOK'
  <2>1. run # Idle => Home(run.at) \in Homes
    BY RunFacts, OwnerFacts
  <2>2. QED BY <1>1, <1>2, <2>1 DEF RestoredOK
<1>6. QED BY <1>2, <1>3, <1>4, <1>5

LEMMA NextKeeps ==
  ASSUME IInv, Next
  PROVE  IInv'
<1>1. CASE \E h \in Kits \cap InUse, rel \in Releases :
             \/ StartUninstall(<<h, "kit">>, rel)
             \/ \E pref \in Prefs : StartKit(<<h, "kit">>, rel, pref)
  BY <1>1, StartUninstallKeeps, StartKitKeeps
<1>2. CASE \E hs \in (SUBSET InUse) \ {{}}, rel \in Releases :
             \/ StartMcpUninstall(hs, rel)
             \/ StartMcp(hs, rel)
  BY <1>2, StartMcpUninstallKeeps, StartMcpKeeps
<1>3. CASE run # Idle /\ Steps
  <2>1. CASE \E o \in run.todo : RetireServers(o) \/ RetireBinaries(o) \/ Serve(o)
                                 \/ ServeStops(o) \/ Unregister(o)
    BY <1>3, <2>1, RetireServersKeeps, RetireBinariesKeeps, ServeKeeps, ServeStopsKeeps, UnregisterKeeps
  <2>2. CASE Fetch \/ FetchStops \/ Save
    BY <1>3, <2>2, FetchKeeps, FetchStopsKeeps, SaveKeeps
  <2>3. CASE RestoreKeys \/ Delete \/ DeleteStops
    BY <1>3, <2>3, RestoreKeysKeeps, DeleteKeeps, DeleteStopsKeeps
  <2>4. CASE StepFails \/ Dies
    BY <2>4, StepFailsKeeps, DiesKeeps
  <2>5. QED BY <1>3, <2>1, <2>2, <2>3, <2>4 DEF Steps
<1>4. CASE \E h \in InUse :
             \/ \E v \in OwnModels[h] \cup {Absent} : EditOwnModel(h, v)
             \/ \E e \in OwnEntries[h] : AddOwnEntry(h, e)
             \/ \E e \in Entries(allow[h]) : RemoveEntry(h, e)
  BY <1>4, EditOwnModelKeeps, AddOwnEntryKeeps, RemoveEntryKeeps
<1>5. QED BY <1>1, <1>2, <1>3, <1>4 DEF Next

(***************************************************************************)
(* At every step of every run (plan, retire, fetch, serve, save;           *)
(* unregister, restore, delete), of every edit by hand, failure and crash  *)
(* between them, the manifests and the run's own record account for what   *)
(* was registered, edited and installed.                                   *)
(***************************************************************************)
THEOREM SetupInvariant == Spec => []IInv
<1>1. Init => IInv
  BY InitHolds
<1>2. IInv /\ [Next]_vars => IInv'
  BY NextKeeps, StutterKeeps
<1>3. QED BY <1>1, <1>2, PTL DEF Spec

(***************************************************************************)
(* The configuration, the manifests and the run have values of their       *)
(* types.                                                                  *)
(***************************************************************************)
THEOREM SetupTypes == Spec => []TypeOK
<1>1. IInv => TypeOK
  BY DEF IInv
<1>2. QED BY <1>1, SetupInvariant, PTL

\* The owners of a home without a run have what their manifests say on record.
LEMMA FreeFacts ==
  ASSUME TypeOK, NEW h \in Homes, Free(h), NEW o \in Here(h)
  PROVE  /\ Cur[o] = Prior(o) /\ o \in Owners
         /\ Rec(o) = OnRecord(o, manifests[o]) /\ Cur[o].bins = Listing(manifests[o])
         /\ manifests[o] = NoManifest => Cur[o] = NewManifest
<1>1. o \in Owners /\ Home(o) = h
  BY DEF Here
<1>2. Cur[o] = Prior(o)
  BY <1>1 DEF Free, Cur
<1>3. QED BY <1>1, <1>2 DEF Rec, OnRecord, Prior, Listing, NewManifest

(***************************************************************************)
(* Once no manifest is left in a home (every install was uninstalled), the *)
(* settings are what the person had or wrote since (README.md:21-22).      *)
(***************************************************************************)
THEOREM SettingsReversed == Spec => []SettingsComeBack
<1>1. ASSUME IInv
      PROVE  SettingsComeBack
  <2> SUFFICES ASSUME NEW h \in Homes, Free(h),
                      \A o \in Owners : Home(o) = h => manifests[o] = NoManifest /\ o \notin torn
               PROVE  model[h] = mine[h].model /\ Entries(allow[h]) = mine[h].items
    BY DEF SettingsComeBack
  <2>1. TypeOK /\ SettingsAt(h)
    BY <1>1 DEF IInv, SettingsOK, Untorn, Here
  <2>2. \A o \in Here(h) : Cur[o] = NewManifest
    BY <2>1, FreeFacts DEF Here
  <2>3. ModelRec(h) = NoRecord
    BY <2>2, OwnerFacts DEF ModelRec, Here, NewManifest
  <2>4. AddedHere(h) = {}
    BY <2>2 DEF AddedHere, Added, NewManifest
  <2>5. QED BY <2>1, <2>3, <2>4 DEF SettingsAt, Undone
<1>2. QED BY <1>1, SetupInvariant, PTL

(***************************************************************************)
(* A registered server is on record in a manifest of its home, or the      *)
(* report told the person to remove it by hand (retire.rs), or the harness *)
(* refused to remove it at an uninstall, which nothing reports (serve.rs). *)
(***************************************************************************)
THEOREM RegistrationsRecorded == Spec => []RegistrationsOnRecord
<1>1. ASSUME IInv
      PROVE  RegistrationsOnRecord
  <2> SUFFICES ASSUME NEW h \in Homes, Free(h), {o \in Owners : Home(o) = h} \cap torn = {}
               PROVE  cli[h] \ (handed[h] \cup kept[h]) \subseteq
                        UNION {OnRecord(o, manifests[o]) : o \in {p \in Owners : Home(p) = h}}
    BY DEF RegistrationsOnRecord
  <2>1. TypeOK /\ RegsAt(h)
    BY <1>1 DEF IInv, RegsOK, Untorn, Here
  <2>2. \A o \in Here(h) : Rec(o) = OnRecord(o, manifests[o])
    BY <2>1, FreeFacts
  <2>3. QED BY <2>1, <2>2 DEF RegsAt, Unhanded, Here
<1>2. QED BY <1>1, SetupInvariant, PTL

(***************************************************************************)
(* No retirement and no uninstall removes the binary that a registered     *)
(* server of any home starts (apply_binaries, other_manifests_listing).    *)
(***************************************************************************)
THEOREM RegisteredServersHaveBinaries == Spec => []RegisteredServerHasBinary
<1>1. ASSUME IInv
      PROVE  RegisteredServerHasBinary
  <2> SUFFICES ASSUME NEW o \in Owners \ torn, Free(Home(o))
               PROVE  Listing(manifests[o]) \cap OnRecord(o, manifests[o])
                        \cap (cli[Home(o)] \ (handed[Home(o)] \cup kept[Home(o)])) \subseteq bins
    BY DEF RegisteredServerHasBinary
  <2>1. TypeOK /\ BinsAt(o)
    BY <1>1 DEF IInv, BinsOK
  <2>2. Home(o) \in Homes /\ o \in Here(Home(o))
    BY OwnerFacts DEF Here
  <2>3. Rec(o) = OnRecord(o, manifests[o]) /\ Cur[o].bins = Listing(manifests[o])
    BY <2>1, <2>2, FreeFacts
  <2>4. QED BY <2>1, <2>3 DEF BinsAt, Unhanded
<1>2. QED BY <1>1, SetupInvariant, PTL
=============================================================================

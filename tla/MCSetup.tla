------------------------------ MODULE MCSetup ------------------------------
(***************************************************************************)
(* What the installer keeps, on small instances: the settings, server      *)
(* entries, plugins and binaries of several homes (Setup), the files of    *)
(* one home (KitFiles), and the files of the binary folder (Binaries).  A  *)
(* behaviour is about one part; the others rest.                           *)
(***************************************************************************)
EXTENDS Setup, KitFiles, Binaries

VARIABLE part

-----------------------------------------------------------------------------
(***************************************************************************)
(* Homes that share the binaries: a kit beside the mcp servers in one, the *)
(* mcp servers alone in the other.  The first release ships both servers   *)
(* and the guard, the second only one and no guard.  Where a behaviour has *)
(* an edit by hand or a fault it has two runs, else three.                 *)
(***************************************************************************)
Scope(harnesses, r, e, f) == [harness |-> harnesses, runs |-> r, edits |-> e, faults |-> f]

MCScopes     == {Scope("h1" :> "claude", 3, 1, 0),
                 Scope("h1" :> "claude", 2, 1, 1),
                 Scope("h1" :> "claude" @@ "h2" :> "kimi", 2, 0, 2),
                 Scope("h1" :> "codex" @@ "h2" :> "agy", 2, 0, 1)}
MCOwnModels  == "h1" :> {"u1"} @@ "h2" :> {}
MCOwnEntries == "h1" :> {"dispatch"} @@ "h2" :> {}
MCRank       == "palette" :> 1 @@ "dispatch" :> 2
MCShips      == "r1" :> {"dispatch", "palette"} @@ "r2" :> {"palette"}

-----------------------------------------------------------------------------
(***************************************************************************)
(* One home whose harness loads one file.  A release with a rule, a skill  *)
(* and dispatch preferences, and one with another rule, no skill, and      *)
(* consult and git preferences; homes without anything, with the files of  *)
(* a release that wrote line manifests and called consult aside, with an   *)
(* old dispatch file, and with files of the person's own where the kit's   *)
(* go.                                                                     *)
(***************************************************************************)
rule1 == <<"rules", "rule1">>
rule2 == <<"rules", "rule2">>
skill == <<"skills", "s">>
note == <<"skills", "s", "note">>
consult == PrefsDest("consult")
aside == PrefsDest("aside")
git == PrefsDest("git")
custom == <<"rules", "mine">>
T(own, w) == [own |-> own, body |-> "text" :> w]
Pf(body) == [own |-> "user", body |-> body]
ConsultTemplate == "Level" :> "suggest" @@ "Backend" :> "codex" @@ "Codex model" :> Blank @@ "Notes" :> Blank
DispatchTemplate == "Level" :> "suggest" @@ "Backend" :> "codex" @@ "Model" :> Blank @@ "Notes" :> Blank
GitTemplate == "Commit signing" :> "unset" @@ "Notes" :> Blank
MCKit == "old" :> [rules |-> {rule1}, skills |-> {skill}, prefs |-> {"dispatch"}, template |-> "dispatch" :> DispatchTemplate]
      @@ "new" :> [rules |-> {rule2}, skills |-> {}, prefs |-> {"consult", "git"},
                   template |-> "consult" :> ConsultTemplate @@ "git" :> GitTemplate]
OldConsult == "Auto-call policy" :> "proactive" @@ "Preferred third-party advisor" :> "none"
              @@ "Default models" :> "m1" @@ "Notes" :> "n1" @@ "Own" :> "o1"
OldDispatch == "Execution policy" :> "proactive" @@ "Approval mode" :> "auto"
              @@ "Default backend / model / effort" :> "odd" @@ "Notes" :> "n1" @@ "Own" :> "o1"
Start(f, l, rel, ans, cus, r, t, x) ==
  [files |-> f, ledger |-> l, releases |-> rel, answers |-> ans, custom |-> cus,
   runs |-> r, touches |-> t, faults |-> x]
\* The manifest of an earlier layout.
Line(fs) == [line |-> TRUE, owned |-> [p \in DOMAIN fs |-> TRUE], copies |-> {}, made |-> {}, backed |-> FALSE]
Old1 == rule1 :> KitText("old", rule1, {}) @@ aside :> Pf(OldConsult)
        @@ git :> Pf("Commit signing" :> "default" @@ "Own" :> "o2")
Old2 == PrefsDest("dispatch") :> Pf(OldDispatch)
Plain == {<<>>}
Answers == { <<>>, "consult" :> ("Level" :> "auto") }
Mine == custom :> T("user", "c1") @@ rule2 :> T("user", "c2")
MCStarts ==
  { Start(<<>>, NoLedger, {"old", "new"}, Plain, Plain, 3, 0, 1),
    Start(<<>>, NoLedger, {"old", "new"}, Plain, {<<>>, Mine}, 2, 1, 0),
    Start(<<>>, NoLedger, {"new"}, Answers, Plain, 2, 2, 0),
    Start(Old1, Line(Old1), {"new"}, Answers, Plain, 2, 1, 1),
    Start(Old2, NoLedger, {"old"}, Plain, Plain, 2, 1, 1),
    Start(Primary :> T("user", "w1") @@ rule2 :> T("user", "w1"), NoLedger, {"new"},
          Plain, {<<>>, Mine}, 2, 1, 1) }
W(p, f) == [do |-> "write", at |-> p, file |-> f]
MCTouches == { W(Primary, T("none", "w2")), W(rule1, T("none", "w2")), W(custom, T("user", "w2")),
   W(aside, Pf(ConsultTemplate)), [do |-> "set", at |-> consult, heading |-> "Own", value |-> "o2"],
   [do |-> "set", at |-> consult, heading |-> "Backend", value |-> "odd"],
   W(note, T("user", "w2")), [do |-> "disown", at |-> skill], [do |-> "disown", at |-> rule2],
   [do |-> "delete", at |-> rule2], [do |-> "delete", at |-> consult] }

-----------------------------------------------------------------------------
(***************************************************************************)
(* Three release sites, each with a latest release that another follows:   *)
(* two whole ones; one without checksums before one whose checksums.txt    *)
(* leaves a server out; and one with an archive that lacks its binary      *)
(* before one with a wrong checksum and no guard.  r3 was never released.  *)
(***************************************************************************)
Whole(ns) == [n \in ns |-> "whole"]
Right(ns) == [n \in ns |-> "right"]
Asset(assets, sums) == [assets |-> assets, sums |-> sums]
Site(releases) == [releases |-> releases, first |-> "r1", then |-> "r2"]
TheGuard == "agent-guard"
TheServers == {"dispatch", "palette"}
Everything == TheServers \cup {TheGuard}
MCSites == {
  Site("r1" :> Asset(Whole(Everything), Right(Everything))
       @@ "r2" :> Asset(Whole(Everything), Right(Everything))),
  Site("r1" :> Asset(Whole(TheServers), Unset)
       @@ "r2" :> Asset(Whole(Everything), Right({"palette", TheGuard}))),
  Site("r1" :> Asset(Whole({"palette"}) @@ "dispatch" :> "hollow", Right(Everything))
       @@ "r2" :> Asset(Whole(TheServers), Right({"palette"}) @@ "dispatch" :> "wrong")) }
Ask(mode, names, v) == [mode |-> mode, names |-> names, version |-> v]
MCRequests ==
  { Ask("prebuilt", <<"palette", TheGuard>>, v) : v \in {"latest", "r1", "r3"} }
  \cup { Ask("prebuilt", <<"dispatch", "palette">>, v) : v \in {"latest", "r1", "r2"} }
  \cup { Ask("build", <<"dispatch", TheGuard>>, "r1") }

-----------------------------------------------------------------------------
SetupRests ==
  /\ harness = <<>> /\ runs = 0 /\ edits = 0 /\ faults = 0 /\ bins = {} /\ run = Idle /\ torn = {}
  /\ model = [h \in Homes |-> Absent] /\ allow = model
  /\ mine = [h \in Homes |-> [model |-> Absent, items |-> {}]]
  /\ cli = [h \in Homes |-> {}] /\ handed = cli /\ kept = cli
  /\ manifests = [o \in Owners |-> NoManifest]
KitRests ==
  /\ start = Start(<<>>, NoLedger, {}, {}, {}, 0, 0, 0) /\ files = <<>> /\ folders = {} /\ backups = {}
  /\ ledger = NoLedger /\ pending = Nobody /\ late = {} /\ lapsed = FALSE /\ settled = Nobody

BinariesRest ==
  /\ web = Unset /\ newest = Unset /\ folder = <<>> /\ strays = {} /\ job = Unset /\ ended = Unset
  /\ installs = 0 /\ mishaps = 0

MCInit ==
  \/ part = "homes" /\ Init /\ KitRests /\ BinariesRest
  \/ part = "files" /\ SetupRests /\ KitInit /\ BinariesRest
  \/ part = "binaries" /\ SetupRests /\ KitRests /\ BinInit
MCNext ==
  /\ part' = part
  /\ \/ part = "homes" /\ Next /\ UNCHANGED <<kitVars, binVars>>
     \/ part = "files" /\ KitNext /\ UNCHANGED <<vars, binVars>>
     \/ part = "binaries" /\ BinNext /\ UNCHANGED <<vars, kitVars>>
MCSpec == MCInit /\ [][MCNext]_<<part, vars, kitVars, binVars>>
=============================================================================

---------------------------- MODULE AgentsProofs ----------------------------
(***************************************************************************)
(* Proofs about what stands behind a row of dispatch, for every value of   *)
(* the constants.  The log of an opencode turn on record is closed, for    *)
(* any number of events, whenever the server dies, the run is cancelled or *)
(* an append is given up while its line still reaches the file.  A         *)
(* cancelled attempt leaves nothing of its tree behind, for every set of   *)
(* platforms and guard modes.  No run nests below the ceiling, however     *)
(* many are asked for and by whichever servers.  A row that ended tells    *)
(* what its processes printed, for every limit of a capture and every      *)
(* length of an output.                                                    *)
(***************************************************************************)
EXTENDS Attempt, Opencode, Delegation, Outcomes, ListProofs

-----------------------------------------------------------------------------
(* The turn of an opencode run.                                             *)
TurnLines    == {"meta", "started", "user", "event", "complete", "message"}
Before   == {"begin", "health", "create", "init", "session", "sending"}
Waiting  == {"asking", "reading", "appending", "aborted"}

TurnTypeOK ==
  /\ lines \in Seq(TurnLines)
  /\ pending \in Shown \cup {"none"}
  /\ stream \in Waiting \cup {"none", "gone"}

\* Nothing ended before the answer, and the reader of events starts with the message.
OneTurn ==
  /\ step \in Before => ended = "none"
  /\ step \in Before \ {"sending"} => stream = "none"

\* An event that was read is appended by a reader that still runs.
ReaderAlive == pending # "none" => stream \in {"appending", "aborted"}

\* An answer on record is closed once the reader of events is gone.
Answered ==
  /\ ended \in {"replied", "refused"} =>
       step = "join" \/ (stream = "gone" /\ step \in {"stop and read", "stderr", "closing"})
  /\ ended \in {"success", "failure"} =>
       /\ step = "over" /\ stream = "gone"
       /\ lost \/ Last(lines) = "complete"
  /\ step = "join" => ended \in {"replied", "refused"}
  /\ step = "closing" => ended \in {"replied", "refused"}

OInv == TurnTypeOK /\ OneTurn /\ ReaderAlive /\ Answered

LEMMA LastAppended ==
    ASSUME NEW S, NEW s \in Seq(S), NEW e \in S
    PROVE  Last(s \o <<e>>) = e
  BY ConcatProperties DEF Last

LEMMA InitOInv == OpencodeInit => OInv
  <1> SUFFICES ASSUME OpencodeInit PROVE OInv
    OBVIOUS
  <1>1. <<>> \in Seq(TurnLines) /\ <<"meta", "started", "user", "complete">> \in Seq(TurnLines)
    BY DEF TurnLines
  <1> QED
    BY <1>1 DEF OpencodeInit, OInv, TurnTypeOK, OneTurn, ReaderAlive, Answered, Before, Waiting

\* A step of the run that leaves the log and the reader alone.
LEMMA QuietSteps ==
    ASSUME OInv,
           \/ StopServer \/ StderrRead \/ AbortSession \/ Launch \/ StartupCancelled \/ InitFails
           \/ Joined \/ \E works \in BOOLEAN : Startup(works)
    PROVE  OInv'
  <1>1. /\ UNCHANGED <<lines, lost, streamVars>>
    BY DEF StopServer, StderrRead, AbortSession, Launch, StartupCancelled, InitFails, Joined, Startup
  <1>2. TurnTypeOK' /\ ReaderAlive'
    BY <1>1 DEF OInv, TurnTypeOK, ReaderAlive, streamVars
  <1>3. OneTurn'
    BY <1>1 DEF OInv, OneTurn, Before, Goes, Out, AfterHealth, streamVars,
                StopServer, StderrRead, AbortSession, Launch, StartupCancelled, InitFails, Joined, Startup
  <1>4. Answered'
    BY <1>1 DEF OInv, OneTurn, Answered, Before, Goes, Out, AfterHealth, streamVars,
                StopServer, StderrRead, AbortSession, Launch, StartupCancelled, InitFails, Joined, Startup
  <1> QED
    BY <1>2, <1>3, <1>4 DEF OInv

LEMMA NextOInv == OInv /\ [OpencodeNext]_opencodeVars => OInv'
  <1> SUFFICES ASSUME OInv, [OpencodeNext]_opencodeVars PROVE OInv'
    OBVIOUS
  <1> USE DEF Goes, Out, streamVars
  <1>1. CASE \/ StopServer \/ StderrRead \/ AbortSession \/ Launch \/ StartupCancelled \/ InitFails
             \/ Joined \/ \E works \in BOOLEAN : Startup(works)
    BY <1>1, QuietSteps
  <1>2. CASE InitLog \/ InitCancelled
    <2>1. Missing \in TurnLines
      BY DEF Missing, TurnLines
    <2>2. lines' \in Seq(TurnLines)
      BY <1>2, <2>1 DEF InitLog, InitCancelled, Appended, OInv, TurnTypeOK
    <2>3. step = "init" /\ step' \in {"init", "session", "abort"} /\ UNCHANGED <<stream, pending>>
      BY <1>2 DEF InitLog, InitCancelled
    <2>4. ended = "none" /\ stream = "none" /\ ended' \in {"none", "cancelled"} /\ (step' # "abort" => ended' = "none")
      BY <1>2, <2>3 DEF OInv, OneTurn, Before, InitLog, InitCancelled
    <2> QED
      BY <2>2, <2>3, <2>4 DEF OInv, TurnTypeOK, OneTurn, ReaderAlive, Answered, Before
  <1>3. CASE SendMessage
    BY <1>3 DEF SendMessage, OInv, TurnTypeOK, OneTurn, ReaderAlive, Answered, Before, Waiting
  <1>4. CASE Response
    BY <1>4 DEF Response, OInv, TurnTypeOK, OneTurn, ReaderAlive, Answered, Before
  <1>5. CASE CancelSend
    BY <1>5 DEF CancelSend, OInv, TurnTypeOK, OneTurn, ReaderAlive, Answered, Before, Waiting
  <1>6. CASE Close
    <2> USE DEF Close
    <2>1. PICK reply \in Reply, completed \in {<<>>, <<"complete">>} :
            lines' = lines \o reply \o completed /\ lost' = (completed = <<>>)
      BY <1>6
    <2>2. reply \in Seq(TurnLines) /\ <<"complete">> \in Seq(TurnLines) /\ <<>> \in Seq(TurnLines)
      <3>1. <<"message">> \in Seq(TurnLines) /\ <<"complete">> \in Seq(TurnLines) /\ <<>> \in Seq(TurnLines)
        BY DEF TurnLines
      <3>2. reply \in {<<>>, <<"message">>}
        BY DEF Reply
      <3> QED
        BY <3>1, <3>2
    <2>3. lines \o reply \in Seq(TurnLines)
      BY <2>2, ConcatProperties DEF OInv, TurnTypeOK
    <2>4. lines' \in Seq(TurnLines)
      BY <2>1, <2>2, <2>3, ConcatProperties
    <2>5. lost' \/ Last(lines') = "complete"
      <3>1. "complete" \in TurnLines
        BY DEF TurnLines
      <3>2. Last((lines \o reply) \o <<"complete">>) = "complete"
        BY <2>3, <3>1, LastAppended
      <3>3. CASE completed = <<"complete">>
        BY <2>1, <3>2, <3>3
      <3>4. CASE completed = <<>>
        BY <2>1, <3>4
      <3> QED
        BY <3>3, <3>4
    <2>6. stream = "gone" /\ ended' \in {"success", "failure"} /\ step' = "over" /\ UNCHANGED <<stream, pending>>
      BY <1>6 DEF OInv, Answered
    <2> QED
      BY <2>4, <2>5, <2>6 DEF OInv, TurnTypeOK, OneTurn, ReaderAlive, Answered, Before
  <1>7. CASE StreamOpens \/ StreamStops \/ StreamReads
    BY <1>7 DEF StreamOpens, StreamStops, StreamReads, StreamRest, OInv, TurnTypeOK, OneTurn, ReaderAlive,
                Answered, Before, Waiting
  <1>8. CASE StreamAppends
    <2> USE <1>8 DEF StreamAppends, StreamRest
    <2>1. pending \in TurnLines /\ stream \in {"appending", "aborted"}
      BY DEF OInv, TurnTypeOK, ReaderAlive, Shown, TurnLines
    <2>2. lines' \in Seq(TurnLines)
      BY <2>1 DEF Appended, OInv, TurnTypeOK
    <2>3. ended \notin {"success", "failure"}
      BY <2>1 DEF OInv, Answered
    <2> QED
      BY <2>1, <2>2, <2>3 DEF OInv, TurnTypeOK, OneTurn, ReaderAlive, Answered, Before, Waiting
  <1>9. CASE World /\ UNCHANGED <<turn, step, ended, streamVars, eventToken, lines, lost>>
    BY <1>9 DEF OInv, TurnTypeOK, OneTurn, ReaderAlive, Answered
  <1>10. CASE UNCHANGED opencodeVars
    BY <1>10 DEF opencodeVars, OInv, TurnTypeOK, OneTurn, ReaderAlive, Answered
  <1> QED
    BY <1>1, <1>2, <1>3, <1>4, <1>5, <1>6, <1>7, <1>8, <1>9, <1>10
    DEF OpencodeNext, OpencodeStep, Answers, StreamProceeds

(* A turn of opencode on record is closed in its log: its completion, when  *)
(* it could be written, is the last line, and the reader of events is gone, *)
(* so that no event of the turn follows (opencode.rs run_inner).            *)
THEOREM OpencodeTurnIsClosed == OpencodeSpec => []TurnIsClosed
  <1>1. OpencodeInit => OInv
    BY InitOInv
  <1>2. OInv /\ [OpencodeNext]_opencodeVars => OInv'
    BY NextOInv
  <1>3. OInv => TurnIsClosed
    BY DEF OInv, Answered, TurnIsClosed
  <1> QED
    BY <1>1, <1>2, <1>3, PTL DEF OpencodeSpec

-----------------------------------------------------------------------------
(***************************************************************************)
(* The inductive invariant.  Nothing was started while the call is idle;   *)
(* only a guarded attempt has a guard, only Windows has a job; the process *)
(* id can be taken by another process only once the exit was collected;    *)
(* and a call that returned "cancelled" killed what it had started.        *)
(***************************************************************************)
Guards == {"none", "arming", "checking", "forking", "registering", "watching",
           "rechecking", "mirroring", "exited", "gone"}

AttemptTypeOK ==
  /\ host \in [platform : {"linux", "macos", "windows"}, mode : Modes, located : BOOLEAN]
  /\ server \in {"up", "gone"}
  /\ call \in {"idle", "attaching", "resuming", "waiting", "draining", "done"}
  /\ outcome \in {"none", "cancelled", "failed", "record"}
  /\ guard \in Guards
  /\ program \in {"none", "suspended", "running", "exited", "gone"}
  /\ helper \in {"none", "holding", "quiet", "left", "gone"}
  /\ job \in {"none", "plain", "close"}
  /\ token \in BOOLEAN /\ reused \in BOOLEAN /\ strangers \in BOOLEAN

NothingYet == call = "idle" => program = "none" /\ guard = "none" /\ helper = "none"
OnlyWrapped == (guard # "none" => Wrapped) /\ (Unix => job = "none")
AttachesOnWindows == call \in {"attaching", "resuming"} => ~Unix
ReusedLate == reused => call \in {"draining", "done"}
EndsOnce == outcome # "none" => call = "done"
KilledWhenCancelled ==
  outcome = "cancelled" =>
    /\ program \in {"none", "gone"} /\ guard \in {"none", "gone"}
    /\ Unix \/ job # "none" => helper \notin InTree

AInv ==
  /\ AttemptTypeOK /\ NothingYet /\ OnlyWrapped /\ AttachesOnWindows
  /\ ReusedLate /\ EndsOnce /\ KilledWhenCancelled /\ ~strangers

LEMMA AttemptInitially == AttemptInit => AInv
  BY AttemptAssumption
  DEF AttemptInit, AInv, AttemptTypeOK, Guards, NothingYet, OnlyWrapped, AttachesOnWindows,
      ReusedLate, EndsOnce, KilledWhenCancelled

LEMMA AttemptImplies == AInv => CancelledTreeIsGone
  BY DEF AInv, AttemptTypeOK, KilledWhenCancelled, CancelledTreeIsGone, GuardRuns, Guards

\* Parts of the invariant that read variables a step leaves alone.
USE DEF AInv, NothingYet, OnlyWrapped, AttachesOnWindows, ReusedLate, EndsOnce, KilledWhenCancelled,
        Unix, Wrapped, GuardRuns, InTree, processes, serverVars

LEMMA RunStepKeeps == AInv /\ RunStep => AInv'
<1> SUFFICES ASSUME AInv, RunStep PROVE AInv'
  OBVIOUS
<1> USE DEF AttemptTypeOK, Guards
<1>1. CASE Refuse
  BY <1>1 DEF Refuse, Return
<1>2. CASE SpawnContained
  BY <1>2 DEF SpawnContained
<1>3. CASE \E works \in BOOLEAN : Attach(works)
  BY <1>3 DEF Attach, Return
<1>4. CASE \E works \in BOOLEAN : Resume(works)
  BY <1>4 DEF Resume, KillTree, Return, GroupExists
<1>5. CASE Exited
  BY <1>5 DEF Exited, Reap, ChildExited
<1>6. CASE Cancelled
  BY <1>6 DEF Cancelled, KillTree, Return, GroupExists
<1>7. CASE Breaks
  BY <1>7 DEF Breaks, KillTree, Return, GroupExists
<1>8. CASE Drained
  BY <1>8 DEF Drained, Return
\* Somebody holds the output: the group exists, or a helper has left it.
<1>9. CASE CancelDrain
  BY <1>9 DEF CancelDrain, KillTree, Return, GroupExists, PipeHeld
<1> QED
  BY <1>1, <1>2, <1>3, <1>4, <1>5, <1>6, <1>7, <1>8, <1>9 DEF RunStep

LEMMA GuardStepKeeps == AInv /\ GuardStep => AInv'
<1> SUFFICES ASSUME AInv, GuardStep PROVE AInv'
  OBVIOUS
<1> USE DEF AttemptTypeOK, Guards
<1>1. CASE Arm /\ UNCHANGED serverVars
  BY <1>1 DEF Arm
<1>2. CASE CheckParent /\ UNCHANGED serverVars
  BY <1>2 DEF CheckParent, GuardGoes
<1>3. CASE Fork /\ UNCHANGED serverVars
  BY <1>3 DEF Fork, GuardGoes
<1>4. CASE Register /\ UNCHANGED serverVars
  BY <1>4 DEF Register, GuardGoes
<1>5. CASE Wake /\ UNCHANGED serverVars
  BY <1>5 DEF Wake, KillGroup
<1>6. CASE WatchFails /\ UNCHANGED serverVars
  BY <1>6 DEF WatchFails, KillGroup
<1>7. CASE Recheck /\ UNCHANGED serverVars
  BY <1>7 DEF Recheck, GuardGoes, KillGroup
<1>8. CASE Mirror /\ UNCHANGED serverVars
  BY <1>8 DEF Mirror, GuardGoes
<1> QED
  BY <1>1, <1>2, <1>3, <1>4, <1>5, <1>6, <1>7, <1>8 DEF GuardStep, GuardProceeds

LEMMA WorldStepKeeps == AInv /\ WorldStep => AInv'
<1> SUFFICES ASSUME AInv, WorldStep PROVE AInv'
  OBVIOUS
<1> USE DEF AttemptTypeOK, Guards
<1>1. CASE StartHelper /\ UNCHANGED <<host, server, call, outcome, token, reused, strangers>>
  BY <1>1 DEF StartHelper
<1>2. CASE ProgramExits /\ UNCHANGED <<host, server, call, outcome, token, reused, strangers>>
  BY <1>2 DEF ProgramExits
<1>3. CASE HelperExits /\ UNCHANGED <<host, server, call, outcome, token, reused, strangers>>
  BY <1>3 DEF HelperExits
<1>4. CASE HelperLeaves /\ UNCHANGED <<host, server, call, outcome, token, reused, strangers>>
  BY <1>4 DEF HelperLeaves
<1>5. CASE /\ token' = TRUE
           /\ UNCHANGED <<host, server, call, outcome, processes, reused, strangers>>
  BY <1>5
<1>6. CASE /\ call = "draining" /\ reused' = TRUE
           /\ UNCHANGED <<host, server, call, outcome, token, processes, strangers>>
  BY <1>6
<1> QED
  BY <1>1, <1>2, <1>3, <1>4, <1>5, <1>6 DEF WorldStep

LEMMA ServerGoneKeeps == AInv /\ (ServerKilled \/ ServerEnds) => AInv'
<1> SUFFICES ASSUME AInv, ServerKilled \/ ServerEnds PROVE AInv'
  OBVIOUS
<1> USE DEF AttemptTypeOK, Guards, ServerGone, JobDies
<1>1. CASE ServerKilled
  BY <1>1 DEF ServerKilled
<1>2. CASE ServerEnds
  BY <1>2 DEF ServerEnds
<1> QED
  BY <1>1, <1>2

LEMMA AttemptKeeps == AInv /\ [AttemptNext]_attemptVars => AInv'
<1> SUFFICES ASSUME AInv, [AttemptNext]_attemptVars PROVE AInv'
  OBVIOUS
<1>1. CASE AttemptNext
  BY <1>1, RunStepKeeps, GuardStepKeeps, WorldStepKeeps, ServerGoneKeeps DEF AttemptNext
<1>2. CASE UNCHANGED attemptVars
  BY <1>2 DEF attemptVars, AttemptTypeOK
<1> QED
  BY <1>1, <1>2

\* A cancelled attempt leaves no process of its tree, and its kill hits no process
\* outside of it (guard.rs ProcessTree::kill; agent-exec.rst:386-391).
THEOREM AttemptCancelledTreeIsGone == AttemptSpec => []CancelledTreeIsGone
<1>1. AttemptInit => AInv
  BY AttemptInitially
<1>2. AInv /\ [AttemptNext]_attemptVars => AInv'
  BY AttemptKeeps
<1>3. AInv => CancelledTreeIsGone
  BY AttemptImplies
<1> QED
  BY <1>1, <1>2, <1>3, PTL DEF AttemptSpec

-----------------------------------------------------------------------------
(* The tree of runs and servers.                                            *)
Four      == {"codex", "claude", "opencode", "agy"}
Sandboxes == {"read-only", "workspace-write", "danger-full-access"}
Markers   == (0 .. PastAll) \cup {Unmarked, Malformed}
ServerRows == [marker : Markers, under : Nat, tools : SUBSET ToolNames]
Stamps    == 1 .. PastAll
Specs ==
  [backend : Four, sandbox : Sandboxes, isolation : {"server-env", "permissions", "ignore-user-config", "safe-mode"},
   value : Stamps]
ProcOf(spec) == [spawned |-> TRUE, backend |-> spec.backend, flags |-> Command(spec), env |-> spec.value]
Procs == {NoProc, Ended} \cup {ProcOf(spec) : spec \in Specs}
RunRows ==
  [kind : {"execute", "consult"}, backend : Four, sandbox : Sandboxes, by : Nat, from : Nat, proc : Procs]

TreeType ==
  /\ danger \in BOOLEAN /\ approvals \in SUBSET ToolNames
  /\ servers \in Seq(ServerRows) /\ delegated \in Seq(RunRows)
  /\ \A s \in DOMAIN servers : servers[s].under <= Len(delegated)
  /\ \A i \in DOMAIN delegated : delegated[i].by \in DOMAIN servers

\* A server inside a backend is at the ceiling, and only an execution has one.
BelowIsRefused ==
  \A s \in DOMAIN servers : servers[s].under # 0 =>
    /\ RefusedAt(s, "execute")
    /\ delegated[servers[s].under].kind = "execute"

\* An execution is of a server at the top; what it continues was asked for the same.
FromTheTop ==
  \A i \in DOMAIN delegated :
    /\ delegated[i].kind = "execute" =>
         /\ servers[delegated[i].by].under = 0
         /\ delegated[i].from # 0 =>
              delegated[i].from < i /\ delegated[delegated[i].from].sandbox = delegated[i].sandbox
    /\ delegated[i].kind = "consult" =>
         delegated[i].from = 0 /\ delegated[i].backend \in {"codex", "claude"}

\* A process has the command line of its run.
Told(r) ==
  LET spec == SpecOf(r, r.by)
  IN Alive(r) => r.proc = ProcOf(spec) /\ ~SandboxRefusal(spec.backend, spec.sandbox)
Commanded == \A r \in Range(delegated) : Told(r)

TreeInv == TreeType /\ BelowIsRefused /\ FromTheTop /\ Commanded

(* The command lines, one backend after the other.                          *)
LEMMA OneFlag ==
    ASSUME NEW name, NEW value
    PROVE  DOMAIN Flag(name, value) = {name} /\ Flag(name, value)[name] = value
  BY DEF Flag

LEMMA CodexLine ==
    ASSUME NEW spec, spec.backend = "codex"
    PROVE  /\ "-s" \in DOMAIN Command(spec) /\ Command(spec)["-s"] = spec.sandbox
           /\ spec.isolation = "server-env" =>
                /\ "--ignore-user-config" \notin DOMAIN Command(spec)
                /\ "mcp_servers.dispatch.env" \in DOMAIN Command(spec)
                /\ Command(spec)["mcp_servers.dispatch.env"] = spec.value
                /\ "approval_mode" \in DOMAIN Command(spec)
                /\ Command(spec)["approval_mode"] = ApprovedTools
           /\ spec.isolation = "ignore-user-config" =>
                /\ "--ignore-user-config" \in DOMAIN Command(spec)
                /\ "approval_mode" \notin DOMAIN Command(spec)
<1> DEFINE S == Flag("-s", spec.sandbox)
           M == Flag("mcp_servers.dispatch.env", spec.value)
           A == Flag("approval_mode", ApprovedTools)
           I == Flag("--ignore-user-config", TRUE)
<1>1. Command(spec) = CodexArgs(spec)
    BY DEF Command
<1>2. DOMAIN S = {"-s"} /\ S["-s"] = spec.sandbox
    BY OneFlag
<1>3. DOMAIN M = {"mcp_servers.dispatch.env"} /\ M["mcp_servers.dispatch.env"] = spec.value
    BY OneFlag
<1>4. DOMAIN A = {"approval_mode"} /\ A["approval_mode"] = ApprovedTools
    BY OneFlag
<1>5. DOMAIN I = {"--ignore-user-config"}
    BY OneFlag
<1>6. spec.isolation = "server-env" => CodexArgs(spec) = And(S, And(M, A))
    BY DEF CodexArgs
<1>7. spec.isolation = "ignore-user-config" => CodexArgs(spec) = And(S, I)
    BY DEF CodexArgs
<1>8. \E g : CodexArgs(spec) = And(S, g)
    BY DEF CodexArgs
<1> HIDE DEF S, M, A, I
<1>9. "-s" \in DOMAIN CodexArgs(spec) /\ CodexArgs(spec)["-s"] = spec.sandbox
    BY <1>2, <1>8 DEF And
<1>10. /\ DOMAIN And(M, A) = {"mcp_servers.dispatch.env", "approval_mode"}
       /\ And(M, A)["mcp_servers.dispatch.env"] = spec.value
       /\ And(M, A)["approval_mode"] = ApprovedTools
    BY <1>3, <1>4 DEF And
<1>11. /\ DOMAIN And(S, And(M, A)) = {"-s", "mcp_servers.dispatch.env", "approval_mode"}
       /\ And(S, And(M, A))["mcp_servers.dispatch.env"] = spec.value
       /\ And(S, And(M, A))["approval_mode"] = ApprovedTools
    BY <1>2, <1>10 DEF And
<1>12. DOMAIN And(S, I) = {"-s", "--ignore-user-config"}
    BY <1>2, <1>5 DEF And
<1>13. ASSUME spec.isolation = "server-env"
       PROVE /\ DOMAIN CodexArgs(spec) = {"-s", "mcp_servers.dispatch.env", "approval_mode"}
             /\ CodexArgs(spec)["mcp_servers.dispatch.env"] = spec.value
             /\ CodexArgs(spec)["approval_mode"] = ApprovedTools
    BY <1>6, <1>11, <1>13
<1>14. ASSUME spec.isolation = "ignore-user-config"
       PROVE DOMAIN CodexArgs(spec) = {"-s", "--ignore-user-config"}
    BY <1>7, <1>12, <1>14
<1> QED BY <1>1, <1>9, <1>13, <1>14

LEMMA ClaudeLine ==
    ASSUME NEW spec \in Specs, spec.backend = "claude"
    PROVE  /\ spec.isolation = "safe-mode" => "--safe-mode" \in DOMAIN Command(spec)
           /\ spec.isolation = "safe-mode" \/ spec.sandbox = "read-only" =>
                /\ "--permission-mode" \in DOMAIN Command(spec)
                /\ Command(spec)["--permission-mode"] = "plan"
<1> DEFINE S == Flag("--safe-mode", TRUE)
           P == Flag("--permission-mode", "plan")
<1>1. Command(spec) = ClaudeArgs(spec)
    BY DEF Command
<1>2. DOMAIN S = {"--safe-mode"}
    BY OneFlag
<1>3. DOMAIN P = {"--permission-mode"} /\ P["--permission-mode"] = "plan"
    BY OneFlag
<1>4. spec.isolation = "safe-mode" => ClaudeArgs(spec) = And(S, P)
    BY DEF ClaudeArgs
<1>5. spec.isolation # "safe-mode" /\ spec.sandbox = "read-only" => ClaudeArgs(spec) = P
    BY DEF ClaudeArgs
<1> HIDE DEF S, P
<1>6. DOMAIN And(S, P) = {"--safe-mode", "--permission-mode"} /\ And(S, P)["--permission-mode"] = "plan"
    BY <1>2, <1>3 DEF And
<1>7. ASSUME spec.isolation = "safe-mode"
      PROVE /\ DOMAIN ClaudeArgs(spec) = {"--safe-mode", "--permission-mode"}
            /\ ClaudeArgs(spec)["--permission-mode"] = "plan"
    BY <1>4, <1>6, <1>7
<1>8. ASSUME spec.isolation # "safe-mode", spec.sandbox = "read-only"
      PROVE DOMAIN ClaudeArgs(spec) = {"--permission-mode"} /\ ClaudeArgs(spec)["--permission-mode"] = "plan"
    BY <1>3, <1>5, <1>8
<1> QED BY <1>1, <1>7, <1>8

LEMMA OpencodeLine ==
    ASSUME NEW spec, spec.backend = "opencode", spec.sandbox = "read-only"
    PROVE  "edit" \in Command(spec)["deny"]
<1>1. Command(spec) = Flag("deny", {"edit", "bash", "task"})
    BY DEF Command, PermissionRules
<1> QED BY <1>1 DEF Flag

(* What a specification is.                                                 *)
LEMMA DepthOfMarker ==
    ASSUME NEW marker \in Markers
    PROVE  /\ Depth(marker) \in 0 .. PastAll
           /\ marker \in 0 .. PastAll => Depth(marker) = marker
  BY MarkersAssumption DEF Depth, Markers

LEMMA StampIsOne ==
    ASSUME TreeType, NEW s \in DOMAIN servers
    PROVE  NextDepth(s) \in Stamps
<1>1. servers[s].marker \in Markers
    <2>1. servers[s] \in ServerRows
        BY DEF TreeType
    <2> QED BY <2>1 DEF ServerRows
<1>2. Depth(servers[s].marker) \in 0 .. PastAll
    BY <1>1, DepthOfMarker
<1> QED BY <1>2, MarkersAssumption DEF NextDepth, Stamps

LEMMA SpecOfRun ==
    ASSUME TreeType, NEW r \in RunRows, r.by \in DOMAIN servers
    PROVE  /\ SpecOf(r, r.by) \in Specs
           /\ SpecOf(r, r.by).backend = r.backend
           /\ SpecOf(r, r.by).value = NextDepth(r.by)
           /\ r.kind = "execute" => /\ SpecOf(r, r.by).sandbox = r.sandbox
                                    /\ r.backend = "codex" => SpecOf(r, r.by).isolation = "server-env"
           /\ r.kind = "consult" =>
                /\ SpecOf(r, r.by).sandbox = "read-only"
                /\ r.backend = "codex" => SpecOf(r, r.by).isolation = "ignore-user-config"
                /\ r.backend # "codex" => SpecOf(r, r.by).isolation = "safe-mode"
<1>1. NextDepth(r.by) \in Stamps
    BY StampIsOne
<1>2. r.kind \in {"execute", "consult"} /\ r.backend \in Four /\ r.sandbox \in Sandboxes
    BY DEF RunRows
<1>3. CASE r.kind = "consult"
    BY <1>1, <1>2, <1>3 DEF SpecOf, ConsultSpec, Specs, Sandboxes
<1>4. CASE r.kind = "execute"
    BY <1>1, <1>2, <1>4 DEF SpecOf, RunSpec, Specs, Sandboxes
<1> QED BY <1>2, <1>3, <1>4

\* Whatever a backend boots is stamped, and under a consultation nothing boots.
LEMMA BootsStamped ==
    ASSUME TreeType, NEW r \in RunRows, r.by \in DOMAIN servers,
           r.kind = "consult" => r.backend \in {"codex", "claude"},
           NEW marker \in Boots(ProcOf(SpecOf(r, r.by)))
    PROVE  marker \in Stamps /\ r.kind = "execute"
<1> DEFINE spec == SpecOf(r, r.by)
           p == ProcOf(spec)
<1>1. spec \in Specs /\ spec.backend = r.backend /\ spec.value \in Stamps
    BY SpecOfRun, StampIsOne
<1>2. r.kind \in {"execute", "consult"} /\ r.backend \in Four
    BY DEF RunRows
<1>3. p.backend = r.backend /\ p.flags = Command(spec) /\ p.env = spec.value
    BY <1>1 DEF ProcOf
<1>4. CASE r.kind = "consult"
    <2>1. CASE r.backend = "codex"
        <3>1. spec.isolation = "ignore-user-config"
            BY <1>4, <2>1, SpecOfRun
        <3>2. "--ignore-user-config" \in DOMAIN p.flags
            BY <1>1, <1>3, <2>1, <3>1, CodexLine
        <3>3. Boots(p) = {}
            BY <1>3, <2>1, <3>2 DEF Boots
        <3> QED BY <3>3
    <2>2. CASE r.backend = "claude"
        <3>1. spec.isolation = "safe-mode"
            BY <1>4, <2>2, SpecOfRun
        <3>2. "--safe-mode" \in DOMAIN p.flags
            BY <1>1, <1>3, <2>2, <3>1, ClaudeLine
        <3>3. Boots(p) = {}
            BY <1>3, <2>2, <3>2 DEF Boots
        <3> QED BY <3>3
    <2> QED BY <1>4, <2>1, <2>2
<1>5. CASE r.kind = "execute" /\ r.backend = "codex"
    <2>1. spec.isolation = "server-env"
        BY <1>5, SpecOfRun
    <2>2. /\ "--ignore-user-config" \notin DOMAIN p.flags
          /\ "mcp_servers.dispatch.env" \in DOMAIN p.flags
          /\ p.flags["mcp_servers.dispatch.env"] = spec.value
        BY <1>1, <1>3, <1>5, <2>1, CodexLine
    <2>3. Boots(p) = {spec.value}
        BY <1>3, <1>5, <2>2 DEF Boots
    <2> QED BY <1>1, <1>5, <2>3
<1>6. CASE r.kind = "execute" /\ r.backend # "codex"
    <2>1. Boots(p) \subseteq {p.env}
        BY <1>2, <1>3, <1>6 DEF Boots, Four
    <2> QED BY <1>1, <1>3, <1>6, <2>1
<1> QED BY <1>2, <1>4, <1>5, <1>6

\* What may write was asked to execute and not to read only.
LEMMA WritersWereAsked ==
    ASSUME TreeType, NEW r \in RunRows, r.by \in DOMAIN servers,
           r.kind = "consult" => r.backend \in {"codex", "claude"},
           ~SandboxRefusal(SpecOf(r, r.by).backend, SpecOf(r, r.by).sandbox),
           MayWrite(ProcOf(SpecOf(r, r.by)))
    PROVE  r.kind = "execute" /\ r.sandbox # "read-only"
<1> DEFINE spec == SpecOf(r, r.by)
           p == ProcOf(spec)
<1>1. spec \in Specs /\ spec.backend = r.backend
    BY SpecOfRun
<1>2. r.kind \in {"execute", "consult"} /\ r.backend \in Four
    BY DEF RunRows
<1>3. p.backend = r.backend /\ p.flags = Command(spec)
    BY <1>1 DEF ProcOf
<1> SUFFICES ASSUME r.kind = "consult" \/ r.sandbox = "read-only" PROVE FALSE
    BY <1>2
<1>4. spec.sandbox = "read-only"
    BY <1>2, SpecOfRun
<1>5. CASE r.backend = "codex"
    <2>1. p.flags["-s"] = "read-only"
        BY <1>1, <1>3, <1>4, <1>5, CodexLine
    <2> QED BY <1>3, <1>5, <2>1 DEF MayWrite
<1>6. CASE r.backend = "claude"
    <2>1. "--permission-mode" \in DOMAIN p.flags /\ p.flags["--permission-mode"] = "plan"
        BY <1>1, <1>3, <1>4, <1>6, ClaudeLine
    <2> QED BY <1>3, <1>6, <2>1 DEF MayWrite
<1>7. CASE r.backend = "agy"
    BY <1>1, <1>4, <1>7 DEF SandboxRefusal
<1>8. CASE r.backend = "opencode"
    <2>1. "edit" \in p.flags["deny"]
        BY <1>1, <1>3, <1>4, <1>8, OpencodeLine
    <2> QED BY <1>3, <1>8, <2>1 DEF MayWrite
<1> QED BY <1>2, <1>5, <1>6, <1>7, <1>8 DEF Four

\* A server inside a backend may call what there is.
LEMMA CallableTools ==
    ASSUME TreeType, NEW r \in RunRows, r.by \in DOMAIN servers
    PROVE  Callable(ProcOf(SpecOf(r, r.by))) \in SUBSET ToolNames
<1> DEFINE spec == SpecOf(r, r.by)
           p == ProcOf(spec)
<1>1. spec \in Specs /\ spec.backend = r.backend
    BY SpecOfRun
<1>2. r.kind \in {"execute", "consult"}
    BY DEF RunRows
<1>3. p.backend = r.backend /\ p.flags = Command(spec)
    BY <1>1 DEF ProcOf
<1>4. CASE r.backend # "codex"
    BY <1>3, <1>4 DEF Callable
<1>5. CASE r.backend = "codex"
    <2>1. spec.isolation \in {"server-env", "ignore-user-config"}
        BY <1>2, <1>5, SpecOfRun
    <2>2. "approval_mode" \in DOMAIN p.flags => p.flags["approval_mode"] = ApprovedTools
        BY <1>1, <1>3, <1>5, <2>1, CodexLine
    <2>3. approvals \in SUBSET ToolNames /\ ApprovedTools \in SUBSET ToolNames
        BY DEF TreeType, ApprovedTools
    <2> QED BY <1>3, <1>5, <2>2, <2>3 DEF Callable
<1> QED BY <1>4, <1>5

-----------------------------------------------------------------------------
(* The steps.                                                               *)
LEMMA TreeInitially == DelegationInit => TreeInv
<1> SUFFICES ASSUME DelegationInit PROVE TreeInv
    OBVIOUS
<1>1. PICK marker \in TopMarkers : servers = <<[marker |-> marker, under |-> 0, tools |-> ToolNames]>>
    BY DEF DelegationInit
<1>2. marker \in Markers
    BY MarkersAssumption DEF Markers
<1>3. [marker |-> marker, under |-> 0, tools |-> ToolNames] \in ServerRows
    BY <1>2 DEF ServerRows
<1>4. delegated = <<>> /\ danger \in BOOLEAN /\ approvals \in SUBSET ToolNames
    BY DEF DelegationInit, ToolNames
<1>5. servers \in Seq(ServerRows) /\ \A s \in DOMAIN servers : servers[s].under = 0
    BY <1>1, <1>3
<1> QED BY <1>4, <1>5 DEF TreeInv, TreeType, BelowIsRefused, FromTheTop, Commanded, Range

\* What a run was told does not change while its server is there.
LEMMA ToldStays ==
    ASSUME NEW r, NextDepth(r.by)' = NextDepth(r.by), Told(r)
    PROVE  Told(r)'
<1>1. SpecOf(r, r.by)' = SpecOf(r, r.by)
    BY DEF SpecOf, ConsultSpec, RunSpec
<1> QED BY <1>1 DEF Told, Alive, ProcOf, SandboxRefusal

LEMMA EnqueueKeeps ==
    ASSUME TreeInv, NEW s \in DOMAIN servers, NEW kind \in {"execute", "consult"}, NEW backend \in Four,
           NEW sandbox \in Sandboxes, NEW from \in 0 .. Len(delegated),
           kind = "execute" => servers[s].under = 0,
           from # 0 => delegated[from].sandbox = sandbox,
           kind = "consult" => from = 0 /\ backend \in {"codex", "claude"},
           Enqueue(s, kind, backend, sandbox, from)
    PROVE  TreeInv'
<1> DEFINE row == [kind |-> kind, backend |-> backend, sandbox |-> sandbox,
                   by |-> s, from |-> from, proc |-> NoProc]
<1>1. delegated' = Append(delegated, row) /\ UNCHANGED <<danger, approvals, servers>>
    BY DEF Enqueue
<1>2. TreeType
    BY DEF TreeInv
<1>3. s \in Nat /\ from \in Nat
    BY <1>2 DEF TreeType
<1>4. row \in RunRows
    BY <1>3 DEF RunRows, Procs
<1>5. row.by = s /\ row.from = from /\ row.kind = kind /\ row.backend = backend /\ row.sandbox = sandbox
      /\ row.proc = NoProc
    OBVIOUS
<1>6. PICK n \in Nat : n = Len(delegated)
    BY <1>2 DEF TreeType
<1>7. DOMAIN delegated = 1 .. n
    BY <1>2, <1>6 DEF TreeType
<1> HIDE DEF row
<1>8. /\ delegated' \in Seq(RunRows) /\ Len(delegated') = n + 1 /\ DOMAIN delegated' = 1 .. (n + 1)
      /\ \A i \in 1 .. n : delegated'[i] = delegated[i]
      /\ delegated'[n + 1] = row
    BY <1>1, <1>2, <1>4, <1>6 DEF TreeType
<1>9. \A i \in DOMAIN delegated' : i \in DOMAIN delegated \/ (i = n + 1 /\ delegated'[i] = row)
    BY <1>6, <1>7, <1>8
<1>10. TreeType'
    <2>1. \A t \in DOMAIN servers' : servers'[t].under <= Len(delegated')
        <3> SUFFICES ASSUME NEW t \in DOMAIN servers PROVE servers[t].under <= Len(delegated')
            BY <1>1
        <3>1. servers[t] \in ServerRows /\ servers[t].under <= n
            BY <1>2, <1>6 DEF TreeType
        <3>2. servers[t].under \in Nat
            BY <3>1 DEF ServerRows
        <3> QED BY <1>6, <1>8, <3>1, <3>2
    <2>2. \A i \in DOMAIN delegated' : delegated'[i].by \in DOMAIN servers'
        <3> SUFFICES ASSUME NEW i \in DOMAIN delegated' PROVE delegated'[i].by \in DOMAIN servers
            BY <1>1
        <3>1. CASE i \in DOMAIN delegated
            BY <1>2, <1>7, <1>8, <3>1 DEF TreeType
        <3>2. CASE delegated'[i] = row
            BY <1>5, <3>2
        <3> QED BY <1>9, <3>1, <3>2
    <2> QED BY <1>1, <1>2, <1>8, <2>1, <2>2 DEF TreeType
<1>11. BelowIsRefused'
    <2> SUFFICES ASSUME NEW t \in DOMAIN servers, servers[t].under # 0
                 PROVE  RefusedAt(t, "execute")' /\ delegated'[servers[t].under].kind = "execute"
        BY <1>1 DEF BelowIsRefused
    <2>1. RefusedAt(t, "execute") /\ delegated[servers[t].under].kind = "execute"
        BY DEF TreeInv, BelowIsRefused
    <2>2. servers[t].under \in 1 .. n
        <3>1. servers[t] \in ServerRows /\ servers[t].under <= n
            BY <1>2, <1>6 DEF TreeType
        <3>2. servers[t].under \in Nat
            BY <3>1 DEF ServerRows
        <3> QED BY <3>1, <3>2
    <2> QED BY <1>1, <1>8, <2>1, <2>2 DEF RefusedAt
<1>12. FromTheTop'
    <2> SUFFICES ASSUME NEW i \in DOMAIN delegated'
                 PROVE /\ delegated'[i].kind = "execute" =>
                            /\ servers[delegated'[i].by].under = 0
                            /\ delegated'[i].from # 0 =>
                                 /\ delegated'[i].from < i
                                 /\ delegated'[delegated'[i].from].sandbox = delegated'[i].sandbox
                       /\ delegated'[i].kind = "consult" =>
                            delegated'[i].from = 0 /\ delegated'[i].backend \in {"codex", "claude"}
        BY <1>1 DEF FromTheTop
    <2>1. CASE i \in DOMAIN delegated
        <3>1. /\ delegated[i].kind = "execute" =>
                   /\ servers[delegated[i].by].under = 0
                   /\ delegated[i].from # 0 =>
                        delegated[i].from < i /\ delegated[delegated[i].from].sandbox = delegated[i].sandbox
              /\ delegated[i].kind = "consult" =>
                   delegated[i].from = 0 /\ delegated[i].backend \in {"codex", "claude"}
            BY <2>1 DEF TreeInv, FromTheTop
        <3>2. delegated'[i] = delegated[i] /\ i \in 1 .. n
            BY <1>7, <1>8, <2>1
        <3>3. delegated[i] \in RunRows
            BY <1>2, <2>1 DEF TreeType
        <3>4. delegated[i].from \in Nat
            BY <3>3 DEF RunRows
        <3>5. delegated[i].from # 0 /\ delegated[i].from < i => delegated[i].from \in 1 .. n
            BY <3>2, <3>4
        <3> QED BY <1>8, <3>1, <3>2, <3>5
    <2>2. CASE i = n + 1 /\ delegated'[i] = row
        <3>1. from # 0 => from < i /\ from \in 1 .. n
            BY <1>3, <1>6, <2>2
        <3>2. from # 0 => delegated'[from].sandbox = sandbox
            BY <1>8, <3>1
        <3> QED BY <1>5, <2>2, <3>1, <3>2
    <2> QED BY <1>9, <2>1, <2>2
<1>13. Commanded'
    <2>1. \A t : NextDepth(t)' = NextDepth(t)
        BY <1>1 DEF NextDepth
    <2>2. ASSUME NEW r \in Range(delegated)' PROVE Told(r)'
        <3>1. PICK i \in DOMAIN delegated' : r = delegated'[i]
            BY <2>2 DEF Range
        <3>2. CASE i \in DOMAIN delegated
            <4>1. r = delegated[i]
                BY <1>7, <1>8, <3>1, <3>2
            <4>2. Told(r)
                BY <3>2, <4>1 DEF TreeInv, Commanded, Range
            <4> QED BY <2>1, <4>2, ToldStays
        <3>3. CASE r = row
            <4>1. ~Alive(r)
                BY <1>5, <3>3 DEF Alive, NoProc
            <4> QED BY <4>1 DEF Told, Alive
        <3> QED BY <1>9, <3>1, <3>2, <3>3
    <2> QED BY <2>2 DEF Commanded
<1> QED BY <1>10, <1>11, <1>12, <1>13 DEF TreeInv

\* A server that does not refuse is not inside a backend.
LEMMA TopExecutes ==
    ASSUME TreeInv, NEW s \in DOMAIN servers, ~RefusedAt(s, "execute")
    PROVE  servers[s].under = 0
  BY DEF TreeInv, BelowIsRefused

LEMMA RunIsTyped ==
    ASSUME TreeInv, NEW i \in DOMAIN delegated
    PROVE  /\ delegated[i] \in RunRows /\ delegated[i].by \in DOMAIN servers
           /\ i \in 1 .. Len(delegated) /\ delegated[i].backend \in Four /\ delegated[i].sandbox \in Sandboxes
           /\ delegated[i].kind \in {"execute", "consult"} /\ delegated[i].from \in Nat
<1>1. TreeType
    BY DEF TreeInv
<1>2. delegated[i] \in RunRows /\ delegated[i].by \in DOMAIN servers /\ i \in 1 .. Len(delegated)
    BY <1>1 DEF TreeType
<1> QED BY <1>2 DEF RunRows

LEMMA CallsKeep ==
    ASSUME TreeInv, NEW s \in DOMAIN servers, NEW b \in Delegates,
           ConsultWith(s, b) \/ \E asked \in Asked : SubmitTo(s, b, asked)
    PROVE  TreeInv'
<1>1. b \in Four
    BY DelegatesAssumption DEF Four
<1>2. 0 \in 0 .. Len(delegated)
    BY DEF TreeInv, TreeType
<1>3. CASE ConsultWith(s, b)
    <2>1. b \in {"codex", "claude"} /\ "read-only" \in Sandboxes
        BY <1>1, <1>3 DEF ConsultWith, Four, Sandboxes
    <2>2. Enqueue(s, "consult", b, "read-only", 0)
        BY <1>3 DEF ConsultWith
    <2> QED BY <1>1, <1>2, <2>1, <2>2, EnqueueKeeps
<1>4. ASSUME NEW asked \in Asked, SubmitTo(s, b, asked) PROVE TreeInv'
    <2>1. PICK sandbox \in Granted(asked) : Enqueue(s, "execute", b, sandbox, 0)
        BY <1>4 DEF SubmitTo
    <2>2. sandbox \in Sandboxes
        BY <2>1 DEF Granted, Asked, Sandboxes
    <2>3. servers[s].under = 0
        BY <1>4, TopExecutes DEF SubmitTo
    <2> QED BY <1>1, <1>2, <2>1, <2>2, <2>3, EnqueueKeeps
<1> QED BY <1>3, <1>4

LEMMA ContinuationsKeep ==
    ASSUME TreeInv, NEW i \in DOMAIN delegated, RestartAs(i) \/ \E s \in DOMAIN servers : SteerTo(s, i)
    PROVE  TreeInv'
<1>1. /\ delegated[i].by \in DOMAIN servers /\ i \in 0 .. Len(delegated)
      /\ delegated[i].backend \in Four /\ delegated[i].sandbox \in Sandboxes
    BY RunIsTyped
<1>2. CASE RestartAs(i)
    <2>1. /\ delegated[i].kind = "execute"
          /\ Enqueue(delegated[i].by, "execute", delegated[i].backend, delegated[i].sandbox, i)
        BY <1>2 DEF RestartAs
    <2>2. servers[delegated[i].by].under = 0
        BY <2>1 DEF TreeInv, FromTheTop
    <2>3. PICK by, backend, sandbox :
            by = delegated[i].by /\ backend = delegated[i].backend /\ sandbox = delegated[i].sandbox
        OBVIOUS
    <2> QED BY <1>1, <2>1, <2>2, <2>3, EnqueueKeeps
<1>3. ASSUME NEW s \in DOMAIN servers, SteerTo(s, i) PROVE TreeInv'
    <2>1. Enqueue(s, "execute", delegated[i].backend, delegated[i].sandbox, i) /\ ~RefusedAt(s, "execute")
        BY <1>3 DEF SteerTo
    <2>2. servers[s].under = 0
        BY <2>1, TopExecutes
    <2>3. PICK backend, sandbox : backend = delegated[i].backend /\ sandbox = delegated[i].sandbox
        OBVIOUS
    <2> QED BY <1>1, <2>1, <2>2, <2>3, EnqueueKeeps
<1> QED BY <1>2, <1>3

LEMMA SpawnKeeps ==
    ASSUME TreeInv, NEW i \in DOMAIN delegated, Spawn(i)
    PROVE  TreeInv'
<1>1. PICK r : r = delegated[i]
    OBVIOUS
<1>2. /\ r \in RunRows /\ r.by \in DOMAIN servers /\ i \in 1 .. Len(delegated)
      /\ delegated \in Seq(RunRows) /\ TreeType
    BY <1>1, RunIsTyped DEF TreeInv, TreeType
<1> DEFINE spec == SpecOf(r, r.by)
<1>3. spec \in Specs /\ spec.backend = r.backend /\ spec.value = NextDepth(r.by)
    BY <1>2, SpecOfRun
<1>4. PICK proc : /\ proc = IF SandboxRefusal(spec.backend, spec.sandbox) THEN Ended
                            ELSE [spawned |-> TRUE, backend |-> r.backend, flags |-> Command(spec),
                                  env |-> NextDepth(r.by)]
                  /\ delegated' = [delegated EXCEPT ![i].proc = proc]
                  /\ UNCHANGED <<danger, approvals, servers>>
    BY <1>1 DEF Spawn
<1>5. proc = IF SandboxRefusal(spec.backend, spec.sandbox) THEN Ended ELSE ProcOf(spec)
    BY <1>3, <1>4 DEF ProcOf
<1>6. proc \in Procs
    BY <1>3, <1>5 DEF Procs
<1>7. PICK row : row = [r EXCEPT !.proc = proc]
    OBVIOUS
<1>8. /\ row \in RunRows /\ row.proc = proc /\ row.kind = r.kind /\ row.backend = r.backend
      /\ row.sandbox = r.sandbox /\ row.by = r.by /\ row.from = r.from
    BY <1>2, <1>6, <1>7 DEF RunRows
<1>9. /\ delegated' = [delegated EXCEPT ![i] = row]
      /\ delegated' \in Seq(RunRows) /\ DOMAIN delegated' = DOMAIN delegated /\ Len(delegated') = Len(delegated)
    BY <1>1, <1>2, <1>4, <1>7, <1>8
<1>10. delegated'[i] = row /\ \A j \in DOMAIN delegated : j # i => delegated'[j] = delegated[j]
    BY <1>2, <1>9
<1>11. \A j \in DOMAIN delegated :
         /\ delegated'[j].kind = delegated[j].kind /\ delegated'[j].backend = delegated[j].backend
         /\ delegated'[j].sandbox = delegated[j].sandbox /\ delegated'[j].by = delegated[j].by
         /\ delegated'[j].from = delegated[j].from
    BY <1>1, <1>8, <1>10
<1>12. TreeType'
    BY <1>2, <1>4, <1>9, <1>11 DEF TreeType
<1>13. BelowIsRefused'
    <2> SUFFICES ASSUME NEW t \in DOMAIN servers, servers[t].under # 0
                 PROVE  RefusedAt(t, "execute")' /\ delegated'[servers[t].under].kind = "execute"
        BY <1>4 DEF BelowIsRefused
    <2>1. RefusedAt(t, "execute") /\ delegated[servers[t].under].kind = "execute"
        BY DEF TreeInv, BelowIsRefused
    <2>2. servers[t].under \in DOMAIN delegated
        <3>1. servers[t] \in ServerRows /\ servers[t].under <= Len(delegated) /\ Len(delegated) \in Nat
            BY <1>2 DEF TreeType
        <3>2. servers[t].under \in Nat /\ DOMAIN delegated = 1 .. Len(delegated)
            BY <1>2, <3>1 DEF ServerRows
        <3> QED BY <3>1, <3>2
    <2> QED BY <1>4, <1>11, <2>1, <2>2 DEF RefusedAt
<1>14. FromTheTop'
    <2> SUFFICES ASSUME NEW j \in DOMAIN delegated
                 PROVE /\ delegated'[j].kind = "execute" =>
                            /\ servers[delegated'[j].by].under = 0
                            /\ delegated'[j].from # 0 =>
                                 /\ delegated'[j].from < j
                                 /\ delegated'[delegated'[j].from].sandbox = delegated'[j].sandbox
                       /\ delegated'[j].kind = "consult" =>
                            delegated'[j].from = 0 /\ delegated'[j].backend \in {"codex", "claude"}
        BY <1>4, <1>9 DEF FromTheTop
    <2>1. /\ delegated[j].kind = "execute" =>
               /\ servers[delegated[j].by].under = 0
               /\ delegated[j].from # 0 =>
                    delegated[j].from < j /\ delegated[delegated[j].from].sandbox = delegated[j].sandbox
          /\ delegated[j].kind = "consult" =>
               delegated[j].from = 0 /\ delegated[j].backend \in {"codex", "claude"}
        BY DEF TreeInv, FromTheTop
    <2>2. j \in 1 .. Len(delegated) /\ delegated[j].from \in Nat /\ DOMAIN delegated = 1 .. Len(delegated)
        BY <1>2, RunIsTyped
    <2>3. delegated[j].from # 0 /\ delegated[j].from < j => delegated[j].from \in DOMAIN delegated
        BY <1>2, <2>2
    <2> QED BY <1>11, <2>1, <2>3
<1>15. Commanded'
    <2>1. \A t : NextDepth(t)' = NextDepth(t)
        BY <1>4 DEF NextDepth
    <2>2. ASSUME NEW q \in Range(delegated)' PROVE Told(q)'
        <3>1. PICK j \in DOMAIN delegated : q = delegated'[j]
            BY <1>9, <2>2 DEF Range
        <3>2. CASE j = i
            <4>1. q = row
                BY <1>10, <3>1, <3>2
            <4>2. SpecOf(row, row.by) = spec
                BY <1>8 DEF SpecOf, ConsultSpec, RunSpec
            <4>3. Told(row)
                BY <1>5, <1>8, <4>2 DEF Told, Alive, Ended
            <4> QED BY <2>1, <4>1, <4>3, ToldStays
        <3>3. CASE j # i
            <4>1. q = delegated[j]
                BY <1>10, <3>1, <3>3
            <4>2. Told(q)
                BY <3>1, <4>1 DEF TreeInv, Commanded, Range
            <4> QED BY <2>1, <4>2, ToldStays
        <3> QED BY <3>2, <3>3
    <2> QED BY <2>2 DEF Commanded
<1> QED BY <1>12, <1>13, <1>14, <1>15 DEF TreeInv

LEMMA BootKeeps ==
    ASSUME TreeInv, NEW i \in DOMAIN delegated, Boot(i)
    PROVE  TreeInv'
<1>1. PICK r : r = delegated[i]
    OBVIOUS
<1>2. /\ r \in RunRows /\ r.by \in DOMAIN servers /\ i \in 1 .. Len(delegated)
      /\ delegated \in Seq(RunRows) /\ servers \in Seq(ServerRows) /\ TreeType
    BY <1>1, RunIsTyped DEF TreeInv, TreeType
<1>3. PICK marker \in Boots(r.proc) :
         /\ servers' = Append(servers, [marker |-> marker, under |-> i, tools |-> Callable(r.proc)])
         /\ UNCHANGED <<danger, approvals, delegated>>
    BY <1>1 DEF Boot
<1>4. r.proc = ProcOf(SpecOf(r, r.by))
    <2>1. Alive(r) /\ Told(r)
        BY <1>1 DEF Boot, TreeInv, Commanded, Range
    <2> QED BY <2>1 DEF Told
<1>5. r.kind = "consult" => r.backend \in {"codex", "claude"}
    BY <1>1 DEF TreeInv, FromTheTop
<1>6. marker \in Stamps /\ r.kind = "execute"
    BY <1>2, <1>3, <1>4, <1>5, BootsStamped
<1>7. Callable(r.proc) \in SUBSET ToolNames
    BY <1>2, <1>4, CallableTools
<1>8. PICK row : row = [marker |-> marker, under |-> i, tools |-> Callable(r.proc)]
    OBVIOUS
<1>9. marker \in Markers
    BY <1>6, MarkersAssumption DEF Stamps, Markers
<1>10. row \in ServerRows /\ row.under = i /\ row.marker = marker
    BY <1>2, <1>7, <1>8, <1>9 DEF ServerRows
<1>11. PICK n \in Nat : n = Len(servers)
    BY <1>2
<1>12. /\ servers' \in Seq(ServerRows) /\ DOMAIN servers' = 1 .. (n + 1) /\ DOMAIN servers = 1 .. n
       /\ \A t \in 1 .. n : servers'[t] = servers[t]
       /\ servers'[n + 1] = row
    BY <1>2, <1>3, <1>8, <1>10, <1>11
<1>13. \A t \in DOMAIN servers' : t \in DOMAIN servers \/ (t = n + 1 /\ servers'[t] = row)
    BY <1>11, <1>12
<1>14. DOMAIN servers \subseteq DOMAIN servers'
    BY <1>11, <1>12
<1>15. TreeType'
    <2>1. \A t \in DOMAIN servers' : servers'[t].under <= Len(delegated)
        <3> SUFFICES ASSUME NEW t \in DOMAIN servers' PROVE servers'[t].under <= Len(delegated)
            OBVIOUS
        <3>1. CASE t \in DOMAIN servers
            BY <1>2, <1>12, <3>1 DEF TreeType
        <3>2. CASE servers'[t] = row
            BY <1>2, <1>10, <3>2
        <3> QED BY <1>13, <3>1, <3>2
    <2> QED BY <1>2, <1>3, <1>12, <1>14, <2>1 DEF TreeType
<1>16. BelowIsRefused'
    <2> SUFFICES ASSUME NEW t \in DOMAIN servers', servers'[t].under # 0
                 PROVE  RefusedAt(t, "execute")' /\ delegated[servers'[t].under].kind = "execute"
        BY <1>3 DEF BelowIsRefused
    <2>1. CASE t \in DOMAIN servers
        <3>1. servers'[t] = servers[t]
            BY <1>12, <2>1
        <3>2. RefusedAt(t, "execute") /\ delegated[servers[t].under].kind = "execute"
            BY <2>1, <3>1 DEF TreeInv, BelowIsRefused
        <3> QED BY <3>1, <3>2 DEF RefusedAt
    <2>2. CASE servers'[t] = row
        <3>1. Depth(marker) = marker
            BY <1>6, <1>9, DepthOfMarker, MarkersAssumption DEF Stamps
        <3>2. marker >= Ceiling
            BY <1>6 DEF Stamps, Ceiling
        <3> QED BY <1>1, <1>6, <1>10, <2>2, <3>1, <3>2 DEF RefusedAt
    <2> QED BY <1>13, <2>1, <2>2
<1>17. FromTheTop'
    <2>1. \A j \in DOMAIN delegated : servers'[delegated[j].by] = servers[delegated[j].by]
        BY <1>2, <1>12 DEF TreeType
    <2> QED BY <1>3, <2>1 DEF TreeInv, FromTheTop
<1>18. Commanded'
    <2>1. ASSUME NEW q \in Range(delegated) PROVE Told(q)'
        <3>1. Told(q) /\ q.by \in DOMAIN servers
            BY <1>2, <2>1 DEF TreeInv, Commanded, Range, TreeType
        <3>2. servers'[q.by] = servers[q.by]
            BY <1>12, <3>1
        <3>3. NextDepth(q.by)' = NextDepth(q.by)
            BY <3>2 DEF NextDepth
        <3> QED BY <3>1, <3>3, ToldStays
    <2> QED BY <1>3, <2>1 DEF Commanded, Range
<1> QED BY <1>15, <1>16, <1>17, <1>18 DEF TreeInv

LEMMA TreeStutters == ASSUME TreeInv, UNCHANGED delegationVars PROVE TreeInv'
<1>1. \A t : NextDepth(t)' = NextDepth(t)
    BY DEF delegationVars, NextDepth
<1>2. Commanded'
    <2>1. ASSUME NEW q \in Range(delegated) PROVE Told(q)'
        BY <1>1, <2>1, ToldStays DEF TreeInv, Commanded
    <2> QED BY <2>1 DEF Commanded, Range, delegationVars
<1> QED BY <1>2 DEF TreeInv, TreeType, BelowIsRefused, FromTheTop, RefusedAt, delegationVars

LEMMA TreeKeeps == TreeInv /\ [DelegationNext]_delegationVars => TreeInv'
<1> SUFFICES ASSUME TreeInv, [DelegationNext]_delegationVars PROVE TreeInv'
    OBVIOUS
<1>1. CASE UNCHANGED delegationVars
    BY <1>1, TreeStutters
<1>2. ASSUME NEW s \in DOMAIN servers, NEW b \in Delegates,
             ConsultWith(s, b) \/ \E asked \in Asked : SubmitTo(s, b, asked)
      PROVE  TreeInv'
    BY <1>2, CallsKeep
<1>3. ASSUME NEW i \in DOMAIN delegated, RestartAs(i) \/ \E s \in DOMAIN servers : SteerTo(s, i)
      PROVE  TreeInv'
    BY <1>3, ContinuationsKeep
<1>4. ASSUME NEW i \in DOMAIN delegated, Spawn(i) PROVE TreeInv'
    BY <1>4, SpawnKeeps
<1>5. ASSUME NEW i \in DOMAIN delegated, Boot(i) PROVE TreeInv'
    BY <1>5, BootKeeps
<1> QED BY <1>1, <1>2, <1>3, <1>4, <1>5 DEF DelegationNext

-----------------------------------------------------------------------------
(* What the recursive functions of NestsNoDeeper compute in such a tree: a  *)
(* function that solves each equation, and that any two solutions agree.    *)
LEMMA OverRuns ==
    ASSUME TreeInv, NEW i \in DOMAIN delegated
    PROVE  /\ RunOver(i) \in 0 .. Len(delegated)
           /\ RunsOver(i) = IF RunOver(i) = 0 THEN {} ELSE {RunOver(i)}
           /\ RunOver(i) # 0 => /\ RunOver(i) \in DOMAIN delegated
                                /\ delegated[RunOver(i)].kind = "execute"
                                /\ delegated[i].kind = "consult"
<1>1. PICK n \in Nat : n = Len(delegated) /\ DOMAIN delegated = 1 .. n
    BY DEF TreeInv, TreeType
<1>2. ASSUME NEW j \in 1 .. n
      PROVE  /\ RunOver(j) \in 0 .. n
             /\ RunOver(j) # 0 => /\ RunOver(j) \in 1 .. n
                                  /\ delegated[RunOver(j)].kind = "execute"
                                  /\ delegated[j].kind = "consult"
             /\ delegated[j].kind = "execute" => RunOver(j) = 0
    <2>1. delegated[j].by \in DOMAIN servers /\ delegated[j].kind \in {"execute", "consult"}
        BY <1>1, RunIsTyped
    <2>2. RunOver(j) \in Nat /\ RunOver(j) <= n
        <3>1. servers[delegated[j].by] \in ServerRows /\ servers[delegated[j].by].under <= n
            BY <1>1, <2>1 DEF TreeInv, TreeType
        <3> QED BY <3>1 DEF RunOver, ServerRows
    <2>3. delegated[j].kind = "execute" => RunOver(j) = 0
        BY <1>1 DEF TreeInv, FromTheTop, RunOver
    <2>4. RunOver(j) # 0 => delegated[RunOver(j)].kind = "execute"
        BY <2>1 DEF TreeInv, BelowIsRefused, RunOver
    <2> QED BY <2>1, <2>2, <2>3, <2>4
<1> DEFINE over == CHOOSE f : f = [j \in 0 .. n |-> IF j = 0 THEN {} ELSE {j} \cup f[RunOver(j)]]
           g == [j \in 0 .. n |-> IF j = 0 THEN {} ELSE IF RunOver(j) = 0 THEN {j} ELSE {j, RunOver(j)}]
<1>3. RunsOver(i) = over[RunOver(i)]
    BY <1>1 DEF RunsOver
<1>4. g = [j \in 0 .. n |-> IF j = 0 THEN {} ELSE {j} \cup g[RunOver(j)]]
    <2> SUFFICES ASSUME NEW j \in 0 .. n, j # 0 PROVE g[j] = {j} \cup g[RunOver(j)]
        OBVIOUS
    <2>1. j \in 1 .. n
        OBVIOUS
    <2>2. CASE RunOver(j) = 0
        <3>1. g[RunOver(j)] = {} /\ g[j] = {j}
            BY <2>2
        <3> QED BY <3>1
    <2>3. CASE RunOver(j) # 0
        <3>1. PICK k \in 1 .. n : k = RunOver(j) /\ delegated[k].kind = "execute"
            BY <1>2, <2>1, <2>3
        <3>2. RunOver(k) = 0 /\ k # 0 /\ k \in 0 .. n
            BY <1>2, <3>1
        <3>3. g[k] = {k} /\ g[j] = {j, k}
            BY <2>3, <3>1, <3>2
        <3> QED BY <3>1, <3>3
    <2> QED BY <2>2, <2>3
<1>5. over = [j \in 0 .. n |-> IF j = 0 THEN {} ELSE {j} \cup over[RunOver(j)]]
    <2> HIDE DEF g
    <2>1. \E f : f = [j \in 0 .. n |-> IF j = 0 THEN {} ELSE {j} \cup f[RunOver(j)]]
        BY <1>4
    <2> QED BY <2>1
<1> HIDE DEF over, g
<1>6. i \in 1 .. n
    BY <1>1
<1>7. CASE RunOver(i) = 0
    <2>1. over[0] = {}
        BY <1>1, <1>5
    <2> QED BY <1>1, <1>2, <1>3, <1>6, <1>7, <2>1
<1>8. CASE RunOver(i) # 0
    <2>1. PICK k \in 1 .. n : k = RunOver(i) /\ delegated[k].kind = "execute"
        BY <1>2, <1>6, <1>8
    <2>2. RunOver(k) = 0 /\ k # 0 /\ k \in 0 .. n /\ 0 \in 0 .. n
        BY <1>2, <2>1
    <2>3. over[0] = {} /\ over[k] = {k} \cup over[RunOver(k)]
        BY <1>5, <2>2
    <2> QED BY <1>1, <1>2, <1>3, <1>6, <1>8, <2>1, <2>2, <2>3
<1> QED BY <1>7, <1>8

LEMMA AskedOnce ==
    ASSUME TreeInv, NEW i \in DOMAIN delegated
    PROVE  FirstAsked(i) = delegated[i].sandbox
<1>1. PICK n \in Nat : n = Len(delegated) /\ DOMAIN delegated = 1 .. n
    BY DEF TreeInv, TreeType
<1>2. ASSUME NEW j \in 1 .. n, delegated[j].from # 0
      PROVE  /\ delegated[j].from \in 1 .. n /\ delegated[j].from < j
             /\ delegated[delegated[j].from].sandbox = delegated[j].sandbox
    <2>1. delegated[j].kind \in {"execute", "consult"} /\ delegated[j].from \in Nat
        BY <1>1, RunIsTyped
    <2>2. delegated[j].from < j /\ delegated[delegated[j].from].sandbox = delegated[j].sandbox
        BY <1>1, <1>2, <2>1 DEF TreeInv, FromTheTop
    <2> QED BY <1>2, <2>1, <2>2
<1> DEFINE F(f, j) == IF delegated[j].from = 0 THEN delegated[j].sandbox ELSE f[delegated[j].from]
           first == CHOOSE f : f = [j \in 1 .. n |-> F(f, j)]
           g == [j \in 1 .. n |-> delegated[j].sandbox]
<1>3. FirstAsked(i) = first[i]
    BY <1>1 DEF FirstAsked
<1>4. g = [j \in 1 .. n |-> F(g, j)]
    <2> SUFFICES ASSUME NEW j \in 1 .. n PROVE g[j] = F(g, j)
        OBVIOUS
    <2> QED BY <1>2
<1>5. first = [j \in 1 .. n |-> F(first, j)]
    <2> HIDE DEF g
    <2>1. \E f : f = [j \in 1 .. n |-> F(f, j)]
        BY <1>4
    <2> QED BY <2>1
<1> HIDE DEF first, g
<1>6. \A j \in 1 .. n : first[j] = delegated[j].sandbox
    <2> DEFINE Wrong == {j \in 1 .. n : first[j] # delegated[j].sandbox}
    <2> SUFFICES ASSUME Wrong # {} PROVE FALSE
        OBVIOUS
    <2>1. Wrong \in SUBSET Nat
        OBVIOUS
    <2>2. PICK m \in Wrong : \A y \in Wrong : m <= y
        <3> HIDE DEF Wrong
        <3> QED BY <2>1, HasLeast
    <2>3. m \in 1 .. n /\ first[m] = F(first, m) /\ first[m] # delegated[m].sandbox
        BY <1>5, <2>2
    <2>4. delegated[m].from # 0 /\ first[m] = first[delegated[m].from]
        BY <2>3
    <2>5. PICK k \in 1 .. n : k = delegated[m].from /\ k < m /\ delegated[k].sandbox = delegated[m].sandbox
        BY <1>2, <2>3, <2>4
    <2>6. k \notin Wrong
        BY <2>2, <2>3, <2>5
    <2> QED BY <2>3, <2>4, <2>5, <2>6
<1> QED BY <1>1, <1>3, <1>6

LEMMA TreeImplies == TreeInv => NestsNoDeeper
<1> SUFFICES ASSUME TreeInv, NEW i \in DOMAIN delegated
             PROVE  /\ \A j \in RunsOver(i) : delegated[i].kind = "consult" /\ delegated[j].kind = "execute"
                    /\ Alive(delegated[i]) /\ MayWrite(delegated[i].proc) =>
                         \A j \in RunsOver(i) \cup {i} :
                           delegated[j].kind = "execute" /\ FirstAsked(j) # "read-only"
    BY DEF NestsNoDeeper
<1>1. \A j \in RunsOver(i) : delegated[i].kind = "consult" /\ delegated[j].kind = "execute"
    BY OverRuns
<1>2. ASSUME Alive(delegated[i]), MayWrite(delegated[i].proc)
      PROVE  \A j \in RunsOver(i) \cup {i} : delegated[j].kind = "execute" /\ FirstAsked(j) # "read-only"
    <2>1. PICK r : r = delegated[i]
        OBVIOUS
    <2>2. TreeType /\ r \in RunRows /\ r.by \in DOMAIN servers
        BY <2>1, RunIsTyped DEF TreeInv
    <2>3. r.kind = "consult" => r.backend \in {"codex", "claude"}
        BY <2>1 DEF TreeInv, FromTheTop
    <2>4. Told(r)
        BY <2>1 DEF TreeInv, Commanded, Range
    <2>5. /\ r.proc = ProcOf(SpecOf(r, r.by))
          /\ ~SandboxRefusal(SpecOf(r, r.by).backend, SpecOf(r, r.by).sandbox)
        BY <1>2, <2>1, <2>4 DEF Told
    <2>6. r.kind = "execute" /\ r.sandbox # "read-only"
        BY <1>2, <2>1, <2>2, <2>3, <2>5, WritersWereAsked
    <2>7. RunsOver(i) = {}
        BY <1>1, <2>1, <2>6
    <2>8. FirstAsked(i) # "read-only"
        BY <2>1, <2>6, AskedOnce
    <2> QED BY <2>1, <2>6, <2>7, <2>8
<1> QED BY <1>1, <1>2

\* Under a run that a backend started there are consultations alone, and neither they nor a
\* run that was first asked to be read-only may write (main.rs reentry_refusal, argv.rs).
THEOREM DelegationNestsNoDeeper == DelegationSpec => []NestsNoDeeper
<1>1. DelegationInit => TreeInv
    BY TreeInitially
<1>2. TreeInv /\ [DelegationNext]_delegationVars => TreeInv'
    BY TreeKeeps
<1>3. TreeInv => NestsNoDeeper
    BY TreeImplies
<1> QED BY <1>1, <1>2, <1>3, PTL DEF DelegationSpec

-----------------------------------------------------------------------------
(* What a row tells of its run.                                            *)
Texts == Seq(Printable)
Results ==
  {NoResult, Oversized}
    \cup [is : {"whole"}, status : {"SUCCESS", "ERROR", "none"}, response : Texts, error : Texts, denied : BOOLEAN]
AgyEvents == [result : Results, agyError : {<<>>, Line("AGY_ERROR rate limit")}]
Buffers == [kept : Texts, total : Nat]
Transients == {"rate limit", "AGY_ERROR rate limit"}

OutcomeType ==
  /\ ask.purpose \in {"execute", "consult"} /\ ask.models \in Nat
  /\ ask.purpose = "consult" => ask.runner # "agy"
  /\ attempt \in {"idle", "running", "over"} /\ stop \in BOOLEAN
  /\ printed \in [out : Texts, err : Texts, agy : AgyEvents]
  /\ captured \in [out : Buffers, err : Buffers, agy : AgyEvents]
  /\ discarded \in Seq([model : Nat, kind : {"rate_limited", "auth_or_permission", "other"}])
  /\ tried \in Seq([succeeds : BOOLEAN, lines : SUBSET Printable])

\* The first and the last lines of a text.
Fore(t, s) == Len(t) <= Len(s) /\ \A i \in 1 .. Len(t) : t[i] = s[i]
Aft(t, s)  == Len(t) <= Len(s) /\ \A i \in 1 .. Len(t) : t[i] = s[Len(s) - Len(t) + i]

\* What a reader holds of what was printed.
Reads(b, text, cap) ==
  /\ b.total = Len(text)
  /\ IF cap.keep = "head" THEN Fore(b.kept, text) ELSE Aft(b.kept, text)
  /\ Len(b.kept) >= cap.limit \/ Len(b.kept) = Len(text)

CapturedRight ==
  /\ attempt = "idle" => printed = NothingPrinted
  /\ attempt = "running" =>
       /\ captured.agy = printed.agy
       /\ Reads(captured.out, printed.out, Policy(ask.purpose).out)
       /\ Reads(captured.err, printed.err, Policy(ask.purpose).err)

\* Each attempt the chain gave up failed, and printed what it was given up for.
GivenUp ==
  attempt # "over" =>
    /\ Len(discarded) = Len(tried)
    /\ \A i \in DOMAIN discarded :
         /\ discarded[i].model = i
         /\ ~tried[i].succeeds
         /\ \E l \in tried[i].lines : IsRetryWorthy(Classify(Line(l)))

OutcomeInv == OutcomeType /\ CapturedRight /\ GivenUp /\ RowTellsTheRun

-----------------------------------------------------------------------------
(* Parts of texts.                                                          *)
LEMMA PartProperties ==
    ASSUME NEW s \in Texts, NEW m \in Nat \ {0}, NEW n \in Nat, n <= Len(s), m <= n + 1
    PROVE  /\ SubSeq(s, m, n) \in Texts /\ Len(SubSeq(s, m, n)) = n - m + 1
           /\ \A i \in 1 .. (n - m + 1) : SubSeq(s, m, n)[i] = s[m + i - 1]
<1>1. \A i \in m .. n : s[i] \in Printable
    BY DEF Texts
<1>2. m \in Int /\ n \in Int
    OBVIOUS
<1> QED BY <1>1, <1>2, SubSeqProperties DEF Texts

LEMMA LastOfProperties ==
    ASSUME NEW s \in Texts, NEW n \in Nat
    PROVE  /\ LastOf(s, n) \in Texts /\ Aft(LastOf(s, n), s)
           /\ Len(LastOf(s, n)) = IF Len(s) > n THEN n ELSE Len(s)
<1>1. PICK k \in Nat : k = Len(s)
    BY DEF Texts
<1>2. PICK m \in Nat \ {0} : m = IF k > n THEN k - n + 1 ELSE 1
    BY <1>1
<1>3. m <= k + 1 /\ k - m + 1 = IF k > n THEN n ELSE k
    BY <1>1, <1>2
<1>4. LastOf(s, n) = SubSeq(s, m, k)
    BY <1>1, <1>2 DEF LastOf
<1>5. /\ SubSeq(s, m, k) \in Texts /\ Len(SubSeq(s, m, k)) = k - m + 1
      /\ \A i \in 1 .. (k - m + 1) : SubSeq(s, m, k)[i] = s[m + i - 1]
    BY <1>1, <1>3, PartProperties
<1>6. ASSUME NEW i \in 1 .. (k - m + 1) PROVE m + i - 1 = k - (k - m + 1) + i
    BY <1>1, <1>2
<1>7. k - m + 1 <= k
    BY <1>1, <1>2
<1> QED BY <1>1, <1>3, <1>4, <1>5, <1>6, <1>7 DEF Aft

LEMMA HeadProperties ==
    ASSUME NEW s \in Texts, NEW cap, cap.limit \in Nat, cap.keep = "head"
    PROVE  /\ Clip(s, cap) \in Texts /\ Fore(Clip(s, cap), s)
           /\ Len(Clip(s, cap)) = IF Len(s) < cap.limit THEN Len(s) ELSE cap.limit
<1>1. PICK k \in Nat : k = Len(s)
    BY DEF Texts
<1>2. PICK m \in Nat : m = IF k < cap.limit THEN k ELSE cap.limit
    BY <1>1
<1>3. m <= k /\ 1 <= m + 1 /\ 1 \in Nat \ {0} /\ m - 1 + 1 = m
    BY <1>1, <1>2
<1>4. Clip(s, cap) = SubSeq(s, 1, m)
    BY <1>1, <1>2 DEF Clip
<1>5. /\ SubSeq(s, 1, m) \in Texts /\ Len(SubSeq(s, 1, m)) = m
      /\ \A i \in 1 .. m : SubSeq(s, 1, m)[i] = s[1 + i - 1]
    BY <1>1, <1>3, PartProperties
<1>6. ASSUME NEW i \in 1 .. m PROVE 1 + i - 1 = i
    OBVIOUS
<1> QED BY <1>1, <1>2, <1>3, <1>4, <1>5, <1>6 DEF Fore

LEMMA ClipProperties ==
    ASSUME NEW s \in Texts, NEW cap, cap.limit \in Nat, cap.keep \in {"head", "tail"}
    PROVE  /\ Clip(s, cap) \in Texts
           /\ IF cap.keep = "head" THEN Fore(Clip(s, cap), s) ELSE Aft(Clip(s, cap), s)
           /\ Len(Clip(s, cap)) = IF Len(s) < cap.limit THEN Len(s) ELSE cap.limit
<1>1. CASE cap.keep = "head"
    BY <1>1, HeadProperties
<1>2. CASE cap.keep = "tail"
    <2>1. Clip(s, cap) = LastOf(s, cap.limit)
        BY <1>2 DEF Clip
    <2>2. Len(s) \in Nat
        BY DEF Texts
    <2> QED BY <1>2, <2>1, <2>2, LastOfProperties
<1> QED BY <1>1, <1>2

LEMMA PartsOfParts ==
    ASSUME NEW r \in Texts, NEW t \in Texts, NEW s \in Texts
    PROVE  /\ Fore(r, t) /\ Fore(t, s) => Fore(r, s)
           /\ Aft(r, t) /\ Aft(t, s) => Aft(r, s)
<1>1. PICK k \in Nat, m \in Nat, n \in Nat : k = Len(r) /\ m = Len(t) /\ n = Len(s)
    BY DEF Texts
<1>2. ASSUME Fore(r, t), Fore(t, s) PROVE Fore(r, s)
    <2>1. k <= m /\ m <= n /\ (\A i \in 1 .. k : r[i] = t[i]) /\ (\A i \in 1 .. m : t[i] = s[i])
        BY <1>1, <1>2 DEF Fore
    <2>2. k <= n /\ \A i \in 1 .. k : i \in 1 .. m
        BY <2>1
    <2>3. \A i \in 1 .. k : r[i] = s[i]
        BY <2>1, <2>2
    <2> QED BY <1>1, <2>2, <2>3 DEF Fore
<1>3. ASSUME Aft(r, t), Aft(t, s) PROVE Aft(r, s)
    <2>1. /\ k <= m /\ m <= n
          /\ \A i \in 1 .. k : r[i] = t[m - k + i]
          /\ \A i \in 1 .. m : t[i] = s[n - m + i]
        BY <1>1, <1>3 DEF Aft
    <2>2. k <= n
        BY <2>1
    <2>3. ASSUME NEW i \in 1 .. k PROVE r[i] = s[n - k + i]
        <3>1. m - k + i \in 1 .. m /\ n - m + (m - k + i) = n - k + i
            BY <2>1
        <3>2. t[m - k + i] = s[n - m + (m - k + i)]
            BY <2>1, <3>1
        <3> QED BY <2>1, <3>1, <3>2
    <2> QED BY <1>1, <2>2, <2>3 DEF Aft
<1> QED BY <1>2, <1>3

LEMMA WholeParts ==
    ASSUME NEW t \in Texts, NEW s \in Texts, Fore(t, s) \/ Aft(t, s), Len(t) >= Len(s)
    PROVE  t = s
<1>1. PICK n \in Nat : n = Len(s)
    BY DEF Texts
<1>2. Len(t) = n
    BY <1>1 DEF Texts, Fore, Aft
<1>3. \A i \in 1 .. n : n - n + i = i
    BY <1>1
<1>4. \A i \in 1 .. n : t[i] = s[i]
    BY <1>1, <1>2, <1>3 DEF Fore, Aft
<1> QED BY <1>1, <1>2, <1>4 DEF Texts

LEMMA PartsHold ==
    ASSUME NEW t \in Texts, NEW s \in Texts, Fore(t, s) \/ Aft(t, s)
    PROVE  ToSet(t) \subseteq ToSet(s)
<1>1. PICK m \in Nat, n \in Nat : m = Len(t) /\ n = Len(s) /\ DOMAIN t = 1 .. m /\ DOMAIN s = 1 .. n
    BY DEF Texts
<1>2. m <= n
    BY <1>1 DEF Fore, Aft
<1>3. ASSUME NEW i \in 1 .. m PROVE \E j \in 1 .. n : t[i] = s[j]
    <2>1. i \in 1 .. n /\ n - m + i \in 1 .. n
        BY <1>2
    <2>2. t[i] = s[i] \/ t[i] = s[n - m + i]
        BY <1>1 DEF Fore, Aft
    <2> QED BY <2>1, <2>2
<1> QED BY <1>1, <1>3 DEF ToSet

LEMMA PartsAreEnds ==
    ASSUME NEW t \in Texts, NEW s \in Texts
    PROVE  /\ Fore(t, s) => IsPrefix(t, s)
           /\ Aft(t, s) => IsSuffix(t, s)
<1>1. PICK m \in Nat, n \in Nat : m = Len(t) /\ n = Len(s)
    BY DEF Texts
<1>2. ASSUME NEW a \in Texts, NEW b \in Texts, Len(a) = m, Len(b) = n, m <= n, \A i \in 1 .. m : a[i] = b[i]
      PROVE  IsPrefix(a, b)
    <2>1. /\ SubSeq(a, 1, m) \in Texts /\ Len(SubSeq(a, 1, m)) = m - 1 + 1
          /\ \A i \in 1 .. (m - 1 + 1) : SubSeq(a, 1, m)[i] = a[1 + i - 1]
        BY <1>2, PartProperties
    <2>2. /\ SubSeq(b, 1, m) \in Texts /\ Len(SubSeq(b, 1, m)) = m - 1 + 1
          /\ \A i \in 1 .. (m - 1 + 1) : SubSeq(b, 1, m)[i] = b[1 + i - 1]
        BY <1>2, PartProperties
    <2>3. m - 1 + 1 = m /\ \A i \in 1 .. m : 1 + i - 1 = i
        OBVIOUS
    <2>4. \A i \in 1 .. m : SubSeq(a, 1, m)[i] = SubSeq(b, 1, m)[i]
        BY <1>2, <2>1, <2>2, <2>3
    <2>5. SubSeq(a, 1, m) = SubSeq(b, 1, m)
        BY <2>1, <2>2, <2>3, <2>4 DEF Texts
    <2> QED BY <1>2, <2>5 DEF IsPrefix
<1>3. Fore(t, s) => IsPrefix(t, s)
    BY <1>1, <1>2 DEF Fore
<1>4. ASSUME Aft(t, s) PROVE IsSuffix(t, s)
    <2>1. m <= n /\ \A i \in 1 .. m : t[i] = s[n - m + i]
        BY <1>1, <1>4 DEF Aft
    <2>2. Reverse(t) \in Texts /\ Len(Reverse(t)) = m
        <3>1. Reverse(t) = [i \in 1 .. m |-> t[m - i + 1]]
            BY <1>1 DEF Reverse
        <3>2. \A i \in 1 .. m : t[m - i + 1] \in Printable
            BY <1>1 DEF Texts
        <3> QED BY <3>1, <3>2 DEF Texts
    <2>3. Reverse(s) \in Texts /\ Len(Reverse(s)) = n
        <3>1. Reverse(s) = [i \in 1 .. n |-> s[n - i + 1]]
            BY <1>1 DEF Reverse
        <3>2. \A i \in 1 .. n : s[n - i + 1] \in Printable
            BY <1>1 DEF Texts
        <3> QED BY <3>1, <3>2 DEF Texts
    <2>4. ASSUME NEW i \in 1 .. m PROVE Reverse(t)[i] = Reverse(s)[i]
        <3>1. Reverse(t)[i] = t[m - i + 1] /\ Reverse(s)[i] = s[n - i + 1]
            BY <1>1, <2>1 DEF Reverse
        <3>2. m - i + 1 \in 1 .. m /\ n - m + (m - i + 1) = n - i + 1
            OBVIOUS
        <3> QED BY <2>1, <3>1, <3>2
    <2> QED BY <1>2, <2>1, <2>2, <2>3, <2>4 DEF IsSuffix
<1> QED BY <1>3, <1>4

LEMMA AppendedLines ==
    ASSUME NEW s \in Texts, NEW t \in Texts, NEW line \in Printable
    PROVE  /\ Append(s, line) \in Texts /\ Len(Append(s, line)) = Len(s) + 1
           /\ Fore(s, t) => Fore(s, Append(t, line))
           /\ Fore(s, t) /\ Len(s) = Len(t) => Fore(Append(s, line), Append(t, line))
           /\ Aft(s, t) => Aft(Append(s, line), Append(t, line))
<1>1. PICK m \in Nat, n \in Nat : m = Len(s) /\ n = Len(t)
    BY DEF Texts
<1>2. PICK a : a = Append(s, line)
    OBVIOUS
<1>3. PICK b : b = Append(t, line)
    OBVIOUS
<1>4. /\ a \in Texts /\ Len(a) = m + 1 /\ (\A i \in 1 .. m : a[i] = s[i]) /\ a[m + 1] = line
      /\ b \in Texts /\ Len(b) = n + 1 /\ (\A i \in 1 .. n : b[i] = t[i]) /\ b[n + 1] = line
    BY <1>1, <1>2, <1>3, AppendProperties DEF Texts
<1>5. ASSUME Fore(s, t) PROVE Fore(s, b)
    <2>1. m <= n /\ \A i \in 1 .. m : s[i] = t[i]
        BY <1>1, <1>5 DEF Fore
    <2>2. m <= n + 1 /\ \A i \in 1 .. m : i \in 1 .. n
        BY <2>1
    <2> QED BY <1>1, <1>4, <2>1, <2>2 DEF Fore
<1>6. ASSUME Fore(s, t), m = n PROVE Fore(a, b)
    <2>1. \A i \in 1 .. m : s[i] = t[i]
        BY <1>1, <1>6 DEF Fore
    <2>2. \A i \in 1 .. m + 1 : i \in 1 .. m \/ i = m + 1
        OBVIOUS
    <2>3. \A i \in 1 .. m + 1 : a[i] = b[i]
        BY <1>4, <1>6, <2>1, <2>2
    <2> QED BY <1>4, <1>6, <2>3 DEF Fore
<1>7. ASSUME Aft(s, t) PROVE Aft(a, b)
    <2>1. m <= n /\ \A i \in 1 .. m : s[i] = t[n - m + i]
        BY <1>1, <1>7 DEF Aft
    <2>2. ASSUME NEW i \in 1 .. m + 1 PROVE a[i] = b[n + 1 - (m + 1) + i]
        <3>1. CASE i = m + 1
            <4>1. n + 1 - (m + 1) + i = n + 1
                BY <3>1
            <4> QED BY <1>4, <3>1, <4>1
        <3>2. CASE i \in 1 .. m
            <4>1. n + 1 - (m + 1) + i = n - m + i /\ n - m + i \in 1 .. n
                BY <2>1, <3>2
            <4> QED BY <1>4, <2>1, <3>2, <4>1
        <3> QED BY <3>1, <3>2
    <2>3. m + 1 <= n + 1
        BY <2>1
    <2> QED BY <1>4, <2>2, <2>3 DEF Aft
<1> QED BY <1>1, <1>2, <1>3, <1>4, <1>5, <1>6, <1>7

\* A reader that pushes the line it reads still holds what was printed.
LEMMA PushReads ==
    ASSUME NEW b \in Buffers, NEW text \in Texts, NEW line \in Printable,
           NEW cap, cap.limit \in Nat, cap.keep \in {"head", "tail"}, Reads(b, text, cap)
    PROVE  /\ PushLine(b, cap, line) \in Buffers
           /\ Reads(PushLine(b, cap, line), Append(text, line), cap)
<1>1. PICK c : c = PushLine(b, cap, line)
    OBVIOUS
<1>2. PICK all : all = Append(b.kept, line)
    OBVIOUS
<1>3. PICK m \in Nat, n \in Nat, k \in Nat : m = Len(b.kept) /\ n = Len(text) /\ k = cap.limit
    BY DEF Texts, Buffers
<1>4. /\ b.kept \in Texts /\ b.total = n
      /\ m >= k \/ m = n
      /\ all \in Texts /\ Len(all) = m + 1
      /\ Append(text, line) \in Texts /\ Len(Append(text, line)) = n + 1
    BY <1>2, <1>3, AppendedLines DEF Reads, Buffers
<1>5. /\ c.total = b.total + 1
      /\ c.kept = IF cap.keep = "head" THEN Clip(all, cap)
                  ELSE IF Len(all) > 2 * cap.limit THEN Clip(all, cap) ELSE all
      /\ c = [total |-> c.total, kept |-> c.kept]
    BY <1>1, <1>2 DEF PushLine
<1>6. /\ Clip(all, cap) \in Texts
      /\ IF cap.keep = "head" THEN Fore(Clip(all, cap), all) ELSE Aft(Clip(all, cap), all)
      /\ Len(Clip(all, cap)) = IF m + 1 < k THEN m + 1 ELSE k
    BY <1>3, <1>4, ClipProperties
<1>7. c.kept \in Texts /\ c.total = n + 1
    BY <1>4, <1>5, <1>6
<1>8. c \in Buffers
    BY <1>5, <1>7 DEF Buffers
<1>9. CASE cap.keep = "head"
    <2>1. Fore(b.kept, text) /\ c.kept = Clip(all, cap) /\ Fore(c.kept, all)
        BY <1>5, <1>6, <1>9 DEF Reads
    <2>2. CASE m = n
        <3>1. Fore(all, Append(text, line))
            BY <1>2, <1>3, <1>4, <2>1, <2>2, AppendedLines
        <3>2. Fore(c.kept, Append(text, line))
            BY <1>4, <1>7, <2>1, <3>1, PartsOfParts
        <3>3. Len(c.kept) >= k \/ Len(c.kept) = n + 1
            BY <1>6, <2>1, <2>2
        <3> QED BY <1>1, <1>3, <1>4, <1>7, <1>8, <1>9, <3>2, <3>3 DEF Reads
    <2>3. CASE m >= k
        <3>1. Len(c.kept) = k
            BY <1>6, <2>1, <2>3
        <3>2. \A i \in 1 .. k : c.kept[i] = all[i]
            BY <2>1, <3>1 DEF Fore
        <3>3. \A i \in 1 .. k : i \in 1 .. m
            BY <2>3
        <3>4. \A i \in 1 .. m : all[i] = b.kept[i]
            BY <1>2, <1>3, <1>4, AppendProperties DEF Texts
        <3>5. Fore(c.kept, b.kept)
            BY <1>3, <2>3, <3>1, <3>2, <3>3, <3>4 DEF Fore
        <3>6. Fore(c.kept, text)
            BY <1>4, <1>7, <2>1, <3>5, PartsOfParts
        <3>7. Fore(c.kept, Append(text, line))
            BY <1>7, <3>6, AppendedLines
        <3> QED BY <1>1, <1>3, <1>4, <1>7, <1>8, <1>9, <3>1, <3>7 DEF Reads
    <2> QED BY <1>4, <2>2, <2>3
<1>10. CASE cap.keep = "tail"
    <2>1. Aft(b.kept, text)
        BY <1>10 DEF Reads
    <2>2. Aft(all, Append(text, line))
        BY <1>2, <1>4, <2>1, AppendedLines
    <2>3. CASE m + 1 > 2 * k
        <3>1. c.kept = Clip(all, cap) /\ Aft(c.kept, all) /\ Len(c.kept) = k
            BY <1>3, <1>4, <1>5, <1>6, <1>10, <2>3
        <3>2. Aft(c.kept, Append(text, line))
            BY <1>4, <1>7, <2>2, <3>1, PartsOfParts
        <3> QED BY <1>1, <1>3, <1>4, <1>7, <1>8, <1>10, <3>1, <3>2 DEF Reads
    <2>4. CASE ~(m + 1 > 2 * k)
        <3>1. c.kept = all
            BY <1>3, <1>4, <1>5, <1>10, <2>4
        <3>2. Len(c.kept) >= k \/ Len(c.kept) = n + 1
            BY <1>4, <3>1
        <3> QED BY <1>1, <1>3, <1>4, <1>7, <1>8, <1>10, <2>2, <3>1, <3>2 DEF Reads
    <2> QED BY <2>3, <2>4
<1> QED BY <1>9, <1>10

\* What is shown of a text: its head or its tail, and whether lines are missing.
Part(shown, text) ==
  /\ shown.text \in Texts /\ (Fore(shown.text, text) \/ Aft(shown.text, text))
  /\ shown.cut \in BOOLEAN /\ (shown.cut <=> Len(shown.text) # Len(text))

LEMMA PartShows ==
    ASSUME NEW text \in Texts, NEW shown, Part(shown, text)
    PROVE  Shows(shown, text)
<1>1. CASE shown.cut
    <2>1. shown.text # text
        BY <1>1 DEF Part
    <2> QED BY <1>1, <2>1, PartsAreEnds DEF Part, Shows
<1>2. CASE ~shown.cut
    <2>1. Len(shown.text) = Len(text)
        BY <1>2 DEF Part
    <2>2. Len(shown.text) >= Len(text)
        BY <2>1 DEF Texts
    <2>3. shown.text = text
        BY <2>2, WholeParts DEF Part
    <2> QED BY <1>2, <2>3 DEF Shows
<1> QED BY <1>1, <1>2 DEF Part

LEMMA FinishedPart ==
    ASSUME NEW b \in Buffers, NEW text \in Texts, NEW cap, cap.limit \in Nat, cap.keep \in {"head", "tail"},
           Reads(b, text, cap)
    PROVE  /\ Part(Finished(b, cap), text)
           /\ cap.keep = "head" => Fore(Finished(b, cap).text, text)
<1>1. PICK f : f = Finished(b, cap)
    OBVIOUS
<1>2. f.text = Clip(b.kept, cap) /\ f.cut = (b.total > Len(f.text))
    BY <1>1 DEF Finished
<1>3. b.kept \in Texts /\ b.total = Len(text)
    BY DEF Buffers, Reads
<1>4. /\ f.text \in Texts
      /\ IF cap.keep = "head" THEN Fore(f.text, b.kept) ELSE Aft(f.text, b.kept)
    BY <1>2, <1>3, ClipProperties
<1>5. IF cap.keep = "head" THEN Fore(f.text, text) ELSE Aft(f.text, text)
    BY <1>3, <1>4, PartsOfParts DEF Reads
<1>6. Len(f.text) \in Nat /\ Len(text) \in Nat /\ Len(f.text) <= Len(text)
    <2>1. Fore(f.text, text) \/ Aft(f.text, text)
        BY <1>5
    <2>2. Len(f.text) \in Nat /\ Len(text) \in Nat
        BY <1>4 DEF Texts
    <2>3. Len(f.text) <= Len(text)
        BY <2>1 DEF Fore, Aft
    <2> QED BY <2>2, <2>3
<1>7. f.cut \in BOOLEAN /\ (f.cut <=> Len(f.text) # Len(text))
    <2>1. (b.total > Len(f.text)) <=> Len(f.text) # Len(text)
        BY <1>3, <1>6
    <2>2. f.cut = (Len(f.text) # Len(text))
        BY <1>2, <2>1
    <2> QED BY <2>2
<1> QED BY <1>1, <1>4, <1>5, <1>7 DEF Part

LEMMA RetainedPart ==
    ASSUME NEW text \in Texts, NEW out, Part(out, text), Fore(out.text, text),
           out = [text |-> out.text, cut |-> out.cut],
           NEW success \in BOOLEAN, NEW purpose \in {"execute", "consult"}
    PROVE  Part(Retained(out, success, purpose), text)
<1>1. PICK cap : cap = Policy(purpose).failure
    OBVIOUS
<1>2. cap.keep = "head" /\ cap.limit \in Nat
    BY <1>1, CapsAssumption DEF Policy, Cap
<1>3. PICK t : t = Clip(out.text, cap)
    OBVIOUS
<1>4. out.text \in Texts /\ t \in Texts /\ Fore(t, out.text)
    BY <1>2, <1>3, HeadProperties DEF Part
<1>5. Fore(t, text)
    BY <1>4, PartsOfParts
<1>6. CASE success
    BY <1>6 DEF Retained
<1>7. CASE ~success
    <2>1. PICK r : r = Retained(out, success, purpose)
        OBVIOUS
    <2>2. r.text = t /\ r.cut = (out.cut \/ t # out.text)
        BY <1>1, <1>3, <1>7, <2>1 DEF Retained
    <2>3. /\ Len(t) \in Nat /\ Len(out.text) \in Nat /\ Len(text) \in Nat
          /\ Len(t) <= Len(out.text) /\ Len(out.text) <= Len(text)
        BY <1>4 DEF Texts, Fore
    <2>4. t # out.text <=> Len(t) # Len(out.text)
        <3>1. ASSUME Len(t) = Len(out.text) PROVE t = out.text
            BY <1>4, <2>3, <3>1, WholeParts
        <3> QED BY <3>1
    <2>5. out.cut \in BOOLEAN /\ (out.cut <=> Len(out.text) # Len(text))
        BY DEF Part
    <2>6. (Len(out.text) # Len(text) \/ Len(t) # Len(out.text)) <=> Len(t) # Len(text)
        BY <2>3
    <2>7. r.cut \in BOOLEAN /\ (r.cut <=> out.cut \/ t # out.text)
        BY <2>2
    <2>8. r.cut <=> Len(t) # Len(text)
        BY <2>4, <2>5, <2>6, <2>7
    <2> QED BY <1>4, <1>5, <2>1, <2>2, <2>7, <2>8 DEF Part
<1> QED BY <1>6, <1>7

-----------------------------------------------------------------------------
(* What a failure is classified by.                                         *)
LEMMA TransientLines ==
    ASSUME NEW t
    PROVE  IsRetryWorthy(Classify(t)) <=> \E l \in ToSet(t) : l \in Transients
  BY DEF IsRetryWorthy, Classify, Transients

LEMMA OneLine ==
    ASSUME NEW l \in Printable
    PROVE  Line(l) \in Texts /\ ToSet(Line(l)) = {l} /\ Line(l) # <<>>
  BY DEF Line, Texts, ToSet

LEMMA NoLines == <<>> \in Texts /\ ToSet(<<>>) = {}
  BY DEF Texts, ToSet

LEMMA LinesOfBoth ==
    ASSUME NEW s \in Texts, NEW t \in Texts
    PROVE  s \o t \in Texts /\ ToSet(s \o t) = ToSet(s) \cup ToSet(t)
<1>1. PICK m \in Nat, n \in Nat : m = Len(s) /\ n = Len(t) /\ DOMAIN s = 1 .. m /\ DOMAIN t = 1 .. n
    BY DEF Texts
<1>2. PICK b : b = s \o t
    OBVIOUS
<1>3. /\ b \in Texts /\ Len(b) = m + n
      /\ \A i \in 1 .. m + n : b[i] = IF i <= m THEN s[i] ELSE t[i - m]
    BY <1>1, <1>2, ConcatProperties DEF Texts
<1>4. DOMAIN b = 1 .. m + n
    BY <1>1, <1>3 DEF Texts
<1>5. ASSUME NEW i \in 1 .. m + n PROVE b[i] \in ToSet(s) \cup ToSet(t)
    <2>1. CASE i <= m
        BY <1>1, <1>3, <2>1 DEF ToSet
    <2>2. CASE ~(i <= m)
        <3>1. i - m \in 1 .. n /\ b[i] = t[i - m]
            BY <1>3, <2>2
        <3> QED BY <1>1, <3>1 DEF ToSet
    <2> QED BY <2>1, <2>2
<1>6. ASSUME NEW i \in 1 .. m PROVE s[i] \in ToSet(b)
    <2>1. i \in 1 .. m + n /\ b[i] = s[i]
        BY <1>3
    <2> QED BY <1>4, <2>1 DEF ToSet
<1>7. ASSUME NEW i \in 1 .. n PROVE t[i] \in ToSet(b)
    <2>1. m + i \in 1 .. m + n /\ ~(m + i <= m) /\ m + i - m = i
        OBVIOUS
    <2>2. b[m + i] = t[i]
        BY <1>3, <2>1
    <2> QED BY <1>4, <2>1, <2>2 DEF ToSet
<1>8. /\ \A l \in ToSet(b) : \E i \in 1 .. m + n : l = b[i]
      /\ \A l \in ToSet(s) : \E i \in 1 .. m : l = s[i]
      /\ \A l \in ToSet(t) : \E i \in 1 .. n : l = t[i]
    BY <1>1, <1>4 DEF ToSet
<1>9. ToSet(b) = ToSet(s) \cup ToSet(t)
    BY <1>5, <1>6, <1>7, <1>8
<1> QED BY <1>2, <1>3, <1>9

LEMMA LinesAreSpoken ==
    ASSUME NEW s \in Texts
    PROVE  ToSet(s) \subseteq Printable
  BY DEF Texts, ToSet

\* What agy says of itself.
ErrorsOf(s) == IF s.result.is = "whole" THEN ToSet(s.result.error) ELSE {}

LEMMA AgyEventFacts ==
    ASSUME NEW s \in AgyEvents
    PROVE  /\ s.agyError \in Texts
           /\ s.result.is = "whole" =>
                /\ s.result.response \in Texts /\ s.result.error \in Texts /\ s.result.denied \in BOOLEAN
           /\ ErrorsOf(s) \subseteq Printable
<1>1. "AGY_ERROR rate limit" \in Printable
    BY DEF Printable
<1>2. s.agyError \in Texts
    BY <1>1, OneLine, NoLines DEF AgyEvents
<1>3. s.result \in Results
    BY DEF AgyEvents
<1>4. s.result.is = "whole" =>
        /\ s.result.response \in Texts /\ s.result.error \in Texts /\ s.result.denied \in BOOLEAN
    <2>1. CASE s.result \in {NoResult, Oversized}
        BY <2>1 DEF NoResult, Oversized
    <2>2. CASE s.result \in [is : {"whole"}, status : {"SUCCESS", "ERROR", "none"}, response : Texts, error : Texts, denied : BOOLEAN]
        BY <2>2
    <2> QED BY <1>3, <2>1, <2>2 DEF Results
<1>5. ErrorsOf(s) \subseteq Printable
    BY <1>4, LinesAreSpoken DEF ErrorsOf
<1> QED BY <1>2, <1>4, <1>5

LEMMA AgyErrorFacts ==
    ASSUME NEW s \in AgyEvents, NEW err \in Texts
    PROVE  /\ AgyErrorLine(s, err) \in Texts
           /\ ToSet(AgyErrorLine(s, err)) \subseteq ToSet(err) \cup ToSet(s.agyError)
<1>1. s.agyError \in Texts
    BY AgyEventFacts
<1>2. "AGY_ERROR rate limit" \in Printable
    BY DEF Printable
<1>3. CASE s.agyError # <<>>
    BY <1>1, <1>3 DEF AgyErrorLine
<1>4. CASE s.agyError = <<>> /\ "AGY_ERROR rate limit" \in ToSet(err)
    <2>1. AgyErrorLine(s, err) = Line("AGY_ERROR rate limit")
        BY <1>4 DEF AgyErrorLine
    <2> QED BY <1>2, <1>4, <2>1, OneLine
<1>5. CASE s.agyError = <<>> /\ "AGY_ERROR rate limit" \notin ToSet(err)
    <2>1. AgyErrorLine(s, err) = <<>>
        BY <1>5 DEF AgyErrorLine
    <2> QED BY <2>1, NoLines
<1> QED BY <1>3, <1>4, <1>5

NormalFacts(n, exitOk, s, err) ==
  /\ n.success \in BOOLEAN /\ (n.success <=> exitOk /\ WellFormed(s) /\ Succeeds(s.result))
  /\ n.whole = WellFormed(s)
  /\ WellFormed(s) => n.answer = s.result.response
  /\ n.detail \in Texts
  /\ \A l \in ToSet(n.detail) : l \in Transients => l \in ToSet(err) \cup ToSet(s.agyError) \cup ErrorsOf(s)

LEMMA NormaliseFacts ==
    ASSUME NEW s \in AgyEvents, NEW err \in Texts, NEW exitOk \in BOOLEAN,
           NEW n, n = Normalise(exitOk, s, err)
    PROVE  NormalFacts(n, exitOk, s, err)
<1>1. PICK e : e = AgyErrorLine(s, err)
    OBVIOUS
<1>2. e \in Texts /\ ToSet(e) \subseteq ToSet(err) \cup ToSet(s.agyError)
    BY <1>1, AgyErrorFacts
<1>3. Line("text") \in Texts /\ ToSet(Line("text")) = {"text"} /\ "text" \notin Transients
    BY OneLine DEF Printable, Transients
<1>4. CASE ~WellFormed(s)
    <2>1. /\ n.success = FALSE /\ n.whole = FALSE
          /\ n.detail = IF e # <<>> THEN e ELSE Line("text")
        BY <1>1, <1>4 DEF Normalise
    <2>2. WellFormed(s) = FALSE
        BY <1>4 DEF WellFormed
    <2>3. n.detail \in {e, Line("text")}
        BY <2>1
    <2>4. /\ n.detail \in Texts
          /\ \A l \in ToSet(n.detail) : l \in Transients => l \in ToSet(err) \cup ToSet(s.agyError) \cup ErrorsOf(s)
        BY <1>2, <1>3, <2>3
    <2> QED BY <1>4, <2>1, <2>2, <2>4 DEF NormalFacts
<1>5. CASE WellFormed(s)
    <2>1. PICK r : r = s.result
        OBVIOUS
    <2>2. r.is = "whole" /\ r.error \in Texts /\ ErrorsOf(s) = ToSet(r.error)
        BY <1>5, <2>1, AgyEventFacts DEF WellFormed, ErrorsOf
    <2>3. n = [success |-> exitOk /\ Succeeds(r), answer |-> r.response, whole |-> TRUE,
               detail |-> IF exitOk /\ Succeeds(r) THEN <<>>
                          ELSE IF r.error # <<>> THEN r.error
                          ELSE IF e # <<>> THEN e
                          ELSE IF ~Succeeds(r) THEN Line("text") ELSE <<>>]
        BY <1>1, <1>5, <2>1 DEF Normalise
    <2>4. n.success = (exitOk /\ Succeeds(r)) /\ n.answer = r.response /\ n.whole = TRUE
        BY <2>3
    <2>5. n.detail \in {<<>>, r.error, e, Line("text")}
        BY <2>3
    <2>6. /\ n.detail \in Texts
          /\ \A l \in ToSet(n.detail) : l \in Transients => l \in ToSet(err) \cup ToSet(s.agyError) \cup ErrorsOf(s)
        <3>1. CASE n.detail = <<>>
            BY <3>1, NoLines
        <3>2. CASE n.detail = r.error
            BY <2>2, <3>2
        <3>3. CASE n.detail \in {e, Line("text")}
            BY <1>2, <1>3, <3>3
        <3> QED BY <2>5, <3>1, <3>2, <3>3
    <2>7. WellFormed(s) = TRUE
        BY <1>5 DEF WellFormed
    <2> QED BY <1>5, <2>1, <2>4, <2>6, <2>7 DEF NormalFacts
<1> QED BY <1>4, <1>5

-----------------------------------------------------------------------------
(* The record of a process that exited.                                     *)
LEMMA LinesAre ==
    ASSUME OutcomeType
    PROVE  /\ Lines = ToSet(printed.err) \cup ToSet(printed.agy.agyError)
                        \cup (IF ask.runner = "claude" THEN ToSet(printed.out) ELSE {}) \cup ErrorsOf(printed.agy)
           /\ Lines \subseteq Printable
<1>1. printed.err \in Texts /\ printed.out \in Texts /\ printed.agy \in AgyEvents
    BY DEF OutcomeType
<1>2. PICK third \in Texts : /\ third = IF ask.runner = "claude" THEN printed.out ELSE <<>>
                             /\ ToSet(third) = IF ask.runner = "claude" THEN ToSet(printed.out) ELSE {}
    BY <1>1, NoLines
<1>3. printed.agy.agyError \in Texts /\ ErrorsOf(printed.agy) \subseteq Printable
    BY <1>1, AgyEventFacts
<1>4. PICK two \in Texts : /\ two = printed.err \o printed.agy.agyError
                           /\ ToSet(two) = ToSet(printed.err) \cup ToSet(printed.agy.agyError)
    BY <1>1, <1>3, LinesOfBoth
<1>5. ToSet(two \o third) = ToSet(two) \cup ToSet(third)
    BY LinesOfBoth
<1>6. Lines = ToSet(two \o third) \cup ErrorsOf(printed.agy)
    BY <1>2, <1>4 DEF Lines, ErrorsOf
<1>7. ToSet(printed.err) \subseteq Printable /\ ToSet(printed.agy.agyError) \subseteq Printable
      /\ ToSet(printed.out) \subseteq Printable
    BY <1>1, <1>3, LinesAreSpoken
<1> QED BY <1>2, <1>3, <1>4, <1>5, <1>6, <1>7

LEMMA RecordFacts ==
    ASSUME OutcomeType, CapturedRight, attempt = "running", NEW exitOk \in BOOLEAN,
           NEW judged, judged = RecordOf(exitOk)
    PROVE  /\ judged.is = "record" /\ judged.success \in BOOLEAN
           /\ judged.success <=> TrulySucceeded(exitOk)
           /\ Part(judged.out, printed.out) /\ Part(judged.err, printed.err)
           /\ judged.detail \in Texts
           /\ \A l \in ToSet(judged.detail) : l \in Transients => l \in Lines
           /\ Shows(judged.answer, Answer)
           /\ ask.runner # "agy" => Shows(judged.out, Answer)
<1>1. /\ captured.agy = printed.agy /\ printed.agy \in AgyEvents
      /\ captured.out \in Buffers /\ captured.err \in Buffers
      /\ printed.out \in Texts /\ printed.err \in Texts
    BY DEF OutcomeType, CapturedRight
<1>2. PICK policy : policy = Policy(ask.purpose)
    OBVIOUS
<1>3. /\ policy.out.limit \in Nat /\ policy.out.keep = "head"
      /\ policy.err.limit \in Nat /\ policy.err.keep \in {"head", "tail"}
    BY <1>2, CapsAssumption DEF Policy, Cap
<1>4. Reads(captured.out, printed.out, policy.out) /\ Reads(captured.err, printed.err, policy.err)
    BY <1>2 DEF CapturedRight
<1>5. PICK err : err = Finished(captured.err, policy.err)
    OBVIOUS
<1>6. Part(err, printed.err) /\ ToSet(err.text) \subseteq ToSet(printed.err)
    BY <1>1, <1>3, <1>4, <1>5, FinishedPart, PartsHold DEF Part
<1>7. PICK read : read = Finished(captured.out, policy.out)
    OBVIOUS
<1>8. Part(read, printed.out) /\ Fore(read.text, printed.out) /\ read = [text |-> read.text, cut |-> read.cut]
    <2>1. read = [text |-> read.text, cut |-> read.cut]
        BY <1>7 DEF Finished
    <2> QED BY <1>1, <1>3, <1>4, <1>7, <2>1, FinishedPart
<1>9. PICK agy : agy = Normalise(exitOk, printed.agy, err.text)
    OBVIOUS
<1>10. /\ agy.success \in BOOLEAN
       /\ agy.success <=> exitOk /\ WellFormed(printed.agy) /\ Succeeds(printed.agy.result)
       /\ agy.whole = WellFormed(printed.agy)
       /\ WellFormed(printed.agy) => agy.answer = printed.agy.result.response
       /\ agy.detail \in Texts
       /\ \A l \in ToSet(agy.detail) : l \in Transients =>
            l \in ToSet(err.text) \cup ToSet(printed.agy.agyError) \cup ErrorsOf(printed.agy)
    <2>1. err.text \in Texts
        BY <1>6 DEF Part
    <2>2. NormalFacts(agy, exitOk, printed.agy, err.text)
        BY <1>1, <1>9, <2>1, NormaliseFacts
    <2> QED BY ONLY <2>2 DEF NormalFacts
<1>11. PICK success \in BOOLEAN : success = IF ask.runner = "agy" THEN agy.success ELSE exitOk
    BY <1>10
<1>12. PICK out : out = Retained(read, success, ask.purpose)
    OBVIOUS
<1>13. Part(out, printed.out)
    BY <1>1, <1>8, <1>12, RetainedPart DEF OutcomeType
<1>14. judged = [is |-> "record", success |-> success, out |-> out, err |-> err,
                  detail |-> IF ask.runner = "agy" THEN agy.detail ELSE <<>>,
                  answer |-> IF ask.runner = "agy" /\ agy.whole THEN [text |-> agy.answer, cut |-> FALSE] ELSE out]
    BY <1>1, <1>2, <1>5, <1>7, <1>9, <1>11, <1>12 DEF RecordOf
<1>15. /\ judged.is = "record" /\ judged.success = success /\ judged.out = out /\ judged.err = err
       /\ judged.detail = IF ask.runner = "agy" THEN agy.detail ELSE <<>>
       /\ judged.answer = IF ask.runner = "agy" /\ agy.whole THEN [text |-> agy.answer, cut |-> FALSE] ELSE out
    BY <1>14
<1>16. success <=> TrulySucceeded(exitOk)
    <2>1. CASE ask.runner # "agy"
        BY <1>11, <2>1 DEF TrulySucceeded
    <2>2. CASE ask.runner = "agy"
        <3>1. success <=> exitOk /\ WellFormed(printed.agy) /\ Succeeds(printed.agy.result)
            BY <1>10, <1>11, <2>2
        <3>2. WellFormed(printed.agy) /\ Succeeds(printed.agy.result) <=>
                /\ printed.agy.result.is = "whole" /\ printed.agy.result.status = "SUCCESS"
                /\ printed.agy.result.error = <<>>
                /\ printed.agy.result.response = <<>> => ~printed.agy.result.denied
            BY DEF WellFormed, Succeeds
        <3> QED BY <2>2, <3>1, <3>2 DEF TrulySucceeded
    <2> QED BY <2>1, <2>2
<1>17. judged.detail \in Texts /\ \A l \in ToSet(judged.detail) : l \in Transients => l \in Lines
    <2>1. CASE ask.runner # "agy"
        <3>1. judged.detail = <<>>
            BY <1>15, <2>1
        <3> QED BY <3>1, NoLines
    <2>2. CASE ask.runner = "agy"
        BY <1>6, <1>10, <1>15, <2>2, LinesAre
    <2> QED BY <2>1, <2>2
<1>18. Shows(judged.out, printed.out)
    BY <1>1, <1>13, <1>15, PartShows
<1>19. Shows(judged.answer, Answer)
    <2>1. CASE ask.runner = "agy" /\ agy.whole
        <3>1. WellFormed(printed.agy)
            BY <1>10, <2>1
        <3>2. Answer = printed.agy.result.response
            BY <2>1, <3>1 DEF Answer
        <3>3. judged.answer = [text |-> printed.agy.result.response, cut |-> FALSE]
            BY <1>10, <1>15, <2>1, <3>1
        <3> QED BY <3>2, <3>3 DEF Shows
    <2>2. CASE ~(ask.runner = "agy" /\ agy.whole)
        <3>1. judged.answer = judged.out
            BY <1>15, <2>2
        <3>2. Answer = printed.out
            BY <1>10, <2>2 DEF Answer
        <3> QED BY <1>18, <3>1, <3>2
    <2> QED BY <2>1, <2>2
<1>20. ask.runner # "agy" => Shows(judged.out, Answer)
    BY <1>18 DEF Answer
<1> QED BY <1>6, <1>13, <1>15, <1>16, <1>17, <1>19, <1>20

LEMMA FailureFacts ==
    ASSUME OutcomeType, NEW judged, judged.is = "record",
           Part(judged.out, printed.out), Part(judged.err, printed.err), judged.detail \in Texts,
           \A l \in ToSet(judged.detail) : l \in Transients => l \in Lines
    PROVE  /\ \A l \in ToSet(FailureText(judged)) : l \in Transients => l \in Lines
           /\ ToSet(judged.err.text) \subseteq ToSet(FailureText(judged))
<1>1. /\ judged.err.text \in Texts /\ judged.out.text \in Texts
      /\ printed.err \in Texts /\ printed.out \in Texts
    BY DEF OutcomeType, Part
<1>2. ToSet(judged.err.text) \subseteq ToSet(printed.err) /\ ToSet(judged.out.text) \subseteq ToSet(printed.out)
    BY <1>1, PartsHold DEF Part
<1>3. PICK third : third = IF ask.runner # "claude" THEN <<>>
                           ELSE IF ask.purpose = "execute" THEN LastOf(judged.out.text, TextTail)
                           ELSE judged.out.text
    OBVIOUS
<1>4. third \in Texts /\ ToSet(third) \subseteq Lines
    <2>1. CASE ask.runner # "claude"
        BY <1>3, <2>1, NoLines
    <2>2. CASE ask.runner = "claude" /\ ask.purpose = "execute"
        <3>1. third = LastOf(judged.out.text, TextTail) /\ TextTail \in Nat
            BY <1>3, <2>2, CapsAssumption
        <3>2. third \in Texts /\ Aft(third, judged.out.text)
            BY <1>1, <3>1, LastOfProperties
        <3>3. ToSet(third) \subseteq ToSet(judged.out.text)
            BY <1>1, <3>2, PartsHold
        <3> QED BY <1>2, <2>2, <3>2, <3>3, LinesAre
    <2>3. CASE ask.runner = "claude" /\ ask.purpose # "execute"
        BY <1>1, <1>2, <1>3, <2>3, LinesAre
    <2> QED BY <2>1, <2>2, <2>3
<1>5. PICK two \in Texts : /\ two = judged.err.text \o judged.detail
                           /\ ToSet(two) = ToSet(judged.err.text) \cup ToSet(judged.detail)
    BY ONLY <1>1, judged.detail \in Texts, LinesOfBoth
<1>6. ToSet(two \o third) = ToSet(two) \cup ToSet(third)
    BY <1>4, LinesOfBoth
<1>7. FailureText(judged) = two \o third
    BY <1>3, <1>5 DEF FailureText
<1>8. ToSet(printed.err) \subseteq Lines
    BY LinesAre
<1> QED BY <1>2, <1>4, <1>5, <1>6, <1>7, <1>8

-----------------------------------------------------------------------------
(* What is known of an judged when it is judged.                           *)
Sound(judged, started, exitOk) ==
  /\ judged.is \in {"record", "spawn", "not found", "cancelled"} /\ judged.success \in BOOLEAN
  /\ judged.success <=> started /\ TrulySucceeded(exitOk)
  /\ judged.success => judged.is = "record"
  /\ judged.is = "record" => started
  /\ started => judged.is \in {"record", "cancelled"}
  /\ judged.is = "record" =>
       /\ Part(judged.err, printed.err)
       /\ Shows(judged.answer, Answer) /\ (ask.runner # "agy" => Shows(judged.out, Answer))
       /\ \A l \in ToSet(FailureText(judged)) : l \in Transients => l \in Lines
       /\ ToSet(judged.err.text) \subseteq ToSet(FailureText(judged))

LEMMA SoundRecord ==
    ASSUME OutcomeType, CapturedRight, attempt = "running", NEW exitOk \in BOOLEAN
    PROVE  Sound(RecordOf(exitOk), TRUE, exitOk)
<1>1. PICK judged : judged = RecordOf(exitOk)
    OBVIOUS
<1>2. /\ judged.is = "record" /\ judged.success \in BOOLEAN
      /\ judged.success <=> TrulySucceeded(exitOk)
      /\ Part(judged.out, printed.out) /\ Part(judged.err, printed.err)
      /\ judged.detail \in Texts
      /\ \A l \in ToSet(judged.detail) : l \in Transients => l \in Lines
      /\ Shows(judged.answer, Answer)
      /\ ask.runner # "agy" => Shows(judged.out, Answer)
    BY <1>1, RecordFacts
<1>3. /\ \A l \in ToSet(FailureText(judged)) : l \in Transients => l \in Lines
      /\ ToSet(judged.err.text) \subseteq ToSet(FailureText(judged))
    BY <1>2, FailureFacts
<1> QED BY ONLY <1>1, <1>2, <1>3 DEF Sound

LEMMA SoundNone ==
    ASSUME NEW is \in {"spawn", "not found", "cancelled"}, NEW started \in BOOLEAN, started => is = "cancelled"
    PROVE  Sound(NoRecord(is), started, FALSE)
<1>1. NoRecord(is).is = is /\ NoRecord(is).success = FALSE /\ is # "record"
    BY DEF NoRecord
<1>2. ~TrulySucceeded(FALSE)
    BY DEF TrulySucceeded
<1> QED BY <1>1, <1>2 DEF Sound

LEMMA TerminalFacts ==
    ASSUME OutcomeType, NEW started \in BOOLEAN, NEW exitOk, NEW judged, Sound(judged, started, exitOk),
           NEW c, c = Terminal(judged)
    PROVE  /\ c.status = "succeeded" <=> judged.success
           /\ c.status = "cancelled" <=> judged.is = "cancelled"
           /\ started /\ c.status # "cancelled" =>
                /\ Shows(c.result, Answer)
                /\ c.status = "failed" => c.error = judged.err /\ Fails(judged) /\ judged.is = "record"
<1>1. /\ judged.is \in {"record", "spawn", "not found", "cancelled"} /\ judged.success \in BOOLEAN
      /\ judged.success => judged.is = "record"
      /\ started => judged.is \in {"record", "cancelled"}
      /\ judged.is = "record" =>
           Shows(judged.answer, Answer) /\ (ask.runner # "agy" => Shows(judged.out, Answer))
    BY DEF Sound
<1>2. ask.purpose \in {"execute", "consult"} /\ (ask.purpose = "consult" => ask.runner # "agy")
    BY DEF OutcomeType
<1>3. CASE judged.is = "record" /\ judged.success
    <2>1. c = [status |-> "succeeded", result |-> judged.answer, error |-> NoText]
        BY <1>3 DEF Terminal
    <2> QED BY <1>1, <1>3, <2>1
<1>4. CASE judged.is = "record" /\ ~judged.success /\ ask.purpose = "execute"
    <2>1. c = [status |-> "failed", result |-> judged.answer, error |-> judged.err]
        BY <1>4 DEF Terminal
    <2> QED BY <1>1, <1>4, <2>1 DEF Fails
<1>5. CASE judged.is = "record" /\ ~judged.success /\ ask.purpose = "consult"
    <2>1. c = [status |-> "failed", result |-> judged.out, error |-> judged.err]
        BY <1>5 DEF Terminal
    <2> QED BY <1>1, <1>2, <1>5, <2>1 DEF Fails
<1>6. CASE judged.is = "cancelled"
    <2>1. c = [status |-> "cancelled", result |-> NoText, error |-> NoText]
        BY <1>6 DEF Terminal
    <2> QED BY <1>1, <1>6, <2>1
<1>7. CASE judged.is \in {"spawn", "not found"}
    <2>1. c = [status |-> "failed", result |-> NoText, error |-> NoText]
        BY <1>7 DEF Terminal
    <2>2. ~judged.success /\ ~started
        BY <1>1, <1>7
    <2>3. c.status = "failed"
        BY <2>1
    <2> QED BY ONLY <1>7, <2>2, <2>3
<1> QED BY <1>1, <1>2, <1>3, <1>4, <1>5, <1>6, <1>7

LEMMA TryAppended ==
    ASSUME NEW S, NEW t \in Seq(S), NEW e \in S, NEW n \in Nat, n = Len(t), NEW u, u = Append(t, e)
    PROVE  /\ u \in Seq(S) /\ Len(u) = n + 1 /\ u[n + 1] = e /\ \A i \in 1 .. n : u[i] = t[i]
           /\ SubSeq(u, 1, Len(u) - 1) \in Seq(S) /\ Len(SubSeq(u, 1, Len(u) - 1)) = n
           /\ \A i \in 1 .. n : SubSeq(u, 1, Len(u) - 1)[i] = t[i]
<1>1. u \in Seq(S) /\ Len(u) = n + 1 /\ u[n + 1] = e /\ \A i \in 1 .. n : u[i] = t[i]
    BY AppendProperties
<1>2. SubSeq(u, 1, Len(u) - 1) = SubSeq(u, 1, n) /\ n + 1 - 1 = n
    BY <1>1
<1>3. 1 \in Int /\ n \in Int /\ \A i \in 1 .. n : u[i] \in S
    BY <1>1
<1>4. /\ SubSeq(u, 1, n) \in Seq(S) /\ Len(SubSeq(u, 1, n)) = n
      /\ \A i \in 1 .. n : SubSeq(u, 1, n)[i] = u[1 + i - 1]
    BY <1>3, SubSeqProperties
<1>5. \A i \in 1 .. n : 1 + i - 1 = i
    OBVIOUS
<1> QED BY <1>1, <1>2, <1>4, <1>5

\* The chain is over: its row tells the run.
LEMMA JudgeEnds ==
    ASSUME OutcomeType, GivenUp, attempt # "over",
           NEW started \in BOOLEAN, NEW exitOk \in BOOLEAN, NEW judged, Sound(judged, started, exitOk),
           ~(/\ Fails(judged) /\ IsRetryWorthy(Classify(FailureText(judged)))
             /\ Len(discarded) + 1 < ask.models),
           NEW was \in [succeeds : BOOLEAN, lines : SUBSET Printable],
           was.succeeds <=> started /\ TrulySucceeded(exitOk),
           tried' = Append(tried, was), Finish_Row(judged, started),
           ask' = ask, discarded' = discarded, printed' = printed
    PROVE  RowTellsTheRun'
<1>1. PICK n \in Nat : n = Len(discarded)
    BY DEF OutcomeType
<1>2. /\ Len(tried) = n /\ DOMAIN discarded = 1 .. n
      /\ \A i \in 1 .. n : /\ discarded[i].model = i /\ ~tried[i].succeeds
                           /\ \E l \in tried[i].lines : IsRetryWorthy(Classify(Line(l)))
    <2>1. /\ Len(discarded) = Len(tried)
          /\ \A i \in DOMAIN discarded :
               /\ discarded[i].model = i /\ ~tried[i].succeeds
               /\ \E l \in tried[i].lines : IsRetryWorthy(Classify(Line(l)))
        BY DEF GivenUp
    <2>2. DOMAIN discarded = 1 .. n
        BY <1>1 DEF OutcomeType
    <2> QED BY ONLY <1>1, <2>1, <2>2
<1>3. PICK earlier : earlier = SubSeq(tried', 1, Len(tried') - 1)
    OBVIOUS
<1>4. /\ Len(tried') = n + 1 /\ tried'[n + 1] = was
      /\ earlier \in Seq([succeeds : BOOLEAN, lines : SUBSET Printable])
      /\ Len(earlier) = n /\ \A i \in 1 .. n : earlier[i] = tried[i]
    <2>1. PICK S : S = [succeeds : BOOLEAN, lines : SUBSET Printable]
        OBVIOUS
    <2>2. tried \in Seq(S) /\ was \in S
        BY <2>1 DEF OutcomeType
    <2>3. PICK u : u = tried' /\ u = Append(tried, was)
        OBVIOUS
    <2>4. /\ u \in Seq(S) /\ Len(u) = n + 1 /\ u[n + 1] = was /\ \A i \in 1 .. n : u[i] = tried[i]
          /\ SubSeq(u, 1, Len(u) - 1) \in Seq(S) /\ Len(SubSeq(u, 1, Len(u) - 1)) = n
          /\ \A i \in 1 .. n : SubSeq(u, 1, Len(u) - 1)[i] = tried[i]
        BY ONLY <1>1, <1>2, <2>2, <2>3, TryAppended
    <2> QED BY ONLY <1>3, <2>1, <2>3, <2>4
<1>5. PICK last : last = tried'[Len(tried')] /\ last = was
    BY <1>4
<1>6. PICK c : c = Terminal(judged)
    OBVIOUS
<1>7. PICK h : h = IF judged.is = "cancelled" /\ ~started THEN <<>> ELSE discarded
    OBVIOUS
<1>8. record' = [columns |-> c, started |-> started, history |-> h,
                 model |-> IF h = <<>> THEN 0 ELSE Len(discarded) + 1]
    BY <1>6, <1>7 DEF Finish_Row
<1>9. /\ record'.columns = c /\ record'.started = started /\ record'.history = h
      /\ record'.model = IF h = <<>> THEN 0 ELSE n + 1
    BY <1>1, <1>8
<1>10. /\ c.status = "succeeded" <=> judged.success
       /\ c.status = "cancelled" <=> judged.is = "cancelled"
       /\ started /\ c.status # "cancelled" =>
            /\ Shows(c.result, Answer)
            /\ c.status = "failed" => c.error = judged.err /\ Fails(judged) /\ judged.is = "record"
    BY <1>6, TerminalFacts
<1>11. c.status = "succeeded" <=> last.succeeds
    BY <1>5, <1>10 DEF Sound
<1>12. ASSUME started, judged.is = "record"
       PROVE  /\ Part(judged.err, printed.err) /\ Shows(judged.err, printed.err)
              /\ ToSet(judged.err.text) \subseteq ToSet(FailureText(judged))
    <2>1. Part(judged.err, printed.err) /\ printed.err \in Texts
        BY <1>12 DEF Sound, OutcomeType
    <2> QED BY <1>12, <2>1, PartShows DEF Sound
<1>13. started /\ c.status # "cancelled" =>
         Shows(c.result, Answer) /\ (c.status = "failed" => Shows(c.error, printed.err))
    BY <1>10, <1>12
<1>14. h # <<>> => Len(h) = Len(earlier) /\ record'.model = Len(tried')
    BY <1>1, <1>4, <1>7, <1>9
<1>15. h = <<>> /\ earlier # <<>> => c.status = "cancelled" /\ ~started
    <2>1. ASSUME discarded = <<>> PROVE earlier = <<>>
        <3>1. n = 0
            BY <1>1, <2>1
        <3> QED BY <1>4, <3>1
    <2> QED BY <1>7, <1>10, <2>1
<1>16. ASSUME NEW i \in DOMAIN h
       PROVE  /\ h[i].model = i /\ ~earlier[i].succeeds
              /\ \E l \in earlier[i].lines : IsRetryWorthy(Classify(Line(l)))
    <2>1. h = discarded /\ i \in 1 .. n
        BY <1>2, <1>7
    <2> QED BY <1>2, <1>4, <2>1
<1>17. ASSUME c.status = "failed", started, Len(tried') < ask.models, ~c.error.cut
       PROVE  ~IsRetryWorthy(Classify(printed.err))
    <2>1. c.error = judged.err /\ Fails(judged) /\ judged.is = "record"
        BY <1>10, <1>17
    <2>2. ~IsRetryWorthy(Classify(FailureText(judged)))
        BY <1>1, <1>4, <1>17, <2>1
    <2>3. judged.err.text = printed.err
        BY <1>12, <1>17, <2>1 DEF Shows
    <2>4. ToSet(printed.err) \subseteq ToSet(FailureText(judged))
        BY <1>12, <1>17, <2>1, <2>3
    <2> QED BY <2>2, <2>4, TransientLines
<1>18. Answer' = Answer
    BY DEF Answer
<1> QED BY <1>3, <1>5, <1>9, <1>11, <1>13, <1>14, <1>15, <1>16, <1>17, <1>18 DEF RowTellsTheRun

\* A failure that is retried joins the attempts the chain gave up.
LEMMA JudgeRetries ==
    ASSUME OutcomeType, GivenUp, attempt # "over",
           NEW started \in BOOLEAN, NEW exitOk \in BOOLEAN, NEW judged, Sound(judged, started, exitOk),
           Fails(judged), IsRetryWorthy(Classify(FailureText(judged))),
           NEW was \in [succeeds : BOOLEAN, lines : SUBSET Printable],
           was.succeeds <=> started /\ TrulySucceeded(exitOk), was.lines = IF started THEN Lines ELSE {},
           tried' = Append(tried, was),
           discarded' = Append(discarded, [model |-> Len(discarded) + 1, kind |-> Classify(FailureText(judged))])
    PROVE  /\ discarded' \in Seq([model : Nat, kind : {"rate_limited", "auth_or_permission", "other"}])
           /\ GivenUp'
<1>1. PICK n \in Nat : n = Len(discarded)
    BY DEF OutcomeType
<1>2. /\ Len(tried) = n /\ DOMAIN discarded = 1 .. n
      /\ \A i \in 1 .. n : /\ discarded[i].model = i /\ ~tried[i].succeeds
                           /\ \E l \in tried[i].lines : IsRetryWorthy(Classify(Line(l)))
    <2>1. /\ Len(discarded) = Len(tried)
          /\ \A i \in DOMAIN discarded :
               /\ discarded[i].model = i /\ ~tried[i].succeeds
               /\ \E l \in tried[i].lines : IsRetryWorthy(Classify(Line(l)))
        BY DEF GivenUp
    <2>2. DOMAIN discarded = 1 .. n
        BY <1>1 DEF OutcomeType
    <2> QED BY ONLY <1>1, <2>1, <2>2
<1>3. PICK d : d = [model |-> n + 1, kind |-> Classify(FailureText(judged))]
    OBVIOUS
<1>4. d \in [model : Nat, kind : {"rate_limited", "auth_or_permission", "other"}] /\ d.model = n + 1
    <2>1. Classify(FailureText(judged)) \in {"rate_limited", "auth_or_permission", "other"}
        BY DEF Classify
    <2> QED BY <1>3, <2>1
<1>5. /\ discarded' \in Seq([model : Nat, kind : {"rate_limited", "auth_or_permission", "other"}])
      /\ Len(discarded') = n + 1 /\ discarded'[n + 1] = d /\ \A i \in 1 .. n : discarded'[i] = discarded[i]
    BY <1>1, <1>3, <1>4, TryAppended DEF OutcomeType
<1>6. /\ Len(tried') = n + 1 /\ tried'[n + 1] = was /\ \A i \in 1 .. n : tried'[i] = tried[i]
    BY <1>2, TryAppended DEF OutcomeType
<1>7. DOMAIN discarded' = 1 .. n + 1
    BY <1>5
<1>8. ~was.succeeds /\ \E l \in was.lines : IsRetryWorthy(Classify(Line(l)))
    <2>1. ~judged.success /\ judged.is \in {"record", "spawn"}
        BY DEF Fails
    <2>2. PICK l \in ToSet(FailureText(judged)) : l \in Transients
        BY TransientLines
    <2>3. judged.is = "record"
        <3>1. CASE judged.is = "spawn"
            <4>1. FailureText(judged) = Line("text")
                BY <3>1 DEF FailureText
            <4>2. ToSet(Line("text")) = {"text"}
                BY OneLine DEF Printable
            <4> QED BY <2>2, <4>1, <4>2 DEF Transients
        <3> QED BY <2>1, <3>1
    <2>4. started /\ l \in Lines /\ ~(started /\ TrulySucceeded(exitOk))
        BY <2>1, <2>2, <2>3 DEF Sound
    <2>5. l \in Printable
        BY <2>4, LinesAre
    <2>6. IsRetryWorthy(Classify(Line(l)))
        BY <2>2, <2>5, OneLine, TransientLines
    <2> QED BY <2>4, <2>6
<1>9. ASSUME NEW i \in 1 .. n + 1
      PROVE  /\ discarded'[i].model = i /\ ~tried'[i].succeeds
             /\ \E l \in tried'[i].lines : IsRetryWorthy(Classify(Line(l)))
    <2>1. CASE i \in 1 .. n
        BY <1>2, <1>5, <1>6, <2>1
    <2>2. CASE i = n + 1
        BY <1>4, <1>5, <1>6, <1>8, <2>2
    <2>3. i \in 1 .. n \/ i = n + 1
        OBVIOUS
    <2> QED BY ONLY <2>1, <2>2, <2>3
<1> QED BY <1>5, <1>6, <1>7, <1>9 DEF GivenUp

LEMMA NothingIsText == NothingPrinted \in [out : Texts, err : Texts, agy : AgyEvents]
  BY NoLines DEF NothingPrinted, NoEvents, AgyEvents, Results

LEMMA JudgeKeeps ==
    ASSUME OutcomeInv, attempt # "over",
           NEW started \in BOOLEAN, NEW exitOk \in BOOLEAN, NEW judged, Sound(judged, started, exitOk),
           Judge(judged, started, exitOk)
    PROVE  OutcomeInv'
<1>1. OutcomeType /\ CapturedRight /\ GivenUp
    BY DEF OutcomeInv
<1>2. PICK was : was = [succeeds |-> started /\ TrulySucceeded(exitOk), lines |-> IF started THEN Lines ELSE {}]
    OBVIOUS
<1>3. /\ was \in [succeeds : BOOLEAN, lines : SUBSET Printable]
      /\ was.succeeds <=> started /\ TrulySucceeded(exitOk)
      /\ was.lines = IF started THEN Lines ELSE {}
    <2>1. (started /\ TrulySucceeded(exitOk)) \in BOOLEAN
        BY DEF TrulySucceeded
    <2>2. (IF started THEN Lines ELSE {}) \in SUBSET Printable
        BY <1>1, LinesAre
    <2> QED BY <1>2, <2>1, <2>2
<1>4. tried' = Append(tried, was)
    BY <1>2 DEF Judge
<1>5. tried' \in Seq([succeeds : BOOLEAN, lines : SUBSET Printable])
    BY <1>1, <1>3, <1>4 DEF OutcomeType
<1>6. ask' = ask /\ captured' = captured /\ stop' = stop
    BY DEF Judge
<1>7. CASE Fails(judged) /\ IsRetryWorthy(Classify(FailureText(judged))) /\ Len(discarded) + 1 < ask.models
    <2>1. /\ discarded' = Append(discarded, [model |-> Len(discarded) + 1, kind |-> Classify(FailureText(judged))])
          /\ attempt' = "idle" /\ printed' = NothingPrinted
        BY <1>7 DEF Judge
    <2>2. /\ discarded' \in Seq([model : Nat, kind : {"rate_limited", "auth_or_permission", "other"}])
          /\ GivenUp'
        BY <1>1, <1>3, <1>4, <1>7, <2>1, JudgeRetries
    <2>3. OutcomeType'
        BY <1>1, <1>5, <1>6, <2>1, <2>2, NothingIsText DEF OutcomeType
    <2>4. CapturedRight'
        BY <2>1 DEF CapturedRight
    <2>5. RowTellsTheRun'
        BY <2>1 DEF RowTellsTheRun
    <2> QED BY <2>2, <2>3, <2>4, <2>5 DEF OutcomeInv
<1>8. CASE ~(/\ Fails(judged) /\ IsRetryWorthy(Classify(FailureText(judged)))
             /\ Len(discarded) + 1 < ask.models)
    <2>1. Finish_Row(judged, started) /\ attempt' = "over" /\ discarded' = discarded /\ printed' = printed
        BY <1>8 DEF Judge
    <2>2. RowTellsTheRun'
        BY <1>1, <1>3, <1>4, <1>6, <1>8, <2>1, JudgeEnds
    <2>3. OutcomeType'
        BY <1>1, <1>5, <1>6, <2>1 DEF OutcomeType
    <2>4. CapturedRight' /\ GivenUp'
        BY <2>1 DEF CapturedRight, GivenUp
    <2> QED BY <2>2, <2>3, <2>4 DEF OutcomeInv
<1> QED BY <1>7, <1>8

LEMMA UnreadReads ==
    ASSUME NEW cap, cap.limit \in Nat, cap.keep \in {"head", "tail"}
    PROVE  Unread \in Buffers /\ Reads(Unread, <<>>, cap)
  BY NoLines DEF Unread, Buffers, Reads, Fore, Aft

LEMMA PolicyFacts ==
    ASSUME NEW purpose \in {"execute", "consult"}, NEW p, p = Policy(purpose)
    PROVE  /\ p.out.limit \in Nat /\ p.out.keep \in {"head", "tail"}
           /\ p.err.limit \in Nat /\ p.err.keep \in {"head", "tail"}
  BY CapsAssumption DEF Policy, Cap

LEMMA ResultsOfAgy == AgyResults \cup {NoResult} \subseteq Results
  BY AgyResultsAssumption DEF Results, Oversized, Texts

LEMMA OutcomesStarts == OutcomesInit => OutcomeInv
<1> SUFFICES ASSUME OutcomesInit PROVE OutcomeInv
    OBVIOUS
<1>1. PICK a \in Asks, k \in 1 .. MaxModels :
        ask = [runner |-> a.runner, purpose |-> a.purpose, models |-> k]
    BY DEF OutcomesInit
<1>2. /\ ask.purpose \in {"execute", "consult"} /\ ask.models \in Nat
      /\ ask.purpose = "consult" => ask.runner # "agy"
    BY <1>1, AsksAssumption
<1>3. captured \in [out : Buffers, err : Buffers, agy : AgyEvents]
    BY NothingIsText, NoLines DEF OutcomesInit, Unread, Buffers, NothingPrinted
<1>4. /\ discarded \in Seq([model : Nat, kind : {"rate_limited", "auth_or_permission", "other"}])
      /\ tried \in Seq([succeeds : BOOLEAN, lines : SUBSET Printable])
    BY DEF OutcomesInit
<1>5. OutcomeType
    BY <1>2, <1>3, <1>4, NothingIsText DEF OutcomesInit, OutcomeType
<1>6. Len(discarded) = Len(tried) /\ DOMAIN discarded = {}
    BY DEF OutcomesInit
<1> QED BY <1>5, <1>6 DEF OutcomesInit, OutcomeInv, CapturedRight, GivenUp, RowTellsTheRun

LEMMA OutcomesStep == OutcomeInv /\ [OutcomesNext]_outcomeVars => OutcomeInv'
<1> SUFFICES ASSUME OutcomeInv, [OutcomesNext]_outcomeVars PROVE OutcomeInv'
    OBVIOUS
<1> USE DEF OutcomeInv
<1>1. ASSUME UNCHANGED outcomeVars PROVE OutcomeInv'
    BY <1>1 DEF outcomeVars, OutcomeType, CapturedRight, GivenUp, RowTellsTheRun, Answer
<1>2. ASSUME StartFails PROVE OutcomeInv'
    <2>1. PICK is \in {"spawn", "not found", "cancelled"} : Judge(NoRecord(is), FALSE, FALSE) /\ attempt = "idle"
        BY <1>2 DEF StartFails
    <2>2. Sound(NoRecord(is), FALSE, FALSE)
        BY SoundNone
    <2> QED BY <2>1, <2>2, JudgeKeeps
<1>3. ASSUME ProcessKilled PROVE OutcomeInv'
    <2>1. Judge(NoRecord("cancelled"), TRUE, FALSE) /\ attempt = "running"
        BY <1>3 DEF ProcessKilled
    <2>2. Sound(NoRecord("cancelled"), TRUE, FALSE)
        BY SoundNone
    <2> QED BY <2>1, <2>2, JudgeKeeps
<1>4. ASSUME NEW exitOk \in BOOLEAN, ProcessExits(exitOk) PROVE OutcomeInv'
    <2>1. Judge(RecordOf(exitOk), TRUE, exitOk) /\ attempt = "running"
        BY <1>4 DEF ProcessExits
    <2>2. Sound(RecordOf(exitOk), TRUE, exitOk)
        BY <2>1, SoundRecord
    <2> QED BY <2>1, <2>2, JudgeKeeps
<1>5. ASSUME StopRun PROVE OutcomeInv'
    BY <1>5 DEF StopRun, OutcomeType, CapturedRight, GivenUp, RowTellsTheRun, Answer
<1>6. ASSUME StartProcess PROVE OutcomeInv'
    <2>1. PICK p : p = Policy(ask.purpose)
        OBVIOUS
    <2>2. /\ Unread \in Buffers /\ Reads(Unread, <<>>, p.out) /\ Reads(Unread, <<>>, p.err)
        BY <2>1, PolicyFacts, UnreadReads DEF OutcomeType
    <2>3. /\ attempt' = "running" /\ printed = NothingPrinted
          /\ captured' = [out |-> Unread, err |-> Unread, agy |-> NoEvents]
          /\ UNCHANGED <<ask, printed, discarded, tried, stop, record>>
        BY <1>6 DEF StartProcess, CapturedRight
    <2>4. /\ printed'.out = <<>> /\ printed'.err = <<>> /\ printed'.agy = NoEvents /\ NoEvents \in AgyEvents
        BY <2>3, NothingIsText DEF NothingPrinted
    <2>5. OutcomeType'
        BY <2>2, <2>3, <2>4 DEF OutcomeType
    <2>6. CapturedRight'
        BY <2>1, <2>2, <2>3, <2>4 DEF CapturedRight
    <2>7. GivenUp' /\ RowTellsTheRun'
        BY <1>6, <2>3 DEF StartProcess, GivenUp, RowTellsTheRun
    <2> QED BY <2>5, <2>6, <2>7
<1>7. ASSUME NEW line \in OutputLines, PrintOut(line) PROVE OutcomeInv'
    <2>1. PICK p : p = Policy(ask.purpose)
        OBVIOUS
    <2>2. line \in Printable
        BY DEF OutputLines
    <2>3. /\ attempt = "running"
          /\ captured' = [captured EXCEPT !.out = PushLine(captured.out, p.out, line)]
          /\ printed' = [printed EXCEPT !.out = Append(printed.out, line)]
          /\ UNCHANGED <<ask, attempt, discarded, tried, stop, record>>
        BY <1>7, <2>1 DEF PrintOut, MayPrint
    <2>4. /\ captured.out \in Buffers /\ printed.out \in Texts /\ Append(printed.out, line) \in Texts
          /\ Reads(captured.out, printed.out, p.out) /\ Reads(captured.err, printed.err, p.err)
        BY <2>1, <2>2, <2>3, AppendedLines DEF OutcomeType, CapturedRight
    <2>5. /\ PushLine(captured.out, p.out, line) \in Buffers
          /\ Reads(PushLine(captured.out, p.out, line), Append(printed.out, line), p.out)
        BY <2>1, <2>2, <2>4, PolicyFacts, PushReads DEF OutcomeType
    <2>6. OutcomeType'
        BY <2>3, <2>4, <2>5 DEF OutcomeType
    <2>7. CapturedRight'
        BY <2>1, <2>3, <2>4, <2>5 DEF CapturedRight, OutcomeType
    <2>8. GivenUp' /\ RowTellsTheRun'
        BY <2>3 DEF GivenUp, RowTellsTheRun
    <2> QED BY <2>6, <2>7, <2>8
<1>8. ASSUME NEW line \in OutputLines, PrintErr(line) PROVE OutcomeInv'
    <2>1. PICK p : p = Policy(ask.purpose)
        OBVIOUS
    <2>2. line \in Printable
        BY DEF OutputLines
    <2>3. /\ attempt = "running"
          /\ captured' = [captured EXCEPT !.err = PushLine(captured.err, p.err, line)]
          /\ printed' = [printed EXCEPT !.err = Append(printed.err, line)]
          /\ UNCHANGED <<ask, attempt, discarded, tried, stop, record>>
        BY <1>8, <2>1 DEF PrintErr, MayPrint
    <2>4. /\ captured.err \in Buffers /\ printed.err \in Texts /\ Append(printed.err, line) \in Texts
          /\ Reads(captured.out, printed.out, p.out) /\ Reads(captured.err, printed.err, p.err)
        BY <2>1, <2>2, <2>3, AppendedLines DEF OutcomeType, CapturedRight
    <2>5. /\ PushLine(captured.err, p.err, line) \in Buffers
          /\ Reads(PushLine(captured.err, p.err, line), Append(printed.err, line), p.err)
        BY <2>1, <2>2, <2>4, PolicyFacts, PushReads DEF OutcomeType
    <2>6. OutcomeType'
        BY <2>3, <2>4, <2>5 DEF OutcomeType
    <2>7. CapturedRight'
        BY <2>1, <2>3, <2>4, <2>5 DEF CapturedRight, OutcomeType
    <2>8. GivenUp' /\ RowTellsTheRun'
        BY <2>3 DEF GivenUp, RowTellsTheRun
    <2> QED BY <2>6, <2>7, <2>8
<1>9. ASSUME NEW sent \in [result : AgyResults \cup {NoResult}, agyError : {<<>>, Line("AGY_ERROR rate limit")}],
             AgySends(sent)
      PROVE  OutcomeInv'
    <2>1. sent \in AgyEvents
        BY ResultsOfAgy DEF AgyEvents
    <2>2. /\ attempt = "running"
          /\ printed' = [printed EXCEPT !.agy = sent] /\ captured' = [captured EXCEPT !.agy = sent]
          /\ UNCHANGED <<ask, attempt, discarded, tried, stop, record>>
        BY <1>9 DEF AgySends
    <2>3. OutcomeType'
        BY <2>1, <2>2 DEF OutcomeType
    <2>4. CapturedRight'
        BY <2>2 DEF CapturedRight, OutcomeType
    <2>5. GivenUp' /\ RowTellsTheRun'
        BY <2>2 DEF GivenUp, RowTellsTheRun
    <2> QED BY <2>3, <2>4, <2>5
<1> QED BY <1>1, <1>2, <1>3, <1>4, <1>5, <1>6, <1>7, <1>8, <1>9 DEF OutcomesNext

\* A row that ended tells what the processes of its run did (failure.rs, executor.rs finish).
THEOREM OutcomesRowTellsTheRun == OutcomesSpec => []RowTellsTheRun
<1>1. OutcomeInv => RowTellsTheRun
    BY DEF OutcomeInv
<1> QED BY OutcomesStarts, OutcomesStep, <1>1, PTL DEF OutcomesSpec
=============================================================================

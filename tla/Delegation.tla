----------------------------- MODULE Delegation -----------------------------
(***************************************************************************)
(* What a run may reach: the command line and the environment of every     *)
(* backend that dispatch starts (backend.rs, consult.rs, agent-exec argv,  *)
(* spec and reentry), the dispatch server a backend boots in its turn, and *)
(* what that server refuses (main.rs).  Runs and servers form a tree.      *)
(*                                                                         *)
(* Backends are outside the code; Boots, Callable and MayWrite say of them *)
(* what the code takes for granted.  An attempt of a run starts with the   *)
(* same specification as the one before, so a run has one process here.    *)
(***************************************************************************)
EXTENDS Integers, Sequences, FiniteSets

CONSTANTS
    Unmarked,       \* the environment lacks the marker, or it is blank
    Malformed,      \* the marker is there and is no number
    PastAll,        \* u32::MAX, the depth a malformed marker stands for
    TopMarkers,     \* the markers a server the person's harness starts may have
    Delegates,      \* the backends
    MaxServers,     \* bound: servers
    MaxDelegated    \* bound: runs

\* A marker that is a number is one of a u32.
ASSUME MarkersAssumption ==
  /\ PastAll \in Nat /\ PastAll > 1 /\ TopMarkers \subseteq (0 .. PastAll) \cup {Unmarked, Malformed}
  /\ Unmarked # Malformed /\ Unmarked \notin 0 .. PastAll /\ Malformed \notin 0 .. PastAll
ASSUME DelegatesAssumption == Delegates \subseteq {"codex", "claude", "opencode", "agy"}

Ceiling   == 1
Executing == {"dispatch_submit", "dispatch_steer"}
ToolNames == Executing \cup {"dispatch_consult", "dispatch_status"}

VARIABLES
    danger,     \* DISPATCH_ALLOW_DANGER is set
    approvals,  \* the dispatch tools the person's own codex configuration approves
    servers,    \* [marker, under: the run whose backend booted it or 0, tools]
    delegated   \* the runs: [kind, backend, sandbox, by, from, resumes, proc]

delegationVars == <<danger, approvals, servers, delegated>>

-----------------------------------------------------------------------------
(***************************************************************************)
(* reentry.rs.                                                             *)
(***************************************************************************)
Depth(marker) ==
  CASE marker = Unmarked -> 0 [] marker = Malformed -> PastAll [] OTHER -> marker
NextDepth(s) == IF Depth(servers[s].marker) = PastAll THEN PastAll ELSE Depth(servers[s].marker) + 1

\* An execution is refused at the ceiling; a consultation never.
RefusedAt_Above(s, kind) == kind = "execute" /\ Depth(servers[s].marker) > Ceiling
RefusedAt(s, kind) == kind = "execute" /\ Depth(servers[s].marker) >= Ceiling

-----------------------------------------------------------------------------
(***************************************************************************)
(* The specification of an attempt and its command line: what each flag is *)
(* given, for the flags that decide what the process may reach.            *)
(***************************************************************************)
Flag(name, value) == [f \in {name} |-> value]
And(f, g) == [x \in DOMAIN f \cup DOMAIN g |-> IF x \in DOMAIN f THEN f[x] ELSE g[x]]
NoFlag == [f \in {} |-> 0]

\* BACKEND_APPROVED_TOOLS: an execution's codex may call everything but executions.
ApprovedTools == ToolNames \ Executing

\* backend::run_spec, for server s.  An unknown sandbox is workspace-write.
RunSpec(r, s) ==
  [backend   |-> r.backend,
   sandbox   |-> IF r.sandbox \in {"read-only", "danger-full-access"} THEN r.sandbox ELSE "workspace-write",
   isolation |-> IF r.backend = "codex" THEN "server-env" ELSE "permissions",
   value     |-> NextDepth(s)]

\* consult::attempt.
ConsultSpec(backend, s) ==
  [backend |-> backend, sandbox |-> "read-only",
   isolation |-> IF backend = "codex" THEN "ignore-user-config" ELSE "safe-mode",
   value |-> NextDepth(s)]

SpecOf(r, s) == IF r.kind = "consult" THEN ConsultSpec(r.backend, s) ELSE RunSpec(r, s)

CodexArgs(spec) ==
  And(Flag("-s", spec.sandbox),
      CASE spec.isolation = "server-env" ->
             And(Flag("mcp_servers.dispatch.env", spec.value), Flag("approval_mode", ApprovedTools))
        [] spec.isolation = "ignore-user-config" -> Flag("--ignore-user-config", TRUE)
        [] OTHER -> NoFlag)

ClaudeArgs(spec) ==
  IF spec.isolation = "safe-mode"
  THEN And(Flag("--safe-mode", TRUE), Flag("--permission-mode", "plan"))
  ELSE CASE spec.sandbox = "read-only" -> Flag("--permission-mode", "plan")
         [] spec.sandbox = "workspace-write" -> Flag("--permission-mode", "acceptEdits")
         [] spec.sandbox = "danger-full-access" -> Flag("--dangerously-skip-permissions", TRUE)

AgyArgs(spec) ==
  And(Flag("--dangerously-skip-permissions", TRUE),
      IF spec.sandbox = "danger-full-access" THEN NoFlag ELSE Flag("--sandbox", TRUE))

\* opencode.rs: the rules a session is created with; a resumed session has those it had.
PermissionRules(spec) ==
  IF spec.sandbox = "read-only" THEN Flag("deny", {"edit", "bash", "task"}) ELSE Flag("deny", {})

Command(spec) ==
  CASE spec.backend = "codex" -> CodexArgs(spec)
    [] spec.backend = "claude" -> ClaudeArgs(spec)
    [] spec.backend = "agy" -> AgyArgs(spec)
    [] spec.backend = "opencode" -> PermissionRules(spec)

\* agy runs with every tool approved, so it cannot be held to reads.
SandboxRefusal(backend, sandbox) == backend = "agy" /\ sandbox = "read-only"

-----------------------------------------------------------------------------
(***************************************************************************)
(* The backends.  codex starts its servers with a clean environment, under *)
(* `-a never` it calls the approved tools alone; the others pass theirs.   *)
(***************************************************************************)
Boots(p) ==
  CASE p.backend = "codex" ->
         IF "--ignore-user-config" \in DOMAIN p.flags THEN {}
         ELSE {IF "mcp_servers.dispatch.env" \in DOMAIN p.flags THEN p.flags["mcp_servers.dispatch.env"]
               ELSE Unmarked}
    [] p.backend = "claude" -> IF "--safe-mode" \in DOMAIN p.flags THEN {} ELSE {p.env}
    [] OTHER -> {p.env}
Callable(p) ==
  IF p.backend # "codex" THEN ToolNames
  ELSE approvals \cup (IF "approval_mode" \in DOMAIN p.flags THEN p.flags["approval_mode"] ELSE {})
MayWrite(p) ==
  CASE p.backend = "codex" -> p.flags["-s"] # "read-only"
    [] p.backend = "claude" -> ~("--permission-mode" \in DOMAIN p.flags /\ p.flags["--permission-mode"] = "plan")
    [] p.backend = "agy" -> TRUE
    [] p.backend = "opencode" -> "edit" \notin p.flags["deny"]

-----------------------------------------------------------------------------
\* A run was not spawned yet, or ended without a process.
NoProc == [spawned |-> FALSE]
Ended  == [spawned |-> FALSE, refused |-> TRUE]
Alive(r) == r.proc.spawned

Enqueue(s, kind, backend, sandbox, from) ==
  /\ Len(delegated) < MaxDelegated
  /\ delegated' = Append(delegated, [kind |-> kind, backend |-> backend, sandbox |-> sandbox,
                                     by |-> s, from |-> from, proc |-> NoProc])
  /\ UNCHANGED <<danger, approvals, servers>>

\* check_sandbox: blank is workspace-write; danger-full-access only where the server allows it.
Asked == {"", "read-only", "workspace-write", "danger-full-access", "other"}
Granted(asked) ==
  CASE asked = "" -> {"workspace-write"}
    [] asked = "danger-full-access" -> IF danger THEN {asked} ELSE {}
    [] asked = "other" -> {}
    [] OTHER -> {asked}

SubmitTo(s, backend, asked) ==
  /\ "dispatch_submit" \in servers[s].tools
  /\ ~RefusedAt(s, "execute")
  /\ \E sandbox \in Granted(asked) :
       /\ ~SandboxRefusal(backend, sandbox)
       /\ Enqueue(s, "execute", backend, sandbox, 0)

\* A consultation runs on codex or claude.
ConsultWith(s, backend) ==
  /\ "dispatch_consult" \in servers[s].tools
  /\ ~RefusedAt(s, "consult")
  /\ backend \notin {"opencode", "agy"}
  /\ Enqueue(s, "consult", backend, "read-only", 0)

\* A steer takes the backend and the sandbox of the run it continues.
SteerTo(s, i) ==
  /\ "dispatch_steer" \in servers[s].tools
  /\ ~RefusedAt(s, "execute")
  /\ delegated[i].kind = "execute" /\ Alive(delegated[i])
  /\ Enqueue(s, "execute", delegated[i].backend, delegated[i].sandbox, i)

\* executor restart: the successor of a fresh codex submit, by the same server.
RestartAs(i) ==
  LET old == delegated[i]
  IN /\ old.kind = "execute" /\ old.backend = "codex" /\ old.from = 0 /\ Alive(old)
     /\ Enqueue(old.by, "execute", old.backend, old.sandbox, i)

\* AttemptBuilder::build, then agent_exec::run or opencode's spawn_server: the second
\* refusal of a sandbox, the command line, the stamp.
Spawn(i) ==
  LET r == delegated[i]
      spec == SpecOf(r, r.by)
  IN /\ r.proc = NoProc
     /\ delegated' = [delegated EXCEPT ![i].proc =
          IF SandboxRefusal(spec.backend, spec.sandbox) THEN Ended
          ELSE [spawned |-> TRUE, backend |-> r.backend, flags |-> Command(spec), env |-> NextDepth(r.by)]]
     /\ UNCHANGED <<danger, approvals, servers>>

\* The backend starts the dispatch server of its configuration.
Boot(i) ==
  /\ Alive(delegated[i]) /\ Len(servers) < MaxServers
  /\ \A s \in DOMAIN servers : servers[s].under # i
  /\ \E marker \in Boots(delegated[i].proc) :
       servers' = Append(servers, [marker |-> marker, under |-> i, tools |-> Callable(delegated[i].proc)])
  /\ UNCHANGED <<danger, approvals, delegated>>

DelegationInit ==
  /\ danger \in BOOLEAN /\ approvals \in SUBSET Executing
  /\ \E marker \in TopMarkers : servers = <<[marker |-> marker, under |-> 0, tools |-> ToolNames]>>
  /\ delegated = <<>>

DelegationNext ==
  \/ \E s \in DOMAIN servers, b \in Delegates :
       ConsultWith(s, b) \/ \E asked \in Asked : SubmitTo(s, b, asked)
  \/ \E i \in DOMAIN delegated :
       RestartAs(i) \/ Spawn(i) \/ Boot(i) \/ \E s \in DOMAIN servers : SteerTo(s, i)

DelegationSpec == DelegationInit /\ [][DelegationNext]_delegationVars

-----------------------------------------------------------------------------
(***************************************************************************)
(* backend.rs: "a backend may consult but never start another execution",  *)
(* and (main.rs reentry_refusal) nothing a consultation starts "can reach  *)
(* dispatch again"; a consultation writes nothing, and neither does any    *)
(* run at or below an execution that was asked to be read-only, however it *)
(* was steered or restarted, whatever marker the first server was given    *)
(* and whatever the person's codex configuration approves.                 *)
(***************************************************************************)
RunOver(i) == servers[delegated[i].by].under
RunsOver(i) ==
  LET over[j \in 0 .. Len(delegated)] ==
        IF j = 0 THEN {} ELSE {j} \cup over[RunOver(j)]
  IN over[RunOver(i)]
\* What the run was first asked to be.
FirstAsked(i) ==
  LET first[j \in 1 .. Len(delegated)] ==
        IF delegated[j].from = 0 THEN delegated[j].sandbox ELSE first[delegated[j].from]
  IN first[i]

NestsNoDeeper ==
  \A i \in DOMAIN delegated :
    /\ \A j \in RunsOver(i) : delegated[i].kind = "consult" /\ delegated[j].kind = "execute"
    /\ Alive(delegated[i]) /\ MayWrite(delegated[i].proc) =>
         \A j \in RunsOver(i) \cup {i} : delegated[j].kind = "execute" /\ FirstAsked(j) # "read-only"
=============================================================================

---------------------------- MODULE Association ----------------------------
(***************************************************************************)
(* Which backend session a row of the store names.  A run prepares each    *)
(* attempt of its model chain, its consumer applies the attempts' events   *)
(* and watches for a codex rollout, readers of the log resolve the row     *)
(* again, and a steer resumes the session it resolved                      *)
(* (src/shared/mcp-servers/dispatch/src: executor.rs, main.rs, rollout.rs, *)
(* store.rs; src/shared/crates/harness-log/src/codex.rs).                  *)
(*                                                                         *)
(* A session is named by the attempt that opened it, and its log is on     *)
(* disk once the attempt wrote it.                                         *)
(***************************************************************************)
EXTENDS Naturals, Sequences, FiniteSets, SequencesExt, Lists

CONSTANTS
    MaxRows,    \* rows of the store
    Submits,    \* submissions among them
    Chain,      \* models of a fresh run: the first attempt and its retries
    Backends,   \* among "codex", "claude", "opencode", "agy"
    Kinds,      \* what is submitted: among "execute", "consult"
    Nobody      \* no session, no nonce, no row

ASSUME AssociationAssumption ==
    /\ {MaxRows, Submits, Chain} \subseteq Nat \ {0}
    /\ Backends \subseteq {"codex", "claude", "opencode", "agy"}
    /\ Kinds \subseteq {"execute", "consult"}

\* Sessions are pairs of numbers, nonces are made of numbers and words.
Words == Nat \cup {"retry", "restart"}
ASSUME NobodyAssumption == Nobody \notin Nat \cup (Nat \X Nat) \cup Seq(Words)

VARIABLES
    jobs,       \* the jobs by row: kind, backend, nonce, resumed session, parent, restarts
    rows,       \* what the store says of them: active, nonce, session
    chains,     \* by row: the attempt in flight, the ones built, the token, the verdict
    queues,     \* by row: the events its consumer did not handle yet
    watches,    \* by row: attempts finished, and the watch of the one in flight
    disk,       \* the logs, the one written last at the end
    reader        \* a dispatch_logs or dispatch_steer call, with the row it read

agentVars == <<jobs, rows, chains, queues, watches, disk, reader>>

Rows == 1 .. Len(jobs)
Idle == [pc |-> "idle"]

AssociationInit ==
  /\ jobs = <<>> /\ rows = <<>> /\ chains = <<>> /\ queues = <<>> /\ watches = <<>>
  /\ disk = <<>>
  /\ reader = Idle

-----------------------------------------------------------------------------
(***************************************************************************)
(* Logs and how they are found.                                            *)
(***************************************************************************)
Question == <<0>>
Log(session, marker) == [session |-> session, marker |-> marker]
Fresh(r, i) == <<r, i>>

Logs == ToSet(disk)
\* Mutant: a nonce is looked for by its text, which its retries extend.
Marked_Prefix(marker) ==
  { l \in Logs : l.marker # Nobody /\ Len(l.marker) >= Len(marker)
                 /\ SubSeq(l.marker, 1, Len(marker)) = marker }

Marked(marker) == { l \in Logs : l.marker = marker }

\* The newest of some logs, as the set of its session.
Newest(logs) ==
  { l.session : l \in { l \in logs : \A m \in logs :
      \E i, j \in DOMAIN disk : disk[i] = m /\ disk[j] = l /\ i <= j } }

OnDisk(session) == { l.session : l \in { l \in Logs : l.session = session } }

\* Written again, a log is the newest.
Touch(log) == KeptAt(disk, {i \in DOMAIN disk : disk[i].session # log.session}) \o <<log>>

-----------------------------------------------------------------------------
(***************************************************************************)
(* A new row, and the job that is spawned for it.                          *)
(***************************************************************************)
Add(job, session, others) ==
  /\ Len(jobs) < MaxRows
  /\ jobs' = Append(jobs, job)
  /\ rows' = Append(others, [active |-> TRUE, nonce |-> job.nonce, session |-> session])
  /\ chains' = Append(chains, [step |-> "build", built |-> <<>>, wrote |-> FALSE, token |-> FALSE, verdict |-> FALSE])
  /\ queues' = Append(queues, <<>>)
  /\ watches' = Append(watches, [finished |-> 0, on |-> FALSE])

Job(kind, backend, nonce) ==
  [kind |-> kind, backend |-> backend, nonce |-> nonce,
   resumed |-> Nobody, parent |-> Nobody, restart |-> FALSE]

Submitted == { r \in Rows : jobs[r].parent = Nobody /\ ~jobs[r].restart }

\* Consultations run on codex and claude; all ask one question.
Submit(kind, backend) ==
  /\ Cardinality(Submitted) < Submits
  /\ kind = "consult" => backend \in {"codex", "claude"}
  /\ Add(Job(kind, backend, IF kind = "execute" THEN <<Len(jobs) + 1>> ELSE Nobody), Nobody, rows)
  /\ UNCHANGED <<disk, reader>>

-----------------------------------------------------------------------------
(***************************************************************************)
(* The chain.  One attempt ends and the next is prepared and spawned       *)
(* without a pause the consumer could use.                                 *)
(***************************************************************************)
Event(kind) == [kind |-> kind]
SessionEvent(session) == [kind |-> "session", session |-> session]

Models(r) == IF jobs[r].resumed = Nobody THEN Chain ELSE 1
Tries(r) == Len(chains[r].built)

\* AttemptBuilder::identity, the nonce of attempt i.
AttemptNonce(r, i) ==
  IF i = 1 \/ jobs[r].nonce = Nobody THEN jobs[r].nonce
                                     ELSE jobs[r].nonce \o <<"retry", i>>

\* Mutant: the association of the attempt before stays on the row.
Identity_Keeps(r, i) ==
  rows' = IF i = 1 \/ jobs[r].nonce = Nobody THEN rows
          ELSE [rows EXCEPT ![r].nonce = AttemptNonce(r, i)]

Identity(r, i) ==
  rows' = IF i = 1 \/ jobs[r].nonce = Nobody THEN rows
          ELSE [rows EXCEPT ![r].nonce = AttemptNonce(r, i), ![r].session = Nobody]

\* What the consumer will need of an attempt; claude's session is pinned.
Built(r, i) ==
  [nonce |-> AttemptNonce(r, i),
   pin |-> IF jobs[r].backend = "claude" /\ jobs[r].kind = "execute" THEN Fresh(r, i) ELSE Nobody,
   snapshot |-> { l.session : l \in Logs }]

\* Attempt i is built and spawned, or its spawn fails; `first' is queued before it.
Prepare(r, i, first) ==
  /\ Identity(r, i)
  /\ \E spawned \in BOOLEAN :
       /\ chains' = [chains EXCEPT ![r].built = Append(@, Built(r, i)),
                                   ![r].step = IF spawned THEN "running" ELSE "unspawned",
                                   ![r].wrote = FALSE]
       /\ queues' = [queues EXCEPT ![r] = @ \o first \o IF spawned THEN <<Event("started")>> ELSE <<>>]
  /\ UNCHANGED <<jobs, watches, disk, reader>>

Stopped(r) == chains[r].token \/ chains[r].verdict

\* What the chain sent is handled before the chain is polled again.
Delivered(r) == \A e \in ToSet(queues[r]) : e.kind = "session"

Begin(r) ==
  /\ chains[r].step = "build"
  /\ ~Stopped(r)
  /\ Prepare(r, 1, <<>>)

Retry(r) ==
  /\ chains[r].step \in {"running", "unspawned"}
  /\ Delivered(r)
  /\ Tries(r) < Models(r)
  /\ ~Stopped(r)
  /\ Prepare(r, Tries(r) + 1, <<Event("finished")>>)

\* The last attempt, a success, a failure no retry helps, or a cancellation.
ChainEnds(r) ==
  /\ \/ chains[r].step \in {"running", "unspawned"}
     \/ chains[r].step = "build" /\ Stopped(r)
  /\ Delivered(r)
  /\ chains' = [chains EXCEPT ![r].step = "over"]
  /\ queues' = [queues EXCEPT ![r] = Append(@, Event("finished"))]
  /\ UNCHANGED <<jobs, rows, watches, disk, reader>>

-----------------------------------------------------------------------------
(***************************************************************************)
(* External: the backend opens its session, or continues the one it        *)
(* resumes, and writes its log; opencode and agy name it to the run.       *)
(***************************************************************************)
SessionOf(r) ==
  IF jobs[r].resumed = Nobody \/ jobs[r].backend = "claude" THEN Fresh(r, Tries(r))
                                                             ELSE jobs[r].resumed

\* The user message of a log holds the marker of the prompt that opened it.
Marker(r) ==
  IF jobs[r].kind = "consult" THEN Question ELSE chains[r].built[Tries(r)].nonce

Writes(r) ==
  /\ chains[r].step = "running"
  /\ ~chains[r].wrote
  /\ chains' = [chains EXCEPT ![r].wrote = TRUE]
  /\ LET s == SessionOf(r)
         log == IF OnDisk(s) = {} THEN Log(s, Marker(r)) ELSE CHOOSE l \in Logs : l.session = s
     IN  /\ disk' = Touch(log)
         /\ queues' = IF jobs[r].backend \in {"opencode", "agy"}
                      THEN [queues EXCEPT ![r] = Append(@, SessionEvent(s))] ELSE queues
  /\ UNCHANGED <<jobs, rows, watches, reader>>

-----------------------------------------------------------------------------
(***************************************************************************)
(* The consumer: events first, then the watch.                             *)
(***************************************************************************)
SetSession(r, session) == rows' = [rows EXCEPT ![r].session = session]

\* The place in the builder's list of the attempt that reports.
InFlight(r) == watches[r].finished + 1

OnStarted(r) ==
  /\ LET a == chains[r].built[InFlight(r)]
     IN  /\ IF a.pin # Nobody THEN SetSession(r, a.pin) ELSE UNCHANGED rows
         /\ watches' = IF jobs[r].backend = "codex"
                       THEN [watches EXCEPT ![r] = [finished |-> @.finished, on |-> TRUE,
                                                    nonce |-> a.nonce, snapshot |-> a.snapshot]]
                       ELSE watches

OnFinished(r) ==
  /\ watches' = [watches EXCEPT ![r] = [finished |-> @.finished + 1, on |-> FALSE]]
  /\ UNCHANGED rows

OnEvent(r) ==
  /\ rows[r].active
  /\ queues[r] # <<>>
  /\ LET event == Head(queues[r])
     IN  CASE event.kind = "started" -> OnStarted(r)
           [] event.kind = "finished" -> OnFinished(r)
           [] event.kind = "session" -> SetSession(r, event.session) /\ UNCHANGED watches
  /\ queues' = [queues EXCEPT ![r] = Tail(@)]
  /\ UNCHANGED <<jobs, chains, disk, reader>>

\* locate_rollout: the sessions found, at most one.
Locate(r) ==
  CASE jobs[r].kind = "consult" -> Newest(Marked(Question)) \ watches[r].snapshot
    [] jobs[r].resumed # Nobody -> OnDisk(jobs[r].resumed)
    [] OTHER -> Newest(Marked(watches[r].nonce))

Watch(r) ==
  /\ watches[r].on
  /\ queues[r] = <<>>
  /\ ~Stopped(r)
  /\ \/ \E s \in Locate(r) : SetSession(r, s)
     \/ UNCHANGED rows   \* the process is gone, or the time is over
  /\ watches' = [watches EXCEPT ![r] = [finished |-> @.finished, on |-> FALSE]]
  /\ UNCHANGED <<jobs, chains, queues, disk, reader>>

\* The window passed: a fresh codex submit with nothing to show is killed.
WatchFires(r) ==
  /\ watches[r].on
  /\ queues[r] = <<>>
  /\ ~Stopped(r)
  /\ Locate(r) = {}
  /\ jobs[r].kind = "execute" /\ ~jobs[r].restart /\ jobs[r].resumed = Nobody
  /\ watches' = [watches EXCEPT ![r] = [finished |-> @.finished, on |-> FALSE]]
  /\ chains' = [chains EXCEPT ![r].verdict = TRUE]
  /\ UNCHANGED <<jobs, rows, queues, disk, reader>>

Over(r) == rows[r].active /\ chains[r].step = "over" /\ queues[r] = <<>>

Finish(r) ==
  /\ Over(r)
  /\ rows' = [rows EXCEPT ![r].active = FALSE]
  /\ UNCHANGED <<jobs, chains, queues, watches, disk, reader>>

\* The successor's nonce extends the job's.
Restart(r) ==
  /\ Over(r)
  /\ chains[r].verdict /\ ~chains[r].token
  /\ Add([Job("execute", "codex", jobs[r].nonce \o <<"restart">>) EXCEPT !.restart = TRUE],
         Nobody, [rows EXCEPT ![r].active = FALSE])
  /\ UNCHANGED <<disk, reader>>

Cancel(r) ==
  /\ rows[r].active
  /\ chains' = [chains EXCEPT ![r].token = TRUE]
  /\ UNCHANGED <<jobs, rows, queues, watches, disk, reader>>

-----------------------------------------------------------------------------
(***************************************************************************)
(* Reading a row and resolving its session, which is set on the row again  *)
(* when it has to be located.  `row' was read earlier.                     *)
(***************************************************************************)
Ours(r, row) ==
  /\ row.session # Nobody
  /\ OnDisk(row.session) # {}
  /\ jobs[r].backend \in {"codex", "opencode"} /\ row.nonce # Nobody
       => \E l \in Marked(row.nonce) : l.session = row.session

LocateValidated(r, row) ==
  IF jobs[r].backend \in {"codex", "opencode"} /\ row.nonce # Nobody
  THEN IF jobs[r].backend = "codex" THEN Newest(Marked(row.nonce)) ELSE {}
  ELSE IF row.session = Nobody THEN {} ELSE OnDisk(row.session)

\* An agy conversation is known by its name before its log exists.
Resolved(r, row) ==
  IF Ours(r, row) \/ (jobs[r].backend = "agy" /\ row.session # Nobody)
  THEN {row.session} ELSE LocateValidated(r, row)

Healed(r, row) ==
  IF Ours(r, row) \/ LocateValidated(r, row) = {} THEN rows
  ELSE [rows EXCEPT ![r].session = CHOOSE s \in LocateValidated(r, row) : TRUE]

CallReads(r) ==
  /\ reader.pc = "idle"
  /\ jobs[r].kind = "execute"
  /\ reader' = [pc |-> "read", of |-> r, row |-> rows[r]]
  /\ UNCHANGED <<jobs, rows, chains, queues, watches, disk>>

LogsResolve ==
  /\ reader.pc = "read"
  /\ rows' = Healed(reader.of, reader.row)
  /\ reader' = Idle
  /\ UNCHANGED <<jobs, chains, queues, watches, disk>>

\* Without a session the steer is refused; an active run is cancelled.
SteerResolve ==
  /\ reader.pc = "read"
  /\ rows' = Healed(reader.of, reader.row)
  /\ \E s \in Resolved(reader.of, reader.row) :
       reader' = [pc |-> "waiting", of |-> reader.of, row |-> reader.row, session |-> s]
  /\ chains' = [chains EXCEPT ![reader.of].token = @ \/ reader.row.active]
  /\ UNCHANGED <<jobs, queues, watches, disk>>

SteerGivesUp ==
  /\ reader.pc = "waiting"
  /\ rows[reader.of].active
  /\ reader' = Idle
  /\ UNCHANGED <<jobs, rows, chains, queues, watches, disk>>

\* The child names its session at once when the parent's log is there.
SteerInsert ==
  /\ reader.pc = "waiting"
  /\ ~rows[reader.of].active
  /\ LET logged == Ours(reader.of, reader.row) \/ LocateValidated(reader.of, reader.row) # {}
     IN  Add([Job("execute", jobs[reader.of].backend, Nobody)
                EXCEPT !.resumed = reader.session, !.parent = reader.of],
             IF logged THEN reader.session ELSE Nobody,
             Healed(reader.of, reader.row))
  /\ reader' = Idle
  /\ UNCHANGED disk

AssociationNext ==
  \/ \E kind \in Kinds, b \in Backends : Submit(kind, b)
  \/ \E r \in Rows :
       \/ Begin(r) \/ Retry(r) \/ ChainEnds(r) \/ Writes(r)
       \/ OnEvent(r) \/ Watch(r) \/ WatchFires(r) \/ Finish(r) \/ Restart(r) \/ Cancel(r)
       \/ CallReads(r)
  \/ LogsResolve \/ SteerResolve \/ SteerInsert \/ SteerGivesUp

AssociationSpec == AssociationInit /\ [][AssociationNext]_agentVars

-----------------------------------------------------------------------------
(***************************************************************************)
(* main.rs (resolve_session_id): "a steer can never resume a poisoned /    *)
(* unrelated session".  What a row of an execution names, and a steered    *)
(* run resumes, was opened by an attempt of that row or is what it         *)
(* resumed itself.                                                         *)
(***************************************************************************)
OwnSessions(r) ==
  { Fresh(r, i) : i \in 1 .. Tries(r) } \cup ({jobs[r].resumed} \ {Nobody})

SessionIsOwn ==
  \A r \in Rows : jobs[r].kind = "execute" =>
    /\ rows[r].session # Nobody => rows[r].session \in OwnSessions(r)
    /\ jobs[r].parent # Nobody => jobs[r].resumed \in OwnSessions(jobs[r].parent)

(***************************************************************************)
(* executor.rs (Attempt): an attempt "can never lend its identity to an    *)
(* earlier one", and (AttemptBuilder) a retry's association "can never     *)
(* match an earlier attempt's": what the row of a run that ended names and *)
(* is found to be its own is the session of its last attempt.  agy's       *)
(* conversation is reported by a task of its own and may come late.        *)
(***************************************************************************)
EndedFresh ==
  { r \in Rows : ~rows[r].active /\ jobs[r].kind = "execute" /\ jobs[r].resumed = Nobody }

EndedRowNamesLast ==
  \A r \in EndedFresh :
    jobs[r].backend # "agy" /\ Ours(r, rows[r]) => rows[r].session = Fresh(r, Tries(r))
=============================================================================

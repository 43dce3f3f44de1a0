------------------------------ MODULE Dispatch ------------------------------
(***************************************************************************)
(* The dispatch servers of one project: several server processes, one       *)
(* SQLite store, one registry of cancellation tokens per server, and one    *)
(* detached task per run.  A step is one critical section of the code: a    *)
(* store transaction or statement, a registry access, or one turn of the    *)
(* drive loop.  Everything else interleaves.                                *)
(*                                                                          *)
(* A server is one process lifetime.  A restarted server is another member  *)
(* of Servers, as the code tells processes apart by pid and start time.     *)
(***************************************************************************)
EXTENDS RunBoard, FiniteSets

CONSTANTS
    Servers,    \* server process lifetimes
    NoServer,   \* the owner of an id without a row
    Calls,      \* bound: the tool calls clients make
    AutoRestart,\* DISPATCH_RESTART_UNASSOCIATED_SECS is not 0
    Fallback,   \* whether calls name fallback models
    ClockMoves, \* whether the wall clock may be corrected while a server runs
    StoreFails  \* whether a statement on the store may fail

ASSUME NoServerAssumption == NoServer \notin Servers
ASSUME CallsAssumption == Calls \subseteq {"submit", "consult", "cancel", "steer"}
ASSUME SwitchesAssumption == {AutoRestart, Fallback, ClockMoves, StoreFails} \subseteq BOOLEAN

VARIABLES
    origin,     \* per row: owner_pid, how it was made, parent_id or restart_of
    srv,        \* per server: its process and main loop
    booting,    \* per server: rows boot reconciliation read and has to judge
    steer,      \* per server: the dispatch_steer call in flight
    registry,   \* per server: the runs with a registered cancellation token
    pc,         \* per run: where its executor task is
    event,      \* per run: the Started event of the attempt in flight
    proc,       \* per run: whether a backend process of the run is alive
    token,      \* per run: the task's cancellation token has fired
    verdict,    \* per run: the watchdog asked for a restart
    outcome     \* per run: the chain's outcome once it has one

store   == <<status, claim, origin>>
task    == <<pc, event, proc, token, verdict, outcome>>
vars    == <<status, claim, origin, srv, booting, steer, registry,
             pc, event, proc, token, verdict, outcome>>

NoRun    == 0
NoClaim  == [kind |-> "consult", dir |-> CHOOSE d \in Dirs : TRUE, concurrent |-> FALSE]
NoOrigin == [owner |-> NoServer, how |-> "submit", prior |-> NoRun]
NoSteer  == [pc |-> "idle", parent |-> NoRun]

Origin == [owner : Servers \cup {NoServer}, how : {"submit", "consult", "steer", "restart"},
           prior : Runs \cup {NoRun}]

ServerState == {"absent", "booting", "up", "stopping", "drained", "dead"}
Pc == {"none", "inserted", "starting", "spawning", "live", "over", "marking",
       "inserting", "ended", "done", "lost"}
Outcome == {"none", "succeeded", "failed", "cancelled"}
Steer == {NoSteer} \cup [pc : {"poll", "insert"}, parent : Runs]

TypeOK ==
    /\ BoardTypeOK
    /\ origin \in [Runs -> Origin]
    /\ srv \in [Servers -> ServerState]
    /\ booting \in [Servers -> SUBSET Runs]
    /\ steer \in [Servers -> Steer]
    /\ registry \in [Servers -> SUBSET Runs]
    /\ pc \in [Runs -> Pc]
    /\ event \in [Runs -> {"none", "queued", "seen"}]
    /\ proc \in [Runs -> BOOLEAN]
    /\ token \in [Runs -> BOOLEAN]
    /\ verdict \in [Runs -> BOOLEAN]
    /\ outcome \in [Runs -> Outcome]

Init ==
    /\ status = [i \in Runs |-> "none"]
    /\ claim = [i \in Runs |-> NoClaim]
    /\ origin = [i \in Runs |-> NoOrigin]
    /\ srv = [s \in Servers |-> "absent"]
    /\ booting = [s \in Servers |-> {}]
    /\ steer = [s \in Servers |-> NoSteer]
    /\ registry = [s \in Servers |-> {}]
    /\ pc = [i \in Runs |-> "none"]
    /\ event = [i \in Runs |-> "none"]
    /\ proc = [i \in Runs |-> FALSE]
    /\ token = [i \in Runs |-> FALSE]
    /\ verdict = [i \in Runs |-> FALSE]
    /\ outcome = [i \in Runs |-> "none"]

-----------------------------------------------------------------------------
(* Processes.  Handlers and tasks run while the runtime does: also during   *)
(* the graceful shutdown, which only waits.                                 *)

Serving(s) == s \in Servers /\ srv[s] \in {"up", "stopping"}
Exists(s)  == s \in Servers /\ srv[s] \in {"booting", "up", "stopping"}
Drained(s) == s \in Servers /\ srv[s] = "drained"
Owner(i)   == origin[i].owner
Tasks(i)   == Serving(Owner(i))     \* the task of run i can be scheduled

\* What alive_since may answer for the owner of a row: the truth, or, when the
\* wall clock was moved forward after the row was written, "started later than
\* the row" for the very process that wrote it.
ReadsGone_NotServing(s) == s \in Servers /\ srv[s] # "up"    \* slip: judges a stopping server
ReadsGone(s) == ~Exists(s) \/ ClockMoves

-----------------------------------------------------------------------------
(* The store's writes.                                                      *)

\* insert_queued, its `enforce_unique_dir' given when `enforce' is.
InsertQueued(i, c, o, enforce) ==
    /\ NextId(i)
    /\ enforce => \A j \in Runs : ~Occupies(j, c.dir)
    /\ status' = [status EXCEPT ![i] = "queued"]
    /\ claim' = [claim EXCEPT ![i] = c]
    /\ origin' = [origin EXCEPT ![i] = o]

\* slip: forgets the queued rows
MarkInterrupted_Running(i) ==
    status' = IF status[i] = "running" THEN [status EXCEPT ![i] = "interrupted"] ELSE status

\* UPDATE ... WHERE id = ? AND status IN ('queued', 'running')
MarkInterrupted(i) ==
    status' = IF Active(i) THEN [status EXCEPT ![i] = "interrupted"] ELSE status

-----------------------------------------------------------------------------
(* Boot: reconcile reads the active rows once, then judges and marks each.  *)

Boot(s) ==
    /\ srv[s] = "absent"
    /\ srv' = [srv EXCEPT ![s] = "booting"]
    /\ booting' = [booting EXCEPT ![s] = {i \in Runs : Active(i)}]
    /\ UNCHANGED <<store, steer, registry, task>>

BootJudge(s, i) ==
    /\ srv[s] = "booting"
    /\ i \in booting[s]
    /\ booting' = [booting EXCEPT ![s] = @ \ {i}]
    /\ \/ ReadsGone(Owner(i)) /\ MarkInterrupted(i)
       \/ (Exists(Owner(i)) \/ StoreFails) /\ UNCHANGED status
    /\ UNCHANGED <<claim, origin, srv, steer, registry, task>>

Serve(s) ==
    /\ srv[s] = "booting"
    /\ booting[s] = {}
    /\ srv' = [srv EXCEPT ![s] = "up"]
    /\ UNCHANGED <<store, booting, steer, registry, task>>

\* dispatch_status of any server and the wait subcommand: an active row whose
\* owner reads as gone is marked interrupted.
ReadReconcile(i) ==
    /\ Active(i)
    /\ ReadsGone(Owner(i))
    /\ MarkInterrupted(i)
    /\ UNCHANGED <<claim, origin, srv, booting, steer, registry, task>>

-----------------------------------------------------------------------------
(* Tool calls.  A handler that was running when the signal arrived goes on  *)
(* during the shutdown.                                                     *)

Submit(s, i, d, concurrent) ==
    /\ Serving(s)
    /\ InsertQueued(i, [kind |-> "execute", dir |-> d, concurrent |-> concurrent],
                       [owner |-> s, how |-> "submit", prior |-> NoRun],
                    ~concurrent)
    /\ pc' = [pc EXCEPT ![i] = "inserted"]
    /\ UNCHANGED <<srv, booting, steer, registry, event, proc, token, verdict, outcome>>

\* A consultation runs in the server's directory and takes no slot.
Consult(s, i, d) ==
    /\ Serving(s)
    /\ InsertQueued(i, [kind |-> "consult", dir |-> d, concurrent |-> FALSE],
                       [owner |-> s, how |-> "consult", prior |-> NoRun],
                    FALSE)
    /\ pc' = [pc EXCEPT ![i] = "inserted"]
    /\ UNCHANGED <<srv, booting, steer, registry, event, proc, token, verdict, outcome>>

\* executor::spawn: after the insert, outside the store lock.  A successor is
\* spawned by its predecessor's task, once that has left the registry.
Spawn(i) ==
    /\ Tasks(i)
    /\ pc[i] = "inserted"
    /\ origin[i].how = "restart" => pc[origin[i].prior] = "done"
    /\ registry' = [registry EXCEPT ![Owner(i)] = @ \cup {i}]
    /\ pc' = [pc EXCEPT ![i] = "starting"]
    /\ UNCHANGED <<store, srv, booting, steer, event, proc, token, verdict, outcome>>

RequestCancel(s, i) ==
    token' = IF i \in registry[s] THEN [token EXCEPT ![i] = TRUE] ELSE token

\* dispatch_cancel, one id at a time for a plan.  It reads the row first and
\* stops if it has ended: the read may be as old as the row, and a run of this
\* registry was active when it was read then, so it does not bound the fire.
Cancel(s, i) ==
    /\ Serving(s)
    /\ i \in registry[s]
    /\ RequestCancel(s, i)
    /\ UNCHANGED <<store, srv, booting, steer, registry, pc, event, proc, verdict, outcome>>

Steerable(p) == status[p] # "none" /\ claim[p].kind = "execute"

\* dispatch_steer of a run it read (now, or before it ended) as active: the
\* token is fired and the row polled.
SteerCancel(s, p) ==
    /\ Serving(s)
    /\ steer[s].pc = "idle"
    /\ Steerable(p)
    /\ RequestCancel(s, p)
    /\ steer' = [steer EXCEPT ![s] = [pc |-> "poll", parent |-> p]]
    /\ UNCHANGED <<store, srv, booting, registry, pc, event, proc, verdict, outcome>>

\* dispatch_steer of a run that has ended.
SteerEnded(s, p) ==
    /\ Serving(s)
    /\ steer[s].pc = "idle"
    /\ Steerable(p) /\ Terminal(p)
    /\ steer' = [steer EXCEPT ![s] = [pc |-> "insert", parent |-> p]]
    /\ UNCHANGED <<store, srv, booting, registry, task>>

\* slip: the resume does not wait for the parent
SteerPoll_NoWait(s) ==
    /\ Serving(s)
    /\ steer[s].pc = "poll"
    /\ steer' = [steer EXCEPT ![s].pc = "insert"]
    /\ UNCHANGED <<store, srv, booting, registry, task>>

\* The parent ended, or the wait ran out.
SteerPoll(s) ==
    /\ Serving(s)
    /\ steer[s].pc = "poll"
    /\ steer' = [steer EXCEPT ![s] =
                   IF Active(steer[s].parent) THEN NoSteer
                   ELSE [pc |-> "insert", parent |-> steer[s].parent]]
    /\ UNCHANGED <<store, srv, booting, registry, task>>

\* The read of the parent's row fails, which counts as ended.
SteerPollFails(s) ==
    /\ StoreFails
    /\ Serving(s)
    /\ steer[s].pc = "poll"
    /\ steer' = [steer EXCEPT ![s] = [pc |-> "insert", parent |-> steer[s].parent]]
    /\ UNCHANGED <<store, srv, booting, registry, task>>

\* slip: a resume never checks the directory
SteerInsert_Unguarded(s, i, concurrent) ==
    LET p == steer[s].parent
    IN /\ Serving(s)
       /\ steer[s].pc = "insert"
       /\ InsertQueued(i, [kind |-> "execute", dir |-> claim[p].dir, concurrent |-> concurrent],
                          [owner |-> s, how |-> "steer", prior |-> p],
                       FALSE)
       /\ pc' = [pc EXCEPT ![i] = "inserted"]
       /\ steer' = [steer EXCEPT ![s] = NoSteer]
       /\ UNCHANGED <<srv, booting, registry, event, proc, token, verdict, outcome>>

\* The new run has its parent's directory; allow_concurrent is the call's, or
\* inherited.
SteerInsert(s, i, concurrent) ==
    LET p == steer[s].parent
    IN /\ Serving(s)
       /\ steer[s].pc = "insert"
       /\ InsertQueued(i, [kind |-> "execute", dir |-> claim[p].dir, concurrent |-> concurrent],
                          [owner |-> s, how |-> "steer", prior |-> p],
                       ~concurrent)
       /\ pc' = [pc EXCEPT ![i] = "inserted"]
       /\ steer' = [steer EXCEPT ![s] = NoSteer]
       /\ UNCHANGED <<srv, booting, registry, event, proc, token, verdict, outcome>>

\* dir_busy, or the insert failed.
SteerGivesUp(s) ==
    /\ Serving(s)
    /\ steer[s].pc = "insert"
    /\ steer' = [steer EXCEPT ![s] = NoSteer]
    /\ UNCHANGED <<store, srv, booting, registry, task>>

-----------------------------------------------------------------------------
(* The executor task of a run: the model chain and the drive loop that      *)
(* consumes its events.  One attempt after another goes through "starting"  *)
(* (before run_inner looks at the attempt token), "spawning" (past it) and  *)
(* "live"; "over" is a chain that returned its outcome.                     *)

Driving(i) == pc[i] \in {"starting", "spawning", "live", "over"}

\* attempt_ct is a child of the task's token.
AttemptCancelled(i) == token[i] \/ verdict[i]

AttemptPassesCheck(i) ==
    /\ Tasks(i)
    /\ pc[i] = "starting"
    /\ ~AttemptCancelled(i)
    /\ pc' = [pc EXCEPT ![i] = "spawning"]
    /\ UNCHANGED <<store, srv, booting, steer, registry, event, proc, token, verdict, outcome>>

CancelledBeforeStart(i) ==
    /\ Tasks(i)
    /\ pc[i] = "starting"
    /\ AttemptCancelled(i)
    /\ pc' = [pc EXCEPT ![i] = "over"]
    /\ outcome' = [outcome EXCEPT ![i] = "cancelled"]
    /\ UNCHANGED <<store, srv, booting, steer, registry, event, proc, token, verdict>>

\* The process exists and Started is in the channel.
AttemptSpawns(i) ==
    /\ Tasks(i)
    /\ pc[i] = "spawning"
    /\ pc' = [pc EXCEPT ![i] = "live"]
    /\ proc' = [proc EXCEPT ![i] = TRUE]
    /\ event' = [event EXCEPT ![i] = "queued"]
    /\ UNCHANGED <<store, srv, booting, steer, registry, token, verdict, outcome>>

\* The attempt ends by itself: the spawn failed or the process exited.  Its
\* record is the run's outcome, or, after a failure worth a retry, the next
\* model of the chain is tried.  An exit is taken before a cancellation that
\* comes at the same time.
AttemptEnds(i, o) ==
    /\ Tasks(i)
    /\ pc[i] \in {"spawning", "live"}
    /\ o = "succeeded" => pc[i] = "live"
    /\ pc' = [pc EXCEPT ![i] = "over"]
    /\ proc' = [proc EXCEPT ![i] = FALSE]
    /\ outcome' = [outcome EXCEPT ![i] = o]
    /\ UNCHANGED <<store, srv, booting, steer, registry, event, token, verdict>>

AttemptRetries(i) ==
    /\ Fallback
    /\ Tasks(i)
    /\ pc[i] \in {"spawning", "live"}
    /\ pc' = [pc EXCEPT ![i] = "starting"]
    /\ proc' = [proc EXCEPT ![i] = FALSE]
    /\ event' = [event EXCEPT ![i] = IF @ = "seen" THEN "none" ELSE @]
    /\ UNCHANGED <<store, srv, booting, steer, registry, token, verdict, outcome>>

\* slip: the outcome is reported before the process group is gone
BackendKilled_NotReaped(i) ==
    /\ Tasks(i)
    /\ pc[i] = "live"
    /\ AttemptCancelled(i)
    /\ pc' = [pc EXCEPT ![i] = "over"]
    /\ outcome' = [outcome EXCEPT ![i] = "cancelled"]
    /\ UNCHANGED <<store, srv, booting, steer, registry, event, proc, token, verdict>>

\* slip: an attempt is stopped by the watchdog alone
BackendKilled_Verdict(i) ==
    /\ Tasks(i)
    /\ pc[i] = "live"
    /\ verdict[i]
    /\ pc' = [pc EXCEPT ![i] = "over"]
    /\ proc' = [proc EXCEPT ![i] = FALSE]
    /\ outcome' = [outcome EXCEPT ![i] = "cancelled"]
    /\ UNCHANGED <<store, srv, booting, steer, registry, event, token, verdict>>

BackendKilled(i) ==
    /\ Tasks(i)
    /\ pc[i] = "live"
    /\ AttemptCancelled(i)
    /\ pc' = [pc EXCEPT ![i] = "over"]
    /\ proc' = [proc EXCEPT ![i] = FALSE]
    /\ outcome' = [outcome EXCEPT ![i] = "cancelled"]
    /\ UNCHANGED <<store, srv, booting, steer, registry, event, token, verdict>>

\* mark_running has no condition on the status.
ConsumeStarted(i) ==
    /\ Tasks(i)
    /\ Driving(i)
    /\ event[i] = "queued"
    /\ status' = [status EXCEPT ![i] = "running"]
    /\ event' = [event EXCEPT ![i] = "seen"]
    /\ UNCHANGED <<claim, origin, srv, booting, steer, registry, pc, proc, token, verdict, outcome>>

\* A write of the task that fails is a warning in the log: the row stays as it
\* was and the task goes on.
StartUnrecorded(i) ==
    /\ StoreFails
    /\ Tasks(i)
    /\ Driving(i)
    /\ event[i] = "queued"
    /\ event' = [event EXCEPT ![i] = "seen"]
    /\ UNCHANGED <<store, srv, booting, steer, registry, pc, proc, token, verdict, outcome>>

\* restart_window: a fresh execution, not a resume, not a restart, alone in
\* its directory.  Whether its backend is codex is left open.
Restartable(i) == AutoRestart /\ origin[i].how = "submit" /\ ~claim[i].concurrent

\* The association watchdog of a live attempt whose start was consumed.
WatchdogFires(i) ==
    /\ Tasks(i)
    /\ pc[i] = "live"
    /\ event[i] = "seen"
    /\ Restartable(i)
    /\ ~AttemptCancelled(i)
    /\ verdict' = [verdict EXCEPT ![i] = TRUE]
    /\ UNCHANGED <<store, srv, booting, steer, registry, pc, event, proc, token, outcome>>

\* After the loop: the chain is done and the channel is empty.
Settled(i) == Tasks(i) /\ pc[i] = "over" /\ event[i] # "queued"

RestartApplies(i) == verdict[i] /\ outcome[i] = "cancelled" /\ ~token[i]

\* finish has no condition on the status either.
Finish(i) ==
    /\ Settled(i)
    /\ ~RestartApplies(i)
    /\ status' = [status EXCEPT ![i] = outcome[i]]
    /\ pc' = [pc EXCEPT ![i] = "ended"]
    /\ UNCHANGED <<claim, origin, srv, booting, steer, registry, event, proc, token, verdict, outcome>>

EndUnrecorded(i) ==
    /\ StoreFails
    /\ \/ Settled(i) /\ ~RestartApplies(i)
       \/ Tasks(i) /\ pc[i] = "marking"
    /\ pc' = [pc EXCEPT ![i] = "ended"]
    /\ UNCHANGED <<store, srv, booting, steer, registry, event, proc, token, verdict, outcome>>

DecideRestart(i) ==
    /\ Settled(i)
    /\ RestartApplies(i)
    /\ pc' = [pc EXCEPT ![i] = "marking"]
    /\ UNCHANGED <<store, srv, booting, steer, registry, event, proc, token, verdict, outcome>>

\* restart: the row is marked, then read, then the successor is inserted, each
\* under its own lock of the connection.
RestartMark(i) ==
    /\ Tasks(i)
    /\ pc[i] = "marking"
    /\ MarkInterrupted(i)
    /\ pc' = [pc EXCEPT ![i] = IF Active(i) THEN "inserting" ELSE "ended"]
    /\ UNCHANGED <<claim, origin, srv, booting, steer, registry, event, proc, token, verdict, outcome>>

RestartInsert(i, j) ==
    /\ Tasks(i)
    /\ pc[i] = "inserting"
    /\ InsertQueued(j, claim[i], [owner |-> Owner(i), how |-> "restart", prior |-> i], TRUE)
    /\ pc' = [pc EXCEPT ![i] = "ended", ![j] = "inserted"]
    /\ UNCHANGED <<srv, booting, steer, registry, event, proc, token, verdict, outcome>>

\* The directory was taken first, or the insert failed.
RestartGivesUp(i) ==
    /\ Tasks(i)
    /\ pc[i] = "inserting"
    /\ pc' = [pc EXCEPT ![i] = "ended"]
    /\ UNCHANGED <<store, srv, booting, steer, registry, event, proc, token, verdict, outcome>>

Deregister(i) ==
    /\ Tasks(i)
    /\ pc[i] = "ended"
    /\ registry' = [registry EXCEPT ![Owner(i)] = @ \ {i}]
    /\ pc' = [pc EXCEPT ![i] = "done"]
    /\ event' = [event EXCEPT ![i] = "none"]
    /\ outcome' = [outcome EXCEPT ![i] = "none"]
    /\ UNCHANGED <<store, srv, booting, steer, proc, token, verdict>>

-----------------------------------------------------------------------------
(* The end of a server process.                                             *)

\* graceful_shutdown: one snapshot of the registry, every token of it fired.
Signal(s) ==
    /\ srv[s] = "up"
    /\ srv' = [srv EXCEPT ![s] = "stopping"]
    /\ token' = [i \in Runs |-> token[i] \/ i \in registry[s]]
    /\ UNCHANGED <<store, booting, steer, registry, pc, event, proc, verdict, outcome>>

\* Memory goes and with it the tasks; what they had written stays and their
\* processes live on.  A task that was never spawned is told from one that was.
Exit(s, how) ==
    LET Lost(i) == Owner(i) = s /\ pc[i] # "inserted"
    IN /\ srv' = [srv EXCEPT ![s] = how]
       /\ booting' = [booting EXCEPT ![s] = {}]
       /\ steer' = [steer EXCEPT ![s] = NoSteer]
       /\ registry' = [registry EXCEPT ![s] = {}]
       /\ pc' = [i \in Runs |-> IF Lost(i) THEN "lost" ELSE pc[i]]
       /\ event' = [i \in Runs |-> IF Lost(i) THEN "none" ELSE event[i]]
       /\ verdict' = [i \in Runs |-> verdict[i] /\ ~Lost(i)]
       /\ outcome' = [i \in Runs |-> IF Lost(i) THEN "none" ELSE outcome[i]]
       /\ UNCHANGED <<store, proc, token>>

ShutdownDrained(s) ==
    /\ srv[s] = "stopping"
    /\ registry[s] = {}
    /\ Exit(s, "drained")

\* The two seconds are over, the client closed stdin, or the process died.
ServerGone(s) ==
    /\ Exists(s)
    /\ Exit(s, "dead")

\* External (the guard process, or the Job Object on Windows): the backend of a
\* server that is gone is killed.
GuardKills(i) ==
    /\ proc[i]
    /\ ~Exists(Owner(i))
    /\ proc' = [proc EXCEPT ![i] = FALSE]
    /\ UNCHANGED <<store, srv, booting, steer, registry, pc, event, token, verdict, outcome>>

-----------------------------------------------------------------------------
\* What the server's own code does for a run without waiting for anybody.
TaskProceeds(i) ==
    \/ Spawn(i)
    \/ AttemptPassesCheck(i)
    \/ CancelledBeforeStart(i)
    \/ AttemptSpawns(i)
    \/ BackendKilled(i)
    \/ ConsumeStarted(i)
    \/ Finish(i)
    \/ DecideRestart(i)
    \/ RestartMark(i)
    \/ \E j \in Runs : RestartInsert(i, j)
    \/ RestartGivesUp(i)
    \/ Deregister(i)

TaskStep(i) ==
    \/ TaskProceeds(i)
    \/ \E o \in {"succeeded", "failed"} : AttemptEnds(i, o)
    \/ AttemptRetries(i)
    \/ WatchdogFires(i)
    \/ StartUnrecorded(i)
    \/ EndUnrecorded(i)

ServerProceeds(s) ==
    \/ \E i \in Runs : BootJudge(s, i)
    \/ Serve(s)
    \/ SteerPoll(s)
    \/ SteerPollFails(s)
    \/ \E i \in Runs, b \in BOOLEAN : SteerInsert(s, i, b)
    \/ SteerGivesUp(s)

CallStep(s) ==
    \/ "submit" \in Calls /\ \E i \in Runs, d \in Dirs, b \in BOOLEAN : Submit(s, i, d, b)
    \/ "consult" \in Calls /\ \E i \in Runs, d \in Dirs : Consult(s, i, d)
    \/ "cancel" \in Calls /\ \E i \in Runs : Cancel(s, i)
    \/ "steer" \in Calls /\ \E p \in Runs : SteerCancel(s, p) \/ SteerEnded(s, p)

ProcessStep(s) ==
    \/ Boot(s)
    \/ Signal(s)
    \/ ShutdownDrained(s)
    \/ ServerGone(s)

Next ==
    \/ \E s \in Servers : ServerProceeds(s) \/ CallStep(s) \/ ProcessStep(s)
    \/ \E i \in Runs : TaskStep(i) \/ ReadReconcile(i) \/ GuardKills(i)

Spec == Init /\ [][Next]_vars

\* The runtime schedules ready tasks and handlers.  Nothing is assumed of the
\* clients, of the backends, of a server's end or of the guard.
Fairness ==
    /\ \A s \in Servers : WF_vars(ServerProceeds(s))
    /\ \A i \in Runs : WF_vars(TaskProceeds(i))

LiveSpec == Spec /\ Fairness

-----------------------------------------------------------------------------
(* Safety.                                                                  *)

(* What the working-directory guard is for: two backends write in one       *)
(* directory only if the later run asked for it, or if the earlier one is a *)
(* process its server left behind (store.rs active_for_dir; executor.rs     *)
(* writes a row's end only after its process ended).                        *)
OneWriterPerDir ==
    \A i, j \in Runs :
        /\ i < j /\ proc[i] /\ proc[j]
        /\ claim[i].kind = "execute" /\ claim[j].kind = "execute"
        /\ claim[i].dir = claim[j].dir
        => claim[j].concurrent \/ ~Exists(Owner(i))

(* A steered run resumes its parent's backend session only after the process*)
(* that held it is gone, unless a server left that process behind           *)
(* (main.rs dispatch_steer waits for the parent's row to end).              *)
SessionHandedOver ==
    \A j \in Runs :
        origin[j].how = "steer" /\ proc[j] /\ proc[origin[j].prior]
            => ~Exists(Owner(origin[j].prior))

Working == {"inserted", "starting", "spawning", "live", "over", "marking"}

(* A row is active exactly as long as somebody can still end it: under a    *)
(* server that runs, an active row has a task on its way to the terminal    *)
(* write, and a task on its way there finds its row active, so that it      *)
(* never overwrites an end (finish and mark_running have no condition).     *)
ActiveRowHasTask ==
    \A i \in Runs : Exists(Owner(i)) =>
        (Active(i) <=> pc[i] \in Working)

(* dispatch_cancel and the shutdown reach every run of their server whose   *)
(* task was spawned: its token is in the registry until the row has ended.  *)
CancelReaches ==
    \A i \in Runs :
        Active(i) /\ Exists(Owner(i)) /\ pc[i] # "inserted" => i \in registry[Owner(i)]

(* A run is restarted at most once, never from a restart, a resume or a     *)
(* concurrent run, and only after its process is gone and its row says      *)
(* interrupted; the successor takes over owner and directory                *)
(* (executor.rs restart_window, restart; `restarted_as' names one run).     *)
RestartSingleShot ==
    \A j \in Runs : origin[j].how = "restart" =>
        LET i == origin[j].prior
        IN /\ i < j /\ origin[i].how = "submit" /\ ~claim[i].concurrent
           /\ status[i] = "interrupted" /\ ~proc[i]
           /\ Owner(j) = Owner(i)
           /\ claim[j] = claim[i]
           /\ \A k \in Runs : origin[k].how = "restart" /\ origin[k].prior = i => k = j

(* No run ends cancelled that nobody cancelled, and none is interrupted     *)
(* unless its server is gone or its own watchdog asked for a restart.       *)
EndsForAReason ==
    \A i \in Runs :
        /\ status[i] = "cancelled" => token[i]
        /\ status[i] = "interrupted" => ~Exists(Owner(i)) \/ (verdict[i] /\ pc[i] \in {"inserting", "ended", "done"})

(* A shutdown that drained its registry leaves no row of its server active  *)
(* but those whose task it had not registered yet (graceful_shutdown).      *)
DrainedRunsEnded ==
    \A i \in Runs : Drained(Owner(i)) /\ Active(i) => pc[i] = "inserted"

-----------------------------------------------------------------------------
(* What steps may do.                                                       *)

(* What readers are promised: the store behaves as `RunBoard' says; so the   *)
(* directory guard holds and rows that ended stay as they are.              *)
ImplementsBoard == BoardSpec

(* The comment at executor.rs 519: "a user cancel (the task token) wins     *)
(* over the watchdog whenever it came": no successor for a cancelled run.   *)
CancelWins ==
    [][\A i, j \in Runs : RestartInsert(i, j) => ~token[i]]_vars

-----------------------------------------------------------------------------
(* Liveness, under Fairness.                                                *)

(* A run whose token fired ends, or its server does (dispatch_cancel: "it   *)
(* will transition to cancelled shortly").                                  *)
CancelledRunEnds ==
    \A i \in Runs : token[i] ~> ~Active(i) \/ ~Exists(Owner(i))

(* A server that boots settles what an earlier one left: a stranded row it  *)
(* read does not stay active unless the booting server itself dies.         *)
BootSettles ==
    \A s \in Servers, i \in Runs :
        i \in booting[s] /\ ~Exists(Owner(i)) ~> ~Active(i) \/ ~Exists(s)

=============================================================================

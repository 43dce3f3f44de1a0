------------------------------ MODULE Attempt ------------------------------
(***************************************************************************)
(* One attempt of a backend, from its spawn to its outcome, with the       *)
(* processes it consists of: the server that runs it, agent-guard between  *)
(* the two on Linux and macOS, the backend's program, and a helper process *)
(* the program starts.  Everybody interleaves, the server may be killed or *)
(* end, and the kernel tells the guard what it asked to be told            *)
(* (src/shared/crates/agent-exec/src: run.rs, guard.rs, guard/winjob.rs,   *)
(* bin/agent-guard).                                                       *)
(***************************************************************************)
EXTENDS Naturals, FiniteSets

CONSTANTS
    Platforms,  \* among "linux", "macos", "windows"
    Modes,      \* GuardMode: among "Required", "Preferred", "Off"
    Ends,       \* whether the server may end by itself, not only be killed
    Escapes     \* whether a helper may leave its process group

ASSUME AttemptAssumption ==
    /\ Platforms \subseteq {"linux", "macos", "windows"}
    /\ Modes \subseteq {"Required", "Preferred", "Off"}
    /\ {Ends, Escapes} \subseteq BOOLEAN

VARIABLES
    host,       \* the platform, the mode, whether agent-guard is installed
    server,     \* "up" or "gone"
    call,       \* where the server's call of run is
    outcome,
    token,      \* the attempt was cancelled
    guard,      \* where the guard process is
    events,     \* what the guard was told and did not read yet
    armed,      \* the guard will be told of the server's death
    program,    \* the backend's process
    helper,     \* its child: "holding" the output pipe, "quiet", or "left" the group
    job,        \* Windows: the Job Object, "plain" or killing on "close"
    reused,     \* the attempt's process id belongs to another process
    strangers   \* a kill meant for the attempt hit that process, no helper having left

processes == <<guard, events, armed, program, helper, job>>
attemptVars == <<host, server, call, outcome, token, processes, reused, strangers>>

Unix == host.platform # "windows"
Wrapped == Unix /\ host.mode # "Off" /\ host.located
GuardRuns == guard \notin {"none", "exited", "gone"}
InTree == {"holding", "quiet"}

\* The process the server waits for, and what keeps its process id taken.
ChildExited == IF Wrapped THEN guard = "exited" ELSE program = "exited"
Reap == IF Wrapped THEN guard' = "gone" /\ UNCHANGED program
                   ELSE program' = "gone" /\ UNCHANGED guard
GroupExists ==
  \/ helper \in InTree
  \/ program = "running" \/ (program = "exited" /\ ~Wrapped)
  \/ GuardRuns \/ guard = "exited"

PipeHeld == GuardRuns \/ program = "running" \/ helper \in {"holding", "left"}

AttemptInit ==
  /\ host \in [platform : Platforms, mode : Modes, located : BOOLEAN]
  /\ server = "up" /\ call = "idle" /\ outcome = "none" /\ token = FALSE
  /\ guard = "none" /\ events = {} /\ armed = FALSE
  /\ program = "none" /\ helper = "none" /\ job = "none"
  /\ reused = FALSE /\ strangers = FALSE

-----------------------------------------------------------------------------
(***************************************************************************)
(* spawn_contained.  On Windows the process is suspended until its job     *)
(* holds it.                                                               *)
(***************************************************************************)
Return(what) == call' = "done" /\ outcome' = what

Refuse ==
  /\ call = "idle"
  /\ \/ token /\ Return("cancelled")
     \/ ~token /\ Return("failed")   \* no guard, or the spawn fails
  /\ UNCHANGED <<host, server, token, processes, reused, strangers>>

SpawnContained ==
  /\ call = "idle"
  /\ ~token
  /\ Unix /\ host.mode = "Required" => host.located
  /\ call' = IF Unix THEN "waiting" ELSE "attaching"
  /\ guard' = IF Wrapped THEN "arming" ELSE "none"
  /\ program' = IF Wrapped THEN "none" ELSE IF Unix THEN "running" ELSE "suspended"
  /\ UNCHANGED <<host, server, outcome, token, events, armed, helper, job, reused, strangers>>

\* ProcessTree::kill: the group on Unix, the job (else the child) on Windows.
KillTree ==
  LET all == Unix \/ job # "none"
  IN  /\ guard' = IF GuardRuns \/ guard = "exited" THEN "gone" ELSE guard
      /\ program' = IF program = "none" THEN "none" ELSE "gone"
      /\ helper' = IF all /\ helper \in InTree THEN "gone" ELSE helper
      /\ strangers' = (strangers \/ (Unix /\ ~GroupExists /\ reused /\ helper # "left"))
      /\ UNCHANGED <<events, armed, job, reused>>

Attach(holds) ==
  /\ call = "attaching"
  /\ job' = IF ~holds THEN "none" ELSE IF host.mode = "Off" THEN "plain" ELSE "close"
  /\ IF ~holds /\ host.mode = "Required"
     THEN program' = "gone" /\ Return("failed")
     ELSE call' = "resuming" /\ UNCHANGED <<program, outcome>>
  /\ UNCHANGED <<host, server, token, guard, events, armed, helper, reused, strangers>>

Resume(works) ==
  /\ call = "resuming"
  /\ IF works
     THEN /\ program' = "running" /\ call' = "waiting"
          /\ UNCHANGED <<outcome, guard, events, armed, helper, job, reused, strangers>>
     ELSE KillTree /\ Return("failed")
  /\ UNCHANGED <<host, server, token>>

-----------------------------------------------------------------------------
(***************************************************************************)
(* run_inner, once the process was spawned.                                *)
(***************************************************************************)
\* The exit wins over a cancellation that comes with it.
Exited ==
  /\ call = "waiting"
  /\ ChildExited
  /\ Reap
  /\ call' = "draining"
  /\ UNCHANGED <<host, server, outcome, token, events, armed, helper, job, reused, strangers>>

Cancelled ==
  /\ call = "waiting"
  /\ token
  /\ ~ChildExited
  /\ KillTree
  /\ Return("cancelled")
  /\ UNCHANGED <<host, server, token>>

\* The prompt cannot be written, or the wait fails.
Breaks ==
  /\ call = "waiting"
  /\ KillTree
  /\ Return("failed")
  /\ UNCHANGED <<host, server, token>>

\* The job is dropped: one that kills on close takes a quiet helper with it.
Drained ==
  /\ call = "draining"
  /\ ~PipeHeld
  /\ helper' = IF job = "close" /\ helper \in InTree THEN "gone" ELSE helper
  /\ job' = "none"
  /\ Return("record")
  /\ UNCHANGED <<host, server, token, guard, events, armed, program, reused, strangers>>

\* Mutant: the helper that holds the pipe is left alone.
CancelDrain_NoKill ==
  /\ call = "draining"
  /\ token
  /\ PipeHeld
  /\ Return("cancelled")
  /\ UNCHANGED <<host, server, token, processes, reused, strangers>>

\* Somebody still holds the output pipe after the grace.
CancelDrain ==
  /\ call = "draining"
  /\ token
  /\ PipeHeld
  /\ KillTree
  /\ Return("cancelled")
  /\ UNCHANGED <<host, server, token>>

RunStep ==
  /\ server = "up"
  /\ \/ Refuse \/ SpawnContained
     \/ \E works \in BOOLEAN : Attach(works) \/ Resume(works)
     \/ Exited \/ Cancelled \/ Breaks \/ Drained \/ CancelDrain

-----------------------------------------------------------------------------
(***************************************************************************)
(* The guard.                                                              *)
(***************************************************************************)
GuardGoes(to) == guard' = to /\ UNCHANGED <<events, armed, program, helper, job>>

KillGroup ==
  /\ guard' = "exited"
  /\ program' = "gone"
  /\ helper' = IF helper \in InTree THEN "gone" ELSE helper
  /\ UNCHANGED <<events, armed, job>>

\* arm_parent_watch: a server that is gone by then is never reported.
Arm ==
  /\ guard = "arming"
  /\ \/ armed' = (server = "up") /\ guard' = "checking"
     \/ armed' = FALSE /\ guard' = "exited"
  /\ UNCHANGED <<events, program, helper, job>>

\* Mutant: the server is not looked for once the watch is armed.
CheckParent_Skipped == guard = "checking" /\ GuardGoes("forking")

CheckParent ==
  /\ guard = "checking"
  /\ GuardGoes(IF server = "up" THEN "forking" ELSE "exited")

Fork ==
  /\ guard = "forking"
  /\ \/ /\ guard' = IF host.platform = "macos" THEN "registering" ELSE "watching"
        /\ program' = "running"
        /\ UNCHANGED <<events, armed, helper, job>>
     \/ GuardGoes("exited")

\* wait_for_either: on macOS the program's exit is asked for only now.
Register ==
  /\ guard = "registering"
  /\ IF program = "exited"
     THEN /\ guard' = "rechecking" /\ program' = "gone"
          /\ UNCHANGED <<events, armed, helper, job>>
     ELSE GuardGoes("watching")

Wake ==
  /\ guard = "watching"
  /\ \/ "parent" \in events /\ KillGroup
     \/ /\ "child" \in events
        /\ host.platform = "macos" => "parent" \notin events
        /\ guard' = "rechecking"
        /\ program' = "gone"
        /\ UNCHANGED <<events, armed, helper, job>>

WatchFails == guard = "watching" /\ KillGroup

\* The program exited: is the server still there to be told?
Recheck ==
  /\ guard = "rechecking"
  /\ IF server = "up" THEN GuardGoes("mirroring") ELSE KillGroup

Mirror == guard = "mirroring" /\ GuardGoes("exited")

serverVars == <<host, server, call, outcome, token, reused, strangers>>

GuardProceeds ==
  /\ Arm \/ CheckParent \/ Fork \/ Register \/ Wake \/ Recheck \/ Mirror
  /\ UNCHANGED serverVars

GuardStep == GuardProceeds \/ (WatchFails /\ UNCHANGED serverVars)

-----------------------------------------------------------------------------
(***************************************************************************)
(* The program, its helper, and who else there is.                         *)
(***************************************************************************)
StartHelper ==
  /\ program = "running"
  /\ helper = "none"
  /\ helper' \in InTree
  /\ UNCHANGED <<guard, events, armed, program, job>>

\* Linux queues SIGCHLD from the start; macOS reports what is registered.
ProgramExits ==
  /\ program = "running"
  /\ program' = IF Wrapped /\ ~GuardRuns THEN "gone" ELSE "exited"
  /\ events' = IF Wrapped /\ guard # "registering" THEN events \cup {"child"} ELSE events
  /\ UNCHANGED <<guard, armed, helper, job>>

HelperExits ==
  /\ helper \in InTree \cup {"left"}
  /\ helper' = "gone"
  /\ UNCHANGED <<guard, events, armed, program, job>>

HelperLeaves ==
  /\ Escapes /\ Unix
  /\ helper = "holding"
  /\ helper' = "left"
  /\ UNCHANGED <<guard, events, armed, program, job>>

WorldStep ==
  \/ /\ StartHelper \/ ProgramExits \/ HelperExits \/ HelperLeaves
     /\ UNCHANGED <<host, server, call, outcome, token, reused, strangers>>
  \/ /\ ~token /\ token' = TRUE
     /\ server = "up" /\ call # "done"
     /\ UNCHANGED <<host, server, call, outcome, processes, reused, strangers>>
  \/ /\ call = "draining" /\ ~GroupExists /\ ~reused
     /\ reused' = TRUE
     /\ UNCHANGED <<host, server, call, outcome, token, processes, strangers>>

\* The death of the server: the job closes, an armed guard is told.
ServerGone ==
  /\ server = "up"
  /\ server' = "gone"
  /\ events' = IF armed /\ GuardRuns THEN events \cup {"parent"} ELSE events
  /\ job' = "none"
  /\ UNCHANGED <<host, call, outcome, token, armed, reused, strangers>>

JobDies == job = "close"

ServerKilled ==
  /\ ServerGone
  /\ program' = IF JobDies /\ program \in {"suspended", "running"} THEN "gone" ELSE program
  /\ helper' = IF JobDies /\ helper \in InTree THEN "gone" ELSE helper
  /\ UNCHANGED guard

(***************************************************************************)
(* main returns when the client closed the connection: the runtime drops   *)
(* the call, and kill_on_drop kills the process the server spawned, the    *)
(* guard where there is one.                                               *)
(***************************************************************************)
ServerEnds ==
  /\ Ends
  /\ call \notin {"attaching", "resuming"}
  /\ ServerGone
  /\ LET dropped == call = "waiting"
     IN /\ guard' = IF dropped /\ Wrapped /\ GuardRuns THEN "gone" ELSE guard
        /\ program' = IF program = "running" /\ (JobDies \/ (dropped /\ ~Wrapped))
                      THEN "gone" ELSE program
        /\ helper' = IF JobDies /\ helper \in InTree THEN "gone" ELSE helper

AttemptNext == RunStep \/ GuardStep \/ WorldStep \/ ServerKilled \/ ServerEnds

AttemptFairness == WF_attemptVars(GuardProceeds)
AttemptSpec == AttemptInit /\ [][AttemptNext]_attemptVars /\ AttemptFairness

-----------------------------------------------------------------------------
(***************************************************************************)
(* docs/spec/agent-exec.rst:233-234: a guarded backend dies with the       *)
(* server that started it, together with everything it spawned.            *)
(***************************************************************************)
GuardedTreeDies ==
  (server = "gone" /\ Wrapped /\ program = "running")
    ~> (program # "running" /\ helper \notin InTree)

(***************************************************************************)
(* agent-exec.rst:386-391: a cancelled attempt leaves no process of its    *)
(* tree, however its exit, its helper and the cancellation met, unless     *)
(* Windows gave it no job.  And no process outside of it: guard.rs         *)
(* (ProcessTree::kill) says "so the group id cannot have been reused"; the *)
(* group is also killed after its leader was reaped, and yet the kill hits *)
(* another process only when a helper that left the group holds the output.*)
(***************************************************************************)
CancelledTreeIsGone ==
  outcome = "cancelled" =>
    /\ Unix \/ job # "none" => program # "running" /\ ~GuardRuns /\ helper \notin InTree
    /\ ~strangers
=============================================================================

------------------------------ MODULE Opencode ------------------------------
(***************************************************************************)
(* One attempt of opencode: a short-lived `opencode serve' that the run    *)
(* drives over HTTP, a task that copies the server's events into the log   *)
(* dispatch owns, and the cancellation of the attempt                      *)
(* (src/shared/mcp-servers/dispatch/src/opencode.rs).                      *)
(*                                                                         *)
(* A line of the log is its kind.  The newline of a line is written after  *)
(* the append returned, when the file is closed; lines are whole here.     *)
(***************************************************************************)
EXTENDS Naturals, Sequences, SequencesExt

CONSTANT MaxEvents   \* events of the server that make a line

ASSUME OpencodeAssumption == MaxEvents \in Nat

VARIABLES
    turn,       \* a fresh session, or one resumed whose log exists
    step,       \* where the run is
    ended,      \* how the turn ended: none, or an Outcome
    cancelled,  \* the attempt's token fired
    serve,      \* the server's process: none, "up", "gone"
    holder,     \* a process outside the server's tree holds its stderr
    stream,     \* where the task that reads the events is
    pending,    \* an event it read and appends now
    eventToken, \* the run asked that task to end
    lines,      \* the log
    copied,     \* events that made a line
    lost        \* the last line of the turn could not be written

opencodeVars == <<turn, step, ended, cancelled, serve, holder, stream, pending,
                  eventToken, lines, copied, lost>>
streamVars == <<stream, pending, copied>>

OpencodeInit ==
  /\ turn \in {"fresh", "resumed"}
  /\ step = "begin" /\ ended = "none" /\ cancelled = FALSE
  /\ serve = "none" /\ holder = FALSE
  /\ stream = "none" /\ pending = "none" /\ eventToken = FALSE
  /\ lines \in IF turn = "fresh" THEN {<<>>}
               ELSE {<<>>, <<"meta", "started", "user", "complete">>}
  /\ copied = 0 /\ lost = FALSE

-----------------------------------------------------------------------------
(***************************************************************************)
(* Ends of the run.  `stop' is stop_server, where the whole tree is killed *)
(* and the server reaped; `stderr' waits for the reader of its stderr.     *)
(***************************************************************************)
Goes(to) == step' = to
Out(outcome) == ended' = outcome

\* append_line: an append may fail, and who waited for it be dropped.
Appended(line) == {lines, Append(lines, line)}

StopServer ==
  /\ step \in {"stop", "stop and read"}
  /\ serve' = "gone"
  /\ Goes(IF step = "stop" THEN "over" ELSE "stderr")
  /\ UNCHANGED <<turn, ended, cancelled, holder, streamVars, eventToken, lines, lost>>

\* read_capped_opt reads until the last writer closed.
StderrRead ==
  /\ step = "stderr"
  /\ ~holder
  /\ Goes(IF ended \in {"replied", "refused"} THEN "closing" ELSE "over")
  /\ UNCHANGED <<turn, ended, cancelled, serve, holder, streamVars, eventToken, lines, lost>>

\* Mutant: the abort waits for the server's answer, which may never come.
AbortSession_Unbounded ==
  /\ step = "abort"
  /\ serve = "gone"
  /\ Goes("stop")
  /\ UNCHANGED <<turn, ended, cancelled, serve, holder, streamVars, eventToken, lines, lost>>

\* abort_bounded: answered or not, the wait ends.
AbortSession ==
  /\ step = "abort"
  /\ Goes("stop")
  /\ UNCHANGED <<turn, ended, cancelled, serve, holder, streamVars, eventToken, lines, lost>>

-----------------------------------------------------------------------------
(***************************************************************************)
(* Startup.  Every step after the spawn observes the token.                *)
(***************************************************************************)
Launch ==
  /\ step = "begin"
  /\ \/ /\ serve' = "up" /\ Goes("health") /\ UNCHANGED ended
     \/ /\ serve' = "up" /\ Goes("stop") /\ Out("wait failed")   \* no HTTP client
     \/ /\ Goes("over") /\ \E why \in {"not found", "spawn"} : Out(why)
        /\ UNCHANGED serve
  /\ UNCHANGED <<turn, cancelled, holder, streamVars, eventToken, lines, lost>>

AfterHealth == IF turn = "resumed" THEN "init" ELSE "create"

\* wait_health or create_session: what the server answered, if it does.
Startup(works) ==
  /\ step \in {"health", "create"}
  /\ ~cancelled
  /\ IF works THEN /\ Goes(IF step = "health" THEN AfterHealth ELSE "init")
                   /\ UNCHANGED ended
              ELSE Goes("stop and read") /\ Out("wait failed")
  /\ UNCHANGED <<turn, cancelled, serve, holder, streamVars, eventToken, lines, lost>>

StartupCancelled ==
  /\ step \in {"health", "create"}
  /\ cancelled
  /\ Goes("stop and read") /\ Out("cancelled")
  /\ UNCHANGED <<turn, cancelled, serve, holder, streamVars, eventToken, lines, lost>>

\* init_log appends what is missing of: meta, started, user.
Missing == IF lines = <<>> THEN "meta"
           ELSE IF Last(lines) = "started" THEN "user" ELSE "started"

InitLog ==
  /\ step = "init"
  /\ ~cancelled
  /\ lines' = Append(lines, Missing)
  /\ IF Missing = "user" THEN Goes("session") ELSE UNCHANGED step
  /\ UNCHANGED <<turn, ended, cancelled, serve, holder, streamVars, eventToken, lost>>

InitFails ==
  /\ step = "init"
  /\ ~cancelled
  /\ Goes("stop") /\ Out("wait failed")
  /\ UNCHANGED <<turn, cancelled, serve, holder, streamVars, eventToken, lines, lost>>

\* An append under way may still reach the file.
InitCancelled ==
  /\ step = "init"
  /\ cancelled
  /\ Goes("abort") /\ Out("cancelled")
  /\ lines' \in Appended(Missing)
  /\ UNCHANGED <<turn, cancelled, serve, holder, streamVars, eventToken, lost>>

-----------------------------------------------------------------------------
(***************************************************************************)
(* The message, beside the events.                                         *)
(***************************************************************************)
SendMessage ==
  /\ step = "session"
  /\ Goes("sending")
  /\ stream' = "asking"
  /\ UNCHANGED <<turn, ended, cancelled, serve, holder, pending, eventToken, lines, copied, lost>>

\* The answer, an error of the API, or a server that is gone.
Response ==
  /\ step = "sending"
  /\ ~cancelled
  /\ \/ serve = "up" /\ Out("replied")
     \/ Out("refused")
  /\ Goes("join")
  /\ eventToken' = TRUE
  /\ UNCHANGED <<turn, cancelled, serve, holder, streamVars, lines, lost>>

\* The task is told to stop where it next awaits, and not waited for.
CancelSend ==
  /\ step = "sending"
  /\ cancelled
  /\ Goes("abort") /\ Out("cancelled")
  /\ stream' = IF pending # "none" THEN "aborted" ELSE "gone"
  /\ UNCHANGED <<turn, cancelled, serve, holder, pending, eventToken, lines, copied, lost>>

\* Mutant: the task that appends the events is not waited for.
Joined_Skipped ==
  /\ step = "join"
  /\ Goes("stop and read")
  /\ UNCHANGED <<turn, ended, cancelled, serve, holder, streamVars, eventToken, lines, lost>>

Joined ==
  /\ step = "join"
  /\ stream = "gone"
  /\ Goes("stop and read")
  /\ UNCHANGED <<turn, ended, cancelled, serve, holder, streamVars, eventToken, lines, lost>>

\* The reply, shown before its completion unless its line cannot be written.
Reply == IF ended = "replied" THEN {<<>>, <<"message">>} ELSE {<<>>}

Close ==
  /\ step = "closing"
  /\ Goes("over")
  /\ \E reply \in Reply, completed \in {<<>>, <<"complete">>} :
       lines' = lines \o reply \o completed /\ lost' = (completed = <<>>)
  /\ \E success \in BOOLEAN :
       Out(IF ended = "replied" /\ success THEN "success" ELSE "failure")
  /\ UNCHANGED <<turn, cancelled, serve, holder, streamVars, eventToken>>

OpencodeStep ==
  \/ StopServer \/ StderrRead \/ AbortSession \/ Launch
  \/ StartupCancelled \/ InitLog \/ InitFails \/ InitCancelled
  \/ SendMessage \/ CancelSend \/ Joined \/ Close

\* What the run waits for and the server owes.
Answers == Response \/ \E works \in BOOLEAN : Startup(works)

-----------------------------------------------------------------------------
(***************************************************************************)
(* stream_events.  The request for the stream does not observe the token,  *)
(* the reads do, and an event that was read is appended whatever happens.  *)
(***************************************************************************)
StreamRest == UNCHANGED <<turn, step, ended, cancelled, serve, holder, eventToken, lost>>
StreamToken == cancelled \/ eventToken

StreamOpens ==
  /\ stream = "asking"
  /\ \/ serve = "up" /\ stream' = "reading"
     \/ stream' = "gone"
  /\ UNCHANGED <<pending, lines, copied>>
  /\ StreamRest

StreamStops ==
  /\ stream = "reading"
  /\ StreamToken \/ serve = "gone"
  /\ stream' = "gone"
  /\ UNCHANGED <<pending, lines, copied>>
  /\ StreamRest

\* normalize_event: an event of this session is shown, or ends the turn.
Shown == {"event", "complete"}

StreamReads ==
  /\ stream = "reading"
  /\ ~StreamToken
  /\ serve = "up"
  /\ copied < MaxEvents
  /\ pending' \in Shown
  /\ stream' = "appending"
  /\ UNCHANGED <<lines, copied>>
  /\ StreamRest

StreamAppends ==
  /\ pending # "none"
  /\ lines' \in Appended(pending)
  /\ pending' = "none"
  /\ copied' = copied + 1
  /\ stream' = IF stream = "aborted" THEN "gone" ELSE "reading"
  /\ StreamRest

StreamProceeds == StreamStops \/ StreamAppends

-----------------------------------------------------------------------------
(***************************************************************************)
(* External: the server dies, something outside its tree takes its stderr, *)
(* and the run is cancelled.                                               *)
(***************************************************************************)
World ==
  \/ /\ serve = "up" /\ serve' = "gone"
     /\ UNCHANGED <<cancelled, holder>>
  \/ /\ serve = "up" /\ step = "sending" /\ ~holder /\ holder' = TRUE
     /\ UNCHANGED <<cancelled, serve>>
  \/ /\ holder /\ holder' = FALSE
     /\ UNCHANGED <<cancelled, serve>>
  \/ /\ ~cancelled /\ step # "over" /\ cancelled' = TRUE
     /\ UNCHANGED <<serve, holder>>

OpencodeNext ==
  \/ OpencodeStep \/ Answers
  \/ StreamOpens \/ StreamProceeds
  \/ World /\ UNCHANGED <<turn, step, ended, streamVars, eventToken, lines, lost>>

OpencodeFairness == WF_opencodeVars(OpencodeStep) /\ WF_opencodeVars(StreamProceeds)
OpencodeSpec == OpencodeInit /\ [][OpencodeNext]_opencodeVars /\ OpencodeFairness

-----------------------------------------------------------------------------
(***************************************************************************)
(* opencode.rs (ABORT_WAIT, run_inner): "every step observes the token",   *)
(* and an unresponsive server does not hold up the kill.  A cancelled run  *)
(* ends, except that it may stay where it waits for the reader of events,  *)
(* whose request was never answered, or of a stderr somebody else holds.   *)
(***************************************************************************)
CancelledAttemptEnds ==
  cancelled ~> \/ step = "over"
               \/ step = "join" /\ stream = "asking"
               \/ step = "stderr" /\ holder

(***************************************************************************)
(* opencode.rs (run_inner): a run on record closed its turn in the log;    *)
(* its completion, when it could be written, is the last line, and no      *)
(* event of the turn follows it.                                           *)
(***************************************************************************)
TurnIsClosed ==
  ended \in {"success", "failure"} =>
    /\ lost \/ Last(lines) = "complete"
    /\ stream = "gone"
=============================================================================

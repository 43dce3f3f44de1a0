----------------------------- MODULE Transcript -----------------------------
(***************************************************************************)
(* Which conversation a consultation forwards: the sessions of the four    *)
(* harnesses on one machine, headless runs among them, and the reader that *)
(* looks for the caller's own and renders its end                          *)
(* (src/shared/mcp-servers/dispatch/src/transcript,                        *)
(* src/shared/crates/harness-log/src/codex.rs).                            *)
(*                                                                         *)
(* A session is in the project under its canonical path, in it under the   *)
(* "raw" path it was entered by, or "elsewhere".                           *)
(***************************************************************************)
EXTENDS Naturals, Sequences, SequencesExt, FiniteSets, FiniteSetsExt

CONSTANTS
    Said,          \* harness -> what a session of it may log: a name and blocks
    Tails,         \* how many messages a caller asks for
    ScanCap,       \* INTERACTIVE_SCAN_CAP
    MaxBytes,      \* MAX_RENDERED_BYTES, in short messages
    MaxSessions, MaxSaid   \* bounds: sessions, and what is logged in all of them

ASSUME TranscriptAssumption == {ScanCap, MaxBytes, MaxSessions, MaxSaid} \subseteq Nat \ {0}

VARIABLES
    sessions,   \* the sessions, the one written last at the end
    opened,     \* the ids of sessions so far, agy's in the order they were opened
    fresh,      \* sessions of kimi written within LIVE_SESSION_MAX_AGE
    said,       \* what was logged so far
    sent        \* the consultation: its caller, and what was forwarded

transcriptVars == <<sessions, opened, fresh, said, sent>>

Harnesses == {"claude", "codex", "kimi", "agy"}
NotAsked == [caller |-> 0]

-----------------------------------------------------------------------------
(***************************************************************************)
(* Rendering.  Text passes as it is; of a tool call its name, of a tool's  *)
(* result and of reasoning only that it is there.                          *)
(***************************************************************************)
Redacted(b) ==
  IF b.what \in {"thinking", "tool_result"} THEN [b EXCEPT !.text = "redacted"] ELSE b

Conversation(h) ==
  CASE h = "claude" -> {"user", "assistant"}
    [] h = "codex" -> {"user_message", "agent_message", "UserMessage", "AgentMessage",
                       "function_call", "custom_tool_call", "web_search_call",
                       "function_call_output", "custom_tool_call_output", "reasoning"}
    [] h = "kimi" -> {"context.append_message", "content.part", "tool.call", "tool.result"}
    [] h = "agy" -> {"USER_INPUT", "PLANNER_RESPONSE", "GENERIC"}

\* render_line, render_entry: the message an entry makes, if any.
RenderLine(h, ev) ==
  LET blocks == SelectSeq(ev.blocks, LAMBDA b : b.text # "blank")
  IN IF ev.name \in Conversation(h) /\ blocks # <<>>
     THEN <<[i \in DOMAIN blocks |-> Redacted(blocks[i])]>> ELSE <<>>

RenderFile(s) == FlattenSeq([i \in DOMAIN s.log |-> RenderLine(s.harness, s.log[i])])

Bytes(m) == IF \E i \in DOMAIN m : m[i].text = "long" THEN MaxBytes ELSE 1
BytesOf(ms) == FoldLeft(LAMBDA n, m : n + Bytes(m), 0, ms)

\* finish: the last messages the tail and the budget leave, at least one.
LastMessages(ms, tail) ==
  CHOOSE kept \in {SubSeq(ms, n, Len(ms)) : n \in 1 .. Len(ms)} :
    /\ Len(kept) <= tail
    /\ Len(kept) = 1 \/ BytesOf(kept) <= MaxBytes
    /\ \A n \in Len(kept) + 1 .. Min({tail, Len(ms)}) :
         BytesOf(SubSeq(ms, Len(ms) - n + 1, Len(ms))) > MaxBytes

-----------------------------------------------------------------------------
(***************************************************************************)
(* Locating.  Each is the set of sessions its reader may settle for, empty *)
(* or with one element; `place' is the project directory that was resolved.*)
(***************************************************************************)
At(s) == CHOOSE n \in DOMAIN sessions : sessions[n] = s
LastWritten(ss) == {s \in ss : \A t \in ss : At(t) <= At(s)}
Of(h) == {s \in ToSet(sessions) : s.harness = h}

\* Canonicalized, "raw" is the project.
CwdMatches(s, place) == s.dir = place \/ (s.dir = "raw" /\ place = "project")

\* Mutant: a headless run is a conversation like any other.
IsExecChild_Not(s) == FALSE
IsExecChild(s) == s.exec

Rollouts == SelectSeq(sessions, LAMBDA s : s.harness = "codex")
ScannedRollouts == {Rollouts[n] : n \in {m \in DOMAIN Rollouts : m + ScanCap > Len(Rollouts)}}
NewestInteractiveRollout(place) ==
  LastWritten({s \in ScannedRollouts : CwdMatches(s, place) /\ ~IsExecChild(s)})

\* The folder of the canonical path if it holds a log, else that of the raw one.
ClaudeLocate(place) ==
  LET here == {s \in Of("claude") : s.dir = place}
      raw == {s \in Of("claude") : s.dir = "raw" /\ place = "project"}
  IN LastWritten(IF here # {} THEN here ELSE raw)

\* A session that has something to render before one that is empty; a session
\* elsewhere only while it is fresh.
KimiLocate(place) ==
  LET matching == {s \in Of("kimi") : CwdMatches(s, place)}
      rendered == {s \in matching : RenderFile(s) # <<>>}
      elsewhere == LastWritten(Of("kimi") \ matching)
  IN IF rendered # {} THEN LastWritten(rendered)
     ELSE IF matching # {} THEN LastWritten(matching)
     ELSE {s \in elsewhere : s.id \in fresh}

\* last_conversations.json: the conversation opened last in a directory.
Ambient(dir) == {s \in Of("agy") : s.dir = dir /\ \A t \in Of("agy") : t.dir = dir => t.id <= s.id}
AgyLocate(place) ==
  IF Ambient(place) # {} THEN Ambient(place)
  ELSE IF place = "project" THEN Ambient("raw") ELSE {}

LocateFor(h, place) ==
  CASE h = "claude" -> ClaudeLocate(place)
    [] h = "codex" -> NewestInteractiveRollout(place)
    [] h = "kimi" -> KimiLocate(place)
    [] h = "agy" -> AgyLocate(place)

\* render_transcript: of the harness the registration names, else the newest.
Located(harness, place) ==
  IF harness # "unset" THEN LocateFor(harness, place)
  ELSE LastWritten(UNION {LocateFor(h, place) : h \in Harnesses})

-----------------------------------------------------------------------------
TranscriptInit ==
  /\ sessions = <<>> /\ opened = 0 /\ fresh = {} /\ said = 0 /\ sent = NotAsked

\* A person opens a session, or a run of dispatch one that is headless.
Open ==
  /\ opened < MaxSessions
  /\ \E h \in Harnesses, dir \in {"project", "raw", "elsewhere"}, exec \in BOOLEAN :
       /\ exec => h # "kimi"
       /\ sessions' = Append(sessions, [id |-> opened + 1, harness |-> h, dir |-> dir,
                                        exec |-> exec, log |-> <<>>])
       /\ fresh' = IF h = "kimi" THEN fresh \cup {opened + 1} ELSE fresh
  /\ opened' = opened + 1
  /\ UNCHANGED <<said, sent>>

Say ==
  /\ said < MaxSaid
  /\ \E n \in DOMAIN sessions : \E ev \in Said[sessions[n].harness] :
       /\ sessions' = Append(RemoveAt(sessions, n), [sessions[n] EXCEPT !.log = Append(@, ev)])
       /\ fresh' = IF sessions[n].harness = "kimi" THEN fresh \cup {sessions[n].id} ELSE fresh
  /\ said' = said + 1
  /\ UNCHANGED <<opened, sent>>

TimePasses == fresh # {} /\ fresh' = {} /\ UNCHANGED <<sessions, opened, said, sent>>

\* Of no use to a caller: the file it would render says nothing.
Forwarded(source, tail) ==
  {[source |-> s.id, messages |-> LastMessages(RenderFile(s), tail)] :
     s \in {x \in source : RenderFile(x) # <<>>}}

\* The server runs in the project or, when the harness is kimi, may be pinned to
\* the folder of its plugin; the registration may name the harness or not.
Consult ==
  /\ \E n \in DOMAIN sessions, tail \in Tails, place \in {"project", "plugin"}, named \in BOOLEAN :
       /\ ~sessions[n].exec
       /\ place = "plugin" => sessions[n].harness = "kimi"
       /\ place = "project" => sessions[n].dir \in {"project", "raw"}
       /\ sent' = [caller |-> sessions[n].id, place |-> place,
                   got |-> Forwarded(Located(IF named THEN sessions[n].harness ELSE "unset", place),
                                     Max({tail, 1}))]
  /\ UNCHANGED <<sessions, opened, fresh, said>>

TranscriptNext == sent = NotAsked /\ (Open \/ Say \/ TimePasses \/ Consult)
TranscriptSpec == TranscriptInit /\ [][TranscriptNext]_transcriptVars

-----------------------------------------------------------------------------
Caller == CHOOSE s \in ToSet(sessions) : s.id = sent.caller
After(s) == {t \in ToSet(sessions) : At(t) > At(s)}

\* Nothing was written since the caller's own last words but by a few headless
\* runs of codex, and by opening sessions of kimi beside the caller's.
SpokeLast ==
  /\ \A s \in After(Caller) :
       \/ s.harness = "codex" /\ s.exec
       \/ {s.harness, Caller.harness} = {"kimi"} /\ sent.place = "project" /\ RenderFile(s) = <<>>
  /\ Cardinality(After(Caller)) < ScanCap
  /\ RenderFile(Caller) # <<>>

\* Claude and agy file a session under the path it was entered by: another one
\* under the canonical path hides it; agy names a directory's latest only.
Hidden ==
  \/ /\ Caller.harness \in {"claude", "agy"} /\ Caller.dir = "raw"
     /\ \E s \in Of(Caller.harness) : s.dir = "project"
  \/ Caller.harness = "agy" /\ Caller \notin Ambient(Caller.dir)

\* A consultation whose caller spoke last forwards that conversation, up to its
\* last message, and no other: not an empty session of the same project that was
\* opened since, not the run a consultation or a delegation left behind.
ForwardsTheCaller ==
  sent # NotAsked /\ SpokeLast /\ ~Hidden =>
    /\ \A g \in sent.got : /\ g.source = sent.caller
                           /\ Last(g.messages) = Last(RenderFile(Caller))
    /\ sent.got = {} => sent.place = "plugin" /\ sent.caller \notin fresh
=============================================================================

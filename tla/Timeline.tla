------------------------------ MODULE Timeline ------------------------------
(***************************************************************************)
(* The log of a backend session while rows of the store run in it, one     *)
(* after the other, as two readers see it: a caller of dispatch_logs, who  *)
(* pages through the curated lines of a row                                *)
(* (src/shared/mcp-servers/dispatch/src/rollout.rs, main.rs), and the      *)
(* accounting of a row's tokens from a codex rollout                       *)
(* (src/shared/crates/harness-log/src/usage.rs).                           *)
(*                                                                         *)
(* A line of the log is an event: its name, its blocks, and the part of an *)
(* opencode message it is a state of.  A text is a model value; PromptText *)
(* and MarkedPrompt differ in the marker dispatch appends to a prompt.     *)
(***************************************************************************)
EXTENDS Naturals, Sequences, SequencesExt, FiniteSets, FiniteSetsExt, TLC

CONSTANTS
    Events,       \* format -> the events a session of it may log
    Selections,   \* sets of kinds a caller may ask for
    Requests,     \* token counts of a request: field -> {n}, or {} when unknown
    ByteCap,      \* RENDER_BYTE_CAP, in short lines
    TailLines,    \* DEFAULT_TAIL_LINES
    MaxLog, MaxTurns   \* bounds: lines of the log, rows that run in the session

ASSUME TimelineAssumption == {ByteCap, TailLines, MaxLog, MaxTurns} \subseteq Nat \ {0}
\* The blocks of an event are a list, and no event has the name that stands for half a line.
ASSUME EventsAssumption ==
  \A f \in DOMAIN Events : \A ev \in Events[f] :
    ev.name # "half" /\ ev.blocks \in Seq(Range(ev.blocks))
ASSUME CountsAssumption ==
  \A request \in Requests :
    /\ DOMAIN request = {"input", "cached", "write", "output"}
    /\ \A f \in DOMAIN request :
         request[f] = {} \/ \E n \in request[f] : n \in Nat /\ request[f] = {n}

VARIABLES
    format,     \* "codex", "opencode", "claude" or "agy"; "tokens" for the accounting
    kinds,      \* what the caller asks for
    log,        \* the lines on disk; a line not written whole is Half
    starts,     \* row -> the lines its log had when it was steered (rollout_start_line)
    seen,       \* the row a caller follows, and by number the lines it was shown
    spent       \* what the session's requests cost so far

timelineVars == <<format, kinds, log, starts, seen, spent>>

Half == [name |-> "half", blocks |-> <<>>, part |-> "", turn |-> 0]

-----------------------------------------------------------------------------
(***************************************************************************)
(* Curation: the kind of a block, by the backend that logged it.           *)
(***************************************************************************)
Prose == {"user_message", "agent_message", "UserMessage", "AgentMessage"}

\* kind_of
CodexKinds ==
  [n \in Prose |-> "messages"]
  @@ [n \in {"task_started", "task_complete"} |-> "lifecycle"]
  @@ [n \in {"custom_tool_call", "function_call"} |-> "tools"]
  @@ [n \in {"custom_tool_call_output", "function_call_output"} |-> "tool_results"]
  @@ [n \in {"patch_apply_end", "FileChange"} |-> "edits"]
  @@ [n \in {"reasoning"} |-> "reasoning"]

ClaudeKinds(b) ==
  CASE b.what = "text" -> "messages"
    [] b.what = "thinking" -> "reasoning"
    [] b.what = "tool_use" /\ b.text \in {"Edit", "Write", "MultiEdit", "NotebookEdit"} -> "edits"
    [] b.what = "tool_use" -> "tools"
    [] b.what = "tool_result" -> "tool_results"

AgyKinds(ev, b) ==
  CASE ev.name = "GENERIC" -> "tool_results"
    [] b.what = "thinking" -> "reasoning"
    [] b.what = "content" -> "messages"
    [] b.text \in {"write_to_file", "replace_file_content", "multi_replace_file_content"} -> "edits"
    [] OTHER -> "tools"

Spoken(b) == b.what \in {"text", "thinking", "content"}
\* Blocks that make no line.
Noise(fmt, ev, b) ==
  CASE fmt = "claude" -> ev.name \notin {"user", "assistant"} \/ (Spoken(b) /\ b.text = "blank")
    [] fmt = "agy" -> \/ ev.name \notin {"USER_INPUT", "PLANNER_RESPONSE", "GENERIC"}
                      \/ (Spoken(b) /\ b.text = "blank")
    [] OTHER -> \/ ev.name \notin DOMAIN CodexKinds
                \/ ev.name = "agent_message" /\ b.text = "think tag"
                \/ ev.name \in {"UserMessage", "AgentMessage"} /\ b.text = "blank"

KindOf(fmt, ev, b) == CASE fmt = "claude" -> ClaudeKinds(b)
                        [] fmt = "agy" -> AgyKinds(ev, b)
                        [] OTHER -> CodexKinds[ev.name]

\* is_prompt_echo: whose text may be the prompt again, marked or not.
MayEcho(fmt, ev, b) ==
  /\ b.text \in {"PromptText", "MarkedPrompt"}
  /\ CASE fmt = "claude" -> ev.name = "user" /\ b.what = "text"
       [] fmt = "agy" -> ev.name = "USER_INPUT"
       [] OTHER -> ev.name \in Prose

DefaultKinds ==
  {"lifecycle", "messages", "tools", "edits"}
    \cup (IF format \in {"opencode", "claude", "agy"} THEN {"reasoning"} ELSE {})

\* The lines an event makes.
LinesOf(fmt, ev) ==
  [i \in DOMAIN ev.blocks |->
     [kind |-> IF Noise(fmt, ev, ev.blocks[i]) THEN "none" ELSE KindOf(fmt, ev, ev.blocks[i]),
      text |-> ev.blocks[i].text, part |-> ev.part, turn |-> ev.turn,
      echo |-> MayEcho(fmt, ev, ev.blocks[i])]]

-----------------------------------------------------------------------------
\* Mutant: a part that changed moves to the end.
Placed_AtEnd(lines, line) ==
  Append(SelectSeq(lines, LAMBDA l : line.part = "" \/ l.part # line.part), line)

\* The states of one part share a line.
Placed(lines, line) ==
  IF line.part # "" /\ \E n \in DOMAIN lines : lines[n].part = line.part
  THEN [n \in DOMAIN lines |-> IF lines[n].part = line.part THEN line ELSE lines[n]]
  ELSE Append(lines, line)

\* The prompt's first echo is one line that says so, its repetitions none.
Curated(acc, line) ==
  IF line.echo /\ acc.elided THEN acc
  ELSE [elided |-> acc.elided \/ line.echo,
        lines |-> Placed(acc.lines, IF line.echo THEN [line EXCEPT !.text = "elided"] ELSE line)]

\* The lines of the kinds asked for that an event makes, one after the other.
AddEvent(acc, fmt, asked, ev, elide) ==
  LET made == LinesOf(fmt, ev)
      upTo[j \in 0 .. Len(ev.blocks)] ==
        IF j = 0 THEN acc
        ELSE IF made[j].kind \notin asked THEN upTo[j - 1]
        ELSE Curated(upTo[j - 1], [made[j] EXCEPT !.echo = @ /\ elide])
  IN upTo[Len(ev.blocks)]

\* curate, curate_claude, curate_agy.
Curate(fmt, asked, events, elide) ==
  LET upTo[n \in 0 .. Len(events)] ==
        IF n = 0 THEN [elided |-> FALSE, lines |-> <<>>]
        ELSE AddEvent(upTo[n - 1], fmt, asked, events[n], elide)
  IN upTo[Len(events)].lines

\* trim_to_start_line
TrimToStartLine(start) == SubSeq(log, start + 1, Len(log))

\* What dispatch_logs has to show of a row; a steer's instruction is never elided.
TimelineOf(row) == Curate(format, kinds, TrimToStartLine(starts[row]), row = 1)

Clamp(n, low, high) == IF n < low THEN low ELSE IF n > high THEN high ELSE n
Size(lines) == FoldLeft(LAMBDA n, l : n + IF l.text = "long" THEN ByteCap + 1 ELSE 1, 0, lines)

\* window: the lines a call is answered with, 0 for a bound it left out.  A text
\* above the cap keeps its end, so a caller trusts only a line shown alone.
FirstShown(from, to, total) ==
  Clamp(IF from # 0 THEN from
        ELSE IF to # 0 \/ total < TailLines THEN 1 ELSE total - TailLines + 1, 1, total)
LastShown(from, to, total) ==
  Clamp(IF to # 0 THEN to ELSE total, FirstShown(from, to, total), total)
Window(lines, from, to) ==
  LET first == FirstShown(from, to, Len(lines))
      last == LastShown(from, to, Len(lines))
  IN IF lines = <<>> \/ (last > first /\ Size(SubSeq(lines, first, last)) > ByteCap)
     THEN <<>> ELSE [n \in first .. last |-> lines[n]]
\* Pages put together; of a line shown twice, the last one.
Together(page, pages) ==
  [n \in DOMAIN page \cup DOMAIN pages |-> IF n \in DOMAIN page THEN page[n] ELSE pages[n]]

-----------------------------------------------------------------------------
(***************************************************************************)
(* Tokens.  A count is the set of its value, empty when unknown, so that   *)
(* an unknown term makes a sum unknown.                                    *)
(***************************************************************************)
AddCounts(a, b) == {x + y : x \in a, y \in b}
Minus(a, b) == {IF x > y THEN x - y ELSE 0 : x \in a, y \in b}
Lesser(a, b) == {IF x < y THEN x ELSE y : x \in a, y \in b}
Plus(c, d) == [f \in DOMAIN c |-> AddCounts(c[f], d[f])]
Since(c, earlier) == [f \in DOMAIN c |-> Minus(c[f], earlier[f])]

Zero == [input |-> {0}, cached |-> {0}, write |-> {0}, output |-> {0}]

\* to_usage: disjoint buckets.
ToUsage(c) ==
  LET uncached == Minus(c.input, c.cached)
      write == Lesser(c.write, uncached)
  IN [uncached |-> Minus(uncached, write), read |-> c.cached, write |-> write,
      output |-> c.output]

\* One usage, or none, out of two.
Both(u, v) == IF u = {} THEN v ELSE IF v = {} THEN u ELSE {Plus(x, y) : x \in u, y \in v}

DeltaOf(total, line) ==
  IF line.last # {} THEN line.last ELSE {Since(t, total) : t \in line.total}
\* The event's totals, or those before it with what it adds.
TotalOf(total, line) ==
  CHOOSE t \in IF line.total # {} THEN line.total
               ELSE {Plus(total, d) : d \in line.last} : TRUE

\* Mutant: events before the baseline are not looked at.
Counted_FromBaseline(acc, baseline, n, line) ==
  IF line.name # "token_count" \/ line = acc.previous \/ n <= baseline THEN acc
  ELSE [previous |-> line, total |-> TotalOf(acc.total, line),
        used |-> Both(acc.used, {ToUsage(d) : d \in DeltaOf(acc.total, line)})]

\* An event counts its own tokens, else how far its totals moved since the
\* event before; a line repeated is one event.
Counted(acc, baseline, n, line) ==
  IF line.name # "token_count" \/ line = acc.previous THEN acc
  ELSE [previous |-> line, total |-> TotalOf(acc.total, line),
        used |-> IF n <= baseline THEN acc.used
                 ELSE Both(acc.used, {ToUsage(d) : d \in DeltaOf(acc.total, line)})]

CodexRollout(lines, baseline) ==
  LET upTo[n \in 0 .. Len(lines)] ==
        IF n = 0 THEN [previous |-> Half, total |-> Zero, used |-> {}]
        ELSE Counted(upTo[n - 1], baseline, n, lines[n])
  IN upTo[Len(lines)].used

-----------------------------------------------------------------------------
TimelineInit ==
  /\ format \in DOMAIN Events \cup {"tokens"}
  /\ kinds \in IF format = "tokens" THEN {{}} ELSE Selections \cup {DefaultKinds}
  /\ log = <<>> /\ starts = <<0>> /\ seen = [row |-> 1, lines |-> <<>>] /\ spent = Zero

Row == Len(starts)
Torn == log # <<>> /\ Last(log).name = "half"
Whole(ev) == [name |-> ev.name, blocks |-> ev.blocks, part |-> ev.part, turn |-> Row]

\* The backend appends an event; a run that was killed may have left half a
\* line, which the next run of the session ends with its own first event.
Write ==
  /\ format # "tokens"
  /\ Len(log) < MaxLog
  /\ Torn => Len(log) = starts[Row]
  /\ \E ev \in Events[format] : log' \in {Append(log, Whole(ev)), Append(log, Half)}
  /\ UNCHANGED <<format, kinds, starts, seen, spent>>

WriteOn ==
  /\ format # "tokens" /\ Torn
  /\ \/ /\ Len(log) > starts[Row]
        /\ \E ev \in Events[format] : log' = [log EXCEPT ![Len(log)] = Whole(ev)]
     \/ /\ Len(log) = starts[Row]
        /\ log' = [log EXCEPT ![Len(log)] = [Half EXCEPT !.name = "garbled"]]
  /\ UNCHANGED <<format, kinds, starts, seen, spent>>

\* A request of codex is logged with its own counts, its totals, or both.
TokenCount ==
  /\ format = "tokens"
  /\ Len(log) < MaxLog
  /\ \E request \in Requests :
       /\ spent' = Plus(spent, request)
       /\ \E last \in {{}, {request}}, total \in {{}, {spent'}} :
            /\ last # {} \/ total # {}
            /\ log' = Append(log, [name |-> "token_count", last |-> last, total |-> total,
                                   turn |-> Row, at |-> Len(log), request |-> request])
  /\ UNCHANGED <<format, kinds, starts, seen>>

\* Rate limits alone, or anything else; or the counts once more.
OtherLine ==
  /\ format = "tokens"
  /\ Len(log) < MaxLog
  /\ \/ log' = Append(log, Half)
     \/ \E n \in DOMAIN log :
          /\ log[n].name = "token_count"
          /\ \A m \in n + 1 .. Len(log) : log[m].name # "token_count"
          /\ log' = Append(log, log[n])
  /\ UNCHANGED <<format, kinds, starts, seen, spent>>

\* dispatch_steer of the row that ended: a row of its own, in the same session.
Steer ==
  /\ Row < MaxTurns
  /\ log # <<>>
  /\ starts' = Append(starts, Len(log))
  /\ seen' \in {seen, [row |-> Row + 1, lines |-> <<>>]}
  /\ UNCHANGED <<format, kinds, log, spent>>

\* dispatch_logs
Page ==
  /\ format # "tokens"
  /\ \E now \in {TimelineOf(seen.row)}, from, to \in 0 .. MaxLog :
       seen' = [seen EXCEPT !.lines = Together(Window(now, from, to), @)]
  /\ UNCHANGED <<format, kinds, log, starts, spent>>

TimelineNext == Write \/ WriteOn \/ TokenCount \/ OtherLine \/ Steer \/ Page

TimelineSpec == TimelineInit /\ [][TimelineNext]_timelineVars

-----------------------------------------------------------------------------
\* A caller that pages through a row's timeline while it grows can put the
\* pages together: what it was shown under a number is still the line of that
\* number, or an earlier state of the same opencode part, and no line is of a
\* turn before the row's.
PagesAddUp ==
  format # "tokens" => \E now \in {TimelineOf(seen.row)} : \A n \in DOMAIN seen.lines :
    /\ n \in DOMAIN now
    /\ now[n] = seen.lines[n] \/ (now[n].part # "" /\ now[n].part = seen.lines[n].part)
    /\ now[n].turn >= seen.row

EndOf(row) == IF row = Row THEN Len(log) ELSE starts[row + 1]
\* A request of the row's turn, where it was logged first.
Billed(n, row) == log[n].name = "token_count" /\ log[n].turn = row /\ log[n].at = n - 1
CostOf(row) ==
  LET upTo[n \in 0 .. Len(log)] ==
        IF n = 0 THEN {}
        ELSE IF Billed(n, row) THEN Both(upTo[n - 1], {ToUsage(log[n].request)})
        ELSE upTo[n - 1]
  IN upTo[Len(log)]

\* The tokens of a row are what the requests of its turn cost, whichever counts
\* codex logged of them, and none of the turns before it.
UsageAddsUp ==
  format = "tokens" =>
    \A row \in DOMAIN starts :
      \E used \in {CodexRollout(SubSeq(log, 1, EndOf(row)), starts[row])},
         cost \in {CostOf(row)} :
        /\ used = {} <=> cost = {}
        /\ \A u \in used, c \in cost : \A f \in DOMAIN c : u[f] \in {c[f], {}}
        /\ (\A f \in DOMAIN spent : spent[f] # {}) => used = cost
=============================================================================

------------------------------ MODULE Outcomes ------------------------------
(***************************************************************************)
(* From what the processes of a run print to what its row says: the        *)
(* capture of both streams under a cap (capture.rs), agy's events and the  *)
(* verdict on them (agy.rs), the text of a failure and its class           *)
(* (failure.rs, errkind.rs), the chain of models (run.rs fallback_chain)   *)
(* and the terminal columns (dispatch executor.rs and consult.rs).         *)
(*                                                                         *)
(* A line of output is one unit of a cap, and is told apart by what the    *)
(* classifier finds in it.  The processes themselves are in Attempt.       *)
(***************************************************************************)
EXTENDS Integers, Sequences, SequencesExt

CONSTANTS
    Asks,           \* the runs: [runner, purpose], "execute" or "consult"
    MaxModels,      \* bound: models of a chain
    MaxLines,       \* bound: lines a process prints
    StdoutCap, FailureCap, StderrCap,   \* limits of the capture policies
    TextTail,       \* stdout of a failure that an execution classifies
    AgyResults      \* what agy may end its stream with

\* The lines that the classifier tells apart.
Printable == {"text", "rate limit", "unauthorized", "AGY_ERROR rate limit"}

ASSUME CapsAssumption == {MaxModels, StdoutCap, FailureCap, StderrCap, TextTail} \subseteq Nat
\* An agy consultation is refused.
ASSUME AsksAssumption ==
  \A a \in Asks : a.purpose = "execute" \/ (a.purpose = "consult" /\ a.runner # "agy")
ASSUME AgyResultsAssumption ==
  \A r \in AgyResults :
    \/ r = [is |-> "oversized"]
    \/ r \in [is : {"whole"}, status : {"SUCCESS", "ERROR", "none"},
              response : Seq(Printable), error : Seq(Printable), denied : BOOLEAN]

VARIABLES
    ask,        \* the run, with its number of models
    attempt,    \* "idle" between two processes, "running", or "over"
    captured,   \* the readers of the process in flight
    printed,    \* what it has printed
    discarded,  \* the attempts the chain gave up: [model, kind]
    tried,      \* what they were: [succeeds, lines]
    stop,       \* the token of the run
    record      \* the terminal columns, once written

outcomeVars == <<ask, attempt, captured, printed, discarded, tried, stop, record>>

-----------------------------------------------------------------------------
(***************************************************************************)
(* capture.rs.  The reader of a tail drops bytes once it holds two limits. *)
(***************************************************************************)
Cap(limit, keep) == [limit |-> limit, keep |-> keep]
Policy(purpose) ==
  [out     |-> Cap(StdoutCap, "head"),
   err     |-> Cap(StderrCap, IF purpose = "execute" THEN "head" ELSE "tail"),
   failure |-> Cap(IF purpose = "execute" THEN StdoutCap ELSE FailureCap, "head")]

LastOf(s, n) == SubSeq(s, IF Len(s) > n THEN Len(s) - n + 1 ELSE 1, Len(s))
Clip(text, cap) ==
  IF cap.keep = "tail" THEN LastOf(text, cap.limit)
  ELSE SubSeq(text, 1, IF Len(text) < cap.limit THEN Len(text) ELSE cap.limit)

Unread == [kept |-> <<>>, total |-> 0]
PushLine(b, cap, line) ==
  LET all == Append(b.kept, line)
  IN [total |-> b.total + 1,
      kept |-> IF cap.keep = "head" THEN Clip(all, cap)
               ELSE IF Len(all) > 2 * cap.limit THEN Clip(all, cap) ELSE all]
Finished(b, cap) ==
  LET text == Clip(b.kept, cap) IN [text |-> text, cut |-> b.total > Len(text)]

-----------------------------------------------------------------------------
(***************************************************************************)
(* errkind.rs.  The table has the transient patterns first.                *)
(***************************************************************************)
Classify(text) ==
  IF \E l \in ToSet(text) : l \in {"rate limit", "AGY_ERROR rate limit"} THEN "rate_limited"
  ELSE IF "unauthorized" \in ToSet(text) THEN "auth_or_permission" ELSE "other"
IsRetryWorthy(kind) == kind = "rate_limited"

-----------------------------------------------------------------------------
(***************************************************************************)
(* agy.rs.  A result is whole, too large, or missing; deltas of text are   *)
(* captured like a stdout.                                                 *)
(***************************************************************************)
NoResult  == [is |-> "missing"]
Oversized == [is |-> "oversized"]
NoEvents  == [result |-> NoResult, agyError |-> <<>>]
Line(l) == <<l>>

AgyErrorLine(s, err) ==
  IF s.agyError # <<>> THEN s.agyError
  ELSE IF "AGY_ERROR rate limit" \in ToSet(err) THEN Line("AGY_ERROR rate limit") ELSE <<>>
WellFormed(s) == s.result.is = "whole" /\ s.result.status # "none"

Succeeds(r) ==
  r.status = "SUCCESS" /\ r.error = <<>> /\ ~(r.denied /\ r.response = <<>>)

Normalise(exitOk, s, err) ==
  IF ~WellFormed(s)
  THEN [success |-> FALSE, answer |-> <<>>, whole |-> FALSE,
        detail |-> IF AgyErrorLine(s, err) # <<>> THEN AgyErrorLine(s, err) ELSE Line("text")]
  ELSE LET r == s.result
           success == exitOk /\ Succeeds(r)
       IN [success |-> success, answer |-> r.response, whole |-> TRUE,
           detail |-> IF success THEN <<>>
                      ELSE IF r.error # <<>> THEN r.error
                      ELSE IF AgyErrorLine(s, err) # <<>> THEN AgyErrorLine(s, err)
                      ELSE IF ~Succeeds(r) THEN Line("text") ELSE <<>>]

-----------------------------------------------------------------------------
(***************************************************************************)
(* The record of a process that exited (run.rs run_inner, its end), and    *)
(* the outcomes that have none.                                            *)
(***************************************************************************)
NoRecord(is) == [is |-> is, success |-> FALSE]

\* Mutant: the cap of a failure does not count as a cut.
Retained_Silent(out, success, purpose) ==
  IF success THEN out ELSE [out EXCEPT !.text = Clip(out.text, Policy(purpose).failure)]

Retained(out, success, purpose) ==
  LET text == Clip(out.text, Policy(purpose).failure)
  IN IF success THEN out ELSE [text |-> text, cut |-> out.cut \/ text # out.text]

RecordOf(exitOk) ==
  LET policy == Policy(ask.purpose)
      err == Finished(captured.err, policy.err)
      agy == Normalise(exitOk, captured.agy, err.text)
      success == IF ask.runner = "agy" THEN agy.success ELSE exitOk
      out == Retained(Finished(captured.out, policy.out), success, ask.purpose)
  IN [is |-> "record", success |-> success, out |-> out, err |-> err,
      detail |-> IF ask.runner = "agy" THEN agy.detail ELSE <<>>,
      answer |-> IF ask.runner = "agy" /\ agy.whole THEN [text |-> agy.answer, cut |-> FALSE] ELSE out]

\* failure.rs: what is classified; nothing of a success, a cancellation or a missing binary.
FailureText(outcome) ==
  CASE outcome.is = "record" ->
         outcome.err.text \o outcome.detail
           \o (IF ask.runner # "claude" THEN <<>>
               ELSE IF ask.purpose = "execute" THEN LastOf(outcome.out.text, TextTail)
               ELSE outcome.out.text)
    [] OTHER -> Line("text")
Fails(outcome) == ~outcome.success /\ outcome.is \in {"record", "spawn"}

-----------------------------------------------------------------------------
(***************************************************************************)
(* The terminal columns: executor.rs terminal, consult_terminal, finish.   *)
(***************************************************************************)
NoText == [text |-> <<>>, cut |-> FALSE]
Terminal(outcome) ==
  CASE outcome.is = "record" /\ outcome.success ->
         [status |-> "succeeded", result |-> outcome.answer, error |-> NoText]
    [] outcome.is = "record" /\ ~outcome.success /\ ask.purpose = "execute" ->
         [status |-> "failed", result |-> outcome.answer, error |-> outcome.err]
    \* consult.rs render_failure: stderr, then stdout, each with its mark.
    [] outcome.is = "record" /\ ~outcome.success /\ ask.purpose = "consult" ->
         [status |-> "failed", result |-> outcome.out, error |-> outcome.err]
    [] outcome.is = "cancelled" -> [status |-> "cancelled", result |-> NoText, error |-> NoText]
    [] OTHER -> [status |-> "failed", result |-> NoText, error |-> NoText]

Finish_Row(outcome, started) ==
  LET history == IF outcome.is = "cancelled" /\ ~started THEN <<>> ELSE discarded
  IN record' = [columns |-> Terminal(outcome), started |-> started, history |-> history,
                model |-> IF history = <<>> THEN 0 ELSE Len(discarded) + 1]

-----------------------------------------------------------------------------
(***************************************************************************)
(* run.rs: fallback_chain.                                                 *)
(***************************************************************************)
NothingPrinted == [out |-> <<>>, err |-> <<>>, agy |-> NoEvents]
TrulySucceeded(exitOk) ==
  exitOk /\ (ask.runner = "agy" =>
    /\ printed.agy.result.is = "whole" /\ printed.agy.result.status = "SUCCESS"
    /\ printed.agy.result.error = <<>>
    /\ printed.agy.result.response = <<>> => ~printed.agy.result.denied)
Lines ==
  ToSet(printed.err \o printed.agy.agyError \o (IF ask.runner = "claude" THEN printed.out ELSE <<>>))
    \cup (IF printed.agy.result.is = "whole" THEN ToSet(printed.agy.result.error) ELSE {})

Judge(outcome, started, exitOk) ==
  LET kind == Classify(FailureText(outcome))
      retry == Fails(outcome) /\ IsRetryWorthy(kind) /\ Len(discarded) + 1 < ask.models
      was == [succeeds |-> started /\ TrulySucceeded(exitOk), lines |-> IF started THEN Lines ELSE {}]
  IN  /\ tried' = Append(tried, was)
      /\ IF retry
         THEN /\ discarded' = Append(discarded, [model |-> Len(discarded) + 1, kind |-> kind])
              /\ attempt' = "idle" /\ printed' = NothingPrinted /\ UNCHANGED record
         ELSE Finish_Row(outcome, started) /\ attempt' = "over" /\ UNCHANGED <<discarded, printed>>
      /\ UNCHANGED <<ask, captured, stop>>

\* The token is looked at before each attempt; the binary may be missing, the spawn fail.
StartFails ==
  /\ attempt = "idle"
  /\ IF stop THEN Judge(NoRecord("cancelled"), FALSE, FALSE)
     ELSE \E is \in {"spawn", "not found"} : Judge(NoRecord(is), FALSE, FALSE)

StartProcess ==
  /\ attempt = "idle" /\ ~stop
  /\ attempt' = "running"
  /\ captured' = [out |-> Unread, err |-> Unread, agy |-> NoEvents]
  /\ UNCHANGED <<ask, printed, discarded, tried, stop, record>>

OutputLines ==
  IF ask.runner = "agy" THEN Printable ELSE Printable \ {"AGY_ERROR rate limit"}
MayPrint ==
  /\ attempt = "running" /\ Len(printed.out) + Len(printed.err) < MaxLines
  /\ printed.agy.result = NoResult

PrintOut(line) ==
  /\ MayPrint /\ line # "AGY_ERROR rate limit"
  /\ captured' = [captured EXCEPT !.out = PushLine(@, Policy(ask.purpose).out, line)]
  /\ printed' = [printed EXCEPT !.out = Append(@, line)]
  /\ UNCHANGED <<ask, attempt, discarded, tried, stop, record>>

PrintErr(line) ==
  /\ MayPrint
  /\ captured' = [captured EXCEPT !.err = PushLine(@, Policy(ask.purpose).err, line)]
  /\ printed' = [printed EXCEPT !.err = Append(@, line)]
  /\ UNCHANGED <<ask, attempt, discarded, tried, stop, record>>

\* A line of agy's stdout that is no event and names AGY_ERROR, or its result event.
AgySends(events) ==
  /\ ask.runner = "agy" /\ attempt = "running" /\ printed.agy.result = NoResult
  /\ events \in {[printed.agy EXCEPT !.agyError = Line("AGY_ERROR rate limit")]}
       \cup {[printed.agy EXCEPT !.result = r] : r \in AgyResults}
  /\ printed' = [printed EXCEPT !.agy = events]
  /\ captured' = [captured EXCEPT !.agy = events]
  /\ UNCHANGED <<ask, attempt, discarded, tried, stop, record>>

ProcessExits(exitOk) == attempt = "running" /\ Judge(RecordOf(exitOk), TRUE, exitOk)
ProcessKilled == attempt = "running" /\ stop /\ Judge(NoRecord("cancelled"), TRUE, FALSE)

StopRun ==
  /\ ~stop /\ attempt # "over" /\ stop' = TRUE
  /\ UNCHANGED <<ask, attempt, captured, printed, discarded, tried, record>>

OutcomesInit ==
  /\ ask \in { [runner |-> a.runner, purpose |-> a.purpose, models |-> n] : a \in Asks, n \in 1 .. MaxModels }
  /\ attempt = "idle" /\ captured = [out |-> Unread, err |-> Unread, agy |-> NoEvents]
  /\ printed = NothingPrinted /\ discarded = <<>> /\ tried = <<>> /\ stop = FALSE
  /\ record = [columns |-> [status |-> "running"]]

OutcomesNext ==
  \/ StartFails \/ StartProcess \/ ProcessKilled \/ StopRun
  \/ \E line \in OutputLines : PrintOut(line) \/ PrintErr(line)
  \/ \E events \in [result : AgyResults \cup {NoResult}, agyError : {<<>>, Line("AGY_ERROR rate limit")}] :
       AgySends(events)
  \/ \E exitOk \in BOOLEAN : ProcessExits(exitOk)

OutcomesSpec == OutcomesInit /\ [][OutcomesNext]_outcomeVars

-----------------------------------------------------------------------------
(***************************************************************************)
(* A row that ended tells what its processes did.  It says succeeded when  *)
(* the last of them did, whatever was cut; what it shows of an output is   *)
(* all of it, or says that it was cut; it lists the attempts before the    *)
(* last, and each of them failed after it printed, where the classifier    *)
(* reads, what the list says; no run stops at a transient failure that was *)
(* read whole while a model is left (failure.rs: "nothing a successful     *)
(* response says is ever classified"; executor.rs finish).                 *)
(***************************************************************************)
Shows(shown, text) ==
  IF shown.cut THEN shown.text # text /\ (IsPrefix(shown.text, text) \/ IsSuffix(shown.text, text))
  ELSE shown.text = text
Answer ==
  IF ask.runner = "agy" /\ WellFormed(printed.agy) THEN printed.agy.result.response ELSE printed.out

RowTellsTheRun ==
  attempt = "over" =>
  LET c == record.columns
      last == tried[Len(tried)]
      earlier == SubSeq(tried, 1, Len(tried) - 1)
  IN /\ c.status = "succeeded" <=> last.succeeds
     /\ record.started /\ c.status # "cancelled"
          => Shows(c.result, Answer) /\ (c.status = "failed" => Shows(c.error, printed.err))
     /\ record.history # <<>> => Len(record.history) = Len(earlier) /\ record.model = Len(tried)
     /\ record.history = <<>> /\ earlier # <<>> => c.status = "cancelled" /\ ~record.started
     /\ \A i \in DOMAIN record.history :
          /\ record.history[i].model = i
          /\ ~earlier[i].succeeds
          /\ \E l \in earlier[i].lines : IsRetryWorthy(Classify(Line(l)))
     /\ c.status = "failed" /\ record.started /\ Len(tried) < ask.models /\ ~c.error.cut
          => ~IsRetryWorthy(Classify(printed.err))
=============================================================================

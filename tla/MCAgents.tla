------------------------------ MODULE MCAgents ------------------------------
(***************************************************************************)
(* What stands behind a row of dispatch, on small instances: what its      *)
(* backend may reach (Delegation), the processes of one attempt (Attempt), *)
(* the session a row names (Association), the runner that drives opencode  *)
(* over HTTP (Opencode), what the row says of its attempts (Outcomes), the *)
(* log of a session and who reads it (Timeline), and the conversation that *)
(* a consultation forwards (Transcript).  A behaviour is about one part;   *)
(* the others rest.                                                        *)
(***************************************************************************)
EXTENDS Delegation, Attempt, Association, Opencode, Outcomes, Timeline, Transcript

VARIABLE part

Logged(name, what, text) ==
  [name |-> name, blocks |-> <<[what |-> what, text |-> text]>>, part |-> ""]
PartLine(name, text, id) == [Logged(name, "text", text) EXCEPT !.part = id]

MCEvents ==
  [codex |-> {Logged("UserMessage", "text", "MarkedPrompt"), Logged("AgentMessage", "text", "long"),
              Logged("AgentMessage", "text", "blank"), Logged("custom_tool_call", "text", "call"),
              Logged("CommandExecution", "text", "call"),
              Logged("function_call_output", "text", "output")},
   opencode |-> {Logged("user_message", "text", "PromptText"),
                 PartLine("agent_message", "PromptText", "p1"),
                 PartLine("agent_message", "grown", "p1"),
                 PartLine("agent_message", "think tag", "p2"),
                 PartLine("reasoning", "thought", "p2")},
   claude |-> {Logged("user", "text", "MarkedPrompt"), Logged("summary", "text", "said"),
               Logged("user", "tool_result", "output"),
               [name |-> "assistant", part |-> "",
                blocks |-> <<[what |-> "thinking", text |-> "thought"],
                             [what |-> "text", text |-> "blank"],
                             [what |-> "tool_use", text |-> "Edit"],
                             [what |-> "tool_use", text |-> "Bash"]>>]},
   agy |-> {Logged("USER_INPUT", "content", "PromptText"), Logged("SYSTEM", "content", "said"),
            Logged("GENERIC", "content", "output"),
            [name |-> "PLANNER_RESPONSE", part |-> "",
             blocks |-> <<[what |-> "thinking", text |-> "thought"],
                          [what |-> "content", text |-> "said"],
                          [what |-> "call", text |-> "write_to_file"],
                          [what |-> "call", text |-> "view_file"]>>]}]

MCSelections ==
  {{"messages"}, {"lifecycle", "messages", "tools", "edits", "reasoning", "tool_results"}}

MCRequests ==
  {[input |-> {3}, cached |-> {1}, write |-> {1}, output |-> {1}],
   [input |-> {1}, cached |-> {0}, write |-> {}, output |-> {2}],
   [input |-> {2}, cached |-> {2}, write |-> {0}, output |-> {1}]}

MCSaid ==
  [claude |-> {Logged("user", "text", "long"), Logged("user", "tool_result", "output"),
               Logged("summary", "text", "short")},
   codex |-> {Logged("UserMessage", "text", "short"), Logged("function_call", "tool_use", "tool")},
   kimi |-> {Logged("content.part", "thinking", "thought"),
             Logged("context.append_message", "text", "long"),
             Logged("config.update", "text", "short")},
   agy |-> {Logged("USER_INPUT", "content", "short"), Logged("PLANNER_RESPONSE", "content", "blank")}]

\* A server of the person's harness, one inside a backend, and one with a broken marker.
MCTopMarkers == {Unmarked, 1, Malformed}

\* An agy consultation is refused.
MCAsks ==
  [runner : {"codex", "claude"}, purpose : {"execute", "consult"}]
    \cup {[runner |-> "agy", purpose |-> "execute"]}
WholeResult(status, response, error, denied) ==
  [is |-> "whole", status |-> status, response |-> response, error |-> error, denied |-> denied]
MCAgyResults ==
  {Oversized,
   WholeResult("SUCCESS", <<"text">>, <<>>, FALSE),
   WholeResult("SUCCESS", <<>>, <<>>, TRUE),
   WholeResult("SUCCESS", <<"rate limit">>, <<>>, TRUE),
   WholeResult("SUCCESS", <<"text">>, <<"rate limit">>, FALSE),
   WholeResult("ERROR", <<>>, <<>>, FALSE),
   WholeResult("none", <<"text">>, <<>>, FALSE)}

-----------------------------------------------------------------------------
AttemptRests == AttemptInit /\ host = [platform |-> "linux", mode |-> "Off", located |-> FALSE]
OpencodeRests == OpencodeInit /\ turn = "fresh"
TimelineRests == TimelineInit /\ format = "tokens"
OutcomesRest == OutcomesInit /\ ask = [runner |-> "codex", purpose |-> "consult", models |-> 1]
TreeRests == danger = FALSE /\ approvals = {} /\ servers = <<>> /\ delegated = <<>>

\* Every part at rest but the one the behaviour is about.
AgentsInit ==
  /\ part \in {"attempt", "rows", "opencode", "outcome", "timeline", "transcript", "tree"}
  /\ AssociationInit /\ TranscriptInit
  /\ IF part = "attempt" THEN AttemptInit ELSE AttemptRests
  /\ IF part = "opencode" THEN OpencodeInit ELSE OpencodeRests
  /\ IF part = "outcome" THEN OutcomesInit ELSE OutcomesRest
  /\ IF part = "timeline" THEN TimelineInit ELSE TimelineRests
  /\ IF part = "tree" THEN DelegationInit ELSE TreeRests

AgentsNext ==
  /\ part' = part
  /\ \/ part = "attempt" /\ AttemptNext
        /\ UNCHANGED <<agentVars, opencodeVars, outcomeVars, timelineVars, transcriptVars, delegationVars>>
     \/ part = "rows" /\ AssociationNext
        /\ UNCHANGED <<attemptVars, opencodeVars, outcomeVars, timelineVars, transcriptVars, delegationVars>>
     \/ part = "opencode" /\ OpencodeNext
        /\ UNCHANGED <<attemptVars, agentVars, outcomeVars, timelineVars, transcriptVars, delegationVars>>
     \/ part = "outcome" /\ OutcomesNext
        /\ UNCHANGED <<attemptVars, agentVars, opencodeVars, timelineVars, transcriptVars, delegationVars>>
     \/ part = "timeline" /\ TimelineNext
        /\ UNCHANGED <<attemptVars, agentVars, opencodeVars, outcomeVars, transcriptVars, delegationVars>>
     \/ part = "transcript" /\ TranscriptNext
        /\ UNCHANGED <<attemptVars, agentVars, opencodeVars, outcomeVars, timelineVars, delegationVars>>
     \/ part = "tree" /\ DelegationNext
        /\ UNCHANGED <<attemptVars, agentVars, opencodeVars, outcomeVars, timelineVars, transcriptVars>>

\* Attempt's guard, and opencode's run and its reader of events, keep going.
AgentsSpec ==
  /\ AgentsInit
  /\ [][AgentsNext]_<<part, attemptVars, agentVars, opencodeVars, outcomeVars, timelineVars,
                      transcriptVars, delegationVars>>
  /\ AttemptFairness
  /\ WF_opencodeVars(part = "opencode" /\ OpencodeStep)
  /\ WF_opencodeVars(part = "opencode" /\ StreamProceeds)
=============================================================================

------------------------------ MODULE RunBoard ------------------------------
(***************************************************************************)
(* What the dispatch store promises its readers, without saying who writes  *)
(* it: runs get sequential ids, each run is queued once, may run, ends      *)
(* once and never changes afterwards, and an execution that did not ask for *)
(* allow_concurrent is admitted only into a directory with no active        *)
(* execution.  `Dispatch' implements it.                                    *)
(***************************************************************************)
EXTENDS Naturals

CONSTANTS
    MaxRuns,    \* bound on the number of rows the model creates
    Dirs        \* canonical working directories

ASSUME MaxRunsAssumption == MaxRuns \in Nat \ {0}
ASSUME DirsAssumption == Dirs # {}

VARIABLES
    status,     \* the status column; "none" for an id not allocated yet
    claim       \* the columns the working-directory guard reads

boardVars == <<status, claim>>

Runs == 1..MaxRuns

ActiveStatus   == {"queued", "running"}
TerminalStatus == {"succeeded", "failed", "cancelled", "interrupted"}
Status         == {"none"} \cup ActiveStatus \cup TerminalStatus

Claim == [kind : {"execute", "consult"}, dir : Dirs, concurrent : BOOLEAN]

Active(i)   == status[i] \in ActiveStatus
Terminal(i) == status[i] \in TerminalStatus

\* Ids come from a counter bumped in the inserting transaction, so they are
\* dense: the next id is the least one without a row.
NextId(i) == status[i] = "none" /\ \A j \in Runs : j < i => status[j] # "none"

\* active_for_dir: consultations take no working-directory slot.
Occupies(i, d) == Active(i) /\ claim[i].kind = "execute" /\ claim[i].dir = d

\* An insert with the guard finds no active execution in its directory.
Admits(c) ==
    c.kind = "execute" /\ ~c.concurrent => \A j \in Runs : ~Occupies(j, c.dir)

BoardTypeOK ==
    /\ status \in [Runs -> Status]
    /\ claim \in [Runs -> Claim]

BoardInit ==
    /\ status = [i \in Runs |-> "none"]
    /\ claim \in [Runs -> Claim]

Queue(i, c) ==
    /\ NextId(i)
    /\ Admits(c)
    /\ status' = [status EXCEPT ![i] = "queued"]
    /\ claim' = [claim EXCEPT ![i] = c]

Run(i) ==
    /\ Active(i)
    /\ status' = [status EXCEPT ![i] = "running"]
    /\ UNCHANGED claim

End(i, t) ==
    /\ Active(i)
    /\ status' = [status EXCEPT ![i] = t]
    /\ UNCHANGED claim

BoardNext ==
    \E i \in Runs :
        \/ \E c \in Claim : Queue(i, c)
        \/ Run(i)
        \/ \E t \in TerminalStatus : End(i, t)

BoardSpec == BoardInit /\ [][BoardNext]_boardVars

-----------------------------------------------------------------------------
(* Two executions active in one directory: only because the one admitted    *)
(* later asked for allow_concurrent (store.rs, active_for_dir inside the    *)
(* inserting transaction).                                                  *)
DirGuard ==
    \A i, j \in Runs :
        i < j /\ Occupies(i, claim[j].dir) /\ Occupies(j, claim[j].dir)
            => claim[j].concurrent

(* "Terminal rows are never changed" (docs/spec/dispatch-server.rst): no    *)
(* step gives a row that ended another status.                              *)
TerminalRowsStay ==
    [][\A i \in Runs : Terminal(i) => status'[i] = status[i]]_boardVars
=============================================================================

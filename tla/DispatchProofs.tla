--------------------------- MODULE DispatchProofs ---------------------------
(* What the dispatch servers keep, for every number of servers, runs and    *)
(* directories.  The inductive invariant comes first: what a row, its task, *)
(* its process and its token in the registry know of one another between    *)
(* two steps, with one lemma per part that every step of the code keeps it. *)
(* The theorems follow from it.                                             *)
EXTENDS Dispatch, TLAPS

-----------------------------------------------------------------------------
(* What follows from the store's promise alone (RunBoard).                  *)

(* Ids are handed out without gaps (the counter in the insert transaction). *)
Dense == \A i, j \in Runs : i < j /\ status[j] # "none" => status[i] # "none"

(* The directory guard in a form a step preserves: whoever came later, and  *)
(* whatever became of it since, saw the earlier execution that is active    *)
(* now, because a row that is active has been active ever since its insert. *)
Admitted ==
    \A i, j \in Runs :
        /\ i < j
        /\ status[j] # "none" /\ claim[j].kind = "execute"
        /\ Occupies(i, claim[j].dir)
        => claim[j].concurrent

BoardInv == BoardTypeOK /\ Dense /\ Admitted

(* An inserted row, a started row and an ended row keep the ids dense and   *)
(* the guard's record true (store.rs insert_queued, mark_running, finish).  *)
LEMMA BoardStep == BoardInv /\ [BoardNext]_boardVars => BoardInv'
<1> USE DEF BoardInv, boardVars
<1> SUFFICES ASSUME BoardInv, [BoardNext]_boardVars PROVE BoardInv'
    OBVIOUS
<1>1. ASSUME NEW i \in Runs, NEW c \in Claim, Queue(i, c) PROVE BoardInv'
    <2>1. BoardTypeOK'
        BY <1>1 DEF BoardTypeOK, Queue, Status, ActiveStatus
    <2>2. Dense'
        BY <1>1, MaxRunsAssumption
        DEF Dense, Queue, NextId, BoardTypeOK, Runs
    <2>3. Admitted'
        <3> SUFFICES ASSUME NEW a \in Runs, NEW b \in Runs, a < b,
                            (status[b] # "none")', (claim[b].kind = "execute")',
                            Occupies(a, claim[b].dir)'
                     PROVE  claim[b].concurrent'
            BY DEF Admitted
        <3>1. CASE b = i
            BY <1>1, <3>1, MaxRunsAssumption
            DEF Queue, Admits, Occupies, Active, BoardTypeOK, Claim, Runs
        <3>2. CASE b # i
            <4>1. status[b] # "none" /\ a # i
                BY <1>1, <3>2 DEF Queue, NextId, BoardTypeOK, Dense
            <4> QED
                BY <1>1, <3>2, <4>1
                DEF Queue, Admitted, Occupies, Active, BoardTypeOK
        <3> QED BY <3>1, <3>2
    <2> QED BY <2>1, <2>2, <2>3
<1>2. ASSUME NEW i \in Runs, Run(i) PROVE BoardInv'
    BY <1>2 DEF Run, BoardTypeOK, Dense, Admitted, Occupies, Active, Status,
                ActiveStatus
<1>3. ASSUME NEW i \in Runs, NEW t \in TerminalStatus, End(i, t) PROVE BoardInv'
    BY <1>3 DEF End, BoardTypeOK, Dense, Admitted, Occupies, Active, Status,
                ActiveStatus, TerminalStatus
<1>4. CASE UNCHANGED boardVars
    BY <1>4 DEF BoardTypeOK, Dense, Admitted, Occupies, Active
<1> QED BY <1>1, <1>2, <1>3, <1>4 DEF BoardNext

(* The promise keeps its inductive invariant.                               *)
THEOREM BoardInvariant == BoardSpec => []BoardInv
<1>1. BoardInit => BoardInv
    BY DEF BoardInit, BoardInv, BoardTypeOK, Dense, Admitted, Occupies, Active,
           Status, ActiveStatus
<1> QED BY <1>1, BoardStep, PTL DEF BoardSpec

(* Two executions active in one directory: the later one asked for it.      *)
THEOREM BoardDirGuard == BoardSpec => []DirGuard
<1>1. BoardInv => DirGuard
    BY DEF BoardInv, Admitted, DirGuard, Occupies, Active, ActiveStatus
<1> QED BY <1>1, BoardInvariant, PTL

(* A row that ended keeps its status.                                       *)
THEOREM BoardTerminalRowsStay == BoardSpec => TerminalRowsStay
<1>1. BoardInv /\ [BoardNext]_boardVars
        => [\A i \in Runs : Terminal(i) => status'[i] = status[i]]_boardVars
    BY DEF BoardInv, BoardTypeOK, BoardNext, Queue, Run, End, NextId, Terminal,
           Active, ActiveStatus, TerminalStatus, boardVars
<1> QED BY <1>1, BoardInvariant, PTL DEF BoardSpec, TerminalRowsStay

-----------------------------------------------------------------------------
(* What the dispatch servers keep (Dispatch).                               *)


(* Every step of the code keeps the state of its type.                      *)
LEMMA TypeStep == TypeOK /\ [Next]_vars => TypeOK'
<1> USE DEF TypeOK, BoardTypeOK, store, task, Origin, ServerState, Pc, Outcome,
            Steer, NoSteer, Claim, Status, ActiveStatus, TerminalStatus
<1> SUFFICES ASSUME TypeOK, [Next]_vars PROVE TypeOK'
    OBVIOUS
<1>1. ASSUME NEW s \in Servers, ServerProceeds(s) PROVE TypeOK'
  <2>1. ASSUME NEW i \in Runs, BootJudge(s, i) PROVE TypeOK'
      BY <2>1 DEF BootJudge, MarkInterrupted
  <2>2. CASE Serve(s)
      BY <2>2 DEF Serve
  <2>3. CASE SteerPoll(s)
      BY <2>3 DEF SteerPoll
  <2>4. ASSUME NEW i \in Runs, NEW b \in BOOLEAN, SteerInsert(s, i, b)
        PROVE  TypeOK'
      BY <2>4 DEF SteerInsert, InsertQueued
  <2>5. CASE SteerGivesUp(s)
      BY <2>5 DEF SteerGivesUp
  <2>6. CASE SteerPollFails(s)
      BY <2>6 DEF SteerPollFails
  <2> QED
      BY <1>1, <2>1, <2>2, <2>3, <2>4, <2>5, <2>6 DEF ServerProceeds
<1>2. ASSUME NEW s \in Servers, CallStep(s) PROVE TypeOK'
  <2>1. ASSUME NEW i \in Runs, NEW d \in Dirs, NEW b \in BOOLEAN, Submit(s, i, d, b)
        PROVE  TypeOK'
      BY <2>1 DEF Submit, InsertQueued
  <2>2. ASSUME NEW i \in Runs, NEW d \in Dirs, Consult(s, i, d) PROVE TypeOK'
      BY <2>2 DEF Consult, InsertQueued
  <2>3. ASSUME NEW i \in Runs, Cancel(s, i) PROVE TypeOK'
      BY <2>3 DEF Cancel, RequestCancel
  <2>4. ASSUME NEW p \in Runs, SteerCancel(s, p) PROVE TypeOK'
      BY <2>4 DEF SteerCancel, RequestCancel
  <2>5. ASSUME NEW p \in Runs, SteerEnded(s, p) PROVE TypeOK'
      BY <2>5 DEF SteerEnded
  <2> QED
      BY <1>2, <2>1, <2>2, <2>3, <2>4, <2>5 DEF CallStep
<1>3. ASSUME NEW s \in Servers, ProcessStep(s) PROVE TypeOK'
  <2>1. CASE Boot(s)
      BY <2>1 DEF Boot
  <2>2. CASE Signal(s)
      BY <2>2 DEF Signal
  <2>3. CASE ShutdownDrained(s)
      BY <2>3 DEF ShutdownDrained, Exit
  <2>4. CASE ServerGone(s)
      BY <2>4 DEF ServerGone, Exit
  <2> QED
      BY <1>3, <2>1, <2>2, <2>3, <2>4 DEF ProcessStep
<1>4. ASSUME NEW i \in Runs, TaskStep(i) PROVE TypeOK'
  <2>1. CASE Spawn(i)
      <3>1. PICK o : /\ registry' = [registry EXCEPT ![o] = @ \cup {i}]
                     /\ pc' = [pc EXCEPT ![i] = "starting"]
                     /\ UNCHANGED <<store, srv, booting, steer, event, proc, token, verdict, outcome>>
          BY <2>1 DEF Spawn
      <3>2. registry \in [Servers -> SUBSET Runs] /\ pc \in [Runs -> Pc] /\ i \in Runs
          OBVIOUS
      <3>3. registry' \in [Servers -> SUBSET Runs]
          BY ONLY <3>1, <3>2
      <3>4. pc' \in [Runs -> Pc]
          BY ONLY <3>1, <3>2 DEF Pc
      <3> QED BY <3>1, <3>3, <3>4
  <2>2. CASE AttemptPassesCheck(i)
      BY <2>2 DEF AttemptPassesCheck
  <2>3. CASE CancelledBeforeStart(i)
      BY <2>3 DEF CancelledBeforeStart
  <2>4. CASE AttemptSpawns(i)
      BY <2>4 DEF AttemptSpawns
  <2>5. CASE BackendKilled(i)
      BY <2>5 DEF BackendKilled
  <2>6. CASE ConsumeStarted(i)
      BY <2>6 DEF ConsumeStarted
  <2>7. CASE Finish(i)
      BY <2>7 DEF Finish
  <2>8. CASE DecideRestart(i)
      BY <2>8 DEF DecideRestart
  <2>9. CASE RestartMark(i)
      BY <2>9 DEF RestartMark, MarkInterrupted
  <2>10. ASSUME NEW j \in Runs, RestartInsert(i, j) PROVE TypeOK'
      BY <2>10 DEF RestartInsert, InsertQueued, Owner
  <2>11. CASE RestartGivesUp(i)
      BY <2>11 DEF RestartGivesUp
  <2>12. CASE Deregister(i)
      BY <2>12 DEF Deregister
  <2>13. ASSUME NEW o \in {"succeeded", "failed"}, AttemptEnds(i, o) PROVE TypeOK'
      BY <2>13 DEF AttemptEnds
  <2>14. CASE AttemptRetries(i)
      BY <2>14 DEF AttemptRetries
  <2>15. CASE WatchdogFires(i)
      BY <2>15 DEF WatchdogFires
  <2>16. CASE StartUnrecorded(i)
      BY <2>16 DEF StartUnrecorded
  <2>17. CASE EndUnrecorded(i)
      BY <2>17 DEF EndUnrecorded
  <2> QED
      BY <1>4, <2>1, <2>2, <2>3, <2>4, <2>5, <2>6, <2>7, <2>8, <2>9, <2>10, <2>11,
         <2>12, <2>13, <2>14, <2>15, <2>16, <2>17
         DEF TaskStep, TaskProceeds
<1>5. ASSUME NEW i \in Runs, ReadReconcile(i) PROVE TypeOK'
    BY <1>5 DEF ReadReconcile, MarkInterrupted
<1>6. ASSUME NEW i \in Runs, GuardKills(i) PROVE TypeOK'
    BY <1>6 DEF GuardKills
<1>7. CASE UNCHANGED vars
    BY <1>7 DEF vars
<1> QED
    BY <1>1, <1>2, <1>3, <1>4, <1>5, <1>6, <1>7 DEF Next

(* An id without a row has nothing else (store.rs insert_queued writes the  *)
(* row before anybody learns the id).                                       *)
NewRowsBlank ==
    \A i \in Runs : status[i] = "none" => pc[i] = "none" /\ Owner(i) = NoServer /\ ~proc[i]

(* A server inserts no row before it serves (main.rs run_server).           *)
NoRowsBeforeServing ==
    \A i \in Runs, s \in Servers : srv[s] \in {"absent", "booting"} => Owner(i) # s

(* A chain that is over has its outcome (agent-exec run.rs fallback_chain). *)
ChainHasOutcome ==
    \A i \in Runs : pc[i] = "over" => outcome[i] \in {"succeeded", "failed", "cancelled"}

(* A task on its way to a terminal write finds its row active.              *)
TasksRowActive ==
    \A i \in Runs : Exists(Owner(i)) /\ pc[i] \in Working => Active(i)

Core == NewRowsBlank /\ NoRowsBeforeServing /\ ChainHasOutcome /\ TasksRowActive

(* The rows of a running server stay in step with its tasks.  The clock     *)
(* must not move: ReadsGone would end the rows of live tasks.               *)
LEMMA CoreStep == ASSUME ~ClockMoves PROVE TypeOK /\ Core /\ [Next]_vars => Core'
<1> SUFFICES ASSUME TypeOK, Core, [Next]_vars PROVE Core'
    OBVIOUS
<1>0. TypeOK'
    BY TypeStep
<1> USE NoServerAssumption, <1>0
        DEF Core, NewRowsBlank, NoRowsBeforeServing, ChainHasOutcome, TasksRowActive,
            Working, TypeOK, BoardTypeOK, Active, ActiveStatus, TerminalStatus,
            Status, Owner, Exists, Serving, Tasks, Driving, Settled, ReadsGone,
            store, task, Origin, ServerState, Pc, Outcome
<1>1. ASSUME NEW s \in Servers, ServerProceeds(s) PROVE Core'
  <2>1. ASSUME NEW i \in Runs, BootJudge(s, i) PROVE Core'
      BY <2>1 DEF BootJudge, MarkInterrupted
  <2>2. CASE Serve(s)
      BY <2>2 DEF Serve
  <2>3. CASE SteerPoll(s)
      BY <2>3 DEF SteerPoll
  <2>4. ASSUME NEW i \in Runs, NEW b \in BOOLEAN, SteerInsert(s, i, b)
        PROVE  Core'
      BY <2>4 DEF SteerInsert, InsertQueued
  <2>5. CASE SteerGivesUp(s)
      BY <2>5 DEF SteerGivesUp
  <2>6. CASE SteerPollFails(s)
      BY <2>6 DEF SteerPollFails
  <2> QED
      BY <1>1, <2>1, <2>2, <2>3, <2>4, <2>5, <2>6 DEF ServerProceeds
<1>2. ASSUME NEW s \in Servers, CallStep(s) PROVE Core'
  <2>1. ASSUME NEW i \in Runs, NEW d \in Dirs, NEW b \in BOOLEAN, Submit(s, i, d, b)
        PROVE  Core'
      BY <2>1 DEF Submit, InsertQueued
  <2>2. ASSUME NEW i \in Runs, NEW d \in Dirs, Consult(s, i, d) PROVE Core'
      BY <2>2 DEF Consult, InsertQueued
  <2>3. ASSUME NEW i \in Runs, Cancel(s, i) PROVE Core'
      BY <2>3 DEF Cancel, RequestCancel
  <2>4. ASSUME NEW p \in Runs, SteerCancel(s, p) PROVE Core'
      BY <2>4 DEF SteerCancel, RequestCancel
  <2>5. ASSUME NEW p \in Runs, SteerEnded(s, p) PROVE Core'
      BY <2>5 DEF SteerEnded
  <2> QED
      BY <1>2, <2>1, <2>2, <2>3, <2>4, <2>5 DEF CallStep
<1>3. ASSUME NEW s \in Servers, ProcessStep(s) PROVE Core'
  <2>1. CASE Boot(s)
      BY <2>1 DEF Boot
  <2>2. CASE Signal(s)
      BY <2>2 DEF Signal
  <2>3. CASE ShutdownDrained(s)
      BY <2>3 DEF ShutdownDrained, Exit
  <2>4. CASE ServerGone(s)
      BY <2>4 DEF ServerGone, Exit
  <2> QED
      BY <1>3, <2>1, <2>2, <2>3, <2>4 DEF ProcessStep
<1>4. ASSUME NEW i \in Runs, TaskStep(i) PROVE Core'
  <2>1. CASE Spawn(i)
      BY <2>1 DEF Spawn
  <2>2. CASE AttemptPassesCheck(i)
      BY <2>2 DEF AttemptPassesCheck
  <2>3. CASE CancelledBeforeStart(i)
      BY <2>3 DEF CancelledBeforeStart
  <2>4. CASE AttemptSpawns(i)
      BY <2>4 DEF AttemptSpawns
  <2>5. CASE BackendKilled(i)
      BY <2>5 DEF BackendKilled
  <2>6. CASE ConsumeStarted(i)
      BY <2>6 DEF ConsumeStarted
  <2>7. CASE Finish(i)
      BY <2>7 DEF Finish
  <2>8. CASE DecideRestart(i)
      BY <2>8 DEF DecideRestart
  <2>9. CASE RestartMark(i)
      BY <2>9 DEF RestartMark, MarkInterrupted
  <2>10. ASSUME NEW j \in Runs, RestartInsert(i, j) PROVE Core'
      <3>1. /\ pc[j] = "none" /\ j # i /\ pc[i] = "inserting"
            /\ Owner(i) \in Servers /\ srv[Owner(i)] \in {"up", "stopping"}
          BY <2>10 DEF RestartInsert, InsertQueued, NextId
      <3>2. /\ pc' = [pc EXCEPT ![i] = "ended", ![j] = "inserted"]
            /\ status' = [status EXCEPT ![j] = "queued"]
            /\ \A k \in Runs : Owner(k)' = IF k = j THEN Owner(i) ELSE Owner(k)
            /\ UNCHANGED <<srv, proc, outcome>>
          BY <2>10 DEF RestartInsert, InsertQueued
      <3>3. NewRowsBlank' /\ NoRowsBeforeServing' /\ ChainHasOutcome'
          BY <3>1, <3>2
      <3>4. TasksRowActive'
          <4> SUFFICES ASSUME NEW k \in Runs, (Exists(Owner(k)) /\ pc[k] \in Working)'
                       PROVE  Active(k)'
              OBVIOUS
          <4>1. CASE k = j
              BY <3>1, <3>2, <4>1
          <4>2. CASE k = i
              BY <3>1, <3>2, <4>2
          <4>3. CASE k # i /\ k # j
              BY <3>1, <3>2, <4>3
          <4> QED BY <4>1, <4>2, <4>3
      <3> QED BY <3>3, <3>4
  <2>11. CASE RestartGivesUp(i)
      BY <2>11 DEF RestartGivesUp
  <2>12. CASE Deregister(i)
      BY <2>12 DEF Deregister
  <2>13. ASSUME NEW o \in {"succeeded", "failed"}, AttemptEnds(i, o) PROVE Core'
      BY <2>13 DEF AttemptEnds
  <2>14. CASE AttemptRetries(i)
      BY <2>14 DEF AttemptRetries
  <2>15. CASE WatchdogFires(i)
      BY <2>15 DEF WatchdogFires
  <2>16. CASE StartUnrecorded(i)
      BY <2>16 DEF StartUnrecorded
  <2>17. CASE EndUnrecorded(i)
      BY <2>17 DEF EndUnrecorded
  <2> QED
      BY <1>4, <2>1, <2>2, <2>3, <2>4, <2>5, <2>6, <2>7, <2>8, <2>9, <2>10, <2>11,
         <2>12, <2>13, <2>14, <2>15, <2>16, <2>17
         DEF TaskStep, TaskProceeds
<1>5. ASSUME NEW i \in Runs, ReadReconcile(i) PROVE Core'
    BY <1>5 DEF ReadReconcile, MarkInterrupted
<1>6. ASSUME NEW i \in Runs, GuardKills(i) PROVE Core'
    BY <1>6 DEF GuardKills
<1>7. CASE UNCHANGED vars
    BY <1>7 DEF vars
<1> QED
    BY <1>1, <1>2, <1>3, <1>4, <1>5, <1>6, <1>7 DEF Next

(* A row the code inserts is one the promise admits: every insert of an     *)
(* execution that is not concurrent passes the directory to insert_queued.  *)
LEMMA InsertQueues ==
    ASSUME TypeOK, NEW i \in Runs, NEW c \in Claim, NEW o, NEW enforce \in BOOLEAN,
           c.kind = "execute" /\ ~c.concurrent => enforce,
           InsertQueued(i, c, o, enforce)
    PROVE  BoardNext
<1>1. Queue(i, c)
    BY DEF InsertQueued, Queue, Admits
<1> QED BY <1>1 DEF BoardNext

(* Every step of the servers is a step of the promise or leaves the rows    *)
(* alone: the unconditional writes of ConsumeStarted and Finish find an     *)
(* active row, because their task is on its way (Core).                     *)
LEMMA BoardRefined ==
    ASSUME TypeOK, Core, [Next]_vars, ~ClockMoves PROVE [BoardNext]_boardVars
<1> USE DEF boardVars, store
<1>1. ASSUME NEW s \in Servers, ServerProceeds(s) PROVE [BoardNext]_boardVars
  <2>1. ASSUME NEW i \in Runs, BootJudge(s, i) PROVE [BoardNext]_boardVars
      BY <2>1 DEF BootJudge, MarkInterrupted, BoardNext, End, TerminalStatus
  <2>2. CASE Serve(s)
      BY <2>2 DEF Serve
  <2>3. CASE SteerPoll(s)
      BY <2>3 DEF SteerPoll
  <2>4. ASSUME NEW i \in Runs, NEW b \in BOOLEAN, SteerInsert(s, i, b)
        PROVE  [BoardNext]_boardVars
      <3> DEFINE c == [kind |-> "execute", dir |-> claim[steer[s].parent].dir, concurrent |-> b]
      <3>1. steer[s] # NoSteer
          BY <2>4 DEF SteerInsert, NoSteer
      <3>2. steer[s].parent \in Runs
          BY <3>1 DEF TypeOK, Steer
      <3>3. c \in Claim
          BY <3>2 DEF TypeOK, BoardTypeOK, Claim
      <3> QED BY <2>4, <3>3, InsertQueues DEF SteerInsert
  <2>5. CASE SteerGivesUp(s)
      BY <2>5 DEF SteerGivesUp
  <2>6. CASE SteerPollFails(s)
      BY <2>6 DEF SteerPollFails
  <2> QED
      BY <1>1, <2>1, <2>2, <2>3, <2>4, <2>5, <2>6 DEF ServerProceeds
<1>2. ASSUME NEW s \in Servers, CallStep(s) PROVE [BoardNext]_boardVars
  <2>1. ASSUME NEW i \in Runs, NEW d \in Dirs, NEW b \in BOOLEAN, Submit(s, i, d, b)
        PROVE  [BoardNext]_boardVars
      <3> DEFINE c == [kind |-> "execute", dir |-> d, concurrent |-> b]
      <3> QED BY <2>1, InsertQueues DEF Submit, Claim
  <2>2. ASSUME NEW i \in Runs, NEW d \in Dirs, Consult(s, i, d) PROVE [BoardNext]_boardVars
      <3> DEFINE c == [kind |-> "consult", dir |-> d, concurrent |-> FALSE]
      <3> QED BY <2>2, InsertQueues DEF Consult, Claim
  <2>3. ASSUME NEW i \in Runs, Cancel(s, i) PROVE [BoardNext]_boardVars
      BY <2>3 DEF Cancel, RequestCancel
  <2>4. ASSUME NEW p \in Runs, SteerCancel(s, p) PROVE [BoardNext]_boardVars
      BY <2>4 DEF SteerCancel, RequestCancel
  <2>5. ASSUME NEW p \in Runs, SteerEnded(s, p) PROVE [BoardNext]_boardVars
      BY <2>5 DEF SteerEnded
  <2> QED
      BY <1>2, <2>1, <2>2, <2>3, <2>4, <2>5 DEF CallStep
<1>3. ASSUME NEW s \in Servers, ProcessStep(s) PROVE [BoardNext]_boardVars
  <2>1. CASE Boot(s)
      BY <2>1 DEF Boot
  <2>2. CASE Signal(s)
      BY <2>2 DEF Signal
  <2>3. CASE ShutdownDrained(s)
      BY <2>3 DEF ShutdownDrained, Exit
  <2>4. CASE ServerGone(s)
      BY <2>4 DEF ServerGone, Exit
  <2> QED
      BY <1>3, <2>1, <2>2, <2>3, <2>4 DEF ProcessStep
<1>4. ASSUME NEW i \in Runs, TaskStep(i) PROVE [BoardNext]_boardVars
  <2>1. CASE Spawn(i)
      BY <2>1 DEF Spawn
  <2>2. CASE AttemptPassesCheck(i)
      BY <2>2 DEF AttemptPassesCheck
  <2>3. CASE CancelledBeforeStart(i)
      BY <2>3 DEF CancelledBeforeStart
  <2>4. CASE AttemptSpawns(i)
      BY <2>4 DEF AttemptSpawns
  <2>5. CASE BackendKilled(i)
      BY <2>5 DEF BackendKilled
  <2>6. CASE ConsumeStarted(i)
      <3>1. Run(i)
          BY <2>6
             DEF ConsumeStarted, Driving, Run, Core, TasksRowActive, Working, Tasks,
                 Serving, Exists
      <3> QED BY <3>1 DEF BoardNext
  <2>7. CASE Finish(i)
      <3>1. End(i, outcome[i]) /\ outcome[i] \in TerminalStatus
          BY <2>7
             DEF Finish, Settled, End, Core, TasksRowActive, Working,
                 ChainHasOutcome, Tasks, Serving, Exists, TerminalStatus
      <3> QED BY <3>1 DEF BoardNext
  <2>8. CASE DecideRestart(i)
      BY <2>8 DEF DecideRestart
  <2>9. CASE RestartMark(i)
      BY <2>9 DEF RestartMark, MarkInterrupted, BoardNext, End, TerminalStatus
  <2>10. ASSUME NEW j \in Runs, RestartInsert(i, j) PROVE [BoardNext]_boardVars
      BY <2>10, InsertQueues DEF RestartInsert, TypeOK, BoardTypeOK, Claim
  <2>11. CASE RestartGivesUp(i)
      BY <2>11 DEF RestartGivesUp
  <2>12. CASE Deregister(i)
      BY <2>12 DEF Deregister
  <2>13. ASSUME NEW o \in {"succeeded", "failed"}, AttemptEnds(i, o) PROVE [BoardNext]_boardVars
      BY <2>13 DEF AttemptEnds
  <2>14. CASE AttemptRetries(i)
      BY <2>14 DEF AttemptRetries
  <2>15. CASE WatchdogFires(i)
      BY <2>15 DEF WatchdogFires
  <2>16. CASE StartUnrecorded(i)
      BY <2>16 DEF StartUnrecorded
  <2>17. CASE EndUnrecorded(i)
      BY <2>17 DEF EndUnrecorded
  <2> QED
      BY <1>4, <2>1, <2>2, <2>3, <2>4, <2>5, <2>6, <2>7, <2>8, <2>9, <2>10, <2>11,
         <2>12, <2>13, <2>14, <2>15, <2>16, <2>17
         DEF TaskStep, TaskProceeds
<1>5. ASSUME NEW i \in Runs, ReadReconcile(i) PROVE [BoardNext]_boardVars
    BY <1>5 DEF ReadReconcile, MarkInterrupted, BoardNext, End, TerminalStatus
<1>6. ASSUME NEW i \in Runs, GuardKills(i) PROVE [BoardNext]_boardVars
    BY <1>6 DEF GuardKills
<1>7. CASE UNCHANGED vars
    BY <1>7 DEF vars
<1> QED
    BY <1>1, <1>2, <1>3, <1>4, <1>5, <1>6, <1>7 DEF Next

(* What an insert does to the rows, however it was asked for.               *)
Inserted(i, c, o) ==
    /\ status[i] = "none" /\ pc[i] = "none" /\ ~proc[i] /\ Owner(i) = NoServer
    /\ \A k \in Runs : status'[k] = IF k = i THEN "queued" ELSE status[k]
    /\ \A k \in Runs : claim'[k] = IF k = i THEN c ELSE claim[k]
    /\ \A k \in Runs : origin'[k] = IF k = i THEN o ELSE origin[k]

(* An insert takes an id that has nothing yet and touches no other row      *)
(* (store.rs insert_queued).                                                *)
LEMMA InsertEffect ==
    ASSUME TypeOK, Core, NEW i \in Runs, NEW c, NEW o, NEW enforce,
           InsertQueued(i, c, o, enforce)
    PROVE  Inserted(i, c, o)
BY DEF TypeOK, BoardTypeOK, Core, NewRowsBlank, InsertQueued, NextId, Inserted

\* Where a task is between executor::spawn and its removal from the registry.
Registered == {"starting", "spawning", "live", "over", "marking", "inserting", "ended"}

(* A spawned task has its token in the registry until it deregisters        *)
(* (executor.rs spawn, run).                                                *)
SpawnedIsRegistered ==
    \A i \in Runs : pc[i] \in Registered => i \in registry[Owner(i)]

(* A backend is alive under a live attempt, or left behind.                 *)
ProcessHeld == \A i \in Runs : proc[i] => pc[i] \in {"live", "lost"}

(* A task is lost only with its server.                                     *)
LostWithServer == \A i \in Runs : pc[i] = "lost" => ~Exists(Owner(i))

Held == SpawnedIsRegistered /\ ProcessHeld /\ LostWithServer

(* Every step keeps processes with their tasks and tasks in the registry    *)
(* (executor.rs run, drive; main.rs graceful_shutdown).                     *)
LEMMA HeldStep ==
    ASSUME TypeOK, Core, Held, [Next]_vars, ~ClockMoves PROVE Held'
<1> USE NoServerAssumption
        DEF Core, NewRowsBlank, NoRowsBeforeServing, TasksRowActive, Working, Held,
            SpawnedIsRegistered, ProcessHeld, LostWithServer, Registered, TypeOK,
            BoardTypeOK, Active, ActiveStatus, TerminalStatus, Status, Owner, Exists,
            Serving, Tasks, Driving, Settled, ReadsGone, store, task, Origin,
            ServerState, Pc
<1>1. ASSUME NEW s \in Servers, ServerProceeds(s) PROVE Held'
  <2>1. ASSUME NEW i \in Runs, BootJudge(s, i) PROVE Held'
      BY <2>1 DEF BootJudge, MarkInterrupted
  <2>2. CASE Serve(s)
      BY <2>2 DEF Serve
  <2>3. CASE SteerPoll(s)
      BY <2>3 DEF SteerPoll
  <2>4. ASSUME NEW i \in Runs, NEW b \in BOOLEAN, SteerInsert(s, i, b)
        PROVE  Held'
      <3>0. Inserted(i, [kind |-> "execute", dir |-> claim[steer[s].parent].dir,
                         concurrent |-> b],
                        [owner |-> s, how |-> "steer", prior |-> steer[s].parent])
          BY <2>4, InsertEffect DEF SteerInsert, Origin, NoRun
      <3>1. /\ pc' = [pc EXCEPT ![i] = "inserted"]
            /\ UNCHANGED <<srv, registry, proc, token, verdict, outcome>>
          BY <2>4 DEF SteerInsert
      <3>2. SpawnedIsRegistered'
          BY <2>4, <3>0, <3>1 DEF SteerInsert, Inserted
      <3>3. ProcessHeld'
          BY <2>4, <3>0, <3>1 DEF SteerInsert, Inserted
      <3>4. LostWithServer'
          BY <2>4, <3>0, <3>1 DEF SteerInsert, Inserted
      <3> QED BY <3>2, <3>3, <3>4
  <2>5. CASE SteerGivesUp(s)
      BY <2>5 DEF SteerGivesUp
  <2>6. CASE SteerPollFails(s)
      BY <2>6 DEF SteerPollFails
  <2> QED
      BY <1>1, <2>1, <2>2, <2>3, <2>4, <2>5, <2>6 DEF ServerProceeds
<1>2. ASSUME NEW s \in Servers, CallStep(s) PROVE Held'
  <2>1. ASSUME NEW i \in Runs, NEW d \in Dirs, NEW b \in BOOLEAN, Submit(s, i, d, b)
        PROVE  Held'
      <3>0. Inserted(i, [kind |-> "execute", dir |-> d, concurrent |-> b],
                        [owner |-> s, how |-> "submit", prior |-> NoRun])
          BY <2>1, InsertEffect DEF Submit, Origin, NoRun
      <3>1. /\ pc' = [pc EXCEPT ![i] = "inserted"]
            /\ UNCHANGED <<srv, registry, proc, token, verdict, outcome>>
          BY <2>1 DEF Submit
      <3>2. SpawnedIsRegistered'
          BY <2>1, <3>0, <3>1 DEF Submit, Inserted
      <3>3. ProcessHeld'
          BY <2>1, <3>0, <3>1 DEF Submit, Inserted
      <3>4. LostWithServer'
          BY <2>1, <3>0, <3>1 DEF Submit, Inserted
      <3> QED BY <3>2, <3>3, <3>4
  <2>2. ASSUME NEW i \in Runs, NEW d \in Dirs, Consult(s, i, d) PROVE Held'
      <3>0. Inserted(i, [kind |-> "consult", dir |-> d, concurrent |-> FALSE],
                        [owner |-> s, how |-> "consult", prior |-> NoRun])
          BY <2>2, InsertEffect DEF Consult, Origin, NoRun
      <3>1. /\ pc' = [pc EXCEPT ![i] = "inserted"]
            /\ UNCHANGED <<srv, registry, proc, token, verdict, outcome>>
          BY <2>2 DEF Consult
      <3>2. SpawnedIsRegistered'
          BY <2>2, <3>0, <3>1 DEF Consult, Inserted
      <3>3. ProcessHeld'
          BY <2>2, <3>0, <3>1 DEF Consult, Inserted
      <3>4. LostWithServer'
          BY <2>2, <3>0, <3>1 DEF Consult, Inserted
      <3> QED BY <3>2, <3>3, <3>4
  <2>3. ASSUME NEW i \in Runs, Cancel(s, i) PROVE Held'
      BY <2>3 DEF Cancel, RequestCancel
  <2>4. ASSUME NEW p \in Runs, SteerCancel(s, p) PROVE Held'
      BY <2>4 DEF SteerCancel, RequestCancel
  <2>5. ASSUME NEW p \in Runs, SteerEnded(s, p) PROVE Held'
      BY <2>5 DEF SteerEnded
  <2> QED
      BY <1>2, <2>1, <2>2, <2>3, <2>4, <2>5 DEF CallStep
<1>3. ASSUME NEW s \in Servers, ProcessStep(s) PROVE Held'
  <2>1. CASE Boot(s)
      BY <2>1 DEF Boot
  <2>2. CASE Signal(s)
      BY <2>2 DEF Signal
  <2>3. CASE ShutdownDrained(s)
      BY <2>3 DEF ShutdownDrained, Exit
  <2>4. CASE ServerGone(s)
      BY <2>4 DEF ServerGone, Exit
  <2> QED
      BY <1>3, <2>1, <2>2, <2>3, <2>4 DEF ProcessStep
<1>4. ASSUME NEW i \in Runs, TaskStep(i) PROVE Held'
  <2>1. CASE Spawn(i)
      BY <2>1 DEF Spawn
  <2>2. CASE AttemptPassesCheck(i)
      BY <2>2 DEF AttemptPassesCheck
  <2>3. CASE CancelledBeforeStart(i)
      BY <2>3 DEF CancelledBeforeStart
  <2>4. CASE AttemptSpawns(i)
      BY <2>4 DEF AttemptSpawns
  <2>5. CASE BackendKilled(i)
      BY <2>5 DEF BackendKilled
  <2>6. CASE ConsumeStarted(i)
      BY <2>6 DEF ConsumeStarted
  <2>7. CASE Finish(i)
      BY <2>7 DEF Finish
  <2>8. CASE DecideRestart(i)
      BY <2>8 DEF DecideRestart
  <2>9. CASE RestartMark(i)
      BY <2>9 DEF RestartMark, MarkInterrupted
  <2>10. ASSUME NEW j \in Runs, RestartInsert(i, j) PROVE Held'
      <3>0. Inserted(j, claim[i], [owner |-> Owner(i), how |-> "restart", prior |-> i])
          BY <2>10, InsertEffect DEF RestartInsert, Origin, NoRun
      <3>1. /\ pc' = [pc EXCEPT ![i] = "ended", ![j] = "inserted"]
            /\ UNCHANGED <<srv, registry, proc, token, verdict, outcome>>
          BY <2>10 DEF RestartInsert
      <3>2. SpawnedIsRegistered'
          <4> SUFFICES ASSUME NEW k \in Runs, (pc[k] \in Registered)'
                       PROVE  (k \in registry[Owner(k)])'
              OBVIOUS
          <4>1. i # j /\ pc[i] = "inserting" /\ pc[j] = "none" /\ Tasks(i)
              BY <2>10, <3>0 DEF RestartInsert, Inserted
          <4>2. CASE k = j
              BY <3>0, <3>1, <4>1, <4>2 DEF Inserted
          <4>3. CASE k = i
              BY <3>0, <3>1, <4>1, <4>3 DEF Inserted
          <4>4. CASE k # i /\ k # j
              BY <3>0, <3>1, <4>1, <4>4 DEF Inserted
          <4> QED BY <4>2, <4>3, <4>4
      <3>3. ProcessHeld'
          BY <2>10, <3>0, <3>1 DEF RestartInsert, Inserted
      <3>4. LostWithServer'
          BY <2>10, <3>0, <3>1 DEF RestartInsert, Inserted
      <3> QED BY <3>2, <3>3, <3>4
  <2>11. CASE RestartGivesUp(i)
      BY <2>11 DEF RestartGivesUp
  <2>12. CASE Deregister(i)
      BY <2>12 DEF Deregister
  <2>13. ASSUME NEW o \in {"succeeded", "failed"}, AttemptEnds(i, o) PROVE Held'
      BY <2>13 DEF AttemptEnds
  <2>14. CASE AttemptRetries(i)
      BY <2>14 DEF AttemptRetries
  <2>15. CASE WatchdogFires(i)
      BY <2>15 DEF WatchdogFires
  <2>16. CASE StartUnrecorded(i)
      BY <2>16 DEF StartUnrecorded
  <2>17. CASE EndUnrecorded(i)
      BY <2>17 DEF EndUnrecorded
  <2> QED
      BY <1>4, <2>1, <2>2, <2>3, <2>4, <2>5, <2>6, <2>7, <2>8, <2>9, <2>10, <2>11,
         <2>12, <2>13, <2>14, <2>15, <2>16, <2>17
         DEF TaskStep, TaskProceeds
<1>5. ASSUME NEW i \in Runs, ReadReconcile(i) PROVE Held'
    BY <1>5 DEF ReadReconcile, MarkInterrupted
<1>6. ASSUME NEW i \in Runs, GuardKills(i) PROVE Held'
    BY <1>6 DEF GuardKills
<1>7. CASE UNCHANGED vars
    BY <1>7 DEF vars
<1> QED
    BY <1>1, <1>2, <1>3, <1>4, <1>5, <1>6, <1>7 DEF Next

(* EndsForAReason with what it takes on the way: an outcome, and a restart  *)
(* in progress, have their cause too (executor.rs drive, restart).          *)
EndCaused ==
    \A i \in Runs :
        /\ status[i] = "cancelled" => token[i]
        /\ pc[i] = "over" /\ outcome[i] = "cancelled" => AttemptCancelled(i)
        /\ pc[i] \in {"marking", "inserting"} => verdict[i]
        /\ status[i] = "interrupted" =>
             ~Exists(Owner(i)) \/ (verdict[i] /\ pc[i] \in {"inserting", "ended", "done"})

(* Every step that ends a row has its cause (executor.rs drive, finish,     *)
(* restart; main.rs reconcile).                                             *)
LEMMA CausedStep ==
    ASSUME TypeOK, Core, EndCaused, [Next]_vars, ~ClockMoves PROVE EndCaused'
<1>0. TypeOK' /\ Core'
    BY TypeStep, CoreStep
<1> USE <1>0, NoServerAssumption
        DEF Core, NewRowsBlank, NoRowsBeforeServing, TasksRowActive, Working,
            ChainHasOutcome, EndCaused, AttemptCancelled, TypeOK, BoardTypeOK,
            Active, ActiveStatus, TerminalStatus, Status, Owner, Exists, Serving,
            Tasks, Driving, Settled, ReadsGone, store, task, Origin, ServerState, Pc,
            NoRun
<1>1. ASSUME NEW s \in Servers, ServerProceeds(s) PROVE EndCaused'
  <2>1. ASSUME NEW i \in Runs, BootJudge(s, i) PROVE EndCaused'
      BY <2>1 DEF BootJudge, MarkInterrupted, MarkInterrupted
  <2>2. CASE Serve(s)
      BY <2>2 DEF Serve
  <2>3. CASE SteerPoll(s)
      BY <2>3 DEF SteerPoll
  <2>4. ASSUME NEW i \in Runs, NEW b \in BOOLEAN, SteerInsert(s, i, b)
        PROVE  EndCaused'
      <3>0. Inserted(i, [kind |-> "execute", dir |-> claim[steer[s].parent].dir,
                         concurrent |-> b],
                        [owner |-> s, how |-> "steer", prior |-> steer[s].parent])
          BY <2>4, InsertEffect DEF SteerInsert, Origin, NoRun
      <3>1. /\ pc' = [pc EXCEPT ![i] = "inserted"]
            /\ UNCHANGED <<srv, registry, proc, token, verdict, outcome>>
          BY <2>4 DEF SteerInsert
      <3>2. EndCaused'
          BY <2>4, <3>0, <3>1 DEF SteerInsert, Inserted
      <3> QED BY <3>2
  <2>5. CASE SteerGivesUp(s)
      BY <2>5 DEF SteerGivesUp
  <2>6. CASE SteerPollFails(s)
      BY <2>6 DEF SteerPollFails
  <2> QED
      BY <1>1, <2>1, <2>2, <2>3, <2>4, <2>5, <2>6 DEF ServerProceeds
<1>2. ASSUME NEW s \in Servers, CallStep(s) PROVE EndCaused'
  <2>1. ASSUME NEW i \in Runs, NEW d \in Dirs, NEW b \in BOOLEAN, Submit(s, i, d, b)
        PROVE  EndCaused'
      <3>0. Inserted(i, [kind |-> "execute", dir |-> d, concurrent |-> b],
                        [owner |-> s, how |-> "submit", prior |-> NoRun])
          BY <2>1, InsertEffect DEF Submit, Origin, NoRun
      <3>1. /\ pc' = [pc EXCEPT ![i] = "inserted"]
            /\ UNCHANGED <<srv, registry, proc, token, verdict, outcome>>
          BY <2>1 DEF Submit
      <3>2. EndCaused'
          BY <2>1, <3>0, <3>1 DEF Submit, Inserted
      <3> QED BY <3>2
  <2>2. ASSUME NEW i \in Runs, NEW d \in Dirs, Consult(s, i, d) PROVE EndCaused'
      <3>0. Inserted(i, [kind |-> "consult", dir |-> d, concurrent |-> FALSE],
                        [owner |-> s, how |-> "consult", prior |-> NoRun])
          BY <2>2, InsertEffect DEF Consult, Origin, NoRun
      <3>1. /\ pc' = [pc EXCEPT ![i] = "inserted"]
            /\ UNCHANGED <<srv, registry, proc, token, verdict, outcome>>
          BY <2>2 DEF Consult
      <3>2. EndCaused'
          BY <2>2, <3>0, <3>1 DEF Consult, Inserted
      <3> QED BY <3>2
  <2>3. ASSUME NEW i \in Runs, Cancel(s, i) PROVE EndCaused'
      BY <2>3 DEF Cancel, RequestCancel
  <2>4. ASSUME NEW p \in Runs, SteerCancel(s, p) PROVE EndCaused'
      BY <2>4 DEF SteerCancel, RequestCancel
  <2>5. ASSUME NEW p \in Runs, SteerEnded(s, p) PROVE EndCaused'
      BY <2>5 DEF SteerEnded
  <2> QED
      BY <1>2, <2>1, <2>2, <2>3, <2>4, <2>5 DEF CallStep
<1>3. ASSUME NEW s \in Servers, ProcessStep(s) PROVE EndCaused'
  <2>1. CASE Boot(s)
      BY <2>1 DEF Boot
  <2>2. CASE Signal(s)
      BY <2>2 DEF Signal
  <2>3. CASE ShutdownDrained(s)
      BY <2>3 DEF ShutdownDrained, Exit
  <2>4. CASE ServerGone(s)
      BY <2>4 DEF ServerGone, Exit
  <2> QED
      BY <1>3, <2>1, <2>2, <2>3, <2>4 DEF ProcessStep
<1>4. ASSUME NEW i \in Runs, TaskStep(i) PROVE EndCaused'
  <2>1. CASE Spawn(i)
      BY <2>1 DEF Spawn
  <2>2. CASE AttemptPassesCheck(i)
      BY <2>2 DEF AttemptPassesCheck
  <2>3. CASE CancelledBeforeStart(i)
      BY <2>3 DEF CancelledBeforeStart
  <2>4. CASE AttemptSpawns(i)
      BY <2>4 DEF AttemptSpawns
  <2>5. CASE BackendKilled(i)
      BY <2>5 DEF BackendKilled
  <2>6. CASE ConsumeStarted(i)
      BY <2>6 DEF ConsumeStarted
  <2>7. CASE Finish(i)
      BY <2>7 DEF Finish, RestartApplies
  <2>8. CASE DecideRestart(i)
      BY <2>8 DEF DecideRestart, RestartApplies
  <2>9. CASE RestartMark(i)
      BY <2>9 DEF RestartMark, MarkInterrupted
  <2>10. ASSUME NEW j \in Runs, RestartInsert(i, j) PROVE EndCaused'
      <3>0. Inserted(j, claim[i], [owner |-> Owner(i), how |-> "restart", prior |-> i])
          BY <2>10, InsertEffect DEF RestartInsert, Origin, NoRun
      <3>1. /\ pc' = [pc EXCEPT ![i] = "ended", ![j] = "inserted"]
            /\ UNCHANGED <<srv, registry, proc, token, verdict, outcome>>
          BY <2>10 DEF RestartInsert
      <3>2. EndCaused'
          BY <2>10, <3>0, <3>1, SMTT(60) DEF RestartInsert, Inserted
      <3> QED BY <3>2
  <2>11. CASE RestartGivesUp(i)
      BY <2>11 DEF RestartGivesUp
  <2>12. CASE Deregister(i)
      BY <2>12 DEF Deregister
  <2>13. ASSUME NEW o \in {"succeeded", "failed"}, AttemptEnds(i, o) PROVE EndCaused'
      BY <2>13 DEF AttemptEnds
  <2>14. CASE AttemptRetries(i)
      BY <2>14 DEF AttemptRetries
  <2>15. CASE WatchdogFires(i)
      BY <2>15 DEF WatchdogFires
  <2>16. CASE StartUnrecorded(i)
      BY <2>16 DEF StartUnrecorded
  <2>17. CASE EndUnrecorded(i)
      BY <2>17 DEF EndUnrecorded
  <2> QED
      BY <1>4, <2>1, <2>2, <2>3, <2>4, <2>5, <2>6, <2>7, <2>8, <2>9, <2>10, <2>11,
         <2>12, <2>13, <2>14, <2>15, <2>16, <2>17
         DEF TaskStep, TaskProceeds
<1>5. ASSUME NEW i \in Runs, ReadReconcile(i) PROVE EndCaused'
    BY <1>5 DEF ReadReconcile, MarkInterrupted
<1>6. ASSUME NEW i \in Runs, GuardKills(i) PROVE EndCaused'
    BY <1>6 DEF GuardKills
<1>7. CASE UNCHANGED vars
    BY <1>7 DEF vars
<1> QED
    BY <1>1, <1>2, <1>3, <1>4, <1>5, <1>6, <1>7 DEF Next

(* A steer call polls a row there is and inserts after it ended (main.rs    *)
(* dispatch_steer).                                                         *)
SteerWaits ==
    \A s \in Servers :
        /\ steer[s].pc = "poll" => status[steer[s].parent] # "none"
        /\ steer[s].pc = "insert" => Terminal(steer[s].parent)

(* A resume was inserted after its parent's row had ended.                  *)
ResumesEnded ==
    \A j \in Runs : origin[j].how = "steer" =>
        origin[j].prior \in Runs /\ Terminal(origin[j].prior)

(* What holds besides while no statement on the store fails: no row is      *)
(* active that nobody will end, and a steer waits for the end it needs.     *)
Tended == ActiveRowHasTask /\ DrainedRunsEnded /\ SteerWaits /\ ResumesEnded

(* Every step that leaves a row active leaves its task on the way, and the  *)
(* other way round (executor.rs drive, restart; main.rs dispatch_steer).    *)
LEMMA TendedStep ==
    ASSUME TypeOK, Core, Held, Tended, [Next]_vars, ~ClockMoves, ~StoreFails PROVE Tended'
<1>0. TypeOK' /\ Core'
    BY TypeStep, CoreStep
<1> USE <1>0, NoServerAssumption
        DEF Core, NewRowsBlank, NoRowsBeforeServing, TasksRowActive, Working,
            ChainHasOutcome, Held, SpawnedIsRegistered, Registered, Drained, Tended,
            ActiveRowHasTask, DrainedRunsEnded, SteerWaits, ResumesEnded, TypeOK,
            BoardTypeOK, Active, Terminal, ActiveStatus, TerminalStatus, Status,
            Owner, Exists, Serving, Tasks, Driving, Settled, ReadsGone, store, task,
            Origin, ServerState, Pc, Steer, NoSteer, NoRun
<1>1. ASSUME NEW s \in Servers, ServerProceeds(s) PROVE Tended'
  <2>1. ASSUME NEW i \in Runs, BootJudge(s, i) PROVE Tended'
      <3>1. ActiveRowHasTask'
          BY <2>1 DEF BootJudge, MarkInterrupted
      <3>2. DrainedRunsEnded'
          BY <2>1 DEF BootJudge, MarkInterrupted
      <3>3. SteerWaits'
          BY <2>1 DEF BootJudge, MarkInterrupted
      <3>4. ResumesEnded'
          BY <2>1 DEF BootJudge, MarkInterrupted
      <3> QED BY <3>1, <3>2, <3>3, <3>4
  <2>2. CASE Serve(s)
      BY <2>2 DEF Serve
  <2>3. CASE SteerPoll(s)
      BY <2>3 DEF SteerPoll
  <2>4. ASSUME NEW i \in Runs, NEW b \in BOOLEAN, SteerInsert(s, i, b)
        PROVE  Tended'
      <3>0. Inserted(i, [kind |-> "execute", dir |-> claim[steer[s].parent].dir,
                         concurrent |-> b],
                        [owner |-> s, how |-> "steer", prior |-> steer[s].parent])
          BY <2>4, InsertEffect DEF SteerInsert, Origin, NoRun
      <3>1. /\ pc' = [pc EXCEPT ![i] = "inserted"]
            /\ UNCHANGED <<srv, registry, proc, token, verdict, outcome>>
          BY <2>4 DEF SteerInsert
      <3>2. ActiveRowHasTask'
          BY <2>4, <3>0, <3>1 DEF SteerInsert, Inserted
      <3>3. DrainedRunsEnded'
          BY <2>4, <3>0, <3>1 DEF SteerInsert, Inserted
      <3>4. SteerWaits'
          BY <2>4, <3>0, <3>1 DEF SteerInsert, Inserted
      <3>5. ResumesEnded'
          BY <2>4, <3>0, <3>1 DEF SteerInsert, Inserted
      <3> QED BY <3>2, <3>3, <3>4, <3>5
  <2>5. CASE SteerGivesUp(s)
      BY <2>5 DEF SteerGivesUp
  <2>6. CASE SteerPollFails(s)
      BY <2>6 DEF SteerPollFails
  <2> QED
      BY <1>1, <2>1, <2>2, <2>3, <2>4, <2>5, <2>6 DEF ServerProceeds
<1>2. ASSUME NEW s \in Servers, CallStep(s) PROVE Tended'
  <2>1. ASSUME NEW i \in Runs, NEW d \in Dirs, NEW b \in BOOLEAN, Submit(s, i, d, b)
        PROVE  Tended'
      <3>0. Inserted(i, [kind |-> "execute", dir |-> d, concurrent |-> b],
                        [owner |-> s, how |-> "submit", prior |-> NoRun])
          BY <2>1, InsertEffect DEF Submit, Origin, NoRun
      <3>1. /\ pc' = [pc EXCEPT ![i] = "inserted"]
            /\ UNCHANGED <<srv, registry, proc, token, verdict, outcome>>
          BY <2>1 DEF Submit
      <3>2. ActiveRowHasTask'
          BY <2>1, <3>0, <3>1 DEF Submit, Inserted
      <3>3. DrainedRunsEnded'
          BY <2>1, <3>0, <3>1 DEF Submit, Inserted
      <3>4. SteerWaits'
          BY <2>1, <3>0, <3>1 DEF Submit, Inserted
      <3>5. ResumesEnded'
          <4> SUFFICES ASSUME NEW k \in Runs, (origin[k].how = "steer")'
                       PROVE  (origin[k].prior \in Runs /\ Terminal(origin[k].prior))'
              OBVIOUS
          <4>1. k # i /\ origin'[k] = origin[k]
              BY <3>0 DEF Inserted
          <4>2. origin[k].prior \in Runs /\ Terminal(origin[k].prior)
              BY <4>1
          <4>3. origin[k].prior # i
              BY <3>0, <4>2 DEF Inserted
          <4> QED BY <3>0, <4>1, <4>2, <4>3 DEF Inserted
      <3> QED BY <3>2, <3>3, <3>4, <3>5
  <2>2. ASSUME NEW i \in Runs, NEW d \in Dirs, Consult(s, i, d) PROVE Tended'
      <3>0. Inserted(i, [kind |-> "consult", dir |-> d, concurrent |-> FALSE],
                        [owner |-> s, how |-> "consult", prior |-> NoRun])
          BY <2>2, InsertEffect DEF Consult, Origin, NoRun
      <3>1. /\ pc' = [pc EXCEPT ![i] = "inserted"]
            /\ UNCHANGED <<srv, registry, proc, token, verdict, outcome>>
          BY <2>2 DEF Consult
      <3>2. ActiveRowHasTask'
          BY <2>2, <3>0, <3>1 DEF Consult, Inserted
      <3>3. DrainedRunsEnded'
          BY <2>2, <3>0, <3>1 DEF Consult, Inserted
      <3>4. SteerWaits'
          BY <2>2, <3>0, <3>1 DEF Consult, Inserted
      <3>5. ResumesEnded'
          <4> SUFFICES ASSUME NEW k \in Runs, (origin[k].how = "steer")'
                       PROVE  (origin[k].prior \in Runs /\ Terminal(origin[k].prior))'
              OBVIOUS
          <4>1. k # i /\ origin'[k] = origin[k]
              BY <3>0 DEF Inserted
          <4>2. origin[k].prior \in Runs /\ Terminal(origin[k].prior)
              BY <4>1
          <4>3. origin[k].prior # i
              BY <3>0, <4>2 DEF Inserted
          <4> QED BY <3>0, <4>1, <4>2, <4>3 DEF Inserted
      <3> QED BY <3>2, <3>3, <3>4, <3>5
  <2>3. ASSUME NEW i \in Runs, Cancel(s, i) PROVE Tended'
      BY <2>3 DEF Cancel, RequestCancel
  <2>4. ASSUME NEW p \in Runs, SteerCancel(s, p) PROVE Tended'
      <3>1. ActiveRowHasTask'
          BY <2>4 DEF SteerCancel, RequestCancel, Steerable
      <3>2. DrainedRunsEnded'
          BY <2>4 DEF SteerCancel, RequestCancel, Steerable
      <3>3. SteerWaits'
          BY <2>4 DEF SteerCancel, RequestCancel, Steerable
      <3>4. ResumesEnded'
          BY <2>4 DEF SteerCancel, RequestCancel, Steerable
      <3> QED BY <3>1, <3>2, <3>3, <3>4
  <2>5. ASSUME NEW p \in Runs, SteerEnded(s, p) PROVE Tended'
      BY <2>5 DEF SteerEnded
  <2> QED
      BY <1>2, <2>1, <2>2, <2>3, <2>4, <2>5 DEF CallStep
<1>3. ASSUME NEW s \in Servers, ProcessStep(s) PROVE Tended'
  <2>1. CASE Boot(s)
      BY <2>1 DEF Boot
  <2>2. CASE Signal(s)
      BY <2>2 DEF Signal
  <2>3. CASE ShutdownDrained(s)
      <3>1. \A k \in Runs : Owner(k) = s /\ Active(k) => pc[k] = "inserted"
          <4> SUFFICES ASSUME NEW k \in Runs, Owner(k) = s, Active(k), pc[k] # "inserted"
                       PROVE  FALSE
              OBVIOUS
          <4>1. registry[s] = {} /\ Exists(s)
              BY <2>3 DEF ShutdownDrained
          <4>2. pc[k] \in Working
              BY <4>1 DEF ActiveRowHasTask
          <4>3. pc[k] \in Registered
              BY <4>2
          <4>4. k \in registry[s]
              BY <4>3
          <4> QED BY <4>1, <4>4
      <3>2. /\ srv' = [srv EXCEPT ![s] = "drained"] /\ UNCHANGED <<status, origin>>
            /\ steer' = [steer EXCEPT ![s] = NoSteer]
            /\ \A k \in Runs : Owner(k) # s \/ pc[k] = "inserted" => pc'[k] = pc[k]
          BY <2>3 DEF ShutdownDrained, Exit
      <3>3. ActiveRowHasTask'
          BY <3>2
      <3>4. DrainedRunsEnded'
          BY <3>1, <3>2
      <3>5. SteerWaits' /\ ResumesEnded'
          BY <3>2
      <3> QED BY <3>3, <3>4, <3>5
  <2>4. CASE ServerGone(s)
      <3>1. ActiveRowHasTask'
          BY <2>4 DEF ServerGone, Exit
      <3>2. DrainedRunsEnded'
          BY <2>4 DEF ServerGone, Exit
      <3>3. SteerWaits'
          BY <2>4 DEF ServerGone, Exit
      <3>4. ResumesEnded'
          BY <2>4 DEF ServerGone, Exit
      <3> QED BY <3>1, <3>2, <3>3, <3>4
  <2> QED
      BY <1>3, <2>1, <2>2, <2>3, <2>4 DEF ProcessStep
<1>4. ASSUME NEW i \in Runs, TaskStep(i) PROVE Tended'
  <2>1. CASE Spawn(i)
      BY <2>1 DEF Spawn
  <2>2. CASE AttemptPassesCheck(i)
      BY <2>2 DEF AttemptPassesCheck
  <2>3. CASE CancelledBeforeStart(i)
      BY <2>3 DEF CancelledBeforeStart
  <2>4. CASE AttemptSpawns(i)
      BY <2>4 DEF AttemptSpawns
  <2>5. CASE BackendKilled(i)
      BY <2>5 DEF BackendKilled
  <2>6. CASE ConsumeStarted(i)
      <3>1. Active(i) /\ status' = [status EXCEPT ![i] = "running"] /\ origin' = origin
          BY <2>6 DEF ConsumeStarted
      <3>2. SteerWaits'
          BY <2>6, <3>1 DEF ConsumeStarted
      <3>3. ResumesEnded'
          <4> SUFFICES ASSUME NEW k \in Runs, origin[k].how = "steer"
                       PROVE  origin[k].prior \in Runs /\ Terminal(origin[k].prior)'
              BY <2>6 DEF ConsumeStarted
          <4>1. origin[k].prior \in Runs /\ Terminal(origin[k].prior)
              OBVIOUS
          <4>2. origin[k].prior # i
              BY <3>1, <4>1
          <4>3. status'[origin[k].prior] = status[origin[k].prior]
              BY <3>1, <4>1, <4>2
          <4> QED BY <3>1, <4>1, <4>3
      <3>4. ActiveRowHasTask' /\ DrainedRunsEnded'
          BY <2>6, <3>1 DEF ConsumeStarted
      <3> QED BY <3>2, <3>3, <3>4
  <2>7. CASE Finish(i)
      <3>1. ActiveRowHasTask'
          BY <2>7 DEF Finish, RestartApplies
      <3>2. DrainedRunsEnded'
          BY <2>7 DEF Finish, RestartApplies
      <3>3. SteerWaits'
          BY <2>7 DEF Finish, RestartApplies
      <3>4. ResumesEnded'
          BY <2>7 DEF Finish, RestartApplies
      <3> QED BY <3>1, <3>2, <3>3, <3>4
  <2>8. CASE DecideRestart(i)
      <3>1. ActiveRowHasTask'
          BY <2>8 DEF DecideRestart, RestartApplies
      <3>2. DrainedRunsEnded'
          BY <2>8 DEF DecideRestart, RestartApplies
      <3>3. SteerWaits'
          BY <2>8 DEF DecideRestart, RestartApplies
      <3>4. ResumesEnded'
          BY <2>8 DEF DecideRestart, RestartApplies
      <3> QED BY <3>1, <3>2, <3>3, <3>4
  <2>9. CASE RestartMark(i)
      <3>1. ActiveRowHasTask'
          BY <2>9 DEF RestartMark, MarkInterrupted
      <3>2. DrainedRunsEnded'
          BY <2>9 DEF RestartMark, MarkInterrupted
      <3>3. SteerWaits'
          BY <2>9 DEF RestartMark, MarkInterrupted
      <3>4. ResumesEnded'
          BY <2>9 DEF RestartMark, MarkInterrupted
      <3> QED BY <3>1, <3>2, <3>3, <3>4
  <2>10. ASSUME NEW j \in Runs, RestartInsert(i, j) PROVE Tended'
      <3>0. Inserted(j, claim[i], [owner |-> Owner(i), how |-> "restart", prior |-> i])
          BY <2>10, InsertEffect DEF RestartInsert, Origin, NoRun
      <3>1. /\ pc' = [pc EXCEPT ![i] = "ended", ![j] = "inserted"]
            /\ UNCHANGED <<srv, registry, proc, token, verdict, outcome>>
          BY <2>10 DEF RestartInsert
      <3>2. ActiveRowHasTask'
          <4> SUFFICES ASSUME NEW k \in Runs, Exists(Owner(k))'
                       PROVE  (Active(k) <=> pc[k] \in Working)'
              OBVIOUS
          <4>1. i # j /\ pc[i] = "inserting" /\ pc[j] = "none" /\ Tasks(i)
              BY <2>10, <3>0 DEF RestartInsert, Inserted
          <4>2. CASE k = j
              BY <3>0, <3>1, <4>1, <4>2 DEF Inserted
          <4>3. CASE k = i
              <5>1. ~Active(i)
                  BY <4>1
              <5>2. pc'[i] = "ended" /\ status'[i] = status[i]
                  BY <3>0, <3>1, <4>1 DEF Inserted
              <5> QED BY <4>3, <5>1, <5>2
          <4>4. CASE k # i /\ k # j
              BY <3>0, <3>1, <4>1, <4>4 DEF Inserted
          <4> QED BY <4>2, <4>3, <4>4
      <3>3. DrainedRunsEnded'
          BY <2>10, <3>0, <3>1 DEF RestartInsert, Inserted
      <3>4. SteerWaits'
          BY <2>10, <3>0, <3>1 DEF RestartInsert, Inserted
      <3>5. ResumesEnded'
          <4> SUFFICES ASSUME NEW k \in Runs, (origin[k].how = "steer")'
                       PROVE  (origin[k].prior \in Runs /\ Terminal(origin[k].prior))'
              OBVIOUS
          <4>1. k # j /\ origin'[k] = origin[k]
              BY <3>0 DEF Inserted
          <4>2. origin[k].prior \in Runs /\ Terminal(origin[k].prior)
              BY <4>1
          <4>3. origin[k].prior # j
              BY <3>0, <4>2 DEF Inserted
          <4> QED BY <3>0, <4>1, <4>2, <4>3 DEF Inserted
      <3> QED BY <3>2, <3>3, <3>4, <3>5
  <2>11. CASE RestartGivesUp(i)
      BY <2>11 DEF RestartGivesUp
  <2>12. CASE Deregister(i)
      BY <2>12 DEF Deregister
  <2>13. ASSUME NEW o \in {"succeeded", "failed"}, AttemptEnds(i, o) PROVE Tended'
      BY <2>13 DEF AttemptEnds
  <2>14. CASE AttemptRetries(i)
      BY <2>14 DEF AttemptRetries
  <2>15. CASE WatchdogFires(i)
      BY <2>15 DEF WatchdogFires
  <2>16. CASE StartUnrecorded(i)
      BY <2>16 DEF StartUnrecorded
  <2>17. CASE EndUnrecorded(i)
      BY <2>17 DEF EndUnrecorded
  <2> QED
      BY ONLY <1>4, <2>1, <2>2, <2>3, <2>4, <2>5, <2>6, <2>7, <2>8, <2>9, <2>10, <2>11,
         <2>12, <2>13, <2>14, <2>15, <2>16, <2>17
         DEF TaskStep, TaskProceeds
<1>5. ASSUME NEW i \in Runs, ReadReconcile(i) PROVE Tended'
    <2>1. ActiveRowHasTask'
        BY <1>5 DEF ReadReconcile, MarkInterrupted
    <2>2. DrainedRunsEnded'
        BY <1>5 DEF ReadReconcile, MarkInterrupted
    <2>3. SteerWaits'
        BY <1>5 DEF ReadReconcile, MarkInterrupted
    <2>4. ResumesEnded'
        BY <1>5 DEF ReadReconcile, MarkInterrupted
    <2> QED BY <2>1, <2>2, <2>3, <2>4
<1>6. ASSUME NEW i \in Runs, GuardKills(i) PROVE Tended'
    BY <1>6 DEF GuardKills
<1>7. CASE UNCHANGED vars
    BY <1>7 DEF vars
<1> QED
    BY <1>1, <1>2, <1>3, <1>4, <1>5, <1>6, <1>7 DEF Next

(* The watchdog runs for fresh, exclusive executions only (restart_window). *)
VerdictFresh ==
    \A i \in Runs : verdict[i] =>
        origin[i].how = "submit" /\ ~claim[i].concurrent /\ status[i] # "none"

(* Between the mark and the insert the row stays interrupted (restart).     *)
InsertingInterrupted ==
    \A i \in Runs : pc[i] = "inserting" => status[i] = "interrupted"

(* One successor, and everything RestartSingleShot says of the pair.        *)
Succeeds(i, j) ==
    /\ i \in Runs /\ i < j
    /\ origin[i].how = "submit" /\ ~claim[i].concurrent
    /\ status[i] = "interrupted" /\ ~proc[i] /\ pc[i] \in {"ended", "done", "lost"}
    /\ Owner(j) = Owner(i) /\ claim[j] = claim[i] /\ status[j] # "none"

(* Every successor succeeds its run, and no run has two.                    *)
RestartsOnce ==
    /\ \A j \in Runs : origin[j].how = "restart" => Succeeds(origin[j].prior, j)
    /\ \A j, k \in Runs :
         origin[j].how = "restart" /\ origin[k].how = "restart" /\ origin[j].prior = origin[k].prior
            => j = k

Restarted == VerdictFresh /\ InsertingInterrupted /\ RestartsOnce

(* Every step keeps restarts single (executor.rs restart_window, restart).  *)
LEMMA RestartedStep ==
    ASSUME TypeOK, BoardInv, Core, Held, EndCaused, Restarted, [Next]_vars, ~ClockMoves
    PROVE  Restarted'
<1> USE NoServerAssumption
        DEF Core, NewRowsBlank, TasksRowActive, Working, EndCaused, Held,
            ProcessHeld, Restarted, VerdictFresh, InsertingInterrupted, RestartsOnce,
            Succeeds, TypeOK, BoardTypeOK, Active, ActiveStatus, TerminalStatus,
            Status, Owner, Exists, Serving, Tasks, Driving, Settled, ReadsGone,
            store, task, Origin, ServerState, Pc
<1>1. ASSUME NEW s \in Servers, ServerProceeds(s) PROVE Restarted'
  <2>1. ASSUME NEW i \in Runs, BootJudge(s, i) PROVE Restarted'
      BY <2>1 DEF BootJudge, MarkInterrupted
  <2>2. CASE Serve(s)
      BY <2>2 DEF Serve
  <2>3. CASE SteerPoll(s)
      BY <2>3 DEF SteerPoll
  <2>4. ASSUME NEW i \in Runs, NEW b \in BOOLEAN, SteerInsert(s, i, b)
        PROVE  Restarted'
      <3>0. Inserted(i, [kind |-> "execute", dir |-> claim[steer[s].parent].dir,
                         concurrent |-> b],
                        [owner |-> s, how |-> "steer", prior |-> steer[s].parent])
          BY <2>4, InsertEffect DEF SteerInsert, Origin, NoRun
      <3>1. /\ pc' = [pc EXCEPT ![i] = "inserted"]
            /\ UNCHANGED <<srv, registry, proc, token, verdict, outcome>>
          BY <2>4 DEF SteerInsert
      <3>2. VerdictFresh'
          BY <2>4, <3>0, <3>1 DEF SteerInsert, Inserted
      <3>3. InsertingInterrupted'
          BY <2>4, <3>0, <3>1 DEF SteerInsert, Inserted
      <3>4. RestartsOnce'
          <4>1. ASSUME NEW k \in Runs, (origin[k].how = "restart")'
                PROVE  k # i /\ origin'[k] = origin[k] /\ origin[k].prior # i
                       /\ Succeeds(origin[k].prior, k)
              BY <2>4, <3>0, <4>1 DEF SteerInsert, Inserted
          <4>2. ASSUME NEW k \in Runs, (origin[k].how = "restart")'
                PROVE  Succeeds(origin[k].prior, k)'
              BY <3>0, <3>1, <4>1, <4>2 DEF Inserted
          <4> QED BY <4>1, <4>2
      <3> QED BY <3>2, <3>3, <3>4
  <2>5. CASE SteerGivesUp(s)
      BY <2>5 DEF SteerGivesUp
  <2>6. CASE SteerPollFails(s)
      BY <2>6 DEF SteerPollFails
  <2> QED
      BY ONLY <1>1, <2>1, <2>2, <2>3, <2>4, <2>5, <2>6 DEF ServerProceeds
<1>2. ASSUME NEW s \in Servers, CallStep(s) PROVE Restarted'
  <2>1. ASSUME NEW i \in Runs, NEW d \in Dirs, NEW b \in BOOLEAN, Submit(s, i, d, b)
        PROVE  Restarted'
      <3>0. Inserted(i, [kind |-> "execute", dir |-> d, concurrent |-> b],
                        [owner |-> s, how |-> "submit", prior |-> NoRun])
          BY <2>1, InsertEffect DEF Submit, Origin, NoRun
      <3>1. /\ pc' = [pc EXCEPT ![i] = "inserted"]
            /\ UNCHANGED <<srv, registry, proc, token, verdict, outcome>>
          BY <2>1 DEF Submit
      <3>2. VerdictFresh'
          BY <2>1, <3>0, <3>1 DEF Submit, Inserted
      <3>3. InsertingInterrupted'
          BY <2>1, <3>0, <3>1 DEF Submit, Inserted
      <3>4. RestartsOnce'
          <4>1. ASSUME NEW k \in Runs, (origin[k].how = "restart")'
                PROVE  k # i /\ origin'[k] = origin[k] /\ origin[k].prior # i
                       /\ Succeeds(origin[k].prior, k)
              BY <2>1, <3>0, <4>1 DEF Submit, Inserted
          <4>2. ASSUME NEW k \in Runs, (origin[k].how = "restart")'
                PROVE  Succeeds(origin[k].prior, k)'
              BY <3>0, <3>1, <4>1, <4>2 DEF Inserted
          <4> QED BY <4>1, <4>2
      <3> QED BY <3>2, <3>3, <3>4
  <2>2. ASSUME NEW i \in Runs, NEW d \in Dirs, Consult(s, i, d) PROVE Restarted'
      <3>0. Inserted(i, [kind |-> "consult", dir |-> d, concurrent |-> FALSE],
                        [owner |-> s, how |-> "consult", prior |-> NoRun])
          BY <2>2, InsertEffect DEF Consult, Origin, NoRun
      <3>1. /\ pc' = [pc EXCEPT ![i] = "inserted"]
            /\ UNCHANGED <<srv, registry, proc, token, verdict, outcome>>
          BY <2>2 DEF Consult
      <3>2. VerdictFresh'
          <4> SUFFICES ASSUME NEW k \in Runs, verdict'[k]
                       PROVE  /\ origin'[k].how = "submit" /\ ~claim'[k].concurrent
                              /\ status'[k] # "none"
              OBVIOUS
          <4>1. verdict[k] /\ k # i
              BY <3>0, <3>1 DEF Inserted
          <4> QED BY <3>0, <4>1 DEF Inserted
      <3>3. InsertingInterrupted'
          BY <2>2, <3>0, <3>1 DEF Consult, Inserted
      <3>4. RestartsOnce'
          <4>1. ASSUME NEW k \in Runs, (origin[k].how = "restart")'
                PROVE  k # i /\ origin'[k] = origin[k] /\ origin[k].prior # i
                       /\ Succeeds(origin[k].prior, k)
              BY <2>2, <3>0, <4>1 DEF Consult, Inserted
          <4>2. ASSUME NEW k \in Runs, (origin[k].how = "restart")'
                PROVE  Succeeds(origin[k].prior, k)'
              BY <3>0, <3>1, <4>1, <4>2 DEF Inserted
          <4> QED BY <4>1, <4>2
      <3> QED BY <3>2, <3>3, <3>4
  <2>3. ASSUME NEW i \in Runs, Cancel(s, i) PROVE Restarted'
      BY <2>3 DEF Cancel, RequestCancel
  <2>4. ASSUME NEW p \in Runs, SteerCancel(s, p) PROVE Restarted'
      BY <2>4 DEF SteerCancel, RequestCancel
  <2>5. ASSUME NEW p \in Runs, SteerEnded(s, p) PROVE Restarted'
      BY <2>5 DEF SteerEnded
  <2> QED
      BY ONLY <1>2, <2>1, <2>2, <2>3, <2>4, <2>5 DEF CallStep
<1>3. ASSUME NEW s \in Servers, ProcessStep(s) PROVE Restarted'
  <2>1. CASE Boot(s)
      BY <2>1 DEF Boot
  <2>2. CASE Signal(s)
      BY <2>2 DEF Signal
  <2>3. CASE ShutdownDrained(s)
      BY <2>3 DEF ShutdownDrained, Exit
  <2>4. CASE ServerGone(s)
      BY <2>4 DEF ServerGone, Exit
  <2> QED
      BY <1>3, <2>1, <2>2, <2>3, <2>4 DEF ProcessStep
<1>4. ASSUME NEW i \in Runs, TaskStep(i) PROVE Restarted'
  <2>1. CASE Spawn(i)
      BY <2>1 DEF Spawn
  <2>2. CASE AttemptPassesCheck(i)
      BY <2>2 DEF AttemptPassesCheck
  <2>3. CASE CancelledBeforeStart(i)
      BY <2>3 DEF CancelledBeforeStart
  <2>4. CASE AttemptSpawns(i)
      BY <2>4 DEF AttemptSpawns
  <2>5. CASE BackendKilled(i)
      BY <2>5 DEF BackendKilled
  <2>6. CASE ConsumeStarted(i)
      BY <2>6 DEF ConsumeStarted
  <2>7. CASE Finish(i)
      BY <2>7 DEF Finish, RestartApplies, ChainHasOutcome
  <2>8. CASE DecideRestart(i)
      BY <2>8 DEF DecideRestart
  <2>9. CASE RestartMark(i)
      BY <2>9 DEF RestartMark, MarkInterrupted
  <2>10. ASSUME NEW j \in Runs, RestartInsert(i, j) PROVE Restarted'
      <3>0. Inserted(j, claim[i], [owner |-> Owner(i), how |-> "restart", prior |-> i])
          BY <2>10, InsertEffect DEF RestartInsert, Origin, NoRun
      <3>1. /\ pc' = [pc EXCEPT ![i] = "ended", ![j] = "inserted"]
            /\ UNCHANGED <<srv, registry, proc, token, verdict, outcome>>
          BY <2>10 DEF RestartInsert
      <3>2. VerdictFresh'
          BY <2>10, <3>0, <3>1 DEF RestartInsert, Inserted
      <3>3. InsertingInterrupted'
          BY <2>10, <3>0, <3>1 DEF RestartInsert, Inserted
      <3>4. RestartsOnce'
          <4>0. i < j /\ verdict[i] /\ pc[i] = "inserting" /\ i # j /\ ~proc[i]
              BY <2>10, <3>0 DEF RestartInsert, Inserted, BoardInv, Dense, Runs
          <4>1. Succeeds(i, j)'
              BY <3>0, <3>1, <4>0 DEF Inserted
          <4>2. ASSUME NEW k \in Runs, k # j, (origin[k].how = "restart")'
                PROVE  /\ origin'[k] = origin[k] /\ origin[k].prior \notin {i, j}
                       /\ Succeeds(origin[k].prior, k)
              BY <3>0, <4>0, <4>2 DEF Inserted
          <4>3. ASSUME NEW k \in Runs, k # j, (origin[k].how = "restart")'
                PROVE  Succeeds(origin[k].prior, k)'
              BY <3>0, <3>1, <4>2, <4>3 DEF Inserted
          <4>4. origin'[j].prior = i
              BY <3>0 DEF Inserted
          <4> QED BY <4>1, <4>2, <4>3, <4>4
      <3> QED BY <3>2, <3>3, <3>4
  <2>11. CASE RestartGivesUp(i)
      BY <2>11 DEF RestartGivesUp
  <2>12. CASE Deregister(i)
      BY <2>12 DEF Deregister
  <2>13. ASSUME NEW o \in {"succeeded", "failed"}, AttemptEnds(i, o) PROVE Restarted'
      BY <2>13 DEF AttemptEnds
  <2>14. CASE AttemptRetries(i)
      BY <2>14 DEF AttemptRetries
  <2>15. CASE WatchdogFires(i)
      BY <2>15 DEF WatchdogFires, Restartable
  <2>16. CASE StartUnrecorded(i)
      BY <2>16 DEF StartUnrecorded
  <2>17. CASE EndUnrecorded(i)
      BY <2>17 DEF EndUnrecorded
  <2> QED
      BY ONLY <1>4, <2>1, <2>2, <2>3, <2>4, <2>5, <2>6, <2>7, <2>8, <2>9, <2>10, <2>11,
         <2>12, <2>13, <2>14, <2>15, <2>16, <2>17
         DEF TaskStep, TaskProceeds
<1>5. ASSUME NEW i \in Runs, ReadReconcile(i) PROVE Restarted'
    BY <1>5 DEF ReadReconcile, MarkInterrupted
<1>6. ASSUME NEW i \in Runs, GuardKills(i) PROVE Restarted'
    BY <1>6 DEF GuardKills
<1>7. CASE UNCHANGED vars
    BY <1>7 DEF vars
<1> QED
    BY <1>1, <1>2, <1>3, <1>4, <1>5, <1>6, <1>7 DEF Next

-----------------------------------------------------------------------------
(* The inductive invariant.                                                 *)
IInv == TypeOK /\ BoardInv /\ Core /\ Held /\ EndCaused /\ Restarted

(* An empty store and no server satisfy it.                                 *)
LEMMA Initially == Init => IInv /\ Tended /\ BoardInit
<1> SUFFICES ASSUME Init PROVE IInv /\ Tended /\ BoardInit
    OBVIOUS
<1>1. NoClaim \in Claim
    BY DirsAssumption DEF NoClaim, Claim
<1>2. TypeOK /\ BoardInit
    BY <1>1
       DEF Init, TypeOK, BoardTypeOK, BoardInit, NoOrigin, NoSteer, NoRun, Origin,
           ServerState, Pc, Outcome, Steer, Status
<1>3. BoardInv
    BY <1>2
       DEF BoardInit, BoardInv, BoardTypeOK, Dense, Admitted, Occupies, Active,
           ActiveStatus, Status
<1>4. Core
    BY NoServerAssumption
       DEF Init, Core, NewRowsBlank, NoRowsBeforeServing, ChainHasOutcome,
           TasksRowActive, Working, NoOrigin, Owner, Active, ActiveStatus, Exists
<1>5. Held
    BY DEF Init, Held, SpawnedIsRegistered, Registered, ProcessHeld, LostWithServer
<1>6. EndCaused
    BY DEF Init, EndCaused
<1>7. Restarted
    BY DEF Init, Restarted, VerdictFresh, InsertingInterrupted, RestartsOnce, NoOrigin
<1>8. Tended
    BY NoServerAssumption
       DEF Init, Tended, ActiveRowHasTask, DrainedRunsEnded, SteerWaits,
           ResumesEnded, NoSteer, NoOrigin, Active, ActiveStatus, Owner, Exists
<1> QED BY <1>2, <1>3, <1>4, <1>5, <1>6, <1>7, <1>8 DEF IInv

(* Every step of the code keeps it.                                         *)
LEMMA Inductive == ASSUME ~ClockMoves PROVE IInv /\ [Next]_vars => IInv'
<1> SUFFICES ASSUME IInv, [Next]_vars PROVE IInv'
    OBVIOUS
<1>1. TypeOK' /\ Core'
    BY TypeStep, CoreStep DEF IInv
<1>2. BoardInv'
    BY BoardRefined, BoardStep DEF IInv
<1>3. Held' /\ EndCaused' /\ Restarted'
    BY HeldStep, CausedStep, RestartedStep DEF IInv
<1> QED BY <1>1, <1>2, <1>3 DEF IInv

-----------------------------------------------------------------------------
(* The state of the servers, the store and the tasks stays of its type,     *)
(* whatever the clock does (every write of store.rs and executor.rs).       *)
THEOREM TypeCorrect == Spec => []TypeOK
<1>1. Init => TypeOK
    BY Initially DEF IInv
<1> QED BY <1>1, TypeStep, PTL DEF Spec

(* While the clock is not corrected under a running server, all of the      *)
(* invariant below holds of every number of servers, runs and directories.  *)
THEOREM Invariant == ASSUME ~ClockMoves PROVE Spec => []IInv
<1>1. Init => IInv
    BY Initially
<1>2. IInv /\ [Next]_vars => IInv'
    BY Inductive
<1> QED BY <1>1, <1>2, PTL DEF Spec

(* And if no statement on the store fails, each active row is looked after. *)
THEOREM TendedInvariant == ASSUME ~ClockMoves, ~StoreFails PROVE Spec => []Tended
<1>1. Init => Tended
    BY Initially
<1>2. IInv /\ Tended /\ [Next]_vars => Tended'
    BY TendedStep DEF IInv
<1> QED BY <1>1, <1>2, Invariant, PTL DEF Spec

(* The servers together implement the store's promise: every step of the    *)
(* code (store.rs, executor.rs, main.rs) is a step of RunBoard or none.     *)
THEOREM DispatchImplementsBoard == ASSUME ~ClockMoves PROVE Spec => ImplementsBoard
<1>1. Init => BoardInit
    BY Initially
<1>2. IInv /\ [Next]_vars => [BoardNext]_boardVars
    BY BoardRefined DEF IInv
<1> QED BY <1>1, <1>2, Invariant, PTL DEF Spec, ImplementsBoard, BoardSpec

(* Two executions active in one directory: the later one asked for it, with *)
(* any number of servers inserting, ending and reconciling rows.            *)
THEOREM DispatchDirGuard == ASSUME ~ClockMoves PROVE Spec => []DirGuard
<1> QED BY DispatchImplementsBoard, BoardDirGuard, PTL DEF ImplementsBoard

(* A row that ended is never changed, although finish and mark_running put  *)
(* no condition on the status they overwrite.                               *)
THEOREM DispatchTerminalRowsStay == ASSUME ~ClockMoves PROVE Spec => TerminalRowsStay
<1> QED BY DispatchImplementsBoard, BoardTerminalRowsStay, PTL DEF ImplementsBoard

(* Under a server that runs a row is active exactly as long as its task has *)
(* not written its end (executor.rs spawn, run, drive, finish).             *)
THEOREM DispatchActiveRowHasTask ==
    ASSUME ~ClockMoves, ~StoreFails PROVE Spec => []ActiveRowHasTask
<1>1. Tended => ActiveRowHasTask
    BY DEF Tended
<1> QED BY <1>1, TendedInvariant, PTL

(* Two live backends in one directory: the later run asked for it, or the   *)
(* earlier one was left by a server that is gone.                           *)
THEOREM DispatchOneWriterPerDir == ASSUME ~ClockMoves PROVE Spec => []OneWriterPerDir
<1>1. ASSUME IInv PROVE OneWriterPerDir
    <2> SUFFICES ASSUME NEW i \in Runs, NEW j \in Runs, i < j, proc[i], proc[j],
                        claim[i].kind = "execute", claim[j].kind = "execute",
                        claim[i].dir = claim[j].dir, Exists(Owner(i))
                 PROVE  claim[j].concurrent
        BY DEF OneWriterPerDir
    <2>1. Active(i)
        BY <1>1
           DEF IInv, Held, ProcessHeld, LostWithServer, Core, TasksRowActive, Working
    <2>2. status[j] # "none"
        BY <1>1 DEF IInv, Core, NewRowsBlank
    <2> QED BY <1>1, <2>1, <2>2 DEF IInv, BoardInv, Admitted, Occupies
<1> QED BY <1>1, Invariant, PTL

(* A resumed session was let go of by its parent's process, unless a server *)
(* that is gone left that process behind (main.rs dispatch_steer).          *)
THEOREM DispatchSessionHandedOver ==
    ASSUME ~ClockMoves, ~StoreFails PROVE Spec => []SessionHandedOver
<1>1. ASSUME IInv, Tended PROVE SessionHandedOver
    <2> SUFFICES ASSUME NEW j \in Runs, origin[j].how = "steer", proc[origin[j].prior],
                        Exists(Owner(origin[j].prior))
                 PROVE  FALSE
        BY DEF SessionHandedOver
    <2>1. origin[j].prior \in Runs /\ ~Active(origin[j].prior)
        BY <1>1 DEF Tended, ResumesEnded, Terminal, TerminalStatus, Active, ActiveStatus
    <2> QED BY <1>1, <2>1 DEF IInv, Held, ProcessHeld, LostWithServer, Core,
            TasksRowActive, Working
<1> QED BY <1>1, Invariant, TendedInvariant, PTL

(* The cancel path and the shutdown find the token of every spawned run     *)
(* whose row is active (executor.rs spawn, request_cancel).                 *)
THEOREM DispatchCancelReaches ==
    ASSUME ~ClockMoves, ~StoreFails PROVE Spec => []CancelReaches
<1>1. IInv /\ Tended => CancelReaches
    BY DEF IInv, Held, SpawnedIsRegistered, Registered, Tended, ActiveRowHasTask,
           Working, CancelReaches
<1> QED BY <1>1, Invariant, TendedInvariant, PTL

(* At most one restart of a run, with its owner, directory and command, and *)
(* only after its process was gone and its row interrupted.                 *)
THEOREM DispatchRestartSingleShot == ASSUME ~ClockMoves PROVE Spec => []RestartSingleShot
<1>1. IInv => RestartSingleShot
    BY DEF IInv, Restarted, RestartsOnce, Succeeds, RestartSingleShot
<1> QED BY <1>1, Invariant, PTL

(* No run ends cancelled or interrupted without a cause.                    *)
THEOREM DispatchEndsForAReason == ASSUME ~ClockMoves PROVE Spec => []EndsForAReason
<1>1. IInv => EndsForAReason
    BY DEF IInv, EndCaused, EndsForAReason
<1> QED BY <1>1, Invariant, PTL

(* A shutdown that drained its registry leaves active only rows whose task  *)
(* was never registered (main.rs graceful_shutdown).                        *)
THEOREM DispatchDrainedRunsEnded ==
    ASSUME ~ClockMoves, ~StoreFails PROVE Spec => []DrainedRunsEnded
<1>1. Tended => DrainedRunsEnded
    BY DEF Tended
<1> QED BY <1>1, TendedInvariant, PTL
=============================================================================

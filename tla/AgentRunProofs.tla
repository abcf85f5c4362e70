--------------------------- MODULE AgentRunProofs ---------------------------
(***************************************************************************)
(* Proofs about AgentRun for any sets of calls, requests and threads, any  *)
(* number of tries and any faults.                                         *)
(***************************************************************************)
EXTENDS AgentRun, TLAPS

Statuses == Active \cup Terminal \cup {"none"}

-----------------------------------------------------------------------------
(* Type correctness.                                                       *)

\* The locked row updates keep every row in a legal status.
LEMMA RowUpdatesTyped ==
  ASSUME TypeOK, NEW c \in Calls, NEW s \in Active \cup Terminal
  PROVE  /\ SetTerminalStatus(c, s) => status' \in [Calls -> Statuses]
         /\ MarkRunning(c) => status' \in [Calls -> Statuses]
  BY DEF TypeOK, Statuses, Active, Terminal, SetTerminalStatus, MarkRunning

\* Moving the coroutine keeps its position typed.
WorkerTyped ==
  /\ phase \in [Calls -> Phases]
  /\ block \in [Calls -> BodyBlocks \cup HandlerBlocks]
  /\ verdict \in [Calls -> Terminal]

LEMMA GoToTyped ==
  ASSUME WorkerTyped, NEW c \in Calls, NEW p \in Phases,
         NEW b \in BodyBlocks \cup HandlerBlocks, NEW v \in Terminal,
         GoTo(c, p, b, v)
  PROVE  WorkerTyped'
  BY DEF WorkerTyped, GoTo

LEMMA StepTyped ==
  ASSUME WorkerTyped, NEW c \in Calls, NEW p \in Phases, Step(c, p)
  PROVE  WorkerTyped'
  BY DEF WorkerTyped, Step, GoTo

LEMMA LeaveTyped ==
  ASSUME TypeOK, NEW c \in Calls, NEW j \in JobStates, Leave(c, j)
  PROVE  WorkerTyped' /\ job' \in [Calls -> JobStates]
  <1>1. /\ "idle" \in Phases
        /\ "body" \in BodyBlocks \cup HandlerBlocks
        /\ "completed" \in Terminal
    BY DEF Phases, BodyBlocks, Terminal
  <1>2. WorkerTyped'
    BY <1>1, GoToTyped DEF Leave, TypeOK, WorkerTyped
  <1>3. job' \in [Calls -> JobStates]
    BY DEF Leave, TypeOK
  <1>4. QED
    BY <1>2, <1>3

LEMMA ApiStepTyped ==
  ASSUME TypeOK, NEW c \in Calls, ApiStep(c)
  PROVE  TypeOK'
  <1>1. CASE PrepareScope(c)
    <2>1. ASSUME NEW r \in Calls \cup {NoRun}, Answer(c, r)
          PROVE  callPc' \in [Calls -> CallPcs] /\ answer' \in [Calls -> Calls \cup {NoRun}]
      BY <2>1 DEF TypeOK, Answer, CallPcs
    <2>2. ASSUME callPc' = [callPc EXCEPT ![c] = "scoped"], UNCHANGED answer
          PROVE  callPc' \in [Calls -> CallPcs] /\ answer' \in [Calls -> Calls \cup {NoRun}]
      BY <2>2 DEF TypeOK, CallPcs
    <2>3. callPc' \in [Calls -> CallPcs] /\ answer' \in [Calls -> Calls \cup {NoRun}]
      BY <1>1, <2>1, <2>2 DEF PrepareScope, RunsOfRequest
    <2>4. QED
      BY <1>1, <2>3 DEF TypeOK, PrepareScope, fixedVars, queueVars, workerVars, signalVars
  <1>2. CASE PersistRunRecord(c)
    <2>1. ASSUME NEW r \in Calls \cup {NoRun}, Answer(c, r)
          PROVE  callPc' \in [Calls -> CallPcs] /\ answer' \in [Calls -> Calls \cup {NoRun}]
      BY <2>1 DEF TypeOK, Answer, CallPcs
    <2>2. CASE AnswerAfterConflict(c)
      <3>1. PICK r \in Calls \cup {NoRun} : Answer(c, r)
        BY <2>2 DEF AnswerAfterConflict, RunsOfRequest
      <3>2. QED
        BY <1>2, <2>1, <3>1 DEF TypeOK, PersistRunRecord, fixedVars, queueVars,
                                workerVars, signalVars
    <2>3. CASE callPc' = [callPc EXCEPT ![c] = "inserted"] /\ UNCHANGED answer
      BY <1>2, <2>3 DEF TypeOK, PersistRunRecord, CallPcs, fixedVars, queueVars,
                        workerVars, signalVars
    <2>4. QED
      BY <1>2, <2>2, <2>3 DEF PersistRunRecord
  <1>3. CASE CommitRun(c)
    BY <1>3 DEF TypeOK, CommitRun, CallPcs, Active, fixedVars, queueVars, workerVars,
                signalVars
  <1>4. CASE EnqueueRun(c)
    BY <1>4 DEF TypeOK, EnqueueRun, Answer, CallPcs, JobStates, fixedVars, workerVars,
                signalVars
  <1>5. QED
    BY <1>1, <1>2, <1>3, <1>4 DEF ApiStep

LEMMA CancelStepTyped ==
  ASSUME TypeOK, NEW c \in Calls, RequestCancel(c) \/ CommitCancel(c) \/ PublishCancel(c)
  PROVE  TypeOK'
  <1>1. CASE RequestCancel(c)
    BY <1>1 DEF TypeOK, RequestCancel, fixedVars, clientVars, queueVars, workerVars
  <1>2. CASE CommitCancel(c)
    <2>1. /\ status' \in [Calls -> Active \cup Terminal \cup {"none"}]
          /\ publishing' \subseteq Calls
          /\ reopened' \subseteq Calls
      BY <1>2 DEF TypeOK, CommitCancel, MarkCancelRequested, Active
    <2>2. QED
      BY <1>2, <2>1 DEF TypeOK, CommitCancel, fixedVars, clientVars, queueVars, workerVars
  <1>3. CASE PublishCancel(c)
    BY <1>3 DEF TypeOK, PublishCancel, fixedVars, clientVars, queueVars, workerVars
  <1>4. QED
    BY <1>1, <1>2, <1>3

LEMMA WorkerStepTyped ==
  ASSUME TypeOK, NEW c \in Calls, WorkerStep(c) \/ StreamEnds(c)
  PROVE  TypeOK'
  <1> USE DEF fixedVars, clientVars, queueVars, signalVars
  <1>1. WorkerTyped
    BY DEF TypeOK, WorkerTyped
  <1>2. CASE ClaimJob(c)
    <2>1. WorkerTyped'
      BY <1>1, <1>2, StepTyped DEF ClaimJob, Phases
    <2>2. tries[c] + 1 \in 0..MaxTries
      BY <1>2, ConstantsAssumption DEF TypeOK, ClaimJob
    <2>3. QED
      BY <1>2, <2>1, <2>2 DEF TypeOK, WorkerTyped, ClaimJob, JobStates
  <1>3. CASE ExpireJob(c)
    BY <1>3 DEF TypeOK, ExpireJob, JobStates, workerVars
  <1>4. CASE LoadRun(c)
    <2>1. WorkerTyped' /\ job' \in [Calls -> JobStates]
      <3>1. CASE Leave(c, "done")
        BY <3>1, LeaveTyped DEF JobStates
      <3>2. CASE UNCHANGED job /\ \E p \in {"mark", "reject"} : Step(c, p)
        BY <1>1, <3>2, StepTyped DEF TypeOK, Phases
      <3>3. QED
        BY <1>4, <3>1, <3>2 DEF LoadRun
    <2>2. QED
      BY <1>4, <2>1 DEF TypeOK, WorkerTyped, LoadRun
  <1>5. CASE RejectRun(c)
    <2>1. WorkerTyped' /\ job' \in [Calls -> JobStates]
      BY <1>5, LeaveTyped DEF RejectRun, JobStates
    <2>2. status' \in [Calls -> Statuses]
      BY <1>5, RowUpdatesTyped DEF RejectRun, Terminal
    <2>3. QED
      BY <1>5, <2>1, <2>2 DEF TypeOK, WorkerTyped, RejectRun, Statuses
  <1>6. CASE MarkRunRunning(c)
    <2>1. WorkerTyped'
      BY <1>1, <1>6, StepTyped DEF MarkRunRunning, Phases
    <2>2. status' \in [Calls -> Statuses]
      BY <1>6, RowUpdatesTyped DEF MarkRunRunning, Active
    <2>3. QED
      BY <1>6, <2>1, <2>2 DEF TypeOK, WorkerTyped, MarkRunRunning, Statuses
  <1>7. CASE OpenStream(c)
    <2>1. WorkerTyped'
      BY <1>1, <1>7, StepTyped DEF OpenStream, Phases
    <2>2. QED
      BY <1>7, <2>1 DEF TypeOK, WorkerTyped, OpenStream
  <1>8. CASE ObserveCancel(c)
    <2>1. WorkerTyped'
      BY <1>1, <1>8, GoToTyped DEF ObserveCancel, Phases, HandlerBlocks, Terminal
    <2>2. QED
      BY <1>8, <2>1 DEF TypeOK, WorkerTyped, ObserveCancel
  <1>9. CASE HandleException(c)
    <2>1. WorkerTyped'
      <3>1. CASE Step(c, "closeRetry")
        BY <1>1, <3>1, StepTyped DEF Phases
      <3>2. CASE GoTo(c, "settle", block[c],
                      IF block[c] = "cancel" THEN "cancelled" ELSE "failed")
        <4>1. block[c] \in BodyBlocks \cup HandlerBlocks
          BY DEF TypeOK
        <4>2. (IF block[c] = "cancel" THEN "cancelled" ELSE "failed") \in Terminal
          BY DEF Terminal
        <4>3. QED
          BY <1>1, <3>2, <4>1, <4>2, GoToTyped DEF Phases
      <3>3. QED
        BY <1>9, <3>1, <3>2 DEF HandleException
    <2>2. QED
      BY <1>9, <2>1 DEF TypeOK, WorkerTyped, HandleException
  <1>10. CASE SettleRun(c)
    <2>1. WorkerTyped'
      BY <1>1, <1>10, StepTyped DEF SettleRun, Phases
    <2>2. verdict[c] \in Terminal
      BY DEF TypeOK
    <2>3. status' \in [Calls -> Statuses]
      BY <1>10, <2>2, RowUpdatesTyped DEF SettleRun
    <2>4. QED
      BY <1>10, <2>1, <2>3 DEF TypeOK, WorkerTyped, SettleRun, Statuses
  <1>11. CASE AppendEnd(c)
    <2>1. WorkerTyped'
      BY <1>1, <1>11, StepTyped DEF AppendEnd, Phases
    <2>2. verdict[c] \in Terminal /\ ends[c] \in Seq(Terminal)
      BY DEF TypeOK
    <2>3. Append(ends[c], verdict[c]) \in Seq(Terminal)
      BY <2>2
    <2>4. ends' \in [Calls -> Seq(Terminal)]
      BY <1>11, <2>3 DEF TypeOK, AppendEnd
    <2>5. QED
      BY <1>11, <2>1, <2>4 DEF TypeOK, WorkerTyped, AppendEnd
  <1>12. CASE DrainStream(c)
    <2>1. WorkerTyped'
      BY <1>1, <1>12, StepTyped DEF DrainStream, Phases
    <2>2. QED
      BY <1>12, <2>1 DEF TypeOK, WorkerTyped, DrainStream
  <1>13. CASE CloseRun(c)
    <2>1. PICK j \in JobStates : Leave(c, j)
      BY <1>13 DEF CloseRun, JobStates
    <2>2. WorkerTyped' /\ job' \in [Calls -> JobStates]
      BY <2>1, LeaveTyped
    <2>3. QED
      BY <1>13, <2>2 DEF TypeOK, WorkerTyped, CloseRun
  <1>14. CASE StreamVerdict(c)
    <2>1. PICK b \in BodyBlocks, v \in Terminal : GoTo(c, "settle", b, v)
      BY <1>14 DEF StreamVerdict, BodyBlocks, Terminal
    <2>2. WorkerTyped'
      BY <1>1, <2>1, GoToTyped DEF Phases
    <2>3. QED
      BY <1>14, <2>2 DEF TypeOK, WorkerTyped, StreamVerdict
  <1>15. CASE JobTimeout(c)
    <2>1. WorkerTyped'
      BY <1>1, <1>15, GoToTyped DEF JobTimeout, Phases, HandlerBlocks, Terminal
    <2>2. QED
      BY <1>15, <2>1 DEF TypeOK, WorkerTyped, JobTimeout
  <1>16. QED
    BY <1>2, <1>3, <1>4, <1>5, <1>6, <1>7, <1>8, <1>9, <1>10, <1>11, <1>12, <1>13,
       <1>14, <1>15 DEF WorkerStep, StreamEnds

LEMMA FaultStepTyped ==
  ASSUME TypeOK, NEW c \in Calls, FaultStep(c)
  PROVE  TypeOK'
  <1> USE DEF clientVars, queueVars, signalVars
  <1>1. WorkerTyped
    BY DEF TypeOK, WorkerTyped
  <1>2. ASSUME NEW k \in FaultKinds, Fault(k)
        PROVE  faults' \in 0..MaxFaults /\ op' = op
    BY <1>2, ConstantsAssumption DEF TypeOK, Fault
  <1>3. faults' \in 0..MaxFaults /\ op' = op
    BY <1>2 DEF FaultStep, ApiCrash, WorkerCrash, Shutdown, StreamError, StepError,
                CancelKeyExpires, PublishFails, FaultKinds
  <1>4. CASE ApiCrash(c)
    BY <1>3, <1>4 DEF TypeOK, ApiCrash, Answer, CallPcs, workerVars
  <1>5. CASE WorkerCrash(c)
    <2>1. WorkerTyped' /\ job' \in [Calls -> JobStates]
      BY <1>5, LeaveTyped DEF WorkerCrash, JobStates
    <2>2. QED
      BY <1>3, <1>5, <2>1 DEF TypeOK, WorkerTyped, WorkerCrash
  <1>6. CASE Shutdown(c)
    <2>1. WorkerTyped' /\ job' \in [Calls -> JobStates]
      <3>1. CASE Leave(c, "queued")
        BY <3>1, LeaveTyped DEF JobStates
      <3>2. CASE UNCHANGED job /\ GoTo(c, "handle", "cancel", "cancelled")
        BY <1>1, <3>2, GoToTyped DEF TypeOK, Phases, HandlerBlocks, Terminal
      <3>3. CASE UNCHANGED job /\ Step(c, "closeCancelled")
        BY <1>1, <3>3, StepTyped DEF TypeOK, Phases
      <3>4. QED
        BY <1>6, <3>1, <3>2, <3>3 DEF Shutdown
    <2>2. QED
      BY <1>3, <1>6, <2>1 DEF TypeOK, WorkerTyped, Shutdown
  <1>7. CASE StreamError(c)
    <2>1. PICK b \in HandlerBlocks : GoTo(c, "handle", b, "failed")
      BY <1>7 DEF StreamError, HandlerBlocks
    <2>2. WorkerTyped'
      BY <1>1, <2>1, GoToTyped DEF Phases, Terminal
    <2>3. QED
      BY <1>3, <1>7, <2>2 DEF TypeOK, WorkerTyped, StreamError
  <1>8. CASE StepError(c)
    <2>1. WorkerTyped' /\ job' \in [Calls -> JobStates]
      <3>1. CASE Leave(c, "done")
        BY <3>1, LeaveTyped DEF JobStates
      <3>2. CASE UNCHANGED job /\ \E b \in {"retry", "error"} : GoTo(c, "handle", b, "failed")
        <4>1. PICK b \in HandlerBlocks : GoTo(c, "handle", b, "failed")
          BY <3>2 DEF HandlerBlocks
        <4>2. QED
          BY <1>1, <3>2, <4>1, GoToTyped DEF TypeOK, Phases, Terminal
      <3>3. CASE UNCHANGED job /\ Step(c, "closeError")
        BY <1>1, <3>3, StepTyped DEF TypeOK, Phases
      <3>4. QED
        BY <1>8, <3>1, <3>2, <3>3 DEF StepError
    <2>2. QED
      BY <1>3, <1>8, <2>1 DEF TypeOK, WorkerTyped, StepError
  <1>9. CASE CancelKeyExpires(c)
    BY <1>3, <1>9 DEF TypeOK, CancelKeyExpires, workerVars
  <1>10. CASE PublishFails(c)
    BY <1>3, <1>10 DEF TypeOK, PublishFails, workerVars
  <1>11. QED
    BY <1>4, <1>5, <1>6, <1>7, <1>8, <1>9, <1>10 DEF FaultStep

\* Whatever calls, workers, cancels and faults do, every variable keeps its
\* type: rows stay in the seven statuses of the agent_runs table, a job is never
\* tried more than max_tries times, and the coroutine never loses its place.
THEOREM TypeCorrect == Spec => []TypeOK
  <1>1. Init => TypeOK
    BY ConstantsAssumption DEF Init, TypeOK, CallPcs, JobStates, Phases, BodyBlocks, Terminal
  <1>2. TypeOK /\ [Next]_vars => TypeOK'
    <2> SUFFICES ASSUME TypeOK, [Next]_vars PROVE TypeOK'
      OBVIOUS
    <2>1. CASE UNCHANGED vars
      BY <2>1 DEF TypeOK, vars
    <2>2. CASE Next
      BY <2>2, ApiStepTyped, CancelStepTyped, WorkerStepTyped, FaultStepTyped DEF Next
    <2>3. QED
      BY <2>1, <2>2
  <1>3. QED
    BY <1>1, <1>2, PTL DEF Spec

-----------------------------------------------------------------------------
(* The inductive invariant.  OneActivePerThread, IdempotentCreate and      *)
(* ResumeFollowsInterrupt are not inductive alone: an open transaction has *)
(* already passed its checks, so what it found must still hold when it     *)
(* commits, or have been undone by a cancel call that came late.           *)

\* A row appears exactly when its call commits.
RowsFollowCalls ==
  \A c \in Calls :
    /\ callPc[c] \in {"new", "scoped", "inserted"} => status[c] = "none"
    /\ callPc[c] = "committed" => status[c] # "none"

\* An open insert excludes every other one that collides with it, and nothing
\* that is committed collides with it.
OpenInsertExclusive ==
  \A c, d \in Calls :
    callPc[c] = "inserted" =>
      /\ callPc[d] = "inserted" /\ op[d].request = op[c].request => c = d
      /\ callPc[d] = "inserted" /\ op[d].thread = op[c].thread => c = d
      /\ status[d] # "none" => op[d].request # op[c].request
      /\ status[d] \in Active => op[d].thread # op[c].thread

\* The parent that a resume call found interrupted is still so, or has been taken
\* back since.
ParentKept(c) ==
  op[c].parent # NoRun =>
    /\ op[c].parent \in Calls \ {c}
    /\ status[op[c].parent] = "interrupted"
       \/ (status[op[c].parent] # "none" /\ op[c].parent \in reopened)
    /\ op[op[c].parent].thread = op[c].thread
ParentsKept ==
  \A c \in Calls :
    callPc[c] \in {"scoped", "inserted"} \/ status[c] # "none" => ParentKept(c)

NoOwnParent == \A c \in Calls : op[c].parent # c

ApiInv ==
  /\ RowsFollowCalls
  /\ OpenInsertExclusive
  /\ NoOwnParent
  /\ ParentsKept
  /\ OneActivePerThread
  /\ IdempotentCreate

\* The coroutine works on an existing row, which is unfinished until the
\* coroutine settles it.  When the coroutine announces the end the row is settled,
\* or has been taken back by a cancel call; such a call has found a row.
Settled(c) == status[c] \in Terminal \/ (status[c] # "none" /\ c \in reopened)
WorkerInv ==
  \A c \in Calls :
    /\ job[c] # "none" \/ phase[c] # "idle" \/ c \in cancelling => status[c] # "none"
    /\ phase[c] \in {"reject", "mark", "open", "stream"} => status[c] \in Active
    /\ phase[c] = "announce" => Settled(c)
    /\ ends[c] # <<>> => Settled(c)

IInv == TypeOK /\ ApiInv /\ WorkerInv

-----------------------------------------------------------------------------
(* Everything but the create calls and late cancel calls only moves        *)
(* unfinished rows forward.                                                *)

\* The calls stand still, and a row changes only if it is unfinished, to
\* another unfinished status or to a settled one.
RowProgress ==
  /\ UNCHANGED <<op, callPc, answer, reopened>>
  /\ \A d \in Calls : \/ status'[d] = status[d]
                      \/ /\ status[d] \in Active
                         /\ status'[d] \in Active \cup Terminal

LEMMA RowUpdatesProgress ==
  ASSUME TypeOK, NEW c \in Calls, NEW s \in Terminal,
         UNCHANGED <<op, callPc, answer, reopened>>,
         SetTerminalStatus(c, s) \/ MarkRunning(c)
  PROVE  RowProgress
  BY DEF TypeOK, RowProgress, Active, SetTerminalStatus, MarkRunning

LEMMA WorkerStepProgress ==
  ASSUME TypeOK, NEW c \in Calls,
         RequestCancel(c) \/ PublishCancel(c) \/ WorkerStep(c) \/ StreamEnds(c)
  PROVE  RowProgress
  <1> USE DEF fixedVars, clientVars, signalVars
  <1>1. CASE RequestCancel(c)
    BY <1>1 DEF RequestCancel, RowProgress
  <1>2. CASE PublishCancel(c)
    BY <1>2 DEF PublishCancel, RowProgress
  <1>3. CASE RejectRun(c)
    BY <1>3, RowUpdatesProgress DEF RejectRun, Terminal
  <1>4. CASE MarkRunRunning(c)
    <2>1. "failed" \in Terminal
      BY DEF Terminal
    <2>2. QED
      BY <1>4, <2>1, RowUpdatesProgress DEF MarkRunRunning
  <1>5. CASE SettleRun(c)
    <2>1. verdict[c] \in Terminal
      BY DEF TypeOK
    <2>2. QED
      BY <1>5, <2>1, RowUpdatesProgress DEF SettleRun
  <1>6. CASE \/ ClaimJob(c) \/ ExpireJob(c) \/ LoadRun(c) \/ OpenStream(c)
             \/ ObserveCancel(c) \/ HandleException(c) \/ AppendEnd(c)
             \/ DrainStream(c) \/ CloseRun(c) \/ StreamVerdict(c) \/ JobTimeout(c)
    BY <1>6 DEF RowProgress, ClaimJob, ExpireJob, LoadRun, OpenStream, ObserveCancel,
                HandleException, AppendEnd, DrainStream, CloseRun, StreamVerdict, JobTimeout
  <1>7. QED
    BY <1>1, <1>2, <1>3, <1>4, <1>5, <1>6 DEF WorkerStep, StreamEnds

LEMMA FaultStepProgress ==
  ASSUME NEW c \in Calls, FaultStep(c), ~ApiCrash(c)
  PROVE  RowProgress
  BY DEF RowProgress, FaultStep, Fault, WorkerCrash, Shutdown, StreamError, StepError,
         CancelKeyExpires, PublishFails, clientVars, signalVars

LEMMA ProgressKeepsApiInv ==
  ASSUME TypeOK, ApiInv, RowProgress
  PROVE  ApiInv'
  <1>1. /\ op' = op
        /\ callPc' = callPc
        /\ answer' = answer
        /\ reopened' = reopened
    BY DEF RowProgress
  <1>2. ASSUME NEW d \in Calls
        PROVE  /\ status[d] = "none" => status'[d] = "none"
               /\ status'[d] = "none" => status[d] = "none"
               /\ status'[d] \in Active => status[d] \in Active
               /\ status[d] = "interrupted" => status'[d] = "interrupted"
    BY DEF RowProgress, Active, Terminal
  <1>3. RowsFollowCalls'
    BY <1>1, <1>2 DEF ApiInv, RowsFollowCalls
  <1>4. OpenInsertExclusive'
    BY <1>1, <1>2 DEF ApiInv, OpenInsertExclusive
  <1>5. ParentsKept'
    <2>1. ASSUME NEW c \in Calls, ParentKept(c)
          PROVE  ParentKept(c)'
      BY <1>1, <1>2, <2>1 DEF ParentKept
    <2>2. QED
      BY <1>1, <1>2, <2>1 DEF ApiInv, ParentsKept
  <1>6. OneActivePerThread'
    BY <1>1, <1>2 DEF ApiInv, OneActivePerThread
  <1>7. IdempotentCreate'
    <2>1. ASSUME NEW c \in Calls, answer[c] # NoRun
          PROVE  status'[answer[c]] # "none" /\ op[answer[c]] = op[c]
      BY <1>2, <2>1 DEF TypeOK, ApiInv, IdempotentCreate
    <2>2. QED
      BY <1>1, <1>2, <2>1 DEF ApiInv, IdempotentCreate
  <1>8. NoOwnParent'
    BY <1>1 DEF ApiInv, NoOwnParent
  <1>9. QED
    BY <1>3, <1>4, <1>5, <1>6, <1>7, <1>8 DEF ApiInv

\* A cancel call carried out on a settled row finds its thread free, and leaves no
\* open insert behind that would have to take the row for settled.
LEMMA CommitCancelKeepsApiInv ==
  ASSUME TypeOK, ApiInv, WorkerInv, NEW c \in Calls, CommitCancel(c)
  PROVE  ApiInv'
  <1>1. UNCHANGED <<op, callPc, answer>>
    BY DEF CommitCancel, fixedVars, clientVars
  <1>2. status[c] # "none" /\ status[c] \in Active \cup Terminal
    BY DEF TypeOK, WorkerInv, CommitCancel
  <1>3. CASE UNCHANGED <<status, reopened>>
    BY <1>1, <1>3, ProgressKeepsApiInv DEF RowProgress
  <1>4. CASE status[c] \in Active /\ status'[c] = "cancel_requested" /\ UNCHANGED reopened
             /\ \A d \in Calls \ {c} : status'[d] = status[d]
    BY <1>1, <1>4, ProgressKeepsApiInv DEF RowProgress, Active
  <1>5. CASE status[c] \in Terminal /\ ActiveOnThread(op[c].thread) = {}
             /\ status' = [status EXCEPT ![c] = "cancel_requested"]
             /\ reopened' = reopened \cup {c}
    <2>1. /\ status'[c] = "cancel_requested"
          /\ \A d \in Calls \ {c} : status'[d] = status[d]
      BY <1>5 DEF TypeOK
    <2>2. \A d \in Calls : /\ status[d] \in Active => op[d].thread # op[c].thread
                           /\ callPc[d] = "inserted" => op[d].thread # op[c].thread
      BY <1>5 DEF CommitCancel, ActiveOnThread, OpenOnThread
    <2>3. RowsFollowCalls'
      BY <1>1, <1>2, <2>1 DEF ApiInv, RowsFollowCalls
    <2>4. OpenInsertExclusive'
      BY <1>1, <1>2, <2>1, <2>2 DEF ApiInv, OpenInsertExclusive
    <2>5. NoOwnParent'
      BY <1>1 DEF ApiInv, NoOwnParent
    <2>6. ASSUME NEW d \in Calls, ParentKept(d)
          PROVE  ParentKept(d)'
      BY <1>1, <1>5, <2>1, <2>6 DEF ParentKept
    <2>7. ParentsKept'
      BY <1>1, <1>2, <2>1, <2>6 DEF ApiInv, ParentsKept
    <2>8. OneActivePerThread'
      BY <1>1, <2>1, <2>2 DEF ApiInv, OneActivePerThread
    <2>9. IdempotentCreate'
      <3>1. ASSUME NEW a \in Calls, answer[a] # NoRun
            PROVE  status'[answer[a]] # "none" /\ op[answer[a]] = op[a]
        BY <2>1, <3>1 DEF TypeOK, ApiInv, IdempotentCreate
      <3>2. QED
        BY <1>1, <1>2, <2>1, <3>1 DEF ApiInv, IdempotentCreate
    <2>10. QED
      BY <2>3, <2>4, <2>5, <2>7, <2>8, <2>9 DEF ApiInv
  <1>6. QED
    BY <1>2, <1>3, <1>4, <1>5 DEF CommitCancel, MarkCancelRequested, TypeOK, Active, Terminal

-----------------------------------------------------------------------------
(* The create calls keep the invariant.                                    *)

\* An answered call matters only through the run it was answered with.
LEMMA AnswerKeepsApiInv ==
  ASSUME TypeOK, ApiInv, NEW c \in Calls, NEW r \in Calls \cup {NoRun}, Answer(c, r),
         op' = op, status' = status, reopened' = reopened,
         r # NoRun => status[r] # "none" /\ op[r] = op[c]
  PROVE  ApiInv'
  <1> USE DEF Answer
  <1>1. \A d \in Calls : /\ callPc'[d] # "answered" => callPc'[d] = callPc[d]
                         /\ answer'[d] = IF d = c THEN r ELSE answer[d]
    BY DEF TypeOK
  <1>2. RowsFollowCalls'
    BY <1>1 DEF ApiInv, RowsFollowCalls
  <1>3. OpenInsertExclusive'
    BY <1>1 DEF ApiInv, OpenInsertExclusive
  <1>4. ParentsKept'
    BY <1>1 DEF ApiInv, ParentsKept, ParentKept
  <1>5. OneActivePerThread' /\ NoOwnParent'
    BY DEF ApiInv, OneActivePerThread, NoOwnParent
  <1>6. IdempotentCreate'
    BY <1>1 DEF ApiInv, IdempotentCreate
  <1>7. QED
    BY <1>2, <1>3, <1>4, <1>5, <1>6 DEF ApiInv

LEMMA PrepareScopeKeepsApiInv ==
  ASSUME TypeOK, ApiInv, NEW c \in Calls, PrepareScope(c)
  PROVE  ApiInv'
  <1>1. op' = op /\ status' = status /\ reopened' = reopened
    BY DEF PrepareScope, fixedVars, signalVars
  <1>2. CASE \E d \in RunsOfRequest(op[c].request) :
               Answer(c, IF SameScope(d, c) THEN d ELSE NoRun)
    <2>1. PICK d \in RunsOfRequest(op[c].request) :
                 Answer(c, IF SameScope(d, c) THEN d ELSE NoRun)
      BY <1>2
    <2> DEFINE r == IF SameScope(d, c) THEN d ELSE NoRun
    <2>2. r \in Calls \cup {NoRun} /\ (r # NoRun => status[r] # "none" /\ op[r] = op[c])
      BY <2>1 DEF RunsOfRequest, SameScope
    <2> HIDE DEF r
    <2>3. Answer(c, r)
      BY <2>1 DEF r
    <2>4. QED
      BY <1>1, <2>2, <2>3, AnswerKeepsApiInv
  <1>3. CASE Answer(c, NoRun)
    BY <1>1, <1>3, AnswerKeepsApiInv
  <1>4. CASE /\ Resumable(c)
             /\ callPc' = [callPc EXCEPT ![c] = "scoped"]
             /\ UNCHANGED answer
    <2>1. /\ callPc[c] = "new"
          /\ callPc'[c] = "scoped"
          /\ \A d \in Calls \ {c} : callPc'[d] = callPc[d]
      BY <1>4 DEF TypeOK, PrepareScope
    <2>2. RowsFollowCalls'
      BY <1>1, <2>1 DEF ApiInv, RowsFollowCalls
    <2>3. OpenInsertExclusive'
      BY <1>1, <2>1 DEF ApiInv, OpenInsertExclusive
    <2>4. ParentsKept'
      <3>1. ParentKept(c)
        BY <1>4 DEF TypeOK, Operations, ApiInv, NoOwnParent, Resumable, ParentKept
      <3>2. QED
        BY <1>1, <2>1, <3>1 DEF ApiInv, ParentsKept, ParentKept
    <2>5. OneActivePerThread' /\ NoOwnParent' /\ IdempotentCreate'
      BY <1>1, <1>4 DEF ApiInv, OneActivePerThread, NoOwnParent, IdempotentCreate
    <2>6. QED
      BY <2>2, <2>3, <2>4, <2>5 DEF ApiInv
  <1>5. QED
    BY <1>2, <1>3, <1>4 DEF PrepareScope

LEMMA PersistRunRecordKeepsApiInv ==
  ASSUME TypeOK, ApiInv, NEW c \in Calls, PersistRunRecord(c)
  PROVE  ApiInv'
  <1>1. op' = op /\ status' = status /\ reopened' = reopened
    BY DEF PersistRunRecord, fixedVars, signalVars
  <1>2. CASE AnswerAfterConflict(c)
    <2>1. PICK r \in Calls \cup {NoRun} :
                 /\ Answer(c, r)
                 /\ r # NoRun => status[r] # "none" /\ op[r] = op[c]
      BY <1>2 DEF AnswerAfterConflict, RunsOfRequest, SameScope
    <2>2. QED
      BY <1>1, <2>1, AnswerKeepsApiInv
  <1>3. CASE /\ Colliding(c) = {}
             /\ callPc' = [callPc EXCEPT ![c] = "inserted"]
             /\ UNCHANGED answer
    <2>1. /\ callPc[c] = "scoped"
          /\ callPc'[c] = "inserted"
          /\ \A d \in Calls \ {c} : callPc'[d] = callPc[d]
      BY <1>3 DEF TypeOK, PersistRunRecord
    <2>2. \A d \in Calls : /\ status[d] # "none" => op[d].request # op[c].request
                           /\ status[d] \in Active => op[d].thread # op[c].thread
                           /\ callPc[d] = "inserted" => /\ op[d].request # op[c].request
                                                        /\ op[d].thread # op[c].thread
      BY <1>3 DEF PersistRunRecord, InsertBlocked, OpenOnThread, Colliding, RunsOfRequest,
                  ActiveOnThread
    <2>3. RowsFollowCalls'
      BY <1>1, <2>1 DEF ApiInv, RowsFollowCalls
    <2>4. OpenInsertExclusive'
      BY <1>1, <2>1, <2>2 DEF ApiInv, OpenInsertExclusive
    <2>5. ParentsKept'
      BY <1>1, <2>1 DEF ApiInv, ParentsKept, ParentKept
    <2>6. OneActivePerThread' /\ NoOwnParent' /\ IdempotentCreate'
      BY <1>1, <1>3 DEF ApiInv, OneActivePerThread, NoOwnParent, IdempotentCreate
    <2>7. QED
      BY <2>3, <2>4, <2>5, <2>6 DEF ApiInv
  <1>4. QED
    BY <1>2, <1>3 DEF PersistRunRecord

LEMMA CommitRunKeepsApiInv ==
  ASSUME TypeOK, ApiInv, NEW c \in Calls, CommitRun(c)
  PROVE  ApiInv'
  <1>1. /\ op' = op
        /\ answer' = answer
        /\ reopened' = reopened
        /\ callPc[c] = "inserted"
        /\ callPc'[c] = "committed"
        /\ status'[c] = "pending"
        /\ \A d \in Calls \ {c} : callPc'[d] = callPc[d] /\ status'[d] = status[d]
    BY DEF TypeOK, CommitRun, fixedVars, signalVars
  <1>2. status[c] = "none"
    BY <1>1 DEF ApiInv, RowsFollowCalls
  <1>3. RowsFollowCalls'
    BY <1>1 DEF ApiInv, RowsFollowCalls
  <1>4. OpenInsertExclusive'
    BY <1>1 DEF ApiInv, OpenInsertExclusive
  <1>5. ASSUME NEW d \in Calls, ParentKept(d)
        PROVE  ParentKept(d)'
    BY <1>1, <1>2, <1>5 DEF ParentKept
  <1>6. ParentsKept'
    BY <1>1, <1>5 DEF ApiInv, ParentsKept
  <1>7. OneActivePerThread'
    BY <1>1 DEF ApiInv, OneActivePerThread, OpenInsertExclusive
  <1>8. IdempotentCreate'
    <2>1. ASSUME NEW a \in Calls, NEW d \in Calls, status'[a] # "none",
                 status'[d] # "none", op[a].request = op[d].request
          PROVE  a = d
      BY <1>1, <2>1 DEF ApiInv, IdempotentCreate, OpenInsertExclusive
    <2>2. ASSUME NEW a \in Calls, answer[a] # NoRun
          PROVE  status'[answer[a]] # "none" /\ op[answer[a]] = op[a]
      <3>1. /\ answer[a] \in Calls
            /\ status[answer[a]] # "none"
            /\ op[answer[a]] = op[a]
        BY <2>2 DEF TypeOK, ApiInv, IdempotentCreate
      <3>2. QED
        BY <1>1, <3>1
    <2>3. QED
      BY <1>1, <2>1, <2>2 DEF IdempotentCreate
  <1>9. NoOwnParent'
    BY <1>1 DEF ApiInv, NoOwnParent
  <1>10. QED
    BY <1>3, <1>4, <1>6, <1>7, <1>8, <1>9 DEF ApiInv

LEMMA ApiInvStep ==
  ASSUME TypeOK, ApiInv, WorkerInv, Next
  PROVE  ApiInv'
  <1>1. PICK c \in Calls :
               \/ ApiStep(c) \/ RequestCancel(c) \/ CommitCancel(c) \/ PublishCancel(c)
               \/ WorkerStep(c) \/ StreamEnds(c) \/ FaultStep(c)
    BY DEF Next
  <1>2. CASE PrepareScope(c) \/ PersistRunRecord(c) \/ CommitRun(c)
    BY <1>2, PrepareScopeKeepsApiInv, PersistRunRecordKeepsApiInv, CommitRunKeepsApiInv
  <1>3. CASE EnqueueRun(c)
    <2>1. status[c] # "none"
      BY <1>3 DEF ApiInv, RowsFollowCalls, EnqueueRun
    <2>2. QED
      BY <1>3, <2>1, AnswerKeepsApiInv DEF EnqueueRun, fixedVars, signalVars
  <1>4. CASE ApiCrash(c)
    BY <1>4, AnswerKeepsApiInv DEF ApiCrash, Fault, signalVars
  <1>5. CASE \/ RequestCancel(c) \/ PublishCancel(c) \/ WorkerStep(c) \/ StreamEnds(c)
             \/ FaultStep(c) /\ ~ApiCrash(c)
    BY <1>5, WorkerStepProgress, FaultStepProgress, ProgressKeepsApiInv
  <1>6. CASE CommitCancel(c)
    BY <1>6, CommitCancelKeepsApiInv
  <1>7. QED
    BY <1>1, <1>2, <1>3, <1>4, <1>5, <1>6 DEF ApiStep

-----------------------------------------------------------------------------
(* Every step keeps what the coroutine relies on.                          *)

\* A step that moves one coroutine to a place where it relies on no more than
\* the row's existence, and leaves the rows and the end events alone.
LEMMA MoveKeepsWorkerInv ==
  ASSUME TypeOK, WorkerInv, NEW c \in Calls,
         NEW p \in Phases \ {"reject", "mark", "open", "stream", "announce"},
         phase' = [phase EXCEPT ![c] = p],
         \/ UNCHANGED job
         \/ \E j \in JobStates : job' = [job EXCEPT ![c] = j],
         phase[c] # "idle" \/ job[c] # "none",
         UNCHANGED <<status, ends, cancelling, reopened>>
  PROVE  WorkerInv'
  BY DEF TypeOK, WorkerInv, Settled

LEMMA ApiStepKeepsWorkerInv ==
  ASSUME TypeOK, ApiInv, WorkerInv, NEW c \in Calls,
         ApiStep(c) \/ RequestCancel(c) \/ CommitCancel(c) \/ PublishCancel(c)
  PROVE  WorkerInv'
  <1> USE DEF fixedVars, clientVars, queueVars, workerVars, signalVars
  <1>1. CASE PrepareScope(c) \/ PersistRunRecord(c)
    BY <1>1 DEF PrepareScope, PersistRunRecord, WorkerInv, Settled
  <1>2. CASE CommitRun(c)
    <2>1. status[c] = "none"
      BY <1>2 DEF ApiInv, RowsFollowCalls, CommitRun
    <2>2. QED
      BY <1>2, <2>1 DEF TypeOK, WorkerInv, Settled, CommitRun, Active, Terminal
  <1>3. CASE EnqueueRun(c)
    <2>1. status[c] # "none"
      BY <1>3 DEF ApiInv, RowsFollowCalls, EnqueueRun
    <2>2. QED
      BY <1>3, <2>1 DEF TypeOK, WorkerInv, Settled, EnqueueRun
  <1>4. CASE RequestCancel(c)
    BY <1>4 DEF WorkerInv, Settled, RequestCancel
  <1>5. CASE CommitCancel(c)
    <2>1. status[c] # "none"
      BY <1>5 DEF WorkerInv, CommitCancel
    <2>2. \A d \in Calls :
             \/ status'[d] = status[d]
             \/ /\ status'[d] = "cancel_requested"
                /\ status[d] # "none"
                /\ status[d] \in Terminal => d \in reopened'
      BY <1>5, <2>1 DEF TypeOK, CommitCancel, MarkCancelRequested
    <2>3. reopened \subseteq reopened'
      BY <1>5 DEF CommitCancel, MarkCancelRequested
    <2>4. UNCHANGED <<phase, job, ends, cancelling>>
      BY <1>5 DEF CommitCancel
    <2>5. \A d \in Calls : Settled(d) => Settled(d)'
      BY <2>2, <2>3 DEF Settled, Terminal
    <2>6. QED
      BY <2>2, <2>4, <2>5 DEF WorkerInv, Active
  <1>6. CASE PublishCancel(c)
    BY <1>6 DEF WorkerInv, Settled, PublishCancel
  <1>7. QED
    BY <1>1, <1>2, <1>3, <1>4, <1>5, <1>6 DEF ApiStep

LEMMA WorkerStepKeepsWorkerInv ==
  ASSUME TypeOK, WorkerInv, NEW c \in Calls, WorkerStep(c) \/ StreamEnds(c)
  PROVE  WorkerInv'
  <1> USE DEF fixedVars, clientVars, queueVars, signalVars
  <1>1. CASE ClaimJob(c)
    BY <1>1, MoveKeepsWorkerInv DEF ClaimJob, Step, GoTo, Phases, JobStates
  <1>2. CASE ExpireJob(c)
    BY <1>2 DEF TypeOK, WorkerInv, Settled, ExpireJob, workerVars
  <1>3. CASE LoadRun(c)
    BY <1>3 DEF TypeOK, WorkerInv, Settled, LoadRun, Step, Leave, GoTo, Active
  <1>4. CASE RejectRun(c)
    BY <1>4 DEF TypeOK, WorkerInv, Settled, RejectRun, SetTerminalStatus, Leave, GoTo, Active, Terminal
  <1>5. CASE MarkRunRunning(c)
    BY <1>5 DEF TypeOK, WorkerInv, Settled, MarkRunRunning, MarkRunning, Step, GoTo, Active, Terminal
  <1>6. CASE OpenStream(c)
    BY <1>6 DEF TypeOK, WorkerInv, Settled, OpenStream, Step, GoTo
  <1>7. CASE ObserveCancel(c) \/ JobTimeout(c) \/ StreamVerdict(c) \/ DrainStream(c)
    <2>1. PICK p \in {"handle", "settle", "close"} : phase' = [phase EXCEPT ![c] = p]
      BY <1>7 DEF ObserveCancel, JobTimeout, StreamVerdict, DrainStream, Step, GoTo
    <2>2. phase[c] # "idle" /\ UNCHANGED <<job, status, ends, cancelling, reopened>>
      BY <1>7 DEF ObserveCancel, JobTimeout, StreamVerdict, DrainStream
    <2>3. QED
      BY <2>1, <2>2, MoveKeepsWorkerInv DEF Phases
  <1>8. CASE HandleException(c)
    <2>1. PICK p \in {"settle", "closeRetry"} : phase' = [phase EXCEPT ![c] = p]
      BY <1>8 DEF HandleException, Step, GoTo
    <2>2. phase[c] # "idle" /\ UNCHANGED <<job, status, ends, cancelling, reopened>>
      BY <1>8 DEF HandleException
    <2>3. QED
      BY <2>1, <2>2, MoveKeepsWorkerInv DEF Phases
  <1>9. CASE SettleRun(c)
    BY <1>9 DEF TypeOK, WorkerInv, Settled, SettleRun, SetTerminalStatus, Step, GoTo, Active, Terminal
  <1>10. CASE AppendEnd(c)
    <2>1. Settled(c)
      BY <1>10 DEF WorkerInv, AppendEnd
    <2>2. /\ \A d \in Calls \ {c} : phase'[d] = phase[d] /\ ends'[d] = ends[d]
          /\ phase'[c] \in {"tail", "close"}
          /\ UNCHANGED <<job, status, cancelling, reopened>>
      BY <1>10 DEF TypeOK, AppendEnd, Step, GoTo
    <2>3. QED
      BY <2>1, <2>2 DEF WorkerInv, Settled, Terminal
  <1>11. CASE CloseRun(c)
    <2>1. PICK j \in JobStates : Leave(c, j)
      BY <1>11 DEF CloseRun, JobStates
    <2>2. phase[c] # "idle" /\ UNCHANGED <<status, ends, cancelling, reopened>>
      BY <1>11 DEF CloseRun
    <2>3. QED
      BY <2>1, <2>2, MoveKeepsWorkerInv DEF Leave, GoTo, Phases
  <1>12. QED
    BY <1>1, <1>2, <1>3, <1>4, <1>5, <1>6, <1>7, <1>8, <1>9, <1>10, <1>11
       DEF WorkerStep, StreamEnds

LEMMA FaultStepKeepsWorkerInv ==
  ASSUME TypeOK, WorkerInv, NEW c \in Calls, FaultStep(c)
  PROVE  WorkerInv'
  <1> USE DEF clientVars, queueVars, workerVars, signalVars
  <1>1. CASE ApiCrash(c) \/ CancelKeyExpires(c) \/ PublishFails(c)
    BY <1>1 DEF WorkerInv, Settled, ApiCrash, CancelKeyExpires, PublishFails
  <1>2. CASE WorkerCrash(c) \/ Shutdown(c) \/ StreamError(c) \/ StepError(c)
    <2>1. PICK p \in {"idle", "handle", "closeCancelled", "closeError"} :
                 phase' = [phase EXCEPT ![c] = p]
      BY <1>2 DEF WorkerCrash, Shutdown, StreamError, StepError, Leave, Step, GoTo
    <2>2. UNCHANGED job \/ \E j \in JobStates : job' = [job EXCEPT ![c] = j]
      BY <1>2 DEF WorkerCrash, Shutdown, StreamError, StepError, Leave, JobStates
    <2>3. phase[c] # "idle" /\ UNCHANGED <<status, ends, cancelling, reopened>>
      BY <1>2 DEF WorkerCrash, Shutdown, StreamError, StepError
    <2>4. QED
      BY <2>1, <2>2, <2>3, MoveKeepsWorkerInv DEF Phases
  <1>3. QED
    BY <1>1, <1>2 DEF FaultStep

-----------------------------------------------------------------------------
(* The inductive invariant holds, and what follows from it.                *)

\* In every state the tables, the calls and the coroutines fit together as IInv
\* says: open transactions exclude each other, and a coroutine acts on a row in
\* the status its place in process_agent_run requires.
THEOREM InductiveInvariant == Spec => []IInv
  <1>1. Init => IInv
    <2> SUFFICES ASSUME Init PROVE ApiInv /\ WorkerInv
      BY ConstantsAssumption DEF IInv, Init, TypeOK, CallPcs, JobStates, Phases,
                                 BodyBlocks, Terminal
    <2>2. ApiInv
      BY DEF Init, ApiInv, RowsFollowCalls, OpenInsertExclusive, NoOwnParent, ParentsKept,
             OneActivePerThread, IdempotentCreate, Active
    <2>3. WorkerInv
      BY DEF Init, WorkerInv
    <2>4. QED
      BY <2>2, <2>3
  <1>2. IInv /\ TypeOK' /\ [Next]_vars => IInv'
    <2> SUFFICES ASSUME IInv, TypeOK', [Next]_vars PROVE ApiInv' /\ WorkerInv'
      BY DEF IInv
    <2>1. CASE UNCHANGED vars
      BY <2>1 DEF vars, IInv, ApiInv, WorkerInv, Settled, RowsFollowCalls,
                  OpenInsertExclusive, NoOwnParent, ParentsKept, ParentKept,
                  OneActivePerThread, IdempotentCreate
    <2>2. CASE Next
      <3>1. ApiInv'
        BY <2>2, ApiInvStep DEF IInv
      <3>2. WorkerInv'
        BY <2>2, ApiStepKeepsWorkerInv, WorkerStepKeepsWorkerInv, FaultStepKeepsWorkerInv
           DEF IInv, Next
      <3>3. QED
        BY <3>1, <3>2
    <2>3. QED
      BY <2>1, <2>2
  <1>3. QED
    BY <1>1, <1>2, TypeCorrect, PTL DEF Spec

\* No thread has two unfinished runs, for any number of racing calls, late
\* cancels, retries and crashes.
THEOREM OneActiveRunPerThread == Spec => []OneActivePerThread
  <1>1. IInv => OneActivePerThread
    BY DEF IInv, ApiInv
  <1>2. QED
    BY <1>1, InductiveInvariant, PTL

\* A request id names at most one run, and an answered call got its own run.
THEOREM CreateIsIdempotent == Spec => []IdempotentCreate
  <1>1. IInv => IdempotentCreate
    BY DEF IInv, ApiInv
  <1>2. QED
    BY <1>1, InductiveInvariant, PTL

\* The parent of a resume run stays interrupted, unless a cancel call that had read
\* it before takes it back: then the resume run has settled, so that still no thread
\* has two unfinished runs.
THEOREM InterruptsAreKept == Spec => []ResumeFollowsInterrupt
  <1>1. IInv => ResumeFollowsInterrupt
    <2> SUFFICES ASSUME IInv, NEW c \in Calls, status[c] # "none", op[c].parent # NoRun
                 PROVE  /\ \/ status[op[c].parent] = "interrupted"
                           \/ op[c].parent \in reopened
                              /\ (status[op[c].parent] \in Active => status[c] \in Terminal)
                        /\ op[op[c].parent].thread = op[c].thread
      BY DEF ResumeFollowsInterrupt
    <2>1. ParentKept(c)
      BY DEF IInv, ApiInv, ParentsKept
    <2>2. status[op[c].parent] \in Active => status[c] \notin Active
      BY <2>1 DEF IInv, ApiInv, OneActivePerThread, ParentKept
    <2>3. QED
      BY <2>1, <2>2 DEF IInv, TypeOK, ParentKept
  <1>2. QED
    BY <1>1, InductiveInvariant, PTL

\* A job always finds the row it was enqueued for.
THEOREM JobsHaveRows == Spec => []JobHasRow
  <1>1. IInv => JobHasRow
    BY DEF IInv, WorkerInv, JobHasRow
  <1>2. QED
    BY <1>1, InductiveInvariant, PTL

\* No reader of an end event finds its run unfinished, whatever the coroutine,
\* its handlers and its repeated jobs append to the stream and in which order, unless
\* a late cancel call took the run back.
THEOREM EndsFollowSettlement == Spec => []EndImpliesTerminal
  <1>1. IInv => EndImpliesTerminal
    BY DEF IInv, WorkerInv, Settled, EndImpliesTerminal
  <1>2. QED
    BY <1>1, InductiveInvariant, PTL

\* Two coroutines never stream the agent of one thread: a streaming run is
\* unfinished, and a thread has only one unfinished run.
THEOREM OneStreamPerThread == Spec => []OneGeneratorPerThread
  <1>1. IInv => OneGeneratorPerThread
    BY DEF IInv, ApiInv, WorkerInv, OneActivePerThread, OneGeneratorPerThread
  <1>2. QED
    BY <1>1, InductiveInvariant, PTL

-----------------------------------------------------------------------------
(* The end events of a run that no late cancel call takes back tell the    *)
(* truth while no step of a coroutine fails.                               *)

\* The first end event carries the row's status, and the others a cancel.
Told(c) ==
  /\ ends[c] # <<>>
  /\ ends[c][1] = status[c]
  /\ \A i \in 2..Len(ends[c]) : ends[c][i] = "cancelled"
Untold(c) == status[c] \in Active /\ ends[c] = <<>>
\* A cancel signal came after the run had settled and announced its end.
CancelledLate(c) == block[c] = "cancel" /\ Told(c)

\* What has been announced of run c at each place of its coroutine.
EndAccount(c) ==
  /\ ends[c] # <<>> => Told(c)
  /\ phase[c] = "tail" => Told(c)
  /\ phase[c] = "handle" => Untold(c) \/ CancelledLate(c)
  /\ phase[c] = "settle" => \/ Untold(c)
                            \/ CancelledLate(c) /\ verdict[c] = "cancelled"
  /\ phase[c] = "announce" => \/ ends[c] = <<>> /\ verdict[c] = status[c]
                              \/ Told(c) /\ verdict[c] = "cancelled"
EndAccounts == \A c \in Calls \ reopened : EndAccount(c)

\* A run whose coroutine stands still keeps its account while its row at most
\* goes from one unfinished status to another.
LEMMA AccountStands ==
  ASSUME TypeOK, WorkerInv, NEW c \in Calls \ reopened, EndAccount(c),
         phase'[c] = phase[c], block'[c] = block[c], verdict'[c] = verdict[c],
         ends'[c] = ends[c],
         \/ status'[c] = status[c]
         \/ status[c] \in Active /\ status'[c] \in Active
         \/ status[c] = "none"
  PROVE  EndAccount(c)'
  <1>1. CASE status'[c] = status[c]
    BY <1>1 DEF EndAccount, Told, Untold, CancelledLate
  <1>2. CASE status[c] \in Active /\ status'[c] \in Active
    <2>1. ends[c] = <<>> /\ phase[c] # "announce"
      BY <1>2 DEF WorkerInv, Settled, Active, Terminal
    <2>2. QED
      BY <1>2, <2>1 DEF EndAccount, Told, Untold, CancelledLate
  <1>3. CASE status[c] = "none"
    <2>1. ends[c] = <<>> /\ phase[c] = "idle"
      BY <1>3 DEF WorkerInv, Settled, Terminal
    <2>2. QED
      BY <2>1 DEF EndAccount
  <1>4. QED
    BY <1>1, <1>2, <1>3

\* A coroutine that goes where nothing is to be announced keeps its account.
LEMMA AccountMoves ==
  ASSUME TypeOK, NEW c \in Calls, EndAccount(c),
         phase'[c] \notin {"tail", "handle", "settle", "announce"},
         status'[c] = status[c] \/ ends[c] = <<>>, ends'[c] = ends[c]
  PROVE  EndAccount(c)'
  BY DEF EndAccount, Told

\* What appending an end event makes of a stream.
LEMMA AppendEndFacts ==
  ASSUME NEW s \in Seq(Terminal), NEW v \in Terminal
  PROVE  /\ Append(s, v) # <<>>
         /\ s = <<>> => /\ Append(s, v)[1] = v
                        /\ \A i \in 2..Len(Append(s, v)) : FALSE
         /\ s # <<>> => /\ Append(s, v)[1] = s[1]
                        /\ \A i \in 2..Len(Append(s, v)) :
                             Append(s, v)[i] = v \/ (i \in 2..Len(s) /\ Append(s, v)[i] = s[i])
  OBVIOUS

\* The other runs do not notice a step of a coroutine or of its queue.
LEMMA OthersStand ==
  ASSUME TypeOK, NEW c \in Calls, NEW d \in Calls \ {c},
         WorkerStep(c) \/ StreamEnds(c) \/ FaultStep(c)
  PROVE  /\ phase'[d] = phase[d] /\ block'[d] = block[d] /\ verdict'[d] = verdict[d]
         /\ ends'[d] = ends[d] /\ status'[d] = status[d]
  <1> USE DEF TypeOK, Leave, Step, GoTo, workerVars
  <1>1. CASE FaultStep(c)
    BY <1>1 DEF FaultStep, ApiCrash, WorkerCrash, Shutdown, StreamError, StepError,
                CancelKeyExpires, PublishFails
  <1>2. CASE StreamEnds(c)
    BY <1>2 DEF StreamEnds, StreamVerdict, JobTimeout
  <1>3. CASE ClaimJob(c) \/ ExpireJob(c) \/ LoadRun(c) \/ OpenStream(c) \/ ObserveCancel(c)
             \/ HandleException(c) \/ DrainStream(c) \/ CloseRun(c)
    BY <1>3 DEF ClaimJob, ExpireJob, LoadRun, OpenStream, ObserveCancel, HandleException,
                DrainStream, CloseRun
  <1>4. CASE RejectRun(c) \/ MarkRunRunning(c) \/ SettleRun(c) \/ AppendEnd(c)
    BY <1>4 DEF RejectRun, MarkRunRunning, SettleRun, AppendEnd, SetTerminalStatus, MarkRunning
  <1>5. QED
    BY <1>1, <1>2, <1>3, <1>4 DEF WorkerStep

\* A run once taken back counts as such for ever.
LEMMA ReopenedStays ==
  ASSUME [Next]_vars
  PROVE  reopened \subseteq reopened'
  <1> USE DEF signalVars
  <1>1. CASE UNCHANGED vars
    BY <1>1 DEF vars
  <1>2. ASSUME NEW c \in Calls, CommitCancel(c)
        PROVE  reopened \subseteq reopened'
    BY <1>2 DEF CommitCancel, MarkCancelRequested
  <1>3. ASSUME NEW c \in Calls, ApiStep(c) \/ RequestCancel(c) \/ PublishCancel(c)
        PROVE  reopened' = reopened
    BY <1>3 DEF ApiStep, PrepareScope, PersistRunRecord, CommitRun, EnqueueRun,
                RequestCancel, PublishCancel
  <1>4. ASSUME NEW c \in Calls, WorkerStep(c) \/ StreamEnds(c)
        PROVE  reopened' = reopened
    BY <1>4 DEF WorkerStep, StreamEnds, ClaimJob, ExpireJob, LoadRun, RejectRun,
                MarkRunRunning, OpenStream, ObserveCancel, HandleException, SettleRun,
                AppendEnd, DrainStream, CloseRun, StreamVerdict, JobTimeout
  <1>5. ASSUME NEW c \in Calls, FaultStep(c)
        PROVE  reopened' = reopened
    BY <1>5 DEF FaultStep, ApiCrash, WorkerCrash, Shutdown, StreamError, StepError,
                CancelKeyExpires, PublishFails
  <1>6. QED
    BY <1>1, <1>2, <1>3, <1>4, <1>5 DEF Next

LEMMA ApiAccounts ==
  ASSUME TypeOK, ApiInv, WorkerInv, EndAccounts, NEW c \in Calls,
         NEW d \in Calls \ reopened', d \notin reopened,
         ApiStep(c) \/ RequestCancel(c) \/ CommitCancel(c) \/ PublishCancel(c)
  PROVE  EndAccount(d)'
  <1>1. UNCHANGED <<phase, block, verdict, ends>>
    BY DEF ApiStep, PrepareScope, PersistRunRecord, CommitRun, EnqueueRun, RequestCancel,
           CommitCancel, PublishCancel, workerVars
  <1>2. \/ status'[d] = status[d]
        \/ status[d] \in Active /\ status'[d] \in Active
        \/ status[d] = "none"
    <2>1. CASE CommitRun(c)
      BY <2>1 DEF CommitRun, ApiInv, RowsFollowCalls, TypeOK
    <2>2. CASE CommitCancel(c)
      BY <2>2 DEF CommitCancel, MarkCancelRequested, TypeOK, Active
    <2>3. CASE \/ PrepareScope(c) \/ PersistRunRecord(c) \/ EnqueueRun(c)
               \/ RequestCancel(c) \/ PublishCancel(c)
      BY <2>3 DEF PrepareScope, PersistRunRecord, EnqueueRun, RequestCancel, PublishCancel
    <2>4. QED
      BY <2>1, <2>2, <2>3 DEF ApiStep
  <1>3. QED
    BY <1>1, <1>2, AccountStands DEF EndAccounts

LEMMA WorkerAccounts ==
  ASSUME TypeOK, WorkerInv, NEW c \in Calls \ reopened, EndAccount(c),
         WorkerStep(c) \/ StreamEnds(c)
  PROVE  EndAccount(c)'
  <1> USE DEF queueVars
  <1>1. CASE ClaimJob(c) \/ OpenStream(c) \/ DrainStream(c)
    BY <1>1, AccountMoves DEF ClaimJob, OpenStream, DrainStream, Step, GoTo, TypeOK
  <1>2. CASE ExpireJob(c)
    BY <1>2, AccountStands DEF ExpireJob, workerVars
  <1>3. CASE LoadRun(c)
    BY <1>3, AccountMoves DEF LoadRun, Leave, Step, GoTo, TypeOK
  <1>4. CASE RejectRun(c) \/ MarkRunRunning(c)
    <2>1. ends[c] = <<>>
      BY <1>4 DEF RejectRun, MarkRunRunning, WorkerInv, Settled, Active, Terminal
    <2>2. QED
      BY <1>4, <2>1, AccountMoves DEF RejectRun, MarkRunRunning, Leave, Step, GoTo, TypeOK
  <1>5. CASE StreamEnds(c) \/ (ObserveCancel(c) /\ phase[c] = "stream")
    <2>1. Untold(c)
      BY <1>5 DEF StreamEnds, StreamVerdict, JobTimeout, WorkerInv, Settled, Untold, Active, Terminal
    <2>2. /\ phase'[c] \in {"handle", "settle"}
          /\ UNCHANGED <<status, ends>>
      BY <1>5 DEF StreamEnds, StreamVerdict, JobTimeout, ObserveCancel, GoTo, TypeOK
    <2>3. QED
      BY <2>1, <2>2 DEF EndAccount, Untold
  <1>6. CASE ObserveCancel(c) /\ phase[c] = "tail"
    <2>1. /\ Told(c) /\ phase'[c] = "handle" /\ block'[c] = "cancel"
          /\ UNCHANGED <<status, ends>>
      BY <1>6 DEF ObserveCancel, GoTo, TypeOK, EndAccount
    <2>2. QED
      BY <2>1 DEF EndAccount, CancelledLate, Told
  <1>7. CASE HandleException(c)
    <2>1. CASE Step(c, "closeRetry")
      BY <1>7, <2>1, AccountMoves DEF HandleException, Step, GoTo, TypeOK
    <2>2. CASE ~Step(c, "closeRetry")
      <3>1. /\ phase[c] = "handle" /\ phase'[c] = "settle" /\ block'[c] = block[c]
            /\ block[c] = "cancel" => verdict'[c] = "cancelled"
            /\ UNCHANGED <<status, ends>>
        BY <1>7, <2>2 DEF HandleException, GoTo, TypeOK
      <3>2. QED
        BY <3>1 DEF EndAccount, Untold, CancelledLate, Told
    <2>3. QED
      BY <2>1, <2>2
  <1>8. CASE SettleRun(c)
    <2>1. /\ phase[c] = "settle" /\ phase'[c] = "announce" /\ verdict'[c] = verdict[c]
          /\ status'[c] = IF status[c] \in Active THEN verdict[c] ELSE status[c]
          /\ UNCHANGED ends
      BY <1>8 DEF SettleRun, SetTerminalStatus, Step, GoTo, TypeOK
    <2>2. CASE Untold(c)
      BY <2>1, <2>2 DEF EndAccount, Untold
    <2>3. CASE CancelledLate(c) /\ verdict[c] = "cancelled"
      <3>1. status'[c] = status[c]
        BY <2>1, <2>3 DEF CancelledLate, Told, WorkerInv, Settled, Active, Terminal
      <3>2. QED
        BY <2>1, <2>3, <3>1 DEF EndAccount, CancelledLate, Told
    <2>4. QED
      BY <2>1, <2>2, <2>3 DEF EndAccount
  <1>9. CASE AppendEnd(c)
    <2>1. /\ phase[c] = "announce" /\ phase'[c] \in {"tail", "close"}
          /\ ends'[c] = Append(ends[c], verdict[c]) /\ status'[c] = status[c]
          /\ ends[c] \in Seq(Terminal) /\ verdict[c] \in Terminal
      BY <1>9 DEF AppendEnd, Step, GoTo, TypeOK
    <2>2. Told(c)'
      BY <2>1, AppendEndFacts DEF EndAccount, Told
    <2>3. QED
      BY <2>1, <2>2 DEF EndAccount
  <1>10. CASE CloseRun(c)
    BY <1>10, AccountMoves DEF CloseRun, Leave, GoTo, TypeOK
  <1>11. QED
    BY <1>1, <1>2, <1>3, <1>4, <1>5, <1>6, <1>7, <1>8, <1>9, <1>10
       DEF WorkerStep, ObserveCancel

LEMMA FaultAccounts ==
  ASSUME TypeOK, WorkerInv, NEW c \in Calls \ reopened, EndAccount(c), FaultStep(c),
         ~Shutdown(c), ~StepError(c)
  PROVE  EndAccount(c)'
  <1>1. CASE ApiCrash(c) \/ CancelKeyExpires(c) \/ PublishFails(c)
    BY <1>1, AccountStands DEF ApiCrash, CancelKeyExpires, PublishFails, workerVars
  <1>2. CASE WorkerCrash(c)
    BY <1>2, AccountMoves DEF WorkerCrash, Leave, GoTo, TypeOK
  <1>3. CASE StreamError(c)
    <2>1. Untold(c) /\ phase'[c] = "handle" /\ UNCHANGED <<status, ends>>
      BY <1>3 DEF StreamError, WorkerInv, Settled, Untold, Active, Terminal, GoTo, TypeOK
    <2>2. QED
      BY <2>1 DEF EndAccount, Untold
  <1>4. QED
    BY <1>1, <1>2, <1>3 DEF FaultStep

\* No step of a coroutine fails and no worker is shut down while it runs one;
\* workers and API processes may die, agent streams may raise, and cancel
\* signals may get lost.
NoStepFails == [][\A c \in Calls : ~Shutdown(c) /\ ~StepError(c)]_vars

\* The end events say what the row says, whatever the agent streams, the cancels,
\* the crashes and the repeated jobs do, as long as no step of a coroutine fails and
\* no late cancel takes the run back: a reader who stops at the first of them knows
\* the outcome.
THEOREM EndsTellTheTruth == Spec /\ NoStepFails => []EndTellsTruth
  <1>1. Init => EndAccounts
    BY DEF Init, EndAccounts, EndAccount
  <1>2. /\ IInv /\ EndAccounts /\ [Next]_vars
        /\ [\A c \in Calls : ~Shutdown(c) /\ ~StepError(c)]_vars
        => EndAccounts'
    <2> SUFFICES ASSUME IInv, EndAccounts, [Next]_vars, NEW d \in Calls,
                        [\A c \in Calls : ~Shutdown(c) /\ ~StepError(c)]_vars,
                        d \notin reopened'
                 PROVE  EndAccount(d)'
      BY DEF EndAccounts
    <2> d \notin reopened /\ EndAccount(d)
      BY ReopenedStays DEF EndAccounts, IInv
    <2>1. CASE UNCHANGED vars
      BY <2>1, AccountStands DEF vars, IInv
    <2>2. CASE Next /\ ~UNCHANGED vars
      <3>1. PICK c \in Calls :
                   \/ ApiStep(c) \/ RequestCancel(c) \/ CommitCancel(c) \/ PublishCancel(c)
                   \/ WorkerStep(c) \/ StreamEnds(c) \/ FaultStep(c)
        BY <2>2 DEF Next
      <3>2. ~Shutdown(c) /\ ~StepError(c)
        BY <2>2
      <3>3. CASE ApiStep(c) \/ RequestCancel(c) \/ CommitCancel(c) \/ PublishCancel(c)
        BY <3>3, ApiAccounts DEF IInv
      <3>4. CASE c = d /\ (WorkerStep(c) \/ StreamEnds(c) \/ FaultStep(c))
        BY <3>2, <3>4, WorkerAccounts, FaultAccounts DEF IInv
      <3>5. CASE c # d /\ (WorkerStep(c) \/ StreamEnds(c) \/ FaultStep(c))
        BY <3>5, OthersStand, AccountStands DEF IInv
      <3>6. QED
        BY <3>1, <3>3, <3>4, <3>5
    <2>3. QED
      BY <2>1, <2>2
  <1>3. EndAccounts => EndTellsTruth
    BY DEF EndAccounts, EndAccount, Told, EndTellsTruth
  <1>4. QED
    BY <1>1, <1>2, <1>3, InductiveInvariant, PTL DEF Spec, NoStepFails

-----------------------------------------------------------------------------
(* AgentRun implements RunLifecycle.                                       *)

\* One locked row update is one Progress step, or nothing if the row is settled.
LEMMA RowUpdateSimulates ==
  ASSUME TypeOK, NEW c \in Calls, NEW s \in {"running"} \cup Terminal,
         status' = [status EXCEPT ![c] = IF @ \in Active THEN s ELSE @],
         UNCHANGED <<op, ends, cancelling, reopened>>
  PROVE  [Lifecycle!LifecycleNext]_Lifecycle!lifecycleVars
  <1> USE DEF Lifecycle!Unfinished, Lifecycle!Settled, Active, Terminal
  <1>1. CASE status[c] \in Active
    <2>1. status' = [status EXCEPT ![c] = s]
      BY <1>1
    <2>2. \A d \in Calls : status'[d] = "none" <=> status[d] = "none"
      BY <1>1, <2>1 DEF TypeOK
    <2>3. Lifecycle!Progress(c, s)
      BY <1>1, <2>1, <2>2 DEF Lifecycle!Progress
    <2>4. QED
      BY <2>3 DEF Lifecycle!LifecycleNext
  <1>2. CASE status[c] \notin Active
    <2>1. status' = status
      BY <1>2 DEF TypeOK
    <2>2. QED
      BY <2>1 DEF Lifecycle!lifecycleVars
  <1>3. QED
    BY <1>1, <1>2

LEMMA StutterSimulates ==
  ASSUME UNCHANGED <<op, status, ends, cancelling, reopened>>
  PROVE  [Lifecycle!LifecycleNext]_Lifecycle!lifecycleVars
  BY DEF Lifecycle!lifecycleVars

\* A commit creates its run on a free thread.
LEMMA CommitRunSimulates ==
  ASSUME TypeOK, ApiInv, NEW c \in Calls, CommitRun(c)
  PROVE  Lifecycle!LifecycleNext
  <1> DEFINE thread == [d \in Calls |-> IF status[d] = "none" THEN NoRun ELSE op[d].thread]
  <1>1. PICK t \in Threads : op[c].thread = t
    BY DEF TypeOK, Operations
  <1>2. status[c] = "none" /\ callPc[c] = "inserted"
    BY DEF ApiInv, RowsFollowCalls, CommitRun
  <1>3. /\ status' = [status EXCEPT ![c] = "pending"] /\ op' = op
        /\ UNCHANGED <<ends, cancelling, reopened>>
    BY DEF CommitRun, fixedVars, signalVars
  <1>4. Lifecycle!Free(c, t)
    <2> SUFFICES ASSUME NEW d \in Calls, thread[d] = t
                 PROVE  status[d] \in Lifecycle!Settled
      BY DEF Lifecycle!Free
    <2>1. status[d] # "none" /\ op[d].thread = t
      BY ConstantsAssumption
    <2>2. status[d] \notin Active
      BY <1>1, <1>2, <2>1 DEF ApiInv, OpenInsertExclusive
    <2>3. QED
      BY <2>1, <2>2 DEF TypeOK, Terminal, Lifecycle!Settled
  <1>5. thread' = [thread EXCEPT ![c] = t]
    BY <1>1, <1>3 DEF TypeOK
  <1>6. Lifecycle!Create(c, t)
    BY <1>2, <1>3, <1>4, <1>5 DEF Lifecycle!Create
  <1>7. QED
    BY <1>6 DEF Lifecycle!LifecycleNext

LEMMA AppendEndSimulates ==
  ASSUME TypeOK, WorkerInv, NEW c \in Calls, AppendEnd(c)
  PROVE  Lifecycle!LifecycleNext
  <1>1. Settled(c) /\ verdict[c] \in Terminal
    BY DEF TypeOK, WorkerInv, AppendEnd
  <1>2. Lifecycle!Announce(c, verdict[c])
    BY <1>1 DEF AppendEnd, Settled, fixedVars, signalVars, Terminal, Lifecycle!Announce,
                Lifecycle!Settled
  <1>3. QED
    BY <1>1, <1>2 DEF Terminal, Lifecycle!LifecycleNext, Lifecycle!Settled

\* A cancel call asks, and its update stops the run in time, late, or not at all.
LEMMA RequestCancelSimulates ==
  ASSUME NEW c \in Calls, RequestCancel(c)
  PROVE  [Lifecycle!LifecycleNext]_Lifecycle!lifecycleVars
  <1> USE DEF fixedVars
  <1>1. CASE status[c] \in {"pending", "running"}
    <2>1. Lifecycle!Ask(c)
      BY <1>1 DEF RequestCancel, Lifecycle!Ask, Lifecycle!Unfinished
    <2>2. QED
      BY <2>1 DEF Lifecycle!LifecycleNext
  <1>2. CASE status[c] \notin {"pending", "running"}
    BY <1>2, StutterSimulates DEF RequestCancel
  <1>3. QED
    BY <1>1, <1>2

LEMMA CommitCancelSimulates ==
  ASSUME TypeOK, WorkerInv, NEW c \in Calls, CommitCancel(c)
  PROVE  Lifecycle!LifecycleNext
  <1> DEFINE thread == [d \in Calls |-> IF status[d] = "none" THEN NoRun ELSE op[d].thread]
  <1>1. status[c] # "none" /\ op' = op /\ ends' = ends /\ cancelling' = cancelling
    BY DEF WorkerInv, CommitCancel, fixedVars
  <1>2. thread' = thread
    BY <1>1 DEF TypeOK, CommitCancel, MarkCancelRequested
  <1>3. CASE UNCHANGED <<status, reopened>>
    BY <1>1, <1>2, <1>3 DEF CommitCancel, Lifecycle!Stop, Lifecycle!LifecycleNext
  <1>4. CASE status[c] \in Active /\ status' = [status EXCEPT ![c] = "cancel_requested"]
             /\ reopened' = reopened
    <2>1. Lifecycle!StopInTime(c)
      BY <1>4 DEF Active, Lifecycle!StopInTime, Lifecycle!Unfinished
    <2>2. QED
      BY <1>1, <1>2, <2>1 DEF CommitCancel, Lifecycle!Stop, Lifecycle!LifecycleNext
  <1>5. CASE status[c] \in Terminal /\ ActiveOnThread(op[c].thread) = {}
             /\ status' = [status EXCEPT ![c] = "cancel_requested"]
             /\ reopened' = reopened \cup {c}
    <2>1. Lifecycle!Free(c, thread[c])
      <3> SUFFICES ASSUME NEW d \in Calls \ {c}, thread[d] = thread[c]
                   PROVE  status[d] \in Lifecycle!Settled
        BY DEF Lifecycle!Free
      <3>1. thread[c] = op[c].thread /\ op[c].thread \in Threads
        BY <1>1 DEF TypeOK, Operations
      <3>2. status[d] # "none" /\ op[d].thread = op[c].thread
        BY <3>1, ConstantsAssumption
      <3>3. status[d] \notin Active
        BY <1>5, <3>2 DEF ActiveOnThread
      <3>4. QED
        BY <3>2, <3>3 DEF TypeOK, Terminal, Lifecycle!Settled
    <2>2. Lifecycle!StopLate(c)
      BY <1>5, <2>1 DEF Terminal, Lifecycle!StopLate, Lifecycle!Settled
    <2>3. QED
      BY <1>1, <1>2, <2>2 DEF CommitCancel, Lifecycle!Stop, Lifecycle!LifecycleNext
  <1>6. QED
    BY <1>1, <1>3, <1>4, <1>5 DEF CommitCancel, MarkCancelRequested, TypeOK, Active, Terminal

\* What the rows and the end events do is what RunLifecycle allows: a run starts
\* on a free thread, settles once and for all unless a late cancel call takes it back
\* on a free thread, and announces an end only afterwards.
THEOREM Refinement == Spec => ImplementsLifecycle
  <1>1. Init => Lifecycle!LifecycleInit
    BY DEF Init, Lifecycle!LifecycleInit
  <1>2. IInv /\ [Next]_vars => [Lifecycle!LifecycleNext]_Lifecycle!lifecycleVars
    <2> SUFFICES ASSUME IInv, [Next]_vars
                 PROVE  [Lifecycle!LifecycleNext]_Lifecycle!lifecycleVars
      OBVIOUS
    <2> USE DEF IInv, fixedVars, clientVars, queueVars, workerVars, signalVars
    <2>1. CASE UNCHANGED vars
      BY <2>1, StutterSimulates DEF vars
    <2>2. CASE Next
      <3>1. PICK c \in Calls :
                   \/ ApiStep(c) \/ RequestCancel(c) \/ CommitCancel(c) \/ PublishCancel(c)
                   \/ WorkerStep(c) \/ StreamEnds(c) \/ FaultStep(c)
        BY <2>2 DEF Next
      <3>2. CASE CommitRun(c)
        BY <3>2, CommitRunSimulates
      <3>3. CASE AppendEnd(c)
        BY <3>3, AppendEndSimulates
      <3>4. CASE RequestCancel(c) \/ CommitCancel(c)
        BY <3>4, RequestCancelSimulates, CommitCancelSimulates
      <3>5. CASE RejectRun(c)
        BY <3>5, RowUpdateSimulates DEF RejectRun, SetTerminalStatus, Terminal
      <3>6. CASE MarkRunRunning(c)
        BY <3>6, RowUpdateSimulates DEF MarkRunRunning, MarkRunning
      <3>7. CASE SettleRun(c)
        <4>1. verdict[c] \in Terminal
          BY DEF TypeOK
        <4>2. QED
          BY <3>7, <4>1, RowUpdateSimulates DEF SettleRun, SetTerminalStatus
      <3>8. CASE PrepareScope(c) \/ PersistRunRecord(c) \/ EnqueueRun(c) \/ PublishCancel(c)
        BY <3>8, StutterSimulates DEF PrepareScope, PersistRunRecord, EnqueueRun, PublishCancel
      <3>9. CASE \/ ClaimJob(c) \/ ExpireJob(c) \/ LoadRun(c) \/ OpenStream(c)
                 \/ ObserveCancel(c) \/ HandleException(c) \/ DrainStream(c)
                 \/ CloseRun(c) \/ StreamEnds(c)
        BY <3>9, StutterSimulates
           DEF ClaimJob, ExpireJob, LoadRun, OpenStream, ObserveCancel, HandleException,
               DrainStream, CloseRun, StreamEnds, StreamVerdict, JobTimeout
      <3>10. CASE FaultStep(c)
        BY <3>10, StutterSimulates
           DEF FaultStep, Fault, ApiCrash, WorkerCrash, Shutdown, StreamError, StepError,
               CancelKeyExpires, PublishFails
      <3>11. QED
        BY <3>1, <3>2, <3>3, <3>4, <3>5, <3>6, <3>7, <3>8, <3>9, <3>10
           DEF ApiStep, WorkerStep
    <2>3. QED
      BY <2>1, <2>2
  <1>3. QED
    BY <1>1, <1>2, InductiveInvariant, PTL
       DEF Spec, ImplementsLifecycle, Lifecycle!LifecycleSpec
=============================================================================

------------------------------ MODULE AgentRun ------------------------------
(***************************************************************************)
(* The durable AgentRun: API calls that create and cancel runs, the ARQ    *)
(* job that executes a run, the worker coroutine, the cancel key in Redis  *)
(* and the end events of the run's event stream.                           *)
(*                                                                         *)
(* One element of Calls is one HTTP call that creates a run; the run it    *)
(* inserts (if it does) has the same name, as every call draws a fresh     *)
(* uuid.  A thread stands for the triple (uid, agent_slug, thread id) of   *)
(* the partial unique index: a conversation is bound to one user and one   *)
(* agent, so the thread determines the other two.                          *)
(*                                                                         *)
(* A cancel call reads the row when it looks the run up, and judges by     *)
(* what it read then: its locked select gives it the same object, with the *)
(* status as first read (the session's identity map).                      *)
(***************************************************************************)
EXTENDS Naturals, Sequences

CONSTANTS
  Calls,         \* create calls, and the ids of the runs they may insert
  Requests,      \* request ids (idempotency keys) a client may send
  Threads,       \* conversation threads
  NoRun,         \* "no such run"
  MaxTries,      \* WorkerSettings.max_tries
  Faults,        \* kinds of fault that may happen
  MaxFaults      \* bound on the number of faults in a behaviour

FaultKinds == {"api_crash", "worker_crash", "shutdown", "stream_error",
               "retryable_error", "step_error", "key_lost", "publish_lost"}

ASSUME ConstantsAssumption ==
  /\ NoRun \notin Calls
  /\ NoRun \notin Threads
  /\ MaxTries \in Nat \ {0}
  /\ MaxFaults \in Nat
  /\ Faults \subseteq FaultKinds

VARIABLES
  op,         \* op[c]: what call c asks for (request id, thread, parent run)
  callPc,     \* where the handler of call c stands
  answer,     \* the run that call c answered with, NoRun if it was refused
  status,     \* the committed agent_runs row of run c, "none" if there is none
  job,        \* the ARQ job run:<c>
  tries,      \* its job_try counter
  phase,      \* where the coroutine process_agent_run stands for run c
  block,      \* the block of process_agent_run it is in
  verdict,    \* the status it is about to write and to announce
  cancelKey,  \* runs whose key run:cancel:<c> is set in Redis
  publishing, \* runs whose cancel is committed and not yet published
  cancelling, \* runs that a cancel call has read as pending or running
  reopened,   \* runs that such a call has taken back after they had settled
  ends,       \* ends[c]: statuses of the end events of run c's stream
  faults      \* faults that have happened

clientVars == <<callPc, answer>>
queueVars  == <<job, tries>>
workerVars == <<phase, block, verdict>>
signalVars == <<cancelKey, publishing, cancelling, reopened>>
fixedVars  == <<op, faults>>
vars == <<op, callPc, answer, status, job, tries, phase, block, verdict,
          cancelKey, publishing, cancelling, reopened, ends, faults>>

-----------------------------------------------------------------------------
Terminal == {"completed", "failed", "cancelled", "interrupted"}
Active   == {"pending", "running", "cancel_requested"}

Operations == [request: Requests, thread: Threads, parent: Calls \cup {NoRun}]
CallPcs    == {"new", "scoped", "inserted", "committed", "answered"}
JobStates  == {"none", "queued", "running", "done"}
Phases     == {"idle", "load", "reject", "mark", "open", "stream", "settle",
               "announce", "tail", "handle", "close", "closeRetry",
               "closeError", "closeCancelled"}
\* The blocks of process_agent_run: the body of its try statement (while the
\* agent stream runs, after it asked the user, after it ran dry) and the
\* handlers (cancellation, retryable error, other error).
BodyBlocks    == {"body", "ask", "drained"}
HandlerBlocks == {"cancel", "retry", "error"}

\* A run's id is drawn inside its call, so no client can name it as the parent.
Init ==
  /\ op \in [Calls -> Operations]
  /\ \A c \in Calls : op[c].parent # c
  /\ callPc = [c \in Calls |-> "new"]
  /\ answer = [c \in Calls |-> NoRun]
  /\ status = [c \in Calls |-> "none"]
  /\ job = [c \in Calls |-> "none"]
  /\ tries = [c \in Calls |-> 0]
  /\ phase = [c \in Calls |-> "idle"]
  /\ block = [c \in Calls |-> "body"]
  /\ verdict = [c \in Calls |-> "completed"]
  /\ cancelKey = {}
  /\ publishing = {}
  /\ cancelling = {}
  /\ reopened = {}
  /\ ends = [c \in Calls |-> <<>>]
  /\ faults = 0

-----------------------------------------------------------------------------
(* Repository: reads and locked updates of the agent_runs row.             *)

RunsOfRequest(q) == {d \in Calls : status[d] # "none" /\ op[d].request = q}
ActiveOnThread(t) == {d \in Calls : status[d] \in Active /\ op[d].thread = t}

\* Bug: set_terminal_status without its early return on a settled row.
SetTerminalStatusUnguarded(c, s) == status' = [status EXCEPT ![c] = s]
SetTerminalStatus(c, s) ==
  status' = [status EXCEPT ![c] = IF @ \in Active THEN s ELSE @]

MarkRunning(c) ==
  status' = [status EXCEPT ![c] = IF @ \in Active THEN "running" ELSE @]

-----------------------------------------------------------------------------
(* The create call.  Its handler awaits between the checks, the insert     *)
(* (which blocks on another transaction that inserted a colliding row),    *)
(* the commit and the enqueue.                                             *)

SameScope(c, d) == op[c] = op[d]

Answer(c, r) ==
  /\ callPc' = [callPc EXCEPT ![c] = "answered"]
  /\ answer' = [answer EXCEPT ![c] = r]

\* A chat, or a resume of an interrupted run of the same thread.
\* Bug: a run may be resumed whatever its status.
ResumableAnyStatus(c) ==
  op[c].parent # NoRun => /\ status[op[c].parent] # "none"
                          /\ op[op[c].parent].thread = op[c].thread
Resumable(c) ==
  op[c].parent # NoRun => /\ status[op[c].parent] = "interrupted"
                          /\ op[op[c].parent].thread = op[c].thread

PrepareScope(c) ==
  /\ callPc[c] = "new"
  /\ \/ \E d \in RunsOfRequest(op[c].request) :
          Answer(c, IF SameScope(d, c) THEN d ELSE NoRun)
     \/ /\ RunsOfRequest(op[c].request) = {}
        /\ ~Resumable(c) \/ ActiveOnThread(op[c].thread) # {}
        /\ Answer(c, NoRun)
     \/ /\ RunsOfRequest(op[c].request) = {}
        /\ Resumable(c)
        /\ ActiveOnThread(op[c].thread) = {}
        /\ callPc' = [callPc EXCEPT ![c] = "scoped"]
        /\ UNCHANGED answer
  /\ UNCHANGED <<fixedVars, status, queueVars, workerVars, signalVars, ends>>

\* What the unique request_id and the partial unique index compare a new row
\* with: rows with its request id, and unfinished rows of its thread.
\* Bug: the index on unfinished rows is missing.
CollidesOnRequestOnly(c) == RunsOfRequest(op[c].request)
\* Bug: request_id is not unique.
CollidesOnThreadOnly(c) == ActiveOnThread(op[c].thread)
Colliding(c) == RunsOfRequest(op[c].request) \cup ActiveOnThread(op[c].thread)

\* The insert waits for an open transaction that inserted a colliding row.
OpenOnThread(t) == \E d \in Calls : callPc[d] = "inserted" /\ op[d].thread = t
InsertBlocked(c) ==
  \/ OpenOnThread(op[c].thread)
  \/ \E d \in Calls : callPc[d] = "inserted" /\ op[d].request = op[c].request

AnswerAfterConflict(c) ==
  IF RunsOfRequest(op[c].request) # {}
  THEN \E d \in RunsOfRequest(op[c].request) :
         Answer(c, IF SameScope(d, c) THEN d ELSE NoRun)
  ELSE Answer(c, NoRun)

PersistRunRecord(c) ==
  /\ callPc[c] = "scoped"
  /\ ~InsertBlocked(c)
  /\ \/ /\ Colliding(c) # {}
        /\ AnswerAfterConflict(c)
     \/ /\ Colliding(c) = {}
        /\ callPc' = [callPc EXCEPT ![c] = "inserted"]
        /\ UNCHANGED answer
  /\ UNCHANGED <<fixedVars, status, queueVars, workerVars, signalVars, ends>>

CommitRun(c) ==
  /\ callPc[c] = "inserted"
  /\ callPc' = [callPc EXCEPT ![c] = "committed"]
  /\ status' = [status EXCEPT ![c] = "pending"]
  /\ UNCHANGED <<fixedVars, answer, queueVars, workerVars, signalVars, ends>>

\* Bug: the job is enqueued before the row is committed.
EnqueueRunBeforeCommit(c) ==
  /\ callPc[c] \in {"inserted", "committed"}
  /\ job[c] = "none"
  /\ job' = [job EXCEPT ![c] = "queued"]
  /\ IF callPc[c] = "committed" THEN Answer(c, c) ELSE UNCHANGED clientVars
  /\ UNCHANGED <<fixedVars, status, tries, workerVars, signalVars, ends>>
EnqueueRun(c) ==
  /\ callPc[c] = "committed"
  /\ job' = [job EXCEPT ![c] = "queued"]
  /\ Answer(c, c)
  /\ UNCHANGED <<fixedVars, status, tries, workerVars, signalVars, ends>>

-----------------------------------------------------------------------------
(* The cancel call: look the run up, commit cancel_requested, then publish  *)
(* the signal (also for a run that has already settled).                   *)

\* A run found settled, or asked to stop already, is left as it is; the signal
\* is published again.
RequestCancel(c) ==
  /\ status[c] # "none"
  /\ IF status[c] \in {"pending", "running"}
     THEN cancelling' = cancelling \cup {c} /\ UNCHANGED publishing
     ELSE publishing' = publishing \cup {c} /\ UNCHANGED cancelling
  /\ UNCHANGED <<fixedVars, clientVars, status, queueVars, workerVars, cancelKey,
                 reopened, ends>>

\* The update of a run read as unfinished, whatever its row says by now.  To take
\* a settled run back it must pass the index on unfinished rows, waits for an open
\* insert on the thread, and fails as a whole if another run has the thread.  The run
\* stays in cancelling: any number of calls may have read the row, and a call may
\* also never get this far.
\* Bug: the index on unfinished rows is missing.
MarkCancelRequestedAnyway(c) ==
  /\ status' = [status EXCEPT ![c] = "cancel_requested"]
  /\ publishing' = publishing \cup {c}
  /\ reopened' = IF status[c] \in Terminal THEN reopened \cup {c} ELSE reopened
MarkCancelRequested(c) ==
  IF status[c] \in Terminal /\ ActiveOnThread(op[c].thread) # {}
  THEN UNCHANGED <<status, publishing, reopened>>
  ELSE /\ status' = [status EXCEPT ![c] = "cancel_requested"]
       /\ publishing' = publishing \cup {c}
       /\ reopened' = IF status[c] \in Terminal THEN reopened \cup {c} ELSE reopened
CommitCancel(c) ==
  /\ c \in cancelling
  /\ status[c] \in Terminal => ~OpenOnThread(op[c].thread)
  /\ MarkCancelRequested(c)
  /\ UNCHANGED <<fixedVars, clientVars, queueVars, workerVars, cancelKey, cancelling,
                 ends>>

\* Bug: the published signal is only delivered to a worker already streaming.
PublishCancelToListeners(c) ==
  /\ c \in publishing
  /\ publishing' = publishing \ {c}
  /\ cancelKey' = IF phase[c] = "stream" THEN cancelKey \cup {c} ELSE cancelKey
  /\ UNCHANGED <<fixedVars, clientVars, status, queueVars, workerVars, cancelling,
                 reopened, ends>>
PublishCancel(c) ==
  /\ c \in publishing
  /\ publishing' = publishing \ {c}
  /\ cancelKey' = cancelKey \cup {c}
  /\ UNCHANGED <<fixedVars, clientVars, status, queueVars, workerVars, cancelling,
                 reopened, ends>>

-----------------------------------------------------------------------------
(* The queue and the worker coroutine.                                     *)

GoTo(c, p, b, v) ==
  /\ phase' = [phase EXCEPT ![c] = p]
  /\ block' = [block EXCEPT ![c] = b]
  /\ verdict' = [verdict EXCEPT ![c] = v]

Step(c, p) == GoTo(c, p, block[c], verdict[c])

\* The coroutine is over and the job goes to state j.
Leave(c, j) ==
  /\ GoTo(c, "idle", "body", "completed")
  /\ job' = [job EXCEPT ![c] = j]

ClaimJob(c) ==
  /\ job[c] = "queued"
  /\ tries[c] < MaxTries
  /\ job' = [job EXCEPT ![c] = "running"]
  /\ tries' = [tries EXCEPT ![c] = @ + 1]
  /\ Step(c, "load")
  /\ UNCHANGED <<fixedVars, clientVars, status, signalVars, ends>>

\* The queue fails a job that has used up its tries without running it.
ExpireJob(c) ==
  /\ job[c] = "queued"
  /\ tries[c] = MaxTries
  /\ job' = [job EXCEPT ![c] = "done"]
  /\ UNCHANGED <<fixedVars, clientVars, status, tries, workerVars, signalVars, ends>>

\* Bug: a settled run is executed again.
LoadRunAlways(c) ==
  /\ phase[c] = "load"
  /\ Step(c, "mark")
  /\ UNCHANGED <<fixedVars, clientVars, status, queueVars, signalVars, ends>>
\* Bug: a run already marked running is taken for one another worker executes.
LoadRunSkipsStarted(c) ==
  /\ phase[c] = "load"
  /\ \/ status[c] \notin {"pending", "cancel_requested"} /\ Leave(c, "done")
     \/ /\ status[c] \in {"pending", "cancel_requested"}
        /\ Step(c, "mark")
        /\ UNCHANGED job
  /\ UNCHANGED <<fixedVars, clientVars, status, tries, signalVars, ends>>
\* A missing or settled run is skipped; an unfinished one is executed, or
\* rejected when its payload, input message, type or user is not valid.
LoadRun(c) ==
  /\ phase[c] = "load"
  /\ \/ status[c] \notin Active /\ Leave(c, "done")
     \/ /\ status[c] \in Active
        /\ \E p \in {"mark", "reject"} : Step(c, p)
        /\ UNCHANGED job
  /\ UNCHANGED <<fixedVars, clientVars, status, tries, signalVars, ends>>

RejectRun(c) ==
  /\ phase[c] = "reject"
  /\ SetTerminalStatus(c, "failed")
  /\ Leave(c, "done")
  /\ UNCHANGED <<fixedVars, clientVars, tries, signalVars, ends>>

MarkRunRunning(c) ==
  /\ phase[c] = "mark"
  /\ MarkRunning(c)
  /\ Step(c, "open")
  /\ UNCHANGED <<fixedVars, clientVars, queueVars, signalVars, ends>>

\* Start the cancel watcher, append the metadata event, enter the try block.
OpenStream(c) ==
  /\ phase[c] = "open"
  /\ Step(c, "stream")
  /\ UNCHANGED <<fixedVars, clientVars, status, queueVars, signalVars, ends>>

\* Bug: an interrupted chunk takes the status of the row for its verdict.
StreamVerdictOfRow(c) ==
  /\ phase[c] = "stream"
  /\ \/ \E v \in {"completed", "failed"} : GoTo(c, "settle", "body", v)
     \/ GoTo(c, "settle", "body", IF status[c] = "cancel_requested"
                                  THEN status[c] ELSE "interrupted")
     \/ GoTo(c, "settle", "ask", "interrupted")
     \/ GoTo(c, "settle", "drained", "completed")
  /\ UNCHANGED <<fixedVars, clientVars, status, queueVars, signalVars, ends>>
\* The verdict the stream ends with: a finished, error, interrupted or
\* ask-user chunk, or no verdict chunk at all.  An interrupted chunk reads the
\* row first, to tell a requested cancel from any other interruption.
StreamVerdict(c) ==
  /\ phase[c] = "stream"
  /\ \/ GoTo(c, "settle", "body", "completed")
     \/ GoTo(c, "settle", "body", "failed")
     \/ GoTo(c, "settle", "body", IF status[c] = "cancel_requested"
                                  THEN "cancelled" ELSE "interrupted")
     \/ GoTo(c, "settle", "ask", "interrupted")
     \/ GoTo(c, "settle", "drained", "completed")
  /\ UNCHANGED <<fixedVars, clientVars, status, queueVars, signalVars, ends>>

\* job_timeout cancels the coroutine while the agent stream runs.
JobTimeout(c) ==
  /\ phase[c] = "stream"
  /\ GoTo(c, "handle", "cancel", "cancelled")
  /\ UNCHANGED <<fixedVars, clientVars, status, queueVars, signalVars, ends>>

\* The watcher, or the check after a chunk, sees the cancel signal.
ObserveCancel(c) ==
  /\ phase[c] \in {"stream", "tail"}
  /\ c \in cancelKey
  /\ GoTo(c, "handle", "cancel", "cancelled")
  /\ UNCHANGED <<fixedVars, clientVars, status, queueVars, signalVars, ends>>

\* First step of a handler: flush, append the interrupt or error event, then
\* settle the run, or leave it to the queue to try again.
HandleException(c) ==
  /\ phase[c] = "handle"
  /\ IF block[c] = "retry" /\ tries[c] < MaxTries
     THEN Step(c, "closeRetry")
     ELSE GoTo(c, "settle", block[c],
               IF block[c] = "cancel" THEN "cancelled" ELSE "failed")
  /\ UNCHANGED <<fixedVars, clientVars, status, queueVars, signalVars, ends>>

\* Bug: the end event is appended before the row is settled.
SettleRunAfterAnnouncing(c) ==
  /\ phase[c] = "settle"
  /\ ends' = [ends EXCEPT ![c] = Append(@, verdict[c])]
  /\ Step(c, "announce")
  /\ UNCHANGED <<fixedVars, clientVars, status, queueVars, signalVars>>
SettleRun(c) ==
  /\ phase[c] = "settle"
  /\ SetTerminalStatus(c, verdict[c])
  /\ Step(c, "announce")
  /\ UNCHANGED <<fixedVars, clientVars, queueVars, signalVars, ends>>

AppendEnd(c) ==
  /\ phase[c] = "announce"
  /\ ends' = [ends EXCEPT ![c] = Append(@, verdict[c])]
  /\ Step(c, IF block[c] \in {"body", "ask"} THEN "tail" ELSE "close")
  /\ UNCHANGED <<fixedVars, clientVars, status, queueVars, signalVars>>

\* The agent stream ends after its verdict; after an ask-user chunk it first
\* reads the checkpoint and saves the thread's messages.
DrainStream(c) ==
  /\ phase[c] = "tail"
  /\ Step(c, "close")
  /\ UNCHANGED <<fixedVars, clientVars, status, queueVars, signalVars, ends>>

\* The finally block stops the watcher and deletes the cancel key; the job is
\* over, or goes back to the queue if it was cancelled: the queue retries that,
\* and no exception of the program's own.
CloseRun(c) ==
  /\ \/ phase[c] \in {"close", "closeRetry", "closeError"} /\ Leave(c, "done")
     \/ phase[c] = "closeCancelled" /\ Leave(c, "queued")
  /\ cancelKey' = cancelKey \ {c}
  /\ UNCHANGED <<fixedVars, clientVars, status, tries, publishing, cancelling,
                 reopened, ends>>

-----------------------------------------------------------------------------
(* Faults.                                                                 *)

Fault(k) ==
  /\ k \in Faults
  /\ faults < MaxFaults
  /\ faults' = faults + 1
  /\ UNCHANGED op

\* The API process dies, or the Redis enqueue fails: an open transaction is
\* rolled back, a committed row stays.
ApiCrash(c) ==
  /\ Fault("api_crash")
  /\ callPc[c] \in {"inserted", "committed"}
  /\ Answer(c, NoRun)
  /\ UNCHANGED <<status, queueVars, workerVars, signalVars, ends>>

\* The worker process dies; the queue runs the job again when its in-progress
\* key expires.
WorkerCrash(c) ==
  /\ Fault("worker_crash")
  /\ phase[c] # "idle"
  /\ Leave(c, "queued")
  /\ UNCHANGED <<clientVars, status, tries, signalVars, ends>>

\* The worker is shut down: the job coroutine gets a CancelledError.
Shutdown(c) ==
  /\ Fault("shutdown")
  /\ \/ /\ phase[c] \in {"load", "reject", "mark", "open"}
        /\ Leave(c, "queued")
     \/ /\ phase[c] \in {"stream", "settle", "announce", "tail"}
        /\ block[c] \in BodyBlocks
        /\ GoTo(c, "handle", "cancel", "cancelled")
        /\ UNCHANGED job
     \/ /\ phase[c] \in {"handle", "settle", "announce"}
        /\ block[c] \in HandlerBlocks
        /\ Step(c, "closeCancelled")
        /\ UNCHANGED job
  /\ UNCHANGED <<clientVars, status, tries, signalVars, ends>>

\* An exception while the agent stream runs, retryable or not.
StreamError(c) ==
  /\ phase[c] = "stream"
  /\ \/ Fault("stream_error") /\ GoTo(c, "handle", "error", "failed")
     \/ Fault("retryable_error") /\ GoTo(c, "handle", "retry", "failed")
  /\ UNCHANGED <<clientVars, status, queueVars, signalVars, ends>>

\* One database or Redis call of the coroutine raises: before the try block
\* the exception leaves the coroutine, in its body a handler takes it, in a
\* handler it leaves through the finally block.
StepError(c) ==
  /\ Fault("step_error")
  /\ \/ /\ phase[c] \in {"load", "reject", "mark", "open"}
        /\ Leave(c, "done")
     \/ /\ phase[c] \in {"settle", "announce", "tail"}
        /\ block[c] \in BodyBlocks
        /\ \E b \in {"retry", "error"} : GoTo(c, "handle", b, "failed")
        /\ UNCHANGED job
     \/ /\ phase[c] \in {"handle", "settle", "announce"}
        /\ block[c] \in HandlerBlocks
        /\ Step(c, "closeError")
        /\ UNCHANGED job
  /\ UNCHANGED <<clientVars, status, tries, signalVars, ends>>

\* The cancel key reaches its time to live.
CancelKeyExpires(c) ==
  /\ Fault("key_lost")
  /\ c \in cancelKey
  /\ cancelKey' = cancelKey \ {c}
  /\ UNCHANGED <<clientVars, status, queueVars, workerVars, publishing, cancelling,
                 reopened, ends>>

\* Redis refuses the signal: the failure is logged and forgotten.
PublishFails(c) ==
  /\ Fault("publish_lost")
  /\ c \in publishing
  /\ publishing' = publishing \ {c}
  /\ UNCHANGED <<clientVars, status, queueVars, workerVars, cancelKey, cancelling,
                 reopened, ends>>

-----------------------------------------------------------------------------
ApiStep(c) ==
  PrepareScope(c) \/ PersistRunRecord(c) \/ CommitRun(c) \/ EnqueueRun(c)

\* Every step of the queue and the coroutine but the end of the agent stream.
WorkerStep(c) ==
  \/ ClaimJob(c) \/ ExpireJob(c) \/ LoadRun(c) \/ RejectRun(c)
  \/ MarkRunRunning(c) \/ OpenStream(c) \/ ObserveCancel(c)
  \/ HandleException(c) \/ SettleRun(c) \/ AppendEnd(c) \/ DrainStream(c)
  \/ CloseRun(c)

StreamEnds(c) == StreamVerdict(c) \/ JobTimeout(c)

FaultStep(c) ==
  \/ ApiCrash(c) \/ WorkerCrash(c) \/ Shutdown(c) \/ StreamError(c)
  \/ StepError(c) \/ CancelKeyExpires(c) \/ PublishFails(c)

Next ==
  \E c \in Calls :
    \/ ApiStep(c) \/ RequestCancel(c) \/ CommitCancel(c) \/ PublishCancel(c)
    \/ WorkerStep(c) \/ StreamEnds(c) \/ FaultStep(c)

Spec == Init /\ [][Next]_vars

\* Handlers and workers make progress; nobody has to call or to cancel, and an
\* agent stream need not end by itself.
FairSpec ==
  Spec /\ \A c \in Calls : /\ WF_vars(ApiStep(c))
                           /\ WF_vars(PublishCancel(c))
                           /\ WF_vars(WorkerStep(c))

-----------------------------------------------------------------------------
(* Properties.                                                             *)

\* Every variable keeps its type.
TypeOK ==
  /\ op \in [Calls -> Operations]
  /\ callPc \in [Calls -> CallPcs]
  /\ answer \in [Calls -> Calls \cup {NoRun}]
  /\ status \in [Calls -> Active \cup Terminal \cup {"none"}]
  /\ job \in [Calls -> JobStates]
  /\ tries \in [Calls -> 0..MaxTries]
  /\ phase \in [Calls -> Phases]
  /\ block \in [Calls -> BodyBlocks \cup HandlerBlocks]
  /\ verdict \in [Calls -> Terminal]
  /\ cancelKey \subseteq Calls
  /\ publishing \subseteq Calls /\ cancelling \subseteq Calls
  /\ reopened \subseteq Calls
  /\ ends \in [Calls -> Seq(Terminal)]
  /\ faults \in 0..MaxFaults

\* A thread never has two unfinished runs, whatever calls race, workers crash
\* and late cancels hit settled runs (get_active_run_by_thread_for_user and the
\* partial unique index promise it).
OneActivePerThread ==
  \A c, d \in Calls :
    status[c] \in Active /\ status[d] \in Active /\ op[c].thread = op[d].thread
      => c = d

\* A request id never has two runs, and every call that is answered with a run
\* asked for exactly that run, also when two calls with one request id race or
\* a client reuses a request id for something else.
IdempotentCreate ==
  /\ \A c, d \in Calls :
       /\ status[c] # "none"
       /\ status[d] # "none"
       /\ op[c].request = op[d].request
       => c = d
  /\ \A c \in Calls :
       answer[c] # NoRun => /\ status[answer[c]] # "none"
                            /\ op[answer[c]] = op[c]

\* The worker never gets a job before the row it has to load is committed: it
\* would drop the job, and nothing would ever execute the run.
JobHasRow == \A c \in Calls : job[c] # "none" => status[c] # "none"

\* Whoever reads an end event finds the row settled, unless a cancel call that
\* had read the row before took the run back (await_agent_run_result drains the
\* event stream and then reads the row).
EndImpliesTerminal ==
  \A c \in Calls : ends[c] # <<>> => status[c] \in Terminal \/ c \in reopened

\* At most one run of a thread drives the agent at any time, even when a job is
\* executed again after a crash while the thread has moved on to another run.
OneGeneratorPerThread ==
  \A c, d \in Calls :
    phase[c] = "stream" /\ phase[d] = "stream" /\ op[c].thread = op[d].thread
      => c = d

\* A resume run continues a run of its own thread that is, and stays,
\* interrupted, whatever its thread does, crashes and repeated jobs included; only
\* a cancel call that had read the parent before it was interrupted takes the
\* interrupt back, and only once the resume run has settled.
ResumeFollowsInterrupt ==
  \A c \in Calls :
    status[c] # "none" /\ op[c].parent # NoRun
      => /\ \/ status[op[c].parent] = "interrupted"
            \/ op[c].parent \in reopened
               /\ (status[op[c].parent] \in Active => status[c] \in Terminal)
         /\ op[op[c].parent].thread = op[c].thread

\* As long as no step of the coroutine fails and no worker is shut down, the first
\* end event of a run carries the status of its row for ever, unless a late cancel
\* call took the run back, and another one can only come from a cancel signal that
\* arrived after the run had settled.
EndTellsTruth ==
  \A c \in Calls \ reopened :
    ends[c] # <<>> => /\ ends[c][1] = status[c]
                      /\ \A i \in 2..Len(ends[c]) : ends[c][i] = "cancelled"

\* The row and the end events behave as RunLifecycle promises.
Lifecycle == INSTANCE RunLifecycle WITH
  Runs <- Calls,
  NoThread <- NoRun,
  runStatus <- status,
  runThread <- [c \in Calls |-> IF status[c] = "none" THEN NoRun ELSE op[c].thread],
  announced <- ends,
  asked <- cancelling,
  takenBack <- reopened
ImplementsLifecycle == Lifecycle!LifecycleSpec

\* The last try of the job of run c is over, or was lost with its worker.
OutOfTries(c) == job[c] # "running" /\ tries[c] = MaxTries

\* A run settles, crashes and errors included, unless its agent stream goes on, its
\* job has used up its tries, or a late cancel call has taken it back: its thread
\* does not stay busy for ever.
RunsSettle ==
  \A c \in Calls :
    status[c] \in Active ~> \/ status[c] \in Terminal \/ phase[c] = "stream"
                            \/ OutOfTries(c) \/ c \in reopened

\* What RetryableRunError says of itself: a job that raises it is tried again
\* (or its run has been settled some other way).
RetryableErrorIsRetried ==
  \A c \in Calls :
    phase[c] = "closeRetry" ~> phase[c] = "load" \/ status[c] \in Terminal

\* A cancel of an unfinished run settles it even if its agent stream never ends
\* by itself, and so frees the thread (the run_busy answer tells the client to
\* wait for or to cancel the run that occupies the thread), unless its signal is lost,
\* the job uses up its tries, or the cancel came late and took a settled run back.
CancelSettlesRun ==
  \A c \in Calls :
    status[c] = "cancel_requested"
      ~> status[c] \in Terminal \/ OutOfTries(c) \/ c \in reopened

\* What await_agent_run_result says and a late cancel call breaks: that who has
\* drained the event stream has waited for the run to settle.
DrainedMeansSettled == \A c \in Calls : ends[c] # <<>> => status[c] \in Terminal

\* What the code says of itself and does not keep: no two runs of a thread
\* write it concurrently.  A run writes while its agent stream runs and, after
\* it asked the user, until it has saved the thread's messages.
Writing(c) == phase[c] = "stream" \/ (phase[c] = "tail" /\ block[c] = "ask")
OneWriterPerThread ==
  \A c, d \in Calls :
    Writing(c) /\ Writing(d) /\ op[c].thread = op[d].thread => c = d
=============================================================================

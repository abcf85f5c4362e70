# A verification project for CCNU HuaXiaoan (Yuxi)

Yuxi is a question-answering platform: a FastAPI server, an ARQ worker, PostgreSQL, Redis,
Milvus, Neo4j, MinIO, and a Vue front end. A user's question becomes an *agent run*: a row
in PostgreSQL, a job in the ARQ queue, a coroutine in the worker that drives a LangGraph
agent, an event stream in Redis, and an SSE connection through which the browser follows
it. Around it, documents are parsed, indexed and built into a graph, a background job
extracts memories from finished turns, and users' corrections become tickets whose text is
written back to the knowledge base. This project models that core and these three, checks
them with TLC and proves their safety with TLAPS. Paths below are relative to the
repository; `yuxi/` stands for `backend/package/yuxi/`.

## 1. Inventory

| Component | State | Operations | Hard behaviour | Modelled |
|---|---|---|---|---|
| Agent run lifecycle: `yuxi/services/agent_run_service.py`, `run_worker.py`, `run_queue_service.py`, `repositories/agent_run_repository.py` | `agent_runs` rows, ARQ job, cancel key, end events | create, resume, cancel, execute, settle | racing creates, commit/enqueue gap, repeated jobs, late and lost cancels, failing steps | yes |
| Run event stream: `run_worker.py` (ChunkedEventWriter), `run_queue_service.py`, `stream_agent_run_events`, `web/src/composables/useAgentRunStream.js` | buffers per thread, Redis stream, endpoint cursor, browser cursor | append, flush, read, synthesize end, reconnect | order and completeness of text, end against last text, lost connections, crashed worker | one run, one browser |
| Chat execution: `chat_service.py` | conversation, LangGraph checkpoint | stream, resume, save messages | what is written after the verdict | how a stream ends |
| Subagent runs: `subagent_run_service.py`, `agents/middlewares/subagent_task.py` | child rows, thread relations | start, poll, cascade cancel | child created after the cascade | no |
| Tasker: `task_service.py` | task table in memory and in PostgreSQL, queue, two workers | enqueue, cancel, delete, prune, start, shutdown | delete against update, restart, shutdown | yes |
| Memory: `yuxi/memory/` | session and memory facts, extraction cursor | extract, apply, review, expire | two commits, retries, concurrent extractions and reviews | yes |
| Self-evolution: `yuxi/self_evolution/`, `feedback_service.py` | correction tickets, feedback, chunks, vectors, graph | convert, review, apply, write to graph, withdraw, mark | reviews without a lock, several stores | one ticket of one scope |
| Knowledge base: `yuxi/knowledge/` (`base.py`, `implementations/milvus.py`) | file row, chunks, vectors | parse, index, delete, move | several stores, status machine of a file | one document |
| Knowledge graphs: `yuxi/knowledge/graphs/` | flags and cached extractions of chunks, graph | build, reset, delete of a file's graph | swallowed failures, stale extractions | one document |
| Sandbox provisioner: `docker/sandbox_provisioner/`, `yuxi/agents/backends/sandbox/` | containers, leases | acquire, renew, reap | reaping one that is in use | no |
| Agents, skills, MCP, models, configuration, auth, routers, storage adapters, workspace and files, CLI, web views, deployment | configuration and CRUD | | little protocol state | no |

Interaction: the API commits a row and then enqueues the job `run:<id>`. The worker reads
the row, appends events to `run:events:<id>`, and settles the row before it appends an
`end` event. A cancel commits `cancel_requested` and then sets the key `run:cancel:<id>`,
which a watcher beside the agent stream reads. The SSE endpoint polls the row, then the
stream, and the browser reconnects after its last event id. A run that asks the user
settles as `interrupted`; the answer is another run (`resume`) on the same thread. A
finished turn enqueues the extraction job of its thread. Parsing, indexing and graph
builds run as requests or as tasks of the Tasker; approving a ticket enqueues its
write-back, which uses the same procedures over chunks, vectors and graph as the indexing
of a document.

What makes each part correct: a thread has one unfinished run; a request id has one run; a
created run settles, and only a cancel that had read its row before changes a settled one;
the end a reader sees agrees with the row, and nothing of the answer is missing when it
comes; text keeps its order; a cancel takes effect; a resume continues an interrupted run;
a task has one outcome, stays deleted, and never waits for nobody; no turn is passed over
by the extraction, a key keeps its live memory, and a guess does not displace what the
extraction knew to be confirmed; a document in process has somebody who works on it, and
its chunks, vectors and graph agree; a feedback and its ticket say the same, and the
stores hold a ticket's text exactly when the ticket says so. For the sandbox, which is not
modelled: one in use is not reaped.

## 2. Modules

| Module | Models | Size of the code |
|---|---|---|
| `RunLifecycle` | the promise: creation on a free thread, progress, one settlement, ends after it; what a request to stop may do, in time or late | |
| `AgentRun` | create call, cancel call, ARQ job, worker coroutine, cancel key, end events | five Python files, about 900 lines |
| `MCAgentRun` | symmetry and view for TLC | |
| `AgentRunProofs` | theorems about `AgentRun` | |
| `RunEventStream` | the event stream of one run from the writer to the browser | three Python files and one composable |
| `Tasker` | the in-process task queue, its workers, shutdown, crash and start | `task_service.py`, `task_repository.py` |
| `MemoryExtraction` | extraction job, cursor, session facts, memories, reviews, expiry | four files of `yuxi/memory/`, the enqueue in `chat_service.py` |
| `ChunkStores` | one file's chunks in PostgreSQL, Milvus and Neo4j, and the procedures over them | parts of `milvus.py`, `milvus_graph_service.py`, `knowledge_chunk_repository.py` |
| `KnowledgeIndexing` | the life of one document; extends `ChunkStores` | parts of `base.py`, `milvus.py`, the graph service |
| `CorrectionTickets` | one feedback, its ticket, its write-back; extends `ChunkStores` | `self_evolution/service.py`, `graph_writeback.py`, `review_hook.py`, `feedback_service.py` |
| `MCMemoryExtraction`, `MCKnowledgeIndexing`, `MCCorrectionTickets` | symmetry for TLC | |
| `RunEventStreamProofs`, `TaskerProofs`, `MemoryExtractionProofs`, `KnowledgeIndexingProofs`, `CorrectionTicketsProofs` | theorems about the module of that name | |
| `ChunkStoresProofs`, `StoreAgreementProofs` | lemmas about `ChunkStores`, used by two of them: types; what the stores hold at each place of an operation | |

### AgentRun

`Calls` are HTTP create calls; a call that inserts a row names the run (every call draws a
uuid). `op[c]` is what the call asks for: request id, thread, and for a resume its parent.
A *thread* stands for the triple (uid, agent_slug, conversation thread) of the partial
unique index, because a conversation belongs to one user and one agent.

| Variable | Code |
|---|---|
| `callPc`, `answer` | where `create_agent_run_view` stands, and the run it answers with (`NoRun`: refused) |
| `status` | the committed row; `"none"` before the commit |
| `job`, `tries` | the ARQ job and `job_try` |
| `phase`, `block`, `verdict` | where `process_agent_run` stands, the block it is in, the status it is about to write |
| `cancelKey`, `publishing` | the Redis key; a cancel that is committed and not published |
| `cancelling` | runs that a cancel call has read as pending or running, and may still write |
| `reopened` | runs such a call took back after they had settled (for the properties) |
| `ends` | the statuses of the end events in the stream |

An action is the code between two awaits that other processes can tell apart.
`PrepareScope` joins three reads (existing request, resume parent, busy thread): what
changes between them is caught again by the insert, with the same answers. `InsertBlocked`
is PostgreSQL's wait for an open transaction that inserted a colliding key.

A cancel is three steps. `RequestCancel` is the look-up (`agent_run_service.py:780`): a
run found settled is left alone. `CommitCancel` is the locked update and its commit
(`:792-794`). Its select returns the object the session has loaded before, with the status
of that time (`agent_run_repository.py:229` does not ask for `populate_existing`), so what
the look-up found unfinished becomes `cancel_requested` even if it has settled since; the
run is then in `reopened`. Only the unique index on unfinished runs can refuse that, when
another run has the thread. A run stays in `cancelling`: any number of calls may have read
it, and each may come late or never. `PublishCancel` is the signal.

`LoadRun` to `CloseRun` are the coroutine: the body of its `try` (`body`, `ask` after an
ask-user chunk, `drained` without a verdict), its three handlers (`cancel`, `retry`,
`error`) and the `finally` block. A job that raised an exception of the program's own is
over; the queue runs again only one that was cancelled or whose worker died.
`StreamVerdict` offers every way the agent stream can end; an interrupted chunk reads the
row first, the write follows in `SettleRun`.

Faults, each a constant member of `Faults` and counted by `faults`: the API dies or the
enqueue fails (`api_crash`); the worker dies (`worker_crash`, the queue runs the job
again); shutdown cancels the coroutine (`shutdown`); the stream raises (`stream_error`, or
`retryable_error` if the handler takes it for one to be retried); one database or Redis
call raises (`step_error`); the cancel key expires (`key_lost`); its publication fails
(`publish_lost`). The queue (ARQ) and PostgreSQL's lock wait are external and modelled
from how the code uses them. ARQ retries its own `Retry` and `RetryJob`, neither of which
the code raises, and a cancellation.

Not in the model: input messages and payloads, progress reads, event contents.
`JobTimeout` happens in phase `stream`; elsewhere it is the same `CancelledError` as
`Shutdown`.

### RunEventStream

One run, one browser. An event's id is its position in `stream`; a text chunk is a number,
counted over all attempts, and belongs to a lane (the run's own thread or a subagent's).
`sealed` remembers how long the stream was when the run settled, `own` the own-thread text
of the attempt; both exist for the properties.

`AppendChunk` either buffers or flushes: size, time and tool calls decide, and the model
allows both each time. `FlushAll` flushes the lanes in either order. The worker has the
phases of `AgentRun`, with the events it appends instead of the statuses. The reader
alternates `ReadStatus` and `ReadEvents` (at most `Limit` events), sends the batch event
by event, ends the stream by `SynthesizeEnd` when a read after a settled status is empty,
and otherwise polls; the browser drops events whose id is not beyond its own, follows
`end` and non-retryable `error` events, and asks for the run when a stream closes without
a verdict. Metadata events are hidden from it (`verbose=false`), so its cursor may lag.

A lost connection is modelled as events never sent: the endpoint's cursor dies with the
connection. A `custom` event stands for agent state, warnings and interrupts; empty agent
states, which the endpoint hides, are not told apart. Not modelled: the stream's time to
live (two hours), `MAXLEN` (off by default), several browsers or threads, and that the
browser keeps an interrupted run with an open question as active.

### Tasker

A task is its number in the order of enqueueing (ids are uuids). `Unique` are the tasks
enqueued with `enqueue_unique_by_payload`, all of one payload.

| Variable | Code |
|---|---|
| `mem`, `row` | status of the `Task` in `_tasks`, and in its row |
| `flag`, `early` | `cancel_requested`; which of them waited in the queue then (for a property) |
| `queue`, `at`, `task` | the `asyncio.Queue`; where each `_worker_loop` stands and the task it has |
| `dropping` | tasks out of memory whose row is about to be deleted, after the lock |
| `unsaved` | tasks whose row could not be written |
| `phase` | the process is up, closing (`shutdown` waits under the lock) or down |

Sections under the lock are one step. `Take` to `Prune` are the worker loop: a deleted
task is passed over, a cancelled one is not started, the body returns, raises or notices
the cancel, the outcome is written, the history pruned; at `stopped` a body has returned
and finds a request to cancel (`task_service.py:273`), whose failing write makes the task
failed. `_update_task` leaves a task alone that is gone from memory, which is what keeps a
deleted task deleted. `Shutdown` and `ShutdownComplete` are the two halves of `shutdown`;
`Boot` is `start` with `_load_state`, which fails what was open. Progress, messages and
results are left out: a progress update would also write an `unsaved` row, so leaving it
out only makes more states count as unsaved. In `prune` a failing deletion skips the
others; each is on its own here.

### MemoryExtraction

One user; `turns[t]` are the runs of a conversation with what is saved of each. One key of
session facts per thread and one key of memories stand for all keys.

`Finish` saves the answer and enqueues the job (`chat_service.py`). `Load` reads the turns
after the cursor, at most `Batch`, and the memories already known; `CallFails`,
`FindNothing` and `FindFacts` are the model call and the selects of `apply_extracted_ops`;
`Store` is its commit, which the unique index may refuse; `Advance` is the cursor's own
commit. The job runs in one database session, so the memory it selects after the call is
the object it loaded before it: `known` keeps that row and the status it had, and
`AsLoaded` says what the later select returns. `AskReview` and `CommitReview` are confirm,
reject, retract and tombstone, `Expire` the expiry job. A select and the update that rests
on it are two steps, because PostgreSQL runs at READ COMMITTED and nothing is locked.
`read` records what stored extractions have read and `overlapped` that two of a thread ran
at once; both are for the properties.

Left out: `memory_enabled` (the extraction does not consult it), confidence, evidence and
the reading of memories into prompts.

### ChunkStores

A text is named by the operation that made it; `pg[c]`, `vec` and `graph` say which text
of chunk `c` each store holds. The actions are the steps of `delete_file_chunks_only`
(`CountGraph` to `DropVectors`), `_embed_and_store_chunks` with its concurrent inserts and
its rollback (`Embed` to `UndoVectors`) and `build_pending_chunks` (`List` to `Mark`). Who
called a procedure decides where it returns and where its exception goes (`AfterClean`,
`AfterStore`, `AfterBuild`, `Raised`). The batch of embedding holds one chunk, so is the
batch of a build, and the several extraction workers of one build are one: they take
different chunks and write under one lock.

Deleting a file's vectors asks for one of them first and stops if there is none
(`milvus.py:605-609`), which may also be an insert that cannot be seen yet: `DropVectors`
and `UndoVectors` allow it under the same fault as a failing call. A cached extraction
goes straight to the graph, anything else is extracted and cached first.

### KnowledgeIndexing

`status` is the file's row. `StartParse` and `StartIndex` claim it by
`update_fields_if_status`; `SetStatus` is an update by id, which does nothing to a row
that is gone. `StartDelete` and `DropFile` are the delete, `StartMove` and `SaveMove` a
move, which reads the row and writes all of it back (`_persist_file_meta`), old status
included. `StartBuild`, `CancelBuild`, `StartReset` and the two steps of the reset are the
graph's. Builds and resets are kept apart by their tasks, but not from the build of a
write-back or of a task that was deleted while it ran; the model lets them overlap.
`Unsaid` is a last status that cannot be written. A call between `Start…` and its end runs
as the shared actions of `ChunkStores` (`Work`).

Left out: folders, parameters, the legacy statuses, statistics, the object store, content
updates, and the index call that marks a document unparsed when its markdown is missing.

### CorrectionTickets

`feedback` and `ticket` are the two rows, `read[a]` the ticket as a write-back has read
it, `file` whether the row of the ticket's own file exists. The ticket keeps its status,
whether it is `written` (`graph_written`), the cached `rewrite` and its review mark.
Converting, deciding, applying and the weekly batch are a read and a later commit each; a
review that cannot look its feedback up logs that and commits the ticket alone
(`unsynced`). `StartWrite` to `CommitWrite` are `graph_writeback.py`: rewrite, file row,
chunks, graph, commit; `StartWithdraw` to `CommitWithdraw` the withdrawal;
`MarkReingested` is the review hook of a build, `ClearFlag` the administrator.

Left out: scopes other than the knowledge base's, a status of the feedback that is set by
hand, a second ticket for one feedback (two concurrent converts may create one),
enrichment and calibration, conflict marks (the same kind of mark), objects in MinIO.

Operators that only move the control state (`Begin`, `Goto`, `End`, `Return`, `Fine`, ...)
model no lines of their own and are not mapped.

## 3. Runs

| Run | Question | Bounds |
|---|---|---|
| `AgentRunFaults` | type, one unfinished run per thread, idempotent create, job after row, end after settlement, one agent stream per thread, resume of an interrupted run; refinement of `RunLifecycle` | 2 calls, 2 request ids, 2 threads, 2 tries, any 1 fault |
| `AgentRunLive` | every run settles; a cancel settles one whose stream goes on; end events tell the row's status | 2 calls with one request id, 3 tries, any 3 of worker crash, stream error |
| `AgentRunLateCancel` | violated: who has drained the stream finds the run settled | 2 calls, no fault |
| `AgentRunLostRetry` | violated: the retryable error is retried | 1 call, 1 retryable error |
| `AgentRunLostJob` | violated: a cancel settles every run | 1 call, 1 API crash |
| `AgentRunResumeOverlap` | violated: one writer per thread | 2 calls, no fault |
| `RunEventStream` | end is complete, lanes in order, no text left behind, the browser finishes | 2 chunks, reads of 2, 2 tries, any 1 fault |
| `RunEventStreamUnavailable` | violated: the browser follows until the run settles | 1 chunk, 1 failed read |
| `Tasker` | no open task forgotten, rows true, one task of a payload at work, history bounded, cancelled in the queue never starts, deleted stays deleted, outcomes final, every task settles | 2 tasks of one payload, 2 workers, 1 settled task remembered, any 2 of failing write, crash, shutdown |
| `MemoryExtraction` | no turn passed over, one active fact, facts survive, cursor forward, a memory is kept, confirmed stands | 1 thread, 2 turns, batch of 1, 2 job slots, 2 contents, 1 review, any 1 fault |
| `KnowledgeIndexing` | a document in process is attended; rows and vectors agree; the graph agrees | 2 actors, 2 chunks, 4 operations, any 1 fault |
| `CorrectionTickets` | feedback and ticket agree; the ticket tells what the stores hold; a written ticket asks for no rewrite | 2 actors, 1 chunk, 3 operations, any 1 fault |

Why the bounds suffice for what they claim: every collision the unique keys decide is
between two calls; two tries are the code's own `max_tries`. One fault in `AgentRunFaults`
leaves room for late cancels of both runs on two threads; each kind of fault meets every
interleaving of these, and several faults are left to the theorems and to `AgentRunLive`.
A read of two events leaves both a full and a partial batch, and two chunks in two lanes
can overtake each other. Whether a run settles depends on no other run, so `AgentRunLive`
has one run (two calls race for it) and spends its states on a third try and on three
faults, enough to use the tries up. The safety properties of `AgentRun` are proved for all
values besides.

Two tasks and two workers let one task be deleted, cancelled or pruned while another
starts, and reach the limit of one remembered task; two faults give a failing write before
a crash or a shutdown. Two job slots and a batch of one let two extractions of a thread
overlap at every step, and two contents tell a repeated finding from a new one; threads
meet only in the memory, where two jobs of one thread meet as well. Four operations over
two actors are enough for an index, a delete or move beside it, an index again and a
build, and two chunks tell a batch from all of the file. Three operations over a ticket,
started with an approved one as well as with none, are two racing reviews and an
application, or a write-back, a withdrawal and another write-back; a ticket's text has at
most twenty chunks (`MAX_REWRITE_CHUNKS`) and so is one batch. One fault follows each of
these interleavings. The state spaces leave no room for more within minutes; the theorems
of section 5 hold for all bounds.

`View` of `MCAgentRun`, used by `AgentRunFaults` alone, identifies states that differ only
in what no guard or property of that run reads again: which settled status other than
`interrupted` a run has, which ends are in a stream that has one, and the tries and
signals of a job that is over. `Symmetry` permutes what no action tells apart (calls,
requests and threads; job slots and contents; actors); runs with liveness properties do
not use it. Deadlock is not checked: when everything bounded has been used up and has
ended, nothing is left to do.

**Fairness.** `FairSpec` of `AgentRun` gives weak fairness to API handlers, to the
publication of a committed cancel and to the steps of queue and worker: they are running
code between two awaits. It gives none to callers, to cancels (also not to the commit of
one: its call may die) or to faults, and none to the end of an agent stream, which may go
on until `job_timeout` (3600 s). In `RunEventStream` only the reader is fair: the browser
reconnects after 500 ms and the endpoint polls every second; the worker may stop anywhere.
`FairSpec` of `Tasker` has weak fairness for the steps of each worker (the event loop runs
every ready coroutine, and a task's body ends), for a row deletion under way, for the end
of a shutdown that nothing blocks, and for the start of a process that is down (the
container restarts it); none for callers, cancels and faults. The other modules state no
liveness: a job, a build or a write-back that is lost is not made up for by the code.

**Limits of the liveness runs.** `RunsSettle` and `CancelSettlesRun` except a run whose
last try was lost with its worker and one taken back by a late cancel; they are checked
without a retryable error and without a failing step before the `try`, after which nobody
settles the row, in the code as in the model. `RunsSettle` lets a run go on while its
stream does. `CancelSettlesRun` also needs that the key is neither lost nor deleted by the
`finally` block of an attempt that is shut down: the worker never polls the row for a
cancel. `EndTellsTruth` excludes a failing step or a shutdown between settlement and end
event. `TasksSettle` excepts a task whose status could not be written (a failed write
leaves it open and unqueued until the next start) and a shutdown: it takes the lock and
waits for workers that need the lock to settle their task (`task_service.py:131`), so it
may hang until the process is killed.

**Exceptions of the safety properties.** Where the code lets a promise go, the model has
the step and the property names what excuses it; nothing is excused that does not happen.
`spoilt` of `ChunkStores` collects these reasons: `stores`, `graph` (two operations on the
same store at once), `crash`, `partial` (a failure that is passed over, or leaves an
operation half done), `unbuilt` (a chunk that failed in a build), `unsaid` (a last status
of a file that could not be written), `overwrite` (a move wrote back an old status),
`review`, `feedback` (a decision on what had changed meanwhile), `unsynced` (a review that
passed over its feedback). So `GraphAgrees` and `StoresAgree` speak of operations that do
not overlap on their store and of processes that do not die in them; what a failing mark,
a crash or an overlap leaves behind is not made good by the code, and no property denies
it.

## 4. Findings

1. **The retryable error is not retried** (`AgentRunLostRetry`). `RetryableRunError` says
   it "should trigger ARQ retry" (`run_worker.py:38`); it is a plain exception, so ARQ
   fails the job and the row stays `running`.
2. **A run without a job cannot be cancelled** (`AgentRunLostJob`). Commit and enqueue are
   two steps (`agent_run_service.py:430-431`); the busy answer (`:501`) sends the user to
   a cancel that only turns the row into `cancel_requested`.
3. **Two runs write one thread** (`AgentRunResumeOverlap`). An ask-user chunk settles the
   run before it has saved the thread's messages; `agent_run_repository.py:126` and
   `agent_run_service.py:913` say runs of a thread are serial.
4. **A late cancel unsettles a run** (`AgentRunLateCancel`). A cancel judges by the row as
   it first read it, so a run that settles in between becomes `cancel_requested` after its
   end; `await_agent_run_result` (`agent_run_service.py:759-760`) takes the end of the
   event stream for the settlement. The thread stays busy, as no worker is left; only
   another run on the thread, by the unique index, makes the late cancel fail.
5. **The browser does not reconnect** (`RunEventStreamUnavailable`). The endpoint answers
   a failed read with "please reconnect" (`agent_run_service.py:834`, `:848`); the browser
   finalizes on it (`useAgentRunStream.js:344-347`).

Smaller disagreements and gaps that the models contain as the code has them, without a run
of their own; the properties name them as exceptions:

- *Write-back.* `graph_writeback.py:19-20` promises all or nothing. A failed extraction is
  swallowed by the build (`milvus_graph_service.py:267-270`), so the ticket is marked as
  written although the graph has nothing of it; a failing commit or a crash leaves text of
  a ticket that is not marked. A rewrite that is not valid replaces a mark of re-read
  documents (`:272-275`), and the next success clears it; the comment at `:327` leaves
  marks of another origin alone, but one set during a write-back that began under a
  rewrite mark is cleared too.
- *Tickets.* An application that began before a rejection makes the rejected ticket
  applied; two reviewers both commit; a review whose look-up of the feedback raises
  commits without it (`service.py:472`); a feedback linked to a ticket that is already
  decided keeps no verdict; the weekly batch writes over a resolved feedback
  (`feedback_service.py:405`).
- *Documents.* A move writes a stale status back or brings a deleted row back
  (`base.py:1468`); a claim of a process that died is never released; a failing embedding
  of a later batch has no rollback (`milvus.py:576-601`); a delete during an indexing
  leaves vectors without rows; a chunk indexed again during a build gets the mark of its
  old text.
- *Memory.* A turn that is unfinished when it is read is passed by the cursor, and its
  answer is not extracted; two overlapping jobs duplicate facts and may move the cursor
  back, which the comment at `cursor.py:126-129` rules out; a memory confirmed while the
  model is asked, or between an extraction's select and its commit, is displaced by a
  guess, which the docstring at `service.py:365-366` rules out.
- *Tasker.* A running task that is deleted does not stop its payload from starting again.

## 5. Proofs

Every theorem holds for any sets and any bounds, under the named assumptions on the
constants and nothing else. "Listed" properties are those of the runs.

`AgentRunProofs` proves type correctness, all safety invariants of the runs of `AgentRun`,
and that `AgentRun` implements `RunLifecycle`. The invariants are not inductive alone.
`IInv` adds what the code relies on:

- *an open insert is exclusive*: while a call stands between insert and commit, no
  committed or open row collides with it. This is what the unique keys and the lock wait
  give, and it carries `OneActivePerThread` and `IdempotentCreate` over the commit;
- *a scope stays resumable*: a call that found its parent interrupted still does when it
  inserts, unless a late cancel takes the parent back, which it can only while no insert
  is open on the thread and no other run of it is unfinished; hence
  `ResumeFollowsInterrupt`;
- *worker facts*: a coroutine past `load` belongs to a running job with a row; in `stream`
  and before settlement of the body its row is unfinished; once it is past settlement the
  row is settled or has been taken back (`reopened`). With the first invariant these give
  `OneGeneratorPerThread`, and with the guard of `set_terminal_status` they give
  `EndImpliesTerminal`.

`EndTellsTruth` is proved of the behaviours in which no step of a coroutine fails and no
shutdown comes (`NoStepFails`); its run leaves these faults out too, because either may
strike between the settlement and the end event, and the handler then announces a verdict
of its own. Crashes, retries, lost keys and signals and failing streams are not excluded.
`EndAccount` says what the row and the ends may be at each phase: no end before the
settlement, the verdict about to be announced is the row's, and a run that has announced
its end announces only a late cancel after it.

The refinement proof maps every action to one of the abstract actions or to a stutter;
`Create` uses the exclusive insert, and `StopLate` the index that lets a late cancel
through only on a free thread.

`RunEventStreamProofs` proves type correctness and the three safety properties of its run.
The first rests on two invariants. `EndInv` follows the reader: an end event in the stream
comes after the settlement (`EndsLate`, `Settling`), what the endpoint saw settled is
settled (`SeenRight`), and whoever was told the end has the stream up to `sealed`
(`Told`). `OwnInv` follows the writer: the attempt's own text is in the stream or waits,
it is flushed before the worker can settle, and once the run is settled it precedes
`sealed`. `LeftInv` says the same of all text while no step has failed. For the order,
`Orderly`: what an event or a buffer holds is sorted, and a chunk behind a larger one of
its lane (as after a repeated flush) has already occurred in the event of that one or
before it.

`TaskerProofs` proves all properties of its run except `TasksSettle`. `Structure` says
where a task can be: once in the queue or with one worker (`Once`), made before and never
in memory while its row is deleted (`Known`), nowhere in a process that is down (`Down`).
`Stages` adds what each place says of the status, hence `NoOrphan` and `OutcomeIsFinal`;
`OneOpen` (at most one open task of the payload) with `Stages` gives `OneOfAKind`, `Early`
gives `CancelledInQueue`. For `HistoryBounded` the workers are counted: a worker that
settles a task raises the number of settled ones and of those about to prune by one each;
a worker that prunes leaves at most the allowed number, whatever the others hold.

`MemoryExtractionProofs` proves all properties of its run. `Covered`: what a job in the
middle is about to pass has been read or is in its batch; hence `NothingSkipped` in spite
of two commits, failures and overlaps. `FactsInv`, while a thread's jobs do not overlap:
there is one job (`Lone`), the row it selected is still the live one (`Ready`), and it is
not behind the cursor (`Ahead`); hence the facts and `CursorForward`. `AllCareful`: a job
that loaded a confirmed memory inserts a confirmed one. `MemoryIsKept` needs `AllProvide`:
what a job is about to store puts a live row in, confirms the old one or leaves it alone,
whatever has become of that row since; and that the index refuses the whole transaction
and not a part of it.

`KnowledgeIndexingProofs` proves all properties of its run. `Located` says that only an
indexing is at the places of an indexing, only a parse at a parse's; `Service` counts:
while the row says `indexing` exactly one operation indexes, otherwise none does, unless
the row is gone or a last status could not be written. The conditional claim establishes
it, and only the operation that holds the claim changes the status; hence `Attended`.

`CorrectionTicketsProofs` proves all properties of its run. `Unjudged` (a feedback without
a ticket has no verdict) and `Applying` (a ticket being applied has been approved, and can
only have been decided again) make `Verdicts` inductive, hence `FeedbackAgrees`. `Marks`
gives `WrittenIsUnmarked`: while one write-back works, a ticket that asks for a rewrite
asked for it when that one read it, so its commit clears the mark; while none works, only
an unwritten ticket can ask.

Both modules rest on the lemmas of `ChunkStoresProofs`, where `Named` (an operation under
way has a text) makes the types of the stores inductive, and of `StoreAgreementProofs`,
which carry `StoresAgree`, `GraphAgrees` and `WrittenTellsTruth`. None of the three says
anything of an operation in the middle, so the invariant has to. `RowsAt` and `GraphAt`
give, for every place where the only operation on a store may stand, what the store holds
there: during the concurrent inserts, the rows up to the present batch and, of that batch,
those of the stores that have answered (`Loaded`); during a cleanup, nothing of the graph
before the rows go; during a build, what the marked chunks say and the chunk about to be
marked (`Shown`). Each step of a procedure has a lemma that takes the account of its place
to that of the next, or, where it ends the operation, to stores that agree
(`StepAccounts`); the two modules add their own steps. That the operation is the only one
is part of the invariant (`Alone`): who begins while another works is recorded in `spoilt`
(`BeginAlone`), as are the failures that leave a store behind. `Cached` is what keeps an
old text out of the graph: the extraction a chunk keeps is empty or of its present row.
For a ticket, `Approval` says that it is written or being written only when approved, and
`AtWork` that a write-back works on an unwritten ticket, a withdrawal on a written one.
One assumption enters here: the text of a ticket is one batch (`OneBatch`; 20 chunks
against 200), so a write-back whose embedding fails has stored nothing.

Each action has a step of its own, and under it one per conjunct it can disturb.

Only model-checked: the four liveness properties (`RunsSettle`, `CancelSettlesRun`,
`BrowserFinishes`, `TasksSettle`), because fairness is out of this prover's reach.

## 6. Not modelled, and plan

Not modelled: what section 1 marks with *no*, and what section 2 names as left out.
Agents, prompts, parsing, chunking, scoring and retrieval are computation over text and
numbers whose outcome no other part waits for; routers and storage adapters are thin;
models, authentication and configuration keep no protocol state. The run event stream's
time to live (a reader that comes after two hours finds no text) is a constant of the
deployment.

What remains worth doing, in this order:

1. *Subagent runs*: child rows and cascading cancel, composed with `AgentRun`.
2. *Sandbox provisioner*: lease, renewal and reaping by two processes.
3. *Several documents* sharing entities in one graph, and two tickets for one feedback.

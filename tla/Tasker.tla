-------------------------------- MODULE Tasker --------------------------------
(***************************************************************************)
(* The in-process task queue: tasks in memory and their rows in the        *)
(* database, the asyncio queue, the workers, and the calls that enqueue,   *)
(* cancel and delete tasks; shutdown, crash and the next start.            *)
(*                                                                         *)
(* A section under the Tasker's lock is one step: what it changes is read  *)
(* outside the lock only as the cancel flag, which it sets before it       *)
(* waits.  The lock itself matters once: shutdown holds it while it waits  *)
(* for the workers.  What a task does is left to its body; progress and    *)
(* messages are left out.                                                  *)
(***************************************************************************)
EXTENDS Naturals, Sequences, FiniteSets

CONSTANTS
  MaxTasks,     \* bound on the tasks ever enqueued
  Unique,       \* tasks enqueued with enqueue_unique_by_payload, of one payload
  Workers,      \* worker coroutines
  MaxTerminal,  \* MAX_TERMINAL_TASKS
  Faults,       \* kinds of fault that may happen
  MaxFaults     \* bound on the number of faults

\* Task ids are drawn afresh: the n-th task enqueued is n.
Tasks == 1..MaxTasks
NoTask == 0

ASSUME TaskerConstants ==
  /\ {MaxTasks, MaxTerminal, MaxFaults} \subseteq Nat
  /\ Unique \subseteq Tasks
  /\ Faults \subseteq {"db", "crash", "shutdown"}

VARIABLES
  phase,     \* the process: "up", "closing" (shutdown holds the lock) or "down"
  mem,       \* mem[t]: status of the task in memory, "none" if it is not there
  flag,      \* tasks whose cancellation has been requested
  early,     \* those of them that waited in the queue then
  row,       \* row[t]: status in the task's row, "none" if there is no row
  queue,     \* the asyncio queue
  made,      \* how many tasks have been enqueued
  at,        \* at[w]: where worker w stands
  task,      \* task[w]: the task it has taken
  dropping,  \* tasks gone from memory whose row is about to be deleted
  unsaved,   \* tasks of this process whose row could not be written
  faults     \* faults that have happened

workerVars == <<at, task>>
flags == <<flag, early>>
vars == <<phase, mem, flags, row, queue, made, workerVars, dropping, unsaved, faults>>

-----------------------------------------------------------------------------
Open == {"pending", "running"}
Terminal == {"success", "failed", "cancelled"}
Statuses == Open \cup Terminal \cup {"none"}
Ending == Terminal \cup {"stopped"}
Places == {"idle", "taken", "starting", "body", "after"} \cup Ending

Elements(s) == {s[i] : i \in DOMAIN s}
Settled(t) == mem[t] \in Terminal

Init ==
  /\ phase = "up"
  /\ mem = [t \in Tasks |-> "none"] /\ row = [t \in Tasks |-> "none"]
  /\ flag = {} /\ early = {} /\ dropping = {} /\ unsaved = {}
  /\ queue = <<>> /\ made = 0
  /\ at = [w \in Workers |-> "idle"] /\ task = [w \in Workers |-> NoTask]
  /\ faults = 0

Fault(kind) == kind \in Faults /\ faults < MaxFaults /\ faults' = faults + 1

\* Bug: the start of a task is throttled like its progress, and never written.
SavedThrottled(t, s) ==
  /\ mem' = [mem EXCEPT ![t] = s]
  /\ row' = IF s = "running" THEN row ELSE [row EXCEPT ![t] = s]
  /\ UNCHANGED <<unsaved, faults>>
\* The status changes in memory and is then written to the row.
Saved(t, s) ==
  /\ mem' = [mem EXCEPT ![t] = s]
  /\ row' = [row EXCEPT ![t] = s]
  /\ UNCHANGED <<unsaved, faults>>
\* The row cannot be written: the exception leaves the status in memory.
SaveFails(t, s) ==
  /\ Fault("db")
  /\ mem' = [mem EXCEPT ![t] = s]
  /\ unsaved' = unsaved \cup {t}
  /\ UNCHANGED row

-----------------------------------------------------------------------------
(* The calls.                                                              *)

\* Bug: only a task that has not started counts as the same task.
SameIsPending == {u \in Unique : mem[u] = "pending"}
SameIsOpen == {u \in Unique : mem[u] \in Open}

\* enqueue and enqueue_unique_by_payload (which answers with the open task of
\* the same payload if there is one).  A task that cannot be saved stays in
\* memory, and is not queued.
Enqueue(t) ==
  /\ phase = "up"
  /\ t = made + 1
  /\ t \in Unique => SameIsOpen = {}
  /\ made' = t
  /\ \/ Saved(t, "pending") /\ queue' = Append(queue, t)
     \/ SaveFails(t, "pending") /\ UNCHANGED queue
  /\ UNCHANGED <<phase, flags, workerVars, dropping>>

\* Bug: the task is marked cancelled at once, while its worker goes on.
CancelTaskAtOnce(t) ==
  /\ phase = "up"
  /\ mem[t] \in Open
  /\ Saved(t, "cancelled")
  /\ UNCHANGED <<phase, flags, queue, made, workerVars, dropping>>
CancelTask(t) ==
  /\ phase = "up"
  /\ mem[t] \in Open
  /\ flag' = flag \cup {t}
  /\ early' = IF t \in Elements(queue) THEN early \cup {t} ELSE early
  /\ UNCHANGED <<phase, mem, row, queue, made, workerVars, dropping, unsaved, faults>>

\* The task leaves the memory; its row is deleted after the lock is released.
DeleteTask(t) ==
  /\ phase = "up"
  /\ mem[t] # "none"
  /\ mem' = [mem EXCEPT ![t] = "none"]
  /\ dropping' = dropping \cup {t}
  /\ UNCHANGED <<phase, flags, row, queue, made, workerVars, unsaved, faults>>

DropRow(t) ==
  /\ t \in dropping
  /\ dropping' = dropping \ {t}
  /\ \/ row' = [row EXCEPT ![t] = "none"] /\ UNCHANGED faults
     \/ Fault("db") /\ UNCHANGED row
  /\ UNCHANGED <<phase, mem, flags, queue, made, workerVars, unsaved>>

-----------------------------------------------------------------------------
(* The worker loop.                                                        *)

Goto(w, place) == at' = [at EXCEPT ![w] = place] /\ UNCHANGED task

Take(w) ==
  /\ phase = "up"
  /\ at[w] = "idle" /\ queue # <<>>
  /\ at' = [at EXCEPT ![w] = "taken"]
  /\ task' = [task EXCEPT ![w] = Head(queue)]
  /\ queue' = Tail(queue)
  /\ UNCHANGED <<phase, mem, flags, row, made, dropping, unsaved, faults>>

\* Bug: a task cancelled in the queue is started.
LookIgnoresCancel(w) ==
  /\ phase = "up"
  /\ at[w] = "taken"
  /\ Goto(w, IF mem[task[w]] = "none" THEN "after" ELSE "starting")
  /\ UNCHANGED <<phase, mem, flags, row, queue, made, dropping, unsaved, faults>>
\* A deleted task is passed over, a cancelled one is not started.
Look(w) ==
  /\ phase = "up"
  /\ at[w] = "taken"
  /\ Goto(w, IF mem[task[w]] = "none" THEN "after"
             ELSE IF task[w] \in flag THEN "cancelled" ELSE "starting")
  /\ UNCHANGED <<phase, mem, flags, row, queue, made, dropping, unsaved, faults>>

\* Bug: _update_task writes the task the worker holds, deleted or not.
UpdateHeldTask(w, s, next, broken) ==
  \/ Saved(task[w], s) /\ Goto(w, next)
  \/ SaveFails(task[w], s) /\ Goto(w, broken)
\* _update_task: a task that is gone from memory is left alone; a row that
\* cannot be written makes the worker go elsewhere.
UpdateTask(w, s, next, broken) ==
  \/ /\ mem[task[w]] = "none"
     /\ Goto(w, next)
     /\ UNCHANGED <<mem, row, unsaved, faults>>
  \/ mem[task[w]] # "none" /\ Saved(task[w], s) /\ Goto(w, next)
  \/ mem[task[w]] # "none" /\ SaveFails(task[w], s) /\ Goto(w, broken)

Start(w) ==
  /\ phase = "up"
  /\ at[w] = "starting"
  /\ UpdateTask(w, "running", "body", "after")
  /\ UNCHANGED <<phase, flags, queue, made, dropping>>

\* Bug: the cancellation of a body is not caught where its task is known.
BodyUnmarked(w) ==
  /\ at[w] = "body"
  /\ \/ Goto(w, IF task[w] \in flag THEN "after" ELSE "success")
     \/ Goto(w, "failed")
  /\ UNCHANGED <<phase, mem, flags, row, queue, made, dropping, unsaved, faults>>
\* The body returns (a request to cancel is looked at once more), raises, finds
\* that it shall stop (raise_if_cancelled, blind for a deleted task), or is
\* cancelled with its worker.
Body(w) ==
  /\ at[w] = "body"
  /\ \/ Goto(w, IF task[w] \in flag THEN "stopped" ELSE "success")
     \/ Goto(w, "failed")
     \/ task[w] \in flag /\ mem[task[w]] # "none" /\ Goto(w, "cancelled")
     \/ phase = "closing" /\ Goto(w, "cancelled")
  /\ UNCHANGED <<phase, mem, flags, row, queue, made, dropping, unsaved, faults>>

\* What cannot be written of a body that has returned is handled as a failure of
\* the body.
Settle(w) ==
  /\ phase = "up"
  /\ at[w] \in Ending
  /\ UpdateTask(w, IF at[w] = "stopped" THEN "cancelled" ELSE at[w], "after",
                IF at[w] \in {"success", "stopped"} THEN "failed" ELSE "after")
  /\ UNCHANGED <<phase, flags, queue, made, dropping>>

\* The settled tasks but the MaxTerminal latest ones.
\* Bug: one of them too many is kept.
StaleOffByOne(status) ==
  LET settled == {t \in Tasks : status[t] \in Terminal}
  IN {t \in settled : Cardinality({u \in settled : u > t}) > MaxTerminal}
Stale(status) ==
  LET settled == {t \in Tasks : status[t] \in Terminal}
  IN {t \in settled : Cardinality({u \in settled : u > t}) >= MaxTerminal}
Without(gone, f) == [t \in Tasks |-> IF t \in gone THEN "none" ELSE f[t]]

\* Prune, and wait for the next task.
Prune(w) ==
  /\ phase = "up"
  /\ at[w] = "after"
  /\ mem' = Without(Stale(mem), mem)
  /\ dropping' = dropping \cup Stale(mem)
  /\ at' = [at EXCEPT ![w] = "idle"]
  /\ task' = [task EXCEPT ![w] = NoTask]
  /\ UNCHANGED <<phase, flags, row, queue, made, unsaved, faults>>

-----------------------------------------------------------------------------
(* The process.                                                            *)

\* shutdown takes the lock, cancels the workers and waits for them.  Every
\* worker but an idle one needs the lock to end.
Shutdown ==
  /\ phase = "up"
  /\ Fault("shutdown")
  /\ phase' = "closing"
  /\ UNCHANGED <<mem, flags, row, queue, made, workerVars, dropping, unsaved>>

Gone ==
  /\ phase' = "down"
  /\ mem' = [t \in Tasks |-> "none"]
  /\ queue' = <<>> /\ flag' = {} /\ early' = {} /\ dropping' = {} /\ unsaved' = {}
  /\ at' = [w \in Workers |-> "idle"] /\ task' = [w \in Workers |-> NoTask]
  /\ UNCHANGED <<row, made>>

ShutdownComplete ==
  /\ phase = "closing"
  /\ \A w \in Workers : at[w] = "idle"
  /\ Gone
  /\ UNCHANGED faults

Crash ==
  /\ phase # "down"
  /\ Fault("crash")
  /\ Gone

\* Bug: the rows are loaded as they are; or get a status that no one knows.
RestoredAsIs(s) == s
RestoredInterrupted(s) == IF s \in Open THEN "interrupted" ELSE s
Restored(s) == IF s \in Open THEN "failed" ELSE s

\* start: what was pending or running has failed; the stale rows are deleted.
Boot ==
  LET loaded == [t \in Tasks |-> Restored(row[t])] IN
  /\ phase = "down"
  /\ phase' = "up"
  /\ mem' = Without(Stale(loaded), loaded)
  /\ row' = mem'
  /\ UNCHANGED <<flags, queue, made, workerVars, dropping, unsaved, faults>>

-----------------------------------------------------------------------------
WorkerStep(w) == \/ Take(w) \/ Look(w) \/ Start(w) \/ Body(w) \/ Settle(w) \/ Prune(w)

Next ==
  \/ \E t \in Tasks : \/ Enqueue(t) \/ CancelTask(t) \/ DeleteTask(t) \/ DropRow(t)
  \/ \E w \in Workers : WorkerStep(w)
  \/ Shutdown \/ ShutdownComplete \/ Crash \/ Boot

Spec == Init /\ [][Next]_vars

\* The event loop runs every ready coroutine, a body ends, and the container
\* starts the process again.
FairSpec ==
  /\ Spec
  /\ \A w \in Workers : WF_vars(WorkerStep(w))
  /\ \A t \in Tasks : WF_vars(DropRow(t))
  /\ WF_vars(ShutdownComplete) /\ WF_vars(Boot)

-----------------------------------------------------------------------------
(* Properties.                                                             *)

Held(t) == {w \in Workers : task[w] = t}
Deleted(t) == t <= made /\ mem[t] = "none" /\ row[t] = "none"

\* Every variable keeps its type, and an idle worker holds no task.
TypeOK ==
  /\ phase \in {"up", "closing", "down"}
  /\ mem \in [Tasks -> Statuses] /\ row \in [Tasks -> Statuses]
  /\ flag \subseteq Tasks /\ early \subseteq flag
  /\ dropping \subseteq Tasks /\ unsaved \subseteq Tasks
  /\ queue \in Seq(Tasks) /\ made \in 0..MaxTasks
  /\ at \in [Workers -> Places] /\ task \in [Workers -> Tasks \cup {NoTask}]
  /\ \A w \in Workers : at[w] = "idle" <=> task[w] = NoTask
  /\ faults \in 0..MaxFaults

\* No open task is forgotten: it waits in the queue or a worker has it, across
\* deletions, cancellations and restarts, unless the database failed to take
\* one of its statuses (task_service.py _worker_loop, enqueue, _load_state).
NoOrphan ==
  \A t \in Tasks : mem[t] \in Open /\ t \notin unsaved
                     => t \in Elements(queue) \/ Held(t) # {}

\* The row of a task says what the memory says, so that a restart loads the
\* truth, unless the row could not be written (_update_task, _persist_task).
RowTellsTruth ==
  \A t \in Tasks : mem[t] # "none" /\ t \notin unsaved => row[t] = mem[t]

\* Two tasks of one payload never work at the same time, as long as the first is
\* not deleted while it works (enqueue_unique_by_payload: "this knowledge base
\* already has a running build").
OneOfAKind ==
  \A v, w \in Workers :
    at[v] = "body" /\ at[w] = "body" /\ v # w /\ {task[v], task[w]} \subseteq Unique
      => "none" \in {mem[task[v]], mem[task[w]]}

\* The memory never holds more than the allowed number of settled tasks, but for
\* those of workers that are about to prune (_prune_terminal_tasks).
AboutToPrune == {w \in Workers : task[w] # NoTask /\ Settled(task[w])}
HistoryBounded ==
  Cardinality({t \in Tasks : Settled(t)}) <= MaxTerminal + Cardinality(AboutToPrune)

\* A deleted task does not come back, while a worker still runs it or when the
\* process starts again (delete_task, _update_task).
DeletedStaysDeleted ==
  [][\A t \in Tasks : Deleted(t) => mem'[t] = "none" /\ row'[t] = "none"]_vars

\* The outcome of a task is final, unless its row could not be written
\* (_worker_loop, _mark_cancelled against a task that has already settled).
OutcomeIsFinal ==
  [][\A t \in Tasks : Settled(t) /\ t \notin unsaved => mem'[t] \in {mem[t], "none"}]_vars

\* A task cancelled while it waits in the queue is never started (cancel_task,
\* _worker_loop).
CancelledInQueue == \A t \in early : mem[t] # "running"

\* Every task in the queue settles or is deleted, whatever happens to the others
\* and through crashes and restarts, unless a row could not be written or a
\* shutdown waits for ever for a busy worker.
TasksSettle ==
  \A t \in Tasks :
    mem[t] \in Open /\ t \notin unsaved ~>
      mem[t] \notin Open \/ t \in unsaved \/ phase = "closing"
=============================================================================

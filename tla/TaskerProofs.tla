----------------------------- MODULE TaskerProofs ------------------------------
(***************************************************************************)
(* Proofs about Tasker for any number of tasks, workers and faults.        *)
(***************************************************************************)
EXTENDS Tasker, FiniteSetTheorems, TLAPS

-----------------------------------------------------------------------------
(* Sequences of tasks: what taking one from the queue does.                *)

LEMMA ElementFacts ==
  ASSUME NEW q \in Seq(Tasks)
  PROVE  \A i \in DOMAIN q : i \in Nat \ {0} /\ q[i] \in Tasks
  OBVIOUS

LEMMA QueueFacts ==
  ASSUME NEW q \in Seq(Tasks), q # <<>>
  PROVE  /\ Head(q) \in Tasks /\ Head(q) = q[1] /\ 1 \in DOMAIN q
         /\ Tail(q) \in Seq(Tasks)
         /\ \A i \in DOMAIN Tail(q) : i + 1 \in DOMAIN q /\ Tail(q)[i] = q[i + 1]
         /\ \A i \in DOMAIN q : i # 1 => i - 1 \in DOMAIN Tail(q)
         /\ DOMAIN Tail(q) \subseteq Nat \ {0}
  OBVIOUS

LEMMA AppendFacts ==
  ASSUME NEW q \in Seq(Tasks), NEW t \in Tasks
  PROVE  /\ Append(q, t) \in Seq(Tasks)
         /\ \A i \in DOMAIN Append(q, t) :
              \/ i \in DOMAIN q /\ Append(q, t)[i] = q[i]
              \/ i = Len(q) + 1 /\ Append(q, t)[i] = t
         /\ \A i \in DOMAIN q : i \in DOMAIN Append(q, t) /\ Append(q, t)[i] = q[i]
         /\ Len(q) + 1 \in DOMAIN Append(q, t) /\ Append(q, t)[Len(q) + 1] = t
  OBVIOUS

-----------------------------------------------------------------------------
(* Type correctness.                                                       *)

\* The status written in memory and in the row is a status.
LEMMA SaveTyped ==
  ASSUME TypeOK, NEW t \in Tasks, NEW s \in Open \cup Terminal,
         Saved(t, s) \/ SaveFails(t, s)
  PROVE  /\ mem' \in [Tasks -> Statuses] /\ row' \in [Tasks -> Statuses]
         /\ unsaved' \subseteq Tasks /\ faults' \in 0..MaxFaults
  BY TaskerConstants DEF TypeOK, Saved, SaveFails, Statuses, Fault

\* A worker that moves on keeps its task.
LEMMA GotoTyped ==
  ASSUME TypeOK, NEW w \in Workers, at[w] # "idle", NEW p \in Places \ {"idle"}, Goto(w, p)
  PROVE  /\ at' \in [Workers -> Places] /\ task' = task
         /\ \A v \in Workers : at'[v] = "idle" <=> task'[v] = NoTask
  BY DEF TypeOK, Goto

LEMMA UpdateTaskTyped ==
  ASSUME TypeOK, NEW w \in Workers, at[w] # "idle", NEW s \in Open \cup Terminal,
         NEW p \in Places \ {"idle"}, NEW b \in Places \ {"idle"},
         UpdateTask(w, s, p, b)
  PROVE  /\ mem' \in [Tasks -> Statuses] /\ row' \in [Tasks -> Statuses]
         /\ unsaved' \subseteq Tasks /\ faults' \in 0..MaxFaults
         /\ at' \in [Workers -> Places] /\ task' = task
         /\ \A v \in Workers : at'[v] = "idle" <=> task'[v] = NoTask
  <1>1. task[w] \in Tasks
    BY DEF TypeOK
  <1>2. (\E q \in {p, b} : Goto(w, q)) /\ (Saved(task[w], s) \/ SaveFails(task[w], s)
                                            \/ UNCHANGED <<mem, row, unsaved, faults>>)
    BY DEF UpdateTask
  <1>3. QED
    BY <1>1, <1>2, SaveTyped, GotoTyped DEF TypeOK

LEMMA CallTyped ==
  ASSUME TypeOK, NEW t \in Tasks,
         Enqueue(t) \/ CancelTask(t) \/ DeleteTask(t) \/ DropRow(t)
  PROVE  TypeOK'
  <1>1. CASE Enqueue(t)
    <2>1. Saved(t, "pending") \/ SaveFails(t, "pending")
      BY <1>1 DEF Enqueue
    <2>2. /\ mem' \in [Tasks -> Statuses] /\ row' \in [Tasks -> Statuses]
          /\ unsaved' \subseteq Tasks /\ faults' \in 0..MaxFaults
      BY <2>1, SaveTyped DEF Open
    <2>3. queue' \in Seq(Tasks)
      BY <1>1, AppendFacts DEF Enqueue, TypeOK
    <2>4. made' \in 0..MaxTasks
      BY <1>1, TaskerConstants DEF Enqueue, Tasks
    <2>5. QED
      BY <1>1, <2>2, <2>3, <2>4 DEF Enqueue, TypeOK, flags, workerVars
  <1>2. CASE CancelTask(t)
    BY <1>2 DEF CancelTask, TypeOK, workerVars
  <1>3. CASE DeleteTask(t)
    BY <1>3 DEF DeleteTask, TypeOK, Statuses, flags, workerVars
  <1>4. CASE DropRow(t)
    BY <1>4, TaskerConstants DEF DropRow, TypeOK, Statuses, Fault, flags, workerVars
  <1>5. QED
    BY <1>1, <1>2, <1>3, <1>4

LEMMA WorkerTyped ==
  ASSUME TypeOK, NEW w \in Workers, WorkerStep(w)
  PROVE  TypeOK'
  <1>1. CASE Take(w)
    <2>1. Head(queue) \in Tasks /\ Tail(queue) \in Seq(Tasks)
      BY <1>1, QueueFacts DEF Take, TypeOK
    <2>2. Head(queue) # NoTask
      BY <2>1 DEF Tasks, NoTask
    <2>3. QED
      BY <1>1, <2>1, <2>2 DEF Take, TypeOK, Places, Ending, Terminal, flags
  <1>2. CASE Look(w)
    <2>1. PICK p \in Places \ {"idle"} : Goto(w, p)
      BY <1>2 DEF Look, Places, Ending, Terminal
    <2>2. QED
      BY <1>2, <2>1, GotoTyped DEF Look, TypeOK, flags
  <1>3. CASE Start(w)
    <2>1. /\ mem' \in [Tasks -> Statuses] /\ row' \in [Tasks -> Statuses]
          /\ unsaved' \subseteq Tasks /\ faults' \in 0..MaxFaults
          /\ at' \in [Workers -> Places] /\ task' = task
          /\ \A v \in Workers : at'[v] = "idle" <=> task'[v] = NoTask
      BY <1>3, UpdateTaskTyped DEF Start, Open, Places, Ending, Terminal
    <2>2. QED
      BY <1>3, <2>1 DEF Start, TypeOK, flags
  <1>4. CASE Body(w)
    <2>1. PICK p \in Places \ {"idle"} : Goto(w, p)
      BY <1>4 DEF Body, Places, Ending, Terminal
    <2>2. QED
      BY <1>4, <2>1, GotoTyped DEF Body, TypeOK, flags
  <1>5. CASE Settle(w)
    <2>1. /\ mem' \in [Tasks -> Statuses] /\ row' \in [Tasks -> Statuses]
          /\ unsaved' \subseteq Tasks /\ faults' \in 0..MaxFaults
          /\ at' \in [Workers -> Places] /\ task' = task
          /\ \A v \in Workers : at'[v] = "idle" <=> task'[v] = NoTask
      <3>1. at[w] # "idle"
        BY <1>5 DEF Settle, Ending, Terminal
      <3>2. PICK s \in Terminal, b \in Places \ {"idle"} : UpdateTask(w, s, "after", b)
        BY <1>5 DEF Settle, Places, Ending, Terminal
      <3>3. QED
        BY <3>1, <3>2, UpdateTaskTyped DEF Places, Ending, Terminal
    <2>2. QED
      BY <1>5, <2>1 DEF Settle, TypeOK, flags
  <1>6. CASE Prune(w)
    <2>1. mem' \in [Tasks -> Statuses]
      BY <1>6 DEF Prune, Without, TypeOK, Statuses
    <2>2. dropping' \subseteq Tasks
      BY <1>6 DEF Prune, Stale, TypeOK
    <2>3. QED
      BY <1>6, <2>1, <2>2 DEF Prune, TypeOK, Places, Ending, Terminal, flags
  <1>7. QED
    BY <1>1, <1>2, <1>3, <1>4, <1>5, <1>6 DEF WorkerStep

LEMMA GoneTyped ==
  ASSUME TypeOK, Gone, faults' \in 0..MaxFaults
  PROVE  TypeOK'
  BY DEF Gone, TypeOK, Statuses, Places, Ending, Terminal

LEMMA ProcessTyped ==
  ASSUME TypeOK, Shutdown \/ ShutdownComplete \/ Crash \/ Boot
  PROVE  TypeOK'
  <1>1. CASE Shutdown
    BY <1>1, TaskerConstants DEF Shutdown, TypeOK, Fault, flags, workerVars
  <1>2. CASE ShutdownComplete
    BY <1>2, GoneTyped DEF ShutdownComplete, TypeOK
  <1>3. CASE Crash
    BY <1>3, GoneTyped, TaskerConstants DEF Crash, Fault, TypeOK
  <1>4. CASE Boot
    <2>1. mem' \in [Tasks -> Statuses]
      BY <1>4 DEF Boot, Without, Restored, TypeOK, Statuses, Open, Terminal
    <2>2. QED
      BY <1>4, <2>1 DEF Boot, TypeOK, flags, workerVars
  <1>5. QED
    BY <1>1, <1>2, <1>3, <1>4

\* Every variable keeps its type and an idle worker holds no task, for any number
\* of tasks, workers and faults.
THEOREM TypeCorrect == Spec => []TypeOK
  <1>1. Init => TypeOK
    BY TaskerConstants DEF Init, TypeOK, Statuses, Places, Ending, Terminal, NoTask
  <1>2. TypeOK /\ [Next]_vars => TypeOK'
    <2>1. ASSUME TypeOK, Next PROVE TypeOK'
      BY <2>1, CallTyped, WorkerTyped, ProcessTyped DEF Next
    <2>2. ASSUME TypeOK, UNCHANGED vars PROVE TypeOK'
      BY <2>2 DEF TypeOK, vars, flags, workerVars
    <2>3. QED
      BY <2>1, <2>2
  <1>3. QED
    BY <1>1, <1>2, PTL DEF Spec

-----------------------------------------------------------------------------
(* Who has a task: the queue or one worker, and a task that is gone is     *)
(* never in memory again.                                                  *)

Waits(t) == \E i \in DOMAIN queue : queue[i] = t

\* A task is in one place: once in the queue, or with one worker.
Once ==
  /\ \A i, j \in DOMAIN queue : queue[i] = queue[j] => i = j
  /\ \A w \in Workers : ~Waits(task[w])
  /\ \A v, w \in Workers : task[v] = task[w] /\ task[v] # NoTask => v = w

\* No one has a task that was not made, and one whose row goes is not in memory.
Known ==
  /\ \A i \in DOMAIN queue : queue[i] <= made
  /\ \A w \in Workers : task[w] <= made
  /\ \A t \in dropping : t <= made /\ mem[t] = "none"
  /\ \A t \in Tasks : t > made => mem[t] = "none" /\ row[t] = "none"

\* A process that is down has nothing.
Down ==
  phase = "down" =>
    /\ queue = <<>> /\ dropping = {} /\ unsaved = {}
    /\ mem = [t \in Tasks |-> "none"]
    /\ \A w \in Workers : task[w] = NoTask

Structure == Once /\ Known /\ Down

\* What a status update does: it is only for a task that is in memory.
LEMMA UpdateEffect ==
  ASSUME TypeOK, NEW w \in Workers, at[w] # "idle",
         NEW s, NEW p, NEW b, UpdateTask(w, s, p, b)
  PROVE  /\ task[w] \in Tasks /\ UNCHANGED task
         /\ at' \in {[at EXCEPT ![w] = p], [at EXCEPT ![w] = b]}
         /\ \/ UNCHANGED <<mem, row>> /\ mem[task[w]] = "none"
            \/ /\ mem[task[w]] # "none"
               /\ mem' = [mem EXCEPT ![task[w]] = s]
               /\ row' \in {row, [row EXCEPT ![task[w]] = s]}
  BY DEF UpdateTask, Goto, Saved, SaveFails, TypeOK

LEMMA EnqueueStructure ==
  ASSUME TypeOK, Structure, NEW t \in Tasks, Enqueue(t)
  PROVE  Structure'
  <1> USE DEF flags, workerVars
  <1>1. /\ made \in Nat /\ t = made + 1 /\ made' = t /\ phase' = "up"
        /\ mem' = [mem EXCEPT ![t] = "pending"]
        /\ row' \in {row, [row EXCEPT ![t] = "pending"]}
        /\ UNCHANGED <<task, dropping>>
    BY DEF Enqueue, Saved, SaveFails, TypeOK
  <1>2. /\ queue' \in {queue, Append(queue, t)} /\ queue \in Seq(Tasks)
        /\ \A w \in Workers : task[w] \in Tasks \cup {NoTask}
    BY DEF Enqueue, TypeOK
  <1>3. ~Waits(t) /\ \A w \in Workers : task[w] # t
    BY <1>1, <1>2 DEF Structure, Known, Waits, Tasks, NoTask
  <1>4. Once'
    <2>1. CASE queue' = queue
      BY <1>1, <2>1 DEF Structure, Once, Waits
    <2>2. CASE queue' = Append(queue, t)
      BY <1>1, <1>2, <1>3, <2>2, AppendFacts DEF Structure, Once, Waits
    <2>3. QED
      BY <1>2, <2>1, <2>2
  <1>5. Known'
    <2>1. \A i \in DOMAIN queue' : queue'[i] <= made'
      <3>1. \A i \in DOMAIN queue : queue[i] \in Nat /\ queue[i] <= made
        BY <1>2, ElementFacts DEF Structure, Known, Tasks
      <3>2. QED
        BY <1>1, <1>2, <3>1, AppendFacts DEF Tasks
    <2>2. \A w \in Workers : task'[w] <= made'
      BY <1>1, <1>2 DEF Structure, Known, Tasks, NoTask
    <2>3. \A u \in dropping' : u <= made' /\ mem'[u] = "none"
      BY <1>1 DEF Structure, Known, TypeOK, Tasks
    <2>4. ASSUME NEW u \in Tasks, u > made'
          PROVE  mem'[u] = "none" /\ row'[u] = "none"
      <3>1. u # t /\ u > made
        BY <1>1, <2>4 DEF Tasks
      <3>2. mem[u] = "none" /\ row[u] = "none"
        BY <3>1 DEF Structure, Known
      <3>3. QED
        BY <1>1, <3>1, <3>2 DEF TypeOK
    <2>5. QED
      BY <2>1, <2>2, <2>3, <2>4 DEF Known
  <1>6. QED
    BY <1>1, <1>4, <1>5 DEF Structure, Down

LEMMA CallStructure ==
  ASSUME TypeOK, Structure, NEW t \in Tasks,
         CancelTask(t) \/ DeleteTask(t) \/ DropRow(t)
  PROVE  Structure'
  <1> USE DEF flags, workerVars
  <1>1. UNCHANGED <<queue, task, made, phase>>
    BY DEF CancelTask, DeleteTask, DropRow
  <1>2. Once'
    BY <1>1 DEF Structure, Once, Waits
  <1>3. CASE CancelTask(t)
    BY <1>1, <1>2, <1>3 DEF CancelTask, Structure, Known, Down
  <1>4. CASE DeleteTask(t)
    <2>1. t <= made
      BY <1>4 DEF DeleteTask, Structure, Known, TypeOK, Tasks
    <2>2. QED
      BY <1>1, <1>2, <1>4, <2>1 DEF DeleteTask, Structure, Known, Down, TypeOK
  <1>5. CASE DropRow(t)
    BY <1>1, <1>2, <1>5 DEF DropRow, Structure, Known, Down, TypeOK
  <1>6. QED
    BY <1>3, <1>4, <1>5

LEMMA WorkerStructure ==
  ASSUME TypeOK, Structure, NEW w \in Workers, WorkerStep(w)
  PROVE  Structure'
  <1> USE DEF flags
  <1>1. phase # "down"
    BY DEF WorkerStep, Take, Look, Start, Body, Settle, Prune, Structure, Down, TypeOK
  <1>2. CASE Take(w)
    <2>1. /\ queue \in Seq(Tasks) /\ queue # <<>> /\ queue' = Tail(queue)
          /\ task' = [task EXCEPT ![w] = Head(queue)] /\ task[w] = NoTask
          /\ task \in [Workers -> Tasks \cup {NoTask}]
          /\ UNCHANGED <<phase, mem, row, made, dropping>>
      BY <1>2 DEF Take, TypeOK
    <2>2. /\ Head(queue) = queue[1] /\ 1 \in DOMAIN queue
          /\ \A i \in DOMAIN queue' : i + 1 \in DOMAIN queue /\ queue'[i] = queue[i + 1]
          /\ DOMAIN queue' \subseteq Nat \ {0}
      BY <2>1, QueueFacts
    <2>3. Once'
      <3>1. \A i, j \in DOMAIN queue' : queue'[i] = queue'[j] => i = j
        <4>1. ASSUME NEW i \in DOMAIN queue', NEW j \in DOMAIN queue', queue'[i] = queue'[j]
              PROVE  i = j
          <5>1. i + 1 = j + 1
            BY <2>2, <4>1 DEF Structure, Once
          <5>2. QED
            BY <2>2, <5>1
        <4>2. QED
          BY <4>1
      <3>2. \A v \in Workers : ~Waits(task[v])'
        <4>1. ASSUME NEW v \in Workers, NEW i \in DOMAIN queue', queue'[i] = task'[v]
              PROVE  FALSE
          <5>1. i + 1 # 1
            BY <2>2
          <5>2. CASE v = w
            BY <2>1, <2>2, <4>1, <5>1, <5>2 DEF Structure, Once
          <5>3. CASE v # w
            BY <2>1, <2>2, <4>1, <5>3 DEF Structure, Once, Waits
          <5>4. QED
            BY <5>2, <5>3
        <4>2. QED
          BY <4>1 DEF Waits
      <3>3. \A u, v \in Workers : task'[u] = task'[v] /\ task'[u] # NoTask => u = v
        BY <2>1, <2>2 DEF Structure, Once, Waits
      <3>4. QED
        BY <3>1, <3>2, <3>3 DEF Once
    <2>4. Known'
      BY <2>1, <2>2 DEF Structure, Known
    <2>5. QED
      BY <1>1, <2>1, <2>3, <2>4 DEF Structure, Down
  <1>3. CASE Look(w) \/ Body(w)
    BY <1>1, <1>3 DEF Look, Body, Goto, Structure, Once, Known, Down, Waits
  <1>4. CASE Start(w) \/ Settle(w)
    <2>1. PICK s, p, b : UpdateTask(w, s, p, b)
      BY <1>4 DEF Start, Settle
    <2>2. at[w] # "idle"
      BY <1>4 DEF Start, Settle, Ending, Terminal
    <2>3. UNCHANGED <<queue, task, made, dropping, phase>>
      BY <1>4, <2>1, <2>2, UpdateEffect DEF Start, Settle
    <2>4. Once'
      BY <2>3 DEF Structure, Once, Waits
    <2>5. /\ \A u \in Tasks : mem[u] = "none" => mem'[u] = "none"
          /\ \A u \in Tasks : mem[u] = "none" /\ row[u] = "none" => row'[u] = "none"
      BY <2>1, <2>2, UpdateEffect DEF TypeOK
    <2>6. Known'
      BY <2>3, <2>5 DEF Structure, Known, TypeOK
    <2>7. QED
      BY <1>1, <2>3, <2>4, <2>6 DEF Structure, Down
  <1>5. CASE Prune(w)
    <2>1. /\ task' = [task EXCEPT ![w] = NoTask] /\ mem' = Without(Stale(mem), mem)
          /\ dropping' = dropping \cup Stale(mem) /\ UNCHANGED <<phase, queue, row, made>>
      BY <1>5 DEF Prune
    <2>2. NoTask <= made /\ ~Waits(NoTask) /\ task \in [Workers -> Tasks \cup {NoTask}]
      BY ElementFacts DEF TypeOK, NoTask, Waits, Tasks
    <2>3. Once'
      BY <2>1, <2>2 DEF Structure, Once, Waits
    <2>4. /\ \A t \in Tasks : mem[t] = "none" => mem'[t] = "none"
          /\ \A t \in Stale(mem) : t \in Tasks /\ mem'[t] = "none" /\ mem[t] # "none"
      BY <2>1 DEF Without, Stale, Terminal
    <2>5. made \in Nat /\ Tasks \subseteq Nat
      BY DEF TypeOK, Tasks
    <2>6. Known'
      BY <2>1, <2>2, <2>4, <2>5 DEF Structure, Known, TypeOK
    <2>7. QED
      BY <1>1, <2>1, <2>3, <2>6 DEF Structure, Down
  <1>6. QED
    BY <1>2, <1>3, <1>4, <1>5 DEF WorkerStep

LEMMA GoneStructure ==
  ASSUME TypeOK, Structure, Gone
  PROVE  Structure'
  BY DEF Gone, Structure, Once, Known, Down, Waits, TypeOK, NoTask

LEMMA ProcessStructure ==
  ASSUME TypeOK, Structure, Shutdown \/ ShutdownComplete \/ Crash \/ Boot
  PROVE  Structure'
  <1> USE DEF flags, workerVars
  <1>1. CASE Shutdown
    BY <1>1 DEF Shutdown, Structure, Once, Known, Down, Waits
  <1>2. CASE ShutdownComplete \/ Crash
    BY <1>2, GoneStructure DEF ShutdownComplete, Crash
  <1>3. CASE Boot
    <2>1. /\ UNCHANGED <<queue, task, made, dropping>> /\ phase' = "up"
          /\ row' = mem' /\ dropping = {}
      BY <1>3 DEF Boot, Structure, Down
    <2>2. \A t \in Tasks : row[t] = "none" => mem'[t] = "none"
      BY <1>3 DEF Boot, Without, Restored, Open
    <2>3. QED
      BY <2>1, <2>2 DEF Structure, Once, Known, Down, Waits
  <1>4. QED
    BY <1>1, <1>2, <1>3

LEMMA Structured == Spec => []Structure
  <1>1. Init => Structure
    BY DEF Init, Structure, Once, Known, Down, Waits, NoTask
  <1>2. TypeOK /\ Structure /\ [Next]_vars => Structure'
    <2>1. ASSUME TypeOK, Structure, Next PROVE Structure'
      BY <2>1, EnqueueStructure, CallStructure, WorkerStructure, ProcessStructure DEF Next
    <2>2. ASSUME Structure, UNCHANGED vars PROVE Structure'
      BY <2>2 DEF Structure, Once, Known, Down, Waits, vars, flags, workerVars
    <2>3. QED
      BY <2>1, <2>2
  <1>3. QED
    BY <1>1, <1>2, TypeCorrect, PTL DEF Spec

-----------------------------------------------------------------------------
(* What each step does to the status of a task.                            *)

Unstarted(t) == mem[t] \in {"pending", "none"}
Unsettled(t) == mem[t] \in Open \cup {"none"}

\* The status of the task and its row, and whether the row could be written.
Same(t) == mem'[t] = mem[t] /\ row'[t] = row[t] /\ (t \in unsaved' <=> t \in unsaved)
Written(t, s) == mem'[t] = s /\ row'[t] = s
Broken(t, s) == mem'[t] = s /\ t \in unsaved'

LEMMA EnqueueEffect ==
  ASSUME TypeOK, Structure, NEW t \in Tasks, Enqueue(t)
  PROVE  /\ mem[t] = "none" /\ t = made + 1 /\ phase = "up"
         /\ t \in Unique => SameIsOpen = {}
         /\ ~Waits(t) /\ \A w \in Workers : task[w] # t
         /\ \A u \in Tasks \ {t} : Same(u)
         /\ \/ Written(t, "pending") /\ queue' = Append(queue, t)
            \/ Broken(t, "pending") /\ UNCHANGED queue
         /\ UNCHANGED <<flag, early, at, task>>
  <1>1. /\ made \in Nat /\ queue \in Seq(Tasks)
        /\ \A w \in Workers : task[w] \in Tasks \cup {NoTask}
    BY DEF TypeOK
  <1>2. mem[t] = "none" /\ ~Waits(t) /\ \A w \in Workers : task[w] # t
    BY <1>1, ElementFacts DEF Enqueue, Structure, Known, Waits, Tasks, NoTask
  <1>3. QED
    BY <1>2 DEF Enqueue, Saved, SaveFails, Same, Written, Broken, TypeOK, flags, workerVars

\* Only the task of the worker changes, and a deleted one does not.
LEMMA UpdatesEffect ==
  ASSUME TypeOK, Structure, NEW w \in Workers, Start(w) \/ Settle(w)
  PROVE  /\ task[w] \in Tasks /\ UNCHANGED <<flag, early, queue, task>>
         /\ \A u \in Tasks \ {task[w]} : Same(u)
         /\ \A v \in Workers \ {w} : at'[v] = at[v] /\ task[v] # task[w]
         /\ ~Waits(task[w])
  BY DEF Start, Settle, UpdateTask, Goto, Saved, SaveFails, Same, TypeOK, Structure, Once,
         Ending, Terminal, flags

LEMMA StartEffect ==
  ASSUME TypeOK, NEW w \in Workers, Start(w)
  PROVE  /\ at[w] = "starting"
         /\ \/ mem[task[w]] = "none" /\ Same(task[w]) /\ at'[w] = "body"
            \/ mem[task[w]] # "none" /\ Written(task[w], "running") /\ at'[w] = "body"
            \/ mem[task[w]] # "none" /\ Broken(task[w], "running") /\ at'[w] = "after"
  BY DEF Start, UpdateTask, Goto, Saved, SaveFails, Same, Written, Broken, TypeOK

LEMMA SettleEffect ==
  ASSUME TypeOK, NEW w \in Workers, Settle(w)
  PROVE  /\ at[w] \in Ending
         /\ \E s \in Terminal :
              \/ mem[task[w]] = "none" /\ Same(task[w]) /\ at'[w] = "after"
              \/ /\ mem[task[w]] # "none" /\ Written(task[w], s)
                 /\ at'[w] = "after" /\ unsaved' = unsaved
              \/ /\ mem[task[w]] # "none" /\ Broken(task[w], s)
                 /\ at'[w] \in {"failed", "after"}
                 /\ at[w] = "cancelled" => at'[w] = "after"
  <1>1. PICK s \in Terminal, b \in {"failed", "after"} :
          /\ UpdateTask(w, s, "after", b)
          /\ at[w] = "cancelled" => b = "after"
    BY DEF Settle, Ending, Terminal
  <1>2. at[w] \in Ending
    BY DEF Settle
  <1>3. \/ mem[task[w]] = "none" /\ Same(task[w]) /\ at'[w] = "after"
        \/ /\ mem[task[w]] # "none" /\ Written(task[w], s)
           /\ at'[w] = "after" /\ unsaved' = unsaved
        \/ mem[task[w]] # "none" /\ Broken(task[w], s) /\ at'[w] = b
    BY <1>1, <1>2 DEF UpdateTask, Goto, Saved, SaveFails, Same, Written, Broken, TypeOK,
                      Ending, Terminal
  <1>4. QED
    BY <1>1, <1>2, <1>3

\* The other steps take tasks away and change no other status.
LEMMA RemovalEffect ==
  ASSUME TypeOK,
         \/ \E t \in Tasks : CancelTask(t) \/ DeleteTask(t) \/ DropRow(t)
         \/ \E w \in Workers : Take(w) \/ Look(w) \/ Body(w) \/ Prune(w)
         \/ Shutdown
  PROVE  /\ \A u \in Tasks : mem'[u] \in {mem[u], "none"}
         /\ unsaved' = unsaved
  BY DEF CancelTask, DeleteTask, DropRow, Take, Look, Body, Prune, Shutdown, TypeOK,
         Without

\* A process that ends loses every task.
LEMMA GoneEffect ==
  ASSUME ShutdownComplete \/ Crash
  PROVE  /\ \A t \in Tasks : mem'[t] = "none"
         /\ queue' = <<>> /\ flag' = {} /\ early' = {} /\ unsaved' = {} /\ row' = row
         /\ \A w \in Workers : at'[w] = "idle" /\ task'[w] = NoTask
  BY DEF ShutdownComplete, Crash, Gone

\* A process that starts has settled tasks only, and no one has them.
LEMMA BootEffect ==
  ASSUME TypeOK, Structure, Boot
  PROVE  /\ \A t \in Tasks : mem[t] = "none" /\ mem'[t] \notin Open
         /\ row' = mem' /\ queue = <<>>
         /\ \A w \in Workers : task[w] = NoTask /\ at[w] = "idle"
         /\ UNCHANGED <<queue, flag, early, at, task, unsaved>>
  BY DEF Boot, TypeOK, Structure, Down, Without, Restored, Open, flags, workerVars

-----------------------------------------------------------------------------
(* The place of a task and its status agree.                               *)

StageOf(w) ==
  /\ at[w] \in {"taken", "starting"} => Unstarted(task[w])
  /\ at[w] = "body" => Unsettled(task[w])
  /\ at[w] \in Ending => Unsettled(task[w]) \/ task[w] \in unsaved
  /\ at[w] = "after" => mem[task[w]] \notin Open \/ task[w] \in unsaved

Stages ==
  /\ \A i \in DOMAIN queue : Unstarted(queue[i])
  /\ \A w \in Workers : StageOf(w)

\* A stage stands while the worker stands and its task keeps its status or goes.
LEMMA StageStands ==
  ASSUME TypeOK, NEW w \in Workers, StageOf(w), at'[w] = at[w], task'[w] = task[w],
         task[w] \in Tasks => /\ mem'[task[w]] \in {mem[task[w]], "none"}
                              /\ task[w] \in unsaved => task[w] \in unsaved'
  PROVE  StageOf(w)'
  <1>1. CASE task[w] \in Tasks
    BY <1>1 DEF StageOf, Unstarted, Unsettled, Open
  <1>2. CASE task[w] = NoTask
    <2>1. at'[w] = "idle"
      BY <1>2 DEF TypeOK
    <2>2. QED
      BY <2>1 DEF StageOf, Ending, Terminal
  <1>3. QED
    BY <1>1, <1>2 DEF TypeOK

LEMMA QueueStands ==
  ASSUME TypeOK, \A i \in DOMAIN queue : Unstarted(queue[i]), UNCHANGED queue,
         \A i \in DOMAIN queue : mem'[queue[i]] \in {mem[queue[i]], "none"}
  PROVE  \A i \in DOMAIN queue' : Unstarted(queue[i])'
  BY DEF Unstarted

LEMMA EnqueueStages ==
  ASSUME TypeOK, Structure, Stages, NEW t \in Tasks, Enqueue(t)
  PROVE  Stages'
  <1>1. \A i \in DOMAIN queue : queue[i] \in Tasks \ {t}
    BY ElementFacts, EnqueueEffect DEF TypeOK, Waits
  <1>2. mem'[t] = "pending"
    BY EnqueueEffect DEF Written, Broken
  <1>3. \A i \in DOMAIN queue' : Unstarted(queue[i])'
    <2>1. \A u \in Tasks : Unstarted(u) /\ u # t => Unstarted(u)'
      BY EnqueueEffect DEF Unstarted, Same
    <2>2. Unstarted(t)'
      BY <1>2 DEF Unstarted
    <2>3. queue \in Seq(Tasks) /\ queue' \in {queue, Append(queue, t)}
      BY EnqueueEffect DEF TypeOK
    <2>4. \A i \in DOMAIN queue' : (i \in DOMAIN queue /\ queue'[i] = queue[i]) \/ queue'[i] = t
      BY <2>3, AppendFacts
    <2>5. QED
      BY <1>1, <2>1, <2>2, <2>4 DEF Stages, Unstarted
  <1>4. ASSUME NEW w \in Workers PROVE StageOf(w)'
    BY EnqueueEffect, StageStands DEF Stages, Same, TypeOK
  <1>5. QED
    BY <1>3, <1>4 DEF Stages

LEMMA CallStages ==
  ASSUME TypeOK, Structure, Stages, NEW t \in Tasks,
         CancelTask(t) \/ DeleteTask(t) \/ DropRow(t)
  PROVE  Stages'
  <1>1. /\ UNCHANGED <<queue, at, task, unsaved>>
        /\ \A u \in Tasks : mem'[u] \in {mem[u], "none"}
    BY DEF CancelTask, DeleteTask, DropRow, workerVars, TypeOK
  <1>2. \A i \in DOMAIN queue' : Unstarted(queue[i])'
    BY <1>1, QueueStands, ElementFacts DEF Stages, TypeOK
  <1>3. ASSUME NEW w \in Workers PROVE StageOf(w)'
    BY <1>1, StageStands DEF Stages
  <1>4. QED
    BY <1>2, <1>3 DEF Stages

LEMMA WorkerStages ==
  ASSUME TypeOK, Structure, Stages, NEW w \in Workers, WorkerStep(w)
  PROVE  Stages'
  <1>1. CASE Take(w)
    <2>1. /\ queue \in Seq(Tasks) /\ queue # <<>> /\ queue' = Tail(queue)
          /\ at' = [at EXCEPT ![w] = "taken"] /\ task' = [task EXCEPT ![w] = Head(queue)]
          /\ UNCHANGED <<mem, unsaved>>
      BY <1>1 DEF Take, TypeOK
    <2>2. \A i \in DOMAIN queue' : Unstarted(queue[i])'
      BY <2>1, QueueFacts DEF Stages, Unstarted
    <2>3. ASSUME NEW v \in Workers PROVE StageOf(v)'
      <3>1. CASE v = w
        BY <2>1, <3>1, QueueFacts DEF Stages, StageOf, Unstarted, TypeOK, Ending, Terminal
      <3>2. CASE v # w
        BY <2>1, <3>2, StageStands DEF Stages, TypeOK
      <3>3. QED
        BY <3>1, <3>2
    <2>4. QED
      BY <2>2, <2>3 DEF Stages
  <1>2. CASE Look(w) \/ Body(w)
    <2>1. /\ UNCHANGED <<queue, task, mem, unsaved>>
          /\ \A v \in Workers \ {w} : at'[v] = at[v]
      BY <1>2 DEF Look, Body, Goto, TypeOK
    <2>2. StageOf(w)'
      <3>1. CASE Look(w)
        BY <2>1, <3>1 DEF Look, Goto, Stages, StageOf, TypeOK, Unstarted, Unsettled, Open,
                          Ending, Terminal
      <3>2. CASE Body(w)
        <4>1. at'[w] \in Ending
          BY <3>2 DEF Body, Goto, TypeOK, Ending, Terminal
        <4>2. QED
          BY <2>1, <3>2, <4>1 DEF Body, Stages, StageOf, Unsettled, Ending, Terminal
      <3>3. QED
        BY <1>2, <3>1, <3>2
    <2>3. ASSUME NEW v \in Workers \ {w} PROVE StageOf(v)'
      BY <2>1, <2>3, StageStands DEF Stages
    <2>4. QED
      BY <2>1, <2>2, <2>3 DEF Stages, StageOf, Unstarted
  <1>3. CASE Start(w) \/ Settle(w)
    <2>1. \A i \in DOMAIN queue' : Unstarted(queue[i])'
      <3>1. /\ \A i \in DOMAIN queue : queue[i] \in Tasks \ {task[w]}
            /\ UNCHANGED queue
        BY <1>3, UpdatesEffect, ElementFacts DEF TypeOK, Waits
      <3>2. QED
        BY <1>3, <3>1, UpdatesEffect DEF Stages, Unstarted, Same
    <2>2. StageOf(w)'
      <3>1. CASE Start(w)
        BY <3>1, StartEffect, UpdatesEffect
           DEF Stages, StageOf, Same, Written, Broken, Unstarted, Unsettled, Open, Ending,
               Terminal
      <3>2. CASE Settle(w)
        BY <3>2, SettleEffect, UpdatesEffect
           DEF Stages, StageOf, Same, Written, Broken, Unstarted, Unsettled, Open, Ending,
               Terminal
      <3>3. QED
        BY <1>3, <3>1, <3>2
    <2>3. ASSUME NEW v \in Workers \ {w} PROVE StageOf(v)'
      BY <1>3, <2>3, UpdatesEffect, StageStands DEF Stages, Same
    <2>4. QED
      BY <2>1, <2>2, <2>3 DEF Stages
  <1>4. CASE Prune(w)
    <2>1. /\ UNCHANGED <<queue, unsaved>> /\ \A u \in Tasks : mem'[u] \in {mem[u], "none"}
          /\ at'[w] = "idle"
          /\ \A v \in Workers \ {w} : at'[v] = at[v] /\ task'[v] = task[v]
      BY <1>4 DEF Prune, Without, TypeOK
    <2>2. \A i \in DOMAIN queue' : Unstarted(queue[i])'
      BY <2>1, QueueStands, ElementFacts DEF Stages, TypeOK
    <2>3. StageOf(w)'
      BY <2>1 DEF StageOf, Ending, Terminal
    <2>4. ASSUME NEW v \in Workers \ {w} PROVE StageOf(v)'
      BY <2>1, <2>4, StageStands DEF Stages
    <2>5. QED
      BY <2>2, <2>3, <2>4 DEF Stages
  <1>5. QED
    BY <1>1, <1>2, <1>3, <1>4 DEF WorkerStep

LEMMA ProcessStages ==
  ASSUME TypeOK, Structure, Stages, ShutdownComplete \/ Crash \/ Boot
  PROVE  Stages'
  <1>1. queue' = <<>> /\ \A w \in Workers : at'[w] = "idle"
    BY GoneEffect, BootEffect
  <1>2. QED
    BY <1>1 DEF Stages, StageOf, Ending, Terminal

LEMMA StagesHold == Spec => []Stages
  <1>1. Init => Stages
    BY DEF Init, Stages, StageOf, Ending, Terminal
  <1>2. TypeOK /\ Structure /\ Stages /\ [Next]_vars => Stages'
    <2>1. ASSUME TypeOK, Structure, Stages, Next PROVE Stages'
      <3>1. CASE \E t \in Tasks : Enqueue(t) \/ CancelTask(t) \/ DeleteTask(t) \/ DropRow(t)
        BY <2>1, <3>1, EnqueueStages, CallStages
      <3>2. CASE \E w \in Workers : WorkerStep(w)
        BY <2>1, <3>2, WorkerStages
      <3>3. CASE Shutdown
        BY <2>1, <3>3 DEF Shutdown, Stages, StageOf, Unstarted, Unsettled, workerVars
      <3>4. CASE ShutdownComplete \/ Crash \/ Boot
        BY <2>1, <3>4, ProcessStages
      <3>5. QED
        BY <2>1, <3>1, <3>2, <3>3, <3>4 DEF Next
    <2>2. ASSUME Stages, UNCHANGED vars PROVE Stages'
      BY <2>2 DEF Stages, StageOf, Unstarted, Unsettled, vars, flags, workerVars
    <2>3. QED
      BY <2>1, <2>2
  <1>3. QED
    BY <1>1, <1>2, TypeCorrect, Structured, PTL DEF Spec

-----------------------------------------------------------------------------
(* The row tells the truth.                                                *)

\* A task whose row could not be written is the only one whose row may differ.
TrueRow(t) == mem[t] # "none" /\ t \notin unsaved => row[t] = mem[t]

LEMMA TruthInductive ==
  ASSUME TypeOK, Structure, RowTellsTruth, Next
  PROVE  RowTellsTruth'
  <1> SUFFICES ASSUME NEW t \in Tasks PROVE TrueRow(t)'
    BY DEF RowTellsTruth, TrueRow
  <1>1. ASSUME NEW u \in Tasks, Enqueue(u) PROVE TrueRow(t)'
    BY <1>1, EnqueueEffect DEF RowTellsTruth, TrueRow, Same, Written, Broken
  <1>2. ASSUME NEW u \in Tasks, CancelTask(u) \/ DeleteTask(u) PROVE TrueRow(t)'
    BY <1>2 DEF CancelTask, DeleteTask, TypeOK, RowTellsTruth, TrueRow
  <1>3. ASSUME NEW u \in Tasks, DropRow(u) PROVE TrueRow(t)'
    BY <1>3 DEF DropRow, TypeOK, RowTellsTruth, TrueRow, Structure, Known
  <1>4. ASSUME NEW w \in Workers, Take(w) \/ Look(w) \/ Body(w) PROVE TrueRow(t)'
    BY <1>4 DEF Take, Look, Body, RowTellsTruth, TrueRow
  <1>5. ASSUME NEW w \in Workers, Start(w) \/ Settle(w) PROVE TrueRow(t)'
    BY <1>5, UpdatesEffect, StartEffect, SettleEffect
       DEF RowTellsTruth, TrueRow, Same, Written, Broken
  <1>6. ASSUME NEW w \in Workers, Prune(w) PROVE TrueRow(t)'
    BY <1>6 DEF Prune, Without, TypeOK, RowTellsTruth, TrueRow
  <1>7. CASE Shutdown
    BY <1>7 DEF Shutdown, RowTellsTruth, TrueRow
  <1>8. CASE ShutdownComplete \/ Crash
    BY <1>8, GoneEffect DEF TrueRow
  <1>9. CASE Boot
    BY <1>9, BootEffect DEF TrueRow
  <1>10. QED
    BY <1>1, <1>2, <1>3, <1>4, <1>5, <1>6, <1>7, <1>8, <1>9 DEF Next, WorkerStep

\* The row of a task in memory has its status, for any number of tasks, workers,
\* restarts and faults, unless a write of it has failed.
THEOREM RowsTellTheTruth == Spec => []RowTellsTruth
  <1>1. Init => RowTellsTruth
    BY DEF Init, RowTellsTruth
  <1>2. TypeOK /\ Structure /\ RowTellsTruth /\ [Next]_vars => RowTellsTruth'
    BY TruthInductive DEF RowTellsTruth, vars
  <1>3. QED
    BY <1>1, <1>2, TypeCorrect, Structured, PTL DEF Spec

-----------------------------------------------------------------------------
(* No task is forgotten.                                                   *)

Kept(t) ==
  mem[t] \in Open /\ t \notin unsaved => Waits(t) \/ \E w \in Workers : task[w] = t

LEMMA KeptIsNoOrphan == NoOrphan <=> \A t \in Tasks : Kept(t)
  BY DEF NoOrphan, Kept, Waits, Elements, Held

\* A task stays where it is in a step that moves no task and opens none.
LEMMA KeptStands ==
  ASSUME NEW t \in Tasks, Kept(t), UNCHANGED <<queue, task>>,
         mem'[t] \in Open /\ t \notin unsaved' => mem[t] \in Open /\ t \notin unsaved
  PROVE  Kept(t)'
  BY DEF Kept, Waits

LEMMA OrphanInductive ==
  ASSUME TypeOK, Structure, Stages, NoOrphan, Next
  PROVE  NoOrphan'
  <1> SUFFICES ASSUME NEW t \in Tasks PROVE Kept(t)'
    BY DEF NoOrphan, Kept, Waits, Elements, Held
  <1>0. Kept(t)
    BY KeptIsNoOrphan
  <1>1. ASSUME NEW u \in Tasks, Enqueue(u) PROVE Kept(t)'
    <2>1. CASE t = u
      <3>1. t \in unsaved' \/ queue' = Append(queue, t)
        BY <1>1, <2>1, EnqueueEffect DEF Broken
      <3>2. queue' = Append(queue, t) => Waits(t)'
        BY AppendFacts DEF TypeOK, Waits
      <3>3. QED
        BY <3>1, <3>2 DEF Kept
    <2>2. CASE t # u
      <3>1. Waits(t) => Waits(t)'
        BY <1>1, EnqueueEffect, AppendFacts DEF TypeOK, Waits
      <3>2. QED
        BY <1>0, <1>1, <2>2, <3>1, EnqueueEffect DEF Kept, Same
    <2>3. QED
      BY <2>1, <2>2
  <1>2. ASSUME NEW u \in Tasks, CancelTask(u) \/ DeleteTask(u) \/ DropRow(u)
        PROVE  Kept(t)'
    BY <1>0, <1>2, KeptStands DEF CancelTask, DeleteTask, DropRow, TypeOK, workerVars, Open
  <1>3. ASSUME NEW w \in Workers, Take(w) PROVE Kept(t)'
    <2>1. /\ queue \in Seq(Tasks) /\ queue # <<>> /\ queue' = Tail(queue)
          /\ task[w] = NoTask /\ NoTask # t
          /\ task' = [task EXCEPT ![w] = Head(queue)] /\ UNCHANGED <<mem, unsaved>>
          /\ task \in [Workers -> Tasks \cup {NoTask}]
      BY <1>3 DEF Take, TypeOK, Tasks, NoTask
    <2>2. ASSUME NEW i \in DOMAIN queue, queue[i] = t
          PROVE  Waits(t)' \/ task'[w] = t
      <3>1. CASE i = 1
        BY <2>1, <2>2, <3>1, QueueFacts
      <3>2. CASE i # 1
        <4>1. i - 1 \in DOMAIN queue' /\ i \in Nat
          BY <2>1, <2>2, <3>2, QueueFacts, ElementFacts
        <4>2. queue'[i - 1] = queue[i - 1 + 1]
          BY <2>1, <4>1, QueueFacts
        <4>3. QED
          BY <2>2, <4>1, <4>2 DEF Waits
      <3>3. QED
        BY <3>1, <3>2
    <2>3. ASSUME NEW v \in Workers, task[v] = t PROVE task'[v] = t
      BY <2>1, <2>3
    <2>4. QED
      BY <1>0, <2>1, <2>2, <2>3 DEF Kept, Waits
  <1>4. ASSUME NEW w \in Workers, Look(w) \/ Body(w) PROVE Kept(t)'
    BY <1>0, <1>4, KeptStands DEF Look, Body, Goto
  <1>5. ASSUME NEW w \in Workers, Start(w) \/ Settle(w) PROVE Kept(t)'
    <2>1. CASE t = task[w]
      BY <1>5, <2>1, UpdatesEffect DEF Kept
    <2>2. CASE t # task[w]
      BY <1>0, <1>5, <2>2, UpdatesEffect, KeptStands DEF Same
    <2>3. QED
      BY <2>1, <2>2
  <1>6. ASSUME NEW w \in Workers, Prune(w) PROVE Kept(t)'
    <2>1. /\ at[w] = "after" /\ StageOf(w) /\ UNCHANGED <<queue, unsaved>>
          /\ mem'[t] \in {mem[t], "none"} /\ \A v \in Workers \ {w} : task'[v] = task[v]
      BY <1>6 DEF Prune, Without, TypeOK, Stages
    <2>2. CASE t = task[w]
      BY <2>1, <2>2 DEF StageOf, Kept, Open, Ending, Terminal
    <2>3. CASE t # task[w]
      BY <1>0, <2>1, <2>3 DEF Kept, Waits, Open
    <2>4. QED
      BY <2>2, <2>3
  <1>7. CASE Shutdown
    BY <1>0, <1>7, KeptStands DEF Shutdown, workerVars
  <1>8. CASE ShutdownComplete \/ Crash
    BY <1>8, GoneEffect DEF Kept, Open
  <1>9. CASE Boot
    BY <1>9, BootEffect DEF Kept
  <1>10. QED
    BY <1>1, <1>2, <1>3, <1>4, <1>5, <1>6, <1>7, <1>8, <1>9 DEF Next, WorkerStep

\* An open task waits in the queue or a worker has it, for any number of tasks,
\* workers, restarts and faults, unless a write of its row has failed.
THEOREM NoTaskOrphaned == Spec => []NoOrphan
  <1>1. Init => NoOrphan
    BY DEF Init, NoOrphan, Open
  <1>2. TypeOK /\ Structure /\ Stages /\ NoOrphan /\ [Next]_vars => NoOrphan'
    BY OrphanInductive DEF NoOrphan, Elements, Held, vars, workerVars
  <1>3. QED
    BY <1>1, <1>2, TypeCorrect, Structured, StagesHold, PTL DEF Spec

-----------------------------------------------------------------------------
(* Tasks of one payload.                                                   *)

\* At most one of them is open.
OneOpen == \A t, u \in Unique : mem[t] \in Open /\ mem[u] \in Open => t = u

\* Only enqueueing opens a task.
LEMMA OpenEffect ==
  ASSUME TypeOK, Structure, Stages, Next, NEW t \in Tasks, mem'[t] \in Open
  PROVE  mem[t] \in Open \/ Enqueue(t)
  <1>1. ASSUME NEW u \in Tasks, Enqueue(u) PROVE mem[t] \in Open \/ Enqueue(t)
    BY <1>1, EnqueueEffect DEF Same
  <1>2. ASSUME NEW w \in Workers, Start(w) PROVE mem[t] \in Open
    <2>1. Unstarted(task[w])
      BY <1>2, StartEffect DEF Stages, StageOf
    <2>2. QED
      BY <1>2, <2>1, StartEffect, UpdatesEffect DEF Unstarted, Same, Open
  <1>3. ASSUME NEW w \in Workers, Settle(w) PROVE mem[t] \in Open
    BY <1>3, SettleEffect, UpdatesEffect DEF Same, Written, Broken, Open, Terminal
  <1>4. CASE \/ \E u \in Tasks : CancelTask(u) \/ DeleteTask(u) \/ DropRow(u)
             \/ \E w \in Workers : Take(w) \/ Look(w) \/ Body(w) \/ Prune(w)
             \/ Shutdown
    BY <1>4, RemovalEffect DEF Open
  <1>5. CASE ShutdownComplete \/ Crash \/ Boot
    BY <1>5, GoneEffect, BootEffect DEF Open
  <1>6. QED
    BY <1>1, <1>2, <1>3, <1>4, <1>5 DEF Next, WorkerStep

LEMMA OneOpenHolds == Spec => []OneOpen
  <1>1. Init => OneOpen
    BY TaskerConstants DEF Init, OneOpen, Open
  <1>2. TypeOK /\ Structure /\ Stages /\ OneOpen /\ [Next]_vars => OneOpen'
    <2>1. ASSUME TypeOK, Structure, Stages, OneOpen, Next PROVE OneOpen'
      <3>1. ASSUME NEW t \in Unique, NEW u \in Unique,
                   mem'[t] \in Open, mem'[u] \in Open, Enqueue(t)
            PROVE  t = u
        <4>1. t \in Tasks /\ u \in Tasks
          BY TaskerConstants
        <4>2. mem[u] \notin Open
          BY <2>1, <3>1, <4>1, EnqueueEffect DEF SameIsOpen
        <4>3. QED
          BY <2>1, <3>1, <4>1, <4>2, EnqueueEffect DEF Same
      <3>2. QED
        BY <2>1, <3>1, OpenEffect, TaskerConstants DEF OneOpen
    <2>2. ASSUME OneOpen, UNCHANGED vars PROVE OneOpen'
      BY <2>2 DEF OneOpen, vars
    <2>3. QED
      BY <2>1, <2>2
  <1>3. QED
    BY <1>1, <1>2, TypeCorrect, Structured, StagesHold, PTL DEF Spec

\* Two tasks of one payload never work at the same time unless one was deleted,
\* for any number of tasks, workers, restarts and faults.
THEOREM OneTaskOfAKind == Spec => []OneOfAKind
  <1>1. Structure /\ Stages /\ OneOpen => OneOfAKind
    <2>1. ASSUME Structure, Stages, OneOpen,
                 NEW v \in Workers, NEW w \in Workers, at[v] = "body", at[w] = "body", v # w,
                 {task[v], task[w]} \subseteq Unique,
                 mem[task[v]] # "none", mem[task[w]] # "none"
          PROVE  FALSE
      <3>1. mem[task[v]] \in Open /\ mem[task[w]] \in Open
        BY <2>1 DEF Stages, StageOf, Unsettled
      <3>2. task[v] = task[w]
        BY <2>1, <3>1 DEF OneOpen
      <3>3. task[v] # NoTask
        BY <2>1, TaskerConstants DEF Tasks, NoTask
      <3>4. QED
        BY <2>1, <3>2, <3>3 DEF Structure, Once
    <2>2. QED
      BY <2>1 DEF OneOfAKind
  <1>2. QED
    BY <1>1, Structured, StagesHold, OneOpenHolds, PTL

-----------------------------------------------------------------------------
(* A task cancelled in the queue.                                          *)

\* It never gets as far as its body.
Early == \A w \in Workers : task[w] \in early => at[w] \in {"taken", "cancelled", "after"}

LEMMA CancelEffect ==
  ASSUME TypeOK, Structure, Stages, NEW t \in Tasks, CancelTask(t)
  PROVE  /\ UNCHANGED <<mem, at, task>>
         /\ early' = early \/ (early' = early \cup {t} /\ Waits(t) /\ Unstarted(t))
  BY DEF CancelTask, Elements, Waits, Stages, Unstarted, workerVars

\* No other call changes who is cancelled, or where a worker stands.
LEMMA CallsEffect ==
  ASSUME \/ \E t \in Tasks : DeleteTask(t) \/ DropRow(t)
         \/ Shutdown
  PROVE  UNCHANGED <<early, at, task>>
  BY DEF DeleteTask, DropRow, Shutdown, flags, workerVars

LEMMA EarlyInductive ==
  ASSUME TypeOK, Structure, Stages, Early, Next
  PROVE  Early'
  <1> SUFFICES ASSUME NEW v \in Workers, task'[v] \in early'
               PROVE  at'[v] \in {"taken", "cancelled", "after"}
    BY DEF Early
  <1>1. ASSUME NEW t \in Tasks, Enqueue(t) PROVE at'[v] \in {"taken", "cancelled", "after"}
    BY <1>1, EnqueueEffect DEF Early
  <1>2. ASSUME NEW t \in Tasks, CancelTask(t)
        PROVE  at'[v] \in {"taken", "cancelled", "after"}
    BY <1>2, CancelEffect DEF Early, Structure, Once
  <1>3. CASE (\E t \in Tasks : DeleteTask(t) \/ DropRow(t)) \/ Shutdown
    BY <1>3, CallsEffect DEF Early
  <1>4. ASSUME NEW w \in Workers, Take(w) PROVE at'[v] \in {"taken", "cancelled", "after"}
    BY <1>4 DEF Take, TypeOK, Early, flags
  <1>5. ASSUME NEW w \in Workers, Look(w) \/ Body(w)
        PROVE  at'[v] \in {"taken", "cancelled", "after"}
    BY <1>5 DEF Look, Body, Goto, TypeOK, Early, flags
  <1>6. ASSUME NEW w \in Workers, Start(w) PROVE at'[v] \in {"taken", "cancelled", "after"}
    BY <1>6, StartEffect, UpdatesEffect DEF Early
  <1>7. ASSUME NEW w \in Workers, Settle(w) PROVE at'[v] \in {"taken", "cancelled", "after"}
    BY <1>7, SettleEffect, UpdatesEffect DEF Early, Ending, Terminal
  <1>8. ASSUME NEW w \in Workers, Prune(w) PROVE at'[v] \in {"taken", "cancelled", "after"}
    <2>1. NoTask \notin early /\ UNCHANGED early
      BY <1>8 DEF Prune, TypeOK, Tasks, NoTask, flags
    <2>2. QED
      BY <1>8, <2>1 DEF Prune, TypeOK, Early
  <1>9. CASE ShutdownComplete \/ Crash
    BY <1>9, GoneEffect
  <1>10. CASE Boot
    BY <1>10, BootEffect DEF Early
  <1>11. QED
    BY <1>1, <1>2, <1>3, <1>4, <1>5, <1>6, <1>7, <1>8, <1>9, <1>10 DEF Next, WorkerStep

LEMMA EarlyHolds == Spec => []Early
  <1>1. Init => Early
    BY DEF Init, Early
  <1>2. TypeOK /\ Structure /\ Stages /\ Early /\ [Next]_vars => Early'
    BY EarlyInductive DEF Early, vars, flags, workerVars
  <1>3. QED
    BY <1>1, <1>2, TypeCorrect, Structured, StagesHold, PTL DEF Spec

LEMMA CancelledInductive ==
  ASSUME TypeOK, Structure, Stages, Early, CancelledInQueue, Next
  PROVE  CancelledInQueue'
  <1> SUFFICES ASSUME NEW t \in early' PROVE mem'[t] # "running"
    BY DEF CancelledInQueue
  <1>1. ASSUME NEW u \in Tasks, Enqueue(u) PROVE mem'[t] # "running"
    BY <1>1, EnqueueEffect DEF TypeOK, CancelledInQueue, Same, Written, Broken
  <1>2. ASSUME NEW u \in Tasks, CancelTask(u) PROVE mem'[t] # "running"
    BY <1>2, CancelEffect DEF CancelledInQueue, Unstarted
  <1>3. CASE (\E u \in Tasks : DeleteTask(u) \/ DropRow(u)) \/ Shutdown
    BY <1>3, CallsEffect, RemovalEffect DEF TypeOK, CancelledInQueue
  <1>4. ASSUME NEW w \in Workers, Take(w) \/ Look(w) \/ Body(w) \/ Prune(w)
        PROVE  mem'[t] # "running"
    <2>1. UNCHANGED early
      BY <1>4 DEF Take, Look, Body, Prune, flags
    <2>2. QED
      BY <1>4, <2>1, RemovalEffect DEF TypeOK, CancelledInQueue
  <1>5. ASSUME NEW w \in Workers, Start(w) PROVE mem'[t] # "running"
    BY <1>5, StartEffect, UpdatesEffect DEF TypeOK, Early, CancelledInQueue, Same
  <1>6. ASSUME NEW w \in Workers, Settle(w) PROVE mem'[t] # "running"
    BY <1>6, SettleEffect, UpdatesEffect
       DEF TypeOK, CancelledInQueue, Same, Written, Broken, Terminal
  <1>7. CASE ShutdownComplete \/ Crash
    BY <1>7, GoneEffect
  <1>8. CASE Boot
    BY <1>8, BootEffect DEF TypeOK, Open
  <1>9. QED
    BY <1>1, <1>2, <1>3, <1>4, <1>5, <1>6, <1>7, <1>8 DEF Next, WorkerStep

\* A task cancelled while it waited is never started, for any number of tasks,
\* workers and faults.
THEOREM CancelledNeverStarts == Spec => []CancelledInQueue
  <1>1. Init => CancelledInQueue
    BY DEF Init, CancelledInQueue
  <1>2. /\ TypeOK /\ Structure /\ Stages /\ Early /\ CancelledInQueue
        /\ [Next]_vars
        => CancelledInQueue'
    BY CancelledInductive DEF CancelledInQueue, vars, flags
  <1>3. QED
    BY <1>1, <1>2, TypeCorrect, Structured, StagesHold, EarlyHolds, PTL DEF Spec

-----------------------------------------------------------------------------
(* The history is bounded.                                                 *)

SettledTasks == {t \in Tasks : Settled(t)}
Busy == {w \in Workers : at[w] # "idle"}

\* A set of tasks is finite, and so is a set of busy workers: a worker becomes
\* busy by taking a task.
LEMMA TasksFinite ==
  ASSUME NEW S \in SUBSET Tasks
  PROVE  IsFiniteSet(S) /\ Cardinality(S) \in Nat
  <1>1. IsFiniteSet(Tasks)
    BY TaskerConstants, FS_Interval DEF Tasks
  <1>2. QED
    BY <1>1, FS_Subset, FS_CardinalityType

\* The tasks of a set that have fewer than n later ones in it are at most n: no
\* two of them have equally many.
LEMMA LatestAtMost ==
  ASSUME NEW S \in SUBSET Tasks, NEW n \in Nat
  PROVE  Cardinality({t \in S : Cardinality({u \in S : u > t}) < n}) <= n
  <1> DEFINE Later(t) == {u \in S : u > t}
             K == {t \in S : Cardinality(Later(t)) < n}
             f == [t \in K |-> Cardinality(Later(t))]
  <1>1. ASSUME NEW t \in S
        PROVE  /\ Later(t) \in SUBSET Tasks /\ IsFiniteSet(Later(t))
               /\ Cardinality(Later(t)) \in Nat
    BY TasksFinite
  <1>2. f \in [K -> 0..(n - 1)]
    <2>1. ASSUME NEW t \in K PROVE Cardinality(Later(t)) \in 0..(n - 1)
      <3>1. Cardinality(Later(t)) \in Nat /\ Cardinality(Later(t)) < n
        BY <1>1, <2>1
      <3> HIDE DEF Later
      <3>2. QED
        BY <3>1
    <2>2. QED
      BY <2>1
  <1>3. ASSUME NEW s \in K, NEW t \in K, s < t PROVE f[s] # f[t]
    <2>1. s \in Nat /\ t \in Nat /\ s \in S /\ t \in S /\ \A u \in S : u \in Nat
      BY <1>3 DEF Tasks
    <2>2. Later(t) \in SUBSET Later(s) /\ t \in Later(s) /\ t \notin Later(t)
      <3>1. \A u \in S : u > t => u > s
        BY <1>3, <2>1
      <3>2. ~(t > t) /\ t > s
        BY <1>3, <2>1
      <3>3. QED
        BY <2>1, <3>1, <3>2
    <2>3. Cardinality(Later(s)) # Cardinality(Later(t))
      <3>1. IsFiniteSet(Later(s))
        BY <1>1, <2>1
      <3> HIDE DEF Later
      <3>2. QED
        BY <2>2, <3>1, FS_Subset
    <2>4. QED
      BY <2>3
  <1>4. f \in Injection(K, 0..(n - 1))
    <2>1. ASSUME NEW s \in K, NEW t \in K, f[s] = f[t] PROVE s = t
      <3>1. ~(s < t) /\ ~(t < s)
        BY <1>3, <2>1
      <3>2. QED
        BY <3>1 DEF Tasks
    <2>2. QED
      BY <1>2, <2>1 DEF Injection, IsInjective
  <1>5. Cardinality(K) <= Cardinality(0..(n - 1)) /\ IsFiniteSet(0..(n - 1))
    BY <1>4, FS_Interval, FS_Injection
  <1>6. Cardinality(0..(n - 1)) = n
    BY FS_Interval
  <1>7. QED
    BY <1>5, <1>6

\* What is left of the settled tasks after pruning.
LEMMA PruneBounds ==
  ASSUME NEW status \in [Tasks -> Statuses]
  PROVE  Cardinality({t \in Tasks : Without(Stale(status), status)[t] \in Terminal})
           <= MaxTerminal
  <1> DEFINE S == {t \in Tasks : status[t] \in Terminal}
  <1>1. {t \in Tasks : Without(Stale(status), status)[t] \in Terminal}
          = {t \in S : Cardinality({u \in S : u > t}) < MaxTerminal}
    <2>1. ASSUME NEW t \in Tasks
          PROVE  Without(Stale(status), status)[t] \in Terminal
                   <=> t \in S /\ t \notin Stale(status)
      BY DEF Without, Terminal
    <2>2. ASSUME NEW t \in S
          PROVE  t \notin Stale(status) <=> Cardinality({u \in S : u > t}) < MaxTerminal
      <3>1. Cardinality({u \in S : u > t}) \in Nat
        BY TasksFinite
      <3>2. QED
        BY <3>1, TaskerConstants DEF Stale
    <2>3. QED
      BY <2>1, <2>2
  <1>2. QED
    BY <1>1, LatestAtMost, TaskerConstants

\* Only finitely many workers are busy, and every settled task beyond the bound
\* has a worker that is about to prune.
History == IsFiniteSet(Busy) /\ HistoryBounded

\* A step after which at most MaxTerminal tasks are settled.
LEMMA PrunedHistory ==
  ASSUME IsFiniteSet(Busy'), Cardinality(SettledTasks') <= MaxTerminal,
         TypeOK'
  PROVE  History'
  <1>1. AboutToPrune' \in SUBSET Busy' 
    BY DEF AboutToPrune, Busy, TypeOK
  <1>2. Cardinality(AboutToPrune') \in Nat
    BY <1>1, FS_Subset, FS_CardinalityType
  <1>3. Cardinality(SettledTasks') \in Nat
    BY TasksFinite DEF SettledTasks
  <1>4. QED
    BY <1>2, <1>3, TaskerConstants DEF History, HistoryBounded, SettledTasks

\* The bound stands when a step settles no task and takes none away.
LEMMA HistoryStands ==
  ASSUME History, IsFiniteSet(Busy'), SettledTasks' = SettledTasks,
         AboutToPrune' = AboutToPrune
  PROVE  History'
  BY DEF History, HistoryBounded, SettledTasks

\* Taking away or settling a task that no worker has, and one that a worker has.
LEMMA HistoryShrinks ==
  ASSUME TypeOK, Structure, History, NEW t \in Tasks,
         UNCHANGED <<at, task>>, mem' = [mem EXCEPT ![t] = "none"]
  PROVE  History'
  <1>1. SettledTasks' = SettledTasks \ {t}
    BY DEF SettledTasks, Settled, Terminal, TypeOK
  <1>2. Busy' = Busy /\ IsFiniteSet(Busy) /\ AboutToPrune \in SUBSET Busy
    BY DEF Busy, History, AboutToPrune, TypeOK
  <1>3. IsFiniteSet(SettledTasks) /\ Cardinality(SettledTasks) \in Nat
    BY TasksFinite DEF SettledTasks
  <1>4. IsFiniteSet(AboutToPrune) /\ Cardinality(AboutToPrune) \in Nat
    BY <1>2, FS_Subset, FS_CardinalityType
  <1>5. CASE t \notin SettledTasks
    <2>1. SettledTasks' = SettledTasks
      BY <1>1, <1>5
    <2>2. AboutToPrune' = AboutToPrune
      BY <1>5 DEF AboutToPrune, SettledTasks, Settled, Terminal, TypeOK
    <2>3. QED
      BY <1>2, <2>1, <2>2, HistoryStands
  <1>6. CASE t \in SettledTasks
    <2>1. Cardinality(SettledTasks') = Cardinality(SettledTasks) - 1
      BY <1>1, <1>3, <1>6, FS_RemoveElement
    <2>2. AboutToPrune' = AboutToPrune \/ \E w : AboutToPrune' = AboutToPrune \ {w}
      <3>1. CASE \E w \in Workers : task[w] = t
        <4>1. PICK w \in Workers : task[w] = t
          BY <3>1
        <4>2. \A v \in Workers \ {w} : task[v] # t
          BY <4>1 DEF Structure, Once, Tasks, NoTask
        <4>3. AboutToPrune' = AboutToPrune \ {w}
          BY <4>1, <4>2 DEF AboutToPrune, Settled, Terminal, TypeOK
        <4>4. QED
          BY <4>3
      <3>2. CASE \A w \in Workers : task[w] # t
        BY <3>2 DEF AboutToPrune, Settled, Terminal, TypeOK
      <3>3. QED
        BY <3>1, <3>2
    <2>3. /\ Cardinality(AboutToPrune') \in Nat
          /\ Cardinality(AboutToPrune') >= Cardinality(AboutToPrune) - 1
      <3>1. ASSUME NEW w
            PROVE  /\ Cardinality(AboutToPrune \ {w}) \in Nat
                   /\ Cardinality(AboutToPrune \ {w}) >= Cardinality(AboutToPrune) - 1
        <4>1. /\ IsFiniteSet(AboutToPrune \ {w})
              /\ \/ Cardinality(AboutToPrune \ {w}) = Cardinality(AboutToPrune) - 1
                 \/ Cardinality(AboutToPrune \ {w}) = Cardinality(AboutToPrune)
          BY <1>4, FS_RemoveElement
        <4>2. QED
          BY <1>4, <4>1, FS_CardinalityType
      <3>2. QED
        BY <1>4, <2>2, <3>1
    <2>4. QED
      BY <1>2, <1>3, <1>4, <2>1, <2>3, TaskerConstants
         DEF History, HistoryBounded, SettledTasks
  <1>7. QED
    BY <1>5, <1>6

\* A worker that settles its task is about to prune.
LEMMA HistoryGrows ==
  ASSUME TypeOK, History, NEW w \in Workers, task[w] \in Tasks, task' = task,
         IsFiniteSet(Busy'), AboutToPrune' = AboutToPrune \cup {w},
         SettledTasks' = SettledTasks \cup {task[w]}, AboutToPrune \in SUBSET Busy,
         w \in AboutToPrune <=> task[w] \in SettledTasks
  PROVE  History'
  <1>1. IsFiniteSet(SettledTasks) /\ Cardinality(SettledTasks) \in Nat
    BY TasksFinite DEF SettledTasks
  <1>2. IsFiniteSet(AboutToPrune) /\ Cardinality(AboutToPrune) \in Nat
    BY FS_Subset, FS_CardinalityType DEF History
  <1>3. /\ Cardinality(SettledTasks') = IF task[w] \in SettledTasks
                                        THEN Cardinality(SettledTasks)
                                        ELSE Cardinality(SettledTasks) + 1
        /\ Cardinality(AboutToPrune') = IF task[w] \in SettledTasks
                                        THEN Cardinality(AboutToPrune)
                                        ELSE Cardinality(AboutToPrune) + 1
    BY <1>1, <1>2, FS_AddElement
  <1>4. QED
    BY <1>1, <1>2, <1>3, TaskerConstants DEF History, HistoryBounded, SettledTasks

LEMMA WorkerHistory ==
  ASSUME TypeOK, TypeOK', Structure, Stages, History, NEW w \in Workers, WorkerStep(w)
  PROVE  History'
  <1>1. Busy' \in SUBSET (Busy \cup {w})
    BY DEF WorkerStep, Take, Look, Start, Body, Settle, Prune, UpdateTask, Goto, Busy, TypeOK
  <1>2. IsFiniteSet(Busy')
    BY <1>1, FS_AddElement, FS_Subset DEF History
  <1>3. CASE Take(w)
    <2>1. /\ Head(queue) \in Tasks /\ mem[Head(queue)] \notin Terminal
          /\ task' = [task EXCEPT ![w] = Head(queue)] /\ task[w] = NoTask /\ mem' = mem
      BY <1>3, QueueFacts DEF Take, Stages, Unstarted, Terminal, TypeOK
    <2>2. AboutToPrune' = AboutToPrune /\ SettledTasks' = SettledTasks
      BY <2>1 DEF AboutToPrune, SettledTasks, Settled, TypeOK
    <2>3. QED
      BY <1>2, <2>2, HistoryStands
  <1>4. CASE Look(w) \/ Body(w)
    <2>1. AboutToPrune' = AboutToPrune /\ SettledTasks' = SettledTasks
      BY <1>4 DEF Look, Body, Goto, AboutToPrune, SettledTasks, Settled
    <2>2. QED
      BY <1>2, <2>1, HistoryStands
  <1>5. CASE Start(w)
    <2>1. /\ task[w] \in Tasks /\ task' = task
          /\ mem[task[w]] \notin Terminal /\ mem'[task[w]] \notin Terminal
          /\ \A u \in Tasks \ {task[w]} : mem'[u] = mem[u]
      BY <1>5, StartEffect, UpdatesEffect
         DEF Stages, StageOf, Unstarted, Ending, Terminal, Same, Written, Broken
    <2>2. AboutToPrune' = AboutToPrune /\ SettledTasks' = SettledTasks
      BY <2>1 DEF AboutToPrune, SettledTasks, Settled, TypeOK
    <2>3. QED
      BY <1>2, <2>2, HistoryStands
  <1>6. CASE Settle(w)
    <2>1. /\ task[w] \in Tasks /\ task' = task /\ at[w] # "idle"
          /\ \A u \in Tasks \ {task[w]} : mem'[u] = mem[u]
          /\ \A v \in Workers \ {w} : task[v] # task[w]
      BY <1>6, UpdatesEffect, SettleEffect DEF Same, Ending, Terminal
    <2>2. task[w] # NoTask /\ AboutToPrune \in SUBSET Busy
      BY <2>1 DEF Tasks, NoTask, AboutToPrune, Busy, TypeOK
    <2>3. CASE mem[task[w]] = "none"
      <3>1. mem'[task[w]] = mem[task[w]]
        BY <1>6, <2>3, SettleEffect DEF Same
      <3>2. AboutToPrune' = AboutToPrune /\ SettledTasks' = SettledTasks
        BY <2>1, <3>1 DEF AboutToPrune, SettledTasks, Settled, TypeOK
      <3>3. QED
        BY <1>2, <3>2, HistoryStands
    <2>4. CASE mem[task[w]] # "none"
      <3>1. mem'[task[w]] \in Terminal
        BY <1>6, <2>4, SettleEffect DEF Written, Broken
      <3>2. /\ AboutToPrune' = AboutToPrune \cup {w}
            /\ SettledTasks' = SettledTasks \cup {task[w]}
            /\ w \in AboutToPrune <=> task[w] \in SettledTasks
        BY <2>1, <2>2, <3>1 DEF AboutToPrune, SettledTasks, Settled, TypeOK
      <3>3. QED
        BY <1>2, <2>1, <2>2, <3>2, HistoryGrows
    <2>5. QED
      BY <2>3, <2>4
  <1>7. CASE Prune(w)
    <2>1. Cardinality(SettledTasks') <= MaxTerminal
      BY <1>7, PruneBounds DEF Prune, SettledTasks, Settled, TypeOK
    <2>2. QED
      BY <1>2, <2>1, PrunedHistory
  <1>8. QED
    BY <1>3, <1>4, <1>5, <1>6, <1>7 DEF WorkerStep

LEMMA CallHistory ==
  ASSUME TypeOK, Structure, History, NEW t \in Tasks,
         Enqueue(t) \/ CancelTask(t) \/ DeleteTask(t) \/ DropRow(t)
  PROVE  History'
  <1>1. UNCHANGED <<at, task>> /\ Busy' = Busy
    BY DEF Enqueue, CancelTask, DeleteTask, DropRow, workerVars, Busy
  <1>2. CASE Enqueue(t)
    <2>1. /\ mem[t] \notin Terminal /\ mem'[t] \notin Terminal
          /\ \A u \in Tasks \ {t} : mem'[u] = mem[u]
      BY <1>2, EnqueueEffect DEF Same, Written, Broken, Terminal
    <2>2. AboutToPrune' = AboutToPrune /\ SettledTasks' = SettledTasks
      BY <1>1, <2>1 DEF AboutToPrune, SettledTasks, Settled, TypeOK
    <2>3. QED
      BY <1>1, <2>2, HistoryStands DEF History
  <1>3. CASE DeleteTask(t)
    BY <1>1, <1>3, HistoryShrinks DEF DeleteTask
  <1>4. CASE CancelTask(t) \/ DropRow(t)
    <2>1. AboutToPrune' = AboutToPrune /\ SettledTasks' = SettledTasks
      BY <1>1, <1>4 DEF CancelTask, DropRow, AboutToPrune, SettledTasks, Settled
    <2>2. QED
      BY <1>1, <2>1, HistoryStands DEF History
  <1>5. QED
    BY <1>2, <1>3, <1>4

LEMMA ProcessHistory ==
  ASSUME TypeOK, TypeOK', Structure, History, Shutdown \/ ShutdownComplete \/ Crash \/ Boot
  PROVE  History'
  <1>1. CASE Shutdown
    <2>1. AboutToPrune' = AboutToPrune /\ SettledTasks' = SettledTasks /\ Busy' = Busy
      BY <1>1 DEF Shutdown, AboutToPrune, SettledTasks, Settled, Busy, workerVars
    <2>2. QED
      BY <2>1, HistoryStands DEF History
  <1>2. CASE ShutdownComplete \/ Crash
    <2>1. Busy' = {} /\ SettledTasks' = {}
      BY <1>2, GoneEffect DEF Busy, SettledTasks, Settled, Terminal
    <2>2. QED
      BY <2>1, PrunedHistory, FS_EmptySet, TaskerConstants
  <1>3. CASE Boot
    <2>1. Busy' = {}
      BY <1>3, BootEffect DEF Busy
    <2>2. [t \in Tasks |-> Restored(row[t])] \in [Tasks -> Statuses]
      BY DEF TypeOK, Restored, Statuses, Terminal
    <2>3. Cardinality(SettledTasks') <= MaxTerminal
      BY <1>3, <2>2, PruneBounds DEF Boot, SettledTasks, Settled
    <2>4. QED
      BY <2>1, <2>3, PrunedHistory, FS_EmptySet
  <1>4. QED
    BY <1>1, <1>2, <1>3

\* The memory holds at most MaxTerminal settled tasks and one more for every
\* worker that is about to prune, for any number of tasks, workers, deletions,
\* restarts and faults.
THEOREM HistoryIsBounded == Spec => []HistoryBounded
  <1>1. Init => History
    <2>1. ASSUME Init PROVE Busy = {} /\ SettledTasks = {} /\ AboutToPrune = {}
      BY <2>1 DEF Init, Busy, SettledTasks, AboutToPrune, Settled, Terminal
    <2>2. QED
      BY <2>1, FS_EmptySet, TaskerConstants DEF History, HistoryBounded, SettledTasks
  <1>2. TypeOK /\ TypeOK' /\ Structure /\ Stages /\ History /\ [Next]_vars => History'
    <2>1. ASSUME TypeOK, TypeOK', Structure, Stages, History, Next PROVE History'
      BY <2>1, CallHistory, WorkerHistory, ProcessHistory DEF Next
    <2>2. ASSUME History, UNCHANGED vars PROVE History'
      <3>1. AboutToPrune' = AboutToPrune /\ SettledTasks' = SettledTasks /\ Busy' = Busy
        BY <2>2 DEF vars, workerVars, AboutToPrune, SettledTasks, Settled, Busy
      <3>2. QED
        BY <2>2, <3>1, HistoryStands DEF History
    <2>3. QED
      BY <2>1, <2>2
  <1>3. History => HistoryBounded
    BY DEF History
  <1>4. QED
    BY <1>1, <1>2, <1>3, TypeCorrect, Structured, StagesHold, PTL DEF Spec

-----------------------------------------------------------------------------
(* What a step may never do.                                               *)

LEMMA OutcomeStep ==
  ASSUME TypeOK, Structure, Stages, Next, NEW t \in Tasks, Settled(t), t \notin unsaved
  PROVE  mem'[t] \in {mem[t], "none"}
  <1>1. ASSUME NEW u \in Tasks, Enqueue(u) PROVE mem'[t] = mem[t]
    BY <1>1, EnqueueEffect DEF Settled, Terminal, Same
  <1>2. ASSUME NEW w \in Workers, Start(w) \/ Settle(w) PROVE mem'[t] = mem[t]
    <2>1. task[w] # t
      BY <1>2, StartEffect, SettleEffect
         DEF Stages, StageOf, Unstarted, Unsettled, Settled, Ending, Terminal, Open
    <2>2. QED
      BY <1>2, <2>1, UpdatesEffect DEF Same
  <1>3. CASE \/ \E u \in Tasks : CancelTask(u) \/ DeleteTask(u) \/ DropRow(u)
             \/ \E w \in Workers : Take(w) \/ Look(w) \/ Body(w) \/ Prune(w)
             \/ Shutdown
    BY <1>3, RemovalEffect
  <1>4. CASE ShutdownComplete \/ Crash
    BY <1>4, GoneEffect
  <1>5. CASE Boot
    BY <1>5, BootEffect DEF Settled, Terminal
  <1>6. QED
    BY <1>1, <1>2, <1>3, <1>4, <1>5 DEF Next, WorkerStep

\* A settled task keeps its outcome until it is deleted, for any number of tasks,
\* workers and faults, unless a write of its row has failed.
THEOREM OutcomesAreFinal == Spec => OutcomeIsFinal
  <1>1. TypeOK /\ Structure /\ Stages /\ [Next]_vars
          => [\A t \in Tasks :
                Settled(t) /\ t \notin unsaved => mem'[t] \in {mem[t], "none"}]_vars
    BY OutcomeStep DEF vars
  <1>2. QED
    BY <1>1, TypeCorrect, Structured, StagesHold, PTL DEF Spec, OutcomeIsFinal

LEMMA DeletedStep ==
  ASSUME TypeOK, Structure, Next, NEW t \in Tasks, Deleted(t)
  PROVE  mem'[t] = "none" /\ row'[t] = "none"
  <1>1. mem[t] = "none" /\ row[t] = "none" /\ t <= made /\ made \in Nat
    BY DEF Deleted, TypeOK
  <1>2. ASSUME NEW u \in Tasks, Enqueue(u) PROVE Same(t)
    BY <1>1, <1>2, EnqueueEffect DEF Tasks
  <1>3. ASSUME NEW w \in Workers, Start(w) \/ Settle(w) PROVE Same(t)
    BY <1>1, <1>3, UpdatesEffect, StartEffect, SettleEffect
  <1>4. CASE \/ \E u \in Tasks : CancelTask(u) \/ DeleteTask(u) \/ DropRow(u)
             \/ \E w \in Workers : Take(w) \/ Look(w) \/ Body(w) \/ Prune(w)
             \/ Shutdown
    <2>1. row'[t] = "none"
      BY <1>1, <1>4 DEF CancelTask, DeleteTask, DropRow, Take, Look, Body, Prune, Shutdown,
                        TypeOK
    <2>2. QED
      BY <1>1, <1>4, <2>1, RemovalEffect
  <1>5. CASE ShutdownComplete \/ Crash
    BY <1>1, <1>5, GoneEffect
  <1>6. CASE Boot
    BY <1>1, <1>6 DEF Boot, Without, Restored, Open
  <1>7. QED
    BY <1>1, <1>2, <1>3, <1>4, <1>5, <1>6 DEF Next, WorkerStep, Same

\* A deleted task stays deleted, in memory and in the database, whoever still
\* works on it and however often the process restarts.
THEOREM DeletedTasksStayDeleted == Spec => DeletedStaysDeleted
  <1>1. TypeOK /\ Structure /\ [Next]_vars
          => [\A t \in Tasks : Deleted(t) => mem'[t] = "none" /\ row'[t] = "none"]_vars
    BY DeletedStep DEF vars
  <1>2. QED
    BY <1>1, TypeCorrect, Structured, PTL DEF Spec, DeletedStaysDeleted

=============================================================================

--------------------------- MODULE MemoryExtraction ---------------------------
(***************************************************************************)
(* Memory of one user: the background job that reads the turns of a        *)
(* conversation after its cursor, asks a model what they say, stores       *)
(* session facts and long-term memories and then moves the cursor; the     *)
(* user's reviews of the memories; the expiry job.                         *)
(*                                                                         *)
(* A turn is an AgentRun of the conversation, in (created_at, id) order.   *)
(* One session fact key (per thread) and one memory key (shared by all the *)
(* threads of the user) stand for all: rows of different keys never meet.  *)
(* A handler that selects a row and updates it later in its transaction is *)
(* two steps, as the database runs at READ COMMITTED and no row is locked  *)
(* by the select.                                                          *)
(***************************************************************************)
EXTENDS Naturals, Sequences

CONSTANTS
  Threads,   \* conversations of the user
  Workers,   \* job slots of the ARQ worker
  Contents,  \* what a fact may say
  MaxTurns,  \* bound on the turns of a thread
  Batch,     \* MAX_RUNS_PER_EXTRACTION
  MaxReviews, \* bound on the review requests
  Faults,    \* kinds of fault (and the passing of a TTL) that may happen
  MaxFaults  \* bound on their number

ASSUME MemoryConstants ==
  /\ {MaxTurns, MaxReviews, MaxFaults} \subseteq Nat
  /\ Batch \in Nat \ {0}
  /\ Faults \subseteq {"crash", "model", "enqueue", "expire"}

VARIABLES
  turns,      \* turns[t]: the turns of thread t and what is saved of each
  queue,      \* queue[t]: extract_turn_memory jobs of t that wait
  cursor,     \* cursor[t]: last turn consumed, 0 if t has no cursor row
  job,        \* job[w]: the extraction that slot w runs
  facts,      \* facts[t]: rows of session_facts, oldest first
  memory,     \* rows of user_memory_facts
  review,     \* the review request between its select and its update
  reviews,    \* review requests so far
  read,       \* read[t]: what stored extractions have read, <<turn, saved>>
  overlapped, \* overlapped[t]: two extractions of t have run at the same time
  faults      \* faults that have happened

storeVars == <<facts, memory, read>>
reviewVars == <<review, reviews>>
vars == <<turns, queue, cursor, job, storeVars, reviewVars, overlapped, faults>>

-----------------------------------------------------------------------------
Saved == {"nothing", "question", "answer"}
FactStatus == {"active", "superseded", "expired"}
MemoryStatus == {"candidate", "confirmed", "rejected", "retracted",
                 "tombstoned", "superseded", "expired"}
LiveStatus == {"active", "candidate", "confirmed"}

FactRow == [content: Contents, status: FactStatus]
MemoryRow == [content: Contents, status: MemoryStatus]
Live(rows) == {i \in DOMAIN rows : rows[i].status \in LiveStatus}

\* What an extraction will write to a table: the row it found (0: none), the
\* status that row had and the one it gets, and the rows to insert.
Write(old, before, to, new) ==
  [old |-> old, before |-> before, to |-> to, new |-> new]
NoWrite == Write(0, "none", "superseded", <<>>)
Written(rows, w) ==
  (IF w.old \in DOMAIN rows THEN [rows EXCEPT ![w.old].status = w.to] ELSE rows)
    \o w.new

Writes(Row, Status) == [old: Nat, before: LiveStatus \cup {"none"}, to: Status,
                        new: {<<>>} \cup {<<r>> : r \in Row}]
NotKnown == [row |-> 0, status |-> "none"]
Jobs == [at: {"idle", "call", "store", "advance"}, thread: Threads,
         batch: SUBSET ((1..MaxTurns) \X Saved), last: 0..MaxTurns,
         known: {NotKnown} \cup [row: Nat, status: {"candidate", "confirmed"}],
         fact: Writes(FactRow, {"superseded"}),
         memory: Writes(MemoryRow, {"superseded", "confirmed"})]
Idle(t) == [at |-> "idle", thread |-> t, batch |-> {}, last |-> 0, known |-> NotKnown,
            fact |-> NoWrite, memory |-> NoWrite]

NoReview == [row |-> 0, to |-> "confirmed"]
Reviews == [row: Nat, to: {"confirmed", "rejected", "retracted", "tombstoned"}]

Init ==
  /\ turns = [t \in Threads |-> <<>>]
  /\ queue = [t \in Threads |-> 0]
  /\ cursor = [t \in Threads |-> 0]
  /\ \E t \in Threads : job = [w \in Workers |-> Idle(t)]
  /\ facts = [t \in Threads |-> <<>>]
  /\ memory = <<>>
  /\ review = NoReview /\ reviews = 0
  /\ read = [t \in Threads |-> {}]
  /\ overlapped = [t \in Threads |-> FALSE]
  /\ faults = 0

Fault(kind) == kind \in Faults /\ faults < MaxFaults /\ faults' = faults + 1

-----------------------------------------------------------------------------
(* The conversation.                                                       *)

\* A run and its question are inserted together; the question of a turn with
\* an image alone is empty.
Ask(t) ==
  /\ Len(turns[t]) < MaxTurns
  /\ \E s \in {"nothing", "question"} : turns' = [turns EXCEPT ![t] = Append(@, s)]
  /\ UNCHANGED <<queue, cursor, job, storeVars, reviewVars, overlapped, faults>>

\* The turn's answer is saved, then its extraction is enqueued; that the queue
\* cannot be reached is only logged.  An interrupted turn stays without.
Finish(t) ==
  /\ \E i \in DOMAIN turns[t] :
       /\ turns[t][i] # "answer"
       /\ turns' = [turns EXCEPT ![t][i] = "answer"]
  /\ \/ queue' = [queue EXCEPT ![t] = @ + 1] /\ UNCHANGED faults
     \/ Fault("enqueue") /\ UNCHANGED queue
  /\ UNCHANGED <<cursor, job, storeVars, reviewVars, overlapped>>

-----------------------------------------------------------------------------
(* The extraction job.                                                     *)

Busy(t) == {w \in Workers : job[w].at # "idle" /\ job[w].thread = t}
End(w) == job' = [job EXCEPT ![w] = Idle(@.thread)]

\* Bug: the latest turns instead of the earliest ones after the cursor.
PendingLatest(t) ==
  {i \in DOMAIN turns[t] : i > cursor[t] /\ i + Batch > Len(turns[t])}
Pending(t) == {i \in DOMAIN turns[t] : i > cursor[t] /\ i <= cursor[t] + Batch}

\* Nothing to do, extraction disabled or too soon, or none of the turns has any
\* text: the job ends and the cursor stays.
Skip(w, t) ==
  /\ job[w].at = "idle" /\ queue[t] > 0
  /\ queue' = [queue EXCEPT ![t] = @ - 1]
  /\ UNCHANGED <<turns, cursor, job, storeVars, reviewVars, overlapped, faults>>

\* The live row of the key, 0 if there is none, and its status.
LiveRow(rows) == IF Live(rows) = {} THEN 0 ELSE CHOOSE i \in Live(rows) : TRUE
StatusOf(rows) == IF Live(rows) = {} THEN "none" ELSE rows[LiveRow(rows)].status

\* The turns of the batch and the memories known before the model is called.
Load(w, t) ==
  /\ job[w].at = "idle" /\ queue[t] > 0
  /\ \E i \in Pending(t) : turns[t][i] # "nothing"
  /\ queue' = [queue EXCEPT ![t] = @ - 1]
  /\ job' = [job EXCEPT ![w] =
       [Idle(t) EXCEPT !.at = "call",
                       !.batch = {<<i, turns[t][i]>> : i \in Pending(t)},
                       !.last = CHOOSE i \in Pending(t) : \A j \in Pending(t) : j <= i,
                       !.known = [row |-> LiveRow(memory), status |-> StatusOf(memory)]]]
  /\ overlapped' = [overlapped EXCEPT ![t] = @ \/ Busy(t) # {}]
  /\ UNCHANGED <<turns, cursor, storeVars, reviewVars, faults>>

\* What a select returns in a session that holds the row loaded before: the
\* database says that the row is live, the object its status at that time.
AsLoaded(rows, known) ==
  IF known.row \in Live(rows) THEN [rows EXCEPT ![known.row].status = known.status]
  ELSE rows
Says(rows, c) == LiveRow(rows) # 0 /\ rows[LiveRow(rows)].content = c
Replace(rows, row) == Write(LiveRow(rows), StatusOf(rows), "superseded", <<row>>)

\* _apply_session_fact: the active row of the key is superseded, unless it says
\* the same.
\* Bug: a new row is inserted beside the old one; it stays "observed"; or it is
\* not inserted if any row of the key, live or not, says the same.
FactWriteKeepsOld(rows, c) ==
  IF Says(rows, c) THEN NoWrite
  ELSE Write(0, "none", "superseded", <<[content |-> c, status |-> "active"]>>)
FactWriteObserved(rows, c) ==
  IF Says(rows, c) THEN NoWrite
  ELSE Replace(rows, [content |-> c, status |-> "observed"])
FactWriteOnce(rows, c) ==
  IF Says(rows, c) THEN NoWrite
  ELSE IF \E i \in DOMAIN rows : rows[i].content = c
  THEN Write(LiveRow(rows), StatusOf(rows), "superseded", <<>>)
  ELSE Replace(rows, [content |-> c, status |-> "active"])
FactWrite(rows, c) ==
  IF Says(rows, c) THEN NoWrite
  ELSE Replace(rows, [content |-> c, status |-> "active"])

\* _apply_memory_fact: the same content is confirmed at most; a confirmed memory
\* gives way to a confirmed one only.  The key and the model's confidence make
\* the level.
\* Bug: no guard for a confirmed memory; or a memory is not inserted if any row of
\* the key, live or not, says the same.
MemoryWriteUnguarded(rows, c, level) ==
  IF Says(rows, c)
  THEN IF level = "confirmed" /\ StatusOf(rows) # "confirmed"
       THEN Write(LiveRow(rows), StatusOf(rows), "confirmed", <<>>)
       ELSE NoWrite
  ELSE Replace(rows, [content |-> c, status |-> level])
MemoryWriteOnce(rows, c, level) ==
  IF Says(rows, c) \/ (StatusOf(rows) = "confirmed" /\ level # "confirmed") THEN NoWrite
  ELSE IF \E i \in DOMAIN rows : rows[i].content = c
  THEN Write(LiveRow(rows), StatusOf(rows), "superseded", <<>>)
  ELSE Replace(rows, [content |-> c, status |-> level])
MemoryWrite(rows, c, level) ==
  IF Says(rows, c)
  THEN IF level = "confirmed" /\ StatusOf(rows) # "confirmed"
       THEN Write(LiveRow(rows), StatusOf(rows), "confirmed", <<>>)
       ELSE NoWrite
  ELSE IF StatusOf(rows) = "confirmed" /\ level # "confirmed" THEN NoWrite
  ELSE Replace(rows, [content |-> c, status |-> level])

Doing(w, at) == job[w].at = at
KeepRest == UNCHANGED <<turns, queue, reviewVars, overlapped>>

\* Bug: the cursor is reset for the turns to be read again.
CallFailsRewinds(w) ==
  /\ Doing(w, "call")
  /\ Fault("model")
  /\ End(w)
  /\ cursor' = [cursor EXCEPT ![job[w].thread] = 0]
  /\ KeepRest /\ UNCHANGED storeVars
\* The call fails: the cursor stays and the job ends.
CallFails(w) ==
  /\ Doing(w, "call")
  /\ Fault("model")
  /\ End(w)
  /\ KeepRest /\ UNCHANGED <<cursor, storeVars>>

\* The model finds nothing to keep.
FindNothing(w) ==
  /\ Doing(w, "call")
  /\ job' = [job EXCEPT ![w].at = "advance"]
  /\ read' = [read EXCEPT ![job[w].thread] = @ \cup job[w].batch]
  /\ KeepRest /\ UNCHANGED <<cursor, facts, memory, faults>>

\* The model finds a fact, a memory or both, and the rows they replace are
\* selected.  Two active facts of the key make that select raise.
FindFacts(w) ==
  LET t == job[w].thread IN
  /\ Doing(w, "call")
  /\ \/ /\ \E c, d \in Contents, level \in {"candidate", "confirmed"} :
           \E f \in {NoWrite, FactWrite(facts[t], c)},
              m \in {NoWrite, MemoryWrite(AsLoaded(memory, job[w].known), d, level)} :
             job' = [job EXCEPT ![w] = [@ EXCEPT !.at = "store", !.fact = f, !.memory = m]]
        /\ \A i, j \in Live(facts[t]) : i = j
     \/ /\ End(w)
        /\ \E i, j \in Live(facts[t]) : i # j
  /\ KeepRest /\ UNCHANGED <<cursor, storeVars, faults>>

\* The unique index uq_user_memory_active_key.
OneLiveRow(rows) == \A i, j \in Live(rows) : i = j

\* apply_extracted_ops writes and commits, or fails on the index as a whole.
Store(w) ==
  LET t == job[w].thread
      new == Written(memory, job[w].memory)
  IN
  /\ Doing(w, "store")
  /\ \/ /\ OneLiveRow(new)
        /\ facts' = [facts EXCEPT ![t] = Written(@, job[w].fact)]
        /\ memory' = new
        /\ read' = [read EXCEPT ![t] = @ \cup job[w].batch]
        /\ job' = [job EXCEPT ![w].at = "advance"]
     \/ /\ ~OneLiveRow(new)
        /\ End(w)
        /\ UNCHANGED storeVars
  /\ KeepRest /\ UNCHANGED <<cursor, faults>>

\* The cursor row is inserted or overwritten.  The insert fails on the unique
\* thread_id if another job inserted the row after this one had selected none.
Advance(w) ==
  LET t == job[w].thread IN
  /\ Doing(w, "advance")
  /\ \/ cursor' = [cursor EXCEPT ![t] = job[w].last]
     \/ cursor[t] # 0 /\ overlapped[t] /\ UNCHANGED cursor
  /\ End(w)
  /\ KeepRest /\ UNCHANGED <<storeVars, faults>>

\* The worker dies; the queue runs the job again unless its tries are used up.
Crash(w) ==
  /\ ~Doing(w, "idle")
  /\ Fault("crash")
  /\ End(w)
  /\ \E n \in {0, 1} : queue' = [queue EXCEPT ![job[w].thread] = @ + n]
  /\ UNCHANGED <<turns, cursor, storeVars, reviewVars, overlapped>>

-----------------------------------------------------------------------------
(* The user (or an administrator) and the expiry job.                      *)

\* confirm_memory, retract_memory and tombstone_memory select the row; what its
\* status does not allow is refused.
AskReview ==
  /\ review = NoReview
  /\ reviews < MaxReviews
  /\ reviews' = reviews + 1
  /\ \E i \in DOMAIN memory, to \in {"confirmed", "rejected", "retracted", "tombstoned"} :
       /\ \/ memory[i].status = "candidate" /\ to \in {"confirmed", "rejected"}
          \/ memory[i].status = "confirmed" /\ to \in {"retracted", "tombstoned"}
       /\ review' = [row |-> i, to |-> to]
  /\ UNCHANGED <<turns, queue, cursor, job, storeVars, overlapped, faults>>

CommitReview ==
  LET new == [memory EXCEPT ![review.row].status = review.to] IN
  /\ review # NoReview
  /\ memory' = IF OneLiveRow(new) THEN new ELSE memory
  /\ review' = NoReview
  /\ UNCHANGED <<turns, queue, cursor, job, facts, read, reviews, overlapped, faults>>

\* expire_memories: some of the live rows have outlived their time.
Expired(rows, gone) ==
  [i \in DOMAIN rows |->
     IF i \in gone THEN [rows[i] EXCEPT !.status = "expired"] ELSE rows[i]]
Expire ==
  /\ Fault("expire")
  /\ \/ /\ \E i \in Live(memory) : memory' = Expired(memory, {i})
        /\ UNCHANGED facts
     \/ /\ \E t \in Threads : \E i \in Live(facts[t]) :
             facts' = [facts EXCEPT ![t] = Expired(@, {i})]
        /\ UNCHANGED memory
  /\ UNCHANGED <<turns, queue, cursor, job, reviewVars, read, overlapped>>

-----------------------------------------------------------------------------
Next ==
  \/ \E t \in Threads : Ask(t) \/ Finish(t)
  \/ \E w \in Workers, t \in Threads : Skip(w, t) \/ Load(w, t)
  \/ \E w \in Workers : \/ CallFails(w) \/ FindNothing(w) \/ FindFacts(w)
                        \/ Store(w) \/ Advance(w) \/ Crash(w)
  \/ AskReview
  \/ CommitReview
  \/ Expire

Spec == Init /\ [][Next]_vars

-----------------------------------------------------------------------------
(* Properties.                                                             *)

\* Every variable keeps its type: extraction.py, cursor.py, service.py.
TypeOK ==
  /\ turns \in [Threads -> Seq(Saved)] /\ \A t \in Threads : Len(turns[t]) <= MaxTurns
  /\ queue \in [Threads -> Nat]
  /\ cursor \in [Threads -> 0..MaxTurns]
  /\ job \in [Workers -> Jobs]
  /\ facts \in [Threads -> Seq(FactRow)]
  /\ memory \in Seq(MemoryRow)
  /\ review \in Reviews /\ reviews \in 0..MaxReviews
  /\ read \in [Threads -> SUBSET ((1..MaxTurns) \X Saved)]
  /\ overlapped \in [Threads -> BOOLEAN]
  /\ faults \in 0..MaxFaults

\* The cursor never leaves a turn behind: every turn up to it was in the batch of
\* an extraction whose findings are stored, whatever is throttled, fails, crashes
\* or overlaps (cursor.py: "the skipped turns are lost for ever" without it).
NothingSkipped ==
  \A t \in Threads : \A i \in 1..cursor[t] : \E s \in Saved : <<i, s>> \in read[t]

\* A thread has at most one active fact for a key, crashes and repeated
\* extractions of the same turns included, unless two of its extractions have
\* run at the same time (service.py _apply_session_fact).
OneActiveFact ==
  \A t \in Threads : overlapped[t] \/ \A i, j \in Live(facts[t]) : i = j

\* What a conversation has established stays known until it expires: superseding
\* never leaves a key without its successor (service.py _apply_session_fact).
FactsSurvive ==
  \A t \in Threads : overlapped[t] \/ facts[t] = <<>> \/ Live(facts[t]) # {}
                     \/ \E i \in DOMAIN facts[t] : facts[t][i].status = "expired"

\* The cursor only moves forward, unless two extractions of the thread overlap
\* (chat_service.py says it never moves back).
CursorForward ==
  [][\A t \in Threads : overlapped[t] \/ cursor'[t] >= cursor[t]]_vars

\* A key loses its live memory only by expiry or by the user's word: who
\* supersedes it puts the successor in the same transaction, whatever reviews and
\* the extractions of other threads have done to the row since it was selected
\* (service.py _apply_memory_fact).
MemoryIsKept ==
  [][Live(memory) # {} /\ Live(memory') = {}
       => \E i \in Live(memory) :
            \/ memory'[i].status = "expired"
            \/ review.row = i /\ review.to = memory'[i].status]_vars

\* A confirmed memory is replaced by a confirmed one only, unless it was confirmed
\* after the extraction had loaded it, which is before the model is called and not
\* when the row to replace is selected (service.py _apply_memory_fact: "a guess of
\* the model does not overthrow what the user confirmed").
ConfirmedStands ==
  [][\A i \in Live(memory) :
       memory[i].status = "confirmed" /\ memory'[i].status = "superseded"
         => \/ memory'[Len(memory')].status = "confirmed"
            \/ \E w \in Workers : job[w].memory.old = i /\ job[w].memory.before # "confirmed"]_vars
=============================================================================

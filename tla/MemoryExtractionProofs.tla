------------------------ MODULE MemoryExtractionProofs -------------------------
(***************************************************************************)
(* Proofs about MemoryExtraction for any threads, job slots and contents,  *)
(* any batch size and any number of turns, reviews and faults.             *)
(***************************************************************************)
EXTENDS MemoryExtraction, SequenceTheorems, TLAPS

-----------------------------------------------------------------------------
(* Tables of rows, and what a write does to one.                           *)

LEMMA RowFacts ==
  ASSUME NEW S, NEW rows \in Seq(S)
  PROVE  /\ Len(rows) \in Nat /\ DOMAIN rows = 1..Len(rows)
         /\ \A i \in DOMAIN rows : i \in Nat \ {0} /\ rows[i] \in S
         /\ Live(rows) \subseteq DOMAIN rows
  BY LenProperties, ElementOfSeq DEF Live

LEMMA LiveRowFacts ==
  ASSUME NEW S, NEW rows \in Seq(S)
  PROVE  /\ LiveRow(rows) \in Nat /\ StatusOf(rows) \in LiveStatus \cup {"none"}
         /\ Live(rows) = {} => LiveRow(rows) = 0 /\ StatusOf(rows) = "none"
         /\ Live(rows) # {} => /\ LiveRow(rows) \in Live(rows)
                               /\ StatusOf(rows) = rows[LiveRow(rows)].status
  <1>1. CASE Live(rows) = {}
    BY <1>1 DEF LiveRow, StatusOf
  <1>2. CASE Live(rows) # {}
    <2>1. LiveRow(rows) \in Live(rows)
      BY <1>2 DEF LiveRow
    <2>2. QED
      BY <1>2, <2>1, RowFacts DEF StatusOf, Live
  <1>3. QED
    BY <1>1, <1>2

LEMMA NewRows ==
  ASSUME NEW S, NEW new \in {<<>>} \cup {<<r>> : r \in S}
  PROVE  new \in Seq(S) /\ Len(new) \in Nat
  <1>1. ASSUME NEW r \in S PROVE <<r>> \in Seq(S) /\ Len(<<r>>) = 1
    OBVIOUS
  <1>2. <<>> \in Seq(S) /\ Len(<<>>) = 0
    BY EmptySeq
  <1>3. ASSUME NEW r \in S, new = <<r>> PROVE new \in Seq(S) /\ Len(new) \in Nat
    BY <1>1, <1>3
  <1>4. QED
    BY <1>2, <1>3

LEMMA WrittenFacts ==
  ASSUME NEW S, NEW rows \in Seq(S), NEW w,
         w.new \in {<<>>} \cup {<<r>> : r \in S},
         NEW gone, w.old \in DOMAIN rows => gone \in S,
         gone = [rows[w.old] EXCEPT !.status = w.to]
  PROVE  /\ Written(rows, w) \in Seq(S)
         /\ Len(Written(rows, w)) = Len(rows) + Len(w.new)
         /\ DOMAIN Written(rows, w) = 1..(Len(rows) + Len(w.new))
         /\ \A i \in DOMAIN rows :
              Written(rows, w)[i] = IF i = w.old THEN gone ELSE rows[i]
         /\ w.new # <<>> => Written(rows, w)[Len(rows) + 1] = w.new[1]
  <1> DEFINE marked == IF w.old \in DOMAIN rows THEN [rows EXCEPT ![w.old].status = w.to]
                       ELSE rows
  <1>1. DOMAIN rows = 1..Len(rows) /\ Len(rows) \in Nat
    BY RowFacts
  <1>2. /\ marked \in Seq(S) /\ Len(marked) = Len(rows)
        /\ \A i \in DOMAIN rows : marked[i] = IF i = w.old THEN gone ELSE rows[i]
    <2>1. CASE w.old \in DOMAIN rows
      <3>1. marked = [rows EXCEPT ![w.old] = gone]
        BY <2>1
      <3>2. QED
        BY <1>1, <2>1, <3>1, ExceptSeq
    <2>2. CASE w.old \notin DOMAIN rows
      BY <2>2
    <2>3. QED
      BY <2>1, <2>2
  <1>3. w.new \in Seq(S) /\ Len(w.new) \in Nat
    BY NewRows
  <1>4. Written(rows, w) = marked \o w.new
    BY DEF Written
  <1> HIDE DEF marked
  <1>5. /\ Written(rows, w) \in Seq(S)
        /\ Len(Written(rows, w)) = Len(rows) + Len(w.new)
        /\ \A i \in 1..(Len(rows) + Len(w.new)) :
             Written(rows, w)[i] = IF i <= Len(rows) THEN marked[i] ELSE w.new[i - Len(rows)]
    <2>1. /\ marked \o w.new \in Seq(S)
          /\ Len(marked \o w.new) = Len(marked) + Len(w.new)
          /\ \A i \in 1..(Len(marked) + Len(w.new)) :
               (marked \o w.new)[i] = IF i <= Len(marked) THEN marked[i]
                                      ELSE w.new[i - Len(marked)]
      <3>1. marked \in Seq(S)
        BY <1>2
      <3>2. w.new \in Seq(S)
        BY <1>3
      <3>3. QED
        BY <3>1, <3>2, ConcatProperties
    <2>2. QED
      BY <1>2, <1>4, <2>1
  <1>6. \A i \in DOMAIN rows :
          Written(rows, w)[i] = IF i = w.old THEN gone ELSE rows[i]
    <2>1. ASSUME NEW i \in DOMAIN rows PROVE Written(rows, w)[i] = marked[i]
      <3>1. i <= Len(rows) /\ i \in 1..(Len(rows) + Len(w.new))
        BY <1>1, <1>3
      <3>2. QED
        BY <1>5, <3>1
    <2>2. QED
      BY <1>2, <2>1
  <1>7. ASSUME w.new # <<>> PROVE Written(rows, w)[Len(rows) + 1] = w.new[1]
    <2>1. PICK r \in S : w.new = <<r>>
      BY <1>7
    <2>2. Len(w.new) = 1
      BY <2>1
    <2>3. QED
      BY <1>1, <1>5, <2>2
  <1>8. QED
    BY <1>5, <1>6, <1>7, LenProperties

\* The writes that an extraction decides are writes.
LEMMA FactWriteFacts ==
  ASSUME NEW rows \in Seq(FactRow), NEW c \in Contents
  PROVE  /\ FactWrite(rows, c) \in Writes(FactRow, {"superseded"})
         /\ \/ FactWrite(rows, c) = NoWrite
            \/ FactWrite(rows, c) = Replace(rows, [content |-> c, status |-> "active"])
  BY LiveRowFacts DEF FactWrite, Replace, NoWrite, Write, Writes, FactRow, FactStatus

LEMMA MemoryWriteFacts ==
  ASSUME NEW rows \in Seq(MemoryRow), NEW c \in Contents,
         NEW level \in {"candidate", "confirmed"}
  PROVE  /\ MemoryWrite(rows, c, level) \in Writes(MemoryRow, {"superseded", "confirmed"})
         /\ \/ MemoryWrite(rows, c, level) = NoWrite
            \/ MemoryWrite(rows, c, level).to = "confirmed"
            \/ /\ MemoryWrite(rows, c, level) = Replace(rows, [content |-> c, status |-> level])
               /\ StatusOf(rows) = "confirmed" => level = "confirmed"
  BY LiveRowFacts
     DEF MemoryWrite, Replace, NoWrite, Write, Writes, MemoryRow, MemoryStatus

LEMMA NoWriteTyped ==
  /\ NoWrite \in Writes(FactRow, {"superseded"})
  /\ NoWrite \in Writes(MemoryRow, {"superseded", "confirmed"})
  BY DEF NoWrite, Write, Writes

\* One row changes.
LEMMA RowReplaced ==
  ASSUME NEW S, NEW rows \in Seq(S), NEW i \in DOMAIN rows, NEW r \in S
  PROVE  /\ [rows EXCEPT ![i] = r] \in Seq(S)
         /\ DOMAIN [rows EXCEPT ![i] = r] = DOMAIN rows
         /\ \A j \in DOMAIN rows : [rows EXCEPT ![i] = r][j] = IF j = i THEN r ELSE rows[j]
  BY ExceptSeq, LenProperties

\* What the session of a job holds of the memories.
KnownRows == {NotKnown} \cup [row: Nat, status: {"candidate", "confirmed"}]

LEMMA KnownFacts ==
  ASSUME NEW rows \in Seq(MemoryRow)
  PROVE  /\ [row |-> LiveRow(rows), status |-> StatusOf(rows)] \in KnownRows
         /\ \A known \in KnownRows : AsLoaded(rows, known) \in Seq(MemoryRow)
  <1>1. [row |-> LiveRow(rows), status |-> StatusOf(rows)] \in KnownRows
    <2>1. CASE Live(rows) = {}
      BY <2>1, LiveRowFacts DEF KnownRows, NotKnown
    <2>2. CASE Live(rows) # {}
      <3>1. /\ LiveRow(rows) \in Nat /\ rows[LiveRow(rows)] \in MemoryRow
            /\ StatusOf(rows) = rows[LiveRow(rows)].status
            /\ StatusOf(rows) \in LiveStatus
        BY <2>2, LiveRowFacts, RowFacts DEF Live
      <3>2. StatusOf(rows) \in {"candidate", "confirmed"}
        BY <3>1 DEF MemoryRow, MemoryStatus, LiveStatus
      <3>3. QED
        BY <3>1, <3>2 DEF KnownRows
    <2>3. QED
      BY <2>1, <2>2
  <1>2. ASSUME NEW known \in KnownRows, known.row \in Live(rows)
        PROVE  [rows EXCEPT ![known.row].status = known.status] \in Seq(MemoryRow)
    <2>1. known.row \in DOMAIN rows /\ rows[known.row] \in MemoryRow
      BY <1>2, RowFacts
    <2>2. known.status \in {"candidate", "confirmed"}
      BY <2>1, RowFacts DEF KnownRows, NotKnown
    <2>3. PICK r : r = [rows[known.row] EXCEPT !.status = known.status]
      OBVIOUS
    <2>4. r \in MemoryRow
      BY <2>1, <2>2, <2>3 DEF MemoryRow, MemoryStatus
    <2>5. [rows EXCEPT ![known.row] = r] \in Seq(MemoryRow)
      BY <2>1, <2>4, RowReplaced
    <2>6. QED
      BY <2>3, <2>5
  <1>3. QED
    BY <1>1, <1>2 DEF AsLoaded

LEMMA StoreTyped ==
  /\ \A rows \in Seq(FactRow), w \in Writes(FactRow, {"superseded"}) :
       Written(rows, w) \in Seq(FactRow)
  /\ \A rows \in Seq(MemoryRow), w \in Writes(MemoryRow, {"superseded", "confirmed"}) :
       Written(rows, w) \in Seq(MemoryRow)
  <1>1. ASSUME NEW rows \in Seq(FactRow), NEW w \in Writes(FactRow, {"superseded"})
        PROVE  Written(rows, w) \in Seq(FactRow)
    <2>1. w.new \in {<<>>} \cup {<<r>> : r \in FactRow} /\ w.to = "superseded"
      BY DEF Writes
    <2>2. PICK gone : gone = [rows[w.old] EXCEPT !.status = w.to]
      OBVIOUS
    <2>3. ASSUME w.old \in DOMAIN rows PROVE gone \in FactRow
      <3>1. rows[w.old] \in FactRow
        BY <2>3, RowFacts
      <3>2. QED
        BY <2>1, <2>2, <3>1 DEF FactRow, FactStatus
    <2>4. QED
      BY <2>1, <2>2, <2>3, WrittenFacts
  <1>2. ASSUME NEW rows \in Seq(MemoryRow),
               NEW w \in Writes(MemoryRow, {"superseded", "confirmed"})
        PROVE  Written(rows, w) \in Seq(MemoryRow)
    <2>1. /\ w.new \in {<<>>} \cup {<<r>> : r \in MemoryRow}
          /\ w.to \in {"superseded", "confirmed"}
      BY DEF Writes
    <2>2. PICK gone : gone = [rows[w.old] EXCEPT !.status = w.to]
      OBVIOUS
    <2>3. ASSUME w.old \in DOMAIN rows PROVE gone \in MemoryRow
      <3>1. rows[w.old] \in MemoryRow
        BY <2>3, RowFacts
      <3>2. QED
        BY <2>1, <2>2, <3>1 DEF MemoryRow, MemoryStatus
    <2>4. QED
      BY <2>1, <2>2, <2>3, WrittenFacts
  <1>3. QED
    BY <1>1, <1>2

LEMMA ExpiredFacts ==
  ASSUME NEW S, NEW rows \in Seq(S), NEW i \in DOMAIN rows, NEW gone \in S,
         gone = [rows[i] EXCEPT !.status = "expired"]
  PROVE  /\ Expired(rows, {i}) \in Seq(S)
         /\ DOMAIN Expired(rows, {i}) = DOMAIN rows
         /\ \A j \in DOMAIN rows : Expired(rows, {i})[j] = IF j = i THEN gone ELSE rows[j]
  <1>1. Expired(rows, {i}) = [rows EXCEPT ![i] = gone]
    BY LenProperties DEF Expired
  <1>2. /\ [rows EXCEPT ![i] = gone] \in Seq(S)
        /\ DOMAIN [rows EXCEPT ![i] = gone] = DOMAIN rows
        /\ \A j \in DOMAIN rows :
             [rows EXCEPT ![i] = gone][j] = IF j = i THEN gone ELSE rows[j]
    BY RowReplaced
  <1>3. QED
    BY <1>1, <1>2, Zenon

-----------------------------------------------------------------------------
(* Type correctness.                                                       *)

\* The largest pending turn is one, and every one up to it.
LEMMA PendingFacts ==
  ASSUME TypeOK, NEW t \in Threads, Pending(t) # {}
  PROVE  LET last == CHOOSE i \in Pending(t) : \A j \in Pending(t) : j <= i IN
         /\ last \in Pending(t) /\ \A j \in Pending(t) : j <= last
         /\ last \in 1..MaxTurns /\ last <= Len(turns[t])
         /\ Pending(t) \subseteq 1..MaxTurns /\ Pending(t) \subseteq DOMAIN turns[t]
  <1> DEFINE n == Len(turns[t])
             top == IF cursor[t] + Batch <= n THEN cursor[t] + Batch ELSE n
  <1>1. /\ n \in Nat /\ n <= MaxTurns /\ DOMAIN turns[t] = 1..n
        /\ cursor[t] \in Nat /\ Batch \in Nat \ {0} /\ MaxTurns \in Nat
    BY MemoryConstants, LenProperties DEF TypeOK
  <1>2. Pending(t) = {i \in 1..n : i > cursor[t] /\ i <= cursor[t] + Batch}
    BY <1>1 DEF Pending
  <1>3. top \in Pending(t) /\ \A j \in Pending(t) : j <= top
    BY <1>1, <1>2
  <1>4. \E i \in Pending(t) : \A j \in Pending(t) : j <= i
    BY <1>3
  <1>5. QED
    BY <1>1, <1>2, <1>4

LEMMA IdleTyped ==
  ASSUME NEW t \in Threads
  PROVE  Idle(t) \in Jobs
  BY MemoryConstants, NoWriteTyped DEF Idle, Jobs

LEMMA JobFacts ==
  ASSUME TypeOK, NEW w \in Workers
  PROVE  /\ job[w] \in Jobs /\ job[w].thread \in Threads
         /\ job[w].at \in {"idle", "call", "store", "advance"}
         /\ job[w].batch \subseteq (1..MaxTurns) \X Saved
         /\ job[w].last \in 0..MaxTurns /\ job[w].known \in KnownRows
         /\ job[w].fact \in Writes(FactRow, {"superseded"})
         /\ job[w].memory \in Writes(MemoryRow, {"superseded", "confirmed"})
  <1>1. job[w] \in Jobs
    BY DEF TypeOK
  <1>2. QED
    BY <1>1 DEF Jobs, KnownRows

LEMMA JobMoves ==
  ASSUME TypeOK, NEW w \in Workers, NEW place \in {"idle", "call", "store", "advance"}
  PROVE  [job EXCEPT ![w].at = place] \in [Workers -> Jobs]
  <1>1. [job[w] EXCEPT !.at = place] \in Jobs
    BY JobFacts DEF Jobs, KnownRows
  <1>2. job \in [Workers -> Jobs]
    BY DEF TypeOK
  <1>3. QED
    BY <1>1, <1>2

LEMMA JobFinds ==
  ASSUME TypeOK, NEW w \in Workers,
         NEW f \in Writes(FactRow, {"superseded"}),
         NEW m \in Writes(MemoryRow, {"superseded", "confirmed"})
  PROVE  [job EXCEPT ![w] = [@ EXCEPT !.at = "store", !.fact = f, !.memory = m]]
           \in [Workers -> Jobs]
  <1>1. [job[w] EXCEPT !.at = "store", !.fact = f, !.memory = m] \in Jobs
    BY JobFacts DEF Jobs, KnownRows
  <1>2. job \in [Workers -> Jobs]
    BY DEF TypeOK
  <1>3. QED
    BY <1>1, <1>2

LEMMA EndTyped ==
  ASSUME TypeOK, NEW w \in Workers, End(w)
  PROVE  job' \in [Workers -> Jobs]
  <1>1. job[w].thread \in Threads
    BY DEF TypeOK, Jobs
  <1>2. QED
    BY <1>1, IdleTyped DEF TypeOK, End

LEMMA FaultTyped ==
  ASSUME TypeOK, NEW kind, Fault(kind)
  PROVE  faults' \in 0..MaxFaults
  BY MemoryConstants DEF Fault, TypeOK

LEMMA TypeStep ==
  ASSUME TypeOK, Next
  PROVE  TypeOK'
  <1> USE DEF storeVars, reviewVars
  <1>1. ASSUME NEW t \in Threads, Ask(t) PROVE TypeOK'
    <2>1. PICK s \in Saved : turns' = [turns EXCEPT ![t] = Append(turns[t], s)]
      BY <1>1 DEF Ask, Saved
    <2>2. /\ Append(turns[t], s) \in Seq(Saved) /\ Len(Append(turns[t], s)) <= MaxTurns
      BY <1>1, MemoryConstants DEF Ask, TypeOK
    <2>3. QED
      BY <1>1, <2>1, <2>2 DEF Ask, TypeOK
  <1>2. ASSUME NEW t \in Threads, Finish(t) PROVE TypeOK'
    <2>1. PICK i \in DOMAIN turns[t] : turns' = [turns EXCEPT ![t][i] = "answer"]
      BY <1>2 DEF Finish
    <2>2. /\ [turns[t] EXCEPT ![i] = "answer"] \in Seq(Saved)
          /\ Len([turns[t] EXCEPT ![i] = "answer"]) = Len(turns[t])
      BY <2>1, ExceptSeq, LenProperties DEF TypeOK, Saved
    <2>3. turns' = [turns EXCEPT ![t] = [turns[t] EXCEPT ![i] = "answer"]]
      BY <2>1 DEF TypeOK
    <2>4. queue' \in [Threads -> Nat] /\ faults' \in 0..MaxFaults
      <3>1. queue \in [Threads -> Nat] /\ faults \in 0..MaxFaults
        BY DEF TypeOK
      <3>2. \/ queue' = [queue EXCEPT ![t] = @ + 1] /\ faults' = faults
            \/ Fault("enqueue") /\ queue' = queue
        BY <1>2 DEF Finish
      <3>3. QED
        BY <3>1, <3>2, FaultTyped
    <2>5. QED
      BY <1>2, <2>2, <2>3, <2>4 DEF Finish, TypeOK
  <1>3. ASSUME NEW w \in Workers, NEW t \in Threads, Skip(w, t) PROVE TypeOK'
    BY <1>3 DEF Skip, TypeOK
  <1>4. ASSUME NEW w \in Workers, NEW t \in Threads, Load(w, t) PROVE TypeOK'
    <2> DEFINE last == CHOOSE i \in Pending(t) : \A j \in Pending(t) : j <= i
               batch == {<<i, turns[t][i]>> : i \in Pending(t)}
               known == [row |-> LiveRow(memory), status |-> StatusOf(memory)]
               loaded == [Idle(t) EXCEPT !.at = "call", !.batch = batch, !.last = last,
                                         !.known = known]
    <2>1. last \in 0..MaxTurns
      BY <1>4, PendingFacts DEF Load
    <2>2. batch \subseteq (1..MaxTurns) \X Saved
      <3>1. ASSUME NEW i \in Pending(t) PROVE i \in 1..MaxTurns /\ turns[t][i] \in Saved
        BY <1>4, PendingFacts, ElementOfSeq, LenProperties DEF Load, TypeOK
      <3>2. QED
        BY <3>1
    <2>3. known \in KnownRows
      BY KnownFacts DEF TypeOK
    <2>4. loaded \in Jobs
      BY <2>1, <2>2, <2>3, NoWriteTyped DEF Idle, Jobs, KnownRows
    <2>5. job' = [job EXCEPT ![w] = loaded]
      BY <1>4 DEF Load
    <2> HIDE DEF last, batch, known, loaded
    <2>6. queue' \in [Threads -> Nat]
      BY <1>4 DEF Load, TypeOK
    <2>7. overlapped' \in [Threads -> BOOLEAN]
      BY <1>4 DEF Load, TypeOK
    <2>8. job' \in [Workers -> Jobs]
      BY <2>4, <2>5 DEF TypeOK
    <2>9. QED
      BY <1>4, <2>6, <2>7, <2>8 DEF Load, TypeOK
  <1>5. ASSUME NEW w \in Workers, CallFails(w) PROVE TypeOK'
    <2>1. job' \in [Workers -> Jobs] /\ faults' \in 0..MaxFaults
      BY <1>5, EndTyped, FaultTyped DEF CallFails
    <2>2. QED
      BY <1>5, <2>1 DEF CallFails, KeepRest, TypeOK
  <1>6. ASSUME NEW w \in Workers, FindNothing(w) PROVE TypeOK'
    <2>1. job' \in [Workers -> Jobs]
      BY <1>6, JobMoves DEF FindNothing
    <2>2. read' \in [Threads -> SUBSET ((1..MaxTurns) \X Saved)]
      <3>1. read[job[w].thread] \cup job[w].batch \subseteq (1..MaxTurns) \X Saved
        BY JobFacts DEF TypeOK
      <3>2. QED
        BY <1>6, <3>1 DEF FindNothing, TypeOK
    <2>3. QED
      BY <1>6, <2>1, <2>2 DEF FindNothing, KeepRest, TypeOK
  <1>7. ASSUME NEW w \in Workers, FindFacts(w) PROVE TypeOK'
    <2>1. job' \in [Workers -> Jobs]
      <3>1. CASE End(w)
        BY <3>1, EndTyped
      <3>2. ASSUME NEW f \in Writes(FactRow, {"superseded"}),
                   NEW m \in Writes(MemoryRow, {"superseded", "confirmed"}),
                   job' = [job EXCEPT ![w] = [@ EXCEPT !.at = "store", !.fact = f, !.memory = m]]
            PROVE  job' \in [Workers -> Jobs]
        BY <3>2, JobFinds
      <3>3. /\ facts[job[w].thread] \in Seq(FactRow)
            /\ AsLoaded(memory, job[w].known) \in Seq(MemoryRow)
        BY JobFacts, KnownFacts DEF TypeOK
      <3>4. CASE ~End(w)
        <4>1. PICK c \in Contents, d \in Contents, level \in {"candidate", "confirmed"} :
                \E f \in {NoWrite, FactWrite(facts[job[w].thread], c)},
                   m \in {NoWrite, MemoryWrite(AsLoaded(memory, job[w].known), d, level)} :
                  job' = [job EXCEPT ![w] = [@ EXCEPT !.at = "store", !.fact = f, !.memory = m]]
          BY <1>7, <3>4, Zenon DEF FindFacts
        <4>2. /\ {NoWrite, FactWrite(facts[job[w].thread], c)}
                   \subseteq Writes(FactRow, {"superseded"})
              /\ {NoWrite, MemoryWrite(AsLoaded(memory, job[w].known), d, level)}
                   \subseteq Writes(MemoryRow, {"superseded", "confirmed"})
          BY <3>3, NoWriteTyped, FactWriteFacts, MemoryWriteFacts
        <4>3. QED
          BY <3>2, <4>1, <4>2, Zenon
      <3>5. QED
        BY <3>1, <3>4
    <2>2. QED
      BY <1>7, <2>1 DEF FindFacts, KeepRest, TypeOK
  <1>8. ASSUME NEW w \in Workers, Store(w) PROVE TypeOK'
    <2>1. job' \in [Workers -> Jobs]
      <3>1. CASE End(w)
        BY <3>1, EndTyped
      <3>2. CASE job' = [job EXCEPT ![w].at = "advance"]
        BY <3>2, JobMoves
      <3>3. QED
        BY <1>8, <3>1, <3>2 DEF Store
    <2>2. /\ facts' \in [Threads -> Seq(FactRow)] /\ memory' \in Seq(MemoryRow)
          /\ read' \in [Threads -> SUBSET ((1..MaxTurns) \X Saved)]
      <3>1. CASE UNCHANGED <<facts, memory, read>>
        BY <3>1 DEF TypeOK
      <3>2. CASE /\ facts' = [facts EXCEPT ![job[w].thread] = Written(@, job[w].fact)]
                 /\ memory' = Written(memory, job[w].memory)
                 /\ read' = [read EXCEPT ![job[w].thread] = @ \cup job[w].batch]
        <4>1. /\ Written(facts[job[w].thread], job[w].fact) \in Seq(FactRow)
              /\ Written(memory, job[w].memory) \in Seq(MemoryRow)
          BY JobFacts, StoreTyped DEF TypeOK
        <4>2. read[job[w].thread] \cup job[w].batch \subseteq (1..MaxTurns) \X Saved
          BY JobFacts DEF TypeOK
        <4>3. QED
          BY <3>2, <4>1, <4>2 DEF TypeOK
      <3>3. QED
        BY <1>8, <3>1, <3>2 DEF Store
    <2>3. QED
      BY <1>8, <2>1, <2>2 DEF Store, KeepRest, TypeOK
  <1>9. ASSUME NEW w \in Workers, Advance(w) PROVE TypeOK'
    <2>1. cursor' \in [Threads -> 0..MaxTurns]
      <3>1. job[w].thread \in Threads /\ job[w].last \in 0..MaxTurns
        BY JobFacts
      <3>2. cursor' \in {cursor, [cursor EXCEPT ![job[w].thread] = job[w].last]}
        BY <1>9 DEF Advance
      <3>3. QED
        BY <3>1, <3>2 DEF TypeOK
    <2>2. job' \in [Workers -> Jobs]
      BY <1>9, EndTyped DEF Advance
    <2>3. QED
      BY <1>9, <2>1, <2>2 DEF Advance, KeepRest, TypeOK
  <1>10. ASSUME NEW w \in Workers, Crash(w) PROVE TypeOK'
    <2>1. PICK n \in {0, 1} : queue' = [queue EXCEPT ![job[w].thread] = @ + n]
      BY <1>10 DEF Crash
    <2>2. queue' \in [Threads -> Nat]
      <3>1. queue \in [Threads -> Nat] /\ job[w].thread \in Threads /\ n \in Nat
        BY JobFacts DEF TypeOK
      <3>2. queue[job[w].thread] + n \in Nat
        BY <3>1
      <3>3. QED
        BY <2>1, <3>1, <3>2
    <2>3. job' \in [Workers -> Jobs] /\ faults' \in 0..MaxFaults
      BY <1>10, EndTyped, FaultTyped DEF Crash
    <2>4. QED
      BY <1>10, <2>2, <2>3 DEF Crash, TypeOK
  <1>11. CASE AskReview
    BY <1>11, RowFacts, MemoryConstants DEF AskReview, Reviews, TypeOK
  <1>12. CASE CommitReview
    <2>1. memory' \in Seq(MemoryRow)
      <3>1. CASE review.row \in DOMAIN memory
        <4>1. [memory[review.row] EXCEPT !.status = review.to] \in MemoryRow
          <5>1. memory[review.row] \in MemoryRow
            BY <3>1, RowFacts DEF TypeOK
          <5>2. review.to \in {"confirmed", "rejected", "retracted", "tombstoned"}
            BY DEF TypeOK, Reviews
          <5>3. QED
            BY <5>1, <5>2 DEF MemoryRow, MemoryStatus
        <4>2. [memory EXCEPT ![review.row].status = review.to]
                = [memory EXCEPT ![review.row] = [memory[review.row] EXCEPT !.status = review.to]]
          BY <3>1
        <4>3. QED
          BY <1>12, <3>1, <4>1, <4>2, ExceptSeq, LenProperties DEF CommitReview, TypeOK
      <3>2. CASE review.row \notin DOMAIN memory
        <4>1. [memory EXCEPT ![review.row].status = review.to] = memory
          BY <3>2, LenProperties DEF TypeOK
        <4>2. QED
          BY <1>12, <4>1 DEF CommitReview, TypeOK
      <3>3. QED
        BY <3>1, <3>2
    <2>2. QED
      BY <1>12, <2>1 DEF CommitReview, NoReview, Reviews, TypeOK
  <1>13. CASE Expire
    <2>1. memory' \in Seq(MemoryRow)
      <3>1. ASSUME NEW i \in Live(memory) PROVE Expired(memory, {i}) \in Seq(MemoryRow)
        <4>1. i \in DOMAIN memory /\ memory[i] \in MemoryRow /\ memory \in Seq(MemoryRow)
          BY RowFacts DEF TypeOK
        <4>2. [memory[i] EXCEPT !.status = "expired"] \in MemoryRow
          BY <4>1 DEF MemoryRow, MemoryStatus
        <4>3. QED
          BY <4>1, <4>2, ExpiredFacts
      <3>2. QED
        BY <1>13, <3>1 DEF Expire, TypeOK
    <2>2. facts' \in [Threads -> Seq(FactRow)]
      <3>1. ASSUME NEW t \in Threads, NEW i \in Live(facts[t])
            PROVE  Expired(facts[t], {i}) \in Seq(FactRow)
        <4>1. /\ i \in DOMAIN facts[t] /\ facts[t][i] \in FactRow
              /\ facts[t] \in Seq(FactRow)
          BY RowFacts DEF TypeOK
        <4>2. [facts[t][i] EXCEPT !.status = "expired"] \in FactRow
          BY <4>1 DEF FactRow, FactStatus
        <4>3. QED
          BY <4>1, <4>2, ExpiredFacts
      <3>2. CASE UNCHANGED facts
        BY <3>2 DEF TypeOK
      <3>3. ASSUME NEW t \in Threads, NEW i \in Live(facts[t]),
                   facts' = [facts EXCEPT ![t] = Expired(facts[t], {i})]
            PROVE  facts' \in [Threads -> Seq(FactRow)]
        <4>1. Expired(facts[t], {i}) \in Seq(FactRow) /\ facts \in [Threads -> Seq(FactRow)]
          BY <3>1 DEF TypeOK
        <4>2. QED
          BY <3>3, <4>1
      <3>4. QED
        BY <1>13, <3>2, <3>3 DEF Expire
    <2>3. faults' \in 0..MaxFaults
      BY <1>13, FaultTyped DEF Expire
    <2>4. QED
      BY <1>13, <2>1, <2>2, <2>3 DEF Expire, TypeOK
  <1>14. QED
    BY <1>1, <1>2, <1>3, <1>4, <1>5, <1>6, <1>7, <1>8, <1>9, <1>10, <1>11, <1>12, <1>13
       DEF Next

\* Every variable keeps its type, for any threads, job slots, contents, turns,
\* batches and faults.
THEOREM TypeCorrect == Spec => []TypeOK
  <1>1. Init => TypeOK
    BY IdleTyped, MemoryConstants DEF Init, TypeOK, NoReview, Reviews
  <1>2. TypeOK /\ [Next]_vars => TypeOK'
    BY TypeStep DEF TypeOK, vars, storeVars, reviewVars
  <1>3. QED
    BY <1>1, <1>2, PTL DEF Spec

-----------------------------------------------------------------------------
(* What each step does to the jobs.                                        *)

\* The requests, the reviews and the expiry leave the jobs and what they have
\* read alone.
Quiet ==
  \/ \E t \in Threads : Ask(t) \/ Finish(t)
  \/ \E w \in Workers, t \in Threads : Skip(w, t)
  \/ AskReview \/ CommitReview \/ Expire

LEMMA QuietEffect ==
  ASSUME Quiet
  PROVE  UNCHANGED <<job, cursor, read, overlapped>>
  BY DEF Quiet, Ask, Finish, Skip, AskReview, CommitReview, Expire, storeVars, reviewVars

\* The job of the slot ends, and nothing is stored.
Ends(w) == End(w) /\ UNCHANGED <<cursor, facts, memory, read, overlapped>>

LEMMA EndEffect ==
  ASSUME TypeOK, NEW w \in Workers, End(w)
  PROVE  /\ job'[w].at = "idle"
         /\ \A v \in Workers \ {w} : job'[v] = job[v]
  BY DEF TypeOK, End, Idle

LEMMA LoadEffect ==
  ASSUME TypeOK, NEW w \in Workers, NEW t \in Threads, Load(w, t)
  PROVE  /\ job[w].at = "idle" /\ job'[w].at = "call" /\ job'[w].thread = t
         /\ job'[w].batch = {<<i, turns[t][i]>> : i \in Pending(t)}
         /\ job'[w].last = CHOOSE i \in Pending(t) : \A j \in Pending(t) : j <= i
         /\ Pending(t) # {}
         /\ \A v \in Workers \ {w} : job'[v] = job[v]
         /\ UNCHANGED <<cursor, facts, memory, read>>
         /\ overlapped' = [overlapped EXCEPT ![t] = @ \/ Busy(t) # {}]
  BY DEF TypeOK, Load, Idle, storeVars

LEMMA FindEffect ==
  ASSUME TypeOK, NEW w \in Workers, FindFacts(w), ~Ends(w)
  PROVE  /\ job[w].at = "call" /\ job'[w].at = "store"
         /\ job'[w].thread = job[w].thread /\ job'[w].batch = job[w].batch
         /\ job'[w].last = job[w].last
         /\ \E c \in Contents :
              job'[w].fact \in {NoWrite, FactWrite(facts[job[w].thread], c)}
         /\ \E c \in Contents, level \in {"candidate", "confirmed"} :
              job'[w].memory \in {NoWrite, MemoryWrite(AsLoaded(memory, job[w].known), c, level)}
         /\ \A i, j \in Live(facts[job[w].thread]) : i = j
         /\ \A v \in Workers \ {w} : job'[v] = job[v]
         /\ UNCHANGED <<cursor, facts, memory, read, overlapped>>
  <1>1. /\ job[w].at = "call" /\ UNCHANGED <<cursor, facts, memory, read, overlapped>>
        /\ ~End(w)
    BY DEF FindFacts, KeepRest, storeVars, Doing, Ends
  <1>2. /\ \E c, d \in Contents, level \in {"candidate", "confirmed"} :
             \E f \in {NoWrite, FactWrite(facts[job[w].thread], c)},
                m \in {NoWrite, MemoryWrite(AsLoaded(memory, job[w].known), d, level)} :
               job' = [job EXCEPT ![w] = [@ EXCEPT !.at = "store", !.fact = f, !.memory = m]]
        /\ \A i, j \in Live(facts[job[w].thread]) : i = j
    BY <1>1, Zenon DEF FindFacts
  <1>3. PICK c \in Contents, d \in Contents, level \in {"candidate", "confirmed"} :
          \E f \in {NoWrite, FactWrite(facts[job[w].thread], c)},
             m \in {NoWrite, MemoryWrite(AsLoaded(memory, job[w].known), d, level)} :
            job' = [job EXCEPT ![w] = [@ EXCEPT !.at = "store", !.fact = f, !.memory = m]]
    BY <1>2, Zenon
  <1>4. PICK f \in {NoWrite, FactWrite(facts[job[w].thread], c)},
             m \in {NoWrite, MemoryWrite(AsLoaded(memory, job[w].known), d, level)} :
          job' = [job EXCEPT ![w] = [@ EXCEPT !.at = "store", !.fact = f, !.memory = m]]
    BY <1>3, Zenon
  <1>5. /\ job'[w].at = "store" /\ job'[w].fact = f /\ job'[w].memory = m
        /\ job'[w].thread = job[w].thread /\ job'[w].batch = job[w].batch
        /\ job'[w].last = job[w].last
        /\ \A v \in Workers \ {w} : job'[v] = job[v]
    BY <1>4, JobFacts DEF TypeOK, Jobs
  <1>6. QED
    BY <1>1, <1>2, <1>5

\* The findings are stored, or there are none: the batch has been read.
LEMMA ReadEffect ==
  ASSUME TypeOK, NEW w \in Workers, FindNothing(w) \/ (Store(w) /\ ~Ends(w))
  PROVE  /\ job'[w].at = "advance" /\ job[w].at \in {"call", "store"}
         /\ job'[w].thread = job[w].thread /\ job'[w].last = job[w].last
         /\ job'[w].batch = job[w].batch
         /\ read' = [read EXCEPT ![job[w].thread] = @ \cup job[w].batch]
         /\ \A v \in Workers \ {w} : job'[v] = job[v]
         /\ UNCHANGED <<cursor, overlapped>>
  <1>1. /\ job' = [job EXCEPT ![w].at = "advance"] /\ job[w].at \in {"call", "store"}
        /\ read' = [read EXCEPT ![job[w].thread] = @ \cup job[w].batch]
        /\ UNCHANGED <<cursor, overlapped>>
    BY DEF FindNothing, Store, Ends, KeepRest, Doing, storeVars
  <1>2. QED
    BY <1>1, JobFacts DEF TypeOK, Jobs

LEMMA AdvanceEffect ==
  ASSUME TypeOK, NEW w \in Workers, Advance(w)
  PROVE  /\ job[w].at = "advance" /\ End(w)
         /\ cursor' \in {cursor, [cursor EXCEPT ![job[w].thread] = job[w].last]}
         /\ UNCHANGED <<facts, memory, read, overlapped>>
  BY DEF Advance, Doing, KeepRest, storeVars

\* Every step is one of these.
LEMMA Steps ==
  ASSUME TypeOK, Next
  PROVE  \/ Quiet
         \/ \E w \in Workers, t \in Threads : Load(w, t)
         \/ \E w \in Workers : \/ Ends(w)
                               \/ FindFacts(w) /\ ~Ends(w)
                               \/ FindNothing(w)
                               \/ Store(w) /\ ~Ends(w)
                               \/ Advance(w)
  <1>1. ASSUME NEW w \in Workers, CallFails(w) \/ Crash(w) PROVE Ends(w)
    BY <1>1 DEF CallFails, Crash, Ends, KeepRest, storeVars
  <1>2. QED
    BY <1>1 DEF Next, Quiet

-----------------------------------------------------------------------------
(* No turn is skipped.                                                     *)

Reads(t, i) == \E s \in Saved : <<i, s>> \in read[t]

\* What a job will move the cursor past is read, or will be when it stores.
Covers(w) ==
  /\ job[w].at \in {"call", "store"} =>
       \A i \in 1..job[w].last : \/ Reads(job[w].thread, i)
                                 \/ \E s \in Saved : <<i, s>> \in job[w].batch
  /\ job[w].at = "advance" => \A i \in 1..job[w].last : Reads(job[w].thread, i)

Covered == NothingSkipped /\ \A w \in Workers : Covers(w)

\* What has been read stays read.
LEMMA CoverStands ==
  ASSUME TypeOK, NEW w \in Workers, Covers(w), job'[w] = job[w],
         \A t \in Threads : read[t] \subseteq read'[t]
  PROVE  Covers(w)'
  BY JobFacts DEF Covers, Reads

LEMMA LoadCovers ==
  ASSUME TypeOK, Covered, NEW w \in Workers, NEW t \in Threads, Load(w, t)
  PROVE  Covers(w)'
  <1> DEFINE last == CHOOSE i \in Pending(t) : \A j \in Pending(t) : j <= i
  <1>1. /\ last \in Pending(t) /\ last \in 1..MaxTurns /\ last <= Len(turns[t])
    BY LoadEffect, PendingFacts
  <1>2. /\ cursor[t] \in Nat /\ Batch \in Nat /\ Len(turns[t]) \in Nat /\ MaxTurns \in Nat
        /\ DOMAIN turns[t] = 1..Len(turns[t])
    BY MemoryConstants, LenProperties DEF TypeOK
  <1> HIDE DEF last
  <1>3. last <= cursor[t] + Batch
    BY <1>1 DEF Pending
  <1>4. ASSUME NEW i \in 1..last
        PROVE  Reads(t, i) \/ \E s \in Saved : <<i, s>> \in {<<j, turns[t][j]>> : j \in Pending(t)}
    <2>1. CASE i <= cursor[t]
      <3>1. i \in 1..cursor[t]
        BY <1>1, <1>2, <2>1
      <3>2. QED
        BY <3>1 DEF Covered, NothingSkipped, Reads
    <2>2. CASE i > cursor[t]
      <3>1. i \in Pending(t)
        BY <1>1, <1>2, <1>3, <2>2 DEF Pending
      <3>2. turns[t][i] \in Saved
        BY <1>2, <3>1, ElementOfSeq DEF Pending, TypeOK
      <3>3. QED
        BY <3>1, <3>2
    <2>3. QED
      BY <1>1, <1>2, <2>1, <2>2
  <1>5. job'[w].at = "call" /\ job'[w].thread = t /\ job'[w].last = last /\ UNCHANGED read
    BY LoadEffect DEF last
  <1>6. job'[w].batch = {<<j, turns[t][j]>> : j \in Pending(t)}
    BY LoadEffect
  <1>7. QED
    BY <1>4, <1>5, <1>6 DEF Covers, Reads

LEMMA CoveredStep ==
  ASSUME TypeOK, Covered, Next
  PROVE  Covered'
  <1>1. CASE Quiet
    BY <1>1, QuietEffect DEF Covered, NothingSkipped, Covers, Reads
  <1>2. ASSUME NEW w \in Workers, NEW t \in Threads, Load(w, t) PROVE Covered'
    <2>1. NothingSkipped'
      BY <1>2, LoadEffect DEF Covered, NothingSkipped
    <2>2. ASSUME NEW v \in Workers \ {w} PROVE Covers(v)'
      BY <1>2, LoadEffect, CoverStands DEF Covered
    <2>3. QED
      BY <1>2, <2>1, <2>2, LoadCovers DEF Covered
  <1>3. ASSUME NEW w \in Workers, Ends(w) PROVE Covered'
    <2>1. NothingSkipped'
      BY <1>3 DEF Ends, Covered, NothingSkipped
    <2>2. ASSUME NEW v \in Workers \ {w} PROVE Covers(v)'
      BY <1>3, EndEffect, CoverStands DEF Ends, Covered
    <2>3. Covers(w)'
      BY <1>3, EndEffect DEF Ends, Covers
    <2>4. QED
      BY <2>1, <2>2, <2>3 DEF Covered
  <1>4. ASSUME NEW w \in Workers, FindFacts(w), ~Ends(w) PROVE Covered'
    <2>1. NothingSkipped'
      BY <1>4, FindEffect DEF Covered, NothingSkipped
    <2>2. ASSUME NEW v \in Workers \ {w} PROVE Covers(v)'
      BY <1>4, FindEffect, CoverStands DEF Covered
    <2>3. Covers(w)'
      <3>1. /\ job[w].at = "call" /\ job'[w].at = "store" /\ job'[w].last = job[w].last
            /\ job'[w].thread = job[w].thread /\ job'[w].batch = job[w].batch
            /\ UNCHANGED read
        BY <1>4, FindEffect
      <3>2. QED
        BY <3>1 DEF Covered, Covers, Reads
    <2>4. QED
      BY <2>1, <2>2, <2>3 DEF Covered
  <1>5. ASSUME NEW w \in Workers, FindNothing(w) \/ (Store(w) /\ ~Ends(w)) PROVE Covered'
    <2>1. \A t \in Threads : read[t] \subseteq read'[t]
      <3>1. read' = [read EXCEPT ![job[w].thread] = @ \cup job[w].batch]
        BY <1>5, ReadEffect
      <3>2. QED
        BY <3>1 DEF TypeOK
    <2>2. NothingSkipped'
      BY <1>5, <2>1, ReadEffect DEF Covered, NothingSkipped
    <2>3. ASSUME NEW v \in Workers \ {w} PROVE Covers(v)'
      BY <1>5, <2>1, ReadEffect, CoverStands DEF Covered
    <2>4. Covers(w)'
      <3>1. /\ job'[w].at = "advance" /\ job[w].at \in {"call", "store"}
            /\ job'[w].thread = job[w].thread /\ job'[w].last = job[w].last
            /\ read' = [read EXCEPT ![job[w].thread] = @ \cup job[w].batch]
        BY <1>5, ReadEffect
      <3>2. read'[job[w].thread] = read[job[w].thread] \cup job[w].batch
        BY <3>1, JobFacts DEF TypeOK
      <3>3. \A i \in 1..job[w].last : Reads(job[w].thread, i)
                                      \/ \E s \in Saved : <<i, s>> \in job[w].batch
        BY <3>1 DEF Covered, Covers
      <3>4. QED
        BY <3>1, <3>2, <3>3 DEF Covers, Reads
    <2>5. QED
      BY <2>2, <2>3, <2>4 DEF Covered
  <1>6. ASSUME NEW w \in Workers, Advance(w) PROVE Covered'
    <2>1. ASSUME NEW t \in Threads, NEW i \in 1..cursor'[t] PROVE Reads(t, i)'
      <3>1. CASE cursor'[t] = cursor[t]
        BY <1>6, <2>1, <3>1, AdvanceEffect DEF Covered, NothingSkipped, Reads
      <3>2. CASE t = job[w].thread /\ cursor'[t] = job[w].last
        BY <1>6, <2>1, <3>2, AdvanceEffect DEF Covered, Covers, Reads
      <3>3. QED
        BY <1>6, <3>1, <3>2, AdvanceEffect DEF TypeOK
    <2>2. ASSUME NEW v \in Workers \ {w} PROVE Covers(v)'
      BY <1>6, AdvanceEffect, EndEffect, CoverStands DEF Covered
    <2>3. Covers(w)'
      BY <1>6, AdvanceEffect, EndEffect DEF Covers
    <2>4. QED
      BY <2>1, <2>2, <2>3 DEF Covered, NothingSkipped, Reads
  <1>7. QED
    BY <1>1, <1>2, <1>3, <1>4, <1>5, <1>6, Steps

\* The cursor never passes a turn that no stored extraction has read, for any
\* batch size and however many extractions of a thread overlap, fail or crash.
THEOREM NoTurnSkipped == Spec => []NothingSkipped
  <1>1. Init => Covered
    BY DEF Init, Covered, NothingSkipped, Covers, Idle
  <1>2. TypeOK /\ Covered /\ [Next]_vars => Covered'
    <2>1. ASSUME Covered, UNCHANGED vars PROVE Covered'
      BY <2>1, Zenon DEF Covered, NothingSkipped, Covers, Reads, vars, storeVars
    <2>2. QED
      BY <2>1, CoveredStep
  <1>3. Covered => NothingSkipped
    BY DEF Covered
  <1>4. QED
    BY <1>1, <1>2, <1>3, TypeCorrect, PTL DEF Spec

-----------------------------------------------------------------------------
(* The facts of a thread whose extractions do not overlap.                 *)

Fact(c) == [content |-> c, status |-> "active"]

\* Only one job runs; it has selected the live row; it is ahead of the cursor.
Lone(t) == overlapped[t] \/ \A v, w \in Busy(t) : v = w
Ready(w) ==
  job[w].at = "store" /\ ~overlapped[job[w].thread] =>
    \/ job[w].fact = NoWrite
    \/ /\ Live(facts[job[w].thread]) \subseteq {job[w].fact.old}
       /\ job[w].fact.to = "superseded"
       /\ \E c \in Contents : job[w].fact.new = <<Fact(c)>>
Ahead(w) ==
  job[w].at # "idle" /\ ~overlapped[job[w].thread] => cursor[job[w].thread] <= job[w].last

\* The thread has one active fact, and one at all unless one has expired.
Known(t) ==
  overlapped[t] \/ /\ \A i, j \in Live(facts[t]) : i = j
                   /\ \/ facts[t] = <<>> \/ Live(facts[t]) # {}
                      \/ \E i \in DOMAIN facts[t] : facts[t][i].status = "expired"

FactsInv ==
  /\ \A t \in Threads : Lone(t) /\ Known(t)
  /\ \A w \in Workers : Ready(w) /\ Ahead(w)

\* Writing nothing changes nothing; a replacement is the only live row.
LEMMA NoWriteKeeps ==
  ASSUME NEW S, NEW rows \in Seq(S)
  PROVE  Written(rows, NoWrite) = rows
  <1>1. 0 \notin DOMAIN rows
    BY RowFacts
  <1>2. Written(rows, NoWrite) = rows \o <<>>
    BY <1>1 DEF Written, NoWrite, Write
  <1>3. QED
    BY <1>2, ConcatEmptySeq

LEMMA FactWritten ==
  ASSUME NEW rows \in Seq(FactRow), NEW w \in Writes(FactRow, {"superseded"})
  PROVE  \E gone :
           /\ w.old \in DOMAIN rows => gone \in FactRow /\ gone.status = "superseded"
           /\ DOMAIN Written(rows, w) = 1..(Len(rows) + Len(w.new))
           /\ \A i \in DOMAIN rows : Written(rows, w)[i] = IF i = w.old THEN gone ELSE rows[i]
           /\ w.new # <<>> => Written(rows, w)[Len(rows) + 1] = w.new[1]
  <1>1. w.new \in {<<>>} \cup {<<r>> : r \in FactRow} /\ w.to = "superseded"
    BY DEF Writes
  <1>2. PICK gone : gone = [rows[w.old] EXCEPT !.status = w.to]
    OBVIOUS
  <1>3. ASSUME w.old \in DOMAIN rows PROVE gone \in FactRow /\ gone.status = "superseded"
    <2>1. rows[w.old] \in FactRow
      BY <1>3, RowFacts
    <2>2. QED
      BY <1>1, <1>2, <2>1 DEF FactRow, FactStatus
  <1>4. /\ DOMAIN Written(rows, w) = 1..(Len(rows) + Len(w.new))
        /\ \A i \in DOMAIN rows : Written(rows, w)[i] = IF i = w.old THEN gone ELSE rows[i]
        /\ w.new # <<>> => Written(rows, w)[Len(rows) + 1] = w.new[1]
    <2>1. w.old \in DOMAIN rows => gone \in FactRow
      BY <1>3
    <2>2. w.new \in {<<>>} \cup {<<r>> : r \in FactRow}
      BY <1>1
    <2>3. DOMAIN Written(rows, w) = 1..(Len(rows) + Len(w.new))
      BY <1>2, <2>1, <2>2, WrittenFacts
    <2>4. \A i \in DOMAIN rows : Written(rows, w)[i] = IF i = w.old THEN gone ELSE rows[i]
      BY <1>2, <2>1, <2>2, WrittenFacts
    <2>5. w.new # <<>> => Written(rows, w)[Len(rows) + 1] = w.new[1]
      BY <1>2, <2>1, <2>2, WrittenFacts
    <2>6. QED
      BY <2>3, <2>4, <2>5
  <1>5. QED
    BY <1>3, <1>4, Zenon

LEMMA ReplacementLives ==
  ASSUME NEW rows \in Seq(FactRow), NEW w \in Writes(FactRow, {"superseded"}),
         Live(rows) \subseteq {w.old}, NEW c \in Contents, w.new = <<Fact(c)>>
  PROVE  Live(Written(rows, w)) = {Len(rows) + 1}
  <1>1. PICK gone :
          /\ w.old \in DOMAIN rows => gone \in FactRow /\ gone.status = "superseded"
          /\ DOMAIN Written(rows, w) = 1..(Len(rows) + Len(w.new))
          /\ \A i \in DOMAIN rows : Written(rows, w)[i] = IF i = w.old THEN gone ELSE rows[i]
          /\ w.new # <<>> => Written(rows, w)[Len(rows) + 1] = w.new[1]
    BY FactWritten
  <1>2. Len(rows) \in Nat /\ DOMAIN rows = 1..Len(rows) /\ Len(w.new) = 1
    BY RowFacts
  <1>3. ASSUME NEW i \in DOMAIN rows PROVE Written(rows, w)[i].status \notin LiveStatus
    BY <1>1 DEF Live, LiveStatus
  <1>4. \A i \in 1..(Len(rows) + 1) : i \in DOMAIN rows \/ i = Len(rows) + 1
    BY <1>2
  <1>5. Written(rows, w)[Len(rows) + 1].status \in LiveStatus
    BY <1>1 DEF Fact, LiveStatus
  <1>6. QED
    BY <1>1, <1>2, <1>3, <1>4, <1>5 DEF Live

\* What is said of a thread or a job stands while nothing of it changes.
LEMMA ThreadStands ==
  ASSUME TypeOK, NEW t \in Threads, overlapped'[t] = overlapped[t],
         ~overlapped[t] => facts'[t] = facts[t]
  PROVE  Known(t) => Known(t)'
  BY DEF Known

LEMMA JobStands ==
  ASSUME TypeOK, NEW v \in Workers, job'[v] = job[v],
         ~overlapped'[job[v].thread] => /\ ~overlapped[job[v].thread]
                                        /\ UNCHANGED <<facts[job[v].thread], cursor[job[v].thread]>>
  PROVE  (Ready(v) => Ready(v)') /\ (Ahead(v) => Ahead(v)')
  BY DEF Ready, Ahead

\* A job moves on: its thread still has no other.
LEMMA LoneStands ==
  ASSUME TypeOK, NEW w \in Workers, \A v \in Workers \ {w} : job'[v] = job[v],
         \/ job'[w].at = "idle"
         \/ job[w].at # "idle" /\ job'[w].thread = job[w].thread,
         UNCHANGED overlapped, NEW t \in Threads, Lone(t)
  PROVE  Lone(t)'
  BY DEF Lone, Busy

LEMMA LoadFacts ==
  ASSUME TypeOK, FactsInv, NEW w \in Workers, NEW t \in Threads, Load(w, t)
  PROVE  FactsInv'
  <1>1. /\ job[w].at = "idle" /\ job'[w].at = "call" /\ job'[w].thread = t
        /\ UNCHANGED <<cursor, facts>>
        /\ \A v \in Workers \ {w} : job'[v] = job[v]
        /\ overlapped' = [overlapped EXCEPT ![t] = @ \/ Busy(t) # {}]
    BY LoadEffect
  <1>2. /\ \A u \in Threads \ {t} : overlapped'[u] = overlapped[u]
        /\ ~overlapped'[t] => ~overlapped[t] /\ Busy(t) = {}
    BY <1>1 DEF TypeOK
  <1>3. ASSUME NEW u \in Threads PROVE Lone(u)' /\ Known(u)'
    <2>1. Known(u)'
      <3>1. Known(u) /\ facts'[u] = facts[u] /\ (overlapped[u] => overlapped'[u])
        BY <1>1 DEF FactsInv, TypeOK
      <3>2. QED
        BY <3>1 DEF Known
    <2>2. CASE u = t
      <3>1. overlapped'[t] \/ \A v \in Busy(t)' : v = w
        BY <1>1, <1>2 DEF Busy
      <3>2. QED
        BY <2>1, <2>2, <3>1 DEF Lone
    <2>3. CASE u # t
      <3>1. Busy(u)' \subseteq Busy(u) /\ overlapped'[u] = overlapped[u]
        BY <1>1, <1>2, <2>3 DEF Busy
      <3>2. Lone(u)
        BY DEF FactsInv
      <3>3. QED
        BY <2>1, <3>1, <3>2 DEF Lone
    <2>4. QED
      BY <2>2, <2>3
  <1>4. ASSUME NEW v \in Workers \ {w} PROVE Ready(v)' /\ Ahead(v)'
    BY <1>1, <1>2, JobStands, JobFacts DEF FactsInv
  <1>5. Ready(w)'
    BY <1>1 DEF Ready
  <1>6. Ahead(w)'
    <2>1. job'[w].last \in Pending(t)
      BY LoadEffect, PendingFacts
    <2>2. cursor[t] < job'[w].last /\ cursor[t] \in Nat /\ job'[w].last \in Nat
      BY <2>1, LenProperties DEF Pending, TypeOK
    <2>3. QED
      BY <1>1, <2>2 DEF Ahead
  <1>7. QED
    BY <1>3, <1>4, <1>5, <1>6 DEF FactsInv

LEMMA FindFactsFacts ==
  ASSUME TypeOK, FactsInv, NEW w \in Workers, FindFacts(w), ~Ends(w)
  PROVE  FactsInv'
  <1>1. /\ job[w].at = "call" /\ job'[w].at = "store" /\ job'[w].thread = job[w].thread
        /\ job'[w].last = job[w].last
        /\ UNCHANGED <<cursor, facts, overlapped>>
        /\ \A v \in Workers \ {w} : job'[v] = job[v]
        /\ \A i, j \in Live(facts[job[w].thread]) : i = j
    BY FindEffect
  <1>2. PICK c \in Contents : job'[w].fact \in {NoWrite, FactWrite(facts[job[w].thread], c)}
    BY FindEffect
  <1>3. ASSUME NEW t \in Threads PROVE Lone(t)' /\ Known(t)'
    BY <1>1, LoneStands, ThreadStands DEF FactsInv
  <1>4. ASSUME NEW v \in Workers \ {w} PROVE Ready(v)' /\ Ahead(v)'
    BY <1>1, JobStands DEF FactsInv
  <1>5. Ahead(w)'
    BY <1>1 DEF FactsInv, Ahead
  <1>6. Ready(w)'
    <2>1. facts[job[w].thread] \in Seq(FactRow)
      BY JobFacts DEF TypeOK
    <2>2. CASE job'[w].fact = Replace(facts[job[w].thread], Fact(c))
      <3>1. /\ job'[w].fact.old = LiveRow(facts[job[w].thread])
            /\ job'[w].fact.to = "superseded" /\ job'[w].fact.new = <<Fact(c)>>
        BY <2>2 DEF Replace, Write
      <3>2. Live(facts[job[w].thread]) \subseteq {job'[w].fact.old}
        BY <1>1, <2>1, <3>1, LiveRowFacts
      <3>3. QED
        BY <1>1, <3>1, <3>2 DEF Ready
    <2>3. CASE job'[w].fact = NoWrite
      BY <2>3 DEF Ready
    <2>4. QED
      BY <1>2, <2>1, <2>2, <2>3, FactWriteFacts DEF Fact
  <1>7. QED
    BY <1>3, <1>4, <1>5, <1>6 DEF FactsInv

LEMMA StoreFacts ==
  ASSUME TypeOK, FactsInv, NEW w \in Workers, Store(w), ~Ends(w)
  PROVE  FactsInv'
  <1>0. PICK t \in Threads : t = job[w].thread
    BY JobFacts
  <1>1. /\ job[w].at = "store" /\ job'[w].at = "advance"
        /\ job'[w].thread = t /\ job'[w].last = job[w].last
        /\ \A v \in Workers \ {w} : job'[v] = job[v]
        /\ UNCHANGED <<cursor, overlapped>>
    BY <1>0, ReadEffect DEF Store, Doing
  <1>2. facts' = [facts EXCEPT ![t] = Written(facts[t], job[w].fact)]
    BY <1>0 DEF Store, Ends, KeepRest, storeVars
  <1>3. /\ t \in Threads /\ job[w].fact \in Writes(FactRow, {"superseded"})
        /\ facts[t] \in Seq(FactRow) /\ facts'[t] = Written(facts[t], job[w].fact)
        /\ \A u \in Threads \ {t} : facts'[u] = facts[u]
    BY <1>0, <1>2, JobFacts DEF TypeOK
  <1>4. ASSUME NEW u \in Threads PROVE Lone(u)'
    BY <1>0, <1>1, LoneStands DEF FactsInv
  <1>5. ASSUME ~overlapped[t] PROVE Known(t)'
    <2>1. Ready(w) /\ Known(t)
      BY <1>3 DEF FactsInv
    <2>2. CASE job[w].fact = NoWrite
      <3>1. facts'[t] = facts[t]
        BY <1>3, <2>2, NoWriteKeeps
      <3>2. QED
        BY <1>1, <1>3, <2>1, <3>1, ThreadStands
    <2>3. ASSUME NEW c \in Contents, job[w].fact.new = <<Fact(c)>>,
                 Live(facts[t]) \subseteq {job[w].fact.old}
          PROVE  Known(t)'
      <3>1. Live(facts'[t]) = {Len(facts[t]) + 1}
        BY <1>3, <2>3, ReplacementLives
      <3>2. QED
        BY <3>1 DEF Known
    <2>4. QED
      BY <1>0, <1>1, <1>5, <2>1, <2>2, <2>3 DEF Ready
  <1>6. ASSUME NEW u \in Threads PROVE Known(u)'
    <2>1. CASE overlapped[u]
      BY <1>1, <2>1 DEF Known
    <2>2. CASE u # t
      BY <1>1, <1>3, <2>2, ThreadStands DEF FactsInv
    <2>3. QED
      BY <1>5, <2>1, <2>2
  <1>7. ASSUME NEW v \in Workers \ {w} PROVE Ready(v)' /\ Ahead(v)'
    <2>1. CASE job[v].thread = t /\ ~overlapped[t]
      <3>1. job[v].at = "idle"
        BY <1>0, <1>1, <1>3, <2>1 DEF FactsInv, Lone, Busy
      <3>2. QED
        BY <1>1, <3>1 DEF Ready, Ahead
    <2>2. CASE job[v].thread # t \/ overlapped[t]
      BY <1>1, <1>3, <2>2, JobStands, JobFacts DEF FactsInv
    <2>3. QED
      BY <2>1, <2>2
  <1>8. Ready(w)' /\ Ahead(w)'
    BY <1>0, <1>1 DEF FactsInv, Ready, Ahead
  <1>9. QED
    BY <1>4, <1>6, <1>7, <1>8 DEF FactsInv

LEMMA AdvanceFacts ==
  ASSUME TypeOK, FactsInv, NEW w \in Workers, Advance(w)
  PROVE  /\ FactsInv'
         /\ \A t \in Threads : overlapped[t] \/ cursor'[t] >= cursor[t]
  <1> DEFINE t == job[w].thread
  <1>1. /\ job[w].at = "advance" /\ job'[w].at = "idle"
        /\ \A v \in Workers \ {w} : job'[v] = job[v]
        /\ UNCHANGED <<facts, overlapped>>
        /\ t \in Threads /\ job[w].last \in 0..MaxTurns /\ cursor \in [Threads -> 0..MaxTurns]
        /\ cursor' \in {cursor, [cursor EXCEPT ![t] = job[w].last]}
    BY AdvanceEffect, EndEffect, JobFacts DEF TypeOK
  <1> HIDE DEF t
  <1>2. ASSUME NEW u \in Threads PROVE Lone(u)' /\ Known(u)'
    BY <1>1, LoneStands, ThreadStands DEF FactsInv
  <1>3. ASSUME NEW v \in Workers \ {w} PROVE Ready(v)' /\ Ahead(v)'
    <2>1. CASE job[v].thread = t /\ ~overlapped[t]
      <3>1. job[v].at = "idle"
        BY <1>1, <2>1 DEF FactsInv, Lone, Busy, t
      <3>2. QED
        BY <1>1, <3>1 DEF Ready, Ahead
    <2>2. CASE job[v].thread # t \/ overlapped[t]
      BY <1>1, <2>2, JobStands, JobFacts DEF FactsInv
    <2>3. QED
      BY <2>1, <2>2
  <1>4. Ready(w)' /\ Ahead(w)'
    BY <1>1 DEF Ready, Ahead
  <1>5. ASSUME NEW u \in Threads, ~overlapped[u] PROVE cursor'[u] >= cursor[u]
    <2>1. CASE u = t
      <3>1. cursor[t] <= job[w].last
        BY <1>1, <1>5, <2>1 DEF FactsInv, Ahead, t
      <3>2. QED
        BY <1>1, <2>1, <3>1
    <2>2. CASE u # t
      BY <1>1, <2>2
    <2>3. QED
      BY <2>1, <2>2
  <1>6. QED
    BY <1>2, <1>3, <1>4, <1>5 DEF FactsInv

\* Expiry takes rows out, and leaves one that has expired.
LEMMA ExpireFacts ==
  ASSUME TypeOK, FactsInv, Expire
  PROVE  FactsInv'
  <1>1. UNCHANGED <<job, cursor, overlapped>>
    BY DEF Expire, reviewVars
  <1>2. ASSUME NEW t \in Threads
        PROVE  /\ Live(facts'[t]) \subseteq Live(facts[t])
               /\ \/ facts'[t] = facts[t]
                  \/ \E i \in DOMAIN facts'[t] : facts'[t][i].status = "expired"
    <2>1. CASE UNCHANGED facts
      BY <2>1
    <2>2. ASSUME NEW u \in Threads, NEW i \in Live(facts[u]),
                 facts' = [facts EXCEPT ![u] = Expired(facts[u], {i})]
          PROVE  \/ facts'[t] = facts[t]
                 \/ /\ Live(facts'[t]) \subseteq Live(facts[t])
                    /\ i \in DOMAIN facts'[t] /\ facts'[t][i].status = "expired"
      <3>1. CASE u # t
        BY <2>2, <3>1 DEF TypeOK
      <3>2. CASE u = t
        <4>1. /\ i \in DOMAIN facts[t] /\ facts[t] \in Seq(FactRow)
              /\ facts[t][i] \in FactRow /\ facts'[t] = Expired(facts[t], {i})
          BY <2>2, <3>2, RowFacts DEF TypeOK
        <4>2. PICK gone \in FactRow :
                gone = [facts[t][i] EXCEPT !.status = "expired"] /\ gone.status = "expired"
          <5>1. /\ [facts[t][i] EXCEPT !.status = "expired"] \in FactRow
                /\ [facts[t][i] EXCEPT !.status = "expired"].status = "expired"
            BY <4>1 DEF FactRow, FactStatus
          <5>2. QED
            BY <5>1, Zenon
        <4>3. /\ DOMAIN facts'[t] = DOMAIN facts[t]
              /\ \A j \in DOMAIN facts[t] : facts'[t][j] = IF j = i THEN gone ELSE facts[t][j]
          BY <4>1, <4>2, ExpiredFacts
        <4>4. QED
          BY <4>1, <4>2, <4>3 DEF Live, LiveStatus
      <3>3. QED
        BY <3>1, <3>2
    <2>3. QED
      BY <2>1, <2>2 DEF Expire
  <1>3. ASSUME NEW t \in Threads PROVE Lone(t)' /\ Known(t)'
    <2>1. Lone(t)'
      BY <1>1 DEF FactsInv, Lone, Busy
    <2>2. CASE facts'[t] = facts[t]
      BY <1>1, <2>1, <2>2, ThreadStands DEF FactsInv
    <2>3. CASE \E i \in DOMAIN facts'[t] : facts'[t][i].status = "expired"
      <3>1. Known(t)'
        BY <1>1, <1>2, <2>3 DEF FactsInv, Known
      <3>2. QED
        BY <2>1, <3>1
    <2>4. QED
      BY <1>2, <2>2, <2>3
  <1>4. ASSUME NEW w \in Workers PROVE Ready(w)' /\ Ahead(w)'
    BY <1>1, <1>2, JobFacts DEF FactsInv, Ready, Ahead
  <1>5. QED
    BY <1>3, <1>4 DEF FactsInv

LEMMA FactsStand ==
  ASSUME FactsInv, UNCHANGED <<job, cursor, facts, overlapped>>
  PROVE  FactsInv'
  <1>1. ASSUME NEW t \in Threads PROVE Lone(t)' /\ Known(t)'
    BY Zenon DEF FactsInv, Lone, Known, Busy
  <1>2. ASSUME NEW w \in Workers PROVE Ready(w)' /\ Ahead(w)'
    BY Zenon DEF FactsInv, Ready, Ahead
  <1>3. QED
    BY <1>1, <1>2 DEF FactsInv

LEMMA FactsStep ==
  ASSUME TypeOK, FactsInv, Next
  PROVE  FactsInv'
  <1>1. CASE Quiet
    <2>1. CASE Expire
      BY <2>1, ExpireFacts
    <2>2. CASE UNCHANGED facts
      BY <1>1, <2>2, QuietEffect, FactsStand
    <2>3. QED
      BY <1>1, <2>1, <2>2 DEF Quiet, Ask, Finish, Skip, AskReview, CommitReview, storeVars
  <1>2. ASSUME NEW w \in Workers, Ends(w) PROVE FactsInv'
    <2>1. /\ job'[w].at = "idle" /\ \A v \in Workers \ {w} : job'[v] = job[v]
          /\ UNCHANGED <<cursor, facts, overlapped>>
      BY <1>2, EndEffect DEF Ends
    <2>2. ASSUME NEW t \in Threads PROVE Lone(t)' /\ Known(t)'
      BY <2>1, LoneStands, ThreadStands DEF FactsInv
    <2>3. ASSUME NEW v \in Workers \ {w} PROVE Ready(v)' /\ Ahead(v)'
      BY <2>1, JobStands DEF FactsInv
    <2>4. QED
      BY <2>1, <2>2, <2>3 DEF FactsInv, Ready, Ahead
  <1>3. ASSUME NEW w \in Workers, FindNothing(w) PROVE FactsInv'
    <2>1. /\ job'[w].at = "advance" /\ job[w].at # "idle"
          /\ job'[w].thread = job[w].thread /\ job'[w].last = job[w].last
          /\ \A v \in Workers \ {w} : job'[v] = job[v]
          /\ UNCHANGED <<cursor, facts, overlapped>>
      BY <1>3, ReadEffect DEF FindNothing
    <2>2. ASSUME NEW t \in Threads PROVE Lone(t)' /\ Known(t)'
      BY <2>1, LoneStands, ThreadStands DEF FactsInv
    <2>3. ASSUME NEW v \in Workers \ {w} PROVE Ready(v)' /\ Ahead(v)'
      BY <2>1, JobStands DEF FactsInv
    <2>4. Ready(w)' /\ Ahead(w)'
      BY <2>1 DEF FactsInv, Ready, Ahead
    <2>5. QED
      BY <2>2, <2>3, <2>4 DEF FactsInv
  <1>4. QED
    BY <1>1, <1>2, <1>3, Steps, LoadFacts, FindFactsFacts, StoreFacts, AdvanceFacts

LEMMA FactsInvHolds == Spec => []FactsInv
  <1>1. Init => FactsInv
    BY DEF Init, FactsInv, Lone, Known, Ready, Ahead, Busy, Idle, Live
  <1>2. TypeOK /\ FactsInv /\ [Next]_vars => FactsInv'
    BY FactsStep, FactsStand DEF vars, storeVars
  <1>3. QED
    BY <1>1, <1>2, TypeCorrect, PTL DEF Spec

\* A thread whose extractions have never overlapped has one active fact of a key,
\* for any batch size, crashes and repeated jobs.
THEOREM FactIsSingle == Spec => []OneActiveFact
  <1>1. FactsInv => OneActiveFact
    BY DEF FactsInv, Known, OneActiveFact
  <1>2. QED
    BY <1>1, FactsInvHolds, PTL

\* Such a thread never loses what it has established, but by its expiry.
THEOREM FactsStayKnown == Spec => []FactsSurvive
  <1>1. FactsInv => FactsSurvive
    BY DEF FactsInv, Known, FactsSurvive
  <1>2. QED
    BY <1>1, FactsInvHolds, PTL

\* The cursor of such a thread never moves back.
THEOREM CursorMovesForward == Spec => CursorForward
  <1>1. TypeOK /\ FactsInv /\ [Next]_vars
          => [\A t \in Threads : overlapped[t] \/ cursor'[t] >= cursor[t]]_vars
    <2>1. ASSUME TypeOK, FactsInv, Next, NEW t \in Threads
          PROVE  overlapped[t] \/ cursor'[t] >= cursor[t]
      <3>1. cursor[t] \in Nat
        BY <2>1 DEF TypeOK
      <3>2. CASE UNCHANGED cursor
        BY <3>1, <3>2
      <3>3. QED
        BY <2>1, <3>2, Steps, QuietEffect, LoadEffect, FindEffect, ReadEffect, AdvanceFacts
           DEF Ends
    <2>2. QED
      BY <2>1 DEF vars
  <1>2. QED
    BY <1>1, TypeCorrect, FactsInvHolds, PTL DEF Spec, CursorForward

-----------------------------------------------------------------------------
(* A confirmed memory.                                                     *)

\* A job that found the confirmed memory and supersedes it inserts another.
Sure(c) == [content |-> c, status |-> "confirmed"]
Careful(w) ==
  job[w].at = "store" /\ job[w].memory.before = "confirmed" /\ job[w].memory.to = "superseded"
    => \E c \in Contents : job[w].memory.new = <<Sure(c)>>
AllCareful == \A w \in Workers : Careful(w)

LEMMA MemoryWritten ==
  ASSUME NEW rows \in Seq(MemoryRow), NEW w \in Writes(MemoryRow, {"superseded", "confirmed"})
  PROVE  \E gone :
           /\ w.old \in DOMAIN rows => gone.status = w.to
           /\ Len(Written(rows, w)) = Len(rows) + Len(w.new)
           /\ \A i \in DOMAIN rows : Written(rows, w)[i] = IF i = w.old THEN gone ELSE rows[i]
           /\ w.new # <<>> => Written(rows, w)[Len(rows) + 1] = w.new[1]
  <1>1. w.new \in {<<>>} \cup {<<r>> : r \in MemoryRow}
    BY DEF Writes
  <1>2. w.to \in {"superseded", "confirmed"}
    BY DEF Writes
  <1>3. PICK gone : gone = [rows[w.old] EXCEPT !.status = w.to]
    OBVIOUS
  <1>4. ASSUME w.old \in DOMAIN rows PROVE gone \in MemoryRow /\ gone.status = w.to
    <2>1. rows[w.old] \in MemoryRow
      BY <1>4, RowFacts
    <2>2. QED
      BY <1>2, <1>3, <2>1 DEF MemoryRow, MemoryStatus
  <1>5. w.old \in DOMAIN rows => gone \in MemoryRow
    BY <1>4
  <1>6. Len(Written(rows, w)) = Len(rows) + Len(w.new)
    BY <1>1, <1>3, <1>5, WrittenFacts
  <1>7. \A i \in DOMAIN rows : Written(rows, w)[i] = IF i = w.old THEN gone ELSE rows[i]
    BY <1>1, <1>3, <1>5, WrittenFacts
  <1>8. w.new # <<>> => Written(rows, w)[Len(rows) + 1] = w.new[1]
    BY <1>1, <1>3, <1>5, WrittenFacts
  <1>9. QED
    BY <1>4, <1>6, <1>7, <1>8

LEMMA FindsCareful ==
  ASSUME TypeOK, NEW w \in Workers, FindFacts(w), ~Ends(w)
  PROVE  Careful(w)'
  <1>1. PICK c \in Contents, level \in {"candidate", "confirmed"} :
          job'[w].memory \in {NoWrite, MemoryWrite(AsLoaded(memory, job[w].known), c, level)}
    BY FindEffect
  <1> DEFINE seen == AsLoaded(memory, job[w].known)
  <1>2. seen \in Seq(MemoryRow)
    BY JobFacts, KnownFacts DEF TypeOK
  <1>3. CASE job'[w].memory = NoWrite
    BY <1>3 DEF Careful, NoWrite, Write
  <1>4. CASE job'[w].memory.to = "confirmed"
    BY <1>4 DEF Careful
  <1>5. ASSUME job'[w].memory = Replace(seen, [content |-> c, status |-> level]),
               StatusOf(seen) = "confirmed" => level = "confirmed"
        PROVE  Careful(w)'
    <2>1. /\ job'[w].memory.before = StatusOf(seen)
          /\ job'[w].memory.new = <<[content |-> c, status |-> level]>>
      BY <1>5 DEF Replace, Write
    <2>2. QED
      BY <1>5, <2>1 DEF Careful, Sure
  <1>6. QED
    BY <1>1, <1>2, <1>3, <1>4, <1>5, MemoryWriteFacts

LEMMA CarefulStep ==
  ASSUME TypeOK, AllCareful, Next
  PROVE  AllCareful'
  <1>1. ASSUME NEW w \in Workers, job'[w].at # "store",
               \A v \in Workers \ {w} : job'[v] = job[v]
        PROVE  AllCareful'
    BY <1>1 DEF AllCareful, Careful
  <1>2. CASE Quiet
    BY <1>2, QuietEffect DEF AllCareful, Careful
  <1>3. ASSUME NEW w \in Workers, FindFacts(w), ~Ends(w) PROVE AllCareful'
    <2>1. \A v \in Workers \ {w} : job'[v] = job[v]
      BY <1>3, FindEffect
    <2>2. Careful(w)'
      BY <1>3, FindsCareful
    <2>3. \A v \in Workers \ {w} : Careful(v)'
      BY <2>1 DEF AllCareful, Careful
    <2>4. QED
      BY <2>2, <2>3 DEF AllCareful
  <1>4. ASSUME NEW w \in Workers, Ends(w) \/ Advance(w) PROVE AllCareful'
    <2>1. End(w)
      BY <1>4, AdvanceEffect DEF Ends
    <2>2. job'[w].at # "store" /\ \A v \in Workers \ {w} : job'[v] = job[v]
      BY <2>1, EndEffect
    <2>3. QED
      BY <1>1, <2>2
  <1>5. ASSUME NEW w \in Workers, FindNothing(w) \/ (Store(w) /\ ~Ends(w)) PROVE AllCareful'
    <2>1. job'[w].at # "store" /\ \A v \in Workers \ {w} : job'[v] = job[v]
      BY <1>5, ReadEffect
    <2>2. QED
      BY <1>1, <2>1
  <1>6. ASSUME NEW w \in Workers, NEW t \in Threads, Load(w, t) PROVE AllCareful'
    <2>1. job'[w].at # "store" /\ \A v \in Workers \ {w} : job'[v] = job[v]
      BY <1>6, LoadEffect
    <2>2. QED
      BY <1>1, <2>1
  <1>7. QED
    BY <1>2, <1>3, <1>4, <1>5, <1>6, Steps

\* What a step supersedes is not confirmed, or gives way to a confirmed memory, or
\* was confirmed behind the back of the job that stores.
Replaced(i) ==
  memory[i].status = "confirmed" /\ memory'[i].status = "superseded"
    => \/ memory'[Len(memory')].status = "confirmed"
       \/ \E w \in Workers : job[w].memory.old = i /\ job[w].memory.before # "confirmed"

LEMMA StoreReplaces ==
  ASSUME TypeOK, AllCareful, NEW w \in Workers, Store(w), ~Ends(w), NEW i \in Live(memory)
  PROVE  Replaced(i)
  <1>1. /\ job[w].at = "store" /\ memory' = Written(memory, job[w].memory)
        /\ memory \in Seq(MemoryRow) /\ i \in DOMAIN memory /\ Len(memory) \in Nat
    BY RowFacts DEF Store, Ends, Doing, KeepRest, storeVars, TypeOK
  <1>2. job[w].memory \in Writes(MemoryRow, {"superseded", "confirmed"})
    BY JobFacts
  <1>3. PICK gone :
          /\ job[w].memory.old \in DOMAIN memory => gone.status = job[w].memory.to
          /\ Len(memory') = Len(memory) + Len(job[w].memory.new)
          /\ \A j \in DOMAIN memory :
               memory'[j] = IF j = job[w].memory.old THEN gone ELSE memory[j]
          /\ job[w].memory.new # <<>> => memory'[Len(memory) + 1] = job[w].memory.new[1]
    <2>1. memory \in Seq(MemoryRow)
      BY <1>1
    <2>2. \E gone :
            /\ job[w].memory.old \in DOMAIN memory => gone.status = job[w].memory.to
            /\ Len(Written(memory, job[w].memory)) = Len(memory) + Len(job[w].memory.new)
            /\ \A j \in DOMAIN memory :
                 Written(memory, job[w].memory)[j]
                   = IF j = job[w].memory.old THEN gone ELSE memory[j]
            /\ job[w].memory.new # <<>> =>
                 Written(memory, job[w].memory)[Len(memory) + 1] = job[w].memory.new[1]
      BY <1>2, <2>1, MemoryWritten, Zenon
    <2>3. memory' = Written(memory, job[w].memory)
      BY <1>1
    <2>4. QED
      BY <2>2, <2>3, Zenon
  <1>4. CASE i # job[w].memory.old
    BY <1>1, <1>3, <1>4 DEF Replaced
  <1>5. CASE i = job[w].memory.old /\ job[w].memory.to = "confirmed"
    BY <1>1, <1>3, <1>5 DEF Replaced
  <1>6. CASE i = job[w].memory.old /\ job[w].memory.before # "confirmed"
    BY <1>6 DEF Replaced
  <1>7. ASSUME job[w].memory.to = "superseded", job[w].memory.before = "confirmed"
        PROVE  Replaced(i)
    <2>1. PICK c \in Contents : job[w].memory.new = <<Sure(c)>>
      BY <1>1, <1>7 DEF AllCareful, Careful
    <2>2. memory'[Len(memory')] = Sure(c)
      BY <1>1, <1>3, <2>1
    <2>3. QED
      BY <2>2 DEF Replaced, Sure
  <1>8. QED
    BY <1>2, <1>4, <1>5, <1>6, <1>7 DEF Writes

\* No extraction overthrows a confirmed memory with a guess, unless the user had
\* not yet confirmed it when the extraction looked.
THEOREM ConfirmedMemoryStands == Spec => ConfirmedStands
  <1>1. ASSUME TypeOK, AllCareful, Next, NEW i \in Live(memory)
        PROVE  Replaced(i)
    <2>1. i \in DOMAIN memory /\ memory \in Seq(MemoryRow) /\ memory[i] \in MemoryRow
      BY <1>1, RowFacts DEF TypeOK
    <2>2. CASE UNCHANGED memory
      BY <2>2 DEF Replaced
    <2>3. CASE CommitReview
      <3>1. review.to # "superseded"
        BY <1>1 DEF TypeOK, Reviews
      <3>2. memory'[i].status \in {memory[i].status, review.to}
        BY <2>1, <2>3 DEF CommitReview, MemoryRow
      <3>3. QED
        BY <3>1, <3>2 DEF Replaced
    <2>4. CASE Expire
      <3>1. memory'[i].status \in {memory[i].status, "expired"}
        BY <2>1, <2>4 DEF Expire, Expired, MemoryRow
      <3>2. QED
        BY <3>1 DEF Replaced
    <2>5. ASSUME NEW w \in Workers, Store(w), ~Ends(w) PROVE Replaced(i)
      BY <1>1, <2>5, StoreReplaces
    <2>6. CASE Quiet
      BY <2>2, <2>3, <2>4, <2>6 DEF Quiet, Ask, Finish, Skip, AskReview, storeVars
    <2>7. QED
      BY <1>1, <2>2, <2>5, <2>6, Steps, LoadEffect, FindEffect, AdvanceEffect
         DEF Ends, FindNothing, KeepRest
  <1>2. Init => AllCareful
    BY DEF Init, AllCareful, Careful, Idle
  <1>3. TypeOK /\ AllCareful /\ [Next]_vars => AllCareful'
    <2>1. ASSUME AllCareful, UNCHANGED vars PROVE AllCareful'
      BY <2>1 DEF AllCareful, Careful, vars
    <2>2. QED
      BY <2>1, CarefulStep
  <1>4. TypeOK /\ AllCareful /\ [Next]_vars
          => [\A i \in Live(memory) : Replaced(i)]_vars
    BY <1>1
  <1>5. QED
    BY <1>2, <1>3, <1>4, TypeCorrect, PTL DEF Spec, ConfirmedStands, Replaced

-----------------------------------------------------------------------------
(* A key keeps its memory.                                                 *)

\* What a job will store puts a live row in, makes the old one confirmed or leaves
\* it alone.
Provides(m) ==
  \/ m.old = 0 \/ m.to = "confirmed"
  \/ \E c \in Contents, level \in {"candidate", "confirmed"} :
       m.new = <<[content |-> c, status |-> level]>>
AllProvide == \A w \in Workers : job[w].at = "store" => Provides(job[w].memory)

LEMMA ProvideStep ==
  ASSUME TypeOK, AllProvide, Next
  PROVE  AllProvide'
  <1>1. ASSUME NEW w \in Workers, job'[w].at = "store" => Provides(job'[w].memory),
               \A v \in Workers \ {w} : job'[v] = job[v]
        PROVE  AllProvide'
    BY <1>1 DEF AllProvide, Provides
  <1>2. CASE Quiet
    BY <1>2, QuietEffect DEF AllProvide, Provides
  <1>3. ASSUME NEW w \in Workers, FindFacts(w), ~Ends(w) PROVE AllProvide'
    <2>1. PICK c \in Contents, level \in {"candidate", "confirmed"} :
            job'[w].memory \in {NoWrite, MemoryWrite(AsLoaded(memory, job[w].known), c, level)}
      BY <1>3, FindEffect
    <2> DEFINE seen == AsLoaded(memory, job[w].known)
    <2>2. seen \in Seq(MemoryRow)
      BY JobFacts, KnownFacts DEF TypeOK
    <2>3. job'[w].memory = NoWrite => Provides(job'[w].memory)
      BY DEF Provides, NoWrite, Write
    <2>4. job'[w].memory.to = "confirmed" => Provides(job'[w].memory)
      BY DEF Provides
    <2>5. ASSUME job'[w].memory = Replace(seen, [content |-> c, status |-> level])
          PROVE  Provides(job'[w].memory)
      BY <2>5 DEF Provides, Replace, Write
    <2>6. Provides(job'[w].memory)
      BY <2>1, <2>2, <2>3, <2>4, <2>5, MemoryWriteFacts
    <2>7. QED
      BY <1>1, <1>3, <2>6, FindEffect
  <1>4. ASSUME NEW w \in Workers, Ends(w) \/ Advance(w) PROVE AllProvide'
    <2>1. job'[w].at # "store" /\ \A v \in Workers \ {w} : job'[v] = job[v]
      BY <1>4, AdvanceEffect, EndEffect DEF Ends
    <2>2. QED
      BY <1>1, <2>1
  <1>5. ASSUME NEW w \in Workers, FindNothing(w) \/ (Store(w) /\ ~Ends(w)) PROVE AllProvide'
    BY <1>1, <1>5, ReadEffect
  <1>6. ASSUME NEW w \in Workers, NEW t \in Threads, Load(w, t) PROVE AllProvide'
    BY <1>1, <1>6, LoadEffect
  <1>7. QED
    BY <1>2, <1>3, <1>4, <1>5, <1>6, Steps

LEMMA StoreKeeps ==
  ASSUME TypeOK, AllProvide, NEW w \in Workers, Store(w), ~Ends(w), Live(memory) # {}
  PROVE  Live(memory') # {}
  <1> DEFINE m == job[w].memory
  <1>1. /\ job[w].at = "store" /\ memory' = Written(memory, m)
        /\ memory \in Seq(MemoryRow) /\ Len(memory) \in Nat /\ DOMAIN memory = 1..Len(memory)
    BY RowFacts DEF Store, Ends, Doing, KeepRest, storeVars, TypeOK
  <1>2. m \in Writes(MemoryRow, {"superseded", "confirmed"}) /\ memory' \in Seq(MemoryRow)
    BY <1>1, JobFacts, StoreTyped
  <1>3. Provides(m)
    BY <1>1 DEF AllProvide
  <1>4. PICK gone :
          /\ m.old \in DOMAIN memory => gone.status = m.to
          /\ Len(Written(memory, m)) = Len(memory) + Len(m.new)
          /\ \A j \in DOMAIN memory :
               Written(memory, m)[j] = IF j = m.old THEN gone ELSE memory[j]
          /\ m.new # <<>> => Written(memory, m)[Len(memory) + 1] = m.new[1]
    BY <1>1, <1>2, MemoryWritten, Zenon
  <1>5. DOMAIN memory' = 1..(Len(memory) + Len(m.new)) /\ Len(m.new) \in Nat
    <2>1. m.new \in {<<>>} \cup {<<r>> : r \in MemoryRow}
      BY <1>2 DEF Writes
    <2>2. Len(m.new) \in Nat
      BY <2>1, NewRows
    <2>3. QED
      BY <1>1, <1>2, <1>4, <2>2, LenProperties
  <1>6. PICK i \in Live(memory) : TRUE
    OBVIOUS
  <1>7. i \in DOMAIN memory /\ i \in DOMAIN memory' /\ i # 0
    BY <1>1, <1>5 DEF Live
  <1>8. CASE i # m.old \/ m.to = "confirmed"
    <2>1. memory'[i].status \in LiveStatus
      BY <1>1, <1>4, <1>7, <1>8 DEF Live, LiveStatus
    <2>2. QED
      BY <1>7, <2>1 DEF Live
  <1>9. ASSUME NEW c \in Contents, NEW level \in {"candidate", "confirmed"},
               m.new = <<[content |-> c, status |-> level]>>
        PROVE  Live(memory') # {}
    <2>1. /\ Len(memory) + 1 \in DOMAIN memory'
          /\ memory'[Len(memory) + 1] = [content |-> c, status |-> level]
      BY <1>1, <1>4, <1>5, <1>9
    <2>2. QED
      BY <2>1 DEF Live, LiveStatus
  <1>10. QED
    BY <1>3, <1>7, <1>8, <1>9 DEF Provides

\* Whatever the reviews and the extractions of any number of threads do at the same
\* time, a key loses its live memory by expiry or by a review only.
THEOREM MemoryStays == Spec => MemoryIsKept
  <1> DEFINE Left == Live(memory) # {} /\ Live(memory') = {}
                       => \E i \in Live(memory) :
                            \/ memory'[i].status = "expired"
                            \/ review.row = i /\ review.to = memory'[i].status
  <1>1. ASSUME TypeOK, AllProvide, Next PROVE Left
    <2>1. CASE UNCHANGED memory
      BY <2>1
    <2>2. CASE CommitReview
      <3>1. ASSUME NEW i \in Live(memory), i # review.row PROVE i \in Live(memory')
        BY <2>2, <3>1 DEF CommitReview, Live
      <3>2. ASSUME NEW i \in Live(memory), i = review.row, memory' # memory
            PROVE  memory'[i].status = review.to
        <4>1. memory' = [memory EXCEPT ![i].status = review.to]
          BY <2>2, <3>2 DEF CommitReview
        <4>2. i \in DOMAIN memory /\ memory[i] \in MemoryRow
          BY <1>1, RowFacts DEF TypeOK
        <4>3. QED
          BY <4>1, <4>2 DEF MemoryRow
      <3>3. QED
        BY <2>1, <3>1, <3>2
    <2>3. CASE Expire
      <3>1. ASSUME NEW i \in Live(memory), memory' = Expired(memory, {i})
            PROVE  memory'[i].status = "expired"
        <4>1. i \in DOMAIN memory /\ memory[i] \in MemoryRow
          BY <1>1, RowFacts DEF TypeOK
        <4>2. QED
          BY <3>1, <4>1 DEF Expired, MemoryRow
      <3>2. QED
        BY <2>1, <2>3, <3>1 DEF Expire
    <2>4. ASSUME NEW w \in Workers, Store(w), ~Ends(w) PROVE Left
      BY <1>1, <2>4, StoreKeeps
    <2>5. CASE Quiet
      BY <2>1, <2>2, <2>3, <2>5 DEF Quiet, Ask, Finish, Skip, AskReview, storeVars
    <2>6. QED
      BY <1>1, <2>1, <2>4, <2>5, Steps, LoadEffect, FindEffect, AdvanceEffect
         DEF Ends, FindNothing, KeepRest
  <1>2. Init => AllProvide
    BY DEF Init, AllProvide, Idle
  <1>3. TypeOK /\ AllProvide /\ [Next]_vars => AllProvide'
    <2>1. ASSUME AllProvide, UNCHANGED vars PROVE AllProvide'
      BY <2>1 DEF AllProvide, vars
    <2>2. QED
      BY <2>1, ProvideStep
  <1>4. TypeOK /\ AllProvide /\ [Next]_vars => [Left]_vars
    BY <1>1
  <1>5. QED
    BY <1>2, <1>3, <1>4, TypeCorrect, PTL DEF Spec, MemoryIsKept

=============================================================================

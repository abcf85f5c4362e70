-------------------------- MODULE RunEventStreamProofs --------------------------
(***************************************************************************)
(* Proofs about RunEventStream for any number of chunks, tries and faults  *)
(* and any size of a read.                                                 *)
(***************************************************************************)
EXTENDS RunEventStream, TLAPS

-----------------------------------------------------------------------------
(* Events, and streams that grow.                                          *)

Kinds == {"metadata", "messages", "custom", "retry", "error", "end"}

LEMMA Numbers ==
  /\ MaxChunks \in Nat /\ MaxFaults \in Nat
  /\ Limit \in Nat \ {0} /\ MaxTries \in Nat \ {0}
  BY StreamConstants

LEMMA EventFields ==
  ASSUME NEW e \in Events
  PROVE  e.kind \in Kinds /\ e.lane \in Lanes /\ e.items \in Seq(1..MaxChunks)
  BY DEF Events, Kinds

LEMMA EventTyped ==
  ASSUME NEW k \in Kinds
  PROVE  /\ Event(k) \in Events
         /\ Event(k).kind = k /\ Event(k).lane = "own" /\ Event(k).items = <<>>
  <1>1. <<>> \in Seq(1..MaxChunks)
    OBVIOUS
  <1>2. QED
    BY <1>1 DEF Event, Events, Kinds, Lanes

LEMMA MessagesTyped ==
  ASSUME NEW l \in Lanes, NEW chunks \in Seq(1..MaxChunks)
  PROVE  /\ Messages(l, chunks) \in Events
         /\ Messages(l, chunks).kind = "messages"
         /\ Messages(l, chunks).lane = l /\ Messages(l, chunks).items = chunks
  BY DEF Messages, Events

LEMMA AppendFacts ==
  ASSUME NEW S, NEW s \in Seq(S), NEW e \in S
  PROVE  /\ Append(s, e) \in Seq(S) /\ Len(s) \in Nat
         /\ Len(Append(s, e)) = Len(s) + 1
         /\ DOMAIN s = 1..Len(s) /\ DOMAIN Append(s, e) = 1..(Len(s) + 1)
         /\ \A i \in 1..Len(s) : Append(s, e)[i] = s[i]
         /\ Append(s, e)[Len(s) + 1] = e
  OBVIOUS

LEMMA SeqElements ==
  ASSUME NEW S, NEW s \in Seq(S)
  PROVE  DOMAIN s \subseteq Nat /\ \A i \in DOMAIN s : s[i] \in S
  OBVIOUS

LEMMA ConcatFacts ==
  ASSUME NEW S, NEW s \in Seq(S), NEW e \in S
  PROVE  s \o <<>> = s /\ s \o <<e>> = Append(s, e)
  OBVIOUS

\* t is s with more events, of which none is an end and the text is C.
Grown(s, t) ==
  /\ t \in Seq(Events) /\ Len(s) <= Len(t)
  /\ \A i \in 1..Len(s) : t[i] = s[i]
Adds(s, t, C) ==
  /\ Grown(s, t)
  /\ \A i \in 1..Len(t) : t[i].kind = "end" => i <= Len(s)
  /\ Chunks(t) = Chunks(s) \cup C

LEMMA ChunksOf ==
  ASSUME NEW s \in Seq(Events), NEW c
  PROVE  c \in Chunks(s) <=> \E i \in 1..Len(s) : c \in ToSet(s[i].items)
  BY DEF Chunks

LEMMA AppendGrows ==
  ASSUME NEW s \in Seq(Events), NEW e \in Events
  PROVE  /\ Grown(s, Append(s, e))
         /\ Chunks(Append(s, e)) = Chunks(s) \cup ToSet(e.items)
         /\ e.kind # "end" => Adds(s, Append(s, e), ToSet(e.items))
  <1> DEFINE t == Append(s, e)
  <1>1. /\ t \in Seq(Events) /\ Len(s) \in Nat /\ Len(t) = Len(s) + 1
        /\ \A i \in 1..Len(s) : t[i] = s[i]
        /\ t[Len(s) + 1] = e
    BY AppendFacts
  <1> HIDE DEF t
  <1>2. ASSUME NEW c PROVE c \in Chunks(t) <=> c \in Chunks(s) \cup ToSet(e.items)
    <2>1. c \in Chunks(t) <=> \E i \in 1..Len(t) : c \in ToSet(t[i].items)
      BY <1>1, ChunksOf
    <2>2. c \in Chunks(s) <=> \E i \in 1..Len(s) : c \in ToSet(s[i].items)
      BY ChunksOf
    <2>3. \A i \in 1..Len(t) : i \in 1..Len(s) \/ i = Len(s) + 1
      BY <1>1
    <2>4. Len(s) + 1 \in 1..Len(t) /\ 1..Len(s) \subseteq 1..Len(t)
      BY <1>1
    <2>5. QED
      BY <1>1, <2>1, <2>2, <2>3, <2>4
  <1>3. Grown(s, t)
    BY <1>1 DEF Grown
  <1>4. Chunks(t) = Chunks(s) \cup ToSet(e.items)
    BY <1>2
  <1>5. e.kind # "end" => \A i \in 1..Len(t) : t[i].kind = "end" => i <= Len(s)
    BY <1>1
  <1>6. QED
    BY <1>3, <1>4, <1>5 DEF Adds, t

LEMMA NothingAdded ==
  ASSUME NEW s \in Seq(Events)
  PROVE  Adds(s, s, {})
  <1>1. Len(s) \in Nat
    OBVIOUS
  <1>2. QED
    BY <1>1 DEF Adds, Grown

LEMMA AddsTwice ==
  ASSUME NEW s \in Seq(Events), NEW t, NEW u, NEW C, NEW D,
         Adds(s, t, C), Adds(t, u, D)
  PROVE  Adds(s, u, C \cup D)
  <1>1. Len(s) \in Nat /\ t \in Seq(Events) /\ Len(t) \in Nat /\ u \in Seq(Events)
    BY DEF Adds, Grown
  <1>2. Grown(s, u)
    BY <1>1 DEF Adds, Grown
  <1>3. \A i \in 1..Len(u) : u[i].kind = "end" => i <= Len(s)
    <2>1. Len(u) \in Nat
      BY <1>1
    <2>2. QED
      BY <1>1, <2>1 DEF Adds, Grown
  <1>4. Chunks(u) = Chunks(s) \cup C \cup D
    BY DEF Adds
  <1>5. QED
    BY <1>2, <1>3, <1>4 DEF Adds

LEMMA NoText == ToSet(<<>>) = {}
  BY DEF ToSet

LEMMA FlushedAdds ==
  ASSUME NEW s \in Seq(Events), NEW l \in Lanes, NEW chunks \in Seq(1..MaxChunks)
  PROVE  /\ s \o Flushed(l, chunks)
              = IF chunks = <<>> THEN s ELSE Append(s, Messages(l, chunks))
         /\ Adds(s, s \o Flushed(l, chunks), ToSet(chunks))
  <1>1. CASE chunks = <<>>
    BY <1>1, ConcatFacts, MessagesTyped, NothingAdded, NoText DEF Flushed
  <1>2. CASE chunks # <<>>
    <2>1. PICK e \in Events : /\ e = Messages(l, chunks)
                              /\ e.kind = "messages" /\ e.items = chunks
      BY MessagesTyped
    <2>2. s \o Flushed(l, chunks) = Append(s, e)
      BY <1>2, <2>1, ConcatFacts DEF Flushed
    <2>3. Adds(s, Append(s, e), ToSet(chunks))
      BY <2>1, AppendGrows
    <2>4. QED
      BY <1>2, <2>1, <2>2, <2>3
  <1>3. QED
    BY <1>1, <1>2

-----------------------------------------------------------------------------
(* What the steps do to the stream and to the writer's buffers.            *)

LEMMA BufferTyped ==
  ASSUME buffer \in [Lanes -> Seq(1..MaxChunks)], NEW l \in Lanes
  PROVE  /\ buffer[l] \in Seq(1..MaxChunks) /\ <<>> \in Seq(1..MaxChunks)
         /\ [buffer EXCEPT ![l] = <<>>] \in [Lanes -> Seq(1..MaxChunks)]
         /\ \A c \in 1..MaxChunks : Append(buffer[l], c) \in Seq(1..MaxChunks)
  OBVIOUS

LEMMA AppendText ==
  ASSUME NEW s \in Seq(1..MaxChunks), NEW c
  PROVE  ToSet(Append(s, c)) = ToSet(s) \cup {c}
  <1>1. /\ Len(s) \in Nat /\ DOMAIN s = 1..Len(s)
        /\ DOMAIN Append(s, c) = 1..(Len(s) + 1)
        /\ \A i \in 1..Len(s) : Append(s, c)[i] = s[i]
        /\ Append(s, c)[Len(s) + 1] = c
    OBVIOUS
  <1>2. ToSet(Append(s, c)) \subseteq ToSet(s) \cup {c}
    BY <1>1 DEF ToSet
  <1>3. ToSet(s) \subseteq ToSet(Append(s, c))
    BY <1>1 DEF ToSet
  <1>4. c \in ToSet(Append(s, c))
    BY <1>1 DEF ToSet
  <1>5. QED
    BY <1>2, <1>3, <1>4

WriterTyped == stream \in Seq(Events) /\ buffer \in [Lanes -> Seq(1..MaxChunks)]

LEMMA FlushLaneFacts ==
  ASSUME WriterTyped, NEW l \in Lanes, FlushLane(l)
  PROVE  /\ WriterTyped' /\ Adds(stream, stream', ToSet(buffer[l]))
         /\ stream' = stream \o Flushed(l, buffer[l])
         /\ buffer'[l] = <<>> /\ \A k \in Lanes \ {l} : buffer'[k] = buffer[k]
  <1>1. /\ buffer' \in [Lanes -> Seq(1..MaxChunks)] /\ buffer[l] \in Seq(1..MaxChunks)
        /\ buffer'[l] = <<>> /\ \A k \in Lanes \ {l} : buffer'[k] = buffer[k]
    BY BufferTyped DEF WriterTyped, FlushLane
  <1>2. stream' = stream \o Flushed(l, buffer[l])
    BY DEF FlushLane
  <1>3. stream \in Seq(Events)
    BY DEF WriterTyped
  <1>4. Adds(stream, stream', ToSet(buffer[l]))
    BY <1>1, <1>2, <1>3, FlushedAdds
  <1>5. QED
    BY <1>1, <1>2, <1>4 DEF WriterTyped, Adds, Grown

LEMMA FlushAllFacts ==
  ASSUME WriterTyped, FlushAll
  PROVE  /\ WriterTyped'
         /\ Adds(stream, stream', ToSet(buffer["own"]) \cup ToSet(buffer["child"]))
         /\ buffer' = [l \in Lanes |-> <<>>]
         /\ \E k, l \in Lanes :
              /\ k # l
              /\ stream' = (stream \o Flushed(k, buffer[k])) \o Flushed(l, buffer[l])
  <1>1. /\ "own" \in Lanes /\ "child" \in Lanes /\ "own" # "child"
        /\ Lanes = {"own", "child"}
    BY DEF Lanes
  <1>2. PICK k \in Lanes, l \in Lanes :
          /\ {k, l} = {"own", "child"} /\ k # l
          /\ stream' = (stream \o Flushed(k, buffer[k])) \o Flushed(l, buffer[l])
    <2>1. PICK order \in {<<"own", "child">>, <<"child", "own">>} :
            stream' = stream \o Flushed(order[1], buffer[order[1]])
                             \o Flushed(order[2], buffer[order[2]])
      BY DEF FlushAll
    <2>2. CASE order = <<"own", "child">>
      BY <1>1, <2>1, <2>2
    <2>3. CASE order = <<"child", "own">>
      BY <1>1, <2>1, <2>3
    <2>4. QED
      BY <2>2, <2>3
  <1>3. /\ buffer[k] \in Seq(1..MaxChunks) /\ buffer[l] \in Seq(1..MaxChunks)
        /\ stream \in Seq(Events) /\ <<>> \in Seq(1..MaxChunks)
    BY BufferTyped DEF WriterTyped
  <1>4. PICK t : t = stream \o Flushed(k, buffer[k])
    OBVIOUS
  <1>5. Adds(stream, t, ToSet(buffer[k])) /\ t \in Seq(Events)
    <2>1. Adds(stream, stream \o Flushed(k, buffer[k]), ToSet(buffer[k]))
      BY <1>3, FlushedAdds
    <2>2. Adds(stream, t, ToSet(buffer[k]))
      BY <1>4, <2>1
    <2>3. QED
      BY <2>2 DEF Adds, Grown
  <1>6. Adds(t, stream', ToSet(buffer[l]))
    BY <1>2, <1>3, <1>4, <1>5, FlushedAdds
  <1>7. Adds(stream, stream', ToSet(buffer[k]) \cup ToSet(buffer[l]))
    BY <1>3, <1>5, <1>6, AddsTwice
  <1>8. ToSet(buffer[k]) \cup ToSet(buffer[l])
          = ToSet(buffer["own"]) \cup ToSet(buffer["child"])
    BY <1>1, <1>2
  <1>9. buffer' = [m \in Lanes |-> <<>>]
    BY DEF FlushAll
  <1>10. WriterTyped'
    BY <1>3, <1>6, <1>9 DEF WriterTyped, Adds, Grown
  <1>11. QED
    BY <1>2, <1>7, <1>8, <1>9, <1>10

\* A chunk goes to the stream behind those that wait, or waits behind them.
LEMMA AppendChunkFacts ==
  ASSUME WriterTyped, NEW l \in Lanes, NEW c \in 1..MaxChunks, AppendChunk(l, c)
  PROVE  /\ WriterTyped' /\ \A k \in Lanes \ {l} : buffer'[k] = buffer[k]
         /\ \/ /\ stream' = stream /\ buffer'[l] = Append(buffer[l], c)
               /\ Adds(stream, stream', {})
            \/ /\ stream' = Append(stream, Messages(l, Append(buffer[l], c)))
               /\ buffer'[l] = <<>>
               /\ Adds(stream, stream', ToSet(buffer[l]) \cup {c})
  <1>1. /\ buffer[l] \in Seq(1..MaxChunks) /\ <<>> \in Seq(1..MaxChunks)
        /\ Append(buffer[l], c) \in Seq(1..MaxChunks)
        /\ stream \in Seq(Events) /\ buffer \in [Lanes -> Seq(1..MaxChunks)]
    BY BufferTyped DEF WriterTyped
  <1>2. CASE buffer' = [buffer EXCEPT ![l] = Append(@, c)] /\ UNCHANGED stream
    <2>1. Adds(stream, stream', {})
      BY <1>1, <1>2, NothingAdded
    <2>2. WriterTyped'
      BY <1>1, <1>2 DEF WriterTyped
    <2>3. QED
      BY <1>1, <1>2, <2>1, <2>2
  <1>3. CASE /\ stream' = Append(stream, Messages(l, Append(buffer[l], c)))
             /\ buffer' = [buffer EXCEPT ![l] = <<>>]
    <2>1. PICK e \in Events : /\ e = Messages(l, Append(buffer[l], c))
                              /\ e.kind = "messages" /\ e.items = Append(buffer[l], c)
      BY <1>1, MessagesTyped, Zenon
    <2>2. Adds(stream, stream', ToSet(Append(buffer[l], c)))
      BY <1>1, <1>3, <2>1, AppendGrows
    <2>3. ToSet(Append(buffer[l], c)) = ToSet(buffer[l]) \cup {c}
      BY <1>1, AppendText
    <2>4. WriterTyped'
      BY <1>1, <1>3, <2>2 DEF WriterTyped, Adds, Grown
    <2>5. QED
      BY <1>1, <1>3, <2>2, <2>3, <2>4
  <1>4. QED
    BY <1>2, <1>3 DEF AppendChunk

\* An event that is not an end.
LEMMA NoteFacts ==
  ASSUME stream \in Seq(Events), NEW k \in Kinds, stream' = Append(stream, Event(k))
  PROVE  /\ stream' \in Seq(Events) /\ Grown(stream, stream')
         /\ k # "end" => Adds(stream, stream', {})
  <1>1. PICK e \in Events : e = Event(k) /\ e.kind = k /\ e.items = <<>>
    BY EventTyped
  <1>2. stream' = Append(stream, e)
    BY <1>1
  <1>3. /\ Grown(stream, stream')
        /\ k # "end" => Adds(stream, stream', ToSet(e.items))
    BY <1>1, <1>2, AppendGrows
  <1>4. ToSet(e.items) = {}
    BY <1>1, NoText
  <1>5. QED
    BY <1>3, <1>4 DEF Grown

-----------------------------------------------------------------------------
(* Type correctness.  A connection that sends has something to send.       *)

TextTypes == made \in 0..MaxChunks /\ own \subseteq 1..made /\ extra \in 0..MaxChunks
RowTypes == row \in {"active", "settled"} /\ sealed \in 0..Len(stream)
JobTypes ==
  /\ worker \in Workers /\ block \in BodyBlocks \cup HandlerBlocks
  /\ tries \in 0..MaxTries
ReaderTypes ==
  /\ conn \in Connections /\ seen \in {"active", "settled"}
  /\ sent \in 0..Len(stream) /\ upto \in 0..Len(stream) /\ got \in 0..Len(stream)
  /\ how \in {"no", "end", "error", "unavailable", "checked"}
  /\ conn = "send" => sent < upto
Typed ==
  /\ WriterTyped /\ TextTypes /\ RowTypes /\ JobTypes /\ ReaderTypes
  /\ faults \in 0..MaxFaults

LEMMA LongerStream ==
  ASSUME stream \in Seq(Events), Grown(stream, stream')
  PROVE  Len(stream) \in Nat /\ Len(stream') \in Nat /\ 0..Len(stream) \subseteq 0..Len(stream')
  <1>1. Len(stream) \in Nat /\ Len(stream') \in Nat /\ Len(stream) <= Len(stream')
    BY DEF Grown
  <1>2. QED
    BY <1>1

LEMMA RowKept ==
  ASSUME stream \in Seq(Events), Grown(stream, stream'), RowTypes, UNCHANGED <<row, sealed>>
  PROVE  RowTypes'
  BY LongerStream DEF RowTypes

LEMMA RowSettles ==
  ASSUME stream \in Seq(Events), RowTypes, Settle, UNCHANGED stream
  PROVE  RowTypes'
  <1>1. Len(stream) \in Nat /\ Len(stream) \in 0..Len(stream)
    OBVIOUS
  <1>2. QED
    BY <1>1 DEF RowTypes, Settle

LEMMA ReaderKept ==
  ASSUME stream \in Seq(Events), Grown(stream, stream'), ReaderTypes, UNCHANGED readerVars
  PROVE  ReaderTypes'
  BY LongerStream DEF ReaderTypes, readerVars

LEMMA FaultTyped ==
  ASSUME faults \in 0..MaxFaults, NEW k, Fault(k)
  PROVE  faults' \in 0..MaxFaults
  BY Numbers DEF Fault

LEMMA SameStream ==
  ASSUME WriterTyped, UNCHANGED <<stream, buffer>>
  PROVE  WriterTyped' /\ Grown(stream, stream')
  BY NothingAdded DEF WriterTyped, Adds

LEMMA StartTyped ==
  ASSUME Typed, Start
  PROVE  Typed' /\ Grown(stream, stream')
  <1>1. WriterTyped' /\ Grown(stream, stream')
    <2>1. stream \in Seq(Events) /\ buffer' \in [Lanes -> Seq(1..MaxChunks)]
      BY DEF Typed, WriterTyped, Start
    <2>2. CASE UNCHANGED stream
      BY <2>1, <2>2, NothingAdded DEF WriterTyped, Adds
    <2>3. CASE stream' = Append(stream, Event("metadata"))
      BY <2>1, <2>3, NoteFacts DEF WriterTyped, Kinds
    <2>4. QED
      BY <2>2, <2>3 DEF Start
  <1>2. stream \in Seq(Events)
    BY DEF Typed, WriterTyped
  <1>3. RowTypes'
    <2>1. CASE UNCHANGED <<row, sealed>>
      BY <1>1, <1>2, <2>1, RowKept DEF Typed
    <2>2. CASE Settle /\ UNCHANGED stream
      BY <1>2, <2>2, RowSettles DEF Typed
    <2>3. QED
      BY <2>1, <2>2 DEF Start
  <1>4. TextTypes'
    BY DEF Typed, TextTypes, Start
  <1>5. JobTypes'
    <2>1. tries' \in 0..MaxTries
      BY Numbers DEF Typed, JobTypes, Start
    <2>2. worker' \in {"done", "stream"} /\ block' = "body"
      BY DEF Start
    <2>3. QED
      BY <2>1, <2>2 DEF JobTypes, Workers, BodyBlocks
  <1>6. ReaderTypes'
    BY <1>1, <1>2, ReaderKept DEF Typed, Start
  <1>7. QED
    BY <1>1, <1>3, <1>4, <1>5, <1>6 DEF Typed, Start

LEMMA LoadingChunkTyped ==
  ASSUME Typed, NEW l \in Lanes, LoadingChunk(l)
  PROVE  Typed' /\ Grown(stream, stream')
  <1>1. made' \in 1..MaxChunks /\ own' \subseteq 1..made' /\ UNCHANGED extra
    BY Numbers DEF Typed, TextTypes, LoadingChunk
  <1>2. WriterTyped' /\ Grown(stream, stream')
    BY <1>1, AppendChunkFacts DEF Typed, LoadingChunk, Adds
  <1>3. stream \in Seq(Events)
    BY DEF Typed, WriterTyped
  <1>4. TextTypes'
    BY <1>1 DEF Typed, TextTypes
  <1>5. RowTypes' /\ ReaderTypes'
    BY <1>2, <1>3, RowKept, ReaderKept DEF Typed, LoadingChunk
  <1>6. JobTypes' /\ faults' \in 0..MaxFaults
    BY DEF Typed, JobTypes, LoadingChunk, jobVars
  <1>7. QED
    BY <1>2, <1>4, <1>5, <1>6 DEF Typed

\* A step of the worker that goes somewhere, of which the text is no news.
LEMMA WorkerTyped ==
  ASSUME Typed, WriterTyped', Grown(stream, stream'), UNCHANGED <<made, own>>,
         extra' \in 0..MaxChunks, UNCHANGED readerVars, faults' \in 0..MaxFaults,
         RowTypes', NEW w \in Workers, NEW b \in BodyBlocks \cup HandlerBlocks, Goto(w, b)
  PROVE  Typed'
  <1>1. TextTypes' /\ JobTypes'
    BY DEF Typed, TextTypes, JobTypes, Goto
  <1>2. ReaderTypes'
    BY ReaderKept DEF Typed, WriterTyped
  <1>3. QED
    BY <1>1, <1>2 DEF Typed

\* A step of the endpoint or the browser.
LEMMA ReadingTyped ==
  ASSUME Typed, UNCHANGED <<row, stream, sealed, writerVars, jobVars>>,
         faults' \in 0..MaxFaults, ReaderTypes'
  PROVE  Typed' /\ Grown(stream, stream')
  <1>1. WriterTyped' /\ Grown(stream, stream')
    BY SameStream DEF Typed, writerVars
  <1>2. TextTypes' /\ RowTypes' /\ JobTypes'
    BY DEF Typed, TextTypes, RowTypes, JobTypes, writerVars, jobVars
  <1>3. QED
    BY <1>1, <1>2 DEF Typed

LEMMA Blocks ==
  /\ BodyBlocks \cup HandlerBlocks = {"body", "verdict", "drained", "cancel", "retry", "error"}
  /\ Workers = {"queued", "stream", "emit", "settle", "announce", "tail", "handle", "done"}
  BY DEF BodyBlocks, HandlerBlocks, Workers

LEMMA WorkerStepTyped ==
  ASSUME Typed, WorkerStep
  PROVE  Typed' /\ Grown(stream, stream')
  <1>1. /\ WriterTyped /\ stream \in Seq(Events) /\ RowTypes
        /\ block \in BodyBlocks \cup HandlerBlocks /\ faults \in 0..MaxFaults
        /\ extra \in 0..MaxChunks
    BY DEF Typed, WriterTyped, JobTypes, TextTypes
  <1>2. CASE Start
    BY <1>2, StartTyped
  <1>3. ASSUME NEW l \in Lanes, LoadingChunk(l) PROVE Typed' /\ Grown(stream, stream')
    BY <1>3, LoadingChunkTyped
  <1>4. ASSUME NEW l \in Lanes, OtherChunk(l) PROVE Typed' /\ Grown(stream, stream')
    <2>1. WriterTyped' /\ Grown(stream, stream')
      BY <1>1, <1>4, FlushLaneFacts DEF OtherChunk, Adds
    <2>2. RowTypes'
      BY <1>1, <1>4, <2>1, RowKept DEF OtherChunk
    <2>3. extra' \in 0..MaxChunks
      BY <1>4, Numbers DEF Typed, TextTypes, OtherChunk
    <2>4. Goto("emit", "body") /\ UNCHANGED <<made, own, readerVars, faults>>
      BY <1>4 DEF OtherChunk
    <2>5. QED
      BY <1>1, <2>1, <2>2, <2>3, <2>4, Blocks, WorkerTyped
  <1>5. CASE VerdictChunk
    <2>1. "own" \in Lanes /\ FlushLane("own")
      BY <1>5 DEF VerdictChunk, Lanes
    <2>2. WriterTyped' /\ Grown(stream, stream')
      BY <1>1, <2>1, FlushLaneFacts DEF Adds
    <2>3. RowTypes'
      BY <1>1, <1>5, <2>2, RowKept DEF VerdictChunk
    <2>4. UNCHANGED <<made, own, extra, readerVars, faults>>
      BY <1>5 DEF VerdictChunk
    <2>5. PICK w \in Workers : Goto(w, "verdict")
      BY <1>5, Blocks DEF VerdictChunk
    <2>6. QED
      BY <1>1, <2>2, <2>3, <2>4, <2>5, Blocks, WorkerTyped
  <1>6. CASE EmitEvent
    <2>1. PICK k \in {"retry", "error", "custom"} : stream' = Append(stream, Event(k))
      BY <1>6 DEF EmitEvent
    <2>2. Grown(stream, stream') /\ WriterTyped'
      BY <1>1, <1>6, <2>1, NoteFacts DEF Kinds, WriterTyped, EmitEvent, writerVars
    <2>3. RowTypes'
      BY <1>1, <1>6, <2>2, RowKept DEF EmitEvent
    <2>4. UNCHANGED <<made, own, extra, readerVars, faults>>
      BY <1>6 DEF EmitEvent, writerVars
    <2>5. PICK w \in Workers, b \in BodyBlocks \cup HandlerBlocks : Goto(w, b)
      BY <1>1, <1>6, Blocks DEF EmitEvent
    <2>6. QED
      BY <1>1, <2>2, <2>3, <2>4, <2>5, WorkerTyped
  <1>7. CASE SettleRun
    <2>1. Grown(stream, stream') /\ WriterTyped'
      BY <1>1, <1>7, SameStream DEF SettleRun, writerVars
    <2>2. RowTypes'
      BY <1>1, <1>7, RowSettles DEF SettleRun
    <2>3. UNCHANGED <<made, own, extra, readerVars, faults>> /\ Goto("announce", block)
      BY <1>7 DEF SettleRun, writerVars
    <2>4. QED
      BY <1>1, <2>1, <2>2, <2>3, Blocks, WorkerTyped
  <1>8. CASE AppendEnd
    <2>1. Grown(stream, stream') /\ WriterTyped'
      BY <1>1, <1>8, NoteFacts DEF Kinds, WriterTyped, AppendEnd, writerVars
    <2>2. RowTypes'
      BY <1>1, <1>8, <2>1, RowKept DEF AppendEnd
    <2>3. UNCHANGED <<made, own, extra, readerVars, faults>>
      BY <1>8 DEF AppendEnd, writerVars
    <2>4. PICK w \in Workers : Goto(w, block)
      BY <1>8, Blocks DEF AppendEnd
    <2>5. QED
      BY <1>1, <2>1, <2>2, <2>3, <2>4, WorkerTyped
  <1>9. CASE Exhausted
    <2>1. WriterTyped' /\ Grown(stream, stream')
      BY <1>1, <1>9, FlushAllFacts DEF Exhausted, Adds
    <2>2. RowTypes'
      BY <1>1, <1>9, <2>1, RowKept DEF Exhausted
    <2>3. UNCHANGED <<made, own, extra, readerVars, faults>>
      BY <1>9 DEF Exhausted
    <2>4. PICK w \in Workers, b \in BodyBlocks \cup HandlerBlocks : Goto(w, b)
      BY <1>1, <1>9, Blocks DEF Exhausted
    <2>5. QED
      BY <1>1, <2>1, <2>2, <2>3, <2>4, WorkerTyped
  <1>10. CASE ObserveCancel
    <2>1. Grown(stream, stream') /\ WriterTyped'
      BY <1>1, <1>10, SameStream DEF ObserveCancel, writerVars
    <2>2. RowTypes'
      BY <1>1, <1>10, <2>1, RowKept DEF ObserveCancel
    <2>3. UNCHANGED <<made, own, extra, readerVars, faults>> /\ Goto("handle", "cancel")
      BY <1>10 DEF ObserveCancel, writerVars
    <2>4. QED
      BY <1>1, <2>1, <2>2, <2>3, Blocks, WorkerTyped
  <1>11. CASE Handle
    <2>1. WriterTyped' /\ Grown(stream, stream')
      BY <1>1, <1>11, FlushAllFacts DEF Handle, Adds
    <2>2. RowTypes'
      BY <1>1, <1>11, <2>1, RowKept DEF Handle
    <2>3. UNCHANGED <<made, own, extra, readerVars, faults>> /\ Goto("emit", block)
      BY <1>11 DEF Handle
    <2>4. QED
      BY <1>1, <2>1, <2>2, <2>3, Blocks, WorkerTyped
  <1>12. QED
    BY <1>2, <1>3, <1>4, <1>5, <1>6, <1>7, <1>8, <1>9, <1>10, <1>11 DEF WorkerStep

\* The faults of the worker.
LEMMA WorkerFaultTyped ==
  ASSUME Typed, Crash \/ Raise \/ HandlerFails \/ \E l \in Lanes : FlushCancelled(l)
  PROVE  Typed' /\ Grown(stream, stream')
  <1>1. /\ WriterTyped /\ stream \in Seq(Events) /\ RowTypes
        /\ faults \in 0..MaxFaults /\ extra \in 0..MaxChunks
    BY DEF Typed, WriterTyped, TextTypes
  <1>2. /\ UNCHANGED <<row, sealed, writerVars, readerVars>>
        /\ faults' \in 0..MaxFaults /\ UNCHANGED <<made, own, extra>>
    BY <1>1, FaultTyped DEF Crash, Raise, HandlerFails, FlushCancelled, writerVars
  <1>3. WriterTyped' /\ Grown(stream, stream')
    <2>1. CASE UNCHANGED stream
      BY <1>1, <1>2, <2>1, SameStream DEF writerVars
    <2>2. ASSUME NEW l \in Lanes, FlushCancelled(l) PROVE WriterTyped' /\ Grown(stream, stream')
      <3>1. buffer[l] \in Seq(1..MaxChunks)
        BY <1>1, BufferTyped DEF WriterTyped
      <3>2. stream' = Append(stream, Messages(l, buffer[l]))
        BY <2>2 DEF FlushCancelled
      <3>3. Grown(stream, stream')
        BY <1>1, <3>1, <3>2, MessagesTyped, AppendGrows
      <3>4. QED
        BY <1>1, <1>2, <3>3 DEF WriterTyped, Grown, writerVars
    <2>3. QED
      BY <2>1, <2>2 DEF Crash, Raise, HandlerFails
  <1>4. RowTypes'
    BY <1>1, <1>2, <1>3, RowKept
  <1>5. PICK w \in Workers, b \in BodyBlocks \cup HandlerBlocks : Goto(w, b)
    BY Blocks DEF Crash, Raise, HandlerFails, FlushCancelled, HandlerBlocks
  <1>6. QED
    BY <1>1, <1>2, <1>3, <1>4, <1>5, WorkerTyped

LEMMA ReaderStepTyped ==
  ASSUME Typed, ReaderStep \/ Expire \/ Disconnect \/ SseError
  PROVE  Typed' /\ Grown(stream, stream')
  <1>1. /\ stream \in Seq(Events) /\ Len(stream) \in Nat /\ ReaderTypes
        /\ faults \in 0..MaxFaults /\ row \in {"active", "settled"}
    BY DEF Typed, WriterTyped, RowTypes
  <1>2. UNCHANGED <<row, stream, sealed, writerVars, jobVars>> /\ faults' \in 0..MaxFaults
    BY <1>1, FaultTyped DEF ReaderStep, Connect, ReadStatus, ReadEvents, SendEvent, CheckRun,
                            Expire, Disconnect, SseError
  <1>3. ReaderTypes'
    <2>1. CASE ReadEvents
      <3>1. upto' \in 0..Len(stream)
        BY <1>1, <2>1, Numbers DEF ReadEvents, Min2, ReaderTypes
      <3>2. UNCHANGED <<stream, sent, seen>> /\ UNCHANGED stream
        BY <2>1 DEF ReadEvents
      <3>3. CASE upto' > sent /\ conn' = "send" /\ UNCHANGED <<got, how>>
        BY <1>1, <3>1, <3>2, <3>3 DEF ReaderTypes, Connections
      <3>4. CASE SynthesizeEnd
        BY <1>1, <3>1, <3>2, <3>4 DEF ReaderTypes, Connections, SynthesizeEnd
      <3>5. CASE conn' = "status" /\ UNCHANGED <<got, how>>
        BY <1>1, <3>1, <3>2, <3>5 DEF ReaderTypes, Connections
      <3>6. QED
        BY <2>1, <3>3, <3>4, <3>5 DEF ReadEvents
    <2>2. CASE SendEvent
      <3>1. sent < upto /\ sent' = sent + 1 /\ UNCHANGED <<stream, seen, upto>>
        BY <1>1, <2>2 DEF SendEvent, ReaderTypes
      <3>2. sent' \in 0..Len(stream) /\ sent' <= upto /\ got' \in 0..Len(stream)
        BY <1>1, <2>2, <3>1 DEF SendEvent, ReaderTypes
      <3>3. conn' \in {"final", "status", "send"} /\ (conn' = "send" => sent' # upto)
        BY <2>2 DEF SendEvent
      <3>4. how' \in {"end", "error", how}
        BY <2>2 DEF SendEvent
      <3>5. QED
        BY <1>1, <3>1, <3>2, <3>3, <3>4 DEF ReaderTypes, Connections
    <2>3. CASE Connect \/ ReadStatus \/ CheckRun \/ Expire \/ Disconnect \/ SseError
      BY <1>1, <2>3 DEF Connect, ReadStatus, CheckRun, Expire, Disconnect, SseError,
                        ReaderTypes, Connections
    <2>4. QED
      BY <2>1, <2>2, <2>3 DEF ReaderStep
  <1>4. QED
    BY <1>2, <1>3, ReadingTyped

LEMMA StepTyped ==
  ASSUME Typed, [Next]_vars
  PROVE  Typed' /\ Grown(stream, stream')
  <1>1. CASE Next
    BY <1>1, WorkerStepTyped, WorkerFaultTyped, ReaderStepTyped DEF Next, FaultStep
  <1>2. CASE UNCHANGED vars
    <2>1. /\ UNCHANGED <<row, stream, sealed, writerVars, jobVars, readerVars>>
          /\ UNCHANGED faults
      BY <1>2 DEF vars
    <2>2. ReaderTypes'
      BY <2>1 DEF Typed, ReaderTypes, readerVars
    <2>3. QED
      BY <2>1, <2>2, ReadingTyped DEF Typed
  <1>3. QED
    BY <1>1, <1>2

LEMMA InitTyped == Init => Typed
  <1> SUFFICES ASSUME Init PROVE Typed
    OBVIOUS
  <1>1. stream = <<>> /\ stream \in Seq(Events) /\ Len(stream) = 0
    BY DEF Init
  <1>2. buffer \in [Lanes -> Seq(1..MaxChunks)]
    BY DEF Init
  <1>3. TextTypes /\ faults \in 0..MaxFaults /\ RowTypes
    BY <1>1, Numbers DEF Init, TextTypes, RowTypes
  <1>4. JobTypes
    BY Numbers DEF Init, JobTypes, Workers, BodyBlocks
  <1>5. ReaderTypes
    BY <1>1 DEF Init, ReaderTypes, Connections
  <1>6. QED
    BY <1>1, <1>2, <1>3, <1>4, <1>5 DEF Typed, WriterTyped

LEMMA AlwaysTyped == Spec => []Typed
  <1>1. Typed /\ [Next]_vars => Typed'
    BY StepTyped
  <1>2. QED
    BY InitTyped, <1>1, PTL DEF Spec

\* Every variable keeps its type (run_worker.py, agent_run_service.py and the
\* browser's useAgentRunStream.js).
THEOREM TypeCorrect == Spec => []TypeOK
  <1>1. Typed => TypeOK
    BY DEF Typed, TypeOK, WriterTyped, TextTypes, RowTypes, JobTypes, ReaderTypes
  <1>2. QED
    BY AlwaysTyped, <1>1, PTL

-----------------------------------------------------------------------------
(* What a reader is told of the end.                                       *)

\* A status read earlier still holds; an end that was told is complete; end events
\* follow the settlement; and where the worker stands tells if the row is settled.
SeenRight == seen = "settled" => row = "settled"
Told == how = "end" => conn = "final" /\ row = "settled" /\ sealed <= got
EndsLate ==
  \A i \in 1..Len(stream) : stream[i].kind = "end" => row = "settled" /\ sealed < i
Settling ==
  /\ worker \in {"announce", "tail"} => row = "settled"
  /\ worker = "stream" \/ (worker = "emit" /\ block = "body") => row = "active"
  /\ worker = "handle" => block \in {"cancel", "retry", "error"}
EndInv == Typed /\ SeenRight /\ Told /\ EndsLate /\ Settling

\* A step settles the row, appends the end, or appends other events.
LEMMA RowStep ==
  ASSUME Typed, [Next]_vars
  PROVE  UNCHANGED <<row, sealed>> \/ (Settle /\ UNCHANGED stream)
  <1>1. CASE WorkerStep
    BY <1>1 DEF WorkerStep, Start, LoadingChunk, OtherChunk, VerdictChunk, EmitEvent, SettleRun,
                AppendEnd, Exhausted, ObserveCancel, Handle
  <1>2. CASE ReaderStep \/ Expire \/ FaultStep
    BY <1>2 DEF ReaderStep, Connect, ReadStatus, ReadEvents, SendEvent, CheckRun, Expire,
                FaultStep, Crash, Raise, HandlerFails, FlushCancelled, Disconnect, SseError
  <1>3. CASE UNCHANGED vars
    BY <1>3 DEF vars
  <1>4. QED
    BY <1>1, <1>2, <1>3 DEF Next

LEMMA StreamStep ==
  ASSUME Typed, [Next]_vars
  PROVE  AppendEnd \/ \E C : Adds(stream, stream', C)
  <1>1. WriterTyped /\ stream \in Seq(Events)
    BY DEF Typed, WriterTyped
  <1>2. CASE UNCHANGED stream
    BY <1>1, <1>2, NothingAdded
  <1>3. ASSUME NEW k \in Kinds \ {"end"}, stream' = Append(stream, Event(k))
        PROVE  \E C : Adds(stream, stream', C)
    BY <1>1, <1>3, NoteFacts
  <1>4. ASSUME NEW l \in Lanes, FlushLane(l) PROVE \E C : Adds(stream, stream', C)
    BY <1>1, <1>4, FlushLaneFacts
  <1>5. ASSUME FlushAll PROVE \E C : Adds(stream, stream', C)
    BY <1>1, <1>5, FlushAllFacts
  <1>6. ASSUME NEW l \in Lanes, LoadingChunk(l) PROVE \E C : Adds(stream, stream', C)
    <2>1. made' \in 1..MaxChunks
      BY <1>6, Numbers DEF Typed, TextTypes, LoadingChunk
    <2>2. QED
      BY <1>1, <1>6, <2>1, AppendChunkFacts DEF LoadingChunk
  <1>7. ASSUME NEW l \in Lanes, FlushCancelled(l) PROVE \E C : Adds(stream, stream', C)
    <2>1. buffer[l] \in Seq(1..MaxChunks)
      BY <1>1, BufferTyped DEF WriterTyped
    <2>2. stream' = Append(stream, Messages(l, buffer[l]))
      BY <1>7 DEF FlushCancelled
    <2>3. PICK e \in Events : e = Messages(l, buffer[l]) /\ e.kind = "messages"
      BY <2>1, MessagesTyped
    <2>4. QED
      BY <1>1, <2>2, <2>3, AppendGrows
  <1>8. CASE WorkerStep
    <2>1. CASE Start
      BY <1>2, <1>3, <2>1 DEF Start, Kinds
    <2>2. CASE EmitEvent
      <3>1. \E k \in {"retry", "error", "custom"} : stream' = Append(stream, Event(k))
        BY <2>2 DEF EmitEvent
      <3>2. QED
        BY <1>3, <3>1 DEF Kinds
    <2>3. CASE Exhausted \/ Handle
      BY <1>5, <2>3 DEF Exhausted, Handle
    <2>4. CASE SettleRun \/ ObserveCancel
      BY <1>2, <2>4 DEF SettleRun, ObserveCancel
    <2>5. CASE VerdictChunk
      BY <1>4, <2>5 DEF VerdictChunk, Lanes
    <2>6. ASSUME NEW l \in Lanes, OtherChunk(l) PROVE \E C : Adds(stream, stream', C)
      BY <1>4, <2>6 DEF OtherChunk
    <2>7. QED
      BY <1>6, <1>8, <2>1, <2>2, <2>3, <2>4, <2>5, <2>6 DEF WorkerStep
  <1>9. CASE ReaderStep \/ Expire \/ FaultStep
    BY <1>2, <1>7, <1>9 DEF ReaderStep, Connect, ReadStatus, ReadEvents, SendEvent, CheckRun,
         Expire, FaultStep, Crash, Raise, HandlerFails, Disconnect, SseError
  <1>10. QED
    BY <1>2, <1>8, <1>9 DEF Next, vars

LEMMA SettledStays ==
  ASSUME UNCHANGED <<row, sealed>> \/ Settle
  PROVE  row = "settled" => UNCHANGED <<row, sealed>>
  BY DEF Settle

LEMMA EndsStayLate ==
  ASSUME EndInv, [Next]_vars
  PROVE  EndsLate'
  <1>1. /\ stream \in Seq(Events) /\ Len(stream) \in Nat /\ sealed \in 0..Len(stream)
        /\ Grown(stream, stream') /\ Len(stream') \in Nat
    BY StepTyped DEF EndInv, Typed, WriterTyped, RowTypes, Grown
  <1>2. CASE AppendEnd
    <2>1. PICK e \in Events : e = Event("end")
      BY EventTyped DEF Kinds
    <2>2. stream' = Append(stream, e) /\ UNCHANGED <<row, sealed>> /\ row = "settled"
      BY <1>2, <2>1 DEF AppendEnd, EndInv, Settling
    <2>3. \A i \in 1..Len(stream') : i \in 1..Len(stream) \/ sealed < i
      BY <1>1, <2>2
    <2>4. QED
      BY <1>1, <2>2, <2>3 DEF EndsLate, EndInv, Grown
  <1>3. ASSUME NEW C, Adds(stream, stream', C) PROVE EndsLate'
    <2>1. \A i \in 1..Len(stream') :
            stream'[i].kind = "end" => i \in 1..Len(stream) /\ stream[i].kind = "end"
      BY <1>1, <1>3 DEF Adds, Grown
    <2>2. row = "settled" => UNCHANGED <<row, sealed>>
      BY RowStep, SettledStays DEF EndInv
    <2>3. QED
      BY <2>1, <2>2 DEF EndsLate, EndInv
  <1>4. QED
    BY <1>2, <1>3, StreamStep DEF EndInv

LEMMA SettlingStep ==
  ASSUME EndInv, [Next]_vars
  PROVE  Settling'
  <1>1. row \in {"active", "settled"} /\ Settling
    BY DEF EndInv, Typed, RowTypes
  <1>2. CASE Start \/ SettleRun
    BY <1>1, <1>2 DEF Start, SettleRun, Settle, Settling, Goto
  <1>3. CASE UNCHANGED row /\ UNCHANGED <<worker, block>>
    BY <1>1, <1>3 DEF Settling
  <1>4. ASSUME NEW l \in Lanes, LoadingChunk(l) \/ OtherChunk(l) \/ FlushCancelled(l)
        PROVE  Settling'
    BY <1>1, <1>4 DEF LoadingChunk, OtherChunk, FlushCancelled, Settling, Goto, jobVars
  <1>5. CASE VerdictChunk \/ AppendEnd \/ Exhausted \/ ObserveCancel \/ Handle
    BY <1>1, <1>5 DEF VerdictChunk, AppendEnd, Exhausted, ObserveCancel, Handle, Settling, Goto
  <1>6. CASE EmitEvent
    BY <1>1, <1>6 DEF EmitEvent, Settling, Goto
  <1>7. CASE Crash \/ Raise \/ HandlerFails
    BY <1>1, <1>7 DEF Crash, Raise, HandlerFails, Settling, Goto, HandlerBlocks
  <1>8. CASE ReaderStep \/ Expire \/ Disconnect \/ SseError \/ UNCHANGED vars
    BY <1>3, <1>8 DEF ReaderStep, Connect, ReadStatus, ReadEvents, SendEvent, CheckRun, Expire,
                      Disconnect, SseError, jobVars, vars
  <1>9. QED
    BY <1>2, <1>4, <1>5, <1>6, <1>7, <1>8 DEF Next, WorkerStep, FaultStep

LEMMA ReaderTold ==
  ASSUME EndInv, [Next]_vars
  PROVE  SeenRight' /\ Told'
  <1>1. /\ stream \in Seq(Events) /\ Len(stream) \in Nat /\ sealed \in 0..Len(stream)
        /\ ReaderTypes /\ SeenRight /\ Told /\ EndsLate
        /\ row = "settled" => UNCHANGED <<row, sealed>>
    BY RowStep, SettledStays DEF EndInv, Typed, WriterTyped, RowTypes
  <1>2. CASE UNCHANGED readerVars
    BY <1>1, <1>2 DEF SeenRight, Told, readerVars
  <1>3. CASE Connect \/ ReadStatus \/ CheckRun \/ Expire \/ Disconnect \/ SseError
    BY <1>1, <1>3 DEF Connect, ReadStatus, CheckRun, Expire, Disconnect, SseError,
                      SeenRight, Told
  <1>4. CASE ReadEvents
    <2>1. UNCHANGED <<row, sealed, sent, seen>> /\ conn = "events"
      BY <1>4 DEF ReadEvents
    <2>2. CASE UNCHANGED <<got, how>>
      BY <1>1, <2>1, <2>2 DEF SeenRight, Told
    <2>3. CASE upto' = sent /\ seen = "settled" /\ SynthesizeEnd
      <3>1. sent = Len(stream)
        BY <1>1, <1>4, <2>3, Numbers DEF ReadEvents, Min2, ReaderTypes
      <3>2. CASE conn' = "final" /\ how' = "end" /\ got' = Len(stream)
        BY <1>1, <2>1, <2>3, <3>2 DEF SeenRight, Told
      <3>3. QED
        BY <2>2, <2>3, <3>1, <3>2 DEF SynthesizeEnd
    <2>4. QED
      BY <1>4, <2>2, <2>3 DEF ReadEvents
  <1>5. CASE SendEvent
    <2>1. UNCHANGED <<row, sealed, seen>> /\ conn = "send" /\ sent' = sent + 1
      BY <1>5 DEF SendEvent
    <2>2. sent' \in 1..Len(stream)
      BY <1>1, <2>1 DEF ReaderTypes
    <2>3. CASE stream[sent'].kind = "end"
      BY <1>1, <1>5, <2>1, <2>2, <2>3 DEF SendEvent, SeenRight, Told, EndsLate
    <2>4. CASE stream[sent'].kind # "end"
      BY <1>1, <1>5, <2>1, <2>4 DEF SendEvent, SeenRight, Told
    <2>5. QED
      BY <2>3, <2>4
  <1>6. CASE WorkerStep
    BY <1>2, <1>6 DEF WorkerStep, Start, LoadingChunk, OtherChunk, VerdictChunk, EmitEvent,
                      SettleRun, AppendEnd, Exhausted, ObserveCancel, Handle
  <1>7. CASE FaultStep
    BY <1>2, <1>3, <1>7 DEF FaultStep, Crash, Raise, HandlerFails, FlushCancelled
  <1>8. QED
    BY <1>2, <1>3, <1>4, <1>5, <1>6, <1>7 DEF Next, ReaderStep, vars

LEMMA EndsHold == Spec => []EndInv
  <1>1. Init => EndInv
    <2> SUFFICES ASSUME Init PROVE EndInv
      OBVIOUS
    <2>1. SeenRight /\ Told /\ Settling
      BY DEF Init, SeenRight, Told, Settling
    <2>2. Len(stream) = 0
      BY DEF Init
    <2>3. EndsLate
      BY <2>2 DEF EndsLate
    <2>4. QED
      BY <2>1, <2>3, InitTyped DEF EndInv
  <1>2. EndInv /\ [Next]_vars => EndInv'
    <2> SUFFICES ASSUME EndInv, [Next]_vars PROVE EndInv'
      OBVIOUS
    <2>1. Typed'
      BY StepTyped DEF EndInv
    <2>2. QED
      BY <2>1, EndsStayLate, SettlingStep, ReaderTold DEF EndInv
  <1>3. QED
    BY <1>1, <1>2, PTL DEF Spec

-----------------------------------------------------------------------------
(* The text of the deciding attempt.                                       *)

\* The text of the first n events.
Upto(s, n) == UNION {ToSet(s[i].items) : i \in 1..n}

\* The attempt's own text is in the stream or waits in its lane; it is in the stream
\* before the row settles, and among the events that precede the settlement after.
OwnSomewhere == own \subseteq Chunks(stream) \cup ToSet(buffer["own"])
OwnFlushed ==
  worker = "settle" \/ (worker = "emit" /\ block # "body") => own \subseteq Chunks(stream)
OwnSealed == row = "settled" => own \subseteq Upto(stream, sealed)
OwnInv == OwnSomewhere /\ OwnFlushed /\ OwnSealed

LEMMA UptoFacts ==
  ASSUME NEW s \in Seq(Events), NEW t, Grown(s, t), NEW n \in 0..Len(s)
  PROVE  Upto(t, n) = Upto(s, n) /\ Upto(s, n) \subseteq Chunks(s) /\ Upto(s, Len(s)) = Chunks(s)
  <1>1. Len(s) \in Nat /\ DOMAIN s = 1..Len(s) /\ 1..n \subseteq 1..Len(s)
    OBVIOUS
  <1>2. \A i \in 1..n : t[i] = s[i]
    BY <1>1 DEF Grown
  <1>3. QED
    BY <1>1, <1>2 DEF Upto, Chunks

LEMMA UptoGrows ==
  ASSUME NEW s, NEW m \in Nat, NEW n \in Nat, m <= n
  PROVE  Upto(s, m) \subseteq Upto(s, n)
  <1>1. 1..m \subseteq 1..n
    OBVIOUS
  <1>2. QED
    BY <1>1 DEF Upto

LEMMA ReceivedText ==
  ASSUME stream \in Seq(Events), got \in 0..Len(stream)
  PROVE  Chunks(Received) = Upto(stream, got)
  <1>1. /\ Len(stream) \in Nat /\ DOMAIN Received = 1..got
        /\ \A i \in 1..got : Received[i] = stream[i]
    BY DEF Received
  <1>2. QED
    BY <1>1 DEF Chunks, Upto

LEMMA GrownText ==
  ASSUME NEW s \in Seq(Events), NEW t, Grown(s, t)
  PROVE  Chunks(s) \subseteq Chunks(t)
  <1>1. /\ DOMAIN s = 1..Len(s) /\ DOMAIN t = 1..Len(t)
        /\ 1..Len(s) \subseteq 1..Len(t)
        /\ \A i \in 1..Len(s) : t[i] = s[i]
    BY DEF Grown
  <1>2. QED
    BY <1>1 DEF Chunks

\* An attempt whose own text is unchanged and flushed, or waits as it did.
LEMMA OwnWaits ==
  ASSUME Typed, OwnInv, Grown(stream, stream'), UNCHANGED own,
         buffer'["own"] = buffer["own"] \/ own \subseteq Chunks(stream'),
         OwnSealed',
         \/ ~(worker' = "settle" \/ (worker' = "emit" /\ block' # "body"))
         \/ own \subseteq Chunks(stream')
         \/ worker = "settle" \/ (worker = "emit" /\ block # "body")
  PROVE  OwnInv'
  <1>1. Chunks(stream) \subseteq Chunks(stream')
    BY GrownText DEF Typed, WriterTyped
  <1>2. OwnSomewhere'
    BY <1>1 DEF OwnInv, OwnSomewhere
  <1>3. OwnFlushed'
    BY <1>1 DEF OwnInv, OwnFlushed
  <1>4. QED
    BY <1>2, <1>3 DEF OwnInv

LEMMA OwnStaysSealed ==
  ASSUME EndInv, OwnInv, [Next]_vars
  PROVE  OwnSealed'
  <1>1. /\ stream \in Seq(Events) /\ Len(stream) \in Nat /\ sealed \in 0..Len(stream)
        /\ Grown(stream, stream') /\ row \in {"active", "settled"}
    BY StepTyped DEF EndInv, Typed, WriterTyped, RowTypes
  <1>2. CASE row = "settled"
    <2>1. UNCHANGED <<row, sealed>>
      BY <1>2, RowStep, SettledStays DEF EndInv
    <2>2. UNCHANGED own
      <3>1. worker # "stream"
        BY <1>2 DEF EndInv, Settling
      <3>2. QED
        BY <1>2, <3>1 DEF Next, WorkerStep, ReaderStep, FaultStep, Start, LoadingChunk, OtherChunk,
           VerdictChunk, EmitEvent, SettleRun, AppendEnd, Exhausted, ObserveCancel, Handle,
           Connect, ReadStatus, ReadEvents, SendEvent, CheckRun, Expire, Crash, Raise,
           HandlerFails, FlushCancelled, Disconnect, SseError, writerVars, vars
    <2>3. Upto(stream', sealed) = Upto(stream, sealed)
      BY <1>1, UptoFacts
    <2>4. QED
      BY <1>2, <2>1, <2>2, <2>3 DEF OwnInv, OwnSealed
  <1>3. CASE row = "active"
    <2>1. CASE UNCHANGED row
      BY <1>3, <2>1 DEF OwnSealed
    <2>2. CASE Start
      <3>1. own' = {}
        BY <1>3, <2>2 DEF Start
      <3>2. QED
        BY <3>1 DEF OwnSealed
    <2>3. CASE SettleRun
      <3>1. UNCHANGED <<stream, own>> /\ sealed' = Len(stream) /\ worker = "settle"
        BY <1>3, <2>3 DEF SettleRun, Settle, writerVars
      <3>2. own \subseteq Chunks(stream)
        BY <3>1 DEF OwnInv, OwnFlushed
      <3>3. Upto(stream, Len(stream)) = Chunks(stream)
        BY <1>1, UptoFacts
      <3>4. QED
        BY <3>1, <3>2, <3>3 DEF OwnSealed
    <2>4. UNCHANGED row \/ Start \/ SettleRun
      BY DEF Next, WorkerStep, ReaderStep, FaultStep, LoadingChunk, OtherChunk,
           VerdictChunk, EmitEvent, AppendEnd, Exhausted, ObserveCancel, Handle,
           Connect, ReadStatus, ReadEvents, SendEvent, CheckRun, Expire, Crash, Raise,
           HandlerFails, FlushCancelled, Disconnect, SseError, vars
    <2>5. QED
      BY <2>1, <2>2, <2>3, <2>4
  <1>4. QED
    BY <1>1, <1>2, <1>3

LEMMA OwnStep ==
  ASSUME EndInv, OwnInv, [Next]_vars
  PROVE  OwnInv'
  <1>1. /\ Typed /\ Typed' /\ Grown(stream, stream') /\ OwnSealed'
        /\ WriterTyped /\ stream \in Seq(Events) /\ OwnSomewhere
        /\ Chunks(stream) \subseteq Chunks(stream')
    BY StepTyped, OwnStaysSealed, GrownText DEF EndInv, Typed, WriterTyped, OwnInv
  <1>2. CASE Start
    <2>1. worker' \in {"done", "stream"}
      BY <1>2 DEF Start
    <2>2. CASE own' = {}
      BY <1>1, <2>1, <2>2 DEF OwnInv, OwnSomewhere, OwnFlushed
    <2>3. CASE row = "settled" /\ UNCHANGED <<row, stream, sealed, own>>
      <3>1. own \subseteq Chunks(stream)
        <4>1. sealed \in 0..Len(stream)
          BY <1>1 DEF Typed, RowTypes
        <4>2. Upto(stream, sealed) \subseteq Chunks(stream)
          BY <1>1, <4>1, UptoFacts
        <4>3. QED
          BY <2>3, <4>2 DEF OwnInv, OwnSealed
      <3>2. QED
        BY <1>1, <2>1, <2>3, <3>1, OwnWaits
    <2>4. QED
      BY <1>2, <2>2, <2>3 DEF Start
  <1>3. ASSUME NEW l \in Lanes, LoadingChunk(l) PROVE OwnInv'
    <2>1. PICK c \in 1..MaxChunks :
            /\ c = made' /\ own' = IF l = "own" THEN own \cup {c} ELSE own
            /\ AppendChunk(l, c)
      <3>1. made' \in 1..MaxChunks
        BY <1>1, <1>3, Numbers DEF Typed, TextTypes, LoadingChunk
      <3>2. /\ own' = IF l = "own" THEN own \cup {made'} ELSE own
            /\ AppendChunk(l, made')
        BY <1>3 DEF LoadingChunk
      <3>3. QED
        BY <3>1, <3>2
    <2>2. worker' = "stream"
      BY <1>3 DEF LoadingChunk, jobVars
    <2>3. "own" \in Lanes /\ buffer["own"] \in Seq(1..MaxChunks)
      BY <1>1, BufferTyped DEF WriterTyped, Lanes
    <2>4. CASE l = "own"
      <3>1. own' = own \cup {c}
        BY <2>1, <2>4
      <3>2. CASE stream' = stream /\ buffer'[l] = Append(buffer[l], c)
        <4>1. ToSet(buffer'["own"]) = ToSet(buffer["own"]) \cup {c}
          BY <2>3, <2>4, <3>2, AppendText
        <4>2. QED
          BY <1>1, <2>2, <3>1, <3>2, <4>1 DEF OwnInv, OwnSomewhere, OwnFlushed
      <3>3. CASE Adds(stream, stream', ToSet(buffer[l]) \cup {c})
        <4>1. Chunks(stream') = Chunks(stream) \cup ToSet(buffer["own"]) \cup {c}
          BY <2>4, <3>3 DEF Adds
        <4>2. QED
          BY <1>1, <2>2, <3>1, <4>1 DEF OwnInv, OwnSomewhere, OwnFlushed
      <3>4. QED
        BY <1>1, <2>1, <3>2, <3>3, AppendChunkFacts
    <2>5. CASE l # "own"
      <3>1. buffer'["own"] = buffer["own"]
        BY <1>1, <2>1, <2>3, <2>5, AppendChunkFacts
      <3>2. QED
        BY <1>1, <2>1, <2>2, <2>5, <3>1, OwnWaits
    <2>6. QED
      BY <2>4, <2>5
  <1>4. ASSUME NEW l \in Lanes, FlushLane(l), UNCHANGED own,
               l = "own" \/ (worker' = "emit" /\ block' = "body")
        PROVE  OwnInv'
    <2>1. "own" \in Lanes
      BY DEF Lanes
    <2>2. CASE l = "own"
      <3>1. Adds(stream, stream', ToSet(buffer["own"]))
        BY <1>1, <1>4, <2>2, FlushLaneFacts
      <3>2. own \subseteq Chunks(stream')
        BY <1>1, <3>1 DEF OwnSomewhere, Adds
      <3>3. QED
        BY <1>1, <1>4, <3>2, OwnWaits
    <2>3. CASE l # "own"
      <3>1. buffer'["own"] = buffer["own"]
        BY <1>1, <1>4, <2>1, <2>3, FlushLaneFacts
      <3>2. QED
        BY <1>1, <1>4, <2>3, <3>1, OwnWaits
    <2>4. QED
      BY <2>2, <2>3
  <1>5. CASE VerdictChunk
    BY <1>4, <1>5 DEF VerdictChunk, Lanes
  <1>6. ASSUME NEW l \in Lanes, OtherChunk(l) PROVE OwnInv'
    BY <1>4, <1>6 DEF OtherChunk, Goto
  <1>7. CASE Exhausted \/ Handle
    <2>1. FlushAll /\ UNCHANGED own
      BY <1>7 DEF Exhausted, Handle
    <2>2. Adds(stream, stream', ToSet(buffer["own"]) \cup ToSet(buffer["child"]))
      BY <1>1, <2>1, FlushAllFacts
    <2>3. own \subseteq Chunks(stream')
      BY <1>1, <2>2 DEF OwnSomewhere, Adds
    <2>4. QED
      BY <1>1, <2>1, <2>3, OwnWaits
  <1>8. CASE EmitEvent \/ SettleRun \/ AppendEnd \/ ObserveCancel
    <2>1. UNCHANGED <<buffer, own>>
      BY <1>8 DEF EmitEvent, SettleRun, AppendEnd, ObserveCancel, writerVars
    <2>2. \/ ~(worker' = "settle" \/ (worker' = "emit" /\ block' # "body"))
          \/ worker = "emit" /\ block # "body"
      BY <1>8 DEF EmitEvent, SettleRun, AppendEnd, ObserveCancel, Goto
    <2>3. QED
      BY <1>1, <2>1, <2>2, OwnWaits
  <1>9. CASE Crash \/ Raise \/ HandlerFails \/ \E l \in Lanes : FlushCancelled(l)
    <2>1. UNCHANGED <<buffer, own>> /\ worker' \in {"queued", "handle", "done"}
      BY <1>9 DEF Crash, Raise, HandlerFails, FlushCancelled, writerVars, Goto
    <2>2. QED
      BY <1>1, <2>1, OwnWaits
  <1>10. CASE ReaderStep \/ Expire \/ Disconnect \/ SseError \/ UNCHANGED vars
    <2>1. UNCHANGED <<buffer, own, worker, block>>
      BY <1>10 DEF ReaderStep, Connect, ReadStatus, ReadEvents, SendEvent, CheckRun, Expire,
                   Disconnect, SseError, writerVars, jobVars, vars
    <2>2. QED
      BY <1>1, <2>1, OwnWaits
  <1>11. QED
    BY <1>2, <1>3, <1>5, <1>6, <1>7, <1>8, <1>9, <1>10 DEF Next, WorkerStep, FaultStep

\* Whoever is told that the run has ended has got every visible event that preceded
\* the settlement and all text of the deciding attempt (stream_agent_run_events in
\* agent_run_service.py against process_agent_run in run_worker.py).
THEOREM EndsAreComplete == Spec => []EndIsComplete
  <1>1. Init => OwnInv
    BY DEF Init, OwnInv, OwnSomewhere, OwnFlushed, OwnSealed
  <1>2. EndInv /\ OwnInv /\ [Next]_vars => OwnInv'
    BY OwnStep
  <1>3. EndInv /\ OwnInv => EndIsComplete
    <2> SUFFICES ASSUME EndInv, OwnInv, how = "end" PROVE EndIsComplete
      BY DEF EndIsComplete
    <2>1. /\ stream \in Seq(Events) /\ got \in 0..Len(stream) /\ sealed \in 0..Len(stream)
          /\ Len(stream) \in Nat
      BY DEF EndInv, Typed, WriterTyped, RowTypes, ReaderTypes
    <2>2. row = "settled" /\ sealed <= got
      BY DEF EndInv, Told
    <2>3. own \subseteq Chunks(Received)
      BY <2>1, <2>2, ReceivedText, UptoGrows DEF OwnInv, OwnSealed
    <2>4. \A i \in 1..sealed : i <= got
      BY <2>1, <2>2
    <2>5. QED
      BY <2>2, <2>3, <2>4 DEF EndIsComplete
  <1>4. QED
    BY <1>1, <1>2, <1>3, EndsHold, PTL DEF Spec

-----------------------------------------------------------------------------
(* No text is left behind, as long as no step fails.                       *)

Buffered == ToSet(buffer["own"]) \cup ToSet(buffer["child"])

\* All text is in the stream or waits; where the worker stands tells when none waits.
AllSomewhere == Chunks(stream) \cup Buffered = 1..made
AllFlushed ==
  \/ worker = "done"
  \/ worker \in {"settle", "announce"} /\ block # "verdict"
  \/ worker = "emit" /\ block \notin {"body", "verdict"}
LeftInv ==
  faults = 0 =>
    /\ AllSomewhere
    /\ worker = "queued" => made = 0
    /\ block \in {"body", "verdict", "drained", "cancel"}
    /\ AllFlushed => Buffered = {}

LEMMA TwoLanes == Lanes = {"own", "child"} /\ "own" \in Lanes /\ "child" \in Lanes
  BY DEF Lanes

\* The text of a lane is flushed, or one more chunk of it comes.
LEMMA LaneFlushed ==
  ASSUME NEW l \in Lanes, ToSet(buffer'[l]) = {},
         \A k \in Lanes \ {l} : buffer'[k] = buffer[k],
         NEW C, Chunks(stream') = Chunks(stream) \cup ToSet(buffer[l]) \cup C
  PROVE  /\ Chunks(stream') \cup Buffered' = Chunks(stream) \cup Buffered \cup C
         /\ Buffered' \subseteq Buffered
  <1>1. CASE l = "own"
    BY <1>1, TwoLanes DEF Buffered
  <1>2. CASE l = "child"
    BY <1>2, TwoLanes DEF Buffered
  <1>3. QED
    BY <1>1, <1>2, TwoLanes

LEMMA LaneLonger ==
  ASSUME NEW l \in Lanes, NEW c, ToSet(buffer'[l]) = ToSet(buffer[l]) \cup {c},
         \A k \in Lanes \ {l} : buffer'[k] = buffer[k], stream' = stream
  PROVE  Chunks(stream') \cup Buffered' = Chunks(stream) \cup Buffered \cup {c}
  <1>1. CASE l = "own"
    BY <1>1, TwoLanes DEF Buffered
  <1>2. CASE l = "child"
    BY <1>2, TwoLanes DEF Buffered
  <1>3. QED
    BY <1>1, <1>2, TwoLanes

LEMMA LeftStep ==
  ASSUME Typed, Typed', LeftInv, [Next]_vars, Settling
  PROVE  LeftInv'
  <1> SUFFICES ASSUME faults' = 0
               PROVE  /\ AllSomewhere' /\ (worker' = "queued" => made' = 0)
                      /\ block' \in {"body", "verdict", "drained", "cancel"}
                      /\ AllFlushed' => Buffered' = {}
    BY DEF LeftInv
  <1>1. /\ WriterTyped /\ stream \in Seq(Events) /\ made \in 0..MaxChunks /\ MaxChunks \in Nat
        /\ faults \in Nat
    BY Numbers DEF Typed, WriterTyped, TextTypes
  <1>2. ~FaultStep /\ faults = 0
    <2>1. \A k : Fault(k) => faults' # 0
      BY <1>1 DEF Fault
    <2>2. ~FaultStep
      BY <2>1 DEF FaultStep, Crash, Raise, HandlerFails, FlushCancelled, Disconnect, SseError
    <2>3. QED
      BY <2>2 DEF Next, WorkerStep, ReaderStep, FaultStep, Start, LoadingChunk, OtherChunk,
           VerdictChunk, EmitEvent, SettleRun, AppendEnd, Exhausted, ObserveCancel, Handle,
           Connect, ReadStatus, ReadEvents, SendEvent, CheckRun, Expire, vars
  <1>3. /\ AllSomewhere /\ (worker = "queued" => made = 0)
        /\ block \in {"body", "verdict", "drained", "cancel"}
        /\ AllFlushed => Buffered = {}
    BY <1>2 DEF LeftInv
  <1>4. CASE Start
    <2>1. made = 0 /\ made' = made /\ block' = "body" /\ worker' # "queued"
      BY <1>3, <1>4 DEF Start
    <2>2. buffer'["own"] = <<>> /\ buffer'["child"] = <<>>
      BY <1>4, TwoLanes DEF Start
    <2>3. Buffered' = {}
      BY <2>2, NoText DEF Buffered
    <2>4. Chunks(stream') = Chunks(stream)
      <3>1. CASE UNCHANGED stream
        BY <3>1
      <3>2. CASE stream' = Append(stream, Event("metadata"))
        BY <1>1, <3>2, NoteFacts DEF Kinds, Adds
      <3>3. QED
        BY <1>4, <3>1, <3>2 DEF Start
    <2>5. 1..made = {}
      BY <2>1
    <2>6. AllSomewhere'
      BY <1>3, <2>1, <2>3, <2>4, <2>5 DEF AllSomewhere
    <2>7. QED
      BY <2>1, <2>3, <2>6
  <1>5. ASSUME NEW l \in Lanes, LoadingChunk(l)
        PROVE  AllSomewhere' /\ worker' = "stream" /\ block' = block
    <2>1. made' \in 1..MaxChunks /\ made' = made + 1 /\ AppendChunk(l, made')
      BY <1>1, <1>5 DEF Typed, TextTypes, LoadingChunk
    <2>2. 1..made' = 1..made \cup {made'}
      BY <1>1, <2>1
    <2>3. PICK c \in 1..MaxChunks : c = made' /\ AppendChunk(l, c)
      BY <2>1
    <2>4. buffer[l] \in Seq(1..MaxChunks)
      BY <1>1, BufferTyped DEF WriterTyped
    <2>5. CASE stream' = stream /\ buffer'[l] = Append(buffer[l], c)
      <3>1. ToSet(buffer'[l]) = ToSet(buffer[l]) \cup {c}
        BY <2>4, <2>5, AppendText
      <3>2. \A k \in Lanes \ {l} : buffer'[k] = buffer[k]
        BY <1>1, <2>3, AppendChunkFacts
      <3>3. Chunks(stream') \cup Buffered' = Chunks(stream) \cup Buffered \cup {c}
        BY <2>5, <3>1, <3>2, LaneLonger
      <3>4. QED
        BY <1>3, <1>5, <2>2, <2>3, <3>3 DEF AllSomewhere, LoadingChunk, jobVars
    <2>6. CASE buffer'[l] = <<>> /\ Adds(stream, stream', ToSet(buffer[l]) \cup {c})
      <3>1. Chunks(stream') = Chunks(stream) \cup ToSet(buffer[l]) \cup {c}
        BY <2>6 DEF Adds
      <3>2. ToSet(buffer'[l]) = {}
        BY <2>6, NoText
      <3>3. \A k \in Lanes \ {l} : buffer'[k] = buffer[k]
        BY <1>1, <2>3, AppendChunkFacts
      <3>4. Chunks(stream') \cup Buffered' = Chunks(stream) \cup Buffered \cup {c}
        BY <3>1, <3>2, <3>3, LaneFlushed
      <3>5. QED
        BY <1>3, <1>5, <2>2, <2>3, <3>4 DEF AllSomewhere, LoadingChunk, jobVars
    <2>7. QED
      BY <1>1, <2>3, <2>5, <2>6, AppendChunkFacts
  <1>6. ASSUME NEW l \in Lanes, FlushLane(l), UNCHANGED made
        PROVE  AllSomewhere' /\ Buffered' \subseteq Buffered
    <2>1. Chunks(stream') = Chunks(stream) \cup ToSet(buffer[l]) \cup {}
      BY <1>1, <1>6, FlushLaneFacts DEF Adds
    <2>2. ToSet(buffer'[l]) = {} /\ \A k \in Lanes \ {l} : buffer'[k] = buffer[k]
      BY <1>1, <1>6, FlushLaneFacts, NoText
    <2>3. /\ Chunks(stream') \cup Buffered' = Chunks(stream) \cup Buffered \cup {}
          /\ Buffered' \subseteq Buffered
      BY <2>1, <2>2, LaneFlushed
    <2>4. QED
      BY <1>3, <1>6, <2>3 DEF AllSomewhere
  <1>7. ASSUME NEW l \in Lanes, OtherChunk(l)
        PROVE  AllSomewhere' /\ worker' = "emit" /\ block' = "body"
    BY <1>6, <1>7 DEF OtherChunk, Goto
  <1>8. CASE VerdictChunk
    BY <1>6, <1>8, TwoLanes DEF VerdictChunk, Goto, AllFlushed
  <1>9. CASE Exhausted \/ Handle
    <2>1. FlushAll /\ UNCHANGED made
      BY <1>9 DEF Exhausted, Handle
    <2>2. buffer'["own"] = <<>> /\ buffer'["child"] = <<>>
      BY <1>1, <2>1, FlushAllFacts, TwoLanes
    <2>3. Buffered' = {}
      BY <2>2, NoText DEF Buffered
    <2>4. Chunks(stream') = Chunks(stream) \cup Buffered
      BY <1>1, <2>1, FlushAllFacts DEF Adds, Buffered
    <2>5. AllSomewhere'
      BY <1>3, <2>1, <2>3, <2>4 DEF AllSomewhere
    <2>6. worker' # "queued" /\ block' \in {block, "drained"}
      BY <1>9 DEF Exhausted, Handle, Goto
    <2>7. QED
      BY <1>3, <2>3, <2>5, <2>6
  <1>10. ASSUME Chunks(stream') = Chunks(stream), UNCHANGED <<buffer, made>>
         PROVE  AllSomewhere' /\ Buffered' = Buffered
    BY <1>3, <1>10 DEF AllSomewhere, Buffered
  <1>11. CASE EmitEvent
    <2>1. PICK k \in {"retry", "error", "custom"} : stream' = Append(stream, Event(k))
      BY <1>11 DEF EmitEvent
    <2>2. Chunks(stream') = Chunks(stream)
      BY <1>1, <2>1, NoteFacts DEF Kinds, Adds
    <2>3. AllSomewhere' /\ Buffered' = Buffered
      BY <1>10, <1>11, <2>2 DEF EmitEvent, writerVars
    <2>4. /\ block' = block
          /\ \/ block = "body" /\ worker' = "stream"
             \/ block \in {"verdict", "cancel"} /\ worker' = "settle"
      BY <1>3, <1>11 DEF EmitEvent, Goto
    <2>5. QED
      BY <1>3, <1>11, <2>3, <2>4 DEF AllFlushed, EmitEvent
  <1>12. CASE AppendEnd
    <2>1. Chunks(stream') = Chunks(stream)
      <3>1. PICK e \in Events : e = Event("end") /\ e.items = <<>>
        BY EventTyped DEF Kinds
      <3>2. QED
        BY <1>1, <1>12, <3>1, AppendGrows, NoText DEF AppendEnd
    <2>2. AllSomewhere' /\ Buffered' = Buffered
      BY <1>10, <1>12, <2>1 DEF AppendEnd, writerVars
    <2>3. /\ worker = "announce" /\ block' = block
          /\ worker' = IF block = "verdict" THEN "tail" ELSE "done"
      BY <1>12 DEF AppendEnd, Goto
    <2>4. QED
      BY <1>3, <2>2, <2>3 DEF AllFlushed
  <1>13. CASE SettleRun \/ ObserveCancel
    <2>1. AllSomewhere' /\ Buffered' = Buffered
      BY <1>10, <1>13 DEF SettleRun, ObserveCancel, writerVars
    <2>2. \/ worker = "settle" /\ worker' = "announce" /\ block' = block
          \/ worker' = "handle" /\ block' = "cancel"
      BY <1>13 DEF SettleRun, ObserveCancel, Goto
    <2>3. QED
      BY <1>3, <2>1, <2>2 DEF AllFlushed
  <1>14. CASE ReaderStep \/ Expire \/ UNCHANGED vars
    <2>1. UNCHANGED <<stream, buffer, made, worker, block>>
      BY <1>14 DEF ReaderStep, Connect, ReadStatus, ReadEvents, SendEvent, CheckRun, Expire,
                   writerVars, jobVars, vars
    <2>2. AllSomewhere' /\ Buffered' = Buffered
      BY <1>10, <2>1
    <2>3. QED
      BY <1>3, <2>1, <2>2 DEF AllFlushed
  <1>15. CASE \E l \in Lanes : LoadingChunk(l) \/ OtherChunk(l)
    BY <1>3, <1>5, <1>7, <1>15 DEF AllFlushed
  <1>16. QED
    BY <1>2, <1>4, <1>8, <1>9, <1>11, <1>12, <1>13, <1>14, <1>15 DEF Next, WorkerStep

\* Unless a step fails, no text is left behind in the writer, whichever way the
\* attempt ends (process_agent_run and its ChunkedEventWriter in run_worker.py).
THEOREM TextIsFlushed == Spec => []NoTextLeftBehind
  <1>1. Init => LeftInv
    <2> SUFFICES ASSUME Init PROVE LeftInv
      OBVIOUS
    <2>1. stream = <<>> /\ made = 0 /\ worker = "queued" /\ block = "body"
          /\ buffer["own"] = <<>> /\ buffer["child"] = <<>>
      BY TwoLanes DEF Init
    <2>2. Buffered = {}
      BY <2>1, NoText DEF Buffered
    <2>3. Chunks(stream) = {}
      BY <2>1 DEF Chunks
    <2>4. 1..made = {}
      BY <2>1
    <2>5. QED
      BY <2>1, <2>2, <2>3, <2>4 DEF LeftInv, AllSomewhere
  <1>2. EndInv /\ LeftInv /\ [Next]_vars => LeftInv'
    BY LeftStep, StepTyped DEF EndInv
  <1>3. LeftInv => NoTextLeftBehind
    BY DEF LeftInv, NoTextLeftBehind, AllSomewhere, AllFlushed
  <1>4. QED
    BY <1>1, <1>2, <1>3, EndsHold, PTL DEF Spec

-----------------------------------------------------------------------------
(* The order of the text of a lane.                                        *)

Sorted(chunks) == \A i, j \in DOMAIN chunks : i < j => chunks[i] < chunks[j]

\* Behind the first n events of s, the chunks of D are in order on lane l: what is
\* larger and already there has the chunk before it.
Occurs(s, l, n, d) == \E k \in 1..n : s[k].lane = l /\ d \in ToSet(s[k].items)
Due(s, l, n, D) ==
  \A m \in 1..n : s[m].lane = l =>
    \A c \in ToSet(s[m].items), d \in D : c > d => Occurs(s, l, m, d)
InOrder(s, l) ==
  \A n \in 1..Len(s) : s[n].lane = l => Due(s, l, n - 1, ToSet(s[n].items))

\* Events and buffers are sorted, and both the stream and what waits are in order.
Orderly(s, b, n) ==
  /\ \A m \in 1..Len(s) : Sorted(s[m].items) /\ ToSet(s[m].items) \subseteq 1..n
  /\ \A l \in Lanes : Sorted(b[l]) /\ ToSet(b[l]) \subseteq 1..n
  /\ \A l \in Lanes : InOrder(s, l) /\ Due(s, l, Len(s), ToSet(b[l]))

LEMMA DuePrefix ==
  ASSUME NEW s \in Seq(Events), NEW t, Grown(s, t), NEW l, NEW n \in 0..Len(s), NEW D
  PROVE  Due(t, l, n, D) <=> Due(s, l, n, D)
  <1>1. Len(s) \in Nat /\ \A i \in 1..n : t[i] = s[i]
    BY DEF Grown
  <1>2. \A m \in 1..n : 1..m \subseteq 1..n
    BY <1>1
  <1>3. \A d : \A m \in 1..n : Occurs(t, l, m, d) <=> Occurs(s, l, m, d)
    BY <1>1, <1>2 DEF Occurs
  <1>4. QED
    BY <1>1, <1>3 DEF Due

\* One more event of a lane, whose text is due.
LEMMA OneMore ==
  ASSUME NEW s \in Seq(Events), NEW e \in Events, NEW l, InOrder(s, l),
         e.lane = l => Due(s, l, Len(s), ToSet(e.items))
  PROVE  InOrder(Append(s, e), l)
  <1>1. PICK t : t = Append(s, e)
    OBVIOUS
  <1>2. /\ Len(s) \in Nat /\ Len(t) = Len(s) + 1 /\ t[Len(s) + 1] = e /\ Grown(s, t)
        /\ \A i \in 1..Len(s) : t[i] = s[i]
    BY <1>1, AppendFacts, AppendGrows DEF Grown
  <1>3. ASSUME NEW n \in 1..Len(s), t[n].lane = l
        PROVE  Due(t, l, n - 1, ToSet(t[n].items))
    <2>1. t[n] = s[n] /\ n - 1 \in 0..Len(s)
      BY <1>2
    <2>2. Due(s, l, n - 1, ToSet(s[n].items))
      BY <1>3, <2>1 DEF InOrder
    <2>3. QED
      BY <1>2, <2>1, <2>2, DuePrefix
  <1>4. ASSUME t[Len(s) + 1].lane = l
        PROVE  Due(t, l, Len(s), ToSet(t[Len(s) + 1].items))
    <2>1. Len(s) \in 0..Len(s)
      BY <1>2
    <2>2. QED
      BY <1>2, <1>4, <2>1, DuePrefix
  <1>5. \A n \in 1..Len(t) : n \in 1..Len(s) \/ (n = Len(s) + 1 /\ n - 1 = Len(s))
    BY <1>2
  <1>6. InOrder(t, l)
    BY <1>3, <1>4, <1>5 DEF InOrder
  <1>7. QED
    BY <1>1, <1>6

\* What is due stays due behind an event of another lane, or one that has it all.
LEMMA DueStays ==
  ASSUME NEW s \in Seq(Events), NEW e \in Events, NEW l, NEW D, Due(s, l, Len(s), D),
         e.lane # l \/ ToSet(e.items) = {} \/ D \subseteq ToSet(e.items)
  PROVE  Due(Append(s, e), l, Len(s) + 1, D)
  <1>1. PICK t : t = Append(s, e)
    OBVIOUS
  <1>2. /\ Len(s) \in Nat /\ Len(t) = Len(s) + 1 /\ t[Len(s) + 1] = e /\ Grown(s, t)
        /\ Len(s) \in 0..Len(s)
    BY <1>1, AppendFacts, AppendGrows
  <1>3. Due(t, l, Len(s), D)
    BY <1>2, DuePrefix
  <1>4. ASSUME NEW c \in ToSet(e.items), NEW d \in D, e.lane = l
        PROVE  Occurs(t, l, Len(s) + 1, d)
    <2>1. Len(s) + 1 \in 1..(Len(s) + 1) /\ d \in ToSet(e.items)
      BY <1>2, <1>4
    <2>2. QED
      BY <1>2, <1>4, <2>1 DEF Occurs
  <1>5. \A n \in 1..(Len(s) + 1) : n \in 1..Len(s) \/ n = Len(s) + 1
    BY <1>2
  <1>6. Due(t, l, Len(s) + 1, D)
    BY <1>2, <1>3, <1>4, <1>5 DEF Due
  <1>7. QED
    BY <1>1, <1>6

\* An event whose text is sorted and due on its lane keeps the order, if what waits
\* on its lane is part of it, or if it has no text.
LEMMA EventOrderly ==
  ASSUME NEW s \in Seq(Events), NEW b \in [Lanes -> Seq(1..MaxChunks)], NEW n,
         Orderly(s, b, n), NEW e \in Events,
         e.items = <<>> \/ e.items = b[e.lane]
  PROVE  Orderly(Append(s, e), b, n)
  <1>1. PICK t : t = Append(s, e)
    OBVIOUS
  <1>2. /\ Len(s) \in Nat /\ Len(t) = Len(s) + 1 /\ t[Len(s) + 1] = e
        /\ \A i \in 1..Len(s) : t[i] = s[i]
        /\ \A i \in 1..Len(t) : i \in 1..Len(s) \/ i = Len(s) + 1
    BY <1>1, AppendFacts
  <1>3. e.lane \in Lanes
    BY EventFields
  <1>4. Sorted(e.items) /\ ToSet(e.items) \subseteq 1..n
    <2>1. Sorted(<<>>)
      BY DEF Sorted
    <2>2. QED
      BY <1>3, <2>1, NoText DEF Orderly
  <1>5. \A m \in 1..Len(t) : Sorted(t[m].items) /\ ToSet(t[m].items) \subseteq 1..n
    BY <1>2, <1>4 DEF Orderly
  <1>6. ASSUME NEW l \in Lanes PROVE InOrder(t, l) /\ Due(t, l, Len(t), ToSet(b[l]))
    <2>1. InOrder(s, l) /\ Due(s, l, Len(s), ToSet(b[l]))
      BY DEF Orderly
    <2>2. e.lane = l => Due(s, l, Len(s), ToSet(e.items))
      <3>1. Due(s, l, Len(s), {})
        BY DEF Due
      <3>2. QED
        BY <2>1, <3>1, NoText
    <2>3. InOrder(t, l)
      BY <1>1, <2>1, <2>2, OneMore
    <2>4. e.lane # l \/ ToSet(e.items) = {} \/ ToSet(b[l]) \subseteq ToSet(e.items)
      BY NoText
    <2>5. Due(t, l, Len(s) + 1, ToSet(b[l]))
      BY <1>1, <2>1, <2>4, DueStays
    <2>6. QED
      BY <1>2, <2>3, <2>5
  <1>7. Orderly(t, b, n)
    BY <1>5, <1>6 DEF Orderly
  <1>8. QED
    BY <1>1, <1>7

LEMMA FlushOrderly ==
  ASSUME NEW s \in Seq(Events), NEW b \in [Lanes -> Seq(1..MaxChunks)], NEW n,
         Orderly(s, b, n), NEW l \in Lanes
  PROVE  /\ Orderly(Append(s, Messages(l, b[l])), b, n)
         /\ Orderly(s \o Flushed(l, b[l]), b, n)
  <1>1. b[l] \in Seq(1..MaxChunks)
    OBVIOUS
  <1>2. PICK e \in Events : e = Messages(l, b[l]) /\ e.lane = l /\ e.items = b[l]
    BY <1>1, MessagesTyped
  <1>3. Orderly(Append(s, e), b, n)
    BY <1>2, EventOrderly
  <1>4. s \o Flushed(l, b[l]) = IF b[l] = <<>> THEN s ELSE Append(s, e)
    BY <1>1, <1>2, FlushedAdds
  <1>5. QED
    BY <1>2, <1>3, <1>4

LEMMA ResetOrderly ==
  ASSUME NEW s \in Seq(Events), NEW b, NEW n, Orderly(s, b, n),
         NEW a, \A l \in Lanes : a[l] = b[l] \/ a[l] = <<>>
  PROVE  Orderly(s, a, n)
  <1>1. Sorted(<<>>) /\ \A l : Due(s, l, Len(s), ToSet(<<>>))
    BY NoText DEF Sorted, Due
  <1>2. ASSUME NEW l \in Lanes
        PROVE  /\ Sorted(a[l]) /\ ToSet(a[l]) \subseteq 1..n
               /\ Due(s, l, Len(s), ToSet(a[l]))
    BY <1>1, NoText DEF Orderly
  <1>3. QED
    BY <1>2 DEF Orderly

\* The next chunk is larger than all there is.
LEMMA NextOrderly ==
  ASSUME NEW s \in Seq(Events), NEW b \in [Lanes -> Seq(1..MaxChunks)], NEW n \in Nat,
         Orderly(s, b, n), NEW l \in Lanes,
         NEW a, a[l] = Append(b[l], n + 1), \A k \in Lanes \ {l} : a[k] = b[k]
  PROVE  Orderly(s, a, n + 1)
  <1>1. 1..n \subseteq 1..(n + 1) /\ n + 1 \in 1..(n + 1)
    OBVIOUS
  <1>2. b[l] \in Seq(1..MaxChunks) /\ Sorted(b[l]) /\ ToSet(b[l]) \subseteq 1..n
    BY DEF Orderly
  <1>3. ToSet(a[l]) = ToSet(b[l]) \cup {n + 1}
    BY <1>2, AppendText
  <1>4. Sorted(a[l])
    <2>1. /\ Len(b[l]) \in Nat /\ DOMAIN b[l] = 1..Len(b[l])
          /\ DOMAIN a[l] = 1..(Len(b[l]) + 1) /\ a[l][Len(b[l]) + 1] = n + 1
          /\ \A i \in 1..Len(b[l]) : a[l][i] = b[l][i]
      BY <1>2
    <2>2. \A i \in 1..Len(b[l]) : b[l][i] \in 1..n
      BY <1>2, <2>1 DEF ToSet
    <2>3. ASSUME NEW i \in DOMAIN a[l], NEW j \in DOMAIN a[l], i < j
          PROVE  a[l][i] < a[l][j]
      <3>1. i \in 1..Len(b[l])
        BY <2>1, <2>3
      <3>2. CASE j = Len(b[l]) + 1
        BY <2>1, <2>2, <3>1, <3>2
      <3>3. CASE j \in 1..Len(b[l])
        BY <1>2, <2>1, <2>3, <3>1, <3>3 DEF Sorted
      <3>4. QED
        BY <2>1, <3>2, <3>3
    <2>4. QED
      BY <2>3 DEF Sorted
  <1>5. Due(s, l, Len(s), ToSet(a[l]))
    <2>1. Due(s, l, Len(s), ToSet(b[l]))
      BY DEF Orderly
    <2>2. ASSUME NEW m \in 1..Len(s), NEW c \in ToSet(s[m].items) PROVE ~(c > n + 1)
      <3>1. c \in 1..n
        BY DEF Orderly
      <3>2. QED
        BY <3>1
    <2>3. QED
      BY <1>3, <2>1, <2>2 DEF Due
  <1>6. ASSUME NEW k \in Lanes
        PROVE  /\ Sorted(a[k]) /\ ToSet(a[k]) \subseteq 1..(n + 1)
               /\ Due(s, k, Len(s), ToSet(a[k]))
    <2>1. CASE k = l
      BY <1>1, <1>2, <1>3, <1>4, <1>5, <2>1
    <2>2. CASE k # l
      BY <1>1, <2>2 DEF Orderly
    <2>3. QED
      BY <2>1, <2>2
  <1>7. \A m \in 1..Len(s) : Sorted(s[m].items) /\ ToSet(s[m].items) \subseteq 1..(n + 1)
    BY <1>1 DEF Orderly
  <1>8. QED
    <2>1. \A k \in Lanes : InOrder(s, k)
      BY DEF Orderly
    <2>2. QED
      BY <1>6, <1>7, <2>1 DEF Orderly

\* What waits on a lane is written together with the next chunk.
LEMMA NextFlushed ==
  ASSUME NEW s \in Seq(Events), NEW b \in [Lanes -> Seq(1..MaxChunks)], NEW n \in Nat,
         Orderly(s, b, n), NEW l \in Lanes, n + 1 \in 1..MaxChunks,
         NEW a, a[l] = <<>>, \A k \in Lanes \ {l} : a[k] = b[k]
  PROVE  Orderly(Append(s, Messages(l, Append(b[l], n + 1))), a, n + 1)
  <1>1. PICK m \in [Lanes -> Seq(1..MaxChunks)] :
          m = [b EXCEPT ![l] = Append(b[l], n + 1)]
    <2>1. PICK c \in 1..MaxChunks : c = n + 1
      OBVIOUS
    <2>2. b[l] \in Seq(1..MaxChunks)
      OBVIOUS
    <2>3. Append(b[l], c) \in Seq(1..MaxChunks)
      BY <2>2
    <2>4. QED
      BY <2>1, <2>3
  <1>2. m[l] = Append(b[l], n + 1) /\ \A k \in Lanes \ {l} : m[k] = b[k]
    BY <1>1
  <1>3. Orderly(s, m, n + 1)
    BY <1>2, NextOrderly
  <1>4. Orderly(Append(s, Messages(l, m[l])), m, n + 1)
    BY <1>3, FlushOrderly
  <1>5. Append(s, Messages(l, m[l])) \in Seq(Events)
    <2>1. PICK e \in Events : e = Messages(l, m[l])
      BY MessagesTyped
    <2>2. QED
      BY <2>1, AppendFacts
  <1>6. \A k \in Lanes : a[k] = m[k] \/ a[k] = <<>>
    BY <1>2
  <1>7. Orderly(Append(s, Messages(l, m[l])), a, n + 1)
    BY <1>4, <1>5, <1>6, ResetOrderly
  <1>8. QED
    BY <1>2, <1>7

OrderInv == Orderly(stream, buffer, made)

LEMMA OrderStep ==
  ASSUME Typed, Typed', OrderInv, [Next]_vars
  PROVE  OrderInv'
  <1>1. /\ WriterTyped /\ stream \in Seq(Events) /\ made \in 0..MaxChunks /\ MaxChunks \in Nat
        /\ buffer \in [Lanes -> Seq(1..MaxChunks)] /\ Orderly(stream, buffer, made)
        /\ stream' \in Seq(Events)
    BY Numbers DEF Typed, WriterTyped, TextTypes, OrderInv
  <1>2. CASE UNCHANGED <<stream, buffer, made>>
    BY <1>1, <1>2 DEF OrderInv
  <1>3. ASSUME NEW k \in Kinds, stream' = Append(stream, Event(k))
        PROVE  Orderly(stream', buffer, made)
    <2>1. PICK e \in Events : e = Event(k) /\ e.items = <<>>
      BY EventTyped
    <2>2. QED
      BY <1>1, <1>3, <2>1, EventOrderly
  <1>4. ASSUME NEW l \in Lanes, FlushLane(l), UNCHANGED made PROVE OrderInv'
    <2>1. Orderly(stream', buffer, made)
      BY <1>1, <1>4, FlushLaneFacts, FlushOrderly
    <2>2. \A k \in Lanes : buffer'[k] = buffer[k] \/ buffer'[k] = <<>>
      BY <1>1, <1>4, FlushLaneFacts
    <2>3. QED
      BY <1>1, <1>4, <2>1, <2>2, ResetOrderly DEF OrderInv
  <1>5. ASSUME FlushAll, UNCHANGED made PROVE OrderInv'
    <2>1. PICK k \in Lanes, l \in Lanes :
            stream' = (stream \o Flushed(k, buffer[k])) \o Flushed(l, buffer[l])
      BY <1>1, <1>5, FlushAllFacts
    <2>2. buffer[k] \in Seq(1..MaxChunks)
      BY <1>1
    <2>3. PICK s \in Seq(Events) : s = stream \o Flushed(k, buffer[k])
      BY <1>1, <2>2, FlushedAdds DEF Adds, Grown
    <2>4. Orderly(s, buffer, made)
      BY <1>1, <2>3, FlushOrderly
    <2>5. Orderly(stream', buffer, made)
      BY <1>1, <2>1, <2>3, <2>4, FlushOrderly
    <2>6. \A i \in Lanes : buffer'[i] = <<>>
      BY <1>1, <1>5, FlushAllFacts
    <2>7. QED
      BY <1>1, <1>5, <2>5, <2>6, ResetOrderly DEF OrderInv
  <1>6. CASE Start
    <2>1. Orderly(stream', buffer, made)
      <3>1. CASE UNCHANGED stream
        BY <1>1, <3>1
      <3>2. CASE stream' = Append(stream, Event("metadata"))
        BY <1>3, <3>2 DEF Kinds
      <3>3. QED
        BY <1>6, <3>1, <3>2 DEF Start
    <2>2. UNCHANGED made /\ \A i \in Lanes : buffer'[i] = <<>>
      BY <1>6 DEF Start
    <2>3. QED
      BY <1>1, <2>1, <2>2, ResetOrderly DEF OrderInv
  <1>7. ASSUME NEW l \in Lanes, LoadingChunk(l) PROVE OrderInv'
    <2>1. /\ made \in Nat /\ made' = made + 1 /\ made' \in 1..MaxChunks
          /\ AppendChunk(l, made')
      BY <1>1, <1>7 DEF Typed, TextTypes, LoadingChunk
    <2>2. PICK c \in 1..MaxChunks : c = made + 1 /\ made' = c /\ AppendChunk(l, c)
      BY <2>1
    <2>3. \A k \in Lanes \ {l} : buffer'[k] = buffer[k]
      BY <1>1, <2>2, AppendChunkFacts
    <2>4. CASE stream' = stream /\ buffer'[l] = Append(buffer[l], c)
      BY <1>1, <2>1, <2>2, <2>3, <2>4, NextOrderly DEF OrderInv
    <2>5. CASE stream' = Append(stream, Messages(l, Append(buffer[l], c))) /\ buffer'[l] = <<>>
      BY <1>1, <2>1, <2>2, <2>3, <2>5, NextFlushed DEF OrderInv
    <2>6. QED
      BY <1>1, <2>2, <2>4, <2>5, AppendChunkFacts
  <1>8. ASSUME NEW l \in Lanes, FlushCancelled(l) PROVE OrderInv'
    <2>1. stream' = Append(stream, Messages(l, buffer[l])) /\ UNCHANGED <<buffer, made>>
      BY <1>8 DEF FlushCancelled, writerVars
    <2>2. QED
      BY <1>1, <2>1, FlushOrderly DEF OrderInv
  <1>9. CASE EmitEvent \/ AppendEnd
    <2>1. PICK k \in Kinds : stream' = Append(stream, Event(k))
      BY <1>9 DEF EmitEvent, AppendEnd, Kinds
    <2>2. UNCHANGED <<buffer, made>>
      BY <1>9 DEF EmitEvent, AppendEnd, writerVars
    <2>3. QED
      BY <1>3, <2>1, <2>2 DEF OrderInv
  <1>10. CASE VerdictChunk
    BY <1>4, <1>10, TwoLanes DEF VerdictChunk
  <1>11. ASSUME NEW l \in Lanes, OtherChunk(l) PROVE OrderInv'
    BY <1>4, <1>11 DEF OtherChunk
  <1>12. CASE Exhausted \/ Handle
    BY <1>5, <1>12 DEF Exhausted, Handle
  <1>13. CASE SettleRun \/ ObserveCancel \/ Crash \/ Raise \/ HandlerFails
    BY <1>2, <1>13 DEF SettleRun, ObserveCancel, Crash, Raise, HandlerFails, writerVars
  <1>14. CASE ReaderStep \/ Expire \/ Disconnect \/ SseError \/ UNCHANGED vars
    BY <1>2, <1>14 DEF ReaderStep, Connect, ReadStatus, ReadEvents, SendEvent, CheckRun, Expire,
                       Disconnect, SseError, writerVars, vars
  <1>15. QED
    BY <1>6, <1>7, <1>8, <1>9, <1>10, <1>11, <1>12, <1>13, <1>14
       DEF Next, WorkerStep, FaultStep

\* A chunk of an event before q, larger than q's: Due names the place it needs.
LEMMA OrderlyLanes ==
  ASSUME Typed, OrderInv
  PROVE  LanesInOrder
  <1> SUFFICES ASSUME NEW l \in Lanes, NEW p \in Places(l), NEW q \in Places(l),
                      Before(p, q), ChunkAt(p) > ChunkAt(q)
               PROVE  \E r \in Places(l) : ~Before(p, r) /\ ChunkAt(r) = ChunkAt(q)
    BY DEF LanesInOrder
  <1>1. stream \in Seq(Events) /\ Len(stream) \in Nat /\ DOMAIN stream = 1..Len(stream)
    BY DEF Typed, WriterTyped
  <1>2. \A n, x : <<n, x>> \in Places(l) <=>
                 n \in 1..Len(stream) /\ stream[n].lane = l /\ x \in DOMAIN stream[n].items
    BY <1>1 DEF Places
  <1>3. PICK m, x : p = <<m, x>>
    BY DEF Places
  <1>4. PICK n, y : q = <<n, y>>
    BY DEF Places
  <1>5. /\ m \in 1..Len(stream) /\ stream[m].lane = l /\ x \in DOMAIN stream[m].items
        /\ n \in 1..Len(stream) /\ stream[n].lane = l /\ y \in DOMAIN stream[n].items
    BY <1>2, <1>3, <1>4
  <1>6. \A i \in 1..Len(stream) : stream[i].items \in Seq(1..MaxChunks)
    BY <1>1, EventFields
  <1>7. ASSUME NEW i \in 1..Len(stream), NEW z \in DOMAIN stream[i].items
        PROVE  z \in Nat /\ stream[i].items[z] \in Nat
    <2>1. PICK s \in Seq(1..MaxChunks) : s = stream[i].items
      BY <1>6
    <2>2. z \in DOMAIN s
      BY <2>1
    <2>3. DOMAIN s \subseteq Nat /\ \A j \in DOMAIN s : s[j] \in 1..MaxChunks
      BY SeqElements
    <2>4. z \in Nat /\ s[z] \in 1..MaxChunks
      BY <2>2, <2>3
    <2>5. QED
      BY <2>1, <2>4, Numbers
  <1>8. \A i \in 1..Len(stream) : Sorted(stream[i].items)
    BY DEF OrderInv, Orderly
  <1>9. /\ ChunkAt(p) = stream[m].items[x] /\ ChunkAt(q) = stream[n].items[y]
        /\ m < n \/ (m = n /\ x < y)
    BY <1>3, <1>4 DEF ChunkAt, Before
  <1>10. m < n
    BY <1>5, <1>7, <1>8, <1>9 DEF Sorted
  <1>11. m \in 1..(n - 1) /\ Due(stream, l, n - 1, ToSet(stream[n].items))
    BY <1>1, <1>5, <1>10 DEF OrderInv, Orderly, InOrder
  <1>12. ChunkAt(p) \in ToSet(stream[m].items) /\ ChunkAt(q) \in ToSet(stream[n].items)
    BY <1>5, <1>9 DEF ToSet
  <1>13. PICK k \in 1..m : stream[k].lane = l /\ ChunkAt(q) \in ToSet(stream[k].items)
    BY <1>5, <1>11, <1>12 DEF Due, Occurs
  <1>14. PICK z \in DOMAIN stream[k].items : stream[k].items[z] = ChunkAt(q)
    BY <1>13 DEF ToSet
  <1>15. k \in 1..Len(stream) /\ k \in Nat /\ m \in Nat
    BY <1>1, <1>5
  <1>16. <<k, z>> \in Places(l) /\ ChunkAt(<<k, z>>) = ChunkAt(q)
    BY <1>2, <1>13, <1>14, <1>15 DEF ChunkAt
  <1>17. ~Before(p, <<k, z>>)
    <2>1. SUFFICES ASSUME m < k \/ (m = k /\ x < z) PROVE FALSE
      BY <1>3 DEF Before
    <2>2. m = k /\ x < z
      BY <1>15, <2>1
    <2>3. stream[m].items[x] < stream[m].items[z]
      BY <1>5, <1>8, <1>14, <2>2 DEF Sorted
    <2>4. stream[m].items[z] < stream[m].items[x]
      BY <1>9, <1>14, <2>2
    <2>5. QED
      BY <1>5, <1>7, <1>14, <2>2, <2>3, <2>4
  <1>18. QED
    BY <1>16, <1>17

\* The text of a thread reaches the stream in the order in which it was produced
\* (ChunkedEventWriter in run_worker.py), a repeated flush aside.
THEOREM LanesStayInOrder == Spec => []LanesInOrder
  <1>1. Init => OrderInv
    <2> SUFFICES ASSUME Init PROVE OrderInv
      OBVIOUS
    <2>1. /\ stream = <<>> /\ made = 0 /\ Len(stream) = 0 /\ 1..Len(stream) = {}
          /\ \A l \in Lanes : buffer[l] = <<>>
      BY DEF Init
    <2>2. Sorted(<<>>) /\ \A l : InOrder(stream, l) /\ Due(stream, l, Len(stream), {})
      BY <2>1 DEF Sorted, InOrder, Due
    <2>3. QED
      BY <2>1, <2>2, NoText DEF OrderInv, Orderly
  <1>2. EndInv /\ OrderInv /\ [Next]_vars => OrderInv'
    BY OrderStep, StepTyped DEF EndInv
  <1>3. EndInv /\ OrderInv => LanesInOrder
    BY OrderlyLanes DEF EndInv
  <1>4. QED
    BY <1>1, <1>2, <1>3, EndsHold, PTL DEF Spec
=============================================================================

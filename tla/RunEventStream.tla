--------------------------- MODULE RunEventStream ---------------------------
(***************************************************************************)
(* The event stream of one run: the worker's chunked writer, the Redis     *)
(* stream, the SSE endpoint that reads it and the browser that follows it. *)
(*                                                                         *)
(* An event's id is its position in the stream.  Text chunks are numbers,  *)
(* counted over all attempts; a chunk goes to the lane of its thread (the  *)
(* run's own thread, or the thread of a subagent).                         *)
(***************************************************************************)
EXTENDS Naturals, SequencesExt

CONSTANTS
  MaxChunks,  \* bound on the chunks of a behaviour, over all attempts
  Limit,      \* how many events one read of the stream returns at most
  MaxTries,   \* WorkerSettings.max_tries
  Faults,     \* kinds of fault that may happen
  MaxFaults   \* bound on the number of faults

ASSUME StreamConstants ==
  /\ {MaxChunks, MaxFaults} \subseteq Nat
  /\ {Limit, MaxTries} \subseteq Nat \ {0}
  /\ Faults \subseteq {"crash", "raise", "flush", "handler", "disconnect", "sse_error"}

VARIABLES
  row,      \* the run is "active" or "settled"
  stream,   \* events in the Redis stream
  sealed,   \* how many events the stream had when the run settled
  buffer,   \* per lane, the text chunks the writer has not flushed
  made,     \* text chunks so far
  own,      \* own text chunks of the attempt
  extra,    \* other chunks so far
  worker,   \* where process_agent_run stands
  block,    \* the block of it that is running
  tries,    \* attempts
  conn,     \* the browser and its connection
  seen,     \* the status the endpoint read last
  sent,     \* the endpoint's last_seq
  upto,     \* last event of the batch the endpoint is sending
  got,      \* the browser's runLastSeq
  how,      \* what made the browser stop following the run
  faults

writerVars == <<buffer, made, own, extra>>
jobVars    == <<worker, block, tries>>
readerVars == <<conn, seen, sent, upto, got, how>>
vars == <<row, stream, sealed, writerVars, jobVars, readerVars, faults>>

Lanes == {"own", "child"}
Workers == {"queued", "stream", "emit", "settle", "announce", "tail", "handle", "done"}
BodyBlocks == {"body", "verdict", "drained"}
HandlerBlocks == {"cancel", "retry", "error"}
Connections == {"off", "status", "events", "send", "check", "final"}

Events == [kind: {"metadata", "messages", "custom", "retry", "error", "end"},
           lane: Lanes, items: Seq(1..MaxChunks)]
Event(k) == [kind |-> k, lane |-> "own", items |-> <<>>]
Messages(l, chunks) == [kind |-> "messages", lane |-> l, items |-> chunks]

Init ==
  /\ row = "active" /\ stream = <<>> /\ sealed = 0
  /\ buffer = [l \in Lanes |-> <<>>] /\ made = 0 /\ own = {} /\ extra = 0
  /\ worker = "queued" /\ block = "body" /\ tries = 0
  /\ conn = "off" /\ seen = "active" /\ sent = 0 /\ upto = 0 /\ got = 0 /\ how = "no"
  /\ faults = 0

-----------------------------------------------------------------------------
(* The chunked writer.  A flush is one append and a reset with nothing in  *)
(* between that another process could see.                                 *)

Flushed(l, chunks) == IF chunks = <<>> THEN <<>> ELSE <<Messages(l, chunks)>>

FlushLane(l) ==
  /\ stream' = stream \o Flushed(l, buffer[l])
  /\ buffer' = [buffer EXCEPT ![l] = <<>>]

\* Bug: only the run's own lane is flushed.
FlushOwnLane == FlushLane("own")
\* The lanes are flushed in the order in which they got their first chunk.
FlushAll ==
  /\ \E order \in {<<"own", "child">>, <<"child", "own">>} :
       stream' = stream \o Flushed(order[1], buffer[order[1]])
                        \o Flushed(order[2], buffer[order[2]])
  /\ buffer' = [l \in Lanes |-> <<>>]

\* Bug: a chunk that must be seen at once overtakes the buffered ones.
AppendChunkUnbuffered(l, c) ==
  \/ buffer' = [buffer EXCEPT ![l] = Append(@, c)] /\ UNCHANGED stream
  \/ stream' = Append(stream, Messages(l, <<c>>)) /\ UNCHANGED buffer
\* The chunk is buffered, and the lane flushed if the chunk is a tool call, the
\* lane is full or its last flush is too long ago.
AppendChunk(l, c) ==
  \/ buffer' = [buffer EXCEPT ![l] = Append(@, c)] /\ UNCHANGED stream
  \/ /\ stream' = Append(stream, Messages(l, Append(buffer[l], c)))
     /\ buffer' = [buffer EXCEPT ![l] = <<>>]

-----------------------------------------------------------------------------
(* The worker.                                                             *)

Goto(w, b) == worker' = w /\ block' = b /\ UNCHANGED tries

\* The row settles, unless it already has.
Settle ==
  /\ row' = "settled"
  /\ sealed' = IF row = "active" THEN Len(stream) ELSE sealed

\* A settled run is skipped; an invalid one settles without any event; the
\* others are marked running and announce themselves with a metadata event.  A
\* job that has used up its tries stays where it is.
Start ==
  /\ worker = "queued"
  /\ tries < MaxTries
  /\ tries' = tries + 1
  /\ block' = "body"
  /\ \/ /\ row = "settled"
        /\ worker' = "done"
        /\ UNCHANGED <<row, sealed, stream, own>>
     \/ /\ row = "active"
        /\ worker' = "done"
        /\ Settle
        /\ own' = {}
        /\ UNCHANGED stream
     \/ /\ row = "active"
        /\ worker' = "stream"
        /\ stream' = Append(stream, Event("metadata"))
        /\ own' = {}
        /\ UNCHANGED <<row, sealed>>
  /\ buffer' = [l \in Lanes |-> <<>>]
  /\ UNCHANGED <<made, extra, readerVars, faults>>

LoadingChunk(l) ==
  /\ worker = "stream"
  /\ made + extra < MaxChunks
  /\ made' = made + 1
  /\ own' = IF l = "own" THEN own \cup {made'} ELSE own
  /\ AppendChunk(l, made')
  /\ UNCHANGED <<row, sealed, extra, jobVars, readerVars, faults>>

OtherChunk(l) ==
  /\ worker = "stream"
  /\ made + extra < MaxChunks
  /\ extra' = extra + 1
  /\ FlushLane(l)
  /\ Goto("emit", "body")
  /\ UNCHANGED <<row, sealed, made, own, readerVars, faults>>

\* Bug: the verdict is taken before the text that precedes it is flushed.
VerdictChunkUnflushed ==
  /\ worker = "stream"
  /\ \E w \in {"emit", "settle"} : Goto(w, "verdict")
  /\ UNCHANGED <<row, stream, sealed, writerVars, readerVars, faults>>
\* A finished chunk appends no event of its own, an error or interrupt does.
VerdictChunk ==
  /\ worker = "stream"
  /\ FlushLane("own")
  /\ \E w \in {"emit", "settle"} : Goto(w, "verdict")
  /\ UNCHANGED <<row, sealed, made, own, extra, readerVars, faults>>

\* The event of a chunk or of a handler.  A retryable error goes back to the
\* queue, which may drop it, unless it was the last try.
EmitEvent ==
  /\ worker = "emit"
  /\ \E k \in CASE block = "retry"   -> {"retry"}
                [] block = "error"   -> {"error"}
                [] block = "verdict" -> {"custom", "error"}
                [] OTHER             -> {"custom"} :
       stream' = Append(stream, Event(k))
  /\ \/ block = "body" /\ Goto("stream", block)
     \/ block \in {"verdict", "cancel", "error"} /\ Goto("settle", block)
     \/ block = "retry" /\ tries = MaxTries /\ Goto("settle", block)
     \/ /\ block = "retry" /\ tries < MaxTries
        /\ \E w \in {"queued", "done"} : Goto(w, "body")
  /\ UNCHANGED <<row, sealed, writerVars, readerVars, faults>>

SettleRun ==
  /\ worker = "settle"
  /\ Settle
  /\ Goto("announce", block)
  /\ UNCHANGED <<stream, writerVars, readerVars, faults>>

AppendEnd ==
  /\ worker = "announce"
  /\ stream' = Append(stream, Event("end"))
  /\ Goto(IF block = "verdict" THEN "tail" ELSE "done", block)
  /\ UNCHANGED <<row, sealed, writerVars, readerVars, faults>>

\* The agent stream is over; without a verdict chunk the run is completed.
Exhausted ==
  /\ worker \in {"stream", "tail"}
  /\ FlushAll
  /\ IF worker = "stream" THEN Goto("settle", "drained") ELSE Goto("done", block)
  /\ UNCHANGED <<row, sealed, made, own, extra, readerVars, faults>>

ObserveCancel ==
  /\ worker \in {"stream", "tail"}
  /\ Goto("handle", "cancel")
  /\ UNCHANGED <<row, stream, sealed, writerVars, readerVars, faults>>

Handle ==
  /\ worker = "handle"
  /\ FlushAll
  /\ Goto("emit", block)
  /\ UNCHANGED <<row, sealed, made, own, extra, readerVars, faults>>

-----------------------------------------------------------------------------
(* Faults of the worker.                                                   *)

Fault(k) == k \in Faults /\ faults < MaxFaults /\ faults' = faults + 1

Crash ==
  /\ Fault("crash")
  /\ worker \notin {"queued", "done"}
  /\ Goto("queued", "body")
  /\ UNCHANGED <<row, stream, sealed, writerVars, readerVars>>

\* A shutdown or an exception in the body.
Raise ==
  /\ Fault("raise")
  /\ worker \in {"stream", "emit", "settle", "announce", "tail"}
  /\ block \in BodyBlocks
  /\ \E b \in HandlerBlocks : Goto("handle", b)
  /\ UNCHANGED <<row, stream, sealed, writerVars, readerVars>>

\* A flush is cancelled after Redis has the event and before the reset.
FlushCancelled(l) ==
  /\ Fault("flush")
  /\ worker = "stream"
  /\ buffer[l] # <<>>
  /\ stream' = Append(stream, Messages(l, buffer[l]))
  /\ Goto("handle", "cancel")
  /\ UNCHANGED <<row, sealed, writerVars, readerVars>>

\* A handler is cut short by an exception or, with the job retried, a shutdown.
HandlerFails ==
  /\ Fault("handler")
  /\ worker \in {"handle", "emit", "settle", "announce"}
  /\ block \in HandlerBlocks
  /\ \E w \in {"queued", "done"} : Goto(w, "body")
  /\ UNCHANGED <<row, stream, sealed, writerVars, readerVars>>

-----------------------------------------------------------------------------
(* The endpoint stream_agent_run_events, and startRunStream in the browser.*)
(* What the endpoint yields and the connection loses is as good as never   *)
(* yielded: the endpoint forgets its cursor with the connection.           *)

Connect ==
  /\ conn = "off"
  /\ conn' = "status"
  /\ sent' = got
  /\ UNCHANGED <<row, stream, sealed, writerVars, jobVars, seen, upto, got, how, faults>>

ReadStatus ==
  /\ conn = "status"
  /\ seen' = row
  /\ conn' = "events"
  /\ UNCHANGED <<row, stream, sealed, writerVars, jobVars, sent, upto, got, how, faults>>

Min2(m, n) == IF m < n THEN m ELSE n

\* The end that stands for a missing one carries the endpoint's last_seq as its
\* id, and the browser drops an event whose id it knows already.
SynthesizeEnd ==
  IF sent > got \/ sent = 0
  THEN /\ conn' = "final"
       /\ how' = "end"
       /\ got' = IF sent = 0 THEN Len(stream) ELSE sent
  ELSE conn' = "check" /\ UNCHANGED <<got, how>>

\* Bug: the cursor assumes that every read returns a full batch.
ReadEventsFullBatch ==
  /\ conn = "events"
  /\ upto' = sent + Limit
  /\ conn' = "send"
  /\ UNCHANGED <<row, stream, sealed, writerVars, jobVars, seen, sent, got, how, faults>>
\* The events after the cursor, at most Limit of them.  Only a read that found
\* none, after a status that was settled before the read, ends the stream.
ReadEvents ==
  /\ conn = "events"
  /\ upto' = Min2(Len(stream), sent + Limit)
  /\ \/ upto' > sent /\ conn' = "send" /\ UNCHANGED <<got, how>>
     \/ upto' = sent /\ seen = "settled" /\ SynthesizeEnd
     \/ upto' = sent /\ seen = "active" /\ conn' = "status" /\ UNCHANGED <<got, how>>
  /\ UNCHANGED <<row, stream, sealed, writerVars, jobVars, seen, sent, faults>>

\* Metadata is not sent; an end or an error that is not retryable makes the
\* browser stop following the run.
SendEvent ==
  /\ conn = "send"
  /\ sent' = sent + 1
  /\ got' = IF stream[sent'].kind = "metadata" THEN got ELSE sent'
  /\ IF stream[sent'].kind \in {"end", "error"}
     THEN conn' = "final" /\ how' = stream[sent'].kind
     ELSE conn' = (IF sent' = upto THEN "status" ELSE "send") /\ UNCHANGED how
  /\ UNCHANGED <<row, stream, sealed, writerVars, jobVars, seen, upto, faults>>

\* The connection reaches its maximal age.
Expire ==
  /\ conn = "events"
  /\ conn' = "check"
  /\ UNCHANGED <<row, stream, sealed, writerVars, jobVars, seen, sent, upto, got, how, faults>>

\* Bug: the browser connects again without a look at the run.
CheckRunBlindly ==
  /\ conn = "check"
  /\ conn' = "off"
  /\ UNCHANGED <<row, stream, sealed, writerVars, jobVars, seen, sent, upto, got, how, faults>>
\* The stream closed without a verdict: the browser asks for the run.
CheckRun ==
  /\ conn = "check"
  /\ IF row = "settled" THEN conn' = "final" /\ how' = "checked"
                        ELSE conn' = "off" /\ UNCHANGED how
  /\ UNCHANGED <<row, stream, sealed, writerVars, jobVars, seen, sent, upto, got, faults>>

Disconnect ==
  /\ Fault("disconnect")
  /\ conn \in {"status", "events", "send", "check"}
  /\ conn' = "off"
  /\ UNCHANGED <<row, stream, sealed, writerVars, jobVars, seen, sent, upto, got, how>>

\* The endpoint cannot read the row or the events, and sends an error event.
SseError ==
  /\ Fault("sse_error")
  /\ conn \in {"status", "events"}
  /\ conn' = "final"
  /\ how' = "unavailable"
  /\ UNCHANGED <<row, stream, sealed, writerVars, jobVars, seen, sent, upto, got>>

-----------------------------------------------------------------------------
WorkerStep ==
  \/ Start \/ VerdictChunk \/ EmitEvent \/ SettleRun \/ AppendEnd
  \/ Exhausted \/ ObserveCancel \/ Handle
  \/ \E l \in Lanes : LoadingChunk(l) \/ OtherChunk(l)

ReaderStep ==
  Connect \/ ReadStatus \/ ReadEvents \/ SendEvent \/ CheckRun

FaultStep ==
  \/ Crash \/ Raise \/ HandlerFails \/ Disconnect \/ SseError
  \/ \E l \in Lanes : FlushCancelled(l)

Next == WorkerStep \/ ReaderStep \/ Expire \/ FaultStep

Spec == Init /\ [][Next]_vars

\* The browser reconnects after 500 ms and the endpoint polls every second.
FairSpec == Spec /\ WF_vars(ReaderStep)

-----------------------------------------------------------------------------
(* Properties.                                                             *)

Chunks(events) == UNION {ToSet(events[i].items) : i \in DOMAIN events}
Received == SubSeq(stream, 1, got)

\* Every variable keeps its type.
TypeOK ==
  /\ row \in {"active", "settled"}
  /\ stream \in Seq(Events)
  /\ sealed \in 0..Len(stream)
  /\ buffer \in [Lanes -> Seq(1..MaxChunks)]
  /\ made \in 0..MaxChunks
  /\ own \subseteq 1..made
  /\ extra \in 0..MaxChunks
  /\ worker \in Workers
  /\ block \in BodyBlocks \cup HandlerBlocks
  /\ tries \in 0..MaxTries
  /\ conn \in Connections
  /\ seen \in {"active", "settled"}
  /\ sent \in 0..Len(stream)
  /\ upto \in 0..Len(stream)
  /\ got \in 0..Len(stream)
  /\ how \in {"no", "end", "error", "unavailable", "checked"}
  /\ faults \in 0..MaxFaults

\* Whoever is told that the run has ended, by the worker's end event or by one
\* the endpoint makes up, has got every visible event that preceded the
\* settlement, and all text the deciding attempt produced for the run's thread.
EndIsComplete ==
  how = "end" =>
    /\ row = "settled"
    /\ \A i \in 1..sealed : stream[i].kind = "metadata" \/ i <= got
    /\ own \subseteq Chunks(Received)

\* Each lane keeps the order in which its text was produced, except for chunks
\* that are appended again after a cancelled flush.  A chunk's place is its event
\* and its position there.
Places(l) ==
  UNION {{n} \X DOMAIN stream[n].items : n \in {m \in DOMAIN stream : stream[m].lane = l}}
ChunkAt(p) == stream[p[1]].items[p[2]]
Before(p, q) == p[1] < q[1] \/ (p[1] = q[1] /\ p[2] < q[2])
LanesInOrder ==
  \A l \in Lanes : \A p, q \in Places(l) :
    Before(p, q) /\ ChunkAt(p) > ChunkAt(q)
      => \E r \in Places(l) : ~Before(p, r) /\ ChunkAt(r) = ChunkAt(q)

\* Unless a step fails, no text is left behind in the writer, whichever way and
\* however late the attempt ends.
NoTextLeftBehind == worker = "done" /\ faults = 0 => Chunks(stream) = 1..made

\* A browser that follows a settled run stops following it, even if the worker
\* died before it could append the end event.
BrowserFinishes == row = "settled" ~> conn = "final"

\* What the endpoint asks for and the browser does not do: when the stream is
\* unavailable, connect again and follow the run until it has settled.
FollowsUntilSettled == conn = "final" => row = "settled"
=============================================================================

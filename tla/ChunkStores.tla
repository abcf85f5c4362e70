------------------------------ MODULE ChunkStores ------------------------------
(***************************************************************************)
(* The chunks of one file in the three stores of a knowledge base, and the *)
(* procedures that several operations share: cleaning the stores,          *)
(* embedding and storing chunks, building the graph.                       *)
(*                                                                         *)
(* PostgreSQL holds the chunks (with the extraction it caches and the      *)
(* graph_indexed flag), Milvus their vectors, Neo4j what was extracted.  A *)
(* text is named by the operation that made it; a chunk's id is that of    *)
(* its position, so a new text of the file has the same ids.  No           *)
(* transaction spans two stores, and every call to one is a step.  The     *)
(* tables of mentions and the vectors of entities go with the graph.       *)
(***************************************************************************)
EXTENDS Naturals, FiniteSets

CONSTANTS
  Actors,    \* requests and tasks that may work at the same time
  Batches,   \* chunks of the file; one is a batch
  MaxOps,    \* bound on the operations
  Faults,    \* kinds of fault that may happen
  MaxFaults  \* bound on their number

Chunks == 1..Batches
Texts == 1..MaxOps

ASSUME StoreConstants ==
  /\ {MaxOps, MaxFaults} \subseteq Nat
  /\ Batches \in Nat \ {0}
  /\ Faults \subseteq {"embed", "extract", "pg", "milvus", "graph", "crash"}

VARIABLES
  pg,        \* pg[c]: text of chunk c in PostgreSQL, 0 if there is none
  extracted, \* extracted[c]: text whose extraction the row of c caches, 0: none
  flagged,   \* chunks marked graph_indexed
  vec,       \* vectors in Milvus, <<chunk, text>>
  graph,     \* what Neo4j holds, <<chunk, text>>
  op,        \* op[a]: the operation of actor a and where it stands
  ops,       \* operations so far
  spoilt,    \* what has happened that voids a promise
  faults     \* faults that have happened

rows == <<pg, extracted, flagged>>
stores == <<rows, vec, graph>>
storeVars == <<stores, op, ops, spoilt, faults>>

-----------------------------------------------------------------------------
Idle == [kind |-> "none", at |-> "idle", text |-> 0, chunk |-> 1,
         left |-> {}, ok |-> TRUE, failed |-> {}]

Storing == {"index", "delete", "write", "withdraw"}
Graphing == Storing \cup {"build", "reset"}
Kinds == Graphing \cup {"none", "parse", "move", "convert", "batch", "review", "apply"}
Places == {"idle", "clean", "graph", "chunks", "vectors", "embed", "insert", "undo",
           "unvector", "list", "extract", "relate", "mark", "parse", "move", "row",
           "read", "finish", "error", "reset", "unflag", "create", "link", "queue",
           "decide", "apply", "rewrite", "file", "commit"}
Op == [kind: Kinds, at: Places, text: 0..MaxOps, chunk: Chunks,
       left: SUBSET {"pg", "milvus"}, ok: BOOLEAN, failed: SUBSET Chunks]

Spoils == {"stores", "graph", "crash", "partial", "unbuilt", "unsaid", "overwrite",
           "review", "feedback", "unsynced"}

StoreTypes ==
  /\ pg \in [Chunks -> 0..MaxOps] /\ extracted \in [Chunks -> 0..MaxOps]
  /\ flagged \subseteq Chunks
  /\ vec \subseteq Chunks \X Texts /\ graph \subseteq Chunks \X Texts
  /\ op \in [Actors -> Op] /\ ops \in 0..MaxOps
  /\ spoilt \subseteq Spoils /\ faults \in 0..MaxFaults

StoreInit ==
  /\ pg = [c \in Chunks |-> 0] /\ extracted = [c \in Chunks |-> 0]
  /\ flagged = {} /\ vec = {} /\ graph = {}
  /\ op = [a \in Actors |-> Idle]
  /\ ops = 0 /\ spoilt = {} /\ faults = 0

Working(kinds) == {a \in Actors : op[a].kind \in kinds}
Quiet == Working(Graphing) = {}
Doing(a, place) == op[a].at = place

Fault(kind) == kind \in Faults /\ faults < MaxFaults /\ faults' = faults + 1
Fine == UNCHANGED <<spoilt, faults>>
\* A failure that is passed over, or leaves an operation half done.
Partly(kind) == Fault(kind) /\ spoilt' = spoilt \cup {"partial"}

\* Two operations work on the stores, or on the graph, at the same time.
Overlaps(a, kind) ==
  (IF kind \in Storing /\ Working(Storing) \ {a} # {} THEN {"stores"} ELSE {}) \cup
  (IF kind \in Graphing /\ Working(Graphing) \ {a} # {} THEN {"graph"} ELSE {})

Begin(a, kind, place) ==
  /\ op[a] = Idle
  /\ ops < MaxOps
  /\ ops' = ops + 1
  /\ op' = [op EXCEPT ![a] = [Idle EXCEPT !.kind = kind, !.at = place, !.text = ops + 1]]
  /\ spoilt' = spoilt \cup Overlaps(a, kind)
  /\ UNCHANGED <<stores, faults>>

Goto(a, place) == op' = [op EXCEPT ![a].at = place]
End(a) == op' = [op EXCEPT ![a] = Idle]

\* Where a procedure returns to, and where its exception goes.
Return(a, to) ==
  IF op[a].kind \in DOMAIN to THEN Goto(a, to[op[a].kind]) ELSE End(a)
AfterClean == [index |-> "embed", delete |-> "row", withdraw |-> "commit"]
AfterStore == [index |-> "finish", write |-> "list"]
AfterBuild == [write |-> "commit"]
Raised == [index |-> "error"]

-----------------------------------------------------------------------------
(* delete_file_chunks_only.                                                *)

\* Bug: the graph is left as it is.
CountGraphSkips(a) ==
  /\ Doing(a, "clean")
  /\ Goto(a, "chunks")
  /\ UNCHANGED <<stores, ops>> /\ Fine
\* The graph is cleaned only if a chunk is marked as indexed in it.
CountGraph(a) ==
  /\ Doing(a, "clean")
  /\ Goto(a, IF flagged # {} THEN "graph" ELSE "chunks")
  /\ UNCHANGED <<stores, ops>> /\ Fine

DropGraph(a) ==
  /\ Doing(a, "graph")
  /\ \/ graph' = {} /\ Fine
     \/ Partly("graph") /\ UNCHANGED graph
  /\ Goto(a, "chunks")
  /\ UNCHANGED <<rows, vec, ops>>

NoChunks == pg' = [c \in Chunks |-> 0] /\ extracted' = pg' /\ flagged' = {}

\* An exception leaves the rows, and what they say of the graph.
DropChunks(a) ==
  /\ Doing(a, "chunks")
  /\ \/ NoChunks /\ Goto(a, "vectors") /\ Fine
     \/ Partly("pg") /\ Return(a, Raised) /\ UNCHANGED rows
  /\ UNCHANGED <<vec, graph, ops>>

\* The vectors are deleted if a query finds one.  That the call fails is passed
\* over, and so is a query that does not see yet what was inserted.
DropVectors(a) ==
  /\ Doing(a, "vectors")
  /\ \/ vec' = {} /\ Fine
     \/ Partly("milvus") /\ UNCHANGED vec
  /\ Return(a, AfterClean)
  /\ UNCHANGED <<rows, graph, ops>>

-----------------------------------------------------------------------------
(* _embed_and_store_chunks.                                                *)

\* What cannot be embedded raises; earlier batches stay.
Embed(a) ==
  /\ Doing(a, "embed")
  /\ \/ op' = [op EXCEPT ![a].at = "insert", ![a].left = {"pg", "milvus"}] /\ Fine
     \/ Fault("embed") /\ Return(a, Raised) /\ UNCHANGED spoilt
  /\ UNCHANGED <<stores, ops>>

Inserted(a, store, ok) ==
  op' = [op EXCEPT ![a].left = @ \ {store}, ![a].ok = @ /\ ok]

\* The two inserts of a batch run concurrently.  A row of the chunk refers to the
\* row of the file, and is overwritten if it exists.
InsertRow(a, fileExists) ==
  LET c == op[a].chunk IN
  /\ Doing(a, "insert") /\ "pg" \in op[a].left
  /\ \/ /\ fileExists
        /\ pg' = [pg EXCEPT ![c] = op[a].text]
        /\ extracted' = [extracted EXCEPT ![c] = 0]
        /\ flagged' = flagged \ {c}
        /\ Inserted(a, "pg", TRUE) /\ Fine
     \/ ~fileExists /\ Inserted(a, "pg", FALSE) /\ Fine /\ UNCHANGED rows
     \/ Fault("pg") /\ Inserted(a, "pg", FALSE) /\ UNCHANGED <<rows, spoilt>>
  /\ UNCHANGED <<vec, graph, ops>>

InsertVector(a) ==
  /\ Doing(a, "insert") /\ "milvus" \in op[a].left
  /\ \/ /\ vec' = vec \cup {<<op[a].chunk, op[a].text>>}
        /\ Inserted(a, "milvus", TRUE) /\ Fine
     \/ Fault("milvus") /\ Inserted(a, "milvus", FALSE) /\ UNCHANGED <<vec, spoilt>>
  /\ UNCHANGED <<rows, graph, ops>>

\* Bug: a batch half of which failed is not rolled back; or one batch too many.
GatheredCarriesOn(a) ==
  /\ Doing(a, "insert") /\ op[a].left = {}
  /\ IF op[a].chunk < Batches
     THEN op' = [op EXCEPT ![a].at = "embed", ![a].chunk = @ + 1]
     ELSE Return(a, AfterStore)
  /\ UNCHANGED <<stores, ops>> /\ Fine
GatheredOffByOne(a) ==
  /\ Doing(a, "insert") /\ op[a].left = {}
  /\ IF ~op[a].ok THEN Goto(a, "undo")
     ELSE IF op[a].chunk <= Batches
     THEN op' = [op EXCEPT ![a].at = "embed", ![a].chunk = @ + 1]
     ELSE Return(a, AfterStore)
  /\ UNCHANGED <<stores, ops>> /\ Fine
\* Both have returned: on to the next batch, or all of the file is rolled back.
Gathered(a) ==
  /\ Doing(a, "insert") /\ op[a].left = {}
  /\ IF ~op[a].ok THEN Goto(a, "undo")
     ELSE IF op[a].chunk < Batches
     THEN op' = [op EXCEPT ![a].at = "embed", ![a].chunk = @ + 1]
     ELSE Return(a, AfterStore)
  /\ UNCHANGED <<stores, ops>> /\ Fine

UndoRows(a) ==
  /\ Doing(a, "undo")
  /\ \/ NoChunks /\ Fine
     \/ Partly("pg") /\ UNCHANGED rows
  /\ Goto(a, "unvector")
  /\ UNCHANGED <<vec, graph, ops>>

\* As DropVectors; the vectors were inserted a moment ago.
UndoVectors(a) ==
  /\ Doing(a, "unvector")
  /\ \/ vec' = {} /\ Fine
     \/ Partly("milvus") /\ UNCHANGED vec
  /\ Return(a, Raised)
  /\ UNCHANGED <<rows, graph, ops>>

-----------------------------------------------------------------------------
(* build_pending_chunks, with a batch size of one.                         *)

\* A chunk that fails is counted and passed over.
ChunkFails(a, spoils) ==
  /\ op' = [op EXCEPT ![a].at = "list", ![a].failed = @ \cup {op[a].chunk}]
  /\ spoilt' = spoilt \cup {"unbuilt"} \cup spoils

\* A chunk that is not in the graph and has not failed in this build; the
\* extraction it caches, or else its text, is read with it, and only a text is
\* extracted from.  An exception cleans up after a write-back, and ends a build.
List(a) ==
  LET pending == {c \in Chunks \ (flagged \cup op[a].failed) : pg[c] # 0} IN
  /\ Doing(a, "list")
  /\ \/ /\ \E c \in pending :
             op' = IF extracted[c] # 0
                   THEN [op EXCEPT ![a].at = "relate", ![a].chunk = c, ![a].text = extracted[c]]
                   ELSE [op EXCEPT ![a].at = "extract", ![a].chunk = c, ![a].text = pg[c]]
        /\ Fine
     \/ pending = {} /\ Return(a, AfterBuild) /\ Fine
     \/ Fault("pg") /\ Return(a, [write |-> "clean"]) /\ UNCHANGED spoilt
  /\ UNCHANGED <<stores, ops>>

\* The extraction is cached with the row of the chunk, whatever it holds by now.
Extract(a) ==
  LET c == op[a].chunk IN
  /\ Doing(a, "extract")
  /\ \/ /\ extracted' = IF pg[c] # 0 THEN [extracted EXCEPT ![c] = op[a].text] ELSE extracted
        /\ Goto(a, "relate")
        /\ Fine
     \/ Fault("extract") /\ ChunkFails(a, {}) /\ UNCHANGED extracted
  /\ UNCHANGED <<pg, flagged, vec, graph, ops>>

Relate(a) ==
  /\ Doing(a, "relate")
  /\ \/ graph' = graph \cup {<<op[a].chunk, op[a].text>>} /\ Goto(a, "mark") /\ Fine
     \/ Fault("graph") /\ ChunkFails(a, {}) /\ UNCHANGED graph
  /\ UNCHANGED <<rows, vec, ops>>

\* The mentions and the mark; the mentions refer to the row of the chunk.
Mark(a) ==
  LET c == op[a].chunk IN
  /\ Doing(a, "mark")
  /\ \/ pg[c] # 0 /\ flagged' = flagged \cup {c} /\ Goto(a, "list") /\ Fine
     \/ pg[c] = 0 /\ ChunkFails(a, {}) /\ UNCHANGED <<flagged, faults>>
     \/ Fault("pg") /\ ChunkFails(a, {"partial"}) /\ UNCHANGED flagged
  /\ UNCHANGED <<pg, extracted, vec, graph, ops>>

-----------------------------------------------------------------------------
\* The process dies with everything it was doing.
Die ==
  /\ \E a \in Actors : op[a] # Idle
  /\ Fault("crash")
  /\ op' = [a \in Actors |-> Idle]
  /\ spoilt' = spoilt \cup {"crash"}
  /\ UNCHANGED <<stores, ops>>

StoreStep(a, fileExists) ==
  \/ CountGraph(a) \/ DropGraph(a) \/ DropChunks(a) \/ DropVectors(a)
  \/ Embed(a) \/ InsertRow(a, fileExists) \/ InsertVector(a) \/ Gathered(a)
  \/ UndoRows(a) \/ UndoVectors(a)
  \/ List(a) \/ Extract(a) \/ Relate(a) \/ Mark(a)
=============================================================================

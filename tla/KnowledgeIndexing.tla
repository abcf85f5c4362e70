--------------------------- MODULE KnowledgeIndexing ---------------------------
(***************************************************************************)
(* One document of a knowledge base: its row, which says how far it is     *)
(* processed, and the operations on it: parse, index, delete, move, and    *)
(* the build and the reset of the graph.  Requests and tasks run them at   *)
(* the same time; an update of the row under a condition on its status is  *)
(* what keeps them apart.                                                  *)
(***************************************************************************)
EXTENDS ChunkStores

VARIABLES
  status,  \* status of the file's row, "none" if there is no row
  seen     \* seen[a]: the status that a move has read

vars == <<storeVars, status, seen>>

FileStatus == {"uploaded", "parsing", "parsed", "error_parsing",
               "indexing", "indexed", "error_indexing"}
Parsable == {"uploaded", "error_parsing"}
Indexable == {"parsed", "error_indexing", "indexed"}

\* A record added, or one that was parsed when it was added.
Init ==
  /\ StoreInit
  /\ status \in {"uploaded", "parsed"}
  /\ seen = [a \in Actors |-> "none"]

-----------------------------------------------------------------------------
\* update_fields_if_status, in one statement.
\* Bug: a file may be claimed whatever its status.
ClaimAnyway(from, to) == status # "none" /\ status' = to
Claim(from, to) == status \in from /\ status' = to

\* update_fields: nothing happens to a row that is gone.
SetStatus(s) == status' = IF status = "none" THEN "none" ELSE s

StartParse(a) ==
  /\ Begin(a, "parse", "parse")
  /\ Claim(Parsable, "parsing")
  /\ UNCHANGED seen

\* The last update of a status is refused: the file keeps the one it has.
Unsaid == Fault("pg") /\ spoilt' = spoilt \cup {"unsaid"} /\ UNCHANGED status

\* The file is parsed or cannot be parsed.
FinishParse(a) ==
  /\ Doing(a, "parse")
  /\ End(a)
  /\ \/ \E s \in {"parsed", "error_parsing"} : SetStatus(s) /\ Fine
     \/ Unsaid
  /\ UNCHANGED <<stores, ops, seen>>

StartIndex(a) ==
  /\ Begin(a, "index", "read")
  /\ Claim(Indexable, "indexing")
  /\ UNCHANGED seen

\* The text is read and split, or cannot be.
ReadText(a) ==
  /\ Doing(a, "read")
  /\ Goto(a, "clean") \/ Goto(a, "error")
  /\ UNCHANGED <<stores, ops, status, seen>> /\ Fine

FinishIndex(a) ==
  /\ Doing(a, "finish")
  /\ \/ SetStatus("indexed") /\ End(a) /\ Fine
     \/ Fault("pg") /\ Goto(a, "error") /\ UNCHANGED <<status, spoilt>>
  /\ UNCHANGED <<stores, ops, seen>>

FailIndex(a) ==
  /\ Doing(a, "error")
  /\ End(a)
  /\ \/ SetStatus("error_indexing") /\ Fine
     \/ Unsaid
  /\ UNCHANGED <<stores, ops, seen>>

-----------------------------------------------------------------------------
StartDelete(a) ==
  /\ status # "none"
  /\ Begin(a, "delete", "clean")
  /\ UNCHANGED <<status, seen>>

\* The row goes, with the rows of chunks that refer to it.
DropFile(a) ==
  /\ Doing(a, "row")
  /\ \/ NoChunks /\ status' = "none" /\ Fine
     \/ Partly("pg") /\ UNCHANGED <<rows, status>>
  /\ End(a)
  /\ UNCHANGED <<vec, graph, ops, seen>>

\* A move reads the row and later writes all of it.
StartMove(a) ==
  /\ status # "none"
  /\ Begin(a, "move", "move")
  /\ seen' = [seen EXCEPT ![a] = status]
  /\ UNCHANGED status

SaveMove(a) ==
  /\ Doing(a, "move")
  /\ End(a)
  /\ status' = seen[a]
  /\ spoilt' = IF status = seen[a] THEN spoilt ELSE spoilt \cup {"overwrite"}
  /\ seen' = [seen EXCEPT ![a] = "none"]
  /\ UNCHANGED <<stores, ops, faults>>

-----------------------------------------------------------------------------
\* Tasks of one payload keep builds of a knowledge base apart, but not from one
\* whose task was deleted while it ran, nor from the build of a write-back; the
\* same holds of a reset.
StartBuild(a) ==
  /\ Begin(a, "build", "list")
  /\ UNCHANGED <<status, seen>>

CancelBuild(a) ==
  /\ op[a].kind = "build" /\ Doing(a, "list")
  /\ End(a)
  /\ UNCHANGED <<stores, ops, status, seen>> /\ Fine

StartReset(a) ==
  /\ Begin(a, "reset", "reset")
  /\ UNCHANGED <<status, seen>>

ResetGraph(a) ==
  /\ Doing(a, "reset")
  /\ graph' = {}
  /\ Goto(a, "unflag")
  /\ UNCHANGED <<rows, vec, ops, status, seen>> /\ Fine

\* The extractions are kept or dropped as the caller wishes.
ResetRows(a) ==
  /\ Doing(a, "unflag")
  /\ \/ /\ flagged' = {}
        /\ extracted' \in {extracted, [c \in Chunks |-> 0]}
        /\ Fine
     \/ Partly("pg") /\ UNCHANGED <<flagged, extracted>>
  /\ End(a)
  /\ UNCHANGED <<pg, vec, graph, ops, status, seen>>

-----------------------------------------------------------------------------
Work(a) == StoreStep(a, status # "none") /\ UNCHANGED <<status, seen>>
Crash == Die /\ seen' = [a \in Actors |-> "none"] /\ UNCHANGED status

Next ==
  \/ \E a \in Actors :
       \/ StartParse(a) \/ FinishParse(a)
       \/ StartIndex(a) \/ ReadText(a) \/ FinishIndex(a) \/ FailIndex(a)
       \/ StartDelete(a) \/ DropFile(a) \/ StartMove(a) \/ SaveMove(a)
       \/ StartBuild(a) \/ CancelBuild(a) \/ StartReset(a) \/ ResetGraph(a) \/ ResetRows(a)
       \/ Work(a)
  \/ Crash

Spec == Init /\ [][Next]_vars

-----------------------------------------------------------------------------
(* Properties.                                                             *)

Spoilt(kinds) == spoilt \cap kinds # {}

\* Every variable keeps its type: base.py, milvus.py, milvus_graph_service.py.
TypeOK ==
  /\ StoreTypes
  /\ status \in FileStatus \cup {"none"}
  /\ seen \in [Actors -> FileStatus \cup {"none"}]

\* A file that is being parsed or indexed has one operation, and one only, that
\* works on it and will give it another status, through failures of every store
\* and a deletion or a build at the same time; unless the process died, the
\* database refused the last status, or a move wrote back an old one (base.py
\* parse_file, milvus.py index_file).
Attended ==
  \/ Spoilt({"crash", "unsaid", "overwrite"})
  \/ /\ status = "parsing" => Cardinality(Working({"parse"})) = 1
     /\ status = "indexing" => Cardinality(Working({"index"})) = 1

\* The rows of the chunks and the vectors are the same chunks of the same text
\* whenever no operation is storing, and all the chunks of an indexed file are
\* there: a search finds every one of them and none of an earlier text or of a
\* deleted file (milvus.py _insert_chunks_to_stores, delete_file_chunks_only).
StoresAgree ==
  \/ Spoilt({"stores", "crash", "partial", "overwrite"})
  \/ Working(Storing) # {}
  \/ /\ vec = {<<c, pg[c]>> : c \in {d \in Chunks : pg[d] # 0}}
     /\ status = "indexed" => \A c, d \in Chunks : pg[c] = pg[d] /\ pg[c] # 0

\* The graph holds what was extracted from the chunks marked as indexed, and
\* nothing of an earlier text or of a deleted file, whenever nothing works on it
\* and nothing has worked on it together with another operation
\* (milvus_graph_service.py build_pending_chunks, delete_file_graph, reset).
GraphAgrees ==
  \/ Spoilt({"graph", "crash", "partial", "overwrite"})
  \/ ~Quiet
  \/ graph = {<<c, pg[c]>> : c \in flagged}
=============================================================================

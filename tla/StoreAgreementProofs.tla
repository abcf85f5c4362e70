------------------------- MODULE StoreAgreementProofs -------------------------
(***************************************************************************)
(* Lemmas about ChunkStores for any actors, batches and bounds: what the   *)
(* three stores hold at every place of an operation that works on them     *)
(* alone, and that every step of a procedure keeps this account.           *)
(***************************************************************************)
EXTENDS ChunkStoresProofs

-----------------------------------------------------------------------------
(* The accounts.                                                           *)

\* The vectors are those of the rows; there is no row; all rows are there and of
\* one text.
Agree == \A c \in Chunks, t \in Texts : <<c, t>> \in vec <=> pg[c] = t
NoRows == \A c \in Chunks : pg[c] = 0
Whole == \A c, d \in Chunks : pg[c] = pg[d] /\ pg[c] # 0

\* What of the operation's text is in a store that has or has not answered yet.
Has(o, store, left, c) == c < o.chunk \/ (c = o.chunk /\ store \notin left)
Loaded(o, left) ==
  /\ \A c \in Chunks : pg[c] = IF Has(o, "pg", left, c) THEN o.text ELSE 0
  /\ \A c \in Chunks, t \in Texts :
       <<c, t>> \in vec <=> Has(o, "milvus", left, c) /\ t = o.text

\* The rows and the vectors, as an operation that stores has left them at its place.
RowsAt(o) ==
  /\ o.at \in {"rewrite", "file", "read", "clean", "graph", "chunks", "error"} => Agree
  /\ o.at \in {"rewrite", "file", "vectors", "unvector"} => NoRows
  /\ o.at = "embed" => o.ok /\ Loaded(o, {"pg", "milvus"})
  /\ o.at = "insert" /\ o.ok => Loaded(o, o.left)
  /\ o.at \in {"finish"} \cup Building => Agree /\ Whole
  /\ o.at = "row" => Agree /\ NoRows
  /\ o.at = "commit" => Agree /\ IF o.kind = "write" THEN Whole ELSE NoRows
  /\ o.kind = "index" /\ o.at \in {"read"} \cup Cleaning => o.chunk = 1 /\ o.ok
  /\ o.at \in {"rewrite", "file"} => o.chunk = 1 /\ o.ok

\* The graph holds what the marked chunks say, as their rows stand; an answer of
\* the extraction that was kept is of the row; the graph is empty and nothing is
\* left of an earlier build; the row that a build is about to put into the graph.
Shown(marked) ==
  /\ \A c \in marked : pg[c] # 0
  /\ \A c \in Chunks, t \in Texts : <<c, t>> \in graph <=> c \in marked /\ pg[c] = t
Cached == \A c \in Chunks : extracted[c] \in {0, pg[c]}
Bare == graph = {} /\ flagged = {} /\ \A c \in Chunks : extracted[c] = 0
ToBuild(o) == o.text = pg[o.chunk] /\ o.text # 0

\* The graph, its marks and the kept answers, as an operation has left them at
\* its place; a write-back leaves no chunk aside, or this is recorded.
GraphAt(o) ==
  /\ o.at \in {"read", "clean", "list", "extract", "relate", "error", "reset"}
       => Shown(flagged) /\ Cached
  /\ o.at = "mark" => Shown(flagged \cup {o.chunk}) /\ Cached
  /\ o.at \in {"extract", "relate", "mark"} => ToBuild(o)
  /\ o.at = "chunks" => graph = {}
  /\ o.at = "unflag" => graph = {} /\ Cached
  /\ o.at \in {"rewrite", "file", "vectors", "finish", "row"} \cup Inserting => Bare
  /\ o.at = "commit" => IF o.kind = "write" THEN Shown(flagged) /\ Cached ELSE Bare
  /\ o.kind = "write" =>
       \/ "unbuilt" \in spoilt
       \/ o.failed = {} /\ (o.at = "commit" => flagged = Chunks)

\* No two operations of these kinds are under way.
Alone(kinds) == \A a, b \in Working(kinds) : a = b

\* Where the operations of a kind may stand.
Placed(o) ==
  /\ o.kind = "none" => o.at = "idle"
  /\ o.kind = "index" => o.at \in {"read", "finish", "error"} \cup Cleaning \cup Inserting
  /\ o.kind = "delete" => o.at \in {"row"} \cup Cleaning
  /\ o.kind = "withdraw" => o.at \in {"commit"} \cup Cleaning
  /\ o.kind = "write" =>
       o.at \in {"rewrite", "file", "commit"} \cup Cleaning \cup Inserting \cup Building
  /\ o.kind = "build" => o.at \in Building
  /\ o.kind = "reset" => o.at \in {"reset", "unflag"}
  /\ o.kind \notin Graphing =>
       o.at \in {"idle", "parse", "move", "create", "link", "queue", "decide", "apply"}
AllPlaced == \A a \in Actors : Placed(op[a])

\* What a step of the procedures leaves: an account of the place it comes to, or,
\* when it ends the operation, the stores in agreement.  Only a write ends so.
RowsKept(a) ==
  IF op'[a] = Idle
  THEN op[a].kind \notin {"index", "delete", "withdraw"} /\ Agree' /\ (Batches = 1 => NoRows')
  ELSE RowsAt(op[a])'
GraphKept(a) ==
  IF op'[a] = Idle
  THEN Shown(flagged)' /\ Cached' /\ (op[a].kind = "write" => Bare')
  ELSE GraphAt(op[a])'

\* An account that holds before a step, if it is of one's own work, holds after it.
Accounts(a) ==
  /\ Placed(op[a])'
  /\ "partial" \notin spoilt' =>
       /\ op[a].kind \in Storing /\ RowsAt(op[a]) => RowsKept(a)
       /\ GraphAt(op[a]) /\ (op[a].kind = "write" => RowsAt(op[a])) => GraphKept(a)

-----------------------------------------------------------------------------
(* What a step does to the record of its operation.                        *)

\* The operation comes to a place, and is otherwise what it was.
Keeps(a, place) ==
  /\ op'[a].kind = op[a].kind /\ op'[a].at = place /\ op'[a].text = op[a].text
  /\ op'[a].chunk = op[a].chunk /\ op'[a].left = op[a].left
  /\ op'[a].ok = op[a].ok /\ op'[a].failed = op[a].failed

LEMMA GotoKeeps ==
  ASSUME op \in [Actors -> Op], NEW a \in Actors, NEW place, Goto(a, place)
  PROVE  Keeps(a, place)
  <1>1. PICK new : new = [op[a] EXCEPT !.at = place]
    OBVIOUS
  <1>2. op' = [op EXCEPT ![a] = new]
    BY <1>1 DEF Goto
  <1>3. op[a] \in Op
    OBVIOUS
  <1>4. op'[a] = new
    BY <1>2
  <1>5. QED
    BY <1>1, <1>3, <1>4 DEF Keeps, Op

LEMMA ReturnKeeps ==
  ASSUME op \in [Actors -> Op], NEW a \in Actors
  PROVE  /\ Return(a, AfterClean) =>
              IF op[a].kind = "index" THEN Keeps(a, "embed")
              ELSE IF op[a].kind = "delete" THEN Keeps(a, "row")
              ELSE IF op[a].kind = "withdraw" THEN Keeps(a, "commit")
              ELSE op'[a] = Idle
         /\ Return(a, AfterStore) =>
              IF op[a].kind = "index" THEN Keeps(a, "finish")
              ELSE IF op[a].kind = "write" THEN Keeps(a, "list")
              ELSE op'[a] = Idle
         /\ Return(a, Raised) =>
              IF op[a].kind = "index" THEN Keeps(a, "error") ELSE op'[a] = Idle
         /\ Return(a, AfterBuild) =>
              IF op[a].kind = "write" THEN Keeps(a, "commit") ELSE op'[a] = Idle
         /\ Return(a, [write |-> "clean"]) =>
              IF op[a].kind = "write" THEN Keeps(a, "clean") ELSE op'[a] = Idle
  <1>1. ASSUME NEW to, Return(a, to)
        PROVE  IF op[a].kind \in DOMAIN to THEN Keeps(a, to[op[a].kind]) ELSE op'[a] = Idle
    BY <1>1, GotoKeeps, EndFacts DEF Return, Stops
  <1>2. /\ DOMAIN AfterClean = {"index", "delete", "withdraw"}
        /\ AfterClean["index"] = "embed" /\ AfterClean["delete"] = "row"
        /\ AfterClean["withdraw"] = "commit"
    BY DEF AfterClean
  <1>3. /\ DOMAIN AfterStore = {"index", "write"}
        /\ AfterStore["index"] = "finish" /\ AfterStore["write"] = "list"
    BY DEF AfterStore
  <1>4. DOMAIN Raised = {"index"} /\ Raised["index"] = "error"
    BY DEF Raised
  <1>5. DOMAIN AfterBuild = {"write"} /\ AfterBuild["write"] = "commit"
    BY DEF AfterBuild
  <1>6. /\ DOMAIN [write |-> "clean"] = {"write"}
        /\ [write |-> "clean"]["write"] = "clean"
    OBVIOUS
  <1>7. Return(a, AfterClean) =>
              IF op[a].kind = "index" THEN Keeps(a, "embed")
              ELSE IF op[a].kind = "delete" THEN Keeps(a, "row")
              ELSE IF op[a].kind = "withdraw" THEN Keeps(a, "commit")
              ELSE op'[a] = Idle
    BY <1>1, <1>2
  <1>8. Return(a, AfterStore) =>
              IF op[a].kind = "index" THEN Keeps(a, "finish")
              ELSE IF op[a].kind = "write" THEN Keeps(a, "list")
              ELSE op'[a] = Idle
    BY <1>1, <1>3
  <1>9. Return(a, Raised) =>
          IF op[a].kind = "index" THEN Keeps(a, "error") ELSE op'[a] = Idle
    BY <1>1, <1>4
  <1>10. Return(a, AfterBuild) =>
           IF op[a].kind = "write" THEN Keeps(a, "commit") ELSE op'[a] = Idle
    BY <1>1, <1>5
  <1>11. Return(a, [write |-> "clean"]) =>
           IF op[a].kind = "write" THEN Keeps(a, "clean") ELSE op'[a] = Idle
    BY <1>1, <1>6
  <1>12. QED
    BY <1>7, <1>8, <1>9, <1>10, <1>11

\* A place that keeps its operation is not its end.
LEMMA KeptOn ==
  ASSUME NEW a \in Actors, op'[a].kind = op[a].kind, op[a].kind # "none"
  PROVE  op'[a] # Idle
  BY IdleTyped

LEMMA IdlePlaced ==
  ASSUME NEW a \in Actors, op'[a] = Idle
  PROVE  Placed(op[a])'
  BY IdleTyped DEF Placed, Graphing, Storing

\* The hypotheses that the lemmas about the steps share.
Begun(a) == StoreInv /\ op[a].kind \in Graphing /\ Placed(op[a])

LEMMA BegunFacts ==
  ASSUME NEW a \in Actors, Begun(a)
  PROVE  /\ op \in [Actors -> Op] /\ op[a] \in Op /\ op[a].kind # "none"
         /\ op[a].chunk \in Chunks /\ op[a].ok \in BOOLEAN /\ op[a].text \in 0..MaxOps
         /\ op[a].left \subseteq {"pg", "milvus"} /\ op[a].text \in Texts
         /\ DataTypes
  <1>1. /\ op \in [Actors -> Op] /\ op[a] \in Op /\ op[a].kind \in Graphing
        /\ op[a].chunk \in Chunks /\ op[a].ok \in BOOLEAN /\ op[a].text \in 0..MaxOps
        /\ op[a].left \subseteq {"pg", "milvus"} /\ DataTypes
    BY OpFacts DEF Begun, StoreInv, StoreTypes, DataTypes
  <1>2. op[a].at # "idle"
    BY DEF Begun, Placed, Graphing, Storing, Cleaning, Inserting, Building
  <1>3. QED
    BY <1>1, <1>2 DEF Begun, StoreInv, Named, Graphing, Storing


-----------------------------------------------------------------------------
(* Cleaning.                                                               *)

LEMMA CountAccounts ==
  ASSUME NEW a \in Actors, Begun(a), CountGraph(a)
  PROVE  Accounts(a)
  <1>0. op \in [Actors -> Op] /\ op[a].kind # "none" /\ DataTypes
    BY BegunFacts
  <1>1. /\ op[a].at = "clean" /\ UNCHANGED <<pg, extracted, flagged, vec, graph, spoilt>>
        /\ Keeps(a, IF flagged # {} THEN "graph" ELSE "chunks")
    BY <1>0, GotoKeeps DEF CountGraph, Doing, Fine, stores, rows
  <1>2. op'[a] # Idle
    BY <1>0, <1>1, KeptOn DEF Keeps
  <1>3. Placed(op[a])'
    BY <1>1 DEF Keeps, Placed, Begun, Cleaning, Inserting, Building, Graphing, Storing
  <1>4. RowsAt(op[a]) => RowsAt(op[a])'
    BY <1>1 DEF RowsAt, Keeps, Agree, NoRows, Cleaning, Building
  <1>5. GraphAt(op[a]) => GraphAt(op[a])'
    <2>1. Shown(flagged) /\ flagged = {} => graph = {}
      BY <1>0 DEF Shown, DataTypes
    <2>2. QED
      BY <1>1, <2>1 DEF GraphAt, Keeps, Inserting
  <1>6. QED
    BY <1>2, <1>3, <1>4, <1>5 DEF Accounts, RowsKept, GraphKept

LEMMA DropGraphAccounts ==
  ASSUME NEW a \in Actors, Begun(a), DropGraph(a)
  PROVE  Accounts(a)
  <1>0. op \in [Actors -> Op] /\ op[a].kind # "none" /\ DataTypes
    BY BegunFacts
  <1>1. /\ op[a].at = "graph" /\ UNCHANGED <<pg, extracted, flagged, vec>>
        /\ Keeps(a, "chunks")
        /\ "partial" \notin spoilt' => graph' = {} /\ UNCHANGED spoilt
    BY <1>0, GotoKeeps DEF DropGraph, Doing, Fine, Partly, rows
  <1>2. op'[a] # Idle
    BY <1>0, <1>1, KeptOn DEF Keeps
  <1>3. Placed(op[a])'
    BY <1>1 DEF Keeps, Placed, Begun, Cleaning, Inserting, Building, Graphing, Storing
  <1>4. RowsAt(op[a]) => RowsAt(op[a])'
    BY <1>1 DEF RowsAt, Keeps, Agree, NoRows, Cleaning, Building
  <1>5. "partial" \notin spoilt' /\ GraphAt(op[a]) => GraphAt(op[a])'
    BY <1>1 DEF GraphAt, Keeps, Inserting
  <1>6. QED
    BY <1>2, <1>3, <1>4, <1>5 DEF Accounts, RowsKept, GraphKept

LEMMA DropChunksAccounts ==
  ASSUME NEW a \in Actors, Begun(a), DropChunks(a)
  PROVE  Accounts(a)
  <1>0. op \in [Actors -> Op] /\ op[a].kind # "none" /\ DataTypes
    BY BegunFacts
  <1>1. op[a].at = "chunks" /\ UNCHANGED <<vec, graph>>
    BY DEF DropChunks, Doing
  <1>2. CASE NoChunks /\ Goto(a, "vectors") /\ Fine
    <2>1. /\ Keeps(a, "vectors") /\ UNCHANGED spoilt
          /\ NoRows' /\ flagged' = {} /\ \A c \in Chunks : extracted'[c] = 0
      BY <1>0, <1>2, GotoKeeps DEF NoChunks, NoRows, Fine
    <2>2. op'[a] # Idle
      BY <1>0, <2>1, KeptOn DEF Keeps
    <2>3. Placed(op[a])'
      BY <1>1, <2>1 DEF Keeps, Placed, Begun, Cleaning, Inserting, Building, Graphing, Storing
    <2>4. RowsAt(op[a]) => RowsAt(op[a])'
      BY <1>1, <2>1 DEF RowsAt, Keeps, Cleaning, Building
    <2>5. GraphAt(op[a]) => GraphAt(op[a])'
      BY <1>1, <2>1 DEF GraphAt, Keeps, Bare, Inserting
    <2>6. QED
      BY <2>2, <2>3, <2>4, <2>5 DEF Accounts, RowsKept, GraphKept
  <1>3. CASE Partly("pg") /\ Return(a, Raised)
    <2>1. "partial" \in spoilt'
      BY <1>3 DEF Partly
    <2>2. IF op[a].kind = "index" THEN Keeps(a, "error") ELSE op'[a] = Idle
      BY <1>0, <1>3, ReturnKeeps
    <2>3. Placed(op[a])'
      BY <2>2, IdlePlaced DEF Keeps, Placed, Graphing, Storing
    <2>4. QED
      BY <2>1, <2>3 DEF Accounts
  <1>4. QED
    BY <1>2, <1>3 DEF DropChunks

\* The vectors go last; an indexing goes on to its first batch.
LEMMA DropVectorsAccounts ==
  ASSUME NEW a \in Actors, Begun(a), DropVectors(a)
  PROVE  Accounts(a)
  <1>0. op \in [Actors -> Op] /\ op[a].kind # "none" /\ op[a].chunk \in Chunks
    BY BegunFacts
  <1>1. /\ op[a].at = "vectors" /\ UNCHANGED <<pg, extracted, flagged, graph>>
        /\ "partial" \notin spoilt' => vec' = {} /\ UNCHANGED spoilt
        /\ Return(a, AfterClean)
    BY DEF DropVectors, Doing, Fine, Partly, rows
  <1>2. IF op[a].kind = "index" THEN Keeps(a, "embed")
        ELSE IF op[a].kind = "delete" THEN Keeps(a, "row")
        ELSE IF op[a].kind = "withdraw" THEN Keeps(a, "commit")
        ELSE op'[a] = Idle
    BY <1>0, <1>1, ReturnKeeps
  <1>3. Placed(op[a])'
    BY <1>2, IdlePlaced DEF Keeps, Placed, Graphing, Storing, Inserting
  <1>4. ASSUME "partial" \notin spoilt', RowsAt(op[a])
        PROVE  RowsKept(a)
    <2>1. NoRows' /\ vec' = {}
      BY <1>1, <1>4 DEF RowsAt, NoRows
    <2>2. Agree'
      BY <2>1, Numbers DEF Agree, NoRows, Texts
    <2>3. ASSUME Keeps(a, "embed"), op[a].kind = "index"
          PROVE  RowsAt(op[a])'
      <3>1. op[a].chunk = 1 /\ op[a].ok
        BY <1>1, <1>4, <2>3 DEF RowsAt, Cleaning
      <3>2. Loaded(op[a], {"pg", "milvus"})'
        BY <2>1, <2>3, <3>1, Numbers DEF Loaded, Has, NoRows, Keeps, Chunks
      <3>4. QED
        BY <2>3, <3>1, <3>2 DEF RowsAt, Keeps, Cleaning, Building
    <2>4. ASSUME Keeps(a, "row") \/ (Keeps(a, "commit") /\ op[a].kind = "withdraw")
          PROVE  RowsAt(op[a])'
      BY <2>1, <2>2, <2>4 DEF RowsAt, Keeps, Cleaning, Building
    <2>5. QED
      BY <1>0, <1>2, <2>1, <2>2, <2>3, <2>4, KeptOn DEF RowsKept, Keeps
  <1>5. ASSUME "partial" \notin spoilt', GraphAt(op[a])
        PROVE  GraphKept(a)
    <2>1. Bare /\ Bare'
      BY <1>1, <1>5 DEF GraphAt, Bare
    <2>2. Shown(flagged)' /\ Cached'
      BY <2>1 DEF Bare, Shown, Cached
    <2>3. ASSUME \/ Keeps(a, "embed") \/ Keeps(a, "row")
                 \/ Keeps(a, "commit") /\ op[a].kind = "withdraw"
          PROVE  GraphAt(op[a])'
      BY <1>1, <1>5, <2>1, <2>3 DEF GraphAt, Keeps, Inserting
    <2>4. QED
      BY <1>0, <1>2, <2>1, <2>2, <2>3, KeptOn DEF GraphKept, Keeps
  <1>6. QED
    BY <1>3, <1>4, <1>5 DEF Accounts

-----------------------------------------------------------------------------
(* Storing.                                                                *)

\* What stores is an indexing or a write; with no failure it has what it stored.
LEMMA Stores ==
  ASSUME NEW a \in Actors, Begun(a), op[a].at \in Inserting
  PROVE  /\ op[a].kind \in {"index", "write"}
         /\ GraphAt(op[a]) => Bare
  BY DEF Begun, Placed, GraphAt, Cleaning, Inserting, Building, Graphing, Storing

LEMMA BareShown ==
  ASSUME Bare
  PROVE  Shown(flagged) /\ Cached
  BY DEF Bare, Shown, Cached

\* The batches before this one are in both stores, and nothing else.
LEMMA LoadedAgree ==
  ASSUME NEW o, o.text \in Texts, o.chunk \in Chunks, Loaded(o, {"pg", "milvus"})
  PROVE  Agree /\ (Batches = 1 => NoRows)
  <1>1. \A c \in Chunks : Has(o, "pg", {"pg", "milvus"}, c) <=> c < o.chunk
    BY DEF Has
  <1>2. \A c \in Chunks : Has(o, "milvus", {"pg", "milvus"}, c) <=> c < o.chunk
    BY DEF Has
  <1>3. Agree
    <2>1. ASSUME NEW c \in Chunks, NEW t \in Texts
          PROVE  <<c, t>> \in vec <=> pg[c] = t
      <3>1. t # 0
        BY DEF Texts
      <3>2. pg[c] = (IF c < o.chunk THEN o.text ELSE 0)
        BY <1>1 DEF Loaded
      <3>3. <<c, t>> \in vec <=> (c < o.chunk /\ t = o.text)
        BY <1>2 DEF Loaded
      <3>4. QED
        BY <3>1, <3>2, <3>3
    <2>2. QED
      BY <2>1 DEF Agree
  <1>4. Batches = 1 => \A c \in Chunks : ~(c < o.chunk)
    BY DEF Chunks
  <1>5. QED
    BY <1>1, <1>3, <1>4 DEF Loaded, NoRows

LEMMA EmbedAccounts ==
  ASSUME NEW a \in Actors, Begun(a), Embed(a)
  PROVE  Accounts(a)
  <1>0. /\ op \in [Actors -> Op] /\ op[a] \in Op /\ op[a].kind # "none"
        /\ op[a].text \in Texts /\ op[a].chunk \in Chunks
    BY BegunFacts
  <1>1. /\ op[a].at = "embed" /\ UNCHANGED <<pg, extracted, flagged, vec, graph, spoilt>>
        /\ op[a].kind \in {"index", "write"} /\ (GraphAt(op[a]) => Bare)
    BY Stores DEF Embed, Doing, Fine, stores, rows, Inserting
  <1>2. ASSUME op' = [op EXCEPT ![a].at = "insert", ![a].left = {"pg", "milvus"}]
        PROVE  Accounts(a)
    <2>1. PICK new : new = [op[a] EXCEPT !.at = "insert", !.left = {"pg", "milvus"}]
      OBVIOUS
    <2>2. op' = [op EXCEPT ![a] = new]
      BY <1>2, <2>1
    <2>3. op'[a] = new
      BY <1>0, <2>2
    <2>4. /\ op'[a].kind = op[a].kind /\ op'[a].at = "insert" /\ op'[a].text = op[a].text
          /\ op'[a].chunk = op[a].chunk /\ op'[a].left = {"pg", "milvus"}
          /\ op'[a].ok = op[a].ok /\ op'[a].failed = op[a].failed
      BY <1>0, <2>1, <2>3 DEF Op
    <2>5. op'[a] # Idle
      BY <1>0, <2>4, KeptOn
    <2>6. Placed(op[a])'
      BY <1>1, <2>4 DEF Placed, Inserting, Graphing, Storing
    <2>7. RowsAt(op[a]) => RowsAt(op[a])'
      BY <1>1, <2>4 DEF RowsAt, Loaded, Has, Cleaning, Building
    <2>8. GraphAt(op[a]) => GraphAt(op[a])'
      BY <1>1, <2>4 DEF GraphAt, Bare, Inserting
    <2>9. QED
      BY <2>5, <2>6, <2>7, <2>8 DEF Accounts, RowsKept, GraphKept
  <1>3. ASSUME Return(a, Raised)
        PROVE  Accounts(a)
    <2>1. IF op[a].kind = "index" THEN Keeps(a, "error") ELSE op'[a] = Idle
      BY <1>0, <1>3, ReturnKeeps
    <2>2. Placed(op[a])'
      BY <2>1, IdlePlaced DEF Keeps, Placed, Graphing, Storing
    <2>3. RowsAt(op[a]) => Agree' /\ (Batches = 1 => NoRows')
      BY <1>0, <1>1, LoadedAgree DEF RowsAt, Agree, NoRows
    <2>4. RowsAt(op[a]) => RowsKept(a)
      BY <1>0, <1>1, <2>1, <2>3, KeptOn DEF RowsKept, RowsAt, Keeps, Cleaning, Building
    <2>5. GraphAt(op[a]) => Bare' /\ Shown(flagged)' /\ Cached'
      BY <1>1, BareShown DEF Bare, Shown, Cached
    <2>6. GraphAt(op[a]) => GraphKept(a)
      BY <1>0, <1>1, <2>1, <2>5, KeptOn DEF GraphKept, GraphAt, Keeps, Inserting
    <2>7. QED
      BY <2>2, <2>4, <2>6 DEF Accounts
  <1>4. QED
    BY <1>2, <1>3, Zenon DEF Embed

\* Either store answers, the other may not have.
LEMMA InsertedKeeps ==
  ASSUME op \in [Actors -> Op], NEW a \in Actors, NEW store, NEW ok \in BOOLEAN,
         Inserted(a, store, ok)
  PROVE  /\ op'[a].kind = op[a].kind /\ op'[a].at = op[a].at /\ op'[a].text = op[a].text
         /\ op'[a].chunk = op[a].chunk /\ op'[a].left = op[a].left \ {store}
         /\ op'[a].ok = (op[a].ok /\ ok) /\ op'[a].failed = op[a].failed
  <1>1. PICK new : new = [op[a] EXCEPT !.left = @ \ {store}, !.ok = @ /\ ok]
    OBVIOUS
  <1>2. op' = [op EXCEPT ![a] = new]
    BY <1>1 DEF Inserted
  <1>3. op'[a] = new /\ op[a] \in Op
    BY <1>2
  <1>4. QED
    BY <1>1, <1>3 DEF Op

\* An answer that leaves the graph bare; a bad one ends the account of the rows.
LEMMA AnswerAccounts ==
  ASSUME NEW a \in Actors, Begun(a), op[a].at = "insert", UNCHANGED spoilt,
         NEW store, NEW ok \in BOOLEAN, Inserted(a, store, ok), Bare => Bare',
         ok /\ op[a].ok /\ Loaded(op[a], op[a].left) => Loaded(op[a], op[a].left)'
  PROVE  Accounts(a)
  <1>0. op \in [Actors -> Op] /\ op[a].kind # "none" /\ op[a].ok \in BOOLEAN
    BY BegunFacts
  <1>1. /\ op'[a].kind = op[a].kind /\ op'[a].at = "insert"
        /\ op'[a].ok = (op[a].ok /\ ok) /\ op'[a].failed = op[a].failed
    BY <1>0, InsertedKeeps
  <1>2. op[a].kind \in {"index", "write"} /\ (GraphAt(op[a]) => Bare)
    BY Stores DEF Inserting
  <1>3. Placed(op[a])' /\ op'[a] # Idle
    BY <1>0, <1>1, <1>2, KeptOn DEF Placed, Inserting, Graphing, Storing
  <1>4. RowsAt(op[a]) => RowsAt(op[a])'
    BY <1>0, <1>1 DEF RowsAt, Cleaning, Building
  <1>5. GraphAt(op[a]) => GraphAt(op[a])'
    BY <1>1, <1>2 DEF GraphAt, Inserting
  <1>6. QED
    BY <1>3, <1>4, <1>5 DEF Accounts, RowsKept, GraphKept

LEMMA InsertRowAccounts ==
  ASSUME NEW a \in Actors, NEW fileExists, Begun(a), InsertRow(a, fileExists)
  PROVE  Accounts(a)
  <1>0. /\ op \in [Actors -> Op] /\ op[a].chunk \in Chunks /\ op[a].text \in Texts
        /\ op[a].left \subseteq {"pg", "milvus"} /\ DataTypes
    BY BegunFacts
  <1>1. op[a].at = "insert" /\ "pg" \in op[a].left /\ UNCHANGED <<vec, graph, spoilt>>
    BY DEF InsertRow, Doing, Fine
  <1>2. ASSUME pg' = [pg EXCEPT ![op[a].chunk] = op[a].text],
               extracted' = [extracted EXCEPT ![op[a].chunk] = 0],
               flagged' = flagged \ {op[a].chunk}, Inserted(a, "pg", TRUE)
        PROVE  Accounts(a)
    <2>1. Bare => Bare'
      BY <1>0, <1>1, <1>2 DEF Bare, DataTypes
    <2>2. ASSUME Loaded(op[a], op[a].left) PROVE Loaded(op[a], op[a].left)'
      <3>1. /\ op'[a].chunk = op[a].chunk /\ op'[a].text = op[a].text
            /\ op'[a].left = op[a].left \ {"pg"}
        BY <1>0, <1>2, InsertedKeeps
      <3>2. \A c \in Chunks :
              /\ Has(op[a], "milvus", op[a].left, c)' <=> Has(op[a], "milvus", op[a].left, c)
              /\ Has(op[a], "pg", op[a].left, c)'
                   <=> Has(op[a], "pg", op[a].left, c) \/ c = op[a].chunk
        BY <3>1 DEF Has
      <3>3. \A c \in Chunks : pg'[c] = IF c = op[a].chunk THEN op[a].text ELSE pg[c]
        BY <1>0, <1>2 DEF DataTypes
      <3>4. QED
        BY <1>1, <2>2, <3>1, <3>2, <3>3 DEF Loaded
    <2>3. QED
      BY <1>1, <1>2, <2>1, <2>2, AnswerAccounts
  <1>3. ASSUME Inserted(a, "pg", FALSE), UNCHANGED <<pg, extracted, flagged>>
        PROVE  Accounts(a)
    <2>1. Bare => Bare'
      BY <1>1, <1>3 DEF Bare
    <2>2. QED
      BY <1>1, <1>3, <2>1, AnswerAccounts
  <1>4. QED
    BY <1>2, <1>3 DEF InsertRow, rows

LEMMA InsertVectorAccounts ==
  ASSUME NEW a \in Actors, Begun(a), InsertVector(a)
  PROVE  Accounts(a)
  <1>0. /\ op \in [Actors -> Op] /\ op[a].chunk \in Chunks /\ op[a].text \in Texts
        /\ op[a].left \subseteq {"pg", "milvus"} /\ DataTypes
    BY BegunFacts
  <1>1. /\ op[a].at = "insert" /\ "milvus" \in op[a].left
        /\ UNCHANGED <<pg, extracted, flagged, graph, spoilt>>
    BY DEF InsertVector, Doing, Fine, rows
  <1>2. Bare => Bare'
    BY <1>1 DEF Bare
  <1>3. ASSUME vec' = vec \cup {<<op[a].chunk, op[a].text>>}, Inserted(a, "milvus", TRUE)
        PROVE  Accounts(a)
    <2>1. ASSUME Loaded(op[a], op[a].left) PROVE Loaded(op[a], op[a].left)'
      <3>1. /\ op'[a].chunk = op[a].chunk /\ op'[a].text = op[a].text
            /\ op'[a].left = op[a].left \ {"milvus"}
        BY <1>0, <1>3, InsertedKeeps
      <3>2. \A c \in Chunks :
              /\ Has(op[a], "pg", op[a].left, c)' <=> Has(op[a], "pg", op[a].left, c)
              /\ Has(op[a], "milvus", op[a].left, c)'
                   <=> Has(op[a], "milvus", op[a].left, c) \/ c = op[a].chunk
        BY <3>1 DEF Has
      <3>3. \A c \in Chunks, t \in Texts :
              <<c, t>> \in vec' <=> <<c, t>> \in vec \/ (c = op[a].chunk /\ t = op[a].text)
        BY <1>3
      <3>4. QED
        BY <1>1, <2>1, <3>1, <3>2, <3>3 DEF Loaded
    <2>2. QED
      BY <1>1, <1>2, <1>3, <2>1, AnswerAccounts
  <1>4. ASSUME Inserted(a, "milvus", FALSE)
        PROVE  Accounts(a)
    BY <1>1, <1>2, <1>4, AnswerAccounts
  <1>5. QED
    BY <1>3, <1>4 DEF InsertVector

\* Every batch is in both stores: all of the file is there.
LEMMA LoadedWhole ==
  ASSUME NEW o, o.text \in Texts, o.chunk = Batches, o.left = {}, Loaded(o, o.left)
  PROVE  Agree /\ Whole
  <1>1. \A c \in Chunks : Has(o, "pg", o.left, c) /\ Has(o, "milvus", o.left, c)
    BY Numbers DEF Has, Chunks
  <1>2. o.text # 0
    BY DEF Texts
  <1>3. \A c \in Chunks : pg[c] = o.text
    BY <1>1 DEF Loaded
  <1>4. \A c \in Chunks, t \in Texts : <<c, t>> \in vec <=> t = o.text
    BY <1>1 DEF Loaded
  <1>5. QED
    BY <1>2, <1>3, <1>4 DEF Agree, Whole

LEMMA GatheredAccounts ==
  ASSUME NEW a \in Actors, Begun(a), Gathered(a)
  PROVE  Accounts(a)
  <1>0. /\ op \in [Actors -> Op] /\ op[a] \in Op /\ op[a].kind # "none"
        /\ op[a].text \in Texts /\ op[a].chunk \in Chunks
    BY BegunFacts
  <1>1. /\ op[a].at = "insert" /\ op[a].left = {}
        /\ UNCHANGED <<pg, extracted, flagged, vec, graph, spoilt>>
        /\ op[a].kind \in {"index", "write"} /\ (GraphAt(op[a]) => Bare)
    BY Stores DEF Gathered, Doing, Fine, stores, rows, Inserting
  <1>2. ASSUME op[a].ok, op[a].chunk < Batches,
               op' = [op EXCEPT ![a].at = "embed", ![a].chunk = @ + 1]
        PROVE  Accounts(a)
    <2>1. PICK new : new = [op[a] EXCEPT !.at = "embed", !.chunk = @ + 1]
      OBVIOUS
    <2>2. op' = [op EXCEPT ![a] = new]
      BY <1>2, <2>1
    <2>3. op'[a] = new
      BY <1>0, <2>2
    <2>4. /\ op'[a].kind = op[a].kind /\ op'[a].at = "embed" /\ op'[a].text = op[a].text
          /\ op'[a].chunk = op[a].chunk + 1
          /\ op'[a].ok = op[a].ok /\ op'[a].failed = op[a].failed
      BY <1>0, <2>1, <2>3 DEF Op
    <2>5. op'[a] # Idle
      BY <1>0, <2>4, KeptOn
    <2>6. Placed(op[a])'
      BY <1>1, <2>4 DEF Placed, Inserting, Graphing, Storing
    <2>7. ASSUME RowsAt(op[a]) PROVE RowsAt(op[a])'
      <3>1. Loaded(op[a], op[a].left)
        BY <1>1, <1>2, <2>7 DEF RowsAt
      <3>2. \A c \in Chunks, store \in {"pg", "milvus"} :
              Has(op[a], store, {"pg", "milvus"}, c)' <=> Has(op[a], store, op[a].left, c)
        BY <1>0, <1>1, <2>4, Numbers DEF Has, Chunks
      <3>3. Loaded(op[a], {"pg", "milvus"})'
        BY <1>1, <2>4, <3>1, <3>2 DEF Loaded
      <3>4. QED
        BY <1>2, <2>4, <3>3 DEF RowsAt, Cleaning, Building
    <2>8. GraphAt(op[a]) => GraphAt(op[a])'
      BY <1>1, <2>4 DEF GraphAt, Bare, Inserting
    <2>9. QED
      BY <2>5, <2>6, <2>7, <2>8 DEF Accounts, RowsKept, GraphKept
  <1>3. ASSUME Goto(a, "undo")
        PROVE  Accounts(a)
    <2>1. Keeps(a, "undo")
      BY <1>0, <1>3, GotoKeeps
    <2>2. Placed(op[a])' /\ op'[a] # Idle
      BY <1>0, <1>1, <2>1, KeptOn DEF Keeps, Placed, Inserting, Graphing, Storing
    <2>3. RowsAt(op[a]) => RowsAt(op[a])'
      BY <1>1, <2>1 DEF RowsAt, Keeps, Cleaning, Building
    <2>4. GraphAt(op[a]) => GraphAt(op[a])'
      BY <1>1, <2>1 DEF GraphAt, Keeps, Bare, Inserting
    <2>5. QED
      BY <2>2, <2>3, <2>4 DEF Accounts, RowsKept, GraphKept
  <1>4. ASSUME op[a].ok, ~(op[a].chunk < Batches), Return(a, AfterStore)
        PROVE  Accounts(a)
    <2>1. IF op[a].kind = "index" THEN Keeps(a, "finish") ELSE Keeps(a, "list")
      BY <1>0, <1>1, <1>4, ReturnKeeps
    <2>2. Placed(op[a])' /\ op'[a] # Idle
      BY <1>0, <1>1, <2>1, KeptOn DEF Keeps, Placed, Inserting, Building, Graphing, Storing
    <2>3. ASSUME RowsAt(op[a]) PROVE RowsAt(op[a])'
      <3>1. op[a].chunk = Batches
        BY <1>0, <1>4, Numbers DEF Chunks
      <3>2. Agree /\ Whole
        BY <1>0, <1>1, <1>4, <2>3, <3>1, LoadedWhole DEF RowsAt
      <3>3. Agree' /\ Whole'
        BY <1>1, <3>2 DEF Agree, Whole
      <3>4. QED
        BY <1>1, <2>1, <3>3 DEF RowsAt, Keeps, Cleaning, Building
    <2>4. ASSUME GraphAt(op[a]) PROVE GraphAt(op[a])'
      <3>1. Bare /\ Bare' /\ Shown(flagged)' /\ Cached'
        BY <1>1, <2>4, BareShown DEF Bare, Shown, Cached
      <3>2. QED
        BY <1>1, <2>1, <2>4, <3>1 DEF GraphAt, Keeps, Inserting
    <2>5. QED
      BY <2>2, <2>3, <2>4 DEF Accounts, RowsKept, GraphKept
  <1>5. QED
    BY <1>2, <1>3, <1>4, Zenon DEF Gathered

LEMMA UndoRowsAccounts ==
  ASSUME NEW a \in Actors, Begun(a), UndoRows(a)
  PROVE  Accounts(a)
  <1>0. op \in [Actors -> Op] /\ op[a].kind # "none"
    BY BegunFacts
  <1>1. /\ op[a].at = "undo" /\ Keeps(a, "unvector") /\ UNCHANGED <<vec, graph>>
        /\ op[a].kind \in {"index", "write"} /\ (GraphAt(op[a]) => Bare)
    BY <1>0, Stores, GotoKeeps DEF UndoRows, Doing, Inserting
  <1>2. "partial" \notin spoilt' =>
          NoRows' /\ flagged' = {} /\ UNCHANGED spoilt /\ \A c \in Chunks : extracted'[c] = 0
    BY DEF UndoRows, Partly, NoChunks, NoRows, Fine
  <1>3. Placed(op[a])' /\ op'[a] # Idle
    BY <1>0, <1>1, KeptOn DEF Keeps, Placed, Inserting, Graphing, Storing
  <1>4. "partial" \notin spoilt' => RowsAt(op[a])'
    BY <1>1, <1>2 DEF RowsAt, Keeps, Cleaning, Building
  <1>5. "partial" \notin spoilt' /\ GraphAt(op[a]) => GraphAt(op[a])'
    BY <1>1, <1>2 DEF GraphAt, Keeps, Bare, Inserting
  <1>6. QED
    BY <1>3, <1>4, <1>5 DEF Accounts, RowsKept, GraphKept

LEMMA UndoVectorsAccounts ==
  ASSUME NEW a \in Actors, Begun(a), UndoVectors(a)
  PROVE  Accounts(a)
  <1>0. op \in [Actors -> Op] /\ op[a].kind # "none"
    BY BegunFacts
  <1>1. /\ op[a].at = "unvector" /\ UNCHANGED <<pg, extracted, flagged, graph>>
        /\ op[a].kind \in {"index", "write"} /\ (GraphAt(op[a]) => Bare)
    BY Stores DEF UndoVectors, Doing, Inserting, rows
  <1>2. IF op[a].kind = "index" THEN Keeps(a, "error") ELSE op'[a] = Idle
    BY <1>0, ReturnKeeps DEF UndoVectors
  <1>3. Placed(op[a])'
    BY <1>2, IdlePlaced DEF Keeps, Placed, Graphing, Storing
  <1>4. "partial" \notin spoilt' => vec' = {} /\ UNCHANGED spoilt
    BY DEF UndoVectors, Partly, Fine
  <1>5. ASSUME "partial" \notin spoilt', RowsAt(op[a]) PROVE RowsKept(a)
    <2>1. NoRows'
      BY <1>1, <1>5 DEF RowsAt, NoRows
    <2>2. Agree'
      BY <1>4, <1>5, <2>1 DEF Agree, NoRows, Texts
    <2>3. QED
      BY <1>0, <1>1, <1>2, <2>1, <2>2, KeptOn DEF RowsKept, RowsAt, Keeps, Cleaning, Building
  <1>6. ASSUME "partial" \notin spoilt', GraphAt(op[a]) PROVE GraphKept(a)
    <2>1. Bare /\ Bare' /\ Shown(flagged)' /\ Cached'
      BY <1>1, <1>6, BareShown DEF Bare, Shown, Cached
    <2>2. QED
      BY <1>0, <1>1, <1>2, <1>4, <1>6, <2>1, KeptOn DEF GraphKept, GraphAt, Keeps, Inserting
  <1>7. QED
    BY <1>3, <1>5, <1>6 DEF Accounts

-----------------------------------------------------------------------------
(* Building.                                                               *)

LEMMA Builds ==
  ASSUME NEW a \in Actors, Begun(a), op[a].at \in Building
  PROVE  op[a].kind \in {"write", "build"}
  BY DEF Begun, Placed, Cleaning, Inserting, Building, Graphing, Storing

\* A chunk that fails is passed over; what the stores hold stays.
LEMMA FailsAccounts ==
  ASSUME NEW a \in Actors, Begun(a), op[a].at \in {"extract", "relate"},
         ChunkFails(a, {}), UNCHANGED stores
  PROVE  Accounts(a)
  <1>0. op \in [Actors -> Op] /\ op[a] \in Op /\ op[a].kind # "none"
    BY BegunFacts
  <1>1. PICK new : new = [op[a] EXCEPT !.at = "list", !.failed = @ \cup {op[a].chunk}]
    OBVIOUS
  <1>2. op' = [op EXCEPT ![a] = new]
    BY <1>1 DEF ChunkFails
  <1>3. op'[a] = new
    BY <1>0, <1>2
  <1>4. op'[a].kind = op[a].kind /\ op'[a].at = "list"
    BY <1>0, <1>1, <1>3 DEF Op
  <1>5. /\ "unbuilt" \in spoilt' /\ UNCHANGED <<pg, extracted, flagged, vec, graph>>
        /\ op[a].kind \in {"write", "build"}
    BY Builds DEF ChunkFails, stores, rows, Building
  <1>6. Placed(op[a])' /\ op'[a] # Idle
    BY <1>0, <1>4, <1>5, KeptOn DEF Placed, Building, Graphing, Storing
  <1>7. RowsAt(op[a]) => RowsAt(op[a])'
    BY <1>4, <1>5 DEF RowsAt, Agree, Whole, Cleaning, Building
  <1>8. GraphAt(op[a]) => GraphAt(op[a])'
    BY <1>4, <1>5 DEF GraphAt, Shown, Cached, Inserting
  <1>9. QED
    BY <1>6, <1>7, <1>8 DEF Accounts, RowsKept, GraphKept

LEMMA ListAccounts ==
  ASSUME NEW a \in Actors, Begun(a), List(a)
  PROVE  Accounts(a)
  <1>0. /\ op \in [Actors -> Op] /\ op[a] \in Op /\ op[a].kind # "none" /\ DataTypes
        /\ op[a].chunk \in Chunks
    BY BegunFacts
  <1>1. /\ op[a].at = "list" /\ UNCHANGED <<pg, extracted, flagged, vec, graph, spoilt>>
        /\ op[a].kind \in {"write", "build"}
    BY Builds DEF List, Doing, Fine, stores, rows, Building
  <1>d. (Agree => Agree') /\ (Whole => Whole') /\ (Cached => Cached')
        /\ (Shown(flagged) => Shown(flagged)')
    BY <1>1 DEF Agree, Whole, Cached, Shown
  <1>2. ASSUME NEW c \in Chunks, pg[c] # 0, NEW t,
               t = IF extracted[c] # 0 THEN extracted[c] ELSE pg[c],
               NEW place \in {"extract", "relate"},
               op' = [op EXCEPT ![a].at = place, ![a].chunk = c, ![a].text = t]
        PROVE  Accounts(a)
    <2>1. PICK new : new = [op[a] EXCEPT !.at = place, !.chunk = c, !.text = t]
      OBVIOUS
    <2>2. op' = [op EXCEPT ![a] = new]
      BY <1>2, <2>1
    <2>3. op'[a] = new
      BY <1>0, <2>2
    <2>4. /\ op'[a].kind = op[a].kind /\ op'[a].at = place /\ op'[a].text = t
          /\ op'[a].chunk = c /\ op'[a].failed = op[a].failed
      BY <1>0, <2>1, <2>3 DEF Op
    <2>5. Placed(op[a])' /\ op'[a] # Idle
      BY <1>0, <1>1, <2>4, KeptOn DEF Placed, Building, Graphing, Storing
    <2>6. RowsAt(op[a]) => RowsAt(op[a])'
      BY <1>1, <1>d, <2>4 DEF RowsAt, Cleaning, Building
    <2>7. ASSUME GraphAt(op[a]) PROVE GraphAt(op[a])'
      <3>1. Cached /\ Shown(flagged)
        BY <1>1, <2>7 DEF GraphAt
      <3>2. t = pg[c]
        BY <1>2, <3>1 DEF Cached
      <3>3. ToBuild(op[a])'
        BY <1>1, <1>2, <2>4, <3>2 DEF ToBuild
      <3>4. QED
        BY <1>1, <1>d, <2>4, <2>7, <3>1, <3>3 DEF GraphAt, Inserting
    <2>8. QED
      BY <2>5, <2>6, <2>7 DEF Accounts, RowsKept, GraphKept
  <1>3. ASSUME \A c \in Chunks \ (flagged \cup op[a].failed) : pg[c] = 0,
               Return(a, AfterBuild)
        PROVE  Accounts(a)
    <2>1. IF op[a].kind = "write" THEN Keeps(a, "commit") ELSE op'[a] = Idle
      BY <1>0, <1>3, ReturnKeeps
    <2>2. Placed(op[a])'
      BY <2>1, IdlePlaced DEF Keeps, Placed, Graphing, Storing
    <2>3. op[a].kind \in Storing => op[a].kind = "write"
      BY <1>1 DEF Storing
    <2>4. op[a].kind = "write" => op'[a] # Idle
      BY <1>0, <2>1, KeptOn DEF Keeps
    <2>5. op[a].kind = "write" /\ RowsAt(op[a]) => RowsAt(op[a])'
      BY <1>1, <1>d, <2>1 DEF RowsAt, Keeps, Cleaning, Building
    <2>6. ASSUME GraphAt(op[a]), op[a].kind = "write", RowsAt(op[a])
          PROVE  GraphAt(op[a])'
      <3>1. Cached /\ Shown(flagged)
        BY <1>1, <2>6 DEF GraphAt
      <3>2. op[a].failed = {} => flagged' = Chunks
        <4>1. \A c \in Chunks : pg[c] # 0
          BY <1>1, <2>6 DEF RowsAt, Whole, Building
        <4>2. QED
          BY <1>0, <1>1, <1>3, <4>1 DEF DataTypes
      <3>3. "unbuilt" \in spoilt \/ op[a].failed = {}
        BY <2>6 DEF GraphAt
      <3>4. QED
        BY <1>1, <1>d, <2>1, <2>6, <3>1, <3>2, <3>3 DEF GraphAt, Keeps, Inserting
    <2>7. GraphAt(op[a]) => Shown(flagged)' /\ Cached'
      BY <1>1, <1>d DEF GraphAt
    <2>8. QED
      BY <2>1, <2>2, <2>3, <2>4, <2>5, <2>6, <2>7 DEF Accounts, RowsKept, GraphKept
  <1>4. ASSUME Return(a, [write |-> "clean"])
        PROVE  Accounts(a)
    <2>1. IF op[a].kind = "write" THEN Keeps(a, "clean") ELSE op'[a] = Idle
      BY <1>0, <1>4, ReturnKeeps
    <2>2. Placed(op[a])'
      BY <2>1, IdlePlaced DEF Keeps, Placed, Graphing, Storing, Cleaning
    <2>3. op[a].kind \in Storing => op[a].kind = "write"
      BY <1>1 DEF Storing
    <2>4. op[a].kind = "write" => op'[a] # Idle
      BY <1>0, <2>1, KeptOn DEF Keeps
    <2>5. op[a].kind = "write" /\ RowsAt(op[a]) => RowsAt(op[a])'
      BY <1>1, <1>d, <2>1 DEF RowsAt, Keeps, Cleaning, Building
    <2>6. GraphAt(op[a]) /\ op[a].kind = "write" => GraphAt(op[a])'
      BY <1>1, <1>d, <2>1 DEF GraphAt, Keeps, Inserting
    <2>7. GraphAt(op[a]) => Shown(flagged)' /\ Cached'
      BY <1>1, <1>d DEF GraphAt
    <2>8. QED
      BY <2>1, <2>2, <2>3, <2>4, <2>5, <2>6, <2>7 DEF Accounts, RowsKept, GraphKept
  <1>5. \/ \E c \in Chunks :
             /\ pg[c] # 0
             /\ IF extracted[c] # 0
                THEN op' = [op EXCEPT ![a].at = "relate", ![a].chunk = c,
                                      ![a].text = extracted[c]]
                ELSE op' = [op EXCEPT ![a].at = "extract", ![a].chunk = c, ![a].text = pg[c]]
        \/ {c \in Chunks \ (flagged \cup op[a].failed) : pg[c] # 0} = {}
           /\ Return(a, AfterBuild)
        \/ Return(a, [write |-> "clean"])
    BY Zenon DEF List
  <1>6. {c \in Chunks \ (flagged \cup op[a].failed) : pg[c] # 0} = {}
          => \A c \in Chunks \ (flagged \cup op[a].failed) : pg[c] = 0
    OBVIOUS
  <1>7. QED
    BY <1>2, <1>3, <1>4, <1>5, <1>6

LEMMA ExtractAccounts ==
  ASSUME NEW a \in Actors, Begun(a), Extract(a)
  PROVE  Accounts(a)
  <1>0. /\ op \in [Actors -> Op] /\ op[a].kind # "none" /\ DataTypes
        /\ op[a].chunk \in Chunks /\ op[a].text \in Texts
    BY BegunFacts
  <1>1. /\ op[a].at = "extract" /\ UNCHANGED <<pg, flagged, vec, graph>>
        /\ op[a].kind \in {"write", "build"}
    BY Builds DEF Extract, Doing, Building
  <1>2. CASE ChunkFails(a, {}) /\ UNCHANGED extracted
    BY <1>1, <1>2, FailsAccounts DEF stores, rows
  <1>3. CASE /\ extracted' = IF pg[op[a].chunk] # 0
                             THEN [extracted EXCEPT ![op[a].chunk] = op[a].text] ELSE extracted
             /\ Goto(a, "relate") /\ Fine
    <2>1. Keeps(a, "relate") /\ UNCHANGED spoilt
      BY <1>0, <1>3, GotoKeeps DEF Fine
    <2>2. Placed(op[a])' /\ op'[a] # Idle
      BY <1>0, <1>1, <2>1, KeptOn DEF Keeps, Placed, Building, Graphing, Storing
    <2>3. RowsAt(op[a]) => RowsAt(op[a])'
      BY <1>1, <2>1 DEF RowsAt, Keeps, Agree, Whole, Cleaning, Building
    <2>4. ASSUME GraphAt(op[a]) PROVE GraphAt(op[a])'
      <3>1. Cached /\ Shown(flagged) /\ ToBuild(op[a])
        BY <1>1, <2>4 DEF GraphAt
      <3>2. Cached'
        BY <1>0, <1>1, <1>3, <3>1 DEF Cached, ToBuild, DataTypes
      <3>3. Shown(flagged)' /\ ToBuild(op[a])'
        BY <1>1, <2>1, <3>1 DEF Shown, ToBuild, Keeps
      <3>4. QED
        BY <1>1, <2>1, <2>4, <3>2, <3>3 DEF GraphAt, Keeps, Inserting
    <2>5. QED
      BY <2>2, <2>3, <2>4 DEF Accounts, RowsKept, GraphKept
  <1>4. QED
    BY <1>2, <1>3, Zenon DEF Extract

LEMMA RelateAccounts ==
  ASSUME NEW a \in Actors, Begun(a), Relate(a)
  PROVE  Accounts(a)
  <1>0. /\ op \in [Actors -> Op] /\ op[a].kind # "none" /\ DataTypes
        /\ op[a].chunk \in Chunks /\ op[a].text \in Texts
    BY BegunFacts
  <1>1. /\ op[a].at = "relate" /\ UNCHANGED <<pg, extracted, flagged, vec>>
        /\ op[a].kind \in {"write", "build"}
    BY Builds DEF Relate, Doing, Building, rows
  <1>2. CASE ChunkFails(a, {}) /\ UNCHANGED graph
    BY <1>1, <1>2, FailsAccounts DEF stores, rows
  <1>3. CASE graph' = graph \cup {<<op[a].chunk, op[a].text>>} /\ Goto(a, "mark") /\ Fine
    <2>1. Keeps(a, "mark") /\ UNCHANGED spoilt
      BY <1>0, <1>3, GotoKeeps DEF Fine
    <2>2. Placed(op[a])' /\ op'[a] # Idle
      BY <1>0, <1>1, <2>1, KeptOn DEF Keeps, Placed, Building, Graphing, Storing
    <2>3. RowsAt(op[a]) => RowsAt(op[a])'
      BY <1>1, <2>1 DEF RowsAt, Keeps, Agree, Whole, Cleaning, Building
    <2>4. ASSUME GraphAt(op[a]) PROVE GraphAt(op[a])'
      <3>1. Cached /\ Shown(flagged) /\ ToBuild(op[a])
        BY <1>1, <2>4 DEF GraphAt
      <3>2. \A c \in Chunks, t \in Texts :
              <<c, t>> \in graph'
                <=> <<c, t>> \in graph \/ (c = op[a].chunk /\ t = op[a].text)
        BY <1>3
      <3>3. /\ \A c \in flagged \cup {op[a].chunk} : pg[c] # 0
            /\ \A c \in Chunks, t \in Texts :
                 <<c, t>> \in graph' <=> c \in flagged \cup {op[a].chunk} /\ pg[c] = t
        BY <3>1, <3>2 DEF Shown, ToBuild
      <3>4. Shown(flagged \cup {op[a].chunk})' /\ Cached' /\ ToBuild(op[a])'
        BY <1>1, <2>1, <3>1, <3>3 DEF Shown, Cached, ToBuild, Keeps
      <3>5. QED
        BY <1>1, <2>1, <2>4, <3>4 DEF GraphAt, Keeps, Inserting
    <2>5. QED
      BY <2>2, <2>3, <2>4 DEF Accounts, RowsKept, GraphKept
  <1>4. QED
    BY <1>2, <1>3, Zenon DEF Relate

\* The row of a chunk that is to be marked is there still.
LEMMA MarkAccounts ==
  ASSUME NEW a \in Actors, Begun(a), Mark(a)
  PROVE  Accounts(a)
  <1>0. /\ op \in [Actors -> Op] /\ op[a] \in Op /\ op[a].kind # "none" /\ DataTypes
        /\ op[a].chunk \in Chunks /\ op[a].text \in Texts
    BY BegunFacts
  <1>1. /\ op[a].at = "mark" /\ UNCHANGED <<pg, extracted, vec, graph>>
        /\ op[a].kind \in {"write", "build"}
    BY Builds DEF Mark, Doing, Building
  <1>2. ASSUME NEW spoils, ChunkFails(a, spoils), UNCHANGED flagged,
               pg[op[a].chunk] = 0 \/ "partial" \in spoils
        PROVE  Accounts(a)
    <2>1. PICK new : new = [op[a] EXCEPT !.at = "list", !.failed = @ \cup {op[a].chunk}]
      OBVIOUS
    <2>2. op' = [op EXCEPT ![a] = new]
      BY <1>2, <2>1 DEF ChunkFails
    <2>3. op'[a] = new
      BY <1>0, <2>2
    <2>4. op'[a].kind = op[a].kind /\ op'[a].at = "list"
      BY <1>0, <2>1, <2>3 DEF Op
    <2>5. Placed(op[a])' /\ op'[a] # Idle
      BY <1>0, <1>1, <2>4, KeptOn DEF Placed, Building, Graphing, Storing
    <2>6. RowsAt(op[a]) => RowsAt(op[a])'
      BY <1>1, <2>4 DEF RowsAt, Agree, Whole, Cleaning, Building
    <2>7. "partial" \in spoilt' \/ ~GraphAt(op[a])
      BY <1>1, <1>2 DEF ChunkFails, GraphAt, ToBuild
    <2>8. QED
      BY <2>5, <2>6, <2>7 DEF Accounts, RowsKept
  <1>3. CASE flagged' = flagged \cup {op[a].chunk} /\ Goto(a, "list") /\ Fine
    <2>1. Keeps(a, "list") /\ UNCHANGED spoilt
      BY <1>0, <1>3, GotoKeeps DEF Fine
    <2>2. Placed(op[a])' /\ op'[a] # Idle
      BY <1>0, <1>1, <2>1, KeptOn DEF Keeps, Placed, Building, Graphing, Storing
    <2>3. RowsAt(op[a]) => RowsAt(op[a])'
      BY <1>1, <2>1 DEF RowsAt, Keeps, Agree, Whole, Cleaning, Building
    <2>4. ASSUME GraphAt(op[a]) PROVE GraphAt(op[a])'
      <3>1. Shown(flagged \cup {op[a].chunk}) /\ Cached
        BY <1>1, <2>4 DEF GraphAt
      <3>2. Shown(flagged)' /\ Cached'
        BY <1>1, <1>3, <3>1 DEF Shown, Cached
      <3>3. QED
        BY <1>1, <2>1, <2>4, <3>2 DEF GraphAt, Keeps, Inserting
    <2>5. QED
      BY <2>2, <2>3, <2>4 DEF Accounts, RowsKept, GraphKept
  <1>4. \/ flagged' = flagged \cup {op[a].chunk} /\ Goto(a, "list") /\ Fine
        \/ pg[op[a].chunk] = 0 /\ ChunkFails(a, {}) /\ UNCHANGED flagged
        \/ ChunkFails(a, {"partial"}) /\ UNCHANGED flagged
    BY Zenon DEF Mark
  <1>5. QED
    BY <1>2, <1>3, <1>4

-----------------------------------------------------------------------------
(* A step of the procedures, and what it leaves to the others.             *)

LEMMA StepAccounts ==
  ASSUME NEW a \in Actors, NEW fileExists, Begun(a), StoreStep(a, fileExists)
  PROVE  Accounts(a)
  BY CountAccounts, DropGraphAccounts, DropChunksAccounts, DropVectorsAccounts,
     EmbedAccounts, InsertRowAccounts, InsertVectorAccounts, GatheredAccounts,
     UndoRowsAccounts, UndoVectorsAccounts,
     ListAccounts, ExtractAccounts, RelateAccounts, MarkAccounts DEF StoreStep

\* Only an operation that works on the stores or on the graph takes such a step, and
\* one that works on the graph alone leaves the texts and the vectors.
LEMMA StepBegun ==
  ASSUME NEW a \in Actors, NEW fileExists, StoreInv, Placed(op[a]), StoreStep(a, fileExists)
  PROVE  /\ Begun(a)
         /\ op[a].kind \notin Storing => UNCHANGED <<pg, vec>>
  <1>1. op[a].at \in Cleaning \cup Inserting \cup Building
    BY DEF StoreStep, CountGraph, DropGraph, DropChunks, DropVectors, Embed, InsertRow,
           InsertVector, Gathered, UndoRows, UndoVectors, List, Extract, Relate, Mark,
           Doing, Cleaning, Inserting, Building
  <1>2. op[a].kind \in Graphing
    BY <1>1 DEF Placed, Cleaning, Inserting, Building
  <1>3. op[a].kind \notin Storing => op[a].at \in Building
    BY <1>1, <1>2 DEF Placed, Graphing, Cleaning, Inserting, Building
  <1>4. op[a].at \in Building => List(a) \/ Extract(a) \/ Relate(a) \/ Mark(a)
    BY DEF StoreStep, CountGraph, DropGraph, DropChunks, DropVectors, Embed, InsertRow,
           InsertVector, Gathered, UndoRows, UndoVectors, Doing, Building
  <1>5. op[a].at \in Building => UNCHANGED <<pg, vec>>
    BY <1>4 DEF List, Extract, Relate, Mark, stores, rows
  <1>6. QED
    BY <1>2, <1>3, <1>5 DEF Begun

-----------------------------------------------------------------------------
(* Who works on the stores.                                                *)

\* What stands still of an account that is another operation's.
LEMMA RowsStand ==
  ASSUME NEW b \in Actors, op'[b] = op[b], UNCHANGED <<pg, vec>>, RowsAt(op[b])
  PROVE  RowsAt(op[b])'
  BY DEF RowsAt, Loaded, Has, Agree, NoRows, Whole

LEMMA GraphStands ==
  ASSUME NEW b \in Actors, op'[b] = op[b], UNCHANGED <<pg, extracted, flagged, graph>>,
         spoilt \subseteq spoilt', GraphAt(op[b])
  PROVE  GraphAt(op[b])'
  <1>1. /\ Cached => Cached'
        /\ Bare => Bare'
        /\ \A s : Shown(s) => Shown(s)'
        /\ ToBuild(op[b]) => ToBuild(op[b])'
    BY DEF Shown, Cached, Bare, ToBuild
  <1>2. Shown(flagged) => Shown(flagged)'
    BY DEF Shown
  <1>3. Shown(flagged \cup {op[b].chunk}) => Shown(flagged \cup {op[b].chunk})'
    BY DEF Shown
  <1>4. QED
    BY <1>1, <1>2, <1>3 DEF GraphAt

\* The actor's operation begins, goes on or ends.
LEMMA WorkingMoves ==
  ASSUME NEW a \in Actors, Others(a), NEW kinds
  PROVE  /\ op[a].kind \notin kinds /\ op'[a].kind \notin kinds
              => Working(kinds)' = Working(kinds)
         /\ Alone(kinds) /\ op[a].kind \in kinds
              => Working(kinds)' = IF op'[a].kind \in kinds THEN {a} ELSE {}
         /\ Working(kinds) = {} /\ op'[a].kind \in kinds => Working(kinds)' = {a}
  BY DEF Working, Others, Alone

LEMMA FewAlone ==
  ASSUME NEW kinds, Working(kinds) = {} \/ \E a \in Actors : Working(kinds) = {a}
  PROVE  Alone(kinds)
  BY DEF Alone

\* Who begins while another works spoils what is promised.
LEMMA BeginAlone ==
  ASSUME StoreTypes, NEW a \in Actors, NEW kind \in Kinds, NEW place \in Places,
         Begin(a, kind, place)
  PROVE  /\ kind \in Storing /\ "stores" \notin spoilt' => Working(Storing) = {}
         /\ kind \in Graphing /\ "graph" \notin spoilt' => Working(Graphing) = {}
         /\ op'[a].chunk = 1 /\ op'[a].ok = TRUE /\ op'[a].failed = {}
         /\ UNCHANGED <<pg, extracted, flagged, vec, graph>>
  <1>1. a \notin Working(Storing) /\ a \notin Working(Graphing)
    BY IdleTyped DEF Begin, Working, Storing, Graphing
  <1>2. /\ kind \in Storing /\ "stores" \notin spoilt' => Working(Storing) = {}
        /\ kind \in Graphing /\ "graph" \notin spoilt' => Working(Graphing) = {}
    BY <1>1 DEF Begin, Overlaps
  <1>3. PICK new : new = [Idle EXCEPT !.kind = kind, !.at = place, !.text = ops + 1]
    OBVIOUS
  <1>4. op' = [op EXCEPT ![a] = new]
    BY <1>3 DEF Begin
  <1>5. op'[a] = new
    BY <1>4 DEF StoreTypes
  <1>6. new.chunk = 1 /\ new.ok = TRUE /\ new.failed = {}
    BY <1>3 DEF Idle
  <1>7. QED
    BY <1>2, <1>5, <1>6 DEF Begin, stores, rows

LEMMA PlacedMoves ==
  ASSUME AllPlaced, NEW a \in Actors, Others(a), Placed(op[a])'
  PROVE  AllPlaced'
  BY DEF AllPlaced, Others, Placed

\* The accounts as equalities of sets.
LEMMA AgreeSets ==
  ASSUME DataTypes, Agree
  PROVE  vec = {<<c, pg[c]>> : c \in {d \in Chunks : pg[d] # 0}}
  <1>1. \A c \in Chunks : pg[c] # 0 => pg[c] \in Texts
    BY Numbers DEF DataTypes, Texts
  <1>2. \A v \in vec : \E c \in {d \in Chunks : pg[d] # 0} : v = <<c, pg[c]>>
    <2>1. ASSUME NEW v \in vec
          PROVE  \E c \in {d \in Chunks : pg[d] # 0} : v = <<c, pg[c]>>
      <3>1. PICK c \in Chunks, t \in Texts : v = <<c, t>>
        BY DEF DataTypes
      <3>2. pg[c] = t /\ t # 0
        BY <3>1 DEF Agree, Texts
      <3>3. QED
        BY <3>1, <3>2
    <2>2. QED
      BY <2>1
  <1>3. \A c \in {d \in Chunks : pg[d] # 0} : <<c, pg[c]>> \in vec
    BY <1>1 DEF Agree
  <1>4. QED
    BY <1>2, <1>3

LEMMA ShownSets ==
  ASSUME DataTypes, Shown(flagged)
  PROVE  graph = {<<c, pg[c]>> : c \in flagged}
  <1>1. \A c \in flagged : c \in Chunks /\ pg[c] \in Texts
    BY Numbers DEF DataTypes, Shown, Texts
  <1>2. \A v \in graph : \E c \in flagged : v = <<c, pg[c]>>
    <2>1. ASSUME NEW v \in graph
          PROVE  \E c \in flagged : v = <<c, pg[c]>>
      <3>1. PICK c \in Chunks, t \in Texts : v = <<c, t>>
        BY DEF DataTypes
      <3>2. QED
        BY <3>1 DEF Shown
    <2>2. QED
      BY <2>1
  <1>3. \A c \in flagged : <<c, pg[c]>> \in graph
    BY <1>1 DEF Shown
  <1>4. QED
    BY <1>2, <1>3

=============================================================================

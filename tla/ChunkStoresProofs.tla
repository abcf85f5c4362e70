--------------------------- MODULE ChunkStoresProofs ---------------------------
(***************************************************************************)
(* Lemmas about ChunkStores for any actors, batches and bounds: what a     *)
(* step does to the operation that takes it, and that it keeps the types.  *)
(***************************************************************************)
EXTENDS ChunkStores, TLAPS

-----------------------------------------------------------------------------
(* Operations.                                                             *)

LEMMA Numbers ==
  /\ MaxOps \in Nat /\ MaxFaults \in Nat /\ Batches \in Nat \ {0}
  /\ 1 \in Chunks /\ Texts \subseteq 0..MaxOps
  BY StoreConstants DEF Chunks, Texts

LEMMA IdleTyped ==
  /\ Idle \in Op /\ Idle.kind = "none" /\ Idle.at = "idle"
  BY Numbers DEF Idle, Op, Kinds, Places

LEMMA OpFacts ==
  ASSUME op \in [Actors -> Op], NEW a \in Actors
  PROVE  /\ op[a] \in Op /\ op[a].kind \in Kinds /\ op[a].at \in Places
         /\ op[a].text \in 0..MaxOps /\ op[a].chunk \in Chunks
         /\ op[a].left \subseteq {"pg", "milvus"} /\ op[a].ok \in BOOLEAN
         /\ op[a].failed \subseteq Chunks
  <1>1. op[a] \in Op
    OBVIOUS
  <1>2. QED
    BY <1>1 DEF Op

\* An operation that is under way has a text.
Named == \A a \in Actors : op[a].at # "idle" => op[a].text \in Texts
StoreInv == StoreTypes /\ Named

\* Only the operation of the actor changes; it stays of its kind, and comes to a
\* place.
Others(a) == \A b \in Actors \ {a} : op'[b] = op[b]
MovesTo(a, places) ==
  /\ op' \in [Actors -> Op] /\ Others(a)
  /\ op'[a].kind = op[a].kind /\ op'[a].at \in places
  /\ op[a].text \in Texts => op'[a].text \in Texts
Stops(a) == op' \in [Actors -> Op] /\ Others(a) /\ op'[a] = Idle

LEMMA GotoFacts ==
  ASSUME op \in [Actors -> Op], NEW a \in Actors, NEW place \in Places, Goto(a, place)
  PROVE  MovesTo(a, {place})
  <1>1. op[a] \in Op
    BY OpFacts
  <1>2. /\ [op[a] EXCEPT !.at = place] \in Op
        /\ [op[a] EXCEPT !.at = place].at = place
        /\ [op[a] EXCEPT !.at = place].kind = op[a].kind
        /\ [op[a] EXCEPT !.at = place].text = op[a].text
    BY <1>1 DEF Op
  <1>3. op' = [op EXCEPT ![a] = [op[a] EXCEPT !.at = place]]
    BY DEF Goto
  <1>4. QED
    BY <1>2, <1>3 DEF MovesTo, Others

LEMMA EndFacts ==
  ASSUME op \in [Actors -> Op], NEW a \in Actors, End(a)
  PROVE  Stops(a)
  BY IdleTyped DEF End, Stops, Others

LEMMA BeginFacts ==
  ASSUME StoreTypes, NEW a \in Actors, NEW kind \in Kinds, NEW place \in Places,
         Begin(a, kind, place)
  PROVE  /\ StoreTypes' /\ Others(a) /\ spoilt \subseteq spoilt'
         /\ op[a] = Idle /\ op'[a].kind = kind /\ op'[a].at = place
         /\ op'[a].text \in Texts
  <1> DEFINE new == [Idle EXCEPT !.kind = kind, !.at = place, !.text = ops + 1]
  <1>1. ops + 1 \in 0..MaxOps /\ ops + 1 \in Texts /\ ops' = ops + 1
    BY Numbers DEF Begin, StoreTypes, Texts
  <1>2. new \in Op /\ new.kind = kind /\ new.at = place /\ new.text \in Texts
    BY <1>1, IdleTyped DEF Op, Idle
  <1>3. op' = [op EXCEPT ![a] = new] /\ op[a] = Idle
    BY DEF Begin
  <1> HIDE DEF new
  <1>4. op' \in [Actors -> Op] /\ Others(a) /\ op'[a] = new
    BY <1>2, <1>3 DEF StoreTypes, Others
  <1>5. spoilt' \subseteq Spoils /\ spoilt \subseteq spoilt'
    BY DEF Begin, Overlaps, StoreTypes, Spoils
  <1>6. QED
    BY <1>1, <1>2, <1>3, <1>4, <1>5 DEF Begin, StoreTypes, stores, rows

LEMMA ReturnFacts ==
  ASSUME op \in [Actors -> Op], NEW a \in Actors, NEW to,
         \A k \in DOMAIN to : to[k] \in Places,
         Return(a, to)
  PROVE  \/ op[a].kind \in DOMAIN to /\ MovesTo(a, {to[op[a].kind]})
         \/ op[a].kind \notin DOMAIN to /\ Stops(a)
  BY GotoFacts, EndFacts DEF Return

\* Where the procedures return to.
LEMMA Returns ==
  ASSUME op \in [Actors -> Op], NEW a \in Actors
  PROVE  /\ Return(a, AfterClean) =>
              \/ op[a].kind = "index" /\ MovesTo(a, {"embed"})
              \/ op[a].kind = "delete" /\ MovesTo(a, {"row"})
              \/ op[a].kind = "withdraw" /\ MovesTo(a, {"commit"})
              \/ op[a].kind # "index" /\ Stops(a)
         /\ Return(a, AfterStore) =>
              \/ op[a].kind = "index" /\ MovesTo(a, {"finish"})
              \/ op[a].kind = "write" /\ MovesTo(a, {"list"})
              \/ op[a].kind # "index" /\ Stops(a)
         /\ Return(a, Raised) =>
              \/ op[a].kind = "index" /\ MovesTo(a, {"error"})
              \/ op[a].kind # "index" /\ Stops(a)
         /\ Return(a, AfterBuild) =>
              (op[a].kind = "write" /\ MovesTo(a, {"commit"})) \/ Stops(a)
         /\ Return(a, [write |-> "clean"]) =>
              (op[a].kind = "write" /\ MovesTo(a, {"clean"})) \/ Stops(a)
  <1>1. /\ DOMAIN AfterClean = {"index", "delete", "withdraw"}
        /\ AfterClean["index"] = "embed" /\ AfterClean["delete"] = "row"
        /\ AfterClean["withdraw"] = "commit"
    BY DEF AfterClean
  <1>2. /\ DOMAIN AfterStore = {"index", "write"}
        /\ AfterStore["index"] = "finish" /\ AfterStore["write"] = "list"
    BY DEF AfterStore
  <1>3. DOMAIN Raised = {"index"} /\ Raised["index"] = "error"
    BY DEF Raised
  <1>4. DOMAIN AfterBuild = {"write"} /\ AfterBuild["write"] = "commit"
    BY DEF AfterBuild
  <1>5. /\ DOMAIN [write |-> "clean"] = {"write"}
        /\ [write |-> "clean"]["write"] = "clean"
    OBVIOUS
  <1>6. {"embed", "row", "commit", "finish", "list", "error", "clean"} \subseteq Places
    BY DEF Places
  <1>7. ASSUME Return(a, AfterClean)
        PROVE  \/ op[a].kind = "index" /\ MovesTo(a, {"embed"})
               \/ op[a].kind = "delete" /\ MovesTo(a, {"row"})
               \/ op[a].kind = "withdraw" /\ MovesTo(a, {"commit"})
               \/ op[a].kind # "index" /\ Stops(a)
    BY <1>1, <1>6, <1>7, ReturnFacts
  <1>8. ASSUME Return(a, AfterStore)
        PROVE  \/ op[a].kind = "index" /\ MovesTo(a, {"finish"})
               \/ op[a].kind = "write" /\ MovesTo(a, {"list"})
               \/ op[a].kind # "index" /\ Stops(a)
    BY <1>2, <1>6, <1>8, ReturnFacts
  <1>9. ASSUME Return(a, Raised)
        PROVE  \/ op[a].kind = "index" /\ MovesTo(a, {"error"})
               \/ op[a].kind # "index" /\ Stops(a)
    BY <1>3, <1>6, <1>9, ReturnFacts
  <1>10. ASSUME Return(a, AfterBuild)
         PROVE  (op[a].kind = "write" /\ MovesTo(a, {"commit"})) \/ Stops(a)
    BY <1>4, <1>6, <1>10, ReturnFacts
  <1>11. ASSUME Return(a, [write |-> "clean"])
         PROVE  (op[a].kind = "write" /\ MovesTo(a, {"clean"})) \/ Stops(a)
    BY <1>5, <1>6, <1>11, ReturnFacts
  <1>12. QED
    BY <1>7, <1>8, <1>9, <1>10, <1>11

-----------------------------------------------------------------------------
(* The steps of the procedures.                                            *)

Cleaning == {"clean", "graph", "chunks", "vectors"}
Inserting == {"embed", "insert", "undo", "unvector"}
Building == {"list", "extract", "relate", "mark"}

\* What a step of a procedure does to the operation: an indexing stays in the
\* procedures or comes back to its own steps.
Proceeds(a) ==
  \/ /\ op[a].at \in Building
     /\ Stops(a) \/ MovesTo(a, Building \cup {"commit", "clean"})
  \/ /\ op[a].at \in Cleaning \cup Inserting
     /\ \/ MovesTo(a, Cleaning \cup Inserting)
        \/ op[a].kind = "index" /\ MovesTo(a, {"finish", "error"})
        \/ op[a].kind # "index" /\ (Stops(a) \/ MovesTo(a, {"row", "commit", "list"}))

LEMMA FaultTyped ==
  ASSUME faults \in 0..MaxFaults, NEW kind, Fault(kind)
  PROVE  faults' \in 0..MaxFaults
  BY Numbers DEF Fault

\* The rows, the vectors and the graph keep their types.
DataTypes ==
  /\ pg \in [Chunks -> 0..MaxOps] /\ extracted \in [Chunks -> 0..MaxOps]
  /\ flagged \subseteq Chunks
  /\ vec \subseteq Chunks \X Texts /\ graph \subseteq Chunks \X Texts
Records == spoilt' \subseteq Spoils /\ spoilt \subseteq spoilt' /\ faults' \in 0..MaxFaults

LEMMA FineFacts ==
  ASSUME StoreTypes, Fine
  PROVE  Records
  BY DEF StoreTypes, Fine, Records

LEMMA PartlyFacts ==
  ASSUME StoreTypes, NEW kind, Partly(kind)
  PROVE  Records /\ "partial" \in spoilt'
  BY FaultTyped DEF StoreTypes, Partly, Records, Spoils

LEMMA FaultFacts ==
  ASSUME StoreTypes, NEW kind, Fault(kind), UNCHANGED spoilt
  PROVE  Records
  BY FaultTyped DEF StoreTypes, Records

LEMMA NoChunksTyped ==
  ASSUME NoChunks
  PROVE  /\ pg' \in [Chunks -> 0..MaxOps] /\ extracted' \in [Chunks -> 0..MaxOps]
         /\ flagged' \subseteq Chunks
  BY Numbers DEF NoChunks

LEMMA CleanStep ==
  ASSUME StoreTypes, NEW a \in Actors,
         CountGraph(a) \/ DropGraph(a) \/ DropChunks(a) \/ DropVectors(a)
  PROVE  Proceeds(a) /\ DataTypes' /\ Records /\ ops' = ops
  <1> USE DEF stores, rows, Doing
  <1>0. op \in [Actors -> Op] /\ DataTypes
    BY DEF StoreTypes, DataTypes
  <1>1. {"graph", "chunks", "vectors"} \subseteq Places
    BY DEF Places
  <1>2. CASE CountGraph(a)
    <2>1. Goto(a, "graph") \/ Goto(a, "chunks")
      BY <1>2 DEF CountGraph
    <2>2. Proceeds(a)
      BY <1>0, <1>1, <1>2, <2>1, GotoFacts DEF CountGraph, Proceeds, MovesTo, Cleaning
    <2>3. QED
      BY <1>0, <1>2, <2>2, FineFacts DEF CountGraph, DataTypes
  <1>3. CASE DropGraph(a)
    <2>1. Proceeds(a)
      BY <1>0, <1>1, <1>3, GotoFacts DEF DropGraph, Proceeds, MovesTo, Cleaning
    <2>2. Records
      BY <1>3, FineFacts, PartlyFacts DEF DropGraph
    <2>3. QED
      BY <1>0, <1>3, <2>1, <2>2 DEF DropGraph, DataTypes
  <1>4. CASE DropChunks(a)
    <2>1. Goto(a, "vectors") \/ Return(a, Raised)
      BY <1>4 DEF DropChunks
    <2>2. Proceeds(a)
      BY <1>0, <1>1, <1>4, <2>1, GotoFacts, Returns
         DEF DropChunks, Proceeds, MovesTo, Cleaning
    <2>3. Records
      BY <1>4, FineFacts, PartlyFacts DEF DropChunks
    <2>4. QED
      BY <1>0, <1>4, <2>2, <2>3, NoChunksTyped DEF DropChunks, DataTypes
  <1>5. CASE DropVectors(a)
    <2>1. Return(a, AfterClean) /\ op[a].at = "vectors"
      BY <1>5 DEF DropVectors
    <2>2. Proceeds(a)
      BY <1>0, <2>1, Returns DEF Proceeds, MovesTo, Cleaning, Inserting
    <2>3. Records
      BY <1>5, FineFacts, PartlyFacts DEF DropVectors
    <2>4. QED
      BY <1>0, <1>5, <2>2, <2>3 DEF DropVectors, DataTypes
  <1>6. QED
    BY <1>2, <1>3, <1>4, <1>5

\* Either store answers.
LEMMA InsertedFacts ==
  ASSUME op \in [Actors -> Op], NEW a \in Actors, NEW store, NEW ok \in BOOLEAN,
         Inserted(a, store, ok)
  PROVE  MovesTo(a, {op[a].at})
  <1>1. op[a] \in Op /\ op[a].left \ {store} \subseteq {"pg", "milvus"}
    BY OpFacts
  <1>2. PICK new : new = [op[a] EXCEPT !.left = @ \ {store}, !.ok = @ /\ ok]
    OBVIOUS
  <1>3. /\ new \in Op /\ new.kind = op[a].kind /\ new.at = op[a].at
        /\ new.text = op[a].text
    BY <1>1, <1>2 DEF Op
  <1>4. op' = [op EXCEPT ![a] = new]
    BY <1>2 DEF Inserted
  <1>5. QED
    BY <1>3, <1>4 DEF MovesTo, Others

LEMMA InsertStep ==
  ASSUME StoreInv, NEW a \in Actors, NEW fileExists,
         InsertRow(a, fileExists) \/ InsertVector(a)
  PROVE  Proceeds(a) /\ DataTypes' /\ Records /\ ops' = ops
  <1> USE DEF stores, rows, Doing
  <1>0. /\ StoreTypes /\ op \in [Actors -> Op] /\ DataTypes /\ op[a].at = "insert"
        /\ op[a].chunk \in Chunks /\ op[a].text \in Texts /\ op[a].text \in 0..MaxOps
    BY OpFacts DEF StoreInv, StoreTypes, DataTypes, InsertRow, InsertVector, Named
  <1>1. Proceeds(a)
    <2>1. \E store, ok \in {"pg", "milvus", TRUE, FALSE} :
            ok \in BOOLEAN /\ Inserted(a, store, ok)
      BY DEF InsertRow, InsertVector
    <2>2. MovesTo(a, {op[a].at})
      BY <1>0, <2>1, InsertedFacts
    <2>3. QED
      BY <1>0, <2>2 DEF Proceeds, MovesTo, Inserting
  <1>2. Records /\ ops' = ops
    BY <1>0, FineFacts, FaultFacts DEF InsertRow, InsertVector
  <1>3. DataTypes'
    <2>1. CASE InsertRow(a, fileExists)
      <3>1. \/ /\ pg' = [pg EXCEPT ![op[a].chunk] = op[a].text]
               /\ extracted' = [extracted EXCEPT ![op[a].chunk] = 0]
               /\ flagged' = flagged \ {op[a].chunk}
            \/ UNCHANGED <<pg, extracted, flagged>>
        BY <2>1 DEF InsertRow
      <3>2. /\ pg' \in [Chunks -> 0..MaxOps] /\ extracted' \in [Chunks -> 0..MaxOps]
            /\ flagged' \subseteq Chunks
        BY <1>0, <3>1, Numbers DEF DataTypes
      <3>3. UNCHANGED <<vec, graph>>
        BY <2>1 DEF InsertRow
      <3>4. QED
        BY <1>0, <3>2, <3>3 DEF DataTypes
    <2>2. CASE InsertVector(a)
      <3>1. vec' \in {vec, vec \cup {<<op[a].chunk, op[a].text>>}}
        BY <2>2 DEF InsertVector
      <3>2. vec' \subseteq Chunks \X Texts
        BY <1>0, <3>1 DEF DataTypes
      <3>3. UNCHANGED <<pg, extracted, flagged, graph>>
        BY <2>2 DEF InsertVector
      <3>4. QED
        BY <1>0, <3>2, <3>3 DEF DataTypes
    <2>3. QED
      BY <2>1, <2>2
  <1>4. QED
    BY <1>1, <1>2, <1>3

\* The next batch, or back to where the procedure was called.
LEMMA GatherStep ==
  ASSUME StoreInv, NEW a \in Actors, Embed(a) \/ Gathered(a) \/ UndoRows(a) \/ UndoVectors(a)
  PROVE  Proceeds(a) /\ DataTypes' /\ Records /\ ops' = ops
  <1> USE DEF stores, rows, Doing
  <1>0. /\ StoreTypes /\ op \in [Actors -> Op] /\ DataTypes /\ op[a] \in Op
        /\ {"insert", "undo", "unvector"} \subseteq Places
    BY OpFacts DEF StoreInv, StoreTypes, DataTypes, Places
  <1>i. op[a].at \in Inserting
    BY DEF Embed, Gathered, UndoRows, UndoVectors, Inserting
  <1>m. ASSUME \/ MovesTo(a, {"embed"}) \/ MovesTo(a, {"insert"})
               \/ MovesTo(a, {"undo"}) \/ MovesTo(a, {"unvector"})
        PROVE  Proceeds(a)
    BY <1>i, <1>m DEF Proceeds, MovesTo, Inserting
  <1>r. ASSUME Return(a, Raised) \/ Return(a, AfterStore)
        PROVE  Proceeds(a)
    BY <1>0, <1>i, <1>r, Returns DEF Proceeds, MovesTo
  <1>1. CASE Embed(a)
    <2>1. ASSUME op' = [op EXCEPT ![a].at = "insert", ![a].left = {"pg", "milvus"}]
          PROVE  Proceeds(a)
      <3>1. PICK new : new = [op[a] EXCEPT !.at = "insert", !.left = {"pg", "milvus"}]
        OBVIOUS
      <3>2. /\ new \in Op /\ new.kind = op[a].kind /\ new.at = "insert"
            /\ new.text = op[a].text
        BY <1>0, <3>1 DEF Op
      <3>3. op' = [op EXCEPT ![a] = new]
        BY <1>0, <2>1, <3>1
      <3>4. MovesTo(a, {"insert"})
        BY <1>0, <3>2, <3>3 DEF MovesTo, Others
      <3>5. QED
        BY <1>m, <3>4
    <2>2. \/ op' = [op EXCEPT ![a].at = "insert", ![a].left = {"pg", "milvus"}]
          \/ Return(a, Raised)
      BY <1>1, Zenon DEF Embed
    <2>3. Proceeds(a)
      BY <1>r, <2>1, <2>2
    <2>4. Records
      BY <1>0, <1>1, FineFacts, FaultFacts DEF Embed
    <2>5. QED
      BY <1>0, <1>1, <2>3, <2>4 DEF Embed, DataTypes
  <1>2. CASE Gathered(a)
    <2>1. ASSUME op[a].chunk < Batches,
                 op' = [op EXCEPT ![a].at = "embed", ![a].chunk = @ + 1]
          PROVE  Proceeds(a)
      <3>1. PICK new : new = [op[a] EXCEPT !.at = "embed", !.chunk = @ + 1]
        OBVIOUS
      <3>2. op[a].chunk + 1 \in Chunks
        BY <1>0, <2>1, OpFacts, Numbers DEF Chunks
      <3>3. /\ new \in Op /\ new.kind = op[a].kind /\ new.at = "embed"
            /\ new.text = op[a].text
        BY <1>0, <3>1, <3>2 DEF Op, Places
      <3>4. op' = [op EXCEPT ![a] = new]
        BY <1>0, <2>1, <3>1
      <3>5. MovesTo(a, {"embed"})
        BY <1>0, <3>3, <3>4 DEF MovesTo, Others
      <3>6. QED
        BY <1>m, <3>5
    <2>2. ASSUME Goto(a, "undo") PROVE Proceeds(a)
      BY <1>0, <1>m, <2>2, GotoFacts
    <2>3. \/ /\ op[a].chunk < Batches
             /\ op' = [op EXCEPT ![a].at = "embed", ![a].chunk = @ + 1]
          \/ Goto(a, "undo")
          \/ Return(a, AfterStore)
      BY <1>2, Zenon DEF Gathered
    <2>4. Proceeds(a)
      BY <1>r, <2>1, <2>2, <2>3
    <2>5. QED
      BY <1>0, <1>2, <2>4, FineFacts DEF Gathered, DataTypes
  <1>3. CASE UndoRows(a)
    <2>1. Proceeds(a)
      BY <1>0, <1>3, <1>m, GotoFacts DEF UndoRows
    <2>2. Records
      BY <1>0, <1>3, FineFacts, PartlyFacts DEF UndoRows
    <2>3. QED
      BY <1>0, <1>3, <2>1, <2>2, NoChunksTyped DEF UndoRows, DataTypes
  <1>4. CASE UndoVectors(a)
    <2>1. Proceeds(a)
      BY <1>4, <1>r DEF UndoVectors
    <2>2. Records
      BY <1>0, <1>4, FineFacts, PartlyFacts DEF UndoVectors
    <2>3. QED
      BY <1>0, <1>4, <2>1, <2>2 DEF UndoVectors, DataTypes
  <1>5. QED
    BY <1>1, <1>2, <1>3, <1>4

\* A chunk that failed is left for another build.
LEMMA ChunkFailsFacts ==
  ASSUME StoreTypes, NEW a \in Actors, NEW spoils \in SUBSET Spoils, ChunkFails(a, spoils),
         faults' \in 0..MaxFaults
  PROVE  MovesTo(a, {"list"}) /\ Records
  <1>1. op \in [Actors -> Op] /\ op[a] \in Op /\ op[a].chunk \in Chunks
    BY OpFacts DEF StoreTypes
  <1>2. PICK new : new = [op[a] EXCEPT !.at = "list", !.failed = @ \cup {op[a].chunk}]
    OBVIOUS
  <1>3. /\ new \in Op /\ new.kind = op[a].kind /\ new.at = "list"
        /\ new.text = op[a].text
    BY <1>1, <1>2 DEF Op, Places
  <1>4. op' = [op EXCEPT ![a] = new]
    BY <1>1, <1>2 DEF ChunkFails
  <1>5. MovesTo(a, {"list"})
    BY <1>1, <1>3, <1>4 DEF MovesTo, Others
  <1>6. QED
    BY <1>5 DEF ChunkFails, Records, StoreTypes, Spoils

LEMMA ListStep ==
  ASSUME StoreInv, NEW a \in Actors, List(a)
  PROVE  Proceeds(a) /\ DataTypes' /\ Records /\ ops' = ops
  <1> USE DEF stores, rows, Doing
  <1>0. /\ StoreTypes /\ op \in [Actors -> Op] /\ DataTypes /\ op[a] \in Op
        /\ op[a].at = "list" /\ {"extract", "relate"} \subseteq Places
    BY OpFacts DEF StoreInv, StoreTypes, DataTypes, Places, List
  <1>1. ASSUME NEW c \in Chunks, NEW t \in Texts, NEW place \in {"extract", "relate"},
               op' = [op EXCEPT ![a].at = place, ![a].chunk = c, ![a].text = t]
        PROVE  MovesTo(a, {"extract", "relate"})
    <2>1. PICK new : new = [op[a] EXCEPT !.at = place, !.chunk = c, !.text = t]
      OBVIOUS
    <2>2. /\ new \in Op /\ new.kind = op[a].kind /\ new.at = place
          /\ new.text \in Texts
      BY <1>0, <2>1, Numbers DEF Op
    <2>3. op' = [op EXCEPT ![a] = new]
      BY <1>0, <1>1, <2>1
    <2>4. QED
      BY <1>0, <2>2, <2>3 DEF MovesTo, Others
  <1>2. ASSUME NEW c \in Chunks, pg[c] # 0
        PROVE  pg[c] \in Texts /\ (extracted[c] # 0 => extracted[c] \in Texts)
    BY <1>0, <1>2, Numbers DEF DataTypes, Texts
  <1>3. \/ \E c \in Chunks :
             /\ pg[c] # 0
             /\ IF extracted[c] # 0
                THEN op' = [op EXCEPT ![a].at = "relate", ![a].chunk = c,
                                      ![a].text = extracted[c]]
                ELSE op' = [op EXCEPT ![a].at = "extract", ![a].chunk = c, ![a].text = pg[c]]
        \/ Return(a, AfterBuild)
        \/ Return(a, [write |-> "clean"])
    BY DEF List
  <1>4. Proceeds(a)
    <2>1. CASE MovesTo(a, {"extract", "relate"}) \/ Stops(a)
      BY <1>0, <2>1 DEF Proceeds, MovesTo, Building
    <2>2. CASE Return(a, AfterBuild)
      BY <1>0, <2>2, Returns DEF Proceeds, MovesTo, Building
    <2>3. CASE Return(a, [write |-> "clean"])
      BY <1>0, <2>3, Returns DEF Proceeds, MovesTo, Building
    <2>4. QED
      BY <1>1, <1>2, <1>3, <2>1, <2>2, <2>3
  <1>5. Records /\ UNCHANGED <<pg, extracted, flagged, vec, graph, ops>>
    BY <1>0, FineFacts, FaultFacts DEF List
  <1>6. QED
    BY <1>0, <1>4, <1>5 DEF DataTypes

LEMMA BuildStep ==
  ASSUME StoreInv, NEW a \in Actors, Extract(a) \/ Relate(a) \/ Mark(a)
  PROVE  Proceeds(a) /\ DataTypes' /\ Records /\ ops' = ops
  <1> USE DEF stores, rows, Doing
  <1>0. /\ StoreTypes /\ op \in [Actors -> Op] /\ DataTypes
        /\ op[a].at \in Building /\ op[a].chunk \in Chunks /\ op[a].text \in Texts
        /\ {"list", "relate", "mark"} \subseteq Places
    BY OpFacts DEF StoreInv, Named, StoreTypes, DataTypes, Places, Extract, Relate, Mark, Building
  <1>1. ASSUME NEW place \in {"list", "relate", "mark"}, Goto(a, place), Fine
        PROVE  Proceeds(a) /\ Records
    BY <1>0, <1>1, GotoFacts, FineFacts DEF Proceeds, MovesTo, Building
  <1>2. ASSUME NEW spoils \in {{}, {"partial"}}, ChunkFails(a, spoils),
               \/ UNCHANGED faults
               \/ \E kind \in {"extract", "graph", "pg"} : Fault(kind)
        PROVE  Proceeds(a) /\ Records
    <2>1. faults' \in 0..MaxFaults
      BY <1>0, <1>2, FaultTyped DEF StoreTypes
    <2>2. spoils \in SUBSET Spoils
      BY DEF Spoils
    <2>3. MovesTo(a, {"list"}) /\ Records
      BY <1>0, <1>2, <2>1, <2>2, ChunkFailsFacts
    <2>4. QED
      BY <1>0, <2>3 DEF Proceeds, MovesTo, Building
  <1>3. CASE Extract(a)
    <2>1. Proceeds(a) /\ Records
      BY <1>1, <1>2, <1>3 DEF Extract
    <2>2. extracted' \in {extracted, [extracted EXCEPT ![op[a].chunk] = op[a].text]}
      BY <1>3 DEF Extract
    <2>3. extracted' \in [Chunks -> 0..MaxOps]
      BY <1>0, <2>2, Numbers DEF DataTypes
    <2>4. QED
      BY <1>0, <1>3, <2>1, <2>3 DEF Extract, DataTypes
  <1>4. CASE Relate(a)
    <2>1. Proceeds(a) /\ Records
      BY <1>1, <1>2, <1>4 DEF Relate
    <2>2. graph' \in {graph, graph \cup {<<op[a].chunk, op[a].text>>}}
      BY <1>4 DEF Relate
    <2>3. graph' \subseteq Chunks \X Texts
      BY <1>0, <2>2 DEF DataTypes
    <2>4. QED
      BY <1>0, <1>4, <2>1, <2>3 DEF Relate, DataTypes
  <1>5. CASE Mark(a)
    <2>1. Proceeds(a) /\ Records
      BY <1>1, <1>2, <1>5 DEF Mark
    <2>2. flagged' \subseteq Chunks
      BY <1>0, <1>5 DEF Mark, DataTypes
    <2>3. QED
      BY <1>0, <1>5, <2>1, <2>2 DEF Mark, DataTypes
  <1>6. QED
    BY <1>3, <1>4, <1>5

-----------------------------------------------------------------------------
\* A step that moves its operation on and keeps the data typed keeps the types.
LEMMA InvKept ==
  ASSUME StoreInv, NEW a \in Actors,
         Stops(a) \/ \E places \in SUBSET Places : MovesTo(a, places) /\ op[a].at # "idle",
         DataTypes', Records, ops' = ops
  PROVE  StoreInv'
  <1>1. op' \in [Actors -> Op] /\ Others(a)
    BY DEF Stops, MovesTo
  <1>2. op'[a].at # "idle" => op'[a].text \in Texts
    BY IdleTyped DEF Stops, MovesTo, StoreInv, Named
  <1>3. Named'
    BY <1>1, <1>2 DEF StoreInv, Named, Others
  <1>4. QED
    BY <1>1, <1>3 DEF StoreInv, StoreTypes, DataTypes, Records

\* A step of a procedure keeps the types and moves the operation on.
LEMMA StoreStepFacts ==
  ASSUME StoreInv, NEW a \in Actors, NEW fileExists, StoreStep(a, fileExists)
  PROVE  StoreInv' /\ Proceeds(a) /\ spoilt \subseteq spoilt'
  <1>1. Proceeds(a) /\ DataTypes' /\ Records /\ ops' = ops
    BY CleanStep, InsertStep, GatherStep, ListStep, BuildStep DEF StoreStep, StoreInv
  <1>2. op[a].at # "idle"
    BY <1>1 DEF Proceeds, Cleaning, Inserting, Building
  <1>3. /\ Building \cup {"commit", "clean"} \in SUBSET Places
        /\ Cleaning \cup Inserting \in SUBSET Places
        /\ {"finish", "error"} \in SUBSET Places /\ {"row", "commit", "list"} \in SUBSET Places
    BY DEF Places, Building, Cleaning, Inserting
  <1>4. Stops(a) \/ \E places \in SUBSET Places : MovesTo(a, places)
    BY <1>1, <1>3, Zenon DEF Proceeds
  <1>5. StoreInv'
    BY <1>1, <1>2, <1>4, InvKept
  <1>6. QED
    BY <1>1, <1>5 DEF Records

\* A crash ends every operation.
LEMMA DieFacts ==
  ASSUME StoreInv, Die
  PROVE  StoreInv' /\ \A a \in Actors : op'[a] = Idle /\ "crash" \in spoilt'
  <1>1. op' = [a \in Actors |-> Idle]
    BY DEF Die
  <1>2. Named'
    BY <1>1, IdleTyped DEF Named
  <1>3. faults' \in 0..MaxFaults
    BY FaultTyped DEF Die, StoreInv, StoreTypes
  <1>4. StoreTypes'
    BY <1>1, <1>3, IdleTyped DEF Die, StoreInv, StoreTypes, stores, rows, Spoils
  <1>5. QED
    BY <1>1, <1>2, <1>4 DEF StoreInv, Die

LEMMA InitFacts ==
  ASSUME StoreInit
  PROVE  StoreInv
  BY Numbers, IdleTyped DEF StoreInit, StoreInv, StoreTypes, Named

LEMMA BeginKeeps ==
  ASSUME StoreInv, NEW a \in Actors, NEW kind \in Kinds, NEW place \in Places,
         Begin(a, kind, place)
  PROVE  /\ StoreInv' /\ Others(a) /\ spoilt \subseteq spoilt'
         /\ op[a] = Idle /\ op'[a].kind = kind /\ op'[a].at = place
  BY BeginFacts DEF StoreInv, Named, Others

\* A step of a handler's own: on to another place, or to its end.
LEMMA Moved ==
  ASSUME StoreInv, NEW a \in Actors, op[a].at # "idle", NEW place \in Places,
         Goto(a, place), DataTypes', Records, ops' = ops
  PROVE  StoreInv' /\ MovesTo(a, {place}) /\ spoilt \subseteq spoilt'
  <1>1. MovesTo(a, {place})
    BY GotoFacts DEF StoreInv, StoreTypes
  <1>2. {place} \in SUBSET Places
    OBVIOUS
  <1>3. StoreInv'
    BY <1>1, <1>2, InvKept, Zenon
  <1>4. QED
    BY <1>1, <1>3 DEF Records

LEMMA Ended ==
  ASSUME StoreInv, NEW a \in Actors, End(a), DataTypes', Records, ops' = ops
  PROVE  StoreInv' /\ Stops(a) /\ spoilt \subseteq spoilt'
  <1>1. Stops(a)
    BY EndFacts DEF StoreInv, StoreTypes
  <1>2. StoreInv'
    BY <1>1, InvKept
  <1>3. QED
    BY <1>1, <1>2 DEF Records

LEMMA SameData ==
  ASSUME StoreInv, UNCHANGED stores
  PROVE  DataTypes'
  BY DEF StoreInv, StoreTypes, DataTypes, stores, rows

=============================================================================

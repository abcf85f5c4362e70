------------------------ MODULE KnowledgeIndexingProofs ------------------------
(***************************************************************************)
(* Proofs about KnowledgeIndexing for any actors, number of batches and    *)
(* bounds: type correctness, that a document being processed has one       *)
(* operation that works on it, and that rows, vectors and graph agree.     *)
(***************************************************************************)
EXTENDS KnowledgeIndexing, StoreAgreementProofs, FiniteSetTheorems

-----------------------------------------------------------------------------
(* The inductive invariant.                                                *)

\* Only an indexing is at the places of an indexing, only a parse at a parse's.
LocatedAt(a) ==
  /\ op[a].kind = "index" =>
       op[a].at \in Cleaning \cup Inserting \cup {"read", "finish", "error"}
  /\ op[a].at \in {"read", "finish", "error"} => op[a].kind = "index"
  /\ op[a].kind = "parse" <=> op[a].at = "parse"
Located == \A a \in Actors : LocatedAt(a)

\* While the row has the status, one operation of the kind works, or none after it
\* could not give the row another; with any other status none does, but on a row
\* that is gone.
Served(s, kind) ==
  IF status = s
  THEN \/ \E a \in Actors : Working({kind}) = {a}
       \/ Working({kind}) = {} /\ "unsaid" \in spoilt
  ELSE status = "none" \/ Working({kind}) = {}
Void == Spoilt({"crash", "overwrite"})
Service == Void \/ (Served("parsing", "parse") /\ Served("indexing", "index"))

Typed == StoreInv /\ status \in FileStatus \cup {"none"}
                  /\ seen \in [Actors -> FileStatus \cup {"none"}]
IInv == Typed /\ Located /\ Service

-----------------------------------------------------------------------------
LEMMA SetStatusFacts ==
  ASSUME NEW s \in FileStatus, status \in FileStatus \cup {"none"}, SetStatus(s)
  PROVE  /\ status' \in FileStatus \cup {"none"}
         /\ status = "none" => status' = "none"
         /\ status # "none" => status' = s
  BY DEF SetStatus

LEMMA UnsaidFacts ==
  ASSUME StoreTypes, Unsaid
  PROVE  /\ Records /\ "unsaid" \in spoilt' /\ spoilt \subseteq spoilt' /\ status' = status
  BY FaultTyped DEF StoreTypes, Unsaid, Records, Spoils

LEMMA VoidStays ==
  ASSUME spoilt \subseteq spoilt', Void
  PROVE  Void'
  BY DEF Void, Spoilt

LEMMA LocatedMoves ==
  ASSUME Located, NEW a \in Actors, Others(a), LocatedAt(a)'
  PROVE  Located'
  BY DEF Located, LocatedAt, Others

LEMMA IdleLocated ==
  ASSUME NEW a \in Actors, op'[a] = Idle
  PROVE  LocatedAt(a)'
  BY IdleTyped DEF LocatedAt

\* The kinds of the operations stay, but for the actor's, which is neither a parse
\* nor an indexing.
Calm(a) ==
  /\ Others(a) /\ spoilt \subseteq spoilt'
  /\ \/ op'[a].kind = op[a].kind
     \/ op[a].kind \notin {"parse", "index"} /\ op'[a].kind \notin {"parse", "index"}

LEMMA CalmWorking ==
  ASSUME NEW a \in Actors, Calm(a), NEW kind \in {"parse", "index"}
  PROVE  Working({kind})' = Working({kind})
  BY DEF Calm, Others, Working

LEMMA CalmService ==
  ASSUME Service, NEW a \in Actors, Calm(a), Void' \/ status' \in {status, "none"}
  PROVE  Service'
  <1>1. CASE Void'
    BY <1>1 DEF Service
  <1>2. CASE ~Void' /\ status' = status
    <2>1. Served("parsing", "parse") /\ Served("indexing", "index")
      BY <1>2, VoidStays DEF Service, Calm
    <2>2. /\ Working({"parse"})' = Working({"parse"})
          /\ Working({"index"})' = Working({"index"})
      BY CalmWorking
    <2>3. "unsaid" \in spoilt => "unsaid" \in spoilt'
      BY DEF Calm
    <2>4. Served("parsing", "parse")' /\ Served("indexing", "index")'
      BY <1>2, <2>1, <2>2, <2>3 DEF Served
    <2>5. QED
      BY <2>4 DEF Service
  <1>3. CASE status' = "none"
    BY <1>3 DEF Service, Served
  <1>4. QED
    BY <1>1, <1>2, <1>3

\* The claim of a row whose status says that nothing works on it.
LEMMA ClaimService ==
  ASSUME IInv, NEW a \in Actors, Others(a), spoilt \subseteq spoilt', op[a] = Idle,
         NEW kind \in {"parse", "index"}, op'[a].kind = kind,
         status \notin {"none", "parsing", "indexing"},
         status' = IF kind = "parse" THEN "parsing" ELSE "indexing"
  PROVE  Service'
  <1>1. CASE Void'
    BY <1>1 DEF Service
  <1>2. CASE ~Void'
    <2>1. Working({"parse"}) = {} /\ Working({"index"}) = {}
      BY <1>2, VoidStays DEF IInv, Service, Served
    <2>2. Working({kind})' = {a}
      BY <2>1 DEF Working, Others
    <2>3. \A k \in {"parse", "index"} \ {kind} : Working({k})' = {}
      BY <2>1 DEF Working, Others
    <2>4. QED
      BY <2>2, <2>3 DEF Service, Served
  <1>3. QED
    BY <1>1, <1>2

\* The last step of a parse or an indexing gives the row another status.
LEMMA LastService ==
  ASSUME IInv, NEW a \in Actors, Stops(a), spoilt \subseteq spoilt',
         op[a].kind \in {"parse", "index"},
         NEW s \in FileStatus \ {"parsing", "indexing"}, SetStatus(s)
  PROVE  Service'
  <1>1. CASE Void'
    BY <1>1 DEF Service
  <1>2. CASE ~Void' /\ status # "none"
    <2>1. Served("parsing", "parse") /\ Served("indexing", "index")
      BY <1>2, VoidStays DEF IInv, Service
    <2>2. a \in Working({op[a].kind})
      BY DEF Working
    <2>3. Working({"parse"}) \subseteq {a} /\ Working({"index"}) \subseteq {a}
      BY <1>2, <2>1, <2>2 DEF Served
    <2>4. Working({"parse"})' = {} /\ Working({"index"})' = {}
      BY <2>3, IdleTyped DEF Working, Stops, Others
    <2>5. status' = s
      BY <1>2 DEF SetStatus
    <2>6. QED
      BY <2>4, <2>5 DEF Service, Served
  <1>3. CASE status = "none"
    BY <1>3 DEF SetStatus, Service, Served
  <1>4. QED
    BY <1>1, <1>2, <1>3

\* Or leaves the row the status it has.
LEMMA UnsaidService ==
  ASSUME IInv, NEW a \in Actors, Stops(a), op[a].kind \in {"parse", "index"}, Unsaid
  PROVE  Service'
  <1>1. spoilt \subseteq spoilt' /\ "unsaid" \in spoilt' /\ status' = status
    BY UnsaidFacts DEF IInv, Typed, StoreInv
  <1>2. CASE Void'
    BY <1>2 DEF Service
  <1>3. CASE ~Void' /\ status # "none"
    <2>1. Served("parsing", "parse") /\ Served("indexing", "index")
      BY <1>1, <1>3, VoidStays DEF IInv, Service
    <2>2. a \in Working({op[a].kind})
      BY DEF Working
    <2>3. Working({"parse"}) \subseteq {a} /\ Working({"index"}) \subseteq {a}
      BY <1>3, <2>1, <2>2 DEF Served
    <2>4. Working({"parse"})' = {} /\ Working({"index"})' = {}
      BY <2>3, IdleTyped DEF Working, Stops, Others
    <2>5. QED
      BY <1>1, <2>4 DEF Service, Served
  <1>4. CASE status = "none"
    BY <1>1, <1>4 DEF Service, Served
  <1>5. QED
    BY <1>2, <1>3, <1>4

\* An indexing works on a row that is being indexed, or on none.
LEMMA IndexedByOne ==
  ASSUME IInv, NEW a \in Actors, op[a].kind = "index"
  PROVE  Void \/ status \in {"indexing", "none"}
  <1>1. a \in Working({"index"})
    BY DEF Working
  <1>2. QED
    BY <1>1 DEF IInv, Service, Served

-----------------------------------------------------------------------------
(* The steps.                                                              *)

\* The operation begins, and it is neither a parse nor an indexing.
LEMMA BeginStep ==
  ASSUME IInv, NEW a \in Actors,
         StartDelete(a) \/ StartMove(a) \/ StartBuild(a) \/ StartReset(a)
  PROVE  IInv'
  <1>1. PICK kind \in {"delete", "move", "build", "reset"},
             place \in {"clean", "move", "list", "reset"} : Begin(a, kind, place)
    BY DEF StartDelete, StartMove, StartBuild, StartReset
  <1>2. kind \in Kinds /\ place \in Places
    BY DEF Kinds, Places, Graphing, Storing
  <1>3. /\ StoreInv' /\ Others(a) /\ spoilt \subseteq spoilt'
        /\ op[a] = Idle /\ op'[a].kind = kind /\ op'[a].at = place
    BY <1>1, <1>2, BeginKeeps DEF IInv, Typed
  <1>4. Located'
    <2>1. LocatedAt(a)'
      BY <1>3 DEF LocatedAt
    <2>2. QED
      BY <1>3, <2>1, LocatedMoves DEF IInv
  <1>5. status' = status
    BY DEF StartDelete, StartMove, StartBuild, StartReset
  <1>6. Service'
    <2>1. Calm(a)
      BY <1>3, IdleTyped DEF Calm
    <2>2. QED
      BY <1>5, <2>1, CalmService DEF IInv
  <1>7. seen' \in [Actors -> FileStatus \cup {"none"}]
    BY DEF StartDelete, StartMove, StartBuild, StartReset, IInv, Typed
  <1>8. QED
    BY <1>3, <1>4, <1>5, <1>6, <1>7 DEF IInv, Typed

LEMMA ClaimStep ==
  ASSUME IInv, NEW a \in Actors, StartParse(a) \/ StartIndex(a)
  PROVE  IInv'
  <1>1. PICK kind \in {"parse", "index"} :
          /\ Begin(a, kind, IF kind = "parse" THEN "parse" ELSE "read")
          /\ status \notin {"none", "parsing", "indexing"}
          /\ status' = IF kind = "parse" THEN "parsing" ELSE "indexing"
    BY DEF StartParse, StartIndex, Claim, Parsable, Indexable
  <1>2. kind \in Kinds /\ (IF kind = "parse" THEN "parse" ELSE "read") \in Places
    BY DEF Kinds, Places, Graphing, Storing
  <1>3. /\ StoreInv' /\ Others(a) /\ spoilt \subseteq spoilt'
        /\ op[a] = Idle /\ op'[a].kind = kind
        /\ op'[a].at = IF kind = "parse" THEN "parse" ELSE "read"
    BY <1>1, <1>2, BeginKeeps DEF IInv, Typed
  <1>4. Located'
    <2>1. LocatedAt(a)'
      BY <1>3 DEF LocatedAt
    <2>2. QED
      BY <1>3, <2>1, LocatedMoves DEF IInv
  <1>5. Service'
    BY <1>1, <1>3, ClaimService
  <1>6. status' \in FileStatus /\ UNCHANGED seen
    BY <1>1 DEF FileStatus, StartParse, StartIndex
  <1>7. QED
    BY <1>3, <1>4, <1>5, <1>6 DEF IInv, Typed

\* The parse or the indexing ends.
LEMMA LastStep ==
  ASSUME IInv, NEW a \in Actors, FinishParse(a) \/ FinishIndex(a) \/ FailIndex(a), End(a)
  PROVE  IInv'
  <1>1. /\ op[a].at \in {"parse", "finish", "error"} /\ UNCHANGED <<stores, ops, seen>>
        /\ \/ /\ Fine
              /\ \E s \in {"parsed", "error_parsing", "indexed", "error_indexing"} : SetStatus(s)
           \/ Unsaid
           \/ Goto(a, "error")
    BY DEF FinishParse, FinishIndex, FailIndex, Doing
  <1>2. op[a].kind \in {"parse", "index"}
    BY <1>1 DEF IInv, Located, LocatedAt
  <1>3. ~Goto(a, "error")
    <2>1. Stops(a)
      BY EndFacts DEF IInv, Typed, StoreInv, StoreTypes
    <2>2. op'[a].at = "idle"
      BY <2>1, IdleTyped DEF Stops
    <2>3. Goto(a, "error") => op'[a].at = "error"
      BY GotoFacts DEF IInv, Typed, StoreInv, StoreTypes, MovesTo, Places
    <2>4. QED
      BY <2>2, <2>3
  <1>4. Records
    BY <1>1, <1>3, FineFacts, UnsaidFacts DEF IInv, Typed, StoreInv
  <1>5. StoreInv' /\ Stops(a) /\ spoilt \subseteq spoilt'
    BY <1>1, <1>4, Ended, SameData DEF IInv, Typed
  <1>6. Located'
    BY <1>5, LocatedMoves, IdleLocated DEF Stops, IInv
  <1>7. Service' /\ status' \in FileStatus \cup {"none"}
    <2>1. ASSUME NEW s \in {"parsed", "error_parsing", "indexed", "error_indexing"}, SetStatus(s)
          PROVE  Service' /\ status' \in FileStatus \cup {"none"}
      <3>1. s \in FileStatus \ {"parsing", "indexing"}
        BY DEF FileStatus
      <3>2. QED
        BY <1>2, <1>5, <2>1, <3>1, LastService, SetStatusFacts DEF IInv, Typed
    <2>2. CASE Unsaid
      BY <1>2, <1>5, <2>2, UnsaidService DEF Unsaid, IInv, Typed
    <2>3. QED
      BY <1>1, <1>3, <2>1, <2>2
  <1>8. QED
    BY <1>1, <1>5, <1>6, <1>7 DEF IInv, Typed

\* The other operations end, or go on to another place of theirs.
LEMMA QuietStep ==
  ASSUME IInv, NEW a \in Actors, op[a].at # "idle", DataTypes', Records, ops' = ops,
         seen' \in [Actors -> FileStatus \cup {"none"}],
         status' \in FileStatus \cup {"none"}, Void' \/ status' \in {status, "none"},
         \/ End(a) /\ op[a].kind \notin {"parse", "index"}
         \/ \E place \in Places : /\ Goto(a, place)
                                  /\ \/ op[a].kind = "index" /\ place \in {"clean", "error"}
                                     \/ op[a].kind \notin {"parse", "index"} /\ place = "unflag"
  PROVE  IInv'
  <1>1. CASE End(a) /\ op[a].kind \notin {"parse", "index"}
    <2>1. StoreInv' /\ Stops(a) /\ spoilt \subseteq spoilt'
      BY <1>1, Ended DEF IInv, Typed
    <2>2. Located'
      BY <2>1, LocatedMoves, IdleLocated DEF Stops, IInv
    <2>3. Calm(a)
      BY <1>1, <2>1, IdleTyped DEF Calm, Stops
    <2>4. QED
      BY <2>1, <2>2, <2>3, CalmService DEF IInv, Typed
  <1>2. ASSUME NEW place \in Places, Goto(a, place),
               \/ op[a].kind = "index" /\ place \in {"clean", "error"}
               \/ op[a].kind \notin {"parse", "index"} /\ place = "unflag"
        PROVE  IInv'
    <2>1. StoreInv' /\ MovesTo(a, {place}) /\ spoilt \subseteq spoilt'
      BY <1>2, Moved DEF IInv, Typed
    <2>2. LocatedAt(a)'
      BY <1>2, <2>1 DEF LocatedAt, MovesTo, Cleaning
    <2>3. Located'
      BY <2>1, <2>2, LocatedMoves DEF MovesTo, IInv
    <2>4. Calm(a)
      BY <2>1 DEF Calm, MovesTo
    <2>5. QED
      BY <2>1, <2>3, <2>4, CalmService DEF IInv, Typed
  <1>3. QED
    BY <1>1, <1>2

\* A step of the procedures keeps a parse and an indexing what they are.
LEMMA WorkStep ==
  ASSUME IInv, NEW a \in Actors, Work(a)
  PROVE  IInv'
  <1>1. StoreInv' /\ Proceeds(a) /\ spoilt \subseteq spoilt' /\ UNCHANGED <<status, seen>>
    BY StoreStepFacts DEF IInv, Typed, Work
  <1>2. LocatedAt(a)
    BY DEF IInv, Located
  <1>3. LocatedAt(a)' /\ Calm(a)
    <2>1. CASE Stops(a) /\ op[a].kind \notin {"parse", "index"}
      BY <1>1, <2>1, IdleTyped, IdleLocated DEF Stops, Calm
    <2>2. ASSUME MovesTo(a, Cleaning \cup Inserting), op[a].kind # "parse"
          PROVE  LocatedAt(a)' /\ Calm(a)
      BY <1>1, <2>2 DEF MovesTo, Calm, LocatedAt, Cleaning, Inserting
    <2>3. ASSUME MovesTo(a, {"finish", "error"}), op[a].kind = "index"
          PROVE  LocatedAt(a)' /\ Calm(a)
      BY <1>1, <2>3 DEF MovesTo, Calm, LocatedAt
    <2>4. ASSUME MovesTo(a, Building \cup {"commit", "clean", "row"}),
                 op[a].kind \notin {"parse", "index"}
          PROVE  LocatedAt(a)' /\ Calm(a)
      BY <1>1, <2>4 DEF MovesTo, Calm, LocatedAt, Building
    <2>5. CASE op[a].at \in Building
      <3>1. op[a].kind \notin {"parse", "index"}
        BY <1>2, <2>5 DEF LocatedAt, Building, Cleaning, Inserting
      <3>2. Stops(a) \/ MovesTo(a, Building \cup {"commit", "clean", "row"})
        BY <1>1, <2>5 DEF Proceeds, Building, Cleaning, Inserting, MovesTo
      <3>3. QED
        BY <2>1, <2>4, <3>1, <3>2
    <2>6. CASE op[a].at \in Cleaning \cup Inserting
      <3>1. op[a].kind # "parse" /\ op[a].at \notin Building
        BY <1>2, <2>6 DEF LocatedAt, Building, Cleaning, Inserting
      <3>2. \/ MovesTo(a, Cleaning \cup Inserting)
            \/ op[a].kind = "index" /\ MovesTo(a, {"finish", "error"})
            \/ op[a].kind # "index" /\ (Stops(a) \/ MovesTo(a, {"row", "commit", "list"}))
        BY <1>1, <3>1 DEF Proceeds
      <3>3. MovesTo(a, {"row", "commit", "list"})
              => MovesTo(a, Building \cup {"commit", "clean", "row"})
        BY DEF MovesTo, Building
      <3>4. QED
        BY <2>1, <2>2, <2>3, <2>4, <3>1, <3>2, <3>3
    <2>7. QED
      BY <1>1, <2>5, <2>6 DEF Proceeds
  <1>4. Located'
    BY <1>3, LocatedMoves DEF IInv, Calm
  <1>5. Service'
    BY <1>1, <1>3, CalmService DEF IInv
  <1>6. QED
    BY <1>1, <1>4, <1>5 DEF IInv, Typed

LEMMA HandlerStep ==
  ASSUME IInv, NEW a \in Actors,
         \/ FinishParse(a) \/ ReadText(a) \/ FinishIndex(a) \/ FailIndex(a)
         \/ DropFile(a) \/ SaveMove(a) \/ CancelBuild(a) \/ ResetGraph(a) \/ ResetRows(a)
  PROVE  IInv'
  <1> USE DEF Doing
  <1>0. /\ StoreInv /\ StoreTypes /\ DataTypes /\ LocatedAt(a)
        /\ status \in FileStatus \cup {"none"} /\ seen \in [Actors -> FileStatus \cup {"none"}]
        /\ {"clean", "error", "unflag"} \subseteq Places
    BY DEF IInv, Typed, Located, StoreInv, StoreTypes, DataTypes, Places
  <1>1. CASE (FinishParse(a) \/ FinishIndex(a) \/ FailIndex(a)) /\ End(a)
    BY <1>1, LastStep
  <1>2. CASE FinishIndex(a) /\ ~End(a)
    <2>1. Goto(a, "error") /\ Fault("pg") /\ UNCHANGED <<stores, ops, seen, status, spoilt>>
      BY <1>2 DEF FinishIndex
    <2>2. op[a].at = "finish" /\ op[a].kind = "index"
      BY <1>0, <1>2 DEF FinishIndex, LocatedAt
    <2>3. Records /\ DataTypes'
      BY <1>0, <2>1, FaultFacts, SameData
    <2>4. QED
      BY <1>0, <2>1, <2>2, <2>3, QuietStep
  <1>3. CASE ReadText(a)
    <2>1. /\ op[a].at = "read"
          /\ Goto(a, "clean") \/ Goto(a, "error")
          /\ UNCHANGED <<stores, ops, seen, status>> /\ Fine
      BY <1>3 DEF ReadText
    <2>2. op[a].at = "read" /\ op[a].kind = "index"
      BY <1>0, <1>3 DEF ReadText, LocatedAt
    <2>3. Records /\ DataTypes'
      BY <1>0, <2>1, FineFacts, SameData
    <2>4. QED
      BY <1>0, <2>1, <2>2, <2>3, QuietStep
  <1>4. CASE DropFile(a)
    <2>1. op[a].at = "row" /\ op[a].kind \notin {"parse", "index"} /\ End(a)
      BY <1>0, <1>4 DEF DropFile, LocatedAt, Cleaning, Inserting
    <2>2. /\ Records /\ status' \in {status, "none"}
          /\ UNCHANGED <<vec, graph, ops, seen>>
      BY <1>0, <1>4, FineFacts, PartlyFacts DEF DropFile
    <2>3. NoChunks \/ UNCHANGED rows
      BY <1>4 DEF DropFile
    <2>4. DataTypes'
      BY <1>0, <2>2, <2>3, NoChunksTyped DEF DataTypes, rows
    <2>5. QED
      BY <1>0, <2>1, <2>2, <2>4, QuietStep
  <1>5. CASE SaveMove(a)
    <2>1. op[a].at = "move" /\ op[a].kind \notin {"parse", "index"} /\ End(a)
      BY <1>0, <1>5 DEF SaveMove, LocatedAt, Cleaning, Inserting
    <2>2. /\ status' = seen[a] /\ UNCHANGED <<stores, ops, faults>>
          /\ spoilt' = IF status = seen[a] THEN spoilt ELSE spoilt \cup {"overwrite"}
          /\ seen' \in [Actors -> FileStatus \cup {"none"}]
      BY <1>0, <1>5 DEF SaveMove
    <2>3. Records /\ (Void' \/ status' \in {status, "none"})
      BY <1>0, <2>2 DEF Records, StoreTypes, Spoils, Void, Spoilt
    <2>4. DataTypes' /\ status' \in FileStatus \cup {"none"}
      BY <1>0, <2>2, SameData
    <2>5. QED
      BY <2>1, <2>2, <2>3, <2>4, QuietStep
  <1>6. CASE CancelBuild(a)
    <2>1. /\ op[a].at = "list" /\ op[a].kind \notin {"parse", "index"} /\ End(a)
          /\ UNCHANGED <<stores, ops, seen, status>> /\ Fine
      BY <1>6 DEF CancelBuild
    <2>2. Records /\ DataTypes'
      BY <1>0, <2>1, FineFacts, SameData
    <2>3. QED
      BY <1>0, <2>1, <2>2, QuietStep
  <1>7. CASE ResetGraph(a)
    <2>1. /\ op[a].at = "reset" /\ Goto(a, "unflag") /\ graph' = {}
          /\ UNCHANGED <<rows, vec, ops, seen, status>> /\ Fine
      BY <1>7 DEF ResetGraph
    <2>2. Records /\ DataTypes'
      BY <1>0, <2>1, FineFacts DEF DataTypes, rows
    <2>3. op[a].kind \notin {"parse", "index"}
      BY <1>0, <2>1 DEF LocatedAt, Cleaning, Inserting
    <2>4. QED
      BY <1>0, <2>1, <2>2, <2>3, QuietStep
  <1>8. CASE ResetRows(a)
    <2>1. op[a].at = "unflag" /\ op[a].kind \notin {"parse", "index"} /\ End(a)
      BY <1>0, <1>8 DEF ResetRows, LocatedAt, Cleaning, Inserting
    <2>2. Records /\ UNCHANGED <<pg, vec, graph, ops, seen, status>>
      BY <1>0, <1>8, FineFacts, PartlyFacts DEF ResetRows
    <2>3. /\ flagged' \in {{}, flagged}
          /\ extracted' \in {extracted, [c \in Chunks |-> 0]}
      BY <1>8 DEF ResetRows
    <2>4. DataTypes'
      BY <1>0, <2>2, <2>3, Numbers DEF DataTypes
    <2>5. QED
      BY <1>0, <2>1, <2>2, <2>4, QuietStep
  <1>9. QED
    <2>1. FinishParse(a) \/ FailIndex(a) => End(a)
      BY DEF FinishParse, FailIndex
    <2>2. QED
      BY <1>1, <1>2, <1>3, <1>4, <1>5, <1>6, <1>7, <1>8, <2>1

\* A crash voids the promise.
LEMMA CrashStep ==
  ASSUME IInv, Crash
  PROVE  IInv'
  <1>1. StoreInv' /\ \A a \in Actors : op'[a] = Idle /\ "crash" \in spoilt'
    BY DieFacts DEF Crash, IInv, Typed
  <1>2. "crash" \in spoilt'
    BY DEF Crash, Die
  <1>3. Located'
    BY <1>1, IdleLocated DEF Located
  <1>4. Service'
    BY <1>2 DEF Service, Void, Spoilt
  <1>5. QED
    BY <1>1, <1>3, <1>4 DEF Crash, IInv, Typed

LEMMA Invariance == Spec => []IInv
  <1>1. Init => IInv
    <2>1. ASSUME Init PROVE IInv
      <3>1. StoreInv /\ \A a \in Actors : op[a] = Idle
        BY <2>1, InitFacts DEF Init, StoreInit
      <3>2. Located
        BY <3>1, IdleTyped DEF Located, LocatedAt
      <3>3. Working({"parse"}) = {} /\ Working({"index"}) = {}
        BY <3>1, IdleTyped DEF Working
      <3>4. Service
        BY <2>1, <3>3 DEF Init, Service, Served
      <3>5. QED
        BY <2>1, <3>1, <3>2, <3>4 DEF Init, IInv, Typed, FileStatus
    <2>2. QED
      BY <2>1
  <1>2. IInv /\ [Next]_vars => IInv'
    <2>1. ASSUME IInv, Next PROVE IInv'
      BY <2>1, BeginStep, ClaimStep, HandlerStep, WorkStep, CrashStep DEF Next
    <2>2. ASSUME IInv, UNCHANGED vars PROVE IInv'
      <3>1. UNCHANGED <<pg, extracted, flagged, vec, graph, op, ops, spoilt, faults, status, seen>>
        BY <2>2 DEF vars, storeVars, stores, rows
      <3>2. StoreInv'
        BY <2>2, <3>1 DEF IInv, Typed, StoreInv, StoreTypes, Named
      <3>3. Located' /\ Service'
        BY <2>2, <3>1 DEF IInv, Located, LocatedAt, Service, Served, Working, Void, Spoilt
      <3>4. QED
        BY <2>2, <3>1, <3>2, <3>3 DEF IInv, Typed
    <2>3. QED
      BY <2>1, <2>2
  <1>3. QED
    BY <1>1, <1>2, PTL DEF Spec

-----------------------------------------------------------------------------
\* Every variable keeps its type, for any actors, chunks and faults.
THEOREM TypeCorrect == Spec => []TypeOK
  <1>1. IInv => TypeOK
    BY DEF IInv, Typed, StoreInv, TypeOK
  <1>2. QED
    BY <1>1, Invariance, PTL

\* A document that is being parsed or indexed has exactly one operation that works
\* on it, however many requests and tasks run and whatever store fails: the
\* conditional update of its row lets one in, and all its ways out give the row
\* another status.
THEOREM DocumentsAreAttended == Spec => []Attended
  <1>1. ASSUME NEW a \in Actors, NEW kind, Working({kind}) = {a}
        PROVE  Cardinality(Working({kind})) = 1
    BY <1>1, FS_Singleton
  <1>2. IInv => Attended
    <2>1. Void \/ "unsaid" \in spoilt => Attended
      BY DEF Void, Attended, Spoilt
    <2>2. Served("parsing", "parse") /\ Served("indexing", "index") /\ "unsaid" \notin spoilt
            => Attended
      BY <1>1 DEF Served, Attended
    <2>3. QED
      BY <2>1, <2>2 DEF IInv, Service
  <1>3. QED
    BY <1>2, Invariance, PTL

-----------------------------------------------------------------------------
(* The stores agree.                                                       *)

\* The operations of this module.
OfDocument == \A a \in Actors : op[a].kind \notin {"write", "withdraw"}

\* The rows and the vectors, while one operation stores and while none does.
RowsRest == Agree /\ (status = "indexed" => Whole)
RowsVoid == Spoilt({"stores", "crash", "partial", "overwrite"})
RowsInv ==
  \/ RowsVoid
  \/ /\ Alone(Storing)
     /\ Working(Storing) = {} => RowsRest
     /\ \A a \in Working(Storing) : RowsAt(op[a])

\* The graph, while one operation works on it and while none does.
GraphRest == Shown(flagged) /\ Cached
GraphVoid == Spoilt({"graph", "crash", "partial", "overwrite"})
GraphInv ==
  \/ GraphVoid
  \/ /\ Alone(Graphing)
     /\ Working(Graphing) = {} => GraphRest
     /\ \A a \in Working(Graphing) : GraphAt(op[a])

Agreement == AllPlaced /\ OfDocument /\ RowsInv /\ GraphInv

LEMMA VoidsStay ==
  ASSUME spoilt \subseteq spoilt'
  PROVE  (RowsVoid => RowsVoid') /\ (GraphVoid => GraphVoid')
  BY DEF RowsVoid, GraphVoid, Spoilt

\* A step of an operation that does not store, and of the one that does.
LEMMA RowsOther ==
  ASSUME RowsInv, NEW a \in Actors, Others(a), spoilt \subseteq spoilt',
         op[a].kind \notin Storing, op'[a].kind \notin Storing, UNCHANGED <<pg, vec>>,
         RowsVoid' \/ status' = status \/ status' # "indexed"
  PROVE  RowsInv'
  <1>1. CASE RowsVoid'
    BY <1>1 DEF RowsInv
  <1>2. CASE ~RowsVoid'
    <2>1. /\ Alone(Storing) /\ (Working(Storing) = {} => RowsRest)
          /\ \A b \in Working(Storing) : RowsAt(op[b])
      BY <1>2, VoidsStay DEF RowsInv
    <2>2. Working(Storing)' = Working(Storing)
      BY WorkingMoves
    <2>3. Working(Storing)' = {} => RowsRest'
      BY <1>2, <2>1, <2>2 DEF RowsRest, Agree, Whole
    <2>4. \A b \in Working(Storing)' : RowsAt(op[b])'
      BY <2>1, <2>2, RowsStand DEF Working, Others
    <2>5. Alone(Storing)'
      BY <2>1, <2>2 DEF Alone
    <2>6. QED
      BY <2>3, <2>4, <2>5 DEF RowsInv
  <1>3. QED
    BY <1>1, <1>2

LEMMA RowsOwn ==
  ASSUME RowsInv, NEW a \in Actors, Others(a), spoilt \subseteq spoilt',
         op[a].kind \in Storing,
         RowsAt(op[a]) /\ ~RowsVoid' =>
           \/ op'[a] = Idle /\ RowsRest'
           \/ op'[a].kind = op[a].kind /\ RowsAt(op[a])'
  PROVE  RowsInv'
  <1>1. CASE RowsVoid'
    BY <1>1 DEF RowsInv
  <1>2. CASE ~RowsVoid'
    <2>1. Alone(Storing) /\ RowsAt(op[a])
      BY <1>2, VoidsStay DEF RowsInv, Working
    <2>2. Working(Storing)' = IF op'[a].kind \in Storing THEN {a} ELSE {}
      BY <2>1, WorkingMoves
    <2>3. Idle.kind \notin Storing
      BY IdleTyped DEF Storing
    <2>4. Alone(Storing)'
      BY <2>2 DEF Alone
    <2>5. QED
      BY <1>2, <2>1, <2>2, <2>3, <2>4 DEF RowsInv
  <1>3. QED
    BY <1>1, <1>2

\* A step of an operation that does not work on the graph, and of the one that does.
LEMMA GraphOther ==
  ASSUME GraphInv, NEW a \in Actors, Others(a), spoilt \subseteq spoilt',
         op[a].kind \notin Graphing, op'[a].kind \notin Graphing,
         UNCHANGED <<pg, extracted, flagged, graph>>
  PROVE  GraphInv'
  <1>1. CASE GraphVoid'
    BY <1>1 DEF GraphInv
  <1>2. CASE ~GraphVoid'
    <2>1. /\ Alone(Graphing) /\ (Working(Graphing) = {} => GraphRest)
          /\ \A b \in Working(Graphing) : GraphAt(op[b])
      BY <1>2, VoidsStay DEF GraphInv
    <2>2. Working(Graphing)' = Working(Graphing)
      BY WorkingMoves
    <2>3. Working(Graphing)' = {} => GraphRest'
      BY <2>1, <2>2 DEF GraphRest, Shown, Cached
    <2>4. \A b \in Working(Graphing)' : GraphAt(op[b])'
      BY <2>1, <2>2, GraphStands DEF Working, Others
    <2>5. Alone(Graphing)'
      BY <2>1, <2>2 DEF Alone
    <2>6. QED
      BY <2>3, <2>4, <2>5 DEF GraphInv
  <1>3. QED
    BY <1>1, <1>2

LEMMA GraphOwn ==
  ASSUME GraphInv, NEW a \in Actors, Others(a), spoilt \subseteq spoilt',
         op[a].kind \in Graphing,
         GraphAt(op[a]) /\ ~GraphVoid' =>
           \/ op'[a] = Idle /\ GraphRest'
           \/ op'[a].kind = op[a].kind /\ GraphAt(op[a])'
  PROVE  GraphInv'
  <1>1. CASE GraphVoid'
    BY <1>1 DEF GraphInv
  <1>2. CASE ~GraphVoid'
    <2>1. Alone(Graphing) /\ GraphAt(op[a])
      BY <1>2, VoidsStay DEF GraphInv, Working
    <2>2. Working(Graphing)' = IF op'[a].kind \in Graphing THEN {a} ELSE {}
      BY <2>1, WorkingMoves
    <2>3. Idle.kind \notin Graphing
      BY IdleTyped DEF Graphing, Storing
    <2>4. Alone(Graphing)'
      BY <2>2 DEF Alone
    <2>5. QED
      BY <1>2, <2>1, <2>2, <2>3, <2>4 DEF GraphInv
  <1>3. QED
    BY <1>1, <1>2

\* An operation begins: alone with what it works on, or it spoils the promise.
LEMMA BeginAgrees ==
  ASSUME IInv, Agreement, NEW a \in Actors,
         \/ StartParse(a) \/ StartIndex(a) \/ StartDelete(a) \/ StartMove(a)
         \/ StartBuild(a) \/ StartReset(a)
  PROVE  Agreement'
  <1>1. PICK kind, place :
          /\ Begin(a, kind, place)
          /\ <<kind, place>> \in {<<"parse", "parse">>, <<"index", "read">>,
                                  <<"delete", "clean">>, <<"move", "move">>,
                                  <<"build", "list">>, <<"reset", "reset">>}
    BY DEF StartParse, StartIndex, StartDelete, StartMove, StartBuild, StartReset
  <1>2. kind \in Kinds /\ place \in Places /\ StoreTypes
    BY <1>1 DEF Kinds, Places, Graphing, Storing, IInv, Typed, StoreInv
  <1>3. /\ Others(a) /\ spoilt \subseteq spoilt'
        /\ op[a].kind = "none" /\ op'[a].kind = kind /\ op'[a].at = place
    BY <1>1, <1>2, BeginFacts, IdleTyped
  <1>4. /\ kind \in Storing /\ "stores" \notin spoilt' => Working(Storing) = {}
        /\ kind \in Graphing /\ "graph" \notin spoilt' => Working(Graphing) = {}
        /\ op'[a].chunk = 1 /\ op'[a].ok = TRUE /\ op'[a].failed = {}
        /\ UNCHANGED <<pg, extracted, flagged, vec, graph>>
    BY <1>1, <1>2, BeginAlone
  <1>5. AllPlaced'
    <2>1. Placed(op[a])'
      BY <1>1, <1>3 DEF Placed, Graphing, Storing, Cleaning, Building
    <2>2. QED
      BY <1>3, <2>1, PlacedMoves DEF Agreement
  <1>6. OfDocument'
    BY <1>1, <1>3 DEF Agreement, OfDocument, Others
  <1>7. status' = status \/ status' # "indexed"
    BY DEF StartParse, StartIndex, StartDelete, StartMove, StartBuild, StartReset, Claim
  <1>8. RowsInv'
    <2>1. CASE kind \notin Storing
      BY <1>3, <1>4, <1>7, <2>1, RowsOther DEF Agreement, Storing
    <2>2. CASE RowsVoid'
      BY <2>2 DEF RowsInv
    <2>3. CASE kind \in Storing /\ ~RowsVoid'
      <3>1. Working(Storing) = {} /\ RowsRest
        BY <1>4, <2>3, <1>3, VoidsStay DEF RowsVoid, Spoilt, RowsInv, Agreement
      <3>2. Working(Storing)' = {a}
        BY <1>3, <2>3, <3>1, WorkingMoves
      <3>3. op'[a].at \in {"read", "clean"} /\ op'[a].kind # "write"
        BY <1>1, <1>3, <2>3 DEF Storing
      <3>4. Agree'
        BY <1>4, <3>1 DEF RowsRest, Agree
      <3>5. RowsAt(op[a])'
        BY <1>4, <3>3, <3>4 DEF RowsAt, Building
      <3>6. Alone(Storing)'
        BY <3>2 DEF Alone
      <3>7. QED
        BY <3>2, <3>5, <3>6 DEF RowsInv
    <2>4. QED
      BY <2>1, <2>2, <2>3
  <1>9. GraphInv'
    <2>1. CASE kind \notin Graphing
      BY <1>3, <1>4, <2>1, GraphOther DEF Agreement, Graphing, Storing
    <2>2. CASE GraphVoid'
      BY <2>2 DEF GraphInv
    <2>3. CASE kind \in Graphing /\ ~GraphVoid'
      <3>1. Working(Graphing) = {} /\ GraphRest
        BY <1>4, <2>3, <1>3, VoidsStay DEF GraphVoid, Spoilt, GraphInv, Agreement
      <3>2. Working(Graphing)' = {a}
        BY <1>3, <2>3, <3>1, WorkingMoves
      <3>3. op'[a].at \in {"read", "clean", "list", "reset"} /\ op'[a].kind # "write"
        BY <1>1, <1>3, <2>3 DEF Graphing, Storing
      <3>4. Shown(flagged)' /\ Cached'
        BY <1>4, <3>1 DEF GraphRest, Shown, Cached
      <3>5. GraphAt(op[a])'
        BY <1>4, <3>3, <3>4 DEF GraphAt, Inserting
      <3>6. Alone(Graphing)'
        BY <3>2 DEF Alone
      <3>7. QED
        BY <3>2, <3>5, <3>6 DEF GraphInv
    <2>4. QED
      BY <2>1, <2>2, <2>3
  <1>10. QED
    BY <1>5, <1>6, <1>8, <1>9 DEF Agreement

\* What every step of an operation of its own has to show.
LEMMA OwnAgrees ==
  ASSUME Agreement, NEW a \in Actors, Others(a), spoilt \subseteq spoilt',
         op'[a] = Idle \/ (op'[a].kind = op[a].kind /\ Placed(op[a])'),
         op[a].kind \notin Storing =>
           UNCHANGED <<pg, vec>> /\ (RowsVoid' \/ status' = status \/ status' # "indexed"),
         op[a].kind \in Storing /\ RowsAt(op[a]) /\ ~RowsVoid' =>
           IF op'[a] = Idle THEN RowsRest' ELSE RowsAt(op[a])',
         op[a].kind \notin Graphing => UNCHANGED <<pg, extracted, flagged, graph>>,
         op[a].kind \in Graphing /\ GraphAt(op[a]) /\ ~GraphVoid' =>
           IF op'[a] = Idle THEN GraphRest' ELSE GraphAt(op[a])'
  PROVE  Agreement'
  <1>1. AllPlaced'
    BY PlacedMoves, IdlePlaced DEF Agreement
  <1>2. OfDocument'
    BY IdleTyped DEF Agreement, OfDocument, Others
  <1>3. Idle.kind \notin Graphing /\ Idle.kind \notin Storing
    BY IdleTyped DEF Graphing, Storing
  <1>4. RowsInv'
    BY <1>3, RowsOther, RowsOwn DEF Agreement
  <1>5. GraphInv'
    BY <1>3, GraphOther, GraphOwn DEF Agreement
  <1>6. QED
    BY <1>1, <1>2, <1>4, <1>5 DEF Agreement

\* What Typed says to the steps.
LEMMA AgreeFacts ==
  ASSUME IInv, Agreement, NEW a \in Actors
  PROVE  /\ StoreInv /\ StoreTypes /\ DataTypes /\ op \in [Actors -> Op]
         /\ Placed(op[a]) /\ op[a].kind \notin {"write", "withdraw"}
         /\ status \in FileStatus \cup {"none"}
  BY DEF IInv, Typed, StoreInv, StoreTypes, DataTypes, Agreement, AllPlaced, OfDocument

LEMMA WorkAgrees ==
  ASSUME IInv, Agreement, NEW a \in Actors, Work(a)
  PROVE  Agreement'
  <1>0. StoreInv /\ Placed(op[a]) /\ op[a].kind \notin {"write", "withdraw"}
    BY AgreeFacts
  <1>1. StoreStep(a, status # "none") /\ UNCHANGED <<status, seen>>
    BY DEF Work
  <1>2. /\ Begun(a) /\ Accounts(a) /\ (op[a].kind \notin Storing => UNCHANGED <<pg, vec>>)
    BY <1>0, <1>1, StepBegun, StepAccounts
  <1>3. Proceeds(a) /\ spoilt \subseteq spoilt'
    BY <1>0, <1>1, StoreStepFacts
  <1>4. Others(a) /\ (op'[a] = Idle \/ op'[a].kind = op[a].kind)
    BY <1>3 DEF Proceeds, MovesTo, Stops
  <1>5. Placed(op[a])' /\ op[a].kind \in Graphing
    BY <1>2 DEF Accounts, Begun
  <1>6. ASSUME op[a].kind \in Storing, RowsAt(op[a]), ~RowsVoid'
        PROVE  IF op'[a] = Idle THEN RowsRest' ELSE RowsAt(op[a])'
    <2>1. op[a].kind \in {"index", "delete"}
      BY <1>0, <1>6 DEF Storing
    <2>2. "partial" \notin spoilt'
      BY <1>6 DEF RowsVoid, Spoilt
    <2>3. RowsKept(a)
      BY <1>2, <1>6, <2>2 DEF Accounts
    <2>4. QED
      BY <2>1, <2>3 DEF RowsKept
  <1>7. ASSUME GraphAt(op[a]), ~GraphVoid'
        PROVE  IF op'[a] = Idle THEN GraphRest' ELSE GraphAt(op[a])'
    <2>1. "partial" \notin spoilt'
      BY <1>7 DEF GraphVoid, Spoilt
    <2>2. GraphKept(a)
      BY <1>0, <1>2, <1>7, <2>1 DEF Accounts
    <2>3. QED
      BY <2>2 DEF GraphKept, GraphRest
  <1>8. QED
    BY <1>1, <1>2, <1>3, <1>4, <1>5, <1>6, <1>7, OwnAgrees

\* The steps of a parse and of a move touch the row of the file only.
LEMMA RowAgrees ==
  ASSUME IInv, Agreement, NEW a \in Actors, FinishParse(a) \/ SaveMove(a)
  PROVE  Agreement'
  <1>0. StoreInv /\ op \in [Actors -> Op] /\ Placed(op[a]) /\ StoreTypes
    BY AgreeFacts
  <1>1. op[a].at \in {"parse", "move"} /\ End(a)
        /\ UNCHANGED <<pg, extracted, flagged, vec, graph>>
    BY DEF FinishParse, SaveMove, Doing, stores, rows
  <1>2. op[a].kind \notin Graphing /\ op[a].kind \notin Storing
    BY <1>0, <1>1 DEF Placed, Graphing, Storing, Cleaning, Inserting, Building
  <1>3. Others(a) /\ op'[a] = Idle
    BY <1>0, <1>1, EndFacts DEF Stops
  <1>4. spoilt \subseteq spoilt'
    BY DEF FinishParse, SaveMove, Unsaid, Fine
  <1>5. RowsVoid' \/ status' = status \/ status' # "indexed"
    BY DEF FinishParse, SaveMove, SetStatus, Unsaid, RowsVoid, Spoilt
  <1>6. QED
    BY <1>1, <1>2, <1>3, <1>4, <1>5, OwnAgrees

\* An indexing's own steps.
LEMMA IndexAgrees ==
  ASSUME IInv, Agreement, NEW a \in Actors, ReadText(a) \/ FinishIndex(a) \/ FailIndex(a)
  PROVE  Agreement'
  <1>0. StoreInv /\ op \in [Actors -> Op] /\ Placed(op[a]) /\ StoreTypes
    BY AgreeFacts
  <1>1. op[a].at \in {"read", "finish", "error"} /\ UNCHANGED <<pg, extracted, flagged, vec, graph>>
    BY DEF ReadText, FinishIndex, FailIndex, Doing, stores, rows
  <1>2. op[a].kind = "index" /\ op[a].kind \in Graphing /\ op[a].kind \in Storing
    BY <1>0, <1>1 DEF Placed, Graphing, Storing, Cleaning, Inserting, Building
  <1>d. /\ Agree => Agree'
        /\ Whole => Whole'
        /\ Shown(flagged) => Shown(flagged)'
        /\ Cached => Cached'
    BY <1>1 DEF Agree, Whole, Shown, Cached
  <1>g. GraphAt(op[a]) => GraphRest
    <2>1. op[a].at = "finish" /\ GraphAt(op[a]) => GraphRest
      BY BareShown DEF GraphAt, GraphRest
    <2>2. QED
      BY <1>1, <2>1 DEF GraphAt, GraphRest
  <1>3. spoilt \subseteq spoilt'
    BY DEF ReadText, FinishIndex, FailIndex, Unsaid, Fine
  <1>4. ASSUME NEW place \in {"clean", "error"}, Goto(a, place), UNCHANGED status,
               op[a].at = "read" \/ (op[a].at = "finish" /\ place = "error")
        PROVE  Agreement'
    <2>1. Keeps(a, place) /\ Others(a)
      BY <1>0, <1>4, GotoKeeps, GotoFacts DEF MovesTo, Places
    <2>2. Placed(op[a])'
      BY <1>2, <2>1 DEF Keeps, Placed, Graphing, Storing, Cleaning
    <2>3. op'[a] # Idle
      BY <1>2, <2>1, IdleTyped DEF Keeps
    <2>4. RowsAt(op[a]) => RowsAt(op[a])'
      BY <1>2, <1>4, <1>d, <2>1 DEF RowsAt, Keeps, Cleaning, Building
    <2>5. GraphAt(op[a]) => GraphAt(op[a])'
      BY <1>2, <1>4, <1>d, <1>g, <2>1 DEF GraphAt, GraphRest, Keeps, Inserting
    <2>6. QED
      BY <1>2, <1>3, <2>1, <2>2, <2>3, <2>4, <2>5, OwnAgrees DEF Keeps
  <1>5. ASSUME End(a), op[a].at \in {"finish", "error"},
               RowsVoid' \/ op[a].at = "finish" \/ status' # "indexed"
        PROVE  Agreement'
    <2>1. Others(a) /\ op'[a] = Idle
      BY <1>0, <1>5, EndFacts DEF Stops
    <2>2. RowsAt(op[a]) /\ ~RowsVoid' => RowsRest'
      BY <1>5, <1>d DEF RowsAt, RowsRest
    <2>3. GraphAt(op[a]) => GraphRest'
      BY <1>d, <1>g DEF GraphRest
    <2>4. QED
      BY <1>2, <1>3, <2>1, <2>2, <2>3, OwnAgrees
  <1>6. CASE ReadText(a)
    BY <1>4, <1>6 DEF ReadText, Doing
  <1>7. CASE FinishIndex(a)
    BY <1>4, <1>5, <1>7 DEF FinishIndex, Doing
  <1>8. CASE FailIndex(a)
    <2>1. RowsVoid' \/ status' # "indexed"
      <3>1. Void \/ status # "indexed"
        BY <1>2, IndexedByOne
      <3>2. status' # "indexed" \/ status' = status
        BY <1>8 DEF FailIndex, SetStatus, Unsaid
      <3>3. QED
        BY <1>3, <3>1, <3>2 DEF Void, RowsVoid, Spoilt
    <2>2. QED
      BY <1>5, <1>8, <2>1 DEF FailIndex, Doing
  <1>9. QED
    BY <1>6, <1>7, <1>8

\* The row of the file goes, and the rows of its chunks with it.
LEMMA DropAgrees ==
  ASSUME IInv, Agreement, NEW a \in Actors, DropFile(a)
  PROVE  Agreement'
  <1>0. StoreInv /\ op \in [Actors -> Op] /\ Placed(op[a]) /\ DataTypes
    BY AgreeFacts
  <1>1. op[a].at = "row" /\ End(a) /\ UNCHANGED <<vec, graph>>
    BY DEF DropFile, Doing
  <1>2. op[a].kind = "delete" /\ op[a].kind \in Graphing /\ op[a].kind \in Storing
    BY <1>0, <1>1 DEF Placed, Graphing, Storing, Cleaning, Inserting, Building
  <1>3. Others(a) /\ op'[a] = Idle
    BY <1>0, <1>1, EndFacts DEF Stops
  <1>4. spoilt \subseteq spoilt'
    BY DEF DropFile, Partly, Fine
  <1>5. \/ "partial" \in spoilt'
        \/ /\ \A c \in Chunks : pg'[c] = 0 /\ extracted'[c] = 0
           /\ flagged' = {} /\ status' = "none"
    BY DEF DropFile, Partly, NoChunks
  <1>6. ASSUME RowsAt(op[a]), ~RowsVoid' PROVE RowsRest'
    <2>1. Agree /\ NoRows
      BY <1>1, <1>6 DEF RowsAt
    <2>2. \A c \in Chunks, t \in Texts : <<c, t>> \notin vec /\ t # 0
      <3>1. \A t \in Texts : t # 0
        BY DEF Texts
      <3>2. QED
        BY <2>1, <3>1 DEF Agree, NoRows
    <2>3. "partial" \notin spoilt'
      BY <1>6 DEF RowsVoid, Spoilt
    <2>4. status' = "none" /\ \A c \in Chunks : pg'[c] = 0
      BY <1>5, <2>3
    <2>5. Agree'
      BY <1>1, <2>2, <2>4 DEF Agree
    <2>6. QED
      BY <2>4, <2>5 DEF RowsRest
  <1>7. ASSUME GraphAt(op[a]), ~GraphVoid' PROVE GraphRest'
    BY <1>1, <1>5, <1>7 DEF GraphAt, Bare, GraphVoid, Spoilt, GraphRest, Shown, Cached
  <1>8. QED
    BY <1>2, <1>3, <1>4, <1>6, <1>7, OwnAgrees

\* A build is cancelled, or the graph is reset.
LEMMA GraphAgreesStep ==
  ASSUME IInv, Agreement, NEW a \in Actors, CancelBuild(a) \/ ResetGraph(a) \/ ResetRows(a)
  PROVE  Agreement'
  <1>0. StoreInv /\ op \in [Actors -> Op] /\ Placed(op[a]) /\ DataTypes
    BY AgreeFacts
  <1>1. UNCHANGED <<pg, vec, status>> /\ spoilt \subseteq spoilt'
    BY DEF CancelBuild, ResetGraph, ResetRows, Partly, Fine, stores, rows
  <1>2. /\ op[a].kind \in {"build", "reset"} /\ op[a].kind \in Graphing
        /\ op[a].kind \notin Storing
    BY <1>0 DEF CancelBuild, ResetGraph, ResetRows, Doing,
                Placed, Graphing, Storing, Cleaning, Inserting, Building
  <1>3. ASSUME End(a), GraphAt(op[a]) /\ ~GraphVoid' => GraphRest'
        PROVE  Agreement'
    <2>1. Others(a) /\ op'[a] = Idle
      BY <1>0, <1>3, EndFacts DEF Stops
    <2>2. QED
      BY <1>1, <1>2, <1>3, <2>1, OwnAgrees
  <1>4. CASE CancelBuild(a)
    <2>1. op[a].at = "list" /\ End(a) /\ UNCHANGED <<extracted, flagged, graph>>
      BY <1>4 DEF CancelBuild, Doing, stores, rows
    <2>2. GraphAt(op[a]) => GraphRest'
      BY <1>1, <2>1 DEF GraphAt, GraphRest, Shown, Cached
    <2>3. QED
      BY <1>3, <2>1, <2>2
  <1>5. CASE ResetRows(a)
    <2>1. op[a].at = "unflag" /\ End(a) /\ UNCHANGED graph
      BY <1>5 DEF ResetRows, Doing
    <2>2. \/ "partial" \in spoilt'
          \/ flagged' = {} /\ extracted' \in {extracted, [c \in Chunks |-> 0]}
      BY <1>5 DEF ResetRows, Partly
    <2>3. ASSUME GraphAt(op[a]), ~GraphVoid' PROVE GraphRest'
      <3>1. graph = {} /\ Cached
        BY <2>1, <2>3 DEF GraphAt
      <3>2. flagged' = {} /\ \A c \in Chunks : extracted'[c] \in {extracted[c], 0}
        BY <2>2, <2>3 DEF GraphVoid, Spoilt
      <3>3. QED
        BY <1>1, <2>1, <3>1, <3>2 DEF GraphRest, Shown, Cached
    <2>4. QED
      BY <1>3, <2>1, <2>3
  <1>6. CASE ResetGraph(a)
    <2>1. op[a].at = "reset" /\ graph' = {} /\ UNCHANGED <<extracted, flagged>>
          /\ Goto(a, "unflag")
      BY <1>6 DEF ResetGraph, Doing, rows
    <2>2. Keeps(a, "unflag") /\ Others(a)
      BY <1>0, <2>1, GotoKeeps, GotoFacts DEF MovesTo, Places
    <2>3. op[a].kind = "reset"
      BY <1>0, <1>2, <2>1 DEF Placed, Building
    <2>4. Placed(op[a])' /\ op'[a] # Idle
      BY <2>2, <2>3, IdleTyped DEF Keeps, Placed, Graphing, Storing
    <2>5. GraphAt(op[a]) => GraphAt(op[a])'
      BY <1>1, <2>1, <2>2, <2>3 DEF GraphAt, Keeps, Cached, Inserting
    <2>6. QED
      BY <1>1, <1>2, <2>2, <2>4, <2>5, OwnAgrees DEF Keeps
  <1>7. QED
    BY <1>4, <1>5, <1>6

LEMMA CrashAgrees ==
  ASSUME IInv, Agreement, Crash
  PROVE  Agreement'
  <1>1. \A a \in Actors : op'[a] = Idle /\ "crash" \in spoilt'
    BY DieFacts DEF Crash, IInv, Typed
  <1>2. "crash" \in spoilt'
    BY DEF Crash, Die
  <1>3. AllPlaced' /\ OfDocument'
    BY <1>1, IdlePlaced, IdleTyped DEF AllPlaced, OfDocument
  <1>4. RowsInv' /\ GraphInv'
    BY <1>2 DEF RowsInv, RowsVoid, GraphInv, GraphVoid, Spoilt
  <1>5. QED
    BY <1>3, <1>4 DEF Agreement

\* Whatever the actors do, the stores have their accounts.
LEMMA AgreementHolds == Spec => []Agreement
  <1>1. Init => Agreement
    <2>1. ASSUME Init PROVE Agreement
      <3>1. /\ \A a \in Actors : op[a] = Idle
            /\ vec = {} /\ graph = {} /\ flagged = {} /\ status # "indexed"
            /\ \A c \in Chunks : pg[c] = 0 /\ extracted[c] = 0
        BY <2>1 DEF Init, StoreInit
      <3>2. \A a \in Actors : Placed(op[a]) /\ op[a].kind = "none"
        BY <3>1, IdleTyped DEF Placed, Graphing, Storing
      <3>3. Working(Storing) = {} /\ Working(Graphing) = {}
        BY <3>2 DEF Working, Storing, Graphing
      <3>4. RowsRest /\ GraphRest
        BY <3>1 DEF RowsRest, GraphRest, Agree, Shown, Cached, Texts
      <3>5. QED
        BY <3>2, <3>3, <3>4
           DEF Agreement, AllPlaced, OfDocument, RowsInv, GraphInv, Alone
    <2>2. QED
      BY <2>1
  <1>2. IInv /\ Agreement /\ [Next]_vars => Agreement'
    <2>1. ASSUME IInv, Agreement, Next PROVE Agreement'
      BY <2>1, BeginAgrees, WorkAgrees, RowAgrees, IndexAgrees, DropAgrees, GraphAgreesStep,
         CrashAgrees DEF Next
    <2>2. ASSUME Agreement, UNCHANGED vars PROVE Agreement'
      <3>1. UNCHANGED <<pg, extracted, flagged, vec, graph, op, spoilt, status>>
        BY <2>2 DEF vars, storeVars, stores, rows
      <3>2. AllPlaced' /\ OfDocument'
        BY <2>2, <3>1 DEF Agreement, AllPlaced, Placed, OfDocument
      <3>3. RowsInv'
        BY <2>2, <3>1, RowsStand
           DEF Agreement, RowsInv, RowsVoid, Spoilt, Working, Alone, RowsRest, Agree, Whole
      <3>4. GraphInv'
        BY <2>2, <3>1, GraphStands
           DEF Agreement, GraphInv, GraphVoid, Spoilt, Working, Alone, GraphRest, Shown, Cached
      <3>5. QED
        BY <3>2, <3>3, <3>4 DEF Agreement
    <2>3. QED
      BY <2>1, <2>2
  <1>3. QED
    BY <1>1, <1>2, Invariance, PTL DEF Spec

\* Whenever nothing stores, the rows and the vectors are the same chunks of the same
\* text, and of an indexed file all of them: for any number of batches, requests and
\* faults, but in the cases that StoresAgree names.
THEOREM RowsAndVectorsAgree == Spec => []StoresAgree
  <1>1. ASSUME IInv, Agreement PROVE StoresAgree
    <2>1. DataTypes
      BY <1>1 DEF IInv, Typed, StoreInv, StoreTypes, DataTypes
    <2>2. RowsVoid \/ Working(Storing) # {} \/ RowsRest
      BY <1>1 DEF Agreement, RowsInv
    <2>3. RowsRest => vec = {<<c, pg[c]>> : c \in {d \in Chunks : pg[d] # 0}}
      BY <2>1, AgreeSets DEF RowsRest
    <2>4. QED
      BY <2>2, <2>3 DEF StoresAgree, RowsVoid, RowsRest, Whole
  <1>2. IInv /\ Agreement => StoresAgree
    BY <1>1
  <1>3. QED
    BY <1>2, Invariance, AgreementHolds, PTL

\* Whenever nothing works on the graph, it holds what was extracted from the chunks
\* marked as indexed, of their present texts, and nothing else.
THEOREM GraphIsOfMarkedChunks == Spec => []GraphAgrees
  <1>1. ASSUME IInv, Agreement PROVE GraphAgrees
    <2>1. DataTypes
      BY <1>1 DEF IInv, Typed, StoreInv, StoreTypes, DataTypes
    <2>2. GraphVoid \/ Working(Graphing) # {} \/ GraphRest
      BY <1>1 DEF Agreement, GraphInv
    <2>3. GraphRest => graph = {<<c, pg[c]>> : c \in flagged}
      BY <2>1, ShownSets DEF GraphRest
    <2>4. QED
      BY <2>2, <2>3 DEF GraphAgrees, GraphVoid, Quiet
  <1>2. IInv /\ Agreement => GraphAgrees
    BY <1>1
  <1>3. QED
    BY <1>2, Invariance, AgreementHolds, PTL

=============================================================================

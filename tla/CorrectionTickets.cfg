\* One correction, two handlers at a time.
SPECIFICATION Spec
CONSTANTS
  Actors = {a1, a2}
  Batches = 1
  MaxOps = 3
  Faults = {"embed", "extract", "pg", "milvus", "graph", "crash"}
  MaxFaults = 1
INVARIANTS
  TypeOK
  FeedbackAgrees
  WrittenTellsTruth
  WrittenIsUnmarked
SYMMETRY Symmetry
CHECK_DEADLOCK FALSE

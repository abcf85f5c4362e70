\* One document of two chunks, two operations at a time.
SPECIFICATION Spec
CONSTANTS
  Actors = {a1, a2}
  Batches = 2
  MaxOps = 4
  Faults = {"embed", "extract", "pg", "milvus", "graph", "crash"}
  MaxFaults = 1
INVARIANTS
  TypeOK
  Attended
  StoresAgree
  GraphAgrees
SYMMETRY Symmetry
CHECK_DEADLOCK FALSE

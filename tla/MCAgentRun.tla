------------------------------ MODULE MCAgentRun ------------------------------
(***************************************************************************)
(* AgentRun for TLC.  Calls, Requests and Threads are sets of model        *)
(* values; no action tells their elements apart, so safety runs may        *)
(* identify states that differ by a permutation of each set.               *)
(***************************************************************************)
EXTENDS AgentRun, TLC

Symmetry ==
  Permutations(Calls) \cup Permutations(Requests) \cup Permutations(Threads)

\* What the properties of AgentRunFaults and the guards on the way to them can
\* still see of a state (the steps of the refinement are judged by the states
\* themselves): of a stream, whether it has an end event; of a settled
\* run, whether it was interrupted; of a coroutine that closes, nothing but that;
\* and no tries or cancel signals of a job that is over, as no job of its run will
\* be queued again.
Seen(s) == IF s \in Terminal \ {"interrupted"} THEN "over" ELSE s
Live(c) == job[c] # "done"
Coroutine(c) ==
  CASE phase[c] \in {"settle", "announce"} -> <<phase[c], block[c], Seen(verdict[c])>>
    [] phase[c] \in {"tail", "handle"}     -> <<phase[c], block[c]>>
    [] OTHER                               -> <<phase[c]>>
View ==
  <<op, callPc, answer, job, cancelling, reopened, faults,
    [c \in Calls |-> <<Seen(status[c]), Coroutine(c), ends[c] = <<>>>>],
    [c \in Calls |-> IF Live(c) THEN tries[c] ELSE 0],
    {c \in cancelKey : Live(c)}, {c \in publishing : Live(c)}>>
=============================================================================

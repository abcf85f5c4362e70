---------------------------- MODULE RunLifecycle ----------------------------
(***************************************************************************)
(* What the AgentRun subsystem promises to everyone outside it: a run is   *)
(* created on a thread that has no unfinished run, moves through its       *)
(* unfinished statuses until it settles in one terminal status, and        *)
(* announces an end on its event stream only after it has settled.  It     *)
(* keeps that status for ever, unless it was asked to stop while it was    *)
(* unfinished and the request is carried out late: then it is taken back,  *)
(* provided that no other run has its thread.  AgentRun is shown to        *)
(* implement this specification.                                           *)
(***************************************************************************)
EXTENDS Sequences

CONSTANTS Runs,      \* ids a run may get
          Threads,   \* conversation threads
          NoThread   \* the thread of a run that does not exist yet

VARIABLES runStatus, \* status of each run, "none" before it is created
          runThread, \* thread of each run
          announced, \* statuses of the end events of each run, in order
          asked,     \* runs with a request to stop that is still to be carried out
          takenBack  \* runs that such a request has unsettled

lifecycleVars == <<runStatus, runThread, announced, asked, takenBack>>

Unfinished == {"pending", "running", "cancel_requested"}
Settled == {"completed", "failed", "cancelled", "interrupted"}

LifecycleInit ==
  /\ runStatus = [r \in Runs |-> "none"]
  /\ runThread = [r \in Runs |-> NoThread]
  /\ announced = [r \in Runs |-> <<>>]
  /\ asked = {}
  /\ takenBack = {}

\* Every other run of the thread has settled.
Free(r, t) == \A s \in Runs \ {r} : runThread[s] = t => runStatus[s] \in Settled

Create(r, t) ==
  /\ runStatus[r] = "none"
  /\ Free(r, t)
  /\ runStatus' = [runStatus EXCEPT ![r] = "pending"]
  /\ runThread' = [runThread EXCEPT ![r] = t]
  /\ UNCHANGED <<announced, asked, takenBack>>

\* While unfinished, a run may be started or settled, or asked to stop.
Progress(r, s) ==
  /\ runStatus[r] \in Unfinished
  /\ runStatus' = [runStatus EXCEPT ![r] = s]
  /\ UNCHANGED <<runThread, announced, asked, takenBack>>

Ask(r) ==
  /\ runStatus[r] \in Unfinished
  /\ asked' = asked \cup {r}
  /\ UNCHANGED <<runStatus, runThread, announced, takenBack>>

\* A request is carried out, in time or late, or comes to nothing.
StopInTime(r) ==
  /\ runStatus[r] \in Unfinished
  /\ runStatus' = [runStatus EXCEPT ![r] = "cancel_requested"]
  /\ UNCHANGED takenBack

StopLate(r) ==
  /\ runStatus[r] \in Settled
  /\ Free(r, runThread[r])
  /\ runStatus' = [runStatus EXCEPT ![r] = "cancel_requested"]
  /\ takenBack' = takenBack \cup {r}

Stop(r) ==
  /\ r \in asked
  /\ StopInTime(r) \/ StopLate(r) \/ UNCHANGED <<runStatus, takenBack>>
  /\ asked' \in {asked, asked \ {r}}
  /\ UNCHANGED <<runThread, announced>>

Announce(r, s) ==
  /\ runStatus[r] \in Settled \/ r \in takenBack
  /\ announced' = [announced EXCEPT ![r] = Append(@, s)]
  /\ UNCHANGED <<runStatus, runThread, asked, takenBack>>

LifecycleNext ==
  \E r \in Runs :
    \/ \E t \in Threads : Create(r, t)
    \/ \E s \in {"running"} \cup Settled : Progress(r, s)
    \/ \E s \in Settled : Announce(r, s)
    \/ Ask(r) \/ Stop(r)

LifecycleSpec == LifecycleInit /\ [][LifecycleNext]_lifecycleVars
=============================================================================

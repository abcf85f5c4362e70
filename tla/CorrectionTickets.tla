--------------------------- MODULE CorrectionTickets ---------------------------
(***************************************************************************)
(* One correction: the feedback it comes from, the ticket an administrator *)
(* decides on, and its text in the knowledge base, which is written to the *)
(* chunks and to the graph of a file of its own and withdrawn from them.   *)
(*                                                                         *)
(* A handler reads its rows without locking them and commits what it has   *)
(* changed much later, so it is several steps, and remembers the ticket as *)
(* it was.  The scope of the ticket is the knowledge base's; tickets of    *)
(* other scopes are never written.                                         *)
(***************************************************************************)
EXTENDS ChunkStores

\* A ticket has at most MAX_REWRITE_CHUNKS = 20 chunks, a batch has 200.
ASSUME OneBatch == Batches = 1

VARIABLES
  feedback,  \* the feedback, and whether it refers to the ticket
  ticket,    \* the ticket, of status "none" before it is created
  read,      \* read[a]: the ticket as the write-back of actor a has read it
  file       \* whether the row of the ticket's file exists

ticketVars == <<feedback, ticket, read, file>>
vars == <<storeVars, ticketVars>>

-----------------------------------------------------------------------------
Approved == {"approved", "applied"}
Feedback == [status: {"waiting", "ready", "ticketed", "resolved", "dismissed"},
             linked: BOOLEAN]
\* rewrite: the cached text, 0 if there is none or it is not valid.
\* flag: why the ticket needs review.
Ticket == [status: {"none", "pending", "rejected"} \cup Approved, written: BOOLEAN,
           rewrite: 0..MaxOps, flag: {"none", "rewrite", "reingested"}]
NoTicket == [status |-> "none", written |-> FALSE, rewrite |-> 0, flag |-> "none"]
Read == [rewrite: 0..MaxOps, flag: {"none", "rewrite", "reingested"}]
NotRead == [rewrite |-> 0, flag |-> "none"]

Init ==
  /\ StoreInit
  /\ \/ ticket = NoTicket /\ feedback = [status |-> "waiting", linked |-> FALSE]
     \/ /\ ticket = [NoTicket EXCEPT !.status = "approved"]
        /\ feedback = [status |-> "resolved", linked |-> TRUE]
  /\ read = [a \in Actors |-> NotRead]
  /\ file = FALSE

\* A commit that rests on what is no longer so.
Stale(now, kind) == spoilt' = IF now THEN spoilt \cup {kind} ELSE spoilt

\* What an operation has read goes with it.
Forget == read' = [a \in Actors |-> IF op'[a] = Idle THEN NotRead ELSE read[a]]

-----------------------------------------------------------------------------
(* The feedback.                                                           *)

\* A user files a correction without a feedback.
FileTicket ==
  /\ ticket.status = "none"
  /\ ticket' = [ticket EXCEPT !.status = "pending"]
  /\ UNCHANGED <<storeVars, feedback, read, file>>

\* Converted by an administrator, or when it is submitted.
StartConvert(a) ==
  /\ ~feedback.linked
  /\ Begin(a, "convert", "create")
  /\ UNCHANGED ticketVars

\* create_correction commits; it finds the ticket of the request if there is one.
CreateTicket(a) ==
  /\ Doing(a, "create")
  /\ ticket' = IF ticket.status = "none" THEN [ticket EXCEPT !.status = "pending"] ELSE ticket
  /\ Goto(a, "link")
  /\ UNCHANGED <<stores, ops, feedback, read, file>> /\ Fine

\* The status is left as it is when the feedback has just been submitted.
LinkTicket(a) ==
  /\ Doing(a, "link")
  /\ \E s \in {"ticketed", feedback.status} : feedback' = [status |-> s, linked |-> TRUE]
  /\ Stale(ticket.status # "pending", "feedback")
  /\ End(a)
  /\ UNCHANGED <<stores, ops, faults, ticket, read, file>>

\* process_feedback_batch: what waited when it was read is ready for review.
StartBatch(a) ==
  /\ feedback.status = "waiting"
  /\ Begin(a, "batch", "queue")
  /\ UNCHANGED ticketVars

FinishBatch(a) ==
  /\ Doing(a, "queue")
  /\ feedback' = [feedback EXCEPT !.status = "ready"]
  /\ Stale(feedback.status # "waiting", "feedback")
  /\ End(a)
  /\ UNCHANGED <<stores, ops, faults, ticket, read, file>>

-----------------------------------------------------------------------------
(* The decision.                                                           *)

StartReview(a) ==
  /\ ticket.status = "pending"
  /\ Begin(a, "review", "decide")
  /\ UNCHANGED ticketVars

\* The feedback that refers to the ticket gets its verdict.
\* Bug: a feedback keeps the verdict it has; or takes the status of the ticket.
VerdictOnce(status) ==
  IF feedback.linked /\ feedback.status \notin {"resolved", "dismissed"}
  THEN [feedback EXCEPT !.status = IF status \in Approved THEN "resolved" ELSE "dismissed"]
  ELSE feedback
VerdictCopies(status) ==
  IF feedback.linked THEN [feedback EXCEPT !.status = status] ELSE feedback
Verdict(status) ==
  IF feedback.linked
  THEN [feedback EXCEPT !.status = IF status \in Approved THEN "resolved" ELSE "dismissed"]
  ELSE feedback

\* Ticket and feedback are one commit.  An exception while the feedback is looked
\* up is only logged, and the ticket is committed without it.
Decide(a) ==
  LET late == IF ticket.status # "pending" THEN {"review"} ELSE {} IN
  /\ Doing(a, "decide")
  /\ \E s \in {"approved", "rejected"} :
       /\ ticket' = [ticket EXCEPT !.status = s]
       /\ \/ /\ feedback' = Verdict(s)
             /\ spoilt' = spoilt \cup late
             /\ UNCHANGED faults
          \/ /\ feedback.linked /\ Fault("pg")
             /\ spoilt' = spoilt \cup late \cup {"unsynced"}
             /\ UNCHANGED feedback
  /\ End(a)
  /\ UNCHANGED <<stores, ops, read, file>>

StartApply(a) ==
  /\ ticket.status = "approved"
  /\ Begin(a, "apply", "apply")
  /\ UNCHANGED ticketVars

Apply(a) ==
  /\ Doing(a, "apply")
  /\ ticket' = [ticket EXCEPT !.status = "applied"]
  /\ Stale(ticket.status = "rejected", "feedback")
  /\ End(a)
  /\ UNCHANGED <<stores, ops, faults, feedback, read, file>>

\* A build has read documents again that name the ticket's entities; an
\* administrator has looked at the ticket.
MarkReingested ==
  /\ ticket.status \in Approved /\ ticket.flag = "none"
  /\ ticket' = [ticket EXCEPT !.flag = "reingested"]
  /\ UNCHANGED <<storeVars, feedback, read, file>>

ClearFlag ==
  /\ ticket.flag # "none"
  /\ ticket' = [ticket EXCEPT !.flag = "none"]
  /\ UNCHANGED <<storeVars, feedback, read, file>>

-----------------------------------------------------------------------------
(* The write-back.                                                         *)

\* Bug: whether the ticket is in the graph already is not looked at.
WritableAgain == ticket.status \in Approved
Writable == ticket.status \in Approved /\ ~ticket.written

\* By a request, or by the job that an approval enqueues; a job that is lost is a
\* request not made, and one that runs twice is a request made again.
StartWrite(a) ==
  /\ Writable
  /\ Begin(a, "write", "rewrite")
  /\ read' = [read EXCEPT ![a] = [rewrite |-> ticket.rewrite, flag |-> ticket.flag]]
  /\ UNCHANGED <<feedback, ticket, file>>

\* The text is the cached one or a new one; it is not valid, which is committed;
\* or there is none.
Rewrite(a) ==
  /\ Doing(a, "rewrite")
  /\ \/ /\ \/ /\ read[a].rewrite # 0
              /\ op' = [op EXCEPT ![a].at = "file", ![a].text = read[a].rewrite]
              /\ UNCHANGED read
           \/ /\ Goto(a, "file")
              /\ read' = [read EXCEPT ![a].rewrite = op[a].text]
        /\ UNCHANGED ticket
     \/ /\ ticket' = [ticket EXCEPT !.rewrite = 0, !.flag = "rewrite"]
        /\ End(a) /\ Forget
     \/ End(a) /\ Forget /\ UNCHANGED ticket
  /\ UNCHANGED <<stores, ops, feedback, file>> /\ Fine

\* Without an embedding model the write-back ends here, and its text is cached.
UpsertFile(a) ==
  /\ Doing(a, "file")
  /\ file' = TRUE
  /\ \/ Goto(a, "embed") /\ UNCHANGED ticket
     \/ End(a) /\ ticket' = [ticket EXCEPT !.rewrite = read[a].rewrite]
  /\ Forget
  /\ UNCHANGED <<stores, ops, feedback>> /\ Fine

Fails(a) == Partly("pg") /\ UNCHANGED ticket

\* The mark of a text that was not valid goes, as the ticket was read.
\* Bug: it stays.
CommitWriteMarked(a) ==
  /\ op[a].kind = "write" /\ Doing(a, "commit")
  /\ \/ /\ ticket' = [ticket EXCEPT !.written = TRUE, !.rewrite = read[a].rewrite]
        /\ Fine
     \/ Fails(a)
  /\ End(a) /\ Forget
  /\ UNCHANGED <<stores, ops, feedback, file>>
CommitWrite(a) ==
  /\ op[a].kind = "write" /\ Doing(a, "commit")
  /\ \/ /\ ticket' = [ticket EXCEPT !.written = TRUE, !.rewrite = read[a].rewrite,
                         !.flag = IF read[a].flag = "rewrite" THEN "none" ELSE @]
        /\ Fine
     \/ Fails(a)
  /\ End(a) /\ Forget
  /\ UNCHANGED <<stores, ops, feedback, file>>

StartWithdraw(a) ==
  /\ ticket.written
  /\ Begin(a, "withdraw", "clean")
  /\ UNCHANGED ticketVars

CommitWithdraw(a) ==
  /\ op[a].kind = "withdraw" /\ Doing(a, "commit")
  /\ \/ ticket' = [ticket EXCEPT !.written = FALSE] /\ Fine
     \/ Fails(a)
  /\ End(a)
  /\ UNCHANGED <<stores, ops, feedback, read, file>>

-----------------------------------------------------------------------------
Work(a) == StoreStep(a, file) /\ Forget /\ UNCHANGED <<feedback, ticket, file>>
Crash == Die /\ Forget /\ UNCHANGED <<feedback, ticket, file>>

Next ==
  \/ \E a \in Actors :
       \/ StartConvert(a) \/ CreateTicket(a) \/ LinkTicket(a)
       \/ StartBatch(a) \/ FinishBatch(a)
       \/ StartReview(a) \/ Decide(a) \/ StartApply(a) \/ Apply(a)
       \/ StartWrite(a) \/ Rewrite(a) \/ UpsertFile(a) \/ CommitWrite(a)
       \/ StartWithdraw(a) \/ CommitWithdraw(a)
       \/ Work(a)
  \/ FileTicket \/ MarkReingested \/ ClearFlag \/ Crash

Spec == Init /\ [][Next]_vars

-----------------------------------------------------------------------------
(* Properties.                                                             *)

Spoilt(kinds) == spoilt \cap kinds # {}

\* Every variable keeps its type: self_evolution/service.py, graph_writeback.py,
\* feedback_service.py.
TypeOK ==
  /\ StoreTypes
  /\ feedback \in Feedback
  /\ ticket \in Ticket /\ read \in [Actors -> Read]
  /\ file \in BOOLEAN

\* A feedback and its ticket say the same, whoever decides at the same time and
\* whichever reviewer commits last, unless the ticket was decided before the
\* feedback referred to it, or one was changed while a batch that queues the
\* feedback or an application of the ticket was under way, or a review could not
\* look the feedback up, which it passes over (service.py _sync_feedback_status).
FeedbackAgrees ==
  \/ Spoilt({"feedback", "unsynced"})
  \/ ~feedback.linked
  \/ /\ feedback.status = "resolved" <=> ticket.status \in Approved
     /\ feedback.status = "dismissed" <=> ticket.status = "rejected"

\* A ticket marked as written is in the stores with one and the same text,
\* and was approved; of one that is not written, nothing is in any store, after
\* any failed write-back, withdrawal and retry: unless two of them ran at the same
\* time, or a cleanup, a commit or the process failed.  The graph may lack what
\* could not be extracted (graph_writeback.py).
WrittenTellsTruth ==
  \/ Working(Storing) # {}
  \/ Spoilt({"stores", "crash", "partial"})
  \/ /\ ticket.written =>
          /\ \A c \in Chunks : pg[c] # 0
          /\ vec = {<<c, pg[c]>> : c \in Chunks}
          /\ graph = vec \/ Spoilt({"unbuilt"})
          /\ ticket.status \in Approved \/ Spoilt({"review"})
     /\ ~ticket.written =>
          vec = {} /\ graph = {} /\ \A c \in Chunks : pg[c] = 0

\* A ticket that is in the stores asks for no other rewrite, whether the mark was
\* set by an earlier attempt, cleared by an administrator or replaced while a later
\* one worked, unless two of them ran at the same time (graph_writeback.py
\* write_correction_to_graph, which clears the mark when the write-back succeeds).
WrittenIsUnmarked ==
  Spoilt({"stores"}) \/ (ticket.written => ticket.flag # "rewrite")
=============================================================================

------------------------ MODULE CorrectionTicketsProofs ------------------------
(***************************************************************************)
(* Proofs about CorrectionTickets for any actors, chunks and bounds: type  *)
(* correctness, the agreement of a feedback with its ticket, that what a   *)
(* ticket says of the stores is what they hold, and that a ticket written  *)
(* to them asks for no other rewrite.                                      *)
(***************************************************************************)
EXTENDS CorrectionTickets, StoreAgreementProofs

-----------------------------------------------------------------------------
(* The inductive invariant.                                                *)

Typed ==
  /\ StoreInv
  /\ feedback \in Feedback
  /\ ticket \in Ticket /\ read \in [Actors -> Read]
  /\ file \in BOOLEAN

\* A feedback without a ticket has no verdict; who applies a ticket has seen it
\* approved, and it can only have been decided again since.
Unjudged == feedback.linked \/ feedback.status \in {"waiting", "ready"}
Applying ==
  (\E a \in Actors : op[a].at = "apply") => ticket.status \in Approved \cup {"rejected"}

\* The feedback waits if the ticket does, and has the verdict of a ticket decided.
Verdicts ==
  \/ Spoilt({"feedback", "unsynced"})
  \/ ~feedback.linked
  \/ /\ feedback.status = "resolved" <=> ticket.status \in Approved
     /\ feedback.status = "dismissed" <=> ticket.status = "rejected"

IInv == Typed /\ Unjudged /\ Applying /\ Verdicts

-----------------------------------------------------------------------------
(* The rows.                                                               *)

LEMMA RowTypes ==
  /\ \A f \in Feedback : /\ f.linked \in BOOLEAN
                         /\ f.status \in {"waiting", "ready", "ticketed", "resolved", "dismissed"}
  /\ \A t \in Ticket : /\ t.status \in {"none", "pending", "rejected"} \cup Approved
                       /\ t.rewrite \in 0..MaxOps /\ t.written \in BOOLEAN
                       /\ t.flag \in {"none", "rewrite", "reingested"}
  /\ \A r \in Read : r.rewrite \in 0..MaxOps /\ r.flag \in {"none", "rewrite", "reingested"}
  /\ NotRead \in Read /\ NoTicket \in Ticket
  BY Numbers DEF Feedback, Ticket, Read, NotRead, NoTicket

\* An update of one field of the ticket or of the feedback.
LEMMA TicketStatus ==
  ASSUME ticket \in Ticket, NEW s \in {"none", "pending", "rejected"} \cup Approved
  PROVE  /\ [ticket EXCEPT !.status = s] \in Ticket
         /\ [ticket EXCEPT !.status = s].status = s
         /\ [ticket EXCEPT !.status = s].flag = ticket.flag
        /\ [ticket EXCEPT !.status = s].written = ticket.written
  BY DEF Ticket

LEMMA TicketFlag ==
  ASSUME ticket \in Ticket, NEW f \in {"none", "rewrite", "reingested"}
  PROVE  /\ [ticket EXCEPT !.flag = f] \in Ticket
         /\ [ticket EXCEPT !.flag = f].status = ticket.status
         /\ [ticket EXCEPT !.flag = f].flag = f
        /\ [ticket EXCEPT !.flag = f].written = ticket.written
  BY DEF Ticket

LEMMA TicketText ==
  ASSUME ticket \in Ticket, NEW n \in 0..MaxOps
  PROVE  /\ [ticket EXCEPT !.rewrite = n] \in Ticket
         /\ [ticket EXCEPT !.rewrite = n].status = ticket.status
         /\ [ticket EXCEPT !.rewrite = n].flag = ticket.flag
        /\ [ticket EXCEPT !.rewrite = n].written = ticket.written
  BY DEF Ticket

LEMMA TicketInvalid ==
  ASSUME ticket \in Ticket
  PROVE  /\ [ticket EXCEPT !.rewrite = 0, !.flag = "rewrite"] \in Ticket
         /\ [ticket EXCEPT !.rewrite = 0, !.flag = "rewrite"].status = ticket.status
         /\ [ticket EXCEPT !.rewrite = 0, !.flag = "rewrite"].flag = "rewrite"
        /\ [ticket EXCEPT !.rewrite = 0, !.flag = "rewrite"].written = ticket.written
  <1>1. 0 \in 0..MaxOps
    BY Numbers
  <1>2. QED
    BY <1>1 DEF Ticket

LEMMA TicketWithdrawn ==
  ASSUME ticket \in Ticket
  PROVE  /\ [ticket EXCEPT !.written = FALSE] \in Ticket
         /\ [ticket EXCEPT !.written = FALSE].status = ticket.status
         /\ [ticket EXCEPT !.written = FALSE].flag = ticket.flag
        /\ [ticket EXCEPT !.written = FALSE].written = FALSE
  BY DEF Ticket

LEMMA TicketWritten ==
  ASSUME ticket \in Ticket, NEW n \in 0..MaxOps, NEW f \in {"none", "rewrite", "reingested"}
  PROVE  /\ [ticket EXCEPT !.written = TRUE, !.rewrite = n, !.flag = f] \in Ticket
         /\ [ticket EXCEPT !.written = TRUE, !.rewrite = n, !.flag = f].status = ticket.status
         /\ [ticket EXCEPT !.written = TRUE, !.rewrite = n, !.flag = f].flag = f
        /\ [ticket EXCEPT !.written = TRUE, !.rewrite = n, !.flag = f].written = TRUE
  BY DEF Ticket

LEMMA FeedbackStatus ==
  ASSUME feedback \in Feedback,
         NEW s \in {"waiting", "ready", "ticketed", "resolved", "dismissed"}
  PROVE  /\ [feedback EXCEPT !.status = s] \in Feedback
         /\ [feedback EXCEPT !.status = s].status = s
         /\ [feedback EXCEPT !.status = s].linked = feedback.linked
  BY DEF Feedback

LEMMA StaleFacts ==
  ASSUME StoreTypes, NEW now, NEW kind \in {"feedback", "review"}, Stale(now, kind),
         UNCHANGED faults
  PROVE  /\ Records
         /\ now => kind \in spoilt'
         /\ ~now => spoilt' = spoilt
  BY DEF StoreTypes, Stale, Records, Spoils

LEMMA ForgetTyped ==
  ASSUME read \in [Actors -> Read], Forget
  PROVE  read' \in [Actors -> Read]
  <1>1. NotRead \in Read
    BY RowTypes
  <1>2. QED
    BY <1>1 DEF Forget

\* The step is not the beginning of an application of the ticket.
NoApply == \A a \in Actors : op'[a].at = "apply" => op[a].at = "apply"

LEMMA EndsNoApply ==
  ASSUME NEW a \in Actors,
         Stops(a) \/ \E place \in Places \ {"apply"} : MovesTo(a, {place})
  PROVE  NoApply
  BY IdleTyped DEF NoApply, Stops, MovesTo, Others

\* What keeps the ticket's status and the feedback keeps the invariant.
LEMMA SameDecision ==
  ASSUME IInv, NoApply, spoilt \subseteq spoilt', Typed',
         UNCHANGED feedback, ticket'.status = ticket.status
  PROVE  IInv'
  <1>1. Unjudged' /\ Applying'
    BY DEF IInv, Unjudged, Applying, NoApply
  <1>2. Verdicts'
    BY DEF IInv, Verdicts, Spoilt
  <1>3. QED
    BY <1>1, <1>2 DEF IInv

-----------------------------------------------------------------------------
(* The steps.                                                              *)

LEMMA StartStep ==
  ASSUME IInv, NEW a \in Actors,
         \/ StartConvert(a) \/ StartBatch(a) \/ StartReview(a) \/ StartApply(a)
         \/ StartWrite(a) \/ StartWithdraw(a)
  PROVE  IInv'
  <1>1. PICK kind \in {"convert", "batch", "review", "apply", "write", "withdraw"},
             place \in {"create", "queue", "decide", "apply", "rewrite", "clean"} :
          Begin(a, kind, place) /\ (place = "apply" => ticket.status = "approved")
    BY DEF StartConvert, StartBatch, StartReview, StartApply, StartWrite, StartWithdraw
  <1>2. kind \in Kinds /\ place \in Places
    BY DEF Kinds, Places, Graphing, Storing
  <1>3. /\ StoreInv' /\ Others(a) /\ spoilt \subseteq spoilt' /\ op'[a].at = place
    BY <1>1, <1>2, BeginKeeps DEF IInv, Typed
  <1>4. UNCHANGED <<feedback, ticket, file>>
    BY DEF StartConvert, StartBatch, StartReview, StartApply, StartWrite, StartWithdraw,
           ticketVars
  <1>5. read' \in [Actors -> Read]
    <2>1. CASE UNCHANGED read
      BY <2>1 DEF IInv, Typed
    <2>2. CASE StartWrite(a)
      <3>1. PICK r : r = [rewrite |-> ticket.rewrite, flag |-> ticket.flag]
        OBVIOUS
      <3>2. r \in Read
        BY <3>1, RowTypes DEF IInv, Typed, Read
      <3>3. read' = [read EXCEPT ![a] = r]
        BY <2>2, <3>1 DEF StartWrite
      <3>4. QED
        BY <3>2, <3>3 DEF IInv, Typed
    <2>3. QED
      BY <2>1, <2>2 DEF StartConvert, StartBatch, StartReview, StartApply, StartWithdraw,
                        ticketVars
  <1>6. Typed'
    BY <1>3, <1>4, <1>5 DEF IInv, Typed
  <1>7. Unjudged' /\ Verdicts'
    BY <1>3, <1>4 DEF IInv, Unjudged, Verdicts, Spoilt
  <1>8. Applying'
    BY <1>1, <1>3, <1>4 DEF IInv, Applying, Others, Approved
  <1>9. QED
    BY <1>6, <1>7, <1>8 DEF IInv

\* The ticket comes to be; the feedback cannot have had a verdict.
LEMMA FileStep ==
  ASSUME IInv, FileTicket
  PROVE  IInv'
  <1>1. /\ ticket.status = "none" /\ ticket' = [ticket EXCEPT !.status = "pending"]
        /\ UNCHANGED <<storeVars, feedback, read, file>>
    BY DEF FileTicket
  <1>2. ticket' \in Ticket /\ ticket'.status = "pending"
    BY <1>1, TicketStatus DEF IInv, Typed
  <1>3. UNCHANGED <<pg, extracted, flagged, vec, graph, op, ops, spoilt, faults>>
    BY <1>1 DEF storeVars, stores, rows
  <1>4. Typed'
    BY <1>1, <1>2, <1>3 DEF IInv, Typed, StoreInv, StoreTypes, Named
  <1>5. Unjudged' /\ Applying' /\ Verdicts'
    BY <1>1, <1>2, <1>3 DEF IInv, Unjudged, Applying, Verdicts, Spoilt, Approved
  <1>6. QED
    BY <1>4, <1>5 DEF IInv

LEMMA CreateStep ==
  ASSUME IInv, NEW a \in Actors, CreateTicket(a)
  PROVE  IInv'
  <1>1. /\ op[a].at = "create" /\ Goto(a, "link") /\ Fine
        /\ UNCHANGED <<stores, ops, feedback, read, file>>
    BY DEF CreateTicket, Doing
  <1>2. StoreInv' /\ MovesTo(a, {"link"}) /\ spoilt \subseteq spoilt'
    <2>1. "link" \in Places
      BY DEF Places
    <2>2. Records /\ DataTypes' /\ ops' = ops
      BY <1>1, FineFacts, SameData DEF IInv, Typed, StoreInv
    <2>3. QED
      BY <1>1, <2>1, <2>2, Moved DEF IInv, Typed
  <1>3. ticket' = IF ticket.status = "none" THEN [ticket EXCEPT !.status = "pending"] ELSE ticket
    BY DEF CreateTicket
  <1>4. /\ ticket' \in Ticket
        /\ \/ ticket.status = "none" /\ ticket'.status = "pending"
           \/ ticket'.status = ticket.status
    BY <1>3, TicketStatus DEF IInv, Typed
  <1>5. Typed'
    BY <1>1, <1>2, <1>4 DEF IInv, Typed
  <1>6. NoApply
    BY <1>2, EndsNoApply DEF Places
  <1>7. Unjudged' /\ Applying' /\ Verdicts'
    BY <1>1, <1>2, <1>4, <1>6
       DEF IInv, Unjudged, Applying, Verdicts, Spoilt, NoApply, Approved
  <1>8. QED
    BY <1>5, <1>7 DEF IInv

\* The last step of a conversion, a batch, a review or an application.
LEMMA DecisionEnds ==
  ASSUME IInv, NEW a \in Actors, End(a), Records, UNCHANGED <<stores, ops>>
  PROVE  StoreInv' /\ NoApply /\ spoilt \subseteq spoilt'
  <1>1. DataTypes'
    BY SameData DEF IInv, Typed
  <1>2. StoreInv' /\ Stops(a) /\ spoilt \subseteq spoilt'
    BY <1>1, Ended DEF IInv, Typed
  <1>3. QED
    BY <1>2, EndsNoApply

LEMMA LinkStep ==
  ASSUME IInv, NEW a \in Actors, LinkTicket(a)
  PROVE  IInv'
  <1>1. /\ End(a) /\ Stale(ticket.status # "pending", "feedback")
        /\ UNCHANGED <<stores, ops, faults, ticket, read, file>>
    BY DEF LinkTicket
  <1>2. PICK s \in {"ticketed", feedback.status} : feedback' = [status |-> s, linked |-> TRUE]
    BY DEF LinkTicket
  <1>3. feedback' \in Feedback /\ feedback'.status = s /\ feedback'.linked = TRUE
    BY <1>2, RowTypes DEF IInv, Typed, Feedback
  <1>4. Records /\ (ticket.status # "pending" => "feedback" \in spoilt')
    BY <1>1, StaleFacts DEF IInv, Typed, StoreInv
  <1>5. StoreInv' /\ NoApply /\ spoilt \subseteq spoilt'
    BY <1>1, <1>4, DecisionEnds
  <1>6. Typed'
    BY <1>1, <1>3, <1>5 DEF IInv, Typed
  <1>7. Unjudged' /\ Applying'
    BY <1>1, <1>3, <1>5 DEF IInv, Unjudged, Applying, NoApply
  <1>8. Verdicts'
    <2>1. CASE ticket.status # "pending" \/ Spoilt({"feedback", "unsynced"})
      BY <1>4, <1>5, <2>1 DEF Verdicts, Spoilt
    <2>2. CASE ticket.status = "pending" /\ ~Spoilt({"feedback", "unsynced"})
      <3>1. feedback.status \notin {"resolved", "dismissed"}
        BY <2>2 DEF IInv, Unjudged, Verdicts, Approved
      <3>2. QED
        BY <1>1, <1>3, <2>2, <3>1 DEF Verdicts, Approved
    <2>3. QED
      BY <2>1, <2>2
  <1>9. QED
    BY <1>6, <1>7, <1>8 DEF IInv

LEMMA BatchStep ==
  ASSUME IInv, NEW a \in Actors, FinishBatch(a)
  PROVE  IInv'
  <1>1. /\ End(a) /\ Stale(feedback.status # "waiting", "feedback")
        /\ feedback' = [feedback EXCEPT !.status = "ready"]
        /\ UNCHANGED <<stores, ops, faults, ticket, read, file>>
    BY DEF FinishBatch
  <1>2. /\ feedback' \in Feedback /\ feedback'.status = "ready"
        /\ feedback'.linked = feedback.linked
    BY <1>1, FeedbackStatus DEF IInv, Typed
  <1>3. Records /\ (feedback.status # "waiting" => "feedback" \in spoilt')
    BY <1>1, StaleFacts DEF IInv, Typed, StoreInv
  <1>4. StoreInv' /\ NoApply /\ spoilt \subseteq spoilt'
    BY <1>1, <1>3, DecisionEnds
  <1>5. Typed'
    BY <1>1, <1>2, <1>4 DEF IInv, Typed
  <1>6. Unjudged' /\ Applying'
    BY <1>1, <1>2, <1>4 DEF IInv, Unjudged, Applying, NoApply
  <1>7. Verdicts'
    BY <1>1, <1>2, <1>3, <1>4 DEF IInv, Verdicts, Spoilt
  <1>8. QED
    BY <1>5, <1>6, <1>7 DEF IInv

\* A review that is late, or that passes over a failure, says so.
LEMMA DecideFacts ==
  ASSUME IInv, NEW a \in Actors, Decide(a)
  PROVE  /\ Records /\ End(a) /\ UNCHANGED <<stores, ops, read, file>>
         /\ ticket.status # "pending" => "review" \in spoilt'
  <1>1. /\ spoilt \subseteq Spoils /\ faults \in 0..MaxFaults
        /\ {"review", "unsynced"} \subseteq Spoils
    BY DEF IInv, Typed, StoreInv, StoreTypes, Spoils
  <1>2. faults' \in 0..MaxFaults
    BY <1>1, FaultTyped DEF Decide
  <1>3. QED
    BY <1>1, <1>2 DEF Decide, Records

LEMMA DecideStep ==
  ASSUME IInv, NEW a \in Actors, Decide(a)
  PROVE  IInv'
  <1>1. PICK s \in {"approved", "rejected"} :
          /\ ticket' = [ticket EXCEPT !.status = s]
          /\ \/ feedback' = Verdict(s)
             \/ UNCHANGED feedback /\ "unsynced" \in spoilt'
    BY DEF Decide
  <1>2. Records /\ End(a) /\ UNCHANGED <<stores, ops, read, file>>
    BY DecideFacts
  <1>3. ticket' \in Ticket /\ ticket'.status = s
    BY <1>1, TicketStatus DEF IInv, Typed, Approved
  <1>4. PICK v \in {"resolved", "dismissed"} :
          v = IF s \in Approved THEN "resolved" ELSE "dismissed"
    OBVIOUS
  <1>5. /\ feedback' \in Feedback /\ feedback'.linked = feedback.linked
        /\ \/ feedback'.status = IF feedback.linked THEN v ELSE feedback.status
           \/ feedback'.status = feedback.status /\ "unsynced" \in spoilt'
    BY <1>1, <1>4, FeedbackStatus DEF Verdict, IInv, Typed
  <1>6. StoreInv' /\ NoApply /\ spoilt \subseteq spoilt'
    BY <1>2, DecisionEnds
  <1>7. Typed'
    BY <1>2, <1>3, <1>5, <1>6 DEF IInv, Typed
  <1>8. Unjudged' /\ Applying'
    BY <1>3, <1>5, <1>6 DEF IInv, Unjudged, Applying, Approved
  <1>9. Verdicts'
    BY <1>3, <1>4, <1>5, <1>6 DEF IInv, Verdicts, Approved, Spoilt
  <1>10. QED
    BY <1>7, <1>8, <1>9 DEF IInv

LEMMA ApplyStep ==
  ASSUME IInv, NEW a \in Actors, Apply(a)
  PROVE  IInv'
  <1>1. /\ op[a].at = "apply" /\ End(a) /\ Stale(ticket.status = "rejected", "feedback")
        /\ ticket' = [ticket EXCEPT !.status = "applied"]
        /\ UNCHANGED <<stores, ops, faults, feedback, read, file>>
    BY DEF Apply, Doing
  <1>2. ticket' \in Ticket /\ ticket'.status = "applied"
    BY <1>1, TicketStatus DEF IInv, Typed, Approved
  <1>3. Records /\ (ticket.status = "rejected" => "feedback" \in spoilt')
    BY <1>1, StaleFacts DEF IInv, Typed, StoreInv
  <1>4. StoreInv' /\ NoApply /\ spoilt \subseteq spoilt'
    BY <1>1, <1>3, DecisionEnds
  <1>5. Typed'
    BY <1>1, <1>2, <1>4 DEF IInv, Typed
  <1>6. ticket.status \in Approved \cup {"rejected"}
    BY <1>1 DEF IInv, Applying
  <1>7. Unjudged' /\ Applying' /\ Verdicts'
    BY <1>1, <1>2, <1>3, <1>4, <1>6
       DEF IInv, Unjudged, Applying, Verdicts, Spoilt, Approved
  <1>8. QED
    BY <1>5, <1>7 DEF IInv

\* Marks, texts and the written flag come and go, the decision stays.
LEMMA MarkStep ==
  ASSUME IInv, MarkReingested \/ ClearFlag
  PROVE  IInv'
  <1>1. PICK f \in {"none", "reingested"} : ticket' = [ticket EXCEPT !.flag = f]
    BY DEF MarkReingested, ClearFlag
  <1>2. UNCHANGED <<pg, extracted, flagged, vec, graph, op, ops, spoilt, faults,
                    feedback, read, file>>
    BY DEF MarkReingested, ClearFlag, storeVars, stores, rows
  <1>3. ticket' \in Ticket /\ ticket'.status = ticket.status
    BY <1>1, TicketFlag DEF IInv, Typed
  <1>4. Typed'
    BY <1>2, <1>3 DEF IInv, Typed, StoreInv, StoreTypes, Named
  <1>5. QED
    BY <1>2, <1>3, <1>4, SameDecision DEF NoApply

\* The write-back remembers the ticket as it read it, and its text has a number.
LEMMA RewriteStep ==
  ASSUME IInv, NEW a \in Actors, Rewrite(a)
  PROVE  IInv'
  <1>0. /\ StoreInv /\ op \in [Actors -> Op] /\ op[a] \in Op /\ op[a].at = "rewrite"
        /\ op[a].text \in 0..MaxOps /\ read \in [Actors -> Read] /\ read[a] \in Read
        /\ read[a].rewrite \in 0..MaxOps /\ ticket \in Ticket /\ "file" \in Places
    BY OpFacts, RowTypes DEF IInv, Typed, StoreInv, StoreTypes, Rewrite, Doing, Places
  <1>1. UNCHANGED <<stores, ops, feedback, file>> /\ Fine
    BY DEF Rewrite
  <1>2. Records /\ DataTypes' /\ ops' = ops
    BY <1>0, <1>1, FineFacts, SameData DEF StoreInv
  <1>3. ASSUME read[a].rewrite # 0, UNCHANGED read,
               op' = [op EXCEPT ![a].at = "file", ![a].text = read[a].rewrite]
        PROVE  StoreInv' /\ MovesTo(a, {"file"})
    <2>0. PICK n \in Texts : n = read[a].rewrite
      BY <1>0, <1>3, Numbers DEF Texts
    <2>1. PICK new : new = [op[a] EXCEPT !.at = "file", !.text = n]
      OBVIOUS
    <2>2. /\ new \in Op /\ new.kind = op[a].kind /\ new.at = "file"
          /\ new.text \in Texts
      BY <1>0, <2>1, Numbers DEF Op
    <2>3. op' = [op EXCEPT ![a] = new]
      BY <1>0, <1>3, <2>0, <2>1
    <2>4. MovesTo(a, {"file"})
      BY <1>0, <2>2, <2>3 DEF MovesTo, Others
    <2>5. {"file"} \in SUBSET Places
      BY <1>0
    <2>6. QED
      BY <1>0, <1>2, <2>4, <2>5, InvKept
  <1>4. ASSUME Goto(a, "file") PROVE StoreInv' /\ MovesTo(a, {"file"})
    BY <1>0, <1>2, <1>4, Moved
  <1>5. ASSUME End(a), Forget PROVE StoreInv' /\ Stops(a) /\ read' \in [Actors -> Read]
    BY <1>0, <1>2, <1>5, Ended, ForgetTyped
  <1>6. ASSUME read' = [read EXCEPT ![a].rewrite = op[a].text]
        PROVE  read' \in [Actors -> Read]
    <2>1. PICK r : r = [read[a] EXCEPT !.rewrite = op[a].text]
      OBVIOUS
    <2>2. r \in Read
      BY <1>0, <2>1 DEF Read
    <2>3. read' = [read EXCEPT ![a] = r]
      BY <1>0, <1>6, <2>1
    <2>4. QED
      BY <1>0, <2>2, <2>3
  <1>7. ticket' \in Ticket /\ ticket'.status = ticket.status
    <2>1. ticket' \in {ticket, [ticket EXCEPT !.rewrite = 0, !.flag = "rewrite"]}
      BY DEF Rewrite
    <2>2. QED
      BY <1>0, <2>1, TicketInvalid
  <1>8. /\ StoreInv' /\ read' \in [Actors -> Read]
        /\ Stops(a) \/ MovesTo(a, {"file"})
    <2>1. \/ /\ read[a].rewrite # 0 /\ UNCHANGED read
             /\ op' = [op EXCEPT ![a].at = "file", ![a].text = read[a].rewrite]
          \/ Goto(a, "file") /\ read' = [read EXCEPT ![a].rewrite = op[a].text]
          \/ End(a) /\ Forget
      BY DEF Rewrite
    <2>2. QED
      BY <1>0, <1>3, <1>4, <1>5, <1>6, <2>1
  <1>9. NoApply
    BY <1>0, <1>8, EndsNoApply
  <1>10. Typed' /\ spoilt \subseteq spoilt'
    BY <1>1, <1>2, <1>7, <1>8 DEF IInv, Typed, Records
  <1>11. QED
    BY <1>1, <1>7, <1>9, <1>10, SameDecision

\* The other steps of a write-back or a withdrawal.
LEMMA WriteStep ==
  ASSUME IInv, NEW a \in Actors, op[a].at # "idle",
         Goto(a, "embed") \/ End(a), Records, UNCHANGED <<stores, ops, feedback>>,
         file' \in BOOLEAN, read' \in [Actors -> Read],
         ticket' \in Ticket, ticket'.status = ticket.status
  PROVE  IInv'
  <1>1. DataTypes' /\ ops' = ops /\ "embed" \in Places
    BY SameData DEF IInv, Typed, Places
  <1>2. StoreInv' /\ spoilt \subseteq spoilt' /\ (Stops(a) \/ MovesTo(a, {"embed"}))
    BY <1>1, Moved, Ended DEF IInv, Typed
  <1>3. NoApply
    BY <1>1, <1>2, EndsNoApply
  <1>4. Typed'
    BY <1>2 DEF IInv, Typed
  <1>5. QED
    BY <1>2, <1>3, <1>4, SameDecision

LEMMA FileOrCommitStep ==
  ASSUME IInv, NEW a \in Actors, UpsertFile(a) \/ CommitWrite(a) \/ CommitWithdraw(a)
  PROVE  IInv'
  <1>0. /\ StoreTypes /\ ticket \in Ticket /\ read \in [Actors -> Read] /\ file \in BOOLEAN
        /\ read[a].rewrite \in 0..MaxOps /\ read[a].flag \in {"none", "rewrite", "reingested"}
        /\ ticket.flag \in {"none", "rewrite", "reingested"}
    BY RowTypes DEF IInv, Typed, StoreInv
  <1>1. /\ Goto(a, "embed") \/ End(a)
        /\ op[a].at # "idle"
        /\ UNCHANGED <<stores, ops, feedback>>
        /\ Forget \/ UNCHANGED read
        /\ file' \in {TRUE, file}
    BY DEF UpsertFile, CommitWrite, CommitWithdraw, Doing
  <1>2. Records
    BY <1>0, FineFacts, PartlyFacts DEF UpsertFile, CommitWrite, CommitWithdraw, Fails
  <1>3. read' \in [Actors -> Read]
    BY <1>0, <1>1, ForgetTyped
  <1>4. ticket' \in Ticket /\ ticket'.status = ticket.status
    <2>1. CASE UNCHANGED ticket
      BY <1>0, <2>1
    <2>2. CASE ticket' = [ticket EXCEPT !.rewrite = read[a].rewrite]
      <3>1. PICK n \in 0..MaxOps : n = read[a].rewrite
        BY <1>0
      <3>2. ticket' = [ticket EXCEPT !.rewrite = n]
        BY <2>2, <3>1, Zenon
      <3>3. QED
        BY <1>0, <3>2, TicketText
    <2>3. CASE ticket' = [ticket EXCEPT !.written = FALSE]
      BY <1>0, <2>3, TicketWithdrawn
    <2>4. ASSUME NEW f \in {"none", ticket.flag},
                 ticket' = [ticket EXCEPT !.written = TRUE, !.rewrite = read[a].rewrite,
                                          !.flag = f]
          PROVE  ticket' \in Ticket /\ ticket'.status = ticket.status
      <3>1. PICK n \in 0..MaxOps : n = read[a].rewrite
        BY <1>0
      <3>2. ticket' = [ticket EXCEPT !.written = TRUE, !.rewrite = n, !.flag = f]
        BY <2>4, <3>1, Zenon
      <3>3. f \in {"none", "rewrite", "reingested"}
        BY <1>0
      <3>4. QED
        BY <1>0, <3>2, <3>3, TicketWritten
    <2>5. CASE CommitWrite(a)
      <3>1. \/ UNCHANGED ticket
            \/ ticket' = [ticket EXCEPT !.written = TRUE, !.rewrite = read[a].rewrite,
                             !.flag = IF read[a].flag = "rewrite" THEN "none" ELSE @]
        BY <2>5 DEF CommitWrite, Fails
      <3>2. PICK f \in {"none", ticket.flag} :
              f = IF read[a].flag = "rewrite" THEN "none" ELSE ticket.flag
        OBVIOUS
      <3>3. \/ UNCHANGED ticket
            \/ ticket' = [ticket EXCEPT !.written = TRUE, !.rewrite = read[a].rewrite, !.flag = f]
        BY <3>1, <3>2, Zenon
      <3>4. QED
        BY <2>1, <2>4, <3>3
    <2>6. QED
      BY <2>1, <2>2, <2>3, <2>5 DEF UpsertFile, CommitWithdraw, Fails
  <1>5. file' \in BOOLEAN
    BY <1>0, <1>1
  <1>6. QED
    BY <1>1, <1>2, <1>3, <1>4, <1>5, WriteStep

LEMMA WorkStep ==
  ASSUME IInv, NEW a \in Actors, Work(a)
  PROVE  IInv'
  <1>1. /\ StoreInv' /\ Proceeds(a) /\ spoilt \subseteq spoilt'
        /\ Forget /\ UNCHANGED <<feedback, ticket, file>>
    BY StoreStepFacts DEF IInv, Typed, Work
  <1>2. read' \in [Actors -> Read]
    BY <1>1, ForgetTyped DEF IInv, Typed
  <1>3. NoApply
    BY <1>1, IdleTyped
       DEF Proceeds, MovesTo, Stops, Others, NoApply, Building, Cleaning, Inserting
  <1>4. Typed'
    BY <1>1, <1>2 DEF IInv, Typed
  <1>5. QED
    BY <1>1, <1>3, <1>4, SameDecision

LEMMA CrashStep ==
  ASSUME IInv, Crash
  PROVE  IInv'
  <1>1. /\ StoreInv' /\ \A a \in Actors : op'[a] = Idle
        /\ Forget /\ UNCHANGED <<feedback, ticket, file>> /\ spoilt \subseteq spoilt'
    BY DieFacts DEF IInv, Typed, Crash, Die
  <1>2. read' \in [Actors -> Read]
    BY <1>1, ForgetTyped DEF IInv, Typed
  <1>3. NoApply
    BY <1>1, IdleTyped DEF NoApply
  <1>4. Typed'
    BY <1>1, <1>2 DEF IInv, Typed
  <1>5. QED
    BY <1>1, <1>3, <1>4, SameDecision

LEMMA Invariance == Spec => []IInv
  <1>1. Init => IInv
    <2>1. ASSUME Init PROVE IInv
      <3>1. StoreInv /\ \A a \in Actors : op[a].at = "idle"
        BY <2>1, InitFacts, IdleTyped DEF Init, StoreInit
      <3>2. /\ ticket \in Ticket
            /\ \/ ticket.status = "none" /\ feedback = [status |-> "waiting", linked |-> FALSE]
               \/ ticket.status = "approved" /\ feedback = [status |-> "resolved", linked |-> TRUE]
        <4>1. NoTicket \in Ticket /\ NoTicket.status = "none"
          BY RowTypes DEF NoTicket
        <4>2. /\ [NoTicket EXCEPT !.status = "approved"] \in Ticket
              /\ [NoTicket EXCEPT !.status = "approved"].status = "approved"
          BY <4>1 DEF Ticket, Approved
        <4>3. QED
          BY <2>1, <4>1, <4>2 DEF Init
      <3>3. feedback \in Feedback /\ read \in [Actors -> Read] /\ file \in BOOLEAN
        BY <2>1, <3>2, RowTypes DEF Init, Feedback
      <3>4. Unjudged /\ Applying /\ Verdicts
        BY <3>1, <3>2 DEF Unjudged, Applying, Verdicts, Approved
      <3>5. QED
        BY <3>1, <3>2, <3>3, <3>4 DEF IInv, Typed
    <2>2. QED
      BY <2>1
  <1>2. IInv /\ [Next]_vars => IInv'
    <2>1. ASSUME IInv, Next PROVE IInv'
      BY <2>1, StartStep, FileStep, CreateStep, LinkStep, BatchStep, DecideStep, ApplyStep,
         MarkStep, RewriteStep, FileOrCommitStep, WorkStep, CrashStep DEF Next
    <2>2. ASSUME IInv, UNCHANGED vars PROVE IInv'
      <3>1. UNCHANGED <<pg, extracted, flagged, vec, graph, op, ops, spoilt, faults,
                        feedback, ticket, read, file>>
        BY <2>2 DEF vars, storeVars, stores, rows, ticketVars
      <3>2. Typed'
        BY <2>2, <3>1 DEF IInv, Typed, StoreInv, StoreTypes, Named
      <3>3. QED
        BY <2>2, <3>1, <3>2, SameDecision DEF NoApply
    <2>3. QED
      BY <2>1, <2>2
  <1>3. QED
    BY <1>1, <1>2, PTL DEF Spec

-----------------------------------------------------------------------------
\* Every variable keeps its type, for any actors, chunks and faults.
THEOREM TypeCorrect == Spec => []TypeOK
  <1>1. IInv => TypeOK
    BY DEF IInv, Typed, StoreInv, TypeOK
  <1>2. QED
    BY <1>1, Invariance, PTL

\* A feedback has the verdict of its ticket, whichever of several reviewers commits
\* last, but in the cases that FeedbackAgrees names.
THEOREM VerdictsAgree == Spec => []FeedbackAgrees
  <1>1. IInv => FeedbackAgrees
    BY DEF IInv, Verdicts, FeedbackAgrees
  <1>2. QED
    BY <1>1, Invariance, PTL

-----------------------------------------------------------------------------
(* What a ticket says of the stores.                                       *)

\* The operations of this module.
OfTicket == \A a \in Actors : op[a].kind \notin {"index", "delete", "build", "reset"}

\* Who writes was told to, and only a later decision can have changed that.
Approval ==
  ticket.written \/ Working({"write"}) # {}
    => ticket.status \in Approved \/ Spoilt({"review"})

\* The stores, while one write-back or withdrawal works and while none does.
StoresRest ==
  IF ticket.written
  THEN /\ Agree /\ Whole /\ Shown(flagged) /\ Cached
       /\ flagged = Chunks \/ Spoilt({"unbuilt"})
  ELSE Agree /\ NoRows /\ Bare
StoresVoid == Spoilt({"stores", "crash", "partial"})
AtWork(a) ==
  RowsAt(op[a]) /\ GraphAt(op[a]) /\ (op[a].kind = "write" <=> ~ticket.written)
StoresInv ==
  \/ StoresVoid
  \/ /\ Alone(Storing)
     /\ Working(Storing) = {} => StoresRest
     /\ \A a \in Working(Storing) : AtWork(a)

Truth == AllPlaced /\ OfTicket /\ Approval /\ StoresInv

LEMMA TruthFacts ==
  ASSUME IInv, Truth, NEW a \in Actors
  PROVE  /\ StoreInv /\ StoreTypes /\ DataTypes /\ op \in [Actors -> Op]
         /\ Placed(op[a]) /\ op[a].kind \notin {"index", "delete", "build", "reset"}
         /\ ticket \in Ticket /\ read \in [Actors -> Read] /\ read[a] \in Read
  BY DEF IInv, Typed, StoreInv, StoreTypes, DataTypes, Truth, AllPlaced, OfTicket

LEMMA VoidStays ==
  ASSUME spoilt \subseteq spoilt', StoresVoid
  PROVE  StoresVoid'
  BY DEF StoresVoid, Spoilt

LEMMA ApprovalStays ==
  ASSUME Approval, spoilt \subseteq spoilt',
         ticket'.written => ticket.written \/ Working({"write"}) # {},
         Working({"write"})' \subseteq Working({"write"}) \/ ticket'.status \in Approved,
         \/ ticket'.status = ticket.status \/ ticket'.status \in Approved
         \/ ticket.status \notin Approved \/ "review" \in spoilt'
  PROVE  Approval'
  BY DEF Approval, Spoilt

\* A step of an operation that does not store, and of the one that does.
LEMMA StoresOther ==
  ASSUME StoresInv, NEW a \in Actors, Others(a), spoilt \subseteq spoilt',
         op[a].kind \notin Storing, op'[a].kind \notin Storing,
         UNCHANGED <<pg, extracted, flagged, vec, graph>>, ticket'.written = ticket.written
  PROVE  StoresInv'
  <1>1. CASE StoresVoid'
    BY <1>1 DEF StoresInv
  <1>2. CASE ~StoresVoid'
    <2>1. /\ Alone(Storing) /\ (Working(Storing) = {} => StoresRest)
          /\ \A b \in Working(Storing) : AtWork(b)
      BY <1>2, VoidStays DEF StoresInv
    <2>2. Working(Storing)' = Working(Storing)
      BY WorkingMoves
    <2>3. StoresRest => StoresRest'
      BY DEF StoresRest, Agree, Whole, NoRows, Shown, Cached, Bare, Spoilt
    <2>4. \A b \in Working(Storing)' : AtWork(b)'
      BY <2>1, <2>2, RowsStand, GraphStands DEF Working, Others, AtWork
    <2>5. Alone(Storing)'
      BY <2>1, <2>2 DEF Alone
    <2>6. QED
      BY <2>1, <2>2, <2>3, <2>4, <2>5 DEF StoresInv
  <1>3. QED
    BY <1>1, <1>2

LEMMA StoresOwn ==
  ASSUME StoresInv, NEW a \in Actors, Others(a), spoilt \subseteq spoilt',
         op[a].kind \in Storing,
         AtWork(a) /\ ~StoresVoid' =>
           \/ op'[a] = Idle /\ StoresRest'
           \/ op'[a].kind = op[a].kind /\ AtWork(a)'
  PROVE  StoresInv'
  <1>1. CASE StoresVoid'
    BY <1>1 DEF StoresInv
  <1>2. CASE ~StoresVoid'
    <2>1. Alone(Storing) /\ AtWork(a)
      BY <1>2, VoidStays DEF StoresInv, Working
    <2>2. Working(Storing)' = IF op'[a].kind \in Storing THEN {a} ELSE {}
      BY <2>1, WorkingMoves
    <2>3. Idle.kind \notin Storing
      BY IdleTyped DEF Storing
    <2>4. Alone(Storing)'
      BY <2>2 DEF Alone
    <2>5. QED
      BY <1>2, <2>1, <2>2, <2>3, <2>4 DEF StoresInv
  <1>3. QED
    BY <1>1, <1>2

\* The ticket changes, and no operation takes the step.
LEMMA TicketTruth ==
  ASSUME IInv, Truth, FileTicket \/ MarkReingested \/ ClearFlag
  PROVE  Truth'
  <1>1. UNCHANGED <<pg, extracted, flagged, vec, graph, op, spoilt>>
    BY DEF FileTicket, MarkReingested, ClearFlag, storeVars, stores, rows
  <1>2. /\ ticket'.written = ticket.written
        /\ ticket'.status = ticket.status \/ ticket.status \notin Approved
    <2>1. CASE FileTicket
      BY <2>1, TicketStatus DEF FileTicket, IInv, Typed, Approved
    <2>2. CASE MarkReingested \/ ClearFlag
      <3>1. PICK f \in {"none", "reingested"} : ticket' = [ticket EXCEPT !.flag = f]
        BY <2>2 DEF MarkReingested, ClearFlag
      <3>2. QED
        BY <3>1, TicketFlag DEF IInv, Typed
    <2>3. QED
      BY <2>1, <2>2
  <1>3. AllPlaced' /\ OfTicket'
    BY <1>1 DEF Truth, AllPlaced, Placed, OfTicket
  <1>4. Approval'
    BY <1>1, <1>2, ApprovalStays DEF Truth, Working
  <1>5. StoresInv'
    <2>1. Working(Storing)' = Working(Storing) /\ (Alone(Storing) => Alone(Storing)')
      BY <1>1 DEF Working, Alone
    <2>2. StoresRest => StoresRest'
      BY <1>1, <1>2 DEF StoresRest, Agree, Whole, NoRows, Shown, Cached, Bare, Spoilt
    <2>3. \A b \in Working(Storing) : AtWork(b) => AtWork(b)'
      BY <1>1, <1>2, RowsStand, GraphStands DEF Working, AtWork
    <2>4. StoresVoid => StoresVoid'
      BY <1>1 DEF StoresVoid, Spoilt
    <2>5. QED
      BY <2>1, <2>2, <2>3, <2>4 DEF Truth, StoresInv
  <1>6. QED
    BY <1>3, <1>4, <1>5 DEF Truth

\* A step of an operation that has nothing to do with the stores.
LEMMA OtherTruth ==
  ASSUME Truth, NEW a \in Actors, Others(a), spoilt \subseteq spoilt',
         op[a].kind \notin Graphing, op'[a].kind \notin Graphing, Placed(op[a])',
         UNCHANGED <<pg, extracted, flagged, vec, graph>>, ticket'.written = ticket.written,
         \/ ticket'.status = ticket.status \/ ticket'.status \in Approved
         \/ ticket.status \notin Approved \/ "review" \in spoilt'
  PROVE  Truth'
  <1>1. AllPlaced'
    BY PlacedMoves DEF Truth
  <1>2. OfTicket'
    BY DEF Truth, OfTicket, Others, Graphing, Storing
  <1>3. Working({"write"})' = Working({"write"})
    BY DEF Working, Others, Graphing, Storing
  <1>4. Approval'
    BY <1>3, ApprovalStays DEF Truth
  <1>5. StoresInv'
    BY StoresOther DEF Truth, Graphing
  <1>6. QED
    BY <1>1, <1>2, <1>4, <1>5 DEF Truth

LEMMA DecisionTruth ==
  ASSUME IInv, Truth, NEW a \in Actors,
         CreateTicket(a) \/ LinkTicket(a) \/ FinishBatch(a) \/ Decide(a) \/ Apply(a)
  PROVE  Truth'
  <1>0. StoreInv /\ StoreTypes /\ op \in [Actors -> Op] /\ Placed(op[a]) /\ ticket \in Ticket
    BY TruthFacts
  <1>1. /\ op[a].at \in {"create", "link", "queue", "decide", "apply"}
        /\ UNCHANGED <<pg, extracted, flagged, vec, graph>>
    BY DEF CreateTicket, LinkTicket, FinishBatch, Decide, Apply, Doing, stores, rows
  <1>2. op[a].kind \notin Graphing
    BY <1>0, <1>1 DEF Placed, Graphing, Storing, Cleaning, Inserting, Building
  <1>3. /\ Others(a) /\ Placed(op[a])' /\ op'[a].kind \notin Graphing
    <2>1. CASE End(a)
      BY <1>0, <2>1, EndFacts, IdlePlaced, IdleTyped DEF Stops, Graphing, Storing
    <2>2. CASE Goto(a, "link")
      <3>1. Keeps(a, "link") /\ Others(a)
        BY <1>0, <2>2, GotoKeeps, GotoFacts DEF MovesTo, Places
      <3>2. op[a].kind # "none"
        BY <1>0, <1>1 DEF Placed
      <3>3. QED
        BY <1>2, <3>1, <3>2 DEF Keeps, Placed, Graphing, Storing
    <2>3. QED
      BY <2>1, <2>2 DEF CreateTicket, LinkTicket, FinishBatch, Decide, Apply
  <1>4. spoilt \subseteq spoilt'
    <2>1. CASE Decide(a)
      BY <2>1, DecideFacts DEF Records
    <2>2. QED
      BY <2>1 DEF CreateTicket, LinkTicket, FinishBatch, Apply, Stale, Fine
  <1>5. /\ ticket'.written = ticket.written
        /\ \/ ticket'.status = ticket.status \/ ticket'.status \in Approved
           \/ ticket.status \notin Approved \/ "review" \in spoilt'
    <2>1. CASE UNCHANGED ticket
      BY <2>1
    <2>2. CASE CreateTicket(a) /\ ticket' # ticket
      BY <1>0, <2>2, TicketStatus DEF CreateTicket, Approved
    <2>3. CASE Decide(a)
      <3>1. PICK s \in {"approved", "rejected"} : ticket' = [ticket EXCEPT !.status = s]
        BY <2>3 DEF Decide
      <3>2. ticket'.written = ticket.written
        BY <1>0, <3>1, TicketStatus DEF Approved
      <3>3. ticket.status = "pending" \/ "review" \in spoilt'
        BY <2>3, DecideFacts
      <3>4. QED
        BY <3>2, <3>3 DEF Approved
    <2>4. CASE Apply(a)
      BY <1>0, <2>4, TicketStatus DEF Apply, Approved
    <2>5. QED
      BY <2>1, <2>2, <2>3, <2>4 DEF LinkTicket, FinishBatch
  <1>6. QED
    BY <1>1, <1>2, <1>3, <1>4, <1>5, OtherTruth

\* An operation begins: alone with the stores, or it spoils the promise.
LEMMA StartTruth ==
  ASSUME IInv, Truth, NEW a \in Actors,
         \/ StartConvert(a) \/ StartBatch(a) \/ StartReview(a) \/ StartApply(a)
         \/ StartWrite(a) \/ StartWithdraw(a)
  PROVE  Truth'
  <1>1. PICK kind, place :
          /\ Begin(a, kind, place)
          /\ <<kind, place>> \in {<<"convert", "create">>, <<"batch", "queue">>,
                                  <<"review", "decide">>, <<"apply", "apply">>,
                                  <<"write", "rewrite">>, <<"withdraw", "clean">>}
          /\ kind = "write" => ticket.status \in Approved /\ ~ticket.written
          /\ kind = "withdraw" => ticket.written
    BY DEF StartConvert, StartBatch, StartReview, StartApply, StartWrite, StartWithdraw, Writable
  <1>2. kind \in Kinds /\ place \in Places /\ StoreTypes
    BY <1>1 DEF Kinds, Places, Graphing, Storing, IInv, Typed, StoreInv
  <1>3. /\ Others(a) /\ spoilt \subseteq spoilt'
        /\ op[a].kind = "none" /\ op'[a].kind = kind /\ op'[a].at = place
    BY <1>1, <1>2, BeginFacts, IdleTyped
  <1>4. /\ kind \in Storing /\ "stores" \notin spoilt' => Working(Storing) = {}
        /\ op'[a].chunk = 1 /\ op'[a].ok = TRUE /\ op'[a].failed = {}
        /\ UNCHANGED <<pg, extracted, flagged, vec, graph>>
    BY <1>1, <1>2, BeginAlone
  <1>5. UNCHANGED ticket
    BY DEF StartConvert, StartBatch, StartReview, StartApply, StartWrite, StartWithdraw, ticketVars
  <1>6. Placed(op[a])'
    BY <1>1, <1>3 DEF Placed, Graphing, Storing, Cleaning
  <1>7. CASE kind \notin Storing
    <2>1. kind \notin Graphing /\ op[a].kind \notin Graphing
      BY <1>1, <1>3, <1>7 DEF Graphing, Storing
    <2>2. QED
      BY <1>3, <1>4, <1>5, <1>6, <2>1, OtherTruth
  <1>8. CASE kind \in Storing
    <2>1. kind \in {"write", "withdraw"}
      BY <1>1, <1>8 DEF Storing
    <2>2. AllPlaced' /\ OfTicket'
      BY <1>3, <1>6, <2>1, PlacedMoves DEF Truth, OfTicket, Others
    <2>3. Approval'
      <3>1. Working({"write"})' \subseteq Working({"write"}) \/ ticket'.status \in Approved
        BY <1>1, <1>3, <1>5, <2>1 DEF Working, Others
      <3>2. QED
        BY <1>3, <1>5, <3>1, ApprovalStays DEF Truth
    <2>4. CASE StoresVoid'
      BY <2>2, <2>3, <2>4 DEF Truth, StoresInv
    <2>5. CASE ~StoresVoid'
      <3>1. Working(Storing) = {} /\ StoresRest
        BY <1>3, <1>4, <1>8, <2>5, VoidStays DEF StoresVoid, Spoilt, StoresInv, Truth
      <3>2. Working(Storing)' = {a}
        BY <1>3, <1>8, <3>1, WorkingMoves
      <3>3. /\ Agree => Agree'
            /\ NoRows => NoRows'
            /\ Bare => Bare'
            /\ Shown(flagged) => Shown(flagged)'
            /\ Cached => Cached'
        BY <1>4 DEF Agree, NoRows, Bare, Shown, Cached
      <3>4. ASSUME kind = "write" PROVE AtWork(a)'
        <4>1. place = "rewrite" /\ ~ticket.written
          BY <1>1, <3>4
        <4>2. Agree' /\ NoRows' /\ Bare'
          BY <3>1, <3>3, <4>1 DEF StoresRest
        <4>3. RowsAt(op[a])'
          BY <1>3, <1>4, <3>4, <4>1, <4>2 DEF RowsAt, Cleaning, Building
        <4>4. GraphAt(op[a])'
          BY <1>3, <1>4, <3>4, <4>1, <4>2 DEF GraphAt, Inserting
        <4>5. QED
          BY <1>3, <1>5, <3>4, <4>1, <4>3, <4>4 DEF AtWork
      <3>5. ASSUME kind = "withdraw" PROVE AtWork(a)'
        <4>1. place = "clean" /\ ticket.written
          BY <1>1, <3>5
        <4>2. Agree' /\ Shown(flagged)' /\ Cached'
          BY <3>1, <3>3, <4>1 DEF StoresRest
        <4>3. RowsAt(op[a])'
          BY <1>3, <1>4, <3>5, <4>1, <4>2 DEF RowsAt, Cleaning, Building
        <4>4. GraphAt(op[a])'
          BY <1>3, <1>4, <3>5, <4>1, <4>2 DEF GraphAt, Inserting
        <4>5. QED
          BY <1>3, <1>5, <3>5, <4>1, <4>3, <4>4 DEF AtWork
      <3>6. AtWork(a)' /\ Alone(Storing)'
        BY <2>1, <3>2, <3>4, <3>5 DEF Alone
      <3>7. QED
        BY <2>2, <2>3, <3>2, <3>6 DEF Truth, StoresInv
    <2>6. QED
      BY <2>4, <2>5
  <1>9. QED
    BY <1>7, <1>8

\* What a step of a write-back or of a withdrawal has to show.
LEMMA OwnTruth ==
  ASSUME Truth, NEW a \in Actors, Others(a), spoilt \subseteq spoilt',
         op[a].kind \in {"write", "withdraw"},
         op'[a] = Idle \/ (op'[a].kind = op[a].kind /\ Placed(op[a])'),
         ticket'.status = ticket.status,
         ticket'.written => ticket.written \/ op[a].kind = "write",
         AtWork(a) /\ ~StoresVoid' => IF op'[a] = Idle THEN StoresRest' ELSE AtWork(a)'
  PROVE  Truth'
  <1>1. AllPlaced'
    BY PlacedMoves, IdlePlaced DEF Truth
  <1>2. OfTicket'
    BY IdleTyped DEF Truth, OfTicket, Others
  <1>3. Approval'
    <2>1. op[a].kind = "write" => Working({"write"}) # {}
      BY DEF Working
    <2>2. Working({"write"})' \subseteq Working({"write"})
      BY IdleTyped DEF Working, Others
    <2>3. QED
      BY <2>1, <2>2, ApprovalStays DEF Truth
  <1>4. StoresInv'
    BY StoresOwn DEF Truth, Storing
  <1>5. QED
    BY <1>1, <1>2, <1>3, <1>4 DEF Truth

\* The text is chosen, and nothing is in the stores yet.
LEMMA RewriteTruth ==
  ASSUME IInv, Truth, NEW a \in Actors, Rewrite(a)
  PROVE  Truth'
  <1>0. /\ StoreInv /\ op \in [Actors -> Op] /\ Placed(op[a]) /\ ticket \in Ticket
        /\ read[a] \in Read
    BY TruthFacts
  <1>1. op[a].at = "rewrite" /\ UNCHANGED <<pg, extracted, flagged, vec, graph, spoilt>>
    BY DEF Rewrite, Doing, Fine, stores, rows
  <1>2. op[a].kind = "write" /\ op[a] \in Op
    BY <1>0, <1>1 DEF Placed, Graphing, Storing, Cleaning, Inserting, Building
  <1>3. ticket'.status = ticket.status /\ ticket'.written = ticket.written
    BY <1>0, TicketInvalid DEF Rewrite
  <1>d. /\ Agree => Agree'
        /\ NoRows => NoRows'
        /\ Bare => Bare'
    BY <1>1 DEF Agree, NoRows, Bare
  <1>4. AtWork(a) => Agree' /\ NoRows' /\ Bare' /\ ~ticket'.written
    BY <1>1, <1>2, <1>3, <1>d DEF AtWork, RowsAt, GraphAt
  <1>5. ASSUME NEW t, op' = [op EXCEPT ![a].at = "file", ![a].text = t]
        PROVE  Truth'
    <2>1. PICK new : new = [op[a] EXCEPT !.at = "file", !.text = t]
      OBVIOUS
    <2>2. op' = [op EXCEPT ![a] = new]
      BY <1>5, <2>1
    <2>3. op'[a] = new /\ Others(a)
      BY <1>0, <2>2 DEF Others
    <2>4. /\ op'[a].kind = op[a].kind /\ op'[a].at = "file" /\ op'[a].chunk = op[a].chunk
          /\ op'[a].ok = op[a].ok /\ op'[a].failed = op[a].failed
      BY <1>2, <2>1, <2>3 DEF Op
    <2>5. Placed(op[a])' /\ op'[a] # Idle
      BY <1>2, <2>4, IdleTyped DEF Placed, Graphing, Storing
    <2>6. AtWork(a) => RowsAt(op[a])'
      BY <1>1, <1>2, <1>4, <2>4 DEF AtWork, RowsAt, Cleaning, Building
    <2>7. AtWork(a) => GraphAt(op[a])'
      BY <1>1, <1>2, <1>4, <2>4 DEF AtWork, GraphAt, Inserting
    <2>8. AtWork(a) => AtWork(a)'
      BY <1>3, <2>4, <2>6, <2>7 DEF AtWork
    <2>9. QED
      BY <1>1, <1>2, <1>3, <2>3, <2>4, <2>5, <2>8, OwnTruth
  <1>6. ASSUME Goto(a, "file")
        PROVE  Truth'
    <2>1. Keeps(a, "file") /\ Others(a)
      BY <1>0, <1>6, GotoKeeps, GotoFacts DEF MovesTo, Places
    <2>2. Placed(op[a])' /\ op'[a] # Idle
      BY <1>2, <2>1, IdleTyped DEF Keeps, Placed, Graphing, Storing
    <2>3. AtWork(a) => RowsAt(op[a])'
      BY <1>1, <1>2, <1>4, <2>1 DEF AtWork, RowsAt, Keeps, Cleaning, Building
    <2>4. AtWork(a) => GraphAt(op[a])'
      BY <1>1, <1>2, <1>4, <2>1 DEF AtWork, GraphAt, Keeps, Inserting
    <2>5. AtWork(a) => AtWork(a)'
      BY <1>3, <2>1, <2>3, <2>4 DEF AtWork, Keeps
    <2>6. QED
      BY <1>1, <1>2, <1>3, <2>1, <2>2, <2>5, OwnTruth DEF Keeps
  <1>7. ASSUME End(a)
        PROVE  Truth'
    <2>1. Others(a) /\ op'[a] = Idle
      BY <1>0, <1>7, EndFacts DEF Stops
    <2>2. AtWork(a) => StoresRest'
      BY <1>4 DEF StoresRest
    <2>3. QED
      BY <1>1, <1>2, <1>3, <2>1, <2>2, OwnTruth
  <1>8. \/ \E t : op' = [op EXCEPT ![a].at = "file", ![a].text = t]
        \/ Goto(a, "file") \/ End(a)
    BY Zenon DEF Rewrite
  <1>9. QED
    BY <1>5, <1>6, <1>7, <1>8

LEMMA FileTruth ==
  ASSUME IInv, Truth, NEW a \in Actors, UpsertFile(a)
  PROVE  Truth'
  <1>0. /\ StoreInv /\ op \in [Actors -> Op] /\ Placed(op[a]) /\ ticket \in Ticket
        /\ read[a] \in Read /\ DataTypes
    BY TruthFacts
  <1>1. op[a].at = "file" /\ UNCHANGED <<pg, extracted, flagged, vec, graph, spoilt>>
    BY DEF UpsertFile, Doing, Fine, stores, rows
  <1>2. op[a].kind = "write" /\ op[a] \in Op
    BY <1>0, <1>1 DEF Placed, Graphing, Storing, Cleaning, Inserting, Building
  <1>3. ticket'.status = ticket.status /\ ticket'.written = ticket.written
    <2>1. PICK n \in 0..MaxOps : n = read[a].rewrite
      BY <1>0, RowTypes
    <2>2. UNCHANGED ticket \/ ticket' = [ticket EXCEPT !.rewrite = n]
      BY <2>1 DEF UpsertFile
    <2>3. /\ [ticket EXCEPT !.rewrite = n].status = ticket.status
          /\ [ticket EXCEPT !.rewrite = n].written = ticket.written
      BY <1>0, TicketText
    <2>4. QED
      BY <2>2, <2>3, Zenon
  <1>d. /\ Agree => Agree'
        /\ NoRows => NoRows'
        /\ Bare => Bare'
    BY <1>1 DEF Agree, NoRows, Bare
  <1>4. AtWork(a) => /\ Agree' /\ NoRows' /\ Bare' /\ ~ticket'.written
                     /\ op[a].chunk = 1 /\ op[a].ok
    BY <1>1, <1>2, <1>3, <1>d DEF AtWork, RowsAt, GraphAt, Inserting
  <1>5. CASE Goto(a, "embed")
    <2>1. Keeps(a, "embed") /\ Others(a)
      BY <1>0, <1>5, GotoKeeps, GotoFacts DEF MovesTo, Places
    <2>2. Placed(op[a])' /\ op'[a] # Idle
      BY <1>2, <2>1, IdleTyped DEF Keeps, Placed, Inserting, Graphing, Storing
    <2>3. ASSUME AtWork(a) PROVE RowsAt(op[a])'
      <3>1. \A c \in Chunks, t \in Texts : <<c, t>> \notin vec'
        <4>1. \A t \in Texts : t # 0
          BY DEF Texts
        <4>2. QED
          BY <1>4, <2>3, <4>1 DEF Agree, NoRows
      <3>2. \A c \in Chunks : ~(c < 1)
        BY DEF Chunks
      <3>3. Loaded(op[a], {"pg", "milvus"})'
        BY <1>4, <2>1, <2>3, <3>1, <3>2 DEF Loaded, Has, NoRows, Keeps
      <3>4. QED
        BY <1>4, <2>1, <2>3, <3>3 DEF RowsAt, Keeps, Cleaning, Building
    <2>4. AtWork(a) => GraphAt(op[a])'
      BY <1>1, <1>2, <1>4, <2>1 DEF AtWork, GraphAt, Keeps, Inserting
    <2>5. AtWork(a) => AtWork(a)'
      BY <1>3, <2>1, <2>3, <2>4 DEF AtWork, Keeps
    <2>6. QED
      BY <1>1, <1>2, <1>3, <2>1, <2>2, <2>5, OwnTruth DEF Keeps
  <1>6. CASE End(a)
    <2>1. Others(a) /\ op'[a] = Idle
      BY <1>0, <1>6, EndFacts DEF Stops
    <2>2. AtWork(a) => StoresRest'
      BY <1>4 DEF StoresRest
    <2>3. QED
      BY <1>1, <1>2, <1>3, <2>1, <2>2, OwnTruth
  <1>7. QED
    BY <1>5, <1>6 DEF UpsertFile

\* The ticket is marked as written when all of it is in the stores, and as withdrawn
\* when nothing is.
LEMMA CommitTruth ==
  ASSUME IInv, Truth, NEW a \in Actors, CommitWrite(a) \/ CommitWithdraw(a)
  PROVE  Truth'
  <1>0. /\ StoreInv /\ op \in [Actors -> Op] /\ ticket \in Ticket
        /\ read[a] \in Read
    BY TruthFacts
  <1>1. /\ op[a].at = "commit" /\ op[a].kind \in {"write", "withdraw"} /\ End(a)
        /\ UNCHANGED <<pg, extracted, flagged, vec, graph>> /\ spoilt \subseteq spoilt'
    BY DEF CommitWrite, CommitWithdraw, Doing, Fails, Partly, Fine, stores, rows
  <1>2. Others(a) /\ op'[a] = Idle
    BY <1>0, <1>1, EndFacts DEF Stops
  <1>d. /\ Agree => Agree'
        /\ NoRows => NoRows'
        /\ Whole => Whole'
        /\ Bare => Bare'
        /\ Shown(flagged) => Shown(flagged)'
        /\ Cached => Cached'
    BY <1>1 DEF Agree, NoRows, Whole, Bare, Shown, Cached
  <1>3. \/ "partial" \in spoilt' /\ UNCHANGED ticket
        \/ /\ UNCHANGED spoilt /\ ticket'.status = ticket.status
           /\ ticket'.written = (op[a].kind = "write")
    <2>1. CASE CommitWithdraw(a)
      BY <1>0, <2>1, TicketWithdrawn DEF CommitWithdraw, Fails, Partly, Fine
    <2>2. CASE CommitWrite(a)
      <3>1. PICK n \in 0..MaxOps : n = read[a].rewrite
        BY <1>0, RowTypes
      <3>2. PICK f \in {"none", ticket.flag} :
              f = IF read[a].flag = "rewrite" THEN "none" ELSE ticket.flag
        OBVIOUS
      <3>3. f \in {"none", "rewrite", "reingested"}
        BY <1>0, <3>2, RowTypes
      <3>4. \/ Fails(a)
            \/ /\ ticket' = [ticket EXCEPT !.written = TRUE, !.rewrite = read[a].rewrite,
                               !.flag = IF read[a].flag = "rewrite" THEN "none" ELSE @]
               /\ Fine
        BY <2>2, Zenon DEF CommitWrite
      <3>5. \/ Fails(a)
            \/ ticket' = [ticket EXCEPT !.written = TRUE, !.rewrite = n, !.flag = f] /\ Fine
        BY <3>1, <3>2, <3>4, Zenon
      <3>6. op[a].kind = "write"
        BY <2>2 DEF CommitWrite
      <3>7. /\ [ticket EXCEPT !.written = TRUE, !.rewrite = n, !.flag = f].status = ticket.status
            /\ [ticket EXCEPT !.written = TRUE, !.rewrite = n, !.flag = f].written = TRUE
        BY <1>0, <3>3, TicketWritten
      <3>8. \/ "partial" \in spoilt' /\ UNCHANGED ticket
            \/ ticket' = [ticket EXCEPT !.written = TRUE, !.rewrite = n, !.flag = f]
               /\ UNCHANGED spoilt
        BY <3>5 DEF Fails, Partly, Fine
      <3>9. QED
        BY <3>6, <3>7, <3>8
    <2>3. QED
      BY <2>1, <2>2
  <1>4. ASSUME AtWork(a), ~StoresVoid' PROVE StoresRest'
    <2>1. "partial" \notin spoilt'
      BY <1>4 DEF StoresVoid, Spoilt
    <2>2. ticket'.written = (op[a].kind = "write") /\ UNCHANGED spoilt
      BY <1>3, <2>1
    <2>3. CASE op[a].kind = "write"
      <3>1. Agree' /\ Whole'
        BY <1>1, <1>4, <1>d, <2>3 DEF AtWork, RowsAt
      <3>2. Shown(flagged)' /\ Cached'
        BY <1>1, <1>4, <1>d, <2>3 DEF AtWork, GraphAt
      <3>3. flagged' = Chunks \/ "unbuilt" \in spoilt'
        BY <1>1, <1>4, <2>2, <2>3 DEF AtWork, GraphAt
      <3>4. QED
        BY <2>2, <2>3, <3>1, <3>2, <3>3 DEF StoresRest, Spoilt
    <2>4. CASE op[a].kind = "withdraw"
      <3>1. Agree' /\ NoRows'
        BY <1>1, <1>4, <1>d, <2>4 DEF AtWork, RowsAt
      <3>2. Bare'
        BY <1>1, <1>4, <1>d, <2>4 DEF AtWork, GraphAt
      <3>3. QED
        BY <2>2, <2>4, <3>1, <3>2 DEF StoresRest
    <2>5. QED
      BY <1>1, <2>3, <2>4
  <1>5. QED
    BY <1>1, <1>2, <1>3, <1>4, OwnTruth

LEMMA WorkTruth ==
  ASSUME IInv, Truth, NEW a \in Actors, Work(a)
  PROVE  Truth'
  <1>0. /\ StoreInv /\ Placed(op[a])
        /\ op[a].kind \notin {"index", "delete", "build", "reset"}
    BY TruthFacts
  <1>1. StoreStep(a, file) /\ UNCHANGED ticket
    BY DEF Work
  <1>2. Begun(a) /\ Accounts(a)
    BY <1>0, <1>1, StepBegun, StepAccounts
  <1>3. Proceeds(a) /\ spoilt \subseteq spoilt'
    BY <1>0, <1>1, StoreStepFacts
  <1>4. Others(a) /\ (op'[a] = Idle \/ op'[a].kind = op[a].kind)
    BY <1>3 DEF Proceeds, MovesTo, Stops
  <1>5. op[a].kind \in {"write", "withdraw"} /\ op[a].kind \in Storing /\ Placed(op[a])'
    BY <1>0, <1>2 DEF Begun, Graphing, Storing, Accounts
  <1>6. ASSUME AtWork(a), ~StoresVoid'
        PROVE  IF op'[a] = Idle THEN StoresRest' ELSE AtWork(a)'
    <2>1. "partial" \notin spoilt'
      BY <1>6 DEF StoresVoid, Spoilt
    <2>2. RowsKept(a) /\ GraphKept(a)
      BY <1>2, <1>5, <1>6, <2>1 DEF Accounts, AtWork
    <2>3. CASE op'[a] = Idle
      <3>1. op[a].kind = "write" /\ Agree' /\ NoRows' /\ Bare'
        BY <1>5, <2>2, <2>3, OneBatch DEF RowsKept, GraphKept
      <3>2. QED
        BY <1>1, <1>6, <2>3, <3>1 DEF AtWork, StoresRest
    <2>4. CASE op'[a] # Idle
      BY <1>1, <1>4, <1>6, <2>2, <2>4 DEF RowsKept, GraphKept, AtWork
    <2>5. QED
      BY <2>3, <2>4
  <1>7. QED
    BY <1>1, <1>3, <1>4, <1>5, <1>6, OwnTruth

LEMMA CrashTruth ==
  ASSUME IInv, Truth, Crash
  PROVE  Truth'
  <1>1. \A a \in Actors : op'[a] = Idle
    BY DieFacts DEF Crash, IInv, Typed
  <1>2. "crash" \in spoilt' /\ UNCHANGED ticket /\ spoilt \subseteq spoilt'
    BY DEF Crash, Die
  <1>3. AllPlaced' /\ OfTicket'
    BY <1>1, IdlePlaced, IdleTyped DEF AllPlaced, OfTicket
  <1>4. Working({"write"})' = {}
    BY <1>1, IdleTyped DEF Working
  <1>5. Approval'
    BY <1>2, <1>4, ApprovalStays DEF Truth
  <1>6. StoresInv'
    BY <1>2 DEF StoresInv, StoresVoid, Spoilt
  <1>7. QED
    BY <1>3, <1>5, <1>6 DEF Truth

\* Whatever the actors do, the ticket and the stores have their accounts.
LEMMA TruthHolds == Spec => []Truth
  <1>1. Init => Truth
    <2>1. ASSUME Init PROVE Truth
      <3>1. /\ \A a \in Actors : op[a] = Idle
            /\ vec = {} /\ graph = {} /\ flagged = {}
            /\ \A c \in Chunks : pg[c] = 0 /\ extracted[c] = 0
        BY <2>1 DEF Init, StoreInit
      <3>2. ~ticket.written
        <4>1. NoTicket \in Ticket /\ ~NoTicket.written
          BY RowTypes DEF NoTicket
        <4>2. ~[NoTicket EXCEPT !.status = "approved"].written
          BY <4>1 DEF Ticket
        <4>3. QED
          BY <2>1, <4>1, <4>2 DEF Init
      <3>3. \A a \in Actors : Placed(op[a]) /\ op[a].kind = "none"
        BY <3>1, IdleTyped DEF Placed, Graphing, Storing
      <3>4. Working(Storing) = {} /\ Working({"write"}) = {}
        BY <3>3 DEF Working, Storing
      <3>5. StoresRest
        <4>1. \A t \in Texts : t # 0
          BY DEF Texts
        <4>2. QED
          BY <3>1, <3>2, <4>1 DEF StoresRest, Agree, NoRows, Bare
      <3>6. QED
        BY <3>2, <3>3, <3>4, <3>5
           DEF Truth, AllPlaced, OfTicket, Approval, StoresInv, Alone
    <2>2. QED
      BY <2>1
  <1>2. IInv /\ Truth /\ [Next]_vars => Truth'
    <2>1. ASSUME IInv, Truth, Next PROVE Truth'
      BY <2>1, StartTruth, TicketTruth, DecisionTruth, RewriteTruth, FileTruth, CommitTruth,
         WorkTruth, CrashTruth DEF Next
    <2>2. ASSUME Truth, UNCHANGED vars PROVE Truth'
      <3>1. UNCHANGED <<pg, extracted, flagged, vec, graph, op, spoilt, ticket>>
        BY <2>2 DEF vars, storeVars, stores, rows, ticketVars
      <3>2. AllPlaced' /\ OfTicket' /\ Approval'
        BY <2>2, <3>1 DEF Truth, AllPlaced, Placed, OfTicket, Approval, Working, Spoilt
      <3>3. /\ Working(Storing)' = Working(Storing) /\ (Alone(Storing) => Alone(Storing)')
            /\ StoresRest => StoresRest'
            /\ StoresVoid => StoresVoid'
        BY <3>1 DEF Working, Alone, StoresVoid, StoresRest, Agree, Whole, NoRows, Shown,
                    Cached, Bare, Spoilt
      <3>4. \A b \in Working(Storing) : AtWork(b) => AtWork(b)'
        BY <3>1, RowsStand, GraphStands DEF Working, AtWork
      <3>5. StoresInv'
        BY <2>2, <3>3, <3>4 DEF Truth, StoresInv
      <3>6. QED
        BY <3>2, <3>5 DEF Truth
    <2>3. QED
      BY <2>1, <2>2
  <1>3. QED
    BY <1>1, <1>2, Invariance, PTL DEF Spec

\* A ticket that is marked as written is in the stores, whole, with one text, and was
\* approved; of one that is not, nothing is there: for any requests, retries and
\* faults, but in the cases that WrittenTellsTruth names.
THEOREM TicketsTellTheTruth == Spec => []WrittenTellsTruth
  <1>1. ASSUME IInv, Truth PROVE WrittenTellsTruth
    <2>1. DataTypes
      BY <1>1 DEF IInv, Typed, StoreInv, StoreTypes, DataTypes
    <2>2. Working(Storing) # {} \/ StoresVoid \/ StoresRest
      BY <1>1 DEF Truth, StoresInv
    <2>3. ASSUME StoresRest, ticket.written
          PROVE  /\ \A c \in Chunks : pg[c] # 0
                 /\ vec = {<<c, pg[c]>> : c \in Chunks}
                 /\ graph = vec \/ Spoilt({"unbuilt"})
                 /\ ticket.status \in Approved \/ Spoilt({"review"})
      <3>1. Agree /\ Whole /\ Shown(flagged) /\ (flagged = Chunks \/ Spoilt({"unbuilt"}))
        BY <2>3 DEF StoresRest
      <3>2. \A c \in Chunks : pg[c] # 0
        BY <3>1 DEF Whole
      <3>3. {d \in Chunks : pg[d] # 0} = Chunks
        BY <3>2
      <3>4. vec = {<<c, pg[c]>> : c \in Chunks}
        BY <2>1, <3>1, <3>3, AgreeSets
      <3>5. graph = {<<c, pg[c]>> : c \in flagged}
        BY <2>1, <3>1, ShownSets
      <3>6. ticket.status \in Approved \/ Spoilt({"review"})
        BY <1>1, <2>3 DEF Truth, Approval
      <3>7. QED
        BY <3>1, <3>2, <3>4, <3>5, <3>6
    <2>4. ASSUME StoresRest, ~ticket.written
          PROVE  vec = {} /\ graph = {} /\ \A c \in Chunks : pg[c] = 0
      <3>1. Agree /\ NoRows /\ graph = {}
        BY <2>4 DEF StoresRest, Bare
      <3>2. {d \in Chunks : pg[d] # 0} = {}
        BY <3>1 DEF NoRows
      <3>3. vec = {}
        BY <2>1, <3>1, <3>2, AgreeSets
      <3>4. QED
        BY <3>1, <3>3 DEF NoRows
    <2>5. QED
      BY <2>2, <2>3, <2>4 DEF WrittenTellsTruth, StoresVoid
  <1>2. IInv /\ Truth => WrittenTellsTruth
    BY <1>1
  <1>3. QED
    BY <1>2, Invariance, TruthHolds, PTL


-----------------------------------------------------------------------------
(* The mark of a text that was not valid.                                  *)

\* A write-back knows the mark it will take away; one works at a time.
MarkAt(a) ==
  op[a].kind = "write" =>
    ~ticket.written /\ (ticket.flag = "rewrite" => read[a].flag = "rewrite")
Marks ==
  \/ Spoilt({"stores"})
  \/ /\ Alone(Storing)
     /\ \A a \in Actors : MarkAt(a)
     /\ ticket.written => ticket.flag # "rewrite"

\* A step that begins no work on the stores and sets no such mark.
LEMMA MarksKept ==
  ASSUME Marks, NEW a \in Actors, Others(a), spoilt \subseteq spoilt',
         op'[a].kind = op[a].kind \/ op'[a].kind \notin Storing,
         \A b \in Actors : op'[b].kind = "write" => read'[b].flag = read[b].flag,
         ticket'.written => ticket.written,
         ticket'.flag = "rewrite" => ticket.flag = "rewrite"
  PROVE  Marks'
  <1>1. CASE Spoilt({"stores"})
    BY <1>1 DEF Marks, Spoilt
  <1>2. CASE ~Spoilt({"stores"})
    <2>1. Working(Storing)' \subseteq Working(Storing)
      BY DEF Working, Others
    <2>2. Alone(Storing)'
      BY <1>2, <2>1 DEF Marks, Alone
    <2>3. \A b \in Actors : op'[b].kind = "write" => op[b].kind = "write"
      BY DEF Others, Storing
    <2>4. \A b \in Actors : MarkAt(b)'
      BY <1>2, <2>3 DEF Marks, MarkAt
    <2>5. ticket'.written => ticket'.flag # "rewrite"
      BY <1>2 DEF Marks
    <2>6. QED
      BY <2>2, <2>4, <2>5 DEF Marks
  <1>3. QED
    BY <1>1, <1>2

\* The writer is the only operation on the stores, and this is its last step.
LEMMA MarksAfterLast ==
  ASSUME Marks, NEW a \in Actors, Others(a), spoilt \subseteq spoilt',
         op[a].kind \in Storing, op'[a] = Idle,
         MarkAt(a) => ~(ticket'.written /\ ticket'.flag = "rewrite")
  PROVE  Marks'
  <1>1. CASE Spoilt({"stores"})
    BY <1>1 DEF Marks, Spoilt
  <1>2. CASE ~Spoilt({"stores"})
    <2>1. Working(Storing)' = {}
      BY <1>2, WorkingMoves, IdleTyped DEF Marks, Storing
    <2>2. \A b \in Actors : op'[b].kind # "write"
      BY <2>1 DEF Working, Storing
    <2>3. QED
      BY <1>2, <2>1, <2>2 DEF Marks, MarkAt, Alone
  <1>3. QED
    BY <1>1, <1>2

LEMMA ForgetFacts ==
  ASSUME Forget, NEW b \in Actors, op'[b].kind = "write"
  PROVE  read'[b] = read[b]
  BY IdleTyped DEF Forget

LEMMA StartMarks ==
  ASSUME IInv, Truth, Marks, NEW a \in Actors,
         \/ StartConvert(a) \/ StartBatch(a) \/ StartReview(a) \/ StartApply(a)
         \/ StartWrite(a) \/ StartWithdraw(a)
  PROVE  Marks'
  <1>1. PICK kind, place :
          /\ Begin(a, kind, place)
          /\ <<kind, place>> \in {<<"convert", "create">>, <<"batch", "queue">>,
                                  <<"review", "decide">>, <<"apply", "apply">>,
                                  <<"write", "rewrite">>, <<"withdraw", "clean">>}
          /\ IF kind = "write"
             THEN /\ ~ticket.written
                  /\ read' = [read EXCEPT ![a] = [rewrite |-> ticket.rewrite,
                                                  flag |-> ticket.flag]]
             ELSE UNCHANGED read
    BY DEF StartConvert, StartBatch, StartReview, StartApply, StartWrite, StartWithdraw,
           Writable, ticketVars
  <1>2. kind \in Kinds /\ place \in Places /\ StoreTypes /\ read \in [Actors -> Read]
    BY <1>1 DEF Kinds, Places, Graphing, Storing, IInv, Typed, StoreInv
  <1>3. /\ Others(a) /\ spoilt \subseteq spoilt'
        /\ op[a].kind = "none" /\ op'[a].kind = kind
        /\ kind \in Storing /\ "stores" \notin spoilt' => Working(Storing) = {}
    BY <1>1, <1>2, BeginFacts, BeginAlone, IdleTyped
  <1>4. UNCHANGED ticket
    BY DEF StartConvert, StartBatch, StartReview, StartApply, StartWrite, StartWithdraw, ticketVars
  <1>5. CASE kind \notin Storing
    <2>1. kind # "write" /\ UNCHANGED read
      BY <1>1, <1>5 DEF Storing
    <2>2. QED
      BY <1>3, <1>4, <1>5, <2>1, MarksKept
  <1>6. CASE kind \in Storing /\ "stores" \notin spoilt'
    <2>1. Working(Storing) = {} /\ Working(Storing)' = {a}
      BY <1>3, <1>6, WorkingMoves
    <2>2. \A b \in Actors \ {a} : op'[b].kind # "write"
      BY <2>1 DEF Working, Storing
    <2>3. MarkAt(a)'
      BY <1>1, <1>2, <1>3, <1>4 DEF MarkAt
    <2>4. ticket.written => ticket.flag # "rewrite"
      BY <1>3, <1>6 DEF Marks, Spoilt
    <2>5. QED
      BY <1>4, <2>1, <2>2, <2>3, <2>4 DEF Marks, MarkAt, Alone
  <1>7. CASE "stores" \in spoilt'
    BY <1>7 DEF Marks, Spoilt
  <1>8. QED
    BY <1>5, <1>6, <1>7

\* What leaves the text and the mark of the ticket alone.
LEMMA DecisionMarks ==
  ASSUME IInv, Truth, Marks, NEW a \in Actors,
         CreateTicket(a) \/ LinkTicket(a) \/ FinishBatch(a) \/ Decide(a) \/ Apply(a)
  PROVE  Marks'
  <1>0. StoreTypes /\ op \in [Actors -> Op] /\ ticket \in Ticket
    BY TruthFacts
  <1>1. Others(a) /\ (op'[a].kind = op[a].kind \/ op'[a].kind \notin Storing)
    <2>1. CASE End(a)
      BY <1>0, <2>1, EndFacts, IdleTyped DEF Stops, Storing
    <2>2. CASE Goto(a, "link")
      BY <1>0, <2>2, GotoFacts DEF MovesTo, Places
    <2>3. QED
      BY <2>1, <2>2 DEF CreateTicket, LinkTicket, FinishBatch, Decide, Apply
  <1>2. spoilt \subseteq spoilt' /\ UNCHANGED read
    <2>1. CASE Decide(a)
      BY <2>1, DecideFacts DEF Records
    <2>2. QED
      BY <2>1 DEF CreateTicket, LinkTicket, FinishBatch, Apply, Stale, Fine
  <1>3. ticket'.written = ticket.written /\ ticket'.flag = ticket.flag
    <2>1. CASE UNCHANGED ticket
      BY <2>1
    <2>2. ASSUME NEW s \in {"pending", "approved", "rejected", "applied"},
                 ticket' = [ticket EXCEPT !.status = s]
          PROVE  ticket'.written = ticket.written /\ ticket'.flag = ticket.flag
      BY <1>0, <2>2, TicketStatus DEF Approved
    <2>3. QED
      BY <2>1, <2>2 DEF CreateTicket, LinkTicket, FinishBatch, Decide, Apply
  <1>4. QED
    BY <1>1, <1>2, <1>3, MarksKept

\* A write-back finds its text, finds that it is not valid, which it notes with the
\* ticket before it gives up, or caches it.
LEMMA WriteMarks ==
  ASSUME IInv, Truth, Marks, NEW a \in Actors, Rewrite(a) \/ UpsertFile(a)
  PROVE  Marks'
  <1>0. /\ op \in [Actors -> Op] /\ Placed(op[a]) /\ ticket \in Ticket
        /\ read \in [Actors -> Read] /\ read[a] \in Read
    BY TruthFacts
  <1>1. op[a].at \in {"rewrite", "file"} /\ UNCHANGED spoilt
    BY DEF Rewrite, UpsertFile, Doing, Fine
  <1>2. op[a].kind = "write" /\ op[a] \in Op
    BY <1>0, <1>1 DEF Placed, Graphing, Storing, Cleaning, Inserting, Building
  <1>3. /\ Others(a) /\ (op'[a] = Idle \/ op'[a].kind = op[a].kind)
    <2>1. CASE End(a)
      BY <1>0, <2>1, EndFacts DEF Stops
    <2>2. ASSUME NEW place \in {"file", "embed"}, Goto(a, place)
          PROVE  Others(a) /\ op'[a].kind = op[a].kind
      BY <1>0, <2>2, GotoFacts DEF MovesTo, Places
    <2>3. ASSUME NEW t, op' = [op EXCEPT ![a].at = "file", ![a].text = t]
          PROVE  Others(a) /\ op'[a].kind = op[a].kind
      <3>1. PICK new : new = [op[a] EXCEPT !.at = "file", !.text = t]
        OBVIOUS
      <3>2. op' = [op EXCEPT ![a] = new]
        BY <2>3, <3>1
      <3>3. new.kind = op[a].kind
        BY <1>2, <3>1 DEF Op
      <3>4. QED
        BY <1>0, <3>2, <3>3 DEF Others
    <2>4. \/ \E t : op' = [op EXCEPT ![a].at = "file", ![a].text = t]
          \/ Goto(a, "file") \/ Goto(a, "embed") \/ End(a)
      BY Zenon DEF Rewrite, UpsertFile
    <2>5. QED
      BY <2>1, <2>2, <2>3, <2>4
  <1>4. \A b \in Actors : op'[b].kind = "write" => read'[b].flag = read[b].flag
    <2>1. CASE Forget
      BY <2>1, ForgetFacts
    <2>2. ASSUME NEW n, read' = [read EXCEPT ![a].rewrite = n]
          PROVE  \A b \in Actors : read'[b].flag = read[b].flag
      BY <1>0, <2>2 DEF Read
    <2>3. Forget \/ UNCHANGED read \/ \E n : read' = [read EXCEPT ![a].rewrite = n]
      BY Zenon DEF Rewrite, UpsertFile
    <2>4. QED
      BY <2>1, <2>2, <2>3
  <1>5. CASE ticket'.written = ticket.written /\ ticket'.flag = ticket.flag
    BY <1>1, <1>3, <1>4, <1>5, MarksKept, IdleTyped DEF Storing
  <1>6. CASE ticket' = [ticket EXCEPT !.rewrite = 0, !.flag = "rewrite"] /\ End(a)
    <2>1. ticket'.written = ticket.written
      BY <1>0, <1>6, TicketInvalid
    <2>2. op'[a] = Idle
      BY <1>0, <1>6, EndFacts DEF Stops
    <2>3. QED
      BY <1>1, <1>2, <1>3, <2>1, <2>2, MarksAfterLast DEF MarkAt, Storing
  <1>7. CASE ticket' = [ticket EXCEPT !.rewrite = read[a].rewrite]
    <2>1. PICK n \in 0..MaxOps : n = read[a].rewrite
      BY <1>0, RowTypes
    <2>2. ticket'.written = ticket.written /\ ticket'.flag = ticket.flag
      BY <1>0, <1>7, <2>1, TicketText
    <2>3. QED
      BY <1>5, <2>2
  <1>8. \/ UNCHANGED ticket
        \/ ticket' = [ticket EXCEPT !.rewrite = 0, !.flag = "rewrite"] /\ End(a)
        \/ ticket' = [ticket EXCEPT !.rewrite = read[a].rewrite]
    BY Zenon DEF Rewrite, UpsertFile
  <1>9. QED
    BY <1>5, <1>6, <1>7, <1>8

\* The ticket is written, and asks for nothing; or it is withdrawn.
LEMMA CommitMarks ==
  ASSUME IInv, Truth, Marks, NEW a \in Actors, CommitWrite(a) \/ CommitWithdraw(a)
  PROVE  Marks'
  <1>0. op \in [Actors -> Op] /\ ticket \in Ticket /\ read[a] \in Read
    BY TruthFacts
  <1>1. /\ op[a].kind \in {"write", "withdraw"} /\ End(a) /\ spoilt \subseteq spoilt'
    BY DEF CommitWrite, CommitWithdraw, Fails, Partly, Fine
  <1>2. Others(a) /\ op'[a] = Idle
    BY <1>0, <1>1, EndFacts DEF Stops
  <1>3. CASE CommitWithdraw(a)
    <2>1. ticket' = ticket \/ ticket' = [ticket EXCEPT !.written = FALSE]
      BY <1>3 DEF CommitWithdraw, Fails
    <2>2. (ticket'.written => ticket.written) /\ ticket'.flag = ticket.flag
      BY <1>0, <2>1, TicketWithdrawn
    <2>3. UNCHANGED read
      BY <1>3 DEF CommitWithdraw
    <2>4. QED
      BY <1>1, <1>2, <2>2, <2>3, MarksKept, IdleTyped DEF Storing
  <1>4. CASE CommitWrite(a) /\ UNCHANGED ticket
    <2>1. op[a].kind = "write"
      BY <1>4 DEF CommitWrite
    <2>2. QED
      BY <1>1, <1>2, <1>4, <2>1, MarksAfterLast DEF MarkAt, Storing
  <1>5. CASE CommitWrite(a) /\ ~UNCHANGED ticket
    <2>1. PICK n \in 0..MaxOps : n = read[a].rewrite
      BY <1>0, RowTypes
    <2>2. PICK f \in {"none", ticket.flag} :
            f = IF read[a].flag = "rewrite" THEN "none" ELSE ticket.flag
      OBVIOUS
    <2>3. ticket' = [ticket EXCEPT !.written = TRUE, !.rewrite = read[a].rewrite,
                         !.flag = IF read[a].flag = "rewrite" THEN "none" ELSE @]
      BY <1>5, Zenon DEF CommitWrite, Fails
    <2>4. ticket' = [ticket EXCEPT !.written = TRUE, !.rewrite = n, !.flag = f]
      BY <2>1, <2>2, <2>3
    <2>5. f \in {"none", "rewrite", "reingested"}
      BY <1>0, <2>2, RowTypes
    <2>6. ticket'.flag = f
      BY <1>0, <2>4, <2>5, TicketWritten
    <2>7. op[a].kind = "write"
      BY <1>5 DEF CommitWrite
    <2>8. MarkAt(a) => ticket'.flag # "rewrite"
      BY <2>2, <2>6, <2>7 DEF MarkAt
    <2>9. QED
      BY <1>1, <1>2, <2>7, <2>8, MarksAfterLast DEF Storing
  <1>6. QED
    BY <1>3, <1>4, <1>5

LEMMA RestMarks ==
  ASSUME IInv, Truth, Marks,
         \/ FileTicket \/ MarkReingested \/ ClearFlag \/ Crash
         \/ \E a \in Actors : Work(a)
  PROVE  Marks'
  <1>0. ticket \in Ticket
    BY DEF IInv, Typed
  <1>1. CASE FileTicket \/ MarkReingested \/ ClearFlag
    <2>1. UNCHANGED <<op, spoilt, read>>
      BY <1>1 DEF FileTicket, MarkReingested, ClearFlag, storeVars
    <2>2. \/ ticket' = [ticket EXCEPT !.status = "pending"]
          \/ \E f \in {"none", "reingested"} : ticket' = [ticket EXCEPT !.flag = f]
      BY <1>1 DEF FileTicket, MarkReingested, ClearFlag
    <2>3. /\ ticket'.written = ticket.written
          /\ ticket'.flag = "rewrite" => ticket.flag = "rewrite"
      <3>1. CASE ticket' = [ticket EXCEPT !.status = "pending"]
        BY <1>0, <3>1, TicketStatus
      <3>2. ASSUME NEW f \in {"none", "reingested"}, ticket' = [ticket EXCEPT !.flag = f]
            PROVE  ticket'.written = ticket.written /\ ticket'.flag # "rewrite"
        BY <1>0, <3>2, TicketFlag
      <3>3. QED
        BY <2>2, <3>1, <3>2
    <2>4. Working(Storing)' = Working(Storing)
      BY <2>1 DEF Working
    <2>5. QED
      BY <2>1, <2>3, <2>4 DEF Marks, MarkAt, Alone, Spoilt
  <1>2. CASE Crash
    <2>1. \A a \in Actors : op'[a] = Idle
      BY <1>2, DieFacts DEF Crash, IInv, Typed
    <2>2. spoilt \subseteq spoilt' /\ UNCHANGED ticket
      BY <1>2 DEF Crash, Die
    <2>3. Working(Storing)' = {} /\ \A a \in Actors : op'[a].kind # "write"
      BY <2>1, IdleTyped DEF Working, Storing
    <2>4. QED
      BY <2>2, <2>3 DEF Marks, MarkAt, Alone, Spoilt
  <1>3. ASSUME NEW a \in Actors, Work(a)
        PROVE  Marks'
    <2>1. StoreStep(a, file) /\ UNCHANGED ticket /\ Forget
      BY <1>3 DEF Work
    <2>2. Proceeds(a) /\ spoilt \subseteq spoilt'
      BY <2>1, StoreStepFacts, TruthFacts
    <2>3. Others(a) /\ (op'[a].kind = op[a].kind \/ op'[a].kind \notin Storing)
      BY <2>2, IdleTyped DEF Proceeds, MovesTo, Stops, Storing
    <2>4. QED
      BY <2>1, <2>2, <2>3, ForgetFacts, MarksKept
  <1>4. QED
    BY <1>1, <1>2, <1>3

\* A ticket that is in the stores asks for no other rewrite, for any requests, faults
\* and crashes, marks and administrators that take them away, if one write-back or
\* withdrawal works at a time.
THEOREM WrittenStaysUnmarked == Spec => []WrittenIsUnmarked
  <1>1. Init => Marks
    <2>1. ASSUME Init PROVE Marks
      <3>1. \A a \in Actors : op[a].kind = "none"
        BY <2>1, IdleTyped DEF Init, StoreInit
      <3>2. ~ticket.written
        <4>1. NoTicket \in Ticket /\ ~NoTicket.written
          BY RowTypes DEF NoTicket
        <4>2. ~[NoTicket EXCEPT !.status = "approved"].written
          BY <4>1 DEF Ticket
        <4>3. QED
          BY <2>1, <4>1, <4>2 DEF Init
      <3>3. QED
        BY <3>1, <3>2 DEF Marks, MarkAt, Alone, Working, Storing
    <2>2. QED
      BY <2>1
  <1>2. IInv /\ Truth /\ Marks /\ [Next]_vars => Marks'
    <2>1. ASSUME IInv, Truth, Marks, Next PROVE Marks'
      BY <2>1, StartMarks, DecisionMarks, WriteMarks, CommitMarks, RestMarks DEF Next
    <2>2. ASSUME Marks, UNCHANGED vars PROVE Marks'
      <3>1. UNCHANGED <<op, spoilt, ticket, read>>
        BY <2>2 DEF vars, storeVars, ticketVars
      <3>2. Working(Storing)' = Working(Storing)
        BY <3>1 DEF Working
      <3>3. QED
        BY <2>2, <3>1, <3>2 DEF Marks, MarkAt, Alone, Spoilt
    <2>3. QED
      BY <2>1, <2>2
  <1>3. Marks => WrittenIsUnmarked
    BY DEF Marks, WrittenIsUnmarked
  <1>4. QED
    BY <1>1, <1>2, <1>3, Invariance, TruthHolds, PTL DEF Spec
=============================================================================

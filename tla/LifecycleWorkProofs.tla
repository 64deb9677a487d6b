------------------------ MODULE LifecycleWorkProofs ------------------------
(***************************************************************************)
(* No unfinished work loses its message: WorkNotDropped, for any rows,     *)
(* workers, tokens and bounds; the absence of orphaned rows when no        *)
(* request can land late; and NoClaimLeftBehind.                           *)
(*                                                                         *)
(* An ack is harmless if the row is closed, or if the claim on it is       *)
(* somebody else's, whose own message is still there.  What has to be      *)
(* excluded is that a failure that lands late reopens the question of a    *)
(* row whose message was acked since: FlightInv says it cannot, since who  *)
(* left the failure in flight nacked, and the copy it gave back is acked   *)
(* only over a success or after a claim with another token.                *)
(***************************************************************************)
EXTENDS LifecycleAuditProofs, FiniteSetTheorems

(* A copy of the message of r is deliverable, or with an invocation that   *)
(* has yet to claim the row.                                               *)
Waiting(r) ==
    \/ queue[r] > 0
    \/ \E w \in Workers : on[w] = r /\ pc[w] \in {"gate", "skip", "claim"}

(* A failure that a consumer left in flight is the only request with its   *)
(* token, and if it is still admitted where it lands, the row's message is *)
(* waiting there.                                                          *)
FlightInv ==
    \A m \in late : m[2].status = "failure" /\ m[2].token \in Tokens
        => /\ row[m[1]].token \in Tokens
           /\ row[m[1]].token = m[2].token /\ row[m[1]].status # "success"
              => Waiting(m[1])
           /\ \A n \in late : n[2].token = m[2].token => n = m

WInv == IInv /\ FlightInv

-----------------------------------------------------------------------------
(* What becomes of the message *)

(* The answer of the last request of w, which is acked: the row is closed, *)
(* or this is the closing write of w.                                      *)
AckedWith(w) ==
    \/ row'[on[w]].status = "success"
    \/ /\ pc[w] \in Holding
       /\ \E q \in {SuccessRequest(tok[w]),
                    FailureRequest(tok[w], "terminal", "permanent")} :
             row' = [row EXCEPT ![on[w]] = Finalize(@, q)]

(* What a step of w does to the copies of messages. *)
Requeues(w) ==
    \/ /\ pc[w] = "idle" /\ pc'[w] = "gate" /\ UNCHANGED row
       /\ on'[w] \in Rows /\ queue' = [queue EXCEPT ![on'[w]] = @ - 1]
    \/ /\ pc[w] # "idle" /\ pc'[w] # "idle" /\ on'[w] = on[w]
       /\ UNCHANGED queue
    \/ /\ pc[w] # "idle" /\ pc'[w] = "idle"
       /\ queue' = [queue EXCEPT ![on[w]] = @ + 1]
    \/ /\ pc[w] # "idle" /\ pc'[w] = "idle"
       /\ UNCHANGED <<queue, late>> /\ AckedWith(w)

(* Every step of an invocation has this effect on the bus. *)
LEMMA QueueShape ==
    ASSUME TypeOK, TokenInv, NEW w \in Workers, WorkerStep(w)
    PROVE  Requeues(w)
<1> USE DEF invocation, history
<1>n. ASSUME pc[w] # "idle", Nack(w) PROVE Requeues(w)
  BY <1>n DEF Nack, End, Enqueue, Requeues, TypeOK
<1>k. ASSUME pc[w] # "idle", Ack(w), AckedWith(w), late' = late
      PROVE  Requeues(w)
  BY <1>k DEF Ack, End, Requeues, TypeOK
<1>g. ASSUME NEW p, p # "idle", pc[w] # "idle", Goto(w, p) PROVE Requeues(w)
  BY <1>g DEF Goto, Requeues, TypeOK
<1>1. ASSUME NEW r \in Rows, Deliver(w, r) PROVE Requeues(w)
  BY <1>1 DEF Deliver, Requeues, TypeOK
<1>2. CASE GateSkips(w) \/ OpReturns(w) \/ OpRaises(w)
  BY <1>2, <1>g DEF GateSkips, OpReturns, OpRaises
<1>3. CASE GateOpens(w)
  BY <1>3 DEF GateOpens, Requeues, TypeOK
<1>4. CASE SkipWritten(w)
  <2>1. pc[w] = "skip" /\ Ack(w) BY <1>4 DEF SkipWritten
  <2>2. on[w] \in Rows /\ row[on[w]] \in Row BY <2>1 DEF TypeOK
  <2>3. row'[on[w]] = Finalize(row[on[w]], SkipRequest)
    BY <1>4, <2>2 DEF SkipWritten, Write, TypeOK
  <2>4. AckedWith(w) /\ late' = late
    BY <1>4, <2>2, <2>3, FinalizeSkip DEF AckedWith, SkipWritten, Write
  <2> QED BY <2>1, <2>4, <1>k
<1>5. CASE SkipRaises(w) \/ ClaimRaises(w) \/ FailureRaises(w) \/ Cancel(w) \/ Crash(w)
  BY <1>5, <1>n DEF SkipRaises, ClaimRaises, FailureRaises, Cancel, Crash
<1>6. CASE ClaimAnswered(w)
  <2>1. pc[w] = "claim" BY <1>6 DEF ClaimAnswered
  <2>2. on[w] \in Rows BY <2>1 DEF TypeOK
  <2>3. CASE Outcome(row[on[w]], ClaimRequest(tok[w])) = "noop_success" /\ Ack(w)
    <3>1. row[on[w]].status = "success"
      BY <2>3 DEF Outcome
    <3>2. row'[on[w]] = Finalize(row[on[w]], ClaimRequest(tok[w]))
      BY <1>6, <2>2 DEF ClaimAnswered, Write, TypeOK
    <3>3. AckedWith(w) /\ late' = late
      BY <1>6, <3>1, <3>2, FinalizeSuccess DEF AckedWith, ClaimAnswered, Write
    <3> QED BY <2>1, <2>3, <3>3, <1>k
  <2> QED BY <1>6, <2>1, <2>3, <1>n, <1>g DEF ClaimAnswered
<1>7. CASE ClaimResent(w)
  BY <1>7 DEF ClaimResent, Requeues
<1>8. CASE SuccessAnswered(w)
  <2>1. pc[w] = "finish" /\ Ack(w) /\ AckedWith(w) /\ late' = late
    BY <1>8 DEF SuccessAnswered, Write, AckedWith, Holding
  <2> QED BY <2>1, <1>k
<1>9. CASE SuccessRaises(w)
  <2>1. pc[w] = "finish" BY <1>9 DEF SuccessRaises
  <2>2. CASE UNCHANGED <<pc, on, tok, queue, lapsed>>
    BY <2>1, <2>2 DEF Requeues
  <2> QED BY <1>9, <2>1, <2>2, <1>n DEF SuccessRaises
<1>10. CASE FailureAnswered(w)
  <2>1. CASE pc[w] = "fail_permanent"
    <3>1. Ack(w) /\ AckedWith(w) /\ late' = late
      BY <1>10, <2>1 DEF FailureAnswered, OpFailure, Write, AckedWith, Holding
    <3> QED BY <2>1, <3>1, <1>k
  <2>2. CASE pc[w] = "fail_transient"
    BY <1>10, <2>2, <1>n DEF FailureAnswered
  <2> QED BY <1>10, <2>1, <2>2 DEF FailureAnswered
<1> QED BY <1>1, <1>2, <1>3, <1>4, <1>5, <1>6, <1>7, <1>8, <1>9, <1>10 DEF WorkerStep

(* Outside the invocations no copy disappears. *)
LEMMA QueueGrows ==
    ASSUME TypeOK, [Next]_vars, \A w \in Workers : ~WorkerStep(w)
    PROVE  \A r \in Rows : queue[r] > 0 => queue'[r] > 0
<1> USE DEF invocation, history
<1>1. ASSUME NEW r \in Rows, RowStep(r)
      PROVE  queue' = queue \/ queue' = [queue EXCEPT ![r] = @ + 1]
  BY <1>1 DEF RowStep, AuditBegin, Publish, PublishLost, Republish,
     FailUnknownAction, SweepRowFails, Duplicate, LeaseLapse, Age, Enqueue
<1>2. CASE SweepList BY <1>2 DEF SweepList
<1>3. ASSUME NEW m \in late, LateLands(m) PROVE queue' = queue
  BY <1>3 DEF LateLands
<1>4. CASE UNCHANGED vars BY <1>4 DEF vars
<1>5. queue \in [Rows -> Nat] BY DEF TypeOK
<1> QED BY <1>1, <1>2, <1>3, <1>4, <1>5 DEF Next

-----------------------------------------------------------------------------
(* The inductive step of FlightInv *)

(* A worker's request is written or left in flight, not both. *)
LEMMA WriteOrLeave ==
    ASSUME NEW w \in Workers, WorkerStep(w)
    PROVE  row' = row \/ late' = late
<1> USE DEF Write, Raises
<1>1. ASSUME NEW r \in Rows, Deliver(w, r) PROVE row' = row
  BY <1>1 DEF Deliver
<1>2. CASE GateSkips(w) \/ GateOpens(w) \/ OpReturns(w) \/ OpRaises(w)
  BY <1>2 DEF GateSkips, GateOpens, OpReturns, OpRaises
<1>3. CASE SkipWritten(w) \/ SkipRaises(w)
  BY <1>3 DEF SkipWritten, SkipRaises
<1>4. CASE ClaimAnswered(w) \/ ClaimResent(w) \/ ClaimRaises(w)
  BY <1>4 DEF ClaimAnswered, ClaimResent, ClaimRaises
<1>5. CASE SuccessAnswered(w) \/ SuccessRaises(w)
  BY <1>5 DEF SuccessAnswered, SuccessRaises
<1>6. CASE FailureAnswered(w) \/ FailureRaises(w)
  BY <1>6 DEF FailureAnswered, FailureRaises
<1>7. CASE Cancel(w) \/ Crash(w)
  BY <1>7 DEF Cancel, Crash
<1> QED BY <1>1, <1>2, <1>3, <1>4, <1>5, <1>6, <1>7 DEF WorkerStep

(* A failure that a step leaves in flight is that of an invocation that    *)
(* holds a claim and gives its message back.                               *)
LEMMA NewFailure ==
    ASSUME IInv, [Next]_vars, NEW m \in late', m \notin late,
           m[2].token \in Tokens
    PROVE  /\ row' = row
           /\ \E w \in Workers :
                /\ m[1] = on[w] /\ m[2].token = tok[w]
                /\ late' = late \cup {m}
                /\ m[2].status = "failure" =>
                      /\ pc[w] \in Holding /\ pc[w] # "finish" /\ on[w] \in Rows
                      /\ queue'[on[w]] > 0
<1> USE DEF IInv
<1>1. PICK w \in Workers : WorkerStep(w)
  BY ElsewhereShape, TokenlessTypes, TokensAssumption DEF Elsewhere, LeaseLapse
<1>2. row' = row BY <1>1, WriteOrLeave
<1>3. PICK q \in Sent(w) : m = <<on[w], q>> /\ late' = late \cup {<<on[w], q>>}
  BY <1>1, WorkerShape DEF Writes
<1>4. q.token = tok[w]
  BY <1>3, TokensAssumption DEF Sent, SkipRequest, ClaimRequest, SuccessRequest
<1>5. ASSUME q.status = "failure"
      PROVE  /\ pc[w] \in Holding /\ pc[w] # "finish" /\ on[w] \in Rows
             /\ queue'[on[w]] > 0
  <2>1. pc[w] \in Holding /\ pc[w] # "finish"
    BY <1>5 DEF Sent, SkipRequest, ClaimRequest, SuccessRequest
  <2>2. on[w] \in Rows /\ queue \in [Rows -> Nat]
    BY <2>1 DEF TypeOK, Holding
  <2>3. late' # late BY <1>3
  <2>4. Moves(w) /\ Requeues(w) BY <1>1, WorkerShape, QueueShape
  <2>5. pc'[w] = "idle" BY <2>1, <2>3, <2>4 DEF Moves, Holding
  <2>6. queue' = [queue EXCEPT ![on[w]] = @ + 1]
    BY <2>1, <2>3, <2>4, <2>5 DEF Requeues, Holding
  <2> QED BY <2>1, <2>2, <2>6
<1> QED BY <1>2, <1>3, <1>4, <1>5

(* The waiting copy of a row is claimed by its new invocation, or given    *)
(* back, unless the row is successful.                                     *)
LEMMA WaitingStep ==
    ASSUME IInv, NEW w \in Workers, WorkerStep(w), NEW r \in Rows, Waiting(r)
    PROVE  \/ Waiting(r)'
           \/ row'[r].status = "success"
           \/ tok[w] \in Tokens /\ pc[w] = "claim" /\ row'[r].token = tok[w]
<1> USE DEF IInv
<1>0. row \in [Rows -> Row] /\ queue \in [Rows -> Nat] BY DEF TypeOK
<1>1. Moves(w) /\ Others(w) /\ Requeues(w) BY WorkerShape, QueueShape
<1>2. CASE pc[w] = "idle"
  <2>1. /\ pc'[w] = "gate" /\ on'[w] \in Rows
        /\ queue' = [queue EXCEPT ![on'[w]] = @ - 1]
    BY <1>1, <1>2 DEF Requeues
  <2>2. CASE on'[w] = r BY <2>1, <2>2 DEF Waiting
  <2>3. CASE on'[w] # r
    <3>1. queue'[r] = queue[r] BY <1>0, <2>1, <2>3
    <3> QED BY <1>1, <1>2, <3>1 DEF Waiting, Others
  <2> QED BY <2>2, <2>3
<1>3. CASE pc[w] # "idle"
  <2>0. on[w] \in Rows BY <1>3 DEF TypeOK
  <2>1. queue[r] > 0 => queue'[r] > 0
    BY <1>0, <1>1, <1>3, <2>0 DEF Requeues
  <2>2. CASE queue[r] > 0 BY <2>1, <2>2 DEF Waiting
  <2>3. ASSUME NEW v \in Workers, v # w, on[v] = r,
               pc[v] \in {"gate", "skip", "claim"}
        PROVE  Waiting(r)'
    BY <1>1, <2>3 DEF Waiting, Others
  <2>4. CASE on[w] = r /\ pc[w] \in {"gate", "skip", "claim"}
    <3>1. CASE pc'[w] = "idle"
      <4>1. \/ queue' = [queue EXCEPT ![r] = @ + 1]
            \/ row'[r].status = "success"
        BY <1>1, <1>3, <2>4, <3>1 DEF Requeues, AckedWith, Holding
      <4> QED BY <1>0, <4>1 DEF Waiting
    <3>2. CASE pc'[w] # "idle"
      <4>1. on'[w] = r BY <1>1, <1>3, <2>4, <3>2 DEF Requeues
      <4>2. CASE pc'[w] \in {"gate", "skip", "claim"}
        BY <4>1, <4>2 DEF Waiting
      <4>3. CASE pc'[w] \notin {"gate", "skip", "claim"}
        <5>1. /\ pc[w] = "claim" /\ Admits(row[r], ClaimRequest(tok[w]))
              /\ row' = [row EXCEPT ![r] = Finalize(@, ClaimRequest(tok[w]))]
          BY <1>1, <2>4, <3>2, <4>3 DEF Moves
        <5>2. tok[w] \in Tokens BY <5>1 DEF TokenInv, TypeOK
        <5> QED BY <1>0, <5>1, <5>2, FinalizeClaim
      <4> QED BY <4>2, <4>3
    <3> QED BY <3>1, <3>2
  <2> QED BY <2>2, <2>3, <2>4 DEF Waiting
<1> QED BY <1>2, <1>3

(* The claim on a row changes only to that of a claim being made, by an    *)
(* invocation or late.                                                     *)
LEMMA TokenChanges ==
    ASSUME IInv, [Next]_vars, NEW r \in Rows, row'[r].token # row[r].token
    PROVE  \/ \E w \in Workers : pc[w] = "claim" /\ row'[r].token = tok[w]
           \/ \E n \in late : /\ n[2].status = "in_progress"
                             /\ row'[r].token = n[2].token
<1> USE DEF IInv
<1>f. ASSUME NEW s \in Rows, NEW q \in Request,
             row' = [row EXCEPT ![s] = Finalize(@, q)]
      PROVE  q.status = "in_progress" /\ row'[r].token = q.token
  BY <1>f DEF Finalize, Written, TypeOK, Row, Request
<1>1. ASSUME NEW w \in Workers, WorkerStep(w)
      PROVE  pc[w] = "claim" /\ row'[r].token = tok[w]
  <2>1. PICK q \in Sent(w) : row' = [row EXCEPT ![on[w]] = Finalize(@, q)]
    BY <1>1, WorkerShape DEF Writes
  <2>2. q \in Request /\ on[w] \in Rows BY DEF Sent, TypeOK, Holding
  <2>3. q.status = "in_progress" /\ row'[r].token = q.token
    BY <1>f, <2>1, <2>2
  <2> QED BY <2>3 DEF Sent, SkipRequest, SuccessRequest, ClaimRequest
<1>2. CASE Elsewhere
  <2>1. row \in [Rows -> Row] BY DEF TypeOK
  <2>2. ASSUME NEW s \in Rows,
               \/ row' = [row EXCEPT ![s].status = "pending"]
               \/ row' = [row EXCEPT ![s].age = @ + 1]
        PROVE  FALSE
    BY <2>1, <2>2 DEF Row
  <2>3. ASSUME NEW s \in Rows, LeaseLapse(s) PROVE FALSE
    BY <2>1, <2>3 DEF LeaseLapse, Row
  <2>4. ASSUME NEW s \in Rows, Lands(s, CloseRequest) PROVE FALSE
    BY <2>4, <1>f, TokenlessTypes DEF Lands
  <2>5. ASSUME NEW m \in late, Lands(m[1], m[2])
        PROVE  m[2].status = "in_progress" /\ row'[r].token = m[2].token
    <3>1. m[1] \in Rows /\ m[2] \in Request BY DEF TypeOK
    <3> QED BY <2>5, <3>1, <1>f DEF Lands
  <2> QED BY <1>2, <2>2, <2>3, <2>4, <2>5 DEF Elsewhere
<1> QED BY <1>1, <1>2, ElsewhereShape

(* Every step keeps FlightInv. *)
LEMMA FlightStep == WInv /\ [Next]_vars => WInv'
<1> SUFFICES ASSUME WInv, [Next]_vars PROVE WInv'
  OBVIOUS
<1> USE DEF WInv, IInv
<1>1. IInv' BY InvStep
<1>2. Forward BY RowForward
<1> SUFFICES ASSUME NEW m \in late', m[2].status = "failure", m[2].token \in Tokens
             PROVE  /\ row'[m[1]].token \in Tokens
                    /\ row'[m[1]].token = m[2].token /\ row'[m[1]].status # "success"
                       => Waiting(m[1])'
                    /\ \A n \in late' : n[2].token = m[2].token => n = m
  BY <1>1 DEF FlightInv
<1>3. m[1] \in Rows BY <1>1 DEF TypeOK
<1>4. CASE m \in late
  <2>1. /\ row[m[1]].token \in Tokens
        /\ row[m[1]].token = m[2].token /\ row[m[1]].status # "success"
           => Waiting(m[1])
        /\ \A n \in late : n[2].token = m[2].token => n = m
    BY <1>4 DEF FlightInv
  <2>2. \A w \in Workers : tok[w] # m[2].token
    BY <1>4, TokensAssumption DEF LateInv
  <2>3. row'[m[1]].token \in Tokens BY <1>2, <1>3, <2>1 DEF Forward
  <2>4. ASSUME NEW n \in late', n[2].token = m[2].token PROVE n = m
    <3>1. CASE n \in late BY <2>1, <2>4, <3>1
    <3>2. CASE n \notin late
      BY <2>2, <2>4, <3>2, NewFailure
    <3> QED BY <3>1, <3>2
  <2>5. ASSUME row'[m[1]].token = m[2].token, row'[m[1]].status # "success"
        PROVE  Waiting(m[1])'
    <3>1. row[m[1]].token = m[2].token
      BY <1>3, <2>1, <2>2, <2>5, TokenChanges
    <3>2. row[m[1]].status # "success" BY <1>2, <1>3, <2>5 DEF Forward
    <3>3. Waiting(m[1]) BY <2>1, <3>1, <3>2
    <3>4. CASE \E w \in Workers : WorkerStep(w)
      BY <1>3, <2>2, <2>5, <3>3, <3>4, WaitingStep
    <3>5. CASE \A w \in Workers : ~WorkerStep(w)
      <4>1. queue[m[1]] > 0 => queue'[m[1]] > 0 BY <1>3, <3>5, QueueGrows
      <4>2. UNCHANGED <<pc, on>> BY <3>5, ElsewhereShape DEF Elsewhere
      <4> QED BY <3>3, <4>1, <4>2 DEF Waiting
    <3> QED BY <3>4, <3>5
  <2> QED BY <2>3, <2>4, <2>5
<1>5. CASE m \notin late
  <2>1. PICK w \in Workers :
           /\ row' = row
           /\ m[1] = on[w] /\ m[2].token = tok[w] /\ late' = late \cup {m}
           /\ pc[w] \in Holding /\ pc[w] # "finish" /\ on[w] \in Rows
           /\ queue'[on[w]] > 0
    BY <1>5, NewFailure
  <2>2. row[m[1]].token \in Tokens BY <2>1 DEF ClaimedInv
  <2>3. \A n \in late : n[2].token # tok[w]
    BY <2>1, TokensAssumption DEF LateInv
  <2> QED BY <2>1, <2>2, <2>3 DEF Waiting
<1> QED BY <1>4, <1>5

-----------------------------------------------------------------------------
(* Work is not dropped *)

(* The closing writes: under the claim on the row they close it for good,  *)
(* otherwise they leave it alone.                                          *)
LEMMA FinalizeClosing ==
    ASSUME NEW a \in Row, NEW t \in Tokens, a.token \in Tokens,
           NEW q \in {SuccessRequest(t), FailureRequest(t, "terminal", "permanent")}
    PROVE  LET b == Finalize(a, q) IN
           \/ b.status = "success"
           \/ b.status = "failure" /\ b.err = "permanent"
           \/ b = a /\ a.token # t
<1>1. CASE q = SuccessRequest(t)
  BY <1>1, FinalizeCount DEF Row
<1>2. CASE q = FailureRequest(t, "terminal", "permanent")
  BY <1>2, TokensAssumption DEF Finalize, Written, Admits, FailureRequest, Row
<1> QED BY <1>1, <1>2

(* The step of an invocation orphans no row. *)
LEMMA WorkerDrops ==
    ASSUME WInv, NEW w \in Workers, WorkerStep(w), IInv',
           NEW r \in Rows, Unfinished(r)', ~Carried(r)'
    PROVE  Orphaned(r)
<1> USE DEF WInv, IInv
<1>0. /\ row \in [Rows -> Row] /\ queue \in [Rows -> Nat]
      /\ queue'[r] = 0
      /\ \A v \in Workers : pc'[v] # "idle" /\ on'[v] = r
                             => pc'[v] \in Holding /\ tok'[v] # row'[r].token
  BY DEF TypeOK, Carried
<1>1. Writes(w) /\ Moves(w) /\ Others(w) /\ Requeues(w)
  BY WorkerShape, QueueShape
<1>2. ASSUME row'[r] = row[r], queue[r] = 0,
             pc[w] # "idle" /\ on[w] = r
                => pc[w] \in Holding /\ tok[w] # row[r].token
      PROVE  Orphaned(r)
  <2>1. ASSUME NEW v \in Workers, pc[v] # "idle", on[v] = r
        PROVE  pc[v] \in Holding /\ tok[v] # row[r].token
    BY <1>0, <1>1, <1>2, <2>1 DEF Others
  <2> QED BY <1>2, <2>1 DEF Orphaned, Unfinished, Carried
<1>3. CASE pc[w] = "idle"
  <2>1. on'[w] # r
    BY <1>0, <1>1, <1>3 DEF Requeues, Holding
  <2>2. row' = row /\ queue'[r] = queue[r]
    BY <1>0, <1>1, <1>3, <2>1 DEF Requeues
  <2> QED BY <1>0, <1>2, <1>3, <2>2
<1>4. CASE pc[w] # "idle" /\ on[w] # r
  <2>1. row'[r] = row[r]
    BY <1>0, <1>1, <1>4 DEF Writes, TypeOK
  <2>2. queue'[r] = queue[r]
    BY <1>0, <1>1, <1>4 DEF Requeues, TypeOK
  <2> QED BY <1>0, <1>2, <1>4, <2>1, <2>2
<1>5. CASE pc[w] # "idle" /\ on[w] = r
  <2>1. CASE pc'[w] # "idle"
    <3>1. on'[w] = r /\ queue' = queue
      BY <1>1, <1>5, <2>1 DEF Requeues
    <3>2. pc'[w] \in Holding /\ tok'[w] # row'[r].token
      BY <1>0, <2>1, <3>1
    <3>3. pc[w] # "claim"
      <4>1. ASSUME pc[w] = "claim" PROVE FALSE
        <5>1. /\ tok'[w] = tok[w] /\ Admits(row[r], ClaimRequest(tok[w]))
              /\ row'[r] = Finalize(row[r], ClaimRequest(tok[w]))
          BY <1>0, <1>1, <1>5, <2>1, <3>2, <4>1 DEF Moves, SameClaim, Holding
        <5>2. tok[w] \in Tokens BY <4>1 DEF TokenInv, TypeOK
        <5>3. row'[r].token = tok[w]
          BY <1>0, <5>1, <5>2, FinalizeClaim
        <5> QED BY <3>2, <5>1, <5>3
      <4> QED BY <4>1
    <3>4. pc[w] \in {"run", "finish"} /\ tok'[w] = tok[w]
      BY <1>1, <2>1, <3>2, <3>3 DEF Moves, SameClaim, Holding
    <3>5. CASE row'[r] = row[r]
      BY <1>0, <1>2, <3>1, <3>2, <3>4, <3>5 DEF Holding
    <3>6. CASE row'[r] # row[r]
      <4>1. pc[w] = "finish"
        BY <1>1, <2>1, <3>2, <3>4, <3>6 DEF Moves
      <4>2. PICK q \in Sent(w) : row' = [row EXCEPT ![r] = Finalize(@, q)]
        BY <1>1, <1>5, <3>6 DEF Writes
      <4>3. q = SuccessRequest(tok[w])
        BY <4>1, <4>2 DEF Sent
      <4>4. tok[w] \in Tokens /\ row[r].token \in Tokens
        BY <1>5, <4>1 DEF TokenInv, TypeOK, ClaimedInv, Holding
      <4>5. row'[r].status = "success"
        BY <1>0, <3>6, <4>2, <4>3, <4>4, FinalizeCount
      <4> QED BY <4>5 DEF Unfinished
    <3> QED BY <3>5, <3>6
  <2>2. CASE pc'[w] = "idle"
    <3>1. queue' = queue /\ AckedWith(w)
      BY <1>0, <1>1, <1>5, <2>2 DEF Requeues
    <3>2. row'[r].status # "success" /\ ~(row'[r].status = "failure" /\ row'[r].err = "permanent")
      BY DEF Unfinished
    <3>3. /\ pc[w] \in Holding
          /\ \E q \in {SuccessRequest(tok[w]),
                       FailureRequest(tok[w], "terminal", "permanent")} :
                row'[r] = Finalize(row[r], q)
      BY <1>0, <1>5, <3>1, <3>2 DEF AckedWith
    <3>4. tok[w] \in Tokens /\ row[r].token \in Tokens
      BY <1>5, <3>3 DEF TokenInv, TypeOK, ClaimedInv
    <3>5. row'[r] = row[r] /\ row[r].token # tok[w]
      BY <1>0, <3>2, <3>3, <3>4, FinalizeClosing
    <3> QED BY <1>0, <1>2, <3>1, <3>3, <3>5
  <2> QED BY <2>1, <2>2
<1> QED BY <1>3, <1>4, <1>5

(* A result is written with the token of the claim it finds. *)
LEMMA ResultKeepsToken ==
    ASSUME NEW a \in Row, NEW q \in Request, q.status # "in_progress"
    PROVE  Written(a, q).token = a.token /\ Written(a, q).status = q.status
BY DEF Written, Row, Request

(* A late request that is no claim closes a row, leaves it as it was, or   *)
(* finds its message waiting.                                              *)
LEMMA LateDrops ==
    ASSUME WInv, NEW m \in late, m[2].status # "in_progress", Lands(m[1], m[2]),
           NEW r \in Rows, Unfinished(r)'
    PROVE  row'[r] = row[r] \/ Waiting(r)
<1> USE DEF WInv, IInv
<1>1. row[r] \in Row /\ m[1] \in Rows /\ m[2] \in Request
  BY DEF TypeOK
<1>2. SUFFICES ASSUME row'[r] # row[r] PROVE Waiting(r)
  OBVIOUS
<1>3. m[1] = r /\ row'[r] = Written(row[r], m[2]) /\ Admits(row[r], m[2])
  BY <1>1, <1>2 DEF Lands, TypeOK, Finalize
<1>4. row'[r].token = row[r].token /\ row'[r].status = m[2].status
  BY <1>1, <1>3, ResultKeepsToken
<1>5. m[2].status = "failure"
  BY <1>1, <1>4 DEF Unfinished, Request
<1>6. m[2] # CloseRequest
  <2>1. ASSUME m[2] = CloseRequest PROVE row'[r].err = "unknown_action"
    BY <1>1, <1>3, <2>1 DEF Written, CloseRequest, FailureRequest, Row
  <2> QED BY <1>4, <1>5, <2>1 DEF Unfinished
<1>7. m[2].token \in Tokens
  BY <1>5, <1>6 DEF LateInv, SkipRequest
<1>8. row[r].token \in Tokens BY <1>3, <1>5, <1>7 DEF FlightInv
<1>9. row[r].token = m[2].token /\ row[r].status # "success"
  BY <1>3, <1>5, <1>7, <1>8, TokensAssumption DEF Admits
<1> QED BY <1>3, <1>5, <1>7, <1>9 DEF FlightInv

(* Every step leaves unfinished work with its message. *)
LEMMA DropStep == ASSUME WInv, [Next]_vars PROVE NothingDropped
<1> USE DEF WInv, IInv
<1> SUFFICES ASSUME NEW r \in Rows, Orphaned(r)'
             PROVE  Orphaned(r) \/ LateClaim(r)
  BY DEF NothingDropped
<1>0. Unfinished(r)' /\ ~Carried(r)' BY DEF Orphaned
<1>1. CASE \E w \in Workers : WorkerStep(w)
  BY <1>0, <1>1, WorkerDrops, InvStep
<1>2. CASE \A w \in Workers : ~WorkerStep(w)
  <2>1. Elsewhere BY <1>2, ElsewhereShape
  <2>2. ASSUME Unfinished(r), row'[r].token = row[r].token PROVE Orphaned(r)
    <3>1. queue[r] > 0 => queue'[r] > 0 BY <1>2, QueueGrows
    <3>2. UNCHANGED <<pc, on, tok>> BY <2>1 DEF Elsewhere
    <3> QED BY <1>0, <2>2, <3>1, <3>2 DEF Carried, Orphaned
  <2>3. row \in [Rows -> Row] BY DEF TypeOK
  <2>4. CASE row'[r] = row[r]
    BY <1>0, <2>2, <2>4 DEF Unfinished
  <2>5. ASSUME NEW s \in Rows, row' = [row EXCEPT ![s].status = "pending"]
        PROVE  row'[r] = row[r]
    BY <1>0, <2>3, <2>5 DEF Unfinished, Row
  <2>6. ASSUME NEW s \in Rows,
               row' = [row EXCEPT ![s].age = @ + 1] \/ LeaseLapse(s)
        PROVE  Orphaned(r)
    <3>1. /\ row'[r].status = row[r].status /\ row'[r].err = row[r].err
          /\ row'[r].token = row[r].token
      BY <2>3, <2>6 DEF LeaseLapse, Row
    <3> QED BY <1>0, <2>2, <3>1 DEF Unfinished
  <2>7. ASSUME NEW s \in Rows, Lands(s, CloseRequest) PROVE row'[r] = row[r]
    BY <1>0, <2>3, <2>7
       DEF Unfinished, Lands, Finalize, Written, Admits, CloseRequest,
           FailureRequest, Row
  <2>8. ASSUME NEW m \in late, late' = late \ {m}, Lands(m[1], m[2])
        PROVE  Orphaned(r) \/ LateClaim(r)
    <3>1. CASE m[2].status # "in_progress"
      <4>1. ~Waiting(r)
        <5>1. queue[r] > 0 => queue'[r] > 0 BY <1>2, QueueGrows
        <5>2. UNCHANGED <<pc, on>> BY <2>1 DEF Elsewhere
        <5> QED BY <1>0, <5>1, <5>2 DEF Waiting, Carried, Holding
      <4> QED BY <1>0, <2>4, <2>8, <3>1, <4>1, LateDrops
    <3>2. CASE m[2].status = "in_progress" /\ m[1] = r
      BY <2>8, <3>2 DEF LateClaim
    <3>3. CASE m[1] # r
      BY <2>3, <2>4, <2>8, <3>3 DEF Lands, TypeOK
    <3> QED BY <3>1, <3>2, <3>3
  <2> QED BY <2>1, <2>4, <2>5, <2>6, <2>7, <2>8 DEF Elsewhere
<1> QED BY <1>1, <1>2

-----------------------------------------------------------------------------
(* The theorems *)

(* A failure in flight that would still be admitted finds the message of   *)
(* its row waiting: the strengthened invariant holds of every behaviour.   *)
THEOREM LateFailureCarried == Spec => []WInv
<1>1. Init => WInv
  <2> SUFFICES ASSUME Init PROVE WInv OBVIOUS
  <2>1. IInv BY InvInit
  <2>2. late = {} BY DEF Init
  <2> QED BY <2>1, <2>2 DEF WInv, FlightInv
<1> QED BY <1>1, FlightStep, PTL DEF Spec

(* No step leaves unfinished work without a copy of its message, except a  *)
(* claim that lands late.                                                  *)
THEOREM NoWorkDropped == Spec => WorkNotDropped
<1>1. WInv /\ [Next]_vars => [NothingDropped]_vars
  BY DropStep
<1> QED BY <1>1, LateFailureCarried, PTL DEF Spec, WorkNotDropped

(* Where no request outlives its sender, no row is ever left in progress,  *)
(* or failed and to be retried, without a message that will finish it:     *)
(* what the sweep, which reads pending rows only, takes for granted.       *)
THEOREM NoOrphans ==
    ASSUME MaxLate = 0
    PROVE  Spec => [](\A r \in Rows : ~Orphaned(r))
<1> DEFINE J == late = {} /\ \A r \in Rows : ~Orphaned(r)
<1>1. Init => J
  BY DEF Init, Orphaned, Unfinished, AbsentRow
<1>2. WInv /\ J /\ [Next]_vars => J'
  <2> SUFFICES ASSUME WInv, J, [Next]_vars PROVE J'
    OBVIOUS
  <2>1. Cardinality(late) = 0
    BY FS_EmptySet
  <2>2. ASSUME NEW w \in Workers, WorkerStep(w) PROVE late' = {}
    BY <2>1, <2>2
       DEF WorkerStep, Deliver, GateSkips, GateOpens, SkipWritten, SkipRaises,
           ClaimAnswered, ClaimResent, ClaimRaises, OpReturns, OpRaises,
           SuccessAnswered, SuccessRaises, FailureAnswered, FailureRaises,
           Cancel, Crash, Write, Raises
  <2>3. ASSUME Elsewhere PROVE late' = {}
    BY <2>1, <2>3 DEF Elsewhere, LeaseLapse
  <2>4. late' = {}
    BY <2>2, <2>3, ElsewhereShape DEF WInv, IInv
  <2>5. NothingDropped BY DropStep
  <2>6. \A r \in Rows : ~Orphaned(r)'
    BY <2>5 DEF NothingDropped, LateClaim
  <2> QED BY <2>4, <2>6
<1>3. Spec => []J
  BY <1>1, <1>2, LateFailureCarried, PTL DEF Spec
<1> QED BY <1>3, PTL

(* A request under the token of the claim on the row, answered, is         *)
(* admitted: it renews the claim or closes the row.                        *)
LEMMA OwnAdmitted ==
    ASSUME NEW a \in Row, NEW t \in Tokens, a.status = "in_progress",
           a.token = t, NEW q \in Request, q.token = t
    PROVE  Admits(a, q) /\ Finalize(a, q).status = q.status
BY TokensAssumption DEF Finalize, Written, Admits, Row, Request

(* No delivery that ends without a fault leaves its own claim behind. *)
LEMMA LeavesNothing ==
    ASSUME IInv, NEW w \in Workers, WorkerStep(w), pc[w] # "idle",
           pc'[w] = "idle", tok[w] # NoToken, faults' = faults
    PROVE  ~(row'[on[w]].status = "in_progress" /\ row'[on[w]].token = tok[w])
<1> USE DEF IInv
<1>0. /\ on[w] \in Rows /\ row \in [Rows -> Row] /\ row[on[w]] \in Row
      /\ tok[w] \in Tokens /\ faults \in Nat /\ pc \in [Workers -> Phases]
  BY DEF TypeOK
<1>f. ~Fault BY <1>0 DEF Fault
<1>c. ASSUME NEW q \in Request, q.token = tok[w], q.status # "in_progress",
             row' = [row EXCEPT ![on[w]] = Finalize(@, q)]
      PROVE  ~(row'[on[w]].status = "in_progress" /\ row'[on[w]].token = tok[w])
  <2>1. row'[on[w]] = Finalize(row[on[w]], q) BY <1>0, <1>c
  <2>2. CASE row[on[w]].status = "in_progress" /\ row[on[w]].token = tok[w]
    BY <1>0, <1>c, <2>1, <2>2, OwnAdmitted
  <2>3. CASE ~(row[on[w]].status = "in_progress" /\ row[on[w]].token = tok[w])
    BY <1>0, <1>c, <2>1, <2>3 DEF Finalize, Written, Row, Request
  <2> QED BY <2>2, <2>3
<1>r. /\ ClaimRequest(tok[w]) \in Request /\ ClaimRequest(tok[w]).token = tok[w]
      /\ SuccessRequest(tok[w]) \in Request /\ OpFailure(w) \in Request
      /\ SuccessRequest(tok[w]).token = tok[w] /\ OpFailure(w).token = tok[w]
      /\ SuccessRequest(tok[w]).status = "success" /\ OpFailure(w).status = "failure"
  BY <1>0, SentTypes DEF ClaimRequest, SuccessRequest, OpFailure, FailureRequest
<1>1. CASE ClaimAnswered(w)
  <2>1. Outcome(row[on[w]], ClaimRequest(tok[w])) # "updated"
    BY <1>0, <1>1 DEF ClaimAnswered, Goto, Ack, Nack, Outcome
  <2>2. ~Admits(row[on[w]], ClaimRequest(tok[w])) BY <2>1 DEF Outcome
  <2>3. row'[on[w]] = row[on[w]]
    BY <1>0, <1>1, <2>2 DEF ClaimAnswered, Write, Finalize
  <2> QED BY <1>0, <1>r, <2>2, <2>3, OwnAdmitted
<1>2. CASE SuccessAnswered(w)
  BY <1>2, <1>c, <1>r DEF SuccessAnswered, Write
<1>3. CASE FailureAnswered(w)
  BY <1>3, <1>c, <1>r DEF FailureAnswered, Write
<1>4. CASE SkipWritten(w) \/ SkipRaises(w)
  BY <1>4 DEF SkipWritten, SkipRaises, TokenInv, Holding
<1>5. CASE \/ GateSkips(w) \/ GateOpens(w) \/ OpReturns(w) \/ OpRaises(w)
           \/ ClaimResent(w) \/ \E r \in Rows : Deliver(w, r)
  BY <1>0, <1>5
     DEF GateSkips, GateOpens, OpReturns, OpRaises, ClaimResent, Deliver, Goto,
         invocation
<1>6. CASE \/ ClaimRaises(w) \/ SuccessRaises(w) \/ FailureRaises(w)
           \/ Cancel(w) \/ Crash(w)
  BY <1>6, <1>f DEF ClaimRaises, SuccessRaises, FailureRaises, Cancel, Crash, Raises
<1> QED BY <1>1, <1>2, <1>3, <1>4, <1>5, <1>6 DEF WorkerStep

(* A delivery that ends without a fault leaves no claim of its own on the  *)
(* row: an answered claim that was sent twice is not its own competitor.   *)
THEOREM NoClaimLeft == Spec => NoClaimLeftBehind
<1>1. ASSUME IInv, [Next]_vars PROVE NothingLeft
  <2> SUFFICES ASSUME NEW w \in Workers, pc[w] # "idle", pc'[w] = "idle",
                      tok[w] # NoToken, faults' = faults
               PROVE  ~(row'[on[w]].status = "in_progress"
                        /\ row'[on[w]].token = tok[w])
    BY DEF NothingLeft
  <2>1. PICK v \in Workers : WorkerStep(v)
    BY <1>1, ElsewhereShape DEF Elsewhere, IInv
  <2>2. v = w BY <1>1, <2>1, WorkerShape DEF Others, IInv
  <2> QED BY <2>1, <2>2, <1>1, LeavesNothing
<1>2. IInv /\ [Next]_vars => [NothingLeft]_vars BY <1>1
<1> QED BY <1>2, Inductive, PTL DEF Spec, NoClaimLeftBehind
=============================================================================

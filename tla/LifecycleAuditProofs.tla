------------------------ MODULE LifecycleAuditProofs ------------------------
(***************************************************************************)
(* Proofs about LifecycleAudit, for any rows, workers, tokens and bounds:  *)
(* type correctness, the claim protocol's safety (ExclusiveRun,            *)
(* ClaimStands, ResultIsHolders, NoSilentDuplicate, SkipBackedByRun) from  *)
(* one inductive invariant, and the finality of success.                   *)
(***************************************************************************)
EXTENDS LifecycleAudit, TLAPS

-----------------------------------------------------------------------------
(* The inductive invariant *)

(* An invocation has a token from its claim on, nobody else has it, and    *)
(* only a row it was delivered carries it.                                 *)
TokenInv ==
    /\ \A w \in Workers : /\ tok[w] # NoToken <=> pc[w] \in Holding \cup {"claim"}
                          /\ pc[w] \notin Holding => w \notin lapsed
    /\ \A v, w \in Workers : v # w /\ tok[v] = tok[w] => tok[w] = NoToken

(* What may be in flight: the four requests of a consumer and the sweep's  *)
(* close.  The only one of an invocation that has not ended is a success   *)
(* it is still retrying.                                                   *)
LateInv ==
    \A m \in late :
        /\ \/ m[2] \in {SkipRequest, CloseRequest}
           \/ /\ m[2].token \in Tokens
              /\ \/ m[2] = ClaimRequest(m[2].token)
                 \/ m[2] = SuccessRequest(m[2].token)
                 \/ m[2].status = "failure" /\ m[2].stats \in {"none", "terminal"}
        /\ \A w \in Workers :
              tok[w] # NoToken /\ m[2].token = tok[w]
              => m[2].status = "success" /\ m[1] = on[w] /\ pc[w] = "finish"

(* A row that was claimed keeps a token for good; whoever may close it     *)
(* with a count relies on that.                                            *)
ClaimedInv ==
    /\ \A w \in Workers : pc[w] \in Holding => row[on[w]].token \in Tokens
    /\ \A m \in late : m[2].status = "success" /\ m[2].token \in Tokens
                       => row[m[1]].token \in Tokens

(* A success carries a real count under the claim on the row, or is a skip;*)
(* only a success reads skipped, only a claimed row has a count.           *)
ResultInv ==
    \A r \in Rows :
        /\ row[r].status = "success"
           => \/ row[r].stats = "skipped"
              \/ row[r].stats = row[r].token /\ row[r].token \in Tokens
        /\ row[r].stats \in Tokens \cup {"skipped"} => row[r].status = "success"

(* Once a successful run of the row was acked without a report, the row is *)
(* closed and no invocation still open holds the claim on it.              *)
AckedInv ==
    \A r \in Rows :
        \/ acked[r] = 0
        \/ /\ acked[r] = 1
           /\ row[r].status = "success" /\ row[r].token \in Tokens
           /\ \A w \in Workers :
                 pc[w] \in Holding /\ on[w] = r => tok[w] # row[r].token

(* In table t, a real run closed some row with the key of r. *)
RealSuccess(t, r) ==
    \E q \in Rows : /\ Key[q] = Key[r]
                    /\ t[q].status = "success"
                    /\ t[q].stats \in Tokens

(* Who is about to write a skip, now or late, saw a real run.  (The row    *)
(* itself may be that run: then the skip is refused.)                      *)
SkipInv ==
    /\ \A w \in Workers : pc[w] = "skip" => RealSuccess(row, on[w])
    /\ \A m \in late : m[2] = SkipRequest => RealSuccess(row, m[1])
    /\ \A r \in Rows : row[r].stats = "skipped" => RealSuccess(row, r)

IInv ==
    /\ TypeOK
    /\ TokenInv
    /\ LateInv
    /\ ClaimedInv
    /\ ClaimStands
    /\ ResultInv
    /\ AckedInv
    /\ SkipInv

-----------------------------------------------------------------------------
(* What one PATCH does to a row *)

(* Storage keeps the row's type and leaves its age alone. *)
LEMMA FinalizeType ==
    ASSUME NEW a \in Row, NEW q \in Request
    PROVE  Finalize(a, q) \in Row /\ Finalize(a, q).age = a.age
<1> DEFINE token == IF q.status = "in_progress" THEN q.token ELSE a.token
           live == IF q.status = "in_progress" THEN TRUE ELSE a.live
           stats == IF q.stats # "none" THEN q.stats ELSE a.stats
           err == IF q.status = "success" THEN "none"
                  ELSE IF q.err # "none" THEN q.err ELSE a.err
<1>1. q.status \in {"absent", "pending", "in_progress", "success", "failure"}
      /\ token \in Tokens \cup {NoToken} /\ stats \in Stats
  BY DEF Row, Request
<1>2. live \in BOOLEAN
  BY DEF Row
<1>3. err \in Errors
  BY DEF Row, Request, Errors
<1>4. Written(a, q) = [a EXCEPT !.status = q.status, !.token = token,
                                !.live = live, !.stats = stats, !.err = err]
  BY DEF Written
<1> HIDE DEF token, live, stats, err
<1>5. Written(a, q) \in Row /\ Written(a, q).age = a.age
  BY <1>1, <1>2, <1>3, <1>4 DEF Row
<1> QED BY <1>5 DEF Finalize

(* The requests of the consumer are requests. *)
LEMMA RequestTypes ==
    ASSUME NEW t \in Tokens
    PROVE  /\ ClaimRequest(t) \in Request
           /\ SuccessRequest(t) \in Request
           /\ SkipRequest \in Request
           /\ FailureRequest(t, "none", "transient") \in Request
           /\ FailureRequest(t, "terminal", "permanent") \in Request
           /\ FailureRequest(t, "none", "interrupted") \in Request
BY DEF ClaimRequest, SuccessRequest, SkipRequest, FailureRequest, Request,
       Stats, Errors

(* The requests that name no token are requests too. *)
LEMMA TokenlessTypes ==
    /\ SkipRequest \in Request
    /\ CloseRequest \in Request
    /\ CloseRequest.status = "failure" /\ CloseRequest.stats = "none"
    /\ CloseRequest.token = NoToken
BY DEF SkipRequest, CloseRequest, FailureRequest, Request, Stats, Errors

(* Whatever is written, a successful row stays as it is. *)
LEMMA FinalizeSuccess ==
    ASSUME NEW a, NEW q, a.status = "success"
    PROVE  Finalize(a, q) = a
BY DEF Finalize, Admits

(* Nobody but the holder takes a live claim away. *)
LEMMA FinalizeLiveClaim ==
    ASSUME NEW a \in Row, a.status = "in_progress", a.live, a.token # NoToken,
           NEW q \in Request, q.token # NoToken, q.token # a.token
    PROVE  Finalize(a, q) = a
BY DEF Finalize, Admits, Row, Request

(* A claim refused leaves the row alone; granted, it stands. *)
LEMMA FinalizeClaim ==
    ASSUME NEW a \in Row, NEW t \in Tokens
    PROVE  LET b == Finalize(a, ClaimRequest(t)) IN
           IF Admits(a, ClaimRequest(t))
           THEN /\ b.status = "in_progress" /\ b.token = t /\ b.live
                /\ b.stats = a.stats /\ a.status # "success"
           ELSE b = a
BY DEF Finalize, Written, Admits, ClaimRequest, Row

(* A count is written only under the claim on the row. *)
LEMMA FinalizeCount ==
    ASSUME NEW a \in Row, NEW t \in Tokens, a.token \in Tokens
    PROVE  LET b == Finalize(a, SuccessRequest(t)) IN
           IF Admits(a, SuccessRequest(t))
           THEN /\ b.status = "success" /\ b.token = t /\ a.token = t
                /\ b.stats = t /\ a.status # "success"
           ELSE b = a /\ (a.status = "success" \/ a.token # t)
BY TokensAssumption DEF Finalize, Written, Admits, SuccessRequest, Row

(* A skip closes any row not yet successful and keeps its claim token. *)
LEMMA FinalizeSkip ==
    ASSUME NEW a \in Row
    PROVE  LET b == Finalize(a, SkipRequest) IN
           IF a.status = "success"
           THEN b = a
           ELSE b.status = "success" /\ b.token = a.token /\ b.stats = "skipped"
BY DEF Finalize, Written, Admits, SkipRequest, Row

(* A failure names no count; it keeps the token. *)
LEMMA FinalizeFailure ==
    ASSUME NEW a \in Row, NEW q \in Request, q.status = "failure",
           q.stats \in {"none", "terminal"}
    PROVE  LET b == Finalize(a, q) IN
           \/ b = a
           \/ /\ b.status = "failure" /\ b.token = a.token
              /\ b.stats \in {a.stats, "terminal"} /\ a.status # "success"
BY DEF Finalize, Written, Admits, Row, Request

(* The token minted is nobody's. *)
LEMMA NewTokenFresh ==
    ASSUME Tokens \ UsedTokens # {}
    PROVE  NewToken \in Tokens /\ NewToken \notin UsedTokens
BY DEF NewToken
-----------------------------------------------------------------------------
(* Type correctness *)

(* The initial state is well typed. *)
LEMMA TypeInit == Init => TypeOK
BY BoundsAssumption DEF Init, TypeOK, AbsentRow, Row, Stats, Errors, Phases

(* Applying any request to any row keeps the table's type. *)
LEMMA WriteType ==
    ASSUME row \in [Rows -> Row], NEW r \in Rows, NEW q \in Request
    PROVE  [row EXCEPT ![r] = Finalize(@, q)] \in [Rows -> Row]
BY FinalizeType

(* The requests an invocation can send. *)
LEMMA SentTypes ==
    ASSUME TypeOK, NEW w \in Workers, tok[w] \in Tokens
    PROVE  /\ ClaimRequest(tok[w]) \in Request
           /\ SuccessRequest(tok[w]) \in Request
           /\ FailureRequest(tok[w], "none", "interrupted") \in Request
           /\ OpFailure(w) \in Request
BY RequestTypes DEF OpFailure

(* Every step keeps the types of all variables.  The tokens an invocation  *)
(* sends are tokens because TokenInv says when it has one.                 *)
LEMMA TypeStep == TypeOK /\ TokenInv /\ [Next]_vars => TypeOK'
<1> SUFFICES ASSUME TypeOK, TokenInv, [Next]_vars PROVE TypeOK'
    OBVIOUS
<1> USE RowsAssumption, BoundsAssumption DEF invocation, history
<1>a. ASSUME NEW w \in Workers, pc[w] \in Holding \cup {"claim"}
      PROVE  /\ tok[w] \in Tokens
             /\ ClaimRequest(tok[w]) \in Request
             /\ SuccessRequest(tok[w]) \in Request
             /\ FailureRequest(tok[w], "none", "interrupted") \in Request
             /\ OpFailure(w) \in Request
  <2>1. tok[w] \in Tokens
    BY <1>a DEF TypeOK, TokenInv
  <2> QED BY <2>1, SentTypes
<1>e. ASSUME NEW w \in Workers, pc[w] # "idle", Ack(w) \/ Nack(w)
      PROVE  /\ pc' \in [Workers -> Phases]
             /\ on' \in [Workers -> Rows \cup {0}]
             /\ \A v \in Workers : pc'[v] # "idle" => on'[v] \in Rows
             /\ tok' \in [Workers -> Tokens \cup {NoToken}]
             /\ tries' \in [Workers -> 0..SuccessRetries]
             /\ lapsed' \in SUBSET Workers
             /\ queue' \in [Rows -> Nat]
  BY <1>e DEF TypeOK, Ack, Nack, End, Enqueue, Phases
<1>w. ASSUME NEW r \in Rows, NEW q \in Request, Write(r, q) \/ Raises(r, q)
      PROVE  row' \in [Rows -> Row] /\ late' \in SUBSET (Rows \X Request)
  BY <1>w, WriteType DEF TypeOK, Write, Raises
<1>o. ASSUME NEW r, NEW q, lapsed' = lapsed \cup Overruled(r, q)
      PROVE  lapsed' \in SUBSET Workers
  BY <1>o DEF Overruled, Holders, TypeOK
<1>f. ASSUME Fault \/ NoFault PROVE faults' \in Nat
  BY <1>f DEF Fault, NoFault, TypeOK
<1>1. ASSUME NEW r \in Rows, RowStep(r) PROVE TypeOK'
  <2>1. CASE AuditBegin(r)
    <3>1. [row[r] EXCEPT !.status = "pending"] \in Row
      BY DEF TypeOK, Row
    <3>2. row' = [row EXCEPT ![r] = [row[r] EXCEPT !.status = "pending"]]
      BY <2>1 DEF AuditBegin
    <3>3. row' \in [Rows -> Row]
      BY <3>1, <3>2 DEF TypeOK
    <3> QED BY <2>1, <3>3 DEF AuditBegin, invocation, history, TypeOK
  <2>2. CASE Publish(r)
    BY <2>2 DEF Publish, Enqueue, TypeOK
  <2>3. CASE PublishLost(r)
    BY <2>3, <1>f DEF PublishLost, TypeOK
  <2>4. CASE Republish(r)
    BY <2>4 DEF Republish, Enqueue, TypeOK
  <2>5. CASE FailUnknownAction(r)
    BY <2>5, <1>w, <1>o, TokenlessTypes DEF FailUnknownAction, TypeOK
  <2>6. CASE SweepRowFails(r)
    <3>1. faults' \in Nat BY <2>6, <1>f DEF SweepRowFails, Raises
    <3>2. row' \in [Rows -> Row] /\ late' \in SUBSET (Rows \X Request)
      BY <2>6, <1>w, TokenlessTypes DEF SweepRowFails, TypeOK
    <3> QED BY <2>6, <3>1, <3>2 DEF SweepRowFails, TypeOK
  <2>7. CASE Duplicate(r)
    BY <2>7, <1>f DEF Duplicate, Enqueue, TypeOK
  <2>8. CASE LeaseLapse(r)
    <3>1. row \in [Rows -> Row] /\ row' = [row EXCEPT ![r].live = FALSE]
      BY <2>8 DEF LeaseLapse, TypeOK
    <3>2. [row[r] EXCEPT !.live = FALSE] \in Row BY <3>1 DEF Row
    <3>3. row' \in [Rows -> Row] BY <3>1, <3>2
    <3>4. lapsed' \in SUBSET Workers BY <2>8 DEF LeaseLapse, Holders, TypeOK
    <3> QED BY <2>8, <3>3, <3>4 DEF LeaseLapse, TypeOK
  <2>9. CASE Age(r)
    <3>1. row[r].age \in {0, 1} BY <2>9 DEF Age, TypeOK, Row
    <3> QED BY <3>1, <2>9 DEF Age, TypeOK, Row
  <2> QED BY <1>1, <2>1, <2>2, <2>3, <2>4, <2>5, <2>6, <2>7, <2>8, <2>9
          DEF RowStep
<1>2. CASE SweepList
  BY <1>2, KindsAssumption DEF SweepList, ListStranded, Stranded, TypeOK
<1>3. ASSUME NEW w \in Workers, WorkerStep(w) PROVE TypeOK'
  <2>d. pc[w] # "idle" => on[w] \in Rows
    BY DEF TypeOK
  <2>1. ASSUME NEW r \in Rows, Deliver(w, r) PROVE TypeOK'
    BY <2>1 DEF Deliver, TypeOK, Phases
  <2>2. CASE GateSkips(w)
    BY <2>2 DEF GateSkips, Goto, TypeOK, Phases
  <2>3. CASE GateOpens(w)
    <3>1. NewToken \in Tokens BY <2>3, NewTokenFresh DEF GateOpens
    <3>2. faults' \in Nat BY <2>3, <1>f DEF GateOpens
    <3> QED BY <2>3, <3>1, <3>2 DEF GateOpens, TypeOK, Phases
  <2>4. CASE SkipWritten(w) \/ SkipRaises(w)
    <3>1. pc[w] # "idle" BY <2>4 DEF SkipWritten, SkipRaises
    <3>2. faults' \in Nat BY <2>4, <1>f DEF SkipWritten, SkipRaises, Raises, NoFault
    <3>3. row' \in [Rows -> Row] /\ late' \in SUBSET (Rows \X Request)
      BY <2>4, <2>d, <3>1, <1>w, TokenlessTypes DEF SkipWritten, SkipRaises
    <3> QED BY <2>4, <3>1, <3>2, <3>3, <1>e DEF SkipWritten, SkipRaises, TypeOK
  <2>5. CASE ClaimAnswered(w) \/ ClaimResent(w) \/ ClaimRaises(w)
    <3>1. pc[w] = "claim" BY <2>5 DEF ClaimAnswered, ClaimResent, ClaimRaises
    <3>2. faults' \in Nat
      BY <2>5, <1>f DEF ClaimAnswered, ClaimResent, ClaimRaises, Raises, NoFault
    <3>3. row' \in [Rows -> Row] /\ late' \in SUBSET (Rows \X Request)
      BY <2>5, <2>d, <3>1, <1>w, <1>a DEF ClaimAnswered, ClaimResent, ClaimRaises
    <3>4. CASE ClaimAnswered(w)
      <4>1. CASE Ack(w) \/ Nack(w)
        BY <3>4, <3>1, <3>2, <3>3, <4>1, <1>e DEF ClaimAnswered, TypeOK
      <4>2. CASE Goto(w, "run") /\ UNCHANGED <<tries, lapsed>>
        BY <3>4, <3>1, <3>2, <3>3, <4>2 DEF ClaimAnswered, Goto, TypeOK, Phases
      <4> QED BY <3>4, <4>1, <4>2 DEF ClaimAnswered
    <3>5. CASE ClaimResent(w)
      BY <3>5, <3>2, <3>3 DEF ClaimResent, TypeOK
    <3>6. CASE ClaimRaises(w)
      BY <3>6, <3>1, <3>2, <3>3, <1>e DEF ClaimRaises, TypeOK
    <3> QED BY <2>5, <3>4, <3>5, <3>6
  <2>6. CASE OpReturns(w)
    BY <2>6 DEF OpReturns, Goto, TypeOK, Phases
  <2>7. CASE OpRaises(w)
    <3>1. faults' \in Nat BY <2>7, <1>f DEF OpRaises
    <3> QED BY <2>7, <3>1 DEF OpRaises, Goto, TypeOK, Phases
  <2>8. CASE SuccessAnswered(w) \/ SuccessRaises(w)
    <3>1. pc[w] = "finish" BY <2>8 DEF SuccessAnswered, SuccessRaises
    <3>2. faults' \in Nat
      BY <2>8, <1>f DEF SuccessAnswered, SuccessRaises, Raises, NoFault
    <3>3. row' \in [Rows -> Row] /\ late' \in SUBSET (Rows \X Request)
      BY <2>8, <2>d, <3>1, <1>w, <1>a DEF SuccessAnswered, SuccessRaises, Holding
    <3>4. CASE SuccessAnswered(w)
      <4>1. on[w] \in Rows /\ acked \in [Rows -> Nat] BY <2>d, <3>1 DEF TypeOK
      <4>2. \/ acked' = acked
            \/ acked' = [acked EXCEPT ![on[w]] = @ + 1]
        BY <3>4 DEF SuccessAnswered
      <4>3. acked' \in [Rows -> Nat] BY <4>1, <4>2
      <4> QED BY <3>4, <3>1, <3>2, <3>3, <4>3, <1>e DEF SuccessAnswered, TypeOK
    <3>5. CASE SuccessRaises(w)
      <4>1. CASE Nack(w)
        BY <3>5, <3>1, <3>2, <3>3, <4>1, <1>e DEF SuccessRaises, TypeOK
      <4>2. CASE /\ DelaysLeft(w)
                 /\ tries' = [tries EXCEPT ![w] = @ + 1]
                 /\ UNCHANGED <<pc, on, tok, queue, lapsed>>
        BY <3>5, <3>2, <3>3, <4>2 DEF SuccessRaises, DelaysLeft, TypeOK
      <4> QED BY <3>5, <4>1, <4>2 DEF SuccessRaises
    <3> QED BY <2>8, <3>4, <3>5
  <2>9. CASE FailureAnswered(w) \/ FailureRaises(w)
    <3>1. pc[w] \in {"fail_transient", "fail_permanent"}
      BY <2>9 DEF FailureAnswered, FailureRaises
    <3>2. faults' \in Nat
      BY <2>9, <1>f DEF FailureAnswered, FailureRaises, Raises, NoFault
    <3>3. row' \in [Rows -> Row] /\ late' \in SUBSET (Rows \X Request)
      BY <2>9, <2>d, <3>1, <1>w, <1>a DEF FailureAnswered, FailureRaises, Holding
    <3> QED BY <2>9, <3>1, <3>2, <3>3, <1>e DEF FailureAnswered, FailureRaises, TypeOK
  <2>10. CASE Cancel(w)
    <3>1. pc[w] \in {"run", "finish"} BY <2>10 DEF Cancel
    <3>2. faults' \in Nat BY <2>10, <1>f DEF Cancel, Raises
    <3>3. row' \in [Rows -> Row] /\ late' \in SUBSET (Rows \X Request)
      BY <2>10, <2>d, <3>1, <1>w, <1>a DEF Cancel, Holding
    <3> QED BY <2>10, <3>1, <3>2, <3>3, <1>e DEF Cancel, TypeOK
  <2>11. CASE Crash(w)
    BY <2>11, <1>e, <1>f DEF Crash, TypeOK
  <2> QED BY <1>3, <2>1, <2>2, <2>3, <2>4, <2>5, <2>6, <2>7, <2>8, <2>9,
             <2>10, <2>11 DEF WorkerStep
<1>4. ASSUME NEW m \in late, LateLands(m) PROVE TypeOK'
  <2>1. m[1] \in Rows /\ m[2] \in Request BY DEF TypeOK
  <2>2. row' \in [Rows -> Row] BY <1>4, <2>1, WriteType DEF LateLands, TypeOK
  <2>3. lapsed' \in SUBSET Workers BY <1>4, <1>o DEF LateLands
  <2> QED BY <1>4, <2>2, <2>3 DEF LateLands, TypeOK
<1>5. CASE UNCHANGED vars
  BY <1>5 DEF vars, TypeOK
<1> QED BY <1>1, <1>2, <1>3, <1>4, <1>5 DEF Next

-----------------------------------------------------------------------------
(* The shape of a step *)

(* What an invocation may have sent to storage in its present phase. *)
Sent(w) ==
    {q \in Request :
        \/ pc[w] = "skip" /\ q = SkipRequest
        \/ pc[w] = "claim" /\ q = ClaimRequest(tok[w])
        \/ pc[w] = "finish" /\ q = SuccessRequest(tok[w])
        \/ /\ pc[w] \in Holding \ {"finish"}
           /\ q.status = "failure" /\ q.token = tok[w]
           /\ q.stats \in {"none", "terminal"}}

(* What a step of w does to the table and to the requests in flight. *)
Writes(w) ==
    \/ UNCHANGED <<row, late>>
    \/ \E q \in Sent(w) :
          /\ row' \in {row, [row EXCEPT ![on[w]] = Finalize(@, q)]}
          /\ late' \in {late, late \cup {<<on[w], q>>}}

(* How a step of w moves w. *)
SameClaim(w) == on'[w] = on[w] /\ tok'[w] = tok[w] /\ lapsed' = lapsed
Moves(w) ==
    \/ /\ pc[w] = "idle" /\ pc'[w] = "gate" /\ on'[w] \in Rows
       /\ tok'[w] = tok[w] /\ lapsed' = lapsed /\ UNCHANGED <<row, late>>
    \/ /\ pc[w] = "gate" /\ pc'[w] = "skip" /\ HasRecentSuccess(on[w])
       /\ SameClaim(w) /\ UNCHANGED <<row, late>>
    \/ /\ pc[w] = "gate" /\ pc'[w] = "claim" /\ on'[w] = on[w]
       /\ tok'[w] \in Tokens \ UsedTokens /\ lapsed' = lapsed
       /\ UNCHANGED <<row, late>>
    \/ /\ pc[w] # "idle" /\ pc'[w] = "idle" /\ tok'[w] = NoToken
       /\ lapsed' = lapsed \ {w}
    \/ /\ pc[w] = "claim" /\ pc'[w] = "claim" /\ SameClaim(w)
       /\ UNCHANGED late
    \/ /\ pc[w] = "claim" /\ pc'[w] = "run" /\ SameClaim(w)
       /\ Admits(row[on[w]], ClaimRequest(tok[w]))
       /\ row' = [row EXCEPT ![on[w]] = Finalize(@, ClaimRequest(tok[w]))]
       /\ UNCHANGED late
    \/ /\ pc[w] = "run" /\ pc'[w] \in Holding \ {"run"} /\ SameClaim(w)
       /\ UNCHANGED <<row, late>>
    \/ /\ pc[w] = "finish" /\ pc'[w] = "finish" /\ SameClaim(w)

Others(w) ==
    \A v \in Workers \ {w} : /\ pc'[v] = pc[v] /\ on'[v] = on[v]
                             /\ tok'[v] = tok[v]
                             /\ v \in lapsed' <=> v \in lapsed

(* Only a run that is acked unreported is counted, under its own success.  *)
Counts(w) ==
    \/ acked' = acked
    \/ /\ pc[w] = "finish" /\ pc'[w] = "idle"
       /\ acked' = [acked EXCEPT ![on[w]] = @ + 1]
       /\ row' = [row EXCEPT ![on[w]] = Finalize(@, SuccessRequest(tok[w]))]
       /\ Outcome(row[on[w]], SuccessRequest(tok[w])) # "claim_lost"

(* Every step of an invocation has this shape. *)
LEMMA WorkerShape ==
    ASSUME TypeOK, TokenInv, NEW w \in Workers, WorkerStep(w)
    PROVE  Writes(w) /\ Moves(w) /\ Others(w) /\ Counts(w)
<1> USE DEF invocation, history
<1>a. ASSUME pc[w] \in Holding \cup {"claim"}
      PROVE  /\ tok[w] \in Tokens
             /\ ClaimRequest(tok[w]) \in Request
             /\ SuccessRequest(tok[w]) \in Request
             /\ FailureRequest(tok[w], "none", "interrupted") \in Request
             /\ OpFailure(w) \in Request
  <2>1. tok[w] \in Tokens
    BY <1>a DEF TypeOK, TokenInv
  <2> QED BY <2>1, SentTypes
<1>w. ASSUME NEW q \in Sent(w), Write(on[w], q) \/ Raises(on[w], q)
      PROVE  Writes(w)
  BY <1>w DEF Writes, Write, Raises
<1>e. ASSUME pc[w] # "idle", Ack(w) \/ Nack(w)
      PROVE  Moves(w) /\ Others(w) /\ pc'[w] = "idle"
  BY <1>e DEF Ack, Nack, End, Moves, Others, TypeOK
<1>g. ASSUME NEW p, Goto(w, p), lapsed' = lapsed
      PROVE  Others(w) /\ pc'[w] = p /\ SameClaim(w)
  BY <1>g DEF Goto, Others, SameClaim, TypeOK
<1>1. ASSUME NEW r \in Rows, Deliver(w, r) PROVE Writes(w) /\ Moves(w) /\ Others(w) /\ Counts(w)
  BY <1>1 DEF Deliver, Writes, Moves, Others, Counts, TypeOK
<1>2. CASE GateSkips(w)
  BY <1>2, <1>g DEF GateSkips, Writes, Moves, Counts
<1>3. CASE GateOpens(w)
  <2>1. NewToken \in Tokens \ UsedTokens BY <1>3, NewTokenFresh DEF GateOpens
  <2> QED BY <1>3, <2>1 DEF GateOpens, Writes, Moves, Others, Counts, TypeOK
<1>4. CASE SkipWritten(w) \/ SkipRaises(w)
  <2>1. pc[w] = "skip" BY <1>4 DEF SkipWritten, SkipRaises
  <2>2. SkipRequest \in Sent(w) BY <2>1, TokenlessTypes DEF Sent
  <2> QED BY <1>4, <2>1, <2>2, <1>w, <1>e DEF SkipWritten, SkipRaises, Counts
<1>5. CASE ClaimAnswered(w) \/ ClaimResent(w) \/ ClaimRaises(w)
  <2>1. pc[w] = "claim" BY <1>5 DEF ClaimAnswered, ClaimResent, ClaimRaises
  <2>2. ClaimRequest(tok[w]) \in Sent(w) BY <2>1, <1>a DEF Sent
  <2>3. Writes(w) /\ Counts(w)
    BY <1>5, <2>2, <1>w DEF ClaimAnswered, ClaimResent, ClaimRaises, Counts, Write, Writes
  <2>4. CASE ClaimAnswered(w)
    <3>1. CASE Ack(w) \/ Nack(w)
      BY <2>1, <2>3, <3>1, <1>e
    <3>2. CASE /\ Outcome(row[on[w]], ClaimRequest(tok[w])) = "updated"
               /\ Goto(w, "run") /\ UNCHANGED <<tries, lapsed>>
      <4>1. Admits(row[on[w]], ClaimRequest(tok[w]))
        BY <3>2 DEF Outcome
      <4> QED BY <2>4, <2>1, <2>3, <3>2, <4>1, <1>g DEF ClaimAnswered, Write, Moves
    <3> QED BY <2>4, <3>1, <3>2 DEF ClaimAnswered
  <2>5. CASE ClaimResent(w)
    BY <2>5, <2>1, <2>3 DEF ClaimResent, Write, Moves, Others, SameClaim
  <2>6. CASE ClaimRaises(w)
    BY <2>6, <2>1, <2>3, <1>e DEF ClaimRaises
  <2> QED BY <1>5, <2>4, <2>5, <2>6
<1>6. CASE OpReturns(w)
  BY <1>6, <1>g DEF OpReturns, Writes, Moves, Counts, Holding
<1>7. CASE OpRaises(w)
  BY <1>7, <1>g DEF OpRaises, Writes, Moves, Counts, Holding
<1>8. CASE SuccessAnswered(w) \/ SuccessRaises(w)
  <2>1. pc[w] = "finish" BY <1>8 DEF SuccessAnswered, SuccessRaises
  <2>2. SuccessRequest(tok[w]) \in Sent(w) BY <2>1, <1>a DEF Sent, Holding
  <2>3. Writes(w)
    BY <1>8, <2>2, <1>w DEF SuccessAnswered, SuccessRaises
  <2>4. CASE SuccessAnswered(w)
    <3>1. Moves(w) /\ Others(w) /\ pc'[w] = "idle"
      BY <2>4, <2>1, <1>e DEF SuccessAnswered
    <3>2. Counts(w)
      BY <2>4, <2>1, <3>1 DEF SuccessAnswered, Counts, Write
    <3> QED BY <2>3, <3>1, <3>2
  <2>5. CASE SuccessRaises(w)
    <3>1. Counts(w) BY <2>5 DEF SuccessRaises, Counts
    <3>2. CASE Nack(w)
      BY <2>1, <2>3, <3>1, <3>2, <1>e
    <3>3. CASE UNCHANGED <<pc, on, tok, queue, lapsed>>
      BY <2>1, <2>3, <3>1, <3>3 DEF Moves, Others, SameClaim
    <3> QED BY <2>5, <3>2, <3>3 DEF SuccessRaises
  <2> QED BY <1>8, <2>4, <2>5
<1>9. CASE FailureAnswered(w) \/ FailureRaises(w)
  <2>1. pc[w] \in {"fail_transient", "fail_permanent"}
    BY <1>9 DEF FailureAnswered, FailureRaises
  <2>2. OpFailure(w) \in Sent(w)
    BY <2>1, <1>a DEF Sent, Holding, OpFailure, FailureRequest
  <2> QED BY <1>9, <2>1, <2>2, <1>w, <1>e DEF FailureAnswered, FailureRaises, Counts
<1>10. CASE Cancel(w)
  <2>1. pc[w] \in {"run", "finish"} BY <1>10 DEF Cancel
  <2>2. /\ pc[w] = "run" => FailureRequest(tok[w], "none", "interrupted") \in Sent(w)
        /\ pc[w] = "finish" => SuccessRequest(tok[w]) \in Sent(w)
    BY <2>1, <1>a DEF Sent, Holding, FailureRequest
  <2> QED BY <1>10, <2>1, <2>2, <1>w, <1>e DEF Cancel, Counts
<1>11. CASE Crash(w)
  BY <1>11, <1>e DEF Crash, Writes, Counts
<1> QED BY <1>1, <1>2, <1>3, <1>4, <1>5, <1>6, <1>7, <1>8, <1>9, <1>10, <1>11
        DEF WorkerStep

(* Request q is applied to row r for a sender that is no invocation. *)
Lands(r, q) ==
    /\ row' = [row EXCEPT ![r] = Finalize(@, q)]
    /\ lapsed' = lapsed \cup Overruled(r, q)

(* Every other step has this shape. *)
Elsewhere ==
    /\ UNCHANGED <<pc, on, tok, acked>>
    /\ \/ UNCHANGED <<row, late, lapsed>>
       \/ /\ UNCHANGED <<row, lapsed>> /\ Cardinality(late) < MaxLate
          /\ \E r \in Rows : late' = late \cup {<<r, CloseRequest>>}
       \/ /\ UNCHANGED <<late, lapsed>>
          /\ \E r \in Rows :
                \/ /\ row[r].status = "absent"
                   /\ row' = [row EXCEPT ![r].status = "pending"]
                \/ row' = [row EXCEPT ![r].age = @ + 1]
       \/ \E r \in Rows : Lands(r, CloseRequest) /\ late' = late
       \/ \E r \in Rows : LeaseLapse(r)
       \/ \E m \in late : Lands(m[1], m[2]) /\ late' = late \ {m}

(* Every step outside the invocations has this shape. *)
LEMMA ElsewhereShape ==
    ASSUME TypeOK, TokenInv, [Next]_vars
    PROVE  Elsewhere \/ \E w \in Workers : WorkerStep(w)
<1> USE DEF invocation, history
<1>1. ASSUME NEW r \in Rows, RowStep(r) PROVE Elsewhere
  <2>1. CASE Publish(r) \/ PublishLost(r) \/ Republish(r) \/ Duplicate(r)
    BY <2>1 DEF Publish, PublishLost, Republish, Duplicate, Elsewhere
  <2>2. CASE AuditBegin(r)
    BY <2>2 DEF AuditBegin, Elsewhere
  <2>3. CASE Age(r)
    BY <2>3 DEF Age, Elsewhere
  <2>4. CASE FailUnknownAction(r)
    BY <2>4 DEF FailUnknownAction, Write, Lands, Elsewhere
  <2>5. CASE LeaseLapse(r)
    BY <2>5 DEF LeaseLapse, Elsewhere
  <2>6. CASE SweepRowFails(r)
    BY <2>6 DEF SweepRowFails, Raises, Elsewhere
  <2> QED BY <1>1, <2>1, <2>2, <2>3, <2>4, <2>5, <2>6 DEF RowStep
<1>2. CASE SweepList
  BY <1>2 DEF SweepList, Elsewhere
<1>3. ASSUME NEW m \in late, LateLands(m) PROVE Elsewhere
  BY <1>3 DEF LateLands, Lands, Elsewhere
<1>4. CASE UNCHANGED vars
  BY <1>4 DEF vars, Elsewhere
<1> QED BY <1>1, <1>2, <1>3, <1>4 DEF Next

-----------------------------------------------------------------------------
(* The table only moves forward *)

(* A successful row keeps its result, a claimed row keeps having a claim.  *)
Forward ==
    \A r \in Rows :
        /\ row[r].status = "success"
           => /\ row'[r].status = "success" /\ row'[r].token = row[r].token
              /\ row'[r].stats = row[r].stats
        /\ row[r].token \in Tokens => row'[r].token \in Tokens

(* One statement moves a row forward. *)
LEMMA FinalizeForward ==
    ASSUME NEW a \in Row, NEW q \in Request,
           q.status = "in_progress" => q.token \in Tokens
    PROVE  /\ a.status = "success" => Finalize(a, q) = a
           /\ a.token \in Tokens => Finalize(a, q).token \in Tokens
BY DEF Finalize, Written, Admits, Row, Request

(* A request in flight claims only with a token; so does an invocation.    *)
LEMMA ClaimsNameToken ==
    ASSUME TypeOK, TokenInv, LateInv
    PROVE  /\ \A m \in late : m[2].status = "in_progress" => m[2].token \in Tokens
           /\ \A w \in Workers : \A q \in Sent(w) :
                 q.status = "in_progress" => q.token \in Tokens
<1>1. \A m \in late : m[2].status = "in_progress" => m[2].token \in Tokens
  BY TokenlessTypes DEF LateInv, SkipRequest
<1>2. ASSUME NEW w \in Workers, NEW q \in Sent(w), q.status = "in_progress"
      PROVE  q.token \in Tokens
  <2>1. q = ClaimRequest(tok[w]) /\ pc[w] = "claim"
    BY <1>2 DEF Sent, SkipRequest, SuccessRequest
  <2> QED BY <2>1 DEF ClaimRequest, TokenInv, TypeOK
<1> QED BY <1>1, <1>2

(* Every step moves the table forward. *)
LEMMA RowForward ==
    ASSUME TypeOK, TokenInv, LateInv, [Next]_vars
    PROVE  Forward
<1>f. ASSUME NEW r \in Rows, NEW q \in Request,
             q.status = "in_progress" => q.token \in Tokens,
             row' = [row EXCEPT ![r] = Finalize(@, q)]
      PROVE  Forward
  <2> SUFFICES ASSUME NEW s \in Rows
               PROVE  /\ row[s].status = "success" => row'[s] = row[s]
                      /\ row[s].token \in Tokens => row'[s].token \in Tokens
    BY DEF Forward
  <2>1. row \in [Rows -> Row] BY DEF TypeOK
  <2> QED BY <1>f, <2>1, FinalizeForward
<1>u. ASSUME row' = row PROVE Forward
  BY <1>u DEF Forward
<1>1. ASSUME NEW w \in Workers, WorkerStep(w) PROVE Forward
  <2>1. Writes(w) BY <1>1, WorkerShape
  <2>2. CASE row' # row
    <3>1. PICK q \in Sent(w) : row' = [row EXCEPT ![on[w]] = Finalize(@, q)]
      BY <2>1, <2>2 DEF Writes
    <3>2. q \in Request /\ on[w] \in Rows
      BY DEF Sent, TypeOK, Holding
    <3> QED BY <3>1, <3>2, <1>f, ClaimsNameToken
  <2> QED BY <2>2, <1>u
<1>2. CASE Elsewhere
  <2>1. ASSUME NEW r \in Rows, row[r].status = "absent",
               row' = [row EXCEPT ![r].status = "pending"]
        PROVE  Forward
    BY <2>1 DEF Forward, TypeOK, Row
  <2>2. ASSUME NEW r \in Rows, row' = [row EXCEPT ![r].age = @ + 1]
        PROVE  Forward
    BY <2>2 DEF Forward, TypeOK, Row
  <2>3. ASSUME NEW r \in Rows, Lands(r, CloseRequest) PROVE Forward
    BY <2>3, <1>f, TokenlessTypes DEF Lands
  <2>4. ASSUME NEW r \in Rows, LeaseLapse(r) PROVE Forward
    BY <2>4 DEF LeaseLapse, Forward, TypeOK, Row
  <2>5. ASSUME NEW m \in late, Lands(m[1], m[2]) PROVE Forward
    <3>1. m[1] \in Rows /\ m[2] \in Request BY DEF TypeOK
    <3> QED BY <2>5, <3>1, <1>f, ClaimsNameToken DEF Lands
  <2> QED BY <1>2, <1>u, <2>1, <2>2, <2>3, <2>4, <2>5 DEF Elsewhere
<1> QED BY <1>1, <1>2, ElsewhereShape

(* A real success of a key stays one. *)
LEMMA RealSuccessStays ==
    ASSUME Forward, NEW r \in Rows, RealSuccess(row, r)
    PROVE  RealSuccess(row', r)
BY DEF Forward, RealSuccess

-----------------------------------------------------------------------------
(* The inductive step, conjunct by conjunct *)

(* Every step keeps TokenInv: a token minted is nobody else's. *)
LEMMA TokenStep == ASSUME IInv, [Next]_vars PROVE TokenInv'
<1> USE DEF IInv
<1>1. ASSUME NEW w \in Workers, WorkerStep(w) PROVE TokenInv'
  <2> DEFINE Own(v) == /\ tok'[v] # NoToken <=> pc'[v] \in Holding \cup {"claim"}
                       /\ pc'[v] \notin Holding => v \notin lapsed'
  <2>1. Moves(w) /\ Others(w) BY <1>1, WorkerShape
  <2>2. ASSUME NEW v \in Workers, v # w PROVE Own(v)
    BY <2>1, <2>2 DEF Others, TokenInv
  <2>3. Own(w)
    BY <2>1, TokensAssumption DEF Moves, SameClaim, TokenInv, Holding
  <2>4. ASSUME NEW v \in Workers, v # w, tok'[v] = tok'[w]
        PROVE  tok'[w] = NoToken
    <3>1. tok'[v] = tok[v] BY <2>1, <2>4 DEF Others
    <3>2. tok'[w] \in {tok[w], NoToken} \/ tok'[w] \notin UsedTokens
      BY <2>1 DEF Moves, SameClaim
    <3>3. tok[v] \in UsedTokens BY DEF UsedTokens
    <3> QED BY <2>4, <3>1, <3>2, <3>3 DEF TokenInv
  <2>5. ASSUME NEW u \in Workers, NEW v \in Workers, u # v, u # w, v # w,
               tok'[u] = tok'[v]
        PROVE  tok'[v] = NoToken
    BY <2>1, <2>5 DEF Others, TokenInv
  <2>6. \A v \in Workers : Own(v) BY <2>2, <2>3
  <2>7. \A u, v \in Workers : u # v /\ tok'[u] = tok'[v] => tok'[v] = NoToken
    BY <2>4, <2>5
  <2> QED BY <2>6, <2>7 DEF TokenInv
<1>2. CASE Elsewhere
  <2>1. UNCHANGED <<pc, on, tok>> BY <1>2 DEF Elsewhere
  <2>2. \A w \in Workers : pc[w] \notin Holding => w \notin lapsed'
    BY <1>2 DEF Elsewhere, TokenInv, LeaseLapse, Lands, Overruled, Holders
  <2> QED BY <2>1, <2>2 DEF TokenInv
<1> QED BY <1>1, <1>2, ElsewhereShape

(* Every step keeps LateInv: who leaves a request behind has ended, or is  *)
(* retrying its success.                                                   *)
LEMMA LateStep == ASSUME IInv, [Next]_vars PROVE LateInv'
<1> USE DEF IInv
<1> DEFINE Kind(q) == \/ q \in {SkipRequest, CloseRequest}
                      \/ /\ q.token \in Tokens
                         /\ \/ q = ClaimRequest(q.token)
                            \/ q = SuccessRequest(q.token)
                            \/ /\ q.status = "failure"
                               /\ q.stats \in {"none", "terminal"}
           Open(m, v) == tok'[v] # NoToken /\ m[2].token = tok'[v]
                         => /\ m[2].status = "success" /\ m[1] = on'[v]
                            /\ pc'[v] = "finish"
<1>1. ASSUME NEW w \in Workers, WorkerStep(w) PROVE LateInv'
  <2>1. Writes(w) /\ Moves(w) /\ Others(w) BY <1>1, WorkerShape
  <2>2. ASSUME NEW m \in late PROVE Kind(m[2]) /\ \A v \in Workers : Open(m, v)
    <3>1. Kind(m[2]) BY DEF LateInv
    <3>2. ASSUME NEW v \in Workers, v # w PROVE Open(m, v)
      BY <2>1, <3>2 DEF Others, LateInv
    <3>3. m[2].token \in UsedTokens BY DEF UsedTokens
    <3>4. Open(m, w)
      BY <2>1, <3>3 DEF Moves, SameClaim, LateInv, TokenInv, Holding
    <3> QED BY <3>1, <3>2, <3>4
  <2>3. ASSUME NEW q \in Sent(w), late' = late \cup {<<on[w], q>>}
        PROVE  Kind(q) /\ \A v \in Workers : Open(<<on[w], q>>, v)
    <3>1. pc[w] \in Holding \cup {"claim"} => tok[w] \in Tokens
      BY DEF TokenInv, TypeOK
    <3>2. Kind(q)
      BY <3>1 DEF Sent, ClaimRequest, SuccessRequest, Holding
    <3>3. q.token = NoToken \/ q.token = tok[w]
      BY DEF Sent, SkipRequest, ClaimRequest, SuccessRequest
    <3>4. ASSUME NEW v \in Workers, v # w PROVE Open(<<on[w], q>>, v)
      BY <2>1, <3>3, <3>4 DEF Others, TokenInv
    <3>5. Open(<<on[w], q>>, w)
      <4>1. CASE late' = late
        BY <2>3, <2>2, <4>1
      <4>2. CASE late' # late
        <5>1. \/ pc'[w] = "idle" /\ tok'[w] = NoToken
              \/ pc[w] = "finish" /\ pc'[w] = "finish" /\ SameClaim(w)
          BY <2>1, <4>2 DEF Moves
        <5>2. pc[w] = "finish" => q.status = "success"
          BY DEF Sent, SuccessRequest
        <5> QED BY <5>1, <5>2 DEF SameClaim
      <4> QED BY <4>1, <4>2
    <3> QED BY <3>2, <3>4, <3>5
  <2>4. \A m \in late' : Kind(m[2]) /\ \A v \in Workers : Open(m, v)
    <3>1. CASE late' = late
      BY <2>2, <3>1
    <3>2. CASE late' # late
      <4>1. PICK q \in Sent(w) : late' = late \cup {<<on[w], q>>}
        BY <2>1, <3>2 DEF Writes
      <4>2. <<on[w], q>>[2] = q OBVIOUS
      <4> QED BY <2>2, <2>3, <4>1, <4>2
    <3> QED BY <3>1, <3>2
  <2> QED BY <2>4 DEF LateInv
<1>2. CASE Elsewhere
  <2>1. UNCHANGED <<pc, on, tok>> BY <1>2 DEF Elsewhere
  <2>2. \A m \in late' : m \in late \/ m[2] = CloseRequest
    BY <1>2 DEF Elsewhere, LeaseLapse
  <2> QED BY <2>1, <2>2, TokenlessTypes DEF LateInv
<1> QED BY <1>1, <1>2, ElsewhereShape

(* Every step keeps ClaimedInv: a token on a row is never erased. *)
LEMMA ClaimedStep == ASSUME IInv, [Next]_vars PROVE ClaimedInv'
<1> USE DEF IInv
<1>f. Forward BY RowForward
<1>1. ASSUME NEW w \in Workers, WorkerStep(w) PROVE ClaimedInv'
  <2>1. Writes(w) /\ Moves(w) /\ Others(w) BY <1>1, WorkerShape
  <2>2. ASSUME NEW v \in Workers, v # w, pc'[v] \in Holding
        PROVE  row'[on'[v]].token \in Tokens
    <3>1. pc[v] \in Holding /\ on'[v] = on[v] /\ on[v] \in Rows
      BY <2>1, <2>2 DEF Others, TypeOK, Holding
    <3> QED BY <3>1, <1>f DEF ClaimedInv, Forward
  <2>3. ASSUME pc'[w] \in Holding PROVE row'[on'[w]].token \in Tokens
    <3>0. on[w] \in Rows /\ on'[w] = on[w]
      BY <2>1, <2>3 DEF Moves, SameClaim, TypeOK, Holding
    <3>1. CASE pc[w] \in Holding
      BY <3>0, <3>1, <1>f DEF ClaimedInv, Forward
    <3>2. CASE pc[w] \notin Holding
      <4>1. /\ pc[w] = "claim" /\ Admits(row[on[w]], ClaimRequest(tok[w]))
            /\ row' = [row EXCEPT ![on[w]] = Finalize(@, ClaimRequest(tok[w]))]
        BY <2>1, <2>3, <3>2 DEF Moves, Holding
      <4>2. tok[w] \in Tokens BY <4>1 DEF TokenInv, TypeOK
      <4> QED BY <3>0, <4>1, <4>2, FinalizeClaim DEF TypeOK
    <3> QED BY <3>1, <3>2
  <2>4. ASSUME NEW m \in late', m[2].status = "success", m[2].token \in Tokens
        PROVE  row'[m[1]].token \in Tokens
    <3>1. CASE m \in late
      <4>1. m[1] \in Rows BY <3>1 DEF TypeOK
      <4> QED BY <2>4, <3>1, <4>1, <1>f DEF ClaimedInv, Forward
    <3>2. CASE m \notin late
      <4>1. PICK q \in Sent(w) : m = <<on[w], q>>
        BY <2>1, <2>4, <3>2 DEF Writes
      <4>2. pc[w] = "finish" /\ on[w] \in Rows
        BY <2>4, <4>1, TokensAssumption
        DEF Sent, SkipRequest, ClaimRequest, TypeOK
      <4> QED BY <4>1, <4>2, <1>f DEF ClaimedInv, Forward, Holding
    <3> QED BY <3>1, <3>2
  <2> QED BY <2>2, <2>3, <2>4 DEF ClaimedInv
<1>2. CASE Elsewhere
  <2>1. /\ UNCHANGED <<pc, on>>
        /\ \A m \in late' : m \in late \/ m[2].status = "failure"
    BY <1>2, TokenlessTypes DEF Elsewhere, LeaseLapse
  <2>2. ASSUME NEW v \in Workers, pc[v] \in Holding
        PROVE  row'[on[v]].token \in Tokens
    BY <2>2, <1>f DEF ClaimedInv, Forward, TypeOK, Holding
  <2>3. ASSUME NEW m \in late, m[2].status = "success", m[2].token \in Tokens
        PROVE  row'[m[1]].token \in Tokens
    BY <2>3, <1>f DEF ClaimedInv, Forward, TypeOK
  <2> QED BY <2>1, <2>2, <2>3 DEF ClaimedInv
<1> QED BY <1>1, <1>2, ElsewhereShape

(* The claim of token t on row a is not taken away. *)
Stands(a, t) ==
    /\ a.token = t
    /\ \/ a.status = "in_progress" /\ a.live
       \/ a.status = "success" /\ a.stats \in {"skipped", t}

(* A request that names another token leaves a standing claim standing; so *)
(* does a skip and the holder's own success.                               *)
LEMMA StandsKept ==
    ASSUME NEW a \in Row, NEW t \in Tokens, Stands(a, t), NEW q \in Request,
           \/ q = SkipRequest
           \/ q.token \in Tokens \ {t}
           \/ q = SuccessRequest(t)
    PROVE  Stands(Finalize(a, q), t)
<1>1. CASE a.status = "success"
  BY <1>1, FinalizeSuccess
<1>2. CASE a.status = "in_progress" /\ a.live /\ a.token = t
  <2>1. CASE q = SkipRequest
    BY <2>1, <1>2, FinalizeSkip DEF Stands
  <2>2. CASE q.token \in Tokens \ {t}
    <3>1. Finalize(a, q) = a
      BY <2>2, <1>2, FinalizeLiveClaim, TokensAssumption
    <3> QED BY <3>1
  <2>3. CASE q = SuccessRequest(t)
    BY <2>3, <1>2, FinalizeCount DEF Stands
  <2> QED BY <2>1, <2>2, <2>3
<1> QED BY <1>1, <1>2 DEF Stands

(* Every step keeps ClaimStands. *)
LEMMA ClaimStandsStep == ASSUME IInv, [Next]_vars PROVE ClaimStands'
<1> USE DEF IInv
<1>s. ASSUME NEW v \in Workers, pc[v] \in Holding, v \notin lapsed
      PROVE  /\ on[v] \in Rows /\ row[on[v]] \in Row /\ tok[v] \in Tokens
             /\ Stands(row[on[v]], tok[v])
  BY <1>s DEF ClaimStands, Stands, TypeOK, TokenInv, Holding
<1>1. ASSUME NEW w \in Workers, WorkerStep(w) PROVE ClaimStands'
  <2>1. Writes(w) /\ Moves(w) /\ Others(w) BY <1>1, WorkerShape
  <2>2. ASSUME NEW v \in Workers, v # w, pc'[v] \in Holding, v \notin lapsed'
        PROVE  Stands(row'[on'[v]], tok'[v])
    <3>1. /\ pc[v] \in Holding /\ v \notin lapsed
          /\ on'[v] = on[v] /\ tok'[v] = tok[v]
      BY <2>1, <2>2 DEF Others
    <3>2. CASE row'[on[v]] = row[on[v]]
      BY <3>1, <3>2, <1>s
    <3>3. CASE row'[on[v]] # row[on[v]]
      <4>1. PICK q \in Sent(w) : row' = [row EXCEPT ![on[w]] = Finalize(@, q)]
        BY <2>1, <3>3 DEF Writes
      <4>2. row'[on[v]] = Finalize(row[on[v]], q)
        BY <3>1, <3>3, <4>1, <1>s DEF TypeOK
      <4>3. q \in Request /\ (q = SkipRequest \/ q.token \in Tokens \ {tok[v]})
        <5>1. pc[w] \in Holding \cup {"claim"} => tok[w] \in Tokens \ {tok[v]}
          BY <2>2 DEF TokenInv, TypeOK
        <5> QED BY <5>1 DEF Sent, ClaimRequest, SuccessRequest, Holding
      <4> QED BY <3>1, <4>2, <4>3, <1>s, StandsKept
    <3> QED BY <3>2, <3>3
  <2>3. ASSUME pc'[w] \in Holding, w \notin lapsed'
        PROVE  Stands(row'[on'[w]], tok'[w])
    <3>0. on'[w] = on[w] /\ tok'[w] = tok[w] /\ lapsed' = lapsed
      BY <2>1, <2>3 DEF Moves, SameClaim, Holding
    <3>1. CASE pc[w] = "claim"
      <4>1. /\ Admits(row[on[w]], ClaimRequest(tok[w]))
            /\ row' = [row EXCEPT ![on[w]] = Finalize(@, ClaimRequest(tok[w]))]
        BY <2>1, <2>3, <3>1 DEF Moves, Holding
      <4>2. tok[w] \in Tokens /\ on[w] \in Rows /\ row[on[w]] \in Row
        BY <3>1 DEF TokenInv, TypeOK
      <4>3. row'[on[w]] = Finalize(row[on[w]], ClaimRequest(tok[w]))
        BY <4>1, <4>2 DEF TypeOK
      <4> QED BY <3>0, <4>1, <4>2, <4>3, FinalizeClaim DEF Stands
    <3>2. CASE pc[w] = "run"
      <4>1. row' = row /\ pc[w] \in Holding
        BY <2>1, <2>3, <3>2 DEF Moves, Holding
      <4> QED BY <3>0, <4>1, <2>3, <1>s
    <3>3. CASE pc[w] = "finish"
      <4>1. CASE row' = row
        BY <3>0, <3>3, <4>1, <2>3, <1>s DEF Holding
      <4>2. CASE row' # row
        <5>1. row' = [row EXCEPT ![on[w]] = Finalize(@, SuccessRequest(tok[w]))]
          BY <2>1, <3>3, <4>2 DEF Writes, Sent, Holding
        <5>2. /\ on[w] \in Rows /\ row[on[w]] \in Row /\ tok[w] \in Tokens
              /\ Stands(row[on[w]], tok[w])
          BY <3>0, <3>3, <2>3, <1>s DEF Holding
        <5>3. SuccessRequest(tok[w]) \in Request BY <5>2, RequestTypes
        <5>4. row'[on[w]] = Finalize(row[on[w]], SuccessRequest(tok[w]))
          BY <5>1, <5>2 DEF TypeOK
        <5> QED BY <3>0, <5>2, <5>3, <5>4, StandsKept
      <4> QED BY <4>1, <4>2
    <3> QED BY <2>1, <2>3, <3>1, <3>2, <3>3 DEF Moves, Holding
  <2> QED BY <2>2, <2>3 DEF ClaimStands, Stands
<1>2. CASE Elsewhere
  <2>0. UNCHANGED <<pc, on, tok>> BY <1>2 DEF Elsewhere
  <2> SUFFICES ASSUME NEW v \in Workers, pc[v] \in Holding, v \notin lapsed'
               PROVE  Stands(row'[on[v]], tok[v])
    BY <2>0 DEF ClaimStands, Stands
  <2>1. v \notin lapsed BY <1>2 DEF Elsewhere, LeaseLapse, Lands
  <2>2. /\ on[v] \in Rows /\ row[on[v]] \in Row /\ tok[v] \in Tokens
        /\ Stands(row[on[v]], tok[v])
    BY <2>1, <1>s
  <2>3. CASE UNCHANGED row
    BY <2>2, <2>3
  <2>4. ASSUME NEW r \in Rows, row[r].status = "absent",
               row' = [row EXCEPT ![r].status = "pending"]
        PROVE  Stands(row'[on[v]], tok[v])
    BY <2>2, <2>4 DEF Stands, TypeOK
  <2>5. ASSUME NEW r \in Rows, row' = [row EXCEPT ![r].age = @ + 1]
        PROVE  Stands(row'[on[v]], tok[v])
    BY <2>2, <2>5 DEF Stands, TypeOK, Row
  <2>6. ASSUME NEW r \in Rows, Lands(r, CloseRequest)
        PROVE  Stands(row'[on[v]], tok[v])
    <3>1. CASE r # on[v]
      BY <2>2, <2>6, <3>1 DEF Lands, TypeOK
    <3>2. CASE r = on[v]
      <4>1. v \in Holders(r) BY <2>2, <3>2 DEF Holders, Stands
      <4>2. ~Admits(row[r], CloseRequest)
        BY <2>6, <4>1, TokenlessTypes DEF Lands, Overruled
      <4>3. row'[r] = row[r] BY <2>6, <4>2 DEF Lands, Finalize, TypeOK
      <4> QED BY <2>2, <3>2, <4>3
    <3> QED BY <3>1, <3>2
  <2>7. ASSUME NEW r \in Rows, LeaseLapse(r)
        PROVE  Stands(row'[on[v]], tok[v])
    <3>1. CASE r = on[v]
      <4>1. v \in lapsed' BY <2>2, <2>7, <3>1 DEF LeaseLapse, Holders, Stands
      <4> QED BY <4>1
    <3>2. CASE r # on[v]
      BY <2>2, <2>7, <3>2 DEF LeaseLapse, TypeOK
    <3> QED BY <3>1, <3>2
  <2>8. ASSUME NEW m \in late, Lands(m[1], m[2])
        PROVE  Stands(row'[on[v]], tok[v])
    <3>1. m[1] \in Rows /\ m[2] \in Request BY DEF TypeOK
    <3>2. CASE m[1] # on[v]
      BY <2>2, <2>8, <3>1, <3>2 DEF Lands, TypeOK
    <3>4. CASE m[2] = CloseRequest
      BY <2>6, <2>8, <3>1, <3>4
    <3>3. CASE m[1] = on[v] /\ m[2] # CloseRequest
      <4>1. row'[on[v]] = Finalize(row[on[v]], m[2])
        BY <2>8, <3>1, <3>3 DEF Lands, TypeOK
      <4>2. \/ m[2] = SkipRequest \/ m[2].token \in Tokens \ {tok[v]}
            \/ m[2] = SuccessRequest(tok[v])
        <5>1. CASE m[2].token = tok[v]
          <6>1. m[2].status = "success" /\ m[2].token # NoToken
            BY <2>2, <5>1, TokensAssumption DEF LateInv
          <6>2. /\ SkipRequest.token = NoToken
                /\ ClaimRequest(m[2].token).status = "in_progress"
            BY DEF SkipRequest, ClaimRequest
          <6>3. \/ m[2] = SkipRequest \/ m[2] = ClaimRequest(m[2].token)
                \/ m[2] = SuccessRequest(m[2].token) \/ m[2].status = "failure"
            BY <3>3 DEF LateInv
          <6>4. m[2] = SuccessRequest(m[2].token)
            BY <6>1, <6>2, <6>3
          <6> QED BY <5>1, <6>4
        <5>2. CASE m[2].token # tok[v]
          BY <3>3, <5>2 DEF LateInv
        <5> QED BY <5>1, <5>2
      <4> QED BY <2>2, <3>1, <4>1, <4>2, StandsKept
    <3> QED BY <3>2, <3>3, <3>4
  <2> QED BY <1>2, <2>3, <2>4, <2>5, <2>6, <2>7, <2>8 DEF Elsewhere
<1> QED BY <1>1, <1>2, ElsewhereShape

(* ResultInv of one row, and what keeps it. *)
Result(a) ==
    /\ a.status = "success"
       => \/ a.stats = "skipped"
          \/ a.stats = a.token /\ a.token \in Tokens
    /\ a.stats \in Tokens \cup {"skipped"} => a.status = "success"

(* One statement keeps what a row says of its result. *)
LEMMA ResultKept ==
    ASSUME NEW a \in Row, Result(a), NEW q \in Request,
           \/ q = SkipRequest
           \/ q.token \in Tokens /\ q = ClaimRequest(q.token)
           \/ q.token \in Tokens /\ a.token \in Tokens /\ q = SuccessRequest(q.token)
           \/ q.status = "failure" /\ q.stats \in {"none", "terminal"}
    PROVE  Result(Finalize(a, q))
<1>1. CASE a.status = "success"
  BY <1>1, FinalizeSuccess
<1>2. CASE a.status # "success"
  <2>0. a.stats \notin Tokens \cup {"skipped"} BY <1>2 DEF Result
  <2>1. CASE q = SkipRequest
    BY <1>2, <2>1, FinalizeSkip DEF Result
  <2>2. CASE q.token \in Tokens /\ q = ClaimRequest(q.token)
    BY <1>2, <2>0, <2>2, FinalizeClaim DEF Result
  <2>3. CASE q.token \in Tokens /\ a.token \in Tokens /\ q = SuccessRequest(q.token)
    BY <1>2, <2>0, <2>3, FinalizeCount DEF Result
  <2>4. CASE q.status = "failure" /\ q.stats \in {"none", "terminal"}
    <3>1. \/ Finalize(a, q) = a
          \/ /\ Finalize(a, q).status = "failure"
             /\ Finalize(a, q).stats \in {a.stats, "terminal"}
      BY <2>4, FinalizeFailure
    <3> QED BY <1>2, <2>0, <3>1, TokensAssumption DEF Result
  <2> QED BY <2>1, <2>2, <2>3, <2>4
<1> QED BY <1>1, <1>2

(* Every step keeps ResultInv: a count is that of the claim on the row. *)
LEMMA ResultStep == ASSUME IInv, [Next]_vars PROVE ResultInv'
<1> USE DEF IInv
<1>r. \A r \in Rows : row[r] \in Row /\ Result(row[r])
  BY DEF ResultInv, Result, TypeOK
<1> SUFFICES ASSUME NEW s \in Rows PROVE Result(row'[s])
  BY DEF ResultInv, Result
<1>1. ASSUME NEW w \in Workers, WorkerStep(w) PROVE Result(row'[s])
  <2>1. Writes(w) BY <1>1, WorkerShape
  <2>2. CASE row'[s] = row[s]
    BY <2>2, <1>r
  <2>3. CASE row'[s] # row[s]
    <3>1. PICK q \in Sent(w) : row' = [row EXCEPT ![on[w]] = Finalize(@, q)]
      BY <2>1, <2>3 DEF Writes
    <3>2. on[w] = s /\ row'[s] = Finalize(row[s], q)
      BY <2>3, <3>1 DEF TypeOK
    <3>3. pc[w] \in Holding \cup {"claim"} => tok[w] \in Tokens
      BY DEF TokenInv, TypeOK
    <3>4. pc[w] \in Holding => row[s].token \in Tokens
      BY <3>2 DEF ClaimedInv
    <3>5. /\ ClaimRequest(tok[w]).token = tok[w]
          /\ SuccessRequest(tok[w]).token = tok[w]
      BY DEF ClaimRequest, SuccessRequest
    <3>6. /\ q \in Request
          /\ \/ q = SkipRequest
             \/ q.token \in Tokens /\ q = ClaimRequest(q.token)
             \/ q.token \in Tokens /\ row[s].token \in Tokens /\ q = SuccessRequest(q.token)
             \/ q.status = "failure" /\ q.stats \in {"none", "terminal"}
      BY <3>3, <3>4, <3>5 DEF Sent, Holding
    <3> QED BY <3>2, <3>6, <1>r, ResultKept
  <2> QED BY <2>2, <2>3
<1>2. CASE Elsewhere
  <2>1. CASE row'[s] = row[s]
    BY <2>1, <1>r
  <2>2. ASSUME NEW r \in Rows, row[r].status = "absent",
               row' = [row EXCEPT ![r].status = "pending"]
        PROVE  Result(row'[s])
    BY <2>2, <1>r DEF Result, TypeOK, Row
  <2>3. ASSUME NEW r \in Rows, row' = [row EXCEPT ![r].age = @ + 1]
        PROVE  Result(row'[s])
    BY <2>3, <1>r DEF Result, TypeOK, Row
  <2>4. ASSUME NEW r \in Rows, Lands(r, CloseRequest)
        PROVE  Result(row'[s])
    <3>1. CASE r # s BY <2>4, <3>1, <1>r DEF Lands, TypeOK
    <3>2. CASE r = s
      <4>1. row'[s] = Finalize(row[s], CloseRequest)
        BY <2>4, <3>2 DEF Lands, TypeOK
      <4> QED BY <4>1, <1>r, TokenlessTypes, ResultKept
    <3> QED BY <3>1, <3>2
  <2>5. ASSUME NEW r \in Rows, LeaseLapse(r) PROVE Result(row'[s])
    BY <2>5, <1>r DEF LeaseLapse, Result, TypeOK, Row
  <2>6. ASSUME NEW m \in late, Lands(m[1], m[2])
        PROVE  Result(row'[s])
    <3>1. CASE m[1] # s BY <2>6, <3>1, <1>r DEF Lands, TypeOK
    <3>2. CASE m[1] = s
      <4>1. row'[s] = Finalize(row[s], m[2]) /\ m[2] \in Request
        BY <2>6, <3>2 DEF Lands, TypeOK
      <4>2. \/ m[2] = SkipRequest
            \/ m[2].token \in Tokens /\ m[2] = ClaimRequest(m[2].token)
            \/ m[2].token \in Tokens /\ m[2] = SuccessRequest(m[2].token)
            \/ m[2].status = "failure" /\ m[2].stats \in {"none", "terminal"}
        BY TokenlessTypes DEF LateInv
      <4>3. SuccessRequest(m[2].token).status = "success"
        BY DEF SuccessRequest
      <4>4. m[2].token \in Tokens /\ m[2] = SuccessRequest(m[2].token)
            => row[s].token \in Tokens
        BY <3>2, <4>3 DEF ClaimedInv
      <4> QED BY <4>1, <4>2, <4>4, <1>r, ResultKept
    <3> QED BY <3>1, <3>2
  <2> QED BY <1>2, <2>1, <2>2, <2>3, <2>4, <2>5, <2>6 DEF Elsewhere
<1> QED BY <1>1, <1>2, ElsewhereShape

(* Every step keeps AckedInv: an acked run closed its row itself. *)
LEMMA AckedStep == ASSUME IInv, [Next]_vars PROVE AckedInv'
<1> USE DEF IInv
<1>f. Forward BY RowForward
<1> SUFFICES ASSUME NEW r \in Rows
             PROVE  \/ acked'[r] = 0
                    \/ /\ acked'[r] = 1
                       /\ row'[r].status = "success" /\ row'[r].token \in Tokens
                       /\ \A v \in Workers : pc'[v] \in Holding /\ on'[v] = r
                                             => tok'[v] # row'[r].token
  BY DEF AckedInv
<1>1. ASSUME NEW w \in Workers, WorkerStep(w)
      PROVE  \/ acked'[r] = 0
             \/ /\ acked'[r] = 1
                /\ row'[r].status = "success" /\ row'[r].token \in Tokens
                /\ \A v \in Workers : pc'[v] \in Holding /\ on'[v] = r
                                      => tok'[v] # row'[r].token
  <2>1. Moves(w) /\ Others(w) /\ Counts(w) BY <1>1, WorkerShape
  <2>2. CASE acked'[r] = acked[r]
    <3> SUFFICES ASSUME acked[r] = 1
                 PROVE  /\ row'[r].status = "success" /\ row'[r].token \in Tokens
                        /\ \A v \in Workers : pc'[v] \in Holding /\ on'[v] = r
                                              => tok'[v] # row'[r].token
      BY <2>2 DEF AckedInv
    <3>1. /\ row[r].status = "success" /\ row[r].token \in Tokens
          /\ row'[r].status = "success" /\ row'[r].token = row[r].token
          /\ \A v \in Workers : pc[v] \in Holding /\ on[v] = r
                                => tok[v] # row[r].token
      BY <1>f DEF AckedInv, Forward
    <3>2. ASSUME NEW v \in Workers, v # w, pc'[v] \in Holding, on'[v] = r
          PROVE  tok'[v] # row[r].token
      BY <2>1, <3>1, <3>2 DEF Others
    <3>3. ASSUME pc'[w] \in Holding, on'[w] = r
          PROVE  tok'[w] # row[r].token
      <4>1. \/ pc[w] \in Holding /\ SameClaim(w)
            \/ /\ pc[w] = "claim" /\ Admits(row[on[w]], ClaimRequest(tok[w]))
               /\ on'[w] = on[w]
        BY <2>1, <3>3 DEF Moves, SameClaim, Holding
      <4>2. ~Admits(row[r], ClaimRequest(tok[w]))
        BY <3>1 DEF Admits
      <4> QED BY <3>1, <3>3, <4>1, <4>2 DEF SameClaim
    <3> QED BY <3>1, <3>2, <3>3
  <2>3. CASE acked'[r] # acked[r]
    <3>1. /\ pc[w] = "finish" /\ pc'[w] = "idle" /\ on[w] = r
          /\ acked'[r] = acked[r] + 1
          /\ row' = [row EXCEPT ![r] = Finalize(@, SuccessRequest(tok[w]))]
          /\ Outcome(row[r], SuccessRequest(tok[w])) # "claim_lost"
      BY <2>1, <2>3 DEF Counts, TypeOK
    <3>2. /\ row[r] \in Row /\ tok[w] \in Tokens /\ row[r].token \in Tokens
          /\ row'[r] = Finalize(row[r], SuccessRequest(tok[w]))
      BY <3>1 DEF TypeOK, TokenInv, ClaimedInv, Holding
    <3>3. /\ SuccessRequest(tok[w]).status = "success"
          /\ SuccessRequest(tok[w]).token = tok[w]
      BY DEF SuccessRequest
    <3>4. row[r].token = tok[w] /\ row'[r].status = "success"
          /\ row'[r].token = tok[w]
      <4>1. CASE Admits(row[r], SuccessRequest(tok[w]))
        BY <3>2, <4>1, FinalizeCount
      <4>2. CASE ~Admits(row[r], SuccessRequest(tok[w]))
        <5>1. row[r].token = tok[w]
          BY <3>1, <3>2, <3>3, <4>2, TokensAssumption DEF Outcome
        <5>2. row'[r] = row[r] /\ row[r].status = "success"
          BY <3>2, <4>2, <5>1, FinalizeCount
        <5> QED BY <5>1, <5>2
      <4> QED BY <4>1, <4>2
    <3>5. acked[r] = 0
      BY <3>1, <3>4 DEF AckedInv, Holding
    <3>6. ASSUME NEW v \in Workers, pc'[v] \in Holding, on'[v] = r
          PROVE  tok'[v] # tok[w]
      BY <2>1, <3>1, <3>2, <3>6, TokensAssumption DEF Others, TokenInv, Holding
    <3> QED BY <3>1, <3>2, <3>4, <3>5, <3>6
  <2> QED BY <2>2, <2>3
<1>2. CASE Elsewhere
  <2>1. UNCHANGED <<pc, on, tok, acked>> BY <1>2 DEF Elsewhere
  <2> QED BY <2>1, <1>f DEF AckedInv, Forward
<1> QED BY <1>1, <1>2, ElsewhereShape

(* A statement writes the stats of its request or keeps the row's. *)
LEMMA FinalizeStats ==
    ASSUME NEW a \in Row, NEW q \in Request
    PROVE  Finalize(a, q).stats \in {a.stats, q.stats}
BY DEF Finalize, Written, Row, Request

(* Every step keeps SkipInv: a skip has a real success behind it. *)
LEMMA SkipStep == ASSUME IInv, [Next]_vars PROVE SkipInv'
<1> USE DEF IInv
<1>f. Forward BY RowForward
<1>g. \A r \in Rows : RealSuccess(row, r) => RealSuccess(row', r)
  BY <1>f, RealSuccessStays
<1>k. /\ SkipRequest.stats = "skipped" /\ CloseRequest.stats = "none"
      /\ \A t \in Tokens : /\ ClaimRequest(t) # SkipRequest
                           /\ SuccessRequest(t) # SkipRequest
                           /\ ClaimRequest(t).stats # "skipped"
                           /\ SuccessRequest(t).stats # "skipped"
  BY TokensAssumption, TokenlessTypes DEF SkipRequest, ClaimRequest, SuccessRequest
<1>1. ASSUME NEW w \in Workers, WorkerStep(w) PROVE SkipInv'
  <2>1. Writes(w) /\ Moves(w) /\ Others(w) BY <1>1, WorkerShape
  <2>s. ASSUME NEW q \in Sent(w), q.stats = "skipped"
        PROVE  on[w] \in Rows /\ RealSuccess(row, on[w])
    <3>1. pc[w] \in Holding \cup {"claim"} => tok[w] \in Tokens
      BY DEF TokenInv, TypeOK
    <3>2. pc[w] = "skip" BY <2>s, <3>1, <1>k DEF Sent, Holding
    <3> QED BY <3>2 DEF SkipInv, TypeOK
  <2>2. ASSUME NEW v \in Workers, pc'[v] = "skip"
        PROVE  RealSuccess(row', on'[v])
    <3>1. CASE pc[v] = "skip" /\ on'[v] = on[v]
      <4>1. on[v] \in Rows /\ RealSuccess(row, on[v])
        BY <3>1 DEF SkipInv, TypeOK
      <4> QED BY <3>1, <4>1, <1>g
    <3>2. CASE v = w /\ pc[w] = "gate"
      <4>1. on[w] \in Rows /\ on'[w] = on[w] /\ HasRecentSuccess(on[w])
        BY <2>1, <2>2, <3>2 DEF Moves, SameClaim, TypeOK
      <4>2. RealSuccess(row, on[w])
        BY <4>1 DEF HasRecentSuccess, RealSuccess, ResultInv
      <4> QED BY <3>2, <4>1, <4>2, <1>g
    <3> QED BY <2>1, <2>2, <3>1, <3>2 DEF Moves, Others, SameClaim, Holding
  <2>3. ASSUME NEW m \in late', m[2] = SkipRequest
        PROVE  RealSuccess(row', m[1])
    <3>1. CASE m \in late
      <4>1. m[1] \in Rows BY <3>1 DEF TypeOK
      <4> QED BY <2>3, <3>1, <4>1, <1>g DEF SkipInv
    <3>2. CASE m \notin late
      <4>1. PICK q \in Sent(w) : m = <<on[w], q>>
        BY <2>1, <2>3, <3>2 DEF Writes
      <4> QED BY <2>3, <2>s, <4>1, <1>g, <1>k
    <3> QED BY <3>1, <3>2
  <2>4. ASSUME NEW r \in Rows, row'[r].stats = "skipped"
        PROVE  RealSuccess(row', r)
    <3>1. CASE row[r].stats = "skipped"
      BY <3>1, <1>g DEF SkipInv
    <3>2. CASE row[r].stats # "skipped"
      <4>1. PICK q \in Sent(w) : row' = [row EXCEPT ![on[w]] = Finalize(@, q)]
        BY <2>1, <2>4, <3>2 DEF Writes
      <4>2. on[w] = r /\ row'[r] = Finalize(row[r], q) /\ row[r] \in Row
        BY <2>4, <3>2, <4>1 DEF TypeOK
      <4>3. q \in Request BY DEF Sent
      <4>4. q.stats = "skipped" BY <2>4, <3>2, <4>2, <4>3, FinalizeStats
      <4> QED BY <4>2, <4>4, <2>s, <1>g
    <3> QED BY <3>1, <3>2
  <2> QED BY <2>2, <2>3, <2>4 DEF SkipInv
<1>2. CASE Elsewhere
  <2>1. /\ UNCHANGED <<pc, on>>
        /\ \A m \in late' : m \in late \/ m[2] # SkipRequest
    BY <1>2, <1>k DEF Elsewhere, LeaseLapse
  <2>2. ASSUME NEW v \in Workers, pc[v] = "skip" PROVE RealSuccess(row', on[v])
    BY <2>2, <1>g DEF SkipInv, TypeOK
  <2>3. ASSUME NEW m \in late, m[2] = SkipRequest PROVE RealSuccess(row', m[1])
    BY <2>3, <1>g DEF SkipInv, TypeOK
  <2>4. ASSUME NEW r \in Rows, row'[r].stats = "skipped"
        PROVE  RealSuccess(row', r)
    <3>1. CASE row[r].stats = "skipped"
      BY <3>1, <1>g DEF SkipInv
    <3>2. CASE row[r].stats # "skipped"
      <4>1. row[r] \in Row BY DEF TypeOK
      <4>2. ASSUME NEW s \in Rows, Lands(s, CloseRequest) PROVE FALSE
        <5>1. row'[r].stats \in {row[r].stats, "none"}
          BY <4>1, <4>2, <1>k, FinalizeStats, TokenlessTypes DEF Lands, TypeOK
        <5> QED BY <2>4, <3>2, <5>1
      <4>3. ASSUME NEW m \in late, Lands(m[1], m[2])
            PROVE  m[1] = r /\ m[2] = SkipRequest
        <5>1. m[1] \in Rows /\ m[2] \in Request BY DEF TypeOK
        <5>2. m[1] = r /\ row'[r] = Finalize(row[r], m[2])
          BY <2>4, <3>2, <4>3, <5>1 DEF Lands, TypeOK
        <5>3. m[2].stats = "skipped"
          BY <2>4, <3>2, <4>1, <5>1, <5>2, FinalizeStats
        <5> QED BY <5>2, <5>3, <1>k DEF LateInv
      <4>4. ASSUME NEW s \in Rows,
                   \/ row' = [row EXCEPT ![s].status = "pending"]
                   \/ row' = [row EXCEPT ![s].age = @ + 1]
                   \/ LeaseLapse(s)
            PROVE  FALSE
        <5>1. row'[r].stats = row[r].stats
          <6>1. CASE row' = [row EXCEPT ![s].status = "pending"]
            BY <6>1 DEF TypeOK, Row
          <6>2. CASE row' = [row EXCEPT ![s].age = @ + 1]
            BY <6>2 DEF TypeOK, Row
          <6>3. CASE LeaseLapse(s)
            BY <6>3 DEF LeaseLapse, TypeOK, Row
          <6> QED BY <4>4, <6>1, <6>2, <6>3
        <5> QED BY <2>4, <3>2, <5>1
      <4>5. PICK m \in late : m[1] = r /\ m[2] = SkipRequest
        BY <1>2, <2>4, <3>2, <4>2, <4>3, <4>4 DEF Elsewhere
      <4> QED BY <4>5, <1>g DEF SkipInv
    <3> QED BY <3>1, <3>2
  <2> QED BY <2>1, <2>2, <2>3, <2>4 DEF SkipInv
<1> QED BY <1>1, <1>2, ElsewhereShape

-----------------------------------------------------------------------------
(* The theorems *)

(* The initial state satisfies the invariant. *)
LEMMA InvInit == Init => IInv
<1> SUFFICES ASSUME Init PROVE IInv
  OBVIOUS
<1>1. TypeOK BY TypeInit
<1>2. /\ \A r \in Rows : row[r] = AbsentRow /\ acked[r] = 0
      /\ \A w \in Workers : pc[w] = "idle" /\ tok[w] = NoToken
      /\ late = {} /\ lapsed = {}
  BY DEF Init
<1>3. AbsentRow.status = "absent" /\ AbsentRow.stats = "none"
  BY DEF AbsentRow
<1>4. TokenInv BY <1>2 DEF TokenInv, Holding
<1>5. LateInv BY <1>2 DEF LateInv
<1>6. ClaimedInv BY <1>2 DEF ClaimedInv, Holding
<1>7. ClaimStands BY <1>2 DEF ClaimStands, Holding
<1>8. ResultInv BY <1>2, <1>3, TokensAssumption DEF ResultInv
<1>9. AckedInv BY <1>2 DEF AckedInv
<1>10. SkipInv BY <1>2, <1>3 DEF SkipInv
<1> QED BY <1>1, <1>4, <1>5, <1>6, <1>7, <1>8, <1>9, <1>10 DEF IInv

(* Every step keeps the invariant. *)
LEMMA InvStep == IInv /\ [Next]_vars => IInv'
<1> SUFFICES ASSUME IInv, [Next]_vars PROVE IInv'
  OBVIOUS
<1>1. TypeOK' BY TypeStep DEF IInv
<1> QED BY <1>1, TokenStep, LateStep, ClaimedStep, ClaimStandsStep, ResultStep,
           AckedStep, SkipStep DEF IInv

(* The invariant holds of every behaviour. *)
THEOREM Inductive == Spec => []IInv
BY InvInit, InvStep, PTL DEF Spec

(* Every reachable state of the table, the bus and the invocations is well *)
(* typed.                                                                  *)
THEOREM TypeCorrect == Spec => []TypeOK
<1>1. IInv => TypeOK BY DEF IInv
<1> QED BY <1>1, Inductive, PTL

(* A claim whose lease has not run out stands on its row, whatever other   *)
(* deliveries and late requests write, unless the sweep closes the row of  *)
(* a retired action.                                                       *)
THEOREM ClaimSafe == Spec => []ClaimStands
<1>1. IInv => ClaimStands BY DEF IInv
<1> QED BY <1>1, Inductive, PTL

(* The operation of a row runs twice at a time only past a lapsed lease or *)
(* after the sweep closed the row of a retired action under the run.       *)
THEOREM ExclusiveRunSafe == Spec => []ExclusiveRun
<1>1. IInv => ExclusiveRun
  <2> SUFFICES ASSUME IInv, NEW v \in Workers, NEW w \in Workers, v # w,
                      pc[v] = "run", pc[w] = "run", on[v] = on[w],
                      v \notin lapsed, w \notin lapsed
               PROVE  FALSE
    BY DEF ExclusiveRun
  <2>1. row[on[v]].token = tok[v] /\ row[on[w]].token = tok[w]
    BY DEF IInv, ClaimStands, Holding
  <2>2. tok[v] # NoToken /\ tok[w] # NoToken
    BY DEF IInv, TokenInv, Holding
  <2> QED BY <2>1, <2>2 DEF IInv, TokenInv
<1> QED BY <1>1, Inductive, PTL

(* The count a successful row records is its claim holder's. *)
THEOREM ResultSafe == Spec => []ResultIsHolders
<1>1. IInv => ResultIsHolders BY DEF IInv, ResultInv, ResultIsHolders
<1> QED BY <1>1, Inductive, PTL

(* No second successful run of a row goes unreported. *)
THEOREM DuplicatesReported == Spec => []NoSilentDuplicate
<1>1. IInv => NoSilentDuplicate
  BY DEF IInv, AckedInv, NoSilentDuplicate
<1> QED BY <1>1, Inductive, PTL

(* A skipped row stands beside a real success of its org and action. *)
THEOREM SkipSafe == Spec => []SkipBackedByRun
<1>1. IInv => SkipBackedByRun
  BY TokensAssumption DEF IInv, SkipInv, RealSuccess, SkipBackedByRun
<1> QED BY <1>1, Inductive, PTL

(* No statement touches a row that has reached success. *)
LEMMA SuccessKeptStep ==
    ASSUME TypeOK, TokenInv, LateInv, [Next]_vars
    PROVE  SuccessKept
<1> SUFFICES ASSUME NEW s \in Rows, row[s].status = "success"
             PROVE  row'[s] \in {row[s], [row[s] EXCEPT !.age = @ + 1]}
  BY DEF SuccessKept
<1>f. ASSUME NEW r \in Rows, NEW q, row' = [row EXCEPT ![r] = Finalize(@, q)]
      PROVE  row'[s] = row[s]
  BY <1>f, FinalizeSuccess DEF TypeOK
<1>1. ASSUME NEW w \in Workers, WorkerStep(w) PROVE row'[s] = row[s]
  <2>1. Writes(w) BY <1>1, WorkerShape
  <2>2. CASE row' # row
    <3>1. PICK q \in Sent(w) : row' = [row EXCEPT ![on[w]] = Finalize(@, q)]
      BY <2>1, <2>2 DEF Writes
    <3>2. on[w] \in Rows BY DEF Sent, TypeOK, Holding
    <3> QED BY <3>1, <3>2, <1>f
  <2> QED BY <2>2
<1>2. CASE Elsewhere
  <2>1. ASSUME NEW r \in Rows, row[r].status = "absent",
               row' = [row EXCEPT ![r].status = "pending"]
        PROVE  row'[s] = row[s]
    BY <2>1 DEF TypeOK
  <2>2. ASSUME NEW r \in Rows, row' = [row EXCEPT ![r].age = @ + 1]
        PROVE  row'[s] \in {row[s], [row[s] EXCEPT !.age = @ + 1]}
    BY <2>2 DEF TypeOK
  <2>3. ASSUME NEW r \in Rows, LeaseLapse(r) PROVE row'[s] = row[s]
    BY <2>3 DEF LeaseLapse, TypeOK
  <2>4. ASSUME NEW m \in late, Lands(m[1], m[2]) PROVE row'[s] = row[s]
    <3>1. m[1] \in Rows BY DEF TypeOK
    <3> QED BY <2>4, <3>1, <1>f DEF Lands
  <2>5. ASSUME NEW r \in Rows, Lands(r, CloseRequest) PROVE row'[s] = row[s]
    BY <2>5, <1>f DEF Lands
  <2> QED BY <1>2, <2>1, <2>2, <2>3, <2>4, <2>5 DEF Elsewhere
<1> QED BY <1>1, <1>2, ElsewhereShape

(* No step of any behaviour rewrites a successful row. *)
THEOREM SuccessFinal == Spec => SuccessIsFinal
<1>1. IInv /\ [Next]_vars => [SuccessKept]_vars
  BY SuccessKeptStep DEF IInv
<1> QED BY <1>1, Inductive, PTL DEF Spec, SuccessIsFinal
=============================================================================

--------------------------- MODULE LifecycleAudit ---------------------------
(***************************************************************************)
(* The lifecycle job protocol of Caura: the fanout endpoint of core-api    *)
(* writes one audit row per organisation and publishes one Pub/Sub message *)
(* for it; a consumer (core-api or core-worker) claims the row with a      *)
(* compare-and-swap, runs the operation and closes the row; an hourly      *)
(* sweep republishes the rows the fanout stranded.                         *)
(*                                                                         *)
(* Storage applies each PATCH of a row atomically.  Everything else may    *)
(* interleave: deliveries of one message, requests that are lost or land   *)
(* after their sender gave up, crashes, cancellations and lapsing leases.  *)
(***************************************************************************)
EXTENDS Naturals, FiniteSets

CONSTANTS
    Rows,           \* audit ids; autoincrement, so id order is started_at order
    Gated,          \* rows of pipeline operations, behind the dedup gate
    Fanout,         \* rows with triggered_by = 'core-operations'
    Published,      \* rows whose action is in the registry of some core-api
    Retired,        \* rows whose action is missing from that of some core-api
    Consumed,       \* rows whose action some consumer subscribes to
    Key,            \* Key[r]: the <<org, action>> of row r
    Workers,        \* concurrent handler invocations
    Tokens,         \* claim tokens (uuid4)
    NoToken,
    SweepLimit,     \* _RECONCILE_MAX_ROWS
    SuccessRetries, \* length of _SUCCESS_WRITE_RETRY_DELAYS_SECONDS
    MaxCopies,      \* bound: copies of one row's message in existence
    MaxLate,        \* bound: requests in flight after their sender gave up
    MaxFaults       \* bound: crashes, cancellations, lost calls, op errors

ASSUME RowsAssumption == Rows \subseteq Nat \ {0} /\ IsFiniteSet(Rows)
ASSUME KindsAssumption ==
    /\ Gated \subseteq Rows /\ Fanout \subseteq Rows /\ Consumed \subseteq Rows
    /\ Published \subseteq Rows /\ Retired \subseteq Rows
ASSUME TokensAssumption ==
    NoToken \notin Tokens
    /\ Tokens \cap {"none", "skipped", "terminal"} = {}
ASSUME BoundsAssumption ==
    /\ SweepLimit \in Nat \ {0} /\ SuccessRetries \in Nat
    /\ MaxCopies \in Nat /\ MaxLate \in Nat /\ MaxFaults \in Nat

VARIABLES
    row,        \* the lifecycle_audit table
    trig,       \* rows whose _trigger_one is between audit_begin and publish
    queue,      \* queue[r]: deliverable copies of r's message
    sweep,      \* rows listed by the running reconcile sweep, not yet handled
    pc,         \* pc[w]: where invocation w is in _run_action
    on,         \* on[w]: the row invocation w was delivered; 0 when idle
    tok,        \* tok[w]: the claim token invocation w minted
    tries,      \* tries[w]: failed attempts of write_success so far
    late,       \* requests still in flight whose sender has given up
    lapsed,     \* history: holders whose lease ran out, or that the sweep overruled
    acked,      \* history: successful runs acked without a claim_lost report
    faults

invocation == <<pc, on, tok, tries>>
history == <<lapsed, acked>>
vars == <<row, trig, queue, sweep, pc, on, tok, tries, late, lapsed, acked,
          faults>>

-----------------------------------------------------------------------------
(* Types *)

(* stats: none, {"skipped": true}, {"terminal": true}, or the count that   *)
(* the run of one token reported.  err: the class of error_message.        *)
Stats == {"none", "skipped", "terminal"} \cup Tokens
Errors == {"none", "transient", "permanent", "interrupted", "unknown_action"}

(* live: claimed_at is set and younger than LIFECYCLE_CLAIM_LEASE_MINUTES. *)
(* age: 0 is recent, 1 is past _RECONCILE_STRANDED_AFTER_MINUTES, 2 is     *)
(* also past the dedup window; both are measured from started_at.          *)
Row == [status : {"absent", "pending", "in_progress", "success", "failure"},
        token : Tokens \cup {NoToken}, live : BOOLEAN,
        stats : Stats, err : Errors, age : 0..2]

Request == [status : {"in_progress", "success", "failure"},
            token : Tokens \cup {NoToken}, stats : Stats, err : Errors]

Phases == {"idle", "gate", "skip", "claim", "run", "finish", "fail_transient",
           "fail_permanent"}

(* The invocation has been granted its claim and has not closed it yet.    *)
Holding == {"run", "finish", "fail_transient", "fail_permanent"}

TypeOK ==
    /\ row \in [Rows -> Row]
    /\ trig \in SUBSET Rows
    /\ queue \in [Rows -> Nat]
    /\ sweep \in SUBSET Rows
    /\ pc \in [Workers -> Phases]
    /\ on \in [Workers -> Rows \cup {0}]
    /\ \A w \in Workers : pc[w] # "idle" => on[w] \in Rows
    /\ tok \in [Workers -> Tokens \cup {NoToken}]
    /\ tries \in [Workers -> 0..SuccessRetries]
    /\ late \in SUBSET (Rows \X Request)
    /\ lapsed \in SUBSET Workers
    /\ acked \in [Rows -> Nat]
    /\ faults \in Nat

-----------------------------------------------------------------------------
(* Storage: lifecycle_audit_finalize *)

AbsentRow == [status |-> "absent", token |-> NoToken, live |-> FALSE,
              stats |-> "none", err |-> "none", age |-> 0]

ClaimRequest(t) ==
    [status |-> "in_progress", token |-> t, stats |-> "none", err |-> "none"]

SuccessRequest(t) ==
    [status |-> "success", token |-> t, stats |-> t, err |-> "none"]

SkipRequest ==
    [status |-> "success", token |-> NoToken, stats |-> "skipped",
     err |-> "none"]

FailureRequest(t, stats, err) ==
    [status |-> "failure", token |-> t, stats |-> stats, err |-> err]

(* Mutants of the WHERE clause: the claim without its compare-and-swap;    *)
Admits_NoCas(a, q) ==
    /\ a.status # "success"
    /\ \/ q.status = "in_progress"
       \/ q.token = NoToken
       \/ a.token \in {NoToken, q.token}

(* without the arm for the caller's own claim;                             *)
Admits_NotOwn(a, q) ==
    /\ a.status # "success"
    /\ \/ /\ q.status = "in_progress"
          /\ a.status # "in_progress" \/ ~a.live
       \/ /\ q.status # "in_progress"
          /\ q.token = NoToken \/ a.token \in {NoToken, q.token}

(* a terminal write without the token guard;                               *)
Admits_AnyFinalizer(a, q) ==
    /\ a.status # "success"
    /\ \/ q.status # "in_progress"
       \/ a.status # "in_progress"
       \/ ~a.live
       \/ a.token = q.token

(* and a success that is not sticky.                                       *)
Admits_OverSuccess(a, q) ==
    \/ /\ q.status = "in_progress"
       /\ a.status # "in_progress" \/ ~a.live \/ a.token = q.token
    \/ /\ q.status # "in_progress"
       /\ q.token = NoToken \/ a.token \in {NoToken, q.token}

(* The WHERE clause of the UPDATE.  A success is never written again.  A   *)
(* claim needs a row nobody holds, a claim that went stale, or the caller's*)
(* own claim; a terminal write that names a token needs that token.        *)
Admits(a, q) ==
    /\ a.status # "success"
    /\ \/ /\ q.status = "in_progress"
          /\ \/ a.status # "in_progress"
             \/ ~a.live
             \/ q.token # NoToken /\ a.token = q.token
       \/ /\ q.status # "in_progress"
          /\ \/ q.token = NoToken
             \/ a.token \in {NoToken, q.token}

(* The SET clause of the UPDATE. *)
Written(a, q) ==
    [a EXCEPT
        !.status = q.status,
        !.token = IF q.status = "in_progress" THEN q.token ELSE @,
        !.live = IF q.status = "in_progress" THEN TRUE ELSE @,
        !.stats = IF q.stats # "none" THEN q.stats ELSE @,
        !.err = IF q.status = "success" THEN "none"
                ELSE IF q.err # "none" THEN q.err ELSE @]

(* The row after the statement ran. *)
Finalize(a, q) == IF Admits(a, q) THEN Written(a, q) ELSE a

(* Mutants of the answer: the no-op tested first; no no-op at all. *)
Outcome_NoopFirst(a, q) ==
    IF Admits(a, q) THEN "updated"
    ELSE IF a.status = "success" THEN "noop_success"
    ELSE IF q.status = "in_progress" THEN "claim_conflict" ELSE "claim_lost"

Outcome_NoNoop(a, q) ==
    IF Admits(a, q) THEN "updated"
    ELSE IF q.status = "in_progress" THEN "claim_conflict" ELSE "claim_lost"

(* The answer: claim_lost is tested before the sticky-success no-op. *)
Outcome(a, q) ==
    IF Admits(a, q) THEN "updated"
    ELSE IF /\ q.status # "in_progress" /\ q.token # NoToken
            /\ a.token # NoToken /\ a.token # q.token
         THEN "claim_lost"
         ELSE IF a.status = "success" THEN "noop_success"
         ELSE "claim_conflict"

(* Mutant: the status filter is missing. *)
HasRecentSuccess_AnyStatus(r) ==
    \E q \in Rows : /\ Key[q] = Key[r]
                    /\ row[q].status # "absent"
                    /\ row[q].stats # "skipped"
                    /\ row[q].age < 2

(* A run of the same org and action whose tick is inside the window.       *)
(* A success{skipped} does not count.                                      *)
HasRecentSuccess(r) ==
    \E q \in Rows : /\ Key[q] = Key[r]
                    /\ row[q].status = "success"
                    /\ row[q].stats # "skipped"
                    /\ row[q].age < 2

(* lifecycle_audit_list_stranded: pending fanout rows old enough, oldest   *)
(* first, at most SweepLimit of them.                                      *)
Stranded == {r \in Fanout : row[r].status = "pending" /\ row[r].age >= 1}
ListStranded ==
    {r \in Stranded : Cardinality({q \in Stranded : q < r}) < SweepLimit}

-----------------------------------------------------------------------------
(* The message bus (external): at-least-once delivery *)

(* Copies of r's message: deliverable ones and the ones being handled. *)
Copies(r) == queue[r] + Cardinality({w \in Workers : pc[w] # "idle" /\ on[w] = r})

Enqueue(r) == queue' = [queue EXCEPT ![r] = @ + 1]

Fault == faults < MaxFaults /\ faults' = faults + 1
NoFault == UNCHANGED faults

(* The invocation ends.  Ack drops its copy; nack, or neither (a crash or  *)
(* a cancellation, redelivered at the ack deadline), makes it deliverable. *)
End(w) ==
    /\ pc' = [pc EXCEPT ![w] = "idle"]
    /\ tok' = [tok EXCEPT ![w] = NoToken]
    /\ tries' = [tries EXCEPT ![w] = 0]
    /\ lapsed' = lapsed \ {w}
    /\ on' = [on EXCEPT ![w] = 0]
Ack(w) == End(w) /\ UNCHANGED queue
Nack(w) == End(w) /\ Enqueue(on[w])

(* Pub/Sub delivers again a message that is queued or being handled. *)
Duplicate(r) ==
    /\ Copies(r) \in 1..(MaxCopies - 1)
    /\ Fault
    /\ Enqueue(r)
    /\ UNCHANGED <<row, trig, sweep, invocation, late, history>>

-----------------------------------------------------------------------------
(* Calls to storage *)

Goto(w, phase) ==
    pc' = [pc EXCEPT ![w] = phase] /\ UNCHANGED <<on, tok, queue>>

(* Request q of w is answered. *)
Write(r, q) == row' = [row EXCEPT ![r] = Finalize(@, q)] /\ UNCHANGED late

(* Request q on row r fails at its sender: it was never applied, or it is  *)
(* still in flight and may land at any later time.                         *)
Raises(r, q) ==
    /\ Fault
    /\ \/ UNCHANGED late
       \/ Cardinality(late) < MaxLate /\ late' = late \cup {<<r, q>>}
    /\ UNCHANGED row

(* The invocation whose claim stands on r. *)
Holders(r) == {w \in Workers : pc[w] \in Holding /\ tok[w] = row[r].token}

(* A failure that names no token is admitted over anybody's claim. *)
Overruled(r, q) ==
    IF q.status = "failure" /\ q.token = NoToken /\ Admits(row[r], q)
    THEN Holders(r) ELSE {}

(* A request lands after its sender gave up; nobody reads the answer. *)
LateLands(m) ==
    /\ m \in late
    /\ late' = late \ {m}
    /\ row' = [row EXCEPT ![m[1]] = Finalize(@, m[2])]
    /\ lapsed' = lapsed \cup Overruled(m[1], m[2])
    /\ UNCHANGED <<trig, queue, sweep, invocation, acked, faults>>

-----------------------------------------------------------------------------
(* core-api: fanout, manual trigger and the reconcile sweep *)

(* _trigger_one: audit_begin writes the pending row first. *)
AuditBegin(r) ==
    /\ row[r].status = "absent"
    /\ \A q \in Rows : q < r => row[q].status # "absent"
    /\ row' = [row EXCEPT ![r].status = "pending"]
    /\ trig' = trig \cup {r}
    /\ UNCHANGED <<queue, sweep, invocation, late, history, faults>>

(* The publisher call of _trigger_one. *)
Publish(r) ==
    /\ r \in trig
    /\ Copies(r) < MaxCopies
    /\ trig' = trig \ {r}
    /\ Enqueue(r)
    /\ UNCHANGED <<row, sweep, invocation, late, history, faults>>

(* The fanout request is cancelled before the publish, the publish raises, *)
(* or the SDK drops the message after publish() returned.                  *)
PublishLost(r) ==
    /\ r \in trig
    /\ Fault
    /\ trig' = trig \ {r}
    /\ UNCHANGED <<row, queue, sweep, invocation, late, history>>

(* The hourly sweep reads its list, *)
SweepList ==
    /\ sweep = {} /\ ListStranded # {}
    /\ sweep' = ListStranded
    /\ UNCHANGED <<row, trig, queue, invocation, late, history, faults>>

(* then republishes each listed row under the same audit_id, without       *)
(* looking at the row again,                                               *)
Republish(r) ==
    /\ r \in sweep \cap Published
    /\ Copies(r) < MaxCopies
    /\ sweep' = sweep \ {r}
    /\ Enqueue(r)
    /\ UNCHANGED <<row, trig, invocation, late, history, faults>>

(* Mutant: a row nothing can publish is left pending. *)
FailUnknownAction_LeftPending(r) ==
    /\ r \in sweep \cap Retired
    /\ sweep' = sweep \ {r}
    /\ UNCHANGED <<row, late, trig, queue, invocation, history, faults>>

(* or closes a row nothing can publish any more, naming no token.          *)
CloseRequest == FailureRequest(NoToken, "none", "unknown_action")

FailUnknownAction(r) ==
    /\ r \in sweep \cap Retired
    /\ Write(r, CloseRequest)
    /\ lapsed' = lapsed \cup Overruled(r, CloseRequest)
    /\ sweep' = sweep \ {r}
    /\ UNCHANGED <<trig, queue, invocation, acked, faults>>

(* One row's republish or close fails: it stays for the next sweep. *)
SweepRowFails(r) ==
    /\ r \in sweep
    /\ \/ r \in Retired /\ Raises(r, CloseRequest)
       \/ r \in Published /\ Fault /\ UNCHANGED <<row, late>>
    /\ sweep' = sweep \ {r}
    /\ UNCHANGED <<trig, queue, invocation, history>>

-----------------------------------------------------------------------------
(* The consumer: _run_action *)

(* The bus hands a copy to a subscribed handler.  Consumers register what  *)
(* they subscribe to themselves (register_archive_consumers and            *)
(* register_pipeline_consumers), and may still serve an action that the    *)
(* publisher has retired.                                                  *)
Deliver(w, r) ==
    /\ pc[w] = "idle" /\ queue[r] > 0 /\ r \in Consumed
    /\ queue' = [queue EXCEPT ![r] = @ - 1]
    /\ pc' = [pc EXCEPT ![w] = "gate"]
    /\ on' = [on EXCEPT ![w] = r]
    /\ UNCHANGED <<row, trig, sweep, tok, tries, late, history, faults>>

(* A uuid nobody has. *)
UsedTokens ==
    {row[r].token : r \in Rows} \cup {row[r].stats : r \in Rows}
    \cup {tok[w] : w \in Workers} \cup {m[2].token : m \in late}
NewToken == CHOOSE t \in Tokens : t \notin UsedTokens

(* The dedup gate finds a recent success. *)
GateSkips(w) ==
    /\ pc[w] = "gate" /\ on[w] \in Gated /\ HasRecentSuccess(on[w])
    /\ Goto(w, "skip")
    /\ UNCHANGED <<row, trig, sweep, tries, late, history, faults>>

(* There is no gate, it finds none, or its check fails; mint a token.      *)
GateOpens(w) ==
    /\ pc[w] = "gate"
    /\ \/ ~(on[w] \in Gated /\ HasRecentSuccess(on[w])) /\ NoFault
       \/ on[w] \in Gated /\ Fault
    /\ Tokens \ UsedTokens # {}
    /\ pc' = [pc EXCEPT ![w] = "claim"]
    /\ tok' = [tok EXCEPT ![w] = NewToken]
    /\ UNCHANGED <<row, trig, queue, sweep, on, tries, late, history>>

(* The skip is recorded and the delivery acked, *)
SkipWritten(w) ==
    /\ pc[w] = "skip"
    /\ Write(on[w], SkipRequest)
    /\ Ack(w)
    /\ UNCHANGED <<trig, sweep, acked, faults>>

(* or the record fails and the delivery is nacked. *)
SkipRaises(w) ==
    /\ pc[w] = "skip"
    /\ Raises(on[w], SkipRequest)
    /\ Nack(w)
    /\ UNCHANGED <<trig, sweep, acked>>

(* Mutant: a delivery that finds a live claim is acked as a duplicate. *)
ClaimAnswered_ConflictAcked(w) ==
    LET r == on[w]  answer == Outcome(row[r], ClaimRequest(tok[w])) IN
    /\ pc[w] = "claim"
    /\ Write(r, ClaimRequest(tok[w]))
    /\ \/ /\ answer = "updated"
          /\ Goto(w, "run")
          /\ UNCHANGED <<tries, lapsed>>
       \/ answer # "updated" /\ Ack(w)
    /\ UNCHANGED <<trig, sweep, acked, faults>>

(* claim_audit_row: run, ack a finished row, or nack on a live claim. *)
ClaimAnswered(w) ==
    LET r == on[w]  answer == Outcome(row[r], ClaimRequest(tok[w])) IN
    /\ pc[w] = "claim"
    /\ Write(r, ClaimRequest(tok[w]))
    /\ \/ /\ answer = "updated"
          /\ Goto(w, "run")
          /\ UNCHANGED <<tries, lapsed>>
       \/ answer = "noop_success" /\ Ack(w)
       \/ answer = "claim_conflict" /\ Nack(w)
    /\ UNCHANGED <<trig, sweep, acked, faults>>

(* The answer is lost; the HTTP client sends the same token again. *)
ClaimResent(w) ==
    /\ pc[w] = "claim"
    /\ Fault
    /\ Write(on[w], ClaimRequest(tok[w]))
    /\ UNCHANGED <<trig, queue, sweep, invocation, history>>

ClaimRaises(w) ==
    /\ pc[w] = "claim"
    /\ Raises(on[w], ClaimRequest(tok[w]))
    /\ Nack(w)
    /\ UNCHANGED <<trig, sweep, acked>>

(* run_op returns, raises, or raises PermanentOpError. *)
OpReturns(w) ==
    /\ pc[w] = "run"
    /\ Goto(w, "finish")
    /\ UNCHANGED <<row, trig, sweep, tries, late, history, faults>>

OpRaises(w) ==
    /\ pc[w] = "run"
    /\ \/ Goto(w, "fail_transient") /\ Fault
       \/ Goto(w, "fail_permanent") /\ NoFault
    /\ UNCHANGED <<row, trig, sweep, tries, late, history>>

(* write_success: acked whatever the answer; claim_lost is reported. *)
SuccessAnswered(w) ==
    LET r == on[w]  q == SuccessRequest(tok[w]) IN
    /\ pc[w] = "finish"
    /\ Write(r, q)
    /\ acked' = IF Outcome(row[r], q) = "claim_lost" THEN acked
                ELSE [acked EXCEPT ![r] = @ + 1]
    /\ Ack(w)
    /\ UNCHANGED <<trig, sweep, faults>>

(* Mutant: one more retry than there are delays. *)
DelaysLeft_OffByOne(w) == tries[w] <= SuccessRetries

(* next(delays, None) is not None. *)
DelaysLeft(w) == tries[w] < SuccessRetries

(* A failed attempt is retried in place with the same token, a bounded     *)
(* number of times; it may have been applied.  The last one nacks.         *)
SuccessRaises(w) ==
    LET r == on[w]  q == SuccessRequest(tok[w]) IN
    /\ pc[w] = "finish"
    /\ \/ Raises(r, q)
       \/ Fault /\ Write(r, q)
    /\ \/ /\ DelaysLeft(w)
          /\ tries' = [tries EXCEPT ![w] = @ + 1]
          /\ UNCHANGED <<pc, on, tok, queue, lapsed>>
       \/ ~DelaysLeft(w) /\ Nack(w)
    /\ UNCHANGED <<trig, sweep, acked>>

OpFailure(w) ==
    IF pc[w] = "fail_permanent"
    THEN FailureRequest(tok[w], "terminal", "permanent")
    ELSE FailureRequest(tok[w], "none", "transient")

(* The failure is recorded (or the claim was lost); only a permanent one   *)
(* is acked.                                                               *)
FailureAnswered(w) ==
    /\ pc[w] \in {"fail_transient", "fail_permanent"}
    /\ Write(on[w], OpFailure(w))
    /\ IF pc[w] = "fail_permanent" THEN Ack(w) ELSE Nack(w)
    /\ UNCHANGED <<trig, sweep, acked, faults>>

FailureRaises(w) ==
    /\ pc[w] \in {"fail_transient", "fail_permanent"}
    /\ Raises(on[w], OpFailure(w))
    /\ Nack(w)
    /\ UNCHANGED <<trig, sweep, acked>>

(* release_cancelled_claim: a cancelled run closes its claim on the way    *)
(* out if it can: a failure mid-op, a success once the op had finished.    *)
Cancel(w) ==
    LET q == IF pc[w] = "run"
             THEN FailureRequest(tok[w], "none", "interrupted")
             ELSE SuccessRequest(tok[w]) IN
    /\ pc[w] \in {"run", "finish"}
    /\ \/ Fault /\ Write(on[w], q)
       \/ Raises(on[w], q)
    /\ Nack(w)
    /\ UNCHANGED <<trig, sweep, acked>>

(* The process dies, or is cancelled where nothing catches it. *)
Crash(w) ==
    /\ pc[w] # "idle"
    /\ Fault
    /\ Nack(w)
    /\ UNCHANGED <<row, trig, sweep, late, acked>>

-----------------------------------------------------------------------------
(* Time *)

(* claimed_at falls behind now - LIFECYCLE_CLAIM_LEASE_MINUTES. *)
LeaseLapse(r) ==
    /\ row[r].status = "in_progress" /\ row[r].live
    /\ row' = [row EXCEPT ![r].live = FALSE]
    /\ lapsed' = lapsed \cup Holders(r)
    /\ UNCHANGED <<trig, queue, sweep, invocation, late, acked, faults>>

(* started_at recedes; an older row is never younger than a newer one. *)
Age(r) ==
    /\ row[r].status # "absent" /\ row[r].age < 2
    /\ \A q \in Rows : q < r => row[q].age > row[r].age
    /\ row' = [row EXCEPT ![r].age = @ + 1]
    /\ UNCHANGED <<trig, queue, sweep, invocation, late, history, faults>>

-----------------------------------------------------------------------------
Init ==
    /\ row = [r \in Rows |-> AbsentRow]
    /\ trig = {}
    /\ queue = [r \in Rows |-> 0]
    /\ sweep = {}
    /\ pc = [w \in Workers |-> "idle"]
    /\ on = [w \in Workers |-> 0]
    /\ tok = [w \in Workers |-> NoToken]
    /\ tries = [w \in Workers |-> 0]
    /\ late = {}
    /\ lapsed = {}
    /\ acked = [r \in Rows |-> 0]
    /\ faults = 0

RowStep(r) ==
    \/ AuditBegin(r) \/ Publish(r) \/ PublishLost(r)
    \/ Republish(r) \/ FailUnknownAction(r) \/ SweepRowFails(r)
    \/ Duplicate(r) \/ LeaseLapse(r) \/ Age(r)

WorkerStep(w) ==
    \/ \E r \in Rows : Deliver(w, r)
    \/ GateSkips(w) \/ GateOpens(w)
    \/ SkipWritten(w) \/ SkipRaises(w)
    \/ ClaimAnswered(w) \/ ClaimResent(w) \/ ClaimRaises(w)
    \/ OpReturns(w) \/ OpRaises(w)
    \/ SuccessAnswered(w) \/ SuccessRaises(w)
    \/ FailureAnswered(w) \/ FailureRaises(w)
    \/ Cancel(w) \/ Crash(w)

Next ==
    \/ \E r \in Rows : RowStep(r)
    \/ SweepList
    \/ \E w \in Workers : WorkerStep(w)
    \/ \E m \in late : LateLands(m)

(* Fairness: the cron fires, publishes complete, Pub/Sub keeps redelivering,*)
(* operations and answered calls return, and time passes.  Nothing makes a *)
(* fault happen.                                                           *)
Progress(w) ==
    \/ GateSkips(w) \/ GateOpens(w) \/ SkipWritten(w) \/ ClaimAnswered(w)
    \/ OpReturns(w) \/ OpRaises(w) \/ SuccessAnswered(w) \/ FailureAnswered(w)

Fairness ==
    /\ WF_vars(SweepList)
    /\ \A r \in Rows : /\ WF_vars(Publish(r))
                       /\ WF_vars(Republish(r))
                       /\ WF_vars(FailUnknownAction(r))
                       /\ WF_vars(LeaseLapse(r))
                       /\ WF_vars(Age(r))
                       /\ SF_vars(\E w \in Workers : Deliver(w, r))
    /\ \A w \in Workers : WF_vars(Progress(w))

Spec == Init /\ [][Next]_vars
FairSpec == Spec /\ Fairness

-----------------------------------------------------------------------------
(* Properties *)

(* Two invocations run the operation of one row at the same time only if   *)
(* the claim lease of one of them ran out while it was running, or the     *)
(* sweep closed its row, of a retired action, under it: the                *)
(* compare-and-swap of the claim, against redelivery, the sweep's          *)
(* republishing and requests that land late.                               *)
ExclusiveRun ==
    \A v, w \in Workers :
        v # w /\ pc[v] = "run" /\ pc[w] = "run" /\ on[v] = on[w]
        => v \in lapsed \/ w \in lapsed

(* As long as its lease has not run out, the claim of an invocation that   *)
(* has not closed its row stands on the row: nobody's write takes it away, *)
(* except that a dedup skip or the invocation's own success write may      *)
(* already have closed the row, and that the sweep closes the rows of a    *)
(* retired action over any claim.                                          *)
ClaimStands ==
    \A w \in Workers :
        pc[w] \in Holding /\ w \notin lapsed
        => LET a == row[on[w]] IN
           /\ a.token = tok[w]
           /\ \/ a.status = "in_progress" /\ a.live
              \/ a.status = "success" /\ a.stats \in {"skipped", tok[w]}

(* The count a successful row records is the one the holder of the claim   *)
(* on the row reported, never that of a run that was preempted.            *)
ResultIsHolders ==
    \A r \in Rows : row[r].status = "success"
                    => row[r].stats \in {"skipped", row[r].token}

(* At most one successful run of a row is acked without a claim_lost       *)
(* report: a duplicate run is never invisible.                             *)
NoSilentDuplicate == \A r \in Rows : acked[r] <= 1

(* A row closed as skipped stands beside a row of the same organisation    *)
(* and action that a real run closed with success.                         *)
SkipBackedByRun ==
    \A r \in Rows : row[r].stats = "skipped"
        => \E q \in Rows : /\ q # r /\ Key[q] = Key[r]
                           /\ row[q].status = "success"
                           /\ row[q].stats \in Tokens

(* No write, on time or late, changes a row that has reached success: its  *)
(* result, claim and error stay; only its age goes on.                     *)
SuccessKept ==
    \A r \in Rows : row[r].status = "success"
        => row'[r] \in {row[r], [row[r] EXCEPT !.age = @ + 1]}
SuccessIsFinal == [][SuccessKept]_vars

(* The work on r is not over: the row is claimed, or its last failure is   *)
(* one that redelivery is to retry.                                        *)
Unfinished(r) ==
    \/ row[r].status = "in_progress"
    \/ row[r].status = "failure" /\ row[r].err \in {"transient", "interrupted"}

(* A message will bring r back: it is deliverable, or with an invocation   *)
(* that has yet to claim the row or still has the claim on it.             *)
Carried(r) ==
    \/ queue[r] > 0
    \/ \E w \in Workers : /\ pc[w] # "idle" /\ on[w] = r
                          /\ pc[w] \in Holding => tok[w] = row[r].token

Orphaned(r) == Unfinished(r) /\ ~Carried(r)

(* A claim whose sender gave up lands on r in this step. *)
LateClaim(r) ==
    \E m \in late : m \notin late' /\ m[1] = r /\ m[2].status = "in_progress"

(* Unfinished work keeps a copy of its message: neither a claim conflict,  *)
(* a lost claim, a takeover, a crash, the sweep's close nor a late result  *)
(* leaves a row that only its message can finish without one (the sweep    *)
(* looks at pending rows only).  The one exception is the claim that lands *)
(* late.  An ack retires the copy it was sent for; acks that retire a copy *)
(* delivered elsewhere since are outside the model (README, section 2).    *)
NothingDropped == \A r \in Rows : Orphaned(r)' => Orphaned(r) \/ LateClaim(r)
WorkNotDropped == [][NothingDropped]_vars

(* A delivery that ends without a fault leaves no claim of its own behind: *)
(* a claim applied and sent again because its answer was lost is not taken *)
(* for a competitor's, and no answered close leaves the row in progress    *)
(* under a token that nobody holds any more (_run_action).                 *)
NothingLeft ==
    \A w \in Workers :
        pc[w] # "idle" /\ pc'[w] = "idle" /\ tok[w] # NoToken /\ faults' = faults
        => ~(row'[on[w]].status = "in_progress" /\ row'[on[w]].token = tok[w])
NoClaimLeftBehind == [][NothingLeft]_vars

(* Every row of the fanout ends, for good, at success or failure: neither  *)
(* a lost publish, a crash nor a claim conflict strands it.                *)
FanoutRowsSettle ==
    \A r \in Fanout :
        <>[](row[r].status \in {"absent", "success", "failure"})

(* Redelivery on a claim conflict is not a livelock: the deliveries of     *)
(* every row end and what the consumers subscribe to drains.               *)
DeliveriesDrain ==
    <>[](\A w \in Workers : pc[w] = "idle")
    /\ \A r \in Consumed : <>[](queue[r] = 0)

(* A row that reads "skipped because already done" was not also worked on: *)
(* what _run_action's docstring tells observers of stats.skipped.          *)
SkippedMeansNoRun ==
    \A r \in Rows : row[r].stats = "skipped"
        => ~\E w \in Workers : pc[w] \in {"run", "finish"} /\ on[w] = r

(* stats.terminal on a failure says that the failure recorded on the row   *)
(* is permanent and nothing will retry it.                                 *)
TerminalMeansPermanent ==
    \A r \in Rows : row[r].status = "failure" /\ row[r].stats = "terminal"
                    => row[r].err = "permanent"
=============================================================================

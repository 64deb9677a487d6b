# Caura: TLA+ models, checks and proofs

Caura is a memory service for agents. This directory holds TLA+ models of the
protocols its correctness rests on, TLC configurations that check them on small
instances, and TLAPS proofs that hold for every instance. Paths below are
relative to the repository root (`src/` in `PROJECT.json`).

## 1. The system

| Component | State it keeps | Operations | Talks to |
|---|---|---|---|
| **core-operations** (`scheduler.py`, `lease.py`, `tasks.py`) | in-process task loops, no datastore | wall-clock aligned ticks, tick lease, fire an endpoint of core-api | core-api over HTTP |
| **core-api lifecycle routes** (`routes/lifecycle.py`) | none | fanout, manual trigger, reconcile sweep | core-storage-api (audit rows), Pub/Sub |
| **lifecycle consumers** (`common/events/lifecycle_handlers.py`, in core-api and core-worker) | one invocation per delivery: claim token, retries left | dedup gate, claim, run, success / failure / skip write, release on cancel | core-storage-api |
| **core-storage-api** (`services/postgres_service.py`) | Postgres: `lifecycle_audit`, `idempotency_responses`, memories, ... | one SQL statement or transaction per call | - |
| **idempotency inbox** (`core_api/middleware/idempotency.py`) | one guard per request: key, hash, claimed | lookup, claim, poll, replay, record, release | core-storage-api |
| **event bus** (`common/events/pubsub.py`) | subscriptions, unacked deliveries | publish, pull, dispatch, ack / nack, lease keeping, drain | Pub/Sub |
| **core-worker** (`consumer.py`) | none | embed, enrich, backfill consumers | bus, core-storage-api |
| **per-tenant slots, audit hash chain, skill lifecycle, memory pipelines** | see `PROJECT.json` | | |
| **clients/, plugin/** | SDKs, collaboration clients, host plugin | | core-api |

What is hard here is not one function but what lies between the calls. HTTP
calls are retried and may have been applied when they fail, or land after
their sender gave up. Pub/Sub delivers at least once, and a publish may be
dropped after `publish()` returned. A consumer can be cancelled by a shutdown,
or die, at any `await`. Leases and TTLs run out under a slow holder. The
comments of the code record production incidents for most of these.
`PROJECT.json` lists them as hazards, each at its line.

What makes each part correct:

* *Lifecycle protocol*: one run per audit row at a time; the row's result is
  that of the run that holds the row; duplicate runs are visible; success is
  final; no row the nightly fanout wrote is stranded.
* *Idempotency inbox*: a write is repeated only when something the design
  accepts has happened; a replay belongs to the same body; no dead claim blocks
  a key for good.
* *Scheduler*: a tick is not lost for lack of a coordinator, and fires once when
  clocks agree within the lease.
* *Event bus*: a message is acked only if its handlers succeeded; a nack keeps
  its backoff; shutdown hands back what was not handled.

## 2. Plan

Done, in this order:

1. `LifecycleAudit` (+ `MCLifecycleAudit`, `LifecycleAuditProofs`,
   `LifecycleWorkProofs`)
2. `Idempotency` (+ `MCIdempotency`, `IdempotencyProofs`) and the abstract
   specification `WriteOnce` it implements (`WriteOnceProofs`)
3. `EventBus` (+ `MCEventBus`, `EventBusProofs`) and the abstract specification
   `Delivery` it implements
4. `TickLease` (+ `MCTickLease`, `TickLeaseProofs`)

Left, in the order of what they would add:

5. The embed / enrich consumer of core-worker: results computed from one version
   of a memory and written over another.
6. The audit hash chain: appends under a per-tenant lock, and verification.
7. Per-tenant slots: a bounded counter with a queue.
8. The composition of 1 and 3. `LifecycleAudit` uses a bag of deliverable copies
   as its bus. It is weaker than `Delivery`: any copy may be duplicated, and a
   publish may be lost. Stating that as a refinement needs a common message type.
   In one respect it is stronger: a worker's ack retires its own copy only, while
   `EventBus` lets a stale acknowledgement, sent under an earlier delivery, retire
   a message another process has meanwhile received. A preempted run that acks on
   `claim_lost` could then take the message from under the run that took the row
   over; if that one dies, the row is left without a message. `WorkNotDropped`
   below holds for the bag of copies and does not speak of this.

## 3. `LifecycleAudit`: nightly jobs and their audit rows

### State and actions

| Model | Code |
|---|---|
| `row[r]` | one `lifecycle_audit` row. `live`: `claimed_at` is younger than the claim lease. `stats`: none, skipped, terminal, or the count reported by the run with that token. `err`: the class of `error_message`. `age`: `started_at` against the sweep's and the gate's thresholds |
| `trig` | rows between `audit_begin` and the publish in `_trigger_one` |
| `queue[r]` | copies of the row's message that Pub/Sub may deliver |
| `sweep` | rows the running reconcile sweep has listed and not handled |
| `pc, on, tok, tries` | a handler invocation: phase, row, claim token, failed success writes |
| `late` | requests whose sender gave up and that may still reach storage |
| `lapsed`, `acked` | history: holders whose lease ran out or that the sweep overruled; successful runs acked without a `claim_lost` report |

`Admits`, `Written` and `Outcome` are the WHERE clause, the SET clause and the
answer of `lifecycle_audit_finalize`. The model applies them in one step, as the
single UPDATE does. `HasRecentSuccess` and `ListStranded` are the two queries.
The actions follow `_run_action`:

    Deliver -> GateSkips -> SkipWritten | SkipRaises
            -> GateOpens -> ClaimAnswered | ClaimResent | ClaimRaises
                         -> OpReturns -> SuccessAnswered | SuccessRaises
                         -> OpRaises  -> FailureAnswered | FailureRaises
    Cancel and Crash may interrupt it.

The core-api side is `AuditBegin`, `Publish`, `PublishLost`, `SweepList`,
`Republish`, `FailUnknownAction` and `SweepRowFails`. Time is `LeaseLapse` and
`Age`. The bus is `Duplicate`, with acks and nacks inside the consumer's
actions. A failed call (`Raises`) was either never applied or is still in
flight. `LateLands` applies such a call at any later time. An applied call whose
answer was lost and that is re-sent is `ClaimResent` for a claim, and the
second alternative of `SuccessRaises` for a success.

Three registries decide what happens to a row's action, each of a process of its
own and not deployed at the same instant. `Published` and `Retired` are the rows
whose action is, or is no longer, in the publisher registry of the core-api that
sweeps; a row is in both while two versions of core-api are up. `Consumed` are the
rows whose action some consumer subscribes to, which may outlive the publisher's
entry. So the sweep may close, naming no token, a row that a consumer has claimed
since the sweep listed it. `Overruled` records whose claim that was; the
properties below except it by name, through `lapsed`.

`HasRecentSuccess` reads a replica. Lag makes the gate miss a success, which is
the faulty alternative of `GateOpens`. Reading `pending` late is covered because
`Republish` acts on a list without looking at the row again.

### Properties

| Property | Says |
|---|---|
| `ExclusiveRun` | two runs of a row overlap only past a lapsed lease, or the sweep's close of a retired action's row |
| `ClaimStands` | an unexpired claim is not taken away by anybody's write, that same close excepted |
| `ResultIsHolders` | the recorded count is that of the claim's holder |
| `NoSilentDuplicate` | at most one successful run of a row is acked without a `claim_lost` report |
| `SkipBackedByRun` | a skipped row stands beside a real success of its organisation and action |
| `SuccessIsFinal` | no write changes a successful row |
| `WorkNotDropped` | a row in progress, or failed and to be retried, keeps a message or an invocation that still has it; only a claim that lands late breaks this (finding `late_claim`) |
| `NoClaimLeftBehind` | a delivery that ends without a fault leaves no claim of its own on the row: a claim that was applied and is sent again is not taken for a competitor's |
| `FanoutRowsSettle` | every fanout row ends at success or failure for good |
| `DeliveriesDrain` | redelivery on a claim conflict is not a livelock |

### Runs

* `claim`: one row, two concurrent deliveries, six tokens, three faults, one late
  request, one in-place retry of the success write. Two deliveries are what the
  claim is about. Three faults suffice for a duplicate of the message, a lost or
  re-sent claim and a lost success; takeovers past a lapsed lease take none. The
  row's action is published, retired and consumed, so a sweep may close the row
  while a delivery runs it.
* `gate`: two rows of one key behind the gate, two faults, one late request.
  `WorkNotDropped` is checked here, where the late claim that is its exception,
  a takeover and a skip over a running delivery all happen, and
  `NoClaimLeftBehind`, whose mutant drops the own-token arm of the claim.
* `settle` (fair): two fanout rows, the older one of a retired action that nobody
  consumes any more, a sweep of one row at a time, two faults. The older row must be closed, or it fills the
  window of every sweep and starves the younger. `MaxLate` is 0 here, because of
  finding `late_claim`.
* `skip_over_run`, `stale_terminal`, `late_claim`: see the findings.

*Fairness.* The cron fires the sweep again and again. A publish completes if it
is not lost. An invocation that is not interrupted goes on: its calls carry
timeouts and its operation is assumed to end. Time passes. Pub/Sub keeps
redelivering an unacked message, and while a nacked delivery occupies the only
free worker another copy must still get its turn, hence strong fairness on
`Deliver`. No fault is fair. Dead-lettering after a number of attempts is a
setting of the subscription and not in the code; it is not modelled.

`CHECK_DEADLOCK FALSE`: once every row is closed and every message acked nothing
is left to do.

## 4. `Idempotency`: the Idempotency-Key inbox

### State and actions

One stored key (`stored_key`). Different keys are different rows and no statement
touches two. `slot` is the key's row in `idempotency_responses`; `by` and
`owner` name whose response it holds and who claimed it (`owner` is history: the
row does not store it, which is what finding `stale_record` is about). `pc` is
where each request is in `idempotency_for_hash`, `_poll_until_complete`, its
handler, `record` or `release`; `claimed` is the guard's `_claimed`. A client
sends its write again, same key and body, when its answer says so or when it
never got one.

`Claim`, `Record` and `Release` are the three statements of storage. `Found` is
the filter of `idempotency_get`. `ReadExisting` is separate from `ClaimLost`
because the claim route reads the conflicting row in a second transaction.
`HandlerCommits` is the write taking effect and `HandlerReturns` the handler's
return. Between and around them `HandlerRaises` and `Cancel` may strike, with
the write possibly still in flight (`late`). A cancelled request releases
nothing, as `release_claim_on_error` catches `Exception` only. A refused
per-tenant slot is a handler that raises before its write.

### Properties

`DuplicatesExcused` counts `commits` against `excuses`, the events after which
the design accepts another run:

* a row expired (a pending claim past its TTL, or a response past its 24 h);
* the lookup or the claim call failed and the handler ran unclaimed;
* the handler raised once its write was on its way, so the claim was released;
* a release was applied, its answer lost, and sent again by the HTTP client.

Everything else (races, cancellations, clean failures, lost records, late calls,
retries) must not repeat a write. `OneHandler`: without an excuse one handler at
a time. `ReplaySameBody`, `ResponseStands`: what is replayed and how long it
stands. `RecordOwnUnlessExcused`: without an excuse a response completes the
claim it was produced under. With one it need not: `RecordIsOwn`, checked by
`stale_record`, is what the docstring still promises then. It allows a record
that finds its row purged and inserts one of its own, which nobody claimed. `RetriesSettle`: a retrying client ends with a final
answer.

`KeepsPromise` is the refinement of `WriteOnce`, which states what the clients of
a key see and nothing of rows, claims and polls: the write takes effect once, and
once more per excuse; each response handed out as a fresh one belongs to an
effect of its own; a replay carries the response to a request with the same body
and comes after an effect; a mismatch is reported only if another body uses the
key; these answers are never taken back, and any other answer invites a retry.
The mapping is the identity on `ans`, `from`, `commits` and `excuses`; `fresh`
is the number of clients whose answer is their own.

### Runs

* `once`: two senders of one body and one of another, two polls, two faults and
  one late call. Symmetry is over the two equal senders.
* `retries` (fair): the same clients, one fault. Fairness: calls that do not fail
  are answered, handlers end, clients told to retry do, and a *pending* claim's
  TTL runs out. Nothing is assumed of the purge or of the response's TTL.
* `stale_record`: see the findings.

## 5. `EventBus` and `Delivery`: the pull side of the event bus

Several processes consume one subscription. Each runs `_pull_loop`: it pulls a
batch, spawns a lease keeper (`_hold_leases`), dispatches the messages one by
one, awaits the keeper, and only then sends one acknowledge and the negative
acknowledgements. `start()`, `stop_consuming()` and `stop()` run beside it in the
same event loop.

### State and actions

| Model | Code |
|---|---|
| `fate, kind, attempt, lease` | the broker (external): pending, acked or dead; whether the loop dispatches, drops or may replace the message; deliveries so far; ticks until it may be delivered again. An ack id is the pair of message and attempt |
| `held[i][m]` | the attempt under which process `i` holds `m` in its batch |
| `verdict[i][m]` | to ack, to nack with its backoff, or to hand back at once |
| `running[i]` | the message whose handlers are awaited |
| `keeper[i]`, `timer[i]` | the keeper waits for its interval, or has an extension on a thread |
| `pc[i]` | pull, batch, drain the keeper, ack, nack, back off, ended |
| `life[i]` | `_started`, `_stopped`, `_draining`, the stop generation and where `stop()` stands |
| `failed[i]` | the subscription is in `_failed_subscriptions` |
| `late` | requests left on executor threads: cancelling a coroutine does not stop its thread |
| `handled, replaced, lapsed, backoff, quiet` | history, read by the properties |

    Pull -> (HandBack | Drop | Dispatch -> HandlersSucceed | HandlersFail
                                         | HandlersReplace | HandlersCancelled)*
         -> BatchDispatched -> KeeperDrained -> SendAcks -> SendNacks* -> BatchSettled
    PullEmpty, PullDenied, SettleError, SettleDenied, BackoffOver are the errors.
    RefreshSent -> RefreshLanded | RefreshFailed is the keeper; it goes on
    refreshing while a cancelled handler unwinds.

The broker ignores a deadline for an ack id that is no longer current; for one
whose lease has run out it may do either; a stale acknowledgement may or may not
be honoured. `PullLost` is a pull whose answer nobody reads. `Abandon` is what a
cancel, an error or a crash leaves: the batch unsettled and, perhaps, requests
on threads. After a failed settle the loop backs off, except from
`DeadlineExceeded`, when it goes straight back to the `while` test.

`stop()` may overtake a suspended `start()` (`StopOvertakes`, `StartAborts`), may
time out on a batch (`GraceOver`, `Unwound`), and may itself be cancelled
(`StopInterrupted`), after which the flags keep `start()` from doing anything.

### Properties

| Property | Says |
|---|---|
| `OneWorkerPerMessage` | two processes run the handlers of one message at once only past a failed extension, however long the handlers take |
| `BatchKept` | while a process works on a batch and its extensions land, no message of the batch is delivered again, even to a reader that went away, or dead-lettered |
| `NackBackoffKept` | no lease extension lands behind the nack of the same delivery |
| `QuietAfterStop` | once a stop has returned no handler runs and no loop consumes, until `start()` |
| `HaltIsUnhealthy` | a loop that ended or was never installed is not reported healthy |
| `DeliversAtLeastOnce` | refinement: an acknowledged message had been answered for (handlers succeeded, replacement confirmed, or dropped by rule), is retired once and does not come back |
| `Settles` | as long as some process reports healthy the backlog is emptied, again and again |

The refinement maps `fate` to itself and `answered` to
`handled \cup replaced \cup Dropped`. `Dropped` are the messages that `_pull_loop`
acknowledges without dispatch: other environments' and undecodable ones.

### Runs and bounds

* `bus_workers`: two processes, one message, two deliveries, two calls of
  `start()`. The ack deadline (3) outlasts the first refresh (1) and the RPC
  (1) by one tick, as do the extension (4) and the interval (2): one tick more
  of either would break the lease. Two processes and one message suffice for a
  property about one message and a pair of processes.
* `bus_delivery` (fair): one process, a message and its replacement, batches of
  two. The time bounds are the smallest that satisfy the assumption, because
  the refinement and `Settles` do not depend on them.

*Timing assumptions*, named in the module: the event loop is responsive and an
extension reaches the broker within `RpcBound` or fails; the time a pull answer
travels is part of `AckDeadline`; `LeaseAssumption` relates the constants as the
comment at `pubsub.py` 97-116 does. `DoublingAssumption` says that powers of two
are naturals, which the provers do not know.

*Fairness.* Time passes, the broker dead-letters, and the event loop runs what is
ready: the pull loop (which includes that handlers end and requests return), the
keeper and a suspended `start()`. No error, crash or stop is fair, nor is a
`start()` by an operator, hence "reports healthy" in `Settles`.

Deadlock is checked, but says little: time can pass unless a keeper's timer has
run out, and then the keeper or the loop can move. That work gets done is what
`Settles` says.

## 6. `TickLease`: aligned ticks of a replicated scheduler

### State and actions

One task; tasks share nothing and each has its own key. `Mark(k)` is the k-th
instant the delay providers aim at (`Anchor` stands for the hour, minute or
weekday) and `NextSlot` what they compute. Each time a replica goes to sleep it
reads a wall clock that is 0 to `Skew` ahead of real time. The offset is chosen
anew at each reading, which covers clocks that differ and clocks corrected in
between. The delay then runs on the monotonic clock.

| Model | Code |
|---|---|
| `Boot`, `Wake`, `Finish`, `Halt` | the loop of `_run`, its start, and `stop()` or death of the process |
| `Granted`, `Denied`, `FailOpen` | the three answers of `_claim` and `claim_tick_lease`; every failure means "run" |
| `Claim`, `ClaimUnguarded` | the endpoint, with Redis answering, or away or raising |
| `ClaimResent` | the answer to `SET NX` is lost inside the Redis client, which sends the command again and is refused for the key it has just set |
| `SetNx`, `until`, `Ttl` | `SET key NX EX ttl`; the key is never released |
| `orphans`, `LateClaim` | claims whose caller timed out or was stopped and that still reach Redis, within `RequestLife` |
| `claims, fires, open, denied, abandoned` | history, read by the properties |

### Properties

* `FiresBounded`: a tick runs once, and once more for each run that was not
  guarded by the key. Skew, clock corrections, restarts and late claims add none.
* `NoTickLost`: a tick somebody was told to skip has run, is about to, or the
  replica that set the key gave it up: it was stopped while asking, or was refused
  for its own key. Since one key serves all
  ticks of a task, this includes that the lease of one tick is gone before the
  next.
* `TickServed`: a replica stops waiting for a tick only if it is itself stopped,
  or the tick has run, is about to, or falls under the same exception. It is the
  safety half of `TickRuns`: no answer, error or clock makes everybody pass.
* `TickRuns` (liveness): a replica that sleeps to a tick sees it run, here or
  elsewhere, with the same exception, or is itself stopped.

The exception (`abandoned`) is real. "Never released" costs the tick of a replica
that dies between the grant and the run. A re-sent `SET NX` costs more: the
replica that set the key is told to skip, like everybody else, and the tick is
lost without any process having failed. `_get_redis` (`cache.py` 68) passes no
retry setting to the Redis client; whether its defaults re-send a command whose
answer was lost is not decided in this repository, so the model allows it.

### Run and bounds

`ticks` (fair): two replicas, three marks of which the last is the horizon, a
period of 5, a TTL of 3 and a spread (`Skew + RequestLife`) of 2, the largest
`SpreadAssumption` allows. With one tick more two replicas may both be granted
the tick. Two marks are what the next-tick part needs. Time stops before the
horizon; `TickRuns` speaks of the marks before it.

*Fairness.* Time passes, sleeps end, and a claim is answered or times out (the
client's timeout). `Finish` is not fair: a task may hang.

## 7. Findings

* `skip_over_run`: the skip write names no claim token and closes a row another
  delivery is running.
* `stale_terminal`: a transient failure after a permanent one leaves
  `stats.terminal` on the row.
* `late_claim`: a claim request that lands after its sender gave up leaves a row
  `in_progress` with no message, where the sweep does not look.
* `stale_record`: a record for an expired claim completes the claim of a
  same-body retry.

The quoted comments and docstrings are in `PROJECT.json`.

Two of them have a proved boundary. `NoOrphans`: where no request outlives its
sender there is no row like the one of `late_claim`, and `NoWorkDropped`: a late
claim is the only step that makes one. `RecordsOwnClaim`: `stale_record` takes an
expiry, a call that failed, a handler that raised with its write on its way, or a
release sent twice.

## 8. Proofs

The six proof modules hold for any finite set of rows, clients or messages, any
workers, processes and replicas and any bounds, from the assumptions named in
the modules: ids are positive naturals, the subsets are subsets, `NoToken` is no
token and no token is one of the three `stats` words, `Nobody` is no client,
`NoMessage` is no message, the bounds are naturals, and the timing assumptions of
sections 5 and 6.

`LifecycleAuditProofs`. `ClaimStands` is not inductive: another invocation, or a
request in flight, could hold the same token, or a write could clear it. `IInv`
adds

* `TokenInv`: who has a token, and that no two have the same;
* `LateInv`: what may be in flight, the sweep's close included; the only request
  of an invocation that has not ended is a success it is still retrying;
* `ClaimedInv`: a token on a row is never erased, so "the row has no token" is
  not a way round the guard of a terminal write;
* `ResultInv`, `AckedInv`, `SkipInv`: the strengthenings of `ResultIsHolders`,
  `NoSilentDuplicate` and `SkipBackedByRun` that take the requests in flight and
  the invocations about to write into account.

A first group of lemmas says what one PATCH does to a row (`FinalizeSuccess`,
`FinalizeLiveClaim`, `FinalizeClaim`, `FinalizeCount`, ...). A second gives the
shape of every step (`WorkerShape`, `ElsewhereShape`), so that each conjunct is
proved against a handful of shapes instead of 25 actions. Results: `TypeCorrect`,
`ClaimSafe`, `ExclusiveRunSafe`, `ResultSafe`, `DuplicatesReported`, `SkipSafe`,
`SuccessFinal`.

`LifecycleWorkProofs`. An ack is harmless if the row is closed, or if the claim on
it is somebody else's, whose own copy is still there. What `IInv` does not exclude
is a failure that lands late and turns a row that was closed, and whose message
was acked, into one that has to be retried. `FlightInv` does: a failure that a
consumer left in flight is the only request with its token, and if it would still
be admitted, a copy of the message is waiting (deliverable, or with an invocation
that has yet to claim). Its sender nacked, and the copy it gave back is acked only
over a success or after a claim with another token.

`DropStep` then shows, action by action, that a row an ack, nack, crash, close of
the sweep or late write leaves unfinished keeps a carrier. Results:
`LateFailureCarried` (the invariant), `NoWorkDropped` (`WorkNotDropped`),
`NoOrphans`, which has the hypothesis `MaxLate = 0` (that instance is the one of
the `settle` run), and `NoClaimLeft` (`NoClaimLeftBehind`).

`IdempotencyProofs`. `DuplicatesExcused` follows from a potential:

    commits + |requests that may still commit or free the key|
            + |late calls that may|  +  (1 if the key is free)  <=  1 + excuses

(`Budget`). Each step either moves a unit from one term to another or pays with
an excuse. `Moving`, `Leaving`, `Freeing` and `BudgetMove` are the bookkeeping.
`RowInv` adds what a completed row says. Results: `TypeCorrect`, `OncePerExcuse`,
`OneHandlerSafe`, `ReplaySafe`, `ResponseSafe`.

`WriteOnceProofs`. `RequestShape` and `OtherShape` reduce the 20 actions to what
a step shows the clients: a request moves on unanswered, commits, gets an answer
or is sent again; or only the row, the late calls or the excuses change. For the
refinement, `AnswerInv` counts: the requests past their commit and the clients
with an answer of their own number at most `commits`, so that `Own` always has an
effect to belong to; a request under way has no answer; a row's hash is some
client's, which is what a mismatch needs. `Room` takes the other bound, `commits`
at most `excuses` before an effect, from `Budget`. `AnswerAllowed` and
`PromiseStep` put the cases together. `OwnerInv`, for `RecordsOwnClaim`: without
an excuse the row has not expired, a request that runs, records or releases owns
the pending row and no call in flight can end that claim, and a call in flight
that can is the only one and its sender owns the row. Results: `ImplementsWriteOnce`
(`KeepsPromise`), `FreshResponses`, `FinalAnswersStand`, `RecordsOwnClaim`
(`RecordOwnUnlessExcused`).

`EventBusProofs`. `OneWorkerPerMessage` needs to know that a process whose
extensions all landed holds the *current* ack id under a running lease. `IInv`
has these parts:

* `ShapeInv`: which of batch, keeper and running message go with which `pc`;
* `LifeInv`: which `pc` goes with which `life`, and the two lifecycle properties;
* `HeldInv`: attempts held are at most the broker's, and no two processes hold
  the same ack id;
* `LateInv`: a request on a thread is for an id no process holds any more, and
  no extension is on its way for a nacked delivery;
* `LeaseInv`: without a failed extension, the lease outlasts the keeper's timer
  plus the RPC;
* `WorkerInv`: two processes have the same message in the batches they work on
  only past a failed extension;
* `AnswerInv`: whatever is about to be acked, here or on a thread, is answered.

Each part has a lemma that every step preserves it (`ShapeStep`, ..., one case
per action). `SetDeadlineEffect`, `AcknowledgeEffect`, `LateEffect` and
`NacksEffect` say what a request does at the broker. For the refinement, `Stutter`
and `AckMaps` are the two recurring cases and `DeliveryStep` goes through the
actions. Results: `TypeCorrect`, `OneWorker`, `BackoffKept`, `StopIsQuiet`,
`NoSilentHalt`, `ImplementsDelivery`, and `BatchStaysLeased` (`BatchKept`):
`TakenBack` says that only a message whose lease has run out is delivered again
or dead-lettered, and `LeaseInv` that the lease of a batch in work has not.

`TickLeaseProofs`. Everything that is done for mark `k` happens in a window: a
claim for `k` reaches Redis between `Mark(k) - Skew` and `Mark(k) + RequestLife`
(`TimeInv`). The key set by one claim outlives the window of its mark
(`SpreadAssumption`), so a second claim for the mark finds it; and it is gone
before the window of the next, because the TTL is at most half the period,
rounded up, and the spread is less than the TTL (`KeyInv`). `CountInv` counts
guarded runs against claims, and `LossInv` strengthens `NoTickLost` by the
answers not yet heard; a re-sent claim sets the key and is told "no", which the
mark's entry in `abandoned` accounts for. Results: `InductiveInvariant`, `TypeCorrect`,
`RunsAreBounded` (`FiresBounded`), `NothingSwallowed` (`NoTickLost`),
`NobodyPasses` (`TickServed`).

Only model-checked: the liveness properties (`FanoutRowsSettle`,
`DeliveriesDrain`, `RetriesSettle`, `Settles`, `TickRuns`), which need fairness
and `ENABLED`. `TickServed` and `WorkNotDropped` are their safety halves where there
is one: what may never happen on the way.

## 9. Not modelled, and why

* The 404 branch of the claim ("row gone, run anyway"): rows go only with their
  tenant. A malformed payload is dropped before any state is touched.
* The process-wide fanout semaphore: it bounds load, not outcomes.
* The embed-backfill consumer's use of the audit row (`consumer.py`): planned
  with the worker.
* Overlapping sweeps: `sweep` is one set. What a second sweep could add, another
  copy of a message, is `Duplicate`.
* Acks that retire a copy delivered elsewhere since (section 2, item 8):
  `WorkNotDropped` and its theorem do not cover them.
* An earlier copy of a re-sent PATCH that lands after the later copy was
  answered: earlier copies take effect before the answer.
* Event bus: creation and release of broadcast subscriptions (and the `NotFound`
  a loop meets when its own was released), the publisher's client and executor,
  the in-process bus of development, and two corners of shutdown:
  `stop_consuming()` alone while `start()` is suspended, and `stop_consuming()`
  itself cancelled.
* Scheduler: interval mode, which no registered task uses and the lease does not
  cover; registration, which ends before the loop starts; a tick fired by hand;
  Redis losing the key, which breaks `FiresBounded` by design, as the cache is not
  durable. A `SET NX` that the Redis client sends again is modelled
  (`ClaimResent`): without the exception for it, `NoTickLost`, `TickServed` and
  `TickRuns` would not hold.
* The parts listed as `not_modelled` in `PROJECT.json`. Most of the repository is
  SQL, LLM prompts and content processing, request and response schemas, search
  ranking, clients and scripts. It has little state between its steps, and what
  it computes is data a model would have to leave abstract. The models cover the
  protocols between the parts instead, so they stand for a small share of the
  lines.

## 10. Running

    tlc -workers 2 -config LifecycleAudit_claim.cfg MCLifecycleAudit
    tlc -workers 2 -config Idempotency_once.cfg     MCIdempotency
    tlc -workers 2 -config EventBus_workers.cfg     MCEventBus
    tlc -workers 2 -config TickLease_ticks.cfg      MCTickLease
    tlapm LifecycleAuditProofs.tla    (and the other five)

The other configurations are run in the same way; the runs that expect a
violation are the ones of section 7.

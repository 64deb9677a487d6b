------------------------------ MODULE EventBus ------------------------------
(***************************************************************************)
(* The pull side of PubSubEventBus (common/events/pubsub.py): several      *)
(* processes consume one subscription.  Each runs a pull loop that takes a *)
(* batch, keeps its leases alive with a background keeper while it         *)
(* dispatches the messages one by one, and acknowledges or negatively      *)
(* acknowledges them only when the whole batch is done.                    *)
(*                                                                         *)
(* The broker (Google Pub/Sub) is external: a message is delivered under   *)
(* an ack id, here the pair of the message and its delivery attempt, is    *)
(* invisible while its lease runs, and is delivered again when the lease   *)
(* runs out.  Time is counted in ticks.                                    *)
(***************************************************************************)
EXTENDS Naturals, FiniteSets

CONSTANTS
    Instances,        \* processes running a pull loop on the subscription
    Messages,         \* message ids
    Produced,         \* the ones producers publish; the rest are replacements
    ProducedKinds,    \* the kinds of message they publish
    NoMessage,        \* "no handler is running"
    MaxMessages,      \* max_messages of one pull
    MaxAttempts,      \* max_delivery_attempts of the dead-letter policy
    AckDeadline,      \* ack deadline a pulled message starts with
    FirstRefresh,     \* LEASE_FIRST_REFRESH_SECONDS
    RefreshInterval,  \* LEASE_REFRESH_INTERVAL_SECONDS
    LeaseExtension,   \* LEASE_EXTENSION_SECONDS
    RpcBound,         \* longest a lease extension takes to reach the broker
    NackBase,         \* NACK_BACKOFF_BASE_SECONDS
    NackMax,          \* NACK_BACKOFF_MAX_SECONDS
    MaxStarts         \* bound on the number of start() calls

\* A message is dispatched, or it is not ours or cannot be decoded and is
\* dropped; a legacy one is an enrich request that carries plaintext keys.
Kinds == {"plain", "legacy", "unwanted"}

ASSUME MessagesAssumption ==
    NoMessage \notin Messages /\ Produced \subseteq Messages /\ ProducedKinds \subseteq Kinds

ASSUME BoundsAssumption ==
    /\ MaxMessages \in Nat /\ MaxAttempts \in Nat /\ MaxStarts \in Nat
    /\ RpcBound \in Nat /\ NackMax \in Nat /\ NackBase \in Nat

\* Powers of two are numbers: arithmetic the provers do not know of.
ASSUME DoublingAssumption == \A k \in 0..16 : 2 ^ k \in Nat

\* The initial deadline outlasts the first refresh and a slow RPC, and an
\* extension outlasts the interval to the next one (pubsub.py 97-116).
ASSUME LeaseAssumption ==
    /\ AckDeadline \in Nat /\ FirstRefresh \in Nat
    /\ RefreshInterval \in Nat /\ LeaseExtension \in Nat
    /\ FirstRefresh + RpcBound < AckDeadline
    /\ RefreshInterval + RpcBound < LeaseExtension

VARIABLES
    (* the broker *)
    fate,      \* fate[m]: "unpublished", "pending", "acked" or "dead"
    kind,      \* kind[m]: what the loop makes of m, fixed when published
    attempt,   \* attempt[m]: deliveries of m so far
    lease,     \* lease[m]: ticks until m may be delivered (again)
    late,      \* requests still on a thread whose coroutine was cancelled
    (* each process *)
    life,      \* life[i]: where start() / stop_consuming() / stop() stand
    failed,    \* failed[i]: the subscription is in _failed_subscriptions
    pc,        \* pc[i]: where the pull loop stands
    held,      \* held[i][m]: attempt under which i holds m, 0 when it does not
    verdict,   \* verdict[i][m]: what i decided about m in this batch
    running,   \* running[i]: the message whose handlers i is awaiting
    keeper,    \* keeper[i]: the lease keeper of the batch
    timer,     \* timer[i]: ticks to the next refresh, or left to its RPC
    starts,    \* start() calls so far, at most MaxStarts
    (* history, read by the properties only *)
    lapsed,    \* lapsed[i]: an extension of the current batch failed
    handled,   \* messages all of whose handlers once succeeded
    replaced,  \* messages whose encrypted replacement was published
    backoff,   \* backoff[m]: delays the nacks of the current delivery asked for
    quiet      \* quiet[i]: stop_consuming() or stop() returned, no start() since

broker  == <<fate, kind, attempt, lease, backoff>>
batch   == <<held, verdict, running, keeper, timer, lapsed>>
history == <<handled, replaced>>
vars    == <<broker, late, life, failed, pc, batch, starts, history, quiet>>

----------------------------------------------------------------------------
Verdicts == {"none", "ack", "nack", "return"}
Lives    == {"down", "starting", "overtaken", "up", "grace", "cancelling",
             "drained", "closing", "wedged"}
Pcs      == {"off", "pull", "batch", "drain", "ack", "nack", "backoff", "ended"}
Requests == {"extend", "ack", "nack", "return"}

\* A request of one kind under the ack id <<m, n>>.
Request == [what : Requests, msg : Messages, att : Nat]

AtMost(a, b) == IF a <= b THEN a ELSE b

\* The delay a nack of the n-th delivery asks for.
NackDelay(n) ==
    IF n <= 1 THEN NackBase
    ELSE AtMost(NackBase * 2 ^ AtMost(n - 1, 16), NackMax)

\* The deadline a verdict puts on the ack id: a message handed back during
\* shutdown asks for 0, a failed one for its backoff.
DeadlineOf(v, n) == IF v = "return" THEN 0 ELSE NackDelay(n)

Held(i)      == {m \in Messages : held[i][m] # 0}
Judged(i, v) == {m \in Held(i) : verdict[i][m] = v}
ToNack(i)    == Judged(i, "nack") \cup Judged(i, "return")

\* The task is in _dispatching.
Busy(i)    == pc[i] \in {"batch", "drain", "ack", "nack", "backoff"}

\* self._stopped or self._draining, as the for loop of _pull_loop reads them
Stopping(i) == life[i] # "up"

\* The loop stands at p and no cancel is pending on its task.
At(i, p) == pc[i] = p /\ life[i] # "cancelling"

\* The while test of _pull_loop.
LoopHead(i) == IF Stopping(i) THEN "ended" ELSE "pull"

IsHealthy(i) == life[i] = "up" /\ ~failed[i]

TypeOK ==
    /\ fate \in [Messages -> {"unpublished", "pending", "acked", "dead"}]
    /\ kind \in [Messages -> Kinds]
    /\ attempt \in [Messages -> Nat]
    /\ lease \in [Messages -> Nat]
    /\ late \subseteq Request
    /\ life \in [Instances -> Lives]
    /\ failed \in [Instances -> BOOLEAN]
    /\ pc \in [Instances -> Pcs]
    /\ held \in [Instances -> [Messages -> Nat]]
    /\ verdict \in [Instances -> [Messages -> Verdicts]]
    /\ running \in [Instances -> Messages \cup {NoMessage}]
    /\ keeper \in [Instances -> {"off", "wait", "rpc"}]
    /\ timer \in [Instances -> Nat]
    /\ starts \in 0..MaxStarts
    /\ lapsed \in [Instances -> BOOLEAN]
    /\ handled \subseteq Messages
    /\ replaced \subseteq Messages
    /\ backoff \in [Messages -> SUBSET Nat]
    /\ quiet \in [Instances -> BOOLEAN]

Init ==
    /\ fate = [m \in Messages |-> "unpublished"]
    /\ kind = [m \in Messages |-> "plain"]
    /\ attempt = [m \in Messages |-> 0]
    /\ lease = [m \in Messages |-> 0]
    /\ late = {}
    /\ life = [i \in Instances |-> "down"]
    /\ failed = [i \in Instances |-> FALSE]
    /\ pc = [i \in Instances |-> "off"]
    /\ held = [i \in Instances |-> [m \in Messages |-> 0]]
    /\ verdict = [i \in Instances |-> [m \in Messages |-> "none"]]
    /\ running = [i \in Instances |-> NoMessage]
    /\ keeper = [i \in Instances |-> "off"]
    /\ timer = [i \in Instances |-> 0]
    /\ starts = 0
    /\ lapsed = [i \in Instances |-> FALSE]
    /\ handled = {}
    /\ replaced = {}
    /\ backoff = [m \in Messages |-> {}]
    /\ quiet = [i \in Instances |-> FALSE]

----------------------------------------------------------------------------
(* The broker.                                                             *)

\* An ack id is current until its message is delivered again or retired.
Current(m, n) == fate[m] = "pending" /\ attempt[m] = n

Deliverable(m) == fate[m] = "pending" /\ lease[m] = 0 /\ attempt[m] < MaxAttempts

\* The messages of S are handed out under new ack ids.
Handout(S) ==
    /\ attempt' = [m \in Messages |-> IF m \in S THEN attempt[m] + 1 ELSE attempt[m]]
    /\ lease' = [m \in Messages |-> IF m \in S THEN AckDeadline ELSE lease[m]]
    /\ backoff' = [m \in Messages |-> IF m \in S THEN {} ELSE backoff[m]]
    /\ UNCHANGED <<fate, kind>>

\* modify_ack_deadline(d[m]) of the ids <<m, n[m]>>, m in S, after which b[m]
\* is what is known of m's backoff.  An id that is no longer current is
\* ignored; one whose lease has run out may or may not be honoured.
SetDeadline(S, n, d, b) ==
    \E ok \in SUBSET {m \in S : Current(m, n[m])} :
        /\ \A m \in S \ ok : Current(m, n[m]) => lease[m] = 0
        /\ lease' = [m \in Messages |-> IF m \in ok THEN d[m] ELSE lease[m]]
        /\ backoff' = [m \in Messages |-> IF m \in ok THEN b[m] ELSE backoff[m]]
        /\ UNCHANGED <<fate, kind, attempt>>

Extend(S, n) == SetDeadline(S, n, [m \in Messages |-> LeaseExtension], backoff)

Nack(S, n, d) == SetDeadline(S, n, d, [m \in Messages |-> {d[m]}])

\* acknowledge(): a current id with a running lease is retired for certain; a
\* stale one (expired, or of an earlier delivery) may be.
Acknowledge(S, n) ==
    \E ok \in SUBSET {m \in S : fate[m] = "pending"} :
        /\ \A m \in S \ ok : Current(m, n[m]) => lease[m] = 0
        /\ fate' = [m \in Messages |-> IF m \in ok THEN "acked" ELSE fate[m]]
        /\ lease' = [m \in Messages |-> IF m \in ok THEN 0 ELSE lease[m]]
        /\ UNCHANGED <<kind, attempt, backoff>>

\* A producer, here or elsewhere, publishes m.
Publish(m) ==
    /\ m \in Produced /\ fate[m] = "unpublished"
    /\ fate' = [fate EXCEPT ![m] = "pending"]
    /\ \E k \in ProducedKinds : kind' = [kind EXCEPT ![m] = k]
    /\ UNCHANGED <<attempt, lease, backoff>>
    /\ UNCHANGED <<late, life, failed, pc, batch, starts, history, quiet>>

\* A message out of attempts goes to the dead-letter topic when its last lease
\* runs out.
DeadLetter(m) ==
    /\ fate[m] = "pending" /\ lease[m] = 0 /\ attempt[m] >= MaxAttempts
    /\ fate' = [fate EXCEPT ![m] = "dead"]
    /\ UNCHANGED <<kind, attempt, lease, backoff>>
    /\ UNCHANGED <<late, life, failed, pc, batch, starts, history, quiet>>

\* A pull response nobody reads: the thread outlived its cancelled task, or the
\* response was lost.
PullLost(m) ==
    /\ Deliverable(m)
    /\ Handout({m})
    /\ UNCHANGED <<late, life, failed, pc, batch, starts, history, quiet>>

\* A request left on an executor thread reaches the broker, or dies with its
\* process.
LateRequest(r) ==
    /\ r \in late
    /\ late' = late \ {r}
    /\ LET n == [m \in Messages |-> r.att]
       IN  \/ r.what = "extend" /\ Extend({r.msg}, n)
           \/ r.what = "ack" /\ Acknowledge({r.msg}, n)
           \/ /\ r.what \in {"nack", "return"}
              /\ Nack({r.msg}, n, [m \in Messages |-> DeadlineOf(r.what, r.att)])
           \/ UNCHANGED broker
    /\ UNCHANGED <<life, failed, pc, batch, starts, history, quiet>>

(* Mutant: a countdown that runs past its end. *)
Sooner_Unfloored(t) == t - 1

\* One tick less to wait.
Sooner(t) == IF t > 0 THEN t - 1 ELSE 0

\* Time passes.  The event loop is responsive and an extension reaches the
\* broker, or fails, within RpcBound.
Tick ==
    /\ \A i \in Instances : keeper[i] # "off" => timer[i] > 0
    /\ lease' = [m \in Messages |-> Sooner(lease[m])]
    /\ timer' = [i \in Instances |-> IF keeper[i] # "off" THEN timer[i] - 1 ELSE 0]
    /\ UNCHANGED <<fate, kind, attempt, backoff>>
    /\ UNCHANGED <<held, verdict, running, keeper, lapsed>>
    /\ UNCHANGED <<late, life, failed, pc, starts, history, quiet>>

----------------------------------------------------------------------------
(* The pull loop.                                                          *)

\* The batch of i is over: its finally clause stops the keeper and takes the
\* task out of _dispatching.
Release(i) ==
    /\ held' = [held EXCEPT ![i] = [m \in Messages |-> 0]]
    /\ verdict' = [verdict EXCEPT ![i] = [m \in Messages |-> "none"]]
    /\ running' = [running EXCEPT ![i] = NoMessage]
    /\ keeper' = [keeper EXCEPT ![i] = "off"]
    /\ timer' = [timer EXCEPT ![i] = 0]
    /\ lapsed' = [lapsed EXCEPT ![i] = FALSE]

\* What the threads of i may still be sending when its coroutines are
\* cancelled: the keeper's refresh, the acknowledge, or the nacks.
Sending(i, w, S) == {[what |-> w, msg |-> m, att |-> held[i][m]] : m \in S}

OnThreads(i) ==
    CASE keeper[i] = "rpc" -> Sending(i, "extend", Held(i))
      [] keeper[i] # "rpc" /\ pc[i] = "ack" -> Sending(i, "ack", Judged(i, "ack"))
      [] keeper[i] # "rpc" /\ pc[i] = "nack" ->
            Sending(i, "nack", Judged(i, "nack"))
               \cup Sending(i, "return", Judged(i, "return"))
      [] OTHER -> {}

\* Cancelled while it holds a batch: nothing of the batch is settled here.
Abandon(i) ==
    /\ Release(i)
    /\ late' = late \cup OnThreads(i)

(* Mutant: the first refresh comes at the steady cadence. *)
SpawnKeeper_Steady(i) ==
    /\ keeper' = [keeper EXCEPT ![i] = "wait"]
    /\ timer' = [timer EXCEPT ![i] = RefreshInterval]

\* The keeper of a new batch starts waiting for its first refresh.
SpawnKeeper(i) ==
    /\ keeper' = [keeper EXCEPT ![i] = "wait"]
    /\ timer' = [timer EXCEPT ![i] = FirstRefresh]

\* pull() returned a batch; the task joins _dispatching and spawns the keeper.
Pull(i) ==
    /\ At(i, "pull")
    /\ \E S \in SUBSET {m \in Messages : Deliverable(m)} :
        /\ S # {} /\ Cardinality(S) <= MaxMessages
        /\ Handout(S)
        /\ held' = [held EXCEPT ![i] =
                      [m \in Messages |-> IF m \in S THEN attempt[m] + 1 ELSE 0]]
    /\ pc' = [pc EXCEPT ![i] = "batch"]
    /\ SpawnKeeper(i)
    /\ UNCHANGED <<verdict, running, lapsed>>
    /\ UNCHANGED <<late, life, failed, starts, history, quiet>>

\* pull() raised DeadlineExceeded or a transient error: back to the while test.
PullEmpty(i) ==
    /\ At(i, "pull")
    /\ pc' = [pc EXCEPT ![i] = LoopHead(i)]
    /\ UNCHANGED <<broker, late, life, failed, batch, starts, history, quiet>>

\* pull() raised NotFound, PermissionDenied or InvalidArgument: the loop halts
\* and the subscription is recorded as failed.
PullDenied(i) ==
    /\ At(i, "pull")
    /\ pc' = [pc EXCEPT ![i] = "ended"]
    /\ failed' = [failed EXCEPT ![i] = TRUE]
    /\ UNCHANGED <<broker, late, life, batch, starts, history, quiet>>

\* The for loop takes the next message of the batch, in the order of the
\* response, which is arbitrary.
Judge(i, m, v) ==
    /\ verdict' = [verdict EXCEPT ![i][m] = v]
    /\ running' = [running EXCEPT ![i] = NoMessage]
    /\ UNCHANGED <<held, keeper, timer, lapsed>>

NextMessage(i, m) ==
    /\ At(i, "batch") /\ running[i] = NoMessage
    /\ m \in Judged(i, "none")

\* Shutdown has begun: hand the message straight back.
HandBack(i, m) ==
    /\ NextMessage(i, m)
    /\ Stopping(i)
    /\ Judge(i, m, "return")
    /\ UNCHANGED <<broker, late, life, failed, pc, starts, history, quiet>>

\* From another environment, or undecodable: acknowledged without dispatch.
Drop(i, m) ==
    /\ NextMessage(i, m)
    /\ ~Stopping(i)
    /\ kind[m] = "unwanted"
    /\ Judge(i, m, "ack")
    /\ UNCHANGED <<broker, late, life, failed, pc, starts, history, quiet>>

(* Mutant: the handlers of the rest of the batch start during shutdown. *)
Dispatch_WhileStopping(i, m) ==
    /\ NextMessage(i, m)
    /\ kind[m] # "unwanted"
    /\ running' = [running EXCEPT ![i] = m]
    /\ UNCHANGED <<held, verdict, keeper, timer, lapsed>>
    /\ UNCHANGED <<broker, late, life, failed, pc, starts, history, quiet>>

\* Its handlers are started.
Dispatch(i, m) ==
    /\ NextMessage(i, m)
    /\ ~Stopping(i)
    /\ kind[m] # "unwanted"
    /\ running' = [running EXCEPT ![i] = m]
    /\ UNCHANGED <<held, verdict, keeper, timer, lapsed>>
    /\ UNCHANGED <<broker, late, life, failed, pc, starts, history, quiet>>

\* The handlers of the running message are not being unwound by a cancel.
Awaiting(i, m) == running[i] = m /\ m # NoMessage /\ life[i] # "cancelling"

HandlersSucceed(i, m) ==
    /\ Awaiting(i, m)
    /\ handled' = handled \cup {m}
    /\ Judge(i, m, "ack")
    /\ UNCHANGED <<broker, late, life, failed, pc, starts, replaced, quiet>>

\* Some handler raised and there is no replacement to publish, or publishing it
\* was not confirmed.
HandlersFail(i, m) ==
    /\ Awaiting(i, m)
    /\ Judge(i, m, "nack")
    /\ UNCHANGED <<broker, late, life, failed, pc, starts, history, quiet>>

\* Some handler raised on a legacy enrich request: its encrypted replacement r
\* is published and confirmed, and only then is the original acknowledged.
HandlersReplace(i, m, r) ==
    /\ Awaiting(i, m) /\ kind[m] = "legacy"
    /\ r \notin Produced /\ fate[r] = "unpublished"
    /\ fate' = [fate EXCEPT ![r] = "pending"]
    /\ kind' = [kind EXCEPT ![r] = "plain"]
    /\ replaced' = replaced \cup {m}
    /\ Judge(i, m, "ack")
    /\ UNCHANGED <<attempt, lease, backoff>>
    /\ UNCHANGED <<late, life, failed, pc, starts, handled, quiet>>

(* Mutants: a cancelled handler passes for a success; its halt is silent. *)
HandlersCancelled_Acked(i, m) ==
    /\ Awaiting(i, m)
    /\ Judge(i, m, "ack")
    /\ UNCHANGED <<broker, late, life, failed, pc, starts, history, quiet>>

HandlersCancelled_Silent(i, m) ==
    /\ Awaiting(i, m)
    /\ Abandon(i)
    /\ pc' = [pc EXCEPT ![i] = "ended"]
    /\ UNCHANGED <<broker, life, failed, starts, history, quiet>>

\* A handler let a CancelledError escape.  Outside shutdown that is recorded as
\* a failure; either way the loop ends with the batch unsettled.
HandlersCancelled(i, m) ==
    /\ Awaiting(i, m)
    /\ Abandon(i)
    /\ pc' = [pc EXCEPT ![i] = "ended"]
    /\ failed' = [failed EXCEPT ![i] = failed[i] \/ ~Stopping(i)]
    /\ UNCHANGED <<broker, life, starts, history, quiet>>

\* The batch is dispatched: stop_extending is set and the keeper is awaited.
BatchDispatched(i) ==
    /\ At(i, "batch") /\ running[i] = NoMessage
    /\ Judged(i, "none") = {}
    /\ pc' = [pc EXCEPT ![i] = "drain"]
    /\ UNCHANGED <<broker, late, life, failed, batch, starts, history, quiet>>

(* Mutant: the keeper is cancelled rather than awaited. *)
KeeperDrained_Cancelled(i) ==
    /\ At(i, "drain")
    /\ late' = late \cup OnThreads(i)
    /\ keeper' = [keeper EXCEPT ![i] = "off"]
    /\ timer' = [timer EXCEPT ![i] = 0]
    /\ pc' = [pc EXCEPT ![i] = "ack"]
    /\ UNCHANGED <<held, verdict, running, lapsed>>
    /\ UNCHANGED <<broker, life, failed, starts, history, quiet>>

\* The keeper sees the event between two refreshes and returns; the acks
\* follow, so no refresh can land behind them.
KeeperDrained(i) ==
    /\ At(i, "drain") /\ keeper[i] = "wait"
    /\ keeper' = [keeper EXCEPT ![i] = "off"]
    /\ timer' = [timer EXCEPT ![i] = 0]
    /\ pc' = [pc EXCEPT ![i] = "ack"]
    /\ UNCHANGED <<held, verdict, running, lapsed>>
    /\ UNCHANGED <<broker, late, life, failed, starts, history, quiet>>

\* One acknowledge for everything to ack; skipped when there is nothing.
SendAcks(i) ==
    /\ At(i, "ack")
    /\ Acknowledge(Judged(i, "ack"), held[i])
    /\ pc' = [pc EXCEPT ![i] = "nack"]
    /\ UNCHANGED <<late, life, failed, batch, starts, history, quiet>>

\* One modify_ack_deadline per delay.  The ids of a request leave the batch
\* when it returns.
SendNacks(i) ==
    /\ At(i, "nack")
    /\ \E first \in ToNack(i) :
        LET d == [m \in Messages |-> DeadlineOf(verdict[i][m], held[i][m])]
            S == {m \in ToNack(i) : d[m] = d[first]}
        IN  /\ Nack(S, held[i], d)
            /\ held' = [held EXCEPT ![i] =
                          [m \in Messages |-> IF m \in S THEN 0 ELSE held[i][m]]]
            /\ verdict' = [verdict EXCEPT ![i] =
                          [m \in Messages |-> IF m \in S THEN "none" ELSE verdict[i][m]]]
    /\ UNCHANGED <<running, keeper, timer, lapsed>>
    /\ UNCHANGED <<late, life, failed, pc, starts, history, quiet>>

\* The batch is settled: the finally clause, and the while test.
BatchSettled(i) ==
    /\ At(i, "nack")
    /\ ToNack(i) = {}
    /\ Release(i)
    /\ pc' = [pc EXCEPT ![i] = LoopHead(i)]
    /\ UNCHANGED <<broker, late, life, failed, starts, history, quiet>>

\* An acknowledge or modify_ack_deadline of i is under way.
Requesting(i) == \/ At(i, "ack") /\ Judged(i, "ack") # {}
                 \/ At(i, "nack") /\ ToNack(i) # {}

(* Mutant: the error escapes the try and kills the task. *)
SettleError_Escapes(i) ==
    /\ Requesting(i)
    /\ Abandon(i)
    /\ pc' = [pc EXCEPT ![i] = "ended"]
    /\ UNCHANGED <<broker, life, failed, starts, history, quiet>>

\* An ack or nack request raised a transient error, having reached the broker
\* or not: the rest of the batch is left to expire and the loop backs off.  It
\* does not back off from a DeadlineExceeded, nor once stop() has begun.
SettleError(i) ==
    /\ Requesting(i)
    /\ Abandon(i)
    /\ \E p \in {"backoff", LoopHead(i)} : pc' = [pc EXCEPT ![i] = p]
    /\ UNCHANGED <<broker, life, failed, starts, history, quiet>>

\* It raised a permanent one: the loop halts.
SettleDenied(i) ==
    /\ Requesting(i)
    /\ Abandon(i)
    /\ pc' = [pc EXCEPT ![i] = "ended"]
    /\ failed' = [failed EXCEPT ![i] = TRUE]
    /\ UNCHANGED <<broker, life, starts, history, quiet>>

BackoffOver(i) ==
    /\ At(i, "backoff")
    /\ pc' = [pc EXCEPT ![i] = LoopHead(i)]
    /\ UNCHANGED <<broker, late, life, failed, batch, starts, history, quiet>>

----------------------------------------------------------------------------
(* The lease keeper of a batch (_hold_leases).                             *)

\* The interval elapsed with no stop: the refresh goes to a thread, also while
\* a cancelled handler unwinds.
RefreshSent(i) ==
    /\ keeper[i] = "wait" /\ timer[i] = 0 /\ pc[i] = "batch"
    /\ keeper' = [keeper EXCEPT ![i] = "rpc"]
    /\ timer' = [timer EXCEPT ![i] = RpcBound]
    /\ UNCHANGED <<held, verdict, running, lapsed>>
    /\ UNCHANGED <<broker, late, life, failed, pc, starts, history, quiet>>

NextInterval(i) ==
    /\ keeper[i] = "rpc"
    /\ keeper' = [keeper EXCEPT ![i] = "wait"]
    /\ timer' = [timer EXCEPT ![i] = RefreshInterval]
    /\ UNCHANGED <<held, verdict, running>>

RefreshLanded(i) ==
    /\ NextInterval(i)
    /\ Extend(Held(i), held[i])
    /\ UNCHANGED <<lapsed, late, life, failed, pc, starts, history, quiet>>

\* A failed extension is logged; the keeper carries on.
RefreshFailed(i) ==
    /\ NextInterval(i)
    /\ lapsed' = [lapsed EXCEPT ![i] = TRUE]
    /\ UNCHANGED <<broker, late, life, failed, pc, starts, history, quiet>>

----------------------------------------------------------------------------
(* start(), stop_consuming(), stop(), and the death of the process.        *)

SetLife(i, l) == life' = [life EXCEPT ![i] = l]

\* start() up to its wait for the subscriber client.
Start(i) ==
    /\ life[i] = "down" /\ starts < MaxStarts
    /\ starts' = starts + 1
    /\ SetLife(i, "starting")
    /\ quiet' = [quiet EXCEPT ![i] = FALSE]
    /\ UNCHANGED <<broker, late, failed, pc, batch, history>>

\* A stop() runs to its end while start() is suspended: it has nothing to tear
\* down yet, and only the stop generation remembers it.
StopOvertakes(i) ==
    /\ life[i] = "starting"
    /\ SetLife(i, "overtaken")
    /\ quiet' = [quiet EXCEPT ![i] = TRUE]
    /\ UNCHANGED <<broker, late, failed, pc, batch, starts, history>>

\* start() resumes and installs the pull loop.
StartResumes(i) ==
    /\ life[i] = "starting"
    /\ SetLife(i, "up")
    /\ pc' = [pc EXCEPT ![i] = "pull"]
    /\ UNCHANGED <<broker, late, failed, batch, starts, history, quiet>>

\* start() resumes, sees another stop generation and raises.
StartAborts(i) ==
    /\ life[i] = "overtaken"
    /\ SetLife(i, "down")
    /\ UNCHANGED <<broker, late, failed, pc, batch, starts, history, quiet>>

\* stop_consuming(), called by itself or by stop(): waits for a loop that holds
\* a batch, and returns at once when none does.
StopConsuming(i) ==
    /\ life[i] = "up"
    /\ SetLife(i, IF Busy(i) THEN "grace" ELSE "drained")
    /\ quiet' = [quiet EXCEPT ![i] = ~Busy(i)]
    /\ UNCHANGED <<broker, late, failed, pc, batch, starts, history>>

\* The batch ended within stop_grace_seconds.
DrainDone(i) ==
    /\ life[i] = "grace" /\ ~Busy(i)
    /\ SetLife(i, "drained")
    /\ quiet' = [quiet EXCEPT ![i] = TRUE]
    /\ UNCHANGED <<broker, late, failed, pc, batch, starts, history>>

\* It did not: its task is cancelled.
GraceOver(i) ==
    /\ life[i] = "grace" /\ Busy(i)
    /\ SetLife(i, "cancelling")
    /\ UNCHANGED <<broker, late, failed, pc, batch, starts, history, quiet>>

\* The cancelled task has unwound and stop_consuming() returns.
Unwound(i) ==
    /\ life[i] = "cancelling"
    /\ Abandon(i)
    /\ pc' = [pc EXCEPT ![i] = "ended"]
    /\ SetLife(i, "drained")
    /\ quiet' = [quiet EXCEPT ![i] = TRUE]
    /\ UNCHANGED <<broker, failed, starts, history>>

\* stop() closes the subscriber and cancels and awaits the pull task.
Close(i) ==
    /\ life[i] = "drained"
    /\ SetLife(i, "closing")
    /\ Abandon(i)
    /\ pc' = [pc EXCEPT ![i] = "ended"]
    /\ UNCHANGED <<broker, failed, starts, history, quiet>>

\* The teardown completes and the lifecycle flags are reset.
StopDone(i) ==
    /\ life[i] = "closing"
    /\ SetLife(i, "down")
    /\ pc' = [pc EXCEPT ![i] = "off"]
    /\ failed' = [failed EXCEPT ![i] = FALSE]
    /\ UNCHANGED <<broker, late, batch, starts, history, quiet>>

\* stop() itself is cancelled: its finally clause still cancels and awaits the
\* pull task, but _stopped and _started stay set, so start() does nothing.
StopInterrupted(i) ==
    /\ life[i] \in {"grace", "cancelling", "drained", "closing"}
    /\ SetLife(i, "wedged")
    /\ Abandon(i)
    /\ pc' = [pc EXCEPT ![i] = "off"]
    /\ failed' = [failed EXCEPT ![i] = FALSE]
    /\ quiet' = [quiet EXCEPT ![i] = TRUE]
    /\ UNCHANGED <<broker, starts, history>>

\* The process is killed; what its threads had already sent may still land.
Crash(i) ==
    /\ life[i] # "down"
    /\ SetLife(i, "down")
    /\ Abandon(i)
    /\ pc' = [pc EXCEPT ![i] = "off"]
    /\ failed' = [failed EXCEPT ![i] = FALSE]
    /\ quiet' = [quiet EXCEPT ![i] = FALSE]
    /\ UNCHANGED <<broker, starts, history>>

----------------------------------------------------------------------------
Broker(m) == Publish(m) \/ DeadLetter(m) \/ PullLost(m)

LoopStep(i) ==
    \/ Pull(i) \/ PullEmpty(i)
    \/ \E m \in Messages :
        \/ HandBack(i, m) \/ Drop(i, m) \/ Dispatch(i, m)
        \/ HandlersSucceed(i, m) \/ HandlersFail(i, m)
        \/ \E r \in Messages : HandlersReplace(i, m, r)
    \/ BatchDispatched(i) \/ KeeperDrained(i) \/ SendAcks(i) \/ SendNacks(i)
    \/ BatchSettled(i) \/ BackoffOver(i)

LoopFault(i) ==
    \/ PullDenied(i) \/ SettleError(i) \/ SettleDenied(i)
    \/ \E m \in Messages : HandlersCancelled(i, m)

Keeper(i) == RefreshSent(i) \/ RefreshLanded(i) \/ RefreshFailed(i)

Lifecycle(i) ==
    \/ Start(i) \/ StopOvertakes(i) \/ StartResumes(i) \/ StartAborts(i)
    \/ StopConsuming(i) \/ DrainDone(i) \/ GraceOver(i) \/ Unwound(i)
    \/ Close(i) \/ StopDone(i) \/ StopInterrupted(i) \/ Crash(i)

Next ==
    \/ \E m \in Messages : Broker(m)
    \/ \E r \in late : LateRequest(r)
    \/ \E i \in Instances : LoopStep(i) \/ LoopFault(i) \/ Keeper(i) \/ Lifecycle(i)
    \/ Tick

Spec == Init /\ [][Next]_vars

\* The broker delivers and dead-letters, clocks run, requests return, handlers
\* end, and the event loop runs every coroutine that is ready.
Fairness ==
    /\ WF_vars(Tick)
    /\ \A m \in Messages : WF_vars(DeadLetter(m))
    /\ \A i \in Instances :
        WF_vars(LoopStep(i)) /\ WF_vars(Keeper(i)) /\ WF_vars(StartResumes(i))

FairSpec == Spec /\ Fairness

----------------------------------------------------------------------------
(* Properties.                                                             *)

Working(i) == pc[i] \in {"batch", "drain"}

\* Two processes never run the handlers of the same message at once unless a
\* lease extension of one of them failed: the keeper's cadence alone keeps a
\* batch leased however long its handlers take (_hold_leases).
OneWorkerPerMessage ==
    \A i, j \in Instances, m \in Messages :
        i # j /\ running[i] = m /\ running[j] = m => lapsed[i] \/ lapsed[j]

\* While a process works on its batch and none of its extensions failed, no
\* message of the batch is delivered again, not even to a reader that went
\* away, nor dead-lettered while its last attempt is still being handled.
BatchKept ==
    [][\A i \in Instances : \A m \in Held(i) :
          Working(i) /\ ~lapsed[i] /\ fate[m] = "pending" =>
              attempt'[m] = attempt[m] /\ fate'[m] # "dead"]_vars

\* A nack's backoff is never stretched: no lease extension reaches the broker
\* behind the nack of the same delivery, because the keeper is awaited before
\* the nacks are sent (_pull_loop 1511-1562).
NackBackoffKept ==
    \A m \in Messages : \A d \in backoff[m] : lease[m] <= d

\* Once stop_consuming() or stop() has returned, and until start() is called
\* again, no handler runs and no pull loop is consuming, whatever a late pull
\* or an overtaken start() does.
QuietAfterStop ==
    \A i \in Instances : quiet[i] => running[i] = NoMessage /\ life[i] # "up"

\* A process whose pull loop has ended, or was never installed, does not claim
\* to be healthy: no halt is silent (is_healthy).
HaltIsUnhealthy ==
    \A i \in Instances : pc[i] \in {"off", "ended"} => ~IsHealthy(i)

\* The bus delivers at least once: what Delivery promises, with a message
\* answered for when its handlers succeeded, its replacement was published, or
\* it is one the bus drops by rule.
Dropped == {m \in Messages : fate[m] # "unpublished" /\ kind[m] = "unwanted"}

AtLeastOnce == INSTANCE Delivery WITH answered <- handled \cup replaced \cup Dropped

DeliversAtLeastOnce == AtLeastOnce!Spec

\* The backlog is always emptied again, so that every pending message is
\* eventually retired, unless a moment comes when no process reports healthy: a
\* healthy process always gets the work done.
Settles ==
    []<>(\/ \A m \in Messages : fate[m] # "pending"
         \/ \A i \in Instances : ~IsHealthy(i))
=============================================================================

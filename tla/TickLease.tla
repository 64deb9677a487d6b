----------------------------- MODULE TickLease ------------------------------
(***************************************************************************)
(* The wall-clock aligned ticks of a replicated scheduler, and the lease   *)
(* that keeps the replicas from all firing the same one.                   *)
(*                                                                         *)
(* Each replica of core-operations sleeps to the next mark of its own      *)
(* clock, asks core-api for the tick (core_operations/scheduler.py,        *)
(* lease.py), and runs the task unless it is told that somebody else holds *)
(* it.  core-api answers with one SET NX of a key that is never released   *)
(* and expires by itself (core_api/routes/scheduler_lease.py).  Every      *)
(* failure on the way means "run".                                         *)
(*                                                                         *)
(* One task is modelled: tasks share nothing, each has its own key.  Real  *)
(* time is counted in ticks; a replica's clock is 0 to Skew ahead.         *)
(***************************************************************************)
EXTENDS Integers

CONSTANTS
    Replicas,      \* processes running the scheduler
    Period,        \* interval_seconds of the task
    Anchor,        \* offset of its marks: the hour, minute or weekday
    MaxTtl,        \* _LEASE_TTL_S
    Skew,          \* how far two clocks may disagree
    RequestLife,   \* longest a claim is on its way to Redis, or awaited
    MaxSlot        \* bound on the marks considered

Slots == 0..MaxSlot

\* The instant of the k-th mark.
Mark(k) == Anchor + Period * k

\* min(_LEASE_TTL_S, interval_seconds / 2), rounded up to whole ticks.
Ttl == IF 2 * MaxTtl <= Period THEN MaxTtl ELSE (Period + 1) \div 2

ASSUME PeriodAssumption ==
    /\ Period \in Nat /\ Period > 1
    /\ Anchor \in Nat /\ Anchor < Period
    /\ MaxTtl \in Nat /\ Skew \in Nat /\ RequestLife \in Nat /\ MaxSlot \in Nat
    /\ Skew < Mark(MaxSlot)

\* "It must comfortably outlive the spread between replicas reaching the same
\* tick" (scheduler.py 182-189).
ASSUME SpreadAssumption == Skew + RequestLife < Ttl

VARIABLES
    now,        \* real time
    until,      \* the key of the task is in Redis while now < until
    orphans,    \* claims on their way whose caller no longer listens
    st,         \* st[r]: "down", "asleep", "asking" or "running"
    slot,       \* slot[r]: the mark r sleeps to, asks for or runs
    wake,       \* wake[r]: the instant r's sleep ends
    reply,      \* reply[r]: what core-api decided, not yet heard by r
    (* history, read by the properties only *)
    claims,     \* claims[k]: times the key was set by a claim for mark k
    fires,      \* fires[k]: times the task was run for mark k
    open,       \* open[k]: those of them that were not guarded by the key
    denied,     \* marks some replica was told to skip
    abandoned   \* marks whose claim a replica left behind: it was stopped while
                \* asking, or was refused for a key that it had set itself

process == <<st, slot, wake, reply>>
lease   == <<until, orphans, claims>>
history == <<fires, open, denied, abandoned>>
vars    == <<now, process, lease, history>>

----------------------------------------------------------------------------
Orphan == [by : Replicas, slot : Slots, due : Nat]

TypeOK ==
    /\ now \in Nat
    /\ until \in Nat
    /\ orphans \subseteq Orphan
    /\ st \in [Replicas -> {"down", "asleep", "asking", "running"}]
    /\ slot \in [Replicas -> Slots]
    /\ wake \in [Replicas -> Nat]
    /\ reply \in [Replicas -> {"none", "yes", "no", "open"}]
    /\ claims \in [Slots -> Nat]
    /\ fires \in [Slots -> Nat]
    /\ open \in [Slots -> Nat]
    /\ denied \subseteq Slots
    /\ abandoned \subseteq Slots

Init ==
    /\ now = 0
    /\ until = 0
    /\ orphans = {}
    /\ st = [r \in Replicas |-> "down"]
    /\ slot = [r \in Replicas |-> 0]
    /\ wake = [r \in Replicas |-> 0]
    /\ reply = [r \in Replicas |-> "none"]
    /\ claims = [k \in Slots |-> 0]
    /\ fires = [k \in Slots |-> 0]
    /\ open = [k \in Slots |-> 0]
    /\ denied = {}
    /\ abandoned = {}

----------------------------------------------------------------------------
(* The scheduler loop.                                                     *)

(* Mutant: the mark of the current period is taken to have passed. *)
NextSlot_Skips(t) == t \div Period + 1

\* What every delay provider computes: the mark of the current period, or the
\* next one when that is not strictly in the future.
NextSlot(t) ==
    LET k == t \div Period
    IN  IF Mark(k) <= t THEN k + 1 ELSE k

\* asyncio.sleep(delay_provider()), by a wall clock that is h ahead, which need
\* not be where it was the last time it was read.  The delay then runs on the
\* monotonic clock: corrections of the wall clock do not change it.
Sleep(r) ==
    \E h \in 0..Skew : LET k == NextSlot(now + h) IN
        /\ st' = [st EXCEPT ![r] = "asleep"]
        /\ slot' = [slot EXCEPT ![r] = k]
        /\ wake' = [wake EXCEPT ![r] = Mark(k) - h]
        /\ reply' = [reply EXCEPT ![r] = "none"]

\* The process comes up, installs the lease and starts the loop.
Boot(r) ==
    /\ st[r] = "down"
    /\ Sleep(r)
    /\ UNCHANGED <<now, lease, history>>

(* Mutant: the wall clock must be past the mark, or the tick is skipped. *)
Wake_Rechecks(r) ==
    /\ st[r] = "asleep" /\ wake[r] <= now
    /\ IF Mark(slot[r]) < now
       THEN st' = [st EXCEPT ![r] = "asking"] /\ UNCHANGED <<slot, wake, reply>>
       ELSE Sleep(r)
    /\ UNCHANGED <<now, lease, history>>

\* The sleep is over: the claim is sent.
Wake(r) ==
    /\ st[r] = "asleep" /\ wake[r] <= now
    /\ st' = [st EXCEPT ![r] = "asking"]
    /\ UNCHANGED <<slot, wake, reply>>
    /\ UNCHANGED <<now, lease, history>>

\* task.fn() starts for mark k, guarded by the key or not.
Run(r, unguarded) ==
    /\ st' = [st EXCEPT ![r] = "running"]
    /\ wake' = [wake EXCEPT ![r] = 0]
    /\ reply' = [reply EXCEPT ![r] = "none"]
    /\ fires' = [fires EXCEPT ![slot[r]] = @ + 1]
    /\ open' = [open EXCEPT ![slot[r]] = @ + (IF unguarded THEN 1 ELSE 0)]
    /\ UNCHANGED <<slot, denied, abandoned>>

\* granted is anything but false.
Granted(r) ==
    /\ st[r] = "asking" /\ reply[r] \in {"yes", "open"}
    /\ Run(r, reply[r] = "open")
    /\ UNCHANGED <<now, lease>>

\* granted is false: back to sleep until the next mark.
Denied(r) ==
    /\ st[r] = "asking" /\ reply[r] = "no"
    /\ Sleep(r)
    /\ denied' = denied \cup {slot[r]}
    /\ UNCHANGED <<now, lease, fires, open, abandoned>>

\* The caller stops listening; a claim that has not reached Redis may still.
Disown(r) ==
    /\ orphans' = IF reply[r] # "none" THEN orphans
                  ELSE orphans \cup {[by |-> r, slot |-> slot[r],
                                      due |-> wake[r] + RequestLife]}
    /\ UNCHANGED <<until, claims>>

(* Mutant: a lease that cannot be had is a lease refused. *)
FailOpen_Closed(r) ==
    /\ st[r] = "asking"
    /\ Sleep(r)
    /\ Disown(r)
    /\ denied' = denied \cup {slot[r]}
    /\ UNCHANGED <<now, fires, open, abandoned>>

\* A timeout, an unreachable core-api, a non-2xx or an unreadable answer, before
\* or after the claim reached Redis: the tick runs unguarded.
FailOpen(r) ==
    /\ st[r] = "asking"
    /\ Run(r, TRUE)
    /\ Disown(r)
    /\ UNCHANGED now

\* fn() returns or raises; either way the loop sleeps to the next mark.
Finish(r) ==
    /\ st[r] = "running"
    /\ Sleep(r)
    /\ UNCHANGED <<now, lease, history>>

\* stop() cancels the loop, or the process dies.
Halt(r) ==
    /\ st[r] # "down"
    /\ st' = [st EXCEPT ![r] = "down"]
    /\ slot' = [slot EXCEPT ![r] = 0]
    /\ wake' = [wake EXCEPT ![r] = 0]
    /\ reply' = [reply EXCEPT ![r] = "none"]
    /\ IF st[r] = "asking"
       THEN /\ Disown(r)
            /\ abandoned' = abandoned \cup {slot[r]}
       ELSE UNCHANGED <<lease, abandoned>>
    /\ UNCHANGED <<now, fires, open, denied>>

----------------------------------------------------------------------------
(* The tick-lease endpoint.                                                *)

(* Mutant: SET without NX. *)
SetNx_Overwrites(k, granted) ==
    /\ granted
    /\ until' = now + Ttl
    /\ claims' = [claims EXCEPT ![k] = @ + 1]

\* SET key "held" NX EX ttl, on behalf of mark k, and whether it set the key.
SetNx(k, granted) ==
    /\ granted = (until <= now)
    /\ until' = IF granted THEN now + Ttl ELSE until
    /\ claims' = IF granted THEN [claims EXCEPT ![k] = @ + 1] ELSE claims

Decide(r, answer) ==
    /\ st[r] = "asking" /\ reply[r] = "none"
    /\ reply' = [reply EXCEPT ![r] = answer]
    /\ UNCHANGED <<now, orphans, st, slot, wake, history>>

\* cache_set_nx answered.
Claim(r) ==
    \E granted \in BOOLEAN :
        /\ SetNx(slot[r], granted)
        /\ Decide(r, IF granted THEN "yes" ELSE "no")

\* The answer to SET NX is lost and the Redis client, which is left to its
\* defaults, sends the command again: it meets the key it has set itself.
ClaimResent(r) ==
    /\ st[r] = "asking" /\ reply[r] = "none"
    /\ SetNx(slot[r], TRUE)
    /\ reply' = [reply EXCEPT ![r] = "no"]
    /\ abandoned' = abandoned \cup {slot[r]}
    /\ UNCHANGED <<now, orphans, st, slot, wake, fires, open, denied>>

\* Redis is away or the call raised, having set the key or not: granted.
ClaimUnguarded(r) ==
    /\ Decide(r, "open")
    /\ \/ \E granted \in BOOLEAN : SetNx(slot[r], granted)
       \/ UNCHANGED <<until, claims>>

\* A disowned claim reaches Redis, and nobody hears the answer; or it is lost.
LateClaim(o) ==
    /\ o \in orphans
    /\ orphans' = orphans \ {o}
    /\ \/ \E granted \in BOOLEAN : SetNx(o.slot, granted)
       \/ UNCHANGED <<until, claims>>
    /\ UNCHANGED <<now, process, history>>

----------------------------------------------------------------------------
\* A replica wakes when its sleep ends, and a claim takes at most RequestLife.
Tick ==
    /\ now + 1 + Skew < Mark(MaxSlot)
    /\ \A r \in Replicas :
        /\ st[r] = "asleep" => now < wake[r]
        /\ st[r] = "asking" => now < wake[r] + RequestLife
    /\ \A o \in orphans : now < o.due
    /\ now' = now + 1
    /\ UNCHANGED <<process, lease, history>>

----------------------------------------------------------------------------
Loop(r) == Wake(r) \/ Granted(r) \/ Denied(r) \/ FailOpen(r) \/ Finish(r)

Server(r) == Claim(r) \/ ClaimResent(r) \/ ClaimUnguarded(r)

Next ==
    \/ \E r \in Replicas :
        Loop(r) \/ Server(r) \/ Boot(r) \/ Halt(r)
    \/ \E o \in orphans : LateClaim(o)
    \/ Tick

Spec == Init /\ [][Next]_vars

\* Time passes, the event loop runs, and a request is answered or times out.
Fairness ==
    /\ WF_vars(Tick)
    /\ WF_vars(\E o \in orphans : LateClaim(o))
    /\ \A r \in Replicas :
        WF_vars(Wake(r)) /\ WF_vars(Granted(r) \/ Denied(r) \/ FailOpen(r))

FairSpec == Spec /\ Fairness

----------------------------------------------------------------------------
(* Properties.                                                             *)

\* A tick is run once, and once more for every failure that was answered with
\* "run": nothing else duplicates it, not the skew of the clocks, a clock
\* corrected under a sleeping loop, a restart, or a claim that arrives after its
\* caller gave up (_claim, claim_tick_lease).
FiresBounded == \A k \in Slots : fires[k] <= 1 + open[k]

\* The run of mark k is past, pending, or was given up by its own holder.
Accounted(k) ==
    \/ fires[k] > 0
    \/ k \in abandoned
    \/ \E r \in Replicas :
          st[r] = "asking" /\ slot[r] = k /\ reply[r] \in {"yes", "open"}

\* A tick that somebody was told to skip is not lost: it has run, or the one it
\* was granted to is about to run it, or never heard of the grant: it was
\* stopped while asking, or its SET NX was re-sent and met the key it had set
\* (then the tick is lost).  In particular the lease of one tick never swallows
\* the next.
NoTickLost == \A k \in denied : Accounted(k)

\* A replica stops waiting for a mark only if it is stopped itself, or the tick
\* is accounted for: no refusal, error or clock makes every replica pass on it,
\* other than the re-sent SET NX that Accounted excepts.
Waits(r, k) == st[r] \in {"asleep", "asking"} /\ slot[r] = k

TickServed ==
    [][\A r \in Replicas, k \in Slots :
          Waits(r, k) /\ ~Waits(r, k)' => st'[r] = "down" \/ Accounted(k)']_vars

\* A replica that sleeps to a tick sees it run, here or elsewhere, unless it is
\* stopped, or a replica left its claim of the tick behind: it was stopped while
\* asking, or refused for the key it had set.
TickRuns ==
    \A r \in Replicas, k \in Slots \ {MaxSlot} :
        (st[r] = "asleep" /\ slot[r] = k)
            ~> (fires[k] > 0 \/ k \in abandoned \/ st[r] = "down")
=============================================================================

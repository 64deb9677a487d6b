----------------------------- MODULE Idempotency -----------------------------
(***************************************************************************)
(* The Idempotency-Key inbox of Caura: clients send a write under one      *)
(* stored key; core-api looks the key up, claims it, runs the handler and  *)
(* records the response, or replays the one recorded; storage keeps one    *)
(* row per key.  All keys behave alike and never meet, so one is modelled. *)
(*                                                                         *)
(* Each storage statement is atomic.  Between two of them other requests   *)
(* run, rows expire, calls fail at the caller and land all the same, and   *)
(* requests are cancelled.  A client whose answer tells it to try again    *)
(* does.                                                                   *)
(***************************************************************************)
EXTENDS Naturals, FiniteSets

CONSTANTS
    Clients,        \* writes sent under the key; a retry is the same client
    Hash,           \* Hash[c]: the request_hash of c's body
    Nobody,
    MaxPolls,       \* _CLAIM_POLL_MAX_ATTEMPTS
    MaxLate,        \* bound: calls in flight after their sender gave up
    MaxFaults       \* bound: failed calls, raised handlers, cancellations

ASSUME ClientsAssumption == IsFiniteSet(Clients) /\ Nobody \notin Clients
ASSUME BoundsAssumption ==
    MaxPolls \in Nat \ {0} /\ MaxLate \in Nat /\ MaxFaults \in Nat

VARIABLES
    slot,       \* the row of the key in idempotency_responses
    pc,         \* pc[c]: where the request of c is
    claimed,    \* clients whose guard has _claimed set
    polls,      \* polls[c]: attempts of _poll_until_complete so far
    ans,        \* ans[c]: the last answer c got
    from,       \* from[c]: whose response was replayed to c
    late,       \* calls <<kind, c>> in flight whose sender has given up
    commits,    \* history: how often the write took effect
    excuses,    \* history: events after which the write may run once more
    faults

request == <<pc, claimed, polls, ans, from>>
vars == <<slot, pc, claimed, polls, ans, from, late, commits, excuses, faults>>

Hashes == {Hash[c] : c \in Clients}

(* live: expires_at > now.  by: whose response the row holds.  owner       *)
(* (history): who inserted or reclaimed the pending row.                   *)
Slot == [state : {"absent", "pending", "done"}, hash : Hashes \cup {Nobody},
         by : Clients \cup {Nobody}, owner : Clients \cup {Nobody},
         live : BOOLEAN]

Phases == {"start", "claim", "lost", "poll", "run", "committed", "record",
           "release", "end"}
Final == {"own", "replay", "mismatch"}
TryAgain == {"in_progress", "vanished", "unavailable", "error", "gone"}
Calls == {"claim", "effect", "record", "release"} \X Clients

TypeOK ==
    /\ slot \in Slot
    /\ pc \in [Clients -> Phases]
    /\ claimed \in SUBSET Clients
    /\ polls \in [Clients -> 0..(MaxPolls - 1)]
    /\ ans \in [Clients -> Final \cup TryAgain \cup {"none"}]
    /\ from \in [Clients -> Clients \cup {Nobody}]
    /\ late \in SUBSET Calls
    /\ commits \in Nat /\ excuses \in Nat /\ faults \in Nat

-----------------------------------------------------------------------------
(* Storage *)

Absent == [state |-> "absent", hash |-> Nobody, by |-> Nobody,
           owner |-> Nobody, live |-> FALSE]

(* idempotency_get filters expired rows. *)
Found == slot.state # "absent" /\ slot.live

(* Mutants: an expired row is not reclaimed; a live pending one is. *)
Claimable_AbsentOnly(s) == s.state = "absent"
Claimable_Pending(s) == s.state # "done" \/ ~s.live

(* idempotency_claim: INSERT, or reclaim the expired row in place. *)
Claimable(s) == s.state = "absent" \/ ~s.live
Claim(s, c) ==
    IF Claimable(s)
    THEN [state |-> "pending", hash |-> Hash[c], by |-> Nobody, owner |-> c,
          live |-> TRUE]
    ELSE s

(* idempotency_record: UPDATE the pending row of this hash, whoever claimed*)
(* it and expired or not; else INSERT; else leave the other row alone.     *)
Record(s, c) ==
    IF s.state = "pending" /\ s.hash = Hash[c]
    THEN [s EXCEPT !.state = "done", !.by = c, !.live = TRUE]
    ELSE IF s.state = "absent"
    THEN [state |-> "done", hash |-> Hash[c], by |-> c, owner |-> Nobody,
          live |-> TRUE]
    ELSE s

(* Mutant: the is_pending filter is missing. *)
Release_Completed(s, c) == IF s.hash = Hash[c] THEN Absent ELSE s

(* idempotency_release: DELETE the pending row of this hash. *)
Release(s, c) ==
    IF s.state = "pending" /\ s.hash = Hash[c] THEN Absent ELSE s

-----------------------------------------------------------------------------
(* Building blocks *)

Fault == faults < MaxFaults /\ faults' = faults + 1
NoFault == UNCHANGED faults
Excused == excuses' = excuses + 1
NoExcuse == UNCHANGED excuses

Goto(c, phase) == pc' = [pc EXCEPT ![c] = phase] /\ UNCHANGED <<ans, from>>

(* The request of c is over; its guard and its poll loop are gone. *)
Answer(c, a) ==
    /\ pc' = [pc EXCEPT ![c] = "end"]
    /\ ans' = [ans EXCEPT ![c] = a]
    /\ from' = [from EXCEPT ![c] = IF a = "replay" THEN slot.by ELSE Nobody]
    /\ polls' = [polls EXCEPT ![c] = 0]
    /\ claimed' = claimed \ {c}

(* The call goes nowhere, or is still in flight when its sender leaves. *)
MayLand(kind, c) ==
    \/ UNCHANGED late
    \/ Cardinality(late) < MaxLate /\ late' = late \cup {<<kind, c>>}

(* Mutant: the hash of the row found is not compared. *)
AnswerFromRow_AnyBody(c) == Answer(c, "replay")

(* A completed row answers: replay it, or 422 on a different body. *)
AnswerFromRow(c) ==
    IF slot.hash = Hash[c] THEN Answer(c, "replay") ELSE Answer(c, "mismatch")

-----------------------------------------------------------------------------
(* idempotency_for_hash *)

LookupAnswered(c) ==
    /\ pc[c] = "start"
    /\ \/ ~Found /\ Goto(c, "claim") /\ UNCHANGED <<polls, claimed>>
       \/ Found /\ slot.state = "done" /\ AnswerFromRow(c)
       \/ Found /\ slot.state = "pending" /\ slot.hash # Hash[c]
          /\ Answer(c, "mismatch")
       \/ Found /\ slot.state = "pending" /\ slot.hash = Hash[c]
          /\ Goto(c, "poll") /\ UNCHANGED <<polls, claimed>>
    /\ UNCHANGED <<slot, late, commits, excuses, faults>>

(* A storage outage degrades to "no cache": the handler runs unclaimed. *)
LookupFails(c) ==
    /\ pc[c] = "start"
    /\ Fault /\ Excused
    /\ Goto(c, "run")
    /\ UNCHANGED <<slot, polls, claimed, late, commits>>

ClaimWon(c) ==
    /\ pc[c] = "claim" /\ Claimable(slot)
    /\ slot' = Claim(slot, c)
    /\ claimed' = claimed \cup {c}
    /\ Goto(c, "run")
    /\ UNCHANGED <<polls, late, commits, excuses, faults>>

ClaimLost(c) ==
    /\ pc[c] = "claim" /\ ~Claimable(slot)
    /\ Goto(c, "lost")
    /\ UNCHANGED <<slot, claimed, polls, late, commits, excuses, faults>>

(* The claim route reads the conflicting row in a second transaction. *)
ReadExisting(c) ==
    /\ pc[c] = "lost"
    /\ \/ Found /\ slot.hash # Hash[c] /\ Answer(c, "mismatch")
       \/ Found /\ slot.hash = Hash[c] /\ slot.state = "done" /\ AnswerFromRow(c)
       \/ /\ ~Found \/ (slot.hash = Hash[c] /\ slot.state = "pending")
          /\ Goto(c, "poll") /\ UNCHANGED <<polls, claimed>>
    /\ UNCHANGED <<slot, late, commits, excuses, faults>>

(* The claim call fails, applied or not; the handler runs unclaimed. *)
ClaimFails(c) ==
    /\ pc[c] \in {"claim", "lost"}
    /\ Fault /\ Excused
    /\ \/ pc[c] = "claim" /\ slot' = Claim(slot, c) /\ UNCHANGED late
       \/ pc[c] = "claim" /\ MayLand("claim", c) /\ UNCHANGED slot
       \/ pc[c] = "lost" /\ UNCHANGED <<slot, late>>
    /\ Goto(c, "run")
    /\ UNCHANGED <<claimed, polls, commits>>

(* Mutant: one attempt too many. *)
LastPoll_OffByOne(c) == polls[c] = MaxPolls
LastPoll(c) == polls[c] + 1 = MaxPolls

(* One attempt of _poll_until_complete. *)
PollAnswered(c) ==
    /\ pc[c] = "poll"
    /\ \/ ~Found /\ Answer(c, "vanished")
       \/ Found /\ slot.state = "done" /\ AnswerFromRow(c)
       \/ Found /\ slot.state = "pending" /\ LastPoll(c)
          /\ Answer(c, "in_progress")
       \/ /\ Found /\ slot.state = "pending" /\ ~LastPoll(c)
          /\ polls' = [polls EXCEPT ![c] = @ + 1]
          /\ UNCHANGED <<pc, ans, from, claimed>>
    /\ UNCHANGED <<slot, late, commits, excuses, faults>>

PollFails(c) ==
    /\ pc[c] = "poll"
    /\ Fault
    /\ Answer(c, "unavailable")
    /\ UNCHANGED <<slot, late, commits, excuses>>

-----------------------------------------------------------------------------
(* The handler, release_claim_on_error and guard.record *)

HandlerCommits(c) ==
    /\ pc[c] = "run"
    /\ commits' = commits + 1
    /\ Goto(c, "committed")
    /\ UNCHANGED <<slot, claimed, polls, late, excuses, faults>>

HandlerReturns(c) ==
    /\ pc[c] = "committed"
    /\ Goto(c, "record")
    /\ UNCHANGED <<slot, claimed, polls, late, commits, excuses, faults>>

(* The handler raises: before the write took effect, with the write still  *)
(* in flight, or after it.  Only a claimed guard has something to release. *)
HandlerRaises(c) ==
    /\ pc[c] \in {"run", "committed"}
    /\ Fault
    /\ \/ pc[c] = "run" /\ NoExcuse /\ UNCHANGED late
       \/ pc[c] = "run" /\ Excused /\ MayLand("effect", c)
       \/ pc[c] = "committed" /\ Excused /\ UNCHANGED late
    /\ \/ c \in claimed /\ Goto(c, "release") /\ UNCHANGED <<claimed, polls>>
       \/ c \notin claimed /\ Answer(c, "error")
    /\ UNCHANGED <<slot, commits>>

ReleaseAnswered(c) ==
    /\ pc[c] = "release"
    /\ slot' = Release(slot, c)
    /\ Answer(c, "error")
    /\ UNCHANGED <<late, commits, excuses, faults>>

(* The DELETE is applied, its answer lost, and the client sends it again. *)
ReleaseResent(c) ==
    /\ pc[c] = "release"
    /\ Fault /\ Excused
    /\ slot' = Release(slot, c)
    /\ UNCHANGED <<request, late, commits>>

(* The release fails: the pending TTL remains the backstop. *)
ReleaseFails(c) ==
    /\ pc[c] = "release"
    /\ Fault /\ NoExcuse
    /\ MayLand("release", c)
    /\ Answer(c, "error")
    /\ UNCHANGED <<slot, commits>>

RecordAnswered(c) ==
    /\ pc[c] = "record"
    /\ slot' = Record(slot, c)
    /\ Answer(c, "own")
    /\ UNCHANGED <<late, commits, excuses, faults>>

(* A failed record is logged; the client has its response. *)
RecordFails(c) ==
    /\ pc[c] = "record"
    /\ Fault /\ NoExcuse
    /\ MayLand("record", c)
    /\ Answer(c, "own")
    /\ UNCHANGED <<slot, commits>>

(* Mutant: a cancelled request releases its claim. *)
Cancel_Releases(c) ==
    /\ pc[c] \in {"run", "committed"}
    /\ Fault
    /\ slot' = IF c \in claimed THEN Release(slot, c) ELSE slot
    /\ IF pc[c] = "run" THEN MayLand("effect", c) ELSE UNCHANGED late
    /\ Answer(c, "gone")
    /\ UNCHANGED <<commits, excuses>>

(* The request is cancelled (the client went away, or the process died):   *)
(* no release.  A call under way is shielded and may still land.           *)
Cancel(c) ==
    /\ pc[c] # "end"
    /\ Fault
    /\ CASE pc[c] = "claim" -> MayLand("claim", c)
         [] pc[c] = "run" -> MayLand("effect", c)
         [] pc[c] = "record" -> MayLand("record", c)
         [] pc[c] = "release" -> MayLand("release", c)
         [] OTHER -> UNCHANGED late
    /\ Answer(c, "gone")
    /\ UNCHANGED <<slot, commits, excuses>>

(* The client sends its write again, same key and body (external). *)
Retry(c) ==
    /\ pc[c] = "end" /\ ans[c] \in TryAgain
    /\ pc' = [pc EXCEPT ![c] = "start"]
    /\ ans' = [ans EXCEPT ![c] = "none"]
    /\ UNCHANGED <<slot, claimed, polls, from, late, commits, excuses, faults>>

-----------------------------------------------------------------------------
(* Late calls and time *)

LateLands(m) ==
    /\ m \in late
    /\ late' = late \ {m}
    /\ slot' = CASE m[1] = "claim" -> Claim(slot, m[2])
                 [] m[1] = "record" -> Record(slot, m[2])
                 [] m[1] = "release" -> Release(slot, m[2])
                 [] OTHER -> slot
    /\ commits' = IF m[1] = "effect" THEN commits + 1 ELSE commits
    /\ UNCHANGED <<request, excuses, faults>>

(* expires_at passes: a claim's pending TTL or a response's TTL. *)
Expire ==
    /\ Found
    /\ slot' = [slot EXCEPT !.live = FALSE]
    /\ Excused
    /\ UNCHANGED <<request, late, commits, faults>>

(* The daily purge deletes expired rows. *)
Purge ==
    /\ slot.state # "absent" /\ ~slot.live
    /\ slot' = Absent
    /\ UNCHANGED <<request, late, commits, excuses, faults>>

-----------------------------------------------------------------------------
Init ==
    /\ slot = Absent
    /\ pc = [c \in Clients |-> "start"]
    /\ claimed = {}
    /\ polls = [c \in Clients |-> 0]
    /\ ans = [c \in Clients |-> "none"]
    /\ from = [c \in Clients |-> Nobody]
    /\ late = {}
    /\ commits = 0
    /\ excuses = 0
    /\ faults = 0

RequestStep(c) ==
    \/ LookupAnswered(c) \/ LookupFails(c)
    \/ ClaimWon(c) \/ ClaimLost(c) \/ ReadExisting(c) \/ ClaimFails(c)
    \/ PollAnswered(c) \/ PollFails(c)
    \/ HandlerCommits(c) \/ HandlerReturns(c) \/ HandlerRaises(c)
    \/ ReleaseAnswered(c) \/ ReleaseResent(c) \/ ReleaseFails(c)
    \/ RecordAnswered(c) \/ RecordFails(c)
    \/ Cancel(c) \/ Retry(c)

Next ==
    \/ \E c \in Clients : RequestStep(c)
    \/ \E m \in late : LateLands(m)
    \/ Expire \/ Purge

(* Fairness: calls are answered, handlers finish, clients told to try      *)
(* again do, and time passes.  Nothing is owed by the purge.               *)
Progress(c) ==
    \/ LookupAnswered(c) \/ ClaimWon(c) \/ ClaimLost(c) \/ ReadExisting(c)
    \/ PollAnswered(c) \/ HandlerCommits(c) \/ HandlerReturns(c)
    \/ ReleaseAnswered(c) \/ RecordAnswered(c) \/ Retry(c)

Spec == Init /\ [][Next]_vars
FairSpec ==
    /\ Spec
    /\ \A c \in Clients : WF_vars(Progress(c))
    /\ WF_vars(Expire /\ slot.state = "pending")

-----------------------------------------------------------------------------
(* Properties *)

(* The write takes effect again only for an excuse of its own: a row       *)
(* expired, a lookup or claim failed and the handler ran unclaimed, a      *)
(* handler raised once its write was on its way, a release was sent twice. *)
(* Races, cancellations, clean failures, lost records and retries excuse   *)
(* nothing.                                                                *)
DuplicatesExcused == commits <= 1 + excuses

(* Without an excuse at most one handler of the key runs at a time.        *)
OneHandler ==
    excuses = 0 => \A b, c \in Clients :
        pc[b] \in {"run", "committed", "record"}
        /\ pc[c] \in {"run", "committed", "record"} => b = c

(* A replayed response was produced for a request with the same body, even *)
(* if the row changed hands while the client polled.                       *)
ReplaySameBody ==
    \A c \in Clients : ans[c] = "replay"
        => from[c] \in Clients /\ Hash[from[c]] = Hash[c] /\ commits > 0

(* A recorded response is neither overwritten nor discarded before it      *)
(* expires.                                                                *)
ResponseKept ==
    slot.state = "done" /\ slot.live
    => slot' \in {slot, [slot EXCEPT !.live = FALSE]}
ResponseStands == [][ResponseKept]_vars

(* A client that keeps retrying gets its response or learns that the key   *)
(* is taken by another body: no claim blocks the key for good.             *)
RetriesSettle == \A c \in Clients : <>[](ans[c] \in Final /\ pc[c] = "end")

(* A record that arrives for an expired claim does not fill the fresh      *)
(* claim that reclaimed the slot (docstring of idempotency_record).  Where *)
(* the row is gone, the record makes one of its own, that nobody claimed.  *)
RecordIsOwn ==
    slot.state = "done" /\ slot.owner # Nobody => slot.by = slot.owner

(* It takes an excuse for that docstring to fail, or for a record to find  *)
(* no row: while no claim expired and every lookup, claim and release was  *)
(* answered, a response is recorded only over the claim it was produced    *)
(* under, however late the record arrives.                                 *)
RecordOwnUnlessExcused ==
    excuses = 0 /\ slot.state = "done" => slot.by = slot.owner

(* What the clients see is what WriteOnce promises: in particular no two   *)
(* of them are handed the same effect as their own, and a response, once   *)
(* given, stands.                                                          *)
Owners == {c \in Clients : ans[c] = "own"}

Promise == INSTANCE WriteOnce WITH fresh <- Cardinality(Owners)
KeepsPromise == Promise!Spec
=============================================================================

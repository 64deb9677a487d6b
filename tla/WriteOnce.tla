------------------------------ MODULE WriteOnce ------------------------------
(***************************************************************************)
(* What the Idempotency-Key inbox promises the clients of one key.  The    *)
(* write takes effect once, and once more for each excuse.  Every response *)
(* handed out as a fresh one belongs to an effect of its own; a replayed   *)
(* response was produced for the same body, after the write took effect;   *)
(* a client is told of a mismatch only if another body uses the key.  Such *)
(* an answer is never taken back; any other tells the client to try again. *)
(*                                                                         *)
(* Idempotency implements this specification.                              *)
(***************************************************************************)
EXTENDS Naturals

CONSTANTS Clients, Hash, Nobody

VARIABLES
    ans,        \* ans[c]: the last answer c got, or "none" while it waits
    from,       \* from[c]: whose response was replayed to c
    fresh,      \* how many clients were given a response of their own
    commits,    \* how often the write took effect
    excuses     \* events after which it may take effect once more

vars == <<ans, from, fresh, commits, excuses>>

TryAgain == {"in_progress", "vanished", "unavailable", "error", "gone"}

Init ==
    /\ ans = [c \in Clients |-> "none"]
    /\ from = [c \in Clients |-> Nobody]
    /\ fresh = 0
    /\ commits = 0
    /\ excuses = 0

Excuse == excuses' = excuses + 1 /\ UNCHANGED <<ans, from, fresh, commits>>

Effect ==
    /\ commits <= excuses
    /\ commits' = commits + 1
    /\ UNCHANGED <<ans, from, fresh, excuses>>

Answer(c, a, b) ==
    /\ ans[c] = "none"
    /\ ans' = [ans EXCEPT ![c] = a]
    /\ from' = [from EXCEPT ![c] = b]
    /\ UNCHANGED commits

(* The response of a handler that ran for c. *)
Own(c) ==
    /\ fresh < commits
    /\ fresh' = fresh + 1
    /\ Answer(c, "own", Nobody)
    /\ UNCHANGED excuses

Replay(c) ==
    /\ commits > 0
    /\ \E b \in Clients : Hash[b] = Hash[c] /\ Answer(c, "replay", b)
    /\ UNCHANGED <<fresh, excuses>>

Mismatch(c) ==
    /\ \E b \in Clients : Hash[b] # Hash[c]
    /\ Answer(c, "mismatch", Nobody)
    /\ UNCHANGED <<fresh, excuses>>

(* What failed the request may excuse another effect too. *)
Fail(c) ==
    /\ \E a \in TryAgain : Answer(c, a, Nobody)
    /\ excuses' \in {excuses, excuses + 1}
    /\ UNCHANGED fresh

Retry(c) ==
    /\ ans[c] \in TryAgain
    /\ ans' = [ans EXCEPT ![c] = "none"]
    /\ UNCHANGED <<from, fresh, commits, excuses>>

Next ==
    \/ Excuse \/ Effect
    \/ \E c \in Clients :
          Own(c) \/ Replay(c) \/ Mismatch(c) \/ Fail(c) \/ Retry(c)

Spec == Init /\ [][Next]_vars
=============================================================================

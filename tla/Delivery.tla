------------------------------ MODULE Delivery ------------------------------
(***************************************************************************)
(* What a subscription of the event bus promises: at-least-once delivery.  *)
(* A published message stays pending until it is retired.  It is retired   *)
(* by an acknowledgement only when somebody has already answered for it (a *)
(* handler run that succeeded, a rule that says the message is not ours or *)
(* unreadable, or a confirmed replacement), or by the broker's             *)
(* dead-letter policy.  It is retired once, and never comes back.          *)
(*                                                                         *)
(* EventBus implements this specification.                                 *)
(***************************************************************************)

CONSTANT Messages

VARIABLES
    fate,       \* fate[m]: where message m stands
    answered    \* the messages somebody has answered for

vars == <<fate, answered>>

Init == /\ fate = [m \in Messages |-> "unpublished"]
        /\ answered = {}

Publish(m) == /\ fate[m] = "unpublished"
              /\ fate' = [fate EXCEPT ![m] = "pending"]
              /\ answered' \in {answered, answered \cup {m}}

\* Somebody answers for m; publishing a replacement of m is one way to do so,
\* and then the replacement becomes pending in the same step.
Answer(m) == /\ fate[m] # "unpublished"
             /\ answered' = answered \cup {m}
             /\ fate' \in {fate} \cup
                   {[fate EXCEPT ![r] = "pending"] :
                        r \in {r \in Messages : fate[r] = "unpublished"}}

\* One acknowledge request retires several messages at once.
Ack(S) == /\ S # {}
          /\ S \subseteq answered
          /\ \A m \in S : fate[m] = "pending"
          /\ fate' = [m \in Messages |-> IF m \in S THEN "acked" ELSE fate[m]]
          /\ UNCHANGED answered

DeadLetter(m) == /\ fate[m] = "pending"
                 /\ fate' = [fate EXCEPT ![m] = "dead"]
                 /\ UNCHANGED answered

Next == \/ \E m \in Messages : Publish(m) \/ Answer(m) \/ DeadLetter(m)
        \/ \E S \in SUBSET Messages : Ack(S)

Spec == Init /\ [][Next]_vars
=============================================================================

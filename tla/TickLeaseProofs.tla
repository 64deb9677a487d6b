-------------------------- MODULE TickLeaseProofs ---------------------------
(***************************************************************************)
(* Theorems about TickLease, for any number of replicas, any period and    *)
(* anchor, and any skew and request life whose sum stays below the TTL.    *)
(*                                                                         *)
(* The argument is about time.  Every claim for a mark reaches Redis in    *)
(* the window from Skew before it to RequestLife after it.  A key lives    *)
(* longer than a window, so a second claim for the mark finds it; and it   *)
(* lives for at most half a period, rounded up, so it is gone before the   *)
(* window of the next mark opens.                                          *)
(***************************************************************************)
EXTENDS TickLease, TLAPS

(* The TTL is a whole number of ticks, and at most half the period, rounded   *)
(* up.                                                                        *)
LEMMA TtlBound == Ttl \in Nat /\ 2 * Ttl <= Period + 1
BY PeriodAssumption DEF Ttl

(* A mark is an instant. *)
LEMMA MarkType == \A k \in Nat : Mark(k) \in Nat
BY PeriodAssumption DEF Mark

(* Two marks are at least a period apart. *)
LEMMA MarksApart ==
    ASSUME NEW j \in Nat, NEW k \in Nat, j < k
    PROVE  Mark(j) + Period <= Mark(k)
<1> DEFINE d == k - j - 1
<1>1. d \in Nat /\ k = j + 1 + d
  OBVIOUS
<1>2. Period * (j + 1 + d) = Period * j + Period + Period * d
  BY <1>1, PeriodAssumption
<1>3. Period * d \in Nat /\ Period * j \in Nat
  BY <1>1, PeriodAssumption
<1> QED BY <1>1, <1>2, <1>3, PeriodAssumption DEF Mark

(* A delay provider's target is strictly in the future: the loop cannot spin   *)
(* on a mark (the providers' "strict-future guarantee").                       *)
LEMMA NextSlotFuture ==
    ASSUME NEW t \in Nat, t < Mark(MaxSlot)
    PROVE  NextSlot(t) \in Slots /\ t < Mark(NextSlot(t))
<1> DEFINE q == t \div Period
<1>1. q \in Nat /\ Period * q <= t /\ t < Period * q + Period
  BY PeriodAssumption
<1>2. Mark(q + 1) = Anchor + Period * q + Period /\ Mark(q) = Anchor + Period * q
  BY <1>1, PeriodAssumption DEF Mark
<1>3. NextSlot(t) \in {q, q + 1} /\ t < Mark(NextSlot(t))
  BY <1>1, <1>2, PeriodAssumption DEF NextSlot
<1>4. q <= MaxSlot
  <2>1. CASE MaxSlot < q
    <3>1. Mark(MaxSlot) + Period <= Mark(q)
      BY <1>1, <2>1, MarksApart, PeriodAssumption
    <3> QED BY <1>1, <1>2, <3>1, MarkType, PeriodAssumption
  <2> QED BY <1>1, <2>1, PeriodAssumption
<1>5. CASE q < MaxSlot
  BY <1>1, <1>3, <1>5, PeriodAssumption DEF Slots
<1>6. CASE q = MaxSlot
  <2>1. ~(Mark(q) <= t)
    BY <1>1, <1>2, <1>6, PeriodAssumption
  <2>2. NextSlot(t) = q
    BY <2>1 DEF NextSlot
  <2> QED BY <1>1, <1>3, <1>6, <2>2, PeriodAssumption DEF Slots
<1> QED BY <1>1, <1>4, <1>5, <1>6, PeriodAssumption

----------------------------------------------------------------------------
(* The inductive invariant.                                                *)

\* A claim for mark k can only be on its way now if this is so.
InWindow(k) == Mark(k) - Skew <= now /\ now <= Mark(k) + RequestLife

\* Where every replica and every claim stands in time.
TimeInv ==
    /\ now + Skew < Mark(MaxSlot)
    /\ \A r \in Replicas :
        /\ st[r] \in {"asleep", "asking"} =>
              Mark(slot[r]) - Skew <= wake[r] /\ wake[r] <= Mark(slot[r])
        /\ st[r] = "asleep" => now <= wake[r]
        /\ st[r] = "asking" => wake[r] <= now /\ now <= wake[r] + RequestLife
        /\ reply[r] # "none" => st[r] = "asking"
    /\ \A o \in orphans :
        /\ now <= o.due /\ o.due <= Mark(o.slot) + RequestLife
        /\ Mark(o.slot) - Skew <= now

\* What the key's expiry says about the claims that set it.
KeyInv ==
    /\ \A k \in Slots : claims[k] > 0 =>
          Mark(k) - Skew + Ttl <= until /\ Mark(k) - Skew <= now
    /\ until > 0 => \E j \in Slots :
          claims[j] > 0 /\ until <= Mark(j) + RequestLife + Ttl

\* A mark is claimed once, and a guarded run spends the claim.
CountInv ==
    /\ \A k \in Slots : claims[k] <= 1 /\ fires[k] <= open[k] + claims[k]
    /\ \A r \in Replicas : reply[r] = "yes" =>
          claims[slot[r]] = 1 /\ fires[slot[r]] <= open[slot[r]]
    /\ \A r, s \in Replicas :
          reply[r] = "yes" /\ reply[s] = "yes" /\ slot[r] = slot[s] => r = s

\* Every claimed mark is accounted for, and a denial names a claimed mark.
LossInv ==
    /\ \A k \in Slots : claims[k] > 0 => Accounted(k)
    /\ \A r \in Replicas : reply[r] = "no" => claims[slot[r]] > 0
    /\ \A o \in orphans : fires[o.slot] > 0 \/ o.slot \in abandoned
    /\ \A k \in denied : claims[k] > 0

IInv == TypeOK /\ TimeInv /\ KeyInv /\ CountInv /\ LossInv

----------------------------------------------------------------------------
(* Going to sleep: the target is a mark ahead, missed by at most Skew. *)
LEMMA SleepEffect ==
    ASSUME TypeOK, TimeInv, NEW r \in Replicas, Sleep(r)
    PROVE  \E k \in Slots, w \in Nat :
              /\ st' = [st EXCEPT ![r] = "asleep"]
              /\ slot' = [slot EXCEPT ![r] = k]
              /\ wake' = [wake EXCEPT ![r] = w]
              /\ reply' = [reply EXCEPT ![r] = "none"]
              /\ Mark(k) - Skew <= w /\ w <= Mark(k) /\ now < w
<1>1. PICK h \in 0..Skew : LET k == NextSlot(now + h) IN
          /\ st' = [st EXCEPT ![r] = "asleep"]
          /\ slot' = [slot EXCEPT ![r] = k]
          /\ wake' = [wake EXCEPT ![r] = Mark(k) - h]
          /\ reply' = [reply EXCEPT ![r] = "none"]
  BY DEF Sleep
<1> DEFINE k == NextSlot(now + h)
<1>2. now \in Nat /\ h \in Nat /\ h <= Skew /\ now + h < Mark(MaxSlot)
  BY PeriodAssumption, MarkType DEF TypeOK, TimeInv
<1>3. k \in Slots /\ now + h < Mark(k)
  BY <1>2, NextSlotFuture
<1>4. Mark(k) \in Nat /\ Mark(k) - h \in Nat
  BY <1>2, <1>3, MarkType DEF Slots
<1>5. Mark(k) - Skew <= Mark(k) - h /\ Mark(k) - h <= Mark(k) /\ now < Mark(k) - h
  BY <1>2, <1>3, <1>4, PeriodAssumption
<1>6. /\ st' = [st EXCEPT ![r] = "asleep"]
      /\ slot' = [slot EXCEPT ![r] = k]
      /\ wake' = [wake EXCEPT ![r] = Mark(k) - h]
      /\ reply' = [reply EXCEPT ![r] = "none"]
  BY <1>1
<1> HIDE DEF k
<1> QED BY <1>3, <1>4, <1>5, <1>6

(* A claim lands: within its window it sets the key if and only if it is the   *)
(* first for its mark.                                                         *)
LEMMA SetNxEffect ==
    ASSUME TypeOK, KeyInv, NEW k \in Slots, InWindow(k),
           NEW granted \in BOOLEAN, SetNx(k, granted)
    PROVE  /\ granted => claims[k] = 0 /\ until' = now + Ttl
                         /\ until <= now /\ claims' = [claims EXCEPT ![k] = 1]
           /\ ~granted => claims[k] > 0 /\ UNCHANGED <<until, claims>>
<1>0. /\ k \in Nat /\ Mark(k) \in Nat /\ Ttl \in Nat /\ Skew \in Nat
      /\ RequestLife \in Nat /\ Period \in Nat /\ now \in Nat /\ until \in Nat
      /\ claims \in [Slots -> Nat] /\ Skew + RequestLife < Ttl
      /\ 2 * Ttl <= Period + 1
  <2>1. k \in Nat
    BY DEF Slots
  <2>2. Mark(k) \in Nat
    BY <2>1, MarkType
  <2> QED BY <2>1, <2>2, TtlBound, PeriodAssumption, SpreadAssumption DEF TypeOK
<1>1. CASE granted
  <2>1. until <= now /\ until' = now + Ttl
        /\ claims' = [claims EXCEPT ![k] = claims[k] + 1]
    BY <1>1 DEF SetNx
  <2>2. claims[k] = 0
    BY <1>0, <2>1 DEF KeyInv, InWindow
  <2> QED BY <1>1, <2>1, <2>2
<1>2. CASE ~granted
  <2>1. ~(until <= now) /\ UNCHANGED <<until, claims>>
    BY <1>2 DEF SetNx
  <2>2. PICK j \in Slots : claims[j] > 0 /\ until <= Mark(j) + RequestLife + Ttl
    BY <1>0, <2>1 DEF KeyInv
  <2>3. j \in Nat /\ Mark(j) \in Nat /\ Mark(j) - Skew <= now
    BY <2>2, MarkType DEF KeyInv, Slots
  <2>4. ~(j < k)
    <3>1. SUFFICES ASSUME j < k PROVE FALSE
      OBVIOUS
    <3>2. Mark(j) + Period <= Mark(k)
      BY <1>0, <2>3, <3>1, MarksApart
    <3> QED BY <1>0, <2>1, <2>2, <2>3, <3>2 DEF InWindow
  <2>5. ~(k < j)
    <3>1. SUFFICES ASSUME k < j PROVE FALSE
      OBVIOUS
    <3>2. Mark(k) + Period <= Mark(j)
      BY <1>0, <2>3, <3>1, MarksApart
    <3> QED BY <1>0, <2>3, <3>2 DEF InWindow
  <2> QED BY <1>0, <1>2, <2>1, <2>2, <2>3, <2>4, <2>5
<1> QED BY <1>1, <1>2

\* The claim for mark k is the first, and sets the key.
FirstClaim(k) ==
    /\ claims[k] = 0 /\ until <= now /\ until' = now + Ttl
    /\ claims' = [claims EXCEPT ![k] = 1]

(* What a decision of core-api does. *)
LEMMA ClaimEffect ==
    ASSUME TypeOK, TimeInv, KeyInv, NEW r \in Replicas, Claim(r)
    PROVE  /\ st[r] = "asking" /\ reply[r] = "none" /\ InWindow(slot[r])
           /\ UNCHANGED <<now, orphans, st, slot, wake, fires, open, denied, abandoned>>
           /\ \/ FirstClaim(slot[r]) /\ reply' = [reply EXCEPT ![r] = "yes"]
              \/ /\ claims[slot[r]] > 0 /\ reply' = [reply EXCEPT ![r] = "no"]
                 /\ UNCHANGED <<until, claims>>
<1>1. PICK granted \in BOOLEAN :
          SetNx(slot[r], granted) /\ Decide(r, IF granted THEN "yes" ELSE "no")
  BY DEF Claim
<1>2. /\ st[r] = "asking" /\ reply[r] = "none"
      /\ reply' = [reply EXCEPT ![r] = IF granted THEN "yes" ELSE "no"]
      /\ UNCHANGED <<now, orphans, st, slot, wake, fires, open, denied, abandoned>>
  BY <1>1 DEF Decide, history
<1>3. slot[r] \in Slots /\ InWindow(slot[r])
  <2>1. slot[r] \in Slots /\ slot[r] \in Nat
    BY DEF TypeOK, Slots
  <2>2. Mark(slot[r]) \in Nat
    BY <2>1, MarkType
  <2> QED BY <1>2, <2>1, <2>2, PeriodAssumption DEF TypeOK, TimeInv, InWindow
<1>4. /\ granted => FirstClaim(slot[r])
      /\ ~granted => claims[slot[r]] > 0 /\ UNCHANGED <<until, claims>>
  BY <1>1, <1>3, SetNxEffect DEF FirstClaim
<1> QED BY <1>2, <1>3, <1>4

(* What one that meets its own key does. *)
LEMMA ResentEffect ==
    ASSUME TypeOK, TimeInv, KeyInv, NEW r \in Replicas, ClaimResent(r)
    PROVE  /\ st[r] = "asking" /\ reply[r] = "none" /\ InWindow(slot[r])
           /\ UNCHANGED <<now, orphans, st, slot, wake, fires, open, denied>>
           /\ reply' = [reply EXCEPT ![r] = "no"]
           /\ abandoned' = abandoned \cup {slot[r]}
           /\ FirstClaim(slot[r])
<1>1. /\ st[r] = "asking" /\ reply[r] = "none" /\ SetNx(slot[r], TRUE)
      /\ reply' = [reply EXCEPT ![r] = "no"]
      /\ abandoned' = abandoned \cup {slot[r]}
      /\ UNCHANGED <<now, orphans, st, slot, wake, fires, open, denied>>
  BY DEF ClaimResent
<1>2. slot[r] \in Slots /\ InWindow(slot[r])
  <2>1. slot[r] \in Slots /\ slot[r] \in Nat
    BY DEF TypeOK, Slots
  <2>2. Mark(slot[r]) \in Nat
    BY <2>1, MarkType
  <2> QED BY <1>1, <2>1, <2>2, PeriodAssumption DEF TypeOK, TimeInv, InWindow
<1>3. FirstClaim(slot[r])
  BY <1>1, <1>2, SetNxEffect DEF FirstClaim
<1> QED BY <1>1, <1>2, <1>3

(* What one that could not consult Redis does. *)
LEMMA UnguardedEffect ==
    ASSUME TypeOK, TimeInv, KeyInv, NEW r \in Replicas, ClaimUnguarded(r)
    PROVE  /\ st[r] = "asking" /\ reply[r] = "none" /\ InWindow(slot[r])
           /\ UNCHANGED <<now, orphans, st, slot, wake, fires, open, denied, abandoned>>
           /\ reply' = [reply EXCEPT ![r] = "open"]
           /\ FirstClaim(slot[r]) \/ UNCHANGED <<until, claims>>
<1>1. /\ st[r] = "asking" /\ reply[r] = "none"
      /\ reply' = [reply EXCEPT ![r] = "open"]
      /\ UNCHANGED <<now, orphans, st, slot, wake, fires, open, denied, abandoned>>
  BY DEF ClaimUnguarded, Decide, history
<1>2. slot[r] \in Slots /\ InWindow(slot[r])
  <2>1. slot[r] \in Slots /\ slot[r] \in Nat
    BY DEF TypeOK, Slots
  <2>2. Mark(slot[r]) \in Nat
    BY <2>1, MarkType
  <2> QED BY <1>1, <2>1, <2>2, PeriodAssumption DEF TypeOK, TimeInv, InWindow
<1>3. FirstClaim(slot[r]) \/ UNCHANGED <<until, claims>>
  <2>1. CASE \E granted \in BOOLEAN : SetNx(slot[r], granted)
    BY <1>2, <2>1, SetNxEffect DEF FirstClaim
  <2> QED BY <2>1 DEF ClaimUnguarded
<1> QED BY <1>1, <1>2, <1>3

(* What a claim nobody waits for does. *)
LEMMA LateEffect ==
    ASSUME TypeOK, TimeInv, KeyInv, NEW o \in orphans, LateClaim(o)
    PROVE  /\ o \in Orphan /\ InWindow(o.slot) /\ orphans' = orphans \ {o}
           /\ UNCHANGED <<now, st, slot, wake, reply, fires, open, denied, abandoned>>
           /\ FirstClaim(o.slot) \/ UNCHANGED <<until, claims>>
<1>1. /\ orphans' = orphans \ {o}
      /\ UNCHANGED <<now, st, slot, wake, reply, fires, open, denied, abandoned>>
  BY DEF LateClaim, process, history
<1>2. o \in Orphan /\ o.slot \in Slots /\ o.slot \in Nat /\ o.due \in Nat
  BY DEF TypeOK, Orphan, Slots
<1>3. InWindow(o.slot)
  <2>1. Mark(o.slot) \in Nat
    BY <1>2, MarkType
  <2> QED BY <1>2, <2>1, PeriodAssumption DEF TypeOK, TimeInv, InWindow
<1>4. FirstClaim(o.slot) \/ UNCHANGED <<until, claims>>
  <2>1. CASE \E granted \in BOOLEAN : SetNx(o.slot, granted)
    BY <1>2, <1>3, <2>1, SetNxEffect DEF FirstClaim
  <2> QED BY <2>1 DEF LateClaim
<1> QED BY <1>1, <1>2, <1>3, <1>4

----------------------------------------------------------------------------
(* Every step keeps the types. *)
LEMMA TypeStep ==
    ASSUME TypeOK, TimeInv, KeyInv, [Next]_vars
    PROVE  TypeOK'
<1>1. ASSUME NEW r \in Replicas, Wake(r)
      PROVE  TypeOK'
  BY <1>1 DEF Wake, TypeOK, lease, history
<1>2. ASSUME NEW r \in Replicas, Granted(r)
      PROVE  TypeOK'
  BY <1>2 DEF Granted, Run, TypeOK, lease
<1>3. ASSUME NEW r \in Replicas, Denied(r)
      PROVE  TypeOK'
  <2>1. /\ st[r] = "asking" /\ Sleep(r)
        /\ UNCHANGED <<now, until, orphans, claims, fires, open, abandoned>>
    BY <1>3 DEF Denied, lease, history
  <2>2. PICK k \in Slots, w \in Nat :
              /\ st' = [st EXCEPT ![r] = "asleep"]
              /\ slot' = [slot EXCEPT ![r] = k]
              /\ wake' = [wake EXCEPT ![r] = w]
              /\ reply' = [reply EXCEPT ![r] = "none"]
              /\ Mark(k) - Skew <= w /\ w <= Mark(k) /\ now < w
    BY <2>1, SleepEffect
  <2>3. denied' = denied \cup {slot[r]}
    BY <1>3 DEF Denied
  <2> QED BY <2>1, <2>2, <2>3 DEF TypeOK
<1>4. ASSUME NEW r \in Replicas, FailOpen(r)
      PROVE  TypeOK'
  <2>1. orphans' \subseteq Orphan
    BY <1>4, PeriodAssumption DEF FailOpen, Disown, TypeOK, Orphan
  <2> QED BY <1>4, <2>1 DEF FailOpen, Run, Disown, TypeOK
<1>5. ASSUME NEW r \in Replicas, Finish(r)
      PROVE  TypeOK'
  <2>1. /\ st[r] = "running" /\ Sleep(r)
        /\ UNCHANGED <<now, until, orphans, claims, fires, open, denied, abandoned>>
    BY <1>5 DEF Finish, lease, history
  <2>2. PICK k \in Slots, w \in Nat :
              /\ st' = [st EXCEPT ![r] = "asleep"]
              /\ slot' = [slot EXCEPT ![r] = k]
              /\ wake' = [wake EXCEPT ![r] = w]
              /\ reply' = [reply EXCEPT ![r] = "none"]
              /\ Mark(k) - Skew <= w /\ w <= Mark(k) /\ now < w
    BY <2>1, SleepEffect
  <2> QED BY <2>1, <2>2 DEF TypeOK
<1>6. ASSUME NEW r \in Replicas, Claim(r)
      PROVE  TypeOK'
  <2>1. until' \in Nat /\ claims' \in [Slots -> Nat]
    BY <1>6, ClaimEffect, TtlBound DEF TypeOK, FirstClaim
  <2> QED BY <1>6, <2>1, ClaimEffect DEF TypeOK
<1>7. ASSUME NEW r \in Replicas, ClaimUnguarded(r)
      PROVE  TypeOK'
  <2>1. until' \in Nat /\ claims' \in [Slots -> Nat]
    BY <1>7, UnguardedEffect, TtlBound DEF TypeOK, FirstClaim
  <2> QED BY <1>7, <2>1, UnguardedEffect DEF TypeOK
<1>8. ASSUME NEW r \in Replicas, Boot(r)
      PROVE  TypeOK'
  <2>1. /\ st[r] = "down" /\ Sleep(r)
        /\ UNCHANGED <<now, until, orphans, claims, fires, open, denied, abandoned>>
    BY <1>8 DEF Boot, lease, history
  <2>2. PICK k \in Slots, w \in Nat :
              /\ st' = [st EXCEPT ![r] = "asleep"]
              /\ slot' = [slot EXCEPT ![r] = k]
              /\ wake' = [wake EXCEPT ![r] = w]
              /\ reply' = [reply EXCEPT ![r] = "none"]
              /\ Mark(k) - Skew <= w /\ w <= Mark(k) /\ now < w
    BY <2>1, SleepEffect
  <2> QED BY <2>1, <2>2 DEF TypeOK
<1>9. ASSUME NEW r \in Replicas, Halt(r)
      PROVE  TypeOK'
  <2>1. orphans' \subseteq Orphan /\ abandoned' \subseteq Slots
    BY <1>9, PeriodAssumption DEF Halt, Disown, TypeOK, Orphan, lease
  <2>2. UNCHANGED <<until, claims>>
    BY <1>9 DEF Halt, Disown, lease
  <2>3. 0 \in Slots
    BY PeriodAssumption DEF Slots
  <2> QED BY <1>9, <2>1, <2>2, <2>3 DEF Halt, TypeOK
<1>10. ASSUME NEW o \in orphans, LateClaim(o)
      PROVE  TypeOK'
  <2>1. until' \in Nat /\ claims' \in [Slots -> Nat]
    BY <1>10, LateEffect, TtlBound DEF TypeOK, FirstClaim
  <2> QED BY <1>10, <2>1, LateEffect DEF TypeOK
<1>11. CASE Tick
  BY <1>11 DEF Tick, TypeOK, process, lease, history
<1>12. CASE UNCHANGED vars
  BY <1>12 DEF TypeOK, vars, process, lease, history
<1>13. ASSUME NEW r \in Replicas, ClaimResent(r)
      PROVE  TypeOK'
  <2>1. until' \in Nat /\ claims' \in [Slots -> Nat]
    BY <1>13, ResentEffect, TtlBound DEF TypeOK, FirstClaim
  <2>2. abandoned' \subseteq Slots
    BY <1>13, ResentEffect DEF TypeOK
  <2> QED BY <1>13, <2>1, <2>2, ResentEffect DEF TypeOK
<1> QED
  BY <1>1, <1>2, <1>3, <1>4, <1>5, <1>6, <1>7, <1>8, <1>9, <1>10, <1>11, <1>12,
     <1>13
  DEF Next, Loop, Server

(* Every step keeps every claim within its window. *)
LEMMA TimeStep ==
    ASSUME TypeOK, TimeInv, KeyInv, [Next]_vars
    PROVE  TimeInv'
<1> USE PeriodAssumption
<1>0. \A s \in Slots : Mark(s) \in Nat
  BY MarkType DEF Slots
<1>1. ASSUME NEW r \in Replicas, Wake(r)
      PROVE  TimeInv'
  BY <1>1, <1>0 DEF Wake, TimeInv, TypeOK, lease, history
<1>2. ASSUME NEW r \in Replicas, Granted(r)
      PROVE  TimeInv'
  BY <1>2, <1>0 DEF Granted, Run, TimeInv, TypeOK, lease
<1>3. ASSUME NEW r \in Replicas, Denied(r)
      PROVE  TimeInv'
  <2>1. /\ st[r] = "asking" /\ Sleep(r)
        /\ UNCHANGED <<now, until, orphans, claims, fires, open, abandoned>>
    BY <1>3 DEF Denied, lease, history
  <2>2. PICK k \in Slots, w \in Nat :
              /\ st' = [st EXCEPT ![r] = "asleep"]
              /\ slot' = [slot EXCEPT ![r] = k]
              /\ wake' = [wake EXCEPT ![r] = w]
              /\ reply' = [reply EXCEPT ![r] = "none"]
              /\ Mark(k) - Skew <= w /\ w <= Mark(k) /\ now < w
    BY <2>1, SleepEffect
  <2> QED BY <1>0, <2>1, <2>2 DEF TimeInv, TypeOK
<1>4. ASSUME NEW r \in Replicas, FailOpen(r)
      PROVE  TimeInv'
  <2>1. \A o \in orphans' :
          /\ now' <= o.due /\ o.due <= Mark(o.slot) + RequestLife
          /\ Mark(o.slot) - Skew <= now'
    <3> DEFINE own == [by |-> r, slot |-> slot[r], due |-> wake[r] + RequestLife]
    <3>1. /\ UNCHANGED now /\ orphans' \subseteq orphans \cup {own}
          /\ st[r] # "asking" => orphans' = orphans
      BY <1>4 DEF FailOpen, Disown, lease
    <3>2. st[r] = "asking" =>
             /\ now <= wake[r] + RequestLife
             /\ wake[r] + RequestLife <= Mark(slot[r]) + RequestLife
             /\ Mark(slot[r]) - Skew <= now
      BY <1>0 DEF TimeInv, TypeOK
    <3>3. own.slot = slot[r] /\ own.due = wake[r] + RequestLife
      OBVIOUS
    <3> HIDE DEF own
    <3> QED BY <3>1, <3>2, <3>3 DEF TimeInv
  <2> QED BY <1>4, <1>0, <2>1 DEF FailOpen, Run, TimeInv, TypeOK
<1>5. ASSUME NEW r \in Replicas, Finish(r)
      PROVE  TimeInv'
  <2>1. /\ st[r] = "running" /\ Sleep(r)
        /\ UNCHANGED <<now, until, orphans, claims, fires, open, denied, abandoned>>
    BY <1>5 DEF Finish, lease, history
  <2>2. PICK k \in Slots, w \in Nat :
              /\ st' = [st EXCEPT ![r] = "asleep"]
              /\ slot' = [slot EXCEPT ![r] = k]
              /\ wake' = [wake EXCEPT ![r] = w]
              /\ reply' = [reply EXCEPT ![r] = "none"]
              /\ Mark(k) - Skew <= w /\ w <= Mark(k) /\ now < w
    BY <2>1, SleepEffect
  <2> QED BY <1>0, <2>1, <2>2 DEF TimeInv, TypeOK
<1>6. ASSUME NEW r \in Replicas, Claim(r)
      PROVE  TimeInv'
  BY <1>6, ClaimEffect DEF TimeInv, TypeOK
<1>7. ASSUME NEW r \in Replicas, ClaimUnguarded(r)
      PROVE  TimeInv'
  BY <1>7, UnguardedEffect DEF TimeInv, TypeOK
<1>8. ASSUME NEW r \in Replicas, Boot(r)
      PROVE  TimeInv'
  <2>1. /\ st[r] = "down" /\ Sleep(r)
        /\ UNCHANGED <<now, until, orphans, claims, fires, open, denied, abandoned>>
    BY <1>8 DEF Boot, lease, history
  <2>2. PICK k \in Slots, w \in Nat :
              /\ st' = [st EXCEPT ![r] = "asleep"]
              /\ slot' = [slot EXCEPT ![r] = k]
              /\ wake' = [wake EXCEPT ![r] = w]
              /\ reply' = [reply EXCEPT ![r] = "none"]
              /\ Mark(k) - Skew <= w /\ w <= Mark(k) /\ now < w
    BY <2>1, SleepEffect
  <2> QED BY <1>0, <2>1, <2>2 DEF TimeInv, TypeOK
<1>9. ASSUME NEW r \in Replicas, Halt(r)
      PROVE  TimeInv'
  <2>1. \A o \in orphans' :
          /\ now' <= o.due /\ o.due <= Mark(o.slot) + RequestLife
          /\ Mark(o.slot) - Skew <= now'
    <3> DEFINE own == [by |-> r, slot |-> slot[r], due |-> wake[r] + RequestLife]
    <3>1. /\ UNCHANGED now /\ orphans' \subseteq orphans \cup {own}
          /\ st[r] # "asking" => orphans' = orphans
      BY <1>9 DEF Halt, Disown, lease
    <3>2. st[r] = "asking" =>
             /\ now <= wake[r] + RequestLife
             /\ wake[r] + RequestLife <= Mark(slot[r]) + RequestLife
             /\ Mark(slot[r]) - Skew <= now
      BY <1>0 DEF TimeInv, TypeOK
    <3>3. own.slot = slot[r] /\ own.due = wake[r] + RequestLife
      OBVIOUS
    <3> HIDE DEF own
    <3> QED BY <3>1, <3>2, <3>3 DEF TimeInv
  <2> QED BY <1>9, <1>0, <2>1 DEF Halt, TimeInv, TypeOK
<1>10. ASSUME NEW o \in orphans, LateClaim(o)
      PROVE  TimeInv'
  BY <1>10, LateEffect DEF TimeInv, TypeOK
<1>11. CASE Tick
  <2>1. now' = now + 1 /\ UNCHANGED <<st, slot, wake, reply, orphans>>
    BY <1>11 DEF Tick, process, lease
  <2>2. now \in Nat /\ \A r \in Replicas : wake[r] \in Nat /\ Mark(slot[r]) \in Nat
    BY <1>0 DEF TypeOK
  <2>3. \A o \in orphans : o.due \in Nat /\ Mark(o.slot) \in Nat
    BY <1>0 DEF TypeOK, Orphan
  <2>4. \A r \in Replicas : /\ st[r] = "asleep" => now < wake[r]
                            /\ st[r] = "asking" => now < wake[r] + RequestLife
    BY <1>11 DEF Tick
  <2>5. now' + Skew < Mark(MaxSlot) /\ \A o \in orphans : now < o.due
    BY <1>11, <2>2 DEF Tick
  <2> QED BY <2>1, <2>2, <2>3, <2>4, <2>5 DEF TimeInv
<1>12. CASE UNCHANGED vars
  BY <1>12 DEF TimeInv, vars, process, lease, history
<1>13. ASSUME NEW r \in Replicas, ClaimResent(r)
      PROVE  TimeInv'
  BY <1>13, ResentEffect DEF TimeInv, TypeOK
<1> QED
  BY <1>1, <1>2, <1>3, <1>4, <1>5, <1>6, <1>7, <1>8, <1>9, <1>10, <1>11, <1>12,
     <1>13
  DEF Next, Loop, Server

(* A first claim keeps the reading of the key's expiry. *)
LEMMA FirstClaimKey ==
    ASSUME TypeOK, KeyInv, NEW k \in Slots, InWindow(k), FirstClaim(k), UNCHANGED now
    PROVE  KeyInv'
<1>0. \A j \in Slots : Mark(j) \in Nat
  BY MarkType DEF Slots
<1>1. now \in Nat /\ Ttl \in Nat /\ Skew \in Nat /\ RequestLife \in Nat /\ until \in Nat
      /\ claims \in [Slots -> Nat]
  BY TtlBound, PeriodAssumption DEF TypeOK
<1>2. until' = now + Ttl /\ until <= now /\ claims' = [claims EXCEPT ![k] = 1]
  BY DEF FirstClaim
<1>3. claims'[k] = 1 /\ \A j \in Slots : j # k => claims'[j] = claims[j]
  BY <1>1, <1>2
<1>4. ASSUME NEW j \in Slots, claims'[j] > 0
      PROVE  Mark(j) - Skew + Ttl <= until' /\ Mark(j) - Skew <= now'
  BY <1>0, <1>1, <1>2, <1>3, <1>4 DEF KeyInv, InWindow
<1>5. claims'[k] > 0 /\ until' <= Mark(k) + RequestLife + Ttl
  BY <1>0, <1>1, <1>2, <1>3 DEF InWindow
<1> QED BY <1>4, <1>5 DEF KeyInv

(* Every step keeps the reading of the key's expiry. *)
LEMMA KeyStep ==
    ASSUME TypeOK, TimeInv, KeyInv, [Next]_vars
    PROVE  KeyInv'
<1>1. ASSUME NEW r \in Replicas, Wake(r)
      PROVE  KeyInv'
  <2>1. UNCHANGED <<now, until, claims>>
    BY <1>1 DEF Wake, lease
  <2> QED BY <2>1 DEF KeyInv
<1>2. ASSUME NEW r \in Replicas, Granted(r)
      PROVE  KeyInv'
  <2>1. UNCHANGED <<now, until, claims>>
    BY <1>2 DEF Granted, lease
  <2> QED BY <2>1 DEF KeyInv
<1>3. ASSUME NEW r \in Replicas, Denied(r)
      PROVE  KeyInv'
  <2>1. UNCHANGED <<now, until, claims>>
    BY <1>3 DEF Denied, lease
  <2> QED BY <2>1 DEF KeyInv
<1>4. ASSUME NEW r \in Replicas, FailOpen(r)
      PROVE  KeyInv'
  <2>1. UNCHANGED <<now, until, claims>>
    BY <1>4 DEF FailOpen, Disown
  <2> QED BY <2>1 DEF KeyInv
<1>5. ASSUME NEW r \in Replicas, Finish(r)
      PROVE  KeyInv'
  <2>1. UNCHANGED <<now, until, claims>>
    BY <1>5 DEF Finish, lease
  <2> QED BY <2>1 DEF KeyInv
<1>6. ASSUME NEW r \in Replicas, Claim(r)
      PROVE  KeyInv'
  <2>1. slot[r] \in Slots
    BY DEF TypeOK
  <2>2. CASE FirstClaim(slot[r])
    BY <1>6, <2>1, <2>2, ClaimEffect, FirstClaimKey
  <2>3. CASE UNCHANGED <<until, claims>>
    BY <1>6, <2>3, ClaimEffect DEF KeyInv
  <2> QED BY <1>6, <2>2, <2>3, ClaimEffect
<1>7. ASSUME NEW r \in Replicas, ClaimUnguarded(r)
      PROVE  KeyInv'
  <2>1. slot[r] \in Slots
    BY DEF TypeOK
  <2>2. CASE FirstClaim(slot[r])
    BY <1>7, <2>1, <2>2, UnguardedEffect, FirstClaimKey
  <2>3. CASE UNCHANGED <<until, claims>>
    BY <1>7, <2>3, UnguardedEffect DEF KeyInv
  <2> QED BY <1>7, <2>2, <2>3, UnguardedEffect
<1>8. ASSUME NEW r \in Replicas, Boot(r)
      PROVE  KeyInv'
  <2>1. UNCHANGED <<now, until, claims>>
    BY <1>8 DEF Boot, lease
  <2> QED BY <2>1 DEF KeyInv
<1>9. ASSUME NEW r \in Replicas, Halt(r)
      PROVE  KeyInv'
  <2>1. UNCHANGED <<now, until, claims>>
    BY <1>9 DEF Halt, Disown, lease
  <2> QED BY <2>1 DEF KeyInv
<1>10. ASSUME NEW o \in orphans, LateClaim(o)
      PROVE  KeyInv'
  <2>1. o.slot \in Slots
    BY <1>10, LateEffect DEF Orphan
  <2>2. CASE FirstClaim(o.slot)
    BY <1>10, <2>1, <2>2, LateEffect, FirstClaimKey
  <2>3. CASE UNCHANGED <<until, claims>>
    BY <1>10, <2>3, LateEffect DEF KeyInv
  <2> QED BY <1>10, <2>2, <2>3, LateEffect
<1>11. CASE Tick
  <2>1. now' = now + 1 /\ UNCHANGED <<until, claims>>
    BY <1>11 DEF Tick, lease
  <2>2. now \in Nat /\ \A k \in Slots : Mark(k) \in Nat
    BY MarkType DEF TypeOK, Slots
  <2> QED BY <2>1, <2>2, PeriodAssumption DEF KeyInv
<1>12. CASE UNCHANGED vars
  BY <1>12 DEF KeyInv, vars, lease
<1>13. ASSUME NEW r \in Replicas, ClaimResent(r)
      PROVE  KeyInv'
  <2>1. slot[r] \in Slots
    BY DEF TypeOK
  <2> QED BY <1>13, <2>1, ResentEffect, FirstClaimKey
<1> QED
  BY <1>1, <1>2, <1>3, <1>4, <1>5, <1>6, <1>7, <1>8, <1>9, <1>10, <1>11, <1>12,
     <1>13
  DEF Next, Loop, Server

(* Every step keeps the count of claims and runs. *)
LEMMA CountStep ==
    ASSUME TypeOK, TimeInv, KeyInv, CountInv, [Next]_vars
    PROVE  CountInv'
<1>1. ASSUME NEW r \in Replicas, Wake(r)
      PROVE  CountInv'
  BY <1>1 DEF Wake, CountInv, lease, history
<1>2. ASSUME NEW r \in Replicas, Granted(r)
      PROVE  CountInv'
  <2> DEFINE k == slot[r]
  <2>1. /\ k \in Slots /\ reply[r] \in {"yes", "open"} /\ UNCHANGED <<slot, claims>>
        /\ reply' = [reply EXCEPT ![r] = "none"]
        /\ fires' = [fires EXCEPT ![k] = fires[k] + 1]
        /\ open' = [open EXCEPT ![k] = open[k] + (IF reply[r] = "open" THEN 1 ELSE 0)]
    BY <1>2 DEF Granted, Run, TypeOK, lease
  <2>2. \A s \in Replicas : reply'[s] = "yes" => s # r /\ reply[s] = "yes"
    BY <2>1 DEF TypeOK
  <2>3. CASE reply[r] = "yes"
    <3>1. claims[k] = 1 /\ fires[k] <= open[k] /\ open' = open
      BY <2>1, <2>3 DEF CountInv, TypeOK
    <3>2. \A s \in Replicas : reply'[s] = "yes" => slot[s] # k
      BY <2>2, <2>3 DEF CountInv
    <3> HIDE DEF k
    <3> QED BY <2>1, <2>2, <3>1, <3>2 DEF CountInv, TypeOK
  <2>4. CASE reply[r] = "open"
    <3>1. open' = [open EXCEPT ![k] = open[k] + 1]
      BY <2>1, <2>4
    <3> HIDE DEF k
    <3> QED BY <2>1, <2>2, <3>1 DEF CountInv, TypeOK
  <2> QED BY <2>1, <2>3, <2>4
<1>3. ASSUME NEW r \in Replicas, Denied(r)
      PROVE  CountInv'
  <2>1. /\ st[r] = "asking" /\ Sleep(r)
        /\ UNCHANGED <<now, until, orphans, claims, fires, open, abandoned>>
    BY <1>3 DEF Denied, lease, history
  <2>2. PICK k \in Slots, w \in Nat :
              /\ st' = [st EXCEPT ![r] = "asleep"]
              /\ slot' = [slot EXCEPT ![r] = k]
              /\ wake' = [wake EXCEPT ![r] = w]
              /\ reply' = [reply EXCEPT ![r] = "none"]
              /\ Mark(k) - Skew <= w /\ w <= Mark(k) /\ now < w
    BY <2>1, SleepEffect
  <2>3. \A s \in Replicas : reply'[s] = "yes" => reply[s] = "yes" /\ slot'[s] = slot[s]
    BY <2>2 DEF TypeOK
  <2> QED BY <2>1, <2>3 DEF CountInv
<1>4. ASSUME NEW r \in Replicas, FailOpen(r)
      PROVE  CountInv'
  <2> DEFINE k == slot[r]
  <2>1. /\ k \in Slots /\ UNCHANGED <<slot, claims>>
        /\ reply' = [reply EXCEPT ![r] = "none"]
        /\ fires' = [fires EXCEPT ![k] = fires[k] + 1]
        /\ open' = [open EXCEPT ![k] = open[k] + 1]
    BY <1>4 DEF FailOpen, Run, Disown, TypeOK
  <2>2. \A s \in Replicas : reply'[s] = "yes" => reply[s] = "yes"
    BY <2>1 DEF TypeOK
  <2> HIDE DEF k
  <2> QED BY <2>1, <2>2 DEF CountInv, TypeOK
<1>5. ASSUME NEW r \in Replicas, Finish(r)
      PROVE  CountInv'
  <2>1. /\ st[r] = "running" /\ Sleep(r)
        /\ UNCHANGED <<now, until, orphans, claims, fires, open, denied, abandoned>>
    BY <1>5 DEF Finish, lease, history
  <2>2. PICK k \in Slots, w \in Nat :
              /\ st' = [st EXCEPT ![r] = "asleep"]
              /\ slot' = [slot EXCEPT ![r] = k]
              /\ wake' = [wake EXCEPT ![r] = w]
              /\ reply' = [reply EXCEPT ![r] = "none"]
              /\ Mark(k) - Skew <= w /\ w <= Mark(k) /\ now < w
    BY <2>1, SleepEffect
  <2>3. \A s \in Replicas : reply'[s] = "yes" => reply[s] = "yes" /\ slot'[s] = slot[s]
    BY <2>2 DEF TypeOK
  <2> QED BY <2>1, <2>3 DEF CountInv
<1>6. ASSUME NEW r \in Replicas, Claim(r)
      PROVE  CountInv'
  <2>1. slot[r] \in Slots /\ reply[r] = "none" /\ UNCHANGED <<slot, fires, open>>
    BY <1>6, ClaimEffect DEF TypeOK
  <2>2. CASE FirstClaim(slot[r]) /\ reply' = [reply EXCEPT ![r] = "yes"]
    <3>1. \A s \in Replicas : s # r /\ reply'[s] = "yes" => reply[s] = "yes" /\ slot[s] # slot[r]
      BY <2>2 DEF TypeOK, CountInv, FirstClaim
    <3>2. fires[slot[r]] <= open[slot[r]] /\ claims'[slot[r]] = 1
          /\ \A k \in Slots : k # slot[r] => claims'[k] = claims[k]
      BY <2>1, <2>2 DEF TypeOK, CountInv, FirstClaim
    <3> QED BY <2>1, <3>1, <3>2 DEF TypeOK, CountInv
  <2>3. CASE reply' = [reply EXCEPT ![r] = "no"] /\ UNCHANGED claims
    BY <2>1, <2>3 DEF TypeOK, CountInv
  <2> QED BY <1>6, <2>2, <2>3, ClaimEffect
<1>7. ASSUME NEW r \in Replicas, ClaimUnguarded(r)
      PROVE  CountInv'
  <2>1. slot[r] \in Slots /\ UNCHANGED <<slot, fires, open>>
    BY <1>7, UnguardedEffect DEF TypeOK, Orphan
  <2>2. \A s \in Replicas : reply'[s] = "yes" => reply[s] = "yes"
    BY <1>7, UnguardedEffect DEF TypeOK
  <2>3. CASE FirstClaim(slot[r])
    <3>1. \A s \in Replicas : reply[s] = "yes" => slot[s] # slot[r]
      BY <2>3 DEF CountInv, FirstClaim
    <3>2. fires[slot[r]] <= open[slot[r]] /\ claims'[slot[r]] = 1
          /\ \A k \in Slots : k # slot[r] => claims'[k] = claims[k]
      BY <2>1, <2>3 DEF TypeOK, CountInv, FirstClaim
    <3> QED BY <2>1, <2>2, <3>1, <3>2 DEF TypeOK, CountInv
  <2>4. CASE UNCHANGED claims
    BY <2>1, <2>2, <2>4 DEF CountInv
  <2> QED BY <1>7, <2>3, <2>4, UnguardedEffect
<1>8. ASSUME NEW r \in Replicas, Boot(r)
      PROVE  CountInv'
  <2>1. /\ st[r] = "down" /\ Sleep(r)
        /\ UNCHANGED <<now, until, orphans, claims, fires, open, denied, abandoned>>
    BY <1>8 DEF Boot, lease, history
  <2>2. PICK k \in Slots, w \in Nat :
              /\ st' = [st EXCEPT ![r] = "asleep"]
              /\ slot' = [slot EXCEPT ![r] = k]
              /\ wake' = [wake EXCEPT ![r] = w]
              /\ reply' = [reply EXCEPT ![r] = "none"]
              /\ Mark(k) - Skew <= w /\ w <= Mark(k) /\ now < w
    BY <2>1, SleepEffect
  <2>3. \A s \in Replicas : reply'[s] = "yes" => reply[s] = "yes" /\ slot'[s] = slot[s]
    BY <2>2 DEF TypeOK
  <2> QED BY <2>1, <2>3 DEF CountInv
<1>9. ASSUME NEW r \in Replicas, Halt(r)
      PROVE  CountInv'
  <2>1. UNCHANGED <<claims, fires, open>>
    BY <1>9 DEF Halt, Disown, lease
  <2>2. \A s \in Replicas : reply'[s] = "yes" => reply[s] = "yes" /\ slot'[s] = slot[s]
    BY <1>9 DEF Halt, TypeOK
  <2> QED BY <2>1, <2>2 DEF CountInv
<1>10. ASSUME NEW o \in orphans, LateClaim(o)
      PROVE  CountInv'
  <2>1. o.slot \in Slots /\ UNCHANGED <<slot, fires, open>>
    BY <1>10, LateEffect DEF TypeOK, Orphan
  <2>2. \A s \in Replicas : reply'[s] = "yes" => reply[s] = "yes"
    BY <1>10, LateEffect DEF TypeOK
  <2>3. CASE FirstClaim(o.slot)
    <3>1. \A s \in Replicas : reply[s] = "yes" => slot[s] # o.slot
      BY <2>3 DEF CountInv, FirstClaim
    <3>2. fires[o.slot] <= open[o.slot] /\ claims'[o.slot] = 1
          /\ \A k \in Slots : k # o.slot => claims'[k] = claims[k]
      BY <2>1, <2>3 DEF TypeOK, CountInv, FirstClaim
    <3> QED BY <2>1, <2>2, <3>1, <3>2 DEF TypeOK, CountInv
  <2>4. CASE UNCHANGED claims
    BY <2>1, <2>2, <2>4 DEF CountInv
  <2> QED BY <1>10, <2>3, <2>4, LateEffect
<1>11. CASE Tick
  BY <1>11 DEF Tick, CountInv, process, lease, history
<1>12. CASE UNCHANGED vars
  BY <1>12 DEF CountInv, vars, process, lease, history
<1>13. ASSUME NEW r \in Replicas, ClaimResent(r)
      PROVE  CountInv'
  <2>1. slot[r] \in Slots /\ UNCHANGED <<slot, fires, open>>
    BY <1>13, ResentEffect DEF TypeOK
  <2>2. \A s \in Replicas : reply'[s] = "yes" => reply[s] = "yes"
    BY <1>13, ResentEffect DEF TypeOK
  <2>3. FirstClaim(slot[r]) BY <1>13, ResentEffect
  <2>4. \A s \in Replicas : reply[s] = "yes" => slot[s] # slot[r]
    BY <2>3 DEF CountInv, FirstClaim
  <2>5. fires[slot[r]] <= open[slot[r]] /\ claims'[slot[r]] = 1
        /\ \A k \in Slots : k # slot[r] => claims'[k] = claims[k]
    BY <2>1, <2>3 DEF TypeOK, CountInv, FirstClaim
  <2> QED BY <2>1, <2>2, <2>4, <2>5 DEF TypeOK, CountInv
<1> QED
  BY <1>1, <1>2, <1>3, <1>4, <1>5, <1>6, <1>7, <1>8, <1>9, <1>10, <1>11, <1>12,
     <1>13
  DEF Next, Loop, Server

(* Every step keeps account of the claimed marks. *)
LEMMA LossStep ==
    ASSUME TypeOK, TimeInv, KeyInv, LossInv, [Next]_vars
    PROVE  LossInv'
<1>1. ASSUME NEW r \in Replicas, Wake(r)
      PROVE  LossInv'
  <2>1. reply[r] = "none"
    BY <1>1 DEF Wake, TimeInv
  <2> QED BY <1>1, <2>1 DEF Wake, LossInv, Accounted, TypeOK, lease, history
<1>2. ASSUME NEW r \in Replicas, Granted(r)
      PROVE  LossInv'
  <2>1. /\ st[r] = "asking" /\ slot[r] \in Slots /\ UNCHANGED <<slot, claims, denied, abandoned>>
        /\ st' = [st EXCEPT ![r] = "running"] /\ reply' = [reply EXCEPT ![r] = "none"]
        /\ fires' = [fires EXCEPT ![slot[r]] = fires[slot[r]] + 1]
    BY <1>2 DEF Granted, Run, Disown, TypeOK, lease
  <2>2. fires'[slot[r]] > 0 /\ \A k \in Slots : fires[k] > 0 => fires'[k] > 0
    BY <2>1 DEF TypeOK
  <2>3. ASSUME NEW k \in Slots, Accounted(k) PROVE Accounted(k)'
    BY <2>1, <2>2, <2>3 DEF Accounted, TypeOK
  <2>4. \A o \in orphans' : fires'[o.slot] > 0 \/ o.slot \in abandoned'
    BY <1>2, <2>1, <2>2 DEF Granted, Disown, LossInv, TypeOK, Orphan, lease
  <2>5. \A s \in Replicas : reply'[s] = "no" => reply[s] = "no"
    BY <2>1 DEF TypeOK
  <2> QED BY <2>1, <2>3, <2>4, <2>5 DEF LossInv
<1>3. ASSUME NEW r \in Replicas, Denied(r)
      PROVE  LossInv'
  <2>1. /\ st[r] = "asking" /\ Sleep(r)
        /\ UNCHANGED <<now, until, orphans, claims, fires, open, abandoned>>
    BY <1>3 DEF Denied, lease, history
  <2>2. PICK k \in Slots, w \in Nat :
              /\ st' = [st EXCEPT ![r] = "asleep"]
              /\ slot' = [slot EXCEPT ![r] = k]
              /\ wake' = [wake EXCEPT ![r] = w]
              /\ reply' = [reply EXCEPT ![r] = "none"]
              /\ Mark(k) - Skew <= w /\ w <= Mark(k) /\ now < w
    BY <2>1, SleepEffect
  <2>3. reply[r] \notin {"yes", "open"}
    BY <1>3 DEF Denied, TimeInv
  <2>4. ASSUME NEW k0 \in Slots, Accounted(k0) PROVE Accounted(k0)'
    BY <2>1, <2>2, <2>3, <2>4 DEF Accounted, TypeOK
  <2>5. \A s \in Replicas : reply'[s] = "no" => reply[s] = "no" /\ slot'[s] = slot[s]
    BY <2>2 DEF TypeOK
  <2>6. \A k0 \in denied' : claims[k0] > 0
    BY <1>3 DEF Denied, LossInv, history
  <2> QED BY <2>1, <2>4, <2>5, <2>6 DEF LossInv
<1>4. ASSUME NEW r \in Replicas, FailOpen(r)
      PROVE  LossInv'
  <2>1. /\ st[r] = "asking" /\ slot[r] \in Slots /\ UNCHANGED <<slot, claims, denied, abandoned>>
        /\ st' = [st EXCEPT ![r] = "running"] /\ reply' = [reply EXCEPT ![r] = "none"]
        /\ fires' = [fires EXCEPT ![slot[r]] = fires[slot[r]] + 1]
    BY <1>4 DEF FailOpen, Run, Disown, TypeOK, lease
  <2>2. fires'[slot[r]] > 0 /\ \A k \in Slots : fires[k] > 0 => fires'[k] > 0
    BY <2>1 DEF TypeOK
  <2>3. ASSUME NEW k \in Slots, Accounted(k) PROVE Accounted(k)'
    BY <2>1, <2>2, <2>3 DEF Accounted, TypeOK
  <2>4. \A o \in orphans' : fires'[o.slot] > 0 \/ o.slot \in abandoned'
    BY <1>4, <2>1, <2>2 DEF FailOpen, Disown, LossInv, TypeOK, Orphan, lease
  <2>5. \A s \in Replicas : reply'[s] = "no" => reply[s] = "no"
    BY <2>1 DEF TypeOK
  <2> QED BY <2>1, <2>3, <2>4, <2>5 DEF LossInv
<1>5. ASSUME NEW r \in Replicas, Finish(r)
      PROVE  LossInv'
  <2>1. /\ st[r] = "running" /\ Sleep(r)
        /\ UNCHANGED <<now, until, orphans, claims, fires, open, denied, abandoned>>
    BY <1>5 DEF Finish, lease, history
  <2>2. PICK k \in Slots, w \in Nat :
              /\ st' = [st EXCEPT ![r] = "asleep"]
              /\ slot' = [slot EXCEPT ![r] = k]
              /\ wake' = [wake EXCEPT ![r] = w]
              /\ reply' = [reply EXCEPT ![r] = "none"]
              /\ Mark(k) - Skew <= w /\ w <= Mark(k) /\ now < w
    BY <2>1, SleepEffect
  <2>3. reply[r] \notin {"yes", "open"}
    BY <1>5 DEF Finish, TimeInv
  <2>4. ASSUME NEW k0 \in Slots, Accounted(k0) PROVE Accounted(k0)'
    BY <2>1, <2>2, <2>3, <2>4 DEF Accounted, TypeOK
  <2>5. \A s \in Replicas : reply'[s] = "no" => reply[s] = "no" /\ slot'[s] = slot[s]
    BY <2>2 DEF TypeOK
  <2>6. \A k0 \in denied' : claims[k0] > 0
    BY <1>5 DEF Finish, LossInv, history
  <2> QED BY <2>1, <2>4, <2>5, <2>6 DEF LossInv
<1>6. ASSUME NEW r \in Replicas, Claim(r)
      PROVE  LossInv'
  <2>1. /\ slot[r] \in Slots /\ st[r] = "asking" /\ reply[r] = "none"
        /\ UNCHANGED <<st, slot, orphans, fires, denied, abandoned>>
    BY <1>6, ClaimEffect DEF TypeOK
  <2>2. ASSUME NEW k \in Slots, Accounted(k) PROVE Accounted(k)'
    BY <1>6, <2>1, <2>2, ClaimEffect DEF Accounted, TypeOK
  <2>3. CASE FirstClaim(slot[r]) /\ reply' = [reply EXCEPT ![r] = "yes"]
    <3>1. Accounted(slot[r])'
      BY <2>1, <2>3 DEF Accounted, TypeOK
    <3>2. claims'[slot[r]] = 1 /\ \A k \in Slots : k # slot[r] => claims'[k] = claims[k]
      BY <2>1, <2>3 DEF TypeOK, FirstClaim
    <3>3. \A s \in Replicas : reply'[s] = "no" => reply[s] = "no"
      BY <2>3 DEF TypeOK
    <3> QED BY <2>1, <2>2, <3>1, <3>2, <3>3 DEF LossInv, TypeOK
  <2>4. CASE /\ claims[slot[r]] > 0 /\ reply' = [reply EXCEPT ![r] = "no"] /\ UNCHANGED claims
    BY <2>1, <2>2, <2>4 DEF LossInv, TypeOK
  <2> QED BY <1>6, <2>3, <2>4, ClaimEffect
<1>7. ASSUME NEW r \in Replicas, ClaimUnguarded(r)
      PROVE  LossInv'
  <2>1. /\ slot[r] \in Slots /\ st[r] = "asking" /\ reply[r] = "none"
        /\ reply' = [reply EXCEPT ![r] = "open"]
        /\ UNCHANGED <<st, slot, orphans, fires, denied, abandoned>>
    BY <1>7, UnguardedEffect DEF TypeOK
  <2>2. ASSUME NEW k \in Slots, Accounted(k) PROVE Accounted(k)'
    BY <2>1, <2>2 DEF Accounted, TypeOK
  <2>3. Accounted(slot[r])'
    BY <2>1 DEF Accounted, TypeOK
  <2>4. \A s \in Replicas : reply'[s] = "no" => reply[s] = "no"
    BY <2>1 DEF TypeOK
  <2>5. CASE FirstClaim(slot[r])
    <3>1. claims'[slot[r]] = 1 /\ \A k \in Slots : k # slot[r] => claims'[k] = claims[k]
      BY <2>1, <2>5 DEF TypeOK, FirstClaim
    <3> QED BY <2>1, <2>2, <2>3, <2>4, <3>1 DEF LossInv, TypeOK
  <2>6. CASE UNCHANGED claims
    BY <2>1, <2>2, <2>4, <2>6 DEF LossInv
  <2> QED BY <1>7, <2>5, <2>6, UnguardedEffect
<1>8. ASSUME NEW r \in Replicas, Boot(r)
      PROVE  LossInv'
  <2>1. /\ st[r] = "down" /\ Sleep(r)
        /\ UNCHANGED <<now, until, orphans, claims, fires, open, denied, abandoned>>
    BY <1>8 DEF Boot, lease, history
  <2>2. PICK k \in Slots, w \in Nat :
              /\ st' = [st EXCEPT ![r] = "asleep"]
              /\ slot' = [slot EXCEPT ![r] = k]
              /\ wake' = [wake EXCEPT ![r] = w]
              /\ reply' = [reply EXCEPT ![r] = "none"]
              /\ Mark(k) - Skew <= w /\ w <= Mark(k) /\ now < w
    BY <2>1, SleepEffect
  <2>3. reply[r] \notin {"yes", "open"}
    BY <1>8 DEF Boot, TimeInv
  <2>4. ASSUME NEW k0 \in Slots, Accounted(k0) PROVE Accounted(k0)'
    BY <2>1, <2>2, <2>3, <2>4 DEF Accounted, TypeOK
  <2>5. \A s \in Replicas : reply'[s] = "no" => reply[s] = "no" /\ slot'[s] = slot[s]
    BY <2>2 DEF TypeOK
  <2>6. \A k0 \in denied' : claims[k0] > 0
    BY <1>8 DEF Boot, LossInv, history
  <2> QED BY <2>1, <2>4, <2>5, <2>6 DEF LossInv
<1>9. ASSUME NEW r \in Replicas, Halt(r)
      PROVE  LossInv'
  <2>1. /\ UNCHANGED <<claims, fires, denied>> /\ st' = [st EXCEPT ![r] = "down"]
        /\ slot' = [slot EXCEPT ![r] = 0] /\ reply' = [reply EXCEPT ![r] = "none"]
        /\ abandoned \subseteq abandoned' /\ (st[r] = "asking" => slot[r] \in abandoned')
    BY <1>9 DEF Halt, Disown, lease
  <2>2. ASSUME NEW k \in Slots, Accounted(k) PROVE Accounted(k)'
    BY <2>1, <2>2 DEF Accounted, TypeOK
  <2>3. \A o \in orphans' : fires[o.slot] > 0 \/ o.slot \in abandoned'
    BY <1>9, <2>1 DEF Halt, Disown, LossInv, lease
  <2>4. \A s \in Replicas : reply'[s] = "no" => reply[s] = "no" /\ slot'[s] = slot[s]
    BY <2>1 DEF TypeOK
  <2> QED BY <2>1, <2>2, <2>3, <2>4 DEF LossInv
<1>10. ASSUME NEW o \in orphans, LateClaim(o)
      PROVE  LossInv'
  <2>1. /\ o.slot \in Slots /\ orphans' = orphans \ {o}
        /\ UNCHANGED <<st, slot, reply, fires, denied, abandoned>>
    BY <1>10, LateEffect DEF Orphan
  <2>2. ASSUME NEW k \in Slots, Accounted(k) PROVE Accounted(k)'
    BY <2>1, <2>2 DEF Accounted
  <2>3. Accounted(o.slot)
    BY DEF Accounted, LossInv
  <2>4. CASE FirstClaim(o.slot)
    <3>1. claims'[o.slot] = 1 /\ \A k \in Slots : k # o.slot => claims'[k] = claims[k]
      BY <2>1, <2>4 DEF TypeOK, FirstClaim
    <3> QED BY <2>1, <2>2, <2>3, <3>1 DEF LossInv, TypeOK
  <2>5. CASE UNCHANGED claims
    BY <2>1, <2>2, <2>5 DEF LossInv
  <2> QED BY <1>10, <2>4, <2>5, LateEffect
<1>11. CASE Tick
  BY <1>11 DEF Tick, LossInv, Accounted, process, lease, history
<1>12. CASE UNCHANGED vars
  BY <1>12 DEF LossInv, Accounted, vars, process, lease, history
<1>13. ASSUME NEW r \in Replicas, ClaimResent(r)
      PROVE  LossInv'
  <2>1. /\ slot[r] \in Slots /\ st[r] = "asking" /\ reply[r] = "none"
        /\ reply' = [reply EXCEPT ![r] = "no"]
        /\ abandoned' = abandoned \cup {slot[r]}
        /\ UNCHANGED <<st, slot, orphans, fires, denied>>
    BY <1>13, ResentEffect DEF TypeOK
  <2>2. ASSUME NEW k \in Slots, Accounted(k) PROVE Accounted(k)'
    BY <2>1, <2>2 DEF Accounted, TypeOK
  <2>3. Accounted(slot[r])'
    BY <2>1 DEF Accounted
  <2>4. claims'[slot[r]] = 1 /\ \A k \in Slots : k # slot[r] => claims'[k] = claims[k]
    BY <1>13, <2>1, ResentEffect DEF TypeOK, FirstClaim
  <2>5. \A s \in Replicas : reply'[s] = "no" => s = r \/ reply[s] = "no"
    BY <2>1 DEF TypeOK
  <2> QED BY <2>1, <2>2, <2>3, <2>4, <2>5 DEF LossInv, TypeOK
<1> QED
  BY <1>1, <1>2, <1>3, <1>4, <1>5, <1>6, <1>7, <1>8, <1>9, <1>10, <1>11, <1>12,
     <1>13
  DEF Next, Loop, Server

----------------------------------------------------------------------------
(* The specification keeps the invariant: every claim lands within its window, *)
(* and the key's expiry tells which mark it was set for.                       *)
THEOREM InductiveInvariant == Spec => []IInv
<1>1. Init => IInv
  <2> SUFFICES ASSUME Init PROVE IInv
    OBVIOUS
  <2>1. TypeOK
    BY PeriodAssumption DEF Init, TypeOK, Slots, Orphan
  <2>2. TimeInv
    BY PeriodAssumption DEF Init, TimeInv
  <2>3. KeyInv
    BY DEF Init, KeyInv
  <2>4. CountInv
    BY DEF Init, CountInv
  <2>5. LossInv
    BY DEF Init, LossInv
  <2> QED BY <2>1, <2>2, <2>3, <2>4, <2>5 DEF IInv
<1>2. IInv /\ [Next]_vars => IInv'
  BY TypeStep, TimeStep, KeyStep, CountStep, LossStep DEF IInv
<1> QED BY <1>1, <1>2, PTL DEF Spec

(* Every reachable state is well typed; in particular a replica always has a   *)
(* next mark to sleep to.                                                      *)
THEOREM TypeCorrect == Spec => []TypeOK
<1>1. IInv => TypeOK
  BY DEF IInv
<1> QED BY <1>1, InductiveInvariant, PTL

(* A tick runs once, plus once for every failure answered with "run" (_claim). *)
THEOREM RunsAreBounded == Spec => []FiresBounded
<1>1. IInv => FiresBounded
  <2> SUFFICES ASSUME IInv, NEW k \in Slots PROVE fires[k] <= 1 + open[k]
    BY DEF FiresBounded
  <2> QED BY DEF IInv, CountInv, TypeOK
<1> QED BY <1>1, InductiveInvariant, PTL

(* No tick is skipped on account of another tick's lease: what is denied has   *)
(* run, is about to, or was given up by the very replica that set the key: by  *)
(* a stop, or because its own SET NX was sent twice (claim_tick_lease).        *)
THEOREM NothingSwallowed == Spec => []NoTickLost
<1>1. IInv => NoTickLost
  <2> SUFFICES ASSUME IInv, NEW k \in denied PROVE Accounted(k)
    BY DEF NoTickLost, Accounted
  <2> QED BY DEF IInv, LossInv, TypeOK
<1> QED BY <1>1, InductiveInvariant, PTL

(* A replica passes on a mark only when the tick has run, is about to, or was  *)
(* given up by the holder of its key: the next mark it sleeps to never leaves  *)
(* one behind (_run_task, _claim).  What TickRuns adds, that the wait ends,    *)
(* rests on fairness.                                                          *)
THEOREM NobodyPasses == Spec => TickServed
<1>1. ASSUME IInv, IInv', [Next]_vars, NEW r \in Replicas, NEW k \in Slots,
             Waits(r, k), ~Waits(r, k)'
      PROVE  st'[r] = "down" \/ Accounted(k)'
  <2> USE DEF IInv
  <2>1. st[r] \in {"asleep", "asking"} /\ slot[r] = k
    BY <1>1 DEF Waits
  <2>2. ASSUME NEW s \in Replicas, Sleep(s), s # r PROVE FALSE
    BY <1>1, <2>1, <2>2 DEF Sleep, Waits, TypeOK
  <2>3. ASSUME NEW s \in Replicas, UNCHANGED <<st, slot>> PROVE FALSE
    BY <1>1, <2>1, <2>3 DEF Waits
  <2>4. ASSUME NEW s \in Replicas, Wake(s) PROVE FALSE
    BY <1>1, <2>1, <2>4 DEF Wake, Waits, TypeOK
  <2>5. ASSUME NEW s \in Replicas, NEW b \in BOOLEAN, Run(s, b) PROVE Accounted(k)'
    <3>1. s = r BY <1>1, <2>1, <2>5 DEF Run, Waits, TypeOK
    <3>2. fires'[k] = fires[k] + 1 /\ fires[k] \in Nat
      BY <1>1, <2>1, <2>5, <3>1 DEF Run, TypeOK
    <3> QED BY <3>2 DEF Accounted
  <2>6. ASSUME NEW s \in Replicas, Denied(s) PROVE Accounted(k)'
    <3>1. s = r BY <2>2, <2>6 DEF Denied
    <3>2. k \in denied' BY <2>1, <2>6, <3>1 DEF Denied
    <3> QED BY <1>1, <3>2 DEF LossInv, TypeOK
  <2>7. ASSUME NEW s \in Replicas, Finish(s) \/ Boot(s) PROVE FALSE
    BY <2>1, <2>2, <2>7 DEF Finish, Boot
  <2>8. ASSUME NEW s \in Replicas, Halt(s) PROVE st'[r] = "down"
    BY <1>1, <2>1, <2>8 DEF Halt, Waits, TypeOK
  <2>9. ASSUME NEW s \in Replicas, Claim(s) \/ ClaimResent(s) \/ ClaimUnguarded(s)
        PROVE  FALSE
    BY <2>3, <2>9 DEF Claim, ClaimResent, ClaimUnguarded, Decide
  <2>10. CASE \E s \in Replicas : Granted(s) \/ FailOpen(s)
    BY <2>5, <2>10 DEF Granted, FailOpen
  <2>11. CASE Tick \/ UNCHANGED vars \/ \E o \in orphans : LateClaim(o)
    BY <1>1, <2>1, <2>11 DEF Tick, LateClaim, vars, process, Waits
  <2> QED BY <1>1, <2>4, <2>6, <2>7, <2>8, <2>9, <2>10, <2>11
          DEF Next, Loop, Server
<1>2. IInv /\ IInv' /\ [Next]_vars =>
        [\A r \in Replicas, k \in Slots :
            Waits(r, k) /\ ~Waits(r, k)' => st'[r] = "down" \/ Accounted(k)']_vars
  BY <1>1
<1> QED BY <1>2, InductiveInvariant, PTL DEF Spec, TickServed
=============================================================================

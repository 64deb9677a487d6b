-------------------------- MODULE IdempotencyProofs --------------------------
(***************************************************************************)
(* Proofs about Idempotency, for any clients, bodies and bounds.  The      *)
(* central argument is a budget: what has taken effect, what may still     *)
(* take effect and whether the key is free to claim never add up to more   *)
(* than one plus the excuses.                                              *)
(***************************************************************************)
EXTENDS Idempotency, FiniteSetTheorems, TLAPS

-----------------------------------------------------------------------------
(* The inductive invariant *)

(* Requests that may yet commit, or free the key for one that will. *)
Open == {c \in Clients : pc[c] \in {"run", "release"}}

(* Requests whose handler has committed and not yet recorded. *)
Written == {c \in Clients : pc[c] \in {"committed", "record"}}

(* Calls in flight that may yet commit, or free the key. *)
Loose == {m \in late : m[1] \in {"effect", "release"}}

Free(s) == IF Claimable(s) THEN 1 ELSE 0

Budget ==
    /\ commits + Cardinality(Open) + Cardinality(Loose) + Free(slot) <= 1 + excuses
    /\ Cardinality(Written) <= commits

(* A completed row holds a response produced for the hash it carries; who  *)
(* records one, on time or late, has committed.                            *)
RowInv ==
    /\ slot.state = "done"
       => /\ slot.by \in Clients /\ slot.hash = Hash[slot.by]
          /\ commits > 0
    /\ \A c \in Clients : <<"record", c>> \in late => commits > 0

IInv == TypeOK /\ Budget /\ RowInv /\ ReplaySameBody

-----------------------------------------------------------------------------
(* Counting *)

(* A subset is no larger. *)
LEMMA CardSubset ==
    ASSUME NEW S, IsFiniteSet(S), NEW T, T \subseteq S
    PROVE  /\ IsFiniteSet(T) /\ Cardinality(T) \in Nat /\ Cardinality(S) \in Nat
           /\ Cardinality(T) <= Cardinality(S)
BY FS_Subset, FS_CardinalityType

(* One element more counts at most one more. *)
LEMMA CardGrows ==
    ASSUME NEW S, IsFiniteSet(S), NEW x, NEW T, T \subseteq S \cup {x}
    PROVE  /\ Cardinality(T) \in Nat /\ Cardinality(S) \in Nat
           /\ Cardinality(T) <= Cardinality(S) + 1
<1>1. IsFiniteSet(S \cup {x}) /\ Cardinality(S \cup {x}) <= Cardinality(S) + 1
      /\ Cardinality(S) \in Nat
  BY FS_AddElement, FS_CardinalityType
<1> QED BY <1>1, CardSubset

(* One element less counts one less. *)
LEMMA CardShrinks ==
    ASSUME NEW S, IsFiniteSet(S), NEW x \in S, NEW T, T \subseteq S \ {x}
    PROVE  /\ Cardinality(T) \in Nat /\ Cardinality(S) \in Nat
           /\ Cardinality(T) + 1 <= Cardinality(S)
<1>1. IsFiniteSet(S \ {x}) /\ Cardinality(S \ {x}) = Cardinality(S) - 1
      /\ Cardinality(S) \in Nat
  BY FS_RemoveElement, FS_CardinalityType
<1> QED BY <1>1, CardSubset

(* The sets counted are finite. *)
LEMMA Finite ==
    ASSUME TypeOK
    PROVE  /\ IsFiniteSet(Open) /\ IsFiniteSet(Written) /\ IsFiniteSet(Loose)
           /\ Cardinality(Open) \in Nat /\ Cardinality(Written) \in Nat
           /\ Cardinality(Loose) \in Nat
<1>1. IsFiniteSet({"claim", "effect", "record", "release"})
  <2>1. IsFiniteSet({"claim"} \cup {"effect"}) BY FS_Singleton, FS_AddElement
  <2>2. IsFiniteSet({"record"} \cup {"release"}) BY FS_Singleton, FS_AddElement
  <2>3. IsFiniteSet(({"claim"} \cup {"effect"}) \cup ({"record"} \cup {"release"}))
    BY <2>1, <2>2, FS_Union
  <2>4. ({"claim"} \cup {"effect"}) \cup ({"record"} \cup {"release"})
        = {"claim", "effect", "record", "release"}
    OBVIOUS
  <2> QED BY <2>3, <2>4, Zenon
<1>2. IsFiniteSet(Calls)
  BY <1>1, ClientsAssumption, FS_Product DEF Calls
<1>3. IsFiniteSet(Loose)
  <2>1. Loose \subseteq Calls BY DEF Loose, TypeOK
  <2> QED BY <1>2, <2>1, CardSubset
<1>4. IsFiniteSet(Open)
  <2>1. Open \subseteq Clients BY DEF Open
  <2> QED BY <2>1, ClientsAssumption, CardSubset
<1>5. IsFiniteSet(Written)
  <2>1. Written \subseteq Clients BY DEF Written
  <2> QED BY <2>1, ClientsAssumption, CardSubset
<1> QED BY <1>3, <1>4, <1>5, FS_CardinalityType

(* What a request in phase p adds to the two counts. *)
OpenIn(p) == IF p \in {"run", "release"} THEN 1 ELSE 0
WrittenIn(p) == IF p \in {"committed", "record"} THEN 1 ELSE 0

(* How the counts of requests move when c moves to phase p. *)
LEMMA Moving ==
    ASSUME TypeOK, NEW c \in Clients, NEW p \in Phases,
           pc' = [pc EXCEPT ![c] = p]
    PROVE  /\ Cardinality(Open') \in Nat /\ Cardinality(Written') \in Nat
           /\ Cardinality(Open') + OpenIn(pc[c]) <= Cardinality(Open) + OpenIn(p)
           /\ Cardinality(Written') + WrittenIn(pc[c])
              <= Cardinality(Written) + WrittenIn(p)
<1>f. /\ IsFiniteSet(Open) /\ IsFiniteSet(Written)
      /\ Cardinality(Open) \in Nat /\ Cardinality(Written) \in Nat
  BY Finite
<1>t. pc \in [Clients -> Phases] BY DEF TypeOK
<1>1. /\ Cardinality(Open') \in Nat
      /\ Cardinality(Open') + OpenIn(pc[c]) <= Cardinality(Open) + OpenIn(p)
  <2>1. CASE pc[c] \in {"run", "release"} /\ p \notin {"run", "release"}
    <3>1. c \in Open /\ Open' \subseteq Open \ {c} BY <2>1, <1>t DEF Open
    <3>2. OpenIn(pc[c]) = 1 /\ OpenIn(p) = 0 BY <2>1 DEF OpenIn
    <3> QED BY <3>1, <3>2, <1>f, CardShrinks
  <2>2. CASE pc[c] \notin {"run", "release"} /\ p \in {"run", "release"}
    <3>1. Open' \subseteq Open \cup {c} BY <2>2, <1>t DEF Open
    <3>2. OpenIn(pc[c]) = 0 /\ OpenIn(p) = 1 BY <2>2 DEF OpenIn
    <3>3. /\ Cardinality(Open') \in Nat
          /\ Cardinality(Open') <= Cardinality(Open) + 1
      BY <3>1, <1>f, CardGrows
    <3> QED BY <3>2, <3>3, <1>f
  <2>3. CASE pc[c] \in {"run", "release"} <=> p \in {"run", "release"}
    <3>1. Open' \subseteq Open BY <2>3, <1>t DEF Open
    <3>2. OpenIn(pc[c]) = OpenIn(p) /\ OpenIn(p) \in {0, 1} BY <2>3 DEF OpenIn
    <3> QED BY <3>1, <3>2, <1>f, CardSubset
  <2> QED BY <2>1, <2>2, <2>3
<1>2. /\ Cardinality(Written') \in Nat
      /\ Cardinality(Written') + WrittenIn(pc[c])
         <= Cardinality(Written) + WrittenIn(p)
  <2>1. CASE pc[c] \in {"committed", "record"} /\ p \notin {"committed", "record"}
    <3>1. c \in Written /\ Written' \subseteq Written \ {c}
      BY <2>1, <1>t DEF Written
    <3>2. WrittenIn(pc[c]) = 1 /\ WrittenIn(p) = 0 BY <2>1 DEF WrittenIn
    <3> QED BY <3>1, <3>2, <1>f, CardShrinks
  <2>2. CASE pc[c] \notin {"committed", "record"} /\ p \in {"committed", "record"}
    <3>1. Written' \subseteq Written \cup {c} BY <2>2, <1>t DEF Written
    <3>2. WrittenIn(pc[c]) = 0 /\ WrittenIn(p) = 1 BY <2>2 DEF WrittenIn
    <3> QED BY <3>1, <3>2, <1>f, CardGrows
  <2>3. CASE pc[c] \in {"committed", "record"} <=> p \in {"committed", "record"}
    <3>1. Written' \subseteq Written BY <2>3, <1>t DEF Written
    <3>2. WrittenIn(pc[c]) = WrittenIn(p) /\ WrittenIn(p) \in {0, 1}
      BY <2>3 DEF WrittenIn
    <3> QED BY <3>1, <3>2, <1>f, CardSubset
  <2> QED BY <2>1, <2>2, <2>3
<1> QED BY <1>1, <1>2

(* What a call left in flight adds to the loose ones. *)
LooseIn(kind) == IF kind \in {"effect", "release"} THEN 1 ELSE 0

(* A call that may land counts only if it may commit or free the key. *)
LEMMA Leaving ==
    ASSUME TypeOK, NEW c \in Clients, NEW kind, MayLand(kind, c)
    PROVE  /\ Cardinality(Loose') \in Nat
           /\ Cardinality(Loose') <= Cardinality(Loose) + LooseIn(kind)
<1>f. IsFiniteSet(Loose) /\ Cardinality(Loose) \in Nat BY Finite
<1>1. CASE UNCHANGED late
  <2>1. Loose' = Loose BY <1>1 DEF Loose
  <2> QED BY <2>1, <1>f DEF LooseIn
<1>2. CASE late' = late \cup {<<kind, c>>}
  <2>1. CASE kind \in {"effect", "release"}
    <3>1. Loose' \subseteq Loose \cup {<<kind, c>>} BY <1>2 DEF Loose
    <3>2. LooseIn(kind) = 1 BY <2>1 DEF LooseIn
    <3> QED BY <3>1, <3>2, <1>f, CardGrows
  <2>2. CASE kind \notin {"effect", "release"}
    <3>1. Loose' \subseteq Loose BY <1>2, <2>2 DEF Loose
    <3>2. LooseIn(kind) = 0 BY <2>2 DEF LooseIn
    <3> QED BY <3>1, <3>2, <1>f, CardSubset
  <2> QED BY <2>1, <2>2
<1> QED BY <1>1, <1>2 DEF MayLand

(* Only an expiry, a purge of what expired and a release free the key. *)
LEMMA Freeing ==
    ASSUME NEW s \in Slot, NEW c \in Clients
    PROVE  /\ Free(s) \in {0, 1} /\ Free(Release(s, c)) \in {0, 1}
           /\ Free(Claim(s, c)) = 0
           /\ Free(Record(s, c)) <= Free(s) /\ Free(Record(s, c)) \in {0, 1}
<1>1. Free(Claim(s, c)) = 0
  BY DEF Free, Claim, Claimable, Slot
<1>2. Free(Record(s, c)) <= Free(s) /\ Free(Record(s, c)) \in {0, 1}
  BY DEF Free, Record, Claimable, Slot
<1> QED BY <1>1, <1>2 DEF Free

-----------------------------------------------------------------------------
(* Type correctness *)

(* The statements keep the row's type. *)
LEMMA StatementTypes ==
    ASSUME NEW s \in Slot, NEW c \in Clients
    PROVE  Claim(s, c) \in Slot /\ Record(s, c) \in Slot /\ Release(s, c) \in Slot
<1>1. Hash[c] \in Hashes BY DEF Hashes
<1> QED BY <1>1 DEF Claim, Record, Release, Absent, Slot

(* An answer keeps the types of the request's variables. *)
LEMMA AnswerTypes ==
    ASSUME TypeOK, NEW c \in Clients, NEW a \in Final \cup TryAgain, Answer(c, a)
    PROVE  /\ pc' \in [Clients -> Phases]
           /\ claimed' \in SUBSET Clients
           /\ polls' \in [Clients -> 0..(MaxPolls - 1)]
           /\ ans' \in [Clients -> Final \cup TryAgain \cup {"none"}]
           /\ from' \in [Clients -> Clients \cup {Nobody}]
<1>1. slot.by \in Clients \cup {Nobody} BY DEF TypeOK, Slot
<1> QED BY <1>1, BoundsAssumption DEF Answer, TypeOK, Phases

(* The initial state is well typed. *)
LEMMA TypeInit == Init => TypeOK
BY BoundsAssumption DEF Init, TypeOK, Absent, Slot, Phases

(* Every step keeps the types. *)
LEMMA TypeStep == TypeOK /\ [Next]_vars => TypeOK'
<1> SUFFICES ASSUME TypeOK, [Next]_vars PROVE TypeOK'
  OBVIOUS
<1> USE DEF request
<1>f. ASSUME Fault \/ UNCHANGED faults PROVE faults' \in Nat
  BY <1>f DEF Fault, TypeOK
<1>e. ASSUME Excused \/ UNCHANGED excuses PROVE excuses' \in Nat
  BY <1>e DEF Excused, TypeOK
<1>l. ASSUME NEW c \in Clients, NEW k \in {"claim", "effect", "record", "release"},
             MayLand(k, c) \/ UNCHANGED late
      PROVE  late' \in SUBSET Calls
  BY <1>l DEF MayLand, TypeOK, Calls
<1>1. ASSUME NEW c \in Clients, RequestStep(c) PROVE TypeOK'
  <2> DEFINE Moved == /\ pc' \in [Clients -> Phases]
                      /\ claimed' \in SUBSET Clients
                      /\ polls' \in [Clients -> 0..(MaxPolls - 1)]
                      /\ ans' \in [Clients -> Final \cup TryAgain \cup {"none"}]
                      /\ from' \in [Clients -> Clients \cup {Nobody}]
  <2>a. ASSUME \E a \in Final \cup TryAgain : Answer(c, a) PROVE Moved
    BY <2>a, AnswerTypes
  <2>b. ASSUME AnswerFromRow(c) PROVE Moved
    BY <2>b, <2>a DEF AnswerFromRow, Final
  <2>g. ASSUME NEW p \in Phases, Goto(c, p), UNCHANGED <<polls, claimed>>
        PROVE  Moved
    BY <2>g DEF Goto, TypeOK
  <2>s. /\ Claim(slot, c) \in Slot /\ Record(slot, c) \in Slot
        /\ Release(slot, c) \in Slot
    BY StatementTypes DEF TypeOK
  <2>1. CASE LookupAnswered(c)
    <3>1. Moved BY <2>1, <2>a, <2>b, <2>g DEF LookupAnswered, Final, Phases
    <3> QED BY <2>1, <3>1 DEF LookupAnswered, TypeOK
  <2>2. CASE LookupFails(c)
    <3>1. Moved BY <2>2, <2>g DEF LookupFails, Phases
    <3> QED BY <2>2, <3>1, <1>f, <1>e DEF LookupFails, TypeOK
  <2>3. CASE ClaimWon(c)
    BY <2>3, <2>s DEF ClaimWon, Goto, TypeOK, Phases
  <2>4. CASE ClaimLost(c)
    BY <2>4 DEF ClaimLost, Goto, TypeOK, Phases
  <2>5. CASE ReadExisting(c)
    <3>1. Moved BY <2>5, <2>a, <2>b, <2>g DEF ReadExisting, Final, Phases
    <3> QED BY <2>5, <3>1 DEF ReadExisting, TypeOK
  <2>6. CASE ClaimFails(c)
    <3>1. Moved BY <2>6, <2>g DEF ClaimFails, Phases
    <3>2. late' \in SUBSET Calls BY <2>6, <1>l DEF ClaimFails
    <3>3. slot' \in Slot BY <2>6, <2>s DEF ClaimFails, TypeOK
    <3> QED BY <2>6, <3>1, <3>2, <3>3, <1>f, <1>e DEF ClaimFails, TypeOK
  <2>7. CASE PollAnswered(c)
    <3>1. CASE \/ AnswerFromRow(c)
               \/ \E a \in Final \cup TryAgain : Answer(c, a)
      BY <2>7, <3>1, <2>a, <2>b DEF PollAnswered, TypeOK
    <3>2. CASE /\ ~LastPoll(c) /\ polls' = [polls EXCEPT ![c] = @ + 1]
               /\ UNCHANGED <<pc, ans, from, claimed>>
      <4>1. polls[c] + 1 \in 0..(MaxPolls - 1)
        BY <3>2, BoundsAssumption DEF TypeOK, LastPoll
      <4>2. polls' \in [Clients -> 0..(MaxPolls - 1)]
        BY <3>2, <4>1 DEF TypeOK
      <4> QED BY <2>7, <3>2, <4>2 DEF PollAnswered, TypeOK
    <3> QED BY <2>7, <3>1, <3>2 DEF PollAnswered, Final, TryAgain
  <2>8. CASE PollFails(c)
    <3>1. Moved BY <2>8, <2>a DEF PollFails, TryAgain
    <3> QED BY <2>8, <3>1, <1>f DEF PollFails, TypeOK
  <2>9. CASE HandlerCommits(c)
    BY <2>9 DEF HandlerCommits, Goto, TypeOK, Phases
  <2>10. CASE HandlerReturns(c)
    BY <2>10 DEF HandlerReturns, Goto, TypeOK, Phases
  <2>11. CASE HandlerRaises(c)
    <3>1. Moved BY <2>11, <2>a, <2>g DEF HandlerRaises, TryAgain, Phases
    <3>2. late' \in SUBSET Calls BY <2>11, <1>l DEF HandlerRaises
    <3>3. excuses' \in Nat BY <2>11, <1>e DEF HandlerRaises, NoExcuse
    <3> QED BY <2>11, <3>1, <3>2, <3>3, <1>f DEF HandlerRaises, TypeOK
  <2>12. CASE ReleaseAnswered(c)
    <3>1. Moved BY <2>12, <2>a DEF ReleaseAnswered, TryAgain
    <3> QED BY <2>12, <3>1, <2>s DEF ReleaseAnswered, TypeOK
  <2>13. CASE ReleaseResent(c)
    BY <2>13, <2>s, <1>f, <1>e DEF ReleaseResent, TypeOK
  <2>14. CASE ReleaseFails(c)
    <3>1. Moved BY <2>14, <2>a DEF ReleaseFails, TryAgain
    <3>2. late' \in SUBSET Calls BY <2>14, <1>l DEF ReleaseFails
    <3> QED BY <2>14, <3>1, <3>2, <1>f DEF ReleaseFails, NoExcuse, TypeOK
  <2>15. CASE RecordAnswered(c)
    <3>1. Moved BY <2>15, <2>a DEF RecordAnswered, Final
    <3> QED BY <2>15, <3>1, <2>s DEF RecordAnswered, TypeOK
  <2>16. CASE RecordFails(c)
    <3>1. Moved BY <2>16, <2>a DEF RecordFails, Final
    <3>2. late' \in SUBSET Calls BY <2>16, <1>l DEF RecordFails
    <3> QED BY <2>16, <3>1, <3>2, <1>f DEF RecordFails, NoExcuse, TypeOK
  <2>17. CASE Cancel(c)
    <3>1. Moved BY <2>17, <2>a DEF Cancel, TryAgain
    <3>2. late' \in SUBSET Calls BY <2>17, <1>l DEF Cancel
    <3> QED BY <2>17, <3>1, <3>2, <1>f DEF Cancel, TypeOK
  <2>18. CASE Retry(c)
    BY <2>18 DEF Retry, TypeOK, Phases
  <2> QED BY <1>1, <2>1, <2>2, <2>3, <2>4, <2>5, <2>6, <2>7, <2>8, <2>9, <2>10,
             <2>11, <2>12, <2>13, <2>14, <2>15, <2>16, <2>17, <2>18
          DEF RequestStep
<1>2. ASSUME NEW m \in late, LateLands(m) PROVE TypeOK'
  <2>1. m[2] \in Clients BY DEF TypeOK, Calls
  <2>2. slot' \in Slot
    BY <1>2, <2>1, StatementTypes DEF LateLands, TypeOK
  <2> QED BY <1>2, <2>2 DEF LateLands, TypeOK
<1>3. CASE Expire
  <2>1. slot' \in Slot BY <1>3 DEF Expire, TypeOK, Slot
  <2> QED BY <1>3, <2>1, <1>e DEF Expire, TypeOK
<1>4. CASE Purge
  <2>1. slot' \in Slot BY <1>4 DEF Purge, Absent, Slot
  <2> QED BY <1>4, <2>1 DEF Purge, TypeOK
<1>5. CASE UNCHANGED vars
  BY <1>5 DEF vars, TypeOK
<1> QED BY <1>1, <1>2, <1>3, <1>4, <1>5 DEF Next

-----------------------------------------------------------------------------
(* The budget *)

(* A step that moves c from its phase to p keeps the budget if what it     *)
(* adds is covered by what it takes away and by its excuse.                *)
LEMMA BudgetMove ==
    ASSUME TypeOK, Budget, TypeOK', NEW c \in Clients, NEW p \in Phases,
           pc' = [pc EXCEPT ![c] = p], NEW k \in {0, 1},
           Cardinality(Loose') \in Nat,
           Cardinality(Loose') <= Cardinality(Loose) + k,
           commits' + OpenIn(p) + k + Free(slot') + excuses
           <= commits + OpenIn(pc[c]) + Free(slot) + excuses',
           WrittenIn(p) + commits <= WrittenIn(pc[c]) + commits'
    PROVE  Budget'
<1>1. /\ Cardinality(Open) \in Nat /\ Cardinality(Loose) \in Nat
      /\ Cardinality(Written) \in Nat /\ Cardinality(Loose') \in Nat
      /\ Cardinality(Open') \in Nat /\ Cardinality(Written') \in Nat
  BY Finite, Moving
<1>2. /\ commits \in Nat /\ commits' \in Nat /\ excuses \in Nat /\ excuses' \in Nat
  BY DEF TypeOK
<1>3. /\ Free(slot) \in {0, 1} /\ Free(slot') \in {0, 1}
      /\ OpenIn(p) \in {0, 1} /\ OpenIn(pc[c]) \in {0, 1}
      /\ WrittenIn(p) \in {0, 1} /\ WrittenIn(pc[c]) \in {0, 1}
  BY DEF Free, OpenIn, WrittenIn
<1>4. /\ Cardinality(Open') + OpenIn(pc[c]) <= Cardinality(Open) + OpenIn(p)
      /\ Cardinality(Written') + WrittenIn(pc[c])
         <= Cardinality(Written) + WrittenIn(p)
  BY Moving
<1>5. /\ commits + Cardinality(Open) + Cardinality(Loose) + Free(slot)
         <= 1 + excuses
      /\ Cardinality(Written) <= commits
  BY DEF Budget
<1>6. /\ commits' + Cardinality(Open') + Cardinality(Loose') + Free(slot')
         <= 1 + excuses'
      /\ Cardinality(Written') <= commits'
  BY <1>1, <1>2, <1>3, <1>4, <1>5
<1> QED BY <1>6 DEF Budget, Free

(* Every request, late call, expiry and purge keeps the budget. *)
LEMMA BudgetStep == ASSUME TypeOK, Budget, TypeOK', [Next]_vars PROVE Budget'
<1>s. slot \in Slot /\ slot' \in Slot BY DEF TypeOK
<1>n. commits \in Nat /\ excuses \in Nat BY DEF TypeOK
<1>f. Free(slot) \in {0, 1} /\ Free(slot') \in {0, 1} BY DEF Free
<1>u. ASSUME UNCHANGED late
      PROVE  /\ Cardinality(Loose') \in Nat
             /\ Cardinality(Loose') <= Cardinality(Loose) + 0
  <2>1. Loose' = Loose BY <1>u DEF Loose
  <2> QED BY <2>1, Finite
<1>1. ASSUME NEW c \in Clients, RequestStep(c) PROVE Budget'
  <2>p. pc \in [Clients -> Phases] BY DEF TypeOK
  (* A step that neither starts a handler nor frees the key. *)
  <2>q. ASSUME NEW p \in {"start", "claim", "lost", "poll", "end"},
               pc' = [pc EXCEPT ![c] = p], UNCHANGED <<late, commits, excuses>>,
               slot' = slot \/ Free(slot') <= Free(slot)
        PROVE  Budget'
    <3>1. OpenIn(p) = 0 /\ WrittenIn(p) = 0 /\ p \in Phases
      BY DEF OpenIn, WrittenIn, Phases
    <3>2. OpenIn(pc[c]) \in {0, 1} /\ WrittenIn(pc[c]) \in {0, 1}
      BY DEF OpenIn, WrittenIn
    <3>3. commits' + OpenIn(p) + 0 + Free(slot') + excuses
          <= commits + OpenIn(pc[c]) + Free(slot) + excuses'
      BY <2>q, <3>1, <3>2, <1>n, <1>f
    <3>4. WrittenIn(p) + commits <= WrittenIn(pc[c]) + commits'
      BY <2>q, <3>1, <3>2, <1>n
    <3> QED BY <2>q, <3>1, <3>3, <3>4, <1>u, BudgetMove
  <2>e. ASSUME NEW a, Answer(c, a) PROVE pc' = [pc EXCEPT ![c] = "end"]
    BY <2>e DEF Answer
  <2>r. ASSUME AnswerFromRow(c) PROVE pc' = [pc EXCEPT ![c] = "end"]
    BY <2>r, <2>e DEF AnswerFromRow
  <2>1. CASE LookupAnswered(c)
    <3>1. \E p \in {"claim", "poll", "end"} : pc' = [pc EXCEPT ![c] = p]
      BY <2>1, <2>e, <2>r DEF LookupAnswered, Goto
    <3> QED BY <2>1, <2>q, <3>1 DEF LookupAnswered
  <2>2. CASE LookupFails(c)
    <3>1. /\ OpenIn("run") = 1 /\ OpenIn(pc[c]) = 0
          /\ WrittenIn("run") = 0 /\ WrittenIn(pc[c]) = 0
      BY <2>2 DEF LookupFails, OpenIn, WrittenIn
    <3>2. /\ pc' = [pc EXCEPT ![c] = "run"]
          /\ slot' = slot /\ commits' = commits /\ excuses' = excuses + 1
          /\ UNCHANGED late
      BY <2>2 DEF LookupFails, Goto, Excused
    <3>3. /\ commits' + OpenIn("run") + 0 + Free(slot') + excuses
             <= commits + OpenIn(pc[c]) + Free(slot) + excuses'
          /\ WrittenIn("run") + commits <= WrittenIn(pc[c]) + commits'
      BY <3>1, <3>2, <1>n, <1>f
    <3> QED BY <3>2, <3>3, <1>u, BudgetMove DEF Phases
  <2>3. CASE ClaimWon(c)
    <3>1. /\ OpenIn("run") = 1 /\ OpenIn(pc[c]) = 0
          /\ WrittenIn("run") = 0 /\ WrittenIn(pc[c]) = 0
      BY <2>3 DEF ClaimWon, OpenIn, WrittenIn
    <3>2. /\ pc' = [pc EXCEPT ![c] = "run"]
          /\ commits' = commits /\ excuses' = excuses
          /\ UNCHANGED late
      BY <2>3 DEF ClaimWon, Goto
    <3>3. Free(slot) = 1 /\ Free(slot') = 0
      BY <2>3, <1>s, Freeing DEF ClaimWon, Free
    <3>4. /\ commits' + OpenIn("run") + 0 + Free(slot') + excuses
             <= commits + OpenIn(pc[c]) + Free(slot) + excuses'
          /\ WrittenIn("run") + commits <= WrittenIn(pc[c]) + commits'
      BY <3>1, <3>2, <3>3, <1>n
    <3> QED BY <3>2, <3>4, <1>u, BudgetMove DEF Phases
  <2>4. CASE ClaimLost(c)
    BY <2>4, <2>q DEF ClaimLost, Goto
  <2>5. CASE ReadExisting(c)
    <3>1. \E p \in {"poll", "end"} : pc' = [pc EXCEPT ![c] = p]
      BY <2>5, <2>e, <2>r DEF ReadExisting, Goto
    <3> QED BY <2>5, <2>q, <3>1 DEF ReadExisting
  <2>6. CASE ClaimFails(c)
    <3>1. /\ OpenIn("run") = 1 /\ OpenIn(pc[c]) = 0
          /\ WrittenIn("run") = 0 /\ WrittenIn(pc[c]) = 0
      BY <2>6 DEF ClaimFails, OpenIn, WrittenIn
    <3>2. /\ pc' = [pc EXCEPT ![c] = "run"]
          /\ commits' = commits /\ excuses' = excuses + 1
      BY <2>6 DEF ClaimFails, Goto, Excused
    <3>3. Free(slot') <= Free(slot)
      BY <2>6, <1>s, <1>f, Freeing DEF ClaimFails
    <3>4. /\ Cardinality(Loose') \in Nat
          /\ Cardinality(Loose') <= Cardinality(Loose) + 0
      <4>1. LooseIn("claim") = 0 BY DEF LooseIn
      <4> QED BY <2>6, <4>1, <1>u, Leaving DEF ClaimFails
    <3>5. /\ commits' + OpenIn("run") + 0 + Free(slot') + excuses
             <= commits + OpenIn(pc[c]) + Free(slot) + excuses'
          /\ WrittenIn("run") + commits <= WrittenIn(pc[c]) + commits'
      BY <3>1, <3>2, <3>3, <1>n, <1>f
    <3> QED BY <3>2, <3>4, <3>5, BudgetMove DEF Phases
  <2>7. CASE PollAnswered(c)
    <3>1. CASE pc' = [pc EXCEPT ![c] = "end"]
      BY <2>7, <3>1, <2>q DEF PollAnswered
    <3>2. CASE pc' = pc
      <4>1. pc' = [pc EXCEPT ![c] = "poll"]
        BY <2>7, <3>2, <2>p DEF PollAnswered
      <4> QED BY <2>7, <4>1, <2>q DEF PollAnswered
    <3> QED BY <2>7, <2>e, <2>r, <3>1, <3>2 DEF PollAnswered
  <2>8. CASE PollFails(c)
    BY <2>8, <2>q, <2>e DEF PollFails
  <2>9. CASE HandlerCommits(c)
    <3>1. /\ OpenIn("committed") = 0 /\ OpenIn(pc[c]) = 1
          /\ WrittenIn("committed") = 1 /\ WrittenIn(pc[c]) = 0
      BY <2>9 DEF HandlerCommits, OpenIn, WrittenIn
    <3>2. /\ pc' = [pc EXCEPT ![c] = "committed"]
          /\ slot' = slot /\ commits' = commits + 1 /\ excuses' = excuses
          /\ UNCHANGED late
      BY <2>9 DEF HandlerCommits, Goto
    <3>3. /\ commits' + OpenIn("committed") + 0 + Free(slot') + excuses
             <= commits + OpenIn(pc[c]) + Free(slot) + excuses'
          /\ WrittenIn("committed") + commits <= WrittenIn(pc[c]) + commits'
      BY <3>1, <3>2, <1>n, <1>f
    <3> QED BY <3>2, <3>3, <1>u, BudgetMove DEF Phases
  <2>10. CASE HandlerReturns(c)
    <3>1. /\ OpenIn("record") = 0 /\ OpenIn(pc[c]) = 0
          /\ WrittenIn("record") = 1 /\ WrittenIn(pc[c]) = 1
      BY <2>10 DEF HandlerReturns, OpenIn, WrittenIn
    <3>2. /\ pc' = [pc EXCEPT ![c] = "record"]
          /\ slot' = slot /\ commits' = commits /\ excuses' = excuses
          /\ UNCHANGED late
      BY <2>10 DEF HandlerReturns, Goto
    <3>3. /\ commits' + OpenIn("record") + 0 + Free(slot') + excuses
             <= commits + OpenIn(pc[c]) + Free(slot) + excuses'
          /\ WrittenIn("record") + commits <= WrittenIn(pc[c]) + commits'
      BY <3>1, <3>2, <1>n, <1>f
    <3> QED BY <3>2, <3>3, <1>u, BudgetMove DEF Phases
  <2>11. CASE HandlerRaises(c)
    <3>1. PICK p \in {"release", "end"} : pc' = [pc EXCEPT ![c] = p]
      BY <2>11, <2>e DEF HandlerRaises, Goto
    <3>2. /\ OpenIn(p) \in {0, 1} /\ WrittenIn(p) = 0
          /\ p \in Phases
      BY DEF OpenIn, WrittenIn, Phases
    <3>3. slot' = slot /\ commits' = commits BY <2>11 DEF HandlerRaises
    <3>4. CASE pc[c] = "run" /\ NoExcuse /\ UNCHANGED late
      <4>1. OpenIn(pc[c]) = 1 /\ WrittenIn(pc[c]) = 0
        BY <3>4 DEF OpenIn, WrittenIn
      <4>2. /\ commits' + OpenIn(p) + 0 + Free(slot') + excuses
               <= commits + OpenIn(pc[c]) + Free(slot) + excuses'
            /\ WrittenIn(p) + commits <= WrittenIn(pc[c]) + commits'
        BY <3>2, <3>3, <3>4, <4>1, <1>n, <1>f DEF NoExcuse
      <4> QED BY <3>1, <3>2, <3>4, <4>2, <1>u, BudgetMove
    <3>5. CASE pc[c] = "run" /\ Excused /\ MayLand("effect", c)
      <4>1. OpenIn(pc[c]) = 1 /\ WrittenIn(pc[c]) = 0
        BY <3>5 DEF OpenIn, WrittenIn
      <4>2. /\ commits' + OpenIn(p) + 1 + Free(slot') + excuses
               <= commits + OpenIn(pc[c]) + Free(slot) + excuses'
            /\ WrittenIn(p) + commits <= WrittenIn(pc[c]) + commits'
        BY <3>2, <3>3, <3>5, <4>1, <1>n, <1>f DEF Excused
      <4>3. /\ Cardinality(Loose') \in Nat
            /\ Cardinality(Loose') <= Cardinality(Loose) + 1
        <5>1. LooseIn("effect") = 1 BY DEF LooseIn
        <5> QED BY <3>5, <5>1, Leaving
      <4> QED BY <3>1, <3>2, <4>2, <4>3, BudgetMove
    <3>6. CASE pc[c] = "committed" /\ Excused /\ UNCHANGED late
      <4>1. OpenIn(pc[c]) = 0 /\ WrittenIn(pc[c]) = 1
        BY <3>6 DEF OpenIn, WrittenIn
      <4>2. /\ commits' + OpenIn(p) + 0 + Free(slot') + excuses
               <= commits + OpenIn(pc[c]) + Free(slot) + excuses'
            /\ WrittenIn(p) + commits <= WrittenIn(pc[c]) + commits'
        BY <3>2, <3>3, <3>6, <4>1, <1>n, <1>f DEF Excused
      <4> QED BY <3>1, <3>2, <3>6, <4>2, <1>u, BudgetMove
    <3> QED BY <2>11, <3>4, <3>5, <3>6 DEF HandlerRaises
  <2>12. CASE ReleaseAnswered(c)
    <3>1. /\ OpenIn("end") = 0 /\ OpenIn(pc[c]) = 1
          /\ WrittenIn("end") = 0 /\ WrittenIn(pc[c]) = 0
      BY <2>12 DEF ReleaseAnswered, OpenIn, WrittenIn
    <3>2. /\ pc' = [pc EXCEPT ![c] = "end"]
          /\ commits' = commits /\ excuses' = excuses /\ UNCHANGED late
      BY <2>12, <2>e DEF ReleaseAnswered
    <3>3. Free(slot') <= Free(slot) + 1 BY <1>f
    <3>4. /\ commits' + OpenIn("end") + 0 + Free(slot') + excuses
             <= commits + OpenIn(pc[c]) + Free(slot) + excuses'
          /\ WrittenIn("end") + commits <= WrittenIn(pc[c]) + commits'
      BY <3>1, <3>2, <3>3, <1>n, <1>f
    <3> QED BY <3>2, <3>4, <1>u, BudgetMove DEF Phases
  <2>13. CASE ReleaseResent(c)
    <3>1. pc' = [pc EXCEPT ![c] = "release"]
      BY <2>13, <2>p DEF ReleaseResent, request
    <3>2. /\ OpenIn("release") = 1 /\ OpenIn(pc[c]) = 1
          /\ WrittenIn("release") = 0 /\ WrittenIn(pc[c]) = 0
      BY <2>13 DEF ReleaseResent, OpenIn, WrittenIn
    <3>3. commits' = commits /\ excuses' = excuses + 1 /\ UNCHANGED late
      BY <2>13 DEF ReleaseResent, Excused
    <3>4. /\ commits' + OpenIn("release") + 0 + Free(slot') + excuses
             <= commits + OpenIn(pc[c]) + Free(slot) + excuses'
          /\ WrittenIn("release") + commits <= WrittenIn(pc[c]) + commits'
      BY <3>2, <3>3, <1>n, <1>f
    <3> QED BY <3>1, <3>3, <3>4, <1>u, BudgetMove DEF Phases
  (* A request that ends leaving a call in flight: what it could still do, *)
  (* the call can.                                                         *)
  <2>l. ASSUME NEW kind, MayLand(kind, c), LooseIn(kind) <= OpenIn(pc[c]),
               pc' = [pc EXCEPT ![c] = "end"], slot' = slot,
               commits' = commits, excuses' = excuses
        PROVE  Budget'
    <3>1. /\ LooseIn(kind) \in {0, 1}
          /\ OpenIn("end") = 0 /\ OpenIn(pc[c]) \in {0, 1}
          /\ WrittenIn("end") = 0 /\ WrittenIn(pc[c]) \in {0, 1}
      BY DEF OpenIn, WrittenIn, LooseIn
    <3>2. /\ commits' + OpenIn("end") + LooseIn(kind) + Free(slot') + excuses
             <= commits + OpenIn(pc[c]) + Free(slot) + excuses'
          /\ WrittenIn("end") + commits <= WrittenIn(pc[c]) + commits'
      BY <2>l, <3>1, <1>n, <1>f
    <3> QED BY <2>l, <3>1, <3>2, Leaving, BudgetMove DEF Phases
  <2>14. CASE ReleaseFails(c)
    <3>1. LooseIn("release") <= OpenIn(pc[c])
      BY <2>14 DEF ReleaseFails, LooseIn, OpenIn
    <3> QED BY <2>14, <3>1, <2>l, <2>e DEF ReleaseFails, NoExcuse
  <2>15. CASE RecordAnswered(c)
    <3>1. Free(slot') <= Free(slot) BY <2>15, <1>s, Freeing DEF RecordAnswered
    <3> QED BY <2>15, <3>1, <2>q, <2>e DEF RecordAnswered
  <2>16. CASE RecordFails(c)
    <3>1. LooseIn("record") <= OpenIn(pc[c])
      BY <2>16 DEF RecordFails, LooseIn, OpenIn
    <3> QED BY <2>16, <3>1, <2>l, <2>e DEF RecordFails, NoExcuse
  <2>17. CASE Cancel(c)
    <3>1. \E kind \in {"claim", "effect", "record", "release"} :
             MayLand(kind, c) /\ LooseIn(kind) <= OpenIn(pc[c])
      <4>1. CASE pc[c] = "run"
        BY <2>17, <4>1 DEF Cancel, LooseIn, OpenIn
      <4>2. CASE pc[c] = "release"
        BY <2>17, <4>2 DEF Cancel, LooseIn, OpenIn
      <4>3. CASE pc[c] = "record"
        BY <2>17, <4>3 DEF Cancel, LooseIn, OpenIn
      <4>4. CASE pc[c] \notin {"run", "release", "record"}
        <5>1. MayLand("claim", c) BY <2>17, <4>4 DEF Cancel, MayLand
        <5>2. LooseIn("claim") <= OpenIn(pc[c]) BY <4>4 DEF LooseIn, OpenIn
        <5> QED BY <5>1, <5>2
      <4> QED BY <4>1, <4>2, <4>3, <4>4
    <3> QED BY <2>17, <3>1, <2>l, <2>e DEF Cancel
  <2>18. CASE Retry(c)
    BY <2>18, <2>q DEF Retry
  <2> QED BY <1>1, <2>1, <2>2, <2>3, <2>4, <2>5, <2>6, <2>7, <2>8, <2>9, <2>10,
             <2>11, <2>12, <2>13, <2>14, <2>15, <2>16, <2>17, <2>18
          DEF RequestStep
<1>o. ASSUME UNCHANGED pc PROVE Open' = Open /\ Written' = Written
  BY <1>o DEF Open, Written
<1>c. /\ Cardinality(Open) \in Nat /\ Cardinality(Written) \in Nat
      /\ Cardinality(Loose) \in Nat /\ IsFiniteSet(Loose)
  BY Finite
<1>2. ASSUME NEW m \in late, LateLands(m) PROVE Budget'
  <2>1. Open' = Open /\ Written' = Written BY <1>2, <1>o DEF LateLands, request
  <2>2. m[2] \in Clients /\ excuses' = excuses
    BY <1>2 DEF LateLands, TypeOK, Calls
  <2>3. CASE m[1] \in {"effect", "release"}
    <3>1. m \in Loose /\ Loose' \subseteq Loose \ {m}
      BY <1>2, <2>3 DEF LateLands, Loose
    <3>2. /\ Cardinality(Loose') \in Nat
          /\ Cardinality(Loose') + 1 <= Cardinality(Loose)
      BY <3>1, <1>c, CardShrinks
    <3>3. commits' + Free(slot') <= commits + Free(slot) + 1 /\ commits' >= commits
      <4>1. CASE m[1] = "effect"
        BY <1>2, <4>1, <1>n, <1>f DEF LateLands
      <4>2. CASE m[1] = "release"
        BY <1>2, <4>2, <1>n, <1>f DEF LateLands
      <4> QED BY <2>3, <4>1, <4>2
    <3>4. commits' \in Nat BY DEF TypeOK
    <3> QED BY <2>1, <2>2, <3>2, <3>3, <3>4, <1>c, <1>n, <1>f DEF Budget
  <2>4. CASE m[1] \notin {"effect", "release"}
    <3>1. Loose' = Loose BY <1>2, <2>4 DEF LateLands, Loose
    <3>2. Free(slot') <= Free(slot) /\ commits' = commits
      BY <1>2, <2>2, <2>4, <1>s, <1>f, Freeing DEF LateLands
    <3> QED BY <2>1, <2>2, <3>1, <3>2, <1>c, <1>n, <1>f DEF Budget
  <2> QED BY <2>3, <2>4
<1>3. CASE Expire
  <2>1. /\ Open' = Open /\ Written' = Written /\ Loose' = Loose
        /\ commits' = commits /\ excuses' = excuses + 1
    BY <1>3, <1>o DEF Expire, request, Loose, Excused
  <2>2. Free(slot) = 0 BY <1>3 DEF Expire, Found, Free, Claimable
  <2> QED BY <2>1, <2>2, <1>c, <1>n, <1>f DEF Budget
<1>4. CASE Purge
  <2>1. /\ Open' = Open /\ Written' = Written /\ Loose' = Loose
        /\ commits' = commits /\ excuses' = excuses
    BY <1>4, <1>o DEF Purge, request, Loose
  <2>2. Free(slot) = 1 BY <1>4 DEF Purge, Free, Claimable
  <2> QED BY <2>1, <2>2, <1>c, <1>n, <1>f DEF Budget
<1>5. CASE UNCHANGED vars
  BY <1>5, <1>o DEF vars, Budget, Loose
<1> QED BY <1>1, <1>2, <1>3, <1>4, <1>5 DEF Next

-----------------------------------------------------------------------------
(* Responses *)

(* Commits are never undone. *)
LEMMA CommitsGrow ==
    ASSUME TypeOK, [Next]_vars PROVE commits' \in Nat /\ commits' >= commits
<1>n. commits \in Nat BY DEF TypeOK
<1>1. ASSUME NEW c \in Clients, RequestStep(c)
      PROVE  commits' = commits \/ commits' = commits + 1
  BY <1>1 DEF RequestStep, LookupAnswered, LookupFails, ClaimWon, ClaimLost,
     ReadExisting, ClaimFails, PollAnswered, PollFails, HandlerCommits,
     HandlerReturns, HandlerRaises, ReleaseAnswered, ReleaseResent,
     ReleaseFails, RecordAnswered, RecordFails, Cancel, Retry
<1>2. ASSUME NEW m \in late, LateLands(m)
      PROVE  commits' = commits \/ commits' = commits + 1
  BY <1>2 DEF LateLands
<1> QED BY <1>n, <1>1, <1>2 DEF Next, Expire, Purge, vars

(* Who is about to record has committed. *)
LEMMA WrittenCommitted ==
    ASSUME TypeOK, Budget, NEW c \in Clients, pc[c] \in {"committed", "record"}
    PROVE  commits > 0
<1>1. c \in Written BY DEF Written
<1>2. Cardinality(Written \ {c}) \in Nat
      /\ Cardinality(Written \ {c}) + 1 <= Cardinality(Written)
  BY <1>1, Finite, CardShrinks
<1> QED BY <1>2, Finite DEF Budget, TypeOK

(* The completed row always holds a response of its own hash. *)
GoodRow(s) == s.state = "done" => s.by \in Clients /\ s.hash = Hash[s.by]

(* The statements complete a row only with the caller's response. *)
LEMMA StatementRows ==
    ASSUME NEW s \in Slot, GoodRow(s), NEW c \in Clients
    PROVE  /\ GoodRow(Claim(s, c)) /\ GoodRow(Record(s, c))
           /\ GoodRow(Release(s, c))
           /\ Claim(s, c).state = "done" => s.state = "done"
           /\ Release(s, c).state = "done" => s.state = "done"
BY DEF GoodRow, Claim, Record, Release, Absent, Slot

(* Every step keeps RowInv. *)
LEMMA RowStep == ASSUME TypeOK, Budget, RowInv, [Next]_vars PROVE RowInv'
<1>n. commits \in Nat BY DEF TypeOK
<1>c. commits' \in Nat /\ commits' >= commits BY CommitsGrow
<1>g. slot \in Slot /\ GoodRow(slot) BY DEF TypeOK, RowInv, GoodRow
<1>d. slot.state = "done" => commits > 0 BY DEF RowInv
<1>1. ASSUME NEW c \in Clients, RequestStep(c) PROVE RowInv'
  <2>1. \/ UNCHANGED slot
        \/ slot' = Claim(slot, c) \/ slot' = Release(slot, c)
        \/ slot' = Record(slot, c) /\ pc[c] = "record"
    BY <1>1 DEF RequestStep, LookupAnswered, LookupFails, ClaimWon, ClaimLost,
       ReadExisting, ClaimFails, PollAnswered, PollFails, HandlerCommits,
       HandlerReturns, HandlerRaises, ReleaseAnswered, ReleaseResent,
       ReleaseFails, RecordAnswered, RecordFails, Cancel, Retry
  <2>2. \/ UNCHANGED late
        \/ \E k \in {"claim", "effect", "release"} :
              late' = late \cup {<<k, c>>}
        \/ late' = late \cup {<<"record", c>>} /\ pc[c] = "record"
    BY <1>1 DEF RequestStep, LookupAnswered, LookupFails, ClaimWon, ClaimLost,
       ReadExisting, ClaimFails, PollAnswered, PollFails, HandlerCommits,
       HandlerReturns, HandlerRaises, ReleaseAnswered, ReleaseResent,
       ReleaseFails, RecordAnswered, RecordFails, Cancel, Retry, MayLand
  <2>3. pc[c] = "record" => commits > 0 BY WrittenCommitted
  <2>4. GoodRow(slot') /\ (slot'.state = "done" => commits > 0)
    BY <2>1, <2>3, <1>g, <1>d, StatementRows
  <2>5. \A b \in Clients : <<"record", b>> \in late' => commits > 0
    BY <2>2, <2>3 DEF RowInv
  <2> QED BY <2>4, <2>5, <1>n, <1>c DEF RowInv, GoodRow
<1>2. ASSUME NEW m \in late, LateLands(m) PROVE RowInv'
  <2>1. m[2] \in Clients /\ m = <<m[1], m[2]>> BY DEF TypeOK, Calls
  <2>2. m[1] = "record" => commits > 0 BY <2>1 DEF RowInv
  <2>3. \/ slot' = slot \/ slot' = Claim(slot, m[2]) \/ slot' = Release(slot, m[2])
        \/ slot' = Record(slot, m[2]) /\ commits > 0
    BY <1>2, <2>2 DEF LateLands
  <2>4. GoodRow(slot') /\ (slot'.state = "done" => commits > 0)
    BY <2>1, <2>3, <1>g, <1>d, StatementRows
  <2>5. \A b \in Clients : <<"record", b>> \in late' => commits > 0
    BY <1>2 DEF LateLands, RowInv
  <2> QED BY <2>4, <2>5, <1>n, <1>c DEF RowInv, GoodRow
<1>3. CASE Expire
  <2>1. slot'.state = slot.state /\ slot'.by = slot.by /\ slot'.hash = slot.hash
    BY <1>3, <1>g DEF Expire, Slot
  <2> QED BY <1>3, <2>1 DEF Expire, RowInv
<1>4. CASE Purge
  <2>1. slot'.state = "absent" BY <1>4 DEF Purge, Absent
  <2> QED BY <1>4, <2>1 DEF Purge, RowInv
<1>5. CASE UNCHANGED vars
  BY <1>5 DEF vars, RowInv
<1> QED BY <1>1, <1>2, <1>3, <1>4, <1>5 DEF Next

(* Every step keeps ReplaySameBody: a replay compares the hashes. *)
LEMMA ReplayStep ==
    ASSUME TypeOK, RowInv, ReplaySameBody, [Next]_vars PROVE ReplaySameBody'
<1>n. commits \in Nat BY DEF TypeOK
<1>c. commits' \in Nat /\ commits' >= commits BY CommitsGrow
<1>k. ASSUME NEW b \in Clients, ans'[b] = ans[b], from'[b] = from[b],
             ans'[b] = "replay"
      PROVE  from'[b] \in Clients /\ Hash[from'[b]] = Hash[b] /\ commits' > 0
  <2>1. from[b] \in Clients /\ Hash[from[b]] = Hash[b] /\ commits > 0
    BY <1>k DEF ReplaySameBody
  <2> QED BY <2>1, <1>k, <1>n, <1>c
<1>1. ASSUME NEW c \in Clients, RequestStep(c) PROVE ReplaySameBody'
  <2> DEFINE Kept == UNCHANGED <<ans, from>>
             Other == \E a \in (Final \cup TryAgain) \ {"replay"} : Answer(c, a)
             Again == ans' = [ans EXCEPT ![c] = "none"] /\ UNCHANGED from
             Replayed == slot.state = "done" /\ AnswerFromRow(c)
  <2>1. Kept \/ Other \/ Again \/ Replayed
    BY <1>1 DEF RequestStep, LookupAnswered, LookupFails, ClaimWon, ClaimLost,
       ReadExisting, ClaimFails, PollAnswered, PollFails, HandlerCommits,
       HandlerReturns, HandlerRaises, ReleaseAnswered, ReleaseResent,
       ReleaseFails, RecordAnswered, RecordFails, Cancel, Retry, Goto, request,
       Final, TryAgain
  <2>t. ans \in [Clients -> Final \cup TryAgain \cup {"none"}]
        /\ from \in [Clients -> Clients \cup {Nobody}]
    BY DEF TypeOK
  <2>2. CASE Kept
    BY <2>2, <1>k DEF ReplaySameBody
  <2>3. CASE Again
    BY <2>3, <2>t, <1>k DEF ReplaySameBody
  <2>4. CASE Other
    BY <2>4, <2>t, <1>k DEF ReplaySameBody, Answer
  <2>5. CASE Replayed
    <3>1. slot.by \in Clients /\ slot.hash = Hash[slot.by] /\ commits > 0
      BY <2>5 DEF RowInv
    <3>2. commits' > 0 BY <3>1, <1>n, <1>c
    <3>3. CASE slot.hash = Hash[c] /\ Answer(c, "replay")
      <4>1. ans'[c] = "replay" /\ from'[c] = slot.by
        BY <3>3, <2>t DEF Answer
      <4>2. \A b \in Clients : b # c => ans'[b] = ans[b] /\ from'[b] = from[b]
        BY <3>3, <2>t DEF Answer
      <4>3. from'[c] \in Clients /\ Hash[from'[c]] = Hash[c] /\ commits' > 0
        BY <3>1, <3>2, <3>3, <4>1
      <4>4. ASSUME NEW b \in Clients, ans'[b] = "replay"
            PROVE  from'[b] \in Clients /\ Hash[from'[b]] = Hash[b] /\ commits' > 0
        BY <4>2, <4>3, <4>4, <1>k
      <4> QED BY <4>4 DEF ReplaySameBody
    <3>4. CASE Answer(c, "mismatch")
      BY <3>4, <2>t, <1>k DEF ReplaySameBody, Answer
    <3> QED BY <2>5, <3>3, <3>4 DEF AnswerFromRow
  <2> QED BY <2>1, <2>2, <2>3, <2>4, <2>5
<1>2. CASE UNCHANGED <<ans, from>>
  BY <1>2, <1>k DEF ReplaySameBody
<1> QED BY <1>1, <1>2 DEF Next, LateLands, Expire, Purge, request, vars

-----------------------------------------------------------------------------
(* The theorems *)

(* The initial state satisfies the invariant: the key is free, once. *)
LEMMA InvInit == Init => IInv
<1> SUFFICES ASSUME Init PROVE IInv
  OBVIOUS
<1>1. TypeOK BY TypeInit
<1>2. Open = {} /\ Written = {} /\ Loose = {}
  BY DEF Init, Open, Written, Loose
<1>3. commits = 0 /\ excuses = 0 /\ Free(slot) \in {0, 1}
  BY DEF Init, Free
<1>4. Budget BY <1>2, <1>3, FS_EmptySet DEF Budget
<1>5. RowInv BY DEF Init, RowInv, Absent
<1>6. ReplaySameBody BY DEF Init, ReplaySameBody
<1> QED BY <1>1, <1>4, <1>5, <1>6 DEF IInv

(* The invariant is inductive. *)
THEOREM Inductive == Spec => []IInv
<1>1. IInv /\ [Next]_vars => IInv'
  <2> SUFFICES ASSUME IInv, [Next]_vars PROVE IInv'
    OBVIOUS
  <2>1. TypeOK' BY TypeStep DEF IInv
  <2> QED BY <2>1, BudgetStep, RowStep, ReplayStep DEF IInv
<1> QED BY <1>1, InvInit, PTL DEF Spec

(* Every reachable state is well typed. *)
THEOREM TypeCorrect == Spec => []TypeOK
<1>1. IInv => TypeOK BY DEF IInv
<1> QED BY <1>1, Inductive, PTL

(* However many clients race, retry, fail and vanish, the write takes      *)
(* effect at most once more than there were excuses.                       *)
THEOREM OncePerExcuse == Spec => []DuplicatesExcused
<1>1. IInv => DuplicatesExcused
  <2> SUFFICES ASSUME IInv PROVE commits <= 1 + excuses
    BY DEF DuplicatesExcused
  <2>1. commits \in Nat /\ excuses \in Nat BY DEF IInv, TypeOK
  <2>2. Cardinality(Open) \in Nat /\ Cardinality(Loose) \in Nat
    BY Finite DEF IInv
  <2>3. Free(slot) \in {0, 1} BY DEF Free
  <2> QED BY <2>1, <2>2, <2>3 DEF IInv, Budget
<1> QED BY <1>1, Inductive, PTL

(* Without an excuse no two requests are ever between their claim and the  *)
(* record of their response.                                               *)
THEOREM OneHandlerSafe == Spec => []OneHandler
<1>1. IInv => OneHandler
  <2> SUFFICES ASSUME IInv, excuses = 0, NEW b \in Clients, NEW c \in Clients,
                      pc[b] \in {"run", "committed", "record"},
                      pc[c] \in {"run", "committed", "record"}, b # c
               PROVE  FALSE
    BY DEF OneHandler
  <2>n. /\ TypeOK /\ Budget
        /\ commits \in Nat /\ Free(slot) \in {0, 1}
    BY DEF IInv, TypeOK, Free
  <2>f. /\ IsFiniteSet(Open) /\ IsFiniteSet(Written)
        /\ Cardinality(Open) \in Nat /\ Cardinality(Written) \in Nat
        /\ Cardinality(Loose) \in Nat
    BY <2>n, Finite
  <2>b. commits + Cardinality(Open) + Cardinality(Loose) + Free(slot) <= 1
        /\ Cardinality(Written) <= commits
    BY <2>n DEF Budget
  <2>s. commits + Cardinality(Open) <= 1
    BY <2>b, <2>n, <2>f
  <2>1. ASSUME NEW S, IsFiniteSet(S), b \in S, c \in S
        PROVE  Cardinality(S) \in Nat /\ Cardinality(S) >= 2
    <3>1. c \in S \ {b} /\ IsFiniteSet(S \ {b})
      BY <2>1, FS_RemoveElement
    <3>2. /\ Cardinality(S \ {b}) \in Nat /\ Cardinality(S) \in Nat
          /\ Cardinality(S \ {b}) + 1 <= Cardinality(S)
      BY <2>1, CardShrinks
    <3>3. /\ Cardinality((S \ {b}) \ {c}) \in Nat
          /\ Cardinality((S \ {b}) \ {c}) + 1 <= Cardinality(S \ {b})
      BY <3>1, CardShrinks
    <3> QED BY <3>2, <3>3
  <2>2. ASSUME NEW S, IsFiniteSet(S), NEW x \in S
        PROVE  Cardinality(S) \in Nat /\ Cardinality(S) >= 1
    <3>1. /\ Cardinality(S \ {x}) \in Nat /\ Cardinality(S) \in Nat
          /\ Cardinality(S \ {x}) + 1 <= Cardinality(S)
      BY <2>2, CardShrinks
    <3> QED BY <3>1
  <2>3. CASE b \in Open /\ c \in Open
    BY <2>3, <2>1, <2>f, <2>s, <2>n
  <2>4. CASE b \in Written /\ c \in Written
    BY <2>4, <2>1, <2>f, <2>s, <2>b, <2>n
  <2>5. CASE \/ b \in Open /\ c \in Written
             \/ b \in Written /\ c \in Open
    <3>1. Cardinality(Open) >= 1 /\ Cardinality(Written) >= 1
      BY <2>5, <2>2, <2>f
    <3> QED BY <3>1, <2>f, <2>s, <2>b, <2>n
  <2> QED BY <2>3, <2>4, <2>5 DEF Open, Written
<1> QED BY <1>1, Inductive, PTL

(* A replay answers with the response to the same body. *)
THEOREM ReplaySafe == Spec => []ReplaySameBody
<1>1. IInv => ReplaySameBody BY DEF IInv
<1> QED BY <1>1, Inductive, PTL

(* No statement touches a completed row that has not expired. *)
LEMMA ResponseKeptStep == ASSUME TypeOK, [Next]_vars PROVE ResponseKept
<1> SUFFICES ASSUME slot.state = "done", slot.live
             PROVE  slot' \in {slot, [slot EXCEPT !.live = FALSE]}
  BY DEF ResponseKept
<1>1. ASSUME NEW c \in Clients
      PROVE  Claim(slot, c) = slot /\ Record(slot, c) = slot
             /\ Release(slot, c) = slot
  BY DEF Claim, Claimable, Record, Release
<1>2. ASSUME NEW c \in Clients, RequestStep(c) PROVE slot' = slot
  BY <1>1, <1>2 DEF RequestStep, LookupAnswered, LookupFails, ClaimWon, ClaimLost,
     ReadExisting, ClaimFails, PollAnswered, PollFails, HandlerCommits,
     HandlerReturns, HandlerRaises, ReleaseAnswered, ReleaseResent,
     ReleaseFails, RecordAnswered, RecordFails, Cancel, Retry
<1>3. ASSUME NEW m \in late, LateLands(m) PROVE slot' = slot
  <2>1. m[2] \in Clients BY DEF TypeOK, Calls
  <2> QED BY <1>1, <1>3, <2>1 DEF LateLands
<1> QED BY <1>2, <1>3 DEF Next, Expire, Purge, vars

(* A recorded response stands until it expires. *)
THEOREM ResponseSafe == Spec => ResponseStands
<1>1. IInv /\ [Next]_vars => [ResponseKept]_vars
  BY ResponseKeptStep DEF IInv
<1> QED BY <1>1, Inductive, PTL DEF Spec, ResponseStands
=============================================================================

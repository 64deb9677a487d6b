--------------------------- MODULE WriteOnceProofs ---------------------------
(***************************************************************************)
(* Idempotency implements WriteOnce, and records a response over the claim *)
(* it was produced under unless an excuse has intervened; for any clients, *)
(* bodies and bounds.  Both rest on the budget of IdempotencyProofs and    *)
(* add what it does not say: which answers spend an effect, and who owns   *)
(* the pending row.                                                        *)
(***************************************************************************)
EXTENDS IdempotencyProofs

-----------------------------------------------------------------------------
(* The invariants *)

(* Every answer of a client's own, and every one to come, has an effect of *)
(* its own; a request under way has no answer yet; a row carries a         *)
(* client's hash.                                                          *)
AnswerInv ==
    /\ Cardinality(Written) + Cardinality(Owners) <= commits
    /\ \A c \in Clients : pc[c] # "end" => ans[c] = "none"
    /\ slot.state # "absent" => slot.hash \in Hashes

(* Phases in which a request acts under the claim. *)
Busy == {"run", "committed", "record", "release"}

(* Calls in flight that end a claim. *)
Ending == {m \in late : m[1] \in {"record", "release"}}

(* Without an excuse the claim has one owner, who alone may still end it.  *)
OwnerInv ==
    excuses = 0 =>
        /\ slot.state # "absent" => slot.live
        /\ slot.state = "done" => slot.by = slot.owner
        /\ \A c \in Clients : pc[c] \in Busy =>
              slot.state = "pending" /\ slot.owner = c /\ Ending = {}
        /\ \A m \in Ending : slot.state = "pending" /\ slot.owner = m[2]
        /\ \A m, n \in Ending : m = n

-----------------------------------------------------------------------------
(* What a step shows the clients *)

(* The request of c moves on, unanswered. *)
Unseen(c) ==
    /\ pc[c] # "end"
    /\ \E p \in Phases \ {"end"} :
          /\ pc' = [pc EXCEPT ![c] = p]
          /\ p \in {"committed", "record"} => pc[c] \in {"committed", "record"}
    /\ UNCHANGED <<ans, from, commits>>
    /\ excuses' \in {excuses, excuses + 1}

(* The grounds on which c gets answer a. *)
Grounds(c, a) ==
    \/ a = "own" /\ pc[c] = "record" /\ NoExcuse
    \/ a = "replay" /\ slot.state = "done" /\ slot.hash = Hash[c] /\ NoExcuse
    \/ a = "mismatch" /\ slot.state # "absent" /\ slot.hash # Hash[c] /\ NoExcuse
    \/ a \in TryAgain /\ excuses' \in {excuses, excuses + 1}

Answered(c) ==
    /\ pc[c] # "end" /\ UNCHANGED commits
    /\ \E a \in Final \cup TryAgain : Answer(c, a) /\ Grounds(c, a)

(* Every step of a request is one of these. *)
LEMMA RequestShape ==
    ASSUME TypeOK, NEW c \in Clients, RequestStep(c)
    PROVE  Unseen(c) \/ Answered(c) \/ HandlerCommits(c) \/ Retry(c)
<1>t. pc \in [Clients -> Phases] /\ pc[c] \in Phases BY DEF TypeOK
<1>e. ASSUME Excused \/ NoExcuse PROVE excuses' \in {excuses, excuses + 1}
  BY <1>e DEF Excused, NoExcuse
<1>g. ASSUME NEW p \in Phases \ {"end"}, Goto(c, p), pc[c] # "end",
             p \in {"committed", "record"} => pc[c] \in {"committed", "record"},
             UNCHANGED commits, Excused \/ NoExcuse
      PROVE  Unseen(c)
  BY <1>g, <1>e DEF Goto, Unseen
<1>s. ASSUME UNCHANGED pc, pc[c] # "end", UNCHANGED <<ans, from, commits>>,
             Excused \/ NoExcuse
      PROVE  Unseen(c)
  <2>1. pc' = [pc EXCEPT ![c] = pc[c]] BY <1>s, <1>t
  <2> QED BY <1>s, <1>e, <1>t, <2>1 DEF Unseen
<1>r. ASSUME AnswerFromRow(c), slot.state = "done", NoExcuse, pc[c] # "end",
             UNCHANGED commits
      PROVE  Answered(c)
  BY <1>r DEF AnswerFromRow, Answered, Grounds, Final
<1>m. ASSUME Answer(c, "mismatch"), slot.state # "absent", slot.hash # Hash[c],
             NoExcuse, pc[c] # "end", UNCHANGED commits
      PROVE  Answered(c)
  BY <1>m DEF Answered, Grounds, Final
<1>y. ASSUME NEW a \in TryAgain, Answer(c, a), Excused \/ NoExcuse,
             pc[c] # "end", UNCHANGED commits
      PROVE  Answered(c)
  BY <1>y, <1>e DEF Answered, Grounds
<1>1. CASE LookupAnswered(c)
  BY <1>1, <1>g, <1>r, <1>m DEF LookupAnswered, Found, Phases, NoExcuse
<1>2. CASE LookupFails(c) \/ ClaimFails(c)
  BY <1>2, <1>g DEF LookupFails, ClaimFails, Phases
<1>3. CASE ClaimWon(c) \/ ClaimLost(c) \/ HandlerReturns(c)
  BY <1>3, <1>g DEF ClaimWon, ClaimLost, HandlerReturns, Phases, NoExcuse
<1>4. CASE ReadExisting(c)
  BY <1>4, <1>g, <1>r, <1>m DEF ReadExisting, Found, Phases, NoExcuse
<1>5. CASE PollAnswered(c)
  BY <1>5, <1>s, <1>r, <1>y DEF PollAnswered, NoExcuse, TryAgain
<1>6. CASE PollFails(c) \/ ReleaseFails(c) \/ ReleaseAnswered(c)
  BY <1>6, <1>y
     DEF PollFails, ReleaseFails, ReleaseAnswered, NoExcuse, TryAgain
<1>7. CASE HandlerRaises(c)
  BY <1>7, <1>g, <1>y DEF HandlerRaises, Phases, TryAgain
<1>8. CASE ReleaseResent(c)
  BY <1>8, <1>s DEF ReleaseResent, request
<1>9. CASE RecordAnswered(c) \/ RecordFails(c)
  BY <1>9 DEF RecordAnswered, RecordFails, NoExcuse, Answered, Grounds, Final
<1>10. CASE Cancel(c)
  BY <1>10, <1>y DEF Cancel, NoExcuse, TryAgain
<1> QED BY <1>1, <1>2, <1>3, <1>4, <1>5, <1>6, <1>7, <1>8, <1>9, <1>10
        DEF RequestStep

(* Every other step leaves the requests alone. *)
LEMMA OtherShape ==
    ASSUME TypeOK, Budget, [Next]_vars, \A c \in Clients : ~RequestStep(c)
    PROVE  /\ UNCHANGED request
           /\ \/ commits' = commits /\ excuses' \in {excuses, excuses + 1}
              \/ commits' = commits + 1 /\ excuses' = excuses /\ Loose # {}
<1>1. CASE \E m \in late : LateLands(m)
  <2>1. PICK m \in late : LateLands(m) BY <1>1
  <2> QED BY <2>1 DEF LateLands, Loose
<1>2. CASE Expire \/ Purge \/ UNCHANGED vars
  BY <1>2 DEF Expire, Purge, vars, request, Excused
<1> QED BY <1>1, <1>2 DEF Next

(* How the answers of their own count when c gets answer a. *)
LEMMA OwnersCount ==
    ASSUME TypeOK, NEW c \in Clients, NEW a, ans' = [ans EXCEPT ![c] = a]
    PROVE  /\ Cardinality(Owners) \in Nat /\ Cardinality(Owners') \in Nat
           /\ Cardinality(Owners') <= Cardinality(Owners) + (IF a = "own" THEN 1 ELSE 0)
<1>1. IsFiniteSet(Owners) /\ Cardinality(Owners) \in Nat
  <2>1. Owners \subseteq Clients BY DEF Owners
  <2> QED BY <2>1, ClientsAssumption, CardSubset
<1>2. CASE a = "own"
  <2>1. Owners' \subseteq Owners \cup {c} BY DEF Owners, TypeOK
  <2> QED BY <1>1, <1>2, <2>1, CardGrows
<1>3. CASE a # "own"
  <2>1. Owners' \subseteq Owners BY <1>3 DEF Owners, TypeOK
  <2> QED BY <1>1, <1>3, <2>1, CardSubset
<1> QED BY <1>2, <1>3

(* The statements leave the row without a hash only if it is gone. *)
LEMMA HashKept ==
    ASSUME TypeOK, AnswerInv, [Next]_vars
    PROVE  (slot.state # "absent" => slot.hash \in Hashes)'
<1> DEFINE Fine(s) == s.state # "absent" => s.hash \in Hashes
<1>1. slot \in Slot /\ Fine(slot) BY DEF TypeOK, AnswerInv
<1>2. ASSUME NEW c \in Clients
      PROVE  /\ Fine(Claim(slot, c)) /\ Fine(Record(slot, c))
             /\ Fine(Release(slot, c))
  <2>1. Hash[c] \in Hashes BY DEF Hashes
  <2> QED BY <1>1, <2>1 DEF Claim, Record, Release, Absent, Slot
<1>3. Fine(Absent) /\ Fine([slot EXCEPT !.live = FALSE])
  BY <1>1 DEF Absent, Slot
<1>4. ASSUME NEW c \in Clients, RequestStep(c)
      PROVE  slot' \in {slot, Claim(slot, c), Record(slot, c), Release(slot, c)}
  BY <1>4 DEF RequestStep, LookupAnswered, LookupFails, ClaimWon, ClaimLost,
       ReadExisting, ClaimFails, PollAnswered, PollFails, HandlerCommits,
       HandlerReturns, HandlerRaises, ReleaseAnswered, ReleaseResent,
       ReleaseFails, RecordAnswered, RecordFails, Cancel, Retry
<1>5. ASSUME NEW m \in late, LateLands(m)
      PROVE  m[2] \in Clients /\ slot' \in {slot, Claim(slot, m[2]),
                 Record(slot, m[2]), Release(slot, m[2])}
  BY <1>5 DEF LateLands, TypeOK, Calls
<1>6. CASE Expire \/ Purge \/ UNCHANGED vars
  <2>1. slot' \in {slot, Absent, [slot EXCEPT !.live = FALSE]}
    BY <1>6 DEF Expire, Purge, vars
  <2> QED BY <1>1, <1>3, <2>1
<1>7. CASE \E c \in Clients : RequestStep(c)
  <2>1. PICK c \in Clients : RequestStep(c) BY <1>7
  <2>2. slot' \in {slot, Claim(slot, c), Record(slot, c), Release(slot, c)}
    BY <1>4, <2>1
  <2> HIDE DEF Fine
  <2>3. Fine(slot') BY <1>1, <1>2, <2>2
  <2> QED BY <2>3 DEF Fine
<1>8. CASE \E m \in late : LateLands(m)
  <2>1. PICK m \in late : LateLands(m) BY <1>8
  <2>2. m[2] \in Clients /\ slot' \in {slot, Claim(slot, m[2]),
            Record(slot, m[2]), Release(slot, m[2])}
    BY <1>5, <2>1
  <2> HIDE DEF Fine
  <2>3. Fine(slot') BY <1>1, <1>2, <2>2
  <2> QED BY <2>3 DEF Fine
<1> QED BY <1>6, <1>7, <1>8 DEF Next

(* Every step keeps the account of the answers. *)
LEMMA AnswerStep ==
    ASSUME TypeOK, Budget, AnswerInv, TypeOK', [Next]_vars PROVE AnswerInv'
<1>h. (slot.state # "absent" => slot.hash \in Hashes)' BY HashKept
<1>n. commits \in Nat /\ Cardinality(Written) \in Nat BY Finite DEF TypeOK
<1>a. Cardinality(Written) + Cardinality(Owners) <= commits BY DEF AnswerInv
<1>f. Cardinality(Owners) \in Nat
  <2>1. Owners \subseteq Clients BY DEF Owners
  <2> QED BY <2>1, ClientsAssumption, CardSubset
<1>1. ASSUME NEW c \in Clients, RequestStep(c) PROVE AnswerInv'
  <2>1. ASSUME Unseen(c) PROVE AnswerInv'
    <3>1. PICK p \in Phases \ {"end"} :
             /\ pc' = [pc EXCEPT ![c] = p]
             /\ p \in {"committed", "record"} => pc[c] \in {"committed", "record"}
      BY <2>1 DEF Unseen
    <3>2. Cardinality(Written') \in Nat /\ Cardinality(Written') <= Cardinality(Written)
      <4>1. /\ Cardinality(Written') \in Nat
            /\ Cardinality(Written') + WrittenIn(pc[c])
               <= Cardinality(Written) + WrittenIn(p)
        BY <3>1, Moving
      <4>2. WrittenIn(p) <= WrittenIn(pc[c]) /\ WrittenIn(p) \in {0, 1}
            /\ WrittenIn(pc[c]) \in {0, 1}
        BY <3>1 DEF WrittenIn
      <4> QED BY <1>n, <4>1, <4>2
    <3>3. Owners' = Owners BY <2>1 DEF Unseen, Owners
    <3>4. \A d \in Clients : pc'[d] # "end" => ans'[d] = "none"
      BY <2>1, <3>1 DEF Unseen, AnswerInv, TypeOK
    <3>5. commits' = commits BY <2>1 DEF Unseen
    <3> QED BY <1>h, <1>n, <1>a, <1>f, <3>2, <3>3, <3>4, <3>5 DEF AnswerInv
  <2>2. ASSUME Answered(c) PROVE AnswerInv'
    <3>1. PICK a \in Final \cup TryAgain : Answer(c, a) /\ Grounds(c, a)
      BY <2>2 DEF Answered
    <3>2. pc' = [pc EXCEPT ![c] = "end"] /\ ans' = [ans EXCEPT ![c] = a]
          /\ commits' = commits
      BY <2>2, <3>1 DEF Answer, Answered
    <3>3. /\ Cardinality(Written') \in Nat
          /\ Cardinality(Written') + WrittenIn(pc[c]) <= Cardinality(Written)
      <4>1. "end" \in Phases /\ WrittenIn("end") = 0 /\ WrittenIn(pc[c]) \in {0, 1}
        BY DEF Phases, WrittenIn
      <4>2. /\ Cardinality(Written') \in Nat
            /\ Cardinality(Written') + WrittenIn(pc[c])
               <= Cardinality(Written) + WrittenIn("end")
        BY <3>2, <4>1, Moving
      <4> QED BY <1>n, <4>1, <4>2
    <3>4. a = "own" => pc[c] = "record" BY <3>1 DEF Grounds, TryAgain
    <3>5. Cardinality(Written') + Cardinality(Owners') <= commits
      <4>1. /\ Cardinality(Owners') \in Nat
            /\ Cardinality(Owners')
               <= Cardinality(Owners) + (IF a = "own" THEN 1 ELSE 0)
        BY <3>2, OwnersCount
      <4>2. WrittenIn(pc[c]) \in {0, 1} /\ (a = "own" => WrittenIn(pc[c]) = 1)
        BY <3>4 DEF WrittenIn
      <4> QED BY <1>n, <1>a, <1>f, <3>3, <4>1, <4>2
    <3>6. \A d \in Clients : pc'[d] # "end" => ans'[d] = "none"
      BY <3>2 DEF AnswerInv, TypeOK
    <3> QED BY <1>h, <3>2, <3>5, <3>6 DEF AnswerInv
  <2>3. ASSUME HandlerCommits(c) PROVE AnswerInv'
    <3>1. pc[c] = "run" /\ pc' = [pc EXCEPT ![c] = "committed"]
          /\ commits' = commits + 1 /\ ans' = ans
      BY <2>3 DEF HandlerCommits, Goto
    <3>2. /\ Cardinality(Written') \in Nat
          /\ Cardinality(Written') <= Cardinality(Written) + 1
      <4>1. "committed" \in Phases /\ WrittenIn("committed") = 1 /\ WrittenIn("run") = 0
        BY DEF Phases, WrittenIn
      <4>2. /\ Cardinality(Written') \in Nat
            /\ Cardinality(Written') + WrittenIn(pc[c])
               <= Cardinality(Written) + WrittenIn("committed")
        BY <3>1, <4>1, Moving
      <4> QED BY <1>n, <3>1, <4>1, <4>2
    <3>3. Owners' = Owners BY <3>1 DEF Owners
    <3>4. \A d \in Clients : pc'[d] # "end" => ans'[d] = "none"
      BY <3>1 DEF AnswerInv, TypeOK
    <3> QED BY <1>h, <1>n, <1>a, <1>f, <3>1, <3>2, <3>3, <3>4 DEF AnswerInv
  <2>4. ASSUME Retry(c) PROVE AnswerInv'
    <3>1. pc' = [pc EXCEPT ![c] = "start"] /\ ans' = [ans EXCEPT ![c] = "none"]
          /\ commits' = commits
      BY <2>4 DEF Retry
    <3>2. /\ Cardinality(Written') \in Nat
          /\ Cardinality(Written') <= Cardinality(Written)
      <4>1. "start" \in Phases /\ WrittenIn("start") = 0 /\ WrittenIn(pc[c]) \in {0, 1}
        BY DEF Phases, WrittenIn
      <4>2. /\ Cardinality(Written') \in Nat
            /\ Cardinality(Written') + WrittenIn(pc[c])
               <= Cardinality(Written) + WrittenIn("start")
        BY <3>1, <4>1, Moving
      <4> QED BY <1>n, <4>1, <4>2
    <3>3. Cardinality(Owners') \in Nat /\ Cardinality(Owners') <= Cardinality(Owners)
      <4>1. Owners' \subseteq Owners BY <3>1 DEF Owners, TypeOK
      <4>2. IsFiniteSet(Owners)
        BY ClientsAssumption, CardSubset DEF Owners
      <4> QED BY <4>1, <4>2, CardSubset
    <3>4. \A d \in Clients : pc'[d] # "end" => ans'[d] = "none"
      BY <3>1 DEF AnswerInv, TypeOK
    <3> QED BY <1>h, <1>n, <1>a, <1>f, <3>1, <3>2, <3>3, <3>4 DEF AnswerInv
  <2> QED BY <1>1, <2>1, <2>2, <2>3, <2>4, RequestShape
<1>2. CASE \A c \in Clients : ~RequestStep(c)
  <2>1. UNCHANGED <<pc, ans>> /\ commits' \in {commits, commits + 1}
    BY <1>2, OtherShape DEF request
  <2>2. Written' = Written /\ Owners' = Owners BY <2>1 DEF Written, Owners
  <2>3. \A d \in Clients : pc'[d] # "end" => ans'[d] = "none"
    BY <2>1 DEF AnswerInv
  <2> QED BY <1>h, <1>n, <1>a, <1>f, <2>1, <2>2, <2>3 DEF AnswerInv
<1> QED BY <1>1, <1>2

-----------------------------------------------------------------------------
(* The refinement *)

(* Room in the budget, for one more effect. *)
LEMMA Room ==
    ASSUME TypeOK, Budget, Open # {} \/ Loose # {} PROVE commits <= excuses
<1>1. commits \in Nat /\ excuses \in Nat /\ Free(slot) \in {0, 1}
  BY DEF TypeOK, Free
<1>2. /\ IsFiniteSet(Open) /\ Cardinality(Open) \in Nat
      /\ IsFiniteSet(Loose) /\ Cardinality(Loose) \in Nat
  BY Finite
<1>3. commits + Cardinality(Open) + Cardinality(Loose) + Free(slot) <= 1 + excuses
  BY DEF Budget
<1>4. Cardinality(Open) > 0 \/ Cardinality(Loose) > 0
  BY <1>2, FS_EmptySet
<1> QED BY <1>1, <1>2, <1>3, <1>4

(* Every answer is one that WriteOnce allows. *)
LEMMA AnswerAllowed ==
    ASSUME IInv, AnswerInv, NEW c \in Clients, Answered(c)
    PROVE  Promise!Own(c) \/ Promise!Replay(c) \/ Promise!Mismatch(c) \/ Promise!Fail(c)
<1> USE DEF IInv
<1>1. PICK a \in Final \cup TryAgain : Answer(c, a) /\ Grounds(c, a)
  BY DEF Answered
<1>2. /\ pc[c] # "end" /\ ans[c] = "none" /\ commits' = commits
      /\ ans' = [ans EXCEPT ![c] = a]
      /\ from' = [from EXCEPT ![c] = IF a = "replay" THEN slot.by ELSE Nobody]
  BY <1>1 DEF Answered, Answer, AnswerInv
<1>o. ASSUME a # "own" PROVE Cardinality(Owners') = Cardinality(Owners)
  <2>1. Owners' = Owners BY <1>2, <1>o DEF Owners, TypeOK
  <2> QED BY <2>1
<1>3. CASE a = "own"
  <2>1. pc[c] = "record" /\ excuses' = excuses
    BY <1>1, <1>3 DEF Grounds, NoExcuse, TryAgain
  <2>2. Cardinality(Owners) < commits
    <3>1. c \in Written BY <2>1 DEF Written
    <3>2. /\ IsFiniteSet(Written) /\ Cardinality(Written) \in Nat
          /\ commits \in Nat
      BY Finite DEF TypeOK
    <3>3. Cardinality(Written) > 0 BY <3>1, <3>2, FS_EmptySet
    <3>4. Cardinality(Owners) \in Nat
      <4>1. Owners \subseteq Clients BY DEF Owners
      <4> QED BY <4>1, ClientsAssumption, CardSubset
    <3> QED BY <3>2, <3>3, <3>4 DEF AnswerInv
  <2>3. Promise!Answer(c, "own", Nobody) BY <1>2, <1>3 DEF Promise!Answer
  <2>4. Cardinality(Owners') = Cardinality(Owners) + 1
    <3>1. Owners' = Owners \cup {c} /\ c \notin Owners
      BY <1>2, <1>3 DEF Owners, TypeOK
    <3>2. IsFiniteSet(Owners)
      BY ClientsAssumption, CardSubset DEF Owners
    <3> QED BY <3>1, <3>2, FS_AddElement
  <2> QED BY <2>1, <2>2, <2>3, <2>4 DEF Promise!Own
<1>4. CASE a = "replay"
  <2>1. slot.state = "done" /\ slot.hash = Hash[c] /\ excuses' = excuses
    BY <1>1, <1>4 DEF Grounds, NoExcuse, TryAgain
  <2>2. slot.by \in Clients /\ Hash[slot.by] = Hash[c] /\ commits > 0
    BY <2>1 DEF RowInv
  <2>3. Promise!Answer(c, "replay", slot.by) BY <1>2, <1>4 DEF Promise!Answer
  <2> QED BY <1>o, <1>4, <2>1, <2>2, <2>3 DEF Promise!Replay
<1>5. CASE a = "mismatch"
  <2>1. slot.state # "absent" /\ slot.hash # Hash[c] /\ excuses' = excuses
    BY <1>1, <1>5 DEF Grounds, NoExcuse, TryAgain
  <2>2. \E b \in Clients : Hash[b] # Hash[c]
    BY <2>1 DEF AnswerInv, Hashes
  <2>3. Promise!Answer(c, "mismatch", Nobody) BY <1>2, <1>5 DEF Promise!Answer
  <2> QED BY <1>o, <1>5, <2>1, <2>2, <2>3 DEF Promise!Mismatch
<1>6. CASE a \in TryAgain
  <2>1. excuses' \in {excuses, excuses + 1}
    BY <1>1, <1>6 DEF Grounds, NoExcuse
  <2>2. a # "replay" /\ a # "own" BY <1>6 DEF TryAgain
  <2>3. Promise!Answer(c, a, Nobody) BY <1>2, <2>2 DEF Promise!Answer
  <2>4. a \in Promise!TryAgain BY <1>6 DEF TryAgain, Promise!TryAgain
  <2> QED BY <1>o, <2>1, <2>2, <2>3, <2>4 DEF Promise!Fail
<1> QED BY <1>3, <1>4, <1>5, <1>6 DEF Final

(* Every step of the inbox is a step of WriteOnce or a stutter. *)
LEMMA PromiseStep ==
    ASSUME IInv, AnswerInv, [Next]_vars PROVE [Promise!Next]_(Promise!vars)
<1> USE DEF IInv
<1>o. ASSUME UNCHANGED ans PROVE Cardinality(Owners') = Cardinality(Owners)
  <2>1. Owners' = Owners BY <1>o DEF Owners
  <2> QED BY <2>1
<1>1. ASSUME UNCHANGED <<ans, from, commits>>, excuses' \in {excuses, excuses + 1}
      PROVE  Promise!Excuse \/ UNCHANGED Promise!vars
  BY <1>1, <1>o DEF Promise!Excuse, Promise!vars
<1>2. ASSUME UNCHANGED <<ans, from, excuses>>, commits' = commits + 1,
             Open # {} \/ Loose # {}
      PROVE  Promise!Effect
  BY <1>2, <1>o, Room DEF Promise!Effect
<1>3. ASSUME NEW c \in Clients, RequestStep(c)
      PROVE  [Promise!Next]_(Promise!vars)
  <2>1. CASE Unseen(c)
    BY <2>1, <1>1 DEF Unseen, Promise!Next
  <2>2. CASE Answered(c)
    BY <2>2, AnswerAllowed DEF Promise!Next
  <2>3. CASE HandlerCommits(c)
    <3>1. c \in Open BY <2>3 DEF HandlerCommits, Open
    <3> QED BY <2>3, <3>1, <1>2 DEF HandlerCommits, Goto, Promise!Next
  <2>4. CASE Retry(c)
    <3>1. Cardinality(Owners') = Cardinality(Owners)
      <4>1. Owners' = Owners BY <2>4 DEF Retry, Owners, TryAgain, TypeOK
      <4> QED BY <4>1
    <3>2. Promise!Retry(c)
      BY <2>4, <3>1 DEF Retry, Promise!Retry, TryAgain, Promise!TryAgain
    <3> QED BY <3>2 DEF Promise!Next
  <2> QED BY <1>3, <2>1, <2>2, <2>3, <2>4, RequestShape
<1>4. CASE \A c \in Clients : ~RequestStep(c)
  BY <1>1, <1>2, <1>4, OtherShape DEF request, Promise!Next
<1> QED BY <1>3, <1>4

(* The account of the answers holds in every reachable state. *)
LEMMA AnswersAccounted == Spec => []AnswerInv
<1>1. Init => AnswerInv
  <2> SUFFICES ASSUME Init PROVE AnswerInv
    OBVIOUS
  <2>1. Written = {} /\ Owners = {} BY DEF Init, Written, Owners
  <2>2. Cardinality({}) = 0 BY FS_EmptySet
  <2>3. \A c \in Clients : ans[c] = "none" BY DEF Init
  <2>4. slot.state = "absent" /\ commits = 0 BY DEF Init, Absent
  <2> QED BY <2>1, <2>2, <2>3, <2>4 DEF AnswerInv
<1>2. IInv /\ IInv' /\ AnswerInv /\ [Next]_vars => AnswerInv'
  BY AnswerStep DEF IInv
<1> QED BY <1>1, <1>2, Inductive, PTL DEF Spec

(* What the clients of a key see is what WriteOnce promises: one effect    *)
(* per excuse and one more, one fresh response per effect, replays of the  *)
(* same body only, and no answer taken back.                               *)
THEOREM ImplementsWriteOnce == Spec => KeepsPromise
<1>1. Init => Promise!Init
  <2> SUFFICES ASSUME Init PROVE Promise!Init
    OBVIOUS
  <2>1. Owners = {} BY DEF Init, Owners
  <2>2. Cardinality(Owners) = 0 BY <2>1, FS_EmptySet
  <2> QED BY <2>2 DEF Init, Promise!Init
<1>2. IInv /\ AnswerInv /\ [Next]_vars => [Promise!Next]_(Promise!vars)
  BY PromiseStep
<1> QED BY <1>1, <1>2, Inductive, AnswersAccounted, PTL
        DEF Spec, KeepsPromise, Promise!Spec

(* No two clients are handed the response of one effect as their own: the  *)
(* fresh responses number at most the effects, and so, without an excuse,  *)
(* at most one; every other client gets a replay (guard.record).           *)
THEOREM FreshResponses ==
    Spec => [](Cardinality(Owners) <= commits /\ commits <= 1 + excuses)
<1>1. IInv /\ AnswerInv => Cardinality(Owners) <= commits /\ commits <= 1 + excuses
  <2> SUFFICES ASSUME IInv, AnswerInv
               PROVE  Cardinality(Owners) <= commits /\ commits <= 1 + excuses
    OBVIOUS
  <2>1. /\ Cardinality(Written) \in Nat /\ Cardinality(Open) \in Nat
        /\ Cardinality(Loose) \in Nat /\ commits \in Nat /\ excuses \in Nat
    BY Finite DEF IInv, TypeOK
  <2>2. Cardinality(Owners) \in Nat
    <3>1. Owners \subseteq Clients BY DEF Owners
    <3> QED BY <3>1, ClientsAssumption, CardSubset
  <2> QED BY <2>1, <2>2 DEF IInv, Budget, Free, AnswerInv
<1> QED BY <1>1, Inductive, AnswersAccounted, PTL

(* A response, a replay or a mismatch is the last word: no later step of   *)
(* the client's request, of another client or of a late call changes it.   *)
THEOREM FinalAnswersStand ==
    Spec => [][\A c \in Clients : ans[c] \in Final =>
                   ans'[c] = ans[c] /\ from'[c] = from[c]]_vars
<1>1. ASSUME IInv, AnswerInv, [Next]_vars, NEW c \in Clients, ans[c] \in Final
      PROVE  ans'[c] = ans[c] /\ from'[c] = from[c]
  <2>1. \A d \in Clients : \A a, b : Promise!Answer(d, a, b) =>
            ans'[c] = ans[c] /\ from'[c] = from[c]
    BY <1>1 DEF Promise!Answer, Final, IInv, TypeOK
  <2>2. ASSUME NEW d \in Clients, Promise!Retry(d)
        PROVE  ans'[c] = ans[c] /\ from'[c] = from[c]
    BY <1>1, <2>2 DEF Promise!Retry, Promise!TryAgain, Final, IInv, TypeOK
  <2>3. [Promise!Next]_(Promise!vars) BY <1>1, PromiseStep
  <2> QED BY <2>1, <2>2, <2>3
          DEF Promise!Next, Promise!Excuse, Promise!Effect, Promise!Own,
              Promise!Replay, Promise!Mismatch, Promise!Fail, Promise!vars
<1>2. IInv /\ AnswerInv /\ [Next]_vars =>
        [\A c \in Clients : ans[c] \in Final =>
            ans'[c] = ans[c] /\ from'[c] = from[c]]_vars
  BY <1>1
<1> QED BY <1>2, Inductive, AnswersAccounted, PTL DEF Spec

-----------------------------------------------------------------------------
(* Ownership of the claim *)

(* The claim's end: c ends its part, and may leave a call that ends it. *)
LEMMA OwnerLeaves ==
    ASSUME TypeOK, OwnerInv, excuses = 0, NEW c \in Clients, pc[c] \in Busy,
           pc' = [pc EXCEPT ![c] = "end"], UNCHANGED slot,
           NEW kind, MayLand(kind, c)
    PROVE  OwnerInv'
<1>1. /\ slot.state = "pending" /\ slot.owner = c /\ Ending = {} /\ slot.live
  BY DEF OwnerInv
<1>2. Ending' \subseteq {<<kind, c>>}
  BY <1>1 DEF MayLand, Ending
<1>3. \A d \in Clients : pc'[d] \notin Busy
  <2> SUFFICES ASSUME NEW d \in Clients, pc'[d] \in Busy PROVE FALSE
    OBVIOUS
  <2>1. d # c /\ pc'[d] = pc[d] BY DEF TypeOK, Busy
  <2> QED BY <1>1, <2>1 DEF OwnerInv
<1>4. \A m \in Ending' : slot.owner = m[2]
  BY <1>1, <1>2
<1> QED BY <1>1, <1>2, <1>3, <1>4 DEF OwnerInv

(* The claim is ended where it was made. *)
LEMMA OwnerEnds ==
    ASSUME TypeOK, OwnerInv, excuses = 0, NEW c \in Clients,
           slot.state = "pending", slot.owner = c,
           \A d \in Clients : pc'[d] \notin Busy, Ending' = {},
           slot' \in {Record(slot, c), Release(slot, c), slot}
    PROVE  OwnerInv'
<1>1. slot.live BY DEF OwnerInv
<1>2. /\ slot'.state # "absent" => slot'.live
      /\ slot'.state = "done" => slot'.by = slot'.owner
  <2>1. slot \in Slot BY DEF TypeOK
  <2>2. CASE slot' = Record(slot, c)
    <3>1. slot' = [slot EXCEPT !.state = "done", !.by = c, !.live = TRUE]
          \/ slot' = slot
      BY <2>2 DEF Record
    <3> QED BY <1>1, <2>1, <3>1 DEF Slot
  <2>3. CASE slot' = Release(slot, c)
    BY <1>1, <2>3 DEF Release, Absent
  <2> QED BY <1>1, <2>2, <2>3
<1> QED BY <1>2 DEF OwnerInv

(* Nobody acts under a claim: anybody may make one. *)
LEMMA OwnerClaims ==
    ASSUME TypeOK, OwnerInv, excuses = 0, NEW c \in Clients,
           slot' = Claim(slot, c), Ending' \subseteq Ending,
           \A d \in Clients : pc'[d] \in Busy =>
              pc[d] \in Busy \/ (d = c /\ Claimable(slot))
    PROVE  OwnerInv'
<1>1. CASE Claimable(slot)
  <2>1. slot.state = "absent" BY <1>1 DEF Claimable, OwnerInv
  <2>2. Ending = {} /\ \A d \in Clients : pc[d] \notin Busy
    BY <2>1 DEF OwnerInv
  <2>3. slot' = [state |-> "pending", hash |-> Hash[c], by |-> Nobody,
                 owner |-> c, live |-> TRUE]
    BY <1>1 DEF Claim
  <2> QED BY <2>2, <2>3 DEF OwnerInv
<1>2. CASE ~Claimable(slot)
  <2>1. slot' = slot BY <1>2 DEF Claim
  <2> QED BY <1>2, <2>1 DEF OwnerInv
<1> QED BY <1>1, <1>2

(* Every step keeps the owner. *)
LEMMA OwnerStep ==
    ASSUME TypeOK, OwnerInv, [Next]_vars PROVE OwnerInv'
<1> SUFFICES ASSUME excuses' = 0 PROVE OwnerInv'
  BY DEF OwnerInv
<1>t. /\ pc \in [Clients -> Phases] /\ excuses \in Nat /\ slot \in Slot
      /\ late \subseteq Calls
  BY DEF TypeOK
<1>0. excuses = 0 /\ ~Excused
  <2>1. ASSUME NEW c \in Clients, RequestStep(c)
        PROVE  excuses' \in {excuses, excuses + 1}
    BY <2>1, RequestShape, <1>t DEF Unseen, Answered, Grounds, NoExcuse,
         HandlerCommits, Retry
  <2>2. CASE \A c \in Clients : ~RequestStep(c)
    BY <2>2, <1>t DEF Next, LateLands, Expire, Purge, Excused, vars
  <2>3. ~Excused BY <1>t DEF Excused
  <2> QED BY <1>t, <2>1, <2>2, <2>3 DEF LateLands, Expire, Purge, Excused
<1>q. ASSUME NEW c \in Clients, NEW p \in Phases, pc' = [pc EXCEPT ![c] = p],
             p \in Busy => pc[c] \in Busy, UNCHANGED <<slot, late>>
      PROVE  OwnerInv'
  <2>1. \A d \in Clients : pc'[d] \in Busy => pc[d] \in Busy
    BY <1>q, <1>t
  <2>2. Ending' = Ending BY <1>q DEF Ending
  <2> QED BY <1>0, <1>q, <2>1, <2>2 DEF OwnerInv
<1>1. ASSUME NEW c \in Clients, RequestStep(c) PROVE OwnerInv'
  <2>a. ASSUME NEW a, Answer(c, a) PROVE pc' = [pc EXCEPT ![c] = "end"]
    BY <2>a DEF Answer
  <2>r. ASSUME AnswerFromRow(c) PROVE pc' = [pc EXCEPT ![c] = "end"]
    BY <2>r, <2>a DEF AnswerFromRow
  <2>p. "end" \in Phases \ Busy /\ {"claim", "poll", "lost", "start"} \subseteq Phases \ Busy
        /\ Busy \subseteq Phases
    BY DEF Phases, Busy
  <2>s. ASSUME UNCHANGED pc, UNCHANGED <<slot, late>> PROVE OwnerInv'
    <3>1. pc' = [pc EXCEPT ![c] = pc[c]] /\ pc[c] \in Phases BY <2>s, <1>t
    <3> QED BY <2>s, <3>1, <1>q
  <2>n. ASSUME NEW p \in Phases \ Busy, pc' = [pc EXCEPT ![c] = p],
               UNCHANGED <<slot, late>>
        PROVE  OwnerInv'
    BY <2>n, <1>q
  <2>e. ASSUME pc' = [pc EXCEPT ![c] = "end"], UNCHANGED <<slot, late>>
        PROVE  OwnerInv'
    BY <2>e, <2>p, <2>n
  <2>1. CASE LookupAnswered(c) \/ ReadExisting(c) \/ PollAnswered(c)
    <3>1. UNCHANGED <<slot, late>>
      BY <2>1 DEF LookupAnswered, ReadExisting, PollAnswered
    <3>2. \/ pc' = pc \/ pc' = [pc EXCEPT ![c] = "end"]
          \/ \E p \in {"claim", "poll"} : pc' = [pc EXCEPT ![c] = p]
      BY <2>1, <2>a, <2>r DEF LookupAnswered, ReadExisting, PollAnswered, Goto
    <3> QED BY <2>e, <2>n, <2>p, <2>s, <3>1, <3>2
  <2>2. CASE ClaimLost(c) \/ Retry(c) \/ PollFails(c)
    <3>1. UNCHANGED <<slot, late>>
          /\ \E p \in {"lost", "start", "end"} : pc' = [pc EXCEPT ![c] = p]
      BY <2>2 DEF ClaimLost, Retry, PollFails, Goto, Answer
    <3> QED BY <2>n, <2>p, <3>1
  <2>3. CASE LookupFails(c) \/ ClaimFails(c) \/ ReleaseResent(c)
    BY <1>0, <2>3 DEF LookupFails, ClaimFails, ReleaseResent
  <2>4. CASE ClaimWon(c)
    <3>1. slot' = Claim(slot, c) /\ Claimable(slot) /\ Ending' = Ending
          /\ pc' = [pc EXCEPT ![c] = "run"]
      BY <2>4 DEF ClaimWon, Goto, Ending
    <3>2. \A d \in Clients : pc'[d] \in Busy =>
              pc[d] \in Busy \/ (d = c /\ Claimable(slot))
      BY <3>1, <1>t
    <3> QED BY <1>0, <3>1, <3>2, OwnerClaims
  <2>5. CASE HandlerCommits(c) \/ HandlerReturns(c)
    <3>1. pc[c] \in Busy /\ UNCHANGED <<slot, late>>
          /\ \E p \in Busy : pc' = [pc EXCEPT ![c] = p]
      BY <2>5 DEF HandlerCommits, HandlerReturns, Goto, Busy
    <3> QED BY <1>q, <2>p, <3>1
  <2>6. CASE HandlerRaises(c)
    <3>1. pc[c] \in Busy /\ UNCHANGED <<slot, late>>
          /\ \E p \in {"release", "end"} : pc' = [pc EXCEPT ![c] = p]
      BY <1>0, <2>6, <2>a DEF HandlerRaises, Goto, Busy
    <3>2. "release" \in Phases BY DEF Phases
    <3> QED BY <1>q, <2>p, <3>1, <3>2
  <2>7. CASE ReleaseAnswered(c) \/ RecordAnswered(c)
    <3>1. /\ pc[c] \in Busy /\ pc' = [pc EXCEPT ![c] = "end"] /\ late' = late
          /\ slot' \in {Record(slot, c), Release(slot, c), slot}
      BY <2>7, <2>a DEF ReleaseAnswered, RecordAnswered, Busy
    <3>2. slot.state = "pending" /\ slot.owner = c /\ Ending = {}
      BY <1>0, <3>1 DEF OwnerInv
    <3>3. Ending' = {} BY <3>1, <3>2 DEF Ending
    <3>4. \A d \in Clients : pc'[d] \notin Busy
      <4> SUFFICES ASSUME NEW d \in Clients, pc'[d] \in Busy PROVE FALSE
        OBVIOUS
      <4>1. d # c /\ pc'[d] = pc[d] BY <1>t, <2>p, <3>1
      <4> QED BY <1>0, <3>2, <4>1 DEF OwnerInv
    <3> QED BY <1>0, <3>1, <3>2, <3>3, <3>4, OwnerEnds
  <2>8. CASE ReleaseFails(c) \/ RecordFails(c)
    <3>1. /\ pc[c] \in Busy /\ pc' = [pc EXCEPT ![c] = "end"] /\ UNCHANGED slot
          /\ MayLand("release", c) \/ MayLand("record", c)
      BY <2>8, <2>a DEF ReleaseFails, RecordFails, Busy
    <3> QED BY <1>0, <3>1, OwnerLeaves
  <2>9. CASE Cancel(c)
    <3>1. pc' = [pc EXCEPT ![c] = "end"] /\ UNCHANGED slot
      BY <2>9, <2>a DEF Cancel
    <3>2. CASE pc[c] \in Busy
      <4>1. \E kind \in {"effect", "record", "release"} : MayLand(kind, c)
        BY <2>9, <3>2 DEF Cancel, Busy, MayLand
      <4> QED BY <1>0, <3>1, <3>2, <4>1, OwnerLeaves
    <3>3. CASE pc[c] \notin Busy
      <4>1. late' \subseteq late \cup {<<"claim", c>>}
        BY <2>9, <3>3 DEF Cancel, Busy, MayLand
      <4>2. Ending' \subseteq Ending BY <4>1 DEF Ending
      <4>3. \A d \in Clients : pc'[d] \in Busy => pc[d] \in Busy
        BY <1>t, <2>p, <3>1
      <4> QED BY <1>0, <3>1, <4>2, <4>3 DEF OwnerInv
    <3> QED BY <3>2, <3>3
  <2> QED BY <1>1, <2>1, <2>2, <2>3, <2>4, <2>5, <2>6, <2>7, <2>8, <2>9
          DEF RequestStep
<1>2. ASSUME NEW m \in late, LateLands(m) PROVE OwnerInv'
  <2>1. m[2] \in Clients /\ pc' = pc /\ late' = late \ {m} /\ Ending' \subseteq Ending
    BY <1>2, <1>t DEF LateLands, request, Calls, Ending
  <2>2. CASE m[1] = "claim"
    <3>1. slot' = Claim(slot, m[2]) BY <1>2, <2>2 DEF LateLands
    <3>2. \A d \in Clients : pc'[d] \in Busy =>
              pc[d] \in Busy \/ (d = m[2] /\ Claimable(slot))
      BY <2>1
    <3> QED BY <1>0, <2>1, <3>1, <3>2, OwnerClaims
  <2>3. CASE m[1] \in {"record", "release"}
    <3>1. m \in Ending BY <2>3 DEF Ending
    <3>2. slot.state = "pending" /\ slot.owner = m[2]
          /\ \A d \in Clients : pc[d] \notin Busy
      BY <1>0, <3>1 DEF OwnerInv
    <3>3. Ending' = {}
      <4>1. \A n \in Ending : n = m BY <1>0, <3>1 DEF OwnerInv
      <4> QED BY <2>1, <4>1 DEF Ending
    <3>4. slot' \in {Record(slot, m[2]), Release(slot, m[2]), slot}
      BY <1>2, <2>3 DEF LateLands
    <3> QED BY <1>0, <2>1, <3>2, <3>3, <3>4, OwnerEnds
  <2>4. CASE m[1] \notin {"claim", "record", "release"}
    <3>1. slot' = slot BY <1>2, <2>4 DEF LateLands
    <3> QED BY <1>0, <2>1, <3>1 DEF OwnerInv
  <2> QED BY <2>2, <2>3, <2>4
<1>3. CASE Expire \/ Purge
  BY <1>0, <1>3 DEF Expire, Purge, OwnerInv
<1>4. CASE UNCHANGED vars
  BY <1>0, <1>4 DEF vars, OwnerInv, Ending
<1> QED BY <1>1, <1>2, <1>3, <1>4 DEF Next

(* Short of an excuse, a response is recorded over the claim it was        *)
(* produced under (idempotency_record), so the disagreement with its       *)
(* docstring takes an expiry, a failed call or a repeated release.         *)
THEOREM RecordsOwnClaim == Spec => []RecordOwnUnlessExcused
<1>1. Init => OwnerInv
  BY DEF Init, OwnerInv, Absent, Ending, Busy
<1>2. IInv /\ OwnerInv /\ [Next]_vars => OwnerInv'
  BY OwnerStep DEF IInv
<1>3. OwnerInv => RecordOwnUnlessExcused
  BY DEF OwnerInv, RecordOwnUnlessExcused
<1> QED BY <1>1, <1>2, <1>3, Inductive, PTL DEF Spec
=============================================================================

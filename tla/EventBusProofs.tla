---------------------------- MODULE EventBusProofs ----------------------------
(***************************************************************************)
(* Proofs about EventBus, for any processes, messages and deadlines.       *)
(* Three arguments carry the module.  An ack id is in one pair of hands: a *)
(* process, or the requests one cancelled batch left on its threads, so an *)
(* extension and a nack of the same delivery never race.  A batch being    *)
(* dispatched, none of whose extensions failed, has a lease that outlasts  *)
(* the keeper's next refresh.  And whatever is to be acknowledged, now or  *)
(* late, has been answered for.                                            *)
(***************************************************************************)
EXTENDS EventBus, TLAPS

-----------------------------------------------------------------------------
(* The inductive invariant *)

\* The keeper lives exactly while a batch is dispatched and drained, handlers
\* run only for a message of the batch, and outside a batch nothing is held.
ShapeInv ==
    \A i \in Instances :
        /\ keeper[i] # "off" <=> Working(i)
        /\ running[i] # NoMessage => pc[i] = "batch" /\ held[i][running[i]] # 0
        /\ pc[i] \in {"off", "pull", "backoff", "ended"} => \A m \in Messages : held[i][m] = 0
        /\ \A m \in Messages : held[i][m] = 0 => verdict[i][m] = "none"

\* Where the loop may stand at each stage of the process's life.
LifeInv ==
    \A i \in Instances :
        /\ pc[i] = "off" <=> life[i] \in {"down", "starting", "overtaken", "wedged"}
        /\ life[i] = "closing" => pc[i] = "ended"
        /\ life[i] = "up" /\ pc[i] = "ended" => failed[i]
        /\ quiet[i] => /\ running[i] = NoMessage
                       /\ life[i] \notin {"starting", "up", "grace", "cancelling"}

\* Ack ids never run ahead of the deliveries made, and each is in one pair of
\* hands.  A delivery that may still be extended has not been nacked.
HeldInv ==
    /\ \A m \in Messages : fate[m] = "unpublished" => attempt[m] = 0
    /\ \A i \in Instances, m \in Messages :
        /\ held[i][m] <= attempt[m]
        /\ held[i][m] # 0 /\ held[i][m] = attempt[m] => backoff[m] = {}
        /\ \A j \in Instances : i # j /\ held[i][m] # 0 => held[i][m] # held[j][m]

LateInv ==
    \A r \in late :
        /\ 0 < r.att /\ r.att <= attempt[r.msg]
        /\ \A i \in Instances : held[i][r.msg] # r.att
        /\ r.what = "extend" /\ r.att = attempt[r.msg] => backoff[r.msg] = {}
        /\ \A q \in late : q.msg = r.msg /\ q.att = r.att
                             => (q.what = "extend" <=> r.what = "extend")

\* What the current lease of a message has to outlast.
Due(i) == IF keeper[i] = "wait" THEN timer[i] + RpcBound ELSE timer[i]

\* A batch none of whose extensions failed is leased past its next refresh.
LeaseInv ==
    \A i \in Instances, m \in Messages :
        Working(i) /\ ~lapsed[i] /\ held[i][m] # 0 /\ fate[m] = "pending"
          => held[i][m] = attempt[m] /\ lease[m] > Due(i)

WorkerInv ==
    \A i, j \in Instances, m \in Messages :
        /\ i # j /\ Working(i) /\ Working(j)
        /\ held[i][m] # 0 /\ held[j][m] # 0
        => lapsed[i] \/ lapsed[j]

Answered == handled \cup replaced \cup Dropped

\* What is to be acknowledged has been answered for.
AnswerInv ==
    /\ \A i \in Instances, m \in Messages : verdict[i][m] = "ack" => m \in Answered
    /\ \A r \in late : r.what = "ack" => r.msg \in Answered

IInv ==
    /\ TypeOK /\ ShapeInv /\ LifeInv /\ HeldInv /\ LateInv
    /\ LeaseInv /\ WorkerInv /\ NackBackoffKept /\ AnswerInv

-----------------------------------------------------------------------------
(* Types *)

(* The delay a nack asks for is a number of ticks. *)
LEMMA DeadlineType ==
    ASSUME NEW n \in Nat, NEW v
    PROVE  DeadlineOf(v, n) \in Nat
<1>1. CASE n <= 1
  BY <1>1, BoundsAssumption DEF NackDelay, DeadlineOf
<1>2. CASE ~(n <= 1)
  <2>1. AtMost(n - 1, 16) \in 0..16
    BY <1>2 DEF AtMost
  <2>2. 2 ^ AtMost(n - 1, 16) \in Nat
    BY <2>1, DoublingAssumption, Zenon
  <2>3. \A a, b \in Nat : a * b \in Nat
    OBVIOUS
  <2>4. NackBase * 2 ^ AtMost(n - 1, 16) \in Nat
    BY <2>2, <2>3, BoundsAssumption, Zenon
  <2> QED BY <1>2, <2>4, BoundsAssumption DEF NackDelay, AtMost, DeadlineOf
<1> QED BY <1>1, <1>2

(* modify_ack_deadline leaves countdowns countdowns. *)
LEMMA SetDeadlineType ==
    ASSUME TypeOK, NEW S \in SUBSET Messages, NEW n \in [Messages -> Nat],
           NEW d \in [Messages -> Nat], NEW b \in [Messages -> SUBSET Nat],
           SetDeadline(S, n, d, b)
    PROVE  /\ lease' \in [Messages -> Nat] /\ backoff' \in [Messages -> SUBSET Nat]
           /\ UNCHANGED <<fate, kind, attempt>>
BY DEF SetDeadline, TypeOK

LEMMA ExtendType ==
    ASSUME TypeOK, NEW S \in SUBSET Messages, NEW n \in [Messages -> Nat], Extend(S, n)
    PROVE  /\ lease' \in [Messages -> Nat] /\ backoff' \in [Messages -> SUBSET Nat]
           /\ UNCHANGED <<fate, kind, attempt>>
<1> DEFINE d == [m \in Messages |-> LeaseExtension]
<1>1. d \in [Messages -> Nat] /\ backoff \in [Messages -> SUBSET Nat]
  BY LeaseAssumption DEF TypeOK
<1> QED BY <1>1, SetDeadlineType DEF Extend

LEMMA NackType ==
    ASSUME TypeOK, NEW S \in SUBSET Messages, NEW n \in [Messages -> Nat],
           NEW d \in [Messages -> Nat], Nack(S, n, d)
    PROVE  /\ lease' \in [Messages -> Nat] /\ backoff' \in [Messages -> SUBSET Nat]
           /\ UNCHANGED <<fate, kind, attempt>>
<1> DEFINE b == [m \in Messages |-> {d[m]}]
<1>1. b \in [Messages -> SUBSET Nat]
  OBVIOUS
<1> QED BY <1>1, SetDeadlineType DEF Nack

LEMMA AcknowledgeType ==
    ASSUME TypeOK, NEW S \in SUBSET Messages, NEW n \in [Messages -> Nat], Acknowledge(S, n)
    PROVE  /\ fate' \in [Messages -> {"unpublished", "pending", "acked", "dead"}]
           /\ lease' \in [Messages -> Nat]
           /\ UNCHANGED <<kind, attempt, backoff>>
BY DEF Acknowledge, TypeOK

LEMMA HandoutType ==
    ASSUME TypeOK, NEW S \in SUBSET Messages, Handout(S)
    PROVE  /\ attempt' \in [Messages -> Nat] /\ lease' \in [Messages -> Nat]
           /\ backoff' \in [Messages -> SUBSET Nat]
           /\ UNCHANGED <<fate, kind>>
BY LeaseAssumption DEF Handout, TypeOK

LEMMA ReleaseType ==
    ASSUME TypeOK, NEW i \in Instances, Release(i)
    PROVE  /\ held' \in [Instances -> [Messages -> Nat]]
           /\ verdict' \in [Instances -> [Messages -> Verdicts]]
           /\ running' \in [Instances -> Messages \cup {NoMessage}]
           /\ keeper' \in [Instances -> {"off", "wait", "rpc"}]
           /\ timer' \in [Instances -> Nat]
           /\ lapsed' \in [Instances -> BOOLEAN]
BY DEF Release, TypeOK, Verdicts

LEMMA AbandonType ==
    ASSUME TypeOK, NEW i \in Instances, Abandon(i)
    PROVE  /\ held' \in [Instances -> [Messages -> Nat]]
           /\ verdict' \in [Instances -> [Messages -> Verdicts]]
           /\ running' \in [Instances -> Messages \cup {NoMessage}]
           /\ keeper' \in [Instances -> {"off", "wait", "rpc"}]
           /\ timer' \in [Instances -> Nat]
           /\ lapsed' \in [Instances -> BOOLEAN]
           /\ late' \subseteq Request
<1>1. OnThreads(i) \subseteq Request
  <2>1. \A w \in Requests, S \in SUBSET Messages : Sending(i, w, S) \subseteq Request
    BY DEF Sending, Request, TypeOK
  <2>2. Held(i) \subseteq Messages /\ \A v : Judged(i, v) \subseteq Messages
    BY DEF Held, Judged
  <2> QED BY <2>1, <2>2 DEF OnThreads, Requests
<1> QED BY <1>1, ReleaseType DEF Abandon, TypeOK

(* One step keeps every variable in its type. *)
LEMMA TypeStep ==
    ASSUME TypeOK, [Next]_vars
    PROVE  TypeOK'
<1> USE DEF TypeOK
<1>1. ASSUME NEW m \in Messages, Publish(m) \/ DeadLetter(m) PROVE TypeOK'
  <2>1. CASE Publish(m)
    <3>1. kind' \in [Messages -> Kinds]
      BY <2>1, MessagesAssumption DEF Publish
    <3> QED BY <2>1, <3>1 DEF Publish, batch, history
  <2>2. CASE DeadLetter(m)
    BY <2>2 DEF DeadLetter, batch, history
  <2> QED BY <1>1, <2>1, <2>2
<1>2. ASSUME NEW m \in Messages, PullLost(m) PROVE TypeOK'
  BY <1>2, HandoutType DEF PullLost, batch, history
<1>3. ASSUME NEW r \in late, LateRequest(r) PROVE TypeOK'
  <2>0. r.msg \in Messages /\ r.att \in Nat /\ r.what \in Requests
    BY DEF Request
  <2> DEFINE n == [m \in Messages |-> r.att]
             d == [m \in Messages |-> DeadlineOf(r.what, r.att)]
  <2>1. n \in [Messages -> Nat] /\ d \in [Messages -> Nat] /\ {r.msg} \in SUBSET Messages
    BY <2>0, DeadlineType
  <2>2. /\ fate' \in [Messages -> {"unpublished", "pending", "acked", "dead"}]
        /\ lease' \in [Messages -> Nat] /\ backoff' \in [Messages -> SUBSET Nat]
        /\ UNCHANGED <<kind, attempt>>
    <3>1. CASE Extend({r.msg}, n)
      BY <3>1, <2>1, ExtendType
    <3>2. CASE Acknowledge({r.msg}, n)
      BY <3>2, <2>1, AcknowledgeType
    <3>3. CASE Nack({r.msg}, n, d)
      BY <3>3, <2>1, NackType
    <3>4. CASE UNCHANGED broker
      BY <3>4 DEF broker
    <3> QED BY <1>3, <3>1, <3>2, <3>3, <3>4 DEF LateRequest
  <2> QED BY <1>3, <2>2 DEF LateRequest, batch, history
<1>4. ASSUME Tick PROVE TypeOK'
  BY <1>4 DEF Tick, Sooner, history
<1>5. ASSUME NEW i \in Instances, Pull(i) PROVE TypeOK'
  <2>1. PICK S \in SUBSET Messages :
          /\ Handout(S)
          /\ held' = [held EXCEPT ![i] = [m \in Messages |-> IF m \in S THEN attempt[m] + 1 ELSE 0]]
    BY <1>5 DEF Pull
  <2>2. held' \in [Instances -> [Messages -> Nat]]
    BY <2>1
  <2> QED BY <1>5, <2>1, <2>2, HandoutType, LeaseAssumption DEF Pull, SpawnKeeper, Pcs, history
<1>6. ASSUME NEW i \in Instances,
             PullEmpty(i) \/ PullDenied(i) \/ BatchDispatched(i) \/ BackoffOver(i)
      PROVE  TypeOK'
  BY <1>6 DEF PullEmpty, PullDenied, BatchDispatched, BackoffOver, LoopHead, Pcs,
              broker, batch, history
<1>7. ASSUME NEW i \in Instances, NEW m \in Messages,
             HandBack(i, m) \/ Drop(i, m) \/ Dispatch(i, m) \/ HandlersFail(i, m)
               \/ HandlersSucceed(i, m)
      PROVE  TypeOK'
  <2>1. \A v \in Verdicts : Judge(i, m, v) =>
           /\ verdict' \in [Instances -> [Messages -> Verdicts]]
           /\ running' \in [Instances -> Messages \cup {NoMessage}]
           /\ UNCHANGED <<held, keeper, timer, lapsed>>
    BY DEF Judge
  <2>2. CASE HandBack(i, m)
    BY <2>1, <2>2 DEF HandBack, Verdicts, broker, history
  <2>3. CASE Drop(i, m)
    BY <2>1, <2>3 DEF Drop, Verdicts, broker, history
  <2>4. CASE Dispatch(i, m)
    BY <2>4 DEF Dispatch, broker, history
  <2>5. CASE HandlersFail(i, m)
    BY <2>1, <2>5 DEF HandlersFail, Verdicts, broker, history
  <2>6. CASE HandlersSucceed(i, m)
    BY <2>1, <2>6 DEF HandlersSucceed, Verdicts, broker
  <2> QED BY <1>7, <2>2, <2>3, <2>4, <2>5, <2>6
<1>8. ASSUME NEW i \in Instances, NEW m \in Messages, NEW r \in Messages,
             HandlersReplace(i, m, r)
      PROVE  TypeOK'
  BY <1>8 DEF HandlersReplace, Judge, Verdicts, Kinds
<1>9. ASSUME NEW i \in Instances, NEW m \in Messages, HandlersCancelled(i, m) PROVE TypeOK'
  BY <1>9, AbandonType DEF HandlersCancelled, Pcs, broker, history
<1>10. ASSUME NEW i \in Instances, KeeperDrained(i) PROVE TypeOK'
  BY <1>10 DEF KeeperDrained, Pcs, broker, history
<1>11. ASSUME NEW i \in Instances, SendAcks(i) PROVE TypeOK'
  <2>1. held[i] \in [Messages -> Nat] /\ Judged(i, "ack") \in SUBSET Messages
    BY DEF Judged, Held
  <2> QED BY <1>11, <2>1, AcknowledgeType DEF SendAcks, Pcs, batch, history
<1>12. ASSUME NEW i \in Instances, SendNacks(i) PROVE TypeOK'
  <2> DEFINE d == [m \in Messages |-> DeadlineOf(verdict[i][m], held[i][m])]
  <2>1. held[i] \in [Messages -> Nat] /\ d \in [Messages -> Nat]
    BY DeadlineType
  <2>2. PICK S \in SUBSET Messages :
          /\ Nack(S, held[i], d)
          /\ held' = [held EXCEPT ![i] = [m \in Messages |-> IF m \in S THEN 0 ELSE held[i][m]]]
          /\ verdict' = [verdict EXCEPT ![i] =
                           [m \in Messages |-> IF m \in S THEN "none" ELSE verdict[i][m]]]
    BY <1>12 DEF SendNacks, ToNack, Judged, Held
  <2>3. held' \in [Instances -> [Messages -> Nat]]
        /\ verdict' \in [Instances -> [Messages -> Verdicts]]
    BY <2>1, <2>2 DEF Verdicts
  <2> QED BY <1>12, <2>1, <2>2, <2>3, NackType DEF SendNacks, history
<1>13. ASSUME NEW i \in Instances, BatchSettled(i) PROVE TypeOK'
  BY <1>13, ReleaseType DEF BatchSettled, LoopHead, Pcs, broker, history
<1>14. ASSUME NEW i \in Instances, SettleError(i) \/ SettleDenied(i) PROVE TypeOK'
  BY <1>14, AbandonType DEF SettleError, SettleDenied, LoopHead, Pcs, broker, history
<1>15. ASSUME NEW i \in Instances, RefreshSent(i) \/ RefreshFailed(i) PROVE TypeOK'
  <2>1. CASE RefreshSent(i)
    BY <2>1, BoundsAssumption DEF RefreshSent, broker, history
  <2>2. CASE RefreshFailed(i)
    BY <2>2, LeaseAssumption DEF RefreshFailed, NextInterval, broker, history
  <2> QED BY <1>15, <2>1, <2>2
<1>16. ASSUME NEW i \in Instances, RefreshLanded(i) PROVE TypeOK'
  <2>1. held[i] \in [Messages -> Nat] /\ Held(i) \in SUBSET Messages
    BY DEF Held
  <2> QED BY <1>16, <2>1, ExtendType, LeaseAssumption DEF RefreshLanded, NextInterval, history
<1>17. ASSUME NEW i \in Instances,
              Start(i) \/ StopOvertakes(i) \/ StartResumes(i) \/ StartAborts(i)
                \/ StopConsuming(i) \/ DrainDone(i) \/ GraceOver(i) \/ StopDone(i)
       PROVE  TypeOK'
  <2> USE DEF SetLife, Lives, Pcs, broker, batch, history
  <2>1. CASE Start(i)
    BY <2>1, BoundsAssumption DEF Start
  <2>2. CASE StopOvertakes(i)
    BY <2>2 DEF StopOvertakes
  <2>3. CASE StartResumes(i)
    BY <2>3 DEF StartResumes
  <2>4. CASE StartAborts(i)
    BY <2>4 DEF StartAborts
  <2>5. CASE StopConsuming(i)
    BY <2>5 DEF StopConsuming, Busy
  <2>6. CASE DrainDone(i)
    BY <2>6 DEF DrainDone
  <2>7. CASE GraceOver(i)
    BY <2>7 DEF GraceOver
  <2>8. CASE StopDone(i)
    BY <2>8 DEF StopDone
  <2> QED BY <1>17, <2>1, <2>2, <2>3, <2>4, <2>5, <2>6, <2>7, <2>8
<1>18. ASSUME NEW i \in Instances,
              Unwound(i) \/ Close(i) \/ StopInterrupted(i) \/ Crash(i)
       PROVE  TypeOK'
  BY <1>18, AbandonType
     DEF Unwound, Close, StopInterrupted, Crash, SetLife, Lives, Pcs, broker, history
<1>19. CASE UNCHANGED vars
  BY <1>19 DEF vars, broker, batch, history
<1> HIDE DEF TypeOK
<1>20. ASSUME NEW m \in Messages, Broker(m) PROVE TypeOK'
  BY <1>20, <1>1, <1>2 DEF Broker
<1>21. ASSUME NEW i \in Instances, LoopStep(i) PROVE TypeOK'
  BY <1>21, <1>5, <1>6, <1>7, <1>8, <1>10, <1>11, <1>12, <1>13 DEF LoopStep
<1>22. ASSUME NEW i \in Instances, LoopFault(i) PROVE TypeOK'
  BY <1>22, <1>6, <1>9, <1>14 DEF LoopFault
<1>23. ASSUME NEW i \in Instances, Keeper(i) PROVE TypeOK'
  BY <1>23, <1>15, <1>16 DEF Keeper
<1>24. ASSUME NEW i \in Instances, Lifecycle(i) PROVE TypeOK'
  BY <1>24, <1>17, <1>18 DEF Lifecycle
<1> QED
  BY <1>3, <1>4, <1>19, <1>20, <1>21, <1>22, <1>23, <1>24 DEF Next

(* Every variable keeps its type in every behaviour of the bus. *)
THEOREM TypeCorrect == Spec => []TypeOK
<1>1. Init => TypeOK
  BY BoundsAssumption DEF Init, TypeOK, Kinds, Lives, Pcs, Verdicts
<1>2. TypeOK /\ [Next]_vars => TypeOK'
  BY TypeStep
<1> QED BY <1>1, <1>2, PTL DEF Spec

-----------------------------------------------------------------------------
(* The shape of a batch and of a process's life *)

(* One step keeps batches in shape. *)
LEMMA ShapeStep ==
    ASSUME TypeOK, TypeOK', ShapeInv, LifeInv, [Next]_vars
    PROVE  ShapeInv'
<1>1. ASSUME NEW m \in Messages, Publish(m) PROVE ShapeInv'
  BY <1>1 DEF Publish, ShapeInv, Working, batch
<1>2. ASSUME NEW m \in Messages, DeadLetter(m) PROVE ShapeInv'
  BY <1>2 DEF DeadLetter, ShapeInv, Working, batch
<1>3. ASSUME NEW m \in Messages, PullLost(m) PROVE ShapeInv'
  BY <1>3 DEF PullLost, ShapeInv, Working, batch
<1>4. ASSUME NEW r \in late, LateRequest(r) PROVE ShapeInv'
  BY <1>4 DEF LateRequest, ShapeInv, Working, batch
<1>5. ASSUME Tick PROVE ShapeInv'
  BY <1>5 DEF Tick, ShapeInv, Working, batch
<1>6. ASSUME NEW i \in Instances, Pull(i) PROVE ShapeInv'
  BY <1>6, MessagesAssumption DEF Pull, SpawnKeeper, At, ShapeInv, LifeInv, TypeOK, Working,
     batch
<1>7. ASSUME NEW i \in Instances, PullEmpty(i) PROVE ShapeInv'
  BY <1>7, MessagesAssumption DEF PullEmpty, At, LoopHead, ShapeInv, LifeInv, TypeOK,
     Working, batch
<1>8. ASSUME NEW i \in Instances, NEW m \in Messages, HandBack(i, m) PROVE ShapeInv'
  BY <1>8, MessagesAssumption DEF HandBack, Judge, NextMessage, At, Judged, Held, batch,
     ShapeInv, LifeInv, TypeOK, Working, batch
<1>9. ASSUME NEW i \in Instances, NEW m \in Messages, Drop(i, m) PROVE ShapeInv'
  BY <1>9, MessagesAssumption DEF Drop, Judge, NextMessage, At, Judged, Held, ShapeInv,
     LifeInv, TypeOK, Working, batch
<1>10. ASSUME NEW i \in Instances, NEW m \in Messages, Dispatch(i, m) PROVE ShapeInv'
  BY <1>10, MessagesAssumption DEF Dispatch, NextMessage, At, Judged, Held, ShapeInv,
     LifeInv, TypeOK, Working, batch
<1>11. ASSUME NEW i \in Instances, NEW m \in Messages, HandlersSucceed(i, m) PROVE ShapeInv'
  BY <1>11, MessagesAssumption DEF HandlersSucceed, Judge, Awaiting, ShapeInv, LifeInv,
     TypeOK, Working, batch
<1>12. ASSUME NEW i \in Instances, NEW m \in Messages, HandlersFail(i, m) PROVE ShapeInv'
  BY <1>12, MessagesAssumption DEF HandlersFail, Judge, Awaiting, ShapeInv, LifeInv, TypeOK,
     Working, batch
<1>13. ASSUME NEW i \in Instances, NEW m \in Messages, NEW r \in Messages, HandlersReplace(i, m, r)
      PROVE  ShapeInv'
  BY <1>13, MessagesAssumption DEF HandlersReplace, Judge, Awaiting, ShapeInv, LifeInv,
     TypeOK, Working, batch
<1>14. ASSUME NEW i \in Instances, BatchDispatched(i) PROVE ShapeInv'
  BY <1>14, MessagesAssumption DEF BatchDispatched, At, ShapeInv, LifeInv, TypeOK, Working,
     batch
<1>15. ASSUME NEW i \in Instances, KeeperDrained(i) PROVE ShapeInv'
  BY <1>15, MessagesAssumption DEF KeeperDrained, At, ShapeInv, LifeInv, TypeOK, Working,
     batch
<1>16. ASSUME NEW i \in Instances, SendAcks(i) PROVE ShapeInv'
  BY <1>16, MessagesAssumption DEF SendAcks, At, ShapeInv, LifeInv, TypeOK, Working, batch
<1>17. ASSUME NEW i \in Instances, SendNacks(i) PROVE ShapeInv'
  BY <1>17, MessagesAssumption DEF SendNacks, At, ToNack, Judged, Held, ShapeInv, LifeInv,
     TypeOK, Working, batch
<1>18. ASSUME NEW i \in Instances, BatchSettled(i) PROVE ShapeInv'
  BY <1>18, MessagesAssumption DEF BatchSettled, Release, LoopHead, ShapeInv, LifeInv,
     TypeOK, Working, batch
<1>19. ASSUME NEW i \in Instances, BackoffOver(i) PROVE ShapeInv'
  BY <1>19, MessagesAssumption DEF BackoffOver, At, LoopHead, ShapeInv, LifeInv, TypeOK,
     Working, batch
<1>20. ASSUME NEW i \in Instances, PullDenied(i) PROVE ShapeInv'
  BY <1>20, MessagesAssumption DEF PullDenied, At, ShapeInv, LifeInv, TypeOK, Working, batch
<1>21. ASSUME NEW i \in Instances, SettleError(i) PROVE ShapeInv'
  BY <1>21, MessagesAssumption DEF SettleError, Abandon, Release, LoopHead, ShapeInv,
     LifeInv, TypeOK, Working, batch
<1>22. ASSUME NEW i \in Instances, SettleDenied(i) PROVE ShapeInv'
  BY <1>22, MessagesAssumption DEF SettleDenied, Abandon, Release, ShapeInv, LifeInv,
     TypeOK, Working, batch
<1>23. ASSUME NEW i \in Instances, NEW m \in Messages, HandlersCancelled(i, m)
      PROVE  ShapeInv'
  BY <1>23, MessagesAssumption DEF HandlersCancelled, Abandon, Release, ShapeInv, LifeInv,
     TypeOK, Working, batch
<1>24. ASSUME NEW i \in Instances, RefreshSent(i) PROVE ShapeInv'
  BY <1>24, MessagesAssumption DEF RefreshSent, ShapeInv, LifeInv, TypeOK, Working, batch
<1>25. ASSUME NEW i \in Instances, RefreshLanded(i) PROVE ShapeInv'
  BY <1>25, MessagesAssumption DEF RefreshLanded, NextInterval, ShapeInv, LifeInv, TypeOK,
     Working, batch
<1>26. ASSUME NEW i \in Instances, RefreshFailed(i) PROVE ShapeInv'
  BY <1>26, MessagesAssumption DEF RefreshFailed, NextInterval, ShapeInv, LifeInv, TypeOK,
     Working, batch
<1>27. ASSUME NEW i \in Instances, Start(i) PROVE ShapeInv'
  BY <1>27, MessagesAssumption DEF Start, ShapeInv, LifeInv, TypeOK, Working, batch
<1>28. ASSUME NEW i \in Instances, StopOvertakes(i) PROVE ShapeInv'
  BY <1>28, MessagesAssumption DEF StopOvertakes, ShapeInv, LifeInv, TypeOK, Working, batch
<1>29. ASSUME NEW i \in Instances, StartResumes(i) PROVE ShapeInv'
  BY <1>29, MessagesAssumption DEF StartResumes, ShapeInv, LifeInv, TypeOK, Working, batch
<1>30. ASSUME NEW i \in Instances, StartAborts(i) PROVE ShapeInv'
  BY <1>30, MessagesAssumption DEF StartAborts, ShapeInv, LifeInv, TypeOK, Working, batch
<1>31. ASSUME NEW i \in Instances, StopConsuming(i) PROVE ShapeInv'
  BY <1>31, MessagesAssumption DEF StopConsuming, ShapeInv, LifeInv, TypeOK, Working, batch
<1>32. ASSUME NEW i \in Instances, DrainDone(i) PROVE ShapeInv'
  BY <1>32, MessagesAssumption DEF DrainDone, ShapeInv, LifeInv, TypeOK, Working, batch
<1>33. ASSUME NEW i \in Instances, GraceOver(i) PROVE ShapeInv'
  BY <1>33, MessagesAssumption DEF GraceOver, ShapeInv, LifeInv, TypeOK, Working, batch
<1>34. ASSUME NEW i \in Instances, Unwound(i) PROVE ShapeInv'
  BY <1>34, MessagesAssumption DEF Unwound, Abandon, Release, ShapeInv, LifeInv, TypeOK,
     Working, batch
<1>35. ASSUME NEW i \in Instances, Close(i) PROVE ShapeInv'
  BY <1>35, MessagesAssumption DEF Close, Abandon, Release, ShapeInv, LifeInv, TypeOK,
     Working, batch
<1>36. ASSUME NEW i \in Instances, StopDone(i) PROVE ShapeInv'
  BY <1>36, MessagesAssumption DEF StopDone, ShapeInv, LifeInv, TypeOK, Working, batch
<1>37. ASSUME NEW i \in Instances, StopInterrupted(i) PROVE ShapeInv'
  BY <1>37, MessagesAssumption DEF StopInterrupted, Abandon, Release, ShapeInv, LifeInv,
     TypeOK, Working, batch
<1>38. ASSUME NEW i \in Instances, Crash(i) PROVE ShapeInv'
  BY <1>38, MessagesAssumption DEF Crash, Abandon, Release, ShapeInv, LifeInv, TypeOK,
     Working, batch
<1>39. CASE UNCHANGED vars
  BY <1>39 DEF vars, batch, ShapeInv, Working
<1>40. ASSUME NEW m \in Messages, Broker(m) PROVE ShapeInv'
  BY <1>40, <1>1, <1>2, <1>3 DEF Broker
<1>41. ASSUME NEW i \in Instances, LoopStep(i) PROVE ShapeInv'
  BY <1>41, <1>6, <1>7, <1>8, <1>9, <1>10, <1>11, <1>12, <1>13, <1>14, <1>15, <1>16, <1>17,
     <1>18, <1>19 DEF LoopStep
<1>42. ASSUME NEW i \in Instances, LoopFault(i) PROVE ShapeInv'
  BY <1>42, <1>20, <1>21, <1>22, <1>23 DEF LoopFault
<1>43. ASSUME NEW i \in Instances, Keeper(i) PROVE ShapeInv'
  BY <1>43, <1>24, <1>25, <1>26 DEF Keeper
<1>44. ASSUME NEW i \in Instances, Lifecycle(i) PROVE ShapeInv'
  BY <1>44, <1>27, <1>28, <1>29, <1>30, <1>31, <1>32, <1>33, <1>34, <1>35, <1>36, <1>37,
     <1>38 DEF Lifecycle
<1> QED
  BY <1>4, <1>5, <1>39, <1>40, <1>41, <1>42, <1>43, <1>44 DEF Next

(* One step keeps the loop where the process's life allows. *)
LEMMA LifeStep ==
    ASSUME TypeOK, TypeOK', ShapeInv, LifeInv, [Next]_vars
    PROVE  LifeInv'
<1>1. ASSUME NEW m \in Messages, Publish(m) PROVE LifeInv'
  BY <1>1 DEF Publish, LifeInv, batch
<1>2. ASSUME NEW m \in Messages, DeadLetter(m) PROVE LifeInv'
  BY <1>2 DEF DeadLetter, LifeInv, batch
<1>3. ASSUME NEW m \in Messages, PullLost(m) PROVE LifeInv'
  BY <1>3 DEF PullLost, LifeInv, batch
<1>4. ASSUME NEW r \in late, LateRequest(r) PROVE LifeInv'
  BY <1>4 DEF LateRequest, LifeInv, batch
<1>5. ASSUME Tick PROVE LifeInv'
  BY <1>5 DEF Tick, LifeInv, batch
<1>6. ASSUME NEW i \in Instances, Pull(i) PROVE LifeInv'
  BY <1>6, MessagesAssumption DEF Pull, At, LifeInv, ShapeInv, TypeOK, batch
<1>7. ASSUME NEW i \in Instances, PullEmpty(i) PROVE LifeInv'
  BY <1>7, MessagesAssumption DEF PullEmpty, At, LoopHead, Stopping, LifeInv, ShapeInv,
     TypeOK, batch
<1>8. ASSUME NEW i \in Instances, NEW m \in Messages, HandBack(i, m) PROVE LifeInv'
  BY <1>8, MessagesAssumption DEF HandBack, Judge, NextMessage, At, LifeInv, ShapeInv,
     TypeOK, batch
<1>9. ASSUME NEW i \in Instances, NEW m \in Messages, Drop(i, m) PROVE LifeInv'
  BY <1>9, MessagesAssumption DEF Drop, Judge, NextMessage, At, LifeInv, ShapeInv, TypeOK,
     batch
<1>10. ASSUME NEW i \in Instances, NEW m \in Messages, Dispatch(i, m) PROVE LifeInv'
  BY <1>10, MessagesAssumption DEF Dispatch, Stopping, LifeInv, ShapeInv, TypeOK, batch
<1>11. ASSUME NEW i \in Instances, NEW m \in Messages, HandlersSucceed(i, m) PROVE LifeInv'
  BY <1>11, MessagesAssumption DEF HandlersSucceed, Judge, LifeInv, ShapeInv, TypeOK, batch
<1>12. ASSUME NEW i \in Instances, NEW m \in Messages, HandlersFail(i, m) PROVE LifeInv'
  BY <1>12, MessagesAssumption DEF HandlersFail, Judge, LifeInv, ShapeInv, TypeOK, batch
<1>13. ASSUME NEW i \in Instances, NEW m \in Messages, NEW r \in Messages, HandlersReplace(i, m, r)
      PROVE  LifeInv'
  BY <1>13, MessagesAssumption DEF HandlersReplace, Judge, LifeInv, ShapeInv, TypeOK, batch
<1>14. ASSUME NEW i \in Instances, BatchDispatched(i) PROVE LifeInv'
  BY <1>14, MessagesAssumption DEF BatchDispatched, At, LifeInv, ShapeInv, TypeOK, batch
<1>15. ASSUME NEW i \in Instances, KeeperDrained(i) PROVE LifeInv'
  BY <1>15, MessagesAssumption DEF KeeperDrained, At, LifeInv, ShapeInv, TypeOK, batch
<1>16. ASSUME NEW i \in Instances, SendAcks(i) PROVE LifeInv'
  BY <1>16, MessagesAssumption DEF SendAcks, At, LifeInv, ShapeInv, TypeOK, batch
<1>17. ASSUME NEW i \in Instances, SendNacks(i) PROVE LifeInv'
  BY <1>17, MessagesAssumption DEF SendNacks, LifeInv, ShapeInv, TypeOK, batch
<1>18. ASSUME NEW i \in Instances, BatchSettled(i) PROVE LifeInv'
  BY <1>18, MessagesAssumption DEF BatchSettled, At, Release, LoopHead, Stopping, LifeInv,
     ShapeInv, TypeOK, batch
<1>19. ASSUME NEW i \in Instances, BackoffOver(i) PROVE LifeInv'
  BY <1>19, MessagesAssumption DEF BackoffOver, At, LoopHead, Stopping, LifeInv, ShapeInv,
     TypeOK, batch
<1>20. ASSUME NEW i \in Instances, PullDenied(i) PROVE LifeInv'
  BY <1>20, MessagesAssumption DEF PullDenied, At, LifeInv, ShapeInv, TypeOK, batch
<1>21. ASSUME NEW i \in Instances, SettleError(i) PROVE LifeInv'
  BY <1>21, MessagesAssumption DEF SettleError, Requesting, At, Abandon, Release, LoopHead,
     Stopping, LifeInv, ShapeInv, TypeOK, batch
<1>22. ASSUME NEW i \in Instances, SettleDenied(i) PROVE LifeInv'
  BY <1>22, MessagesAssumption DEF SettleDenied, Requesting, At, Abandon, Release, LifeInv,
     ShapeInv, TypeOK, batch
<1>23. ASSUME NEW i \in Instances, NEW m \in Messages, HandlersCancelled(i, m)
      PROVE  LifeInv'
  <2>1. pc[i] = "batch"
    BY <1>23, MessagesAssumption DEF HandlersCancelled, Awaiting, ShapeInv
  <2>2. life[i] = "up" => failed'[i] = TRUE
    BY <1>23 DEF HandlersCancelled, Stopping, TypeOK
  <2>3. \A j \in Instances : j # i => failed'[j] = failed[j]
    BY <1>23 DEF HandlersCancelled, TypeOK
  <2>4. /\ pc' = [pc EXCEPT ![i] = "ended"] /\ UNCHANGED <<life, quiet>>
        /\ running' = [running EXCEPT ![i] = NoMessage]
    BY <1>23 DEF HandlersCancelled, Abandon, Release
  <2> QED BY <2>1, <2>2, <2>3, <2>4 DEF LifeInv, TypeOK
<1>24. ASSUME NEW i \in Instances, RefreshSent(i) PROVE LifeInv'
  BY <1>24, MessagesAssumption DEF RefreshSent, LifeInv, ShapeInv, TypeOK, batch
<1>25. ASSUME NEW i \in Instances, RefreshLanded(i) PROVE LifeInv'
  BY <1>25, MessagesAssumption DEF RefreshLanded, NextInterval, LifeInv, ShapeInv, TypeOK,
     batch
<1>26. ASSUME NEW i \in Instances, RefreshFailed(i) PROVE LifeInv'
  BY <1>26, MessagesAssumption DEF RefreshFailed, NextInterval, LifeInv, ShapeInv, TypeOK,
     batch
<1>27. ASSUME NEW i \in Instances, Start(i) PROVE LifeInv'
  BY <1>27, MessagesAssumption DEF Start, SetLife, LifeInv, ShapeInv, TypeOK, batch
<1>28. ASSUME NEW i \in Instances, StopOvertakes(i) PROVE LifeInv'
  BY <1>28, MessagesAssumption DEF StopOvertakes, SetLife, LifeInv, ShapeInv, TypeOK, batch
<1>29. ASSUME NEW i \in Instances, StartResumes(i) PROVE LifeInv'
  BY <1>29, MessagesAssumption DEF StartResumes, SetLife, LifeInv, ShapeInv, TypeOK, batch
<1>30. ASSUME NEW i \in Instances, StartAborts(i) PROVE LifeInv'
  BY <1>30, MessagesAssumption DEF StartAborts, SetLife, LifeInv, ShapeInv, TypeOK, batch
<1>31. ASSUME NEW i \in Instances, StopConsuming(i) PROVE LifeInv'
  BY <1>31, MessagesAssumption DEF StopConsuming, SetLife, Busy, LifeInv, ShapeInv, TypeOK,
     batch
<1>32. ASSUME NEW i \in Instances, DrainDone(i) PROVE LifeInv'
  BY <1>32, MessagesAssumption DEF DrainDone, SetLife, Busy, LifeInv, ShapeInv, TypeOK, batch
<1>33. ASSUME NEW i \in Instances, GraceOver(i) PROVE LifeInv'
  BY <1>33, MessagesAssumption DEF GraceOver, SetLife, Busy, LifeInv, ShapeInv, TypeOK, batch
<1>34. ASSUME NEW i \in Instances, Unwound(i) PROVE LifeInv'
  BY <1>34, MessagesAssumption DEF Unwound, SetLife, Abandon, Release, LifeInv, ShapeInv,
     TypeOK, batch
<1>35. ASSUME NEW i \in Instances, Close(i) PROVE LifeInv'
  BY <1>35, MessagesAssumption DEF Close, SetLife, Abandon, Release, LifeInv, ShapeInv,
     TypeOK, batch
<1>36. ASSUME NEW i \in Instances, StopDone(i) PROVE LifeInv'
  BY <1>36, MessagesAssumption DEF StopDone, SetLife, LifeInv, ShapeInv, TypeOK, batch
<1>37. ASSUME NEW i \in Instances, StopInterrupted(i) PROVE LifeInv'
  BY <1>37, MessagesAssumption DEF StopInterrupted, SetLife, Abandon, Release, LifeInv,
     ShapeInv, TypeOK, batch
<1>38. ASSUME NEW i \in Instances, Crash(i) PROVE LifeInv'
  BY <1>38, MessagesAssumption DEF Crash, SetLife, Abandon, Release, LifeInv, ShapeInv,
     TypeOK, batch
<1>39. CASE UNCHANGED vars
  BY <1>39 DEF vars, batch, LifeInv
<1>40. ASSUME NEW m \in Messages, Broker(m) PROVE LifeInv'
  BY <1>40, <1>1, <1>2, <1>3 DEF Broker
<1>41. ASSUME NEW i \in Instances, LoopStep(i) PROVE LifeInv'
  BY <1>41, <1>6, <1>7, <1>8, <1>9, <1>10, <1>11, <1>12, <1>13, <1>14, <1>15, <1>16, <1>17,
     <1>18, <1>19 DEF LoopStep
<1>42. ASSUME NEW i \in Instances, LoopFault(i) PROVE LifeInv'
  BY <1>42, <1>20, <1>21, <1>22, <1>23 DEF LoopFault
<1>43. ASSUME NEW i \in Instances, Keeper(i) PROVE LifeInv'
  BY <1>43, <1>24, <1>25, <1>26 DEF Keeper
<1>44. ASSUME NEW i \in Instances, Lifecycle(i) PROVE LifeInv'
  BY <1>44, <1>27, <1>28, <1>29, <1>30, <1>31, <1>32, <1>33, <1>34, <1>35, <1>36, <1>37,
     <1>38 DEF Lifecycle
<1> QED
  BY <1>4, <1>5, <1>39, <1>40, <1>41, <1>42, <1>43, <1>44 DEF Next

-----------------------------------------------------------------------------
(* What the broker's operations do to one message *)

(* modify_ack_deadline touches current ids only, and all those with a running *)
(* lease.                                                                     *)
LEMMA SetDeadlineEffect ==
    ASSUME TypeOK, NEW S \in SUBSET Messages, NEW n, NEW d, NEW b, SetDeadline(S, n, d, b)
    PROVE  /\ UNCHANGED <<fate, kind, attempt>>
           /\ \A m \in Messages :
                 \/ lease'[m] = lease[m] /\ backoff'[m] = backoff[m]
                 \/ /\ m \in S /\ attempt[m] = n[m]
                    /\ lease'[m] = d[m] /\ backoff'[m] = b[m]
           /\ \A m \in S : Current(m, n[m]) /\ lease[m] > 0 => lease'[m] = d[m]
BY DEF SetDeadline, TypeOK, Current

LEMMA ExtendEffect ==
    ASSUME TypeOK, NEW S \in SUBSET Messages, NEW n, Extend(S, n)
    PROVE  /\ UNCHANGED <<fate, kind, attempt, backoff>>
           /\ \A m \in Messages :
                 \/ lease'[m] = lease[m]
                 \/ m \in S /\ attempt[m] = n[m] /\ lease'[m] = LeaseExtension
           /\ \A m \in S : Current(m, n[m]) /\ lease[m] > 0 => lease'[m] = LeaseExtension
<1>1. SetDeadline(S, n, [m \in Messages |-> LeaseExtension], backoff)
  BY DEF Extend
<1>2. backoff' = backoff
  BY <1>1 DEF SetDeadline, TypeOK
<1> QED BY <1>1, <1>2, SetDeadlineEffect

LEMMA NackEffect ==
    ASSUME TypeOK, NEW S \in SUBSET Messages, NEW n, NEW d, Nack(S, n, d)
    PROVE  /\ UNCHANGED <<fate, kind, attempt>>
           /\ \A m \in Messages :
                 \/ lease'[m] = lease[m] /\ backoff'[m] = backoff[m]
                 \/ /\ m \in S /\ attempt[m] = n[m]
                    /\ lease'[m] = d[m] /\ backoff'[m] = {d[m]}
BY DEF Nack, SetDeadline, TypeOK, Current

LEMMA AcknowledgeEffect ==
    ASSUME TypeOK, NEW S \in SUBSET Messages, NEW n, Acknowledge(S, n)
    PROVE  /\ UNCHANGED <<kind, attempt, backoff>>
           /\ \A m \in Messages :
                 \/ fate'[m] = fate[m] /\ lease'[m] = lease[m]
                 \/ /\ m \in S /\ fate[m] = "pending"
                    /\ fate'[m] = "acked" /\ lease'[m] = 0
BY DEF Acknowledge, TypeOK

(* What a late request does: one of the three, or nothing. *)
LEMMA LateEffect ==
    ASSUME TypeOK, NEW r \in late, LateRequest(r)
    PROVE  /\ r.msg \in Messages /\ r.att \in Nat
           /\ late' = late \ {r}
           /\ UNCHANGED <<kind, attempt, life, failed, pc, batch, starts, history, quiet>>
           /\ \A m \in Messages :
                 \/ fate'[m] = fate[m] /\ lease'[m] = lease[m] /\ backoff'[m] = backoff[m]
                 \/ /\ r.what = "extend" /\ m = r.msg /\ attempt[m] = r.att
                    /\ fate'[m] = fate[m] /\ lease'[m] = LeaseExtension
                    /\ backoff'[m] = backoff[m]
                 \/ /\ r.what = "ack" /\ m = r.msg /\ fate[m] = "pending"
                    /\ fate'[m] = "acked" /\ lease'[m] = 0 /\ backoff'[m] = backoff[m]
                 \/ /\ r.what \notin {"extend", "ack"} /\ m = r.msg /\ attempt[m] = r.att
                    /\ fate'[m] = fate[m] /\ backoff'[m] = {lease'[m]}
<1> DEFINE n == [m \in Messages |-> r.att]
           d == [m \in Messages |-> DeadlineOf(r.what, r.att)]
<1>1. r.msg \in Messages /\ r.att \in Nat
  BY DEF TypeOK, Request
<1>2. {r.msg} \in SUBSET Messages /\ \A m \in Messages : n[m] = r.att
  BY <1>1
<1> HIDE DEF n, d
<1>3. CASE r.what = "extend" /\ Extend({r.msg}, n)
  <2>1. /\ UNCHANGED <<fate, kind, attempt, backoff>>
        /\ \A m \in Messages :
              \/ lease'[m] = lease[m]
              \/ m \in {r.msg} /\ attempt[m] = n[m] /\ lease'[m] = LeaseExtension
    BY <1>2, <1>3, ExtendEffect
  <2> QED BY <1>1, <1>2, <1>3, <2>1 DEF LateRequest
<1>4. CASE r.what = "ack" /\ Acknowledge({r.msg}, n)
  BY <1>1, <1>2, <1>4, AcknowledgeEffect DEF LateRequest
<1>5. CASE r.what \in {"nack", "return"} /\ Nack({r.msg}, n, d)
  <2> DEFINE S == {r.msg}
  <2>0. S \in SUBSET Messages /\ Nack(S, n, d) /\ \A m : m \in S <=> m = r.msg
    BY <1>2, <1>5
  <2> HIDE DEF S
  <2>1. /\ UNCHANGED <<fate, kind, attempt>>
        /\ \A m \in Messages :
              \/ lease'[m] = lease[m] /\ backoff'[m] = backoff[m]
              \/ /\ m = r.msg /\ attempt[m] = n[m]
                 /\ lease'[m] = d[m] /\ backoff'[m] = {d[m]}
    BY <2>0, NackEffect
  <2> QED BY <1>1, <1>2, <1>5, <2>1 DEF LateRequest
<1>6. CASE UNCHANGED broker
  BY <1>1, <1>6 DEF LateRequest, broker
<1> QED BY <1>3, <1>4, <1>5, <1>6 DEF LateRequest, n, d

(* What one round of nacks does. *)
LEMMA NacksEffect ==
    ASSUME TypeOK, NEW i \in Instances, SendNacks(i)
    PROVE  /\ UNCHANGED <<fate, kind, attempt, late, life, failed, pc, starts, history, quiet>>
           /\ UNCHANGED <<running, keeper, timer, lapsed>>
           /\ \E S \in SUBSET Messages :
                /\ held' = [held EXCEPT ![i] =
                              [m \in Messages |-> IF m \in S THEN 0 ELSE held[i][m]]]
                /\ verdict' = [verdict EXCEPT ![i] =
                              [m \in Messages |-> IF m \in S THEN "none" ELSE verdict[i][m]]]
                /\ \A m \in Messages :
                     \/ lease'[m] = lease[m] /\ backoff'[m] = backoff[m]
                     \/ /\ m \in S /\ held[i][m] # 0 /\ attempt[m] = held[i][m]
                        /\ backoff'[m] = {lease'[m]}
<1> DEFINE d == [m \in Messages |-> DeadlineOf(verdict[i][m], held[i][m])]
<1>1. PICK S \in SUBSET Held(i) :
        /\ Nack(S, held[i], d)
        /\ held' = [held EXCEPT ![i] = [m \in Messages |-> IF m \in S THEN 0 ELSE held[i][m]]]
        /\ verdict' = [verdict EXCEPT ![i] =
                         [m \in Messages |-> IF m \in S THEN "none" ELSE verdict[i][m]]]
  BY DEF SendNacks, ToNack, Judged, Held
<1> HIDE DEF d
<1>2. S \in SUBSET Messages /\ \A m \in S : held[i][m] # 0
  BY DEF Held
<1>3. \A m \in Messages :
        \/ lease'[m] = lease[m] /\ backoff'[m] = backoff[m]
        \/ /\ m \in S /\ held[i][m] # 0 /\ attempt[m] = held[i][m]
           /\ backoff'[m] = {lease'[m]}
  <2>1. \A m \in Messages :
          \/ lease'[m] = lease[m] /\ backoff'[m] = backoff[m]
          \/ /\ m \in S /\ attempt[m] = held[i][m]
             /\ lease'[m] = d[m] /\ backoff'[m] = {d[m]}
    BY <1>1, <1>2, NackEffect
  <2> QED BY <1>2, <2>1
<1>4. UNCHANGED <<fate, kind, attempt>>
  BY <1>1, <1>2, NackEffect
<1> QED BY <1>1, <1>2, <1>3, <1>4 DEF SendNacks

(* What a cancelled batch leaves behind. *)
LEMMA OnThreadsShape ==
    ASSUME TypeOK, NEW i \in Instances, NEW r \in OnThreads(i)
    PROVE  /\ r.msg \in Messages /\ r.att = held[i][r.msg] /\ r.att # 0
           /\ r.what = "extend" <=> keeper[i] = "rpc"
           /\ r.what = "ack" => verdict[i][r.msg] = "ack"
<1>1. \A w, S : r \in Sending(i, w, S) =>
          r.msg \in S /\ r.att = held[i][r.msg] /\ r.what = w
  BY DEF Sending
<1>2. CASE keeper[i] = "rpc"
  <2>1. r \in Sending(i, "extend", Held(i))
    BY <1>2 DEF OnThreads
  <2> QED BY <1>1, <1>2, <2>1 DEF Held
<1>3. CASE keeper[i] # "rpc" /\ pc[i] = "ack"
  <2>1. r \in Sending(i, "ack", Judged(i, "ack"))
    BY <1>3 DEF OnThreads
  <2> QED BY <1>1, <1>3, <2>1 DEF Judged, Held
<1>4. CASE keeper[i] # "rpc" /\ pc[i] = "nack"
  <2>1. r \in Sending(i, "nack", Judged(i, "nack"))
        \/ r \in Sending(i, "return", Judged(i, "return"))
    BY <1>4 DEF OnThreads
  <2> QED BY <1>1, <1>4, <2>1 DEF Judged, Held
<1>5. CASE keeper[i] # "rpc" /\ pc[i] # "ack" /\ pc[i] # "nack"
  BY <1>5 DEF OnThreads
<1> QED BY <1>2, <1>3, <1>4, <1>5

-----------------------------------------------------------------------------
(* One pair of hands per ack id *)

(* A batch that is let go leaves its ids to the requests on its threads. *)
LEMMA AbandonLate ==
    ASSUME TypeOK, HeldInv, LateInv, NEW i \in Instances, Abandon(i),
           UNCHANGED <<attempt, backoff>>
    PROVE  LateInv'
<1>1. \A m \in Messages : held'[i][m] = 0
  BY DEF Abandon, Release, TypeOK
<1>2. \A j \in Instances, m \in Messages : j # i => held'[j][m] = held[j][m]
  BY DEF Abandon, Release, TypeOK
<1>3. late' = late \cup OnThreads(i)
  BY DEF Abandon
<1>4. ASSUME NEW r \in late
      PROVE  /\ r.msg \in Messages /\ r.att \in Nat
             /\ 0 < r.att /\ r.att <= attempt'[r.msg]
             /\ \A j \in Instances : held'[j][r.msg] # r.att
             /\ r.what = "extend" /\ r.att = attempt'[r.msg] => backoff'[r.msg] = {}
  <2>1. r.msg \in Messages /\ r.att \in Nat
    BY DEF TypeOK, Request
  <2>2. /\ 0 < r.att /\ r.att <= attempt[r.msg]
        /\ \A j \in Instances : held[j][r.msg] # r.att
        /\ r.what = "extend" /\ r.att = attempt[r.msg] => backoff[r.msg] = {}
    BY DEF LateInv
  <2>3. ASSUME NEW j \in Instances PROVE held'[j][r.msg] # r.att
    BY <1>1, <1>2, <2>1, <2>2
  <2> QED BY <2>1, <2>2, <2>3
<1>5. ASSUME NEW r \in OnThreads(i)
      PROVE  /\ r.msg \in Messages /\ r.att = held[i][r.msg]
             /\ 0 < r.att /\ r.att <= attempt'[r.msg]
             /\ \A j \in Instances : held'[j][r.msg] # r.att
             /\ r.what = "extend" /\ r.att = attempt'[r.msg] => backoff'[r.msg] = {}
             /\ r.what = "extend" <=> keeper[i] = "rpc"
  <2>1. /\ r.msg \in Messages /\ r.att = held[i][r.msg] /\ r.att # 0
        /\ r.what = "extend" <=> keeper[i] = "rpc"
    BY OnThreadsShape
  <2>2. held[i][r.msg] \in Nat
    BY <2>1 DEF TypeOK
  <2> QED BY <1>1, <1>2, <2>1, <2>2 DEF HeldInv
<1>6. ASSUME NEW r \in late', NEW q \in late', q.msg = r.msg, q.att = r.att
      PROVE  q.what = "extend" <=> r.what = "extend"
  <2>1. \A x \in late : held[i][x.msg] # x.att
    BY DEF LateInv
  <2>2. CASE r \in late /\ q \in late
    BY <1>6, <2>2 DEF LateInv
  <2>3. CASE r \in OnThreads(i) /\ q \in OnThreads(i)
    BY <1>5, <2>3
  <2> QED BY <1>3, <1>5, <1>6, <2>1, <2>2, <2>3
<1> QED BY <1>3, <1>4, <1>5, <1>6 DEF LateInv

(* One step keeps the ids held in order. *)
LEMMA HeldStep ==
    ASSUME TypeOK, HeldInv, LateInv, [Next]_vars
    PROVE  HeldInv'
<1>1. ASSUME NEW m \in Messages, Publish(m) PROVE HeldInv'
  BY <1>1 DEF Publish, HeldInv, TypeOK, broker, batch
<1>2. ASSUME NEW m \in Messages, DeadLetter(m) PROVE HeldInv'
  BY <1>2 DEF DeadLetter, HeldInv, TypeOK, broker, batch
<1>3. ASSUME NEW m \in Messages, PullLost(m) PROVE HeldInv'
  BY <1>3 DEF PullLost, Handout, Deliverable, HeldInv, TypeOK, batch
<1>4. ASSUME NEW r \in late, LateRequest(r) PROVE HeldInv'
  <2>1. \A m \in Messages : backoff'[m] = backoff[m] \/ (m = r.msg /\ attempt[m] = r.att)
    BY <1>4, LateEffect
  <2>2. UNCHANGED <<attempt, held>> /\ \A m \in Messages : fate'[m] = fate[m] \/ fate'[m] # "unpublished"
    BY <1>4, LateEffect DEF batch
  <2> QED BY <2>1, <2>2 DEF HeldInv, LateInv
<1>5. ASSUME Tick PROVE HeldInv'
  BY <1>5 DEF Tick, HeldInv, TypeOK, broker, batch
<1>6. ASSUME NEW i \in Instances, Pull(i) PROVE HeldInv'
  <2>1. PICK S \in SUBSET {m \in Messages : Deliverable(m)} :
          /\ Handout(S)
          /\ held' = [held EXCEPT ![i] = [m \in Messages |-> IF m \in S THEN attempt[m] + 1 ELSE 0]]
    BY <1>6 DEF Pull
  <2>2. \A m \in Messages : held'[i][m] = IF m \in S THEN attempt[m] + 1 ELSE 0
    BY <2>1 DEF TypeOK
  <2>3. \A j \in Instances, m \in Messages : j # i => held'[j][m] = held[j][m]
    BY <2>1 DEF TypeOK
  <2>4. \A m \in Messages :
          /\ attempt'[m] = IF m \in S THEN attempt[m] + 1 ELSE attempt[m]
          /\ backoff'[m] = IF m \in S THEN {} ELSE backoff[m]
          /\ m \in S => fate[m] = "pending"
    BY <2>1 DEF Handout, Deliverable
  <2>5. fate' = fate
    BY <2>1 DEF Handout
  <2>6. \A m \in Messages : fate'[m] = "unpublished" => attempt'[m] = 0
    BY <2>4, <2>5 DEF HeldInv
  <2>7. ASSUME NEW j \in Instances, NEW m \in Messages
        PROVE  /\ held'[j][m] <= attempt'[m]
               /\ held'[j][m] # 0 /\ held'[j][m] = attempt'[m] => backoff'[m] = {}
    <3>1. /\ held[j][m] \in Nat /\ attempt[m] \in Nat /\ held[j][m] <= attempt[m]
          /\ held[j][m] # 0 /\ held[j][m] = attempt[m] => backoff[m] = {}
      BY DEF HeldInv, TypeOK
    <3> QED BY <2>2, <2>3, <2>4, <3>1
  <2>8. ASSUME NEW j \in Instances, NEW k \in Instances, NEW m \in Messages,
               j # k, held'[j][m] # 0
        PROVE  held'[j][m] # held'[k][m]
    <3>1. /\ attempt[m] \in Nat /\ held[j][m] \in Nat /\ held[k][m] \in Nat
          /\ held[j][m] <= attempt[m] /\ held[k][m] <= attempt[m]
          /\ held[j][m] # 0 => held[j][m] # held[k][m]
      BY <2>8 DEF HeldInv, TypeOK
    <3> QED BY <2>2, <2>3, <2>8, <3>1
  <2> QED BY <2>6, <2>7, <2>8 DEF HeldInv
<1>7. ASSUME NEW i \in Instances, PullEmpty(i) PROVE HeldInv'
  BY <1>7 DEF PullEmpty, HeldInv, TypeOK, broker, batch
<1>8. ASSUME NEW i \in Instances, NEW m \in Messages, HandBack(i, m) PROVE HeldInv'
  BY <1>8 DEF HandBack, Judge, HeldInv, TypeOK, broker, batch
<1>9. ASSUME NEW i \in Instances, NEW m \in Messages, Drop(i, m) PROVE HeldInv'
  BY <1>9 DEF Drop, Judge, HeldInv, TypeOK, broker, batch
<1>10. ASSUME NEW i \in Instances, NEW m \in Messages, Dispatch(i, m) PROVE HeldInv'
  BY <1>10 DEF Dispatch, HeldInv, TypeOK, broker, batch
<1>11. ASSUME NEW i \in Instances, NEW m \in Messages, HandlersSucceed(i, m) PROVE HeldInv'
  BY <1>11 DEF HandlersSucceed, Judge, HeldInv, TypeOK, broker, batch
<1>12. ASSUME NEW i \in Instances, NEW m \in Messages, HandlersFail(i, m) PROVE HeldInv'
  BY <1>12 DEF HandlersFail, Judge, HeldInv, TypeOK, broker, batch
<1>13. ASSUME NEW i \in Instances, NEW m \in Messages, NEW r \in Messages, HandlersReplace(i, m, r)
      PROVE  HeldInv'
  BY <1>13 DEF HandlersReplace, Judge, HeldInv, TypeOK, broker, batch
<1>14. ASSUME NEW i \in Instances, BatchDispatched(i) PROVE HeldInv'
  BY <1>14 DEF BatchDispatched, HeldInv, TypeOK, broker, batch
<1>15. ASSUME NEW i \in Instances, KeeperDrained(i) PROVE HeldInv'
  BY <1>15 DEF KeeperDrained, HeldInv, TypeOK, broker, batch
<1>16. ASSUME NEW i \in Instances, SendAcks(i) PROVE HeldInv'
  <2>1. Judged(i, "ack") \in SUBSET Messages
    BY DEF Judged, Held
  <2>2. UNCHANGED <<attempt, backoff>> /\ \A m \in Messages : fate'[m] = fate[m] \/ fate'[m] # "unpublished"
    BY <1>16, <2>1, AcknowledgeEffect DEF SendAcks
  <2> QED BY <1>16, <2>2 DEF SendAcks, HeldInv, batch
<1>17. ASSUME NEW i \in Instances, SendNacks(i) PROVE HeldInv'
  <2>1. PICK S \in SUBSET Messages :
          /\ held' = [held EXCEPT ![i] = [m \in Messages |-> IF m \in S THEN 0 ELSE held[i][m]]]
          /\ \A m \in Messages :
               backoff'[m] = backoff[m] \/ (m \in S /\ held[i][m] # 0 /\ attempt[m] = held[i][m])
    BY <1>17, NacksEffect
  <2>2. UNCHANGED <<fate, attempt>>
    BY <1>17, NacksEffect
  <2>3. \A m \in Messages : held'[i][m] = IF m \in S THEN 0 ELSE held[i][m]
    BY <2>1 DEF TypeOK
  <2>4. \A j \in Instances, m \in Messages : j # i => held'[j][m] = held[j][m]
    BY <2>1 DEF TypeOK
  <2> QED BY <2>1, <2>2, <2>3, <2>4 DEF HeldInv, TypeOK
<1>18. ASSUME NEW i \in Instances, BatchSettled(i) PROVE HeldInv'
  BY <1>18 DEF BatchSettled, Release, HeldInv, TypeOK, broker, batch
<1>19. ASSUME NEW i \in Instances, BackoffOver(i) PROVE HeldInv'
  BY <1>19 DEF BackoffOver, HeldInv, TypeOK, broker, batch
<1>20. ASSUME NEW i \in Instances, PullDenied(i) PROVE HeldInv'
  BY <1>20 DEF PullDenied, HeldInv, TypeOK, broker, batch
<1>21. ASSUME NEW i \in Instances, SettleError(i) PROVE HeldInv'
  BY <1>21 DEF SettleError, Abandon, Release, HeldInv, TypeOK, broker
<1>22. ASSUME NEW i \in Instances, SettleDenied(i) PROVE HeldInv'
  BY <1>22 DEF SettleDenied, Abandon, Release, HeldInv, TypeOK, broker
<1>23. ASSUME NEW i \in Instances, NEW m \in Messages, HandlersCancelled(i, m)
      PROVE  HeldInv'
  BY <1>23 DEF HandlersCancelled, Abandon, Release, HeldInv, TypeOK, broker
<1>24. ASSUME NEW i \in Instances, RefreshSent(i) PROVE HeldInv'
  BY <1>24 DEF RefreshSent, HeldInv, TypeOK, broker, batch
<1>25. ASSUME NEW i \in Instances, RefreshLanded(i) PROVE HeldInv'
  <2>1. Held(i) \in SUBSET Messages
    BY DEF Held
  <2>2. UNCHANGED <<fate, attempt, backoff, held>>
    BY <1>25, <2>1, ExtendEffect DEF RefreshLanded, NextInterval
  <2> QED BY <2>2 DEF HeldInv
<1>26. ASSUME NEW i \in Instances, RefreshFailed(i) PROVE HeldInv'
  BY <1>26 DEF RefreshFailed, NextInterval, HeldInv, TypeOK, broker, batch
<1>27. ASSUME NEW i \in Instances, Start(i) PROVE HeldInv'
  BY <1>27 DEF Start, HeldInv, TypeOK, broker, batch
<1>28. ASSUME NEW i \in Instances, StopOvertakes(i) PROVE HeldInv'
  BY <1>28 DEF StopOvertakes, HeldInv, TypeOK, broker, batch
<1>29. ASSUME NEW i \in Instances, StartResumes(i) PROVE HeldInv'
  BY <1>29 DEF StartResumes, HeldInv, TypeOK, broker, batch
<1>30. ASSUME NEW i \in Instances, StartAborts(i) PROVE HeldInv'
  BY <1>30 DEF StartAborts, HeldInv, TypeOK, broker, batch
<1>31. ASSUME NEW i \in Instances, StopConsuming(i) PROVE HeldInv'
  BY <1>31 DEF StopConsuming, HeldInv, TypeOK, broker, batch
<1>32. ASSUME NEW i \in Instances, DrainDone(i) PROVE HeldInv'
  BY <1>32 DEF DrainDone, HeldInv, TypeOK, broker, batch
<1>33. ASSUME NEW i \in Instances, GraceOver(i) PROVE HeldInv'
  BY <1>33 DEF GraceOver, HeldInv, TypeOK, broker, batch
<1>34. ASSUME NEW i \in Instances, Unwound(i) PROVE HeldInv'
  BY <1>34 DEF Unwound, Abandon, Release, HeldInv, TypeOK, broker
<1>35. ASSUME NEW i \in Instances, Close(i) PROVE HeldInv'
  BY <1>35 DEF Close, Abandon, Release, HeldInv, TypeOK, broker
<1>36. ASSUME NEW i \in Instances, StopDone(i) PROVE HeldInv'
  BY <1>36 DEF StopDone, HeldInv, TypeOK, broker, batch
<1>37. ASSUME NEW i \in Instances, StopInterrupted(i) PROVE HeldInv'
  BY <1>37 DEF StopInterrupted, Abandon, Release, HeldInv, TypeOK, broker
<1>38. ASSUME NEW i \in Instances, Crash(i) PROVE HeldInv'
  BY <1>38 DEF Crash, Abandon, Release, HeldInv, TypeOK, broker
<1>39. CASE UNCHANGED vars
  BY <1>39 DEF vars, broker, batch, HeldInv
<1>40. ASSUME NEW m \in Messages, Broker(m) PROVE HeldInv'
  BY <1>40, <1>1, <1>2, <1>3 DEF Broker
<1>41. ASSUME NEW i \in Instances, LoopStep(i) PROVE HeldInv'
  BY <1>41, <1>6, <1>7, <1>8, <1>9, <1>10, <1>11, <1>12, <1>13, <1>14, <1>15, <1>16, <1>17,
     <1>18, <1>19 DEF LoopStep
<1>42. ASSUME NEW i \in Instances, LoopFault(i) PROVE HeldInv'
  BY <1>42, <1>20, <1>21, <1>22, <1>23 DEF LoopFault
<1>43. ASSUME NEW i \in Instances, Keeper(i) PROVE HeldInv'
  BY <1>43, <1>24, <1>25, <1>26 DEF Keeper
<1>44. ASSUME NEW i \in Instances, Lifecycle(i) PROVE HeldInv'
  BY <1>44, <1>27, <1>28, <1>29, <1>30, <1>31, <1>32, <1>33, <1>34, <1>35, <1>36, <1>37,
     <1>38 DEF Lifecycle
<1> QED
  BY <1>4, <1>5, <1>39, <1>40, <1>41, <1>42, <1>43, <1>44 DEF Next

(* One step keeps the late requests apart from the batches and each other. *)
LEMMA LateStep ==
    ASSUME TypeOK, HeldInv, LateInv, [Next]_vars
    PROVE  LateInv'
<1>1. ASSUME NEW m \in Messages, Publish(m) PROVE LateInv'
  BY <1>1 DEF Publish, LateInv, TypeOK, broker, batch
<1>2. ASSUME NEW m \in Messages, DeadLetter(m) PROVE LateInv'
  BY <1>2 DEF DeadLetter, LateInv, TypeOK, broker, batch
<1>3. ASSUME NEW m \in Messages, PullLost(m) PROVE LateInv'
  <2>1. \A x \in late : x.msg \in Messages /\ x.att \in Nat
    BY DEF TypeOK, Request
  <2>2. \A x \in Messages : /\ attempt'[x] = (IF x = m THEN attempt[x] + 1 ELSE attempt[x])
                              /\ backoff'[x] = (IF x = m THEN {} ELSE backoff[x])
    BY <1>3 DEF PullLost, Handout, TypeOK
  <2>3. UNCHANGED <<late, held>>
    BY <1>3 DEF PullLost, batch
  <2> QED BY <2>1, <2>2, <2>3 DEF LateInv, TypeOK
<1>4. ASSUME NEW r \in late, LateRequest(r) PROVE LateInv'
  <2>0. \A x \in late : x.msg \in Messages
    BY DEF TypeOK, Request
  <2>1. \A m \in Messages : \/ backoff'[m] = backoff[m]
                            \/ r.what # "extend" /\ m = r.msg /\ attempt[m] = r.att
    BY <1>4, LateEffect
  <2>2. UNCHANGED <<attempt, held>> /\ late' = late \ {r}
    BY <1>4, LateEffect DEF batch
  <2> QED BY <2>0, <2>1, <2>2 DEF LateInv
<1>5. ASSUME Tick PROVE LateInv'
  BY <1>5 DEF Tick, LateInv, TypeOK, broker, batch
<1>6. ASSUME NEW i \in Instances, Pull(i) PROVE LateInv'
  <2>0. \A x \in late : x.msg \in Messages /\ x.att \in Nat
    BY DEF TypeOK, Request
  <2>1. PICK S \in SUBSET Messages :
          /\ Handout(S)
          /\ held' = [held EXCEPT ![i] = [m \in Messages |-> IF m \in S THEN attempt[m] + 1 ELSE 0]]
    BY <1>6 DEF Pull
  <2>2. \A m \in Messages : held'[i][m] = IF m \in S THEN attempt[m] + 1 ELSE 0
    BY <2>1 DEF TypeOK
  <2>3. \A j \in Instances, m \in Messages : j # i => held'[j][m] = held[j][m]
    BY <2>1 DEF TypeOK
  <2>4. \A m \in Messages :
          /\ attempt[m] \in Nat
          /\ attempt'[m] = IF m \in S THEN attempt[m] + 1 ELSE attempt[m]
          /\ backoff'[m] = IF m \in S THEN {} ELSE backoff[m]
    BY <2>1 DEF Handout, TypeOK
  <2>5. late' = late
    BY <1>6 DEF Pull
  <2> QED BY <2>0, <2>2, <2>3, <2>4, <2>5 DEF LateInv
<1>7. ASSUME NEW i \in Instances, PullEmpty(i) PROVE LateInv'
  BY <1>7 DEF PullEmpty, LateInv, TypeOK, broker, batch
<1>8. ASSUME NEW i \in Instances, NEW m \in Messages, HandBack(i, m) PROVE LateInv'
  BY <1>8 DEF HandBack, Judge, LateInv, TypeOK, broker, batch
<1>9. ASSUME NEW i \in Instances, NEW m \in Messages, Drop(i, m) PROVE LateInv'
  BY <1>9 DEF Drop, Judge, LateInv, TypeOK, broker, batch
<1>10. ASSUME NEW i \in Instances, NEW m \in Messages, Dispatch(i, m) PROVE LateInv'
  BY <1>10 DEF Dispatch, LateInv, TypeOK, broker, batch
<1>11. ASSUME NEW i \in Instances, NEW m \in Messages, HandlersSucceed(i, m) PROVE LateInv'
  BY <1>11 DEF HandlersSucceed, Judge, LateInv, TypeOK, broker, batch
<1>12. ASSUME NEW i \in Instances, NEW m \in Messages, HandlersFail(i, m) PROVE LateInv'
  BY <1>12 DEF HandlersFail, Judge, LateInv, TypeOK, broker, batch
<1>13. ASSUME NEW i \in Instances, NEW m \in Messages, NEW r \in Messages, HandlersReplace(i, m, r)
      PROVE  LateInv'
  BY <1>13 DEF HandlersReplace, Judge, LateInv, TypeOK, broker, batch
<1>14. ASSUME NEW i \in Instances, BatchDispatched(i) PROVE LateInv'
  BY <1>14 DEF BatchDispatched, LateInv, TypeOK, broker, batch
<1>15. ASSUME NEW i \in Instances, KeeperDrained(i) PROVE LateInv'
  BY <1>15 DEF KeeperDrained, LateInv, TypeOK, broker, batch
<1>16. ASSUME NEW i \in Instances, SendAcks(i) PROVE LateInv'
  <2>1. Judged(i, "ack") \in SUBSET Messages
    BY DEF Judged, Held
  <2>2. UNCHANGED <<attempt, backoff>>
    BY <1>16, <2>1, AcknowledgeEffect DEF SendAcks
  <2> QED BY <1>16, <2>2 DEF SendAcks, LateInv, batch
<1>17. ASSUME NEW i \in Instances, SendNacks(i) PROVE LateInv'
  <2>0. \A x \in late : x.msg \in Messages
    BY DEF TypeOK, Request
  <2>1. PICK S \in SUBSET Messages :
          /\ held' = [held EXCEPT ![i] = [m \in Messages |-> IF m \in S THEN 0 ELSE held[i][m]]]
          /\ \A m \in Messages :
               backoff'[m] = backoff[m] \/ (m \in S /\ held[i][m] # 0 /\ attempt[m] = held[i][m])
    BY <1>17, NacksEffect
  <2>2. UNCHANGED <<late, attempt>>
    BY <1>17, NacksEffect
  <2>3. \A m \in Messages : held'[i][m] = 0 \/ held'[i][m] = held[i][m]
    BY <2>1 DEF TypeOK
  <2>4. \A j \in Instances, m \in Messages : j # i => held'[j][m] = held[j][m]
    BY <2>1 DEF TypeOK
  <2> QED BY <2>0, <2>1, <2>2, <2>3, <2>4 DEF LateInv, TypeOK, Request
<1>18. ASSUME NEW i \in Instances, BatchSettled(i) PROVE LateInv'
  <2>0. \A x \in late : x.msg \in Messages
    BY DEF TypeOK, Request
  <2>1. \A j \in Instances, m \in Messages : held'[j][m] = 0 \/ held'[j][m] = held[j][m]
    BY <1>18 DEF BatchSettled, Release, TypeOK
  <2>2. \A x \in late : 0 < x.att /\ \A j \in Instances : held'[j][x.msg] # x.att
    BY <2>0, <2>1 DEF LateInv
  <2>3. UNCHANGED <<late, attempt, backoff>>
    BY <1>18 DEF BatchSettled, broker
  <2> QED BY <2>2, <2>3 DEF LateInv
<1>19. ASSUME NEW i \in Instances, BackoffOver(i) PROVE LateInv'
  BY <1>19 DEF BackoffOver, LateInv, TypeOK, broker, batch
<1>20. ASSUME NEW i \in Instances, PullDenied(i) PROVE LateInv'
  BY <1>20 DEF PullDenied, LateInv, TypeOK, broker, batch
<1>21. ASSUME NEW i \in Instances, SettleError(i) PROVE LateInv'
  BY <1>21, AbandonLate DEF SettleError, broker
<1>22. ASSUME NEW i \in Instances, SettleDenied(i) PROVE LateInv'
  BY <1>22, AbandonLate DEF SettleDenied, broker
<1>23. ASSUME NEW i \in Instances, NEW m \in Messages, HandlersCancelled(i, m)
      PROVE  LateInv'
  BY <1>23, AbandonLate DEF HandlersCancelled, broker
<1>24. ASSUME NEW i \in Instances, RefreshSent(i) PROVE LateInv'
  BY <1>24 DEF RefreshSent, LateInv, TypeOK, broker, batch
<1>25. ASSUME NEW i \in Instances, RefreshLanded(i) PROVE LateInv'
  <2>1. Held(i) \in SUBSET Messages
    BY DEF Held
  <2>2. UNCHANGED <<late, attempt, backoff, held>>
    BY <1>25, <2>1, ExtendEffect DEF RefreshLanded, NextInterval
  <2> QED BY <2>2 DEF LateInv
<1>26. ASSUME NEW i \in Instances, RefreshFailed(i) PROVE LateInv'
  BY <1>26 DEF RefreshFailed, NextInterval, LateInv, TypeOK, broker, batch
<1>27. ASSUME NEW i \in Instances, Start(i) PROVE LateInv'
  BY <1>27 DEF Start, LateInv, TypeOK, broker, batch
<1>28. ASSUME NEW i \in Instances, StopOvertakes(i) PROVE LateInv'
  BY <1>28 DEF StopOvertakes, LateInv, TypeOK, broker, batch
<1>29. ASSUME NEW i \in Instances, StartResumes(i) PROVE LateInv'
  BY <1>29 DEF StartResumes, LateInv, TypeOK, broker, batch
<1>30. ASSUME NEW i \in Instances, StartAborts(i) PROVE LateInv'
  BY <1>30 DEF StartAborts, LateInv, TypeOK, broker, batch
<1>31. ASSUME NEW i \in Instances, StopConsuming(i) PROVE LateInv'
  BY <1>31 DEF StopConsuming, LateInv, TypeOK, broker, batch
<1>32. ASSUME NEW i \in Instances, DrainDone(i) PROVE LateInv'
  BY <1>32 DEF DrainDone, LateInv, TypeOK, broker, batch
<1>33. ASSUME NEW i \in Instances, GraceOver(i) PROVE LateInv'
  BY <1>33 DEF GraceOver, LateInv, TypeOK, broker, batch
<1>34. ASSUME NEW i \in Instances, Unwound(i) PROVE LateInv'
  BY <1>34, AbandonLate DEF Unwound, broker
<1>35. ASSUME NEW i \in Instances, Close(i) PROVE LateInv'
  BY <1>35, AbandonLate DEF Close, broker
<1>36. ASSUME NEW i \in Instances, StopDone(i) PROVE LateInv'
  BY <1>36 DEF StopDone, LateInv, TypeOK, broker, batch
<1>37. ASSUME NEW i \in Instances, StopInterrupted(i) PROVE LateInv'
  BY <1>37, AbandonLate DEF StopInterrupted, broker
<1>38. ASSUME NEW i \in Instances, Crash(i) PROVE LateInv'
  BY <1>38, AbandonLate DEF Crash, broker
<1>39. CASE UNCHANGED vars
  BY <1>39 DEF vars, broker, batch, LateInv
<1>40. ASSUME NEW m \in Messages, Broker(m) PROVE LateInv'
  BY <1>40, <1>1, <1>2, <1>3 DEF Broker
<1>41. ASSUME NEW i \in Instances, LoopStep(i) PROVE LateInv'
  BY <1>41, <1>6, <1>7, <1>8, <1>9, <1>10, <1>11, <1>12, <1>13, <1>14, <1>15, <1>16, <1>17,
     <1>18, <1>19 DEF LoopStep
<1>42. ASSUME NEW i \in Instances, LoopFault(i) PROVE LateInv'
  BY <1>42, <1>20, <1>21, <1>22, <1>23 DEF LoopFault
<1>43. ASSUME NEW i \in Instances, Keeper(i) PROVE LateInv'
  BY <1>43, <1>24, <1>25, <1>26 DEF Keeper
<1>44. ASSUME NEW i \in Instances, Lifecycle(i) PROVE LateInv'
  BY <1>44, <1>27, <1>28, <1>29, <1>30, <1>31, <1>32, <1>33, <1>34, <1>35, <1>36, <1>37,
     <1>38 DEF Lifecycle
<1> QED
  BY <1>4, <1>5, <1>39, <1>40, <1>41, <1>42, <1>43, <1>44 DEF Next

(* One step stretches no backoff. *)
LEMMA BackoffStep ==
    ASSUME TypeOK, TypeOK', HeldInv, LateInv, NackBackoffKept, [Next]_vars
    PROVE  NackBackoffKept'
<1>1. ASSUME NEW m \in Messages, Publish(m) PROVE NackBackoffKept'
  BY <1>1 DEF Publish, NackBackoffKept, TypeOK, broker, batch
<1>2. ASSUME NEW m \in Messages, DeadLetter(m) PROVE NackBackoffKept'
  BY <1>2 DEF DeadLetter, NackBackoffKept, TypeOK, broker, batch
<1>3. ASSUME NEW m \in Messages, PullLost(m) PROVE NackBackoffKept'
  BY <1>3 DEF PullLost, Handout, NackBackoffKept, TypeOK
<1>4. ASSUME NEW r \in late, LateRequest(r) PROVE NackBackoffKept'
  <2>1. r.msg \in Messages /\ r.att \in Nat
    BY DEF TypeOK, Request
  <2>2. ASSUME NEW m \in Messages, NEW d \in backoff'[m] PROVE lease'[m] <= d
    <3>1. CASE lease'[m] = lease[m] /\ backoff'[m] = backoff[m]
      BY <2>2, <3>1 DEF NackBackoffKept
    <3>2. CASE r.what = "extend" /\ m = r.msg /\ attempt[m] = r.att /\ backoff'[m] = backoff[m]
      BY <2>2, <3>2 DEF LateInv
    <3>3. CASE lease'[m] = 0
      BY <2>2, <3>3 DEF TypeOK
    <3>4. CASE backoff'[m] = {lease'[m]}
      BY <2>2, <3>4 DEF TypeOK
    <3> QED BY <1>4, <3>1, <3>2, <3>3, <3>4, LateEffect
  <2> QED BY <2>2 DEF NackBackoffKept
<1>5. ASSUME Tick PROVE NackBackoffKept'
  <2>1. \A m \in Messages : lease'[m] <= lease[m]
    BY <1>5 DEF Tick, Sooner, TypeOK
  <2> QED BY <1>5, <2>1, TypeOK' DEF Tick, NackBackoffKept, TypeOK
<1>6. ASSUME NEW i \in Instances, Pull(i) PROVE NackBackoffKept'
  BY <1>6 DEF Pull, Handout, NackBackoffKept, TypeOK
<1>7. ASSUME NEW i \in Instances, PullEmpty(i) PROVE NackBackoffKept'
  BY <1>7 DEF PullEmpty, NackBackoffKept, TypeOK, broker, batch
<1>8. ASSUME NEW i \in Instances, NEW m \in Messages, HandBack(i, m) PROVE NackBackoffKept'
  BY <1>8 DEF HandBack, Judge, NackBackoffKept, TypeOK, broker, batch
<1>9. ASSUME NEW i \in Instances, NEW m \in Messages, Drop(i, m) PROVE NackBackoffKept'
  BY <1>9 DEF Drop, Judge, NackBackoffKept, TypeOK, broker, batch
<1>10. ASSUME NEW i \in Instances, NEW m \in Messages, Dispatch(i, m) PROVE NackBackoffKept'
  BY <1>10 DEF Dispatch, NackBackoffKept, TypeOK, broker, batch
<1>11. ASSUME NEW i \in Instances, NEW m \in Messages, HandlersSucceed(i, m)
      PROVE  NackBackoffKept'
  BY <1>11 DEF HandlersSucceed, Judge, NackBackoffKept, TypeOK, broker, batch
<1>12. ASSUME NEW i \in Instances, NEW m \in Messages, HandlersFail(i, m)
      PROVE  NackBackoffKept'
  BY <1>12 DEF HandlersFail, Judge, NackBackoffKept, TypeOK, broker, batch
<1>13. ASSUME NEW i \in Instances, NEW m \in Messages, NEW r \in Messages, HandlersReplace(i, m, r)
      PROVE  NackBackoffKept'
  BY <1>13 DEF HandlersReplace, Judge, NackBackoffKept, TypeOK, broker, batch
<1>14. ASSUME NEW i \in Instances, BatchDispatched(i) PROVE NackBackoffKept'
  BY <1>14 DEF BatchDispatched, NackBackoffKept, TypeOK, broker, batch
<1>15. ASSUME NEW i \in Instances, KeeperDrained(i) PROVE NackBackoffKept'
  BY <1>15 DEF KeeperDrained, NackBackoffKept, TypeOK, broker, batch
<1>16. ASSUME NEW i \in Instances, SendAcks(i) PROVE NackBackoffKept'
  <2>1. Judged(i, "ack") \in SUBSET Messages
    BY DEF Judged, Held
  <2>2. backoff' = backoff /\ \A m \in Messages : lease'[m] = lease[m] \/ lease'[m] = 0
    BY <1>16, <2>1, AcknowledgeEffect DEF SendAcks
  <2>3. \A m \in Messages : \A d \in backoff[m] : d \in Nat
    BY DEF TypeOK
  <2>4. ASSUME NEW m \in Messages, NEW d \in backoff'[m] PROVE lease'[m] <= d
    BY <2>2, <2>3, <2>4 DEF NackBackoffKept
  <2> QED BY <2>4 DEF NackBackoffKept
<1>17. ASSUME NEW i \in Instances, SendNacks(i) PROVE NackBackoffKept'
  <2>1. \A m \in Messages : \/ lease'[m] = lease[m] /\ backoff'[m] = backoff[m]
                            \/ backoff'[m] = {lease'[m]}
    BY <1>17, NacksEffect
  <2>2. \A m \in Messages : lease'[m] \in Nat
    BY DEF TypeOK
  <2>3. ASSUME NEW m \in Messages, NEW d \in backoff'[m] PROVE lease'[m] <= d
    BY <2>1, <2>2, <2>3 DEF NackBackoffKept
  <2> QED BY <2>3 DEF NackBackoffKept
<1>18. ASSUME NEW i \in Instances, BatchSettled(i) PROVE NackBackoffKept'
  BY <1>18 DEF BatchSettled, Release, NackBackoffKept, TypeOK, broker, batch
<1>19. ASSUME NEW i \in Instances, BackoffOver(i) PROVE NackBackoffKept'
  BY <1>19 DEF BackoffOver, NackBackoffKept, TypeOK, broker, batch
<1>20. ASSUME NEW i \in Instances, PullDenied(i) PROVE NackBackoffKept'
  BY <1>20 DEF PullDenied, NackBackoffKept, TypeOK, broker, batch
<1>21. ASSUME NEW i \in Instances, SettleError(i) PROVE NackBackoffKept'
  BY <1>21 DEF SettleError, NackBackoffKept, broker
<1>22. ASSUME NEW i \in Instances, SettleDenied(i) PROVE NackBackoffKept'
  BY <1>22 DEF SettleDenied, NackBackoffKept, broker
<1>23. ASSUME NEW i \in Instances, NEW m \in Messages, HandlersCancelled(i, m)
      PROVE  NackBackoffKept'
  BY <1>23 DEF HandlersCancelled, NackBackoffKept, broker
<1>24. ASSUME NEW i \in Instances, RefreshSent(i) PROVE NackBackoffKept'
  BY <1>24 DEF RefreshSent, NackBackoffKept, TypeOK, broker, batch
<1>25. ASSUME NEW i \in Instances, RefreshLanded(i) PROVE NackBackoffKept'
  <2>1. Held(i) \in SUBSET Messages
    BY DEF Held
  <2>2. /\ backoff' = backoff
        /\ \A m \in Messages : lease'[m] = lease[m] \/ (m \in Held(i) /\ attempt[m] = held[i][m])
    BY <1>25, <2>1, ExtendEffect DEF RefreshLanded
  <2> QED BY <2>2 DEF NackBackoffKept, HeldInv, Held
<1>26. ASSUME NEW i \in Instances, RefreshFailed(i) PROVE NackBackoffKept'
  BY <1>26 DEF RefreshFailed, NextInterval, NackBackoffKept, TypeOK, broker, batch
<1>27. ASSUME NEW i \in Instances, Start(i) PROVE NackBackoffKept'
  BY <1>27 DEF Start, NackBackoffKept, TypeOK, broker, batch
<1>28. ASSUME NEW i \in Instances, StopOvertakes(i) PROVE NackBackoffKept'
  BY <1>28 DEF StopOvertakes, NackBackoffKept, TypeOK, broker, batch
<1>29. ASSUME NEW i \in Instances, StartResumes(i) PROVE NackBackoffKept'
  BY <1>29 DEF StartResumes, NackBackoffKept, TypeOK, broker, batch
<1>30. ASSUME NEW i \in Instances, StartAborts(i) PROVE NackBackoffKept'
  BY <1>30 DEF StartAborts, NackBackoffKept, TypeOK, broker, batch
<1>31. ASSUME NEW i \in Instances, StopConsuming(i) PROVE NackBackoffKept'
  BY <1>31 DEF StopConsuming, NackBackoffKept, TypeOK, broker, batch
<1>32. ASSUME NEW i \in Instances, DrainDone(i) PROVE NackBackoffKept'
  BY <1>32 DEF DrainDone, NackBackoffKept, TypeOK, broker, batch
<1>33. ASSUME NEW i \in Instances, GraceOver(i) PROVE NackBackoffKept'
  BY <1>33 DEF GraceOver, NackBackoffKept, TypeOK, broker, batch
<1>34. ASSUME NEW i \in Instances, Unwound(i) PROVE NackBackoffKept'
  BY <1>34 DEF Unwound, NackBackoffKept, broker
<1>35. ASSUME NEW i \in Instances, Close(i) PROVE NackBackoffKept'
  BY <1>35 DEF Close, NackBackoffKept, broker
<1>36. ASSUME NEW i \in Instances, StopDone(i) PROVE NackBackoffKept'
  BY <1>36 DEF StopDone, NackBackoffKept, TypeOK, broker, batch
<1>37. ASSUME NEW i \in Instances, StopInterrupted(i) PROVE NackBackoffKept'
  BY <1>37 DEF StopInterrupted, NackBackoffKept, broker
<1>38. ASSUME NEW i \in Instances, Crash(i) PROVE NackBackoffKept'
  BY <1>38 DEF Crash, NackBackoffKept, broker
<1>39. CASE UNCHANGED vars
  BY <1>39 DEF vars, broker, NackBackoffKept
<1>40. ASSUME NEW m \in Messages, Broker(m) PROVE NackBackoffKept'
  BY <1>40, <1>1, <1>2, <1>3 DEF Broker
<1>41. ASSUME NEW i \in Instances, LoopStep(i) PROVE NackBackoffKept'
  BY <1>41, <1>6, <1>7, <1>8, <1>9, <1>10, <1>11, <1>12, <1>13, <1>14, <1>15, <1>16, <1>17,
     <1>18, <1>19 DEF LoopStep
<1>42. ASSUME NEW i \in Instances, LoopFault(i) PROVE NackBackoffKept'
  BY <1>42, <1>20, <1>21, <1>22, <1>23 DEF LoopFault
<1>43. ASSUME NEW i \in Instances, Keeper(i) PROVE NackBackoffKept'
  BY <1>43, <1>24, <1>25, <1>26 DEF Keeper
<1>44. ASSUME NEW i \in Instances, Lifecycle(i) PROVE NackBackoffKept'
  BY <1>44, <1>27, <1>28, <1>29, <1>30, <1>31, <1>32, <1>33, <1>34, <1>35, <1>36, <1>37,
     <1>38 DEF Lifecycle
<1> QED
  BY <1>4, <1>5, <1>39, <1>40, <1>41, <1>42, <1>43, <1>44 DEF Next

-----------------------------------------------------------------------------
(* A batch stays leased *)

(* One step keeps the lease of a live batch ahead of its next refresh. *)
LEMMA LeaseStep ==
    ASSUME TypeOK, TypeOK', ShapeInv, HeldInv, LateInv, LeaseInv, [Next]_vars
    PROVE  LeaseInv'
<1>1. ASSUME NEW m \in Messages, Publish(m) PROVE LeaseInv'
  <2>1. \A i \in Instances : held[i][m] = 0
    BY <1>1 DEF Publish, HeldInv, TypeOK
  <2>2. /\ \A x \in Messages : x # m => fate'[x] = fate[x]
        /\ UNCHANGED <<attempt, lease, pc, batch>>
    BY <1>1 DEF Publish, TypeOK
  <2> QED BY <2>1, <2>2 DEF LeaseInv, Working, Due, batch
<1>2. ASSUME NEW m \in Messages, DeadLetter(m) PROVE LeaseInv'
  BY <1>2 DEF DeadLetter, LeaseInv, Working, Due, TypeOK, broker, batch
<1>3. ASSUME NEW m \in Messages, PullLost(m) PROVE LeaseInv'
  <2>1. fate[m] = "pending" /\ lease[m] = 0 /\ UNCHANGED <<fate, pc, batch>>
    BY <1>3 DEF PullLost, Deliverable, Handout
  <2>2. \A x \in Messages : x # m => attempt'[x] = attempt[x] /\ lease'[x] = lease[x]
    BY <1>3 DEF PullLost, Handout
  <2>3. \A i \in Instances : Due(i) \in Nat
    BY BoundsAssumption DEF Due, TypeOK
  <2>4. \A i \in Instances : ~(Working(i) /\ ~lapsed[i] /\ held[i][m] # 0)
    BY <2>1, <2>3 DEF LeaseInv
  <2> QED BY <2>1, <2>2, <2>4 DEF LeaseInv, Working, Due, batch
<1>4. ASSUME NEW r \in late, LateRequest(r) PROVE LeaseInv'
  <2>1. \A m \in Messages : \/ fate'[m] = fate[m] /\ lease'[m] = lease[m]
                            \/ fate'[m] = fate[m] /\ m = r.msg /\ attempt[m] = r.att
                            \/ fate'[m] = "acked"
    BY <1>4, LateEffect
  <2>2. UNCHANGED <<attempt, pc, batch>>
    BY <1>4, LateEffect
  <2>3. \A i \in Instances : held[i][r.msg] # r.att
    BY DEF LateInv
  <2> QED BY <2>1, <2>2, <2>3 DEF LeaseInv, Working, Due, batch
<1>5. ASSUME Tick PROVE LeaseInv'
  <2>1. ASSUME NEW i \in Instances, NEW m \in Messages,
               Working(i), ~lapsed[i], held[i][m] # 0, fate[m] = "pending"
        PROVE  held[i][m] = attempt[m] /\ lease'[m] > Due(i)'
    <3>1. keeper[i] # "off" /\ held[i][m] = attempt[m] /\ lease[m] > Due(i)
      BY <2>1 DEF ShapeInv, LeaseInv
    <3>2. timer'[i] = timer[i] - 1 /\ timer[i] > 0 /\ keeper' = keeper
      BY <1>5, <3>1 DEF Tick, TypeOK
    <3>3. lease'[m] = IF lease[m] > 0 THEN lease[m] - 1 ELSE 0
      BY <1>5 DEF Tick, Sooner
    <3> QED BY <3>1, <3>2, <3>3, BoundsAssumption DEF Due, TypeOK
  <2> QED BY <1>5, <2>1 DEF Tick, LeaseInv, Working
<1>6. ASSUME NEW i \in Instances, Pull(i) PROVE LeaseInv'
  <2>1. PICK S \in SUBSET {m \in Messages : Deliverable(m)} :
          /\ Handout(S)
          /\ held' = [held EXCEPT ![i] = [m \in Messages |-> IF m \in S THEN attempt[m] + 1 ELSE 0]]
    BY <1>6 DEF Pull
  <2>2. \A m \in Messages :
          /\ held'[i][m] = IF m \in S THEN attempt[m] + 1 ELSE 0
          /\ attempt'[m] = IF m \in S THEN attempt[m] + 1 ELSE attempt[m]
          /\ lease'[m] = IF m \in S THEN AckDeadline ELSE lease[m]
    BY <2>1 DEF Handout, TypeOK
  <2>3. Due(i)' = FirstRefresh + RpcBound
    BY <1>6 DEF Pull, SpawnKeeper, Due, TypeOK
  <2>4. ASSUME NEW j \in Instances, j # i
        PROVE  /\ held'[j] = held[j] /\ pc'[j] = pc[j] /\ lapsed'[j] = lapsed[j]
               /\ Due(j)' = Due(j) /\ Due(j) \in Nat
    BY <1>6, <2>1, <2>4, BoundsAssumption DEF Pull, SpawnKeeper, Due, TypeOK
  <2>5. \A m \in S : fate[m] = "pending" /\ lease[m] = 0
    BY <2>1 DEF Deliverable
  <2>6. fate' = fate
    BY <2>1 DEF Handout
  <2>7. ASSUME NEW m \in Messages, held'[i][m] # 0
        PROVE  held'[i][m] = attempt'[m] /\ lease'[m] > Due(i)'
    BY <2>2, <2>3, <2>7, LeaseAssumption
  <2>8. ASSUME NEW j \in Instances, j # i, NEW m \in Messages,
               Working(j), ~lapsed[j], held[j][m] # 0, fate[m] = "pending"
        PROVE  held'[j][m] = attempt'[m] /\ lease'[m] > Due(j)'
    <3>1. held[j][m] = attempt[m] /\ lease[m] > Due(j)
      BY <2>8 DEF LeaseInv
    <3> QED BY <2>2, <2>4, <2>5, <2>8, <3>1
  <2> QED BY <2>4, <2>6, <2>7, <2>8 DEF LeaseInv, Working
<1>7. ASSUME NEW i \in Instances, PullEmpty(i) PROVE LeaseInv'
  BY <1>7 DEF PullEmpty, LoopHead, LeaseInv, Working, Due, TypeOK, broker, batch
<1>8. ASSUME NEW i \in Instances, NEW m \in Messages, HandBack(i, m) PROVE LeaseInv'
  BY <1>8 DEF HandBack, Judge, LeaseInv, Working, Due, TypeOK, broker, batch
<1>9. ASSUME NEW i \in Instances, NEW m \in Messages, Drop(i, m) PROVE LeaseInv'
  BY <1>9 DEF Drop, Judge, LeaseInv, Working, Due, TypeOK, broker, batch
<1>10. ASSUME NEW i \in Instances, NEW m \in Messages, Dispatch(i, m) PROVE LeaseInv'
  BY <1>10 DEF Dispatch, LeaseInv, Working, Due, TypeOK, broker, batch
<1>11. ASSUME NEW i \in Instances, NEW m \in Messages, HandlersSucceed(i, m) PROVE LeaseInv'
  BY <1>11 DEF HandlersSucceed, Judge, LeaseInv, Working, Due, TypeOK, broker, batch
<1>12. ASSUME NEW i \in Instances, NEW m \in Messages, HandlersFail(i, m) PROVE LeaseInv'
  BY <1>12 DEF HandlersFail, Judge, LeaseInv, Working, Due, TypeOK, broker, batch
<1>13. ASSUME NEW i \in Instances, NEW m \in Messages, NEW r \in Messages, HandlersReplace(i, m, r)
      PROVE  LeaseInv'
  <2>1. \A j \in Instances : held[j][r] = 0
    BY <1>13 DEF HandlersReplace, HeldInv, TypeOK
  <2>2. /\ \A x \in Messages : x # r => fate'[x] = fate[x]
        /\ UNCHANGED <<attempt, lease, pc, held, keeper, timer, lapsed>>
    BY <1>13 DEF HandlersReplace, Judge, TypeOK
  <2> QED BY <2>1, <2>2 DEF LeaseInv, Working, Due
<1>14. ASSUME NEW i \in Instances, BatchDispatched(i) PROVE LeaseInv'
  BY <1>14 DEF BatchDispatched, At, LeaseInv, Working, Due, TypeOK, broker, batch
<1>15. ASSUME NEW i \in Instances, KeeperDrained(i) PROVE LeaseInv'
  BY <1>15 DEF KeeperDrained, LeaseInv, Working, Due, TypeOK, broker, batch
<1>16. ASSUME NEW i \in Instances, SendAcks(i) PROVE LeaseInv'
  <2>1. Judged(i, "ack") \in SUBSET Messages
    BY DEF Judged, Held
  <2>2. /\ attempt' = attempt
        /\ \A m \in Messages : (fate'[m] = fate[m] /\ lease'[m] = lease[m]) \/ fate'[m] = "acked"
    BY <1>16, <2>1, AcknowledgeEffect DEF SendAcks
  <2>3. UNCHANGED batch /\ \A j \in Instances : Working(j)' => Working(j)
    BY <1>16 DEF SendAcks, Working, TypeOK
  <2> QED BY <2>2, <2>3 DEF LeaseInv, Due, batch
<1>17. ASSUME NEW i \in Instances, SendNacks(i) PROVE LeaseInv'
  <2>1. PICK S \in SUBSET Messages :
          /\ held' = [held EXCEPT ![i] = [m \in Messages |-> IF m \in S THEN 0 ELSE held[i][m]]]
          /\ \A m \in Messages :
               lease'[m] = lease[m] \/ (m \in S /\ held[i][m] # 0 /\ attempt[m] = held[i][m])
    BY <1>17, NacksEffect
  <2>2. UNCHANGED <<fate, attempt, pc, keeper, timer, lapsed>>
    BY <1>17, NacksEffect
  <2>3. \A m \in Messages : held'[i][m] = IF m \in S THEN 0 ELSE held[i][m]
    BY <2>1 DEF TypeOK
  <2>4. \A j \in Instances, m \in Messages : j # i => held'[j][m] = held[j][m]
    BY <2>1 DEF TypeOK
  <2>5. \A j \in Instances, m \in Messages :
          j # i /\ held[j][m] # 0 /\ held[j][m] = attempt[m] => held[i][m] # attempt[m]
    BY DEF HeldInv
  <2> QED BY <2>1, <2>2, <2>3, <2>4, <2>5 DEF LeaseInv, Working, Due
<1>18. ASSUME NEW i \in Instances, BatchSettled(i) PROVE LeaseInv'
  BY <1>18 DEF BatchSettled, Release, LoopHead, LeaseInv, Working, Due, TypeOK, broker, batch
<1>19. ASSUME NEW i \in Instances, BackoffOver(i) PROVE LeaseInv'
  BY <1>19 DEF BackoffOver, LoopHead, LeaseInv, Working, Due, TypeOK, broker, batch
<1>20. ASSUME NEW i \in Instances, PullDenied(i) PROVE LeaseInv'
  BY <1>20 DEF PullDenied, LeaseInv, Working, Due, TypeOK, broker, batch
<1>21. ASSUME NEW i \in Instances, SettleError(i) PROVE LeaseInv'
  <2>1. /\ UNCHANGED <<fate, attempt, lease>> /\ \A m \in Messages : held'[i][m] = 0
        /\ \A j \in Instances : j # i => /\ held'[j] = held[j] /\ lapsed'[j] = lapsed[j]
                                         /\ pc'[j] = pc[j] /\ Due(j)' = Due(j)
    BY <1>21 DEF SettleError, Abandon, Release, Due, TypeOK, broker
  <2> QED BY <2>1 DEF LeaseInv, Working
<1>22. ASSUME NEW i \in Instances, SettleDenied(i) PROVE LeaseInv'
  <2>1. /\ UNCHANGED <<fate, attempt, lease>> /\ \A m \in Messages : held'[i][m] = 0
        /\ \A j \in Instances : j # i => /\ held'[j] = held[j] /\ lapsed'[j] = lapsed[j]
                                         /\ pc'[j] = pc[j] /\ Due(j)' = Due(j)
    BY <1>22 DEF SettleDenied, Abandon, Release, Due, TypeOK, broker
  <2> QED BY <2>1 DEF LeaseInv, Working
<1>23. ASSUME NEW i \in Instances, NEW m \in Messages, HandlersCancelled(i, m)
      PROVE  LeaseInv'
  <2>1. /\ UNCHANGED <<fate, attempt, lease>> /\ \A n \in Messages : held'[i][n] = 0
        /\ \A j \in Instances : j # i => /\ held'[j] = held[j] /\ lapsed'[j] = lapsed[j]
                                         /\ pc'[j] = pc[j] /\ Due(j)' = Due(j)
    BY <1>23 DEF HandlersCancelled, Abandon, Release, Due, TypeOK, broker
  <2> QED BY <2>1 DEF LeaseInv, Working
<1>24. ASSUME NEW i \in Instances, RefreshSent(i) PROVE LeaseInv'
  BY <1>24, BoundsAssumption DEF RefreshSent, LeaseInv, Working, Due, TypeOK, broker
<1>25. ASSUME NEW i \in Instances, RefreshLanded(i) PROVE LeaseInv'
  <2>1. Held(i) \in SUBSET Messages
    BY DEF Held
  <2>2. /\ UNCHANGED <<fate, attempt>>
        /\ \A m \in Messages :
             lease'[m] = lease[m] \/ (m \in Held(i) /\ attempt[m] = held[i][m])
        /\ \A m \in Held(i) : Current(m, held[i][m]) /\ lease[m] > 0 => lease'[m] = LeaseExtension
    BY <1>25, <2>1, ExtendEffect DEF RefreshLanded
  <2>3. Due(i) \in Nat /\ Due(i)' = RefreshInterval + RpcBound
    BY <1>25, BoundsAssumption DEF RefreshLanded, NextInterval, Due, TypeOK
  <2>4. UNCHANGED <<pc, held, lapsed>> /\ \A j \in Instances : j # i => Due(j)' = Due(j)
    BY <1>25 DEF RefreshLanded, NextInterval, Due, TypeOK
  <2>5. ASSUME NEW m \in Messages,
               Working(i), ~lapsed[i], held[i][m] # 0, fate[m] = "pending"
        PROVE  held[i][m] = attempt[m] /\ lease'[m] > Due(i)'
    <3>1. held[i][m] = attempt[m] /\ lease[m] > Due(i) /\ lease[m] \in Nat
      BY <2>5 DEF LeaseInv, TypeOK
    <3>2. m \in Held(i) /\ Current(m, held[i][m]) /\ lease[m] > 0
      BY <2>3, <2>5, <3>1 DEF Held, Current
    <3> QED BY <2>2, <2>3, <3>1, <3>2, LeaseAssumption
  <2>6. ASSUME NEW j \in Instances, j # i, NEW m \in Messages,
               Working(j), ~lapsed[j], held[j][m] # 0, fate[m] = "pending"
        PROVE  held[j][m] = attempt[m] /\ lease'[m] > Due(j)'
    <3>1. held[j][m] = attempt[m] /\ lease[m] > Due(j)
      BY <2>6 DEF LeaseInv
    <3>2. held[i][m] # attempt[m]
      BY <2>6, <3>1 DEF HeldInv
    <3> QED BY <2>2, <2>4, <2>6, <3>1, <3>2
  <2> QED BY <2>2, <2>4, <2>5, <2>6 DEF LeaseInv, Working
<1>26. ASSUME NEW i \in Instances, RefreshFailed(i) PROVE LeaseInv'
  <2>1. UNCHANGED <<fate, attempt, lease, pc, held>> /\ lapsed'[i] = TRUE
    BY <1>26 DEF RefreshFailed, NextInterval, broker, TypeOK
  <2>2. \A j \in Instances : j # i => lapsed'[j] = lapsed[j] /\ Due(j)' = Due(j)
    BY <1>26 DEF RefreshFailed, NextInterval, Due, TypeOK
  <2> QED BY <2>1, <2>2 DEF LeaseInv, Working
<1>27. ASSUME NEW i \in Instances, Start(i) PROVE LeaseInv'
  BY <1>27 DEF Start, LeaseInv, Working, Due, TypeOK, broker, batch
<1>28. ASSUME NEW i \in Instances, StopOvertakes(i) PROVE LeaseInv'
  BY <1>28 DEF StopOvertakes, LeaseInv, Working, Due, TypeOK, broker, batch
<1>29. ASSUME NEW i \in Instances, StartResumes(i) PROVE LeaseInv'
  BY <1>29 DEF StartResumes, LeaseInv, Working, Due, TypeOK, broker, batch
<1>30. ASSUME NEW i \in Instances, StartAborts(i) PROVE LeaseInv'
  BY <1>30 DEF StartAborts, LeaseInv, Working, Due, TypeOK, broker, batch
<1>31. ASSUME NEW i \in Instances, StopConsuming(i) PROVE LeaseInv'
  BY <1>31 DEF StopConsuming, LeaseInv, Working, Due, TypeOK, broker, batch
<1>32. ASSUME NEW i \in Instances, DrainDone(i) PROVE LeaseInv'
  BY <1>32 DEF DrainDone, LeaseInv, Working, Due, TypeOK, broker, batch
<1>33. ASSUME NEW i \in Instances, GraceOver(i) PROVE LeaseInv'
  BY <1>33 DEF GraceOver, LeaseInv, Working, Due, TypeOK, broker, batch
<1>34. ASSUME NEW i \in Instances, Unwound(i) PROVE LeaseInv'
  <2>1. /\ UNCHANGED <<fate, attempt, lease>> /\ \A m \in Messages : held'[i][m] = 0
        /\ \A j \in Instances : j # i => /\ held'[j] = held[j] /\ lapsed'[j] = lapsed[j]
                                         /\ pc'[j] = pc[j] /\ Due(j)' = Due(j)
    BY <1>34 DEF Unwound, Abandon, Release, Due, TypeOK, broker
  <2> QED BY <2>1 DEF LeaseInv, Working
<1>35. ASSUME NEW i \in Instances, Close(i) PROVE LeaseInv'
  <2>1. /\ UNCHANGED <<fate, attempt, lease>> /\ \A m \in Messages : held'[i][m] = 0
        /\ \A j \in Instances : j # i => /\ held'[j] = held[j] /\ lapsed'[j] = lapsed[j]
                                         /\ pc'[j] = pc[j] /\ Due(j)' = Due(j)
    BY <1>35 DEF Close, Abandon, Release, Due, TypeOK, broker
  <2> QED BY <2>1 DEF LeaseInv, Working
<1>36. ASSUME NEW i \in Instances, StopDone(i) PROVE LeaseInv'
  BY <1>36 DEF StopDone, LeaseInv, Working, Due, TypeOK, broker, batch
<1>37. ASSUME NEW i \in Instances, StopInterrupted(i) PROVE LeaseInv'
  <2>1. /\ UNCHANGED <<fate, attempt, lease>> /\ \A m \in Messages : held'[i][m] = 0
        /\ \A j \in Instances : j # i => /\ held'[j] = held[j] /\ lapsed'[j] = lapsed[j]
                                         /\ pc'[j] = pc[j] /\ Due(j)' = Due(j)
    BY <1>37 DEF StopInterrupted, Abandon, Release, Due, TypeOK, broker
  <2> QED BY <2>1 DEF LeaseInv, Working
<1>38. ASSUME NEW i \in Instances, Crash(i) PROVE LeaseInv'
  <2>1. /\ UNCHANGED <<fate, attempt, lease>> /\ \A m \in Messages : held'[i][m] = 0
        /\ \A j \in Instances : j # i => /\ held'[j] = held[j] /\ lapsed'[j] = lapsed[j]
                                         /\ pc'[j] = pc[j] /\ Due(j)' = Due(j)
    BY <1>38 DEF Crash, Abandon, Release, Due, TypeOK, broker
  <2> QED BY <2>1 DEF LeaseInv, Working
<1>39. CASE UNCHANGED vars
  BY <1>39 DEF vars, broker, batch, LeaseInv, Working, Due
<1>40. ASSUME NEW m \in Messages, Broker(m) PROVE LeaseInv'
  BY <1>40, <1>1, <1>2, <1>3 DEF Broker
<1>41. ASSUME NEW i \in Instances, LoopStep(i) PROVE LeaseInv'
  BY <1>41, <1>6, <1>7, <1>8, <1>9, <1>10, <1>11, <1>12, <1>13, <1>14, <1>15, <1>16, <1>17,
     <1>18, <1>19 DEF LoopStep
<1>42. ASSUME NEW i \in Instances, LoopFault(i) PROVE LeaseInv'
  BY <1>42, <1>20, <1>21, <1>22, <1>23 DEF LoopFault
<1>43. ASSUME NEW i \in Instances, Keeper(i) PROVE LeaseInv'
  BY <1>43, <1>24, <1>25, <1>26 DEF Keeper
<1>44. ASSUME NEW i \in Instances, Lifecycle(i) PROVE LeaseInv'
  BY <1>44, <1>27, <1>28, <1>29, <1>30, <1>31, <1>32, <1>33, <1>34, <1>35, <1>36, <1>37,
     <1>38 DEF Lifecycle
<1> QED
  BY <1>4, <1>5, <1>39, <1>40, <1>41, <1>42, <1>43, <1>44 DEF Next

(* One step puts no message into two live batches. *)
LEMMA WorkerStep ==
    ASSUME TypeOK, LeaseInv, WorkerInv, [Next]_vars
    PROVE  WorkerInv'
<1>1. ASSUME NEW m \in Messages, Publish(m) PROVE WorkerInv'
  BY <1>1 DEF Publish, WorkerInv, Working, TypeOK, batch
<1>2. ASSUME NEW m \in Messages, DeadLetter(m) PROVE WorkerInv'
  BY <1>2 DEF DeadLetter, WorkerInv, Working, TypeOK, batch
<1>3. ASSUME NEW m \in Messages, PullLost(m) PROVE WorkerInv'
  BY <1>3 DEF PullLost, WorkerInv, Working, TypeOK, batch
<1>4. ASSUME NEW r \in late, LateRequest(r) PROVE WorkerInv'
  BY <1>4, LateEffect DEF WorkerInv, Working, batch
<1>5. ASSUME Tick PROVE WorkerInv'
  BY <1>5 DEF Tick, WorkerInv, Working, TypeOK, batch
<1>6. ASSUME NEW i \in Instances, Pull(i) PROVE WorkerInv'
  <2>1. PICK S \in SUBSET {m \in Messages : Deliverable(m)} :
          held' = [held EXCEPT ![i] = [m \in Messages |-> IF m \in S THEN attempt[m] + 1 ELSE 0]]
    BY <1>6 DEF Pull
  <2>2. \A m \in Messages : held'[i][m] # 0 => fate[m] = "pending" /\ lease[m] = 0
    BY <2>1 DEF Deliverable, TypeOK
  <2>3. \A j \in Instances : j # i => held'[j] = held[j] /\ pc'[j] = pc[j] /\ lapsed'[j] = lapsed[j]
    BY <1>6, <2>1 DEF Pull, TypeOK
  <2>4. \A j \in Instances : Due(j) \in Nat
    BY BoundsAssumption DEF Due, TypeOK
  <2>5. ASSUME NEW j \in Instances, NEW m \in Messages,
               j # i, Working(j), held[j][m] # 0, held'[i][m] # 0
        PROVE  lapsed'[j]
    BY <2>2, <2>3, <2>4, <2>5 DEF LeaseInv
  <2> QED BY <2>3, <2>5 DEF WorkerInv, Working
<1>7. ASSUME NEW i \in Instances, PullEmpty(i) PROVE WorkerInv'
  BY <1>7 DEF PullEmpty, LoopHead, WorkerInv, Working, TypeOK, batch
<1>8. ASSUME NEW i \in Instances, NEW m \in Messages, HandBack(i, m) PROVE WorkerInv'
  BY <1>8 DEF HandBack, Judge, WorkerInv, Working, TypeOK, batch
<1>9. ASSUME NEW i \in Instances, NEW m \in Messages, Drop(i, m) PROVE WorkerInv'
  BY <1>9 DEF Drop, Judge, WorkerInv, Working, TypeOK, batch
<1>10. ASSUME NEW i \in Instances, NEW m \in Messages, Dispatch(i, m) PROVE WorkerInv'
  BY <1>10 DEF Dispatch, WorkerInv, Working, TypeOK, batch
<1>11. ASSUME NEW i \in Instances, NEW m \in Messages, HandlersSucceed(i, m)
      PROVE  WorkerInv'
  BY <1>11 DEF HandlersSucceed, Judge, WorkerInv, Working, TypeOK, batch
<1>12. ASSUME NEW i \in Instances, NEW m \in Messages, HandlersFail(i, m) PROVE WorkerInv'
  BY <1>12 DEF HandlersFail, Judge, WorkerInv, Working, TypeOK, batch
<1>13. ASSUME NEW i \in Instances, NEW m \in Messages, NEW r \in Messages, HandlersReplace(i, m, r)
      PROVE  WorkerInv'
  BY <1>13 DEF HandlersReplace, Judge, WorkerInv, Working, TypeOK, batch
<1>14. ASSUME NEW i \in Instances, BatchDispatched(i) PROVE WorkerInv'
  BY <1>14 DEF BatchDispatched, At, WorkerInv, Working, TypeOK, batch
<1>15. ASSUME NEW i \in Instances, KeeperDrained(i) PROVE WorkerInv'
  BY <1>15 DEF KeeperDrained, WorkerInv, Working, TypeOK, batch
<1>16. ASSUME NEW i \in Instances, SendAcks(i) PROVE WorkerInv'
  BY <1>16 DEF SendAcks, WorkerInv, Working, TypeOK, batch
<1>17. ASSUME NEW i \in Instances, SendNacks(i) PROVE WorkerInv'
  <2>1. UNCHANGED <<pc, lapsed>>
    BY <1>17, NacksEffect
  <2>2. \A j \in Instances, m \in Messages : held'[j][m] = 0 \/ held'[j][m] = held[j][m]
    <3>1. PICK S \in SUBSET Messages :
            held' = [held EXCEPT ![i] = [m \in Messages |-> IF m \in S THEN 0 ELSE held[i][m]]]
      BY <1>17, NacksEffect
    <3> QED BY <3>1 DEF TypeOK
  <2> QED BY <2>1, <2>2 DEF WorkerInv, Working
<1>18. ASSUME NEW i \in Instances, BatchSettled(i) PROVE WorkerInv'
  <2>1. /\ \A m \in Messages : held'[i][m] = 0
        /\ \A j \in Instances : j # i => /\ held'[j] = held[j] /\ lapsed'[j] = lapsed[j]
                                         /\ pc'[j] = pc[j]
    BY <1>18 DEF BatchSettled, Release, TypeOK
  <2> QED BY <2>1 DEF WorkerInv, Working
<1>19. ASSUME NEW i \in Instances, BackoffOver(i) PROVE WorkerInv'
  BY <1>19 DEF BackoffOver, LoopHead, WorkerInv, Working, TypeOK, batch
<1>20. ASSUME NEW i \in Instances, PullDenied(i) PROVE WorkerInv'
  BY <1>20 DEF PullDenied, WorkerInv, Working, TypeOK, batch
<1>21. ASSUME NEW i \in Instances, SettleError(i) PROVE WorkerInv'
  <2>1. /\ \A m \in Messages : held'[i][m] = 0
        /\ \A j \in Instances : j # i => /\ held'[j] = held[j] /\ lapsed'[j] = lapsed[j]
                                         /\ pc'[j] = pc[j]
    BY <1>21 DEF SettleError, Abandon, Release, TypeOK
  <2> QED BY <2>1 DEF WorkerInv, Working
<1>22. ASSUME NEW i \in Instances, SettleDenied(i) PROVE WorkerInv'
  <2>1. /\ \A m \in Messages : held'[i][m] = 0
        /\ \A j \in Instances : j # i => /\ held'[j] = held[j] /\ lapsed'[j] = lapsed[j]
                                         /\ pc'[j] = pc[j]
    BY <1>22 DEF SettleDenied, Abandon, Release, TypeOK
  <2> QED BY <2>1 DEF WorkerInv, Working
<1>23. ASSUME NEW i \in Instances, NEW m \in Messages, HandlersCancelled(i, m)
      PROVE  WorkerInv'
  <2>1. /\ \A n \in Messages : held'[i][n] = 0
        /\ \A j \in Instances : j # i => /\ held'[j] = held[j] /\ lapsed'[j] = lapsed[j]
                                         /\ pc'[j] = pc[j]
    BY <1>23 DEF HandlersCancelled, Abandon, Release, TypeOK
  <2> QED BY <2>1 DEF WorkerInv, Working
<1>24. ASSUME NEW i \in Instances, RefreshSent(i) PROVE WorkerInv'
  BY <1>24 DEF RefreshSent, WorkerInv, Working, TypeOK, batch
<1>25. ASSUME NEW i \in Instances, RefreshLanded(i) PROVE WorkerInv'
  BY <1>25 DEF RefreshLanded, NextInterval, WorkerInv, Working
<1>26. ASSUME NEW i \in Instances, RefreshFailed(i) PROVE WorkerInv'
  <2>1. /\ UNCHANGED <<held, pc>> /\ lapsed'[i] = TRUE
        /\ \A j \in Instances : j # i => lapsed'[j] = lapsed[j]
    BY <1>26 DEF RefreshFailed, NextInterval, TypeOK
  <2> QED BY <2>1 DEF WorkerInv, Working
<1>27. ASSUME NEW i \in Instances, Start(i) PROVE WorkerInv'
  BY <1>27 DEF Start, WorkerInv, Working, TypeOK, batch
<1>28. ASSUME NEW i \in Instances, StopOvertakes(i) PROVE WorkerInv'
  BY <1>28 DEF StopOvertakes, WorkerInv, Working, TypeOK, batch
<1>29. ASSUME NEW i \in Instances, StartResumes(i) PROVE WorkerInv'
  BY <1>29 DEF StartResumes, WorkerInv, Working, TypeOK, batch
<1>30. ASSUME NEW i \in Instances, StartAborts(i) PROVE WorkerInv'
  BY <1>30 DEF StartAborts, WorkerInv, Working, TypeOK, batch
<1>31. ASSUME NEW i \in Instances, StopConsuming(i) PROVE WorkerInv'
  BY <1>31 DEF StopConsuming, WorkerInv, Working, TypeOK, batch
<1>32. ASSUME NEW i \in Instances, DrainDone(i) PROVE WorkerInv'
  BY <1>32 DEF DrainDone, WorkerInv, Working, TypeOK, batch
<1>33. ASSUME NEW i \in Instances, GraceOver(i) PROVE WorkerInv'
  BY <1>33 DEF GraceOver, WorkerInv, Working, TypeOK, batch
<1>34. ASSUME NEW i \in Instances, Unwound(i) PROVE WorkerInv'
  <2>1. /\ \A m \in Messages : held'[i][m] = 0
        /\ \A j \in Instances : j # i => /\ held'[j] = held[j] /\ lapsed'[j] = lapsed[j]
                                         /\ pc'[j] = pc[j]
    BY <1>34 DEF Unwound, Abandon, Release, TypeOK
  <2> QED BY <2>1 DEF WorkerInv, Working
<1>35. ASSUME NEW i \in Instances, Close(i) PROVE WorkerInv'
  <2>1. /\ \A m \in Messages : held'[i][m] = 0
        /\ \A j \in Instances : j # i => /\ held'[j] = held[j] /\ lapsed'[j] = lapsed[j]
                                         /\ pc'[j] = pc[j]
    BY <1>35 DEF Close, Abandon, Release, TypeOK
  <2> QED BY <2>1 DEF WorkerInv, Working
<1>36. ASSUME NEW i \in Instances, StopDone(i) PROVE WorkerInv'
  BY <1>36 DEF StopDone, WorkerInv, Working, TypeOK, batch
<1>37. ASSUME NEW i \in Instances, StopInterrupted(i) PROVE WorkerInv'
  <2>1. /\ \A m \in Messages : held'[i][m] = 0
        /\ \A j \in Instances : j # i => /\ held'[j] = held[j] /\ lapsed'[j] = lapsed[j]
                                         /\ pc'[j] = pc[j]
    BY <1>37 DEF StopInterrupted, Abandon, Release, TypeOK
  <2> QED BY <2>1 DEF WorkerInv, Working
<1>38. ASSUME NEW i \in Instances, Crash(i) PROVE WorkerInv'
  <2>1. /\ \A m \in Messages : held'[i][m] = 0
        /\ \A j \in Instances : j # i => /\ held'[j] = held[j] /\ lapsed'[j] = lapsed[j]
                                         /\ pc'[j] = pc[j]
    BY <1>38 DEF Crash, Abandon, Release, TypeOK
  <2> QED BY <2>1 DEF WorkerInv, Working
<1>39. CASE UNCHANGED vars
  BY <1>39 DEF vars, batch, WorkerInv, Working
<1>40. ASSUME NEW m \in Messages, Broker(m) PROVE WorkerInv'
  BY <1>40, <1>1, <1>2, <1>3 DEF Broker
<1>41. ASSUME NEW i \in Instances, LoopStep(i) PROVE WorkerInv'
  BY <1>41, <1>6, <1>7, <1>8, <1>9, <1>10, <1>11, <1>12, <1>13, <1>14, <1>15, <1>16, <1>17,
     <1>18, <1>19 DEF LoopStep
<1>42. ASSUME NEW i \in Instances, LoopFault(i) PROVE WorkerInv'
  BY <1>42, <1>20, <1>21, <1>22, <1>23 DEF LoopFault
<1>43. ASSUME NEW i \in Instances, Keeper(i) PROVE WorkerInv'
  BY <1>43, <1>24, <1>25, <1>26 DEF Keeper
<1>44. ASSUME NEW i \in Instances, Lifecycle(i) PROVE WorkerInv'
  BY <1>44, <1>27, <1>28, <1>29, <1>30, <1>31, <1>32, <1>33, <1>34, <1>35, <1>36, <1>37,
     <1>38 DEF Lifecycle
<1> QED
  BY <1>4, <1>5, <1>39, <1>40, <1>41, <1>42, <1>43, <1>44 DEF Next

-----------------------------------------------------------------------------
(* What is acknowledged has been answered for *)

(* One step brings up nothing to acknowledge that is not answered for. *)
LEMMA AnswerStep ==
    ASSUME TypeOK, HeldInv, AnswerInv, [Next]_vars
    PROVE  AnswerInv'
<1>1. ASSUME NEW m \in Messages, Publish(m) PROVE AnswerInv'
  <2>1. Answered \subseteq Answered'
    BY <1>1 DEF Publish, Answered, Dropped, history, TypeOK
  <2> QED BY <1>1, <2>1 DEF Publish, AnswerInv, batch
<1>2. ASSUME NEW m \in Messages, DeadLetter(m) PROVE AnswerInv'
  <2>1. Answered \subseteq Answered'
    BY <1>2 DEF DeadLetter, Answered, Dropped, history, TypeOK
  <2> QED BY <1>2, <2>1 DEF DeadLetter, AnswerInv, batch
<1>3. ASSUME NEW m \in Messages, PullLost(m) PROVE AnswerInv'
  BY <1>3 DEF PullLost, Handout, AnswerInv, Answered, Dropped, batch, history
<1>4. ASSUME NEW r \in late, LateRequest(r) PROVE AnswerInv'
  <2>1. Answered \subseteq Answered'
    <3>1. /\ UNCHANGED <<kind, handled, replaced>>
          /\ \A m \in Messages : fate'[m] = fate[m] \/ fate'[m] = "acked"
      BY <1>4, LateEffect DEF history
    <3> QED BY <3>1 DEF Answered, Dropped
  <2> QED BY <1>4, <2>1, LateEffect DEF AnswerInv, batch
<1>5. ASSUME Tick PROVE AnswerInv'
  BY <1>5 DEF Tick, AnswerInv, Answered, Dropped, broker, batch, history
<1>6. ASSUME NEW i \in Instances, Pull(i) PROVE AnswerInv'
  BY <1>6 DEF Pull, Handout, AnswerInv, Answered, Dropped, history
<1>7. ASSUME NEW i \in Instances, PullEmpty(i) PROVE AnswerInv'
  BY <1>7 DEF PullEmpty, LoopHead, AnswerInv, Answered, Dropped, broker, batch, history
<1>8. ASSUME NEW i \in Instances, NEW m \in Messages, HandBack(i, m) PROVE AnswerInv'
  <2>1. /\ Answered' = Answered /\ late' = late
        /\ \A j \in Instances, x \in Messages :
             verdict'[j][x] = verdict[j][x] \/ verdict'[j][x] # "ack"
    BY <1>8 DEF HandBack, Judge, Answered, Dropped, broker, history, TypeOK
  <2> QED BY <2>1 DEF AnswerInv
<1>9. ASSUME NEW i \in Instances, NEW m \in Messages, Drop(i, m) PROVE AnswerInv'
  <2>1. fate[m] # "unpublished" /\ kind[m] = "unwanted"
    BY <1>9 DEF Drop, NextMessage, Judged, Held, HeldInv, TypeOK
  <2>2. m \in Answered
    BY <2>1 DEF Answered, Dropped
  <2>3. /\ Answered' = Answered /\ late' = late
        /\ \A j \in Instances, x \in Messages : verdict'[j][x] = verdict[j][x] \/ x = m
    BY <1>9 DEF Drop, Judge, Answered, Dropped, broker, history, TypeOK
  <2> QED BY <2>2, <2>3 DEF AnswerInv
<1>10. ASSUME NEW i \in Instances, NEW m \in Messages, Dispatch(i, m) PROVE AnswerInv'
  BY <1>10 DEF Dispatch, AnswerInv, Answered, Dropped, broker, batch, history
<1>11. ASSUME NEW i \in Instances, NEW m \in Messages, HandlersSucceed(i, m)
      PROVE  AnswerInv'
  <2>1. /\ Answered \subseteq Answered' /\ m \in Answered' /\ late' = late
        /\ \A j \in Instances, x \in Messages : verdict'[j][x] = verdict[j][x] \/ x = m
    BY <1>11 DEF HandlersSucceed, Judge, Answered, Dropped, broker, TypeOK
  <2> QED BY <2>1 DEF AnswerInv
<1>12. ASSUME NEW i \in Instances, NEW m \in Messages, HandlersFail(i, m) PROVE AnswerInv'
  <2>1. /\ Answered' = Answered /\ late' = late
        /\ \A j \in Instances, x \in Messages :
             verdict'[j][x] = verdict[j][x] \/ verdict'[j][x] # "ack"
    BY <1>12 DEF HandlersFail, Judge, Answered, Dropped, broker, history, TypeOK
  <2> QED BY <2>1 DEF AnswerInv
<1>13. ASSUME NEW i \in Instances, NEW m \in Messages, NEW r \in Messages, HandlersReplace(i, m, r)
      PROVE  AnswerInv'
  <2>1. Answered \subseteq Answered' /\ m \in Answered'
    BY <1>13 DEF HandlersReplace, Answered, Dropped, TypeOK
  <2>2. /\ late' = late
        /\ \A j \in Instances, x \in Messages : verdict'[j][x] = verdict[j][x] \/ x = m
    BY <1>13 DEF HandlersReplace, Judge, TypeOK
  <2> QED BY <2>1, <2>2 DEF AnswerInv
<1>14. ASSUME NEW i \in Instances, BatchDispatched(i) PROVE AnswerInv'
  BY <1>14 DEF BatchDispatched, At, AnswerInv, Answered, Dropped, broker, batch, history
<1>15. ASSUME NEW i \in Instances, KeeperDrained(i) PROVE AnswerInv'
  BY <1>15 DEF KeeperDrained, AnswerInv, Answered, Dropped, broker, batch, history
<1>16. ASSUME NEW i \in Instances, SendAcks(i) PROVE AnswerInv'
  <2>1. Judged(i, "ack") \in SUBSET Messages
    BY DEF Judged, Held
  <2>2. Answered \subseteq Answered'
    <3>1. /\ UNCHANGED <<kind, handled, replaced>>
          /\ \A m \in Messages : fate'[m] = fate[m] \/ fate'[m] = "acked"
      BY <1>16, <2>1, AcknowledgeEffect DEF SendAcks, history
    <3> QED BY <3>1 DEF Answered, Dropped
  <2> QED BY <1>16, <2>2 DEF SendAcks, AnswerInv, batch
<1>17. ASSUME NEW i \in Instances, SendNacks(i) PROVE AnswerInv'
  <2>1. UNCHANGED <<fate, kind, late, handled, replaced>>
    BY <1>17, NacksEffect DEF history
  <2>2. \A j \in Instances, m \in Messages :
          verdict'[j][m] = verdict[j][m] \/ verdict'[j][m] = "none"
    <3>1. PICK S \in SUBSET Messages :
            verdict' = [verdict EXCEPT ![i] =
                          [m \in Messages |-> IF m \in S THEN "none" ELSE verdict[i][m]]]
      BY <1>17, NacksEffect
    <3> QED BY <3>1 DEF TypeOK
  <2> QED BY <2>1, <2>2 DEF AnswerInv, Answered, Dropped
<1>18. ASSUME NEW i \in Instances, BatchSettled(i) PROVE AnswerInv'
  <2>1. /\ Answered' = Answered /\ late' = late
        /\ \A j \in Instances, m \in Messages :
             verdict'[j][m] = verdict[j][m] \/ verdict'[j][m] = "none"
    BY <1>18 DEF BatchSettled, Release, Answered, Dropped, broker, history, TypeOK
  <2> QED BY <2>1 DEF AnswerInv
<1>19. ASSUME NEW i \in Instances, BackoffOver(i) PROVE AnswerInv'
  BY <1>19 DEF BackoffOver, LoopHead, AnswerInv, Answered, Dropped, broker, batch, history
<1>20. ASSUME NEW i \in Instances, PullDenied(i) PROVE AnswerInv'
  BY <1>20 DEF PullDenied, AnswerInv, Answered, Dropped, broker, batch, history
<1>21. ASSUME NEW i \in Instances, SettleError(i) PROVE AnswerInv'
  <2>1. /\ Answered' = Answered /\ late' = late \cup OnThreads(i)
        /\ \A j \in Instances, m \in Messages :
             verdict'[j][m] = verdict[j][m] \/ verdict'[j][m] = "none"
    BY <1>21 DEF SettleError, Abandon, Release, Answered, Dropped, broker, history, TypeOK
  <2>2. \A r \in OnThreads(i) : r.what = "ack" => r.msg \in Answered
    BY OnThreadsShape DEF AnswerInv
  <2> QED BY <2>1, <2>2 DEF AnswerInv
<1>22. ASSUME NEW i \in Instances, SettleDenied(i) PROVE AnswerInv'
  <2>1. /\ Answered' = Answered /\ late' = late \cup OnThreads(i)
        /\ \A j \in Instances, m \in Messages :
             verdict'[j][m] = verdict[j][m] \/ verdict'[j][m] = "none"
    BY <1>22 DEF SettleDenied, Abandon, Release, Answered, Dropped, broker, history, TypeOK
  <2>2. \A r \in OnThreads(i) : r.what = "ack" => r.msg \in Answered
    BY OnThreadsShape DEF AnswerInv
  <2> QED BY <2>1, <2>2 DEF AnswerInv
<1>23. ASSUME NEW i \in Instances, NEW m \in Messages, HandlersCancelled(i, m)
      PROVE  AnswerInv'
  <2>1. /\ Answered' = Answered /\ late' = late \cup OnThreads(i)
        /\ \A j \in Instances, n \in Messages :
             verdict'[j][n] = verdict[j][n] \/ verdict'[j][n] = "none"
    BY <1>23 DEF HandlersCancelled, Abandon, Release, Answered, Dropped, broker, history,
       TypeOK
  <2>2. \A r \in OnThreads(i) : r.what = "ack" => r.msg \in Answered
    BY OnThreadsShape DEF AnswerInv
  <2> QED BY <2>1, <2>2 DEF AnswerInv
<1>24. ASSUME NEW i \in Instances, RefreshSent(i) PROVE AnswerInv'
  BY <1>24 DEF RefreshSent, AnswerInv, Answered, Dropped, broker, batch, history
<1>25. ASSUME NEW i \in Instances, RefreshLanded(i) PROVE AnswerInv'
  <2>1. Held(i) \in SUBSET Messages
    BY DEF Held
  <2>2. UNCHANGED <<fate, kind, late, handled, replaced, verdict>>
    BY <1>25, <2>1, ExtendEffect DEF RefreshLanded, NextInterval, history
  <2> QED BY <2>2 DEF AnswerInv, Answered, Dropped
<1>26. ASSUME NEW i \in Instances, RefreshFailed(i) PROVE AnswerInv'
  BY <1>26 DEF RefreshFailed, NextInterval, AnswerInv, Answered, Dropped, broker, batch,
     history
<1>27. ASSUME NEW i \in Instances, Start(i) PROVE AnswerInv'
  BY <1>27 DEF Start, AnswerInv, Answered, Dropped, broker, batch, history
<1>28. ASSUME NEW i \in Instances, StopOvertakes(i) PROVE AnswerInv'
  BY <1>28 DEF StopOvertakes, AnswerInv, Answered, Dropped, broker, batch, history
<1>29. ASSUME NEW i \in Instances, StartResumes(i) PROVE AnswerInv'
  BY <1>29 DEF StartResumes, AnswerInv, Answered, Dropped, broker, batch, history
<1>30. ASSUME NEW i \in Instances, StartAborts(i) PROVE AnswerInv'
  BY <1>30 DEF StartAborts, AnswerInv, Answered, Dropped, broker, batch, history
<1>31. ASSUME NEW i \in Instances, StopConsuming(i) PROVE AnswerInv'
  BY <1>31 DEF StopConsuming, AnswerInv, Answered, Dropped, broker, batch, history
<1>32. ASSUME NEW i \in Instances, DrainDone(i) PROVE AnswerInv'
  BY <1>32 DEF DrainDone, AnswerInv, Answered, Dropped, broker, batch, history
<1>33. ASSUME NEW i \in Instances, GraceOver(i) PROVE AnswerInv'
  BY <1>33 DEF GraceOver, AnswerInv, Answered, Dropped, broker, batch, history
<1>34. ASSUME NEW i \in Instances, Unwound(i) PROVE AnswerInv'
  <2>1. /\ Answered' = Answered /\ late' = late \cup OnThreads(i)
        /\ \A j \in Instances, m \in Messages :
             verdict'[j][m] = verdict[j][m] \/ verdict'[j][m] = "none"
    BY <1>34 DEF Unwound, Abandon, Release, Answered, Dropped, broker, history, TypeOK
  <2>2. \A r \in OnThreads(i) : r.what = "ack" => r.msg \in Answered
    BY OnThreadsShape DEF AnswerInv
  <2> QED BY <2>1, <2>2 DEF AnswerInv
<1>35. ASSUME NEW i \in Instances, Close(i) PROVE AnswerInv'
  <2>1. /\ Answered' = Answered /\ late' = late \cup OnThreads(i)
        /\ \A j \in Instances, m \in Messages :
             verdict'[j][m] = verdict[j][m] \/ verdict'[j][m] = "none"
    BY <1>35 DEF Close, Abandon, Release, Answered, Dropped, broker, history, TypeOK
  <2>2. \A r \in OnThreads(i) : r.what = "ack" => r.msg \in Answered
    BY OnThreadsShape DEF AnswerInv
  <2> QED BY <2>1, <2>2 DEF AnswerInv
<1>36. ASSUME NEW i \in Instances, StopDone(i) PROVE AnswerInv'
  BY <1>36 DEF StopDone, AnswerInv, Answered, Dropped, broker, batch, history
<1>37. ASSUME NEW i \in Instances, StopInterrupted(i) PROVE AnswerInv'
  <2>1. /\ Answered' = Answered /\ late' = late \cup OnThreads(i)
        /\ \A j \in Instances, m \in Messages :
             verdict'[j][m] = verdict[j][m] \/ verdict'[j][m] = "none"
    BY <1>37 DEF StopInterrupted, Abandon, Release, Answered, Dropped, broker, history, TypeOK
  <2>2. \A r \in OnThreads(i) : r.what = "ack" => r.msg \in Answered
    BY OnThreadsShape DEF AnswerInv
  <2> QED BY <2>1, <2>2 DEF AnswerInv
<1>38. ASSUME NEW i \in Instances, Crash(i) PROVE AnswerInv'
  <2>1. /\ Answered' = Answered /\ late' = late \cup OnThreads(i)
        /\ \A j \in Instances, m \in Messages :
             verdict'[j][m] = verdict[j][m] \/ verdict'[j][m] = "none"
    BY <1>38 DEF Crash, Abandon, Release, Answered, Dropped, broker, history, TypeOK
  <2>2. \A r \in OnThreads(i) : r.what = "ack" => r.msg \in Answered
    BY OnThreadsShape DEF AnswerInv
  <2> QED BY <2>1, <2>2 DEF AnswerInv
<1>39. CASE UNCHANGED vars
  BY <1>39 DEF vars, broker, batch, history, AnswerInv, Answered, Dropped
<1>40. ASSUME NEW m \in Messages, Broker(m) PROVE AnswerInv'
  BY <1>40, <1>1, <1>2, <1>3 DEF Broker
<1>41. ASSUME NEW i \in Instances, LoopStep(i) PROVE AnswerInv'
  BY <1>41, <1>6, <1>7, <1>8, <1>9, <1>10, <1>11, <1>12, <1>13, <1>14, <1>15, <1>16, <1>17,
     <1>18, <1>19 DEF LoopStep
<1>42. ASSUME NEW i \in Instances, LoopFault(i) PROVE AnswerInv'
  BY <1>42, <1>20, <1>21, <1>22, <1>23 DEF LoopFault
<1>43. ASSUME NEW i \in Instances, Keeper(i) PROVE AnswerInv'
  BY <1>43, <1>24, <1>25, <1>26 DEF Keeper
<1>44. ASSUME NEW i \in Instances, Lifecycle(i) PROVE AnswerInv'
  BY <1>44, <1>27, <1>28, <1>29, <1>30, <1>31, <1>32, <1>33, <1>34, <1>35, <1>36, <1>37,
     <1>38 DEF Lifecycle
<1> QED
  BY <1>4, <1>5, <1>39, <1>40, <1>41, <1>42, <1>43, <1>44 DEF Next

(* A step that leaves the answers and the fates alone maps to a stutter. *)
LEMMA Stutter ==
    ASSUME UNCHANGED <<fate, kind, handled, replaced>>
    PROVE  [AtLeastOnce!Next]_(AtLeastOnce!vars)
BY DEF AtLeastOnce!vars, Dropped

(* Retiring answered pending messages maps to an Ack, or to a stutter when     *)
(* there are none.                                                             *)
LEMMA AckMaps ==
    ASSUME TypeOK, NEW ok \in SUBSET Messages, ok \subseteq Answered,
           \A m \in ok : fate[m] = "pending",
           fate' = [m \in Messages |-> IF m \in ok THEN "acked" ELSE fate[m]],
           UNCHANGED <<kind, handled, replaced>>
    PROVE  [AtLeastOnce!Next]_(AtLeastOnce!vars)
<1>1. Dropped' = Dropped
  BY DEF Dropped, TypeOK
<1>2. CASE ok = {}
  <2>1. fate' = fate
    BY <1>2 DEF TypeOK
  <2> QED BY <1>1, <2>1 DEF AtLeastOnce!vars
<1>3. CASE ok # {}
  <2>1. AtLeastOnce!Ack(ok)
    BY <1>1, <1>3 DEF AtLeastOnce!Ack, Answered
  <2> QED BY <2>1 DEF AtLeastOnce!Next
<1> QED BY <1>2, <1>3

(* Every step of the bus is a step of Delivery or a stutter. *)
LEMMA DeliveryStep ==
    ASSUME TypeOK, TypeOK', ShapeInv, HeldInv, AnswerInv, [Next]_vars
    PROVE  [AtLeastOnce!Next]_(AtLeastOnce!vars)
<1>1. ASSUME NEW m \in Messages, Publish(m) PROVE [AtLeastOnce!Next]_(AtLeastOnce!vars)
  <2>1. fate[m] = "unpublished" /\ fate' = [fate EXCEPT ![m] = "pending"]
    BY <1>1 DEF Publish
  <2>2. Answered' \in {Answered, Answered \cup {m}}
    BY <1>1 DEF Publish, Answered, Dropped, history, TypeOK
  <2>3. AtLeastOnce!Publish(m)
    BY <2>1, <2>2 DEF AtLeastOnce!Publish, Answered
  <2> QED BY <2>3 DEF AtLeastOnce!Next
<1>2. ASSUME NEW m \in Messages, DeadLetter(m) PROVE [AtLeastOnce!Next]_(AtLeastOnce!vars)
  <2>1. Answered' = Answered
    BY <1>2 DEF DeadLetter, Answered, Dropped, history, TypeOK
  <2>2. AtLeastOnce!DeadLetter(m)
    BY <1>2, <2>1 DEF DeadLetter, AtLeastOnce!DeadLetter, Answered
  <2> QED BY <2>2 DEF AtLeastOnce!Next
<1>3. ASSUME NEW m \in Messages, PullLost(m) PROVE [AtLeastOnce!Next]_(AtLeastOnce!vars)
  BY <1>3, Stutter DEF PullLost, Handout, history
<1>4. ASSUME NEW r \in late, LateRequest(r) PROVE [AtLeastOnce!Next]_(AtLeastOnce!vars)
  <2>1. CASE r.what = "ack"
    <3>1. r.msg \in Messages /\ UNCHANGED <<kind, handled, replaced>>
      BY <1>4, LateEffect DEF history
    <3>2. CASE fate' = fate
      BY <3>1, <3>2, Stutter
    <3>3. CASE /\ fate[r.msg] = "pending"
               /\ fate' = [m \in Messages |-> IF m \in {r.msg} THEN "acked" ELSE fate[m]]
      <4> DEFINE ok == {r.msg}
      <4>1. ok \in SUBSET Messages /\ ok \subseteq Answered
        BY <1>4, <2>1, <3>1 DEF AnswerInv, LateRequest
      <4>2. /\ \A m \in ok : fate[m] = "pending"
            /\ fate' = [m \in Messages |-> IF m \in ok THEN "acked" ELSE fate[m]]
        BY <3>3
      <4> HIDE DEF ok
      <4> QED BY <3>1, <4>1, <4>2, AckMaps
    <3> QED
      <4>1. \/ fate'[r.msg] = fate[r.msg]
            \/ fate[r.msg] = "pending" /\ fate'[r.msg] = "acked"
        BY <1>4, <3>1, LateEffect
      <4>2. \A m \in Messages : m # r.msg => fate'[m] = fate[m]
        BY <1>4, LateEffect
      <4>3. fate \in [Messages -> {"unpublished", "pending", "acked", "dead"}]
            /\ fate' \in [Messages -> {"unpublished", "pending", "acked", "dead"}]
        BY DEF TypeOK
      <4> QED BY <3>1, <3>2, <3>3, <4>1, <4>2, <4>3
  <2>2. CASE r.what # "ack"
    <3>1. UNCHANGED <<kind, handled, replaced>> /\ \A m \in Messages : fate'[m] = fate[m]
      BY <1>4, <2>2, LateEffect DEF history
    <3>2. fate' = fate
      BY <3>1 DEF TypeOK
    <3> QED BY <3>1, <3>2, Stutter
  <2> QED BY <2>1, <2>2
<1>5. ASSUME Tick PROVE [AtLeastOnce!Next]_(AtLeastOnce!vars)
  BY <1>5, Stutter DEF Tick, history
<1>6. ASSUME NEW i \in Instances, Pull(i) PROVE [AtLeastOnce!Next]_(AtLeastOnce!vars)
  BY <1>6, Stutter DEF Pull, Handout, history
<1>7. ASSUME NEW i \in Instances, PullEmpty(i) PROVE [AtLeastOnce!Next]_(AtLeastOnce!vars)
  BY <1>7, Stutter DEF PullEmpty, broker, history
<1>8. ASSUME NEW i \in Instances, NEW m \in Messages, HandBack(i, m)
      PROVE  [AtLeastOnce!Next]_(AtLeastOnce!vars)
  BY <1>8, Stutter DEF HandBack, broker, history
<1>9. ASSUME NEW i \in Instances, NEW m \in Messages, Drop(i, m)
      PROVE  [AtLeastOnce!Next]_(AtLeastOnce!vars)
  BY <1>9, Stutter DEF Drop, broker, history
<1>10. ASSUME NEW i \in Instances, NEW m \in Messages, Dispatch(i, m)
      PROVE  [AtLeastOnce!Next]_(AtLeastOnce!vars)
  BY <1>10, Stutter DEF Dispatch, broker, history
<1>11. ASSUME NEW i \in Instances, NEW m \in Messages, HandlersSucceed(i, m)
      PROVE  [AtLeastOnce!Next]_(AtLeastOnce!vars)
  <2>1. fate[m] # "unpublished"
    BY <1>11 DEF HandlersSucceed, Awaiting, ShapeInv, HeldInv, TypeOK
  <2>2. fate' = fate /\ Answered' = Answered \cup {m}
    BY <1>11 DEF HandlersSucceed, Answered, Dropped, broker
  <2>3. AtLeastOnce!Answer(m)
    BY <2>1, <2>2 DEF AtLeastOnce!Answer, Answered
  <2> QED BY <2>3 DEF AtLeastOnce!Next
<1>12. ASSUME NEW i \in Instances, NEW m \in Messages, HandlersFail(i, m)
      PROVE  [AtLeastOnce!Next]_(AtLeastOnce!vars)
  BY <1>12, Stutter DEF HandlersFail, broker, history
<1>13. ASSUME NEW i \in Instances, NEW m \in Messages, NEW r \in Messages, HandlersReplace(i, m, r)
      PROVE  [AtLeastOnce!Next]_(AtLeastOnce!vars)
  <2>1. fate[m] # "unpublished"
    BY <1>13 DEF HandlersReplace, Awaiting, ShapeInv, HeldInv, TypeOK
  <2>2. fate[r] = "unpublished" /\ fate' = [fate EXCEPT ![r] = "pending"]
    BY <1>13 DEF HandlersReplace
  <2>3. Answered' = Answered \cup {m}
    BY <1>13, <2>2 DEF HandlersReplace, Answered, Dropped, TypeOK
  <2>4. AtLeastOnce!Answer(m)
    BY <2>1, <2>2, <2>3 DEF AtLeastOnce!Answer, Answered
  <2> QED BY <2>4 DEF AtLeastOnce!Next
<1>14. ASSUME NEW i \in Instances, BatchDispatched(i)
      PROVE  [AtLeastOnce!Next]_(AtLeastOnce!vars)
  BY <1>14, Stutter DEF BatchDispatched, broker, history
<1>15. ASSUME NEW i \in Instances, KeeperDrained(i)
      PROVE  [AtLeastOnce!Next]_(AtLeastOnce!vars)
  BY <1>15, Stutter DEF KeeperDrained, broker, history
<1>16. ASSUME NEW i \in Instances, SendAcks(i) PROVE [AtLeastOnce!Next]_(AtLeastOnce!vars)
  <2>1. Judged(i, "ack") \subseteq Answered
    BY DEF Judged, Held, AnswerInv
  <2>2. PICK ok \in SUBSET {m \in Judged(i, "ack") : fate[m] = "pending"} :
          fate' = [m \in Messages |-> IF m \in ok THEN "acked" ELSE fate[m]]
    BY <1>16 DEF SendAcks, Acknowledge
  <2>3. UNCHANGED <<kind, handled, replaced>>
    BY <1>16 DEF SendAcks, Acknowledge, history
  <2>4. ok \subseteq Answered /\ ok \subseteq Messages /\ \A m \in ok : fate[m] = "pending"
    BY <2>1, <2>2 DEF Judged, Held
  <2> QED BY <2>2, <2>3, <2>4, AckMaps
<1>17. ASSUME NEW i \in Instances, SendNacks(i) PROVE [AtLeastOnce!Next]_(AtLeastOnce!vars)
  BY <1>17, NacksEffect, Stutter DEF history
<1>18. ASSUME NEW i \in Instances, BatchSettled(i)
      PROVE  [AtLeastOnce!Next]_(AtLeastOnce!vars)
  BY <1>18, Stutter DEF BatchSettled, broker, history
<1>19. ASSUME NEW i \in Instances, BackoffOver(i)
      PROVE  [AtLeastOnce!Next]_(AtLeastOnce!vars)
  BY <1>19, Stutter DEF BackoffOver, broker, history
<1>20. ASSUME NEW i \in Instances, PullDenied(i) PROVE [AtLeastOnce!Next]_(AtLeastOnce!vars)
  BY <1>20, Stutter DEF PullDenied, broker, history
<1>21. ASSUME NEW i \in Instances, SettleError(i)
      PROVE  [AtLeastOnce!Next]_(AtLeastOnce!vars)
  BY <1>21, Stutter DEF SettleError, broker, history
<1>22. ASSUME NEW i \in Instances, SettleDenied(i)
      PROVE  [AtLeastOnce!Next]_(AtLeastOnce!vars)
  BY <1>22, Stutter DEF SettleDenied, broker, history
<1>23. ASSUME NEW i \in Instances, NEW m \in Messages, HandlersCancelled(i, m)
      PROVE  [AtLeastOnce!Next]_(AtLeastOnce!vars)
  BY <1>23, Stutter DEF HandlersCancelled, broker, history
<1>24. ASSUME NEW i \in Instances, RefreshSent(i)
      PROVE  [AtLeastOnce!Next]_(AtLeastOnce!vars)
  BY <1>24, Stutter DEF RefreshSent, broker, history
<1>25. ASSUME NEW i \in Instances, RefreshLanded(i)
      PROVE  [AtLeastOnce!Next]_(AtLeastOnce!vars)
  <2>1. Held(i) \in SUBSET Messages
    BY DEF Held
  <2> QED BY <1>25, <2>1, ExtendEffect, Stutter DEF RefreshLanded, history
<1>26. ASSUME NEW i \in Instances, RefreshFailed(i)
      PROVE  [AtLeastOnce!Next]_(AtLeastOnce!vars)
  BY <1>26, Stutter DEF RefreshFailed, broker, history
<1>27. ASSUME NEW i \in Instances, Start(i) PROVE [AtLeastOnce!Next]_(AtLeastOnce!vars)
  BY <1>27, Stutter DEF Start, broker, history
<1>28. ASSUME NEW i \in Instances, StopOvertakes(i)
      PROVE  [AtLeastOnce!Next]_(AtLeastOnce!vars)
  BY <1>28, Stutter DEF StopOvertakes, broker, history
<1>29. ASSUME NEW i \in Instances, StartResumes(i)
      PROVE  [AtLeastOnce!Next]_(AtLeastOnce!vars)
  BY <1>29, Stutter DEF StartResumes, broker, history
<1>30. ASSUME NEW i \in Instances, StartAborts(i)
      PROVE  [AtLeastOnce!Next]_(AtLeastOnce!vars)
  BY <1>30, Stutter DEF StartAborts, broker, history
<1>31. ASSUME NEW i \in Instances, StopConsuming(i)
      PROVE  [AtLeastOnce!Next]_(AtLeastOnce!vars)
  BY <1>31, Stutter DEF StopConsuming, broker, history
<1>32. ASSUME NEW i \in Instances, DrainDone(i) PROVE [AtLeastOnce!Next]_(AtLeastOnce!vars)
  BY <1>32, Stutter DEF DrainDone, broker, history
<1>33. ASSUME NEW i \in Instances, GraceOver(i) PROVE [AtLeastOnce!Next]_(AtLeastOnce!vars)
  BY <1>33, Stutter DEF GraceOver, broker, history
<1>34. ASSUME NEW i \in Instances, Unwound(i) PROVE [AtLeastOnce!Next]_(AtLeastOnce!vars)
  BY <1>34, Stutter DEF Unwound, broker, history
<1>35. ASSUME NEW i \in Instances, Close(i) PROVE [AtLeastOnce!Next]_(AtLeastOnce!vars)
  BY <1>35, Stutter DEF Close, broker, history
<1>36. ASSUME NEW i \in Instances, StopDone(i) PROVE [AtLeastOnce!Next]_(AtLeastOnce!vars)
  BY <1>36, Stutter DEF StopDone, broker, history
<1>37. ASSUME NEW i \in Instances, StopInterrupted(i)
      PROVE  [AtLeastOnce!Next]_(AtLeastOnce!vars)
  BY <1>37, Stutter DEF StopInterrupted, broker, history
<1>38. ASSUME NEW i \in Instances, Crash(i) PROVE [AtLeastOnce!Next]_(AtLeastOnce!vars)
  BY <1>38, Stutter DEF Crash, broker, history
<1>39. CASE UNCHANGED vars
  BY <1>39, Stutter DEF vars, broker, history
<1>40. ASSUME NEW m \in Messages, Broker(m) PROVE [AtLeastOnce!Next]_(AtLeastOnce!vars)
  BY <1>40, <1>1, <1>2, <1>3 DEF Broker
<1>41. ASSUME NEW i \in Instances, LoopStep(i) PROVE [AtLeastOnce!Next]_(AtLeastOnce!vars)
  BY <1>41, <1>6, <1>7, <1>8, <1>9, <1>10, <1>11, <1>12, <1>13, <1>14, <1>15, <1>16, <1>17,
     <1>18, <1>19 DEF LoopStep
<1>42. ASSUME NEW i \in Instances, LoopFault(i) PROVE [AtLeastOnce!Next]_(AtLeastOnce!vars)
  BY <1>42, <1>20, <1>21, <1>22, <1>23 DEF LoopFault
<1>43. ASSUME NEW i \in Instances, Keeper(i) PROVE [AtLeastOnce!Next]_(AtLeastOnce!vars)
  BY <1>43, <1>24, <1>25, <1>26 DEF Keeper
<1>44. ASSUME NEW i \in Instances, Lifecycle(i) PROVE [AtLeastOnce!Next]_(AtLeastOnce!vars)
  BY <1>44, <1>27, <1>28, <1>29, <1>30, <1>31, <1>32, <1>33, <1>34, <1>35, <1>36, <1>37,
     <1>38 DEF Lifecycle
<1> QED
  BY <1>4, <1>5, <1>39, <1>40, <1>41, <1>42, <1>43, <1>44 DEF Next

-----------------------------------------------------------------------------
(* The broker takes a message back only when its lease has run out. *)
LEMMA TakenBack ==
    ASSUME TypeOK, [Next]_vars, NEW m \in Messages, fate[m] = "pending",
           attempt'[m] # attempt[m] \/ fate'[m] = "dead"
    PROVE  lease[m] = 0
<1>1. ASSUME NEW x \in Messages, Broker(x) PROVE lease[m] = 0
  BY <1>1 DEF Broker, Publish, DeadLetter, PullLost, Deliverable, Handout, TypeOK
<1>2. ASSUME NEW r \in late, LateRequest(r) PROVE FALSE
  BY <1>2, LateEffect
<1>3. ASSUME NEW i \in Instances, Pull(i) PROVE lease[m] = 0
  BY <1>3 DEF Pull, Deliverable, Handout, TypeOK
<1>4. ASSUME NEW i \in Instances, SendAcks(i) PROVE FALSE
  <2>1. Judged(i, "ack") \in SUBSET Messages BY DEF Judged, Held
  <2>2. Acknowledge(Judged(i, "ack"), held[i]) BY <1>4 DEF SendAcks
  <2> QED BY <2>1, <2>2, AcknowledgeEffect
<1>5. ASSUME NEW i \in Instances, SendNacks(i) PROVE FALSE
  BY <1>5, NacksEffect
<1>6. ASSUME NEW i \in Instances, RefreshLanded(i) PROVE FALSE
  <2>1. Held(i) \in SUBSET Messages BY DEF Held
  <2>2. Extend(Held(i), held[i]) BY <1>6 DEF RefreshLanded
  <2> QED BY <2>1, <2>2, ExtendEffect
<1>7. ASSUME NEW i \in Instances, NEW x \in Messages, NEW r \in Messages,
             HandlersReplace(i, x, r)
      PROVE  FALSE
  BY <1>7 DEF HandlersReplace, TypeOK
<1>8. ASSUME UNCHANGED <<fate, attempt>> PROVE FALSE
  BY <1>8
<1>9. ASSUME NEW i \in Instances, LoopStep(i) PROVE lease[m] = 0
  BY <1>3, <1>4, <1>5, <1>7, <1>8, <1>9
     DEF LoopStep, PullEmpty, HandBack, Drop, Dispatch, HandlersSucceed,
         HandlersFail, BatchDispatched, KeeperDrained, BatchSettled,
         BackoffOver, broker
<1>10. ASSUME NEW i \in Instances, LoopFault(i) \/ Lifecycle(i) PROVE FALSE
  BY <1>8, <1>10
     DEF LoopFault, PullDenied, SettleError, SettleDenied, HandlersCancelled,
         Lifecycle, Start, StopOvertakes, StartResumes, StartAborts,
         StopConsuming, DrainDone, GraceOver, Unwound, Close, StopDone,
         StopInterrupted, Crash, broker
<1>11. ASSUME NEW i \in Instances, Keeper(i) PROVE FALSE
  BY <1>6, <1>8, <1>11 DEF Keeper, RefreshSent, RefreshFailed, broker
<1>12. CASE Tick \/ UNCHANGED vars
  BY <1>8, <1>12 DEF Tick, vars, broker
<1> QED BY <1>1, <1>2, <1>9, <1>10, <1>11, <1>12 DEF Next

-----------------------------------------------------------------------------
(* The theorems *)

(* The inductive invariant holds of every reachable state. *)
THEOREM InductiveInvariant == Spec => []IInv
<1>1. Init => IInv
  <2> SUFFICES ASSUME Init PROVE IInv
    OBVIOUS
  <2>1. TypeOK
    BY BoundsAssumption DEF Init, TypeOK, Kinds, Lives, Pcs, Verdicts
  <2>2. ShapeInv /\ LifeInv
    BY DEF Init, ShapeInv, LifeInv, Working
  <2>3. HeldInv /\ LateInv /\ NackBackoffKept
    BY DEF Init, HeldInv, LateInv, NackBackoffKept
  <2>4. LeaseInv /\ WorkerInv /\ AnswerInv
    BY DEF Init, LeaseInv, WorkerInv, AnswerInv, Working
  <2> QED BY <2>1, <2>2, <2>3, <2>4 DEF IInv
<1>2. IInv /\ [Next]_vars => IInv'
  <2> SUFFICES ASSUME IInv, [Next]_vars PROVE IInv'
    OBVIOUS
  <2>0. TypeOK /\ ShapeInv /\ LifeInv /\ HeldInv /\ LateInv /\ LeaseInv /\ WorkerInv
        /\ NackBackoffKept /\ AnswerInv
    BY DEF IInv
  <2>1. TypeOK'
    BY <2>0, TypeStep
  <2>2. ShapeInv' /\ LifeInv'
    BY <2>0, <2>1, ShapeStep, LifeStep
  <2>3. HeldInv' /\ LateInv'
    BY <2>0, HeldStep, LateStep
  <2>4. LeaseInv' /\ WorkerInv'
    BY <2>0, <2>1, LeaseStep, WorkerStep
  <2>5. NackBackoffKept' /\ AnswerInv'
    BY <2>0, <2>1, BackoffStep, AnswerStep
  <2> QED BY <2>1, <2>2, <2>3, <2>4, <2>5 DEF IInv
<1> QED BY <1>1, <1>2, PTL DEF Spec

(* Two processes run the handlers of one message at once only after a lease *)
(* extension failed (_hold_leases).                                         *)
THEOREM OneWorker == Spec => []OneWorkerPerMessage
<1>1. IInv => OneWorkerPerMessage
  BY MessagesAssumption DEF IInv, ShapeInv, WorkerInv, OneWorkerPerMessage, Working
<1> QED BY <1>1, InductiveInvariant, PTL

(* A batch under a keeper none of whose extensions failed keeps its         *)
(* messages: none is delivered again or dead-lettered (_hold_leases).       *)
THEOREM BatchStaysLeased == Spec => BatchKept
<1>1. ASSUME IInv, [Next]_vars, NEW i \in Instances, NEW m \in Held(i),
             Working(i), ~lapsed[i], fate[m] = "pending"
      PROVE  attempt'[m] = attempt[m] /\ fate'[m] # "dead"
  <2>1. m \in Messages /\ held[i][m] # 0 BY DEF Held
  <2>2. lease[m] > Due(i) BY <1>1, <2>1 DEF IInv, LeaseInv
  <2>3. Due(i) \in Nat /\ lease[m] \in Nat
    BY <1>1, <2>1, BoundsAssumption DEF Due, IInv, TypeOK
  <2> QED BY <1>1, <2>1, <2>2, <2>3, TakenBack DEF IInv
<1>2. IInv /\ [Next]_vars =>
        [\A i \in Instances : \A m \in Held(i) :
            Working(i) /\ ~lapsed[i] /\ fate[m] = "pending" =>
                attempt'[m] = attempt[m] /\ fate'[m] # "dead"]_vars
  BY <1>1
<1> QED BY <1>2, InductiveInvariant, PTL DEF Spec, BatchKept

(* No lease extension stretches the backoff a nack asked for. *)
THEOREM BackoffKept == Spec => []NackBackoffKept
<1>1. IInv => NackBackoffKept
  BY DEF IInv
<1> QED BY <1>1, InductiveInvariant, PTL

(* After stop_consuming() or stop() returned no handler runs. *)
THEOREM StopIsQuiet == Spec => []QuietAfterStop
<1>1. IInv => QuietAfterStop
  BY DEF IInv, LifeInv, QuietAfterStop
<1> QED BY <1>1, InductiveInvariant, PTL

(* A pull loop that ended shows in is_healthy. *)
THEOREM NoSilentHalt == Spec => []HaltIsUnhealthy
<1>1. IInv => HaltIsUnhealthy
  BY DEF IInv, LifeInv, HaltIsUnhealthy, IsHealthy
<1> QED BY <1>1, InductiveInvariant, PTL

(* The bus implements at-least-once delivery. *)
THEOREM ImplementsDelivery == Spec => DeliversAtLeastOnce
<1>1. Init => AtLeastOnce!Init
  BY DEF Init, AtLeastOnce!Init, Dropped
<1>2. IInv /\ IInv' /\ [Next]_vars => [AtLeastOnce!Next]_(AtLeastOnce!vars)
  BY DeliveryStep DEF IInv
<1> QED
  BY <1>1, <1>2, InductiveInvariant, PTL DEF Spec, DeliversAtLeastOnce, AtLeastOnce!Spec

=============================================================================

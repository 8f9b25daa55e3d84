---------------------------- MODULE SessionProofs ----------------------------
(***************************************************************************)
(* Proofs about the session's waits, for any number of tasks, any mix of   *)
(* requests, and any number of rewrites.                                   *)
(***************************************************************************)
EXTENDS Session, SequenceTheorems, TLAPS

Outcomes == {None, "returned", "incomplete", "retryable", "cancelled"}

\* The stages of a request that holds the session lock and has not been stopped.
Exchanging == {"writing", "waiting", "acking", "resulting"}

Typed ==
    /\ stage \in [Tasks -> Stages]
    /\ kind \in [Tasks -> Kinds \union {None}]
    /\ outcome \in [Tasks -> Outcomes]
    /\ owner \in Tasks \union {None}

ProgressTyped == DOMAIN progress = {"written", "acked", "result"}

\* The session lock is held by the request that exchanges frames; one that was
\* stopped keeps it until it resumes.
OneAtATime ==
    /\ owner # None => stage[owner] \in Exchanging \union {"interrupted"}
    /\ \A t \in Tasks : stage[t] \in Exchanging => owner = t

\* A wait belongs to the owner; a staged one is armed, or resolved with the
\* op-response it has recorded.
WaitIsOwned ==
    /\ armed \/ ackArmed => owner # None
    /\ owner # None /\ Staged(kind[owner]) =>
         /\ stage[owner] # "waiting"
         /\ progress.result => future = "result"
         /\ ~progress.result => armed /\ future = "pending"

\* The inductive invariant.
IInv == Typed /\ ProgressTyped /\ OneAtATime /\ WaitIsOwned /\ ~clashed

USE TasksAssumption DEF None, Exchanging, Stages

\* A request that ends takes nothing from another, and leaves no wait armed.
LEMMA FinishKeeps ==
  ASSUME IInv, NEW t \in Tasks, NEW result \in Outcomes, Finish(t, result)
  PROVE  IInv'
  <1>1. Typed'
    BY DEF IInv, Typed, Finish
  <1>2. ~clashed' /\ ProgressTyped'
    BY DEF IInv, ProgressTyped, Finish, waitVars, NoProgress
  <1>3. CASE owner = t
    <2>1. /\ owner' = None /\ armed' = FALSE /\ ackArmed' = FALSE
          /\ stage' = [stage EXCEPT ![t] = "idle"]
      BY <1>3 DEF Finish, Disarm
    <2>2. OneAtATime'
      BY <1>3, <2>1 DEF IInv, Typed, OneAtATime
    <2>3. WaitIsOwned'
      BY <2>1 DEF WaitIsOwned
    <2> QED BY <1>1, <1>2, <2>2, <2>3 DEF IInv
  <1>4. CASE owner # t
    <2>1. /\ UNCHANGED <<owner, armed, ackArmed, future, progress>>
          /\ stage' = [stage EXCEPT ![t] = "idle"] /\ kind' = [kind EXCEPT ![t] = None]
      BY <1>4 DEF Finish, waitVars
    <2>2. OneAtATime'
      BY <1>4, <2>1 DEF IInv, Typed, OneAtATime
    <2>3. WaitIsOwned'
      BY <1>4, <2>1 DEF IInv, Typed, WaitIsOwned, Staged
    <2> QED BY <1>1, <1>2, <2>2, <2>3 DEF IInv
  <1> QED BY <1>3, <1>4

\* A write arms the wait of the request that has, or takes, the session lock.
LEMMA WriteKeeps ==
  ASSUME IInv, NEW t \in Tasks, NEW n, ArmAndWrite(t, n), owner \in {None, t},
         owner' = t, UNCHANGED outcome
  PROVE  IInv'
  <1>1. /\ stage' = [stage EXCEPT ![t] = "writing"] /\ armed' = TRUE /\ future' = "pending"
        /\ UNCHANGED <<kind, clashed>>
    BY DEF ArmAndWrite
  <1>2. Typed' /\ ProgressTyped'
    <2>1. Typed'
      BY <1>1 DEF IInv, Typed
    <2>2. ProgressTyped'
      BY DEF ArmAndWrite, ProgressTyped, NoProgress
    <2> QED BY <2>1, <2>2
  <1>3. OneAtATime'
    BY <1>1 DEF IInv, Typed, OneAtATime
  <1>4. WaitIsOwned'
    <2>1. owner' = t /\ stage'[t] = "writing" /\ owner' # None
      BY <1>1 DEF IInv, Typed
    <2>2. progress'.result = FALSE
      BY DEF ArmAndWrite, NoProgress
    <2> QED BY <1>1, <2>1, <2>2 DEF WaitIsOwned
  <1> QED BY <1>1, <1>2, <1>3, <1>4 DEF IInv

\* A step that moves a request on, and touches neither lock nor wait.
LEMMA MoveKeeps ==
  ASSUME IInv, NEW t \in Tasks, NEW s \in Stages,
         stage' = [stage EXCEPT ![t] = s],
         s \in Exchanging => stage[t] \in Exchanging,
         owner = t => s \in Exchanging \union {"interrupted"},
         s = "waiting" => ~Staged(kind[t]),
         UNCHANGED <<owner, kind, outcome, armed, ackArmed, progress, clashed>>,
         future' = future \/ stage[t] = "waiting"
  PROVE  IInv'
  <1>1. Typed' /\ ProgressTyped'
    BY DEF IInv, Typed, ProgressTyped
  <1>2. OneAtATime'
    BY DEF IInv, Typed, OneAtATime
  <1>3. WaitIsOwned'
    BY DEF IInv, Typed, WaitIsOwned, OneAtATime, Staged
  <1> QED BY <1>1, <1>2, <1>3 DEF IInv

LEMMA RaiseKeeps == ASSUME IInv, NEW t \in Tasks, Raise(t) PROVE IInv'
  <1>1. PICK result \in Outcomes : Finish(t, result)
    BY DEF Raise, Outcomes
  <1> QED BY <1>1, FinishKeeps

LEMMA WriteUnderLockKeeps ==
  ASSUME IInv, NEW t \in Tasks, owner = None, WriteUnderLock(t)
  PROVE  IInv'
  <1>1. CASE Finish(t, "retryable")
    BY <1>1, FinishKeeps DEF Outcomes
  <1>2. CASE ArmAndWrite(t, 0) /\ owner' = t /\ UNCHANGED outcome
    BY <1>2, WriteKeeps
  <1> QED BY <1>1, <1>2 DEF WriteUnderLock

\* The steps of one task.
LEMMA TaskKeeps ==
  ASSUME IInv, NEW t \in Tasks, Request(t) \/ Progresses(t) \/ Cancelled(t)
  PROVE  IInv'
  <1>1. ASSUME NEW k \in Kinds, Execute(t, k) PROVE IInv'
    <2>1. /\ stage[t] = "idle" /\ stage' = [stage EXCEPT ![t] = "cooldown"]
          /\ kind' = [kind EXCEPT ![t] = k] /\ outcome' = [outcome EXCEPT ![t] = None]
          /\ UNCHANGED <<owner, armed, ackArmed, future, progress, clashed>>
      BY <1>1 DEF Execute, waitVars
    <2>2. owner # t
      BY <2>1 DEF IInv, OneAtATime
    <2>3. Typed'
      BY <2>1 DEF IInv, Typed, Outcomes
    <2>a. ProgressTyped'
      BY <2>1 DEF IInv, ProgressTyped
    <2>4. OneAtATime'
      BY <2>1, <2>2 DEF IInv, Typed, OneAtATime
    <2>5. WaitIsOwned'
      BY <2>1, <2>2 DEF IInv, Typed, WaitIsOwned, Staged
    <2> QED BY <2>1, <2>3, <2>a, <2>4, <2>5 DEF IInv
  <1>2. CASE CooldownOver(t)
    <2>1. CASE owner = None /\ WriteUnderLock(t)
      BY <2>1, WriteUnderLockKeeps
    <2>2. CASE stage' = [stage EXCEPT ![t] = "queued"]
      <3>1. UNCHANGED <<owner, kind, outcome, armed, ackArmed, future, progress, clashed>>
        BY <1>2, <2>2 DEF CooldownOver, WriteUnderLock, ArmAndWrite, Finish, waitVars, IInv, Typed
      <3>2. owner # t
        BY <1>2 DEF CooldownOver, IInv, OneAtATime
      <3> QED BY <2>2, <3>1, <3>2, MoveKeeps
    <2> QED BY <1>2, <2>1, <2>2 DEF CooldownOver, Free
  <1>3. CASE AcquireSessionLock(t)
    BY <1>3, WriteUnderLockKeeps DEF AcquireSessionLock
  <1>4. CASE WriteReturns(t)
    <2>1. /\ stage[t] = "writing"
          /\ UNCHANGED <<owner, kind, outcome, armed, ackArmed, future, progress, clashed>>
      BY <1>4 DEF WriteReturns, waitVars
    <2>2. PICK s \in {"waiting", "resulting", "acking"} :
             /\ stage' = [stage EXCEPT ![t] = s]
             /\ s = "waiting" => ~Staged(kind[t])
      BY <1>4 DEF WriteReturns
    <2> QED BY <2>1, <2>2, MoveKeeps
  <1>5. CASE WriteFails(t) \/ Interrupted(t) \/ AckWaitExpires(t)
    BY <1>5, RaiseKeeps DEF WriteFails, Interrupted, AckWaitExpires
  <1>6. CASE ReadReturns(t)
    <2>1. CASE Finish(t, "returned") \/ Raise(t)
      BY <2>1, FinishKeeps, RaiseKeeps DEF Outcomes
    <2>2. CASE ArmAndWrite(t, attempt + 1) /\ UNCHANGED <<owner, queue, outcome>>
      <3>1. owner = t
        BY <1>6 DEF ReadReturns, IInv, OneAtATime
      <3> QED BY <2>2, <3>1, WriteKeeps
    <2> QED BY <1>6, <2>1, <2>2 DEF ReadReturns
  <1>7. CASE TimesOut(t)
    <2>1. /\ stage[t] \in {"writing", "waiting"} /\ stage' = [stage EXCEPT ![t] = "interrupted"]
          /\ UNCHANGED <<owner, kind, outcome, armed, ackArmed, progress, clashed>>
          /\ future' = future \/ stage[t] = "waiting"
      BY <1>7 DEF TimesOut
    <2> QED BY <2>1, MoveKeeps
  <1>8. CASE AckWaitEnds(t)
    <2>1. CASE Finish(t, "returned")
      BY <2>1, FinishKeeps DEF Outcomes
    <2>2. CASE /\ stage' = [stage EXCEPT ![t] = "resulting"]
               /\ UNCHANGED <<link, cool, owner, queue, kind, outcome, waitVars, airVars, clashed>>
      <3>1. stage[t] = "acking"
        BY <1>8 DEF AckWaitEnds
      <3> QED BY <2>2, <3>1, MoveKeeps DEF waitVars
    <2> QED BY <1>8, <2>1, <2>2 DEF AckWaitEnds
  <1>9. CASE ResultWaitEnds(t)
    BY <1>9, FinishKeeps DEF ResultWaitEnds, Outcomes
  <1>10. CASE Cancelled(t)
    BY <1>10, FinishKeeps DEF Cancelled, Outcomes
  <1> QED
    BY <1>1, <1>2, <1>3, <1>4, <1>5, <1>6, <1>7, <1>8, <1>9, <1>10 DEF Request, Progresses

\* A frame ends no wait but the owner's, and resolves a staged one only with the
\* op-response it records.
LEMMA FrameKeeps ==
  ASSUME IInv, NEW f, Notify(f) \/ NotifyInvalid(f)
  PROVE  IInv'
  <1>0. UNCHANGED <<owner, stage, kind, outcome>>
    BY DEF Notify, NotifyInvalid, Heard, taskVars
  <1>1. Typed' /\ OneAtATime'
    BY <1>0 DEF IInv, Typed, OneAtATime
  <1>2. ~clashed'
    BY DEF IInv, Notify, NotifyInvalid, Resolve, Resolvable
  <1>a. ProgressTyped'
    BY DEF IInv, ProgressTyped, Notify, NotifyInvalid
  <1>3. WaitIsOwned'
    <2>1. CASE ackArmed /\ UNCHANGED <<armed, future>> /\ ackArmed' = FALSE
               /\ progress' = [progress EXCEPT !.acked = TRUE]
      <3>1. progress'.result = progress.result
        BY <2>1 DEF IInv, ProgressTyped
      <3> QED BY <1>0, <2>1, <3>1 DEF IInv, WaitIsOwned, Staged
    <2>2. CASE UNCHANGED <<armed, ackArmed, future, progress>>
      BY <1>0, <2>2 DEF IInv, WaitIsOwned, Staged
    <2>3. CASE /\ armed /\ progress' = [progress EXCEPT !.result = Staged(kind[owner])]
               /\ Resolve("result") /\ UNCHANGED ackArmed
      <3>1. owner # None /\ armed' = FALSE /\ ackArmed' = ackArmed
        BY <2>3 DEF IInv, WaitIsOwned, Resolve
      <3>2. ASSUME Staged(kind[owner]) PROVE progress'.result /\ future' = "result"
        <4>1. future = "pending" \/ future = "result"
          BY <3>1, <3>2 DEF IInv, WaitIsOwned
        <4>2. future' = "result"
          BY <2>3, <4>1 DEF Resolve, Resolvable
        <4>3. progress'.result = Staged(kind[owner])
          BY <2>3 DEF IInv, ProgressTyped
        <4> QED BY <3>2, <4>2, <4>3
      <3>3. owner # None /\ Staged(kind[owner]) => stage[owner] # "waiting"
        BY DEF IInv, WaitIsOwned
      <3> QED BY <1>0, <3>1, <3>2, <3>3 DEF WaitIsOwned, Staged
    <2>4. CASE BadFrameFailsWait /\ Resolve("error") /\ UNCHANGED <<ackArmed, progress>>
      <3>1. armed /\ ~Staged(kind[owner]) /\ armed' = FALSE /\ ackArmed' = ackArmed
        BY <2>4 DEF Resolve, BadFrameFailsWait
      <3>2. owner # None
        BY <3>1 DEF IInv, WaitIsOwned
      <3> QED BY <1>0, <3>1, <3>2 DEF WaitIsOwned, Staged
    <2> QED BY <2>1, <2>2, <2>3, <2>4 DEF Notify, NotifyInvalid
  <1> QED BY <1>1, <1>2, <1>a, <1>3 DEF IInv

LEMMA DisconnectKeeps == ASSUME IInv, Disconnected PROVE IInv'
  <1>1. /\ stage' = [t \in Tasks |-> IF stage[t] \in InScope THEN "interrupted" ELSE stage[t]]
        /\ UNCHANGED <<owner, kind, outcome, armed, ackArmed, progress, clashed>>
        /\ future' = future \/ (owner # None /\ stage[owner] = "waiting")
    BY DEF Disconnected
  <1>2. Typed' /\ ProgressTyped'
    BY <1>1 DEF IInv, Typed, ProgressTyped
  <1>3. OneAtATime'
    BY <1>1 DEF IInv, Typed, OneAtATime, InScope
  <1>4. WaitIsOwned'
    BY <1>1 DEF IInv, Typed, WaitIsOwned, InScope, Staged
  <1> QED BY <1>1, <1>2, <1>3, <1>4 DEF IInv

LEMMA NextKeeps == ASSUME IInv, [Next]_vars PROVE IInv'
  <1>1. CASE \E t \in Tasks : Request(t) \/ Progresses(t) \/ Cancelled(t)
    BY <1>1, TaskKeeps
  <1>2. CASE FrameArrives
    BY <1>2, FrameKeeps DEF FrameArrives
  <1>3. CASE Disconnected
    BY <1>3, DisconnectKeeps
  <1>4. CASE Delivered \/ CooldownPasses \/ UNCHANGED vars
    <2>1. UNCHANGED <<taskVars, waitVars, clashed>>
      BY <1>4 DEF Delivered, CooldownPasses, vars
    <2> QED
      BY <2>1 DEF taskVars, waitVars, IInv, Typed, ProgressTyped, OneAtATime, WaitIsOwned, Staged
  <1> QED BY <1>1, <1>2, <1>3, <1>4 DEF Next

\* The inductive invariant holds in every reachable state.
THEOREM InvariantHolds == Spec => []IInv
  <1>1. Init => IInv
    <2> SUFFICES ASSUME Init PROVE IInv
      OBVIOUS
    <2>1. Typed
      BY DEF Init, Typed, Outcomes
    <2>2. OneAtATime /\ WaitIsOwned /\ ProgressTyped /\ ~clashed
      BY DEF Init, OneAtATime, WaitIsOwned, ProgressTyped, NoProgress
    <2> QED BY <2>1, <2>2 DEF IInv
  <1>2. IInv /\ [Next]_vars => IInv'
    BY NextKeeps
  <1> QED BY <1>1, <1>2, PTL DEF Spec

\* A wait that is armed belongs to the request that holds the session lock.
THEOREM WaitHasOwner == Spec => []ArmedWaitHasOwner
  <1>1. IInv => ArmedWaitHasOwner
    BY DEF IInv, OneAtATime, WaitIsOwned, ArmedWaitHasOwner
  <1> QED BY <1>1, InvariantHolds, PTL

\* From its write to its end a staged command listens for its op-response.
THEOREM StagedWaitStays == Spec => []StagedWaitListens
  <1>1. IInv => StagedWaitListens
    BY DEF IInv, WaitIsOwned, StagedWaitListens
  <1> QED BY <1>1, InvariantHolds, PTL

\* No future is resolved a second time.
THEOREM FuturesResolvedOnce == Spec => []NoFutureResolvedTwice
  <1>1. IInv => NoFutureResolvedTwice
    BY DEF IInv, NoFutureResolvedTwice
  <1> QED BY <1>1, InvariantHolds, PTL

\* An op-response recorded before the end of its wait is returned, whatever ends
\* the wait; only the caller's own cancellation drops it.
LEMMA RecordedIsReturned ==
  ASSUME IInv, Next, NEW t \in Tasks,
         owner = t, progress.result, Staged(kind[t]), stage'[t] = "idle"
  PROVE  outcome'[t] \in {"returned", "cancelled"}
  <1>0. /\ stage[t] \in {"writing", "acking", "resulting", "interrupted"}
        /\ future = "result"
    BY DEF IInv, Typed, OneAtATime, WaitIsOwned
  <1>1. ASSUME NEW result, Finish(t, result) PROVE outcome'[t] = result
    BY <1>1 DEF Finish, IInv, Typed
  <1>2. ASSUME NEW u \in Tasks, u # t, NEW result, Finish(u, result) PROVE FALSE
    <2>1. stage'[t] = stage[t]
      BY <1>2 DEF Finish, IInv, Typed
    <2> QED BY <1>0, <2>1
  <1>3. ASSUME NEW u \in Tasks, NEW s \in Stages \ {"idle"}, stage' = [stage EXCEPT ![u] = s]
        PROVE  FALSE
    <2>1. stage'[t] = IF u = t THEN s ELSE stage[t]
      BY <1>3 DEF IInv, Typed
    <2> QED BY <1>0, <2>1
  <1>4. ASSUME NEW u \in Tasks, NEW result \in {"returned", "cancelled"}, Finish(u, result)
        PROVE  outcome'[t] \in {"returned", "cancelled"}
    BY <1>1, <1>2, <1>4
  <1>5. ASSUME NEW u \in Tasks, Raise(u) PROVE outcome'[t] \in {"returned", "cancelled"}
    <2>1. u = t
      BY <1>2, <1>5 DEF Raise
    <2>2. Recorded(t)
      BY DEF Recorded
    <2> QED BY <1>1, <1>5, <2>1, <2>2 DEF Raise
  <1>6. ASSUME NEW u \in Tasks, owner = None \/ u # t, WriteUnderLock(u) PROVE FALSE
    <2>1. u # t
      BY <1>6
    <2> QED BY <1>2, <1>3, <1>6, <2>1 DEF WriteUnderLock, ArmAndWrite
  <1>7. ASSUME NEW u \in Tasks, Request(u) \/ CooldownOver(u) \/ AcquireSessionLock(u)
        PROVE  FALSE
    <2>1. CASE Request(u)
      BY <1>3, <2>1 DEF Request, Execute
    <2>2. CASE CooldownOver(u)
      <3>1. u # t
        BY <1>0, <2>2 DEF CooldownOver
      <3> QED BY <1>3, <1>6, <2>2, <3>1 DEF CooldownOver
    <2>3. CASE AcquireSessionLock(u)
      BY <1>6, <2>3 DEF AcquireSessionLock
    <2> QED BY <1>7, <2>1, <2>2, <2>3
  <1>8. ASSUME NEW u \in Tasks, WriteReturns(u) \/ TimesOut(u) PROVE FALSE
    BY <1>3, <1>8 DEF WriteReturns, TimesOut
  <1>9. ASSUME NEW u \in Tasks,
               \/ WriteFails(u) \/ Interrupted(u) \/ AckWaitExpires(u) \/ ReadReturns(u)
               \/ AckWaitEnds(u) \/ ResultWaitEnds(u) \/ Cancelled(u)
        PROVE  outcome'[t] \in {"returned", "cancelled"}
    <2>1. CASE WriteFails(u) \/ Interrupted(u) \/ AckWaitExpires(u)
      BY <1>5, <2>1 DEF WriteFails, Interrupted, AckWaitExpires
    <2>2. CASE ReadReturns(u)
      BY <1>3, <1>4, <1>5, <2>2 DEF ReadReturns, ArmAndWrite
    <2>3. CASE AckWaitEnds(u)
      BY <1>3, <1>4, <2>3 DEF AckWaitEnds
    <2>4. CASE ResultWaitEnds(u)
      BY <1>0, <1>4, <2>4 DEF ResultWaitEnds
    <2>5. CASE Cancelled(u)
      BY <1>4, <2>5 DEF Cancelled
    <2> QED BY <1>9, <2>1, <2>2, <2>3, <2>4, <2>5
  <1>10. CASE Delivered \/ FrameArrives \/ CooldownPasses
    BY <1>0, <1>10
    DEF Delivered, FrameArrives, Notify, NotifyInvalid, Heard, CooldownPasses, taskVars
  <1>11. CASE Disconnected
    BY <1>0, <1>11 DEF Disconnected
  <1> QED BY <1>7, <1>8, <1>9, <1>10, <1>11 DEF Next, Progresses

\* Every step of every behaviour keeps to that.
THEOREM RecordedAnswerIsReturned == Spec => RecordedAnswerReturns
  <1> DEFINE Kept == \A t \in Tasks :
          (owner = t /\ progress.result /\ Staged(kind[t]) /\ stage'[t] = "idle")
          => outcome'[t] \in {"returned", "cancelled"}
  <1>1. IInv /\ [Next]_vars => [Kept]_vars
    BY RecordedIsReturned
  <1> QED BY <1>1, InvariantHolds, PTL DEF Spec, RecordedAnswerReturns
-----------------------------------------------------------------------------
(* The types.                                                              *)

\* A request that is under way is one of the kinds; what the lock was asked for
\* is what it may answer.
Busy == \A t \in Tasks : stage[t] # "idle" => kind[t] \in Kinds
TInv == TypeOK /\ Busy

LEMMA ConstantsTyped ==
  /\ Kinds \subseteq {"read", "setting"} \union LockOperation /\ None \notin Kinds
  /\ WriteAttempts \in Nat \ {0}
  BY KindsAssumption, WriteAttemptsAssumption DEF LockOperation

LEMMA QueueWithout ==
  ASSUME NEW q \in Seq(Tasks), NEW t
  PROVE  Without(q, t) \in Seq(Tasks)
  <1>1. CASE ~Waits(q, t)
    BY <1>1 DEF Without
  <1>2. CASE Waits(q, t)
    <2> DEFINE k == CHOOSE i \in DOMAIN q : q[i] = t
    <2>1. k \in 1 .. Len(q) /\ Len(q) \in Nat /\ \A i \in 1 .. Len(q) : q[i] \in Tasks
      BY <1>2, LenProperties DEF Waits
    <2>2. Without(q, t) = SubSeq(q, 1, k - 1) \o SubSeq(q, k + 1, Len(q))
      BY <1>2 DEF Without, Seqs!RemoveAt
    <2> HIDE DEF k
    <2>3. SubSeq(q, 1, k - 1) \in Seq(Tasks)
      BY <2>1, SubSeqProperties
    <2>4. SubSeq(q, k + 1, Len(q)) \in Seq(Tasks)
      BY <2>1, SubSeqProperties
    <2> QED BY <2>2, <2>3, <2>4, ConcatProperties
  <1> QED BY <1>1, <1>2

Progress == [written : BOOLEAN, acked : BOOLEAN, result : BOOLEAN]

LEMMA NoProgressTyped ==
  /\ NoProgress \in Progress /\ 0 \in 0 .. (WriteAttempts - 1)
  /\ \A b \in BOOLEAN : [NoProgress EXCEPT !.written = b] \in Progress
  <1>1. NoProgress \in Progress
    BY DEF NoProgress, Progress
  <1>2. 0 \in 0 .. (WriteAttempts - 1)
    BY ConstantsTyped
  <1>3. ASSUME NEW p \in Progress, NEW b \in BOOLEAN
        PROVE  [p EXCEPT !.written = b] \in Progress
    BY DEF Progress
  <1> QED BY <1>1, <1>2, <1>3

\* The part of TypeOK that a step of a request assigns.
WaitTyped ==
    /\ attempt \in 0 .. (WriteAttempts - 1)
    /\ armed \in BOOLEAN /\ ackArmed \in BOOLEAN
    /\ future \in {None, "pending", "result", "error", "cancelled"}
    /\ progress \in Progress

LEMMA FinishTyped ==
  ASSUME TInv, NEW t \in Tasks, NEW result \in Outcomes, Finish(t, result), UNCHANGED link
  PROVE  TInv'
  <1>1. queue' \in Seq(Tasks)
    BY QueueWithout DEF Finish, LeaveQueue, TInv, TypeOK
  <1>2. /\ stage' \in [Tasks -> Stages] /\ kind' \in [Tasks -> Kinds \union {None}]
        /\ outcome' \in [Tasks -> Outcomes]
    BY DEF Finish, TInv, TypeOK, Outcomes
  <1>3. owner' \in Tasks \union {None} /\ WaitTyped'
    <2>1. CASE owner = t
      BY <2>1, NoProgressTyped DEF Finish, Disarm, WaitTyped
    <2>2. CASE owner # t
      BY <2>2 DEF Finish, waitVars, WaitTyped, TInv, TypeOK, Progress
    <2> QED BY <2>1, <2>2
  <1>4. UNCHANGED <<link, cool, delivered, owed, clashed>>
    BY DEF Finish, airVars
  <1>5. Busy'
    BY DEF Finish, TInv, TypeOK, Busy
  <1>6. TypeOK'
    BY <1>1, <1>2, <1>3, <1>4 DEF TInv, TypeOK, WaitTyped, Outcomes, Progress
  <1> QED BY <1>5, <1>6 DEF TInv

LEMMA RaiseTyped ==
  ASSUME TInv, NEW t \in Tasks, Raise(t), UNCHANGED link PROVE TInv'
  <1>1. PICK result \in Outcomes : Finish(t, result)
    BY DEF Raise, Outcomes
  <1> QED BY <1>1, FinishTyped

LEMMA WriteTyped ==
  ASSUME TInv, NEW t \in Tasks, stage[t] # "idle", NEW n \in 0 .. (WriteAttempts - 1),
         ArmAndWrite(t, n), owner' \in {owner, t}, queue' \in Seq(Tasks), UNCHANGED outcome
  PROVE  TInv'
  <1>1. WaitTyped' /\ delivered' \in BOOLEAN
    <2>1. Staged(kind[t]) \in BOOLEAN
      BY DEF Staged
    <2> QED BY <2>1, NoProgressTyped DEF ArmAndWrite, WaitTyped
  <1>2. stage' \in [Tasks -> Stages] /\ Busy'
    BY DEF ArmAndWrite, TInv, TypeOK, Busy
  <1>3. UNCHANGED <<link, cool, kind, owed, clashed>>
    BY DEF ArmAndWrite
  <1>4. TypeOK'
    BY <1>1, <1>2, <1>3 DEF TInv, TypeOK, WaitTyped, Progress
  <1> QED BY <1>2, <1>4 DEF TInv

LEMMA WriteUnderLockTyped ==
  ASSUME TInv, NEW t \in Tasks, stage[t] # "idle", WriteUnderLock(t) PROVE TInv'
  <1>1. CASE Finish(t, "retryable") /\ UNCHANGED link
    BY <1>1, FinishTyped DEF Outcomes
  <1>2. CASE ArmAndWrite(t, 0) /\ owner' = t /\ LeaveQueue(t) /\ UNCHANGED outcome
    <2>1. queue' \in Seq(Tasks)
      BY <1>2, QueueWithout DEF LeaveQueue, TInv, TypeOK
    <2>2. 0 \in 0 .. (WriteAttempts - 1)
      BY ConstantsTyped
    <2> QED BY <1>2, <2>1, <2>2, WriteTyped
  <1> QED BY <1>1, <1>2 DEF WriteUnderLock

LEMMA TaskTyped ==
  ASSUME TInv, NEW t \in Tasks, Request(t) \/ Progresses(t) \/ Cancelled(t)
  PROVE  TInv'
  <1>1. ASSUME NEW s \in Stages, s # "idle", stage[t] # "idle",
               stage' = [stage EXCEPT ![t] = s],
               UNCHANGED <<link, cool, owner, kind, outcome, attempt, armed, ackArmed, progress,
                           airVars, clashed>>,
               future' \in {future, "cancelled"}, queue' \in Seq(Tasks)
        PROVE  TInv'
    <2>1. stage' \in [Tasks -> Stages] /\ Busy'
      BY <1>1 DEF TInv, TypeOK, Busy
    <2> QED BY <1>1, <2>1 DEF TInv, TypeOK, airVars
  <1>2. ASSUME NEW k \in Kinds, Execute(t, k) PROVE TInv'
    <2>1. /\ stage' \in [Tasks -> Stages] /\ kind' \in [Tasks -> Kinds \union {None}]
          /\ outcome' \in [Tasks -> Outcomes] /\ Busy'
      BY <1>2 DEF Execute, TInv, TypeOK, Busy, Outcomes
    <2>2. UNCHANGED <<link, cool, owner, queue, waitVars, airVars, clashed>>
      BY <1>2 DEF Execute
    <2> QED BY <2>1, <2>2 DEF TInv, TypeOK, Outcomes, waitVars, airVars
  <1>3. CASE CooldownOver(t)
    <2>1. CASE WriteUnderLock(t)
      BY <1>3, <2>1, WriteUnderLockTyped DEF CooldownOver
    <2>2. CASE /\ stage' = [stage EXCEPT ![t] = "queued"] /\ queue' = Append(queue, t)
               /\ UNCHANGED <<link, cool, owner, kind, outcome, waitVars, airVars, clashed>>
      <3>1. queue' \in Seq(Tasks)
        BY <2>2, AppendProperties DEF TInv, TypeOK
      <3> QED BY <1>1, <1>3, <2>2, <3>1 DEF CooldownOver, waitVars
    <2> QED BY <1>3, <2>1, <2>2 DEF CooldownOver
  <1>4. CASE AcquireSessionLock(t)
    BY <1>4, WriteUnderLockTyped DEF AcquireSessionLock
  <1>5. CASE WriteReturns(t)
    <2>1. PICK s \in {"waiting", "resulting", "acking"} : stage' = [stage EXCEPT ![t] = s]
      BY <1>5 DEF WriteReturns
    <2> QED BY <1>1, <1>5, <2>1 DEF WriteReturns, waitVars, TInv, TypeOK
  <1>6. CASE WriteFails(t) \/ Interrupted(t) \/ AckWaitExpires(t)
    BY <1>6, RaiseTyped DEF WriteFails, Interrupted, AckWaitExpires
  <1>7. CASE ReadReturns(t)
    <2>1. CASE Finish(t, "returned") /\ UNCHANGED link
      BY <2>1, FinishTyped DEF Outcomes
    <2>2. CASE Raise(t) /\ UNCHANGED link
      BY <2>2, RaiseTyped
    <2>3. CASE /\ ~LastWrite /\ ArmAndWrite(t, attempt + 1)
               /\ UNCHANGED <<owner, queue, outcome>>
      <3>1. attempt + 1 \in 0 .. (WriteAttempts - 1)
        BY <2>3, ConstantsTyped DEF LastWrite, TInv, TypeOK
      <3> QED BY <1>7, <2>3, <3>1, WriteTyped DEF ReadReturns, TInv, TypeOK
    <2> QED BY <1>7, <2>1, <2>2, <2>3 DEF ReadReturns
  <1>8. CASE TimesOut(t)
    BY <1>1, <1>8 DEF TimesOut, TInv, TypeOK
  <1>9. CASE AckWaitEnds(t)
    <2>1. CASE Finish(t, "returned") /\ UNCHANGED link
      BY <2>1, FinishTyped DEF Outcomes
    <2>2. CASE /\ stage' = [stage EXCEPT ![t] = "resulting"]
               /\ UNCHANGED <<link, cool, owner, queue, kind, outcome, waitVars, airVars, clashed>>
      BY <1>1, <1>9, <2>2 DEF AckWaitEnds, waitVars, TInv, TypeOK
    <2> QED BY <1>9, <2>1, <2>2 DEF AckWaitEnds
  <1>10. CASE ResultWaitEnds(t)
    BY <1>10, FinishTyped DEF ResultWaitEnds, Outcomes
  <1>11. CASE Cancelled(t)
    BY <1>11, FinishTyped DEF Cancelled, Outcomes
  <1> QED
    BY <1>2, <1>3, <1>4, <1>5, <1>6, <1>7, <1>8, <1>9, <1>10, <1>11 DEF Request, Progresses

LEMMA FrameTyped ==
  ASSUME TInv, NEW f, Notify(f) \/ NotifyInvalid(f) PROVE TInv'
  <1>1. /\ cool' = TRUE /\ owed' \subseteq owed
        /\ UNCHANGED <<link, owner, queue, stage, kind, outcome, attempt, delivered>>
    BY DEF Notify, NotifyInvalid, Heard, taskVars
  <1>2. armed' \in BOOLEAN /\ ackArmed' \in BOOLEAN
    BY DEF Notify, NotifyInvalid, Resolve, TInv, TypeOK
  <1>3. /\ future' \in {None, "pending", "result", "error", "cancelled"}
        /\ clashed' \in BOOLEAN
    <2>1. CASE UNCHANGED <<future, clashed>>
      BY <2>1 DEF TInv, TypeOK
    <2>2. ASSUME NEW value \in {"result", "error"}, Resolve(value)
          PROVE  future' \in {future, value} /\ clashed' \in BOOLEAN
      <3>1. CASE Resolvable
        <4>1. clashed' = (clashed \/ future # "pending")
          BY <2>2, <3>1 DEF Resolve
        <4>2. (clashed \/ future # "pending") \in BOOLEAN
          OBVIOUS
        <4> QED BY <2>2, <3>1, <4>1, <4>2 DEF Resolve
      <3>2. CASE ~Resolvable
        BY <2>2, <3>2 DEF Resolve, TInv, TypeOK
      <3> QED BY <3>1, <3>2
    <2> QED BY <2>1, <2>2 DEF Notify, NotifyInvalid, TInv, TypeOK
  <1>4. progress' \in Progress
    <2>1. progress \in Progress
      BY DEF TInv, TypeOK, Progress
    <2>2. [progress EXCEPT !.acked = TRUE] \in Progress
      BY <2>1 DEF Progress
    <2>3. ASSUME NEW b \in BOOLEAN PROVE [progress EXCEPT !.result = b] \in Progress
      BY <2>1 DEF Progress
    <2>4. Staged(kind[owner]) \in BOOLEAN
      BY DEF Staged
    <2> QED BY <2>1, <2>2, <2>3, <2>4 DEF Notify, NotifyInvalid
  <1>5. Busy'
    BY <1>1 DEF TInv, Busy
  <1>6. TypeOK'
    BY <1>1, <1>2, <1>3, <1>4 DEF TInv, TypeOK, Progress
  <1> QED BY <1>5, <1>6 DEF TInv

LEMMA DeliveredTyped ==
  ASSUME TInv, Delivered PROVE TInv'
  <1>1. /\ delivered' = TRUE /\ owed' = StillOwed \union Answers(kind[owner])
        /\ UNCHANGED <<link, cool, owner, queue, stage, kind, outcome, attempt, armed, future,
                      ackArmed, progress, clashed>>
    BY DEF Delivered, taskVars, waitVars
  <1>2. kind[owner] \in Kinds
    BY DEF Delivered, TInv, TypeOK, Busy
  <1>3. Answers(kind[owner]) \subseteq Frames
    <2>1. kind[owner] \in {"read", "setting"} \union LockOperation
      BY <1>2, ConstantsTyped
    <2>2. ASSUME NEW f \in Answers(kind[owner]) PROVE f \in Frames
      <3>1. PICK p \in {"ack", "answer"} : f = [req |-> kind[owner], part |-> p, stale |-> FALSE]
        BY DEF Answers
      <3> QED BY <2>1, <3>1 DEF Frames
    <2> QED BY <2>2
  <1>4. StillOwed \subseteq Frames
    <2>1. ASSUME NEW f \in Frames PROVE [f EXCEPT !.stale = TRUE] \in Frames
      BY DEF Frames
    <2> QED BY <2>1 DEF StillOwed, TInv, TypeOK
  <1>5. TypeOK'
    BY <1>1, <1>3, <1>4 DEF TInv, TypeOK
  <1> QED BY <1>1, <1>5 DEF TInv, Busy

LEMMA NextTyped == ASSUME TInv, [Next]_vars PROVE TInv'
  <1>1. CASE \E t \in Tasks : Request(t) \/ Progresses(t) \/ Cancelled(t)
    BY <1>1, TaskTyped
  <1>2. CASE Delivered
    BY <1>2, DeliveredTyped
  <1>3. CASE FrameArrives
    BY <1>3, FrameTyped DEF FrameArrives
  <1>4. CASE Disconnected
    <2>1. stage' \in [Tasks -> Stages] /\ Busy'
      BY <1>4 DEF Disconnected, TInv, TypeOK, Busy, InScope
    <2>2. /\ link' = FALSE /\ owed' = {} /\ delivered' = FALSE
          /\ future' \in {future, "cancelled"}
          /\ UNCHANGED <<cool, owner, queue, kind, outcome, attempt, armed, ackArmed, progress,
                        clashed>>
      BY <1>4 DEF Disconnected
    <2> QED BY <2>1, <2>2 DEF TInv, TypeOK
  <1>5. CASE CooldownPasses
    BY <1>5 DEF CooldownPasses, taskVars, waitVars, airVars, TInv, TypeOK, Busy
  <1>6. CASE UNCHANGED vars
    BY <1>6 DEF vars, taskVars, waitVars, airVars, TInv, TypeOK, Busy
  <1> QED BY <1>1, <1>2, <1>3, <1>4, <1>5, <1>6 DEF Next

LEMMA TypesHold == Spec => []TInv
  <1>1. Init => TInv
    <2> SUFFICES ASSUME Init PROVE TInv
      OBVIOUS
    <2>1. queue \in Seq(Tasks)
      BY EmptySeq DEF Init
    <2>2. progress \in Progress /\ attempt \in 0 .. (WriteAttempts - 1)
      BY NoProgressTyped DEF Init
    <2>3. TypeOK
      BY <2>1, <2>2 DEF Init, TypeOK, Progress
    <2> QED BY <2>3 DEF Init, TInv, Busy
  <1>2. TInv /\ [Next]_vars => TInv'
    BY NextTyped
  <1> QED BY <1>1, <1>2, PTL DEF Spec

\* Every variable keeps its type: no rewrite goes past the last allowed write,
\* and the lock only owes frames that answer one of the requests.
THEOREM TypeCorrect == Spec => []TypeOK
  <1>1. TInv => TypeOK
    BY DEF TInv
  <1> QED BY <1>1, TypesHold, PTL

-----------------------------------------------------------------------------
(* A request keeps the contract of an attempt.                             *)

\* Only a command is marked as written.
WrittenIsStaged == owner # None /\ progress.written => Staged(kind[owner])

CInv == IInv /\ TInv /\ WrittenIsStaged

\* A request whose write is behind it is not attempted again past its final
\* stage, nor once its op-response is recorded.
MayRetry(t) == owner = t /\ Staged(kind[t]) => ~FinalStage(t) /\ ~Recorded(t)

Ends(t) == \E result \in Outcomes : Finish(t, result) /\ (result = "retryable" => MayRetry(t))

\* A write is the first of the request that takes the lock, or repeats a read.
Writes(t) ==
    /\ \E n \in Nat : ArmAndWrite(t, n)
    /\ owner' = t /\ UNCHANGED outcome
    /\ owner = None \/ (owner = t /\ ~Staged(kind[t]))

Elsewhere == UNCHANGED <<owner, kind, outcome, progress>>

\* What a step may do to the requests and to the progress of the owner's.
LEMMA StepShapes ==
  ASSUME CInv, [Next]_vars
  PROVE  \/ \E t \in Tasks : Ends(t) \/ Writes(t) \/ Request(t)
         \/ \E f : Notify(f)
         \/ Elsewhere
  <1> DEFINE Shape == \/ \E t \in Tasks : Ends(t) \/ Writes(t) \/ Request(t)
                      \/ \E f : Notify(f)
                      \/ Elsewhere
  <1>1. ASSUME NEW t \in Tasks, Raise(t) PROVE Shape
    <2>1. CASE Recorded(t)
      BY <1>1, <2>1 DEF Raise, Ends, Outcomes
    <2>2. CASE ~Recorded(t) /\ Staged(kind[t]) /\ owner = t /\ FinalStage(t)
      BY <1>1, <2>2 DEF Raise, Ends, Outcomes
    <2>3. CASE ~Recorded(t) /\ ~(Staged(kind[t]) /\ owner = t /\ FinalStage(t))
      <3>1. Finish(t, "retryable") /\ MayRetry(t)
        BY <1>1, <2>3 DEF Raise, MayRetry
      <3> QED BY <3>1 DEF Ends, Outcomes
    <2> QED BY <2>1, <2>2, <2>3
  <1>2. ASSUME NEW t \in Tasks, NEW result \in {"returned", "incomplete", "cancelled"},
               Finish(t, result)
        PROVE  Shape
    BY <1>2 DEF Ends, Outcomes
  <1>3. ASSUME NEW t \in Tasks, owner = None, WriteUnderLock(t) PROVE Shape
    <2>1. CASE Finish(t, "retryable")
      <3>1. MayRetry(t)
        BY <1>3 DEF MayRetry
      <3> QED BY <2>1, <3>1 DEF Ends, Outcomes
    <2>2. CASE ArmAndWrite(t, 0) /\ owner' = t /\ UNCHANGED outcome
      BY <1>3, <2>2 DEF Writes
    <2> QED BY <1>3, <2>1, <2>2 DEF WriteUnderLock
  <1>4. ASSUME NEW t \in Tasks, Progresses(t) \/ Cancelled(t) PROVE Shape
    <2>1. CASE CooldownOver(t) \/ AcquireSessionLock(t)
      BY <1>3, <2>1 DEF CooldownOver, AcquireSessionLock, Free, waitVars, Elsewhere
    <2>2. CASE WriteReturns(t) \/ TimesOut(t)
      BY <2>2 DEF WriteReturns, TimesOut, waitVars, Elsewhere
    <2>3. CASE WriteFails(t) \/ Interrupted(t) \/ AckWaitExpires(t)
      BY <1>1, <2>3 DEF WriteFails, Interrupted, AckWaitExpires
    <2>4. CASE ReadReturns(t)
      <3>1. CASE ArmAndWrite(t, attempt + 1) /\ UNCHANGED <<owner, queue, outcome>>
        <4>1. owner = t /\ ~Staged(kind[t])
          BY <2>4 DEF ReadReturns, CInv, IInv, OneAtATime, WaitIsOwned
        <4>2. attempt + 1 \in Nat
          BY ConstantsTyped DEF CInv, TInv, TypeOK
        <4> QED BY <3>1, <4>1, <4>2 DEF Writes
      <3> QED BY <1>1, <1>2, <2>4, <3>1 DEF ReadReturns
    <2>5. CASE AckWaitEnds(t)
      BY <1>2, <2>5 DEF AckWaitEnds, waitVars, Elsewhere
    <2>6. CASE ResultWaitEnds(t) \/ Cancelled(t)
      BY <1>2, <2>6 DEF ResultWaitEnds, Cancelled
    <2> QED BY <1>4, <2>1, <2>2, <2>3, <2>4, <2>5, <2>6 DEF Progresses
  <1>5. ASSUME NEW f, NotifyInvalid(f) PROVE Shape
    BY <1>5 DEF NotifyInvalid, Heard, taskVars, Elsewhere
  <1>6. CASE Delivered \/ Disconnected \/ CooldownPasses \/ UNCHANGED vars
    BY <1>6 DEF Delivered, Disconnected, CooldownPasses, vars, taskVars, waitVars, Elsewhere
  <1> QED BY <1>4, <1>5, <1>6 DEF Next, FrameArrives

LEMMA RequestLeaves ==
  ASSUME CInv, NEW t \in Tasks, Request(t)
  PROVE  /\ owner # t /\ UNCHANGED <<owner, progress>>
         /\ \E k \in Kinds : /\ kind' = [kind EXCEPT ![t] = k]
                             /\ outcome' = [outcome EXCEPT ![t] = None]
  BY DEF Request, Execute, waitVars, CInv, IInv, OneAtATime

LEMMA WrittenKept == ASSUME CInv, [Next]_vars PROVE CInv'
  <1>1. IInv' /\ TInv'
    BY NextKeeps, NextTyped DEF CInv
  <1>2. kind \in [Tasks -> Kinds \union {None}] /\ owner \in Tasks \union {None}
    BY DEF CInv, TInv, TypeOK
  <1>3. ASSUME NEW t \in Tasks, Ends(t) PROVE WrittenIsStaged'
    <2>1. PICK result : Finish(t, result)
      BY <1>3 DEF Ends
    <2>2. CASE owner = t
      BY <2>1, <2>2 DEF Finish, WrittenIsStaged
    <2>3. CASE owner # t
      BY <1>2, <2>1, <2>3 DEF Finish, waitVars, CInv, WrittenIsStaged, Staged
    <2> QED BY <2>2, <2>3
  <1>4. ASSUME NEW t \in Tasks, Writes(t) PROVE WrittenIsStaged'
    BY <1>4 DEF Writes, ArmAndWrite, NoProgress, WrittenIsStaged, Staged
  <1>5. ASSUME NEW t \in Tasks, Request(t) PROVE WrittenIsStaged'
    BY <1>2, <1>5, RequestLeaves DEF CInv, WrittenIsStaged, Staged
  <1>6. ASSUME NEW f, Notify(f) PROVE WrittenIsStaged'
    <2>1. UNCHANGED <<owner, kind>> /\ progress'.written = progress.written
      BY <1>6 DEF Notify, Heard, taskVars, CInv, IInv, ProgressTyped
    <2> QED BY <2>1 DEF CInv, WrittenIsStaged, Staged
  <1>7. ASSUME Elsewhere PROVE WrittenIsStaged'
    BY <1>7 DEF Elsewhere, CInv, WrittenIsStaged, Staged
  <1> QED BY <1>1, <1>3, <1>4, <1>5, <1>6, <1>7, StepShapes DEF CInv

LEMMA ContractInvariant == Spec => []CInv
  <1>1. Init => WrittenIsStaged
    BY DEF Init, WrittenIsStaged
  <1>2. Init /\ IInv /\ TInv => CInv
    BY <1>1 DEF CInv
  <1>3. CInv /\ [Next]_vars => CInv'
    BY WrittenKept
  <1> QED BY <1>2, <1>3, InvariantHolds, TypesHold, PTL DEF Spec

LEMMA WatchedIsTask == Watched \in Tasks
  BY DEF Watched

\* The contract looks at the watched task's request and at its progress.
LEMMA UnseenStep ==
  ASSUME kind'[Watched] = kind[Watched], outcome'[Watched] = outcome[Watched], Phase' = Phase
  PROVE  UNCHANGED Attempt!contractVars
  BY DEF Attempt!contractVars

\* The initial states map to initial states of the contract.
LEMMA ContractInit == Init => Attempt!Init
  BY WatchedIsTask DEF Init, Attempt!Init, Phase

\* A request that ends gives up for another attempt only where it may.
LEMMA EndStep ==
  ASSUME CInv, NEW t \in Tasks, Ends(t)
  PROVE  [Attempt!Next]_(Attempt!contractVars)
  <1>1. PICK result \in Outcomes : Finish(t, result) /\ (result = "retryable" => MayRetry(t))
    BY DEF Ends
  <1>2. /\ kind' = [kind EXCEPT ![t] = None] /\ outcome' = [outcome EXCEPT ![t] = result]
        /\ owner' = None \/ (owner # t /\ UNCHANGED <<owner, progress>>)
        /\ owner = t => owner' = None
        /\ owner # t => UNCHANGED <<owner, progress>>
    BY <1>1 DEF Finish, waitVars
  <1>3. CASE t = Watched
    <2>1. Phase' = "idle"
      BY <1>2, <1>3, WatchedIsTask DEF Phase
    <2>2. kind'[Watched] = None /\ outcome'[Watched] = result
      BY <1>2, <1>3 DEF CInv, TInv, TypeOK
    <2>3. CASE result = "retryable"
      <3>1. Phase = "idle" \/ (Phase = "sent" /\ kind[Watched] \notin Once)
        BY <1>1, <1>3, <2>3
           DEF MayRetry, FinalStage, Recorded, Phase, CInv, WrittenIsStaged
      <3> QED BY <2>1, <2>2, <2>3, <3>1 DEF Attempt!Next, Attempt!GiveUpForAnother
    <2>4. CASE result # "retryable"
      BY <2>1, <2>2, <2>4 DEF Attempt!Next, Attempt!Issue, Attempt!End
    <2> QED BY <2>3, <2>4
  <1>4. CASE t # Watched
    <2>1. kind'[Watched] = kind[Watched] /\ outcome'[Watched] = outcome[Watched]
      BY <1>2, <1>4, WatchedIsTask DEF CInv, TInv, TypeOK
    <2>2. Phase' = Phase
      BY <1>2, <1>4, WatchedIsTask DEF Phase
    <2> QED BY <2>1, <2>2, UnseenStep
  <1> QED BY <1>3, <1>4

\* A write sends a command, or repeats what the contract does not look at.
LEMMA WriteStep ==
  ASSUME CInv, NEW t \in Tasks, Writes(t)
  PROVE  [Attempt!Next]_(Attempt!contractVars)
  <1>1. /\ UNCHANGED <<kind, outcome>> /\ owner' = t
        /\ progress' = [NoProgress EXCEPT !.written = Staged(kind[t])]
        /\ owner = None \/ (owner = t /\ ~Staged(kind[t]))
    BY DEF Writes, ArmAndWrite
  <1>2. Phase = "idle"
    BY <1>1, WatchedIsTask DEF Phase, CInv, WrittenIsStaged
  <1>3. CASE t = Watched /\ Staged(kind[t])
    <2>1. Phase' = "sent"
      BY <1>1, <1>3 DEF Phase, NoProgress
    <2>2. kind'[Watched] # None
      BY <1>1, <1>3 DEF Staged, LockOperation
    <2> QED BY <1>2, <2>1, <2>2 DEF Attempt!Next, Attempt!Send
  <1>4. CASE ~(t = Watched /\ Staged(kind[t]))
    <2>1. Phase' = "idle"
      BY <1>1, <1>4 DEF Phase, NoProgress
    <2> QED BY <1>1, <1>2, <2>1, UnseenStep
  <1> QED BY <1>3, <1>4

\* A frame acknowledges the command, or answers it, once.
LEMMA FrameStep ==
  ASSUME CInv, NEW f, Notify(f)
  PROVE  [Attempt!Next]_(Attempt!contractVars)
  <1>1. UNCHANGED <<owner, kind, outcome>>
    BY DEF Notify, Heard, taskVars
  <1>2. progress \in Progress
    BY DEF CInv, TInv, TypeOK, Progress
  <1>3. CASE progress' = progress
    BY <1>1, <1>3, UnseenStep DEF Phase
  <1>4. CASE progress' = [progress EXCEPT !.acked = TRUE]
    <2>1. Phase' = IF Phase = "sent" THEN "acked" ELSE Phase
      BY <1>1, <1>2, <1>4 DEF Phase, Progress
    <2>2. CASE Phase = "sent"
      BY <1>1, <2>1, <2>2 DEF Attempt!Next, Attempt!Acknowledge
    <2> QED BY <1>1, <2>1, <2>2, UnseenStep
  <1>5. CASE armed /\ progress' = [progress EXCEPT !.result = Staged(kind[owner])]
    <2>1. owner # None
      BY <1>5 DEF CInv, IInv, WaitIsOwned
    <2>2. CASE Phase = "idle"
      <3>1. Phase' = "idle"
        BY <1>1, <1>2, <1>5, <2>2 DEF Phase, Progress
      <3> QED BY <1>1, <2>2, <3>1, UnseenStep
    <2>3. CASE Phase # "idle"
      <3>1. owner = Watched /\ progress.written /\ Staged(kind[owner])
        BY <2>1, <2>3 DEF Phase, CInv, WrittenIsStaged
      <3>2. progress'.result /\ progress'.written
        BY <1>2, <1>5, <3>1 DEF Progress
      <3>3. Phase' = "answered"
        BY <1>1, <3>1, <3>2 DEF Phase
      <3>4. CASE Phase \in {"sent", "acked"}
        BY <1>1, <3>3, <3>4 DEF Attempt!Next, Attempt!Answer
      <3>5. CASE Phase = "answered"
        BY <1>1, <3>3, <3>5, UnseenStep
      <3> QED BY <2>3, <3>4, <3>5 DEF Phase
    <2> QED BY <2>2, <2>3
  <1> QED BY <1>3, <1>4, <1>5 DEF Notify

\* Every step of the session maps to a step of the contract or to a stutter.
LEMMA ContractStep ==
  ASSUME CInv, [Next]_vars
  PROVE  [Attempt!Next]_(Attempt!contractVars)
  <1>1. ASSUME NEW t \in Tasks, Request(t) PROVE [Attempt!Next]_(Attempt!contractVars)
    <2>1. owner # t /\ UNCHANGED <<owner, progress>> /\ Phase' = Phase
      BY <1>1, RequestLeaves DEF Phase
    <2>2. PICK k \in Kinds : /\ kind' = [kind EXCEPT ![t] = k]
                             /\ outcome' = [outcome EXCEPT ![t] = None]
      BY <1>1, RequestLeaves
    <2>3. CASE t = Watched
      <3>1. Phase = "idle" /\ kind'[Watched] # None
        BY <2>1, <2>2, <2>3, ConstantsTyped DEF Phase, CInv, TInv, TypeOK
      <3> QED BY <2>1, <3>1 DEF Attempt!Next, Attempt!Issue
    <2>4. CASE t # Watched
      <3>1. kind'[Watched] = kind[Watched] /\ outcome'[Watched] = outcome[Watched]
        BY <2>2, <2>4, WatchedIsTask DEF CInv, TInv, TypeOK
      <3> QED BY <2>1, <3>1, UnseenStep
    <2> QED BY <2>3, <2>4
  <1>2. CASE Elsewhere
    BY <1>2, UnseenStep DEF Elsewhere, Phase
  <1> QED BY <1>1, <1>2, StepShapes, EndStep, WriteStep, FrameStep

\* The session implements the contract: what execute_operation raises for another
\* attempt was not acknowledged, and was not written if the command must not be
\* written twice; an op-response is the last word.
THEOREM ContractKept == Spec => AttemptKeepsContract
  <1>1. CInv /\ [Next]_vars => [Attempt!Next]_(Attempt!contractVars)
    BY ContractStep
  <1> QED BY <1>1, ContractInit, ContractInvariant, PTL
          DEF Spec, AttemptKeepsContract, Attempt!Spec
=============================================================================

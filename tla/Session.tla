------------------------------ MODULE Session ------------------------------
(* One secured connection's Session (session.py): callers' requests take     *)
(* turns under the session lock, each arms a wait before it writes, and      *)
(* _notify hands every frame of the lock to the state callback and to the    *)
(* armed wait. A request is a read that names its answer, the auto-lock read *)
(* that takes any frame, or a mechanical command with its staged wait for an *)
(* acknowledgment and an op-response.                                        *)
(*                                                                           *)
(* The lock and the radio are external: they answer what was written, late   *)
(* or never, push frames of their own, and corrupt any of them.              *)
EXTENDS LockDisplay, WaitingLine

CONSTANTS
    Tasks,        \* the tasks that issue requests
    Kinds,        \* the requests they issue
    Cooldown,     \* _enable_cooldown
    WriteAttempts \* writes of a solicited request whose answer is invalid

ASSUME KindsAssumption == Kinds \subseteq {"read", "setting"} \union LockOperation
ASSUME CooldownAssumption == Cooldown \in BOOLEAN
ASSUME WriteAttemptsAssumption == WriteAttempts \in Nat \ {0}

VARIABLES
    link,      \* client.is_connected
    cool,      \* less than COOLDOWN_TIME since _last_callback_time
    owner,     \* who holds the session lock
    queue,     \* who waits for it
    stage,     \* where each task's request is
    kind,      \* each task's request, while it has one
    outcome,   \* how each task's last request ended
    attempt,   \* writes of the owner's request that are behind it
    armed,     \* _notify_future is not None
    future,    \* the future of the owner's wait
    ackArmed,  \* _ack_future is not None
    progress,  \* OperationProgress of the owner's command
    delivered, \* external: the write in hand has reached the lock
    owed,      \* external: the frames the lock may still send
    clashed    \* history: _notify resolved a future twice

waitVars == <<attempt, armed, future, ackArmed, progress>>
taskVars == <<owner, queue, stage, kind, outcome>>
airVars == <<delivered, owed>>
vars == <<link, cool, taskVars, waitVars, airVars, clashed>>

None == "none"

ASSUME TasksAssumption == Tasks # {} /\ None \notin Tasks

\* Commands that are never re-sent once written.
Once == {"unlatch"}

Staged(k) == k \in LockOperation

Opcode(o) == IF o \in {"lock", "securemode"} THEN "LOCK" ELSE "UNLOCK"

\* A frame answers a request, or one that is over ("stale") or nobody's.
Frames ==
    [req : {"read", "setting"} \union LockOperation, part : {"ack", "answer"},
     stale : BOOLEAN]

\* What the lock sends on its own: a status, or an op-response of another's command.
Pushed ==
    {[req |-> r, part |-> "answer", stale |-> TRUE] : r \in {"read"} \union (Kinds \ {"setting"})}

\* The frames a written request is answered with.
Answers(k) ==
    {[req |-> k, part |-> p, stale |-> FALSE] :
        p \in IF k = "read" THEN {"answer"} ELSE {"ack", "answer"}}

\* _ack_matcher: the opcode and the operation byte.
AckMatches(f, k) == f.part = "ack" /\ f.req = k

\* The matcher of the armed wait; the auto-lock read has none.
AnswerMatches(f, k) ==
    \/ k = "setting"
    \/ k = "read" /\ f.req = k /\ f.part = "answer"
    \/ Staged(k) /\ Staged(f.req) /\ f.part = "answer" /\ Opcode(f.req) = Opcode(k)

NoProgress == [written |-> FALSE, acked |-> FALSE, result |-> FALSE]

Init ==
    /\ link = TRUE /\ cool = FALSE
    /\ owner = None /\ queue = <<>>
    /\ stage = [t \in Tasks |-> "idle"]
    /\ kind = [t \in Tasks |-> None]
    /\ outcome = [t \in Tasks |-> None]
    /\ attempt = 0 /\ armed = FALSE /\ future = None
    /\ ackArmed = FALSE /\ progress = NoProgress
    /\ delivered = FALSE /\ owed = {} /\ clashed = FALSE

-----------------------------------------------------------------------------
(* The end of a request. *)

\* Slip: a wait that was given up stays armed.
Disarm_Skipped == UNCHANGED <<armed, ackArmed>>

\* _disarm_wait and _disarm_ack, in the finally of the wait.
Disarm ==
    /\ armed' = FALSE
    /\ ackArmed' = FALSE

LeaveQueue(t) == queue' = Without(queue, t)

\* The request leaves execute or execute_operation, and the locks it held.
Finish(t, result) ==
    /\ stage' = [stage EXCEPT ![t] = "idle"]
    /\ kind' = [kind EXCEPT ![t] = None]
    /\ outcome' = [outcome EXCEPT ![t] = result]
    /\ LeaveQueue(t)
    /\ IF owner = t
       THEN /\ owner' = None
            /\ Disarm
            /\ attempt' = 0 /\ future' = None
            /\ progress' = NoProgress
       ELSE UNCHANGED <<owner, waitVars>>
    /\ UNCHANGED <<cool, airVars, clashed>>

\* Slip: only the acknowledgment makes a failure final.
FinalStage_AckOnly(t) == progress.acked

\* OperationProgress.final_stage.
FinalStage(t) == progress.acked \/ (progress.written /\ kind[t] \in Once)

\* Slip: the recorded op-response is not looked at.
Recorded_Ignored(t) == FALSE

Recorded(t) == Staged(kind[t]) /\ owner = t /\ progress.result

\* The except clause of execute_operation; of execute, the error is raised.
Raise(t) ==
    Finish(t, IF Recorded(t) THEN "returned"
              ELSE IF Staged(kind[t]) /\ owner = t /\ FinalStage(t) THEN "incomplete"
              ELSE "retryable")

-----------------------------------------------------------------------------
(* The request, up to its write. *)

\* Arm the wait and hand the command to the GATT write.
ArmAndWrite(t, n) ==
    /\ stage' = [stage EXCEPT ![t] = "writing"]
    /\ attempt' = n
    /\ armed' = TRUE /\ future' = "pending"
    /\ ackArmed' = Staged(kind[t])
    /\ progress' = [NoProgress EXCEPT !.written = Staged(kind[t])]
    /\ delivered' = FALSE
    /\ UNCHANGED <<link, cool, kind, owed, clashed>>

\* The session lock is t's: the write starts, or the link is found closed.
WriteUnderLock(t) ==
    \/ /\ link
       /\ owner' = t
       /\ ArmAndWrite(t, 0)
       /\ LeaveQueue(t)
       /\ UNCHANGED outcome
    \/ /\ ~link
       /\ Finish(t, "retryable")
       /\ UNCHANGED link

\* execute and execute_operation: the cooldown comes first.
Execute(t, k) ==
    /\ stage[t] = "idle"
    /\ stage' = [stage EXCEPT ![t] = "cooldown"]
    /\ kind' = [kind EXCEPT ![t] = k]
    /\ outcome' = [outcome EXCEPT ![t] = None]
    /\ UNCHANGED <<link, cool, owner, queue, waitVars, airVars, clashed>>

\* _wait_for_cooldown returns; a free session lock is taken without an await.
CooldownOver(t) ==
    /\ stage[t] = "cooldown" /\ ~(Cooldown /\ cool)
    /\ IF Free(owner, queue)
       THEN WriteUnderLock(t)
       ELSE /\ stage' = [stage EXCEPT ![t] = "queued"]
            /\ queue' = Append(queue, t)
            /\ UNCHANGED <<link, cool, owner, kind, outcome, waitVars, airVars, clashed>>

AcquireSessionLock(t) ==
    /\ owner = None /\ queue # <<>> /\ Head(queue) = t /\ stage[t] = "queued"
    /\ WriteUnderLock(t)

\* What is still on its way from a request before: but for a staged command's
\* acknowledgment, no wait tells it from what the lock pushes.
StillOwed ==
    {[f EXCEPT !.stale = TRUE] : f \in {g \in owed : g.part = "ack" /\ Staged(g.req)}}

\* The lock has the command: it may answer.
Delivered ==
    /\ owner # None /\ stage[owner] = "writing" /\ link /\ ~delivered
    /\ delivered' = TRUE
    /\ owed' = StillOwed \union Answers(kind[owner])
    /\ UNCHANGED <<link, cool, taskVars, waitVars, clashed>>

\* The GATT write is acknowledged by the stack.
WriteReturns(t) ==
    /\ stage[t] = "writing" /\ link /\ delivered
    /\ stage' = [stage EXCEPT ![t] =
                   IF ~Staged(kind[t]) THEN "waiting"
                   ELSE IF kind[t] \in Once THEN "resulting"
                   ELSE "acking"]
    /\ UNCHANGED <<link, cool, owner, queue, kind, outcome, waitVars, airVars, clashed>>

\* The GATT write raises: it may have been delivered all the same.
WriteFails(t) ==
    /\ stage[t] = "writing"
    /\ Raise(t)
    /\ UNCHANGED link

-----------------------------------------------------------------------------
(* Frames. *)

Heard(f) ==
    /\ cool' = TRUE
    /\ owed' = owed \ {f}
    /\ UNCHANGED <<link, taskVars, attempt, delivered>>

\* Slip: a future that a timeout cancelled is resolved again.
Resolvable_Unchecked == TRUE

\* future.done() is asked before a future is resolved.
Resolvable == future = "pending"

\* _disarm_wait, and the future is resolved unless its waiter gave it up.
Resolve(value) ==
    /\ armed' = FALSE
    /\ IF Resolvable
       THEN /\ future' = value
            /\ clashed' = (clashed \/ future # "pending")
       ELSE UNCHANGED <<future, clashed>>

\* A valid frame: an acknowledgment of the staged wait, the answer of the armed
\* wait, or the state callback's alone.
Notify(f) ==
    /\ link
    /\ Heard(f)
    /\ \/ /\ ackArmed /\ AckMatches(f, kind[owner])
          /\ ackArmed' = FALSE
          /\ progress' = [progress EXCEPT !.acked = TRUE]
          /\ UNCHANGED <<armed, future, clashed>>
       \/ /\ ~(ackArmed /\ AckMatches(f, kind[owner]))
          /\ armed /\ AnswerMatches(f, kind[owner])
          /\ progress' = [progress EXCEPT !.result = Staged(kind[owner])]
          /\ Resolve("result")
          /\ UNCHANGED ackArmed
       \/ /\ ~(ackArmed /\ AckMatches(f, kind[owner]))
          /\ ~(armed /\ AnswerMatches(f, kind[owner]))
          /\ UNCHANGED <<armed, future, ackArmed, progress, clashed>>

\* Slip: a bad frame fails the staged wait too.
BadFrameFailsWait_Any == armed

\* _reject_frame: a staged wait never fails on a bad frame.
BadFrameFailsWait == armed /\ ~Staged(kind[owner])

\* A frame of the wrong length, or one whose checksum or flag is wrong.
NotifyInvalid(f) ==
    /\ link
    /\ Heard(f)
    /\ IF BadFrameFailsWait THEN Resolve("error") ELSE UNCHANGED <<armed, future, clashed>>
    /\ UNCHANGED <<ackArmed, progress>>

-----------------------------------------------------------------------------
(* The waits. *)

\* Slip: one write too many.
LastWrite_OffByOne == attempt >= WriteAttempts

LastWrite == attempt + 1 >= WriteAttempts

\* The solicited wait is over: its frame is returned, or a bad one is retried.
ReadReturns(t) ==
    /\ stage[t] = "waiting"
    /\ \/ /\ future = "result"
          /\ Finish(t, "returned")
          /\ UNCHANGED link
       \/ /\ future = "error" /\ ~LastWrite
          /\ ArmAndWrite(t, attempt + 1)
          /\ UNCHANGED <<owner, queue, outcome>>
       \/ /\ future = "error" /\ LastWrite
          /\ Raise(t)
          /\ UNCHANGED link

\* asyncio_timeout cancels the task: the future it awaits is cancelled now, the
\* task resumes later.
TimesOut(t) ==
    /\ stage[t] \in {"writing", "waiting"}
    /\ stage' = [stage EXCEPT ![t] = "interrupted"]
    /\ future' = IF stage[t] = "waiting" /\ future = "pending" THEN "cancelled" ELSE future
    /\ UNCHANGED <<link, cool, owner, queue, kind, outcome, attempt, armed,
                   ackArmed, progress, airVars, clashed>>

\* A task that was timed out, or interrupted by the disconnect, resumes.
Interrupted(t) ==
    /\ stage[t] = "interrupted"
    /\ Raise(t)
    /\ UNCHANGED link

\* The first wait of a staged command ends on the acknowledgment or the answer.
AckWaitEnds(t) ==
    /\ stage[t] = "acking"
    /\ \/ /\ future = "result"
          /\ Finish(t, "returned")
          /\ UNCHANGED link
       \/ /\ future # "result" /\ progress.acked
          /\ stage' = [stage EXCEPT ![t] = "resulting"]
          /\ UNCHANGED <<link, cool, owner, queue, kind, outcome, waitVars, airVars,
                         clashed>>

\* ACK_TIMEOUT: neither had arrived when the task resumed.
AckWaitExpires(t) ==
    /\ stage[t] = "acking" /\ future # "result" /\ ~progress.acked
    /\ Raise(t)
    /\ UNCHANGED link

\* Slip: the second wait has no deadline.
ResultWaitEnds_Untimed(t) ==
    /\ stage[t] = "resulting" /\ future = "result"
    /\ Finish(t, "returned")
    /\ UNCHANGED link

\* The second wait: the op-response, or OPERATION_RESPONSE_TIMEOUT.
ResultWaitEnds(t) ==
    /\ stage[t] = "resulting"
    /\ Finish(t, IF future = "result" THEN "returned" ELSE "incomplete")
    /\ UNCHANGED link

-----------------------------------------------------------------------------
(* The link, the caller and the clock. *)

\* Lock.disconnected interrupts every request past its cooldown.
InScope == {"queued", "writing", "waiting", "acking", "resulting"}

Disconnected ==
    /\ link
    /\ link' = FALSE
    /\ owed' = {}
    /\ delivered' = FALSE
    /\ stage' = [t \in Tasks |-> IF stage[t] \in InScope THEN "interrupted" ELSE stage[t]]
    /\ future' = IF /\ owner # None /\ stage[owner] = "waiting"
                    /\ future = "pending"
                 THEN "cancelled" ELSE future
    /\ UNCHANGED <<cool, owner, queue, kind, outcome, attempt, armed,
                   ackArmed, progress, clashed>>

\* The caller cancels its task.
Cancelled(t) ==
    /\ stage[t] # "idle"
    /\ Finish(t, "cancelled")
    /\ UNCHANGED link

CooldownPasses ==
    /\ cool
    /\ cool' = FALSE
    /\ UNCHANGED <<link, taskVars, waitVars, airVars, clashed>>

-----------------------------------------------------------------------------
Request(t) == \E k \in Kinds : Execute(t, k)

Progresses(t) ==
    \/ CooldownOver(t) \/ AcquireSessionLock(t) \/ WriteReturns(t) \/ WriteFails(t)
    \/ ReadReturns(t) \/ TimesOut(t) \/ Interrupted(t)
    \/ AckWaitEnds(t) \/ AckWaitExpires(t) \/ ResultWaitEnds(t)

FrameArrives == \E f \in owed \union Pushed : Notify(f) \/ NotifyInvalid(f)

Next ==
    \/ \E t \in Tasks : Request(t) \/ Progresses(t) \/ Cancelled(t)
    \/ Delivered \/ FrameArrives
    \/ Disconnected \/ CooldownPasses

Spec == Init /\ [][Next]_vars

\* Every wait has a deadline, and the loop resumes what is ready.
FairSpec ==
    /\ Spec
    /\ \A t \in Tasks : WF_vars(Progresses(t))
    /\ WF_vars(CooldownPasses)

-----------------------------------------------------------------------------
Stages ==
    {"idle", "cooldown", "queued", "writing", "waiting", "acking", "resulting",
     "interrupted"}

TypeOK ==
    /\ link \in BOOLEAN /\ cool \in BOOLEAN /\ clashed \in BOOLEAN
    /\ owner \in Tasks \union {None} /\ queue \in Seq(Tasks)
    /\ stage \in [Tasks -> Stages] /\ kind \in [Tasks -> Kinds \union {None}]
    /\ outcome \in [Tasks -> {None, "returned", "incomplete", "retryable", "cancelled"}]
    /\ attempt \in 0..(WriteAttempts - 1)
    /\ armed \in BOOLEAN /\ ackArmed \in BOOLEAN
    /\ future \in {None, "pending", "result", "error", "cancelled"}
    /\ progress \in [written : BOOLEAN, acked : BOOLEAN, result : BOOLEAN]
    /\ delivered \in BOOLEAN /\ owed \subseteq Frames

\* A wait that is armed belongs to the request that holds the session lock; one
\* left behind would be resolved by a frame meant for the next request
\* (the finally clauses of _locked_write and _locked_write_operation).
ArmedWaitHasOwner ==
    armed \/ ackArmed =>
        /\ owner # None
        /\ stage[owner] \in {"writing", "waiting", "acking", "resulting", "interrupted"}

\* From its write to its end a staged command listens for its op-response,
\* whatever invalid or foreign frames arrive meanwhile (_reject_frame).
StagedWaitListens ==
    (owner # None /\ Staged(kind[owner])) => armed \/ progress.result

\* No future is resolved a second time, which would raise in the notification
\* callback: a frame may race the timeout that has just cancelled its wait.
NoFutureResolvedTwice == ~clashed

\* An op-response recorded before the timeout, the disconnect or the write
\* error that ends the wait is returned, not replaced by that error; only the
\* caller's own cancellation drops it (the except clause of execute_operation).
RecordedAnswerReturns ==
    [][ \A t \in Tasks :
          (owner = t /\ progress.result /\ Staged(kind[t]) /\ stage'[t] = "idle")
          => outcome'[t] \in {"returned", "cancelled"} ]_vars

\* Any task will do: the tasks are interchangeable.
Watched == CHOOSE t \in Tasks : TRUE

Phase ==
    IF ~(owner = Watched /\ progress.written) THEN "idle"
    ELSE IF progress.result THEN "answered"
    ELSE IF progress.acked THEN "acked"
    ELSE "sent"

Attempt == INSTANCE OperationContract WITH
    phase <- Phase,
    again <- kind[Watched] = None /\ outcome[Watched] = "retryable",
    once  <- kind[Watched] \in Once

\* A request keeps the contract of an attempt: what execute_operation raises for
\* another attempt was not acknowledged, and was not written if the command must
\* not be written twice; an op-response is the last word (final_stage, _notify).
AttemptKeepsContract == Attempt!Spec

\* Once the lock falls silent, every request still ends: its waits run out and
\* the session lock passes on, past the tasks a disconnect took out of the line.
RequestsEndInSilence ==
    <>[][~FrameArrives]_vars => \A t \in Tasks : stage[t] # "idle" ~> stage[t] = "idle"

-----------------------------------------------------------------------------
(* What the repository says of the program, and the code does not keep. *)

\* session.py:170 "Enable cooldown after each request."
CooldownAfterEachRequest ==
    [][ \A t \in Tasks :
          (stage'[t] = "writing" /\ stage[t] # "writing") => ~(Cooldown /\ cool) ]_vars

=============================================================================

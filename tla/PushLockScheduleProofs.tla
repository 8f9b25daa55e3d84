----------------------- MODULE PushLockScheduleProofs -----------------------
(* What PushLock keeps of its promises while commands, cycles, stops and      *)
(* restarts interleave: the poll, the reconnect, and the jam a stop forgets.  *)
EXTENDS PushLockProofs

\* The update task runs its cycle only under the operation lock.
TaskHoldsLock == task = "running" => holder = "cycle"

\* An owed poll belongs to a running watcher; a task stands for it only while
\* no stop is about to cancel that task.
PollPromised ==
    owed => /\ running
            /\ \/ deferred \/ jamTimer \/ holder = "operation"
               \/ closing # "requested" /\ task \in {"created", "queued"}

SInv ==
    /\ TaskHoldsLock
    /\ holder = "keycode" => Keycodes
    /\ JamForgottenWhileStopped
    /\ ~Keycodes => PollPromised

\* The variables of the promises that hold truth values do so.
SBool ==
    /\ running \in BOOLEAN /\ deferred \in BOOLEAN /\ owed \in BOOLEAN
    /\ jamTimer \in BOOLEAN /\ stale \in BOOLEAN

\* The invariant holds when the PushLock object has been built.
LEMMA InitSchedule == Init => SInv
  BY DEF Init, SInv, TaskHoldsLock, JamForgottenWhileStopped, PollPromised

-----------------------------------------------------------------------------
(* Facts about steps that end, keep or take the operation lock. *)

\* What takes no timer and no task away keeps the promises.
LEMMA NothingTaken ==
    ASSUME SInv, SBool, SBool', UNCHANGED <<running, closing, task, owed, holder>>,
           stale' => stale, jamTimer => jamTimer', deferred => deferred'
    PROVE  SInv'
  <1>1. TaskHoldsLock' /\ (holder' = "keycode" => Keycodes)
    BY DEF SInv, TaskHoldsLock
  <1>2. JamForgottenWhileStopped'
    BY DEF SInv, SBool, JamForgottenWhileStopped
  <1>3. ~Keycodes => PollPromised'
    BY DEF SInv, SBool, PollPromised
  <1> QED BY <1>1, <1>2, <1>3 DEF SInv

\* A command may take timers away, since its exit arms them again.
LEMMA CommandHolds ==
    ASSUME SInv, SBool, SBool', UNCHANGED <<running, closing, task, owed>>,
           holder' = "operation", holder # "cycle"
    PROVE  SInv'
  <1>1. TaskHoldsLock' /\ JamForgottenWhileStopped'
    BY DEF SInv, TaskHoldsLock, JamForgottenWhileStopped
  <1>2. ~Keycodes => PollPromised'
    BY DEF SInv, SBool, PollPromised
  <1> QED BY <1>1, <1>2 DEF SInv

\* The exit arms the poll it promises, or leaves it to the hold's timer.
LEMMA FinalizeSchedule ==
    ASSUME IInv, SInv, holder = "operation", UNCHANGED <<running, closing>>,
           NEW incomplete, NEW up, NEW seenNow,
           FinalizeOperation(incomplete, up, seenNow)
    PROVE  SInv'
  <1>1. task # "running" /\ task' = task /\ holder' = "none"
    BY DEF SInv, TaskHoldsLock, FinalizeOperation, ReleaseOperationLock
  <1>2. CASE running
    <2>1. /\ running' /\ deferred' = ArmsExitPoll(up)
          /\ UNCHANGED <<holdLive, jamTimer>>
      BY <1>2 DEF FinalizeOperation
    <2>2. deferred' \/ jamTimer'
      BY <2>1 DEF ArmsExitPoll, IInv, DisplayInv, HoldEndsInAPoll
    <2> QED BY <1>1, <2>1, <2>2
            DEF SInv, TaskHoldsLock, JamForgottenWhileStopped, PollPromised
  <1>3. CASE ~running
    BY <1>1, <1>3
       DEF FinalizeOperation, ForgetJam, SInv, TaskHoldsLock,
           JamForgottenWhileStopped, PollPromised
  <1> QED BY <1>2, <1>3

\* The end of a cycle or of a keypad command takes no timer away.
LEMMA ReleaseSchedule ==
    ASSUME SInv, SBool, SBool', holder # "operation",
           UNCHANGED <<running, closing, jamTimer, stale, owed>>,
           holder' = "none", deferred => deferred',
           task' = IF task = "running" THEN "none" ELSE task
    PROVE  SInv'
  <1>1. TaskHoldsLock' /\ JamForgottenWhileStopped'
    BY DEF SInv, TaskHoldsLock, JamForgottenWhileStopped
  <1>2. ~Keycodes => PollPromised'
    BY DEF SInv, SBool, PollPromised
  <1> QED BY <1>1, <1>2 DEF SInv

\* A cycle's exit arms the timer, or leaves it as it was.
LEMMA EndCycleSchedule ==
    ASSUME SInv, SBool, SBool', holder = "cycle", UNCHANGED <<running, closing, jamVars>>,
           NEW up, NEW latchedNow, NEW armed, deferred => armed,
           EndCycle(up, latchedNow, armed)
    PROVE  SInv'
  <1>1. /\ holder' = "none" /\ owed' = owed
        /\ task' = IF task = "running" THEN "none" ELSE task
        /\ deferred => deferred'
    BY DEF EndCycle, ReleaseOperationLock
  <1> QED BY <1>1, ReleaseSchedule DEF jamVars

\* A keypad command's exit leaves the schedule alone.
LEMMA EndKeycodeSchedule ==
    ASSUME SInv, SBool, SBool', holder = "keycode",
           UNCHANGED <<running, closing, jamVars>>,
           NEW armed, deferred => armed, EndKeycode(armed)
    PROVE  SInv'
  <1>1. holder' = "none" /\ UNCHANGED <<task, owed>> /\ (deferred => deferred')
    BY DEF EndKeycode, ReleaseOperationLock, pollVars
  <1>2. task # "running"
    BY DEF SInv, TaskHoldsLock
  <1> QED BY <1>1, <1>2, ReleaseSchedule DEF jamVars

\* An exception that leaves the retry wrapper keeps the promises.
LEMMA FailSchedule ==
    ASSUME IInv, SInv, SBool, SBool', UNCHANGED <<running, closing>>,
           NEW up, NEW latchedNow, NEW armed, deferred => armed,
           Fail(up, latchedNow, armed)
    PROVE  SInv'
  <1>1. CASE holder = "operation" /\ FinalizeOperation(TRUE, up, seen)
    BY <1>1, FinalizeSchedule
  <1>2. CASE /\ holder = "cycle" /\ EndCycle(up, latchedNow, armed)
             /\ UNCHANGED jamVars
    BY <1>2, EndCycleSchedule
  <1>3. CASE holder = "keycode" /\ EndKeycode(armed) /\ UNCHANGED jamVars
    BY <1>3, EndKeycodeSchedule
  <1> QED BY <1>1, <1>2, <1>3 DEF Fail

\* The code after _ensure_connected cancels the timer for a command, whose exit
\* arms it again, and for a keypad command.
LEMMA ConnectedSchedule ==
    ASSUME IInv, SInv, SBool, SBool', UNCHANGED <<running, closing>>,
           NEW attemptNow, NEW seenNow, Connected(attemptNow, seenNow)
    PROVE  SInv'
  <1>1. CASE holder = "operation" /\ ~RefusesRetry
    <2>1. UNCHANGED <<task, owed, holder>>
      BY <1>1 DEF Connected, pollVars
    <2> QED BY <1>1, <2>1, CommandHolds
  <1>2. CASE holder = "operation" /\ RefusesRetry
    <2>1. FinalizeOperation(TRUE, TRUE, seenNow)
      BY <1>2 DEF Connected
    <2> QED BY <1>2, <2>1, FinalizeSchedule
  <1>3. CASE holder = "keycode"
    <2>1. UNCHANGED <<task, owed, holder, stale>>
      BY <1>3 DEF Connected, pollVars, jamVars
    <2> QED BY <1>3, <2>1
            DEF SInv, SBool, TaskHoldsLock, JamForgottenWhileStopped
  <1>4. CASE holder = "cycle"
    <2>1. UNCHANGED <<task, owed, holder, stale, jamTimer, deferred>>
      BY <1>4 DEF Connected, scheduleVars, pollVars, jamVars
    <2> QED BY <2>1, NothingTaken
  <1> QED BY <1>1, <1>2, <1>3, <1>4 DEF Connected

\* A report may arm the hold's timer, and never disarms it.
LEMMA AdmitSchedule ==
    ASSUME SBool, NEW s, Admit(s)
    PROVE  (stale' => stale) /\ (jamTimer => jamTimer')
  <1>1. CASE AdmitAttention(s)
    BY <1>1 DEF AdmitAttention
  <1>2. CASE AdmitPosition(s)
    BY <1>2 DEF AdmitPosition, jamVars
  <1> QED BY <1>1, <1>2 DEF Admit

-----------------------------------------------------------------------------
(* Every step keeps the promises: one lemma per group of actions.            *)

\* A command keeps them while it holds the lock, and its exit renews them.
LEMMA OperationSchedule ==
    ASSUME IInv, SInv, SBool, SBool', OperationStep
    PROVE  SInv'
  <1>1. ASSUME NEW o \in Operations, RunLockOperation(o)
        PROVE  SInv'
    BY <1>1, CommandHolds DEF RunLockOperation, lifecycleVars, pollVars
  <1>2. CASE RunLockOperationStopped
    BY <1>2
       DEF RunLockOperationStopped, ForgetJam, lifecycleVars, commandVars,
           attemptVars, SInv, TaskHoldsLock, JamForgottenWhileStopped, PollPromised
  <1>3. CASE \/ WriteOperation \/ OperationWriteSuccess \/ Acknowledged
             \/ \E ok \in BOOLEAN : OperationResult(ok)
    <2>1. holder = "operation" /\ UNCHANGED <<running, closing, task, owed, holder>>
      BY <1>3
         DEF WriteOperation, OperationWriteSuccess, Acknowledged, OperationResult,
             lifecycleVars, scheduleVars, pollVars, attemptVars, IInv, CommandInv,
             StagesOf
    <2> QED BY <2>1, CommandHolds
  <1>4. CASE OperationReturns
    <2> DEFINE raised == progress.result = "fail"
    <2>1. /\ holder = "operation" /\ UNCHANGED <<running, closing>>
          /\ FinalizeOperation(raised, link, seen)
      BY <1>4 DEF OperationReturns, lifecycleVars, IInv, CommandInv, StagesOf
    <2> HIDE DEF raised
    <2> QED BY <2>1, FinalizeSchedule
  <1> QED BY <1>1, <1>2, <1>3, <1>4 DEF OperationStep

\* An attempt that connects, fails, backs off or is cancelled keeps them.
LEMMA AttemptSchedule ==
    ASSUME IInv, SInv, SBool, SBool', AttemptStep
    PROVE  SInv'
  <1>1. CASE Handshake \/ RetryableError
    <2>1. UNCHANGED <<running, closing, task, owed, holder, stale, jamTimer, deferred>>
      BY <1>1 DEF Handshake, RetryableError, lifecycleVars, scheduleVars, pollVars,
                  attemptVars, jamVars
    <2> QED BY <2>1, NothingTaken
  <1>2. CASE EnsureConnectedReturns
    BY <1>2, ConnectedSchedule DEF EnsureConnectedReturns, lifecycleVars
  <1>3. CASE FinalError
    <2> DEFINE latchedNow == Latched
    <2>1. UNCHANGED <<running, closing>> /\ Fail(link, latchedNow, deferred)
      BY <1>3 DEF FinalError, lifecycleVars
    <2> HIDE DEF latchedNow
    <2> QED BY <2>1, FailSchedule
  <1>4. CASE AuthenticationError
    <2> DEFINE latchedNow == authFails + 1 >= AuthLatch
    <2>1. /\ UNCHANGED <<running, closing>>
          /\ \/ Fail(link, latchedNow, deferred)
             \/ Backoff /\ UNCHANGED <<jamVars, scheduleVars>>
      BY <1>4 DEF AuthenticationError, lifecycleVars
    <2> HIDE DEF latchedNow
    <2>2. CASE Backoff /\ UNCHANGED <<jamVars, scheduleVars>>
      BY <2>1, <2>2, NothingTaken
         DEF Backoff, attemptVars, jamVars, scheduleVars, pollVars
    <2> QED BY <2>1, <2>2, FailSchedule
  <1>5. CASE HandleDisconnected
    <2> DEFINE latchedNow == Latched
               armed == deferred \/ (link /\ ~link' /\ Reconnects)
    <2>1. /\ UNCHANGED <<running, closing>> /\ (deferred => armed)
          /\ \/ Fail(link', latchedNow, armed)
             \/ Backoff /\ deferred' = armed /\ UNCHANGED <<jamVars, pollVars>>
      BY <1>5 DEF HandleDisconnected, lifecycleVars
    <2> HIDE DEF latchedNow, armed
    <2>2. CASE Backoff /\ deferred' = armed /\ UNCHANGED <<jamVars, pollVars>>
      BY <2>1, <2>2, NothingTaken DEF Backoff, attemptVars, jamVars, pollVars
    <2> QED BY <2>1, <2>2, FailSchedule
  <1>6. CASE Retry
    <2> DEFINE latchedNow == Latched
               attemptNow == NextAttempt
    <2>1. /\ UNCHANGED <<running, closing>>
          /\ \/ Fail(link, latchedNow, deferred)
             \/ Connected(attemptNow, seen)
             \/ UNCHANGED <<jamVars, scheduleVars, holder>>
      BY <1>6 DEF Retry, lifecycleVars
    <2> HIDE DEF latchedNow, attemptNow
    <2>2. CASE UNCHANGED <<jamVars, scheduleVars, holder>>
      BY <2>1, <2>2, NothingTaken DEF jamVars, scheduleVars, pollVars
    <2> QED BY <2>1, <2>2, FailSchedule, ConnectedSchedule
  <1>7. CASE Cancelled
    <2> DEFINE latchedNow == Latched
               up == link'
               armed == deferred \/ (link /\ ~link' /\ Reconnects)
    <2>1. /\ UNCHANGED <<running, closing>> /\ (deferred => armed)
          /\ \/ holder = "operation" /\ FinalizeOperation(FALSE, up, seen)
             \/ Fail(up, latchedNow, armed)
      BY <1>7 DEF Cancelled, lifecycleVars
    <2> HIDE DEF latchedNow, up, armed
    <2> QED BY <2>1, FailSchedule, FinalizeSchedule
  <1> QED BY <1>1, <1>2, <1>3, <1>4, <1>5, <1>6, <1>7 DEF AttemptStep

\* The cycle takes over the promise when its task is created, and keeps it.
LEMMA UpdateSchedule ==
    ASSUME IInv, SInv, SBool, SBool', UpdateStep
    PROVE  SInv'
  <1>1. CASE DeferredUpdate
    <2>1. /\ closing # "requested" /\ task' = "created"
          /\ UNCHANGED <<running, closing, owed, holder, stale>>
      BY <1>1 DEF DeferredUpdate, TimePasses, lifecycleVars, jamVars, commandVars,
                  attemptVars
    <2> QED BY <2>1
            DEF SInv, SBool, TaskHoldsLock, JamForgottenWhileStopped, PollPromised
  <1>2. CASE ExecuteDeferredUpdate
    <2>1. /\ task = "created" /\ task' = IF running THEN "queued" ELSE "none"
          /\ UNCHANGED <<running, closing, owed, holder, stale, jamTimer, deferred>>
      BY <1>2 DEF ExecuteDeferredUpdate, lifecycleVars, jamVars, commandVars,
                  attemptVars
    <2> QED BY <2>1
            DEF SInv, SBool, TaskHoldsLock, JamForgottenWhileStopped, PollPromised
  <1>3. CASE AcquireForUpdate
    <2>1. /\ holder = "none" /\ UNCHANGED <<running, closing, stale>>
          /\ \/ /\ task' = "none" /\ deferred' = TRUE
                /\ UNCHANGED <<owed, holder>>
             \/ task' = "running" /\ holder' = "cycle" /\ owed' = FALSE
      BY <1>3 DEF AcquireForUpdate, YieldToFloor, lifecycleVars, jamVars
    <2> QED BY <2>1
            DEF SInv, SBool, TaskHoldsLock, JamForgottenWhileStopped, PollPromised
  <1>4. CASE ReadOthers
    <2>1. /\ holder = "cycle" /\ UNCHANGED <<running, closing, jamVars>>
          /\ \/ UNCHANGED <<scheduleVars, attemptVars>>
             \/ EndCycle(link, FALSE, deferred)
      BY <1>4 DEF ReadOthers, lifecycleVars, IInv, CommandInv, StagesOf
    <2>2. CASE UNCHANGED <<scheduleVars, attemptVars>>
      BY <2>1, <2>2, NothingTaken DEF scheduleVars, pollVars, attemptVars, jamVars
    <2> QED BY <2>1, <2>2, EndCycleSchedule
  <1>5. ASSUME NEW s \in Reports, PollAnswered(s)
        PROVE  SInv'
    <2>1. /\ Admit(s)
          /\ UNCHANGED <<running, closing, task, owed, holder, deferred>>
      BY <1>5 DEF PollAnswered, lifecycleVars, pollVars, attemptVars
    <2> QED BY <2>1, AdmitSchedule, NothingTaken
  <1>6. CASE FinishUpdate
    <2>1. /\ holder = "cycle" /\ UNCHANGED <<running, closing, jamVars>>
          /\ EndCycle(link, FALSE, deferred)
      BY <1>6 DEF FinishUpdate, lifecycleVars, IInv, CommandInv, StagesOf
    <2> QED BY <2>1, EndCycleSchedule
  <1>7. CASE RequestUpdate
    BY <1>7, NothingTaken
       DEF RequestUpdate, lifecycleVars, jamVars, pollVars, commandVars, attemptVars
  <1>8. CASE Validate
    <2>1. /\ holder = "none" /\ holder' = "cycle"
          /\ UNCHANGED <<running, closing, owed, stale, jamTimer, deferred, task>>
      BY <1>8 DEF Validate, lifecycleVars, jamVars, scheduleVars, pollVars
    <2> QED BY <2>1
            DEF SInv, SBool, TaskHoldsLock, JamForgottenWhileStopped, PollPromised
  <1> QED BY <1>1, <1>2, <1>3, <1>4, <1>5, <1>6, <1>7, <1>8 DEF UpdateStep

\* A keypad command is the one that takes the timer away for good.
LEMMA KeycodeSchedule ==
    ASSUME IInv, SInv, SBool, SBool', KeycodeStep
    PROVE  SInv'
  <1>1. CASE RunOnLock
    <2>1. /\ Keycodes /\ holder = "none" /\ holder' = "keycode"
          /\ UNCHANGED <<running, stale, task>>
      BY <1>1 DEF RunOnLock, lifecycleVars, jamVars, pollVars
    <2> QED BY <2>1 DEF SInv, SBool, TaskHoldsLock, JamForgottenWhileStopped
  <1>2. CASE KeycodeReturns
    <2>1. /\ holder = "keycode" /\ UNCHANGED <<running, closing, jamVars>>
          /\ EndKeycode(deferred)
      BY <1>2 DEF KeycodeReturns, lifecycleVars, IInv, CommandInv, StagesOf
    <2> QED BY <2>1, EndKeycodeSchedule
  <1>3. CASE SetAutoLock
    <2>1. Keycodes /\ UNCHANGED <<running, stale, task, holder>>
      BY <1>3 DEF SetAutoLock, lifecycleVars, jamVars, pollVars, commandVars, attemptVars
    <2> QED BY <2>1 DEF SInv, SBool, TaskHoldsLock, JamForgottenWhileStopped
  <1> QED BY <1>1, <1>2, <1>3 DEF KeycodeStep

\* A frame arms the hold's timer at most.
LEMMA FrameSchedule ==
    ASSUME IInv, SInv, SBool, SBool', FrameStep
    PROVE  SInv'
  <1>1. /\ UNCHANGED <<running, closing, task, owed, holder, deferred>>
        /\ UNCHANGED jamVars \/ \E s \in LockStatus : Admit(s)
    BY ReportsAssumption
       DEF FrameStep, StatusReport, ForeignOperationResponse, lifecycleVars,
           pollVars, commandVars, attemptVars, LockStatus
  <1>2. CASE UNCHANGED jamVars
    BY <1>1, <1>2, NothingTaken DEF jamVars
  <1> QED BY <1>1, <1>2, AdmitSchedule, NothingTaken

\* The hold's timer hands its poll to the deferred update.
LEMMA TimerSchedule ==
    ASSUME IInv, SInv, SBool, SBool', TimerStep
    PROVE  SInv'
  <1>1. CASE JamHoldEnded
    <2>1. /\ deferred' = TRUE /\ owed' = running
          /\ UNCHANGED <<running, stale, task, holder>>
      BY <1>1 DEF JamHoldEnded, lifecycleVars, commandVars, attemptVars
    <2> QED BY <2>1
            DEF SInv, SBool, TaskHoldsLock, JamForgottenWhileStopped, PollPromised
  <1>2. CASE HoldDeadlinePasses \/ FloorLapses \/ JamAges
    <2>1. UNCHANGED <<running, closing, task, owed, holder, stale, jamTimer, deferred>>
      BY <1>2 DEF HoldDeadlinePasses, FloorLapses, JamAges, lifecycleVars, jamVars,
                  scheduleVars, pollVars, commandVars, attemptVars
    <2> QED BY <2>1, NothingTaken
  <1> QED BY <1>1, <1>2 DEF TimerStep

\* A stop withdraws the promise, so the teardown finds none to break.
LEMMA LifecycleSchedule ==
    ASSUME IInv, SInv, SBool, SBool', LifecycleStep
    PROVE  SInv'
  <1>1. CASE LinkDrops
    <2>1. /\ UNCHANGED <<running, closing, task, owed, holder, stale, jamTimer>>
          /\ deferred => deferred'
      BY <1>1 DEF LinkDrops, lifecycleVars, jamVars, pollVars, commandVars,
                  attemptVars
    <2> QED BY <2>1, NothingTaken
  <1>2. CASE Stop
    BY <1>2
       DEF Stop, ForgetJam, commandVars, attemptVars, SInv, SBool, TaskHoldsLock,
           JamForgottenWhileStopped, PollPromised
  <1>3. CASE CancelUpdateTask
    <2>1. /\ closing = "requested" /\ task # "created" /\ task' = "none"
          /\ UNCHANGED <<running, owed, stale, jamTimer>>
          /\ deferred => deferred'
          /\ \/ task = "running" /\ holder' = "none"
             \/ holder' = holder
      BY <1>3 DEF CancelUpdateTask, ReleaseOperationLock, jamVars, commandVars,
                  attemptVars
    <2>2. TaskHoldsLock' /\ JamForgottenWhileStopped' /\ (holder' = "keycode" => Keycodes)
      BY <2>1 DEF SInv, SBool, TaskHoldsLock, JamForgottenWhileStopped
    <2>3. ~Keycodes => PollPromised'
      BY <2>1 DEF SInv, SBool, TaskHoldsLock, PollPromised
    <2> QED BY <2>2, <2>3 DEF SInv
  <1>4. CASE CloseLink
    <2>1. closing' = "no" /\ UNCHANGED <<running, task, owed, holder, stale, jamTimer>>
      BY <1>4 DEF CloseLink, jamVars, pollVars, commandVars, attemptVars
    <2>2. deferred => deferred'
      BY <1>4 DEF CloseLink
    <2> QED BY <2>1, <2>2
            DEF SInv, SBool, TaskHoldsLock, JamForgottenWhileStopped, PollPromised
  <1>5. CASE Start
    <2>1. ~running /\ running' /\ UNCHANGED <<task, owed, holder>>
      BY <1>5 DEF Start, pollVars, commandVars, attemptVars
    <2> QED BY <2>1
            DEF SInv, SBool, TaskHoldsLock, JamForgottenWhileStopped, PollPromised
  <1> QED BY <1>1, <1>2, <1>3, <1>4, <1>5 DEF LifecycleStep

\* The promises are kept by every step.
LEMMA ScheduleKeeps == IInv /\ SInv /\ [Next]_vars => SInv'
  <1> SUFFICES ASSUME IInv, SInv, [Next]_vars PROVE SInv'
    OBVIOUS
  <1>1. SBool /\ SBool'
    <2>1. IInv'
      BY StepKeeps
    <2> QED BY <2>1 DEF IInv, DisplayInv, ScheduleInv, SBool
  <1>2. CASE UNCHANGED vars
    BY <1>1, <1>2, NothingTaken
       DEF vars, lifecycleVars, jamVars, scheduleVars, pollVars, commandVars,
           attemptVars
  <1>3. CASE Next
    BY <1>1, <1>3, OperationSchedule, AttemptSchedule, UpdateSchedule,
       KeycodeSchedule, FrameSchedule, TimerSchedule, LifecycleSchedule DEF Next
  <1> QED BY <1>2, <1>3

\* The promises are kept in every state the object reaches.
THEOREM ScheduleHolds == Spec => []SInv
  <1>1. Init => SInv
    BY InitSchedule
  <1> QED BY <1>1, InvariantHolds, ScheduleKeeps, PTL DEF Spec

\* Without keypad commands, the poll promised by a command's exit or by the end
\* of a hold stays scheduled until a cycle begins or the watcher stops.
THEOREM PollStaysOwed ==
    ASSUME ~Keycodes
    PROVE  Spec => []PollOwedIsArmed
  <1>1. SInv => PollOwedIsArmed
    BY DEF SInv, PollPromised, PollOwedIsArmed
  <1> QED BY <1>1, ScheduleHolds, PTL

\* A stop forgets the jam, unless a command in flight will forget it at its exit.
THEOREM StopForgets == Spec => []JamForgottenWhileStopped
  <1>1. SInv => JamForgottenWhileStopped
    BY DEF SInv
  <1> QED BY <1>1, ScheduleHolds, PTL

-----------------------------------------------------------------------------
(* The reconnect of an always-connected lock.                                *)

\* The state an always-connected, running watcher without a latched failure is
\* in before a step that leaves it so.
ReconnectsAnyway ==
    /\ AlwaysConnected /\ running /\ running' /\ ~Latched /\ ~Latched'
    /\ OnItsWay

\* The exit of a command arms the reconnect, whoever closed the link.
LEMMA FinalizeReconnects ==
    ASSUME AlwaysConnected, running, NEW incomplete, NEW up, NEW seenNow,
           FinalizeOperation(incomplete, up, seenNow)
    PROVE  up \/ deferred'
  BY DEF FinalizeOperation, ArmsExitPoll

\* So does the exit of a cycle that ran as the update task; any other exit
\* leaves the task and the timer alone.
LEMMA FailReconnects ==
    ASSUME AlwaysConnected, running, NEW up, NEW latchedNow, ~latchedNow, NEW armed,
           up \/ armed \/ task # "none" \/ holder = "operation",
           Fail(up, latchedNow, armed)
    PROVE  up \/ deferred' \/ task' # "none"
  <1>1. CASE FinalizeOperation(TRUE, up, seen)
    <2>1. deferred' = ArmsExitPoll(up)
      BY <1>1 DEF FinalizeOperation
    <2> QED BY <2>1 DEF ArmsExitPoll
  <1>2. CASE holder = "cycle" /\ EndCycle(up, latchedNow, armed)
    BY <1>2 DEF EndCycle
  <1>3. CASE holder = "keycode" /\ EndKeycode(armed)
    BY <1>3 DEF EndKeycode, pollVars
  <1> QED BY <1>1, <1>2, <1>3 DEF Fail

\* After a connect, or on a link that is still up, nothing is lost.
LEMMA ConnectedReconnects ==
    ASSUME link, UNCHANGED linkVars PROVE OnItsWay'
  BY DEF OnItsWay, linkVars

\* An attempt that fails leaves the lock on its way back to its link.
LEMMA AttemptReconnects ==
    ASSUME IInv, ReconnectsAnyway, AttemptStep
    PROVE  OnItsWay'
  <1>1. CASE Handshake \/ RetryableError
    BY <1>1 DEF Handshake, RetryableError, scheduleVars, pollVars, attemptVars,
                ReconnectsAnyway, OnItsWay
  <1>2. CASE EnsureConnectedReturns
    BY <1>2, ConnectedReconnects DEF EnsureConnectedReturns
  <1>3. CASE FinalError
    <2> DEFINE latchedNow == Latched
    <2>1. ~latchedNow /\ link' = link /\ Fail(link, latchedNow, deferred)
      BY <1>3 DEF FinalError, ReconnectsAnyway
    <2> HIDE DEF latchedNow
    <2> QED BY <2>1, FailReconnects DEF ReconnectsAnyway, OnItsWay
  <1>4. CASE AuthenticationError
    <2> DEFINE latchedNow == authFails + 1 >= AuthLatch
    <2>1. ~latchedNow
      BY <1>4, AuthLatchAssumption
         DEF AuthenticationError, ReconnectsAnyway, Latched, IInv, ScheduleInv
    <2>2. /\ link' = link
          /\ \/ Fail(link, latchedNow, deferred)
             \/ Backoff /\ UNCHANGED scheduleVars
      BY <1>4 DEF AuthenticationError
    <2> HIDE DEF latchedNow
    <2>3. CASE Fail(link, latchedNow, deferred)
      BY <2>1, <2>2, <2>3, FailReconnects DEF ReconnectsAnyway, OnItsWay
    <2>4. CASE Backoff /\ UNCHANGED scheduleVars
      BY <2>2, <2>4 DEF Backoff, attemptVars, scheduleVars, pollVars,
                        ReconnectsAnyway, OnItsWay
    <2> QED BY <2>2, <2>3, <2>4
  <1>5. CASE HandleDisconnected
    <2> DEFINE latchedNow == Latched
               armed == deferred \/ (link /\ ~link' /\ Reconnects)
    <2>1. ~latchedNow /\ (link' \/ armed \/ task # "none" \/ holder = "operation")
      BY DEF ReconnectsAnyway, OnItsWay, Reconnects, UpdateInFlight
    <2>2. \/ Fail(link', latchedNow, armed)
          \/ Backoff /\ deferred' = armed /\ UNCHANGED pollVars
      BY <1>5 DEF HandleDisconnected
    <2> HIDE DEF latchedNow, armed
    <2>3. CASE Fail(link', latchedNow, armed)
      BY <2>1, <2>3, FailReconnects DEF ReconnectsAnyway, OnItsWay
    <2>4. CASE Backoff /\ deferred' = armed /\ UNCHANGED pollVars
      BY <2>1, <2>4 DEF Backoff, attemptVars, pollVars, OnItsWay
    <2> QED BY <2>2, <2>3, <2>4
  <1>6. CASE Retry
    <2> DEFINE latchedNow == Latched
    <2>1. /\ UNCHANGED linkVars
          /\ \/ Fail(link, latchedNow, deferred)
             \/ link
             \/ UNCHANGED <<scheduleVars, holder>>
      BY <1>6 DEF Retry
    <2>2. ~latchedNow
      BY DEF ReconnectsAnyway
    <2> HIDE DEF latchedNow
    <2>3. CASE Fail(link, latchedNow, deferred)
      BY <2>1, <2>2, <2>3, FailReconnects DEF ReconnectsAnyway, OnItsWay, linkVars
    <2>4. CASE link
      BY <2>1, <2>4, ConnectedReconnects
    <2>5. CASE UNCHANGED <<scheduleVars, holder>>
      BY <2>1, <2>5 DEF scheduleVars, pollVars, linkVars, ReconnectsAnyway, OnItsWay
    <2> QED BY <2>1, <2>3, <2>4, <2>5
  <1>7. CASE Cancelled
    <2> DEFINE latchedNow == Latched
               up == link'
               armed == deferred \/ (link /\ ~link' /\ Reconnects)
    <2>1. /\ ~latchedNow
          /\ up \/ armed \/ task # "none" \/ holder = "operation"
      BY DEF ReconnectsAnyway, OnItsWay, Reconnects, UpdateInFlight
    <2>2. \/ FinalizeOperation(FALSE, up, seen)
          \/ Fail(up, latchedNow, armed)
      BY <1>7 DEF Cancelled
    <2>3. up => OnItsWay'
      BY DEF OnItsWay
    <2> HIDE DEF latchedNow, up, armed
    <2>4. CASE FinalizeOperation(FALSE, up, seen)
      <3>1. deferred' = ArmsExitPoll(up)
        BY <2>4 DEF FinalizeOperation, ReconnectsAnyway
      <3> QED BY <2>3, <3>1 DEF ArmsExitPoll, ReconnectsAnyway, OnItsWay
    <2>5. CASE Fail(up, latchedNow, armed)
      BY <2>1, <2>3, <2>5, FailReconnects DEF ReconnectsAnyway, OnItsWay
    <2> QED BY <2>2, <2>4, <2>5
  <1> QED BY <1>1, <1>2, <1>3, <1>4, <1>5, <1>6, <1>7 DEF AttemptStep

\* The exit of a cycle that a link survived, or that arms the reconnect.
LEMMA EndCycleReconnects ==
    ASSUME ReconnectsAnyway, link' = link, holder = "cycle",
           EndCycle(link, FALSE, deferred)
    PROVE  OnItsWay'
  <1>1. CASE task = "running"
    BY <1>1 DEF EndCycle, ReconnectsAnyway, OnItsWay
  <1>2. CASE task # "running"
    BY <1>2 DEF EndCycle, ReconnectsAnyway, OnItsWay
  <1> QED BY <1>1, <1>2

\* The update task stands for the reconnect until its cycle has ended.
LEMMA UpdateReconnects ==
    ASSUME IInv, ReconnectsAnyway, UpdateStep
    PROVE  OnItsWay'
  <1>1. CASE DeferredUpdate \/ ExecuteDeferredUpdate \/ RequestUpdate
    BY <1>1 DEF DeferredUpdate, ExecuteDeferredUpdate, RequestUpdate,
                ReconnectsAnyway, OnItsWay
  <1>2. CASE AcquireForUpdate
    BY <1>2 DEF AcquireForUpdate, YieldToFloor, OnItsWay
  <1>3. CASE ReadOthers
    <2>1. /\ link /\ link' = link /\ holder = "cycle"
      BY <1>3 DEF ReadOthers, IInv, CommandInv, StagesOf
    <2> QED BY <2>1 DEF OnItsWay
  <1>4. ASSUME NEW s \in Reports, PollAnswered(s)
        PROVE  OnItsWay'
    BY <1>4 DEF PollAnswered, linkVars, OnItsWay
  <1>5. CASE FinishUpdate
    <2>1. link' = link /\ holder = "cycle" /\ EndCycle(link, FALSE, deferred)
      BY <1>5 DEF FinishUpdate, IInv, CommandInv, StagesOf
    <2> QED BY <2>1, EndCycleReconnects
  <1>6. CASE Validate
    BY <1>6 DEF Validate, scheduleVars, pollVars, linkVars, ReconnectsAnyway, OnItsWay
  <1> QED BY <1>1, <1>2, <1>3, <1>4, <1>5, <1>6 DEF UpdateStep

\* A keypad command cancels the timer only on an open link.
LEMMA KeycodeReconnects ==
    ASSUME ReconnectsAnyway, KeycodeStep
    PROVE  OnItsWay'
  <1>1. CASE RunOnLock
    BY <1>1 DEF RunOnLock, pollVars, linkVars, ReconnectsAnyway, OnItsWay
  <1>2. CASE KeycodeReturns
    BY <1>2 DEF KeycodeReturns, OnItsWay
  <1>3. CASE SetAutoLock
    BY <1>3 DEF SetAutoLock, pollVars, commandVars, attemptVars, linkVars, ReconnectsAnyway,
                OnItsWay
  <1> QED BY <1>1, <1>2, <1>3 DEF KeycodeStep

\* The teardown arms the reconnect for the task it cancels.
LEMMA LifecycleReconnects ==
    ASSUME IInv, ReconnectsAnyway, LifecycleStep
    PROVE  OnItsWay'
  <1>1. CASE LinkDrops
    BY <1>1 DEF LinkDrops, Reconnects, UpdateInFlight, ReconnectsAnyway, OnItsWay,
                pollVars, commandVars, attemptVars
  <1>2. CASE Stop \/ Start
    BY <1>2 DEF Stop, Start, ReconnectsAnyway
  <1>3. CASE CancelUpdateTask
    <2>1. CASE task \in {"queued", "running"}
      BY <1>3, <2>1 DEF CancelUpdateTask, ReconnectsAnyway, OnItsWay
    <2>2. CASE task = "none"
      BY <1>3, <2>2
         DEF CancelUpdateTask, commandVars, attemptVars, linkVars,
             ReconnectsAnyway, OnItsWay
    <2> QED BY <1>3, <2>1, <2>2 DEF CancelUpdateTask, IInv, ScheduleInv
  <1>4. CASE CloseLink
    <2>1. UNCHANGED <<task, holder>>
      BY <1>4 DEF CloseLink, pollVars, commandVars, attemptVars
    <2>2. deferred \/ (link /\ Reconnects) \/ task # "none" \/ holder = "operation"
      BY DEF Reconnects, UpdateInFlight, ReconnectsAnyway, OnItsWay
    <2>3. \/ deferred' = (deferred \/ (link /\ Reconnects))
          \/ UNCHANGED <<deferred, link>>
      BY <1>4 DEF CloseLink, linkVars
    <2>4. CASE UNCHANGED <<deferred, link>>
      BY <2>1, <2>4 DEF ReconnectsAnyway, OnItsWay
    <2>5. CASE deferred' = (deferred \/ (link /\ Reconnects))
      BY <2>1, <2>2, <2>5 DEF OnItsWay
    <2> QED BY <2>3, <2>4, <2>5
  <1> QED BY <1>1, <1>2, <1>3, <1>4 DEF LifecycleStep

\* An always-connected lock that lost its link stays on its way back to it.
THEOREM ReconnectKept == Spec => ReconnectNotLost
  <1>1. ASSUME IInv, [Next]_vars, ReconnectsAnyway
        PROVE  OnItsWay'
    <2>1. CASE OperationStep
      <3>1. CASE OperationReturns
        <4> DEFINE raised == progress.result = "fail"
        <4>1. FinalizeOperation(raised, link, seen) /\ link' = link
          BY <3>1 DEF OperationReturns
        <4> HIDE DEF raised
        <4> QED BY <1>1, <4>1, FinalizeReconnects DEF ReconnectsAnyway, OnItsWay
      <3>2. CASE ~OperationReturns
        BY <1>1, <2>1, <3>2
           DEF OperationStep, RunLockOperation, RunLockOperationStopped,
               WriteOperation, OperationWriteSuccess, Acknowledged,
               OperationResult, scheduleVars, pollVars, attemptVars, linkVars,
               ReconnectsAnyway, OnItsWay
      <3> QED BY <3>1, <3>2
    <2>2. CASE AttemptStep
      BY <1>1, <2>2, AttemptReconnects
    <2>3. CASE UpdateStep \/ KeycodeStep
      BY <1>1, <2>3, UpdateReconnects, KeycodeReconnects
    <2>4. CASE FrameStep \/ TimerStep
      BY <1>1, <2>4
         DEF FrameStep, StatusReport, ForeignOperationResponse, TimerStep,
             JamHoldEnded, HoldDeadlinePasses, FloorLapses, JamAges, scheduleVars,
             pollVars, commandVars, attemptVars, linkVars, ReconnectsAnyway, OnItsWay
    <2>5. CASE LifecycleStep
      BY <1>1, <2>5, LifecycleReconnects
    <2>6. CASE UNCHANGED vars
      BY <1>1, <2>6
         DEF vars, scheduleVars, pollVars, commandVars, attemptVars, linkVars,
             ReconnectsAnyway, OnItsWay
    <2> QED BY <1>1, <2>1, <2>2, <2>3, <2>4, <2>5, <2>6 DEF Next
  <1>2. ASSUME IInv, [Next]_vars,
               AlwaysConnected /\ running /\ running' /\ ~Latched /\ ~Latched' /\ OnItsWay
        PROVE  OnItsWay'
    BY <1>1, <1>2 DEF ReconnectsAnyway
  <1> QED BY <1>2, InvariantHolds, PTL DEF Spec, ReconnectNotLost

=============================================================================

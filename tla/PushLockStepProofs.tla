------------------------- MODULE PushLockStepProofs -------------------------
(* What a step of PushLock may do to the display, to the window and to the   *)
(* authentication history, and that each step of its commands' retry wrapper *)
(* maps to a step of OperationContract or to a stutter, for every value of   *)
(* its constants.                                                            *)
EXTENDS PushLockProofs

\* Only a new command, or an attempt that is not refused, opens the window.
LEMMA WindowOpens ==
    ASSUME [Next]_vars, windowOpen', ~windowOpen
    PROVE  holder = "none" \/ ~RefusesRetry
  <1>1. ASSUME NEW up, NEW latchedNow, NEW armed, Fail(up, latchedNow, armed)
        PROVE  ~windowOpen'
    BY <1>1 DEF Fail, FinalizeOperation, EndCycle, EndKeycode, ReleaseOperationLock
  <1>2. ASSUME NEW attemptNow, NEW seenNow, Connected(attemptNow, seenNow), windowOpen'
        PROVE  ~RefusesRetry
    BY <1>2 DEF Connected, FinalizeOperation, ReleaseOperationLock, exchangeVars
  <1>3. CASE OperationStep
    BY <1>3 DEF OperationStep, RunLockOperation, RunLockOperationStopped,
                WriteOperation, OperationWriteSuccess, Acknowledged,
                OperationResult, OperationReturns, FinalizeOperation,
                ReleaseOperationLock, commandVars, exchangeVars
  <1>4. CASE AttemptStep
    <2>1. CASE Handshake \/ RetryableError
      BY <2>1 DEF Handshake, RetryableError, EndAttempt, exchangeVars
    <2>2. CASE EnsureConnectedReturns
      BY <1>2, <2>2 DEF EnsureConnectedReturns
    <2>3. CASE FinalError
      BY <1>1, <2>3 DEF FinalError
    <2>4. CASE AuthenticationError
      BY <1>1, <2>4 DEF AuthenticationError, Backoff, EndAttempt
    <2>5. CASE HandleDisconnected
      BY <1>1, <2>5 DEF HandleDisconnected, Backoff
    <2>6. CASE Retry
      BY <1>1, <1>2, <2>6 DEF Retry, exchangeVars
    <2>7. CASE Cancelled
      BY <1>1, <2>7 DEF Cancelled, FinalizeOperation, ReleaseOperationLock
    <2> QED BY <1>4, <2>1, <2>2, <2>3, <2>4, <2>5, <2>6, <2>7 DEF AttemptStep
  <1>5. CASE UpdateStep \/ KeycodeStep
    BY <1>5 DEF UpdateStep, DeferredUpdate, ExecuteDeferredUpdate,
                AcquireForUpdate, YieldToFloor, ReadOthers, PollAnswered,
                FinishUpdate, RequestUpdate, Validate, KeycodeStep, RunOnLock, SetAutoLock,
                KeycodeReturns, EndCycle, EndKeycode, ReleaseOperationLock,
                commandVars, exchangeVars
  <1>6. CASE FrameStep \/ TimerStep
    BY <1>6 DEF FrameStep, StatusReport, ForeignOperationResponse, TimerStep,
                JamHoldEnded, HoldDeadlinePasses, FloorLapses, JamAges,
                commandVars, exchangeVars
  <1>7. CASE LifecycleStep
    BY <1>7 DEF LifecycleStep, LinkDrops, Stop, CancelUpdateTask, CloseLink, Start,
                ReleaseOperationLock, commandVars, exchangeVars
  <1>8. CASE UNCHANGED vars
    BY <1>8 DEF vars, commandVars, exchangeVars
  <1> QED BY <1>3, <1>4, <1>5, <1>6, <1>7, <1>8 DEF Next

\* A jam that takes precedence keeps an attempt after a failed one from opening
\* its window, however the reconnect and the backoff interleave with the report.
THEOREM RetryIsRefused == Spec => RetryEndsUnderPrecedence
  <1>1. ASSUME IInv, [Next]_vars, failed, windowOpen', ~windowOpen
        PROVE  ~precedes
    <2>1. holder = "operation"
      BY <1>1 DEF IInv, CommandInv, StagesOf
    <2> QED BY <1>1, <2>1, WindowOpens DEF RefusesRetry
  <1> QED BY <1>1, InvariantHolds, PTL DEF Spec, RetryEndsUnderPrecedence

-----------------------------------------------------------------------------
(* What a command may put on display. *)

\* The exit displays UNKNOWN or leaves the display alone.
LEMMA FinalizeShows ==
    ASSUME NEW incomplete, NEW up, NEW seenNow,
           FinalizeOperation(incomplete, up, seenNow)
    PROVE  shown' = shown \/ OutcomeShown(TRUE)
  BY DEF FinalizeOperation, OutcomeShown

\* While a command holds the operation lock, its steps change the display in
\* three places only: the write's return, the op-response and the exit.
LEMMA CommandShows ==
    ASSUME IInv, [Next]_vars, holder = "operation",
           stage' # stage \/ answered' # answered
    PROVE  \/ shown' = shown
           \/ WriteDisplays
           \/ \E ok \in BOOLEAN : OperationResult(ok)
           \/ OutcomeShown(TRUE)
  <1>1. ASSUME NEW up, NEW latchedNow, NEW armed, Fail(up, latchedNow, armed)
        PROVE  shown' = shown \/ OutcomeShown(TRUE)
    BY <1>1, FinalizeShows DEF Fail
  <1>2. ASSUME NEW attemptNow, NEW seenNow, Connected(attemptNow, seenNow)
        PROVE  shown' = shown \/ OutcomeShown(TRUE)
    BY <1>2, FinalizeShows DEF Connected
  <1>3. CASE OperationStep
    <2>1. CASE (\E o \in Operations : RunLockOperation(o)) \/ RunLockOperationStopped
      BY <2>1 DEF RunLockOperation, RunLockOperationStopped
    <2>2. CASE WriteOperation \/ OperationWriteSuccess \/ Acknowledged
      BY <2>2 DEF WriteOperation, OperationWriteSuccess, Acknowledged, displayVars
    <2>3. CASE OperationReturns
      BY <2>3, FinalizeShows DEF OperationReturns
    <2> QED BY <1>3, <2>1, <2>2, <2>3 DEF OperationStep
  <1>4. CASE AttemptStep
    <2>1. CASE Handshake \/ RetryableError
      BY <2>1 DEF Handshake, RetryableError, displayVars
    <2>2. CASE EnsureConnectedReturns
      BY <1>2, <2>2 DEF EnsureConnectedReturns
    <2>3. CASE FinalError
      BY <1>1, <2>3 DEF FinalError
    <2>4. CASE AuthenticationError
      BY <1>1, <2>4 DEF AuthenticationError, displayVars
    <2>5. CASE HandleDisconnected
      BY <1>1, <2>5 DEF HandleDisconnected, displayVars
    <2>6. CASE Retry
      BY <1>1, <1>2, <2>6 DEF Retry, displayVars
    <2>7. CASE Cancelled
      BY <1>1, <2>7, FinalizeShows DEF Cancelled
    <2> QED BY <1>4, <2>1, <2>2, <2>3, <2>4, <2>5, <2>6, <2>7 DEF AttemptStep
  <1>5. CASE UpdateStep \/ KeycodeStep
    <2>1. stage # "polling"
      BY DEF IInv, CommandInv, StagesOf
    <2> QED BY <1>5, <2>1
            DEF UpdateStep, DeferredUpdate, ExecuteDeferredUpdate, AcquireForUpdate,
                ReadOthers, PollAnswered, FinishUpdate, RequestUpdate, Validate,
                KeycodeStep, RunOnLock, SetAutoLock, KeycodeReturns, displayVars
  <1>6. CASE FrameStep \/ TimerStep \/ LifecycleStep
    BY <1>6 DEF FrameStep, StatusReport, ForeignOperationResponse, TimerStep,
                JamHoldEnded, HoldDeadlinePasses, FloorLapses, JamAges,
                LifecycleStep, LinkDrops, Stop, CancelUpdateTask, CloseLink, Start,
                displayVars, commandVars, exchangeVars
  <1>7. CASE UNCHANGED vars
    BY <1>7 DEF vars, displayVars
  <1> QED BY <1>3, <1>4, <1>5, <1>6, <1>7 DEF Next

\* What the op-response put on display stays there until the command is over.
THEOREM AnswerIsFinal == Spec => AnswerStands
  <1>1. ASSUME IInv, [Next]_vars, holder = "operation", answered, stage' # stage
        PROVE  shown' = shown
    <2>1. ~WriteDisplays /\ ~OutcomeShown(TRUE)
      BY <1>1 DEF WriteDisplays, OutcomeShown
    <2>2. progress.result # "none"
      BY <1>1 DEF IInv, CommandInv, ExchangeRecorded
    <2>3. ~\E ok \in BOOLEAN : OperationResult(ok)
      BY <2>2 DEF OperationResult
    <2> QED BY <1>1, <2>1, <2>3, CommandShows
  <1> QED BY <1>1, InvariantHolds, PTL DEF Spec, AnswerStands

\* A jam that takes precedence over a command is not covered by the command.
THEOREM JamStaysShown == Spec => JamNotHidden
  <1>1. ASSUME IInv, [Next]_vars, holder = "operation", precedes,
               NeedsAttention(shown), stage' # stage \/ answered' # answered
        PROVE  NeedsAttention(shown')
    <2>1. AttentionHoldsDisplay(precedes) /\ AttentionHoldsDisplay(precedes \/ holdLive)
      BY <1>1 DEF AttentionHoldsDisplay
    <2>2. ~WriteDisplays /\ ~OutcomeShown(TRUE)
      BY <2>1 DEF WriteDisplays, OutcomeShown
    <2>3. CASE shown' = shown
      BY <1>1, <2>3
    <2>4. ASSUME NEW ok \in BOOLEAN, OperationResult(ok)
          PROVE  NeedsAttention(shown')
      <3>1. CASE ok
        BY <1>1, <2>1, <2>4, <3>1 DEF OperationResult, displayVars
      <3>2. CASE ~ok
        <4>1. "JAMMED" \in ManualIntervention /\ "JAMMED" \in LockStatus
          BY DEF ManualIntervention, LockStatus
        <4>2. shown' = ProjectLockStatus("JAMMED", shown)
          BY <2>4, <3>2, <4>1
             DEF OperationResult, Admit, AdmitAttention, AdmitPosition, Show
        <4>3. shown'.lock = "JAMMED"
          BY <1>1, <4>1, <4>2, ProjectionTyped DEF IInv, DisplayInv
        <4> QED BY <4>1, <4>3 DEF NeedsAttention
      <3> QED BY <3>1, <3>2
    <2> QED BY <1>1, <2>2, <2>3, <2>4, CommandShows
  <1> QED BY <1>1, InvariantHolds, PTL DEF Spec, JamNotHidden
-----------------------------------------------------------------------------
(* The pair of statuses. *)

\* Whatever is displayed is a projected status or a command's pending display.
LEMMA ShownIsProjected ==
    ASSUME IInv, [Next]_vars
    PROVE  \/ shown' = shown
           \/ \E s \in LockStatus : shown' = ProjectLockStatus(s, shown)
           \/ \E o \in LockOperation : shown' = Pending(o, shown)
  <1> DEFINE Projected == \E s \in LockStatus : shown' = ProjectLockStatus(s, shown)
  <1>1. ASSUME NEW incomplete, NEW up, NEW seenNow,
               FinalizeOperation(incomplete, up, seenNow)
        PROVE  shown' = shown \/ Projected
    BY <1>1 DEF FinalizeOperation, Show, LockStatus
  <1>2. ASSUME NEW up, NEW latchedNow, NEW armed, Fail(up, latchedNow, armed)
        PROVE  shown' = shown \/ Projected
    BY <1>1, <1>2 DEF Fail, displayVars
  <1>3. ASSUME NEW attemptNow, NEW seenNow, Connected(attemptNow, seenNow)
        PROVE  shown' = shown \/ Projected
    BY <1>1, <1>3 DEF Connected
  <1>4. ASSUME NEW s \in LockStatus, Admit(s)
        PROVE  shown' = shown \/ Projected
    BY <1>4 DEF Admit, AdmitAttention, AdmitPosition, Show
  <1>5. "JAMMED" \in LockStatus /\ \A o \in LockOperation : Complete(o) \in LockStatus
    BY CompleteTyped DEF LockStatus
  <1> HIDE DEF Projected
  <1>6. CASE OperationStep
    <2>1. CASE \/ \E o \in Operations : RunLockOperation(o)
               \/ RunLockOperationStopped \/ WriteOperation \/ Acknowledged
      BY <2>1 DEF RunLockOperation, RunLockOperationStopped, WriteOperation,
                  Acknowledged, displayVars
    <2>2. CASE OperationWriteSuccess
      <3>1. op \in LockOperation
        BY <2>2, OperationsAssumption
           DEF OperationWriteSuccess, IInv, CommandInv, StagesOf
      <3> QED BY <2>2, <3>1 DEF OperationWriteSuccess, Show, displayVars
    <2>3. ASSUME NEW ok \in BOOLEAN, OperationResult(ok)
          PROVE  shown' = shown \/ Projected
      <3>1. op \in LockOperation
        BY <2>3, OperationsAssumption
           DEF OperationResult, IInv, CommandInv, StagesOf
      <3>2. \/ Admit("JAMMED")
            \/ shown' = ProjectLockStatus(Complete(op), shown)
            \/ shown' = shown
        BY <2>3 DEF OperationResult, Show, displayVars
      <3> QED BY <1>4, <1>5, <3>1, <3>2 DEF Projected
    <2>4. CASE OperationReturns
      BY <1>1, <2>4 DEF OperationReturns, Projected
    <2> QED BY <1>6, <2>1, <2>2, <2>3, <2>4 DEF OperationStep, Projected
  <1>7. CASE AttemptStep
    <2>1. CASE Handshake \/ RetryableError
      BY <2>1 DEF Handshake, RetryableError, displayVars
    <2>2. CASE EnsureConnectedReturns
      BY <1>3, <2>2 DEF EnsureConnectedReturns, Projected
    <2>3. CASE FinalError
      BY <1>2, <2>3 DEF FinalError, Projected
    <2>4. CASE AuthenticationError
      BY <1>2, <2>4 DEF AuthenticationError, displayVars, Projected
    <2>5. CASE HandleDisconnected
      BY <1>2, <2>5 DEF HandleDisconnected, displayVars, Projected
    <2>6. CASE Retry
      BY <1>2, <1>3, <2>6 DEF Retry, displayVars, Projected
    <2>7. CASE Cancelled
      BY <1>1, <1>2, <2>7 DEF Cancelled, Projected
    <2> QED BY <1>7, <2>1, <2>2, <2>3, <2>4, <2>5, <2>6, <2>7 DEF AttemptStep
  <1>8. CASE UpdateStep \/ KeycodeStep \/ FrameStep
    <2>1. ASSUME NEW s \in Reports, PollAnswered(s) \/ StatusReport(s)
          PROVE  shown' = shown \/ Projected
      BY <1>4, <2>1, ReportsAssumption DEF PollAnswered, StatusReport
    <2>2. ASSUME NEW ok \in BOOLEAN, ForeignOperationResponse(ok)
          PROVE  shown' = shown \/ Projected
      BY <1>4, <1>5, <2>2 DEF ForeignOperationResponse, displayVars
    <2> QED BY <1>8, <2>1, <2>2
            DEF UpdateStep, DeferredUpdate, ExecuteDeferredUpdate, AcquireForUpdate,
                ReadOthers, FinishUpdate, RequestUpdate, Validate, KeycodeStep,
                RunOnLock, SetAutoLock, KeycodeReturns, FrameStep, displayVars, Projected
  <1>9. CASE TimerStep \/ LifecycleStep \/ UNCHANGED vars
    BY <1>9 DEF TimerStep, JamHoldEnded, HoldDeadlinePasses, FloorLapses, JamAges,
                LifecycleStep, LinkDrops, Stop, CancelUpdateTask, CloseLink, Start,
                displayVars, vars
  <1> QED BY <1>6, <1>7, <1>8, <1>9 DEF Next

\* No sequence of reports and commands shows a pair no lock can be in.
THEOREM StatusesAgree == Spec => []SecureAgreesWithLock
  <1>1. Init => SecureAgreesWithLock
    BY DEF Init, UnknownDisplay, SecureAgreesWithLock
  <1>2. ASSUME IInv, SecureAgreesWithLock, [Next]_vars
        PROVE  SecureAgreesWithLock'
    <2>1. shown \in Display
      BY <1>2 DEF IInv, DisplayInv
    <2>2. ASSUME NEW s \in LockStatus, NEW d \in Display
          PROVE  /\ ProjectLockStatus(s, d).secure # "SECUREMODE"
                 /\ ProjectLockStatus(s, d).secure = "LOCKED"
                    => ProjectLockStatus(s, d).lock = "SECUREMODE"
      BY DEF ProjectLockStatus, SecureForStatus, LockStatus
    <2>3. CASE shown' = shown
      BY <1>2, <2>3 DEF SecureAgreesWithLock
    <2>4. CASE \E s \in LockStatus : shown' = ProjectLockStatus(s, shown)
      BY <2>1, <2>2, <2>4 DEF SecureAgreesWithLock
    <2>5. ASSUME NEW o \in LockOperation, shown' = Pending(o, shown)
          PROVE  SecureAgreesWithLock'
      <3>1. CASE o = "securemode"
        BY <2>5, <3>1 DEF Pending, SecuringDisplay, SecureAgreesWithLock
      <3>2. CASE o # "securemode"
        BY <2>1, <2>2, <2>5, <3>2 DEF Pending, LockStatus, SecureAgreesWithLock
      <3> QED BY <3>1, <3>2
    <2> QED BY <1>2, <2>3, <2>4, <2>5, ShownIsProjected
  <1> QED BY <1>1, <1>2, InvariantHolds, PTL DEF Spec

-----------------------------------------------------------------------------
(* The authentication history. *)

\* The latch and the failed authentication on display come and go together.
THEOREM LatchAgrees == Spec => []LatchIsShown
  <1>1. Init => LatchIsShown
    BY AuthLatchAssumption DEF Init, LatchIsShown, Latched
  <1>2. ASSUME IInv, LatchIsShown, [Next]_vars
        PROVE  LatchIsShown'
    <2>1. authFails \in Nat /\ AuthLatch \in Nat \ {0}
      BY <1>2, AuthLatchAssumption DEF IInv, ScheduleInv
    <2>2. CASE UNCHANGED authVars
      BY <1>2, <2>2 DEF authVars, LatchIsShown, Latched
    <2>3. CASE RecordAuthSuccess
      BY <2>1, <2>3 DEF RecordAuthSuccess, LatchIsShown, Latched
    <2>4. CASE AuthenticationError
      <3>1. /\ authFails' = IF Latched THEN authFails ELSE authFails + 1
            /\ authShown' = IF authFails + 1 >= AuthLatch THEN "failed" ELSE authShown
        BY <2>4 DEF AuthenticationError
      <3> QED BY <1>2, <2>1, <3>1 DEF LatchIsShown, Latched
    <2>5. UNCHANGED authVars \/ RecordAuthSuccess \/ AuthenticationError
      <3>1. CASE OperationStep
        BY <3>1 DEF OperationStep, RunLockOperation, RunLockOperationStopped,
                    WriteOperation, OperationWriteSuccess, Acknowledged,
                    OperationResult, OperationReturns
      <3>2. CASE AttemptStep
        BY <3>2 DEF AttemptStep, Handshake, EnsureConnectedReturns, RetryableError,
                    FinalError, HandleDisconnected, Retry, Cancelled
      <3>3. CASE UpdateStep \/ KeycodeStep
        BY <3>3 DEF UpdateStep, DeferredUpdate, ExecuteDeferredUpdate,
                    AcquireForUpdate, ReadOthers, PollAnswered, FinishUpdate,
                    RequestUpdate, Validate, KeycodeStep, RunOnLock, SetAutoLock, KeycodeReturns
      <3>4. CASE FrameStep \/ TimerStep \/ LifecycleStep
        BY <3>4 DEF FrameStep, StatusReport, ForeignOperationResponse, TimerStep,
                    JamHoldEnded, HoldDeadlinePasses, FloorLapses, JamAges,
                    LifecycleStep, LinkDrops, Stop, CancelUpdateTask, CloseLink, Start
      <3>5. CASE UNCHANGED vars
        BY <3>5 DEF vars
      <3> QED BY <1>2, <3>1, <3>2, <3>3, <3>4, <3>5 DEF Next
    <2> QED BY <2>2, <2>3, <2>4, <2>5
  <1> QED BY <1>1, <1>2, InvariantHolds, PTL DEF Spec

-----------------------------------------------------------------------------
(* Where an exchange begins and ends.                                        *)


\* The command is with the lock: its exchange is not idle.
Exchanging == stage \in {"writing", "waiting"}

\* Only the write of a command begins an exchange.
LEMMA ExchangeBegins ==
    ASSUME [Next]_vars, ~Exchanging, Exchanging'
    PROVE  WriteOperation
  <1>1. ASSUME NEW up, NEW latchedNow, NEW armed, Fail(up, latchedNow, armed)
        PROVE  ~Exchanging'
    BY <1>1 DEF Fail, FinalizeOperation, EndCycle, EndKeycode,
                ReleaseOperationLock, Exchanging
  <1>2. ASSUME NEW attemptNow, NEW seenNow, Connected(attemptNow, seenNow)
        PROVE  ~Exchanging'
    BY <1>2 DEF Connected, FinalizeOperation, ReleaseOperationLock, Exchanging
  <1>3. CASE OperationStep
    BY <1>3 DEF OperationStep, RunLockOperation, RunLockOperationStopped,
                OperationWriteSuccess, Acknowledged, OperationResult,
                OperationReturns, FinalizeOperation, ReleaseOperationLock,
                commandVars, Exchanging
  <1>4. CASE AttemptStep
    <2>1. CASE Handshake \/ RetryableError
      BY <2>1 DEF Handshake, RetryableError, Exchanging
    <2>2. CASE EnsureConnectedReturns
      BY <1>2, <2>2 DEF EnsureConnectedReturns
    <2>3. CASE FinalError
      BY <1>1, <2>3 DEF FinalError
    <2>4. CASE AuthenticationError
      BY <1>1, <2>4 DEF AuthenticationError, Backoff, Exchanging
    <2>5. CASE HandleDisconnected
      BY <1>1, <2>5 DEF HandleDisconnected, Backoff, Exchanging
    <2>6. CASE Retry
      BY <1>1, <1>2, <2>6 DEF Retry, Exchanging
    <2>7. CASE Cancelled
      BY <1>1, <2>7 DEF Cancelled, FinalizeOperation, ReleaseOperationLock, Exchanging
    <2> QED BY <1>4, <2>1, <2>2, <2>3, <2>4, <2>5, <2>6, <2>7 DEF AttemptStep
  <1>5. CASE UpdateStep \/ KeycodeStep
    BY <1>5 DEF UpdateStep, DeferredUpdate, ExecuteDeferredUpdate,
                AcquireForUpdate, YieldToFloor, ReadOthers, PollAnswered,
                FinishUpdate, RequestUpdate, Validate, KeycodeStep, RunOnLock, SetAutoLock,
                KeycodeReturns, EndCycle, EndKeycode, ReleaseOperationLock,
                commandVars, Exchanging
  <1>6. CASE FrameStep \/ TimerStep
    BY <1>6 DEF FrameStep, StatusReport, ForeignOperationResponse, TimerStep,
                JamHoldEnded, HoldDeadlinePasses, FloorLapses, JamAges,
                commandVars, Exchanging
  <1>7. CASE LifecycleStep
    BY <1>7 DEF LifecycleStep, LinkDrops, Stop, CancelUpdateTask, CloseLink, Start,
                ReleaseOperationLock, commandVars, Exchanging
  <1>8. CASE UNCHANGED vars
    BY <1>8 DEF vars, commandVars, Exchanging
  <1> QED BY <1>3, <1>4, <1>5, <1>6, <1>7, <1>8 DEF Next

\* What an attempt that is given up for another leaves behind.
GivenUp ==
    /\ progress.result = "none" /\ ~PastFinalStage
    /\ holder' = holder /\ stage' \in {"disconnecting", "backoff"}

\* An exchange goes on, is acknowledged or answered, ends with its command, or
\* is given up where the command may be written again.
LEMMA ExchangeGoesOn ==
    ASSUME IInv, [Next]_vars, Exchanging
    PROVE  \/ Exchanging' /\ UNCHANGED <<holder, op, progress>>
           \/ Acknowledged
           \/ \E ok \in BOOLEAN : OperationResult(ok)
           \/ ReleaseOperationLock
           \/ GivenUp
  <1>1. holder = "operation"
    BY DEF Exchanging, IInv, CommandInv, StagesOf
  <1>2. ASSUME NEW up, NEW latchedNow, NEW armed, Fail(up, latchedNow, armed)
        PROVE  ReleaseOperationLock
    BY <1>2 DEF Fail, FinalizeOperation, EndCycle, EndKeycode
  <1>3. CASE OperationStep
    BY <1>1, <1>3
       DEF OperationStep, RunLockOperation, RunLockOperationStopped, WriteOperation,
           OperationWriteSuccess, OperationReturns, FinalizeOperation, commandVars,
           attemptVars, exchangeVars, Exchanging
  <1>4. CASE AttemptStep
    <2>1. CASE RetryableError
      BY <2>1 DEF RetryableError, AttemptFails, attemptVars, GivenUp
    <2>2. CASE AuthenticationError
      <3>1. progress.result = "none" /\ ~PastFinalStage
        BY <2>2 DEF AuthenticationError, AttemptFails
      <3>2. \/ Backoff
            \/ Fail(link, authFails + 1 >= AuthLatch, deferred)
        BY <2>2 DEF AuthenticationError
      <3> QED BY <1>2, <3>1, <3>2 DEF Backoff, attemptVars, GivenUp
    <2>3. CASE FinalError
      BY <1>2, <2>3 DEF FinalError
    <2>4. CASE Cancelled
      BY <1>1, <2>4 DEF Cancelled, FinalizeOperation
    <2>5. ~Handshake /\ ~EnsureConnectedReturns /\ ~HandleDisconnected /\ ~Retry
      BY DEF Handshake, EnsureConnectedReturns, HandleDisconnected, Retry, Exchanging
    <2> QED BY <1>4, <2>1, <2>2, <2>3, <2>4, <2>5 DEF AttemptStep
  <1>5. CASE UpdateStep \/ KeycodeStep
    BY <1>1, <1>5
       DEF UpdateStep, DeferredUpdate, ExecuteDeferredUpdate, AcquireForUpdate,
           ReadOthers, PollAnswered, FinishUpdate, RequestUpdate, Validate,
           KeycodeStep, RunOnLock, SetAutoLock, KeycodeReturns, commandVars, attemptVars,
           exchangeVars, Exchanging
  <1>6. CASE FrameStep \/ TimerStep
    BY <1>6 DEF FrameStep, StatusReport, ForeignOperationResponse, TimerStep,
                JamHoldEnded, HoldDeadlinePasses, FloorLapses, JamAges,
                commandVars, attemptVars, exchangeVars, Exchanging
  <1>7. CASE LifecycleStep
    BY <1>7 DEF LifecycleStep, LinkDrops, Stop, CancelUpdateTask, CloseLink, Start,
                commandVars, attemptVars, exchangeVars, Exchanging
  <1>8. CASE UNCHANGED vars
    BY <1>8 DEF vars, commandVars, attemptVars, exchangeVars, Exchanging
  <1> QED BY <1>3, <1>4, <1>5, <1>6, <1>7, <1>8 DEF Next

-----------------------------------------------------------------------------
(* The refinement. *)

\* The initial states map to initial states of the contract.
LEMMA ContractInit == Init => Attempt!Init
  BY DEF Init, Attempt!Init, Exchange

\* Between exchanges, the wrapper issues a command or goes on to another attempt.
LEMMA IdleStep ==
    ASSUME Exchange = "idle", Exchange' = "idle"
    PROVE  Attempt!Next
  BY DEF Attempt!Next, Attempt!Issue, Attempt!GiveUpForAnother

\* Every step of PushLock maps to a step of the contract or to a stutter.
LEMMA ContractStep ==
    ASSUME IInv, [Next]_vars
    PROVE  [Attempt!Next]_(Attempt!contractVars)
  <1>1. CASE ~Exchanging /\ ~Exchanging'
    BY <1>1, IdleStep DEF Exchanging, Exchange
  <1>2. CASE ~Exchanging /\ Exchanging'
    <2>1. WriteOperation
      BY <1>2, ExchangeBegins
    <2>2. Exchange = "idle" /\ Exchange' = "sent"
      BY <2>1 DEF WriteOperation, Exchange, NoProgress
    <2>3. ~(stage' \in {"disconnecting", "backoff"})
      BY <2>1 DEF WriteOperation
    <2> QED BY <2>2, <2>3 DEF Attempt!Next, Attempt!Send
  <1>3. CASE Exchanging
    <2>1. holder = "operation" /\ progress.written /\ progress \in Progress
      BY <1>3 DEF Exchanging, IInv, CommandInv, StagesOf, ExchangeRecorded
    <2>2. CASE Exchanging' /\ UNCHANGED <<holder, op, progress>>
      BY <1>3, <2>2 DEF Attempt!contractVars, Exchange, Exchanging
    <2>3. CASE Acknowledged
      BY <1>3, <2>1, <2>3
         DEF Acknowledged, attemptVars, Progress, Exchange, Exchanging,
             Attempt!Next, Attempt!Acknowledge, Attempt!contractVars
    <2>4. CASE \E ok \in BOOLEAN : OperationResult(ok)
      BY <1>3, <2>1, <2>4
         DEF OperationResult, attemptVars, Progress, Exchange, Exchanging,
             Attempt!Next, Attempt!Answer
    <2>5. CASE ReleaseOperationLock
      BY <1>3, <2>5 DEF ReleaseOperationLock, Exchange, Exchanging, Attempt!Next,
                        Attempt!End
    <2>6. CASE GivenUp
      BY <1>3, <2>1, <2>6 DEF GivenUp, PastFinalStage, Exchange, Exchanging,
                              Attempt!Next, Attempt!GiveUpForAnother
    <2> QED BY <1>3, <2>2, <2>3, <2>4, <2>5, <2>6, ExchangeGoesOn
  <1> QED BY <1>1, <1>2, <1>3

\* PushLock implements the contract: a command is attempted again only while the
\* lock cannot have taken it, and an answer is the last word.
THEOREM ContractKept == Spec => AttemptKeepsContract
  <1>1. IInv /\ [Next]_vars => [Attempt!Next]_(Attempt!contractVars)
    BY ContractStep
  <1> QED BY <1>1, ContractInit, InvariantHolds, PTL
          DEF Spec, AttemptKeepsContract, Attempt!Spec

=============================================================================

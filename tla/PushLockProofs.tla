--------------------------- MODULE PushLockProofs ---------------------------
(* Proofs about PushLock for every value of its constants. The display       *)
(* operators are used through the facts of the first section only.           *)
EXTENDS PushLock, TLAPS

\* A projected report is a display whose main lock is the report.
LEMMA ProjectionTyped ==
    ASSUME NEW s \in LockStatus, NEW d \in Display
    PROVE  /\ ProjectLockStatus(s, d) \in Display
           /\ ProjectLockStatus(s, d).lock = s
  BY DEF ProjectLockStatus, SecureForStatus, Display, LockStatus

\* The pending display of a command is a display.
LEMMA PendingTyped ==
    ASSUME NEW o \in LockOperation, NEW d \in Display
    PROVE  Pending(o, d) \in Display
  BY ProjectionTyped
     DEF Pending, SecuringDisplay, LockOperation, Display, LockStatus

\* The status a command completes as is a status.
LEMMA CompleteTyped ==
    ASSUME NEW o \in LockOperation
    PROVE  Complete(o) \in LockStatus
  BY DEF Complete, LockOperation, LockStatus

-----------------------------------------------------------------------------
(* The inductive invariant, in three parts: what is shown, the command in    *)
(* flight, and the schedule, of which only the types matter here.            *)

DisplayInv ==
    /\ shown \in Display /\ seen \in BOOLEAN
    /\ jamRecent \in BOOLEAN /\ precedes \in BOOLEAN
    /\ holdLive \in BOOLEAN /\ jamTimer \in BOOLEAN /\ stale \in BOOLEAN
    /\ HoldShowsAttention
    /\ HoldEndsInAPoll
    /\ SeenMeansSettled

ScheduleInv ==
    /\ running \in BOOLEAN /\ closing \in {"no", "requested", "closing"}
    /\ deferred \in BOOLEAN /\ floor \in BOOLEAN /\ forcePoll \in BOOLEAN
    /\ task \in {"none", "created", "queued", "running"} /\ owed \in BOOLEAN
    /\ link \in BOOLEAN /\ fresh \in BOOLEAN
    /\ authFails \in 0..AuthLatch /\ authShown \in {"none", "ok", "failed"}

\* The stages each holder goes through.
StagesOf ==
    /\ holder = "none" <=> stage = "idle"
    /\ stage \in {"cooldown", "writing", "waiting"} => holder = "operation"
    /\ stage \in {"reading", "polling", "answered"} => holder = "cycle"
    /\ stage = "commanding" => holder = "keycode"
    /\ holder = "operation" => op \in Operations
    /\ failed => holder = "operation"

\* Frames of the exchange are recorded only while it lasts.
ExchangeRecorded ==
    /\ stage \in {"writing", "waiting"} => progress.written
    /\ stage \notin {"writing", "waiting"} => progress = NoProgress /\ ~answered /\ ~taken
    /\ answered <=> progress.result # "none"
    /\ taken => progress.acked \/ progress.result # "none"

\* Attempts used up, and writes made, by the stage of the attempt; a written
\* unlatch is past its final stage, so it has no other attempt.
AttemptsCounted ==
    /\ stage = "backoff" => attempt + 1 < Attempts
    /\ stage = "idle" => attempt = 0
    /\ writes <= attempt + 1
    /\ stage \in {"idle", "connecting", "handshaken", "cooldown"} => writes <= attempt
    /\ (op = "unlatch" /\ stage \notin {"writing", "waiting"}) => writes = 0

CommandInv ==
    /\ holder \in Holders /\ stage \in Stages /\ attempt \in 0..(Attempts - 1)
    /\ op \in Operations \union {"none"}
    /\ windowOpen \in BOOLEAN /\ answered \in BOOLEAN /\ failed \in BOOLEAN
    /\ progress \in Progress /\ writes \in 0..Attempts /\ taken \in BOOLEAN
    /\ WindowOnlyDuringExchange
    /\ StagesOf
    /\ ExchangeRecorded
    /\ AttemptsCounted

\* A reported failure holds the display until the command has raised.
FailureHeld == progress.result = "fail" => holdLive

IInv == DisplayInv /\ ScheduleInv /\ CommandInv /\ FailureHeld

\* A command has at least one attempt, so the count may start at zero.
LEMMA ZeroAttempts ==
    /\ 0 \in 0..(Attempts - 1) /\ 0 \in 0..Attempts
    /\ 0 <= 0 /\ 0 <= 0 + 1
  BY AttemptsAssumption

\* A fresh attempt has recorded nothing.
LEMMA NoProgressTyped ==
    /\ NoProgress \in Progress
    /\ NoProgress.result = "none"
  BY DEF NoProgress, Progress

\* The invariant holds when the PushLock object has been built.
LEMMA InitHolds == Init => IInv
  <1> SUFFICES ASSUME Init PROVE IInv
    OBVIOUS
  <1>1. DisplayInv
    BY DEF Init, DisplayInv, UnknownDisplay, Display, LockStatus,
           HoldShowsAttention, HoldEndsInAPoll, SeenMeansSettled
  <1>2. ScheduleInv
    <2>1. 0 \in 0..AuthLatch
      BY AuthLatchAssumption
    <2> QED BY <2>1 DEF Init, ScheduleInv
  <1>3. CommandInv
    BY ZeroAttempts, NoProgressTyped
       DEF Init, CommandInv, Holders, Stages, NoProgress,
           WindowOnlyDuringExchange, StagesOf, ExchangeRecorded, AttemptsCounted
  <1>4. FailureHeld
    BY DEF Init, FailureHeld, NoProgress
  <1> QED BY <1>1, <1>2, <1>3, <1>4 DEF IInv

-----------------------------------------------------------------------------
(* Facts about the operators that actions share. *)

\* Displaying a display keeps the readings honest.
LEMMA ShowKeeps ==
    ASSUME NEW d \in Display, Show(d)
    PROVE  /\ shown' = d /\ seen' \in BOOLEAN
           /\ SeenMeansSettled'
  BY DEF Show, SeenMeansSettled, Settled

\* An admitted or refused report keeps the display part of the invariant.
LEMMA AdmitKeeps ==
    ASSUME DisplayInv, NEW s \in LockStatus, Admit(s)
    PROVE  /\ DisplayInv'
           /\ holdLive => holdLive'
           /\ s \in ManualIntervention /\ holder = "operation" => holdLive'
  <1>1. /\ ProjectLockStatus(s, shown) \in Display
        /\ ProjectLockStatus(s, shown).lock = s
    BY ProjectionTyped DEF DisplayInv
  <1>2. CASE AdmitAttention(s)
    BY <1>1, <1>2, ShowKeeps
       DEF AdmitAttention, DisplayInv, HoldsAnew, HoldShowsAttention,
           HoldEndsInAPoll, NeedsAttention
  <1>3. CASE AdmitPosition(s)
    <2>1. CASE Refused
      BY <1>3, <2>1
         DEF AdmitPosition, jamVars, DisplayInv, HoldShowsAttention,
             HoldEndsInAPoll, NeedsAttention, SeenMeansSettled
    <2>2. CASE ~Refused
      BY <1>1, <1>3, <2>2, ShowKeeps
         DEF AdmitPosition, jamVars, DisplayInv, HoldShowsAttention,
             HoldEndsInAPoll, Refused, AttentionHoldsDisplay
    <2> QED BY <2>1, <2>2
  <1> QED BY <1>2, <1>3 DEF Admit

\* A display put up while nothing needs attention, or after the hold is gone.
LEMMA ReleasedKeeps ==
    ASSUME NEW d \in Display, DisplayInv, ReleaseJamHold, Show(d),
           UNCHANGED <<jamRecent, precedes, stale>>
    PROVE  DisplayInv'
  BY ShowKeeps DEF ReleaseJamHold, DisplayInv, HoldShowsAttention, HoldEndsInAPoll

\* What leaves the display and the hold alone keeps the display part.
LEMMA DisplayUntouched ==
    ASSUME DisplayInv, UNCHANGED <<displayVars, jamVars>>
    PROVE  DisplayInv' /\ holdLive' = holdLive
  BY DEF DisplayInv, displayVars, jamVars, HoldShowsAttention, HoldEndsInAPoll,
         SeenMeansSettled, NeedsAttention, Settled

\* What leaves the command alone keeps the command part.
LEMMA CommandUntouched ==
    ASSUME CommandInv, UNCHANGED commandVars
    PROVE  CommandInv' /\ progress' = progress
  BY DEF CommandInv, commandVars, attemptVars, exchangeVars,
         WindowOnlyDuringExchange, StagesOf, ExchangeRecorded, AttemptsCounted

\* Releasing the operation lock leaves no command behind.
LEMMA ReleaseKeeps ==
    ASSUME ReleaseOperationLock
    PROVE  CommandInv' /\ progress'.result = "none"
  BY ZeroAttempts, NoProgressTyped
     DEF ReleaseOperationLock, CommandInv, Holders, Stages,
         WindowOnlyDuringExchange, StagesOf, ExchangeRecorded, AttemptsCounted

\* The exit never puts UNKNOWN over a display that a hold keeps.
LEMMA FinalizeKeeps ==
    ASSUME IInv, NEW incomplete, NEW up \in BOOLEAN,
           NEW seenNow \in BOOLEAN, seenNow => seen,
           FinalizeOperation(incomplete, up, seenNow)
    PROVE  /\ DisplayInv' /\ CommandInv' /\ FailureHeld'
           /\ deferred' \in BOOLEAN /\ floor' \in BOOLEAN /\ forcePoll' \in BOOLEAN
           /\ owed' \in BOOLEAN /\ task' = task
  <1>1. CommandInv' /\ FailureHeld'
    BY ReleaseKeeps DEF FinalizeOperation, FailureHeld
  <1>2. /\ ProjectLockStatus("UNKNOWN", shown) \in Display
        /\ ProjectLockStatus("UNKNOWN", shown).lock = "UNKNOWN"
    BY ProjectionTyped DEF IInv, DisplayInv, LockStatus
  <1>3. DisplayInv'
    <2>1. CASE running /\ OutcomeShown(incomplete)
      BY <1>2, <2>1, ShowKeeps
         DEF FinalizeOperation, OutcomeShown, AttentionHoldsDisplay, IInv,
             DisplayInv, HoldShowsAttention, HoldEndsInAPoll
    <2>2. CASE running /\ ~OutcomeShown(incomplete)
      BY <2>2
         DEF FinalizeOperation, IInv, DisplayInv, HoldShowsAttention,
             HoldEndsInAPoll, SeenMeansSettled, NeedsAttention, Settled
    <2>3. CASE ~running
      BY <2>3
         DEF FinalizeOperation, ForgetJam, ReleaseJamHold, IInv, DisplayInv,
             HoldShowsAttention, HoldEndsInAPoll, SeenMeansSettled, Settled
    <2> QED BY <2>1, <2>2, <2>3
  <1>4. /\ deferred' \in BOOLEAN /\ floor' \in BOOLEAN /\ forcePoll' \in BOOLEAN
        /\ owed' \in BOOLEAN /\ task' = task
    BY DEF FinalizeOperation, ArmsExitPoll, IInv, ScheduleInv
  <1> QED BY <1>1, <1>3, <1>4

\* The end of a cycle keeps the command and the schedule parts.
LEMMA EndCycleKeeps ==
    ASSUME IInv, NEW up, NEW latchedNow, NEW armed \in BOOLEAN,
           EndCycle(up, latchedNow, armed)
    PROVE  /\ CommandInv' /\ progress'.result = "none"
           /\ deferred' \in BOOLEAN /\ floor' = floor /\ owed' = owed
           /\ task' \in {"none", "created", "queued", "running"}
  BY ReleaseKeeps DEF EndCycle, IInv, ScheduleInv

\* An exception that leaves the retry wrapper keeps the invariant, whatever
\* was running under the operation lock.
LEMMA FailKeeps ==
    ASSUME IInv, NEW up \in BOOLEAN, NEW latchedNow, NEW armed \in BOOLEAN,
           Fail(up, latchedNow, armed)
    PROVE  /\ DisplayInv' /\ CommandInv' /\ FailureHeld'
           /\ deferred' \in BOOLEAN /\ floor' \in BOOLEAN /\ forcePoll' \in BOOLEAN
           /\ owed' \in BOOLEAN
           /\ task' \in {"none", "created", "queued", "running"}
  <1>1. CASE FinalizeOperation(TRUE, up, seen)
    BY <1>1, FinalizeKeeps DEF IInv, DisplayInv, ScheduleInv
  <1>2. CASE /\ EndCycle(up, latchedNow, armed)
             /\ UNCHANGED <<displayVars, jamVars, forcePoll>>
    BY <1>2, EndCycleKeeps, DisplayUntouched DEF IInv, ScheduleInv, FailureHeld
  <1>3. CASE EndKeycode(armed) /\ UNCHANGED <<displayVars, jamVars>>
    BY <1>3, ReleaseKeeps, DisplayUntouched
       DEF EndKeycode, pollVars, IInv, ScheduleInv, FailureHeld
  <1> QED BY <1>1, <1>2, <1>3 DEF Fail

-----------------------------------------------------------------------------
(* Every step keeps the invariant: one lemma per group of actions.           *)

\* The link and the authentication history keep their types.
LEMMA LinkTyped ==
    ASSUME ScheduleInv, UNCHANGED <<lifecycleVars, scheduleVars, authVars>>,
           link' \in BOOLEAN, fresh' \in BOOLEAN
    PROVE  ScheduleInv'
  BY DEF ScheduleInv, lifecycleVars, scheduleVars, pollVars, authVars

\* What the code after _ensure_connected() leaves in place.
LEMMA ConnectedKeeps ==
    ASSUME IInv, NEW attemptNow \in 0..(Attempts - 1), attempt <= attemptNow,
           stage \in {"handshaken", "backoff"},
           stage = "backoff" => attemptNow = attempt + 1,
           NEW seenNow \in BOOLEAN, seenNow => seen, Connected(attemptNow, seenNow)
    PROVE  /\ DisplayInv' /\ CommandInv' /\ FailureHeld'
           /\ deferred' \in BOOLEAN /\ floor' \in BOOLEAN /\ forcePoll' \in BOOLEAN
           /\ owed' \in BOOLEAN
           /\ task' \in {"none", "created", "queued", "running"}
  <1>1. CASE FinalizeOperation(TRUE, TRUE, seenNow)
    BY <1>1, FinalizeKeeps DEF IInv, ScheduleInv
  <1>2. CASE ~FinalizeOperation(TRUE, TRUE, seenNow)
    <2>1. /\ UNCHANGED <<shown, jamVars, floor, pollVars, holder, op, answered,
                        failed, progress, writes, taken>>
          /\ seen' = seenNow /\ attempt' = attemptNow
      BY <1>2 DEF Connected, exchangeVars, scheduleVars
    <2>2. \/ /\ holder = "operation" /\ stage' = "cooldown" /\ windowOpen' = TRUE
          \/ /\ holder = "keycode" /\ stage' = "commanding"
             /\ windowOpen' = windowOpen
          \/ /\ holder = "cycle" /\ stage' = "reading"
             /\ windowOpen' = windowOpen
      BY <1>2 DEF Connected, exchangeVars
    <2>3. deferred' = FALSE \/ deferred' = deferred
      BY <1>2 DEF Connected, scheduleVars
    <2>4. /\ ~answered /\ ~taken /\ progress = NoProgress /\ windowOpen = FALSE
          /\ op = "unlatch" => writes = 0
          /\ writes <= attemptNow
      BY DEF IInv, CommandInv, WindowOnlyDuringExchange, ExchangeRecorded,
             AttemptsCounted
    <2>5. DisplayInv'
      BY <2>1
         DEF IInv, DisplayInv, jamVars, HoldShowsAttention, HoldEndsInAPoll,
             SeenMeansSettled, NeedsAttention, Settled
    <2>6. WindowOnlyDuringExchange' /\ StagesOf'
      BY <2>1, <2>2, <2>4 DEF IInv, CommandInv, WindowOnlyDuringExchange, StagesOf
    <2>7. ExchangeRecorded'
      BY <2>1, <2>2, <2>4, NoProgressTyped DEF ExchangeRecorded
    <2>8. AttemptsCounted'
      BY <2>1, <2>2, <2>4, AttemptsAssumption DEF IInv, CommandInv, AttemptsCounted
    <2>9. CommandInv'
      BY <2>1, <2>2, <2>4, <2>6, <2>7, <2>8 DEF IInv, CommandInv, Stages
    <2>10. FailureHeld'
      BY <2>1 DEF IInv, FailureHeld, jamVars
    <2> QED BY <2>1, <2>3, <2>5, <2>9, <2>10 DEF IInv, ScheduleInv, pollVars
  <1> QED BY <1>1, <1>2

\* A command issued, written, acknowledged, answered or returned keeps the
\* invariant.
LEMMA OperationStepKeeps ==
    ASSUME IInv, OperationStep
    PROVE  IInv'
  <1>1. ASSUME NEW o \in Operations, RunLockOperation(o)
        PROVE  IInv'
    <2>1. DisplayInv'
      BY <1>1 DEF RunLockOperation, IInv, DisplayInv, displayVars,
                  HoldShowsAttention, HoldEndsInAPoll, SeenMeansSettled,
                  NeedsAttention, Settled
    <2>2. CommandInv'
      <3>1. attempt = 0 /\ writes = 0 /\ ~answered /\ ~taken /\ progress = NoProgress
        BY <1>1, AttemptsAssumption
           DEF RunLockOperation, IInv, CommandInv, StagesOf, ExchangeRecorded,
               AttemptsCounted
      <3>2. WindowOnlyDuringExchange' /\ StagesOf' /\ ExchangeRecorded'
        BY <1>1, <3>1, NoProgressTyped
           DEF RunLockOperation, WindowOnlyDuringExchange, StagesOf, ExchangeRecorded
      <3>3. AttemptsCounted'
        BY <1>1, <3>1, ZeroAttempts DEF RunLockOperation, AttemptsCounted
      <3>4. windowOpen' \in BOOLEAN /\ holder' \in Holders /\ stage' \in Stages
        BY <1>1 DEF RunLockOperation, IInv, ScheduleInv, Holders, Stages
      <3> QED BY <1>1, <3>2, <3>3, <3>4 DEF RunLockOperation, IInv, CommandInv
    <2> QED BY <1>1, <2>1, <2>2
            DEF RunLockOperation, IInv, ScheduleInv, FailureHeld, lifecycleVars,
                pollVars, linkVars, authVars
  <1>2. CASE RunLockOperationStopped
    <2>1. DisplayInv'
      BY <1>2 DEF RunLockOperationStopped, ForgetJam, ReleaseJamHold, IInv,
                  DisplayInv, displayVars, HoldShowsAttention, HoldEndsInAPoll,
                  SeenMeansSettled, Settled
    <2>2. CommandInv' /\ progress' = progress
      BY <1>2, CommandUntouched DEF RunLockOperationStopped, IInv
    <2>3. FailureHeld'
      BY <1>2, <2>2, NoProgressTyped
         DEF RunLockOperationStopped, IInv, CommandInv, FailureHeld, StagesOf,
             ExchangeRecorded
    <2> QED BY <1>2, <2>1, <2>2, <2>3
            DEF RunLockOperationStopped, IInv, ScheduleInv, lifecycleVars,
                linkVars, authVars
  <1>3. CASE WriteOperation
    <2>1. DisplayInv' /\ ScheduleInv'
      BY <1>3, DisplayUntouched, LinkTyped
         DEF WriteOperation, IInv, ScheduleInv, linkVars
    <2>2. /\ writes' \in 0..Attempts /\ writes' <= attempt' + 1
      BY <1>3, AttemptsAssumption
         DEF WriteOperation, IInv, CommandInv, AttemptsCounted, attemptVars
    <2>3. progress' \in Progress /\ progress'.written /\ progress'.result = "none"
      BY <1>3 DEF WriteOperation, NoProgress, Progress
    <2>4. answered' = FALSE
      BY <1>3 DEF WriteOperation, IInv, CommandInv, ExchangeRecorded
    <2>5. CommandInv'
      BY <1>3, <2>2, <2>3, <2>4
         DEF WriteOperation, IInv, CommandInv, WindowOnlyDuringExchange, StagesOf,
             ExchangeRecorded, AttemptsCounted, Holders, Stages, attemptVars
    <2> QED BY <2>1, <2>3, <2>5 DEF IInv, FailureHeld
  <1>4. CASE OperationWriteSuccess
    <2>1. ScheduleInv'
      BY <1>4, LinkTyped DEF OperationWriteSuccess, IInv, ScheduleInv, linkVars
    <2>2. CommandInv' /\ progress' = progress
      BY <1>4
         DEF OperationWriteSuccess, IInv, CommandInv, WindowOnlyDuringExchange,
             StagesOf, ExchangeRecorded, AttemptsCounted, Stages, attemptVars,
             exchangeVars
    <2>3. CASE WriteDisplays
      <3>1. op \in LockOperation
        BY <1>4, OperationsAssumption
           DEF OperationWriteSuccess, IInv, CommandInv, StagesOf
      <3>2. Pending(op, shown) \in Display
        BY <3>1, PendingTyped DEF IInv, DisplayInv
      <3>3. DisplayInv'
        BY <1>4, <2>3, <3>2, ReleasedKeeps DEF OperationWriteSuccess, IInv
      <3>4. progress'.result # "fail"
        BY <2>2, <2>3 DEF WriteDisplays, IInv, CommandInv, ExchangeRecorded
      <3> QED BY <2>1, <2>2, <3>3, <3>4 DEF IInv, FailureHeld
    <2>4. CASE ~WriteDisplays
      BY <1>4, <2>1, <2>2, <2>4, DisplayUntouched
         DEF OperationWriteSuccess, IInv, FailureHeld
    <2> QED BY <2>3, <2>4
  <1>5. CASE Acknowledged
    <2>1. DisplayInv' /\ holdLive' = holdLive /\ ScheduleInv'
      BY <1>5, DisplayUntouched, LinkTyped
         DEF Acknowledged, IInv, ScheduleInv, linkVars
    <2>2. /\ progress' \in Progress /\ progress'.result = progress.result
          /\ progress'.written = progress.written
      BY <1>5 DEF Acknowledged, IInv, CommandInv, Progress
    <2>3. CommandInv'
      BY <1>5, <2>2
         DEF Acknowledged, IInv, CommandInv, WindowOnlyDuringExchange, StagesOf,
             ExchangeRecorded, AttemptsCounted, attemptVars
    <2> QED BY <2>1, <2>2, <2>3 DEF IInv, FailureHeld
  <1>6. ASSUME NEW ok \in BOOLEAN, OperationResult(ok)
        PROVE  IInv'
    <2>1. ScheduleInv'
      BY <1>6 DEF OperationResult, IInv, ScheduleInv, lifecycleVars, pollVars,
                  linkVars, authVars
    <2>2. /\ progress' \in Progress /\ progress'.written = progress.written
          /\ progress'.result = IF ok THEN "ok" ELSE "fail"
      BY <1>6 DEF OperationResult, IInv, CommandInv, Progress
    <2>3. CommandInv'
      <3>1. WindowOnlyDuringExchange' /\ StagesOf' /\ AttemptsCounted'
        BY <1>6 DEF OperationResult, IInv, CommandInv, WindowOnlyDuringExchange,
                    StagesOf, AttemptsCounted, attemptVars
      <3>2. ExchangeRecorded'
        BY <1>6, <2>2 DEF OperationResult, IInv, CommandInv, ExchangeRecorded
      <3> QED BY <1>6, <2>2, <3>1, <3>2
              DEF OperationResult, IInv, CommandInv, attemptVars
    <2>4. holder = "operation"
      BY <1>6 DEF OperationResult, IInv, CommandInv, StagesOf
    <2>5. CASE ~ok /\ Admit("JAMMED")
      BY <2>1, <2>3, <2>4, <2>5, AdmitKeeps
         DEF IInv, FailureHeld, LockStatus, ManualIntervention
    <2>6. CASE ok /\ UNCHANGED <<displayVars, jamVars>>
      BY <2>1, <2>2, <2>3, <2>6, DisplayUntouched DEF IInv, FailureHeld
    <2>7. CASE /\ ok /\ ReleaseJamHold
               /\ Show(ProjectLockStatus(Complete(op), shown))
               /\ UNCHANGED <<jamRecent, precedes, stale>>
      <3>1. Complete(op) \in LockStatus
        BY <2>4, OperationsAssumption, CompleteTyped DEF IInv, CommandInv, StagesOf
      <3>2. ProjectLockStatus(Complete(op), shown) \in Display
        BY <3>1, ProjectionTyped DEF IInv, DisplayInv
      <3>3. DisplayInv'
        BY <2>7, <3>2, ReleasedKeeps DEF IInv
      <3> QED BY <2>1, <2>2, <2>3, <2>7, <3>3 DEF IInv, FailureHeld
    <2> QED BY <1>6, <2>5, <2>6, <2>7 DEF OperationResult
  <1>7. CASE OperationReturns
    <2> DEFINE raised == progress.result = "fail"
    <2>1. FinalizeOperation(raised, link, seen)
      BY <1>7 DEF OperationReturns
    <2>2. link \in BOOLEAN /\ seen \in BOOLEAN
      BY DEF IInv, ScheduleInv, DisplayInv
    <2> HIDE DEF raised
    <2>3. /\ DisplayInv' /\ CommandInv' /\ FailureHeld'
          /\ deferred' \in BOOLEAN /\ floor' \in BOOLEAN /\ forcePoll' \in BOOLEAN
          /\ owed' \in BOOLEAN /\ task' = task
      BY <2>1, <2>2, FinalizeKeeps
    <2> QED BY <1>7, <2>3
            DEF OperationReturns, IInv, ScheduleInv, lifecycleVars, authVars
  <1> QED BY <1>1, <1>2, <1>3, <1>4, <1>5, <1>6, <1>7 DEF OperationStep

\* What leaves the schedule alone keeps the schedule part.
LEMMA ScheduleUntouched ==
    ASSUME ScheduleInv, UNCHANGED <<lifecycleVars, scheduleVars, linkVars, authVars>>
    PROVE  ScheduleInv'
  BY DEF ScheduleInv, lifecycleVars, scheduleVars, pollVars, linkVars, authVars

\* An attempt given up with attempts left: the retry backs off.
LEMMA BackoffKeeps ==
    ASSUME CommandInv, stage \notin {"idle", "answered"}, ~GivesUp, ~PastFinalStage,
           stage' = "backoff", UNCHANGED <<attemptVars, writes, taken>>,
           answered' = answered, ~answered, ~taken, failed' \in BOOLEAN,
           failed' => holder = "operation",
           windowOpen' = FALSE, progress' = NoProgress
    PROVE  CommandInv'
  <1>1. attempt + 1 < Attempts
    BY AttemptsAssumption DEF GivesUp, Last, CommandInv
  <1>2. op = "unlatch" => writes = 0
    BY DEF CommandInv, AttemptsCounted, ExchangeRecorded, PastFinalStage
  <1>3. WindowOnlyDuringExchange' /\ StagesOf'
    BY DEF CommandInv, WindowOnlyDuringExchange, StagesOf, attemptVars
  <1>4. ExchangeRecorded'
    BY NoProgressTyped DEF ExchangeRecorded
  <1>5. AttemptsCounted'
    BY <1>1, <1>2 DEF CommandInv, AttemptsCounted, attemptVars
  <1> QED BY <1>3, <1>4, <1>5, NoProgressTyped DEF CommandInv, Stages, attemptVars

\* Connects, failures, disconnects, retries and cancellations keep it.
LEMMA AttemptStepKeeps ==
    ASSUME IInv, AttemptStep
    PROVE  IInv'
  <1>1. CASE Handshake
    <2>1. ScheduleInv' /\ DisplayInv'
      BY <1>1, LinkTyped, DisplayUntouched DEF Handshake, IInv
    <2>2. ~answered /\ ~taken /\ progress = NoProgress
      BY <1>1 DEF Handshake, IInv, CommandInv, ExchangeRecorded
    <2>3. CommandInv'
      BY <1>1, <2>2
         DEF Handshake, IInv, CommandInv, attemptVars, exchangeVars, Stages,
             WindowOnlyDuringExchange, StagesOf, ExchangeRecorded, AttemptsCounted
    <2> QED BY <1>1, <2>1, <2>2, <2>3, NoProgressTyped
            DEF Handshake, exchangeVars, IInv, FailureHeld
  <1>2. CASE EnsureConnectedReturns
    <2>1. attempt <= attempt /\ attempt \in 0..(Attempts - 1)
      BY AttemptsAssumption DEF IInv, CommandInv
    <2>2. /\ DisplayInv' /\ CommandInv' /\ FailureHeld'
          /\ deferred' \in BOOLEAN /\ floor' \in BOOLEAN /\ forcePoll' \in BOOLEAN
          /\ owed' \in BOOLEAN
          /\ task' \in {"none", "created", "queued", "running"}
      BY <1>2, <2>1, ConnectedKeeps DEF EnsureConnectedReturns
    <2> QED BY <1>2, <2>2
            DEF EnsureConnectedReturns, IInv, ScheduleInv, lifecycleVars, linkVars,
                authVars
  <1>3. CASE RetryableError
    <2>1. ScheduleInv' /\ DisplayInv'
      BY <1>3, LinkTyped, DisplayUntouched DEF RetryableError, IInv, ScheduleInv
    <2>2. ~answered /\ ~taken /\ (op = "unlatch" => writes = 0) /\ stage # "idle"
      BY <1>3
         DEF RetryableError, AttemptFails, AttemptInFlight, PastFinalStage, IInv,
             CommandInv, ExchangeRecorded, AttemptsCounted
    <2>3. /\ stage' = "disconnecting" /\ windowOpen' = FALSE
          /\ progress' = NoProgress /\ failed' = (holder = "operation")
          /\ UNCHANGED <<attemptVars, answered, writes, taken>>
      BY <1>3 DEF RetryableError, EndAttempt
    <2>4. WindowOnlyDuringExchange' /\ StagesOf' /\ ExchangeRecorded'
      BY <2>2, <2>3, NoProgressTyped
         DEF IInv, CommandInv, WindowOnlyDuringExchange, StagesOf,
             ExchangeRecorded, attemptVars
    <2>5. AttemptsCounted'
      BY <2>2, <2>3 DEF IInv, CommandInv, AttemptsCounted, attemptVars
    <2>6. CommandInv'
      BY <2>2, <2>3, <2>4, <2>5, NoProgressTyped
         DEF IInv, CommandInv, Stages, attemptVars
    <2> QED BY <2>1, <2>3, <2>6, NoProgressTyped DEF IInv, FailureHeld
  <1>4. CASE FinalError
    <2> DEFINE latchedNow == Latched
    <2>1. Fail(link, latchedNow, deferred)
      BY <1>4 DEF FinalError
    <2>2. link \in BOOLEAN /\ deferred \in BOOLEAN
      BY DEF IInv, ScheduleInv
    <2> HIDE DEF latchedNow
    <2>3. /\ DisplayInv' /\ CommandInv' /\ FailureHeld'
          /\ deferred' \in BOOLEAN /\ floor' \in BOOLEAN /\ forcePoll' \in BOOLEAN
          /\ owed' \in BOOLEAN
          /\ task' \in {"none", "created", "queued", "running"}
      BY <2>1, <2>2, FailKeeps
    <2> QED BY <1>4, <2>3
            DEF FinalError, IInv, ScheduleInv, lifecycleVars, authVars
  <1>5. CASE AuthenticationError
    <2> DEFINE latchedNow == authFails + 1 >= AuthLatch
    <2>1. authFails' \in 0..AuthLatch /\ authShown' \in {"none", "ok", "failed"}
      BY <1>5, AuthLatchAssumption
         DEF AuthenticationError, Latched, IInv, ScheduleInv
    <2>2. /\ fresh' = FALSE /\ UNCHANGED <<running, closing, link>>
          /\ ~PastFinalStage
          /\ stage \notin {"idle", "answered", "disconnecting", "backoff"}
          /\ ~answered /\ ~taken
      BY <1>5
         DEF AuthenticationError, AttemptFails, AttemptInFlight, PastFinalStage,
             lifecycleVars, IInv, CommandInv, ExchangeRecorded
    <2>3. CASE Fail(link, latchedNow, deferred)
      <3>1. link \in BOOLEAN /\ deferred \in BOOLEAN
        BY DEF IInv, ScheduleInv
      <3> HIDE DEF latchedNow
      <3>2. /\ DisplayInv' /\ CommandInv' /\ FailureHeld'
            /\ deferred' \in BOOLEAN /\ floor' \in BOOLEAN /\ forcePoll' \in BOOLEAN
            /\ owed' \in BOOLEAN
            /\ task' \in {"none", "created", "queued", "running"}
        BY <2>3, <3>1, FailKeeps
      <3> QED BY <2>1, <2>2, <3>2 DEF IInv, ScheduleInv
    <2>4. CASE /\ ~GivesUp /\ Backoff /\ EndAttempt
               /\ UNCHANGED <<displayVars, jamVars, scheduleVars>>
      <3>1. CommandInv' /\ progress' = NoProgress
        BY <2>2, <2>4, BackoffKeeps DEF Backoff, EndAttempt, IInv
      <3> QED BY <2>1, <2>2, <2>4, <3>1, DisplayUntouched, NoProgressTyped
              DEF IInv, ScheduleInv, scheduleVars, pollVars, FailureHeld
    <2> QED BY <1>5, <2>3, <2>4 DEF AuthenticationError
  <1>6. CASE HandleDisconnected
    <2> DEFINE armed == deferred \/ (link /\ ~link' /\ Reconnects)
               latchedNow == Latched
    <2>1. /\ armed \in BOOLEAN /\ ~PastFinalStage /\ ~answered /\ ~taken
          /\ progress = NoProgress /\ windowOpen = FALSE
          /\ failed => holder = "operation"
      BY <1>6
         DEF HandleDisconnected, Reconnects, PastFinalStage, NoProgress, IInv,
             ScheduleInv, CommandInv, StagesOf, ExchangeRecorded, AttemptsCounted,
             WindowOnlyDuringExchange
    <2>2. link' \in BOOLEAN /\ fresh' \in BOOLEAN /\ UNCHANGED <<lifecycleVars, authVars>>
      BY <1>6 DEF HandleDisconnected, linkVars, IInv, ScheduleInv
    <2>3. \/ Fail(link', latchedNow, armed)
          \/ /\ ~GivesUp /\ Backoff /\ deferred' = armed
             /\ UNCHANGED <<displayVars, jamVars, floor, pollVars, windowOpen,
                            failed, progress>>
      BY <1>6 DEF HandleDisconnected
    <2> HIDE DEF armed, latchedNow
    <2>4. CASE Fail(link', latchedNow, armed)
      <3>1. /\ DisplayInv' /\ CommandInv' /\ FailureHeld'
            /\ deferred' \in BOOLEAN /\ floor' \in BOOLEAN /\ forcePoll' \in BOOLEAN
            /\ owed' \in BOOLEAN
            /\ task' \in {"none", "created", "queued", "running"}
        BY <2>1, <2>2, <2>4, FailKeeps
      <3> QED BY <2>2, <3>1 DEF IInv, ScheduleInv, lifecycleVars, authVars
    <2>5. CASE /\ ~GivesUp /\ Backoff /\ deferred' = armed
               /\ UNCHANGED <<displayVars, jamVars, floor, pollVars, windowOpen,
                              failed, progress>>
      <3>1. CommandInv'
        BY <1>6, <2>1, <2>5, BackoffKeeps
           DEF HandleDisconnected, Backoff, IInv, CommandInv
      <3> QED BY <2>1, <2>2, <2>5, <3>1, DisplayUntouched, NoProgressTyped
              DEF IInv, ScheduleInv, lifecycleVars, authVars, pollVars, FailureHeld
    <2> QED BY <2>3, <2>4, <2>5
  <1>7. CASE Retry
    <2> DEFINE latchedNow == Latched
    <2>1. CASE Fail(link, latchedNow, deferred) /\ UNCHANGED linkVars
      <3>1. link \in BOOLEAN /\ deferred \in BOOLEAN
        BY DEF IInv, ScheduleInv
      <3> HIDE DEF latchedNow
      <3>2. /\ DisplayInv' /\ CommandInv' /\ FailureHeld'
            /\ deferred' \in BOOLEAN /\ floor' \in BOOLEAN /\ forcePoll' \in BOOLEAN
            /\ owed' \in BOOLEAN
            /\ task' \in {"none", "created", "queued", "running"}
        BY <2>1, <3>1, FailKeeps
      <3> QED BY <1>7, <2>1, <3>2
              DEF Retry, IInv, ScheduleInv, lifecycleVars, linkVars, authVars
    <2>2. stage = "backoff" /\ attempt + 1 \in 0..(Attempts - 1) /\ attempt <= attempt + 1
      BY <1>7, AttemptsAssumption DEF Retry, IInv, CommandInv, AttemptsCounted
    <2>3. CASE Connected(NextAttempt, seen) /\ UNCHANGED linkVars
      <3>1. Connected(attempt + 1, seen) /\ seen \in BOOLEAN
        BY <2>3 DEF NextAttempt, IInv, DisplayInv
      <3>2. /\ DisplayInv' /\ CommandInv' /\ FailureHeld'
            /\ deferred' \in BOOLEAN /\ floor' \in BOOLEAN /\ forcePoll' \in BOOLEAN
            /\ owed' \in BOOLEAN
            /\ task' \in {"none", "created", "queued", "running"}
        BY <2>2, <3>1, ConnectedKeeps
      <3> QED BY <1>7, <2>3, <3>2
              DEF Retry, IInv, ScheduleInv, lifecycleVars, linkVars, authVars
    <2>4. CASE /\ stage' = "connecting" /\ attempt' = NextAttempt
               /\ UNCHANGED <<displayVars, jamVars, scheduleVars, holder, op,
                              exchangeVars, linkVars>>
      <3>1. ScheduleInv' /\ DisplayInv'
        BY <1>7, <2>4, ScheduleUntouched, DisplayUntouched DEF Retry, IInv
      <3>2. /\ ~answered /\ ~taken /\ progress = NoProgress /\ windowOpen = FALSE
            /\ op = "unlatch" => writes = 0
        BY <2>2 DEF IInv, CommandInv, WindowOnlyDuringExchange, ExchangeRecorded,
                    AttemptsCounted
      <3>3. WindowOnlyDuringExchange' /\ StagesOf' /\ ExchangeRecorded'
        BY <2>2, <2>4, <3>2
           DEF IInv, CommandInv, WindowOnlyDuringExchange, StagesOf,
               ExchangeRecorded, exchangeVars
      <3>4. AttemptsCounted'
        BY <2>2, <2>4, <3>2, AttemptsAssumption
           DEF NextAttempt, IInv, CommandInv, AttemptsCounted, exchangeVars
      <3>5. CommandInv'
        BY <2>2, <2>4, <3>3, <3>4
           DEF NextAttempt, IInv, CommandInv, Stages, exchangeVars
      <3> QED BY <2>4, <3>1, <3>2, <3>5, NoProgressTyped
              DEF IInv, FailureHeld, exchangeVars
    <2> QED BY <1>7, <2>1, <2>3, <2>4 DEF Retry
  <1>8. CASE Cancelled
    <2> DEFINE armed == deferred \/ (link /\ ~link' /\ Reconnects)
               latchedNow == Latched
    <2>1. /\ link' \in BOOLEAN /\ fresh' = FALSE /\ armed \in BOOLEAN
          /\ UNCHANGED <<lifecycleVars, authVars>>
      BY <1>8 DEF Cancelled, Reconnects, IInv, ScheduleInv
    <2>2. \/ FinalizeOperation(FALSE, link', seen)
          \/ Fail(link', latchedNow, armed)
      BY <1>8 DEF Cancelled
    <2> HIDE DEF armed, latchedNow
    <2>3. /\ DisplayInv' /\ CommandInv' /\ FailureHeld'
          /\ deferred' \in BOOLEAN /\ floor' \in BOOLEAN /\ forcePoll' \in BOOLEAN
          /\ owed' \in BOOLEAN
          /\ task' \in {"none", "created", "queued", "running"}
      <3>1. CASE FinalizeOperation(FALSE, link', seen)
        BY <2>1, <3>1, FinalizeKeeps DEF IInv, DisplayInv, ScheduleInv
      <3>2. CASE Fail(link', latchedNow, armed)
        BY <2>1, <3>2, FailKeeps
      <3> QED BY <2>2, <3>1, <3>2
    <2> QED BY <2>1, <2>3 DEF IInv, ScheduleInv, lifecycleVars, authVars
  <1> QED BY <1>1, <1>2, <1>3, <1>4, <1>5, <1>6, <1>7, <1>8 DEF AttemptStep

\* A cycle that waits, reads or ends leaves the exchange of a command empty.
LEMMA CycleStageKeeps ==
    ASSUME CommandInv, holder = "cycle", stage \notin {"writing", "waiting"},
           stage' \in {"reading", "polling", "answered"},
           UNCHANGED <<attemptVars, exchangeVars>>
    PROVE  CommandInv' /\ progress' = progress
  BY DEF CommandInv, WindowOnlyDuringExchange, StagesOf, ExchangeRecorded,
         AttemptsCounted, Stages, attemptVars, exchangeVars

\* Work that takes the free operation lock starts from a clean slate.
LEMMA TakeLockKeeps ==
    ASSUME CommandInv, holder = "none", holder' \in {"keycode", "cycle"},
           \/ stage' = "connecting"
           \/ holder' = "keycode" /\ stage' = "commanding"
           \/ holder' = "cycle" /\ stage' = "reading",
           UNCHANGED <<attempt, op, exchangeVars>>
    PROVE  CommandInv' /\ progress' = progress
  <1>1. /\ attempt = 0 /\ writes = 0 /\ ~answered /\ ~taken /\ progress = NoProgress
        /\ windowOpen = FALSE /\ failed = FALSE
    BY AttemptsAssumption
       DEF CommandInv, WindowOnlyDuringExchange, StagesOf, ExchangeRecorded,
           AttemptsCounted
  <1>2. WindowOnlyDuringExchange' /\ StagesOf' /\ ExchangeRecorded'
    BY <1>1, NoProgressTyped
       DEF WindowOnlyDuringExchange, StagesOf, ExchangeRecorded, exchangeVars
  <1>3. AttemptsCounted'
    BY <1>1, ZeroAttempts DEF AttemptsCounted, exchangeVars
  <1> QED BY <1>2, <1>3 DEF CommandInv, Holders, Stages, exchangeVars

\* A frame that is admitted while no answer is awaited.
LEMMA FrameKeeps ==
    ASSUME IInv, NEW s \in LockStatus, Admit(s), UNCHANGED progress
    PROVE  DisplayInv' /\ FailureHeld'
  BY AdmitKeeps DEF IInv, FailureHeld

\* The steps of the update cycle keep it.
LEMMA UpdateStepKeeps ==
    ASSUME IInv, UpdateStep
    PROVE  IInv'
  <1>1. CASE DeferredUpdate
    BY <1>1, DisplayUntouched, CommandUntouched
       DEF DeferredUpdate, IInv, ScheduleInv, FailureHeld, lifecycleVars,
           linkVars, authVars
  <1>2. CASE ExecuteDeferredUpdate
    BY <1>2, DisplayUntouched, CommandUntouched
       DEF ExecuteDeferredUpdate, IInv, ScheduleInv, FailureHeld, lifecycleVars,
           linkVars, authVars
  <1>3. CASE AcquireForUpdate
    <2>1. DisplayInv' /\ holdLive' = holdLive
      BY <1>3, DisplayUntouched DEF AcquireForUpdate, IInv
    <2>2. ScheduleInv'
      BY <1>3 DEF AcquireForUpdate, YieldToFloor, IInv, ScheduleInv,
                  lifecycleVars, linkVars, authVars
    <2>3. CommandInv' /\ progress' = progress
      <3>1. CASE floor
        BY <1>3, <3>1, CommandUntouched
           DEF AcquireForUpdate, IInv, commandVars, attemptVars
      <3>2. CASE ~floor
        BY <1>3, <3>2, TakeLockKeeps DEF AcquireForUpdate, IInv
      <3> QED BY <3>1, <3>2
    <2> QED BY <2>1, <2>2, <2>3 DEF IInv, FailureHeld
  <1>4. CASE ReadOthers
    <2>1. DisplayInv' /\ holdLive' = holdLive
      BY <1>4, DisplayUntouched DEF ReadOthers, IInv
    <2>2. /\ UNCHANGED <<lifecycleVars, link>> /\ fresh' \in BOOLEAN
          /\ authFails' \in 0..AuthLatch /\ authShown' \in {"none", "ok", "failed"}
      <3>1. UNCHANGED <<lifecycleVars, link>>
        BY <1>4 DEF ReadOthers
      <3>2. \/ RecordAuthSuccess /\ fresh' = FALSE
            \/ UNCHANGED <<fresh, authVars>>
        BY <1>4 DEF ReadOthers
      <3>3. 0 \in 0..AuthLatch
        BY AuthLatchAssumption
      <3>4. CASE RecordAuthSuccess /\ fresh' = FALSE
        BY <3>1, <3>3, <3>4 DEF RecordAuthSuccess
      <3>5. CASE UNCHANGED <<fresh, authVars>>
        BY <3>1, <3>5 DEF authVars, IInv, ScheduleInv
      <3> QED BY <3>2, <3>4, <3>5
    <2>3. \/ /\ stage' = "polling"
             /\ UNCHANGED <<scheduleVars, attemptVars, exchangeVars>>
          \/ EndCycle(link, FALSE, deferred) /\ UNCHANGED forcePoll
      BY <1>4 DEF ReadOthers
    <2>4. CASE /\ stage' = "polling"
               /\ UNCHANGED <<scheduleVars, attemptVars, exchangeVars>>
      <3>1. stage = "reading" /\ holder = "cycle"
        BY <1>4 DEF ReadOthers, IInv, CommandInv, StagesOf
      <3>2. CommandInv' /\ progress' = progress
        BY <2>4, <3>1, CycleStageKeeps DEF IInv
      <3> QED BY <2>1, <2>2, <2>4, <3>2
              DEF IInv, ScheduleInv, FailureHeld, lifecycleVars, scheduleVars,
                  pollVars
    <2>5. CASE EndCycle(link, FALSE, deferred) /\ UNCHANGED forcePoll
      BY <2>1, <2>2, <2>5, EndCycleKeeps
         DEF IInv, ScheduleInv, FailureHeld, lifecycleVars
    <2> QED BY <2>3, <2>4, <2>5
  <1>5. ASSUME NEW s \in Reports, PollAnswered(s)
        PROVE  IInv'
    <2>1. stage = "polling" /\ holder = "cycle"
      BY <1>5 DEF PollAnswered, IInv, CommandInv, StagesOf
    <2>2. CommandInv' /\ progress' = progress
      BY <1>5, <2>1, CycleStageKeeps DEF PollAnswered, IInv
    <2>3. DisplayInv' /\ FailureHeld'
      BY <1>5, <2>2, FrameKeeps, ReportsAssumption DEF PollAnswered
    <2> QED BY <1>5, <2>2, <2>3
            DEF PollAnswered, IInv, ScheduleInv, lifecycleVars, pollVars, linkVars,
                authVars
  <1>6. CASE FinishUpdate
    <2>1. DisplayInv' /\ holdLive' = holdLive
      BY <1>6, DisplayUntouched DEF FinishUpdate, IInv
    <2>2. authFails' \in 0..AuthLatch /\ authShown' \in {"none", "ok", "failed"}
      BY <1>6, AuthLatchAssumption DEF FinishUpdate, RecordAuthSuccess
    <2>3. EndCycle(link, FALSE, deferred)
      BY <1>6 DEF FinishUpdate
    <2> QED BY <1>6, <2>1, <2>2, <2>3, EndCycleKeeps
            DEF FinishUpdate, IInv, ScheduleInv, FailureHeld, lifecycleVars
  <1>7. CASE RequestUpdate
    BY <1>7, DisplayUntouched, CommandUntouched
       DEF RequestUpdate, IInv, ScheduleInv, FailureHeld, lifecycleVars, pollVars,
           linkVars, authVars
  <1>8. CASE Validate
    <2>1. CommandInv' /\ progress' = progress
      BY <1>8, TakeLockKeeps DEF Validate, IInv
    <2> QED BY <1>8, <2>1, DisplayUntouched, ScheduleUntouched
            DEF Validate, IInv, FailureHeld
  <1> QED BY <1>1, <1>2, <1>3, <1>4, <1>5, <1>6, <1>7, <1>8 DEF UpdateStep

\* The steps of a keypad command keep it.
LEMMA KeycodeStepKeeps ==
    ASSUME IInv, KeycodeStep
    PROVE  IInv'
  <1>1. CASE RunOnLock
    <2>1. CommandInv' /\ progress' = progress
      BY <1>1, TakeLockKeeps DEF RunOnLock, IInv
    <2> QED BY <1>1, <2>1, DisplayUntouched
            DEF RunOnLock, IInv, ScheduleInv, FailureHeld, lifecycleVars, pollVars,
                linkVars, authVars
  <1>2. CASE KeycodeReturns
    BY <1>2, ReleaseKeeps, DisplayUntouched
       DEF KeycodeReturns, EndKeycode, IInv, ScheduleInv, FailureHeld,
           lifecycleVars, pollVars, authVars
  <1>3. CASE SetAutoLock
    BY <1>3, CommandUntouched, DisplayUntouched
       DEF SetAutoLock, IInv, ScheduleInv, FailureHeld, lifecycleVars, pollVars, linkVars,
           authVars
  <1> QED BY <1>1, <1>2, <1>3 DEF KeycodeStep

\* Frames nobody asked for keep it.
LEMMA FrameStepKeeps ==
    ASSUME IInv, FrameStep
    PROVE  IInv'
  <1>1. ASSUME NEW s \in Reports, StatusReport(s)
        PROVE  IInv'
    <2>1. CommandInv' /\ progress' = progress
      BY <1>1, CommandUntouched DEF StatusReport, IInv
    <2>2. DisplayInv' /\ FailureHeld'
      BY <1>1, <2>1, FrameKeeps, ReportsAssumption DEF StatusReport
    <2> QED BY <1>1, <2>1, <2>2
            DEF StatusReport, IInv, ScheduleInv, lifecycleVars, pollVars, linkVars,
                authVars
  <1>2. ASSUME NEW ok \in BOOLEAN, ForeignOperationResponse(ok)
        PROVE  IInv'
    <2>1. CommandInv' /\ progress' = progress
      BY <1>2, CommandUntouched DEF ForeignOperationResponse, IInv
    <2>2. DisplayInv' /\ FailureHeld'
      <3>1. CASE UNCHANGED <<displayVars, jamVars>>
        BY <2>1, <3>1, DisplayUntouched DEF IInv, FailureHeld
      <3>2. CASE Admit("JAMMED")
        BY <2>1, <3>2, FrameKeeps DEF LockStatus
      <3> QED BY <1>2, <3>1, <3>2 DEF ForeignOperationResponse
    <2> QED BY <1>2, <2>1, <2>2
            DEF ForeignOperationResponse, IInv, ScheduleInv, lifecycleVars,
                pollVars, linkVars, authVars
  <1> QED BY <1>1, <1>2 DEF FrameStep

\* Deadlines that lapse keep it.
LEMMA TimerStepKeeps ==
    ASSUME IInv, TimerStep
    PROVE  IInv'
  <1>1. CommandInv' /\ progress' = progress
    BY CommandUntouched
       DEF TimerStep, JamHoldEnded, HoldDeadlinePasses, FloorLapses, JamAges, IInv
  <1>2. ScheduleInv'
    BY DEF TimerStep, JamHoldEnded, HoldDeadlinePasses, FloorLapses, JamAges,
           IInv, ScheduleInv, lifecycleVars, scheduleVars, pollVars, linkVars,
           authVars
  <1>3. DisplayInv' /\ FailureHeld'
    <2>1. CASE JamHoldEnded
      BY <1>1, <2>1
         DEF JamHoldEnded, IInv, DisplayInv, FailureHeld, displayVars,
             HoldShowsAttention, HoldEndsInAPoll, SeenMeansSettled, Settled,
             NeedsAttention
    <2>2. CASE HoldDeadlinePasses
      BY <1>1, <2>2
         DEF HoldDeadlinePasses, IInv, DisplayInv, FailureHeld, displayVars,
             HoldShowsAttention, HoldEndsInAPoll, SeenMeansSettled, Settled
    <2>3. CASE FloorLapses
      BY <1>1, <2>3, DisplayUntouched DEF FloorLapses, IInv, FailureHeld
    <2>4. CASE JamAges
      BY <1>1, <2>4
         DEF JamAges, IInv, DisplayInv, FailureHeld, displayVars,
             HoldShowsAttention, HoldEndsInAPoll, SeenMeansSettled, Settled,
             NeedsAttention
    <2> QED BY <2>1, <2>2, <2>3, <2>4 DEF TimerStep
  <1> QED BY <1>1, <1>2, <1>3 DEF IInv

\* Disconnects, stops, teardowns and starts keep it.
LEMMA LifecycleStepKeeps ==
    ASSUME IInv, LifecycleStep
    PROVE  IInv'
  <1>1. CASE LinkDrops
    BY <1>1, DisplayUntouched, CommandUntouched
       DEF LinkDrops, Reconnects, IInv, ScheduleInv, FailureHeld, lifecycleVars,
           pollVars, authVars
  <1>2. CASE Stop
    <2>1. CommandInv' /\ progress' = progress
      BY <1>2, CommandUntouched DEF Stop, IInv
    <2>2. ScheduleInv'
      BY <1>2 DEF Stop, IInv, ScheduleInv, linkVars, authVars
    <2>3. CASE holder = "operation"
      BY <1>2, <2>1, <2>2, <2>3
         DEF Stop, IInv, DisplayInv, FailureHeld, displayVars, HoldShowsAttention,
             HoldEndsInAPoll, SeenMeansSettled, Settled, NeedsAttention
    <2>4. CASE holder # "operation"
      <3>1. DisplayInv'
        BY <1>2, <2>4
           DEF Stop, ForgetJam, ReleaseJamHold, IInv, DisplayInv, displayVars,
               HoldShowsAttention, HoldEndsInAPoll, SeenMeansSettled, Settled
      <3>2. progress = NoProgress
        BY <2>4 DEF IInv, CommandInv, StagesOf, ExchangeRecorded
      <3> QED BY <2>1, <2>2, <3>1, <3>2, NoProgressTyped DEF IInv, FailureHeld
    <2> QED BY <2>3, <2>4
  <1>3. CASE CancelUpdateTask
    <2>1. DisplayInv' /\ holdLive' = holdLive
      BY <1>3, DisplayUntouched DEF CancelUpdateTask, IInv
    <2>2. CASE task = "running"
      <3>1. CommandInv' /\ progress'.result = "none"
        BY <1>3, <2>2, ReleaseKeeps DEF CancelUpdateTask
      <3>2. deferred' \in BOOLEAN /\ link' \in BOOLEAN /\ fresh' = FALSE
        BY <1>3, <2>2 DEF CancelUpdateTask, IInv, ScheduleInv
      <3> QED BY <1>3, <2>1, <3>1, <3>2
              DEF CancelUpdateTask, IInv, ScheduleInv, FailureHeld, authVars
    <2>3. CASE task # "running"
      <3>1. CommandInv' /\ progress' = progress
        BY <1>3, <2>3, CommandUntouched DEF CancelUpdateTask, IInv
      <3> QED BY <1>3, <2>1, <2>3, <3>1
              DEF CancelUpdateTask, IInv, ScheduleInv, FailureHeld, linkVars,
                  authVars
    <2> QED BY <2>2, <2>3
  <1>4. CASE CloseLink
    BY <1>4, DisplayUntouched, CommandUntouched
       DEF CloseLink, Reconnects, IInv, ScheduleInv, FailureHeld, linkVars,
           pollVars, authVars
  <1>5. CASE Start
    <2>1. DisplayInv' /\ holdLive' = holdLive /\ CommandInv' /\ progress' = progress
      BY <1>5, DisplayUntouched, CommandUntouched DEF Start, IInv
    <2>2. deferred' = deferred \/ deferred' = TRUE
      BY <1>5 DEF Start
    <2> QED BY <1>5, <2>1, <2>2
            DEF Start, IInv, ScheduleInv, FailureHeld, linkVars, pollVars, authVars
  <1> QED BY <1>1, <1>2, <1>3, <1>4, <1>5 DEF LifecycleStep

\* The invariant is inductive.
LEMMA StepKeeps == IInv /\ [Next]_vars => IInv'
  <1> SUFFICES ASSUME IInv, [Next]_vars PROVE IInv'
    OBVIOUS
  <1>1. CASE UNCHANGED vars
    BY <1>1, DisplayUntouched, CommandUntouched, ScheduleUntouched
       DEF vars, IInv, FailureHeld
  <1>2. CASE Next
    BY <1>2, OperationStepKeeps, AttemptStepKeeps, UpdateStepKeeps,
       KeycodeStepKeeps, FrameStepKeeps, TimerStepKeeps, LifecycleStepKeeps
       DEF Next
  <1> QED BY <1>1, <1>2

\* The invariant holds in every state the object reaches.
THEOREM InvariantHolds == Spec => []IInv
  BY InitHolds, StepKeeps, PTL DEF Spec

-----------------------------------------------------------------------------
(* The properties of the model, for every value of the constants.            *)

\* Every variable keeps its type: the attempts stay below Attempts, and no
\* command is written more often than it has attempts.
THEOREM TypeCorrect == Spec => []TypeOK
  <1>1. IInv => TypeOK
    BY DEF IInv, DisplayInv, ScheduleInv, CommandInv, TypeOK
  <1> QED BY <1>1, InvariantHolds, PTL

\* A display that is held shows a status that needs attention, and the hold's
\* timer is armed, so that the hold ends in a poll.
THEOREM HoldIsSound == Spec => []HoldIsTheJams
  <1>1. IInv => HoldIsTheJams
    BY DEF IInv, DisplayInv, HoldIsTheJams
  <1> QED BY <1>1, InvariantHolds, PTL

\* An unsettled display never counts as read in this session.
THEOREM SeenIsSettled == Spec => []SeenMeansSettled
  <1>1. IInv => SeenMeansSettled
    BY DEF IInv, DisplayInv
  <1> QED BY <1>1, InvariantHolds, PTL

\* No exit, error, cancellation or stop leaves a command's window open.
THEOREM WindowIsClosed == Spec => []WindowOnlyDuringExchange
  <1>1. IInv => WindowOnlyDuringExchange
    BY DEF IInv, CommandInv
  <1> QED BY <1>1, InvariantHolds, PTL

\* A reported failure is on display from its frame until the command raises.
THEOREM FailureIsShown == Spec => []FailureIsOnDisplay
  <1>1. IInv => FailureIsOnDisplay
    BY DEF IInv, DisplayInv, FailureHeld, HoldShowsAttention, FailureIsOnDisplay
  <1> QED BY <1>1, InvariantHolds, PTL

-----------------------------------------------------------------------------
(* Properties of steps. *)

\* Only the write of a command counts as one; the count ends with the command.
LEMMA WritesCounted ==
    ASSUME [Next]_vars
    PROVE  WriteOperation \/ writes' = writes \/ holder' = "none"
  <1>1. ASSUME NEW up, NEW latchedNow, NEW armed, Fail(up, latchedNow, armed)
        PROVE  holder' = "none"
    BY <1>1 DEF Fail, FinalizeOperation, EndCycle, EndKeycode, ReleaseOperationLock
  <1>2. ASSUME NEW attemptNow, NEW seenNow, Connected(attemptNow, seenNow)
        PROVE  writes' = writes \/ holder' = "none"
    BY <1>2 DEF Connected, FinalizeOperation, ReleaseOperationLock, exchangeVars
  <1>3. CASE OperationStep
    BY <1>3 DEF OperationStep, RunLockOperation, RunLockOperationStopped,
                OperationWriteSuccess, Acknowledged, OperationResult,
                OperationReturns, FinalizeOperation, ReleaseOperationLock,
                commandVars, exchangeVars
  <1>4. CASE AttemptStep
    <2>1. CASE Handshake \/ RetryableError
      BY <2>1 DEF Handshake, RetryableError, exchangeVars
    <2>2. CASE EnsureConnectedReturns
      BY <1>2, <2>2 DEF EnsureConnectedReturns
    <2>3. CASE FinalError
      BY <1>1, <2>3 DEF FinalError
    <2>4. CASE AuthenticationError
      BY <1>1, <2>4 DEF AuthenticationError, Backoff
    <2>5. CASE HandleDisconnected
      BY <1>1, <2>5 DEF HandleDisconnected, Backoff
    <2>6. CASE Retry
      BY <1>1, <1>2, <2>6 DEF Retry, exchangeVars
    <2>7. CASE Cancelled
      BY <1>1, <2>7 DEF Cancelled, FinalizeOperation, ReleaseOperationLock
    <2> QED BY <1>4, <2>1, <2>2, <2>3, <2>4, <2>5, <2>6, <2>7 DEF AttemptStep
  <1>5. CASE UpdateStep \/ KeycodeStep
    BY <1>5 DEF UpdateStep, DeferredUpdate, ExecuteDeferredUpdate,
                AcquireForUpdate, YieldToFloor, ReadOthers, PollAnswered,
                FinishUpdate, RequestUpdate, Validate, KeycodeStep, RunOnLock, SetAutoLock,
                KeycodeReturns, EndCycle, EndKeycode, ReleaseOperationLock,
                commandVars, exchangeVars
  <1>6. CASE FrameStep \/ TimerStep
    BY <1>6 DEF FrameStep, StatusReport, ForeignOperationResponse, TimerStep,
                JamHoldEnded, HoldDeadlinePasses, FloorLapses, JamAges,
                commandVars, exchangeVars
  <1>7. CASE LifecycleStep
    BY <1>7 DEF LifecycleStep, LinkDrops, Stop, CancelUpdateTask, CloseLink, Start,
                ReleaseOperationLock, commandVars, exchangeVars
  <1>8. CASE UNCHANGED vars
    BY <1>8 DEF vars, commandVars, exchangeVars
  <1> QED BY <1>3, <1>4, <1>5, <1>6, <1>7, <1>8 DEF Next

\* A mechanical command is never written again once the lock acknowledged or
\* answered it in any attempt of the call, and an unlatch is written once.
THEOREM NotRepeated == Spec => CommandNotRepeated
  <1>1. ASSUME IInv, [Next]_vars, holder = "operation", holder' = "operation",
               taken \/ (op = "unlatch" /\ writes > 0)
        PROVE  writes' = writes
    <2>1. ~WriteOperation
      <3>1. SUFFICES ASSUME stage = "cooldown" PROVE FALSE
        BY DEF WriteOperation
      <3>2. ~taken /\ (op = "unlatch" => writes = 0)
        BY <1>1, <3>1 DEF IInv, CommandInv, ExchangeRecorded, AttemptsCounted
      <3> QED BY <1>1, <3>2
    <2> QED BY <1>1, <2>1, WritesCounted
  <1> QED BY <1>1, InvariantHolds, PTL DEF Spec, CommandNotRepeated

=============================================================================

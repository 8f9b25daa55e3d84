------------------------------ MODULE PushLock ------------------------------
(* The PushLock object of push.py: the operation lock and the three kinds   *)
(* of work that take it (a lock command, a keypad command, an update        *)
(* cycle), the retry wrapper they share, the display that commands and      *)
(* reports both write, the hold a reported jam puts on it, and the deferred *)
(* update that polls the lock once a command is over.                       *)
(*                                                                          *)
(* Deadlines are untimed: one that has been set lapses at any later moment. *)
(* The tasks of the event loop interleave at their awaits, so an action is  *)
(* one run of a handler or one stretch of a coroutine between two awaits.   *)
EXTENDS LockDisplay, Naturals, FiniteSets

CONSTANTS
    Operations,      \* the lock commands callers issue
    Reports,         \* the lock statuses the lock may report
    Attempts,        \* DEFAULT_ATTEMPTS of the retry wrapper
    AuthLatch,       \* AUTH_FAILURE_TO_START_REAUTH
    AlwaysConnected, \* whether the lock is kept connected
    Keycodes,        \* whether callers issue keypad commands and auto-lock writes
    Faults,          \* how an attempt may fail: "retryable", "auth", "final"
    Restarts         \* whether callers stop and restart the watcher

ASSUME OperationsAssumption == Operations \subseteq LockOperation
ASSUME ReportsAssumption == Reports \subseteq LockStatus
ASSUME AttemptsAssumption == Attempts \in Nat \ {0}
ASSUME AuthLatchAssumption == AuthLatch \in Nat \ {0}
ASSUME SwitchesAssumption ==
    /\ AlwaysConnected \in BOOLEAN /\ Keycodes \in BOOLEAN /\ Restarts \in BOOLEAN
    /\ Faults \subseteq {"retryable", "auth", "final"}

VARIABLES
    running,    \* _running
    closing,    \* the background forced disconnect of a stop: "no",
                \* "requested" until it runs, "closing" until the link is closed
    shown,      \* the lock and secure fields of _lock_state
    seen,       \* LockStatus \in _seen_this_session
    jamRecent,  \* a jam or setup condition was reported within
                \* JAMMED_PRECEDENCE_TIME of now
    precedes,   \* _jam_takes_precedence(), for the command in flight
    holdLive,   \* _jam_hold_live()
    jamTimer,   \* _jam_hold_timer is armed
    stale,      \* history: the last jam was reported before the last stop
    deferred,   \* _cancel_deferred_update is armed
    floor,      \* now < _earliest_update_time
    forcePoll,  \* _force_lock_status_poll
    task,       \* _update_task: "none", "created", "queued" on the operation
                \* lock, "running" its cycle
    owed,       \* history: a poll was promised and no cycle has begun since
    holder,     \* who holds _operation_lock; "operation" is _operation_in_flight
    stage,      \* where the holder's attempt is
    attempt,    \* attempts of the retry wrapper already used up
    op,         \* the lock command in flight
    windowOpen, \* _operation_window_open
    answered,   \* _operation_answered
    failed,     \* _operation_failure is not None
    progress,   \* OperationProgress of the attempt
    writes,     \* history: how often the command in flight was written
    taken,      \* history: the lock acknowledged or answered it, in any attempt
    link,       \* is_connected
    fresh,      \* Session._first_request
    authFails,  \* _AUTH_FAILURE_HISTORY, up to the latch
    authShown   \* the auth field of _lock_state: "none", "ok", "failed"

lifecycleVars == <<running, closing>>
displayVars == <<shown, seen>>
jamVars == <<jamRecent, precedes, holdLive, jamTimer, stale>>
pollVars == <<forcePoll, task, owed>>
scheduleVars == <<deferred, floor, pollVars>>
attemptVars == <<holder, attempt, op>>
exchangeVars == <<windowOpen, answered, failed, progress, writes, taken>>
commandVars == <<stage, attemptVars, exchangeVars>>
linkVars == <<link, fresh>>
authVars == <<authFails, authShown>>

vars == <<lifecycleVars, displayVars, jamVars, scheduleVars, commandVars,
          linkVars, authVars>>

Holders == {"none", "operation", "keycode", "cycle"}

Stages ==
    {"idle", "connecting", "handshaken", "cooldown", "writing", "waiting",
     "commanding", "reading", "polling", "answered", "disconnecting", "backoff"}

Progress == [written : BOOLEAN, acked : BOOLEAN, result : {"none", "ok", "fail"}]

NoProgress == [written |-> FALSE, acked |-> FALSE, result |-> "none"]

Init ==
    /\ running = TRUE /\ closing = "no"
    /\ shown = UnknownDisplay /\ seen = FALSE
    /\ jamRecent = FALSE /\ precedes = FALSE /\ holdLive = FALSE /\ jamTimer = FALSE
    /\ stale = FALSE
    /\ deferred \in BOOLEAN  \* armed if the scanner already knows the device
    /\ floor = FALSE /\ forcePoll = FALSE /\ task = "none" /\ owed = FALSE
    /\ holder = "none" /\ stage = "idle" /\ attempt = 0 /\ op = "none"
    /\ windowOpen = FALSE /\ answered = FALSE /\ failed = FALSE
    /\ progress = NoProgress /\ writes = 0 /\ taken = FALSE
    /\ link = FALSE /\ fresh = FALSE
    /\ authFails = 0 /\ authShown = "none"

-----------------------------------------------------------------------------
(* What a reported status does to the display. *)

Latched == authFails >= AuthLatch

UpdateInFlight == task # "none"

\* Slip: an unsettled display leaves LockStatus in _seen_this_session.
Show_KeepsSeen(d) ==
    /\ shown' = d
    /\ seen' = (seen \/ Settled(d))

Show(d) ==
    /\ shown' = d
    /\ seen' = Settled(d)

\* Slip: the timer is cancelled and the deadline left standing.
ReleaseJamHold_TimerOnly ==
    /\ UNCHANGED holdLive
    /\ jamTimer' = FALSE

ReleaseJamHold ==
    /\ holdLive' = FALSE
    /\ jamTimer' = FALSE

\* Slip: the stopped exit forgets to reset the jam state.
ForgetJam_Skipped == UNCHANGED <<jamRecent, holdLive, jamTimer, stale>>

\* _reset_jam_state.
ForgetJam ==
    /\ ReleaseJamHold
    /\ jamRecent' = FALSE
    /\ stale' = FALSE

AttentionHoldsDisplay(windowLive) == windowLive /\ NeedsAttention(shown)

\* Slip: a report during our command does not extend the hold.
HoldsAnew_OnTransition == ~NeedsAttention(shown)

\* Arm the hold on the transition, or on any report during a command of ours.
HoldsAnew == ~NeedsAttention(shown) \/ holder = "operation"

AdmitAttention(s) ==
    /\ s \in ManualIntervention
    /\ jamRecent' = TRUE
    /\ precedes' = (holder = "operation")
    /\ stale' = FALSE
    /\ holdLive' = (holdLive \/ HoldsAnew)
    /\ jamTimer' = (jamTimer \/ HoldsAnew)
    /\ Show(ProjectLockStatus(s, shown))

Refused == windowOpen \/ AttentionHoldsDisplay(holdLive)

AdmitPosition(s) ==
    /\ s \notin ManualIntervention
    /\ UNCHANGED jamVars
    /\ IF Refused
       THEN seen' = FALSE /\ UNCHANGED shown
       ELSE Show(ProjectLockStatus(s, shown))

\* _update_any_state for a LockStatus; the floor is moved by the caller.
Admit(s) == AdmitAttention(s) \/ AdmitPosition(s)

\* A stop's background task runs in the next turn of the loop: nothing that
\* waits for a deadline comes in between.
TimePasses == closing # "requested"

-----------------------------------------------------------------------------
(* Ends of the work done under the operation lock. *)

ReleaseOperationLock ==
    /\ holder' = "none" /\ stage' = "idle" /\ attempt' = 0 /\ op' = "none"
    /\ windowOpen' = FALSE /\ answered' = FALSE /\ failed' = FALSE
    /\ progress' = NoProgress /\ writes' = 0 /\ taken' = FALSE

\* Slip: only the display hold is asked, not the jam's precedence.
OutcomeShown_HoldOnly(incomplete) ==
    incomplete /\ ~answered /\ ~AttentionHoldsDisplay(holdLive)

\* Whether the exit displays UNKNOWN: no op-response decided the display, and no
\* jam keeps it.
OutcomeShown(incomplete) ==
    incomplete /\ ~answered /\ ~AttentionHoldsDisplay(precedes \/ holdLive)

\* Slip: only the reconnect is armed.
ArmsExitPoll_ReconnectOnly(up) == AlwaysConnected /\ ~up

\* The exit arms the next poll, unless a live hold polls at its own end; a
\* dropped link's reconnect is armed regardless.
ArmsExitPoll(up) == (AlwaysConnected /\ ~up) \/ ~holdLive

\* _finalize_operation. incomplete: the command ended in an exception, so its
\* outcome is UNKNOWN; up: whether the link is up; seenNow: seen before the exit.
FinalizeOperation(incomplete, up, seenNow) ==
    /\ ReleaseOperationLock
    /\ precedes' = FALSE
    /\ forcePoll' = TRUE
    /\ floor' = TRUE
    /\ UNCHANGED task
    /\ IF running
       THEN /\ IF OutcomeShown(incomplete)
               THEN Show(ProjectLockStatus("UNKNOWN", shown))
               ELSE seen' = seenNow /\ UNCHANGED shown
            /\ deferred' = ArmsExitPoll(up)
            /\ owed' = TRUE
            /\ UNCHANGED <<jamRecent, holdLive, jamTimer, stale>>
       ELSE /\ ForgetJam
            /\ seen' = seenNow
            /\ UNCHANGED <<shown, deferred, owed>>

\* Slip: the end of a cycle leaves the reconnect to the disconnect callback.
EndCycle_NoReconnect(up, latchedNow, armed) ==
    /\ ReleaseOperationLock
    /\ task' = IF task = "running" THEN "none" ELSE task
    /\ deferred' = armed
    /\ UNCHANGED <<floor, owed>>

\* The finally of _execute_deferred_update: the disconnect callback stood down
\* while the cycle ran. validate() has no such exit. armed: deferred before it.
EndCycle(up, latchedNow, armed) ==
    /\ ReleaseOperationLock
    /\ task' = IF task = "running" THEN "none" ELSE task
    /\ deferred' = (armed \/ (/\ task = "running" /\ ~up
                              /\ running /\ AlwaysConnected /\ ~latchedNow))
    /\ UNCHANGED <<floor, owed>>

EndKeycode(armed) ==
    /\ ReleaseOperationLock
    /\ deferred' = armed
    /\ UNCHANGED <<floor, pollVars>>

\* An exception leaves the retry wrapper.
Fail(up, latchedNow, armed) ==
    \/ /\ holder = "operation"
       /\ FinalizeOperation(TRUE, up, seen)
    \/ /\ holder = "cycle"
       /\ EndCycle(up, latchedNow, armed)
       /\ UNCHANGED <<displayVars, jamVars, forcePoll>>
    \/ /\ holder = "keycode"
       /\ EndKeycode(armed)
       /\ UNCHANGED <<displayVars, jamVars>>

-----------------------------------------------------------------------------
(* One attempt: connect, then the command's own exchange. *)

\* Slip: the check after the reconnect is dropped.
RefusesRetry_Never == FALSE

\* _end_a_retry_under_precedence, for a command that has a failed attempt.
RefusesRetry == failed /\ precedes

\* The code after _ensure_connected() returns: a command opens its window,
\* unless a jam reported since its failed attempt takes precedence.
Connected(attemptNow, seenNow) ==
    \/ /\ holder = "operation" /\ ~RefusesRetry
       /\ windowOpen' = TRUE
       /\ stage' = "cooldown"
       /\ deferred' = FALSE
       /\ attempt' = attemptNow
       /\ seen' = seenNow
       /\ UNCHANGED <<shown, jamVars, floor, pollVars, holder, op, answered,
                      failed, progress, writes, taken>>
    \/ /\ holder = "operation" /\ RefusesRetry
       /\ FinalizeOperation(TRUE, TRUE, seenNow)
    \/ /\ holder = "keycode"
       /\ stage' = "commanding"
       /\ deferred' = FALSE
       /\ attempt' = attemptNow
       /\ seen' = seenNow
       /\ UNCHANGED <<shown, jamVars, floor, pollVars, holder, op, exchangeVars>>
    \/ /\ holder = "cycle"
       /\ stage' = "reading"
       /\ attempt' = attemptNow
       /\ seen' = seenNow
       /\ UNCHANGED <<shown, jamVars, scheduleVars, holder, op, exchangeVars>>

\* _run_lock_operation up to the first await.
RunLockOperation(o) ==
    /\ holder = "none" /\ running
    /\ holder' = "operation" /\ op' = o
    /\ stage' = IF link THEN "cooldown" ELSE "connecting"
    /\ windowOpen' = link
    /\ deferred' = FALSE
    /\ precedes' = jamRecent
    /\ UNCHANGED <<lifecycleVars, displayVars, jamRecent, holdLive, jamTimer,
                   stale, floor, pollVars, attempt, answered, failed, progress,
                   writes, taken, linkVars, authVars>>

\* The same call on a stopped watcher raises, but the exit still runs.
RunLockOperationStopped ==
    /\ holder = "none" /\ ~running /\ Operations # {}
    /\ deferred' = FALSE
    /\ forcePoll' = TRUE
    /\ floor' = TRUE
    /\ ForgetJam
    /\ UNCHANGED <<lifecycleVars, displayVars, precedes, task, owed, commandVars,
                   linkVars, authVars>>

RunOnLock ==
    /\ Keycodes /\ holder = "none" /\ running
    /\ holder' = "keycode"
    /\ stage' = IF link THEN "commanding" ELSE "connecting"
    /\ deferred' = (deferred /\ ~link)
    /\ UNCHANGED <<lifecycleVars, displayVars, jamVars, floor, pollVars, attempt,
                   op, exchangeVars, linkVars, authVars>>

\* An auto-lock write takes no operation lock: it gets the link, drops the pending
\* update, and is answered or not; how one ends is in AutoLock.
SetAutoLock ==
    /\ Keycodes /\ running /\ link
    /\ deferred' = FALSE
    /\ fresh' \in {fresh, FALSE}
    /\ UNCHANGED <<lifecycleVars, displayVars, jamVars, floor, pollVars, commandVars,
                   link, authVars>>

\* validate() runs a cycle without an update task and outside the floor.
Validate ==
    /\ holder = "none"
    /\ holder' = "cycle"
    /\ stage' = IF link THEN "reading" ELSE "connecting"
    /\ UNCHANGED <<lifecycleVars, displayVars, jamVars, scheduleVars, attempt, op,
                   exchangeVars, linkVars, authVars>>

\* Lock.connect has started notifications: frames arrive from here on.
Handshake ==
    /\ stage = "connecting"
    /\ stage' = "handshaken"
    /\ link' = TRUE
    /\ fresh' = TRUE
    /\ UNCHANGED <<lifecycleVars, displayVars, jamVars, scheduleVars, attemptVars,
                   exchangeVars, authVars>>

EnsureConnectedReturns ==
    /\ stage = "handshaken" /\ link
    /\ Connected(attempt, FALSE)
    /\ UNCHANGED <<lifecycleVars, linkVars, authVars>>

\* The cooldown is over and the command is handed to the GATT write.
WriteOperation ==
    /\ stage = "cooldown" /\ link
    /\ stage' = "writing"
    /\ progress' = [NoProgress EXCEPT !.written = TRUE]
    /\ writes' = writes + 1
    /\ UNCHANGED <<lifecycleVars, displayVars, jamVars, scheduleVars, attemptVars,
                   windowOpen, answered, failed, taken, linkVars, authVars>>

\* Slip: the write's return overwrites an answer that came first.
WriteDisplays_Always == ~AttentionHoldsDisplay(precedes)

WriteDisplays == ~answered /\ ~AttentionHoldsDisplay(precedes)

\* _operation_write_success, once the write has returned.
OperationWriteSuccess ==
    /\ stage = "writing" /\ link
    /\ stage' = "waiting"
    /\ IF WriteDisplays
       THEN /\ ReleaseJamHold
            /\ Show(Pending(op, shown))
            /\ UNCHANGED <<jamRecent, precedes, stale>>
       ELSE UNCHANGED <<displayVars, jamVars>>
    /\ UNCHANGED <<lifecycleVars, scheduleVars, attemptVars, exchangeVars,
                   linkVars, authVars>>

\* The acknowledgment frame, which carries no state.
Acknowledged ==
    /\ stage \in {"writing", "waiting"} /\ link /\ ~progress.acked
    /\ progress' = [progress EXCEPT !.acked = TRUE]
    /\ taken' = TRUE
    /\ UNCHANGED <<lifecycleVars, displayVars, jamVars, scheduleVars, stage,
                   attemptVars, windowOpen, answered, failed, writes, linkVars,
                   authVars>>

\* The awaited op-response: _parse_state, then _operation_result, on one frame.
OperationResult(ok) ==
    /\ stage \in {"writing", "waiting"} /\ link /\ progress.result = "none"
    /\ progress' = [progress EXCEPT !.result = IF ok THEN "ok" ELSE "fail"]
    /\ answered' = TRUE /\ taken' = TRUE
    /\ windowOpen' = FALSE
    /\ floor' = TRUE
    /\ \/ ~ok /\ Admit("JAMMED")
       \/ /\ ok /\ running /\ ~AttentionHoldsDisplay(precedes)
          /\ ReleaseJamHold
          /\ Show(ProjectLockStatus(Complete(op), shown))
          /\ UNCHANGED <<jamRecent, precedes, stale>>
       \/ /\ ok /\ (~running \/ AttentionHoldsDisplay(precedes))
          /\ UNCHANGED <<displayVars, jamVars>>
    /\ UNCHANGED <<lifecycleVars, deferred, pollVars, stage, attemptVars, failed,
                   writes, linkVars, authVars>>

\* The staged wait returns its op-response: a success returns, a failure raises.
OperationReturns ==
    /\ stage \in {"writing", "waiting"} /\ progress.result # "none"
    /\ fresh' = FALSE
    /\ FinalizeOperation(progress.result = "fail", link, seen)
    /\ UNCHANGED <<lifecycleVars, link, authVars>>

KeycodeReturns ==
    /\ stage = "commanding" /\ link
    /\ fresh' = FALSE
    /\ EndKeycode(deferred)
    /\ UNCHANGED <<lifecycleVars, displayVars, jamVars, link, authVars>>

-----------------------------------------------------------------------------
(* An attempt that fails, and the retry wrapper. *)

\* _schedule_reconnect from the disconnect callback, which stands down while an
\* update task is in flight.
Reconnects == running /\ AlwaysConnected /\ ~UpdateInFlight /\ ~Latched

\* Slip: only an unlatch has a final stage.
PastFinalStage_UnlatchOnly == op = "unlatch" /\ progress.written

\* OperationProgress.final_stage: past it a failure is not retried.
PastFinalStage == progress.acked \/ (op = "unlatch" /\ progress.written)

AttemptInFlight == stage \notin {"idle", "answered", "disconnecting", "backoff"}

\* Slip: the recorded op-response is not looked at.
AttemptFails_IgnoresResult(kind) ==
    /\ kind \in Faults
    /\ AttemptInFlight

\* An op-response already recorded wins over whatever interrupts the wait.
AttemptFails(kind) ==
    /\ kind \in Faults
    /\ AttemptInFlight
    /\ progress.result = "none"

\* Slip: the window stays open across attempts.
EndAttempt_WindowLeft ==
    /\ failed' = (holder = "operation")
    /\ UNCHANGED windowOpen
    /\ progress' = NoProgress

\* The except clause of _execute_lock_operation, and the session's own cleanup:
\* the window closes, so a status reported before the retry is admitted.
EndAttempt ==
    /\ failed' = (holder = "operation")
    /\ windowOpen' = FALSE
    /\ progress' = NoProgress

\* A retryable error: the wrapper goes on to disconnect.
RetryableError ==
    /\ AttemptFails("retryable")
    /\ ~PastFinalStage
    /\ stage' = "disconnecting"
    /\ EndAttempt
    /\ fresh' = FALSE
    /\ UNCHANGED <<lifecycleVars, displayVars, jamVars, scheduleVars, attemptVars,
                   answered, writes, taken, link, authVars>>

\* An error the wrapper lets through: the device is not found while connecting,
\* a keypad command is refused, or a command is past its final stage.
FinalError ==
    /\ AttemptFails("final")
    /\ stage \in {"connecting", "commanding"} \/ PastFinalStage
    /\ fresh' = FALSE
    /\ Fail(link, Latched, deferred)
    /\ UNCHANGED <<lifecycleVars, link, authVars>>

\* Slip: one attempt too many.
Last_OffByOne == attempt >= Attempts

Last == attempt + 1 >= Attempts

\* The wrapper stops here instead of backing off.
GivesUp == Last \/ (holder = "operation" /\ precedes)

Backoff ==
    /\ stage' = "backoff"
    /\ UNCHANGED <<attemptVars, answered, writes, taken>>

\* AuthError: the handshake, or the first request of a session, was rejected.
\* It is counted and retried on the same link, and latches past the threshold.
AuthenticationError ==
    /\ AttemptFails("auth")
    /\ \/ stage = "connecting"
       \/ fresh /\ stage \in {"writing", "commanding", "reading", "polling"}
    /\ ~PastFinalStage
    /\ fresh' = FALSE
    /\ LET latchedNow == authFails + 1 >= AuthLatch IN
       /\ authFails' = IF Latched THEN authFails ELSE authFails + 1
       /\ authShown' = IF latchedNow THEN "failed" ELSE authShown
       /\ IF latchedNow \/ GivesUp
          THEN Fail(link, latchedNow, deferred)
          ELSE /\ Backoff
               /\ EndAttempt
               /\ UNCHANGED <<displayVars, jamVars, scheduleVars>>
    /\ UNCHANGED <<lifecycleVars, link>>

\* _async_handle_disconnected has closed the link and the disconnect callback ran,
\* or an auto-lock write is connecting and the link is left to it.
HandleDisconnected ==
    /\ stage = "disconnecting"
    /\ \/ link' = FALSE /\ fresh' = FALSE
       \/ Keycodes /\ UNCHANGED linkVars
    /\ LET armed == deferred \/ (link /\ ~link' /\ Reconnects) IN
       IF GivesUp
       THEN Fail(link', Latched, armed)
       ELSE /\ Backoff
            /\ deferred' = armed
            /\ UNCHANGED <<displayVars, jamVars, floor, pollVars, windowOpen,
                           failed, progress>>
    /\ UNCHANGED <<lifecycleVars, authVars>>

\* Slip: the attempts are not counted.
NextAttempt_Stuck == attempt

NextAttempt == attempt + 1

\* The next attempt: a stopped watcher refuses commands, but not a cycle.
Retry ==
    /\ stage = "backoff"
    /\ \/ /\ ~running /\ holder # "cycle"
          /\ Fail(link, Latched, deferred)
       \/ /\ running \/ holder = "cycle"
          /\ link
          /\ Connected(NextAttempt, seen)
       \/ /\ running \/ holder = "cycle"
          /\ ~link
          /\ stage' = "connecting"
          /\ attempt' = NextAttempt
          /\ UNCHANGED <<displayVars, jamVars, scheduleVars, holder, op,
                         exchangeVars>>
    /\ UNCHANGED <<lifecycleVars, linkVars, authVars>>

\* The caller cancels its task; a connect in progress is torn down.
Cancelled ==
    /\ holder \in {"operation", "keycode"} \/ (holder = "cycle" /\ task # "running")
    /\ link' = (link /\ stage # "handshaken")
    /\ fresh' = FALSE
    /\ LET armed == deferred \/ (link /\ ~link' /\ Reconnects) IN
       \/ /\ holder = "operation"
          /\ FinalizeOperation(FALSE, link', seen)
       \/ /\ holder # "operation"
          /\ Fail(link', Latched, armed)
    /\ UNCHANGED <<lifecycleVars, authVars>>

-----------------------------------------------------------------------------
(* The update cycle. *)

\* _deferred_update; while it is not its turn the timer is re-armed instead.
DeferredUpdate ==
    /\ TimePasses
    /\ deferred /\ ~UpdateInFlight /\ ~floor /\ holder = "none"
    /\ deferred' = FALSE
    /\ task' = "created"
    /\ UNCHANGED <<lifecycleVars, displayVars, jamVars, floor, forcePoll, owed,
                   commandVars, linkVars, authVars>>

\* The task's first step: a stopped watcher ends it before any cycle.
ExecuteDeferredUpdate ==
    /\ task = "created"
    /\ task' = IF running THEN "queued" ELSE "none"
    /\ UNCHANGED <<lifecycleVars, displayVars, jamVars, deferred, floor,
                   forcePoll, owed, commandVars, linkVars, authVars>>

\* Slip: the cycle yields without re-arming.
YieldToFloor_Unarmed ==
    /\ task' = "none"
    /\ UNCHANGED deferred

\* _wait_for_the_floor re-arms the timer.
YieldToFloor ==
    /\ task' = "none"
    /\ deferred' = TRUE

\* The task gets the operation lock: it yields to the floor, or runs the cycle.
AcquireForUpdate ==
    /\ task = "queued" /\ holder = "none"
    /\ IF floor
       THEN YieldToFloor /\ UNCHANGED <<owed, stage, holder>>
       ELSE /\ task' = "running"
            /\ holder' = "cycle"
            /\ stage' = IF link THEN "reading" ELSE "connecting"
            /\ owed' = FALSE
            /\ UNCHANGED deferred
    /\ UNCHANGED <<lifecycleVars, displayVars, jamVars, floor, forcePoll, attempt,
                   op, exchangeVars, linkVars, authVars>>

\* Slip: the count is cleared and the shown failure stays.
RecordAuthSuccess_CountOnly ==
    /\ authFails' = 0
    /\ UNCHANGED authShown

RecordAuthSuccess ==
    /\ authFails' = 0
    /\ authShown' = "ok"

\* The reads before the lock status, and whether the lock status is read too.
ReadOthers ==
    /\ stage = "reading" /\ link
    /\ \E asked, drainDue \in BOOLEAN :
       /\ IF asked
          THEN RecordAuthSuccess /\ fresh' = FALSE
          ELSE UNCHANGED <<fresh, authVars>>
       /\ IF \/ forcePoll \/ ~seen
             \/ AlwaysConnected /\ ~asked /\ ~drainDue
          THEN /\ stage' = "polling"
               /\ UNCHANGED <<scheduleVars, attemptVars, exchangeVars>>
          ELSE /\ EndCycle(link, FALSE, deferred)
               /\ UNCHANGED forcePoll
    /\ UNCHANGED <<lifecycleVars, displayVars, jamVars, link>>

\* The frame answering lock_status(), applied before the cycle resumes.
PollAnswered(s) ==
    /\ stage = "polling" /\ link
    /\ stage' = "answered"
    /\ floor' = (floor \/ s \in TransitionalReadings)
    /\ Admit(s)
    /\ UNCHANGED <<lifecycleVars, deferred, pollVars, attemptVars, exchangeVars,
                   linkVars, authVars>>

FinishUpdate ==
    /\ stage = "answered"
    /\ forcePoll' = FALSE
    /\ fresh' = FALSE
    /\ RecordAuthSuccess
    /\ EndCycle(link, FALSE, deferred)
    /\ UNCHANGED <<lifecycleVars, displayVars, jamVars, link>>

\* update() and update_advertisement(): they do not look at _running.
RequestUpdate ==
    /\ ~deferred
    /\ deferred' = TRUE
    /\ UNCHANGED <<lifecycleVars, displayVars, jamVars, floor, pollVars,
                   commandVars, linkVars, authVars>>

-----------------------------------------------------------------------------
(* Frames nobody asked for, timers, the link, and the watcher's life. *)

\* A status the lock pushes.
StatusReport(s) ==
    /\ link
    /\ floor' = (floor \/ s \in TransitionalReadings)
    /\ Admit(s)
    /\ UNCHANGED <<lifecycleVars, deferred, pollVars, commandVars, linkVars,
                   authVars>>

\* The op-response of a command that is not the one awaited here.
ForeignOperationResponse(ok) ==
    /\ link
    /\ floor' = TRUE
    /\ IF ok THEN UNCHANGED <<displayVars, jamVars>> ELSE Admit("JAMMED")
    /\ UNCHANGED <<lifecycleVars, deferred, pollVars, commandVars, linkVars,
                   authVars>>

\* _jam_hold_ended; while the operation lock is held it re-arms itself.
JamHoldEnded ==
    /\ TimePasses
    /\ jamTimer /\ ~holdLive /\ holder = "none"
    /\ jamTimer' = FALSE
    /\ forcePoll' = TRUE
    /\ deferred' = TRUE
    /\ owed' = running
    /\ UNCHANGED <<lifecycleVars, displayVars, jamRecent, precedes, holdLive,
                   stale, floor, task, commandVars, linkVars, authVars>>

\* A caller resumes within a loop turn of its op-response, far inside the hold.
HoldDeadlinePasses ==
    /\ TimePasses
    /\ holdLive /\ progress.result = "none"
    /\ holdLive' = FALSE
    /\ UNCHANGED <<lifecycleVars, displayVars, jamRecent, precedes, jamTimer,
                   stale, scheduleVars, commandVars, linkVars, authVars>>

FloorLapses ==
    /\ TimePasses
    /\ floor
    /\ floor' = FALSE
    /\ UNCHANGED <<lifecycleVars, displayVars, jamVars, deferred, pollVars,
                   commandVars, linkVars, authVars>>

JamAges ==
    /\ TimePasses
    /\ jamRecent
    /\ jamRecent' = FALSE
    /\ UNCHANGED <<lifecycleVars, displayVars, precedes, holdLive, jamTimer,
                   stale, scheduleVars, commandVars, linkVars, authVars>>

\* The lock, the radio or the idle timer closes the link.
LinkDrops ==
    /\ link
    /\ link' = FALSE
    /\ fresh' = FALSE
    /\ deferred' = (deferred \/ Reconnects)
    /\ UNCHANGED <<lifecycleVars, displayVars, jamVars, floor, pollVars,
                   commandVars, authVars>>

\* _cancel: one teardown in the background at a time.
Stop ==
    /\ Restarts /\ running /\ closing = "no"
    /\ running' = FALSE
    /\ closing' = "requested"
    /\ deferred' = FALSE
    /\ owed' = FALSE
    /\ IF holder = "operation"
       THEN /\ stale' = (jamRecent \/ precedes \/ holdLive)
            /\ UNCHANGED <<jamRecent, holdLive, jamTimer>>
       ELSE ForgetJam
    /\ UNCHANGED <<displayVars, precedes, floor, forcePoll, task, commandVars,
                   linkVars, authVars>>

\* _execute_forced_disconnect cancels the update task, whatever has been
\* started since the stop; a task created before the stop has had its first step.
CancelUpdateTask ==
    /\ closing = "requested" /\ task # "created"
    /\ closing' = "closing"
    /\ task' = "none"
    /\ IF task = "running"
       THEN /\ ReleaseOperationLock
            /\ link' = (link /\ stage # "handshaken")
            /\ fresh' = FALSE
       ELSE UNCHANGED <<commandVars, linkVars>>
    /\ deferred' = (deferred \/ (/\ task \in {"queued", "running"} /\ ~link'
                                /\ running /\ AlwaysConnected /\ ~Latched))
    /\ UNCHANGED <<running, displayVars, jamVars, floor, forcePoll, owed, authVars>>

\* Then it closes the link, once no connect is in progress; on a restarted
\* watcher it leaves the link alone if the disconnect timer was reset meanwhile.
CloseLink ==
    /\ closing = "closing" /\ stage \notin {"connecting", "handshaken"}
    /\ closing' = "no"
    /\ \/ /\ link' = FALSE
          /\ fresh' = FALSE
          /\ deferred' = (deferred \/ (link /\ Reconnects))
       \/ /\ running
          /\ UNCHANGED <<deferred, linkVars>>
    /\ UNCHANGED <<running, displayVars, jamVars, floor, pollVars, commandVars,
                   authVars>>

Start ==
    /\ ~running
    /\ running' = TRUE
    /\ deferred' \in {deferred, TRUE}
    /\ UNCHANGED <<closing, displayVars, jamVars, floor, pollVars, commandVars,
                   linkVars, authVars>>

-----------------------------------------------------------------------------
OperationStep ==
    \/ \E o \in Operations : RunLockOperation(o)
    \/ RunLockOperationStopped
    \/ WriteOperation \/ OperationWriteSuccess \/ Acknowledged
    \/ \E ok \in BOOLEAN : OperationResult(ok)
    \/ OperationReturns

AttemptStep ==
    \/ Handshake \/ EnsureConnectedReturns
    \/ RetryableError \/ FinalError \/ AuthenticationError
    \/ HandleDisconnected \/ Retry \/ Cancelled

UpdateStep ==
    \/ DeferredUpdate \/ ExecuteDeferredUpdate \/ AcquireForUpdate
    \/ ReadOthers \/ (\E s \in Reports : PollAnswered(s)) \/ FinishUpdate
    \/ RequestUpdate \/ Validate

KeycodeStep == RunOnLock \/ KeycodeReturns \/ SetAutoLock

FrameStep ==
    \/ \E s \in Reports : StatusReport(s)
    \/ \E ok \in BOOLEAN : ForeignOperationResponse(ok)

TimerStep == JamHoldEnded \/ HoldDeadlinePasses \/ FloorLapses \/ JamAges

LifecycleStep == LinkDrops \/ Stop \/ CancelUpdateTask \/ CloseLink \/ Start

Next ==
    \/ OperationStep \/ AttemptStep \/ UpdateStep \/ KeycodeStep
    \/ FrameStep \/ TimerStep \/ LifecycleStep

Spec == Init /\ [][Next]_vars

\* The loop runs what is ready, and every wait has a timeout, so the steps that
\* follow an await are weakly fair: a connect, a write, a read or a sleep ends.
AttemptEnds ==
    \/ EnsureConnectedReturns \/ WriteOperation \/ OperationReturns
    \/ RetryableError \/ FinalError \/ HandleDisconnected \/ Retry

FairSpec ==
    /\ Spec
    /\ WF_vars(AttemptEnds)
    /\ WF_vars(KeycodeReturns \/ ReadOthers \/ FinishUpdate)
    /\ WF_vars(DeferredUpdate)
    /\ WF_vars(ExecuteDeferredUpdate)
    /\ WF_vars(AcquireForUpdate)
    /\ WF_vars(FloorLapses)
    /\ WF_vars(HoldDeadlinePasses)
    /\ WF_vars(JamHoldEnded)

-----------------------------------------------------------------------------
TypeOK ==
    /\ running \in BOOLEAN /\ closing \in {"no", "requested", "closing"}
    /\ shown \in Display /\ seen \in BOOLEAN
    /\ jamRecent \in BOOLEAN /\ precedes \in BOOLEAN
    /\ holdLive \in BOOLEAN /\ jamTimer \in BOOLEAN /\ stale \in BOOLEAN
    /\ deferred \in BOOLEAN /\ floor \in BOOLEAN /\ forcePoll \in BOOLEAN
    /\ task \in {"none", "created", "queued", "running"} /\ owed \in BOOLEAN
    /\ holder \in Holders /\ stage \in Stages /\ attempt \in 0..(Attempts - 1)
    /\ op \in Operations \union {"none"}
    /\ windowOpen \in BOOLEAN /\ answered \in BOOLEAN /\ failed \in BOOLEAN
    /\ progress \in Progress /\ writes \in 0..Attempts /\ taken \in BOOLEAN
    /\ link \in BOOLEAN /\ fresh \in BOOLEAN
    /\ authFails \in 0..AuthLatch /\ authShown \in {"none", "ok", "failed"}

\* The hold keeps other statuses off a display that shows a status needing
\* attention; nothing replaces that status and leaves the hold behind, or the
\* display would be frozen on a value nobody reported as a jam
\* (_admit_lock_status, _release_jam_hold, _operation_result).
HoldShowsAttention == holdLive => NeedsAttention(shown)

\* A live hold has its timer, so that it ends in a poll instead of leaving the
\* jam on display (_jam_hold_timer, _reset_jam_state, _jam_hold_ended).
HoldEndsInAPoll == holdLive => jamTimer

\* Together: a held display is a jam's, and comes to its end, across reports,
\* op-responses, commands and stops.
HoldIsTheJams == HoldShowsAttention /\ HoldEndsInAPoll

\* An unsettled display never counts as a reading of this session, so the
\* follow-up poll is not skipped (_stage_display, _seen_this_session).
SeenMeansSettled == seen => Settled(shown)

\* SECUREMODE never appears on the secure lock, which reads LOCKED only while
\* the main lock reads SECUREMODE (const.py's LockState.secure,
\* _project_lock_status and every display a command puts up).
SecureAgreesWithLock ==
    /\ shown.secure # "SECUREMODE"
    /\ shown.secure = "LOCKED" => shown.lock = "SECUREMODE"

\* The window that refuses reports is open only while a command's exchange is
\* under way; a window left open would refuse every later report.
WindowOnlyDuringExchange ==
    windowOpen => /\ holder = "operation"
                  /\ stage \in {"cooldown", "writing", "waiting"}
                  /\ ~answered

\* A command that ended in a reported failure finds that failure on display
\* when it raises (_operation_result: the JAMMED arrived on the same frame).
FailureIsOnDisplay == progress.result = "fail" => NeedsAttention(shown)

\* The failed authentication is on display exactly while the failures in the
\* history latch, so a latch does not outlive its report or the reverse.
LatchIsShown == Latched <=> authShown = "failed"

\* The poll promised by a command's exit or by the end of a hold stays
\* scheduled until a cycle begins, the lock is operated again, or the watcher
\* stops (_finalize_operation, _jam_hold_ended, _wait_for_the_floor).
PollOwedIsArmed ==
    owed => \/ deferred \/ jamTimer
            \/ task \in {"created", "queued"}
            \/ holder = "operation"

\* An always-connected lock that lost its link stays on its way back to it: the
\* disconnect callback arms a cycle, or stands down for an exit that does
\* (_disconnected_callback, _execute_deferred_update, _finalize_operation).
OnItsWay == link \/ deferred \/ task # "none" \/ holder = "operation"

ReconnectNotLost ==
    [][ (/\ AlwaysConnected /\ running /\ running' /\ ~Latched /\ ~Latched'
         /\ OnItsWay)
        => OnItsWay' ]_vars

\* While the watcher is stopped, a jam from before the stop is remembered only
\* by the command that was in flight (_cancel, the stopped exit's reset).
JamForgottenWhileStopped == (stale /\ ~running) => holder = "operation"

\* A mechanical command is not written again, in whatever attempt of its call,
\* once the lock has acknowledged or answered it, nor an unlatch once it was
\* written at all (OperationProgress.final_stage, the retry wrapper).
CommandNotRepeated ==
    [][ (/\ holder = "operation" /\ holder' = "operation"
         /\ taken \/ (op = "unlatch" /\ writes > 0))
        => writes' = writes ]_vars

\* The op-response decided the display when it arrived: neither the write's
\* return nor the exit changes it afterwards.
AnswerStands ==
    [][ (holder = "operation" /\ answered /\ stage' # stage) => shown' = shown ]_vars

\* A jam reported just before or during a command is not covered by what the
\* command itself displays: its pending status, its result, or its exit.
JamNotHidden ==
    [][ (/\ holder = "operation" /\ precedes /\ NeedsAttention(shown)
         /\ stage' # stage \/ answered' # answered)
        => NeedsAttention(shown') ]_vars

Exchange ==
    IF stage \notin {"writing", "waiting"} THEN "idle"
    ELSE IF progress.result # "none" THEN "answered"
    ELSE IF progress.acked THEN "acked"
    ELSE "sent"

Attempt == INSTANCE OperationContract WITH
    phase <- Exchange,
    again <- holder = "operation" /\ stage \in {"disconnecting", "backoff"},
    once  <- op = "unlatch"

\* The command's attempts keep the contract that Session implements: the retry
\* wrapper goes on to another attempt only where the session leaves it one.
AttemptKeepsContract == Attempt!Spec

\* Once an attempt has failed, a jam that takes precedence keeps the next
\* attempt from opening its window (_end_a_retry_under_precedence).
RetryEndsUnderPrecedence ==
    [][ (failed /\ windowOpen' /\ ~windowOpen) => ~precedes ]_vars

\* Every command ends: the attempts are bounded and every wait has a timeout.
OperationEnds == (holder = "operation") ~> (holder = "none")

\* A promised poll runs, unless the lock keeps reporting a motor in motion or a
\* jam, or other work keeps taking the operation lock.
Disturbed ==
    \/ floor' /\ ~floor
    \/ holdLive' /\ ~holdLive
    \/ holder = "none" /\ holder' # "none" /\ task' # "running"

OwedPollRuns == <>[][~Disturbed]_vars => (owed ~> ~owed)

-----------------------------------------------------------------------------
(* What the repository says of the program, and the code does not keep. *)

\* push.py:143 "Any other status must stay out of _seen_this_session so the
\* follow-up lock_status() poll runs."
FollowUpPollRuns ==
    (owed /\ ~Settled(shown)) => PollOwedIsArmed \/ holder = "keycode"

=============================================================================

# A verification of yalexs-ble

yalexs-ble drives Yale and August locks over Bluetooth LE. The program is small;
what is hard in it is time. One object per lock (`PushLock`) is written to by the
frames the lock sends when it likes, by commands several callers issue, by an update cycle a
timer starts, by a disconnect callback, and by a stop that leaves work behind it.
All of them run on one event loop and interleave at every `await`. This directory
models that part, checks it with TLC and proves the core of it with TLAPS.

## The system

| Part | State it keeps | Operations | Modelled in |
|---|---|---|---|
| Status projection (`const.py`, `push.py:365-436`) | none | project a report, or a command, onto the pair (lock, secure lock) | `LockDisplay` |
| Lock commands (`push.py:238-362, 940-1210`) | `_operation_lock`, window, answered, failure, attempt | lock, unlock, securemode, unlatch; the retry wrapper; the exit | `PushLock` |
| Reported jams (`push.py:982-1167`) | hold deadline and timer, time of the last jam, precedence | admit or refuse a report, release, end of the hold, reset | `PushLock` |
| Update cycle and gate (`push.py:1675-1765, 2087-2249`) | deferred timer, floor, update task, forced poll, `_seen_this_session` | schedule, fire, yield, run, end | `PushLock`, timers untimed; `UpdateSchedule`, timers in ticks |
| Keep-alive and backoff (`push.py:707-796, 2097-2145, 2241-2249`) | keep-alive timer, reconnect backoff, time of the last operation | debounce, keep-alive, read that keeps the link, reconnect | `UpdateSchedule` |
| Authentication history (`push.py:250-285`) | count per address, shown `AuthState` | failure, success, latch | `PushLock` |
| Session (`session.py`) | session lock, armed wait, its future, acknowledgment, progress, cooldown | `execute`, `execute_operation`, `_notify`, timeouts, disconnect | `Session` |
| Contract of one attempt (`session.py:94-112, 670-729`) | how far the command got | issue, send, acknowledge, answer, give up, end | `OperationContract` |
| Lock (`lock.py`) | client, two sessions, `_disconnected` | connect, handshake, requests, `disconnect` | which frame answers what: `Session`; the link's life: `Connection` |
| Connection (`push.py:798-931`) | `_client`, connect lock and its line, disconnect timer | ensure, timed and forced disconnect, cleanup after a failure | `Connection`; in `PushLock`, open, being opened or closed |
| Auto-lock setting (`push.py:1218-1305, 1572-1673`, `lock.py:682-720, 856-958`) | two failure counts, awaited response, backoff, refresh, shown value | read, write, response | `AutoLock` |
| Activity log (`push.py:645-664, 1767-1858`, `lock.py:1065-1099`) | pending, primed, failures, overruns, backoff | register, drain, strike | `Activity` |
| Keypad codes (`push.py:1307-1340`, `lock.py:722-850`) | none of its own | read, program, clear | the operation around it: `RunOnLock` |
| Battery, lock info (`push.py:1490-1570`) | cooldown, refresh | read | not modelled |
| Advertisements (`push.py:1900-2029`) | last values seen | ask for an update on a change | that an update may be asked for |
| Cipher and encodings (`secure_session.py`, `util.py`) | chain, key | encrypt, checksum, parse | not modelled |

Interactions. A caller awaits `PushLock`, which takes the operation lock, connects
(`Lock.connect`), and calls `Lock`, which calls `Session`. In the other direction
everything is a callback without an await: bleak hands a frame to `Session._notify`,
which first passes it to `Lock._internal_state_callback` and so to
`PushLock._update_any_state`, and then resolves the wait that is armed; a link that
closes calls `Lock.disconnected`, which interrupts the tasks inside their requests,
and `PushLock._disconnected_callback`. A timer calls `_deferred_update`, which
creates the update task.

What makes each part correct:

- *Display.* It never shows a pair no lock can be in, hides a jam, freezes on one,
  or shows a guess over an answer.
- *Command.* A command the lock has acknowledged or answered is not written again for the same call, nor
  a written unlatch; another command that was written and got neither is, within its attempts. A call ends; a window
  it opened is closed; its outcome is polled.
- *Schedule.* A poll that is owed is on the timer, or in a task, or somebody who will arm it holds
  the lock; a lost link is reconnected.
- *Connection.* There is one link; the idle disconnect does not close it under the holder of the operation lock; nobody leaves one
  open behind a failure or a stop.
- *Clock.* The link is asked something before the lock drops it, failures are paced, one
  re-arm pushes an update back no further than the coalescing delay and the floor, though a stream of requests may
  repeat it.
- *Setting, log.* What is shown is what the lock has stored; a change that showed reaches
  the log's consumer; a lock without the feature is left alone.
- *Session.* A frame resolves the wait of the request it belongs to and nobody
  else's; an answer in hand beats the error that ends the wait; the session lock
  passes on.

## The modules

**`LockDisplay`**: `LockStatus`, its sets and the pure operators `ProjectLockStatus`,
`SecureForStatus`, `Pending`, `Complete`. `PushLock` extends it.

**`PushLock`** is the core. Its variables are the fields of the object, listed with
their source names in the module. Boolean deadlines: `floor`, `holdLive`, `jamRecent`
say whether "now" is still before the deadline, and an action (`FloorLapses`,
`HoldDeadlinePasses`, `JamAges`) may let it pass at any later moment; so the model
has every ordering of expiries the clock could produce, and some it could not. One
action is one run of a callback, or one stretch of a coroutine between two awaits:
`stage` says at which await the holder of the operation lock is suspended.

| Actions | Code |
|---|---|
| `RunLockOperation`, `WriteOperation`, `OperationWriteSuccess`, `Acknowledged`, `OperationResult`, `OperationReturns` | a command from its call to its answer |
| `FinalizeOperation` | the exit, part of whichever action ends a command |
| `Handshake`, `EnsureConnectedReturns`, `Connected` | `_ensure_connected`, and what follows it for each holder |
| `RetryableError`, `FinalError`, `AuthenticationError`, `HandleDisconnected`, `Retry`, `Cancelled` | `retry_bluetooth_connection_error` and the except and finally clauses under it |
| `DeferredUpdate` ... `FinishUpdate`, `RequestUpdate`, `Validate` | the timer, the update task, the cycle |
| `RunOnLock`, `KeycodeReturns`, `SetAutoLock` | keypad commands, and what an auto-lock write does outside the operation lock |
| `StatusReport`, `ForeignOperationResponse` | frames nobody asked for |
| `LinkDrops`, `Stop`, `CancelUpdateTask`, `CloseLink`, `Start` | the link and the watcher's life |

A frame is admitted inside the action that receives it (`Admit`), as `_notify` calls
the state callback before it resolves a wait. A failure cleanup that meets a connect in progress leaves the link to
it (`HandleDisconnected`); the only other connect is an auto-lock write's, and how the two interleave is in
`Connection`. `owed`, `stale`, `writes` and `taken` are history
variables: nothing but properties reads them.

**`Session`** takes two (or more) tasks through `execute` and `execute_operation` on one
connection: cooldown, session lock, arm, GATT write, wait, rewrite of a request whose
answer was invalid, and the two waits of a command. A timeout is two steps, as in
asyncio: the awaited future is cancelled at the deadline, the task resumes later, and
frames come in between. The lock and the radio are external: what was written may be
answered late or never, the lock pushes statuses and op-responses of others, and any
frame may arrive corrupt. Frames carry the request they answer and whether that
request is over; which of those the code can tell apart is decided by the matchers.

**`OperationContract`** is the abstract specification of one attempt: it may be
attempted again only while the lock cannot have taken the command, and an answer is
the last word. `Session` implements it (`Session!AttemptKeepsContract`, with the
progress of a task's command as the phase), and so does the view `PushLock` has of an
attempt (`PushLock!AttemptKeepsContract`, where `again` means that the retry wrapper
goes on). That is what lets `PushLock` abstract the session to three frames.

**`Connection`** has the two users of the link, the holder of the operation lock and
`_set_auto_lock`, which takes no operation lock, and the two background tasks that close it. `queue`
is the line of the `asyncio.Lock` they meet on, and a woken waiter runs in the next turn of the loop
(`WaiterWoken`). A
`Lock` object goes from `establishing` through `keyless` (bleak has the link, the sessions exist,
so `is_connected` holds) and `deaf` to `ready`. What a request exchanges is one step, `UseEnds` or
`UseFails`. `ConnectFails`, `AbandonEnds` are the `except BaseException` of
`_ensure_connected`; `DisconnectWithTimer`, `TimedDisconnect`, `ForcedDisconnect` the timer and the
two background tasks. A `timer` that has `fired` and is not reset stays truthy, as the
handle does in the code (`push.py:800`). Assumed of bleak: a disconnect ends, and the link is down.

**`WaitingLine`** is the line of an `asyncio.Lock`, for the session lock and the connect lock: a free
lock is taken at once only if nobody waits (`Free`), and a waiter that is cancelled leaves the line (`Without`).

**`UpdateSchedule`** has the same watcher on a clock. Every timer holds the ticks it has left, a
`Tick` passes when nothing is due, and a command or a cycle is two actions with any time in
between. A keypad command and an auto-lock write (`CallBegins`, `CallAsks`, `CallSucceeds`, `CallFails`) drop the
pending update once they have the link, and their exit arms none; the second takes no operation lock and
runs next to everything else, one at a time. `validate()` takes the
operation lock like a cycle but has no update task and no floor. A connect is a step of its own (`Connects`), since its
handshake asks the lock, and it may outlive a stop: the teardown waits for it. `RequestDelays` are the delays
updates are asked for with. A repeated authentication failure, which stops the reconnect, is in
`PushLock` alone. `Debounced`, `Floored`, `FloorOutlastsTheLink`, `NextBackoff` are the numeric rules.
`since` is the time since `_last_operation_complete_time`, `quiet` the time since the lock was last
asked anything, which is the lock's own count. `cool` and `pulse` are history; `pulse` is
"late" once the cycle a keep-alive scheduled was moved back by a request or a report, or dropped by a stop.

**`AutoLock`** has the read of the setting with its acknowledgment and its value, which are two frames,
the write with its retries, and a lock that may not support either. `frames` is what the
lock has yet to send on this link. `Pack` and `Parse` are the value on the wire. `awaiting` is the pending
flag with its deadline. `asks` and `unconfirmed` are history: how many reads gave no
value, and whether the setting was changed by someone whose answer is not awaited here.

**`Activity`** numbers the records of the log. The lock pops one per read (`LockAnswers`), also if
its answer gets lost or is asked for again (`ReadAgain`); a lock may be `endless`. `noticed`
is the last record whose change has shown on the display, `since` and `delivered` are the history of the
consumers registered now.

**`PushLockProofs`** holds the inductive invariant of `PushLock` and what follows from
it, and two modules that extend it hold the rest: **`PushLockStepProofs`** (what a step may do to
the display, the window and the authentication history, and the refinement of the contract) and
**`PushLockScheduleProofs`** (the poll, the reconnect and the forgotten jam, with an invariant of their own).
**`SessionProofs`**, **`ConnectionProofs`**, **`UpdateScheduleProofs`**, **`AutoLockProofs`** and
**`ActivityProofs`** hold those of the modules they are named for.

A definition whose comment begins with *Slip* is a plausible mistake in the definition
that follows it, and stands for it in a mutant: every property of every passing run is
violated by one of them.

## The runs

| Run | Question | Result |
|---|---|---|
| `push_command` | May a lock and an unlatch command, with keypad commands, auto-lock writes, reports, cycles, retries, disconnects and cancellations around them, leave the display or the mechanism in a wrong state? | holds, nine properties, 510 000 states |
| `push_fair` | Do the two displayed statuses agree on a securable lock, is an unsettled pair ever taken for a reading, does every command end and every promised poll run? | holds |
| `push_restart` | Stopped and restarted at any point, does an always-connected lock keep its poll, its reconnect, nothing of the old jam, and show a failed authentication exactly while the history latches? | holds |
| `session` | Whose wait may a frame resolve, what does the request return, does the staged wait keep the contract, and does every request end once the lock falls silent? | holds, 140 000 |
| `connection` | Is there one link, with an owner, which the idle disconnect leaves to its user and a stop closes? | holds, 300 000 |
| `schedule` | Is an idle link asked something in time, a failure paced, an update not pushed back far by one re-arm? | holds, 5 900 000 |
| `auto_lock` | Is each read without a value one strike, and what is shown what the lock has? | holds, 1 440 000 |
| `activity` | Is a change that showed drained, the backlog discarded, an endless log left alone? | holds, 82 000 |
| `push_keycode`, `session_cooldown`, `connection_halfopen`, `activity_backlog` | One sentence each of the repository, checked as it is written | violated, see below |

Bounds. Two attempts (`Attempts = 2`; three in the code): one to fail and one to be
refused, retried or given up, since an attempt keeps nothing of those before the last but
`failed`, and the proofs cover every number. Two writes of a solicited request for the
same reason. Statuses are the ones the code tells apart: a settled position, one in
motion, a jam, and for `push_fair` the two that move the secure lock.
`AuthLatch` is 1 or 2 (5 in the code): at once, and after a failure that does not latch. Two tasks
in `Session`: one in a request and one in the queue or before it. One forced disconnect
in the background at a time: `Stop` waits for the last one to have ended, so a
stop, start, stop in one turn of the loop is left out. `authFails` stops counting at
the latch, where only "at least" is ever asked. `TimePasses` keeps deadlines from lapsing
between a stop and the next turn of the loop, in which its task runs.
`Acknowledged` and `Delivered` happen once per write.

`StillOwed` keeps, of the commands that are over, only what can still be told from a later
frame: an exact reduction, since the matchers look at the opcode alone.

Three `Links` in `Connection`: one in use, one still held by a user that has not noticed it is gone, one new; an
unused one is recycled. In `UpdateSchedule` the delays are small and in the proportion of the
code's where it decides something: the keep-alive before the cutoff by more than the margin,
the hold longer than their difference, the coalescing shorter than all of them; the proofs there are
for every length. In `AutoLock`, `Word = 8` stands for the 16 bits, so that a value may
have both timers, one, or none; the threshold is 2 (3), the lock sends a request's frames before it
takes another after the next, and what a foreign application writes is off or a timed relock.
A demand-connected watcher lets the link go at any moment when no request uses it (`IdleDisconnect`), with or
without a cycle on it; the code's timer does so some seconds later. In `Activity`, a drain of two reads over a log of three records overruns, a second
completes it; two consumers may leave and come back.

No run disables the deadlock check: there is always a caller who may ask for something.

Fairness. `FairSpec` of `PushLock` asks for weak fairness of the steps that follow an
await, and of the timers. Every wait in the code has a deadline (the connect has
bleak's, a write and a read have `asyncio_timeout`, a staged wait `ACK_TIMEOUT` and
`OPERATION_RESPONSE_TIMEOUT`), the event loop resumes whatever is ready, and a timer
that is armed fires. Nothing is asked of the lock: `AttemptEnds` is satisfied by
failing. `OwedPollRuns` has a premise, that from some time on nobody raises the floor and
no other work takes the operation lock, because the gate yields to both for
as long as they go on. `Session`'s `FairSpec` asks the same of each task, and nothing
of frames; `RequestsEndInSilence` is conditional on silence because each frame
moves the cooldown, and a lock that never stops talking holds a request there.
`Connection`'s asks that what is awaited ends and that an armed timer fires; only the link's
users and the environment are free to do nothing. `AutoLock`'s asks that a frame the lock has sent arrives, that a request goes on, and, of an always-connected
watcher only, that it reconnects and that cycles come: `_schedule_reconnect` and the keep-alive of
`UpdateSchedule` see to that, and do nothing for a demand-connected one (`push.py:707-720`). `DisplayCatchesUp`
has as premise that drops, timeouts, and new writes cease, and for a demand-connected watcher that calls or
advertisements go on bringing cycles; without them a value another application wrote stays unread. `Activity`'s asks for cycles, and that a read is
answered; `EndlessLogLeftAlone` leaves out a link that drops in every drain, which the code
does not count as a strike, on purpose.

## What the violated runs say

- `push_keycode`: an unsettled status stays unseen *"so the follow-up lock_status() poll
  runs"* (`push.py:143`). A keypad command or an auto-lock write on a demand-connected lock cancels
  that poll, and its exit arms none.
- `session_cooldown`: *"Enable cooldown after each request"* (`session.py:170`). The cooldown
  comes before the session lock, so a queued request, like a rewrite, goes out without one.
- `connection_halfopen`: *"Connection already in progress, waiting for it to complete"*
  (`push.py:896`). It does not wait if `is_connected` holds already, which `Lock.connect` makes true before its
  handshake: an auto-lock write next to a connecting cycle runs into the assertion
  *"Cipher not set"* (`session.py:634`).
- `activity_backlog`: *"The first registration primes, so the backlog is not delivered as
  new"* (`push.py:653`). A consumer that registers while the drain of the one before it
  awaits its end marker has its priming undone by that drain's end (`push.py:1813`).

Observed while modelling, and not a run:

- The last check of *"Never re-send into a mechanism the lock reported as needing
  attention"* (`push.py:342`) comes before the cooldown of the retry; a jam
  reported during the cooldown does not stop the write.
- *"none reads the lock while the reported state is still settling"* (`push.py:510`): the floor is
  tested when a cycle gets the operation lock; a motion reported after that is polled in the middle.
- *"5 failed authentications in a row"* (`push.py:311`): only a cycle ends a row, a command
  that was answered does not.
- A watcher restarted while the command of before the stop is in flight keeps the old jam, although
  `push.py:1064-1066` says it does not: neither the stop nor the exit resets it.
- A stop does not cancel the keep-alive timer; it fires once on the stopped watcher, arms nothing but the update
  timer, and that cycle ends at once.
- A second report of motion between a keep-alive and the end of the floor moves the cycle past the
  cutoff, and so does a stream of requests; hence the `pulse # "late"` of `LinkKeptAlive`. Before the
  first completed operation there is no keep-alive, and while cycles fail the backoff rules.
- The failure cleanup of an auto-lock write closes the link of a command next to it, and the idle disconnect may
  close that of the write: it takes no operation lock. A timed disconnect left from before a stop may close the
  link of the restarted watcher, which reconnects (`ReconnectNotLost`).
- `set_auto_lock_mode` takes its duration from the display (`push.py:1229`); one that another application
  set and that is not in the list ends in a `ValueError`.
- The response deadline counts from before the read (`push.py:1672`), the comment says after its
  acknowledgment (`push.py:204`). The late response to a cancelled write confirms the next one; the
  read-back corrects the display.
- A record whose answer is lost, or asked for again, is gone from the log. A keypad command that fails has
  cancelled the update that primes and arms none (`push.py:1346` is for one that succeeds).
- `set_keycode` says *"so a failure leaves it empty"* (`push.py:1316`), which a failure of the
  clear, or a lost answer to the last of the four steps, does not.
- The first-update future is resolved without asking whether it is done (`push.py:2172`), and the timeout of
  an old waiter cancels the future of a restarted watcher (`push.py:2078`).

## What is proved

### PushLock

For every set of commands and reports, every number of attempts, every latch, with or
without keypad commands and auto-lock writes, restarts and a permanent connection, from the named assumptions
of `PushLock` only (`PollStaysOwed` has one more, stated in it: `~Keycodes`, without which
`push_keycode` refutes it):

| Theorem | Module | Statement |
|---|---|---|
| `InvariantHolds` | `PushLockProofs` | `Spec => []IInv` |
| `TypeCorrect` | | `Spec => []TypeOK`; with it, at most `Attempts` writes of a command |
| `HoldIsSound` | | `Spec => []HoldIsTheJams` |
| `SeenIsSettled` | | `Spec => []SeenMeansSettled` |
| `WindowIsClosed` | | `Spec => []WindowOnlyDuringExchange` |
| `FailureIsShown` | | `Spec => []FailureIsOnDisplay` |
| `NotRepeated` | | `Spec => CommandNotRepeated` |
| `RetryIsRefused` | `PushLockStepProofs` | `Spec => RetryEndsUnderPrecedence` |
| `AnswerIsFinal` | | `Spec => AnswerStands` |
| `JamStaysShown` | | `Spec => JamNotHidden` |
| `StatusesAgree` | | `Spec => []SecureAgreesWithLock` |
| `LatchAgrees` | | `Spec => []LatchIsShown` |
| `ContractKept` | | `Spec => AttemptKeepsContract` |
| `ScheduleHolds` | `PushLockScheduleProofs` | `Spec => []SInv` |
| `PollStaysOwed` | | `~Keycodes` implies `Spec => []PollOwedIsArmed` |
| `StopForgets` | | `Spec => []JamForgottenWhileStopped` |
| `ReconnectKept` | | `Spec => ReconnectNotLost` |

The invariant. `IInv` is `DisplayInv /\ ScheduleInv /\ CommandInv /\ FailureHeld`, and each
part is needed by another. `FailureIsOnDisplay` is not inductive: it needs that what
keeps the failure up is a live hold (`FailureHeld`), and that a live hold is over a status
that needs attention (`HoldShowsAttention`), which in turn survives a report only because the
hold refuses it. `CommandNotRepeated` speaks of `taken`, which outlives the attempt and its `progress`; it needs
that an attempt ends with neither an acknowledgment nor an answer unless the call ends, so that a command waiting
to be written was never taken (`ExchangeRecorded`), and, for an unlatch, that one already written
never gets back to that point; that is `AttemptsCounted`, which holds because a
written unlatch is past its final stage. `AttemptsCounted` also bounds the writes, and needs
`StagesOf`, which says who can be suspended where, and that only a command has a failed
attempt. `ScheduleInv` is types. There is one lemma per group of actions, one step per
action, and one lemma per helper that several actions share (`FinalizeKeeps`, `FailKeeps`,
`ConnectedKeeps`, `AdmitKeeps`); the display operators are used only through
`ProjectionTyped`, `PendingTyped` and `CompleteTyped`.

The steps. `WindowOpens` goes once through all actions and finds the two that open a window;
a retry that is refused is neither. `CommandShows` finds the three places where a
command may change the display, and both display properties read their guards off it.
`SecureAgreesWithLock` and `LatchIsShown` are inductive as they stand, the first because
every display a step puts up is a projection (`ShownIsProjected`).

The schedule. `PollOwedIsArmed` is not inductive: a task that stands for the poll may be
cancelled by the teardown of an earlier stop, and a watcher that is stopped ends a
created task. `PollPromised` adds what excludes both: an owed poll means a running watcher
(a stop withdraws the promise), and between a stop and its teardown no task stands for it,
because deadlines do not lapse in that turn of the loop (`TimePasses`). It rests on
`HoldEndsInAPoll` of `IInv` for the exit that leaves the poll to a live hold, and on
`TaskHoldsLock` for the end of a cycle. `ReconnectNotLost` needs no strengthening: every
exit arms what the disconnect callback left to it (`FinalizeReconnects`, `FailReconnects`).

The refinement. `ExchangeBegins` shows that only a write begins an exchange, and `ExchangeGoesOn`
that one in progress stays, is acknowledged, answered, ends with its command, or is given
up before its final stage; each of the five is a step of the contract.

### The other modules

For any number of tasks and any mix of their requests, for every length of the delays, for every threshold
and width, every cap on reads, every set of `Lock` objects, every number of consumers and records, from the
named assumptions of each module:

| Theorem | Module | Statement |
|---|---|---|
| `InvariantHolds` | `SessionProofs` | `Spec => []IInv` |
| `WaitHasOwner` | | `Spec => []ArmedWaitHasOwner` |
| `StagedWaitStays` | | `Spec => []StagedWaitListens` |
| `FuturesResolvedOnce` | | `Spec => []NoFutureResolvedTwice` |
| `RecordedAnswerIsReturned` | | `Spec => RecordedAnswerReturns` |
| `TypeCorrect` | | `Spec => []TypeOK` |
| `ContractKept` | | `Spec => AttemptKeepsContract` |
| `Invariance` | `ConnectionProofs` | `Spec => []IInv` |
| `TypeCorrect` | | `Spec => []TypeOK` |
| `OneLink` | | `Spec => []AtMostOneLink` |
| `NothingLeaks` | | `Spec => []NoLinkLeaks` |
| `LinkIsKept` | | `Spec => OperationKeepsItsLink` |
| `InvariantHolds` | `UpdateScheduleProofs` | `Spec => []IInv` |
| `BackoffIsKept` | | `Spec => []PacedByBackoff` |
| `UpdateNotPostponed` | | `Spec => NotPostponed` |
| `LinkIsKeptAlive` | | `Spec => []LinkKeptAlive` |
| `ReadsAreCounted` | `AutoLockProofs` | `Spec => []EachReadCountsOnce` |
| `WrittenIsParsed` | | `Parse(Pack(mode, duration)) = State(mode, duration)` for what a write sets |
| `SettingKept` | | `Spec => [](CountInv /\ SettingInv)` |
| `TypeCorrect` | | `Spec => []TypeOK` |
| `SeenStaysCurrent` | | `Spec => []SeenIsCurrent` |
| `ConfirmedWriteIsShown` | | `Spec => ConfirmedIsShown` |
| `InvariantHolds` | `ActivityProofs` | `Spec => []IInv` |
| `ChangeNotForgotten` | | `Spec => []ChangeIsDrained` |
| `BacklogIsDiscarded` | | `Spec => []BacklogDiscarded` |

*Session.* `OneAtATime` ties the session lock to the stage of its holder: a request that was
stopped keeps the lock, and its armed wait, until it resumes, and nobody else is in an exchange
meanwhile. `WaitIsOwned` adds what a staged wait looks like in between: armed and pending, or over with a recorded
result. Everything about the waits reads off these two. The types need `Busy` (a request under way is one of
`Kinds`), since what the lock owes is made from the owner's request.

The contract. `StepShapes` goes once through all actions and sorts the steps into five shapes: a request ends,
a write takes the lock or repeats a read, a request begins, a valid frame comes in, or nothing the
contract looks at changes. `MayRetry` is what the first of them needs: an end that asks for another attempt
has neither a recorded answer nor passed the final stage. A rewrite is invisible to the contract because a staged wait is
never in the stage that rewrites (`WaitIsOwned`), and a read has no progress (`WrittenIsStaged`).
`OperationContract` is so implemented by both sides that meet on it, for every value of their constants.

*Connection.* None of the three safety properties is inductive. `LockAgrees` says that the holder of the connect lock is
exactly the task at an await under it, `LineAgrees` that the line holds exactly the tasks that wait, each once,
which survives a cancellation because `Without` takes out that task and no other (`LineWithout`).
`LinkIsOwned` is the rule behind both properties of links: one that is not down is `_client`, or the one the
disconnect that holds the lock is closing, and only the holder has one being opened; so whoever gets the lock next finds the
others down. `TimerStands` is the reason why the idle disconnect asks in vain: while the holder of the
operation lock uses the link of a demand-connected watcher the timer is set, and `_execute_disconnect` gives way to it.

*UpdateSchedule.* `TimerRespectsThePace` says of the armed timer what `PacedByBackoff` says of
the task. It is kept by each re-arm because the debounce never yields less than both the delay asked for
and the timer it replaces (`DebouncedBounds`), so the lemma is about `Debounced` alone, and two theorems use it.

The keep-alive. Before it fires, its timer bounds the time since the last request (`TimerBeforePulse`). Once it has
fired there are three ways to a request in time (`PulseIsAnswered`): its read is next in line for the free
operation lock, its cycle is, or the timer of its cycle ends after the floor, before the cutoff, and before the keep-alive
after it, which would move it back. The last needs `KeepAliveAssumption`: the hold (6.1 s) and the coalescing
(0.05 s at most) are shorter than the keep-alive (25 s), and the cutoff (30 s) is later than both of the latter together.
`StoppedIsSilent` is for the restart, whose link may be the old one (`push.py:882`): a stop and its teardown drop the
cycle of a keep-alive that fired before them, and one that fires on a stopped watcher arms no other.
An auto-lock write drops the pending cycle at any moment, but only when it asks the lock itself, and a write that does not
get the link leaves the cycle alone; so it moves no link past the cutoff.

*AutoLock.* `OneReadAtATime` is needed because a failure is counted against a read only if no other
is awaited: while one is under way nothing is awaited and no backoff runs. `FailuresCount` is the rule at the
threshold.

The setting. `SeenIsCurrent` speaks of the moment when nothing is on its way; the invariant has to say what is on
its way. `LastIsStored`: the last value among the frames is the one the lock has stored, so that when it has been
shown the display agrees. `AnswerIsItsOwn`: unless a write was cancelled or another application wrote, the
response to a write is the last frame, and its value is what the writer sent; then what confirms a write is what was asked for
(`ConfirmedShows`), by `WrittenIsParsed`. `WireAgrees` keeps the two requests' frames apart: after the answer to a write there is
none to a read. One assumption was added to the module: some duration other than 0 may be set
(`AUTO_LOCK_DEFAULT_DURATION` is one).

*Activity.* `AnswerToARead` says that an answer has an owner, `NewFromTheEnd` that from the end marker on
the log holds nothing from before the registration; with an overlapping drain the second is false, which is
the violation above.

Every invariant and every safety property the passing runs check is so a theorem. Only model-checked is
liveness (`OperationEnds`, `OwedPollRuns`, `RequestsEndInSilence`, `StoppedLinkCloses`, `DisplayCatchesUp`,
`EndlessLogLeftAlone`): fairness and `ENABLED` are out of the prover's reach, and so is induction over data. The
inductive invariants were checked with TLC on the instances of the runs before they were proved.

## The plan

Done: `LockDisplay`, `PushLock`, `OperationContract`, `Session`, `Connection`, `UpdateSchedule`, `AutoLock`,
`Activity`; the proofs above.

What is left, in this order:

1. The four steps of a keypad code with the wrapper's retry, and what the slot holds after each failure.
2. The first-update future, and the callbacks that need lock info.
3. `UpdateSchedule` shown to implement the `deferred` and `floor` of `PushLock`.
4. `Session` and `Connection` composed: the shutdown exchange of a disconnect in the line of the session lock.

## Not modelled, and why

The cipher and the encodings (byte arithmetic without control; a frame is valid or it is not),
`lock_info` and the parsing of fields (pure), the battery poll (the two timers of `AutoLock`'s
read again, without its counters), change detection on advertisements (two integers compared),
the slow connection parameters (one call after a cycle, whose failure is logged), the example program,
bleak itself (external: a connect and a write may each succeed, fail, or take any time).

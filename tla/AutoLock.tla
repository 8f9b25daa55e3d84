------------------------------ MODULE AutoLock ------------------------------
(***************************************************************************)
(* The auto-lock setting: the read an update cycle makes of it, which a    *)
(* lock without the feature may never answer, the settings response that   *)
(* carries the value, and the write an application asks for (push.py:      *)
(* _read_auto_lock_setting, _update_any_state, _set_auto_lock; lock.py:    *)
(* set_auto_lock, auto_lock_status, _parse_auto_lock_state).  A read       *)
(* completes on its acknowledgment; the value follows, in time, late or    *)
(* never.  The write takes no operation lock, so it interleaves with the   *)
(* read; the session lock admits one request at a time.  Timers are        *)
(* untimed: one that is set may lapse at any later moment.                 *)
(***************************************************************************)
EXTENDS Naturals, Sequences

CONSTANTS
    Threshold,      \* AUTO_LOCK_READ_FAILURE_THRESHOLD
    WriteAttempts,  \* AUTO_LOCK_WRITE_ATTEMPTS
    Word,           \* the range of one uint16 timer
    Durations,      \* the durations an application may ask for, 0 for off
    ForeignValues   \* what another application may write to the lock

ASSUME AutoLockAssumption ==
    /\ Threshold \in Nat \ {0} /\ WriteAttempts \in Nat \ {0} /\ Word \in Nat \ {0}
    /\ Durations \subseteq 0 .. Word - 1 /\ \E d \in Durations : d # 0
    /\ ForeignValues \subseteq 0 .. Word * Word - 1

VARIABLES
    alwaysConnected, \* _always_connected, fixed when the watcher is made
    supported,       \* does the lock give its setting away at all
    setting,         \* the value the lock has stored
    frames,          \* what the lock has yet to send on this link, in order
    link,            \* is the link up
    turn,            \* whose request holds the session lock
    seen,            \* AutoLockState in _seen_this_session
    awaiting,        \* _awaiting_auto_lock_response: no, yes, or past its deadline
    ackFailures, responseFailures,
    backedOff,       \* _earliest_auto_lock_read_time is still to come
    refreshDue,      \* _next_auto_lock_read_time has passed
    display,         \* the shown AutoLockState
    displayPrev,     \* auto_lock_prev, restored when auto lock is enabled
    reader,          \* the read: none, waiting for its turn, asked, acknowledged
    writer,          \* the write: likewise, and confirmed by its response
    wanted,          \* what the write is to set
    attempt,
    asks,            \* history: reads since the last value that gave none
    unconfirmed      \* history: changed behind the watcher's back, not read since

vars == <<alwaysConnected, supported, setting, frames, link, turn, seen, awaiting,
          ackFailures, responseFailures, backedOff, refreshDue, display, displayPrev, reader,
          writer, wanted, attempt, asks, unconfirmed>>
fixed == <<alwaysConnected, supported>>
wire == <<setting, frames, link>>
failures == <<ackFailures, responseFailures, backedOff>>
shown == <<display, displayPrev>>
writing == <<writer, wanted, attempt>>
-----------------------------------------------------------------------------
(* The value on the wire: two timers, no mode.                             *)

State(mode, duration) == [mode |-> mode, duration |-> duration]
Off == State("OFF", 0)
Unknown == State("UNKNOWN", 0)

\* Slip: a timed relock sets the never-opened timer alone.
Pack_OneTimer(mode, duration) ==
    IF mode = "OFF" \/ duration = 0 THEN 0 ELSE duration

\* set_auto_lock: the never-opened timer below, the door-close timer above.
Pack(mode, duration) ==
    IF mode = "OFF" \/ duration = 0 THEN 0
    ELSE IF mode = "TIMER" THEN duration + duration * Word ELSE duration

\* _parse_auto_lock_state
Parse(value) ==
    LET neverOpened == value % Word
        doorClose == value \div Word
    IN  IF value = 0 THEN Off
        ELSE IF doorClose # 0
          THEN State("TIMER", IF neverOpened # 0 THEN neverOpened ELSE doorClose)
          ELSE State("INSTANT", neverOpened)

DefaultDuration == CHOOSE d \in Durations : d # 0

\* set_auto_lock_mode and set_auto_lock_duration: the half that is not given is
\* taken from the display, or from what was displayed before it was off.
Remembered == IF display.mode \notin {"OFF", "UNKNOWN"} THEN display ELSE displayPrev
DurationFor(mode) ==
    IF mode = "OFF" THEN 0
    ELSE IF Remembered.mode \notin {"OFF", "UNKNOWN"} THEN Remembered.duration ELSE DefaultDuration
ModeFor(duration) ==
    IF duration = 0 THEN "OFF"
    ELSE IF Remembered.mode \notin {"OFF", "UNKNOWN"} THEN Remembered.mode ELSE "TIMER"
-----------------------------------------------------------------------------
\* The settings response to a read or to a write.
Response(kind, value) == [kind |-> kind, value |-> value]
Ack == Response("ack", 0)

Init ==
    /\ alwaysConnected \in BOOLEAN /\ supported \in BOOLEAN
    /\ setting \in ForeignValues
    /\ frames = <<>> /\ link = FALSE /\ turn = "none"
    /\ seen = FALSE /\ awaiting = "no"
    /\ ackFailures = 0 /\ responseFailures = 0 /\ backedOff = FALSE /\ refreshDue = TRUE
    /\ display = Unknown /\ displayPrev = Unknown
    /\ reader = "none" /\ writer = "none" /\ wanted = Off /\ attempt = 0
    /\ asks = 0 /\ unconfirmed = FALSE

\* Slip: the connection keeps what was read on the one before.
Connect_KeepsSeen ==
    /\ ~link
    /\ link' = TRUE
    /\ UNCHANGED <<fixed, setting, frames, turn, seen, awaiting, failures, refreshDue, shown,
                   reader, writing, asks, unconfirmed>>

\* _ensure_connected makes a new connection: what was seen on the old one goes,
\* the failures, the backoff and a pending response stay.
Connect ==
    /\ ~link
    /\ link' = TRUE /\ seen' = FALSE /\ unconfirmed' = FALSE
    /\ UNCHANGED <<fixed, setting, frames, turn, awaiting, failures, refreshDue, shown, reader,
                   writing, asks>>
-----------------------------------------------------------------------------
(* The read.                                                               *)

\* Slip: each kind of failure has to reach the threshold by itself.
Exhausted_Apart(ack, resp) == ack >= Threshold \/ resp >= Threshold

\* _arm_auto_lock_read_backoff_if_exhausted: both kinds count toward one limit.
Exhausted(ack, resp) == ack + resp >= Threshold

Failures(ack, resp) ==
    /\ backedOff' = (backedOff \/ Exhausted(ack, resp))
    /\ ackFailures' = IF Exhausted(ack, resp) THEN 0 ELSE ack
    /\ responseFailures' = IF Exhausted(ack, resp) THEN 0 ELSE resp

\* Slip: a value once read is never read again on the same link.
Evicted_Never == FALSE

\* The refresh deadline evicts the value of an always-connected watcher.
Evicted == alwaysConnected /\ seen /\ refreshDue

\* _read_auto_lock_setting up to its request: an acknowledged read whose value
\* is overdue is a failure, and then a read is due unless the value is seen.
ReadAutoLockSetting ==
    /\ link /\ reader = "none"
    /\ ~backedOff /\ awaiting # "yes"
    /\ LET lapsed == responseFailures + (IF awaiting = "overdue" THEN 1 ELSE 0)
           stop == awaiting = "overdue" /\ Exhausted(ackFailures, lapsed)
           due == ~stop /\ (~seen \/ Evicted)
       IN  /\ due \/ awaiting = "overdue"
           /\ Failures(ackFailures, lapsed)
           /\ seen' = (seen /\ ~(Evicted /\ ~stop))
           /\ reader' = IF due THEN "waiting" ELSE "none"
    /\ awaiting' = "no"
    /\ UNCHANGED <<fixed, wire, turn, refreshDue, shown, writing, asks, unconfirmed>>

\* The request goes out and the lock answers: not at all, with an acknowledgment,
\* or, if it supports the setting, with the value after it.
SendRead ==
    /\ reader = "waiting" /\ link /\ turn = "none" /\ Len(frames) <= 1
    /\ reader' = "asked" /\ turn' = "reader"
    /\ frames' \in
         IF supported THEN {frames \o <<Ack, Response("read", setting)>>}
         ELSE {frames, Append(frames, Ack)}
    /\ UNCHANGED <<fixed, setting, link, seen, awaiting, failures, refreshDue, shown, writing,
                   asks, unconfirmed>>

\* auto_lock_status returns: the value is awaited unless it has landed already.
ReadReturns ==
    /\ reader = "acknowledged"
    /\ reader' = "none" /\ turn' = "none"
    /\ IF seen THEN UNCHANGED <<awaiting, asks>>
       ELSE awaiting' = "yes" /\ asks' = asks + 1
    /\ UNCHANGED <<fixed, wire, seen, failures, refreshDue, shown, writing, unconfirmed>>

\* No acknowledgment in time: counted, and the update goes on.
ReadTimesOut ==
    /\ reader = "asked"
    /\ reader' = "none" /\ turn' = "none"
    /\ Failures(ackFailures + 1, responseFailures)
    /\ asks' = asks + 1
    /\ UNCHANGED <<fixed, wire, seen, awaiting, refreshDue, shown, writing, unconfirmed>>

\* A transport fault is no verdict on the lock.
ReadFails ==
    /\ reader \in {"waiting", "asked"}
    /\ reader' = "none" /\ turn' = IF reader = "asked" THEN "none" ELSE turn
    /\ UNCHANGED <<fixed, wire, seen, awaiting, failures, refreshDue, shown, writing, asks,
                   unconfirmed>>
-----------------------------------------------------------------------------
(* The write.                                                              *)

\* Asked for by mode or by duration; a setting already off is left alone, and a
\* duration off the list is refused.
SetAutoLock ==
    /\ writer = "none"
    /\ \E mode \in {"OFF", "INSTANT", "TIMER"}, duration \in Durations :
         /\ duration = DurationFor(mode) \/ mode = ModeFor(duration)
         /\ ~(mode = "OFF" /\ display.mode = "OFF")
         /\ wanted' = State(mode, duration)
    /\ writer' = "waiting" /\ attempt' = 1
    /\ UNCHANGED <<fixed, wire, turn, seen, awaiting, failures, refreshDue, shown, reader, asks,
                   unconfirmed>>

\* The lock answers a write with an acknowledgment and a settings response, or
\* does not confirm it, whether it has stored the value or not.
SendWrite ==
    /\ writer = "waiting" /\ link /\ turn = "none" /\ Len(frames) <= 1
    /\ writer' = "asked" /\ turn' = "writer"
    /\ LET value == Pack(wanted.mode, wanted.duration) IN
       \/ /\ setting' = value
          /\ frames' = frames \o <<Ack, Response("write", value)>>
       \/ /\ ~supported /\ setting' \in {setting, value} /\ UNCHANGED frames
    /\ UNCHANGED <<fixed, link, seen, awaiting, failures, refreshDue, shown, reader, wanted,
                   attempt, asks, unconfirmed>>

\* The confirmed write proves the feature and outdates the value: the next
\* update reads it back.
WriteConfirmed ==
    /\ writer = "confirmed"
    /\ writer' = "none" /\ wanted' = Off /\ attempt' = 0 /\ turn' = "none"
    /\ ackFailures' = 0 /\ responseFailures' = 0 /\ backedOff' = FALSE
    /\ awaiting' = "no" /\ refreshDue' = TRUE /\ seen' = FALSE
    /\ asks' = 0
    /\ UNCHANGED <<fixed, wire, shown, reader, unconfirmed>>

\* The link goes, with what the lock has not sent yet; the requests on it end.
LinkGone ==
    /\ link' = FALSE /\ frames' = <<>> /\ turn' = "none"
    /\ reader' = "none"
    /\ \/ writer \in {"none", "waiting"} /\ UNCHANGED writing
       \/ /\ writer # "none" /\ attempt < WriteAttempts
          /\ writer' = "waiting" /\ attempt' = attempt + 1 /\ UNCHANGED wanted
       \/ /\ writer # "none" /\ attempt = WriteAttempts
          /\ writer' = "none" /\ wanted' = Off /\ attempt' = 0
    /\ UNCHANGED <<fixed, setting, seen, awaiting, failures, refreshDue, shown, asks,
                   unconfirmed>>

\* A write without its response in time: the retry wrapper closes the link.
WriteTimesOut == writer = "asked" /\ LinkGone

\* The caller cancels its write; the link stays up.
CancelWrite ==
    /\ writer # "none"
    /\ writer' = "none" /\ wanted' = Off /\ attempt' = 0
    /\ turn' = IF turn = "writer" THEN "none" ELSE turn
    /\ unconfirmed' = (unconfirmed \/ writer = "asked")
    /\ UNCHANGED <<fixed, wire, seen, awaiting, failures, refreshDue, shown, reader, asks>>
-----------------------------------------------------------------------------
(* Frames, timers, and the lock's other users.                             *)

\* Slip: the value does not disarm the response deadline.
SettingsResponse_LeavesAwaiting(value) ==
    /\ seen' = TRUE /\ UNCHANGED awaiting
    /\ ackFailures' = 0 /\ responseFailures' = 0 /\ backedOff' = FALSE
    /\ refreshDue' = FALSE /\ asks' = 0
    /\ display' = Parse(value)
    /\ displayPrev' = IF Parse(value) # display THEN display ELSE displayPrev

\* _update_any_state with an AutoLockState.
SettingsResponse(value) ==
    /\ seen' = TRUE /\ awaiting' = "no"
    /\ ackFailures' = 0 /\ responseFailures' = 0 /\ backedOff' = FALSE
    /\ refreshDue' = FALSE /\ asks' = 0
    /\ display' = Parse(value)
    /\ displayPrev' = IF Parse(value) # display THEN display ELSE displayPrev

\* A frame comes in.  The read is completed by the first one, whatever it is,
\* the write by a write's settings response; either resumes later.
Frame ==
    /\ frames # <<>>
    /\ LET frame == Head(frames) IN
       /\ frames' = Tail(frames)
       /\ reader' = IF reader = "asked" THEN "acknowledged" ELSE reader
       /\ writer' = IF writer = "asked" /\ frame.kind = "write" THEN "confirmed" ELSE writer
       /\ IF frame.kind = "ack"
            THEN UNCHANGED <<seen, awaiting, failures, refreshDue, shown, asks>>
            ELSE SettingsResponse(frame.value)
       /\ unconfirmed' =
            (unconfirmed /\ ~(frame = Response("read", setting) /\ Tail(frames) = <<>>))
    /\ UNCHANGED <<fixed, setting, link, turn, wanted, attempt>>

\* A pushed status, or a late answer to another request, completes the read.
ForeignFrame ==
    /\ reader = "asked"
    /\ reader' = "acknowledged"
    /\ UNCHANGED <<fixed, wire, turn, seen, awaiting, failures, refreshDue, shown, writing, asks,
                   unconfirmed>>

ResponseDeadlinePasses ==
    /\ awaiting = "yes"
    /\ awaiting' = "overdue"
    /\ UNCHANGED <<fixed, wire, turn, seen, failures, refreshDue, shown, reader,
                   writing, asks, unconfirmed>>

BackoffLapses ==
    /\ backedOff
    /\ backedOff' = FALSE /\ asks' = 0
    /\ UNCHANGED <<fixed, wire, turn, seen, awaiting, ackFailures, responseFailures, refreshDue,
                   shown, reader, writing, unconfirmed>>

RefreshFallsDue ==
    /\ ~refreshDue
    /\ refreshDue' = TRUE
    /\ UNCHANGED <<fixed, wire, turn, seen, awaiting, failures, shown, reader, writing, asks,
                   unconfirmed>>

\* The link drops, or a demand-connected watcher lets it go once nobody uses it
\* and the lock has sent what it had to.
LinkDrops == link /\ LinkGone
IdleDisconnect ==
    /\ link /\ ~alwaysConnected /\ reader = "none" /\ writer = "none" /\ frames = <<>>
    /\ LinkGone

ForeignWrite ==
    /\ setting' \in ForeignValues \ {setting}
    /\ unconfirmed' = TRUE
    /\ UNCHANGED <<fixed, frames, link, turn, seen, awaiting, failures, refreshDue, shown, reader,
                   writing, asks>>
-----------------------------------------------------------------------------
Next ==
    \/ Connect \/ ReadAutoLockSetting \/ SendRead \/ ReadReturns \/ ReadTimesOut \/ ReadFails
    \/ SetAutoLock \/ SendWrite \/ WriteConfirmed \/ WriteTimesOut \/ CancelWrite
    \/ Frame \/ ForeignFrame \/ ResponseDeadlinePasses \/ BackoffLapses \/ RefreshFallsDue
    \/ LinkDrops \/ IdleDisconnect \/ ForeignWrite

Spec == Init /\ [][Next]_vars

\* Requests get their turn, sent frames arrive, timers lapse.  An always-connected
\* watcher reconnects, and its keep-alive brings cycles; a demand-connected one
\* waits for a call or an advertisement, which nobody owes it.
Fairness ==
    /\ WF_vars(alwaysConnected /\ Connect)
    /\ WF_vars(alwaysConnected /\ ReadAutoLockSetting)
    /\ WF_vars(SendRead \/ ReadReturns)
    /\ WF_vars(SendWrite \/ WriteConfirmed \/ WriteTimesOut)
    /\ WF_vars(Frame) /\ WF_vars(ResponseDeadlinePasses)
    /\ WF_vars(BackoffLapses) /\ WF_vars(RefreshFallsDue)

FairSpec == Spec /\ Fairness
-----------------------------------------------------------------------------
FlagsTyped ==
    /\ alwaysConnected \in BOOLEAN /\ supported \in BOOLEAN /\ link \in BOOLEAN
    /\ seen \in BOOLEAN /\ backedOff \in BOOLEAN /\ refreshDue \in BOOLEAN
    /\ unconfirmed \in BOOLEAN
RequestsTyped ==
    /\ turn \in {"none", "reader", "writer"}
    /\ reader \in {"none", "waiting", "asked", "acknowledged"}
    /\ writer \in {"none", "waiting", "asked", "confirmed"}
    /\ (turn = "reader") = (reader \in {"asked", "acknowledged"})
    /\ (turn = "writer") = (writer \in {"asked", "confirmed"})
    /\ attempt \in 0 .. WriteAttempts
CountsTyped ==
    /\ awaiting \in {"no", "yes", "overdue"}
    /\ ackFailures \in Nat /\ responseFailures \in Nat
    /\ ackFailures + responseFailures < Threshold
    /\ asks \in Nat
Values == 0 .. Word * Word - 1
ValuesTyped ==
    /\ setting \in Values
    /\ frames \in Seq([kind : {"ack", "read", "write"}, value : Values])
    /\ wanted \in [mode : {"OFF", "INSTANT", "TIMER"}, duration : 0 .. Word - 1]

\* The type invariant.
TypeOK == FlagsTyped /\ RequestsTyped /\ CountsTyped /\ ValuesTyped

\* Every read that gave no value counts once, as a missing acknowledgment, a
\* missing awaiting, or a response still awaited, however reads, writes and
\* reconnects interleave; so a lock is left alone after Threshold of them, and
\* never sooner.
EachReadCountsOnce ==
    IF backedOff THEN asks = Threshold
    ELSE asks = ackFailures + responseFailures + (IF awaiting = "no" THEN 0 ELSE 1)

\* A value that counts as seen is the one the lock has stored, but for a change
\* nobody here waits for and a response on its way.
SeenIsCurrent ==
    (link /\ seen /\ ~unconfirmed /\ writer # "asked"
       /\ \A i \in DOMAIN frames : frames[i].kind = "ack") => display = Parse(setting)

\* What a confirmed write set is on display as it was asked for.
ConfirmedIsShown ==
    [][(writer = "confirmed" /\ writer' = "none" /\ link' /\ ~unconfirmed) => display = wanted]_vars

\* Once a lock that gives its setting is left in peace, the display catches up:
\* an always-connected watcher sees to it by itself, a demand-connected one as
\* long as calls or advertisements bring its cycles.
Disturbance ==
    \/ LinkDrops /\ ~IdleDisconnect
    \/ ReadTimesOut \/ ReadFails \/ SetAutoLock \/ ForeignWrite
DisplayCatchesUp ==
    (/\ supported /\ <>[][~Disturbance]_vars
     /\ alwaysConnected \/ []<><<ReadAutoLockSetting>>_vars)
        => <>[](display = Parse(setting))
=============================================================================

--------------------------- MODULE UpdateSchedule ---------------------------
(***************************************************************************)
(* When an always-connected PushLock asks its lock for anything: the timer *)
(* of the next update with its debounce, the floor under it, the reconnect *)
(* backoff, and the keep-alive that must come before the lock drops an     *)
(* idle link (push.py: _keep_alive, _keep_link_alive, _hold_update,        *)
(* _schedule_future_update*, _deferred_update, _execute_deferred_update,   *)
(* _record_update_outcome).  Time is counted in ticks; every timer holds   *)
(* the ticks it has left, and no tick passes while something is due.  What *)
(* a command, a keypad command, an auto-lock write or a cycle exchanges    *)
(* with the lock is in PushLock; here it takes some time, the operation    *)
(* lock unless it is an auto-lock write, and ends well or badly.           *)
(***************************************************************************)
EXTENDS Integers

CONSTANTS
    KeepAlive,       \* KEEP_ALIVE_TIME
    IdleDisconnect,  \* IDLE_DISCONNECT_TIME: then the lock drops an idle link
    Margin,          \* the second _floor_outlasts_the_link takes off it
    Hold,            \* LOCK_STALE_STATE_DEBOUNCE_DELAY
    Coalesce,        \* HK_UPDATE_COALESCE_SECONDS
    ReconnectBackoff, MaxReconnectBackoff,
    RequestDelays,   \* what requests ask for: at once, coalesced, or later
    OperationDefer,  \* OPERATION_IN_PROGRESS_DEFER_SECONDS
    TaskDefer        \* UPDATE_IN_PROGRESS_DEFER_SECONDS

ASSUME ScheduleAssumption ==
    /\ {KeepAlive, IdleDisconnect, Margin, Hold, Coalesce, ReconnectBackoff,
        MaxReconnectBackoff, OperationDefer, TaskDefer} \subseteq Nat \ {0}
    /\ RequestDelays \subseteq Nat
    /\ KeepAlive + Margin < IdleDisconnect
    /\ ReconnectBackoff <= MaxReconnectBackoff

\* The floor and the coalescing are over long before the next keep-alive, and a
\* keep-alive put off by the coalescing still comes in time.
ASSUME KeepAliveAssumption ==
    /\ Hold < KeepAlive /\ Coalesce < KeepAlive
    /\ KeepAlive + Coalesce < IdleDisconnect

VARIABLES
    askable,    \* does the lock have a read that returns no position
    running,    \* _running
    teardown,   \* a stop's forced disconnect is still to run
    connected,  \* is_connected
    holder,     \* who holds the operation lock
    task,       \* the update task: none, created, or reading
    reader,     \* _keep_link_alive: none, waiting for the lock, or asking
    call,       \* where a keypad command and an auto-lock write are
    deferred,   \* _cancel_deferred_update: ticks left, or None
    keepAlive,  \* _keep_alive_timer
    floor,      \* ticks left to _earliest_update_time
    since,      \* ticks since _last_operation_complete_time, up to the cutoff
    quiet,      \* ticks since the lock was last asked anything, likewise
    backoff,    \* _reconnect_backoff
    cool,       \* history: ticks a failed cycle keeps the next one away
    pulse       \* history: has a keep-alive fired since the lock was last asked
                \* anything, and was the cycle it scheduled moved back or dropped

vars == <<askable, running, teardown, connected, holder, task, reader, call, deferred,
          keepAlive, floor, since, quiet, backoff, cool, pulse>>
watcher == <<askable, running, teardown>>
timesOfUse == <<since, quiet>>
clocks == <<floor, timesOfUse, pulse>>
-----------------------------------------------------------------------------
None == -1

Greater(a, b) == IF a > b THEN a ELSE b
Smaller(a, b) == IF a < b THEN a ELSE b

\* The calls that have no exit of their own.
Calls == {"keypad", "autoLock"}

FlagsTyped ==
    /\ askable \in BOOLEAN /\ running \in BOOLEAN /\ teardown \in BOOLEAN
    /\ connected \in BOOLEAN
    /\ holder \in {"none", "command", "keypad", "validate", "cycle", "reader"}
    /\ task \in {"none", "created", "reading"} /\ (task = "reading" <=> holder = "cycle")
    /\ reader \in {"none", "waiting", "asking"} /\ (reader = "asking" <=> holder = "reader")
    /\ call \in [Calls -> {"none", "connecting", "asking"}]
    /\ call["keypad"] # "none" <=> holder = "keypad"
    /\ pulse \in {"none", "fired", "late"}
TimersTyped ==
    /\ deferred \in Nat \cup {None} /\ keepAlive \in None .. KeepAlive
    /\ floor \in 0 .. Hold
    /\ since \in 0 .. IdleDisconnect /\ quiet \in 0 .. since
    /\ backoff \in 0 .. MaxReconnectBackoff /\ cool \in 0 .. backoff

\* The type invariant: no timer is set beyond the longest delay it knows.
TypeOK == FlagsTyped /\ TimersTyped

Init ==
    /\ askable \in BOOLEAN
    /\ running = TRUE /\ teardown = FALSE /\ connected = FALSE
    /\ holder = "none" /\ task = "none" /\ reader = "none" /\ call = [c \in Calls |-> "none"]
    /\ deferred \in {None} \cup RequestDelays /\ keepAlive = None
    /\ floor = 0 /\ since = IdleDisconnect /\ quiet = IdleDisconnect
    /\ backoff = 0 /\ cool = 0 /\ pulse = "none"
-----------------------------------------------------------------------------
\* _schedule_future_update: never before the floor.
Floored(delay, fl) == Greater(delay, fl)

\* Slip: a later request moves a pending update back.
Debounced_Latest(delay, fl) == Floored(delay, fl)

\* _schedule_future_update_with_debounce: what the timer is set to.
Debounced(delay, fl) ==
    CASE deferred = None     -> Floored(delay, fl)
      [] deferred \in 0 .. Coalesce - 1 -> Floored(Coalesce, fl)
      [] deferred >= Coalesce /\ deferred < delay -> deferred
      [] OTHER               -> Floored(delay, fl)

\* History: the cycle a keep-alive has scheduled is moved back, or dropped.
MovedBack == IF pulse = "fired" THEN "late" ELSE pulse

UpdateInFlight == task # "none"

\* _schedule_reconnect with the given backoff.
Reconnecting(pace) == IF running THEN Debounced(pace, floor) ELSE deferred

\* Slip: the floor is compared with the cutoff from now on.
FloorOutlastsTheLink_FromNow == floor > IdleDisconnect - Margin

\* _floor_outlasts_the_link: the cycle at the floor's end would come too late.
FloorOutlastsTheLink == floor + since > IdleDisconnect - Margin

\* _schedule_next_keep_alive, which a stopped watcher leaves unarmed.
NextKeepAlive == IF running THEN KeepAlive ELSE None

\* The link goes down: _disconnected_callback, which stands down for a cycle.
LinkCloses ==
    /\ connected' = FALSE
    /\ deferred' = IF UpdateInFlight THEN deferred ELSE Reconnecting(backoff)

\* The lock answered, and the exchange counts as the last operation.
Completed ==
    /\ since' = 0 /\ quiet' = 0 /\ pulse' = "none"
    /\ keepAlive' = NextKeepAlive
-----------------------------------------------------------------------------
(* Commands.                                                               *)

\* A stopped watcher raises the floor all the same.
CommandRefused ==
    /\ ~running /\ holder = "none"
    /\ deferred' = None /\ floor' = Hold
    /\ UNCHANGED <<watcher, connected, holder, task, reader, call, keepAlive, timesOfUse,
                   backoff, cool, pulse>>

CommandBegins ==
    /\ running /\ holder = "none"
    /\ holder' = "command"
    /\ deferred' = None /\ cool' = 0
    /\ UNCHANGED <<watcher, connected, task, reader, call, keepAlive, clocks, backoff>>

\* The exit of a lock command: the floor is raised, and the next poll is the
\* exit's; under a live jam hold there is none, it comes at the hold's end.
FinalizeOperation ==
    /\ floor' = Hold
    /\ deferred' \in IF ~running THEN {deferred}
                     ELSE IF ~connected' THEN {Hold}
                     ELSE {None, Floored(Hold, Hold), Floored(KeepAlive, Hold)}

\* The lock answered, if only with a failure; the link may be lost again by now.
CommandSucceeds ==
    /\ holder = "command"
    /\ connected
    /\ holder' = "none" /\ connected' \in BOOLEAN
    /\ Completed /\ backoff' = 0 /\ cool' = 0
    /\ FinalizeOperation
    /\ UNCHANGED <<watcher, task, reader, call>>

\* Most failures close the link; a retry that a jam forbids leaves it up.
CommandFails ==
    /\ holder = "command"
    /\ holder' = "none" /\ connected' \in {connected, FALSE}
    /\ quiet' = 0 /\ pulse' = "none" /\ cool' = 0
    /\ FinalizeOperation
    /\ UNCHANGED <<watcher, task, reader, call, keepAlive, since, backoff>>
-----------------------------------------------------------------------------
(* Keypad commands, and auto-lock writes, which take no operation lock: a  *)
(* call that fails before it has the link leaves the pending update alone. *)

CallBegins(c) ==
    /\ running /\ call[c] = "none"
    /\ IF c = "keypad" THEN holder = "none" /\ holder' = "keypad" ELSE UNCHANGED holder
    /\ call' = [call EXCEPT ![c] = "connecting"]
    /\ UNCHANGED <<watcher, connected, task, reader, deferred, keepAlive, clocks, backoff,
                   cool>>

\* The call has the link, and drops the pending update; it arms none itself.
CallAsks(c) ==
    /\ call[c] = "connecting" /\ connected
    /\ call' = [call EXCEPT ![c] = "asking"]
    /\ deferred' = None /\ cool' = 0
    /\ quiet' = 0 /\ pulse' = "none"
    /\ UNCHANGED <<watcher, connected, holder, task, reader, keepAlive, floor, since, backoff>>

\* The call is over; a keypad command lets go of the operation lock.
CallEnds(c) ==
    /\ call' = [call EXCEPT ![c] = "none"]
    /\ holder' = IF c = "keypad" THEN "none" ELSE holder

CallSucceeds(c) ==
    /\ call[c] = "asking"
    /\ CallEnds(c)
    /\ Completed /\ backoff' = 0 /\ cool' = 0
    /\ UNCHANGED <<watcher, connected, task, reader, deferred, floor>>

\* An attempt fails.  The wrapper closes the link after most failures, and starts
\* another attempt or gives up.
CallFails(c) ==
    /\ call[c] = "asking" \/ (call[c] = "connecting" /\ ~(running /\ connected))
    /\ \/ CallEnds(c)
       \/ running /\ call' = [call EXCEPT ![c] = "connecting"] /\ UNCHANGED holder
    /\ LinkCloses \/ UNCHANGED <<connected, deferred>>
    /\ IF holder' = holder THEN UNCHANGED <<quiet, pulse>> ELSE quiet' = 0 /\ pulse' = "none"
    /\ UNCHANGED <<watcher, task, reader, keepAlive, floor, since, backoff, cool>>
-----------------------------------------------------------------------------
(* Update cycles.                                                          *)

\* validate() runs a cycle without an update task, outside the floor, and on a
\* stopped watcher too.
ValidateBegins ==
    /\ holder = "none"
    /\ holder' = "validate"
    /\ UNCHANGED <<watcher, connected, task, reader, call, deferred, keepAlive, clocks, backoff,
                   cool>>

ValidateSucceeds ==
    /\ holder = "validate" /\ connected
    /\ holder' = "none"
    /\ Completed /\ backoff' = 0 /\ cool' = 0
    /\ UNCHANGED <<watcher, connected, task, reader, call, deferred, floor>>

ValidateFails ==
    /\ holder = "validate"
    /\ holder' = "none"
    /\ LinkCloses \/ UNCHANGED <<connected, deferred>>
    /\ quiet' = 0 /\ pulse' = "none"
    /\ UNCHANGED <<watcher, task, reader, call, keepAlive, floor, since, backoff, cool>>

\* The application, an advertisement, a consumer of the activity log or the end
\* of a jam's hold asks for an update; none of them looks at _running.
RequestUpdate(delay) ==
    /\ deferred' = Debounced(delay, floor)
    /\ cool' = 0
    /\ pulse' = IF deferred \in 0 .. Coalesce - 1 THEN MovedBack ELSE pulse
    /\ UNCHANGED <<watcher, connected, holder, task, reader, call, keepAlive, floor,
                   timesOfUse, backoff>>

\* The timer of the next update.
DeferredUpdate ==
    /\ deferred = 0
    /\ \/ /\ UpdateInFlight
          /\ deferred' = Floored(TaskDefer, floor) /\ UNCHANGED task
       \/ /\ ~UpdateInFlight /\ floor > 0
          /\ deferred' = floor /\ UNCHANGED task
       \/ /\ ~UpdateInFlight /\ floor = 0 /\ holder # "none"
          /\ deferred' = OperationDefer /\ UNCHANGED task
       \/ /\ ~UpdateInFlight /\ floor = 0 /\ holder = "none"
          /\ deferred' = None /\ task' = "created"
    /\ UNCHANGED <<watcher, connected, holder, reader, call, keepAlive, clocks, backoff, cool>>

\* The task gets the operation lock; the floor may have risen since it was
\* created, and then it yields.
CycleBegins ==
    /\ task = "created" /\ running /\ holder = "none" /\ floor = 0
    /\ task' = "reading" /\ holder' = "cycle"
    /\ UNCHANGED <<watcher, connected, reader, call, deferred, keepAlive, clocks, backoff,
                   cool>>

CycleYields ==
    /\ task = "created" /\ running /\ holder = "none" /\ floor > 0
    /\ task' = "none"
    /\ deferred' = IF deferred = None THEN floor
                   ELSE IF connected THEN deferred ELSE Debounced(backoff, floor)
    /\ pulse' = MovedBack
    /\ UNCHANGED <<watcher, connected, holder, reader, call, keepAlive, floor, timesOfUse,
                   backoff, cool>>

CycleIgnored ==
    /\ task = "created" /\ ~running
    /\ task' = "none"
    /\ UNCHANGED <<watcher, connected, holder, reader, call, deferred, keepAlive, clocks,
                   backoff, cool>>

\* The disconnect callback stood down while the cycle ran: its end reconnects.
CycleSucceeds ==
    /\ task = "reading" /\ connected
    /\ task' = "none" /\ holder' = "none" /\ connected' \in BOOLEAN
    /\ Completed
    /\ backoff' = 0 /\ cool' = 0
    /\ deferred' = IF connected' THEN deferred ELSE Reconnecting(0)
    /\ UNCHANGED <<watcher, reader, call, floor>>

\* _record_update_outcome.
NextBackoff ==
    Smaller(MaxReconnectBackoff, IF backoff = 0 THEN ReconnectBackoff ELSE 2 * backoff)

\* Slip: the reconnect is paced by the backoff before this failure.
CycleFails_OldPace ==
    /\ task = "reading"
    /\ task' = "none" /\ holder' = "none" /\ connected' \in {connected, FALSE}
    /\ quiet' = 0 /\ pulse' = "none"
    /\ backoff' = NextBackoff
    /\ deferred' = IF connected' THEN deferred ELSE Reconnecting(backoff)
    /\ cool' = IF deferred = None THEN backoff' ELSE 0
    /\ UNCHANGED <<watcher, reader, call, keepAlive, floor, since>>

\* A failed cycle keeps the next one away for the backoff, unless an update was
\* asked for in the meantime.
CycleFails ==
    /\ task = "reading"
    /\ task' = "none" /\ holder' = "none" /\ connected' \in {connected, FALSE}
    /\ quiet' = 0 /\ pulse' = "none"
    /\ backoff' = NextBackoff
    /\ deferred' = IF connected' THEN deferred ELSE Reconnecting(backoff')
    /\ cool' = IF deferred = None THEN backoff' ELSE 0
    /\ UNCHANGED <<watcher, reader, call, keepAlive, floor, since>>
-----------------------------------------------------------------------------
(* The keep-alive.                                                         *)

\* _keep_alive; a stop does not cancel its timer.
KeepAliveFires ==
    /\ keepAlive = 0
    /\ keepAlive' = NextKeepAlive
    /\ pulse' = IF pulse = "none" THEN "fired" ELSE pulse
    /\ IF UpdateInFlight
         THEN UNCHANGED <<reader, deferred>>
         ELSE /\ reader' = IF connected /\ FloorOutlastsTheLink /\ reader = "none"
                             THEN "waiting" ELSE reader
              /\ deferred' = Debounced(backoff, floor)
    /\ UNCHANGED <<watcher, connected, holder, task, call, floor, timesOfUse, backoff, cool>>

\* _keep_link_alive once it holds the operation lock: is there a read to send.
ReaderMayAsk == running /\ connected /\ FloorOutlastsTheLink /\ askable

KeepLinkAlive ==
    /\ reader = "waiting" /\ holder = "none"
    /\ \/ ReaderMayAsk /\ reader' = "asking" /\ holder' = "reader"
       \/ ~ReaderMayAsk /\ reader' = "none" /\ UNCHANGED holder
    /\ UNCHANGED <<watcher, connected, task, call, deferred, keepAlive, clocks, backoff, cool>>

\* The read ends: answered or timed out it counts as a request; after another
\* error the link, if it is still up, has carried one all the same.
KeepLinkAliveEnds ==
    /\ reader = "asking"
    /\ reader' = "none" /\ holder' = "none"
    /\ \/ Completed
       \/ quiet' = 0 /\ pulse' = "none" /\ UNCHANGED <<since, keepAlive>>
    /\ UNCHANGED <<watcher, connected, task, call, deferred, floor, backoff, cool>>
-----------------------------------------------------------------------------
(* The environment.                                                        *)

\* The lock reports that its motor runs: _hold_update.
MotorMoves ==
    /\ connected
    /\ floor' = Hold
    /\ pulse' = MovedBack
    /\ UNCHANGED <<watcher, connected, holder, task, reader, call, deferred, keepAlive,
                   timesOfUse, backoff, cool>>

\* Whoever needs the link while it is down connects, and the handshake asks the
\* lock.  A connect that began before a stop holds up the teardown.
Connecting ==
    /\ ~connected
    /\ \/ holder = "validate"
       \/ /\ running \/ teardown
          /\ holder \in {"command", "cycle"} \/ \E c \in Calls : call[c] = "connecting"

Connects ==
    /\ Connecting
    /\ connected' = TRUE
    /\ quiet' = 0 /\ pulse' = "none"
    /\ UNCHANGED <<watcher, holder, task, reader, call, deferred, keepAlive, floor, since,
                   backoff, cool>>

\* The lock goes out of reach, or gives up an idle link.
LinkDrops ==
    /\ connected
    /\ LinkCloses
    /\ UNCHANGED <<watcher, holder, task, reader, call, keepAlive, clocks, backoff, cool>>

Stop ==
    /\ running /\ ~teardown
    /\ running' = FALSE /\ teardown' = TRUE /\ deferred' = None
    /\ pulse' = MovedBack
    /\ UNCHANGED <<askable, connected, holder, task, reader, call, keepAlive, floor, timesOfUse,
                   backoff, cool>>

\* _execute_forced_disconnect: the cycle is cancelled, then the link closed, but
\* not on a restarted watcher whose disconnect timer was reset in between.
ForcedDisconnect ==
    /\ teardown
    /\ teardown' = FALSE
    /\ connected' = FALSE \/ (running /\ UNCHANGED connected)
    /\ task' = "none"
    /\ holder' = IF holder = "cycle" THEN "none" ELSE holder
    /\ deferred' = IF ~connected' /\ (UpdateInFlight \/ connected)
                     THEN Reconnecting(backoff) ELSE deferred
    /\ pulse' = MovedBack
    /\ UNCHANGED <<askable, running, reader, call, keepAlive, floor, timesOfUse, backoff, cool>>

Start ==
    /\ ~running
    /\ running' = TRUE /\ backoff' = 0 /\ cool' = 0
    /\ deferred' \in {deferred} \cup {Debounced(d, floor) : d \in RequestDelays}
    /\ UNCHANGED <<askable, teardown, connected, holder, task, reader, call, keepAlive, clocks>>

\* Nothing is due: the gate, the keep-alive, a task the event loop would run.
NothingDue ==
    /\ deferred # 0 /\ keepAlive # 0
    /\ teardown => Connecting
    /\ holder # "none" \/ (task # "created" /\ reader # "waiting")
    /\ connected => \A c \in Calls : call[c] # "connecting"

Less(timer) == IF timer > 0 THEN timer - 1 ELSE timer

Tick ==
    /\ NothingDue
    /\ deferred' = Less(deferred) /\ keepAlive' = Less(keepAlive)
    /\ floor' = Less(floor) /\ cool' = Less(cool)
    /\ since' = Smaller(since + 1, IdleDisconnect)
    /\ quiet' = IF holder = "none" THEN Smaller(quiet + 1, IdleDisconnect) ELSE 0
    /\ UNCHANGED <<watcher, connected, holder, task, reader, call, backoff, pulse>>
-----------------------------------------------------------------------------
Next ==
    \/ CommandRefused \/ CommandBegins \/ CommandSucceeds \/ CommandFails
    \/ \E c \in Calls : CallBegins(c) \/ CallAsks(c) \/ CallSucceeds(c) \/ CallFails(c)
    \/ ValidateBegins \/ ValidateSucceeds \/ ValidateFails
    \/ (\E delay \in RequestDelays : RequestUpdate(delay)) \/ DeferredUpdate
    \/ CycleBegins \/ CycleYields \/ CycleIgnored \/ CycleSucceeds \/ CycleFails
    \/ KeepAliveFires \/ KeepLinkAlive \/ KeepLinkAliveEnds
    \/ Connects \/ MotorMoves \/ LinkDrops \/ Stop \/ ForcedDisconnect \/ Start \/ Tick

Spec == Init /\ [][Next]_vars
-----------------------------------------------------------------------------
\* Once the keep-alive ticks, and while cycles succeed, an idle link is asked
\* something before the lock drops it, whatever floor the motor and the commands
\* raise, as long as no report and no request moves back the cycle a keep-alive
\* has scheduled.
LinkKeptAlive ==
    (/\ running /\ connected /\ askable /\ holder = "none"
     /\ keepAlive # None /\ backoff = 0 /\ pulse # "late") => quiet < IdleDisconnect

\* Nothing but a request, a command or a restart brings a cycle sooner after a
\* failed one than the backoff allows: no keep-alive, no yield, no disconnect.
PacedByBackoff == task = "created" => cool = 0

\* An update that is on its way is never moved back beyond the coalescing
\* delay and the floor; the exit of a command alone replaces it.
NotPostponed ==
    [][(deferred > 0 /\ deferred' # None /\ holder' = holder)
          => deferred' <= Greater(deferred, Greater(Coalesce, floor'))]_vars
=============================================================================

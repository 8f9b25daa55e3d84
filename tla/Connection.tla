----------------------------- MODULE Connection -----------------------------
(***************************************************************************)
(* The one link of a PushLock: who opens it, who is handed it, who closes  *)
(* it (push.py: _ensure_connected, the disconnect timer, the timed and the *)
(* forced disconnect, _async_handle_disconnected; lock.py: connect,        *)
(* _setup_session, disconnect).  Two coroutines use the link: the holder   *)
(* of the operation lock, a command or an update cycle, and _set_auto_lock, *)
(* which takes no operation lock.  Two background tasks close it.  All     *)
(* four meet on _connect_lock, a first-come first-served asyncio.Lock.     *)
(* Timers are untimed: one that is armed may fire now or at any later      *)
(* moment.                                                                 *)
(***************************************************************************)
EXTENDS WaitingLine, FiniteSets

CONSTANTS
    Restarts,           \* may the watcher be stopped and started again
    Links               \* identities for Lock objects, recycled when unused

ASSUME ConnectionAssumption ==
    /\ Restarts \in BOOLEAN
    /\ IsFiniteSet(Links) /\ "none" \notin Links

VARIABLES
    alwaysConnected, \* _always_connected, fixed when the watcher is made
    running,        \* _running
    client,         \* _client, or "none"
    link,           \* the state of each Lock object and of its BLE link
    lock,           \* the holder of _connect_lock, or "none"
    queue,          \* the tasks waiting for it, in order
    stage,          \* the await each task is suspended at
    held,           \* the client a user was handed
    cycle,          \* is the holder of the operation lock the update task
    cancelled,      \* the users whose task was cancelled and has not resumed
    timer,          \* _disconnect_timer: "none", "armed", or "fired" and kept
    deferred        \* is _cancel_deferred_update set

vars == <<alwaysConnected, running, client, link, lock, queue, stage, held, cycle, cancelled,
          timer, deferred>>
-----------------------------------------------------------------------------
Users == {"operation", "autoLock"}
Disconnects == {"timed", "forced"}
Tasks == Users \cup Disconnects

\* A link that bleak holds open: its sessions exist, the handshake has set no
\* key yet; keyed, but the command session does not listen yet; ready; in the
\* shutdown exchange of Lock.disconnect.
Up == {"keyless", "deaf", "ready", "closing"}
IsConnected == client # "none" /\ link[client] \in Up

UserStages == {"idle", "created", "queued", "establishing", "handshake", "notify",
               "abandoning", "using", "toClose", "closing", "retry"}
DisconnectStages == {"idle", "begin", "awaiting", "toClose", "closing"}

\* The type invariant; the line for the connect lock holds the tasks that wait
\* for it and no other.
TypeOK ==
    /\ alwaysConnected \in BOOLEAN
    /\ running \in BOOLEAN /\ cycle \in BOOLEAN /\ deferred \in BOOLEAN
    /\ client \in Links \cup {"none"}
    /\ link \in [Links -> Up \cup {"down", "establishing"}]
    /\ lock \in Tasks \cup {"none"}
    /\ stage \in [Tasks -> UserStages \cup DisconnectStages]
    /\ queue \in Seq({t \in Tasks : stage[t] \in {"queued", "toClose"}})
    /\ \A t \in Tasks : stage[t] \in {"queued", "toClose"} => \E i \in DOMAIN queue : queue[i] = t
    /\ held \in [Users -> Links \cup {"none"}]
    /\ cancelled \subseteq Users
    /\ timer \in {"none", "armed", "fired"}

Init ==
    /\ alwaysConnected \in BOOLEAN
    /\ running = TRUE
    /\ client = "none" /\ lock = "none" /\ queue = <<>>
    /\ link = [l \in Links |-> "down"]
    /\ stage = [t \in Tasks |-> "idle"]
    /\ held = [u \in Users |-> "none"]
    /\ cycle = FALSE /\ cancelled = {} /\ deferred = FALSE
    /\ timer = "none"
-----------------------------------------------------------------------------
\* _operation_lock.locked(); a created update task does not hold it yet.
OperationLocked == stage["operation"] \notin {"idle", "created"}
UpdateInFlight == cycle

\* _reset_disconnect_timer; an always-connected watcher has no use for it, and
\* then leaves even a fired handle in place.
ResetTimer == IF alwaysConnected /\ running THEN timer ELSE "armed"

\* A waiter was woken by the release of the connect lock and runs in the next
\* turn of the event loop: no answer and no deadline falls in between.
WaiterWoken == lock = "none" /\ queue # <<>>

\* _disconnected_callback, called when the link of a Lock has gone: it may
\* schedule the reconnect; a latched authentication failure keeps it from it.
DisconnectedCallback ==
    deferred' \in IF running /\ alwaysConnected /\ ~UpdateInFlight
                    THEN {deferred, TRUE} ELSE {deferred}

\* The end of a user's call.  It may arm the update timer: a lock command its
\* poll, a cycle the reconnect, any completed operation the priming drain.
End(u) ==
    /\ stage' = [stage EXCEPT ![u] = "idle"]
    /\ held' = [held EXCEPT ![u] = "none"]
    /\ cancelled' = cancelled \ {u}
    /\ cycle' = (cycle /\ u # "operation")
    /\ deferred' \in {deferred, TRUE}

\* The client is handed out: a command and an auto-lock write drop the update
\* that was scheduled (_cancel_future_update), a cycle is that update.
HandOut(u) ==
    /\ stage' = [stage EXCEPT ![u] = "using"]
    /\ held' = [held EXCEPT ![u] = client]
    /\ deferred' = (deferred /\ u = "operation" /\ cycle)

Unused == {l \in Links : link[l] = "down" /\ \A w \in Users : held[w] # l}

\* A new Lock object, and establish_connection on it, under the connect lock.
BeginConnect(u) ==
    /\ Unused # {}
    /\ client' = CHOOSE l \in Unused : TRUE
    /\ link' = [link EXCEPT ![client'] = "establishing"]
    /\ lock' = u
    /\ stage' = [stage EXCEPT ![u] = "establishing"]
    /\ UNCHANGED <<held, deferred>>

\* Slip: a task that waited for the connect lock connects without looking again.
ConnectUnderLock_Unchecked(u) == BeginConnect(u) /\ UNCHANGED timer

\* Under the connect lock the connection is looked at again.
ConnectUnderLock(u) ==
    \/ IsConnected /\ HandOut(u) /\ timer' = ResetTimer /\ UNCHANGED <<client, link, lock>>
    \/ ~IsConnected /\ BeginConnect(u) /\ UNCHANGED timer

\* _ensure_connected up to its first await.
EnsureConnected(u) ==
    \/ /\ IsConnected /\ HandOut(u) /\ timer' = ResetTimer
       /\ UNCHANGED <<client, link, lock, queue>>
    \/ /\ ~IsConnected /\ Free(lock, queue)
       /\ ConnectUnderLock(u) /\ UNCHANGED queue
    \/ /\ ~IsConnected /\ ~Free(lock, queue)
       /\ timer' = IF lock # "none" THEN ResetTimer ELSE timer
       /\ queue' = Append(queue, u)
       /\ stage' = [stage EXCEPT ![u] = "queued"]
       /\ UNCHANGED <<client, link, lock, held, deferred>>

\* What follows _execute_disconnect for the task that ran it.
AfterDisconnect(t) == IF t \in Users THEN "retry" ELSE "idle"

\* Slip: the disconnect does not ask whether the timer was reset.
ExecuteDisconnect_Unasked(t, tm, lnk) ==
    /\ client' = "none"
    /\ IF client # "none" /\ lnk[client] \in Up
         THEN /\ link' = [lnk EXCEPT ![client] = "closing"]
              /\ lock' = t
              /\ stage' = [stage EXCEPT ![t] = "closing"]
         ELSE /\ link' = lnk /\ lock' = "none"
              /\ stage' = [stage EXCEPT ![t] = AfterDisconnect(t)]

\* The body of _execute_disconnect, the connect lock just taken: a timer that
\* was set since means the link is in use again.  tm is the timer, lnk the
\* links as this step leaves them otherwise.
ExecuteDisconnect(t, tm, lnk) ==
    IF running /\ tm # "none"
      THEN /\ stage' = [stage EXCEPT ![t] = AfterDisconnect(t)]
           /\ link' = lnk /\ lock' = "none" /\ UNCHANGED client
      ELSE /\ client' = "none"
           /\ IF client # "none" /\ lnk[client] \in Up
                THEN /\ link' = [lnk EXCEPT ![client] = "closing"]
                     /\ lock' = t
                     /\ stage' = [stage EXCEPT ![t] = "closing"]
                ELSE /\ link' = lnk /\ lock' = "none"
                     /\ stage' = [stage EXCEPT ![t] = AfterDisconnect(t)]

\* Take the connect lock for a disconnect, or wait for it.
Disconnect(t, lk, tm, lnk) ==
    \/ /\ Free(lk, queue)
       /\ ExecuteDisconnect(t, tm, lnk) /\ UNCHANGED queue
    \/ /\ ~Free(lk, queue)
       /\ queue' = Append(queue, t)
       /\ stage' = [stage EXCEPT ![t] = "toClose"]
       /\ lock' = lk /\ link' = lnk /\ UNCHANGED client

\* Slip: the cleanup forgets the client without closing its link.
HandleDisconnected_Forgets(u, lk, lnk) ==
    /\ stage' = [stage EXCEPT ![u] = "retry"]
    /\ client' = "none" /\ timer' = "none"
    /\ lock' = lk /\ link' = lnk /\ UNCHANGED queue

\* _async_handle_disconnected: a user's request failed with a retryable error.
\* While a connection is in progress the cleanup is left to it.
HandleDisconnected(u, lk, lnk) ==
    \/ /\ lk # "none"
       /\ stage' = [stage EXCEPT ![u] = "retry"]
       /\ lock' = lk /\ link' = lnk /\ UNCHANGED <<client, queue, timer>>
    \/ /\ lk = "none"
       /\ timer' = "none"
       /\ Disconnect(u, lk, "none", lnk)

\* retry_bluetooth_connection_error: a retryable error is cleaned up after, a
\* failed authentication is tried again as it is, any other error ends the call.
Fail(u, lk, lnk) ==
    \/ /\ HandleDisconnected(u, lk, lnk)
       /\ held' = [held EXCEPT ![u] = "none"]
       /\ UNCHANGED <<cycle, cancelled, deferred>>
    \/ /\ lock' = lk /\ link' = lnk /\ UNCHANGED <<client, queue, timer>>
       /\ \/ /\ stage' = [stage EXCEPT ![u] = "retry"]
             /\ held' = [held EXCEPT ![u] = "none"]
             /\ UNCHANGED <<cycle, cancelled, deferred>>
          \/ End(u)
-----------------------------------------------------------------------------
(* The users.                                                              *)

\* A command takes the operation lock; _set_auto_lock does not.
Begin(u) ==
    /\ stage[u] = "idle" /\ running
    /\ EnsureConnected(u)
    /\ UNCHANGED <<running, cycle, cancelled>>

\* The created update task runs: it takes the operation lock, or ends at once
\* when the watcher was stopped.
CycleBegins ==
    /\ stage["operation"] = "created" /\ "operation" \notin cancelled
    /\ \/ running /\ EnsureConnected("operation") /\ UNCHANGED <<cycle, cancelled>>
       \/ ~running /\ UNCHANGED <<client, link, lock, queue, timer>> /\ End("operation")
    /\ UNCHANGED running

\* A queued user takes the connect lock.
ConnectLockTaken(u) ==
    /\ stage[u] = "queued" /\ u \notin cancelled
    /\ lock = "none" /\ Head(queue) = u
    /\ queue' = Tail(queue)
    /\ ConnectUnderLock(u)
    /\ UNCHANGED <<running, cycle, cancelled>>

\* establish_connection returns and the sessions are made, so is_connected holds.
Established(u) ==
    /\ stage[u] = "establishing" /\ u \notin cancelled
    /\ link' = [link EXCEPT ![client] = "keyless"]
    /\ stage' = [stage EXCEPT ![u] = "handshake"]
    /\ UNCHANGED <<running, client, lock, queue, held, cycle, cancelled, timer, deferred>>

\* _setup_session: the two handshake requests were answered.
SetupSession(u) ==
    /\ stage[u] = "handshake" /\ u \notin cancelled
    /\ link[client] = "keyless"
    /\ link' = [link EXCEPT ![client] = "deaf"]
    /\ stage' = [stage EXCEPT ![u] = "notify"]
    /\ UNCHANGED <<running, client, lock, queue, held, cycle, cancelled, timer, deferred>>

\* session.start_notify, and the end of _ensure_connected.
Connects(u) ==
    /\ stage[u] = "notify" /\ u \notin cancelled
    /\ link[client] = "deaf"
    /\ link' = [link EXCEPT ![client] = "ready"]
    /\ timer' = ResetTimer
    /\ lock' = "none"
    /\ HandOut(u)
    /\ UNCHANGED <<running, client, queue, cycle, cancelled>>

\* The connect fails or is cancelled: an open link is shut down first.
ConnectFails(u) ==
    /\ stage[u] \in {"establishing", "handshake", "notify"}
    /\ \/ /\ link[client] \in Up
          /\ link' = [link EXCEPT ![client] = "closing"]
          /\ stage' = [stage EXCEPT ![u] = "abandoning"]
          /\ UNCHANGED <<client, lock, queue, held, cycle, cancelled, timer, deferred>>
       \/ /\ link[client] \notin Up
          /\ \/ u \notin cancelled /\ Fail(u, "none", [link EXCEPT ![client] = "down"])
             \/ /\ u \in cancelled
                /\ lock' = "none" /\ link' = [link EXCEPT ![client] = "down"]
                /\ UNCHANGED <<client, queue, timer>> /\ End(u)
    /\ UNCHANGED running

\* The shutdown exchange after a failed connect ends, one way or the other.
AbandonEnds(u) ==
    /\ stage[u] = "abandoning"
    /\ \/ u \notin cancelled /\ Fail(u, "none", [link EXCEPT ![client] = "down"])
       \/ /\ u \in cancelled
          /\ lock' = "none" /\ link' = [link EXCEPT ![client] = "down"]
          /\ UNCHANGED <<client, queue, timer>> /\ End(u)
    /\ UNCHANGED running

\* The call is answered.  _complete_operation resets the timer; a cycle leaves
\* it, but after its first update.
UseEnds(u) ==
    /\ stage[u] = "using" /\ u \notin cancelled /\ ~WaiterWoken
    /\ link[held[u]] = "ready"
    /\ timer' \in IF u = "operation" /\ cycle THEN {timer, ResetTimer} ELSE {ResetTimer}
    /\ UNCHANGED <<client, link, lock, queue, running>>
    /\ End(u)

\* The request fails: the link is gone, an answer stays away, a write is refused.
UseFails(u) ==
    /\ stage[u] = "using" /\ u \notin cancelled /\ ~WaiterWoken
    /\ Fail(u, lock, link)
    /\ UNCHANGED running

\* The attempts go on, unless the watcher was stopped.
Retry(u) ==
    /\ stage[u] = "retry" /\ u \notin cancelled
    /\ running \/ (u = "operation" /\ cycle)
    /\ EnsureConnected(u)
    /\ UNCHANGED <<running, cycle, cancelled>>

GiveUp(u) ==
    /\ stage[u] = "retry" /\ u \notin cancelled
    /\ UNCHANGED <<running, client, link, lock, queue, timer>>
    /\ End(u)

\* A caller cancels its call.
Cancel(u) ==
    /\ stage[u] \notin {"idle", "created"} /\ ~(u = "operation" /\ cycle)
    /\ cancelled' = cancelled \cup {u}
    /\ UNCHANGED <<running, client, link, lock, queue, stage, held, cycle, timer, deferred>>

\* Slip: the cancelled task leaves its place in the line.
Cancelled_StaysInLine(u) ==
    /\ u \in cancelled
    /\ stage[u] \in {"created", "queued", "toClose", "using", "retry"}
    /\ UNCHANGED <<running, client, link, lock, queue, timer>>
    /\ End(u)

\* The cancelled task resumes; connects and disconnects in progress are
\* finished by ConnectFails, AbandonEnds and DisconnectEnds.
Cancelled(u) ==
    /\ u \in cancelled
    /\ stage[u] \in {"created", "queued", "toClose", "using", "retry"}
    /\ queue' = Without(queue, u)
    /\ UNCHANGED <<running, client, link, lock, timer>>
    /\ End(u)
-----------------------------------------------------------------------------
(* The disconnects.                                                        *)

\* A task takes the connect lock to close the link.
CloseLockTaken(t) ==
    /\ stage[t] = "toClose" /\ t \notin cancelled
    /\ lock = "none" /\ Head(queue) = t
    /\ queue' = Tail(queue)
    /\ ExecuteDisconnect(t, timer, link)
    /\ UNCHANGED <<running, held, cycle, cancelled, timer, deferred>>

\* client.disconnect() returns: the link is down, whoever used it.
DisconnectEnds(t) ==
    /\ stage[t] = "closing"
    /\ link' = [l \in Links |-> IF link[l] = "closing" THEN "down" ELSE link[l]]
    /\ lock' = "none"
    /\ UNCHANGED <<running, client, queue, timer>>
    /\ \/ /\ t \in cancelled /\ End(t)
       \/ /\ t \notin cancelled
          /\ stage' = [stage EXCEPT ![t] = AfterDisconnect(t)]
          /\ DisconnectedCallback
          /\ UNCHANGED <<held, cycle, cancelled>>

\* _deferred_update: the update task is created once no other is in flight and
\* the operation lock is free; otherwise, or under the floor, it is re-armed.
DeferredUpdate ==
    /\ deferred /\ ~UpdateInFlight /\ ~OperationLocked
    /\ deferred' = FALSE /\ cycle' = TRUE
    /\ stage' = [stage EXCEPT !["operation"] = "created"]
    /\ UNCHANGED <<running, client, link, lock, queue, held, cancelled, timer>>

\* _disconnect_with_timer.
DisconnectWithTimer ==
    /\ timer = "armed" /\ stage["timed"] = "idle"
    /\ \/ /\ OperationLocked
          /\ timer' = IF alwaysConnected /\ running THEN "fired" ELSE "armed"
          /\ UNCHANGED <<stage, cycle, deferred>>
       \/ /\ ~OperationLocked /\ deferred
          /\ timer' = IF alwaysConnected /\ running THEN "fired" ELSE "armed"
          /\ \/ UNCHANGED <<stage, cycle, deferred>>
             \/ /\ ~UpdateInFlight
                /\ deferred' = FALSE /\ cycle' = TRUE
                /\ stage' = [stage EXCEPT !["operation"] = "created"]
       \/ /\ ~OperationLocked /\ ~deferred
          /\ timer' = "none"
          /\ stage' = [stage EXCEPT !["timed"] = "begin"]
          /\ UNCHANGED <<cycle, deferred>>
    /\ UNCHANGED <<running, client, link, lock, queue, held, cancelled>>

\* The background task of a timed disconnect runs.
TimedDisconnect ==
    /\ stage["timed"] = "begin"
    /\ Disconnect("timed", lock, timer, link)
    /\ UNCHANGED <<running, held, cycle, cancelled, timer, deferred>>

\* The background task of a stop runs: it clears the timer, and cancels a
\* cycle and waits for its end before it closes the link.
ForcedDisconnect ==
    /\ stage["forced"] = "begin"
    /\ timer' = "none"
    /\ \/ /\ cycle
          /\ cancelled' = cancelled \cup {"operation"}
          /\ stage' = [stage EXCEPT !["forced"] = "awaiting"]
          /\ UNCHANGED <<client, link, lock, queue>>
       \/ /\ ~cycle
          /\ Disconnect("forced", lock, "none", link)
          /\ UNCHANGED cancelled
    /\ UNCHANGED <<running, held, cycle, deferred>>

ForcedDisconnectGoesOn ==
    /\ stage["forced"] = "awaiting" /\ ~(cycle /\ "operation" \in cancelled)
    /\ Disconnect("forced", lock, timer, link)
    /\ UNCHANGED <<running, held, cycle, cancelled, timer, deferred>>
-----------------------------------------------------------------------------
(* The environment.                                                        *)

\* A frame on a link that listens: _state_callback resets the timer.
StateCallback ==
    /\ \E l \in Links : link[l] = "ready"
    /\ timer' = ResetTimer
    /\ UNCHANGED <<running, client, link, lock, queue, stage, held, cycle, cancelled, deferred>>

\* The lock, or the radio, drops the link.
LinkDrops(l) ==
    /\ link[l] \in Up
    /\ link' = [link EXCEPT ![l] = "down"]
    /\ DisconnectedCallback
    /\ UNCHANGED <<running, client, lock, queue, stage, held, cycle, cancelled, timer>>

\* An update is asked for: an advertisement, the application, the keep-alive.
RequestUpdate ==
    /\ running /\ ~deferred
    /\ deferred' = TRUE
    /\ UNCHANGED <<running, client, link, lock, queue, stage, held, cycle, cancelled, timer>>

Start ==
    /\ ~running
    /\ running' = TRUE
    /\ deferred' \in {deferred, TRUE}
    /\ UNCHANGED <<client, link, lock, queue, stage, held, cycle, cancelled, timer>>

\* Slip: a stop leaves the link to the idle disconnect.
Stop_TimerOnly ==
    /\ Restarts /\ running
    /\ running' = FALSE /\ deferred' = FALSE
    /\ UNCHANGED <<client, link, lock, queue, stage, held, cycle, cancelled, timer>>

\* _cancel; one forced disconnect at a time is followed.
Stop ==
    /\ Restarts /\ running /\ stage["forced"] = "idle"
    /\ running' = FALSE /\ deferred' = FALSE
    /\ stage' = [stage EXCEPT !["forced"] = "begin"]
    /\ UNCHANGED <<client, link, lock, queue, held, cycle, cancelled, timer>>
-----------------------------------------------------------------------------
UserStep(u) ==
    \/ ConnectLockTaken(u) \/ Established(u) \/ SetupSession(u) \/ Connects(u)
    \/ ConnectFails(u) \/ AbandonEnds(u) \/ UseEnds(u) \/ UseFails(u)
    \/ Retry(u) \/ GiveUp(u) \/ Cancelled(u)

Next ==
    /\ UNCHANGED alwaysConnected
    /\ \/ \E u \in Users : Begin(u) \/ Cancel(u) \/ UserStep(u)
       \/ \E t \in Tasks : CloseLockTaken(t) \/ DisconnectEnds(t)
       \/ CycleBegins \/ DeferredUpdate \/ DisconnectWithTimer \/ TimedDisconnect
       \/ ForcedDisconnect \/ ForcedDisconnectGoesOn
       \/ StateCallback \/ RequestUpdate \/ Start \/ Stop
       \/ \E l \in Links : LinkDrops(l)

Spec == Init /\ [][Next]_vars
-----------------------------------------------------------------------------
\* At most one link is open or being opened, whatever tasks ask for one.
AtMostOneLink ==
    Cardinality({l \in Links : link[l] \in Up \cup {"establishing"}}) <= 1

\* No link leaks: one that is open is _client, or the holder of the connect
\* lock is closing it.
NoLinkLeaks ==
    \A l \in Links : link[l] \in Up =>
        \/ l = client
        \/ lock # "none" /\ stage[lock] \in {"closing", "abandoning"}

\* While a demand-connected watcher runs and no forced disconnect of an earlier
\* stop is pending, the idle disconnect does not close the link under the holder
\* of the operation lock, however the timer and the connect lock interleave.
OperationKeepsItsLink ==
    [][(stage["timed"] # "closing" /\ stage'["timed"] = "closing") =>
         ~(/\ running /\ ~alwaysConnected /\ stage["forced"] = "idle"
           /\ stage["operation"] = "using" /\ held["operation"] = client)]_vars

\* A client that is handed out has the session key.
RequestIsKeyed == \A u \in Users : stage[u] = "using" => link[held[u]] # "keyless"

\* After a stop for good no link stays open.
StoppedLinkCloses == []<>running \/ <>[](\A l \in Links : link[l] \notin Up)

\* Whatever is awaited ends, by an answer, an error or a deadline; a created
\* task runs; a timer that is armed fires.
Fairness ==
    /\ \A u \in Users : WF_vars(UNCHANGED alwaysConnected /\ UserStep(u))
    /\ \A t \in Tasks :
         WF_vars(UNCHANGED alwaysConnected /\ (CloseLockTaken(t) \/ DisconnectEnds(t)))
    /\ WF_vars(UNCHANGED alwaysConnected /\ CycleBegins)
    /\ WF_vars(UNCHANGED alwaysConnected /\ DisconnectWithTimer)
    /\ WF_vars(UNCHANGED alwaysConnected /\ TimedDisconnect)
    /\ WF_vars(UNCHANGED alwaysConnected /\ (ForcedDisconnect \/ ForcedDisconnectGoesOn))

FairSpec == Spec /\ Fairness
=============================================================================

------------------------ MODULE UpdateScheduleProofs ------------------------
(***************************************************************************)
(* Proofs about the update schedule, for every length of its delays.       *)
(***************************************************************************)
EXTENDS UpdateSchedule, TLAPS

\* Where a failed cycle still keeps the next one away, none is under way and the
\* timer of the next does not end sooner.
TimerRespectsThePace ==
    cool > 0 => task = "none" /\ (deferred = None \/ deferred >= cool)

\* The inductive invariant.
IInv == FlagsTyped /\ TimersTyped /\ TimerRespectsThePace

LEMMA Constants ==
    /\ KeepAlive \in Nat \ {0} /\ IdleDisconnect \in Nat \ {0} /\ Margin \in Nat \ {0}
    /\ Hold \in Nat \ {0} /\ Coalesce \in Nat \ {0} /\ ReconnectBackoff \in Nat \ {0}
    /\ MaxReconnectBackoff \in Nat \ {0} /\ OperationDefer \in Nat \ {0}
    /\ TaskDefer \in Nat \ {0}
    /\ ReconnectBackoff <= MaxReconnectBackoff
    /\ RequestDelays \subseteq Nat
  BY ScheduleAssumption DEF ScheduleAssumption

USE Constants DEF None, Greater, Smaller

\* The debounce yields a delay, never one short of both the request and the
\* timer it replaces, never one beyond the timer, the coalescing and the floor.
LEMMA DebouncedBounds ==
  ASSUME TimersTyped, NEW delay \in Nat, NEW fl \in Nat
  PROVE  /\ Debounced(delay, fl) \in Nat
         /\ deferred = None \/ deferred >= cool => (cool <= delay => Debounced(delay, fl) >= cool)
         /\ deferred = None => Debounced(delay, fl) >= delay
         /\ deferred > 0 => Debounced(delay, fl) <= Greater(deferred, Greater(Coalesce, fl))
  <1> USE DEF TimersTyped, Debounced, Floored
  <1>1. CASE deferred = None
    BY <1>1
  <1>2. CASE deferred \in 0 .. Coalesce - 1
    BY <1>2
  <1>3. CASE deferred >= Coalesce /\ deferred < delay
    BY <1>3
  <1>4. CASE deferred >= Coalesce /\ ~(deferred < delay)
    BY <1>4
  <1> QED BY <1>1, <1>2, <1>3, <1>4

LEMMA ReconnectingBounds ==
  ASSUME TimersTyped, NEW pace \in Nat
  PROVE  /\ Reconnecting(pace) \in Nat \cup {None}
         /\ Reconnecting(pace) = None => deferred = None
         /\ (deferred = None \/ deferred >= cool) /\ cool <= pace
              => Reconnecting(pace) = None \/ Reconnecting(pace) >= cool
         /\ deferred = None => Reconnecting(pace) = None \/ Reconnecting(pace) >= pace
         /\ deferred > 0 => Reconnecting(pace) <= Greater(deferred, Greater(Coalesce, floor))
  <1>1. floor \in Nat /\ deferred \in Nat \cup {None} /\ cool \in Nat
    BY DEF TimersTyped
  <1>2. CASE running
    <2>1. Reconnecting(pace) = Debounced(pace, floor)
      BY <1>2 DEF Reconnecting
    <2> HIDE DEF Greater
    <2>2. Debounced(pace, floor) # None
      BY <1>1, DebouncedBounds
    <2> QED BY <1>1, <2>1, <2>2, DebouncedBounds
  <1>3. CASE ~running
    BY <1>1, <1>3 DEF Reconnecting
  <1> QED BY <1>2, <1>3

LEMMA NextBackoffBounds ==
  ASSUME TimersTyped
  PROVE  NextBackoff \in 1 .. MaxReconnectBackoff
  BY DEF TimersTyped, NextBackoff

\* Nothing but the steps of commands, cycles and the keep-alive's read moves the
\* operation lock, and each takes it free and lets go of its own.
LEMMA FlagsKept == ASSUME FlagsTyped, Next PROVE FlagsTyped'
  <1> USE DEF FlagsTyped, watcher, timesOfUse, clocks, Completed, LinkCloses, MovedBack
  <1>0. ASSUME NEW c \in Calls, NEW s \in {"none", "connecting", "asking"},
               call' = [call EXCEPT ![c] = s]
        PROVE  /\ call' \in [Calls -> {"none", "connecting", "asking"}]
               /\ call'["keypad"] = IF c = "keypad" THEN s ELSE call["keypad"]
    BY <1>0 DEF Calls
  <1>a. CASE \E c \in Calls : CallBegins(c) \/ CallAsks(c) \/ CallSucceeds(c) \/ CallFails(c)
    <2>0. PICK c \in Calls : CallBegins(c) \/ CallAsks(c) \/ CallSucceeds(c) \/ CallFails(c)
      BY <1>a
    <2>1. CASE CallBegins(c)
      BY <1>0, <2>1 DEF CallBegins
    <2>2. CASE CallAsks(c)
      BY <1>0, <2>2 DEF CallAsks
    <2>3. CASE CallSucceeds(c)
      BY <1>0, <2>3 DEF CallSucceeds, CallEnds
    <2>4. CASE CallFails(c)
      <3>1. UNCHANGED <<askable, running, teardown, task, reader>> /\ connected' \in BOOLEAN
            /\ pulse' \in {"none", "fired", "late"}
        BY <2>4 DEF CallFails
      <3>2. CASE CallEnds(c)
        BY <1>0, <2>4, <3>1, <3>2 DEF CallFails, CallEnds
      <3>3. CASE call' = [call EXCEPT ![c] = "connecting"] /\ UNCHANGED holder
        BY <1>0, <2>4, <3>1, <3>3 DEF CallFails
      <3> QED BY <2>4, <3>2, <3>3 DEF CallFails
    <2> QED BY <2>0, <2>1, <2>2, <2>3, <2>4
  <1>1. CASE CommandRefused \/ CommandBegins \/ CommandSucceeds \/ CommandFails
    <2>0. CASE CommandRefused
      BY <2>0 DEF CommandRefused
    <2>1. CASE CommandBegins
      BY <2>1 DEF CommandBegins
    <2>2. CASE CommandSucceeds
      BY <2>2 DEF CommandSucceeds
    <2>3. CASE CommandFails
      BY <2>3 DEF CommandFails
    <2> QED BY <1>1, <2>0, <2>1, <2>2, <2>3
  <1>b. CASE ValidateBegins \/ ValidateSucceeds \/ ValidateFails
    BY <1>b DEF ValidateBegins, ValidateSucceeds, ValidateFails
  <1>2. CASE (\E delay \in RequestDelays : RequestUpdate(delay)) \/ DeferredUpdate
    BY <1>2 DEF RequestUpdate, DeferredUpdate, UpdateInFlight
  <1>3. CASE CycleBegins \/ CycleYields \/ CycleIgnored
    BY <1>3 DEF CycleBegins, CycleYields, CycleIgnored
  <1>4. CASE CycleSucceeds \/ CycleFails
    BY <1>4 DEF CycleSucceeds, CycleFails
  <1>5. CASE KeepAliveFires
    BY <1>5 DEF KeepAliveFires
  <1>6. CASE KeepLinkAlive \/ KeepLinkAliveEnds
    BY <1>6 DEF KeepLinkAlive, KeepLinkAliveEnds
  <1>7. CASE Connects \/ MotorMoves \/ LinkDrops
    BY <1>7 DEF Connects, MotorMoves, LinkDrops
  <1>8. CASE Stop \/ ForcedDisconnect \/ Start
    BY <1>8 DEF Stop, ForcedDisconnect, Start
  <1>9. CASE Tick
    BY <1>9 DEF Tick
  <1> QED
    BY <1>a, <1>b, <1>1, <1>2, <1>3, <1>4, <1>5, <1>6, <1>7, <1>8, <1>9 DEF Next

\* The link's closing leaves the timer alone or schedules the reconnect.
LEMMA LinkClosesShape ==
  ASSUME LinkCloses
  PROVE  connected' = FALSE /\ deferred' \in {deferred, Reconnecting(backoff)}
  BY DEF LinkCloses

\* What a failing call leaves alone.
LEMMA CallFailsShape ==
  ASSUME NEW c \in Calls, CallFails(c)
  PROVE  /\ UNCHANGED <<watcher, task, reader, keepAlive, floor, since, backoff, cool>>
         /\ LinkCloses \/ UNCHANGED <<connected, deferred>>
         /\ (holder' = holder /\ UNCHANGED <<quiet, pulse>>) \/ (quiet' = 0 /\ pulse' = "none")
  BY DEF CallFails

\* So does a cycle of validate() that fails.
LEMMA ValidateFailsShape ==
  ASSUME ValidateFails
  PROVE  /\ UNCHANGED <<watcher, task, reader, call, keepAlive, floor, since, backoff, cool>>
         /\ LinkCloses \/ UNCHANGED <<connected, deferred>>
         /\ quiet' = 0 /\ pulse' = "none"
  BY DEF ValidateFails

\* What the end of a teardown does to the timer.
LEMMA ForcedDisconnectShape ==
  ASSUME ForcedDisconnect
  PROVE  /\ deferred' \in {deferred, Reconnecting(backoff)} /\ pulse' = MovedBack /\ task' = "none"
         /\ UNCHANGED <<askable, running, keepAlive, floor, since, quiet, backoff, cool>>
  BY DEF ForcedDisconnect, timesOfUse

\* No timer is set beyond the longest delay it knows.
LEMMA TimersKept == ASSUME FlagsTyped, TimersTyped, Next PROVE TimersTyped'
  <1> USE DEF watcher, timesOfUse, clocks, Floored
  <1>0. /\ floor \in Nat /\ backoff \in Nat /\ 0 \in Nat
        /\ NextKeepAlive \in None .. KeepAlive
    BY DEF TimersTyped, NextKeepAlive
  <1>1. CASE CommandRefused \/ CommandBegins
    BY <1>1 DEF CommandRefused, CommandBegins, TimersTyped
  <1>a. ASSUME NEW c \in Calls, CallBegins(c) \/ CallAsks(c) \/ CallSucceeds(c) \/ CallFails(c)
        PROVE  TimersTyped'
    <2>1. CASE CallBegins(c) \/ CallAsks(c)
      BY <2>1 DEF CallBegins, CallAsks, TimersTyped
    <2>2. CASE CallSucceeds(c)
      <3>1. /\ keepAlive' \in None .. KeepAlive /\ since' = 0 /\ quiet' = 0 /\ backoff' = 0
            /\ cool' = 0 /\ UNCHANGED <<deferred, floor>>
        BY <1>0, <2>2 DEF CallSucceeds, Completed
      <3> QED BY <3>1 DEF TimersTyped
    <2>3. CASE CallFails(c)
      <3>1. deferred' \in Nat \cup {None}
        BY <1>0, <2>3, CallFailsShape, LinkClosesShape, ReconnectingBounds DEF TimersTyped
      <3>2. quiet' \in {0, quiet} /\ UNCHANGED <<keepAlive, floor, since, backoff, cool>>
        BY <2>3, CallFailsShape
      <3> QED BY <3>1, <3>2 DEF TimersTyped
    <2> QED BY <1>a, <2>1, <2>2, <2>3
  <1>2. CASE CommandSucceeds
    <2>1. deferred' \in Nat \cup {None} /\ floor' \in 0 .. Hold
      BY <1>2 DEF CommandSucceeds, FinalizeOperation, TimersTyped
    <2>2. keepAlive' \in None .. KeepAlive /\ since' = 0 /\ quiet' = 0 /\ backoff' = 0 /\ cool' = 0
      BY <1>0, <1>2 DEF CommandSucceeds, Completed
    <2> QED BY <2>1, <2>2 DEF TimersTyped
  <1>3. CASE CommandFails
    <2>1. deferred' \in Nat \cup {None} /\ floor' \in 0 .. Hold
      BY <1>3 DEF CommandFails, FinalizeOperation, TimersTyped
    <2>2. quiet' = 0 /\ cool' = 0 /\ UNCHANGED <<keepAlive, since, backoff>>
      BY <1>3 DEF CommandFails
    <2> QED BY <2>1, <2>2 DEF TimersTyped
  <1>b. CASE ValidateBegins \/ ValidateSucceeds
    <2>1. /\ keepAlive' \in None .. KeepAlive /\ since' \in {0, since} /\ quiet' \in {0, quiet}
          /\ quiet' <= since' /\ UNCHANGED <<deferred, floor>>
          /\ (backoff' = 0 /\ cool' = 0) \/ UNCHANGED <<backoff, cool>>
      BY <1>0, <1>b DEF ValidateBegins, ValidateSucceeds, Completed, TimersTyped
    <2> QED BY <2>1 DEF TimersTyped
  <1>c. CASE ValidateFails
    <2>1. deferred' \in Nat \cup {None}
      BY <1>0, <1>c, ValidateFailsShape, LinkClosesShape, ReconnectingBounds DEF TimersTyped
    <2> QED BY <1>c, <2>1, ValidateFailsShape DEF TimersTyped
  <1>4. ASSUME NEW delay \in RequestDelays, RequestUpdate(delay) PROVE TimersTyped'
    <2>1. deferred' \in Nat
      BY <1>0, <1>4, DebouncedBounds DEF RequestUpdate
    <2> QED BY <1>4, <2>1 DEF RequestUpdate, TimersTyped
  <1>5. CASE DeferredUpdate \/ CycleBegins \/ CycleIgnored
    BY <1>5 DEF DeferredUpdate, CycleBegins, CycleIgnored, TimersTyped
  <1>6. CASE CycleYields
    <2>1. deferred' \in Nat \cup {None}
      BY <1>0, <1>6, DebouncedBounds DEF CycleYields, TimersTyped
    <2> QED BY <1>6, <2>1 DEF CycleYields, TimersTyped
  <1>7. CASE CycleSucceeds
    <2>1. deferred' \in Nat \cup {None}
      BY <1>0, <1>7, ReconnectingBounds DEF CycleSucceeds, TimersTyped
    <2>2. /\ keepAlive' \in None .. KeepAlive /\ since' = 0 /\ quiet' = 0
          /\ backoff' = 0 /\ cool' = 0 /\ floor' = floor
      BY <1>0, <1>7 DEF CycleSucceeds, Completed
    <2> QED BY <2>1, <2>2 DEF TimersTyped
  <1>8. CASE CycleFails
    <2>0. backoff' \in 1 .. MaxReconnectBackoff
      BY <1>8, NextBackoffBounds DEF CycleFails
    <2>1. deferred' \in Nat \cup {None}
      BY <1>8, <2>0, ReconnectingBounds DEF CycleFails, TimersTyped
    <2>2. cool' \in 0 .. backoff' /\ quiet' = 0 /\ UNCHANGED <<keepAlive, floor, since>>
      BY <1>8, <2>0 DEF CycleFails
    <2> QED BY <2>0, <2>1, <2>2 DEF TimersTyped
  <1>9. CASE KeepAliveFires
    <2>1. deferred' \in Nat \cup {None}
      BY <1>0, <1>9, DebouncedBounds DEF KeepAliveFires, TimersTyped
    <2> QED BY <1>0, <1>9, <2>1 DEF KeepAliveFires, TimersTyped
  <1>10. CASE KeepLinkAlive
    BY <1>10 DEF KeepLinkAlive, TimersTyped
  <1>11. CASE KeepLinkAliveEnds
    <2>1. /\ keepAlive' \in None .. KeepAlive /\ since' \in 0 .. IdleDisconnect /\ quiet' = 0
          /\ UNCHANGED <<deferred, floor, backoff, cool>>
      BY <1>0, <1>11 DEF KeepLinkAliveEnds, Completed, TimersTyped
    <2> QED BY <2>1 DEF TimersTyped
  <1>12. CASE Connects \/ MotorMoves
    BY <1>12 DEF Connects, MotorMoves, TimersTyped
  <1>13. CASE LinkDrops
    <2>1. deferred' \in Nat \cup {None}
      BY <1>0, <1>13, LinkClosesShape, ReconnectingBounds DEF LinkDrops, TimersTyped
    <2> QED BY <1>13, <2>1 DEF LinkDrops, TimersTyped
  <1>14. CASE Stop
    BY <1>14 DEF Stop, TimersTyped
  <1>15. CASE ForcedDisconnect
    <2>1. deferred' \in Nat \cup {None}
      BY <1>0, <1>15, ForcedDisconnectShape, ReconnectingBounds DEF TimersTyped
    <2> QED BY <1>15, <2>1, ForcedDisconnectShape DEF TimersTyped
  <1>16. CASE Start
    <2>1. deferred' \in Nat \cup {None}
      BY <1>0, <1>16, DebouncedBounds DEF Start, TimersTyped
    <2> QED BY <1>16, <2>1 DEF Start, TimersTyped
  <1>17. CASE Tick
    <2>1. since' \in 0 .. IdleDisconnect /\ quiet' \in 0 .. since'
      BY <1>17 DEF Tick, TimersTyped
    <2>2. /\ deferred' \in Nat \cup {None} /\ keepAlive' \in None .. KeepAlive
          /\ floor' \in 0 .. Hold /\ backoff' = backoff /\ cool' \in 0 .. backoff
      BY <1>17 DEF Tick, Less, TimersTyped
    <2> QED BY <2>1, <2>2 DEF TimersTyped
  <1> QED
    BY <1>a, <1>b, <1>c, <1>1, <1>2, <1>3, <1>4, <1>5, <1>6, <1>7, <1>8, <1>9, <1>10, <1>11,
       <1>12, <1>13, <1>14, <1>15, <1>16, <1>17 DEF Next

\* Whatever moves the timer while the pace holds, moves it no further forward.
LEMMA PaceKept == ASSUME IInv, Next PROVE TimerRespectsThePace'
  <1> USE DEF IInv, TimerRespectsThePace
  <1>0. /\ backoff \in Nat /\ floor \in Nat /\ cool \in Nat /\ cool <= backoff
        /\ deferred \in Nat \cup {None}
    BY DEF TimersTyped
  <1>1. CASE CommandRefused \/ CommandBegins \/ CommandSucceeds \/ CommandFails
    <2>1. CASE CommandRefused
      BY <2>1 DEF CommandRefused
    <2>2. CASE CommandBegins \/ CommandSucceeds \/ CommandFails
      <3>1. cool' = 0
        BY <2>2 DEF CommandBegins, CommandSucceeds, CommandFails
      <3> QED BY <3>1
    <2> QED BY <1>1, <2>1, <2>2
  <1>a. ASSUME NEW c \in Calls, CallBegins(c) \/ CallAsks(c) \/ CallSucceeds(c) \/ CallFails(c)
        PROVE  TimerRespectsThePace'
    <2>1. CASE CallBegins(c) \/ CallAsks(c) \/ CallSucceeds(c)
      BY <2>1 DEF CallBegins, CallAsks, CallSucceeds
    <2>2. CASE CallFails(c)
      <3>1. UNCHANGED <<task, cool>> /\ deferred' \in {deferred, Reconnecting(backoff)}
        BY <2>2, CallFailsShape, LinkClosesShape
      <3> QED BY <1>0, <3>1, ReconnectingBounds
    <2> QED BY <1>a, <2>1, <2>2
  <1>b. CASE ValidateFails
    <2>1. UNCHANGED <<task, cool>> /\ deferred' \in {deferred, Reconnecting(backoff)}
      BY <1>b, ValidateFailsShape, LinkClosesShape
    <2> QED BY <1>0, <2>1, ReconnectingBounds
  <1>2. CASE (\E delay \in RequestDelays : RequestUpdate(delay)) \/ CycleSucceeds \/ Start
             \/ ValidateBegins \/ ValidateSucceeds
    BY <1>2 DEF RequestUpdate, CycleSucceeds, Start, ValidateBegins, ValidateSucceeds
  <1>3. CASE DeferredUpdate
    <2>1. cool = 0
      BY <1>0, <1>3 DEF DeferredUpdate
    <2> QED BY <1>3, <2>1 DEF DeferredUpdate
  <1>4. CASE CycleBegins \/ CycleYields \/ CycleIgnored
    <2>1. cool = 0
      BY <1>0, <1>4 DEF CycleBegins, CycleYields, CycleIgnored
    <2> QED BY <1>4, <2>1 DEF CycleBegins, CycleYields, CycleIgnored
  <1>5. CASE CycleFails
    <2>0. backoff' \in 1 .. MaxReconnectBackoff /\ backoff' \in Nat
      BY <1>5, NextBackoffBounds DEF CycleFails
    <2>1. CASE deferred = None
      BY <1>5, <2>0, <2>1, ReconnectingBounds DEF CycleFails
    <2>2. CASE deferred # None
      BY <1>5, <2>2 DEF CycleFails
    <2> QED BY <2>1, <2>2
  <1>6. CASE KeepAliveFires
    BY <1>0, <1>6, DebouncedBounds DEF KeepAliveFires
  <1>7. CASE KeepLinkAlive \/ KeepLinkAliveEnds \/ Connects \/ MotorMoves
    BY <1>7 DEF KeepLinkAlive, KeepLinkAliveEnds, Connects, MotorMoves
  <1>8. CASE LinkDrops
    BY <1>0, <1>8, LinkClosesShape, ReconnectingBounds DEF LinkDrops
  <1>9. CASE Stop
    BY <1>9 DEF Stop
  <1>10. CASE ForcedDisconnect
    BY <1>0, <1>10, ForcedDisconnectShape, ReconnectingBounds
  <1>11. CASE Tick
    BY <1>0, <1>11 DEF Tick, NothingDue, Less
  <1> QED
    BY <1>a, <1>b, <1>1, <1>2, <1>3, <1>4, <1>5, <1>6, <1>7, <1>8, <1>9, <1>10, <1>11 DEF Next

LEMMA InitTyped == Init => IInv
  <1> SUFFICES ASSUME Init PROVE IInv
    OBVIOUS
  <1>1. FlagsTyped
    BY DEF Init, FlagsTyped, Calls
  <1>2. TimersTyped /\ TimerRespectsThePace
    BY DEF Init, TimersTyped, TimerRespectsThePace
  <1> QED BY <1>1, <1>2 DEF IInv

LEMMA NextKeeps == ASSUME IInv, [Next]_vars PROVE IInv'
  <1>1. CASE Next
    BY <1>1, FlagsKept, TimersKept, PaceKept DEF IInv
  <1>2. CASE UNCHANGED vars
    BY <1>2 DEF IInv, FlagsTyped, TimersTyped, TimerRespectsThePace, vars, watcher, clocks,
                timesOfUse
  <1> QED BY <1>1, <1>2

\* The inductive invariant holds in every reachable state.
THEOREM InvariantHolds == Spec => []IInv
  <1>1. IInv /\ [Next]_vars => IInv'
    BY NextKeeps
  <1> QED BY <1>1, InitTyped, PTL DEF Spec

\* After a failed cycle, nothing but a request, a command or a restart brings the
\* next one sooner than the backoff allows.
THEOREM BackoffIsKept == Spec => []PacedByBackoff
  <1>1. IInv => PacedByBackoff
    BY DEF IInv, TimerRespectsThePace, PacedByBackoff, TimersTyped
  <1> QED BY <1>1, InvariantHolds, PTL

\* An update that is on its way is never moved back beyond the coalescing delay
\* and the floor.
THEOREM UpdateNotPostponed == Spec => NotPostponed
  <1> DEFINE Postponed == /\ deferred > 0 /\ deferred' # None /\ holder' = holder
                          /\ ~(deferred' <= Greater(deferred, Greater(Coalesce, floor')))
  <1>1. ASSUME IInv, [Next]_vars PROVE ~Postponed
    <2> SUFFICES ASSUME Postponed PROVE FALSE
      OBVIOUS
    <2>0. /\ TimersTyped /\ floor \in Nat /\ backoff \in Nat /\ deferred \in Nat /\ deferred > 0
          /\ floor' \in Nat /\ 0 \in Nat
      BY <1>1, TimersKept DEF IInv, TimersTyped, vars, clocks
    <2>1. deferred' # deferred /\ Next
      BY <1>1, <2>0 DEF vars
    <2>2. CASE CommandRefused \/ CommandBegins \/ CommandSucceeds \/ CommandFails \/ CycleBegins
               \/ CycleFails \/ CycleSucceeds
      BY <2>2, <1>1 DEF CommandRefused, CommandBegins, CommandSucceeds, CommandFails, CycleBegins,
                  CycleSucceeds, CycleFails, IInv, FlagsTyped
    <2>a. ASSUME NEW c \in Calls,
                 CallBegins(c) \/ CallAsks(c) \/ CallSucceeds(c) \/ CallFails(c)
          PROVE  FALSE
      <3>1. CallFails(c)
        BY <2>1, <2>a DEF CallBegins, CallAsks, CallSucceeds
      <3>2. deferred' = Reconnecting(backoff) /\ floor' = floor
        BY <2>1, <3>1, CallFailsShape, LinkClosesShape
      <3> QED BY <2>0, <3>2, ReconnectingBounds
    <2>b. CASE ValidateBegins \/ ValidateSucceeds \/ ValidateFails
      BY <1>1, <2>b DEF ValidateBegins, ValidateSucceeds, ValidateFails, IInv, FlagsTyped
    <2>3. ASSUME NEW delay \in RequestDelays, RequestUpdate(delay) PROVE FALSE
      <3>1. delay \in Nat
        OBVIOUS
      <3>2. deferred' = Debounced(delay, floor) /\ floor' = floor
        BY <2>3 DEF RequestUpdate, clocks
      <3> QED BY <2>0, <3>1, <3>2, DebouncedBounds
    <2>4. CASE DeferredUpdate \/ CycleIgnored \/ KeepLinkAlive \/ KeepLinkAliveEnds \/ Connects
               \/ MotorMoves \/ Stop
      BY <2>0, <2>1, <2>4 DEF DeferredUpdate, CycleIgnored, KeepLinkAlive, KeepLinkAliveEnds,
                              Connects, MotorMoves, Stop
    <2>5. CASE CycleYields
      <3>1. deferred' = Debounced(backoff, floor) /\ floor' = floor
        BY <2>0, <2>1, <2>5 DEF CycleYields
      <3> QED BY <2>0, <3>1, DebouncedBounds
    <2>6. CASE KeepAliveFires
      BY <2>0, <2>1, <2>6, DebouncedBounds DEF KeepAliveFires, clocks
    <2>7. CASE LinkDrops \/ ForcedDisconnect
      BY <2>0, <2>1, <2>7, LinkClosesShape, ForcedDisconnectShape, ReconnectingBounds
         DEF LinkDrops, clocks
    <2>8. CASE Start
      <3>1. PICK d \in RequestDelays : deferred' = Debounced(d, floor) /\ floor' = floor
        BY <2>0, <2>1, <2>8 DEF Start, clocks
      <3>2. d \in Nat
        OBVIOUS
      <3> QED BY <2>0, <3>1, <3>2, DebouncedBounds
    <2>9. CASE Tick
      BY <2>0, <2>1, <2>9 DEF Tick, Less
    <2> QED BY <2>a, <2>b, <2>1, <2>2, <2>3, <2>4, <2>5, <2>6, <2>7, <2>8, <2>9 DEF Next
  <1>2. IInv /\ [Next]_vars => [(deferred > 0 /\ deferred' # None /\ holder' = holder)
                    => deferred' <= Greater(deferred, Greater(Coalesce, floor'))]_vars
    BY <1>1
  <1> QED BY <1>2, InvariantHolds, PTL DEF Spec, NotPostponed

-----------------------------------------------------------------------------
(* The link is kept alive.                                                 *)

\* A keep-alive that fires on a stopped watcher is the last one, and a stop drops
\* the cycle of the one before it.
StoppedIsSilent == ~running => pulse # "fired" \/ keepAlive = None

\* Until it fires, the keep-alive is no further than a keep-alive from the last
\* request.
TimerBeforePulse == pulse = "none" /\ keepAlive # None => quiet + keepAlive <= KeepAlive

\* Where the watcher keeps an idle link alive.
Watching == running /\ connected /\ askable /\ holder = "none"

\* A keep-alive that has fired leads to a request before the link is dropped: its
\* read is next in line, its cycle is, or the timer of its cycle ends in time,
\* after the floor and before the keep-alive after it.
ReadIsNext == reader = "waiting" /\ FloorOutlastsTheLink
TimerInTime ==
    /\ deferred # None /\ floor <= deferred
    /\ quiet + deferred < IdleDisconnect /\ deferred < keepAlive
PulseIsAnswered ==
    Watching /\ keepAlive # None /\ backoff = 0 /\ pulse = "fired" =>
        quiet < IdleDisconnect /\ (ReadIsNext \/ task = "created" \/ TimerInTime)

\* The inductive invariant of the keep-alive.
LinkInv == IInv /\ StoppedIsSilent /\ TimerBeforePulse /\ PulseIsAnswered

LEMMA KeepAliveConstants ==
    /\ Hold < KeepAlive /\ Coalesce < KeepAlive /\ KeepAlive < IdleDisconnect
    /\ KeepAlive + Coalesce < IdleDisconnect
  BY ScheduleAssumption, KeepAliveAssumption DEF ScheduleAssumption, KeepAliveAssumption

\* What is asked of a stopped watcher's lock arms no keep-alive.
LEMMA SilenceKept == ASSUME IInv, StoppedIsSilent, Next PROVE StoppedIsSilent'
  <1> USE DEF StoppedIsSilent, watcher, clocks, timesOfUse, MovedBack
  <1>1. CASE CommandSucceeds \/ CommandFails \/ CycleSucceeds \/ CycleFails \/ KeepLinkAliveEnds
             \/ ValidateSucceeds \/ ValidateFails \/ Connects
    BY <1>1 DEF CommandSucceeds, CommandFails, CycleSucceeds, CycleFails, KeepLinkAliveEnds,
                ValidateSucceeds, ValidateFails, Connects, Completed
  <1>2. ASSUME NEW c \in Calls, CallBegins(c) \/ CallAsks(c) \/ CallSucceeds(c) \/ CallFails(c)
        PROVE  StoppedIsSilent'
    <2>1. CASE CallBegins(c) \/ CallAsks(c) \/ CallSucceeds(c)
      BY <2>1 DEF CallBegins, CallAsks, CallSucceeds, Completed
    <2>2. CASE CallFails(c)
      BY <2>2, CallFailsShape
    <2> QED BY <1>2, <2>1, <2>2
  <1>3. CASE KeepAliveFires
    BY <1>3 DEF KeepAliveFires, NextKeepAlive
  <1>4. CASE Stop \/ ForcedDisconnect \/ Start \/ CycleYields \/ MotorMoves
             \/ \E delay \in RequestDelays : RequestUpdate(delay)
    BY <1>4 DEF Stop, ForcedDisconnect, Start, CycleYields, MotorMoves, RequestUpdate
  <1>5. CASE CommandRefused \/ CommandBegins \/ ValidateBegins \/ DeferredUpdate \/ CycleBegins
             \/ CycleIgnored \/ KeepLinkAlive \/ LinkDrops
    BY <1>5 DEF CommandRefused, CommandBegins, ValidateBegins, DeferredUpdate, CycleBegins,
                CycleIgnored, KeepLinkAlive, LinkDrops
  <1>6. CASE Tick
    <2>1. UNCHANGED <<running, pulse>> /\ keepAlive' = Less(keepAlive)
      BY <1>6 DEF Tick
    <2>2. keepAlive = None => keepAlive' = None
      BY <2>1 DEF Less
    <2> QED BY <2>1, <2>2
  <1> QED BY <1>1, <1>2, <1>3, <1>4, <1>5, <1>6 DEF Next

\* The keep-alive is set anew with a request, and ticks with the time since it.
LEMMA TimerKept == ASSUME IInv, TimerBeforePulse, Next PROVE TimerBeforePulse'
  <1> USE DEF TimerBeforePulse, watcher, clocks, timesOfUse
  <1>0. quiet \in Nat /\ keepAlive \in None .. KeepAlive /\ NextKeepAlive \in None .. KeepAlive
    BY DEF IInv, TimersTyped, NextKeepAlive
  <1>1. CASE CommandSucceeds \/ CycleSucceeds \/ ValidateSucceeds \/ KeepLinkAliveEnds
    BY <1>0, <1>1
       DEF CommandSucceeds, CycleSucceeds, ValidateSucceeds, KeepLinkAliveEnds, Completed
  <1>2. CASE CommandFails \/ CycleFails \/ ValidateFails \/ Connects
    <2> HIDE DEF TimerBeforePulse
    <2>1. quiet' = 0 /\ keepAlive' = keepAlive
      <3>1. CASE CommandFails \/ Connects
        BY <3>1 DEF CommandFails, Connects
      <3>2. CASE CycleFails
        BY <3>2 DEF CycleFails
      <3>3. CASE ValidateFails
        BY <3>3 DEF ValidateFails
      <3> QED BY <1>2, <3>1, <3>2, <3>3
    <2> QED BY <1>0, <2>1 DEF TimerBeforePulse
  <1>3. CASE CycleYields \/ MotorMoves \/ \E delay \in RequestDelays : RequestUpdate(delay)
    BY <1>3 DEF RequestUpdate, CycleYields, MotorMoves, MovedBack
  <1>4. CASE KeepAliveFires
    BY <1>4 DEF KeepAliveFires
  <1>5. CASE CommandRefused \/ CommandBegins \/ ValidateBegins \/ DeferredUpdate \/ CycleBegins
             \/ CycleIgnored \/ KeepLinkAlive \/ LinkDrops
    BY <1>5 DEF CommandRefused, CommandBegins, ValidateBegins, DeferredUpdate, CycleBegins,
                CycleIgnored, KeepLinkAlive, LinkDrops
  <1>a. ASSUME NEW c \in Calls, CallBegins(c) \/ CallAsks(c) \/ CallSucceeds(c) \/ CallFails(c)
        PROVE  TimerBeforePulse'
    <2>1. CASE CallBegins(c) \/ CallAsks(c) \/ CallSucceeds(c)
      BY <1>0, <2>1 DEF CallBegins, CallAsks, CallSucceeds, Completed
    <2>2. CASE CallFails(c)
      BY <1>0, <2>2, CallFailsShape
    <2> QED BY <1>a, <2>1, <2>2
  <1>6. CASE Stop \/ ForcedDisconnect \/ Start
    BY <1>6 DEF Stop, ForcedDisconnect, Start, MovedBack
  <1>7. CASE Tick
    <2>1. pulse' = pulse /\ keepAlive # 0 /\ keepAlive' = Less(keepAlive)
      BY <1>7 DEF Tick, NothingDue
    <2>2. quiet' \in {0, Smaller(quiet + 1, IdleDisconnect)}
      BY <1>7 DEF Tick
    <2> HIDE DEF TimerBeforePulse
    <2>3. quiet' \in Nat /\ quiet' <= quiet + 1
      BY <1>0, <2>2
    <2>4. keepAlive = None => keepAlive' = None
      BY <2>1 DEF Less
    <2>5. keepAlive # None => keepAlive' = keepAlive - 1
      BY <1>0, <2>1 DEF Less
    <2>6. CASE pulse = "none" /\ keepAlive # None
      <3>1. quiet + keepAlive <= KeepAlive
        BY <2>6 DEF TimerBeforePulse
      <3>2. keepAlive \in Nat /\ keepAlive' = keepAlive - 1
        BY <1>0, <2>5, <2>6
      <3>3. ASSUME NEW q \in Nat, NEW k \in Nat, NEW r \in Nat,
                   q + k <= KeepAlive, r <= q + 1
            PROVE  r + (k - 1) <= KeepAlive
        BY <3>3
      <3>4. quiet' + keepAlive' <= KeepAlive
        BY <1>0, <2>3, <3>1, <3>2, <3>3
      <3> QED BY <3>4 DEF TimerBeforePulse
    <2> QED BY <2>1, <2>4, <2>6 DEF TimerBeforePulse
  <1> QED BY <1>a, <1>1, <1>2, <1>3, <1>4, <1>5, <1>6, <1>7 DEF Next

\* What the keep-alive leaves behind when it fires, the first time since the last
\* request or again.
LEMMA FiringAnswers ==
  ASSUME LinkInv, KeepAliveFires, Watching, backoff = 0, pulse # "late"
  PROVE  quiet' < IdleDisconnect /\ (ReadIsNext' \/ task' = "created" \/ TimerInTime')
  <1>0. /\ quiet \in Nat /\ since \in Nat /\ quiet <= since /\ floor \in 0 .. Hold
        /\ deferred \in Nat \cup {None} /\ keepAlive = 0
        /\ reader \in {"none", "waiting"} /\ task \in {"none", "created"}
    BY DEF LinkInv, IInv, FlagsTyped, TimersTyped, Watching, KeepAliveFires
  <1>1. UNCHANGED <<task, floor, since, quiet>> /\ keepAlive' = KeepAlive
    BY DEF KeepAliveFires, timesOfUse, NextKeepAlive, Watching
  <1>2. CASE task = "created"
    <2>1. quiet < IdleDisconnect
      BY <1>0, KeepAliveConstants
         DEF LinkInv, TimerBeforePulse, PulseIsAnswered, IInv, FlagsTyped
    <2> QED BY <1>1, <1>2, <2>1
  <1>3. CASE task = "none" /\ FloorOutlastsTheLink
    <2>1. reader' = "waiting" /\ FloorOutlastsTheLink'
      BY <1>0, <1>1, <1>3 DEF KeepAliveFires, UpdateInFlight, Watching, FloorOutlastsTheLink
    <2>2. quiet < IdleDisconnect
      BY <1>0, KeepAliveConstants
         DEF LinkInv, TimerBeforePulse, PulseIsAnswered, IInv, FlagsTyped
    <2> QED BY <1>1, <2>1, <2>2 DEF ReadIsNext
  <1>4. CASE task = "none" /\ ~FloorOutlastsTheLink
    <2>1. ~TimerInTime
      BY <1>0 DEF TimerInTime
    <2>2. pulse = "none"
      BY <1>0, <1>4, <2>1 DEF LinkInv, IInv, FlagsTyped, PulseIsAnswered, ReadIsNext
    <2>3. quiet <= KeepAlive
      BY <1>0, <2>2 DEF LinkInv, TimerBeforePulse
    <2>4. deferred' = Debounced(0, floor)
      BY <1>4 DEF KeepAliveFires, UpdateInFlight
    <2>5. deferred' = floor \/ deferred' = Greater(Coalesce, floor)
      BY <1>0, <2>4 DEF Debounced, Floored
    <2>6. floor + quiet < IdleDisconnect
      BY <1>0, <1>4 DEF FloorOutlastsTheLink
    <2> QED BY <1>0, <1>1, <2>3, <2>5, <2>6, KeepAliveConstants DEF TimerInTime
  <1> QED BY <1>0, <1>2, <1>3, <1>4

LEMMA PulseKept == ASSUME LinkInv, Next PROVE PulseIsAnswered'
  <1> DEFINE Answered == quiet < IdleDisconnect /\ (ReadIsNext \/ task = "created" \/ TimerInTime)
  <1> SUFFICES ASSUME Watching', keepAlive' # None, backoff' = 0, pulse' = "fired"
               PROVE  Answered'
    BY DEF PulseIsAnswered
  <1>0. /\ quiet \in Nat /\ floor \in Nat /\ deferred \in Nat \cup {None} /\ keepAlive \in Int
        /\ task \in {"none", "created", "reading"} /\ (task = "reading" <=> holder = "cycle")
        /\ IdleDisconnect \in Nat
    BY DEF LinkInv, IInv, FlagsTyped, TimersTyped
  <1>1. ASSUME Watching, keepAlive # None, backoff = 0, pulse = "fired" PROVE Answered
    BY <1>1 DEF LinkInv, PulseIsAnswered
  <1>2. CASE CommandRefused \/ CommandBegins \/ ValidateBegins \/ CycleBegins
    BY <1>2 DEF CommandRefused, CommandBegins, ValidateBegins, CycleBegins, Watching, watcher
  <1>3. CASE CommandSucceeds \/ CommandFails \/ CycleSucceeds \/ CycleFails \/ KeepLinkAliveEnds
             \/ ValidateSucceeds \/ ValidateFails \/ Connects
    BY <1>3 DEF CommandSucceeds, CommandFails, CycleSucceeds, CycleFails, KeepLinkAliveEnds,
                ValidateSucceeds, ValidateFails, Connects, Completed
  <1>4. CASE CycleYields \/ MotorMoves \/ Stop \/ ForcedDisconnect
    BY <1>4 DEF CycleYields, MotorMoves, Stop, ForcedDisconnect, MovedBack
  <1>5. CASE LinkDrops \/ Start \/ CycleIgnored
    BY <1>5, LinkClosesShape
       DEF LinkDrops, Start, CycleIgnored, Watching, LinkInv, StoppedIsSilent, watcher, clocks
  <1>a. ASSUME NEW c \in Calls, CallBegins(c) \/ CallAsks(c) \/ CallSucceeds(c) \/ CallFails(c)
        PROVE  Answered'
    <2>1. CASE CallAsks(c) \/ CallSucceeds(c)
      BY <2>1 DEF CallAsks, CallSucceeds, Completed
    <2>2. CASE CallBegins(c) \/ CallFails(c)
      <3>1. /\ UNCHANGED <<running, connected, askable, holder, task, reader, deferred,
                           keepAlive, floor, since, quiet, backoff, pulse>>
        <4>1. CASE CallBegins(c)
          BY <4>1 DEF CallBegins, watcher, clocks, timesOfUse, Watching
        <4>2. CASE CallFails(c)
          BY <4>2, CallFailsShape, LinkClosesShape DEF watcher, Watching
        <4> QED BY <2>2, <4>1, <4>2
      <3>2. Answered
        BY <1>1, <3>1 DEF Watching
      <3> QED BY <3>1, <3>2 DEF ReadIsNext, TimerInTime, FloorOutlastsTheLink
    <2> QED BY <1>a, <2>1, <2>2
  <1>6. CASE KeepAliveFires
    <2>1. UNCHANGED <<running, connected, askable, holder, backoff>>
      BY <1>6 DEF KeepAliveFires, watcher
    <2>2. Watching /\ backoff = 0 /\ pulse # "late"
      BY <1>6, <2>1 DEF KeepAliveFires, Watching
    <2> QED BY <1>6, <2>2, FiringAnswers
  <1>7. ASSUME NEW delay \in RequestDelays, RequestUpdate(delay) PROVE Answered'
    <2>1. /\ UNCHANGED <<running, connected, askable, holder, task, reader, keepAlive, floor,
                         since, quiet, backoff>>
          /\ deferred' = Debounced(delay, floor)
          /\ pulse = "fired" /\ deferred \notin 0 .. Coalesce - 1
      BY <1>7 DEF RequestUpdate, watcher, timesOfUse, MovedBack
    <2>2. Answered
      BY <1>1, <2>1 DEF Watching
    <2>3. CASE TimerInTime
      <3>1. deferred \in Nat /\ deferred >= Coalesce /\ floor <= deferred /\ delay \in Nat
        BY <1>0, <2>1, <2>3 DEF TimerInTime
      <3>2. floor <= deferred' /\ deferred' <= deferred /\ deferred' \in Nat
        BY <1>0, <2>1, <3>1 DEF Debounced, Floored
      <3> QED BY <1>0, <2>1, <2>2, <2>3, <3>1, <3>2 DEF TimerInTime
    <2> QED BY <2>1, <2>2, <2>3 DEF ReadIsNext, FloorOutlastsTheLink
  <1>8. CASE DeferredUpdate
    <2>1. /\ UNCHANGED <<running, connected, askable, holder, reader, keepAlive, floor,
                         since, quiet, backoff, pulse>>
          /\ deferred = 0
      BY <1>8 DEF DeferredUpdate, watcher, clocks, timesOfUse
    <2>2. Answered /\ holder = "none"
      BY <1>1, <2>1 DEF Watching
    <2>3. CASE task # "none"
      BY <1>0, <1>8, <2>1, <2>2, <2>3 DEF DeferredUpdate, UpdateInFlight
    <2>4. CASE task = "none" /\ TimerInTime
      <3>1. floor = 0
        BY <1>0, <2>1, <2>4 DEF TimerInTime
      <3>2. task' = "created"
        BY <1>8, <2>2, <2>4, <3>1 DEF DeferredUpdate, UpdateInFlight
      <3> QED BY <2>1, <2>2, <3>2
    <2>5. CASE task = "none" /\ ReadIsNext
      BY <2>1, <2>2, <2>5 DEF ReadIsNext, FloorOutlastsTheLink
    <2> QED BY <2>2, <2>3, <2>4, <2>5
  <1>9. CASE KeepLinkAlive
    <2>1. /\ UNCHANGED <<running, connected, askable, task, deferred, keepAlive, floor,
                         since, quiet, backoff, pulse>>
          /\ holder = "none" /\ reader' = "none" /\ ~ReaderMayAsk
      BY <1>9 DEF KeepLinkAlive, watcher, clocks, timesOfUse, Watching
    <2>2. Watching /\ Answered
      BY <1>1, <2>1 DEF Watching
    <2>3. ~ReadIsNext
      BY <2>1, <2>2 DEF ReadIsNext, ReaderMayAsk, Watching
    <2> QED BY <2>1, <2>2, <2>3 DEF TimerInTime
  <1>10. CASE Tick
    <2>1. /\ UNCHANGED <<running, connected, askable, holder, task, reader, backoff,
                         pulse>>
          /\ deferred' = Less(deferred) /\ keepAlive' = Less(keepAlive) /\ floor' = Less(floor)
          /\ deferred # 0 /\ task # "created" /\ reader # "waiting"
          /\ quiet' = Smaller(quiet + 1, IdleDisconnect)
      BY <1>10 DEF Tick, NothingDue, watcher, Watching
    <2>a. keepAlive # None
      BY <2>1 DEF Less
    <2>2. TimerInTime
      BY <1>1, <2>1, <2>a DEF Watching, ReadIsNext
    <2>3. /\ deferred > 0 /\ deferred' = deferred - 1 /\ keepAlive' = keepAlive - 1
          /\ quiet' = quiet + 1
          /\ floor' <= deferred'
      BY <1>0, <2>1, <2>2 DEF TimerInTime, Less
    <2> QED BY <1>0, <2>2, <2>3 DEF TimerInTime
  <1> QED
    BY <1>a, <1>2, <1>3, <1>4, <1>5, <1>6, <1>7, <1>8, <1>9, <1>10 DEF Next

\* An idle link is asked something before the lock drops it, whatever floor the
\* motor and the commands raise.
THEOREM LinkIsKeptAlive == Spec => []LinkKeptAlive
  <1>1. Init => LinkInv
    <2> SUFFICES ASSUME Init PROVE LinkInv
      OBVIOUS
    <2>1. IInv
      BY InitTyped
    <2> QED BY <2>1 DEF Init, LinkInv, StoppedIsSilent, TimerBeforePulse, PulseIsAnswered
  <1>2. LinkInv /\ [Next]_vars => LinkInv'
    <2> SUFFICES ASSUME LinkInv, [Next]_vars PROVE LinkInv'
      OBVIOUS
    <2>1. CASE Next
      BY <2>1, NextKeeps, SilenceKept, TimerKept, PulseKept DEF LinkInv
    <2>2. CASE UNCHANGED vars
      <3>1. IInv'
        BY <2>2, NextKeeps DEF LinkInv
      <3> QED
        BY <2>2, <3>1
           DEF vars, watcher, clocks, timesOfUse, LinkInv, StoppedIsSilent, TimerBeforePulse,
               PulseIsAnswered, Watching, ReadIsNext, TimerInTime, FloorOutlastsTheLink
    <2> QED BY <2>1, <2>2
  <1>3. LinkInv => LinkKeptAlive
    <2> SUFFICES ASSUME LinkInv, Watching, keepAlive # None, backoff = 0, pulse # "late"
                 PROVE  quiet < IdleDisconnect
      BY DEF LinkKeptAlive, Watching
    <2>1. CASE pulse = "none"
      BY <2>1, KeepAliveConstants DEF LinkInv, TimerBeforePulse, IInv, TimersTyped
    <2>2. CASE pulse = "fired"
      BY <2>2 DEF LinkInv, PulseIsAnswered
    <2> QED BY <2>1, <2>2 DEF LinkInv, IInv, FlagsTyped
  <1> QED BY <1>1, <1>2, <1>3, PTL DEF Spec
=============================================================================

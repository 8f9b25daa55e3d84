------------------------------ MODULE Activity ------------------------------
(***************************************************************************)
(* The activity log: the lock keeps records of what happened to it, each   *)
(* read pops the oldest, and an update cycle drains the log to its end     *)
(* marker when a change has been seen and a consumer is registered         *)
(* (push.py: register_activity_callback, _poll_activity, _drain_activity,  *)
(* _note_activity_drain_failure; lock.py: drain_lock_activity).  The drain *)
(* awaits an answer at every read, and in between status frames come in,   *)
(* consumers come and go, the link fails.  Records are numbered in the     *)
(* order they were made: the log holds those above `popped`.               *)
(***************************************************************************)
EXTENDS Naturals

CONSTANTS
    MaxReads,      \* MAX_ACTIVITY_RECORDS, the reads of one drain
    MaxOverruns,   \* ACTIVITY_DRAIN_MAX_OVERRUNS
    Threshold,     \* ACTIVITY_DRAIN_FAILURE_THRESHOLD
    MaxConsumers,  \* bound: consumers registered at a time
    MaxRecords     \* bound: records the lock ever makes

ASSUME ActivityAssumption ==
    /\ MaxReads \in Nat \ {0} /\ MaxOverruns \in Nat \ {0} /\ Threshold \in Nat \ {0}
    /\ MaxConsumers \in Nat /\ MaxRecords \in Nat

VARIABLES
    endless,     \* does the lock repeat records and never send the end marker
    made,        \* records the lock has made
    popped,      \* records a read has taken from the log
    noticed,     \* the last record whose change the display has shown
    informed,    \* _lock_info is known: past the first update
    consumers,   \* how many callbacks are registered
    primed,      \* _activity_primed
    pending,     \* _activity_drain_pending
    failures,    \* _activity_drain_failures
    overruns,    \* _activity_overruns
    backedOff,   \* _earliest_activity_drain_time is still to come
    draining,    \* a drain is in progress
    reads,       \* the reads it has made
    yielded,     \* has it yielded a record
    answer,      \* the answer on its way to it
    since,       \* history: the last record made before anybody was registered
    delivered,   \* history: the records delivered to those registered since
    overlapped   \* history: the first of them registered while a drain ran

log == <<made, popped, endless>>
flags == <<primed, pending>>
counters == <<failures, overruns, backedOff>>
drain == <<draining, reads, yielded, answer>>
history == <<since, delivered, overlapped>>
vars == <<log, noticed, informed, consumers, flags, counters, drain, history>>

\* What is not a record: nothing, the end marker, a record of a type the
\* library does not know, and one the lock repeats for ever.
Nothing == 0
End == MaxRecords + 1
Unknown == MaxRecords + 2
Repeated == MaxRecords + 3
-----------------------------------------------------------------------------
Init ==
    /\ endless \in BOOLEAN
    /\ made \in 0 .. MaxRecords /\ popped = 0 /\ noticed = 0
    /\ informed = FALSE /\ consumers = 0
    /\ primed = FALSE /\ pending = FALSE
    /\ failures = 0 /\ overruns = 0 /\ backedOff = FALSE
    /\ draining = FALSE /\ reads = 0 /\ yielded = FALSE /\ answer = Nothing
    /\ since = 0 /\ delivered = {} /\ overlapped = FALSE

\* The lock logs an event.
Happens ==
    /\ made < MaxRecords
    /\ made' = made + 1
    /\ UNCHANGED <<popped, endless, noticed, informed, consumers, flags, counters, drain, history>>

\* _stage_display or a DoorStatus report: the display changes, by an event the
\* lock has logged.
ChangeNoticed ==
    /\ noticed' \in noticed + 1 .. made
    /\ pending' = TRUE
    /\ UNCHANGED <<log, informed, consumers, primed, counters, drain, history>>
-----------------------------------------------------------------------------
(* Consumers.                                                              *)

\* Slip: only the very first registration primes.
FirstConsumer_KeepsPrimed == pending' = TRUE /\ UNCHANGED primed

\* The first registration primes, so the backlog is not delivered as new.
FirstConsumer == primed' = FALSE /\ pending' = TRUE

\* register_activity_callback.  The update it schedules is a cycle like another.
Register ==
    /\ consumers < MaxConsumers
    /\ consumers' = consumers + 1
    /\ IF consumers = 0
         THEN /\ FirstConsumer
              /\ since' = made /\ delivered' = {} /\ overlapped' = draining
         ELSE UNCHANGED <<flags, history>>
    /\ UNCHANGED <<log, noticed, informed, counters, drain>>

Unregister ==
    /\ consumers > 0
    /\ consumers' = consumers - 1
    /\ UNCHANGED <<log, noticed, informed, flags, counters, drain, history>>
-----------------------------------------------------------------------------
(* The drain.                                                              *)

\* _activity_drain_due
Due == consumers > 0 /\ pending /\ ~backedOff

\* _poll_activity on the first update: the drain is left to a later one.
FirstUpdate ==
    /\ ~informed
    /\ informed' = TRUE
    /\ UNCHANGED <<log, noticed, consumers, flags, counters, drain, history>>

\* The flag is consumed before the await so a change during the drain is kept.
BeginDrain ==
    /\ informed /\ Due /\ ~draining
    /\ pending' = FALSE
    /\ draining' = TRUE /\ reads' = 0 /\ yielded' = FALSE
    /\ UNCHANGED <<log, noticed, informed, consumers, primed, counters, answer, history>>

\* The lock takes a read: it pops its oldest record.
LockAnswers ==
    IF endless
      THEN answer' \in {Unknown, Repeated} /\ UNCHANGED popped
      ELSE IF popped < made
        THEN popped' = popped + 1 /\ answer' \in {popped + 1, Unknown}
        ELSE answer' = End /\ UNCHANGED popped

\* _read_lock_activity_response
Read ==
    /\ draining /\ answer = Nothing /\ reads < MaxReads
    /\ reads' = reads + 1
    /\ LockAnswers
    /\ UNCHANGED <<made, endless, noticed, informed, consumers, flags, counters, draining, yielded,
                   history>>

\* The answer is invalid and the session writes the request again: what the
\* first one popped is gone.
ReadAgain ==
    /\ draining /\ answer # Nothing
    /\ LockAnswers
    /\ UNCHANGED <<made, endless, noticed, informed, consumers, flags, counters, draining, reads,
                   yielded, history>>

Delivered == IF primed /\ consumers > 0 /\ answer \in 1 .. MaxRecords THEN {answer} ELSE {}

\* Slip: a record shows that the log works, and the overruns are forgotten.
RecordArrives_Forgives ==
    /\ draining /\ answer \notin {Nothing, End}
    /\ answer' = Nothing
    /\ yielded' = (yielded \/ answer # Unknown)
    /\ delivered' = delivered \cup Delivered
    /\ overruns' = 0
    /\ UNCHANGED <<log, noticed, informed, consumers, flags, failures, backedOff, draining, reads,
                   since, overlapped>>

\* A record is yielded, and delivered once the log is primed; an unknown one is
\* skipped.
RecordArrives ==
    /\ draining /\ answer \notin {Nothing, End}
    /\ answer' = Nothing
    /\ yielded' = (yielded \/ answer # Unknown)
    /\ delivered' = delivered \cup Delivered
    /\ UNCHANGED <<log, noticed, informed, consumers, flags, counters, draining, reads, since,
                   overlapped>>

StopReading == draining' = FALSE /\ reads' = 0 /\ yielded' = FALSE /\ answer' = Nothing

\* Slip: the drain is done, so the flag goes down.
EndMarker_Consumes ==
    /\ draining /\ answer = End
    /\ failures' = 0 /\ overruns' = 0 /\ primed' = TRUE /\ pending' = FALSE
    /\ StopReading
    /\ UNCHANGED <<log, noticed, informed, consumers, backedOff, history>>

\* The end marker.
EndMarker ==
    /\ draining /\ answer = End
    /\ failures' = 0 /\ overruns' = 0 /\ primed' = TRUE
    /\ StopReading
    /\ UNCHANGED <<log, noticed, informed, consumers, pending, backedOff, history>>

\* _note_activity_drain_failure: a failed drain is a strike, and enough strikes
\* leave the log alone for a while.
Strike(strikes) ==
    LET total == failures + strikes
    IN  IF total >= Threshold THEN failures' = 0 /\ backedOff' = TRUE
        ELSE failures' = total /\ UNCHANGED backedOff

\* ActivityLogOverrunError: no end within the reads of one drain.  A deep backlog
\* is not a failure, until it has overrun too often in a row.
Overrun ==
    /\ draining /\ answer = Nothing /\ reads = MaxReads
    /\ pending' = TRUE
    /\ IF yielded /\ overruns + 1 < MaxOverruns
         THEN overruns' = overruns + 1 /\ UNCHANGED <<failures, backedOff>>
         ELSE overruns' = 0 /\ Strike(Threshold)
    /\ StopReading
    /\ UNCHANGED <<log, noticed, informed, consumers, primed, history>>

\* A BleakError, a timeout, or an answer that stays invalid.
DrainFails ==
    /\ draining
    /\ pending' = TRUE
    /\ Strike(1) /\ UNCHANGED overruns
    /\ StopReading
    /\ UNCHANGED <<log, noticed, informed, consumers, primed, history>>

\* The link drops or the task is cancelled: restored, and no strike.
DrainInterrupted ==
    /\ draining
    /\ pending' = TRUE
    /\ StopReading
    /\ UNCHANGED <<log, noticed, informed, consumers, primed, counters, history>>

BackoffLapses ==
    /\ backedOff
    /\ backedOff' = FALSE
    /\ UNCHANGED <<log, noticed, informed, consumers, flags, failures, overruns, drain, history>>
-----------------------------------------------------------------------------
Next ==
    \/ Happens \/ ChangeNoticed \/ Register \/ Unregister \/ FirstUpdate \/ BeginDrain
    \/ Read \/ ReadAgain \/ RecordArrives \/ EndMarker \/ Overrun \/ DrainFails
    \/ DrainInterrupted \/ BackoffLapses

Spec == Init /\ [][Next]_vars

\* Update cycles keep coming, a read is written and answered, a backoff lapses.
Fairness ==
    /\ WF_vars(FirstUpdate) /\ WF_vars(BeginDrain) /\ WF_vars(Read) /\ WF_vars(RecordArrives)
    /\ WF_vars(EndMarker) /\ WF_vars(Overrun) /\ WF_vars(BackoffLapses)

FairSpec == Spec /\ Fairness
-----------------------------------------------------------------------------
\* The type invariant, in parts.
FlagsTyped ==
    /\ endless \in BOOLEAN /\ informed \in BOOLEAN /\ primed \in BOOLEAN
    /\ pending \in BOOLEAN /\ backedOff \in BOOLEAN /\ draining \in BOOLEAN
    /\ yielded \in BOOLEAN /\ overlapped \in BOOLEAN

NumbersTyped ==
    /\ made \in 0 .. MaxRecords /\ popped \in 0 .. made /\ noticed \in 0 .. made
    /\ consumers \in 0 .. MaxConsumers
    /\ failures \in 0 .. Threshold - 1 /\ overruns \in 0 .. MaxOverruns - 1
    /\ reads \in 0 .. MaxReads
    /\ answer \in 0 .. Repeated

HistoryTyped == since \in 0 .. made /\ delivered \in SUBSET (1 .. popped)

TypeOK == FlagsTyped /\ NumbersTyped /\ HistoryTyped

\* A change that showed is never forgotten: its record has been read, or a drain
\* is owed, or the one in progress has yet to reach the end of the log; whatever
\* fails, is interrupted, or changes while the drain awaits its answers.
ChangeIsDrained ==
    (noticed > popped /\ ~endless) => pending \/ (draining /\ answer # End)

\* A record from before the first registration is not delivered as new, if no
\* drain was running when the consumer registered.
OldRecords == {r \in delivered : r <= since}
BacklogDiscarded == overlapped \/ OldRecords = {}

\* "The first registration primes, so the backlog is not delivered as new."
BacklogNeverDelivered == OldRecords = {}

\* A log that never ends is left alone again and again, and not read in every
\* cycle for ever.
EndlessLogLeftAlone ==
    (endless /\ <>[](consumers > 0) /\ <>[][~DrainInterrupted /\ ~ReadAgain]_vars)
      => []<>backedOff
=============================================================================

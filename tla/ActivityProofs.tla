--------------------------- MODULE ActivityProofs ---------------------------
(***************************************************************************)
(* Proofs about the activity log, for every size of a drain, every limit   *)
(* on overruns and failures, and any number of consumers and records.      *)
(***************************************************************************)
EXTENDS Activity, TLAPS

\* Where no drain runs, no answer is on its way; a record that is was popped.
AnswerToARead ==
    /\ draining \/ answer = Nothing
    /\ answer \in 1 .. MaxRecords => answer <= popped

\* From the end marker on the log holds new records only, and so does the answer
\* that comes in once the log is primed.
NewFromTheEnd ==
    ~overlapped =>
       /\ answer = End => since <= popped
       /\ primed => since <= popped /\ (answer \in 1 .. MaxRecords => since < answer)

\* The inductive invariant.
IInv ==
    /\ TypeOK
    /\ AnswerToARead
    /\ ChangeIsDrained
    /\ NewFromTheEnd
    /\ BacklogDiscarded

USE ActivityAssumption DEF ActivityAssumption, Nothing, End, Unknown, Repeated

\* The end marker is sent by an empty log only, and a record by the lock that
\* pops it.
LEMMA AnswerIsTheOldest ==
  ASSUME TypeOK, LockAnswers
  PROVE  /\ popped' \in popped .. made
         /\ answer' \in 1 .. Repeated
         /\ answer' = End => popped' = made
         /\ answer' \in 1 .. MaxRecords => answer' = popped + 1 /\ popped' = popped + 1
  BY DEF LockAnswers, TypeOK, NumbersTyped

LEMMA InitHolds == Init => IInv
  <1> SUFFICES ASSUME Init PROVE IInv
    OBVIOUS
  <1> USE DEF Init, IInv, TypeOK
  <1>1. FlagsTyped
    BY DEF FlagsTyped
  <1>2. NumbersTyped
    BY DEF NumbersTyped
  <1>3. HistoryTyped
    BY DEF HistoryTyped
  <1>4. AnswerToARead /\ ChangeIsDrained
    BY DEF AnswerToARead, ChangeIsDrained
  <1>5. NewFromTheEnd /\ BacklogDiscarded
    BY DEF NewFromTheEnd, BacklogDiscarded, OldRecords
  <1> QED BY <1>1, <1>2, <1>3, <1>4, <1>5

\* The lock logs one more record.
LEMMA HappensKeeps == ASSUME IInv, Happens PROVE IInv'
  <1> USE DEF IInv, TypeOK
  <1>1. FlagsTyped'
    BY DEF Happens, flags, counters, drain, history, FlagsTyped
  <1>2. NumbersTyped'
    BY DEF Happens, flags, counters, drain, history, NumbersTyped
  <1>3. HistoryTyped'
    BY DEF Happens, flags, counters, drain, history, HistoryTyped, NumbersTyped
  <1>4. AnswerToARead' /\ ChangeIsDrained'
    BY DEF Happens, flags, counters, drain, history, FlagsTyped, NumbersTyped, AnswerToARead,
       ChangeIsDrained
  <1>5. NewFromTheEnd' /\ BacklogDiscarded'
    BY DEF Happens, flags, counters, drain, history, FlagsTyped, NumbersTyped, HistoryTyped,
       NewFromTheEnd, BacklogDiscarded, AnswerToARead, OldRecords
  <1> QED BY <1>1, <1>2, <1>3, <1>4, <1>5

\* A change that shows raises the flag.
LEMMA ChangeNoticedKeeps == ASSUME IInv, ChangeNoticed PROVE IInv'
  <1> USE DEF IInv, TypeOK
  <1>1. FlagsTyped'
    BY DEF ChangeNoticed, log, counters, drain, history, FlagsTyped
  <1>2. NumbersTyped'
    BY DEF ChangeNoticed, log, counters, drain, history, NumbersTyped
  <1>3. HistoryTyped'
    BY DEF ChangeNoticed, log, counters, drain, history, HistoryTyped, NumbersTyped
  <1>4. AnswerToARead' /\ ChangeIsDrained'
    BY DEF ChangeNoticed, log, counters, drain, history, FlagsTyped, NumbersTyped, AnswerToARead,
       ChangeIsDrained
  <1>5. NewFromTheEnd' /\ BacklogDiscarded'
    BY DEF ChangeNoticed, log, counters, drain, history, FlagsTyped, NumbersTyped, HistoryTyped,
       NewFromTheEnd, BacklogDiscarded, AnswerToARead, OldRecords
  <1> QED BY <1>1, <1>2, <1>3, <1>4, <1>5

\* A consumer that leaves changes nothing for the drain.
LEMMA UnregisterKeeps == ASSUME IInv, Unregister PROVE IInv'
  <1> USE DEF IInv, TypeOK
  <1>1. FlagsTyped'
    BY DEF Unregister, log, flags, counters, drain, history, FlagsTyped
  <1>2. NumbersTyped'
    BY DEF Unregister, log, flags, counters, drain, history, NumbersTyped
  <1>3. HistoryTyped'
    BY DEF Unregister, log, flags, counters, drain, history, HistoryTyped, NumbersTyped
  <1>4. AnswerToARead' /\ ChangeIsDrained'
    BY DEF Unregister, log, flags, counters, drain, history, FlagsTyped, NumbersTyped,
       AnswerToARead, ChangeIsDrained
  <1>5. NewFromTheEnd' /\ BacklogDiscarded'
    BY DEF Unregister, log, flags, counters, drain, history, FlagsTyped, NumbersTyped,
       HistoryTyped, NewFromTheEnd, BacklogDiscarded, AnswerToARead, OldRecords
  <1> QED BY <1>1, <1>2, <1>3, <1>4, <1>5

\* The first update drains nothing.
LEMMA FirstUpdateKeeps == ASSUME IInv, FirstUpdate PROVE IInv'
  <1> USE DEF IInv, TypeOK
  <1>1. FlagsTyped'
    BY DEF FirstUpdate, log, flags, counters, drain, history, FlagsTyped
  <1>2. NumbersTyped'
    BY DEF FirstUpdate, log, flags, counters, drain, history, NumbersTyped
  <1>3. HistoryTyped'
    BY DEF FirstUpdate, log, flags, counters, drain, history, HistoryTyped, NumbersTyped
  <1>4. AnswerToARead' /\ ChangeIsDrained'
    BY DEF FirstUpdate, log, flags, counters, drain, history, FlagsTyped, NumbersTyped,
       AnswerToARead, ChangeIsDrained
  <1>5. NewFromTheEnd' /\ BacklogDiscarded'
    BY DEF FirstUpdate, log, flags, counters, drain, history, FlagsTyped, NumbersTyped,
       HistoryTyped, NewFromTheEnd, BacklogDiscarded, AnswerToARead, OldRecords
  <1> QED BY <1>1, <1>2, <1>3, <1>4, <1>5

\* The end of a backoff owes what was owed.
LEMMA BackoffLapsesKeeps == ASSUME IInv, BackoffLapses PROVE IInv'
  <1> USE DEF IInv, TypeOK
  <1>1. FlagsTyped'
    BY DEF BackoffLapses, log, flags, drain, history, FlagsTyped
  <1>2. NumbersTyped'
    BY DEF BackoffLapses, log, flags, drain, history, NumbersTyped
  <1>3. HistoryTyped'
    BY DEF BackoffLapses, log, flags, drain, history, HistoryTyped, NumbersTyped
  <1>4. AnswerToARead' /\ ChangeIsDrained'
    BY DEF BackoffLapses, log, flags, drain, history, FlagsTyped, NumbersTyped, AnswerToARead,
       ChangeIsDrained
  <1>5. NewFromTheEnd' /\ BacklogDiscarded'
    BY DEF BackoffLapses, log, flags, drain, history, FlagsTyped, NumbersTyped, HistoryTyped,
       NewFromTheEnd, BacklogDiscarded, AnswerToARead, OldRecords
  <1> QED BY <1>1, <1>2, <1>3, <1>4, <1>5

\* The first consumer makes everything old, and unprimes the log.
LEMMA RegisterKeeps == ASSUME IInv, Register PROVE IInv'
  <1> USE DEF IInv, TypeOK
  <1>1. CASE consumers = 0
    <2>1. FlagsTyped'
      BY <1>1 DEF Register, FirstConsumer, log, counters, drain, FlagsTyped
    <2>2. NumbersTyped'
      BY <1>1 DEF Register, FirstConsumer, log, counters, drain, NumbersTyped
    <2>3. HistoryTyped'
      BY <1>1 DEF Register, FirstConsumer, log, counters, drain, HistoryTyped, NumbersTyped
    <2>4. AnswerToARead' /\ ChangeIsDrained'
      BY <1>1 DEF Register, FirstConsumer, log, counters, drain, FlagsTyped, NumbersTyped,
         AnswerToARead, ChangeIsDrained
    <2>5. NewFromTheEnd' /\ BacklogDiscarded'
      BY <1>1 DEF Register, FirstConsumer, log, counters, drain, FlagsTyped, NumbersTyped,
         HistoryTyped, NewFromTheEnd, BacklogDiscarded, AnswerToARead, OldRecords
    <2> QED BY <2>1, <2>2, <2>3, <2>4, <2>5
  <1>2. CASE consumers # 0
    <2>1. FlagsTyped'
      BY <1>2 DEF Register, log, flags, history, counters, drain, FlagsTyped
    <2>2. NumbersTyped'
      BY <1>2 DEF Register, log, flags, history, counters, drain, NumbersTyped
    <2>3. HistoryTyped'
      BY <1>2 DEF Register, log, flags, history, counters, drain, HistoryTyped, NumbersTyped
    <2>4. AnswerToARead' /\ ChangeIsDrained'
      BY <1>2 DEF Register, log, flags, history, counters, drain, FlagsTyped, NumbersTyped,
         AnswerToARead, ChangeIsDrained
    <2>5. NewFromTheEnd' /\ BacklogDiscarded'
      BY <1>2 DEF Register, log, flags, history, counters, drain, FlagsTyped, NumbersTyped,
         HistoryTyped, NewFromTheEnd, BacklogDiscarded, AnswerToARead, OldRecords
    <2> QED BY <2>1, <2>2, <2>3, <2>4, <2>5
  <1> QED BY <1>1, <1>2

\* The flag is consumed with every record of a noticed change still in the log.
LEMMA BeginDrainKeeps == ASSUME IInv, BeginDrain PROVE IInv'
  <1> USE DEF IInv, TypeOK
  <1>1. FlagsTyped'
    BY DEF BeginDrain, log, counters, history, FlagsTyped
  <1>2. NumbersTyped'
    BY DEF BeginDrain, log, counters, history, NumbersTyped
  <1>3. HistoryTyped'
    BY DEF BeginDrain, log, counters, history, HistoryTyped, NumbersTyped
  <1>4. AnswerToARead' /\ ChangeIsDrained'
    BY DEF BeginDrain, log, counters, history, FlagsTyped, NumbersTyped, AnswerToARead,
       ChangeIsDrained
  <1>5. NewFromTheEnd' /\ BacklogDiscarded'
    BY DEF BeginDrain, log, counters, history, FlagsTyped, NumbersTyped, HistoryTyped,
       NewFromTheEnd, BacklogDiscarded, AnswerToARead, OldRecords
  <1> QED BY <1>1, <1>2, <1>3, <1>4, <1>5

\* The read sees every record of a change noticed before it; a change noticed
\* later has raised the flag again.
LEMMA ReadKeeps == ASSUME IInv, Read \/ ReadAgain PROVE IInv'
  <1> USE DEF IInv, TypeOK
  <1>0. /\ popped' \in popped .. made
        /\ answer' \in 1 .. Repeated
        /\ answer' = End => popped' = made
        /\ answer' \in 1 .. MaxRecords => answer' = popped + 1 /\ popped' = popped + 1
    BY AnswerIsTheOldest DEF Read, ReadAgain
  <1>a. /\ draining /\ draining' = draining
        /\ UNCHANGED <<made, endless, noticed, informed, consumers, flags, counters, yielded,
                       history>>
    BY DEF Read, ReadAgain
  <1>b. reads' \in 0 .. MaxReads
    BY DEF Read, ReadAgain, NumbersTyped
  <1>1. FlagsTyped'
    BY <1>0, <1>a, <1>b DEF flags, counters, history, FlagsTyped
  <1>2. NumbersTyped'
    BY <1>0, <1>a, <1>b DEF flags, counters, history, NumbersTyped
  <1>3. HistoryTyped'
    BY <1>0, <1>a, <1>b DEF flags, counters, history, HistoryTyped, NumbersTyped
  <1>4. AnswerToARead' /\ ChangeIsDrained'
    BY <1>0, <1>a, <1>b DEF flags, counters, history, FlagsTyped, NumbersTyped, AnswerToARead,
       ChangeIsDrained
  <1>5. NewFromTheEnd' /\ BacklogDiscarded'
    BY <1>0, <1>a, <1>b DEF flags, counters, history, FlagsTyped, NumbersTyped, HistoryTyped,
       NewFromTheEnd, BacklogDiscarded, AnswerToARead, OldRecords
  <1> QED BY <1>1, <1>2, <1>3, <1>4, <1>5

\* What is delivered is the answer, and only once the log is primed.
LEMMA RecordKeeps == ASSUME IInv, RecordArrives PROVE IInv'
  <1> USE DEF IInv, TypeOK
  <1>1. FlagsTyped'
    BY DEF RecordArrives, Delivered, log, flags, counters, FlagsTyped
  <1>2. NumbersTyped'
    BY DEF RecordArrives, Delivered, log, flags, counters, NumbersTyped
  <1>3. HistoryTyped'
    BY DEF RecordArrives, Delivered, log, flags, counters, HistoryTyped, NumbersTyped, AnswerToARead
  <1>4. AnswerToARead' /\ ChangeIsDrained'
    BY DEF RecordArrives, Delivered, log, flags, counters, FlagsTyped, NumbersTyped,
       AnswerToARead, ChangeIsDrained
  <1>5. NewFromTheEnd' /\ BacklogDiscarded'
    BY DEF RecordArrives, Delivered, log, flags, counters, FlagsTyped, NumbersTyped, HistoryTyped,
       NewFromTheEnd, BacklogDiscarded, AnswerToARead, OldRecords
  <1> QED BY <1>1, <1>2, <1>3, <1>4, <1>5

LEMMA StrikeTyped ==
  ASSUME FlagsTyped, NumbersTyped, NEW n \in Nat, Strike(n)
  PROVE  failures' \in 0 .. Threshold - 1 /\ backedOff' \in BOOLEAN
  <1>1. failures' \in 0 .. Threshold - 1
    BY DEF Strike, NumbersTyped
  <1>2. backedOff' \in BOOLEAN
    BY DEF Strike, FlagsTyped
  <1> QED BY <1>1, <1>2

\* The end marker: what was popped is all there was, so what follows is new.
LEMMA EndMarkerKeeps == ASSUME IInv, EndMarker PROVE IInv'
  <1> USE DEF IInv, TypeOK
  <1>1. FlagsTyped'
    BY DEF EndMarker, StopReading, log, history, FlagsTyped
  <1>2. NumbersTyped'
    BY DEF EndMarker, StopReading, log, history, NumbersTyped
  <1>3. HistoryTyped'
    BY DEF EndMarker, StopReading, log, history, HistoryTyped, NumbersTyped
  <1>4. AnswerToARead' /\ ChangeIsDrained'
    BY DEF EndMarker, StopReading, log, history, FlagsTyped, NumbersTyped, AnswerToARead,
       ChangeIsDrained
  <1>5. NewFromTheEnd' /\ BacklogDiscarded'
    BY DEF EndMarker, StopReading, log, history, FlagsTyped, NumbersTyped, HistoryTyped,
       NewFromTheEnd, BacklogDiscarded, AnswerToARead, OldRecords
  <1> QED BY <1>1, <1>2, <1>3, <1>4, <1>5

\* A drain that does not end owes another.
LEMMA OverrunKeeps == ASSUME IInv, Overrun PROVE IInv'
  <1> USE DEF IInv, TypeOK
  <1>a. /\ overruns' \in 0 .. MaxOverruns - 1
        /\ failures' \in 0 .. Threshold - 1 /\ backedOff' \in BOOLEAN
    <2>1. CASE yielded /\ overruns + 1 < MaxOverruns
      BY <2>1 DEF Overrun, FlagsTyped, NumbersTyped
    <2>2. CASE ~(yielded /\ overruns + 1 < MaxOverruns)
      BY <2>2, StrikeTyped DEF Overrun
    <2> QED BY <2>1, <2>2
  <1>1. FlagsTyped'
    BY <1>a DEF Overrun, StopReading, log, history, FlagsTyped
  <1>2. NumbersTyped'
    BY <1>a DEF Overrun, StopReading, log, history, NumbersTyped
  <1>3. HistoryTyped'
    BY <1>a DEF Overrun, StopReading, log, history, HistoryTyped, NumbersTyped
  <1>4. AnswerToARead' /\ ChangeIsDrained'
    BY <1>a DEF Overrun, StopReading, log, history, FlagsTyped, NumbersTyped, AnswerToARead,
       ChangeIsDrained
  <1>5. NewFromTheEnd' /\ BacklogDiscarded'
    BY <1>a DEF Overrun, StopReading, log, history, FlagsTyped, NumbersTyped, HistoryTyped,
       NewFromTheEnd, BacklogDiscarded, AnswerToARead, OldRecords
  <1> QED BY <1>1, <1>2, <1>3, <1>4, <1>5

LEMMA DrainFailsKeeps == ASSUME IInv, DrainFails PROVE IInv'
  <1> USE DEF IInv, TypeOK
  <1>a. failures' \in 0 .. Threshold - 1 /\ backedOff' \in BOOLEAN
    BY StrikeTyped DEF DrainFails
  <1>1. FlagsTyped'
    BY <1>a DEF DrainFails, StopReading, log, history, FlagsTyped
  <1>2. NumbersTyped'
    BY <1>a DEF DrainFails, StopReading, log, history, NumbersTyped
  <1>3. HistoryTyped'
    BY <1>a DEF DrainFails, StopReading, log, history, HistoryTyped, NumbersTyped
  <1>4. AnswerToARead' /\ ChangeIsDrained'
    BY <1>a DEF DrainFails, StopReading, log, history, FlagsTyped, NumbersTyped, AnswerToARead,
       ChangeIsDrained
  <1>5. NewFromTheEnd' /\ BacklogDiscarded'
    BY <1>a DEF DrainFails, StopReading, log, history, FlagsTyped, NumbersTyped, HistoryTyped,
       NewFromTheEnd, BacklogDiscarded, AnswerToARead, OldRecords
  <1> QED BY <1>1, <1>2, <1>3, <1>4, <1>5

\* An interrupted drain owes another.
LEMMA DrainInterruptedKeeps == ASSUME IInv, DrainInterrupted PROVE IInv'
  <1> USE DEF IInv, TypeOK
  <1>1. FlagsTyped'
    BY DEF DrainInterrupted, StopReading, log, counters, history, FlagsTyped
  <1>2. NumbersTyped'
    BY DEF DrainInterrupted, StopReading, log, counters, history, NumbersTyped
  <1>3. HistoryTyped'
    BY DEF DrainInterrupted, StopReading, log, counters, history, HistoryTyped, NumbersTyped
  <1>4. AnswerToARead' /\ ChangeIsDrained'
    BY DEF DrainInterrupted, StopReading, log, counters, history, FlagsTyped, NumbersTyped,
       AnswerToARead, ChangeIsDrained
  <1>5. NewFromTheEnd' /\ BacklogDiscarded'
    BY DEF DrainInterrupted, StopReading, log, counters, history, FlagsTyped, NumbersTyped,
       HistoryTyped, NewFromTheEnd, BacklogDiscarded, AnswerToARead, OldRecords
  <1> QED BY <1>1, <1>2, <1>3, <1>4, <1>5

LEMMA NextKeeps == ASSUME IInv, [Next]_vars PROVE IInv'
  <1>1. CASE UNCHANGED vars
    <2> USE <1>1 DEF IInv, TypeOK
    <2>1. FlagsTyped'
      BY DEF vars, log, flags, counters, drain, history, FlagsTyped
    <2>2. NumbersTyped'
      BY DEF vars, log, flags, counters, drain, history, NumbersTyped
    <2>3. HistoryTyped'
      BY DEF vars, log, flags, counters, drain, history, HistoryTyped, NumbersTyped
    <2>4. AnswerToARead' /\ ChangeIsDrained'
      BY DEF vars, log, flags, counters, drain, history, FlagsTyped, NumbersTyped, AnswerToARead,
         ChangeIsDrained
    <2>5. NewFromTheEnd' /\ BacklogDiscarded'
      BY DEF vars, log, flags, counters, drain, history, FlagsTyped, NumbersTyped, HistoryTyped,
         NewFromTheEnd, BacklogDiscarded, AnswerToARead, OldRecords
    <2> QED BY <2>1, <2>2, <2>3, <2>4, <2>5
  <1>2. CASE Next
    BY <1>2, HappensKeeps, ChangeNoticedKeeps, RegisterKeeps, UnregisterKeeps, FirstUpdateKeeps,
       BeginDrainKeeps, ReadKeeps, RecordKeeps, EndMarkerKeeps, OverrunKeeps, DrainFailsKeeps,
       DrainInterruptedKeeps, BackoffLapsesKeeps DEF Next
  <1> QED BY <1>1, <1>2

\* The inductive invariant holds in every reachable state.
THEOREM InvariantHolds == Spec => []IInv
  <1>1. IInv /\ [Next]_vars => IInv'
    BY NextKeeps
  <1> QED BY InitHolds, <1>1, PTL DEF Spec

\* A change that showed is not forgotten, whatever fails or changes while a
\* drain awaits its answers.
THEOREM ChangeNotForgotten == Spec => []ChangeIsDrained
  <1>1. IInv => ChangeIsDrained
    BY DEF IInv
  <1> QED BY <1>1, InvariantHolds, PTL

\* The backlog of before the first registration is discarded, unless a drain
\* was running when the consumer registered.
THEOREM BacklogIsDiscarded == Spec => []BacklogDiscarded
  <1>1. IInv => BacklogDiscarded
    BY DEF IInv
  <1> QED BY <1>1, InvariantHolds, PTL
=============================================================================

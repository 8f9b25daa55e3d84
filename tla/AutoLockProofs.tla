--------------------------- MODULE AutoLockProofs ---------------------------
(***************************************************************************)
(* Proofs about the auto-lock setting, for every threshold, every number   *)
(* of write attempts, and every width of the timers.                       *)
(***************************************************************************)
EXTENDS AutoLock, SequenceTheorems, TLAPS

\* While a read is under way nothing is awaited from the one before, and no
\* backoff runs; a backoff starts the counts afresh.
OneReadAtATime ==
    /\ reader # "none" => ~backedOff /\ awaiting = "no"
    /\ backedOff => awaiting = "no" /\ ackFailures = 0 /\ responseFailures = 0

\* The inductive invariant of the counts, which no frame's content enters.
CountInv ==
    /\ backedOff \in BOOLEAN
    /\ reader \in {"none", "waiting", "asked", "acknowledged"}
    /\ CountsTyped
    /\ OneReadAtATime
    /\ EachReadCountsOnce

LEMMA ThresholdTyped == Threshold \in Nat \ {0}
  BY AutoLockAssumption DEF AutoLockAssumption

USE ThresholdTyped

\* A failure more ends in a backoff, or adds to the counts.
LEMMA FailuresCount ==
  ASSUME NEW ack \in Nat, NEW resp \in Nat, backedOff = FALSE, Failures(ack, resp)
  PROVE  /\ ack + resp >= Threshold
              => backedOff' = TRUE /\ ackFailures' = 0 /\ responseFailures' = 0
         /\ ack + resp < Threshold
              => backedOff' = FALSE /\ ackFailures' = ack /\ responseFailures' = resp
  <1>1. ASSUME ack + resp >= Threshold
        PROVE  backedOff' = TRUE /\ ackFailures' = 0 /\ responseFailures' = 0
    <2>1. Exhausted(ack, resp)
      BY <1>1 DEF Exhausted
    <2> QED BY <2>1 DEF Failures
  <1>2. ASSUME ack + resp < Threshold
        PROVE  backedOff' = FALSE /\ ackFailures' = ack /\ responseFailures' = resp
    <2>1. ~Exhausted(ack, resp)
      BY <1>2 DEF Exhausted
    <2> QED BY <2>1 DEF Failures
  <1> QED BY <1>1, <1>2

\* The ways a step may leave the counts when nothing is awaited after it.
LEMMA NoneAwaited ==
  ASSUME NEW ack \in Nat, NEW resp \in Nat, ack + resp < Threshold,
         backedOff' = FALSE, awaiting' = "no",
         reader' \in {"none", "waiting", "asked", "acknowledged"},
         ackFailures' = ack, responseFailures' = resp, asks' = ack + resp
  PROVE  CountInv'
  <1>1. CountsTyped'
    BY DEF CountsTyped
  <1>2. OneReadAtATime'
    BY DEF OneReadAtATime
  <1>3. EachReadCountsOnce'
    BY DEF EachReadCountsOnce
  <1> QED BY <1>1, <1>2, <1>3 DEF CountInv

LEMMA Afresh ==
  ASSUME backedOff' = FALSE, awaiting' = "no", ackFailures' = 0, responseFailures' = 0,
         asks' = 0, reader' \in {"none", "waiting", "asked", "acknowledged"}
  PROVE  CountInv'
  <1>1. 0 \in Nat /\ 0 + 0 < Threshold /\ 0 + 0 = 0
    OBVIOUS
  <1> QED BY <1>1, NoneAwaited

LEMMA BacksOff ==
  ASSUME backedOff' = TRUE, awaiting' = "no", reader' = "none",
         ackFailures' = 0, responseFailures' = 0, asks' = Threshold
  PROVE  CountInv'
  <1>1. CountsTyped'
    BY DEF CountsTyped
  <1>2. OneReadAtATime'
    BY DEF OneReadAtATime
  <1>3. EachReadCountsOnce'
    BY DEF EachReadCountsOnce
  <1> QED BY <1>1, <1>2, <1>3 DEF CountInv

\* The read begins: an overdue response is counted in its place.
LEMMA ReadBegins == ASSUME CountInv, ReadAutoLockSetting PROVE CountInv'
  <1> DEFINE lapsed == responseFailures + (IF awaiting = "overdue" THEN 1 ELSE 0)
             stop == awaiting = "overdue" /\ Exhausted(ackFailures, lapsed)
  <1>1. /\ ackFailures \in Nat /\ responseFailures \in Nat /\ lapsed \in Nat /\ asks \in Nat
        /\ ackFailures + responseFailures < Threshold
        /\ asks = ackFailures + lapsed
        /\ ackFailures + lapsed <= Threshold
        /\ reader = "none" /\ backedOff = FALSE
    BY DEF CountInv, CountsTyped, EachReadCountsOnce, ReadAutoLockSetting
  <1>2. /\ Failures(ackFailures, lapsed) /\ awaiting' = "no" /\ asks' = asks
        /\ reader' \in {"none", "waiting"}
        /\ stop => reader' = "none"
    BY DEF ReadAutoLockSetting
  <1>3. CASE ackFailures + lapsed >= Threshold
    <2>1. stop
      BY <1>1, <1>3 DEF Exhausted
    <2>2. /\ backedOff' = TRUE /\ ackFailures' = 0 /\ responseFailures' = 0
      BY <1>1, <1>2, <1>3, FailuresCount
    <2> HIDE DEF lapsed, stop
    <2>3. asks' = Threshold /\ reader' = "none" /\ awaiting' = "no"
      BY <1>1, <1>2, <1>3, <2>1
    <2> QED BY <2>2, <2>3, BacksOff
  <1>4. CASE ackFailures + lapsed < Threshold
    <2>1. backedOff' = FALSE /\ ackFailures' = ackFailures /\ responseFailures' = lapsed
      BY <1>1, <1>2, <1>4, FailuresCount
    <2> HIDE DEF lapsed, stop
    <2>2. /\ asks' = ackFailures + lapsed
          /\ reader' \in {"none", "waiting", "asked", "acknowledged"} /\ awaiting' = "no"
      BY <1>1, <1>2, <1>4, <2>1
    <2> QED BY <1>1, <1>4, <2>1, <2>2, NoneAwaited
  <1> HIDE DEF lapsed
  <1> QED BY <1>1, <1>3, <1>4

\* The steps that end a read: each adds one failure, one awaited value, or none.
LEMMA ReadEnds ==
  ASSUME CountInv, ReadReturns \/ ReadTimesOut \/ ReadFails \/ LinkGone
  PROVE  CountInv'
  <1> USE DEF CountInv, CountsTyped, OneReadAtATime, EachReadCountsOnce, failures
  <1>1. CASE ReadReturns
    BY <1>1 DEF ReadReturns
  <1>2. CASE ReadTimesOut
    <2>1. /\ backedOff = FALSE /\ awaiting = "no" /\ awaiting' = "no" /\ reader' = "none"
          /\ asks' = asks + 1 /\ asks = ackFailures + responseFailures
          /\ ackFailures + 1 \in Nat
          /\ Failures(ackFailures + 1, responseFailures)
      BY <1>2 DEF ReadTimesOut
    <2> HIDE DEF CountInv, CountsTyped, OneReadAtATime, EachReadCountsOnce
    <2>a. responseFailures \in Nat /\ ackFailures \in Nat /\ backedOff \in BOOLEAN
          /\ ackFailures + responseFailures < Threshold
      BY DEF CountInv, CountsTyped
    <2>2. CASE ackFailures + 1 + responseFailures >= Threshold
      <3>1. backedOff' = TRUE /\ ackFailures' = 0 /\ responseFailures' = 0
        BY <2>1, <2>a, <2>2, FailuresCount
      <3>2. asks' = Threshold
        BY <2>1, <2>a, <2>2
      <3> QED BY <2>1, <3>1, <3>2, BacksOff
    <2>3. CASE ackFailures + 1 + responseFailures < Threshold
      <3>1. /\ backedOff' = FALSE /\ ackFailures' = ackFailures + 1
            /\ responseFailures' = responseFailures
        BY <2>1, <2>a, <2>3, FailuresCount
      <3>2. asks' = ackFailures + 1 + responseFailures /\ ackFailures + 1 \in Nat
        BY <2>1, <2>a, <2>3
      <3> QED BY <2>1, <2>a, <2>3, <3>1, <3>2, NoneAwaited
    <2>4. /\ ackFailures + 1 + responseFailures \in Nat /\ Threshold \in Nat
      BY <2>a
    <2> QED BY <2>2, <2>3, <2>4
  <1>3. CASE ReadFails
    BY <1>3 DEF ReadFails
  <1>4. CASE LinkGone
    BY <1>4 DEF LinkGone
  <1> QED BY <1>1, <1>2, <1>3, <1>4

\* A value that arrives, and a write that is confirmed, start the counts afresh.
LEMMA FrameCounts == ASSUME CountInv, Frame \/ WriteConfirmed PROVE CountInv'
  <1> USE DEF CountInv, CountsTyped, OneReadAtATime, EachReadCountsOnce, failures
  <1>1. CASE Frame
    <2>1. /\ reader' \in {"none", "waiting", "asked", "acknowledged"}
          /\ reader' # "none" => reader # "none"
      BY <1>1 DEF Frame
    <2>2. CASE Head(frames).kind = "ack"
      <3>1. UNCHANGED <<awaiting, failures, asks>>
        BY <1>1, <2>2 DEF Frame
      <3> QED BY <2>1, <3>1
    <2>3. CASE Head(frames).kind # "ack"
      <3>1. /\ awaiting' = "no" /\ ackFailures' = 0 /\ responseFailures' = 0
            /\ backedOff' = FALSE /\ asks' = 0
        BY <1>1, <2>3 DEF Frame, SettingsResponse
      <3> QED BY <2>1, <3>1, Afresh
    <2> QED BY <2>2, <2>3
  <1>2. CASE WriteConfirmed
    <2>1. /\ awaiting' = "no" /\ ackFailures' = 0 /\ responseFailures' = 0
          /\ backedOff' = FALSE /\ asks' = 0 /\ reader' = reader
      BY <1>2 DEF WriteConfirmed
    <2>2. reader' \in {"none", "waiting", "asked", "acknowledged"}
      BY <2>1
    <2> QED BY <2>1, <2>2, Afresh
  <1> QED BY <1>1, <1>2

LEMMA CountsKept == ASSUME CountInv, [Next]_vars PROVE CountInv'
  <1> DEFINE Counts == <<awaiting, ackFailures, responseFailures, backedOff, reader, asks>>
  <1>1. CASE ReadAutoLockSetting
    BY <1>1, ReadBegins
  <1>2. CASE \/ ReadReturns \/ ReadTimesOut \/ ReadFails
             \/ WriteTimesOut \/ LinkDrops \/ IdleDisconnect
    BY <1>2, ReadEnds DEF WriteTimesOut, LinkDrops, IdleDisconnect
  <1>3. CASE Frame \/ WriteConfirmed
    BY <1>3, FrameCounts
  <1>4. CASE SendRead \/ ForeignFrame
    BY <1>4 DEF SendRead, ForeignFrame, failures, CountInv, CountsTyped, OneReadAtATime,
                EachReadCountsOnce
  <1>5. CASE ResponseDeadlinePasses
    BY <1>5 DEF ResponseDeadlinePasses, failures, CountInv, CountsTyped, OneReadAtATime,
                EachReadCountsOnce
  <1>6. CASE BackoffLapses
    <2>1. /\ awaiting' = "no" /\ ackFailures' = 0 /\ responseFailures' = 0
          /\ backedOff' = FALSE /\ asks' = 0 /\ reader' = reader
      BY <1>6 DEF BackoffLapses, CountInv, OneReadAtATime
    <2>2. reader' \in {"none", "waiting", "asked", "acknowledged"}
      BY <2>1 DEF CountInv
    <2> QED BY <2>1, <2>2, Afresh
  <1>7. CASE \/ Connect \/ SetAutoLock \/ SendWrite \/ CancelWrite \/ RefreshFallsDue
             \/ ForeignWrite \/ UNCHANGED vars
    <2>1. UNCHANGED Counts
      BY <1>7 DEF Connect, SetAutoLock, SendWrite, CancelWrite, RefreshFallsDue, ForeignWrite,
                  vars, failures
    <2> QED BY <2>1 DEF CountInv, CountsTyped, OneReadAtATime, EachReadCountsOnce
  <1> QED BY <1>1, <1>2, <1>3, <1>4, <1>5, <1>6, <1>7 DEF Next

LEMMA InitCounts == Init => CountInv
  <1> SUFFICES ASSUME Init PROVE CountInv
    OBVIOUS
  <1>1. CountsTyped /\ OneReadAtATime
    BY DEF Init, CountsTyped, OneReadAtATime
  <1>2. EachReadCountsOnce
    BY DEF Init, EachReadCountsOnce
  <1> QED BY <1>1, <1>2 DEF Init, CountInv

\* Every read that gave no value counts once, and a lock is left alone after
\* exactly as many of them as the threshold says.
THEOREM ReadsAreCounted == Spec => []EachReadCountsOnce
  <1>1. CountInv /\ [Next]_vars => CountInv'
    BY CountsKept
  <1>2. CountInv => EachReadCountsOnce
    BY DEF CountInv
  <1> QED BY InitCounts, <1>1, <1>2, PTL DEF Spec
-----------------------------------------------------------------------------
LEMMA WordTyped == Word \in Nat \ {0}
  BY AutoLockAssumption DEF AutoLockAssumption

\* What is written for a mode and a duration fits the two timers.
LEMMA PackFits ==
  ASSUME NEW mode, NEW duration \in 0 .. Word - 1
  PROVE  Pack(mode, duration) \in Values
  <1>1. duration * Word <= (Word - 1) * Word
    BY WordTyped
  <1>2. (Word - 1) * Word = Word * Word - Word
    BY WordTyped
  <1>3. duration * Word \in Nat /\ Word * Word \in Nat
    BY WordTyped
  <1>4. duration + duration * Word <= Word * Word - 1
    BY <1>1, <1>2, <1>3, WordTyped
  <1> QED BY <1>3, <1>4 DEF Pack, Values

\* The lock's own parse gives back the setting that was written, whatever the
\* width of its timers.
THEOREM WrittenIsParsed ==
  ASSUME NEW mode \in {"INSTANT", "TIMER"}, NEW duration \in 1 .. Word - 1
  PROVE  Parse(Pack(mode, duration)) = State(mode, duration)
  <1>1. duration % Word = duration /\ duration \div Word = 0
    BY WordTyped
  <1>2. (duration + duration * Word) % Word = duration
    BY WordTyped
  <1>3. (duration + duration * Word) \div Word = duration
    BY WordTyped
  <1>4. duration # 0 /\ duration + duration * Word # 0 /\ duration * Word \in Nat
    BY WordTyped
  <1>5. CASE mode = "INSTANT"
    <2>1. Pack(mode, duration) = duration
      BY <1>4, <1>5 DEF Pack
    <2> QED BY <1>1, <1>4, <1>5, <2>1 DEF Parse
  <1>6. CASE mode = "TIMER"
    <2>1. Pack(mode, duration) = duration + duration * Word
      BY <1>4, <1>6 DEF Pack
    <2> QED BY <1>2, <1>3, <1>4, <1>6, <2>1 DEF Parse
  <1> QED BY <1>5, <1>6
-----------------------------------------------------------------------------
(* The settings responses, and the display they leave.                     *)

FrameSet == [kind : {"ack", "read", "write"}, value : Values]

\* A state that a display shows or a write asks for.
Sane(state) ==
    \/ state \in {Off, Unknown}
    \/ state \in [mode : {"INSTANT", "TIMER"}, duration : 1 .. Word - 1]
StatesSane == Sane(display) /\ Sane(displayPrev) /\ Sane(wanted) /\ wanted # Unknown

\* No link, no frames and no request; a lock without the feature sends no value
\* unasked; the answer to a write is the last thing the lock has to send.
WireAgrees ==
    /\ ~link => frames = <<>> /\ turn = "none"
    /\ ~supported => \A i \in DOMAIN frames : frames[i].kind # "read"
    /\ turn = "writer" /\ frames # <<>> => frames[Len(frames)].kind # "read"

\* Unless a write was cancelled or another application wrote, a write's response
\* on its way is the one the writer waits for, with the value it sent.
AnswerIsItsOwn ==
    ~unconfirmed =>
        \A i \in DOMAIN frames : frames[i].kind = "write" =>
            /\ writer = "asked" /\ i = Len(frames)
            /\ frames[i].value = Pack(wanted.mode, wanted.duration)

\* A write that is confirmed has nothing left to come, and is on display.
ConfirmedShows ==
    writer = "confirmed" /\ ~unconfirmed => frames = <<>> /\ display = wanted

\* The last value on its way is the one the lock has stored; where none is on
\* its way, the value that was seen is.
Silent == \A i \in DOMAIN frames : frames[i].kind = "ack"
LastIsStored ==
    /\ \A i \in DOMAIN frames :
         frames[i].kind # "ack" /\ (\A j \in DOMAIN frames : j > i => frames[j].kind = "ack")
            => frames[i].value = setting
    /\ Silent /\ seen => display = Parse(setting)
Unanswered == writer = "asked" /\ \A i \in DOMAIN frames : frames[i].kind # "write"
CatchesUp == link /\ ~unconfirmed => Unanswered \/ LastIsStored

\* The inductive invariant of the setting.
SettingInv ==
    /\ FlagsTyped /\ RequestsTyped /\ ValuesTyped
    /\ StatesSane /\ WireAgrees /\ AnswerIsItsOwn /\ ConfirmedShows /\ CatchesUp


\* What the frames are after one more request was answered.
LEMMA FramesAnswered ==
  ASSUME NEW s \in Seq(FrameSet), NEW f \in FrameSet
  PROVE  /\ s \o <<Ack, f>> \in Seq(FrameSet)
         /\ Len(s \o <<Ack, f>>) = Len(s) + 2
         /\ \A i \in 1 .. Len(s) : (s \o <<Ack, f>>)[i] = s[i]
         /\ (s \o <<Ack, f>>)[Len(s) + 1] = Ack
         /\ (s \o <<Ack, f>>)[Len(s) + 2] = f
  <1>1. Ack \in FrameSet
    BY WordTyped DEF Ack, Response, FrameSet, Values
  <1> DEFINE b == <<Ack, f>>
  <1>2. b \in Seq(FrameSet) /\ Len(b) = 2 /\ b[1] = Ack /\ b[2] = f
    BY <1>1
  <1> HIDE DEF b
  <1>3. Len(s) \in Nat
    BY LenProperties
  <1>4. /\ s \o b \in Seq(FrameSet) /\ Len(s \o b) = Len(s) + 2
        /\ \A i \in 1 .. Len(s) + 2 : (s \o b)[i] = IF i <= Len(s) THEN s[i] ELSE b[i - Len(s)]
    <2>1. /\ s \o b \in Seq(FrameSet) /\ Len(s \o b) = Len(s) + Len(b)
          /\ \A i \in 1 .. Len(s) + Len(b) :
               (s \o b)[i] = IF i <= Len(s) THEN s[i] ELSE b[i - Len(s)]
      BY <1>2, ConcatProperties
    <2>2. Len(s) + Len(b) = Len(s) + 2
      BY <1>2
    <2> QED BY <2>1, <2>2
  <1>5. \A i \in 1 .. Len(s) : (s \o b)[i] = s[i]
    BY <1>3, <1>4
  <1>6. (s \o b)[Len(s) + 1] = b[1]
    <2>1. /\ Len(s) + 1 \in 1 .. Len(s) + 2 /\ ~(Len(s) + 1 <= Len(s))
          /\ (Len(s) + 1) - Len(s) = 1
      BY <1>3
    <2> QED BY <1>4, <2>1
  <1>7. (s \o b)[Len(s) + 2] = b[2]
    <2>1. /\ Len(s) + 2 \in 1 .. Len(s) + 2 /\ ~(Len(s) + 2 <= Len(s))
          /\ (Len(s) + 2) - Len(s) = 2
      BY <1>3
    <2> QED BY <1>4, <2>1
  <1> QED BY <1>2, <1>4, <1>5, <1>6, <1>7 DEF b

LEMMA FramesAcked ==
  ASSUME NEW s \in Seq(FrameSet)
  PROVE  /\ Append(s, Ack) \in Seq(FrameSet)
         /\ Len(Append(s, Ack)) = Len(s) + 1
         /\ \A i \in 1 .. Len(s) : Append(s, Ack)[i] = s[i]
         /\ Append(s, Ack)[Len(s) + 1] = Ack
  <1>1. Ack \in FrameSet
    BY WordTyped DEF Ack, Response, FrameSet, Values
  <1> QED BY <1>1, AppendProperties

LEMMA FramesRead ==
  ASSUME NEW s \in Seq(FrameSet), s # <<>>
  PROVE  /\ Len(s) \in Nat \ {0} /\ Head(s) = s[1] /\ Head(s) \in FrameSet
         /\ Tail(s) \in Seq(FrameSet) /\ Len(Tail(s)) = Len(s) - 1
         /\ \A i \in 1 .. Len(s) - 1 : Tail(s)[i] = s[i + 1]
         /\ Tail(s) = <<>> <=> Len(s) = 1
  <1>1. /\ Len(s) \in Nat \ {0} /\ Head(s) = s[1] /\ Head(s) \in FrameSet
        /\ Tail(s) \in Seq(FrameSet) /\ Len(Tail(s)) = Len(s) - 1
        /\ \A i \in 1 .. Len(s) - 1 : Tail(s)[i] = s[i + 1]
    BY HeadTailProperties, LenProperties, EmptySeq
  <1>2. Tail(s) = <<>> <=> Len(Tail(s)) = 0
    BY <1>1, EmptySeq
  <1> QED BY <1>1, <1>2

\* Whatever the two timers hold, the display has a sane state for it.
LEMMA ParseSane ==
  ASSUME NEW value \in Values
  PROVE  Sane(Parse(value)) /\ Parse(value) # Unknown
  <1> DEFINE never == value % Word
             door == value \div Word
  <1>1. value \in Nat /\ value < Word * Word /\ Word * Word \in Nat
    BY WordTyped DEF Values
  <1>2. never \in 0 .. Word - 1 /\ door \in Nat /\ value = door * Word + never
    BY <1>1, WordTyped
  <1>3. door < Word
    <2> SUFFICES ASSUME door >= Word PROVE FALSE
      BY <1>2, WordTyped
    <2> HIDE DEF never, door
    <2>1. PICK k \in Nat : door = Word + k
      <3>1. door - Word \in Nat /\ door = Word + (door - Word)
        BY <1>2, WordTyped
      <3> QED BY <3>1
    <2>2. door * Word = Word * Word + k * Word /\ k * Word \in Nat
      BY <2>1, WordTyped
    <2> QED BY <1>1, <1>2, <2>2, WordTyped
  <1>4. Parse(value) = IF value = 0 THEN Off
                       ELSE IF door # 0
                         THEN State("TIMER", IF never # 0 THEN never ELSE door)
                         ELSE State("INSTANT", never)
    BY DEF Parse
  <1>5. value # 0 /\ door = 0 => never # 0
    <2> HIDE DEF never, door
    <2>1. door = 0 => door * Word = 0
      BY WordTyped
    <2> QED BY <1>1, <1>2, <2>1
  <1> HIDE DEF never, door
  <1>6. CASE value = 0
    BY <1>4, <1>6 DEF Sane, Off, Unknown, State
  <1>7. CASE value # 0 /\ door # 0
    <2>1. (IF never # 0 THEN never ELSE door) \in 1 .. Word - 1
      BY <1>2, <1>3, <1>7, WordTyped
    <2> QED BY <1>4, <1>7, <2>1 DEF Sane, Unknown, State
  <1>8. CASE value # 0 /\ door = 0
    <2>1. never \in 1 .. Word - 1
      BY <1>2, <1>5, <1>8, WordTyped
    <2> QED BY <1>4, <1>8, <2>1 DEF Sane, Unknown, State
  <1> QED BY <1>6, <1>7, <1>8

LEMMA ConstantsTyped ==
  /\ WriteAttempts \in Nat \ {0} /\ Durations \subseteq 0 .. Word - 1
  /\ ForeignValues \subseteq Values
  BY AutoLockAssumption DEF AutoLockAssumption, Values

USE WordTyped, ConstantsTyped

SettingTyped == FlagsTyped /\ RequestsTyped /\ ValuesTyped

\* The steps that touch neither the wire nor the write nor what is shown.
Quiet ==
    /\ UNCHANGED <<fixed, wire, shown, writing, unconfirmed>>
    /\ seen' \in BOOLEAN /\ (seen' => seen)
    /\ turn' # turn => turn # "writer" /\ turn' = "none"

LEMMA QuietSteps ==
  ASSUME SettingTyped,
         \/ ReadAutoLockSetting \/ ReadReturns \/ ReadTimesOut \/ ReadFails \/ ForeignFrame
         \/ ResponseDeadlinePasses \/ BackoffLapses \/ RefreshFallsDue \/ UNCHANGED vars
  PROVE  Quiet
  <1> USE DEF Quiet, SettingTyped, FlagsTyped, RequestsTyped, fixed, wire, shown, writing
  <1>1. CASE ReadAutoLockSetting
    BY <1>1 DEF ReadAutoLockSetting
  <1>2. CASE ReadReturns \/ ReadTimesOut \/ ReadFails
    BY <1>2 DEF ReadReturns, ReadTimesOut, ReadFails
  <1>3. CASE ForeignFrame \/ ResponseDeadlinePasses \/ BackoffLapses \/ RefreshFallsDue
    BY <1>3 DEF ForeignFrame, ResponseDeadlinePasses, BackoffLapses, RefreshFallsDue
  <1>4. CASE UNCHANGED vars
    BY <1>4 DEF vars
  <1> QED BY <1>1, <1>2, <1>3, <1>4

LEMMA SettingTypedKept ==
  ASSUME SettingTyped, CountInv, [Next]_vars PROVE SettingTyped'
  <1> USE DEF SettingTyped, FlagsTyped, RequestsTyped, ValuesTyped, fixed, wire, shown, writing,
              failures
  <1>0. Off \in [mode : {"OFF", "INSTANT", "TIMER"}, duration : 0 .. Word - 1]
    BY DEF Off, State
  <1>1. CASE ReadAutoLockSetting
    BY <1>1 DEF ReadAutoLockSetting, Failures
  <1>2. CASE ReadReturns \/ ReadFails \/ ForeignFrame
    BY <1>2 DEF ReadReturns, ReadFails, ForeignFrame
  <1>3. CASE ReadTimesOut
    BY <1>3 DEF ReadTimesOut, Failures
  <1>4. CASE ResponseDeadlinePasses \/ BackoffLapses \/ RefreshFallsDue \/ UNCHANGED vars
    <2>1. UNCHANGED <<fixed, wire, turn, seen, reader, writing, unconfirmed>>
      BY <1>4 DEF ResponseDeadlinePasses, BackoffLapses, RefreshFallsDue, vars
    <2>2. backedOff' \in BOOLEAN /\ refreshDue' \in BOOLEAN
      BY <1>4 DEF ResponseDeadlinePasses, BackoffLapses, RefreshFallsDue, vars
    <2> QED BY <2>1, <2>2
  <1>5. CASE Connect
    BY <1>5 DEF Connect
  <1>6. CASE SendRead
    <2>1. frames' \in Seq(FrameSet)
      <3>1. Response("read", setting) \in FrameSet
        BY DEF Response, FrameSet
      <3>2. frames \in Seq(FrameSet)
        BY DEF FrameSet
      <3> QED BY <1>6, <3>1, <3>2, FramesAnswered, FramesAcked DEF SendRead
    <2> QED BY <1>6, <2>1 DEF SendRead, FrameSet
  <1>7. CASE SetAutoLock
    BY <1>7 DEF SetAutoLock, State
  <1>8. CASE SendWrite
    <2> DEFINE value == Pack(wanted.mode, wanted.duration)
    <2>1. value \in Values
      BY PackFits
    <2> HIDE DEF value
    <2>2. CASE setting' = value /\ frames' = frames \o <<Ack, Response("write", value)>>
      <3>1. Response("write", value) \in FrameSet /\ frames \in Seq(FrameSet)
        BY <2>1 DEF Response, FrameSet
      <3>2. frames' \in Seq(FrameSet)
        BY <2>2, <3>1, FramesAnswered
      <3> QED BY <1>8, <2>1, <2>2, <3>2 DEF SendWrite, FrameSet
    <2>3. CASE setting' \in {setting, value} /\ UNCHANGED frames
      BY <1>8, <2>1, <2>3 DEF SendWrite
    <2> QED BY <1>8, <2>2, <2>3 DEF SendWrite, value
  <1>9. CASE WriteConfirmed
    <2>1. FlagsTyped' /\ ValuesTyped'
      BY <1>0, <1>9 DEF WriteConfirmed
    <2>2. RequestsTyped'
      BY <1>9 DEF WriteConfirmed
    <2> QED BY <2>1, <2>2
  <1>10. CASE LinkGone
    <2>1. frames' \in Seq([kind : {"ack", "read", "write"}, value : Values])
      BY <1>10 DEF LinkGone
    <2>2. FlagsTyped' /\ ValuesTyped'
      BY <1>0, <1>10, <2>1 DEF LinkGone
    <2>3. RequestsTyped'
      BY <1>10 DEF LinkGone
    <2> QED BY <2>2, <2>3
  <1>11. CASE CancelWrite
    BY <1>0, <1>11 DEF CancelWrite
  <1>12. CASE Frame
    <2>1. frames' \in Seq(FrameSet) /\ frames \in Seq(FrameSet) /\ Head(frames) \in FrameSet
      BY <1>12, FramesRead DEF Frame, FrameSet
    <2>2. seen' \in BOOLEAN /\ backedOff' \in BOOLEAN /\ refreshDue' \in BOOLEAN
      BY <1>12 DEF Frame, SettingsResponse
    <2>3. FlagsTyped' /\ ValuesTyped'
      BY <1>12, <2>1, <2>2 DEF Frame, FrameSet
    <2>4. RequestsTyped'
      BY <1>12 DEF Frame
    <2> QED BY <2>3, <2>4
  <1>13. CASE ForeignWrite
    BY <1>13 DEF ForeignWrite
  <1> QED BY <1>1, <1>2, <1>3, <1>4, <1>5, <1>6, <1>7, <1>8, <1>9, <1>10, <1>11, <1>12, <1>13
          DEF Next, WriteTimesOut, LinkDrops, IdleDisconnect

\* What an application may ask for is sane: the half it leaves out comes from a
\* state that is.
LEMMA AskedIsSane ==
  ASSUME StatesSane, SetAutoLock
  PROVE  Sane(wanted') /\ wanted' # Unknown
  <1>1. PICK mode \in {"OFF", "INSTANT", "TIMER"}, duration \in Durations :
          /\ duration = DurationFor(mode) \/ mode = ModeFor(duration)
          /\ wanted' = State(mode, duration)
    BY DEF SetAutoLock
  <1>2. Sane(Remembered)
    BY DEF StatesSane, Remembered
  <1>3. Remembered.mode \notin {"OFF", "UNKNOWN"}
          => Remembered.mode \in {"INSTANT", "TIMER"} /\ Remembered.duration \in 1 .. Word - 1
    BY <1>2 DEF Sane, Off, Unknown, State
  <1> DEFINE r == Remembered
  <1>4. DefaultDuration # 0
    BY AutoLockAssumption DEF AutoLockAssumption, DefaultDuration
  <1>5. DurationFor(mode) = IF mode = "OFF" THEN 0
                            ELSE IF r.mode \notin {"OFF", "UNKNOWN"} THEN r.duration
                            ELSE DefaultDuration
    BY DEF DurationFor
  <1>6. ModeFor(duration) = IF duration = 0 THEN "OFF"
                            ELSE IF r.mode \notin {"OFF", "UNKNOWN"} THEN r.mode ELSE "TIMER"
    BY DEF ModeFor
  <1> HIDE DEF r
  <1>7. mode = "OFF" <=> duration = 0
    BY <1>1, <1>3, <1>4, <1>5, <1>6 DEF r
  <1>8. CASE mode = "OFF"
    BY <1>1, <1>7, <1>8 DEF Sane, Off, Unknown, State
  <1>9. CASE mode # "OFF"
    <2>1. duration \in 1 .. Word - 1
      BY <1>7, <1>9
    <2> QED BY <1>1, <1>9, <2>1 DEF Sane, Unknown, State
  <1> QED BY <1>8, <1>9

LEMMA StatesSaneKept ==
  ASSUME SettingTyped, StatesSane, [Next]_vars PROVE StatesSane'
  <1> USE DEF fixed, wire, shown, writing
  <1>1. Sane(Off) /\ Off # Unknown
    BY DEF Sane, Off, Unknown, State
  <1>2. ASSUME UNCHANGED <<display, displayPrev>>, wanted' \in {wanted, Off} PROVE StatesSane'
    BY <1>1, <1>2 DEF StatesSane
  <1>3. CASE SetAutoLock
    <2>1. Sane(wanted') /\ wanted' # Unknown
      BY <1>3, AskedIsSane
    <2>2. UNCHANGED <<display, displayPrev>>
      BY <1>3 DEF SetAutoLock
    <2> QED BY <2>1, <2>2 DEF StatesSane
  <1>4. CASE Frame
    <2>1. UNCHANGED wanted
      BY <1>4 DEF Frame
    <2>2. CASE Head(frames).kind = "ack"
      BY <1>2, <1>4, <2>1, <2>2 DEF Frame
    <2>3. CASE Head(frames).kind # "ack"
      <3>1. Head(frames).value \in Values
        BY <1>4, FramesRead DEF Frame, SettingTyped, ValuesTyped, FrameSet
      <3>2. Sane(Parse(Head(frames).value))
        BY <3>1, ParseSane
      <3>3. display' = Parse(Head(frames).value) /\ displayPrev' \in {display, displayPrev}
        BY <1>4, <2>3 DEF Frame, SettingsResponse
      <3> QED BY <2>1, <3>2, <3>3 DEF StatesSane
    <2> QED BY <2>2, <2>3
  <1>5. CASE WriteConfirmed \/ CancelWrite \/ LinkGone
    <2>1. UNCHANGED <<display, displayPrev>> /\ wanted' \in {wanted, Off}
      BY <1>5 DEF WriteConfirmed, CancelWrite, LinkGone
    <2> QED BY <1>2, <2>1
  <1>6. CASE Connect \/ SendRead \/ SendWrite \/ ForeignWrite
    <2>1. UNCHANGED <<display, displayPrev, wanted>>
      BY <1>6 DEF Connect, SendRead, SendWrite, ForeignWrite
    <2> QED BY <1>2, <2>1
  <1>7. CASE Quiet
    BY <1>2, <1>7 DEF Quiet
  <1> QED BY <1>3, <1>4, <1>5, <1>6, <1>7, QuietSteps
          DEF Next, WriteTimesOut, LinkDrops, IdleDisconnect

Agreed == WireAgrees /\ AnswerIsItsOwn /\ ConfirmedShows /\ CatchesUp

LEMMA QuietAgrees == ASSUME SettingTyped, Agreed, Quiet PROVE Agreed'
  <1> USE DEF Quiet, fixed, wire, shown, writing
  <1>1. WireAgrees'
    BY DEF Agreed, WireAgrees, SettingTyped, RequestsTyped
  <1>2. AnswerIsItsOwn' /\ ConfirmedShows'
    BY DEF Agreed, AnswerIsItsOwn, ConfirmedShows
  <1>3. CatchesUp'
    BY DEF Agreed, CatchesUp, LastIsStored, Silent, Unanswered
  <1> QED BY <1>1, <1>2, <1>3 DEF Agreed

LEMMA LinkAgrees ==
  ASSUME SettingTyped, Agreed, Connect \/ LinkGone PROVE Agreed'
  <1> USE DEF fixed, wire, shown, writing
  <1>1. CASE Connect
    <2>1. /\ frames' = <<>> /\ link' /\ ~seen' /\ turn' = "none" /\ writer' = writer
          /\ writer \notin {"asked", "confirmed"}
      BY <1>1 DEF Connect, Agreed, WireAgrees, SettingTyped, RequestsTyped
    <2> QED BY <2>1 DEF Agreed, WireAgrees, AnswerIsItsOwn, ConfirmedShows, CatchesUp,
                        LastIsStored
  <1>2. CASE LinkGone
    <2>1. frames' = <<>> /\ ~link' /\ turn' = "none" /\ writer' \notin {"asked", "confirmed"}
      BY <1>2 DEF LinkGone
    <2> QED BY <2>1 DEF Agreed, WireAgrees, AnswerIsItsOwn, ConfirmedShows, CatchesUp
  <1> QED BY <1>1, <1>2

LEMMA SendReadAgrees == ASSUME SettingTyped, Agreed, SendRead PROVE Agreed'
  <1> USE DEF fixed, wire, shown, writing
  <1> DEFINE n == Len(frames)
             f == Response("read", setting)
  <1>1. frames \in Seq(FrameSet) /\ n \in Nat /\ DOMAIN frames = 1 .. n
    BY LenProperties DEF SettingTyped, ValuesTyped, FrameSet
  <1>2. /\ turn' = "reader" /\ link /\ writer \notin {"asked", "confirmed"}
        /\ UNCHANGED <<supported, setting, link, seen, display, displayPrev, writer, wanted,
                       unconfirmed>>
    BY DEF SendRead, SettingTyped, RequestsTyped
  <1>3. f \in FrameSet /\ f.kind = "read" /\ f.value = setting /\ Ack.kind = "ack"
    BY DEF Response, FrameSet, Ack, SettingTyped, ValuesTyped
  <1>4. \/ frames' = frames
        \/ /\ frames' \in Seq(FrameSet) /\ Len(frames') = n + 1
           /\ frames'[n + 1] = Ack /\ \A i \in 1 .. n : frames'[i] = frames[i]
        \/ /\ supported
           /\ frames' \in Seq(FrameSet) /\ Len(frames') = n + 2
           /\ frames'[n + 1] = Ack /\ frames'[n + 2] = f
           /\ \A i \in 1 .. n : frames'[i] = frames[i]
    BY <1>1, <1>3, FramesAnswered, FramesAcked DEF SendRead
  <1> HIDE DEF f, n
  <1>5. ~unconfirmed => \A i \in 1 .. n : frames[i].kind # "write"
    BY <1>1, <1>2 DEF Agreed, AnswerIsItsOwn
  <1>6. ~unconfirmed => LastIsStored
    BY <1>2 DEF Agreed, CatchesUp, Unanswered
  <1>7. ConfirmedShows'
    BY <1>2 DEF ConfirmedShows
  <1>8. CASE frames' = frames
    BY <1>2, <1>5, <1>6, <1>7, <1>8
       DEF Agreed, WireAgrees, AnswerIsItsOwn, CatchesUp, LastIsStored, Silent
  <1>9. CASE /\ frames' \in Seq(FrameSet) /\ Len(frames') = n + 1
             /\ frames'[n + 1] = Ack /\ \A i \in 1 .. n : frames'[i] = frames[i]
    <2>1. DOMAIN frames' = 1 .. n + 1
      BY <1>9, LenProperties
    <2>2. \A i \in 1 .. n + 1 : i \in 1 .. n \/ i = n + 1
      BY <1>1
    <2>3. WireAgrees'
      BY <1>1, <1>2, <1>3, <1>9, <2>1, <2>2 DEF Agreed, WireAgrees
    <2>4. AnswerIsItsOwn'
      BY <1>1, <1>2, <1>3, <1>5, <1>9, <2>1, <2>2 DEF AnswerIsItsOwn
    <2>5. ~unconfirmed => LastIsStored'
      <3> SUFFICES ASSUME ~unconfirmed PROVE LastIsStored'
        OBVIOUS
      <3>1. Silent' => Silent
        BY <1>1, <1>9, <2>1 DEF Silent
      <3>2. ASSUME NEW i \in 1 .. n + 1, frames'[i].kind # "ack",
                   \A j \in 1 .. n + 1 : j > i => frames'[j].kind = "ack"
            PROVE  frames'[i].value = setting
        <4>1. i \in 1 .. n /\ frames[i].kind # "ack"
          BY <1>3, <1>9, <2>2, <3>2
        <4>2. \A j \in 1 .. n : j > i => frames[j].kind = "ack"
          BY <1>1, <1>9, <3>2
        <4> QED BY <1>1, <1>6, <1>9, <4>1, <4>2 DEF LastIsStored
      <3> QED BY <1>2, <1>6, <2>1, <3>1, <3>2 DEF LastIsStored
    <2> QED BY <1>2, <1>7, <2>3, <2>4, <2>5 DEF Agreed, CatchesUp
  <1>10. CASE /\ supported
              /\ frames' \in Seq(FrameSet) /\ Len(frames') = n + 2
              /\ frames'[n + 1] = Ack /\ frames'[n + 2] = f
              /\ \A i \in 1 .. n : frames'[i] = frames[i]
    <2>1. DOMAIN frames' = 1 .. n + 2 /\ n + 2 \in 1 .. n + 2 /\ n + 1 \in 1 .. n + 2
      BY <1>1, <1>10, LenProperties
    <2>2. \A i \in 1 .. n + 2 : i \in 1 .. n \/ i = n + 1 \/ i = n + 2
      BY <1>1
    <2>3. WireAgrees'
      BY <1>2, <1>10 DEF WireAgrees
    <2>4. AnswerIsItsOwn'
      BY <1>1, <1>2, <1>3, <1>5, <1>10, <2>1, <2>2 DEF AnswerIsItsOwn
    <2>5. LastIsStored'
      <3>1. ~Silent'
        BY <1>3, <1>10, <2>1 DEF Silent
      <3>2. ASSUME NEW i \in 1 .. n + 2, \A j \in 1 .. n + 2 : j > i => frames'[j].kind = "ack",
                   frames'[i].kind # "ack"
            PROVE  frames'[i].value = setting
        <4>1. i = n + 2
          <5>1. ~(n + 2 > i)
            BY <1>3, <1>10, <2>1, <3>2
          <5> QED BY <1>1, <5>1
        <4> QED BY <1>3, <1>10, <4>1
      <3> QED BY <1>2, <2>1, <3>1, <3>2 DEF LastIsStored
    <2> QED BY <1>7, <2>3, <2>4, <2>5 DEF Agreed, CatchesUp
  <1> QED BY <1>4, <1>8, <1>9, <1>10

LEMMA SendWriteAgrees == ASSUME SettingTyped, Agreed, SendWrite PROVE Agreed'
  <1> USE DEF fixed, wire, shown, writing
  <1> DEFINE n == Len(frames)
             value == Pack(wanted.mode, wanted.duration)
             f == Response("write", value)
  <1>1. frames \in Seq(FrameSet) /\ n \in Nat /\ DOMAIN frames = 1 .. n
    BY LenProperties DEF SettingTyped, ValuesTyped, FrameSet
  <1>2. /\ turn' = "writer" /\ link /\ writer = "waiting" /\ writer' = "asked"
        /\ UNCHANGED <<supported, link, seen, display, displayPrev, wanted, unconfirmed>>
    BY DEF SendWrite
  <1>3. value \in Values
    BY PackFits DEF SettingTyped, ValuesTyped
  <1>4. \/ ~supported /\ frames' = frames
        \/ setting' = value /\ frames' = frames \o <<Ack, f>>
    BY DEF SendWrite
  <1>5. value' = value
    BY <1>2
  <1> HIDE DEF value
  <1>6. f \in FrameSet /\ f.kind = "write" /\ f.value = value /\ Ack.kind = "ack"
    BY <1>3 DEF Response, FrameSet, Ack
  <1> HIDE DEF f, n
  <1>7. ~unconfirmed => \A i \in 1 .. n : frames[i].kind # "write"
    BY <1>1, <1>2 DEF Agreed, AnswerIsItsOwn
  <1>8. ConfirmedShows'
    BY <1>2 DEF ConfirmedShows
  <1>9. CASE ~supported /\ frames' = frames
    <2>1. frames # <<>> => Len(frames) \in DOMAIN frames
      BY <1>1, EmptySeq DEF n
    <2>2. WireAgrees'
      BY <1>2, <1>9, <2>1 DEF Agreed, WireAgrees
    <2>3. AnswerIsItsOwn' /\ CatchesUp'
      BY <1>1, <1>2, <1>7, <1>9 DEF AnswerIsItsOwn, CatchesUp, Unanswered
    <2> QED BY <1>8, <2>2, <2>3 DEF Agreed
  <1>10. CASE setting' = value /\ frames' = frames \o <<Ack, f>>
    <2>1. /\ frames' \in Seq(FrameSet) /\ Len(frames') = n + 2
          /\ frames'[n + 1] = Ack /\ frames'[n + 2] = f
          /\ \A i \in 1 .. n : frames'[i] = frames[i]
      BY <1>1, <1>6, <1>10, FramesAnswered DEF n
    <2>2. DOMAIN frames' = 1 .. n + 2 /\ n + 2 \in 1 .. n + 2 /\ n + 1 \in 1 .. n + 2
      BY <1>1, <2>1, LenProperties
    <2>3. \A i \in 1 .. n + 2 : i \in 1 .. n \/ i = n + 1 \/ i = n + 2
      BY <1>1
    <2>4. WireAgrees'
      <3>1. ~supported => \A i \in 1 .. n : frames[i].kind # "read"
        BY <1>1 DEF Agreed, WireAgrees
      <3> QED BY <1>2, <1>6, <2>1, <2>2, <2>3, <3>1 DEF WireAgrees
    <2>5. AnswerIsItsOwn'
      <3>1. ASSUME ~unconfirmed, NEW i \in 1 .. n + 2, frames'[i].kind = "write" PROVE i = n + 2
        BY <1>1, <1>6, <1>7, <2>1, <2>3, <3>1
      <3> QED BY <1>2, <1>5, <1>6, <2>1, <2>2, <3>1 DEF AnswerIsItsOwn, value
    <2>6. LastIsStored'
      <3>1. ~Silent'
        BY <1>6, <2>1, <2>2 DEF Silent
      <3>2. ASSUME NEW i \in 1 .. n + 2, \A j \in 1 .. n + 2 : j > i => frames'[j].kind = "ack",
                   frames'[i].kind # "ack"
            PROVE  frames'[i].value = setting'
        <4>1. i = n + 2
          <5>1. ~(n + 2 > i)
            BY <1>6, <2>1, <2>2, <3>2
          <5> QED BY <1>1, <5>1
        <4> QED BY <1>6, <1>10, <2>1, <4>1
      <3> QED BY <2>2, <3>1, <3>2 DEF LastIsStored
    <2> QED BY <1>8, <2>4, <2>5, <2>6 DEF Agreed, CatchesUp
  <1> QED BY <1>4, <1>9, <1>10

\* The writer's own steps but the request.
LEMMA WriterAgrees ==
  ASSUME SettingTyped, Agreed, SetAutoLock \/ WriteConfirmed \/ CancelWrite \/ ForeignWrite
  PROVE  Agreed'
  <1> USE DEF fixed, wire, shown, writing
  <1>1. WireAgrees'
    BY DEF Agreed, WireAgrees, SetAutoLock, WriteConfirmed, CancelWrite, ForeignWrite,
           SettingTyped, RequestsTyped
  <1>2. CASE SetAutoLock
    BY <1>1, <1>2 DEF SetAutoLock, Agreed, AnswerIsItsOwn, ConfirmedShows, CatchesUp, Unanswered,
                      LastIsStored, Silent
  <1>3. CASE WriteConfirmed
    BY <1>1, <1>3 DEF WriteConfirmed, Agreed, AnswerIsItsOwn, ConfirmedShows, CatchesUp,
                      Unanswered, LastIsStored, Silent
  <1>4. CASE CancelWrite
    <2>1. unconfirmed' \/ (~unconfirmed /\ writer # "asked")
      BY <1>4 DEF CancelWrite, SettingTyped, FlagsTyped
    <2>2. CASE unconfirmed'
      BY <1>1, <2>2 DEF Agreed, AnswerIsItsOwn, ConfirmedShows, CatchesUp
    <2>3. CASE ~unconfirmed /\ writer # "asked"
      BY <1>1, <1>4, <2>3 DEF CancelWrite, Agreed, AnswerIsItsOwn, ConfirmedShows, CatchesUp,
                              Unanswered, LastIsStored, Silent
    <2> QED BY <2>1, <2>2, <2>3
  <1>5. CASE ForeignWrite
    BY <1>1, <1>5 DEF ForeignWrite, Agreed, AnswerIsItsOwn, ConfirmedShows, CatchesUp
  <1> QED BY <1>2, <1>3, <1>4, <1>5

\* A frame comes in.
LEMMA FrameAgrees == ASSUME SettingTyped, StatesSane, Agreed, Frame PROVE Agreed'
  <1> USE DEF fixed, wire, shown, writing
  <1> DEFINE n == Len(frames)
             f == Head(frames)
  <1>1. /\ n \in Nat \ {0} /\ f = frames[1] /\ f \in FrameSet
        /\ frames' \in Seq(FrameSet) /\ Len(frames') = n - 1
        /\ \A i \in 1 .. n - 1 : frames'[i] = frames[i + 1]
        /\ frames' = <<>> <=> n = 1
    BY FramesRead DEF Frame, SettingTyped, ValuesTyped, FrameSet
  <1>2. DOMAIN frames = 1 .. n /\ DOMAIN frames' = 1 .. n - 1
    BY <1>1, LenProperties DEF SettingTyped, ValuesTyped, FrameSet
  <1>3. link /\ UNCHANGED <<supported, setting, link, turn, wanted>>
    BY DEF Frame, Agreed, WireAgrees, SettingTyped, FlagsTyped
  <1>4. /\ writer' = IF writer = "asked" /\ f.kind = "write" THEN "confirmed" ELSE writer
        /\ f.kind = "ack" => UNCHANGED <<seen, display>>
        /\ f.kind # "ack" => seen' = TRUE /\ display' = Parse(f.value)
        /\ unconfirmed' = (unconfirmed /\ ~(f = Response("read", setting) /\ frames' = <<>>))
    BY DEF Frame, SettingsResponse
  <1> HIDE DEF f, n
  <1>5. \A i \in 1 .. n - 1 : i + 1 \in 1 .. n
    BY <1>1
  <1>6. WireAgrees'
    <2>1. ~supported => \A i \in 1 .. n - 1 : frames'[i].kind # "read"
      BY <1>1, <1>2, <1>5 DEF Agreed, WireAgrees
    <2>2. ASSUME frames' # <<>> PROVE frames'[Len(frames')] = frames[Len(frames)] /\ frames # <<>>
      <3>1. n - 1 \in 1 .. n - 1 /\ (n - 1) + 1 = n
        BY <1>1, <2>2
      <3>2. frames # <<>>
        BY DEF Frame
      <3> QED BY <1>1, <3>1, <3>2 DEF n
    <2> QED BY <1>2, <1>3, <2>1, <2>2 DEF Agreed, WireAgrees
  <1>7. CASE ~unconfirmed
    <2>1. \A i \in 1 .. n : frames[i].kind = "write" =>
            /\ writer = "asked" /\ i = n /\ frames[i].value = Pack(wanted.mode, wanted.duration)
      BY <1>2, <1>7 DEF Agreed, AnswerIsItsOwn, n
    <2>2. 1 \in 1 .. n
      BY <1>1
    <2>3. AnswerIsItsOwn'
      <3> SUFFICES ASSUME NEW i \in 1 .. n - 1, frames'[i].kind = "write"
                   PROVE  /\ writer' = "asked" /\ i = Len(frames')
                          /\ frames'[i].value = Pack(wanted'.mode, wanted'.duration)
        BY <1>2 DEF AnswerIsItsOwn
      <3>1. /\ writer = "asked" /\ i + 1 = n
            /\ frames'[i].value = Pack(wanted.mode, wanted.duration)
        BY <1>1, <1>5, <2>1
      <3>2. n # 1 /\ i = n - 1
        BY <1>1, <3>1
      <3>3. f.kind # "write"
        BY <1>1, <2>1, <2>2, <3>2
      <3> QED BY <1>1, <1>3, <1>4, <3>1, <3>2, <3>3
    <2>4. ConfirmedShows'
      <3> SUFFICES ASSUME writer' = "confirmed" PROVE frames' = <<>> /\ display' = wanted'
        BY DEF ConfirmedShows
      <3>1. writer # "confirmed"
        BY <1>7 DEF Frame, Agreed, ConfirmedShows
      <3>2. f.kind = "write"
        BY <1>4, <3>1
      <3>3. n = 1 /\ f.value = Pack(wanted.mode, wanted.duration)
        BY <1>1, <2>1, <2>2, <3>2
      <3>4. display' = Parse(Pack(wanted.mode, wanted.duration))
        BY <1>4, <3>2, <3>3
      <3>5. Parse(Pack(wanted.mode, wanted.duration)) = wanted
        <4>1. CASE wanted = Off
          BY <4>1 DEF Off, State, Pack, Parse
        <4>2. CASE wanted \in [mode : {"INSTANT", "TIMER"}, duration : 1 .. Word - 1]
          <5>1. Parse(Pack(wanted.mode, wanted.duration)) = State(wanted.mode, wanted.duration)
            BY <4>2, WrittenIsParsed
          <5> QED BY <4>2, <5>1 DEF State
        <4> QED BY <4>1, <4>2 DEF StatesSane, Sane
      <3> QED BY <1>1, <1>3, <3>3, <3>4, <3>5
    <2>5. CASE Unanswered
      <3>1. writer' = "asked"
        BY <1>1, <1>2, <1>4, <2>2, <2>5 DEF Unanswered
      <3>2. \A i \in 1 .. n - 1 : frames'[i].kind # "write"
        BY <1>1, <1>2, <1>5, <2>5 DEF Unanswered
      <3> QED BY <1>2, <1>6, <2>3, <2>4, <3>1, <3>2 DEF Agreed, CatchesUp, Unanswered
    <2>6. CASE LastIsStored
      <3>1. ASSUME NEW i \in 1 .. n - 1, frames'[i].kind # "ack",
                   \A j \in 1 .. n - 1 : j > i => frames'[j].kind = "ack"
            PROVE  frames'[i].value = setting
        <4>1. ASSUME NEW j \in 1 .. n, j > i + 1 PROVE frames[j].kind = "ack"
          <5>1. j - 1 \in 1 .. n - 1 /\ j - 1 > i /\ (j - 1) + 1 = j
            BY <1>1, <4>1
          <5> QED BY <1>1, <3>1, <5>1
        <4> QED BY <1>1, <1>2, <1>5, <2>6, <3>1, <4>1 DEF LastIsStored
      <3>2. ASSUME Silent', seen' PROVE display' = Parse(setting)
        <4>1. ASSUME NEW j \in 1 .. n, j > 1 PROVE frames[j].kind = "ack"
          <5>1. j - 1 \in 1 .. n - 1 /\ (j - 1) + 1 = j
            BY <1>1, <4>1
          <5> QED BY <1>1, <1>2, <3>2, <5>1 DEF Silent
        <4>2. CASE f.kind = "ack"
          <5>1. \A j \in 1 .. n : j = 1 \/ j > 1
            BY <1>1
          <5>2. Silent
            BY <1>1, <1>2, <4>1, <4>2, <5>1 DEF Silent
          <5> QED BY <1>4, <2>6, <3>2, <4>2, <5>2 DEF LastIsStored
        <4>3. CASE f.kind # "ack"
          <5>1. f.value = setting
            BY <1>1, <1>2, <2>2, <2>6, <4>1, <4>3 DEF LastIsStored
          <5> QED BY <1>4, <4>3, <5>1
        <4> QED BY <4>2, <4>3
      <3>3. LastIsStored'
        BY <1>2, <1>3, <3>1, <3>2 DEF LastIsStored
      <3> QED BY <1>6, <2>3, <2>4, <3>3 DEF Agreed, CatchesUp
    <2> QED BY <1>3, <1>7, <2>5, <2>6 DEF Agreed, CatchesUp
  <1>8. CASE unconfirmed
    <2>1. CASE unconfirmed'
      BY <1>6, <2>1 DEF Agreed, AnswerIsItsOwn, ConfirmedShows, CatchesUp
    <2>2. CASE ~unconfirmed'
      <3>1. f = Response("read", setting) /\ frames' = <<>> /\ n = 1
        BY <1>1, <1>4, <1>8, <2>2
      <3>2. f.kind = "read" /\ f.value = setting
        BY <3>1 DEF Response
      <3>3. turn # "writer"
        BY <1>1, <3>1, <3>2 DEF Agreed, WireAgrees, Frame, n
      <3>4. writer' \notin {"asked", "confirmed"}
        BY <1>4, <3>2, <3>3 DEF SettingTyped, RequestsTyped
      <3>5. display' = Parse(setting')
        BY <1>3, <1>4, <3>2
      <3>6. LastIsStored' /\ AnswerIsItsOwn' /\ ConfirmedShows'
        BY <3>1, <3>4, <3>5 DEF LastIsStored, AnswerIsItsOwn, ConfirmedShows
      <3> QED BY <1>6, <3>6 DEF Agreed, CatchesUp
    <2> QED BY <2>1, <2>2
  <1> QED BY <1>7, <1>8

LEMMA AgreedKept ==
  ASSUME SettingTyped, StatesSane, Agreed, [Next]_vars PROVE Agreed'
  <1>1. CASE \/ ReadAutoLockSetting \/ ReadReturns \/ ReadTimesOut \/ ReadFails \/ ForeignFrame
             \/ ResponseDeadlinePasses \/ BackoffLapses \/ RefreshFallsDue \/ UNCHANGED vars
    BY <1>1, QuietSteps, QuietAgrees
  <1>2. CASE Connect \/ WriteTimesOut \/ LinkDrops \/ IdleDisconnect
    BY <1>2, LinkAgrees DEF WriteTimesOut, LinkDrops, IdleDisconnect
  <1>3. CASE SetAutoLock \/ WriteConfirmed \/ CancelWrite \/ ForeignWrite
    BY <1>3, WriterAgrees
  <1> QED BY <1>1, <1>2, <1>3, SendReadAgrees, SendWriteAgrees, FrameAgrees DEF Next

LEMMA InitSetting == Init => CountInv /\ SettingInv
  <1> SUFFICES ASSUME Init PROVE CountInv /\ SettingInv
    OBVIOUS
  <1>1. CountInv
    BY InitCounts
  <1>2. FlagsTyped /\ RequestsTyped
    <2>1. FlagsTyped
      BY DEF Init, FlagsTyped
    <2>2. RequestsTyped
      BY DEF Init, RequestsTyped
    <2> QED BY <2>1, <2>2
  <1>3. ValuesTyped
    BY DEF Init, ValuesTyped, Off, State
  <1>4. StatesSane
    BY DEF Init, StatesSane, Sane, Off, Unknown, State
  <1>5. Agreed
    BY DEF Init, Agreed, WireAgrees, AnswerIsItsOwn, ConfirmedShows, CatchesUp
  <1> QED BY <1>1, <1>2, <1>3, <1>4, <1>5 DEF SettingInv, Agreed

\* Every behaviour keeps the two inductive invariants.
THEOREM SettingKept == Spec => [](CountInv /\ SettingInv)
  <1>1. CountInv /\ SettingInv /\ [Next]_vars => (CountInv /\ SettingInv)'
    BY CountsKept, SettingTypedKept, StatesSaneKept, AgreedKept
       DEF SettingInv, SettingTyped, Agreed
  <1> QED BY InitSetting, <1>1, PTL DEF Spec

\* The counts, the requests and the values keep their types; the session lock is
\* held by the request that is under way, and by no other.
THEOREM TypeCorrect == Spec => []TypeOK
  <1>1. CountInv /\ SettingInv => TypeOK
    BY DEF CountInv, SettingInv, TypeOK
  <1> QED BY SettingKept, <1>1, PTL

\* A value that counts as seen is the one the lock has stored, but for a change
\* nobody here waits for and a response on its way.
THEOREM SeenStaysCurrent == Spec => []SeenIsCurrent
  <1>1. SettingInv => SeenIsCurrent
    BY DEF SettingInv, CatchesUp, Unanswered, LastIsStored, Silent, SeenIsCurrent
  <1> QED BY SettingKept, <1>1, PTL

\* What a confirmed write set is on display as it was asked for: the response
\* that confirms it carries what it sent, and the lock's parse gives that back.
THEOREM ConfirmedWriteIsShown == Spec => ConfirmedIsShown
  <1>1. SettingInv /\ [Next]_vars =>
          [writer = "confirmed" /\ writer' = "none" /\ link' /\ ~unconfirmed
             => display = wanted]_vars
    BY DEF SettingInv, ConfirmedShows
  <1> QED BY SettingKept, <1>1, PTL DEF Spec, ConfirmedIsShown
=============================================================================

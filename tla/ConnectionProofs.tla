-------------------------- MODULE ConnectionProofs --------------------------
(***************************************************************************)
(* Proofs about the one link of a PushLock, for any set of Lock objects,   *)
(* with and without restarts.                                              *)
(***************************************************************************)
EXTENDS Connection, SequenceTheorems, FiniteSetTheorems, TLAPS

\* The stages of the holder of the connect lock, and of a task in its line.
Connecting == {"establishing", "handshake", "notify", "abandoning"}
Holding == Connecting \cup {"closing"}
Waiting == {"queued", "toClose"}

LinkStates == Up \cup {"down", "establishing"}
AllStages == UserStages \cup DisconnectStages

Typed ==
    /\ alwaysConnected \in BOOLEAN
    /\ running \in BOOLEAN /\ cycle \in BOOLEAN /\ deferred \in BOOLEAN
    /\ client \in Links \cup {"none"}
    /\ link \in [Links -> LinkStates]
    /\ lock \in Tasks \cup {"none"}
    /\ stage \in [Tasks -> AllStages]
    /\ held \in [Users -> Links \cup {"none"}]
    /\ cancelled \subseteq Users
    /\ timer \in {"none", "armed", "fired"}

\* Who holds the connect lock is at an await under it, and nobody else is.
LockAgrees == \A t \in Tasks : stage[t] \in Holding <=> lock = t

\* The line holds the tasks that wait, each once.
Distinct(line) == \A i, j \in DOMAIN line : line[i] = line[j] => i = j
LineAgrees ==
    /\ queue \in Seq(Tasks) /\ Distinct(queue)
    /\ \A t \in Tasks : stage[t] \in Waiting <=> Waits(queue, t)

\* A link that is not down is _client, or the one a disconnect is closing; it is
\* being opened only under the connect lock, and no user has it yet.
LinkIsOwned ==
    /\ \A l, m \in Links : link[l] # "down" /\ link[m] # "down" => l = m
    /\ \A l \in Links : link[l] # "down" =>
         \/ l = client
         \/ client = "none" /\ lock # "none" /\ stage[lock] = "closing" /\ link[l] = "closing"
    /\ \A l \in Links : link[l] = "establishing" => lock # "none" /\ stage[lock] = "establishing"
    /\ \A t \in Tasks :
         /\ stage[t] \in Connecting => client # "none"
         /\ stage[t] = "closing" => client = "none"
         /\ stage[t] = "establishing" => link[client] = "establishing"
    /\ \A u \in Users : held[u] # "none" => link[held[u]] # "establishing"

\* The disconnect timer stands while the holder of the operation lock uses the
\* link of a watcher that is not always connected and not being stopped.
Exposed ==
    /\ ~alwaysConnected /\ stage["forced"] = "idle"
    /\ stage["operation"] = "using" /\ held["operation"] = client /\ IsConnected
TimerStands == Exposed => timer # "none"

\* The inductive invariant.
IInv == Typed /\ LockAgrees /\ LineAgrees /\ LinkIsOwned /\ TimerStands

LEMMA LinksTyped == "none" \notin Links /\ IsFiniteSet(Links)
  BY ConnectionAssumption DEF ConnectionAssumption

USE LinksTyped
    DEF Tasks, Users, Disconnects, Up, LinkStates, AllStages, UserStages, DisconnectStages,
        Connecting, Holding, Waiting
-----------------------------------------------------------------------------
(* The line of the connect lock.                                           *)

LEMMA LineAppend ==
  ASSUME NEW q \in Seq(Tasks), Distinct(q), NEW t \in Tasks, ~Waits(q, t)
  PROVE  /\ Append(q, t) \in Seq(Tasks) /\ Distinct(Append(q, t))
         /\ \A x \in Tasks : Waits(Append(q, t), x) <=> Waits(q, x) \/ x = t
  <1> DEFINE r == Append(q, t)
  <1>1. /\ r \in Seq(Tasks) /\ Len(q) \in Nat /\ DOMAIN q = 1 .. Len(q)
        /\ DOMAIN r = 1 .. Len(q) + 1
        /\ \A i \in 1 .. Len(q) : r[i] = q[i]
        /\ r[Len(q) + 1] = t
    BY AppendProperties, LenProperties
  <1> HIDE DEF r
  <1>2. \A i \in 1 .. Len(q) : q[i] # t
    BY <1>1 DEF Waits
  <1>3. Distinct(r)
    <2> SUFFICES ASSUME NEW i \in 1 .. Len(q) + 1, NEW j \in 1 .. Len(q) + 1, r[i] = r[j]
                 PROVE  i = j
      BY <1>1 DEF Distinct
    <2>1. i \in 1 .. Len(q) \/ i = Len(q) + 1
      BY <1>1
    <2>2. j \in 1 .. Len(q) \/ j = Len(q) + 1
      BY <1>1
    <2> QED BY <1>1, <1>2, <2>1, <2>2 DEF Distinct
  <1>4. ASSUME NEW x \in Tasks PROVE Waits(r, x) <=> Waits(q, x) \/ x = t
    <2>1. ASSUME Waits(r, x), x # t PROVE Waits(q, x)
      <3>1. PICK i \in 1 .. Len(q) + 1 : r[i] = x
        BY <1>1, <2>1 DEF Waits
      <3>2. i \in 1 .. Len(q)
        BY <1>1, <2>1, <3>1
      <3> QED BY <1>1, <3>1, <3>2 DEF Waits
    <2>2. ASSUME Waits(q, x) PROVE Waits(r, x)
      <3>1. PICK i \in 1 .. Len(q) : q[i] = x
        BY <1>1, <2>2 DEF Waits
      <3>2. i \in 1 .. Len(q) + 1
        BY <1>1
      <3> QED BY <1>1, <3>1, <3>2 DEF Waits
    <2>3. ASSUME x = t PROVE Waits(r, x)
      <3>1. Len(q) + 1 \in 1 .. Len(q) + 1
        BY <1>1
      <3> QED BY <1>1, <2>3, <3>1 DEF Waits
    <2> QED BY <2>1, <2>2, <2>3
  <1> QED BY <1>1, <1>3, <1>4 DEF r

\* Nobody is left behind, or brought in, when the first one is served.
LEMMA LineTail ==
  ASSUME NEW q \in Seq(Tasks), Distinct(q), q # <<>>
  PROVE  /\ Tail(q) \in Seq(Tasks) /\ Distinct(Tail(q))
         /\ \A x \in Tasks : Waits(Tail(q), x) <=> Waits(q, x) /\ x # Head(q)
  <1> DEFINE r == Tail(q)
  <1>1. /\ r \in Seq(Tasks) /\ Len(q) \in Nat \ {0} /\ DOMAIN q = 1 .. Len(q)
        /\ DOMAIN r = 1 .. Len(q) - 1 /\ Head(q) = q[1]
        /\ \A i \in 1 .. Len(q) - 1 : r[i] = q[i + 1]
    BY HeadTailProperties, LenProperties, EmptySeq
  <1> HIDE DEF r
  <1>2. Distinct(r)
    <2> SUFFICES ASSUME NEW i \in 1 .. Len(q) - 1, NEW j \in 1 .. Len(q) - 1, r[i] = r[j]
                 PROVE  i = j
      BY <1>1 DEF Distinct
    <2>1. i + 1 \in 1 .. Len(q) /\ j + 1 \in 1 .. Len(q) /\ q[i + 1] = q[j + 1]
      BY <1>1
    <2>2. i + 1 = j + 1
      BY <1>1, <2>1 DEF Distinct
    <2> QED BY <2>2
  <1>3. ASSUME NEW x \in Tasks PROVE Waits(r, x) <=> Waits(q, x) /\ x # q[1]
    <2>1. ASSUME Waits(r, x) PROVE Waits(q, x) /\ x # q[1]
      <3>1. PICK i \in 1 .. Len(q) - 1 : r[i] = x
        BY <1>1, <2>1 DEF Waits
      <3>2. i + 1 \in 1 .. Len(q) /\ 1 \in 1 .. Len(q) /\ i + 1 # 1 /\ q[i + 1] = x
        BY <1>1, <3>1
      <3> QED BY <1>1, <3>2 DEF Waits, Distinct
    <2>2. ASSUME Waits(q, x), x # q[1] PROVE Waits(r, x)
      <3>1. PICK i \in 1 .. Len(q) : q[i] = x
        BY <1>1, <2>2 DEF Waits
      <3>2. i - 1 \in 1 .. Len(q) - 1 /\ r[i - 1] = q[(i - 1) + 1] /\ (i - 1) + 1 = i
        BY <1>1, <2>2, <3>1
      <3> QED BY <1>1, <3>1, <3>2 DEF Waits
    <2> QED BY <2>1, <2>2
  <1> QED BY <1>1, <1>2, <1>3 DEF r

\* A task that leaves the line leaves the others in it, in their order.
LEMMA LineWithout ==
  ASSUME NEW q \in Seq(Tasks), Distinct(q), NEW t \in Tasks
  PROVE  /\ Without(q, t) \in Seq(Tasks) /\ Distinct(Without(q, t))
         /\ \A x \in Tasks : Waits(Without(q, t), x) <=> Waits(q, x) /\ x # t
  <1>1. CASE ~Waits(q, t)
    BY <1>1 DEF Without
  <1>2. CASE Waits(q, t)
    <2> DEFINE k == CHOOSE i \in DOMAIN q : q[i] = t
               a == SubSeq(q, 1, k - 1)
               b == SubSeq(q, k + 1, Len(q))
               r == Without(q, t)
    <2>1. k \in DOMAIN q /\ q[k] = t
      BY <1>2 DEF Waits
    <2>2. Len(q) \in Nat /\ DOMAIN q = 1 .. Len(q) /\ \A i \in 1 .. Len(q) : q[i] \in Tasks
      BY LenProperties
    <2>3. r = a \o b
      BY <1>2 DEF Without, Seqs!RemoveAt
    <2> HIDE DEF k, r
    <2>a. k \in 1 .. Len(q) /\ k - 1 \in Int /\ k + 1 \in Int /\ Len(q) \in Int
      BY <2>1, <2>2
    <2>4. a \in Seq(Tasks) /\ Len(a) = k - 1 /\ \A i \in 1 .. k - 1 : a[i] = q[i]
      BY <2>2, <2>a, SubSeqProperties
    <2>5. b \in Seq(Tasks) /\ Len(b) = Len(q) - k /\ \A i \in 1 .. Len(q) - k : b[i] = q[i + k]
      <3>1. /\ b \in Seq(Tasks)
            /\ Len(b) = IF k + 1 <= Len(q) THEN Len(q) - (k + 1) + 1 ELSE 0
            /\ \A i \in 1 .. Len(q) - (k + 1) + 1 : b[i] = q[(k + 1) + i - 1]
        BY <2>2, <2>a, SubSeqProperties
      <3> HIDE DEF b
      <3>2. \A i \in 1 .. Len(q) - k : b[i] = q[i + k]
        <4> TAKE i \in 1 .. Len(q) - k
        <4>1. i \in 1 .. Len(q) - (k + 1) + 1 /\ (k + 1) + i - 1 = i + k
          BY <2>2, <2>a
        <4> QED BY <3>1, <4>1
      <3>3. Len(b) = Len(q) - k
        <4>1. CASE k + 1 <= Len(q)
          <5>1. Len(b) = Len(q) - (k + 1) + 1
            BY <3>1, <4>1
          <5> QED BY <2>2, <2>a, <5>1
        <4>2. CASE ~(k + 1 <= Len(q))
          <5>1. Len(b) = 0 /\ k = Len(q)
            <6>1. ASSUME NEW n \in Nat, NEW i \in 1 .. n, ~(i + 1 <= n) PROVE i = n
              BY <6>1
            <6> QED BY <2>2, <2>a, <3>1, <4>2, <6>1
          <5> QED BY <2>2, <2>a, <5>1
        <4> QED BY <4>1, <4>2
      <3> QED BY <3>1, <3>2, <3>3
    <2> HIDE DEF a, b
    <2>6. Len(a) + Len(b) = Len(q) - 1
      BY <2>2, <2>4, <2>5, <2>a
    <2>7. /\ r \in Seq(Tasks) /\ Len(r) = Len(q) - 1 /\ DOMAIN r = 1 .. Len(q) - 1
          /\ \A i \in 1 .. Len(q) - 1 : r[i] = IF i <= k - 1 THEN a[i] ELSE b[i - (k - 1)]
      BY <2>3, <2>4, <2>5, <2>6, ConcatProperties, LenProperties
    <2>8. \A i \in 1 .. Len(q) - 1 : r[i] = IF i < k THEN q[i] ELSE q[i + 1]
      <3> SUFFICES ASSUME NEW i \in 1 .. Len(q) - 1
                   PROVE  r[i] = IF i < k THEN q[i] ELSE q[i + 1]
        OBVIOUS
      <3>1. CASE i < k
        BY <2>2, <2>4, <2>7, <2>a, <3>1
      <3>2. CASE ~(i < k)
        <4>1. i - (k - 1) \in 1 .. Len(q) - k /\ (i - (k - 1)) + k = i + 1
          BY <2>2, <2>a, <3>2
        <4> QED BY <2>2, <2>5, <2>7, <2>a, <3>2, <4>1
      <3> QED BY <3>1, <3>2
    <2>9. Distinct(r)
      <3> SUFFICES ASSUME NEW i \in 1 .. Len(q) - 1, NEW j \in 1 .. Len(q) - 1, r[i] = r[j]
                   PROVE  i = j
        BY <2>7 DEF Distinct
      <3> DEFINE at(n) == IF n < k THEN n ELSE n + 1
      <3>1. at(i) \in 1 .. Len(q) /\ at(j) \in 1 .. Len(q) /\ q[at(i)] = q[at(j)]
        BY <2>2, <2>8, <2>a
      <3>2. at(i) = at(j)
        BY <2>2, <3>1 DEF Distinct
      <3> QED BY <2>2, <2>a, <3>2
    <2>10. ASSUME NEW x \in Tasks PROVE Waits(r, x) <=> Waits(q, x) /\ x # t
      <3>1. ASSUME Waits(r, x) PROVE Waits(q, x) /\ x # t
        <4>1. PICK i \in 1 .. Len(q) - 1 : r[i] = x
          BY <2>7, <3>1 DEF Waits
        <4>2. PICK n \in 1 .. Len(q) : n # k /\ q[n] = x
          <5>1. CASE i < k
            BY <2>2, <2>8, <2>a, <4>1, <5>1
          <5>2. CASE ~(i < k)
            <6>1. i + 1 \in 1 .. Len(q) /\ i + 1 # k /\ q[i + 1] = x
              BY <2>2, <2>8, <2>a, <4>1, <5>2
            <6> QED BY <6>1
          <5> QED BY <5>1, <5>2
        <4> QED BY <2>1, <2>2, <4>2 DEF Waits, Distinct
      <3>2. ASSUME Waits(q, x), x # t PROVE Waits(r, x)
        <4>1. PICK n \in 1 .. Len(q) : q[n] = x
          BY <2>2, <3>2 DEF Waits
        <4>2. n # k
          BY <2>1, <3>2, <4>1
        <4>3. CASE n < k
          <5>1. n \in 1 .. Len(q) - 1 /\ r[n] = x
            BY <2>2, <2>8, <2>a, <4>1, <4>3
          <5> QED BY <2>7, <5>1 DEF Waits
        <4>4. CASE n > k
          <5>1. n - 1 \in 1 .. Len(q) - 1 /\ ~(n - 1 < k) /\ (n - 1) + 1 = n
            BY <2>2, <2>a, <4>1, <4>4
          <5>2. r[n - 1] = x
            BY <2>8, <4>1, <5>1
          <5> QED BY <2>7, <5>1, <5>2 DEF Waits
        <4> QED BY <2>a, <4>2, <4>3, <4>4
      <3> QED BY <3>1, <3>2
    <2> QED BY <2>7, <2>9, <2>10 DEF r
  <1> QED BY <1>1, <1>2
-----------------------------------------------------------------------------
(* Typing.                                                                 *)

\* The part of Typed that the shared steps assign.
StepTyped ==
    /\ client \in Links \cup {"none"}
    /\ link \in [Links -> LinkStates]
    /\ lock \in Tasks \cup {"none"}
    /\ stage \in [Tasks -> AllStages]
    /\ timer \in {"none", "armed", "fired"}

LEMMA EnsureConnectedTyped ==
  ASSUME Typed, NEW u \in Users, EnsureConnected(u)
  PROVE  StepTyped' /\ held' \in [Users -> Links \cup {"none"}] /\ deferred' \in BOOLEAN
  <1>1. ResetTimer \in {"none", "armed", "fired"} /\ u \in Tasks
    BY DEF Typed, ResetTimer
  <1>2. CASE HandOut(u) /\ UNCHANGED <<client, link, lock>> /\ timer' = ResetTimer
    BY <1>1, <1>2 DEF Typed, StepTyped, HandOut
  <1>3. CASE BeginConnect(u) /\ UNCHANGED timer
    <2>1. client' \in Links
      BY <1>3 DEF BeginConnect, Unused
    <2> QED BY <1>1, <1>3, <2>1 DEF Typed, StepTyped, BeginConnect
  <1>4. CASE /\ timer' = IF lock # "none" THEN ResetTimer ELSE timer
             /\ stage' = [stage EXCEPT ![u] = "queued"]
             /\ UNCHANGED <<client, link, lock, held, deferred>>
    BY <1>1, <1>4 DEF Typed, StepTyped
  <1> QED BY <1>2, <1>3, <1>4 DEF EnsureConnected, ConnectUnderLock

LEMMA ExecuteDisconnectTyped ==
  ASSUME Typed, NEW t \in Tasks, NEW tm, NEW lnk \in [Links -> LinkStates],
         ExecuteDisconnect(t, tm, lnk)
  PROVE  /\ client' \in Links \cup {"none"}
         /\ link' \in [Links -> LinkStates]
         /\ lock' \in Tasks \cup {"none"}
         /\ stage' \in [Tasks -> AllStages]
  <1>1. AfterDisconnect(t) \in AllStages
    BY DEF AfterDisconnect
  <1>2. CASE running /\ tm # "none"
    BY <1>1, <1>2 DEF Typed, ExecuteDisconnect
  <1>3. CASE ~(running /\ tm # "none") /\ client # "none" /\ lnk[client] \in Up
    BY <1>1, <1>3 DEF Typed, ExecuteDisconnect
  <1>4. CASE ~(running /\ tm # "none") /\ ~(client # "none" /\ lnk[client] \in Up)
    BY <1>1, <1>4 DEF Typed, ExecuteDisconnect
  <1> QED BY <1>2, <1>3, <1>4

LEMMA DisconnectTyped ==
  ASSUME Typed, NEW t \in Tasks, NEW lk \in Tasks \cup {"none"}, NEW tm,
         NEW lnk \in [Links -> LinkStates], Disconnect(t, lk, tm, lnk)
  PROVE  /\ client' \in Links \cup {"none"}
         /\ link' \in [Links -> LinkStates]
         /\ lock' \in Tasks \cup {"none"}
         /\ stage' \in [Tasks -> AllStages]
  BY ExecuteDisconnectTyped DEF Disconnect, Typed

LEMMA EndTyped ==
  ASSUME Typed, NEW u \in Users, End(u)
  PROVE  /\ stage' \in [Tasks -> AllStages]
         /\ held' \in [Users -> Links \cup {"none"}]
         /\ cancelled' \subseteq Users /\ cycle' \in BOOLEAN /\ deferred' \in BOOLEAN
  BY DEF End, Typed

LEMMA FailTyped ==
  ASSUME Typed, NEW u \in Users, NEW lk \in Tasks \cup {"none"},
         NEW lnk \in [Links -> LinkStates], Fail(u, lk, lnk),
         UNCHANGED <<alwaysConnected, running>>
  PROVE  Typed'
  <1>1. CASE HandleDisconnected(u, lk, lnk) /\ held' = [held EXCEPT ![u] = "none"]
             /\ UNCHANGED <<cycle, cancelled, deferred>>
    <2>1. StepTyped'
      <3>1. CASE lk # "none"
        BY <1>1, <3>1 DEF HandleDisconnected, StepTyped, Typed
      <3>2. CASE lk = "none"
        BY <1>1, <3>2, DisconnectTyped DEF HandleDisconnected, StepTyped
      <3> QED BY <3>1, <3>2
    <2> QED BY <1>1, <2>1 DEF Typed, StepTyped
  <1>2. CASE lock' = lk /\ link' = lnk /\ UNCHANGED <<client, queue, timer>>
             /\ stage' = [stage EXCEPT ![u] = "retry"]
             /\ held' = [held EXCEPT ![u] = "none"]
             /\ UNCHANGED <<cycle, cancelled, deferred>>
    BY <1>2 DEF Typed
  <1>3. CASE lock' = lk /\ link' = lnk /\ UNCHANGED <<client, queue, timer>> /\ End(u)
    BY <1>3, EndTyped DEF Typed
  <1> QED BY <1>1, <1>2, <1>3 DEF Fail

LEMMA UserStepTyped ==
  ASSUME Typed, NEW u \in Users, UserStep(u), UNCHANGED alwaysConnected
  PROVE  Typed'
  <1>1. ResetTimer \in {"none", "armed", "fired"} /\ u \in Tasks
    BY DEF Typed, ResetTimer
  <1>2. [link EXCEPT ![client] = "down"] \in [Links -> LinkStates]
    BY DEF Typed
  <1>3. CASE ConnectLockTaken(u)
    <2>1. CASE HandOut(u) /\ UNCHANGED <<client, link, lock>> /\ timer' = ResetTimer
      BY <1>1, <1>3, <2>1 DEF Typed, HandOut, ConnectLockTaken
    <2>2. CASE BeginConnect(u) /\ UNCHANGED timer
      <3>1. client' \in Links
        BY <2>2 DEF BeginConnect, Unused
      <3> QED BY <1>1, <1>3, <2>2, <3>1 DEF Typed, BeginConnect, ConnectLockTaken
    <2> QED BY <1>3, <2>1, <2>2 DEF ConnectLockTaken, ConnectUnderLock
  <1>4. CASE Established(u)
    BY <1>1, <1>4 DEF Established, Typed
  <1>5. CASE SetupSession(u)
    BY <1>1, <1>5 DEF SetupSession, Typed
  <1>6. CASE Connects(u)
    BY <1>1, <1>6 DEF Connects, HandOut, Typed
  <1>7. CASE ConnectFails(u)
    <2>1. CASE UNCHANGED <<client, lock, queue, held, cycle, cancelled, timer, deferred>>
               /\ link' = [link EXCEPT ![client] = "closing"]
               /\ stage' = [stage EXCEPT ![u] = "abandoning"]
      BY <1>1, <1>7, <2>1 DEF ConnectFails, Typed
    <2>2. CASE Fail(u, "none", [link EXCEPT ![client] = "down"])
      BY <1>2, <1>7, <2>2, FailTyped DEF ConnectFails
    <2>3. CASE /\ lock' = "none" /\ link' = [link EXCEPT ![client] = "down"]
               /\ UNCHANGED <<client, queue, timer>> /\ End(u)
      BY <1>2, <1>7, <2>3, EndTyped DEF ConnectFails, Typed
    <2> QED BY <1>7, <2>1, <2>2, <2>3 DEF ConnectFails
  <1>8. CASE AbandonEnds(u)
    <2>1. CASE Fail(u, "none", [link EXCEPT ![client] = "down"])
      BY <1>2, <1>8, <2>1, FailTyped DEF AbandonEnds
    <2>2. CASE /\ lock' = "none" /\ link' = [link EXCEPT ![client] = "down"]
               /\ UNCHANGED <<client, queue, timer>> /\ End(u)
      BY <1>2, <1>8, <2>2, EndTyped DEF AbandonEnds, Typed
    <2> QED BY <1>8, <2>1, <2>2 DEF AbandonEnds
  <1>9. CASE UseEnds(u)
    BY <1>1, <1>9, EndTyped DEF UseEnds, Typed
  <1>10. CASE UseFails(u)
    BY <1>10, FailTyped DEF UseFails, Typed
  <1>11. CASE Retry(u)
    BY <1>11, EnsureConnectedTyped DEF Retry, Typed, StepTyped
  <1>12. CASE GiveUp(u)
    BY <1>12, EndTyped DEF GiveUp, Typed
  <1>13. CASE Cancelled(u)
    BY <1>13, EndTyped DEF Cancelled, Typed
  <1> QED BY <1>3, <1>4, <1>5, <1>6, <1>7, <1>8, <1>9, <1>10, <1>11, <1>12, <1>13 DEF UserStep

LEMMA TypedKept ==
  ASSUME Typed, [Next]_vars PROVE Typed'
  <1>1. ResetTimer \in {"none", "armed", "fired"}
    BY DEF Typed, ResetTimer
  <1>2. ASSUME Next PROVE Typed'
    <2> USE <1>2 DEF Next
    <2>1. ASSUME NEW u \in Users, Begin(u) PROVE Typed'
      BY <2>1, EnsureConnectedTyped DEF Begin, Typed, StepTyped
    <2>2. ASSUME NEW u \in Users, Cancel(u) PROVE Typed'
      BY <2>2 DEF Cancel, Typed
    <2>3. ASSUME NEW u \in Users, UserStep(u) PROVE Typed'
      BY <2>3, UserStepTyped
    <2>4. ASSUME NEW t \in Tasks, CloseLockTaken(t) PROVE Typed'
      <3>1. ExecuteDisconnect(t, timer, link)
        BY <2>4 DEF CloseLockTaken
      <3> QED BY <2>4, <3>1, ExecuteDisconnectTyped DEF CloseLockTaken, Typed
    <2>5. ASSUME NEW t \in Tasks, DisconnectEnds(t) PROVE Typed'
      <3>1. CASE t \in cancelled /\ End(t)
        BY <2>5, <3>1, EndTyped DEF DisconnectEnds, Typed
      <3>2. CASE t \notin cancelled
        BY <2>5, <3>2 DEF DisconnectEnds, Typed, AfterDisconnect, DisconnectedCallback
      <3> QED BY <2>5, <3>1, <3>2 DEF DisconnectEnds
    <2>6. CASE CycleBegins
      BY <2>6, EnsureConnectedTyped, EndTyped DEF CycleBegins, Typed, StepTyped
    <2>7. CASE DeferredUpdate
      BY <2>7 DEF DeferredUpdate, Typed
    <2>8. CASE DisconnectWithTimer
      BY <2>8 DEF DisconnectWithTimer, Typed
    <2>9. CASE TimedDisconnect
      BY <2>9, DisconnectTyped DEF TimedDisconnect, Typed
    <2>10. CASE ForcedDisconnect
      <3>1. CASE cycle
        BY <2>10, <3>1 DEF ForcedDisconnect, Typed
      <3>2. CASE ~cycle
        BY <2>10, <3>2, DisconnectTyped DEF ForcedDisconnect, Typed
      <3> QED BY <3>1, <3>2
    <2>11. CASE ForcedDisconnectGoesOn
      BY <2>11, DisconnectTyped DEF ForcedDisconnectGoesOn, Typed
    <2>12. CASE StateCallback
      BY <1>1, <2>12 DEF StateCallback, Typed
    <2>13. CASE RequestUpdate \/ Start \/ Stop
      BY <2>13 DEF RequestUpdate, Start, Stop, Typed
    <2>14. ASSUME NEW l \in Links, LinkDrops(l) PROVE Typed'
      BY <2>14 DEF LinkDrops, DisconnectedCallback, Typed
    <2> QED BY <2>1, <2>2, <2>3, <2>4, <2>5, <2>6, <2>7, <2>8, <2>9, <2>10, <2>11, <2>12, <2>13,
               <2>14
  <1>3. CASE UNCHANGED vars
    BY <1>3 DEF vars, Typed
  <1> QED BY <1>2, <1>3
-----------------------------------------------------------------------------
(* One task moves: the connect lock and its line.                          *)

LEMMA LockIsTaken ==
  ASSUME Typed, LockAgrees, NEW t \in Tasks, NEW s \in Holding,
         stage' = [stage EXCEPT ![t] = s], lock' = t, lock \in {"none", t}
  PROVE  LockAgrees'
  BY DEF Typed, LockAgrees

LEMMA LockIsLeft ==
  ASSUME Typed, LockAgrees, NEW t \in Tasks, NEW s \in AllStages \ Holding,
         stage' = [stage EXCEPT ![t] = s], lock' = IF lock = t THEN "none" ELSE lock
  PROVE  LockAgrees'
  BY DEF Typed, LockAgrees

LEMMA LineIsLeftAlone ==
  ASSUME Typed, LineAgrees, NEW t \in Tasks, NEW s \in AllStages \ Waiting,
         stage' = [stage EXCEPT ![t] = s], stage[t] \notin Waiting, queue' = queue
  PROVE  LineAgrees'
  BY DEF Typed, LineAgrees

LEMMA LineIsJoined ==
  ASSUME Typed, LineAgrees, NEW t \in Tasks, NEW s \in Waiting,
         stage' = [stage EXCEPT ![t] = s], stage[t] \notin Waiting, queue' = Append(queue, t)
  PROVE  LineAgrees'
  <1>1. queue \in Seq(Tasks) /\ Distinct(queue) /\ ~Waits(queue, t)
    BY DEF LineAgrees
  <1>2. /\ queue' \in Seq(Tasks) /\ Distinct(queue')
        /\ \A x \in Tasks : Waits(queue', x) <=> Waits(queue, x) \/ x = t
    BY <1>1, LineAppend
  <1>3. \A x \in Tasks : stage'[x] \in Waiting <=> stage[x] \in Waiting \/ x = t
    BY DEF Typed
  <1> QED BY <1>2, <1>3 DEF LineAgrees

\* The first in line takes the lock.
LEMMA LineIsServed ==
  ASSUME Typed, LineAgrees, NEW t \in Tasks, NEW s \in AllStages \ Waiting,
         stage' = [stage EXCEPT ![t] = s], stage[t] \in Waiting,
         Head(queue) = t, queue' = Tail(queue)
  PROVE  LineAgrees'
  <1>1. queue \in Seq(Tasks) /\ Distinct(queue) /\ Waits(queue, t)
    BY DEF LineAgrees
  <1>2. queue # <<>>
    BY <1>1, EmptySeq DEF Waits
  <1>3. /\ queue' \in Seq(Tasks) /\ Distinct(queue')
        /\ \A x \in Tasks : Waits(queue', x) <=> Waits(queue, x) /\ x # t
    BY <1>1, <1>2, LineTail
  <1>4. \A x \in Tasks : stage'[x] \in Waiting <=> stage[x] \in Waiting /\ x # t
    BY DEF Typed
  <1> QED BY <1>3, <1>4 DEF LineAgrees

\* A cancelled task leaves the line, if it was in it.
LEMMA LineIsLeft ==
  ASSUME Typed, LineAgrees, NEW t \in Tasks, NEW s \in AllStages \ Waiting,
         stage' = [stage EXCEPT ![t] = s], queue' = Without(queue, t)
  PROVE  LineAgrees'
  <1>1. queue \in Seq(Tasks) /\ Distinct(queue)
    BY DEF LineAgrees
  <1>2. /\ queue' \in Seq(Tasks) /\ Distinct(queue')
        /\ \A x \in Tasks : Waits(queue', x) <=> Waits(queue, x) /\ x # t
    BY <1>1, LineWithout
  <1>3. \A x \in Tasks : stage'[x] \in Waiting <=> stage[x] \in Waiting /\ x # t
    BY DEF Typed
  <1> QED BY <1>2, <1>3 DEF LineAgrees

LEMMA NobodyMoves ==
  ASSUME LockAgrees, LineAgrees, UNCHANGED <<lock, queue, stage>>
  PROVE  LockAgrees' /\ LineAgrees'
  BY DEF LockAgrees, LineAgrees
-----------------------------------------------------------------------------
(* One task moves: the link.                                               *)

\* The links, where c is _client and nobody is opening or closing one.
Loose(c, lnk) == \A l \in Links : lnk[l] # "down" => l = c /\ lnk[l] \in Up

LEMMA LooseWhenFree ==
  ASSUME Typed, LinkIsOwned, lock = "none" PROVE Loose(client, link)
  BY DEF Typed, LinkIsOwned, Loose

LEMMA LooseAfterConnect ==
  ASSUME Typed, LinkIsOwned, NEW t \in Tasks, stage[t] \in Connecting
  PROVE  client \in Links /\ Loose(client, [link EXCEPT ![client] = "down"])
  <1>1. client \in Links
    BY DEF Typed, LinkIsOwned
  <1>2. \A l \in Links : link[l] # "down" => l = client
    BY <1>1 DEF LinkIsOwned
  <1> QED BY <1>1, <1>2 DEF Loose, Typed

LEMMA FreedKeeps ==
  ASSUME Typed', LockAgrees', lock' = "none", Loose(client', link')
  PROVE  LinkIsOwned'
  <1>1. \A t \in Tasks : stage'[t] \notin Holding
    BY DEF LockAgrees, Typed
  <1>2. \A l \in Links : link'[l] # "establishing"
    BY DEF Loose
  <1>3. \A u \in Users : held'[u] # "none" => held'[u] \in Links
    BY DEF Typed
  <1> QED BY <1>1, <1>2, <1>3 DEF LinkIsOwned, Loose

LEMMA ClosingKeeps ==
  ASSUME Typed', LockAgrees', NEW t \in Tasks, lock' = t, stage'[t] = "closing",
         client' = "none", NEW c \in Links, Loose(c, link'), link'[c] = "closing"
  PROVE  LinkIsOwned'
  <1>1. \A x \in Tasks : x # t => stage'[x] \notin Holding
    BY DEF LockAgrees
  <1>2. \A l \in Links : link'[l] # "establishing" /\ (link'[l] # "down" => l = c)
    BY DEF Loose
  <1>3. \A u \in Users : held'[u] # "none" => held'[u] \in Links
    BY DEF Typed
  <1> QED BY <1>1, <1>2, <1>3 DEF LinkIsOwned

\* A task that neither had nor takes the connect lock; it may be handed a link
\* that is open.
LEMMA BystanderKeeps ==
  ASSUME Typed, LinkIsOwned, LockAgrees, NEW t \in Tasks, NEW s \in AllStages \ Holding,
         stage' = [stage EXCEPT ![t] = s], lock # t, UNCHANGED <<client, link, lock>>,
         \A u \in Users : \/ held'[u] \in {held[u], "none"}
                          \/ held'[u] = client /\ IsConnected
  PROVE  LinkIsOwned'
  <1>1. \A x \in Tasks : x # t => stage'[x] = stage[x]
    BY DEF Typed
  <1>2. stage'[t] = s /\ stage[t] \notin Holding
    BY DEF Typed, LockAgrees
  <1>3. \A u \in Users : held'[u] # "none" => link[held'[u]] # "establishing"
    BY DEF LinkIsOwned, IsConnected
  <1>4. lock # "none" => stage'[lock] = stage[lock]
    BY <1>1 DEF Typed
  <1>5. \A x \in Tasks : stage'[x] \in Holding => stage'[x] = stage[x]
    BY <1>1, <1>2
  <1> QED BY <1>3, <1>4, <1>5 DEF LinkIsOwned, Typed
-----------------------------------------------------------------------------
(* The shared steps: who has the lock, the line and the link after them.   *)

Order == LockAgrees /\ LineAgrees /\ LinkIsOwned

\* Task t asks for the connect lock, or gives it up after a failed connect: lk
\* and lnk are the lock and the links as it leaves them.
Ready(t, lk, lnk) ==
    \/ stage[t] \notin Holding \cup Waiting /\ lk = lock /\ lnk = link
    \/ stage[t] \in Connecting /\ lk = "none" /\ lnk = [link EXCEPT ![client] = "down"]

LEMMA ReadyFacts ==
  ASSUME Typed, Order, NEW t \in Tasks, NEW lk, NEW lnk, Ready(t, lk, lnk)
  PROVE  /\ lnk \in [Links -> LinkStates] /\ lk \in Tasks \cup {"none"}
         /\ stage[t] \notin Waiting
         /\ lk = IF lock = t THEN "none" ELSE lock
         /\ lk = "none" => Loose(client, lnk) /\ lock \in {"none", t}
  <1>1. CASE stage[t] \notin Holding \cup Waiting /\ lk = lock /\ lnk = link
    <2>1. lock # t
      BY <1>1 DEF Order, LockAgrees
    <2> QED BY <1>1, <2>1, LooseWhenFree DEF Order, Typed
  <1>2. CASE stage[t] \in Connecting /\ lk = "none" /\ lnk = [link EXCEPT ![client] = "down"]
    <2>1. lock = t
      BY <1>2 DEF Order, LockAgrees
    <2>2. Loose(client, lnk)
      BY <1>2, LooseAfterConnect DEF Order
    <2> QED BY <1>2, <2>1, <2>2 DEF Typed
  <1> QED BY <1>1, <1>2 DEF Ready

LEMMA ExecuteDisconnectKeeps ==
  ASSUME Typed, Typed', LockAgrees, NEW t \in Tasks, lock \in {"none", t}, NEW tm,
         NEW lnk \in [Links -> LinkStates], Loose(client, lnk), ExecuteDisconnect(t, tm, lnk)
  PROVE  /\ LockAgrees' /\ LinkIsOwned'
         /\ \E s \in AllStages \ Waiting : stage' = [stage EXCEPT ![t] = s]
  <1>1. AfterDisconnect(t) \in AllStages \ (Holding \cup Waiting)
    BY DEF AfterDisconnect
  <1>2. CASE /\ client' = "none" /\ client # "none" /\ lnk[client] \in Up
             /\ link' = [lnk EXCEPT ![client] = "closing"]
             /\ lock' = t /\ stage' = [stage EXCEPT ![t] = "closing"]
    <2>1. LockAgrees'
      BY <1>2, LockIsTaken
    <2>2. client \in Links /\ stage'[t] = "closing"
      BY <1>2 DEF Typed
    <2>3. Loose(client, link') /\ link'[client] = "closing"
      BY <1>2, <2>2 DEF Loose
    <2> QED BY <1>2, <2>1, <2>2, <2>3, ClosingKeeps
  <1>3. CASE /\ Loose(client', link') /\ lock' = "none"
             /\ stage' = [stage EXCEPT ![t] = AfterDisconnect(t)]
    <2>1. LockAgrees'
      BY <1>1, <1>3, LockIsLeft
    <2> QED BY <1>1, <1>3, <2>1, FreedKeeps
  <1>4. CASE running /\ tm # "none"
    <2>1. Loose(client', link')
      BY <1>4 DEF ExecuteDisconnect, Loose
    <2> QED BY <1>3, <1>4, <2>1 DEF ExecuteDisconnect
  <1>5. CASE ~(running /\ tm # "none") /\ ~(client # "none" /\ lnk[client] \in Up)
    <2>1. Loose(client', link')
      BY <1>5 DEF ExecuteDisconnect, Loose
    <2> QED BY <1>3, <1>5, <2>1 DEF ExecuteDisconnect
  <1> QED BY <1>2, <1>4, <1>5 DEF ExecuteDisconnect

LEMMA DisconnectKeeps ==
  ASSUME Typed, Typed', Order, NEW t \in Tasks, NEW lk, NEW lnk, Ready(t, lk, lnk), NEW tm,
         Disconnect(t, lk, tm, lnk), \A u \in Users : held'[u] \in {held[u], "none"}
  PROVE  Order'
  <1>1. /\ lnk \in [Links -> LinkStates] /\ stage[t] \notin Waiting
        /\ lk = IF lock = t THEN "none" ELSE lock
        /\ lk = "none" => Loose(client, lnk) /\ lock \in {"none", t}
    BY ReadyFacts
  <1>2. CASE Free(lk, queue) /\ ExecuteDisconnect(t, tm, lnk) /\ UNCHANGED queue
    <2>1. /\ LockAgrees' /\ LinkIsOwned'
          /\ \E s \in AllStages \ Waiting : stage' = [stage EXCEPT ![t] = s]
      BY <1>1, <1>2, ExecuteDisconnectKeeps DEF Free, Order
    <2>2. LineAgrees'
      BY <1>1, <1>2, <2>1, LineIsLeftAlone DEF Order
    <2> QED BY <2>1, <2>2 DEF Order
  <1>3. CASE /\ queue' = Append(queue, t) /\ stage' = [stage EXCEPT ![t] = "toClose"]
             /\ lock' = lk /\ link' = lnk /\ UNCHANGED client
    <2>1. LineAgrees'
      BY <1>1, <1>3, LineIsJoined DEF Order
    <2>2. LockAgrees'
      BY <1>1, <1>3, LockIsLeft DEF Order
    <2>3. CASE lk = "none"
      BY <1>1, <1>3, <2>2, <2>3, FreedKeeps, <2>1 DEF Order
    <2>4. CASE lk # "none"
      <3>1. lock # t /\ UNCHANGED <<client, link, lock>>
        BY <1>1, <1>3, <2>4 DEF Ready
      <3> QED BY <1>3, <2>1, <2>2, <3>1, BystanderKeeps DEF Order
    <2> QED BY <2>3, <2>4
  <1> QED BY <1>2, <1>3 DEF Disconnect

\* A user comes to rest outside the lock and its line.
LEMMA RestKeeps ==
  ASSUME Typed, Typed', Order, NEW t \in Tasks, NEW s \in AllStages \ (Holding \cup Waiting),
         stage' = [stage EXCEPT ![t] = s], UNCHANGED <<client, queue>>,
         Ready(t, lock', link'), \A u \in Users : held'[u] \in {held[u], "none"}
  PROVE  Order'
  <1>1. /\ stage[t] \notin Waiting
        /\ lock' = IF lock = t THEN "none" ELSE lock
        /\ lock' = "none" => Loose(client, link')
    BY ReadyFacts
  <1>2. LockAgrees' /\ LineAgrees'
    BY <1>1, LockIsLeft, LineIsLeftAlone DEF Order
  <1>3. CASE lock' = "none"
    BY <1>1, <1>2, <1>3, FreedKeeps DEF Order
  <1>4. CASE lock' # "none"
    <2>1. lock # t /\ UNCHANGED <<client, link, lock>>
      BY <1>1, <1>4 DEF Ready
    <2> QED BY <1>2, <2>1, BystanderKeeps DEF Order
  <1> QED BY <1>3, <1>4

LEMMA FailKeeps ==
  ASSUME Typed, Typed', Order, NEW u \in Users, NEW lk, NEW lnk, Ready(u, lk, lnk),
         Fail(u, lk, lnk)
  PROVE  Order'
  <1>1. \A w \in Users : held'[w] \in {held[w], "none"}
    BY DEF Fail, End, Typed
  <1>2. CASE HandleDisconnected(u, lk, lnk)
    <2>1. CASE /\ stage' = [stage EXCEPT ![u] = "retry"]
               /\ lock' = lk /\ link' = lnk /\ UNCHANGED <<client, queue, timer>>
      BY <1>1, <2>1, RestKeeps
    <2>2. CASE Disconnect(u, lk, "none", lnk)
      BY <1>1, <2>2, DisconnectKeeps
    <2> QED BY <1>2, <2>1, <2>2 DEF HandleDisconnected
  <1>3. CASE /\ lock' = lk /\ link' = lnk /\ UNCHANGED <<client, queue, timer>>
             /\ stage' = [stage EXCEPT ![u] = "retry"]
    BY <1>1, <1>3, RestKeeps
  <1>4. CASE lock' = lk /\ link' = lnk /\ UNCHANGED <<client, queue, timer>> /\ End(u)
    BY <1>1, <1>4, RestKeeps DEF End
  <1> QED BY <1>2, <1>3, <1>4 DEF Fail

LEMMA HandOutKeeps ==
  ASSUME Typed, LockAgrees, LinkIsOwned, NEW u \in Users, stage[u] \notin Holding,
         IsConnected, HandOut(u), UNCHANGED <<client, link, lock>>
  PROVE  LockAgrees' /\ LinkIsOwned'
  <1>1. lock # u /\ u \in Tasks /\ stage' = [stage EXCEPT ![u] = "using"]
    BY DEF LockAgrees, HandOut
  <1>2. \A w \in Users : held'[w] \in {held[w], "none"} \/ (held'[w] = client /\ IsConnected)
    BY DEF HandOut, Typed
  <1>3. LockAgrees'
    BY <1>1, LockIsLeft
  <1>4. LinkIsOwned'
    BY <1>1, <1>2, BystanderKeeps
  <1> QED BY <1>3, <1>4

LEMMA BeginConnectKeeps ==
  ASSUME Typed, Typed', LockAgrees, LinkIsOwned, NEW u \in Users, lock = "none",
         ~IsConnected, BeginConnect(u)
  PROVE  LockAgrees' /\ LinkIsOwned'
  <1>1. \A l \in Links : link[l] = "down"
    BY LooseWhenFree DEF Loose, IsConnected
  <1>2. client' \in Links /\ \A w \in Users : held[w] # client'
    BY DEF BeginConnect, Unused
  <1>3. link' = [link EXCEPT ![client'] = "establishing"] /\ lock' = u /\ held' = held
        /\ stage' = [stage EXCEPT ![u] = "establishing"]
    BY DEF BeginConnect
  <1>4. LockAgrees'
    BY <1>3, LockIsTaken
  <1>5. \A l \in Links : link'[l] = IF l = client' THEN "establishing" ELSE "down"
    BY <1>1, <1>2, <1>3 DEF Typed
  <1>6. stage'[u] = "establishing" /\ \A t \in Tasks : t # u => stage'[t] \notin Holding
    BY <1>3, <1>4 DEF LockAgrees, Typed
  <1>7. \A w \in Users : held'[w] # "none" => link'[held'[w]] # "establishing"
    BY <1>2, <1>3, <1>5 DEF Typed
  <1> QED BY <1>2, <1>3, <1>4, <1>5, <1>6, <1>7 DEF LinkIsOwned

LEMMA ConnectUnderLockKeeps ==
  ASSUME Typed, Typed', LockAgrees, LinkIsOwned, NEW u \in Users, lock = "none",
         ConnectUnderLock(u)
  PROVE  /\ LockAgrees' /\ LinkIsOwned'
         /\ \E s \in AllStages \ Waiting : stage' = [stage EXCEPT ![u] = s]
  <1>1. stage[u] \notin Holding
    BY DEF LockAgrees
  <1>2. CASE IsConnected /\ HandOut(u) /\ UNCHANGED <<client, link, lock>>
    BY <1>1, <1>2, HandOutKeeps DEF HandOut
  <1>3. CASE ~IsConnected /\ BeginConnect(u)
    BY <1>3, BeginConnectKeeps DEF BeginConnect
  <1> QED BY <1>2, <1>3 DEF ConnectUnderLock

LEMMA EnsureConnectedKeeps ==
  ASSUME Typed, Typed', Order, NEW u \in Users, stage[u] \notin Holding \cup Waiting,
         EnsureConnected(u)
  PROVE  Order'
  <1>1. CASE IsConnected /\ HandOut(u) /\ UNCHANGED <<client, link, lock, queue>>
    <2>1. LockAgrees' /\ LinkIsOwned'
      BY <1>1, HandOutKeeps DEF Order
    <2>2. LineAgrees'
      BY <1>1, LineIsLeftAlone DEF HandOut, Order
    <2> QED BY <2>1, <2>2 DEF Order
  <1>2. CASE Free(lock, queue) /\ ConnectUnderLock(u) /\ UNCHANGED queue
    <2>1. /\ LockAgrees' /\ LinkIsOwned'
          /\ \E s \in AllStages \ Waiting : stage' = [stage EXCEPT ![u] = s]
      BY <1>2, ConnectUnderLockKeeps DEF Free, Order
    <2>2. LineAgrees'
      BY <1>2, <2>1, LineIsLeftAlone DEF Order
    <2> QED BY <2>1, <2>2 DEF Order
  <1>3. CASE /\ queue' = Append(queue, u) /\ stage' = [stage EXCEPT ![u] = "queued"]
             /\ UNCHANGED <<client, link, lock, held, deferred>>
    <2>1. lock # u
      BY DEF Order, LockAgrees
    <2>2. LockAgrees'
      BY <1>3, <2>1, LockIsLeft DEF Order
    <2>3. LineAgrees'
      BY <1>3, LineIsJoined DEF Order
    <2>4. LinkIsOwned'
      BY <1>3, <2>1, BystanderKeeps DEF Order
    <2> QED BY <2>2, <2>3, <2>4 DEF Order
  <1> QED BY <1>1, <1>2, <1>3 DEF EnsureConnected
-----------------------------------------------------------------------------
(* Every step keeps the order of the lock, its line and the link.          *)

\* The holder of the connect lock takes its link a step further.
LEMMA HolderKeeps ==
  ASSUME Typed, Typed', Order, NEW u \in Users, stage[u] \in Connecting,
         NEW s \in Connecting \ {"establishing"}, NEW x \in Up,
         stage' = [stage EXCEPT ![u] = s], link' = [link EXCEPT ![client] = x],
         UNCHANGED <<client, lock, queue, held>>
  PROVE  Order'
  <1>1. lock = u /\ client \in Links
    BY DEF Order, LockAgrees, LinkIsOwned, Typed
  <1>2. LockAgrees' /\ LineAgrees'
    BY <1>1, LockIsTaken, LineIsLeftAlone DEF Order
  <1>3. \A l \in Links : link'[l] # "down" => l = client /\ link'[l] = x
    BY <1>1 DEF Order, LinkIsOwned, Typed
  <1>4. stage'[u] = s /\ \A t \in Tasks : t # u => stage'[t] \notin Holding
    BY <1>1, <1>2 DEF LockAgrees, Typed
  <1>5. \A w \in Users : held'[w] # "none" => link'[held'[w]] # "establishing"
    BY <1>3 DEF Typed
  <1>6. LinkIsOwned'
    BY <1>1, <1>3, <1>4, <1>5 DEF LinkIsOwned
  <1> QED BY <1>2, <1>6 DEF Order

\* A connect that failed is followed by Fail, or by the end of a cancelled call.
LEMMA ConnectIsOver ==
  ASSUME Typed, Typed', Order, NEW u \in Users, stage[u] \in Connecting,
         \/ Fail(u, "none", [link EXCEPT ![client] = "down"])
         \/ /\ lock' = "none" /\ link' = [link EXCEPT ![client] = "down"]
            /\ UNCHANGED <<client, queue, timer>> /\ End(u)
  PROVE  Order'
  <1>1. Ready(u, "none", [link EXCEPT ![client] = "down"])
    BY DEF Ready
  <1>2. CASE Fail(u, "none", [link EXCEPT ![client] = "down"])
    BY <1>1, <1>2, FailKeeps
  <1>3. CASE /\ lock' = "none" /\ link' = [link EXCEPT ![client] = "down"]
             /\ UNCHANGED <<client, queue, timer>> /\ End(u)
    <2>1. \A w \in Users : held'[w] \in {held[w], "none"}
      BY <1>3 DEF End, Typed
    <2> QED BY <1>1, <1>3, <2>1, RestKeeps DEF End
  <1> QED BY <1>2, <1>3

LEMMA UserStepOrder ==
  ASSUME Typed, Typed', Order, NEW u \in Users, UserStep(u)
  PROVE  Order'
  <1>1. CASE ConnectLockTaken(u)
    <2>1. /\ LockAgrees' /\ LinkIsOwned'
          /\ \E s \in AllStages \ Waiting : stage' = [stage EXCEPT ![u] = s]
      BY <1>1, ConnectUnderLockKeeps DEF ConnectLockTaken, Order
    <2>2. LineAgrees'
      BY <1>1, <2>1, LineIsServed DEF ConnectLockTaken, Order
    <2> QED BY <2>1, <2>2 DEF Order
  <1>2. CASE Established(u)
    BY <1>2, HolderKeeps DEF Established
  <1>3. CASE SetupSession(u)
    BY <1>3, HolderKeeps DEF SetupSession
  <1>4. CASE Connects(u)
    <2>1. lock = u /\ client \in Links /\ Loose(client, [link EXCEPT ![client] = "down"])
      BY <1>4, LooseAfterConnect DEF Connects, Order, LockAgrees
    <2>2. LockAgrees' /\ LineAgrees'
      BY <1>4, <2>1, LockIsLeft, LineIsLeftAlone DEF Connects, HandOut, Order
    <2>3. Loose(client', link')
      BY <1>4, <2>1 DEF Connects, Loose, Typed
    <2> QED BY <1>4, <2>2, <2>3, FreedKeeps DEF Connects, Order
  <1>5. CASE ConnectFails(u)
    <2>1. CASE /\ link' = [link EXCEPT ![client] = "closing"]
               /\ stage' = [stage EXCEPT ![u] = "abandoning"]
               /\ UNCHANGED <<client, lock, queue, held, cycle, cancelled, timer, deferred>>
      BY <1>5, <2>1, HolderKeeps DEF ConnectFails
    <2> QED BY <1>5, <2>1, ConnectIsOver DEF ConnectFails
  <1>6. CASE AbandonEnds(u)
    BY <1>6, ConnectIsOver DEF AbandonEnds
  <1>7. CASE UseEnds(u) \/ GiveUp(u)
    <2>1. Ready(u, lock', link') /\ End(u) /\ UNCHANGED <<client, queue>>
      BY <1>7 DEF Ready, UseEnds, GiveUp
    <2>2. \A w \in Users : held'[w] \in {held[w], "none"}
      BY <2>1 DEF End, Typed
    <2> QED BY <2>1, <2>2, RestKeeps DEF End
  <1>8. CASE UseFails(u)
    BY <1>8, FailKeeps DEF UseFails, Ready
  <1>9. CASE Retry(u)
    BY <1>9, EnsureConnectedKeeps DEF Retry
  <1>10. CASE Cancelled(u)
    <2>1. lock # u /\ stage' = [stage EXCEPT ![u] = "idle"]
      BY <1>10 DEF Cancelled, End, Order, LockAgrees
    <2>2. \A w \in Users : held'[w] \in {held[w], "none"}
      BY <1>10 DEF Cancelled, End, Typed
    <2>3. LockAgrees'
      BY <1>10, <2>1, LockIsLeft DEF Cancelled, Order
    <2>4. LineAgrees'
      BY <1>10, <2>1, LineIsLeft DEF Cancelled, Order
    <2>5. LinkIsOwned'
      BY <1>10, <2>1, <2>2, BystanderKeeps DEF Cancelled, Order
    <2> QED BY <2>3, <2>4, <2>5 DEF Order
  <1> QED BY <1>1, <1>2, <1>3, <1>4, <1>5, <1>6, <1>7, <1>8, <1>9, <1>10 DEF UserStep

LEMMA OrderKept ==
  ASSUME Typed, Typed', Order, [Next]_vars PROVE Order'
  <1>1. ASSUME UNCHANGED <<client, link, lock, queue, stage, held>> PROVE Order'
    BY <1>1 DEF Order, LockAgrees, LineAgrees, LinkIsOwned
  <1>2. ASSUME NEW t \in Tasks, stage[t] \in {"idle", "created"}, NEW s \in {"created", "begin"},
               stage' = [stage EXCEPT ![t] = s], UNCHANGED <<client, link, lock, queue, held>>
        PROVE  Order'
    BY <1>2, RestKeeps DEF Ready
  <1>3. ASSUME Next PROVE Order'
    <2> USE <1>3 DEF Next
    <2>1. ASSUME NEW u \in Users, Begin(u) PROVE Order'
      BY <2>1, EnsureConnectedKeeps DEF Begin
    <2>2. ASSUME NEW u \in Users, Cancel(u) PROVE Order'
      BY <1>1, <2>2 DEF Cancel
    <2>3. ASSUME NEW u \in Users, UserStep(u) PROVE Order'
      BY <2>3, UserStepOrder
    <2>4. ASSUME NEW t \in Tasks, CloseLockTaken(t) PROVE Order'
      <3>1. lock = "none" /\ ExecuteDisconnect(t, timer, link) /\ Loose(client, link)
        BY <2>4, LooseWhenFree DEF CloseLockTaken, Order
      <3>2. /\ LockAgrees' /\ LinkIsOwned'
            /\ \E s \in AllStages \ Waiting : stage' = [stage EXCEPT ![t] = s]
        BY <3>1, ExecuteDisconnectKeeps DEF Order, Typed
      <3>3. LineAgrees'
        BY <2>4, <3>2, LineIsServed DEF CloseLockTaken, Order
      <3> QED BY <3>2, <3>3 DEF Order
    <2>5. ASSUME NEW t \in Tasks, DisconnectEnds(t) PROVE Order'
      <3>1. lock = t /\ client = "none"
        BY <2>5 DEF DisconnectEnds, Order, LockAgrees, LinkIsOwned
      <3>2. \A l \in Links : link'[l] = "down"
        BY <2>5, <3>1 DEF DisconnectEnds, Order, LinkIsOwned
      <3>3. PICK s \in AllStages \ (Holding \cup Waiting) : stage' = [stage EXCEPT ![t] = s]
        BY <2>5 DEF DisconnectEnds, End, AfterDisconnect
      <3>4. LockAgrees' /\ LineAgrees'
        BY <2>5, <3>1, <3>3, LockIsLeft, LineIsLeftAlone DEF DisconnectEnds, Order
      <3> QED BY <2>5, <3>2, <3>4, FreedKeeps DEF DisconnectEnds, Order, Loose
    <2>6. CASE CycleBegins
      <3>1. CASE EnsureConnected("operation")
        BY <2>6, <3>1, EnsureConnectedKeeps DEF CycleBegins
      <3>2. CASE UNCHANGED <<client, link, lock, queue, timer>> /\ End("operation")
        <4>1. \A w \in Users : held'[w] \in {held[w], "none"}
          BY <3>2 DEF End, Typed
        <4>2. Ready("operation", lock', link')
          BY <2>6, <3>2 DEF CycleBegins, Ready
        <4> QED BY <3>2, <4>1, <4>2, RestKeeps DEF End
      <3> QED BY <2>6, <3>1, <3>2 DEF CycleBegins
    <2>7. CASE DeferredUpdate
      BY <1>2, <2>7 DEF DeferredUpdate, OperationLocked
    <2>8. CASE DisconnectWithTimer
      BY <1>1, <1>2, <2>8 DEF DisconnectWithTimer, OperationLocked
    <2>9. CASE TimedDisconnect
      BY <2>9, DisconnectKeeps DEF TimedDisconnect, Ready
    <2>10. CASE ForcedDisconnect
      <3>1. CASE cycle
        <4>1. stage["forced"] \notin Holding \cup Waiting
          BY <2>10 DEF ForcedDisconnect
        <4> QED BY <2>10, <3>1, <4>1, RestKeeps DEF ForcedDisconnect, Ready
      <3>2. CASE ~cycle
        BY <2>10, <3>2, DisconnectKeeps DEF ForcedDisconnect, Ready
      <3> QED BY <3>1, <3>2
    <2>11. CASE ForcedDisconnectGoesOn
      BY <2>11, DisconnectKeeps DEF ForcedDisconnectGoesOn, Ready
    <2>12. CASE StateCallback \/ RequestUpdate \/ Start
      BY <1>1, <2>12 DEF StateCallback, RequestUpdate, Start
    <2>13. CASE Stop
      BY <1>2, <2>13 DEF Stop
    <2>14. ASSUME NEW l \in Links, LinkDrops(l) PROVE Order'
      <3>1. LockAgrees' /\ LineAgrees'
        BY <2>14, NobodyMoves DEF LinkDrops, Order
      <3>2. \A m \in Links : link'[m] \in {link[m], "down"} /\ (link[m] = "establishing" => link'[m] = link[m])
        BY <2>14 DEF LinkDrops, Typed
      <3>3. UNCHANGED <<client, lock, stage, held>>
        BY <2>14 DEF LinkDrops
      <3>4. \A t \in Tasks : stage[t] = "establishing" => client \in Links
        BY DEF Order, LinkIsOwned, Typed
      <3>5. LinkIsOwned'
        BY <3>2, <3>3, <3>4 DEF Order, LinkIsOwned, Typed
      <3> QED BY <3>1, <3>5 DEF Order
    <2> QED BY <2>1, <2>2, <2>3, <2>4, <2>5, <2>6, <2>7, <2>8, <2>9, <2>10, <2>11, <2>12, <2>13,
               <2>14
  <1>4. CASE UNCHANGED vars
    BY <1>1, <1>4 DEF vars
  <1> QED BY <1>3, <1>4
-----------------------------------------------------------------------------
(* Every step keeps the timer, where the link is in use.                   *)

\* A reset does set the timer of a watcher that is not always connected.
LEMMA ResetArms == ~alwaysConnected => ResetTimer = "armed"
  BY DEF ResetTimer

LEMMA EnsureConnectedTimer ==
  ASSUME Typed, Typed', TimerStands, NEW u \in Users, EnsureConnected(u), UNCHANGED alwaysConnected
  PROVE  TimerStands'
  <1>1. CASE timer' = ResetTimer
    BY <1>1, ResetArms DEF TimerStands, Exposed
  <1>2. CASE BeginConnect(u)
    <2>1. client' \in Links /\ link'[client'] = "establishing"
      BY <1>2 DEF BeginConnect, Unused, Typed
    <2> QED BY <2>1 DEF TimerStands, Exposed, IsConnected
  <1>3. CASE /\ timer' = timer /\ stage' = [stage EXCEPT ![u] = "queued"]
             /\ UNCHANGED <<client, link, lock, held, deferred>>
    BY <1>3 DEF TimerStands, Exposed, IsConnected, Typed
  <1> QED BY <1>1, <1>2, <1>3 DEF EnsureConnected, ConnectUnderLock

\* A disconnect that goes ahead leaves no client; one that does not saw the timer set.
LEMMA ExecuteDisconnectTimer ==
  ASSUME NEW t \in Tasks, NEW lnk, ExecuteDisconnect(t, timer', lnk)
  PROVE  TimerStands'
  BY DEF ExecuteDisconnect, TimerStands, Exposed, IsConnected

LEMMA DisconnectTimer ==
  ASSUME Typed, TimerStands, NEW t \in Tasks, Disconnect(t, lock, timer, link),
         UNCHANGED <<alwaysConnected, timer, held>>
  PROVE  TimerStands'
  <1>1. CASE ExecuteDisconnect(t, timer, link)
    BY <1>1, ExecuteDisconnectTimer
  <1>2. CASE stage' = [stage EXCEPT ![t] = "toClose"] /\ UNCHANGED <<client, link>>
    BY <1>2 DEF TimerStands, Exposed, IsConnected, Typed
  <1> QED BY <1>1, <1>2 DEF Disconnect

\* A failure clears the timer only where it closes the link, or finds it down.
LEMMA FailTimer ==
  ASSUME Typed, TimerStands, NEW u \in Users, NEW lk, NEW lnk, Fail(u, lk, lnk),
         \/ lk = lock /\ lnk = link /\ ~WaiterWoken
         \/ client \in Links /\ lnk = [link EXCEPT ![client] = "down"],
         UNCHANGED alwaysConnected
  PROVE  TimerStands'
  <1>1. ASSUME NEW s, s # "using", stage' = [stage EXCEPT ![u] = s],
               held' = [held EXCEPT ![u] = "none"], link' = lnk, UNCHANGED <<client, timer>>
        PROVE  TimerStands'
    BY <1>1 DEF TimerStands, Exposed, IsConnected, Typed
  <1>2. CASE HandleDisconnected(u, lk, lnk) /\ held' = [held EXCEPT ![u] = "none"]
    <2>1. CASE lk # "none"
      BY <1>1, <1>2, <2>1 DEF HandleDisconnected
    <2>2. CASE ExecuteDisconnect(u, "none", lnk) /\ timer' = "none"
      BY <2>2, ExecuteDisconnectTimer
    <2>3. CASE ~Free(lk, queue) /\ lk = "none" /\ link' = lnk /\ client' = client
      <3>1. lnk = [link EXCEPT ![client] = "down"] /\ client \in Links
        BY <2>3 DEF Free, WaiterWoken
      <3> QED BY <2>3, <3>1 DEF TimerStands, Exposed, IsConnected, Typed
    <2> QED BY <1>2, <2>1, <2>2, <2>3 DEF HandleDisconnected, Disconnect
  <1> QED BY <1>1, <1>2 DEF Fail, End

LEMMA UserStepTimer ==
  ASSUME IInv, Typed', NEW u \in Users, UserStep(u), UNCHANGED alwaysConnected
  PROVE  TimerStands'
  <1> USE DEF IInv
  <1>1. ASSUME NEW s, s # "using", stage' = [stage EXCEPT ![u] = s], client' = client,
               timer' = timer, held' \in {held, [held EXCEPT ![u] = "none"]},
               IsConnected' => IsConnected
        PROVE  TimerStands'
    BY <1>1 DEF TimerStands, Exposed, Typed
  <1>2. stage[u] \in Connecting => client \in Links
    BY DEF LinkIsOwned, Typed
  <1>3. CASE timer' = ResetTimer
    BY <1>3, ResetArms DEF TimerStands, Exposed
  <1>4. CASE ConnectLockTaken(u)
    <2>1. CASE BeginConnect(u)
      <3>1. client' \in Links /\ link'[client'] = "establishing"
        BY <2>1 DEF BeginConnect, Unused, Typed
      <3> QED BY <3>1 DEF TimerStands, Exposed, IsConnected
    <2> QED BY <1>3, <1>4, <2>1 DEF ConnectLockTaken, ConnectUnderLock
  <1>5. CASE Established(u)
    <2>1. \A w \in Users : held[w] # client
      BY <1>2, <1>5 DEF Established, LinkIsOwned
    <2> QED BY <1>5, <2>1 DEF Established, TimerStands, Exposed
  <1>6. CASE SetupSession(u)
    BY <1>1, <1>2, <1>6 DEF SetupSession, IsConnected
  <1>7. CASE ConnectFails(u)
    <2>1. client \in Links
      BY <1>2, <1>7 DEF ConnectFails
    <2>2. CASE /\ link[client] \in Up /\ UNCHANGED <<client, held, timer>>
               /\ stage' = [stage EXCEPT ![u] = "abandoning"]
      BY <1>1, <2>1, <2>2 DEF IsConnected
    <2>3. CASE Fail(u, "none", [link EXCEPT ![client] = "down"])
      BY <2>1, <2>3, FailTimer
    <2>4. CASE link' = [link EXCEPT ![client] = "down"] /\ client' = client
      BY <2>1, <2>4 DEF TimerStands, Exposed, IsConnected, Typed
    <2> QED BY <1>7, <2>2, <2>3, <2>4 DEF ConnectFails
  <1>8. CASE AbandonEnds(u)
    <2>1. client \in Links
      BY <1>2, <1>8 DEF AbandonEnds
    <2>2. CASE Fail(u, "none", [link EXCEPT ![client] = "down"])
      BY <2>1, <2>2, FailTimer
    <2>3. CASE link' = [link EXCEPT ![client] = "down"] /\ client' = client
      BY <2>1, <2>3 DEF TimerStands, Exposed, IsConnected, Typed
    <2> QED BY <1>8, <2>2, <2>3 DEF AbandonEnds
  <1>9. CASE UseEnds(u)
    BY <1>1, <1>3, <1>9 DEF UseEnds, End, IsConnected
  <1>10. CASE UseFails(u)
    BY <1>10, FailTimer DEF UseFails
  <1>11. CASE Retry(u)
    BY <1>11, EnsureConnectedTimer DEF Retry
  <1>12. CASE GiveUp(u) \/ Cancelled(u)
    BY <1>1, <1>12 DEF GiveUp, Cancelled, End, IsConnected
  <1> QED BY <1>3, <1>4, <1>5, <1>6, <1>7, <1>8, <1>9, <1>10, <1>11, <1>12 DEF UserStep, Connects

LEMMA TimerKept ==
  ASSUME IInv, Typed', [Next]_vars PROVE TimerStands'
  <1> USE DEF IInv
  <1>1. ASSUME UNCHANGED <<alwaysConnected, client, link, stage, held, timer>> PROVE TimerStands'
    BY <1>1 DEF TimerStands, Exposed, IsConnected
  <1>2. ASSUME timer' = ResetTimer, UNCHANGED alwaysConnected PROVE TimerStands'
    BY <1>2, ResetArms DEF TimerStands, Exposed
  <1>3. ASSUME stage'["operation"] # "using" \/ stage'["forced"] # "idle" \/ client' = "none"
        PROVE  TimerStands'
    BY <1>3 DEF TimerStands, Exposed, IsConnected
  <1>4. ASSUME Next PROVE TimerStands'
    <2> USE <1>4 DEF Next
    <2>1. ASSUME NEW u \in Users, Begin(u) PROVE TimerStands'
      BY <2>1, EnsureConnectedTimer DEF Begin
    <2>2. ASSUME NEW u \in Users, Cancel(u) PROVE TimerStands'
      BY <1>1, <2>2 DEF Cancel
    <2>3. ASSUME NEW u \in Users, UserStep(u) PROVE TimerStands'
      BY <2>3, UserStepTimer
    <2>4. ASSUME NEW t \in Tasks, CloseLockTaken(t) PROVE TimerStands'
      BY <2>4, ExecuteDisconnectTimer DEF CloseLockTaken
    <2>5. ASSUME NEW t \in Tasks, DisconnectEnds(t) PROVE TimerStands'
      BY <1>3, <2>5 DEF DisconnectEnds, LinkIsOwned
    <2>6. CASE CycleBegins
      <3>1. CASE EnsureConnected("operation")
        BY <2>6, <3>1, EnsureConnectedTimer DEF CycleBegins
      <3>2. CASE End("operation")
        BY <1>3, <3>2 DEF End, Typed
      <3> QED BY <2>6, <3>1, <3>2 DEF CycleBegins
    <2>7. CASE DeferredUpdate
      BY <1>3, <2>7 DEF DeferredUpdate, Typed
    <2>8. CASE DisconnectWithTimer
      <3>1. CASE timer' = IF alwaysConnected /\ running THEN "fired" ELSE "armed"
        BY <3>1 DEF TimerStands
      <3>2. CASE ~OperationLocked /\ stage' = [stage EXCEPT !["timed"] = "begin"]
        BY <1>3, <3>2 DEF OperationLocked, Typed
      <3> QED BY <2>8, <3>1, <3>2 DEF DisconnectWithTimer
    <2>9. CASE TimedDisconnect
      BY <2>9, DisconnectTimer DEF TimedDisconnect
    <2>10. CASE ForcedDisconnect
      <3>1. CASE stage' = [stage EXCEPT !["forced"] = "awaiting"]
                 \/ stage' = [stage EXCEPT !["forced"] = "toClose"]
        BY <1>3, <3>1 DEF Typed
      <3>2. CASE ExecuteDisconnect("forced", "none", link)
        BY <2>10, <3>2, ExecuteDisconnectTimer DEF ForcedDisconnect
      <3> QED BY <2>10, <3>1, <3>2 DEF ForcedDisconnect, Disconnect
    <2>11. CASE ForcedDisconnectGoesOn
      BY <2>11, DisconnectTimer DEF ForcedDisconnectGoesOn
    <2>12. CASE StateCallback
      BY <1>2, <2>12 DEF StateCallback
    <2>13. CASE RequestUpdate \/ Start
      BY <1>1, <2>13 DEF RequestUpdate, Start
    <2>14. CASE Stop
      BY <1>3, <2>14 DEF Stop, Typed
    <2>15. ASSUME NEW l \in Links, LinkDrops(l) PROVE TimerStands'
      BY <2>15 DEF LinkDrops, TimerStands, Exposed, IsConnected, Typed
    <2> QED BY <2>1, <2>2, <2>3, <2>4, <2>5, <2>6, <2>7, <2>8, <2>9, <2>10, <2>11, <2>12, <2>13,
               <2>14, <2>15
  <1>5. CASE UNCHANGED vars
    BY <1>1, <1>5 DEF vars
  <1> QED BY <1>4, <1>5
-----------------------------------------------------------------------------
(* The theorems.                                                           *)

LEMMA InitIInv == Init => IInv
  <1> SUFFICES ASSUME Init PROVE IInv
    OBVIOUS
  <1>1. Typed /\ LockAgrees /\ LinkIsOwned /\ TimerStands
    BY DEF Init, Typed, LockAgrees, LinkIsOwned, TimerStands, Exposed
  <1>2. LineAgrees
    BY EmptySeq DEF Init, LineAgrees, Distinct, Waits
  <1> QED BY <1>1, <1>2 DEF IInv

\* Every behaviour keeps the inductive invariant.
THEOREM Invariance == Spec => []IInv
  <1>1. IInv /\ [Next]_vars => IInv'
    BY TypedKept, OrderKept, TimerKept DEF IInv, Order
  <1> QED BY InitIInv, <1>1, PTL DEF Spec

\* The line for the connect lock holds the tasks that wait for it and no other.
THEOREM TypeCorrect == Spec => []TypeOK
  <1>1. IInv => TypeOK
    <2> SUFFICES ASSUME IInv PROVE TypeOK
      OBVIOUS
    <2>1. \A t \in Tasks : stage[t] \in Waiting <=> Waits(queue, t)
      BY DEF IInv, LineAgrees
    <2>2. queue \in Seq({t \in Tasks : stage[t] \in Waiting})
      <3>1. queue \in Seq(Tasks) /\ \A i \in 1 .. Len(queue) : queue[i] \in Tasks
        BY ElementOfSeq DEF IInv, LineAgrees
      <3>2. \A i \in 1 .. Len(queue) : queue[i] \in {t \in Tasks : stage[t] \in Waiting}
        BY <2>1, <3>1, LenProperties DEF Waits
      <3> QED BY <3>1, <3>2, LenProperties, IsASeq
    <2> QED BY <2>1, <2>2 DEF IInv, Typed, TypeOK, Waits
  <1> QED BY Invariance, <1>1, PTL

\* At most one link is open or being opened, whichever of the four tasks ask for
\* one: a second Lock object is made only where every other is down.
THEOREM OneLink == Spec => []AtMostOneLink
  <1>1. IInv => AtMostOneLink
    <2> SUFFICES ASSUME IInv PROVE AtMostOneLink
      OBVIOUS
    <2> DEFINE open == {l \in Links : link[l] \in Up \cup {"establishing"}}
    <2>1. \A l, m \in open : l = m
      BY DEF IInv, LinkIsOwned
    <2>2. CASE open = {}
      BY <2>2, FS_EmptySet DEF AtMostOneLink
    <2>3. CASE open # {}
      <3>1. PICK l \in open : open = {l}
        BY <2>1, <2>3
      <3>2. Cardinality(open) = 1
        BY <3>1, FS_Singleton
      <3> QED BY <3>2 DEF AtMostOneLink
    <2> QED BY <2>2, <2>3
  <1> QED BY Invariance, <1>1, PTL

\* No link leaks: one that is open is _client, or is being closed.
THEOREM NothingLeaks == Spec => []NoLinkLeaks
  <1>1. IInv => NoLinkLeaks
    BY DEF IInv, Typed, LinkIsOwned, NoLinkLeaks
  <1> QED BY Invariance, <1>1, PTL

\* A user's step leaves the two disconnects where they are.
LEMMA UsersMoveThemselves ==
  ASSUME Typed, NEW u \in Users, Begin(u) \/ Cancel(u) \/ UserStep(u)
  PROVE  \A t \in Disconnects : stage'[t] = stage[t]
  <1>1. ASSUME NEW s, stage' = [stage EXCEPT ![u] = s]
        PROVE  \A t \in Disconnects : stage'[t] = stage[t]
    BY <1>1 DEF Typed
  <1>2. EnsureConnected(u) \/ ConnectUnderLock(u) =>
          \E s : stage' = [stage EXCEPT ![u] = s]
    BY DEF EnsureConnected, ConnectUnderLock, HandOut, BeginConnect
  <1>3. ASSUME NEW lk, NEW lnk, Fail(u, lk, lnk)
        PROVE  \E s : stage' = [stage EXCEPT ![u] = s]
    BY <1>3 DEF Fail, HandleDisconnected, Disconnect, ExecuteDisconnect, End
  <1>4. Begin(u) \/ Cancel(u) => UNCHANGED stage \/ \E s : stage' = [stage EXCEPT ![u] = s]
    BY <1>2 DEF Begin, Cancel
  <1>5. UserStep(u) => \E s : stage' = [stage EXCEPT ![u] = s]
    BY <1>2, <1>3
    DEF UserStep, ConnectLockTaken, Established, SetupSession, Connects, ConnectFails,
        AbandonEnds, UseEnds, UseFails, Retry, GiveUp, Cancelled, HandOut, End
  <1> QED BY <1>1, <1>4, <1>5

\* A timed disconnect starts to close a link only in _execute_disconnect.
LEMMA TimedCloses ==
  ASSUME Typed, Next, stage["timed"] # "closing", stage'["timed"] = "closing"
  PROVE  ExecuteDisconnect("timed", timer, link)
  <1>1. ASSUME NEW t \in Tasks, t # "timed", NEW s, stage' = [stage EXCEPT ![t] = s]
        PROVE  FALSE
    BY <1>1 DEF Typed
  <1>2. ASSUME NEW s, s # "closing", stage' = [stage EXCEPT !["timed"] = s] PROVE FALSE
    BY <1>2 DEF Typed
  <1>3. ~(\E u \in Users : Begin(u) \/ Cancel(u) \/ UserStep(u))
    BY UsersMoveThemselves
  <1>4. ASSUME NEW t \in Tasks, CloseLockTaken(t) PROVE ExecuteDisconnect("timed", timer, link)
    BY <1>1, <1>4 DEF CloseLockTaken, ExecuteDisconnect
  <1>5. ASSUME NEW t \in Tasks, DisconnectEnds(t) PROVE FALSE
    BY <1>1, <1>2, <1>5 DEF DisconnectEnds, End, AfterDisconnect
  <1>6. ASSUME CycleBegins PROVE FALSE
    BY <1>1, <1>6 DEF CycleBegins, EnsureConnected, ConnectUnderLock, HandOut, BeginConnect, End
  <1>7. ASSUME DeferredUpdate PROVE FALSE
    BY <1>1, <1>7 DEF DeferredUpdate
  <1>8. ASSUME DisconnectWithTimer PROVE FALSE
    BY <1>1, <1>2, <1>8 DEF DisconnectWithTimer
  <1>9. ASSUME TimedDisconnect PROVE ExecuteDisconnect("timed", timer, link)
    BY <1>2, <1>9 DEF TimedDisconnect, Disconnect
  <1>10. ASSUME ForcedDisconnect \/ ForcedDisconnectGoesOn PROVE FALSE
    BY <1>1, <1>10 DEF ForcedDisconnect, ForcedDisconnectGoesOn, Disconnect, ExecuteDisconnect
  <1>11. ASSUME StateCallback \/ RequestUpdate \/ Start \/ Stop PROVE FALSE
    BY <1>1, <1>11 DEF StateCallback, RequestUpdate, Start, Stop
  <1>12. ASSUME NEW l \in Links, LinkDrops(l) PROVE FALSE
    BY <1>12 DEF LinkDrops
  <1> QED BY <1>3, <1>4, <1>5, <1>6, <1>7, <1>8, <1>9, <1>10, <1>11, <1>12 DEF Next

\* The idle disconnect never closes the link under the holder of the operation
\* lock: the timer stands while it uses the link, and _execute_disconnect asks.
THEOREM LinkIsKept == Spec => OperationKeepsItsLink
  <1> DEFINE Closes == stage["timed"] # "closing" /\ stage'["timed"] = "closing"
             InUse == /\ running /\ ~alwaysConnected /\ stage["forced"] = "idle"
                      /\ stage["operation"] = "using" /\ held["operation"] = client
  <1>1. IInv /\ [Next]_vars => [Closes => ~InUse]_vars
    <2> SUFFICES ASSUME IInv, Next, Closes, InUse PROVE FALSE
      BY DEF vars
    <2>1. ExecuteDisconnect("timed", timer, link)
      BY TimedCloses DEF IInv
    <2>2. running /\ timer = "none" /\ IsConnected
      BY <2>1 DEF ExecuteDisconnect, AfterDisconnect, IsConnected, IInv, Typed
    <2> QED BY <2>2 DEF IInv, TimerStands, Exposed
  <1> QED BY Invariance, <1>1, PTL DEF Spec, OperationKeepsItsLink
=============================================================================

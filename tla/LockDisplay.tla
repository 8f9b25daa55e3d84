---------------------------- MODULE LockDisplay ----------------------------
(* The statuses a lock reports and the pair of statuses the library shows   *)
(* for it: const.py's LockStatus sets and the pure functions of push.py     *)
(* that project a report, or a command of ours, onto the display.           *)

LockStatus ==
    {"UNKNOWN", "UNKNOWN_01", "UNLOCKING", "UNLOCKED", "LOCKING", "LOCKED",
     "UNKNOWN_06", "JAMMED", "UNLATCHING", "UNLATCHED", "SECUREMODE"}

SetupConditions == {"UNKNOWN_01", "UNKNOWN_06"}

\* Statuses that need a person at the lock.
ManualIntervention == SetupConditions \union {"JAMMED"}

PositionReadings ==
    ManualIntervention \union {"LOCKED", "UNLOCKED", "UNLATCHED", "SECUREMODE"}

TransitionalReadings == {"LOCKING", "UNLOCKING", "UNLATCHING"}

Display == [lock : LockStatus, secure : LockStatus]

UnknownDisplay == [lock |-> "UNKNOWN", secure |-> "UNKNOWN"]

Settled(d) == {d.lock, d.secure} \subseteq PositionReadings

NeedsAttention(d) == d.lock \in ManualIntervention

\* Slip: the secure lock takes every status as it is reported.
SecureForStatus_Plain(reported) == reported

\* The secure lock a reported status settles to; any other status applies to both.
SecureForStatus(reported) ==
    IF reported = "SECUREMODE" THEN "LOCKED"
    ELSE IF reported \in {"LOCKING", "LOCKED", "UNLOCKED", "UNLATCHED"} THEN "UNLOCKED"
    ELSE reported

\* A secured lock's secure channel moves too, on the way to being unlocked.
ProjectLockStatus(reported, d) ==
    [lock |-> reported,
     secure |->
        IF reported \notin {"UNLOCKING", "UNLATCHING"} THEN SecureForStatus(reported)
        ELSE IF d.secure \in {"LOCKED", "UNLOCKING"} THEN "UNLOCKING"
        ELSE "UNLOCKED"]

SecuringDisplay(d) ==
    [lock |-> IF d.lock \in {"LOCKED", "SECUREMODE"} THEN d.lock ELSE "LOCKING",
     secure |-> "LOCKING"]

LockOperation == {"lock", "unlock", "securemode", "unlatch"}

\* The transitional display of a command whose write succeeded.
Pending(op, d) ==
    IF op = "securemode" THEN SecuringDisplay(d)
    ELSE ProjectLockStatus(IF op = "lock" THEN "LOCKING"
                           ELSE IF op = "unlock" THEN "UNLOCKING"
                           ELSE "UNLATCHING", d)

\* The status a command that succeeded settles to.
Complete(op) ==
    IF op = "lock" THEN "LOCKED"
    ELSE IF op = "unlock" THEN "UNLOCKED"
    ELSE IF op = "unlatch" THEN "UNLATCHED"
    ELSE "SECUREMODE"

=============================================================================

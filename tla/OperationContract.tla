------------------------- MODULE OperationContract -------------------------
(* What one attempt of a mechanical command promises its caller, whatever    *)
(* becomes of the link and the frames: it may be attempted again only while  *)
(* the lock cannot have started it, and an answer, once there, is the last   *)
(* word. Session implements it, and PushLock relies on it.                   *)
EXTENDS Naturals

VARIABLES
    phase,  \* how far the attempt got: "idle", "sent", "acked", "answered"
    again,  \* the attempt was given up for another one
    once    \* the command must not be written twice (an unlatch)

contractVars == <<phase, again, once>>

Init == phase = "idle" /\ again = FALSE /\ once \in BOOLEAN

Issue ==
    /\ phase = "idle"
    /\ again' = FALSE /\ once' \in BOOLEAN
    /\ UNCHANGED phase

Send ==
    /\ phase = "idle" /\ phase' = "sent"
    /\ again' = FALSE /\ once' \in BOOLEAN

Acknowledge ==
    /\ phase = "sent" /\ phase' = "acked"
    /\ UNCHANGED <<again, once>>

Answer ==
    /\ phase \in {"sent", "acked"} /\ phase' = "answered"
    /\ UNCHANGED <<again, once>>

GiveUpForAnother ==
    /\ phase = "idle" \/ (phase = "sent" /\ ~once)
    /\ phase' = "idle" /\ again' = TRUE /\ once' \in BOOLEAN

End ==
    /\ phase # "idle" /\ phase' = "idle"
    /\ again' = FALSE /\ once' \in BOOLEAN

Next == Issue \/ Send \/ Acknowledge \/ Answer \/ GiveUpForAnother \/ End

Spec == Init /\ [][Next]_contractVars

=============================================================================

---------------------------- MODULE WaitingLine ----------------------------
(* The line of an asyncio.Lock: tasks that wait are served in the order they *)
(* came, and one that is cancelled takes its future out of the line. The     *)
(* session lock and the connect lock are both of this kind.                  *)
EXTENDS Naturals, Sequences

Seqs == INSTANCE SequencesExt

\* Lock.acquire takes a free lock at once only if nobody is in line.
Free(holder, line) == holder = "none" /\ line = <<>>

Waits(line, t) == \E i \in DOMAIN line : line[i] = t

\* The line without t, which is in it at most once.
Without(line, t) ==
    IF Waits(line, t)
    THEN Seqs!RemoveAt(line, CHOOSE i \in DOMAIN line : line[i] = t)
    ELSE line

=============================================================================

------------------------------ MODULE FairMutex ------------------------------
(* What a queueing lock promises its callers: they stand in one line, join it *)
(* at the end, own the lock while at its head, and leave from the head only.  *)
EXTENDS Naturals, Sequences

CONSTANT Thread

VARIABLE line

InLine(t) == \E i \in 1..Len(line) : line[i] = t

Init == line = <<>>

Join(t) == ~InLine(t) /\ line' = Append(line, t)

Leave(t) == line # <<>> /\ Head(line) = t /\ line' = Tail(line)

Next == \E t \in Thread : Join(t) \/ Leave(t)

Spec == Init /\ [][Next]_line
=============================================================================

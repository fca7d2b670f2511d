------------------------------ MODULE FairRWLock ------------------------------
(* What a queueing reader/writer lock promises: those that have it together   *)
(* are either readers or one writer; whoever comes when the line is empty and *)
(* is compatible joins them, everybody else stands in line; and when the last *)
(* of them leaves, the head of the line follows, a writer alone, a reader     *)
(* with all the readers right behind it.                                      *)
EXTENDS Naturals, Sequences

CONSTANT Thread

VARIABLES batch,  \* the threads that have the lock
          kind,   \* "R" or "W": what they have it for
          line    \* requests <<thread, kind>> in the order of their arrival

vars == <<batch, kind, line>>

Init == batch = {} /\ kind = "R" /\ line = <<>>

Known(t) == t \in batch \/ \E i \in 1..Len(line) : line[i][1] = t

Join(t, k) ==
    /\ ~Known(t)
    /\ IF line = <<>> /\ (batch = {} \/ (k = "R" /\ kind = "R"))
         THEN batch' = batch \cup {t} /\ kind' = k /\ UNCHANGED line
         ELSE line' = Append(line, <<t, k>>) /\ UNCHANGED <<batch, kind>>

(* the last position of the batch that starts at the head of the line *)
Together(i) == \A j \in 1..i : line[j][2] = "R"
Last == IF line = <<>> THEN 0
        ELSE CHOOSE i \in 1..Len(line) : /\ i = 1 \/ Together(i)
                                         /\ i = Len(line) \/ ~Together(i + 1)

Leave(t) ==
    /\ t \in batch
    /\ IF batch # {t}
         THEN batch' = batch \ {t} /\ UNCHANGED <<kind, line>>
         ELSE /\ batch' = {line[i][1] : i \in 1..Last}
              /\ kind' = IF line = <<>> THEN "R" ELSE line[1][2]
              /\ line' = SubSeq(line, Last + 1, Len(line))

Next == \E t \in Thread : Leave(t) \/ \E k \in {"R", "W"} : Join(t, k)

Spec == Init /\ [][Next]_vars
=============================================================================

------------------------------ MODULE PlumbPort ------------------------------
(* What a plumber port promises: every message goes, whole and in order, to a *)
(* mailbox of everybody who has the port open at that moment, or is held for  *)
(* whoever opens it next; a read that finds mail is answered at once, one     *)
(* that finds none by the next message; an answer never spans two messages.   *)
EXTENDS Integers, Sequences

CONSTANTS Reader, Message, Size

VARIABLES box,    \* of each subscriber: the messages it has not read to the end
          taken,  \* how many units of the first of them it has read
          sub,    \* who subscribes
          want,   \* how many units a waiting read asks for; 0: no read waits
          reply,  \* the answer to the last read since it subscribed
          held    \* messages for the first who subscribes

vars == <<box, taken, sub, want, reply, held>>

Init == /\ box = [r \in Reader |-> <<>>] /\ taken = [r \in Reader |-> 0]
        /\ sub = {} /\ held = <<>>
        /\ want = [r \in Reader |-> 0] /\ reply = [r \in Reader |-> <<>>]

Least(i, j) == IF i < j THEN i ELSE j

(* every read that finds mail is answered, from the first message in the box *)
Settle(b, w) ==
    LET Served(r) == w[r] > 0 /\ b[r] # <<>>
        Upto(r) == Least(taken[r] + w[r], Size)
        Done(r) == Served(r) /\ Upto(r) = Size
    IN /\ box' = [r \in Reader |-> IF Done(r) THEN Tail(b[r]) ELSE b[r]]
       /\ taken' = [r \in Reader |-> IF Done(r) THEN 0
                                     ELSE IF Served(r) THEN Upto(r) ELSE taken[r]]
       /\ want' = [r \in Reader |-> IF Served(r) THEN 0 ELSE w[r]]
       /\ reply' = [r \in Reader |-> IF Served(r)
                                       THEN SubSeq(Head(b[r]), taken[r] + 1, Upto(r))
                                       ELSE reply[r]]

Subscribe(r) == /\ r \notin sub
                /\ sub' = sub \cup {r}
                /\ held' = <<>>
                /\ Settle([box EXCEPT ![r] = held], want)

Post(m) == /\ sub # {}
           /\ Settle([r \in Reader |-> IF r \in sub THEN Append(box[r], m) ELSE box[r]], want)
           /\ UNCHANGED <<sub, held>>

Hold(m) == /\ sub = {}
           /\ held' = Append(held, m)
           /\ UNCHANGED <<box, taken, sub, want, reply>>

Ask(r, k) == /\ r \in sub /\ want[r] = 0
             /\ Settle(box, [want EXCEPT ![r] = k])
             /\ UNCHANGED <<sub, held>>

Cancel(r) == want' = [want EXCEPT ![r] = 0] /\ UNCHANGED <<box, taken, sub, reply, held>>

Leave(r) == /\ r \in sub /\ want[r] = 0
            /\ sub' = sub \ {r}
            /\ box' = [box EXCEPT ![r] = <<>>] /\ taken' = [taken EXCEPT ![r] = 0]
            /\ reply' = [reply EXCEPT ![r] = <<>>]
            /\ UNCHANGED <<want, held>>

Next == \/ \E r \in Reader : \/ Subscribe(r) \/ Cancel(r) \/ Leave(r)
                             \/ \E k \in 1 .. Size : Ask(r, k)
        \/ \E m \in Message : Post(m) \/ Hold(m)

Spec == Init /\ [][Next]_vars
=============================================================================

------------------------------ MODULE Rendezvous ------------------------------
(* What a rendezvous promises: the first thread to come with a tag stays, the *)
(* next one with that tag takes it along, and each gets the other's value.    *)
(* The value a thread brings is taken to be the thread itself.                *)
CONSTANTS Thread, Tag, None

VARIABLES parked, \* those that have come first: [t |-> thread, tag |-> tag]
          got     \* what the last rendezvous of a thread has returned to it

vars == <<parked, got>>

Init == parked = {} /\ got = [t \in Thread |-> None]

Come(t, g) ==
    /\ \A w \in parked : w.t # t
    /\ IF \E w \in parked : w.tag = g
         THEN \E w \in parked : /\ w.tag = g
                                /\ parked' = parked \ {w}
                                /\ got' = [got EXCEPT ![t] = w.t, ![w.t] = t]
         ELSE /\ parked' = parked \cup {[t |-> t, tag |-> g]}
              /\ got' = [got EXCEPT ![t] = None]

Next == \E t \in Thread, g \in Tag : Come(t, g)

Spec == Init /\ [][Next]_vars
=============================================================================

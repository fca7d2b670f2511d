------------------------------- MODULE SyncChan -------------------------------
(* What select promises over unbuffered channels: a process that finds others *)
(* offering the other half of one of its communications meets one of them at  *)
(* once, of those that offer the same the one that has waited longest; who    *)
(* finds nobody waits in line. Two processes meet over one channel, the one   *)
(* sending and the other receiving, and the receiver waits for the value.     *)
EXTENDS Integers, Sequences

CONSTANTS Proc, Chan, None

Offer == Chan \X BOOLEAN  \* <<channel, does it send?>>

VARIABLES line,  \* those who wait, in order: [p |-> process, offers |-> its offers]
          owes,  \* of each process: the <<receiver, its offer>> it has to send to, innermost last
          got    \* of each process: the <<sender, offer>> of the value it has in hand

vars == <<line, owes, got>>

Init == line = <<>> /\ owes = [p \in Proc |-> <<>>] /\ got = [p \in Proc |-> None]

Without(s, i) == SubSeq(s, 1, i - 1) \o SubSeq(s, i + 1, Len(s))

(* the line's first that offers the other half of o; 0 if there is none *)
Partner(o) == LET I == {i \in 1 .. Len(line) : <<o[1], ~o[2]>> \in line[i].offers}
              IN IF I = {} THEN 0 ELSE CHOOSE i \in I : \A j \in I : i <= j

Waits(p) == \/ \E i \in 1 .. Len(line) : line[i].p = p
            \/ \E q \in Proc : \E i \in 1 .. Len(owes[q]) : owes[q][i][1] = p

Select(p, S) ==
    /\ ~Waits(p)
    /\ IF \A o \in S : Partner(o) = 0
         THEN line' = Append(line, [p |-> p, offers |-> S]) /\ UNCHANGED owes
         ELSE \E o \in S :
                LET q == line[Partner(o)].p
                    half == <<o[1], FALSE>>
                IN /\ Partner(o) # 0
                   /\ line' = Without(line, Partner(o))
                   /\ owes' = IF o[2] THEN [owes EXCEPT ![p] = Append(@, <<q, half>>)]
                              ELSE [owes EXCEPT ![q] = Append(@, <<p, half>>)]
    /\ got' = [got EXCEPT ![p] = None]

Send(p) ==
    /\ ~Waits(p) /\ owes[p] # <<>>
    /\ LET last == owes[p][Len(owes[p])]
       IN got' = [got EXCEPT ![last[1]] = <<p, last[2]>>]
    /\ owes' = [owes EXCEPT ![p] = SubSeq(@, 1, Len(@) - 1)]
    /\ UNCHANGED line

(* the process has used the value *)
Use(p) == got' = [got EXCEPT ![p] = None] /\ UNCHANGED <<line, owes>>

Next == \E p \in Proc : Send(p) \/ Use(p) \/ \E S \in (SUBSET Offer) \ {{}} : Select(p, S)

Spec == Init /\ [][Next]_vars
=============================================================================

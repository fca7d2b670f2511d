-------------------------------- MODULE Squint --------------------------------
(* The processes of the squint interpreter and their communication over       *)
(* channels: cmd/squint/proc.c, with the run queue of xec.c. One process runs *)
(* at a time, the head of the run queue; it is put off after a random number  *)
(* of instructions, so any instruction is a step. A select offers several     *)
(* communications; a single one (Icommset1) is a select of one.               *)
EXTENDS Integers, FiniteSets, Sequences, SequencesExt

CONSTANTS Proc,         \* the entries of proctab
          Interpreter,  \* the process that executes the statements read
          Chan,
          Lists,        \* what a select may list: sequences of <<channel, Cissnd>>
          Depth,        \* bound: communications within the value of a send
          Crowded,      \* may programs begin more processes than proctab has entries?
          Interactive,  \* statements are executed also after an error
          None

ASSUME SquintAssumption == /\ Interpreter \in Proc /\ None \notin Proc
                           /\ Lists \subseteq Seq(Chan \X BOOLEAN) /\ <<>> \notin Lists
                           /\ Depth \in Nat /\ {Crowded, Interactive} \subseteq BOOLEAN

VARIABLES sndq, rcvq, \* of each channel: the processes that offer to send, to receive
          runq,    \* from phead to ptail
          alive,   \* which entries of proctab are taken
          offers,  \* of each process: the list on its stack from commset to commcln
          hit,     \* of each receiver that waits for its value: the case taken, or None
          owes,    \* of each process: on its stack the targets it has to send to
          got,     \* of each process: the value in hand: from whom, in which case
          line     \* history: the processes in the order they have been queued

queues == <<sndq, rcvq>>
vars == <<queues, runq, alive, offers, hit, owes, got, line>>

Init == /\ sndq = [c \in Chan |-> <<>>] /\ rcvq = [c \in Chan |-> <<>>]
        /\ runq = <<Interpreter>> /\ alive = {Interpreter}
        /\ offers = [p \in Proc |-> <<>>] /\ hit = [p \in Proc |-> None]
        /\ owes = [p \in Proc |-> <<>>] /\ got = [p \in Proc |-> None]
        /\ line = <<>>

Running(p) == runq # <<>> /\ p = Head(runq)

-----------------------------------------------------------------------------
(* the queue in which the other half of an offer waits *)
Other(o) == IF o[2] THEN rcvq[o[1]] ELSE sndq[o[1]]

(* the places of an element in a list, and what is left of it without them *)
PlacesOf(x, s) == {i \in 1 .. Len(s) : s[i] = x}
Nth(K, n) == CHOOSE i \in K : Cardinality({j \in K : j <= i}) = n
Without(s, x) == LET K == (1 .. Len(s)) \ PlacesOf(x, s)
                 IN  [n \in 1 .. Cardinality(K) |-> s[Nth(K, n)]]

(* pqins for each offer of the list, in its order *)
Inserted(Q, snd, p, l) ==
    [c \in Chan |-> Q[c] \o [i \in 1 .. Cardinality(PlacesOf(<<c, snd>>, l)) |-> p]]

(* pqclean of the queues of the list of q; broken: only of the channel that   *)
(* is taken                                                                   *)
CleanedOf(Q, snd, q, c) == [Q EXCEPT ![c] = Without(@, q)]
Cleaned(Q, snd, q, taken) ==
    [c \in Chan |-> IF PlacesOf(<<c, snd>>, offers[q]) # {} THEN Without(Q[c], q) ELSE Q[c]]

(* the cases of a list in which o is communicated; broken: any way round      *)
CasesOf(l, o) == {i \in 1 .. Len(l) : l[i][1] = o[1]}
Cases(l, o) == PlacesOf(o, l)

(* the process queued first; broken: the one queued last                      *)
LastOf(q) == q[Len(q)]
First(q) == Head(q)

(* a sender that has been found runs again; broken: it does not               *)
ResumesNone(rest, q) == rest
Resumes(rest, q) == Append(rest, q)

-----------------------------------------------------------------------------
(* icommset, nobody waits in any of the queues: offer them all and suspend    *)
Post(p, l) ==
    /\ Running(p) /\ Len(owes[p]) <= Depth
    /\ \A i \in 1 .. Len(l) : Other(l[i]) = <<>>
    /\ sndq' = Inserted(sndq, TRUE, p, l) /\ rcvq' = Inserted(rcvq, FALSE, p, l)
    /\ offers' = [offers EXCEPT ![p] = l]
    /\ runq' = Tail(runq)
    /\ line' = Append(line, p)
    /\ got' = [got EXCEPT ![p] = None]
    /\ UNCHANGED <<alive, hit, owes>>

(* icommset, and the commcln of the target q: case i of p meets case j of q.  *)
(* A sender goes on to evaluate the value, a receiver suspends meanwhile.     *)
Communicate(p, l, i) ==
    LET o == l[i]
        q == First(Other(o))
    IN /\ Running(p) /\ Len(owes[p]) <= Depth
       /\ Other(o) # <<>>
       /\ sndq' = Cleaned(sndq, TRUE, q, o[1]) /\ rcvq' = Cleaned(rcvq, FALSE, q, o[1])
       /\ \E j \in Cases(offers[q], <<o[1], ~o[2]>>) :
             hit' = [hit EXCEPT ![p] = IF o[2] THEN None ELSE o,
                                ![q] = IF o[2] THEN offers[q][j] ELSE None]
       /\ offers' = [offers EXCEPT ![q] = <<>>]
       /\ IF o[2] THEN /\ owes' = [owes EXCEPT ![p] = Append(@, q)]
                       /\ UNCHANGED runq
          ELSE /\ owes' = [owes EXCEPT ![q] = Append(@, p)]
               /\ runq' = Resumes(Tail(runq), q)
       /\ line' = Without(line, q)
       /\ got' = [got EXCEPT ![p] = None]
       /\ UNCHANGED alive

(* isnd: the value goes on the stack of the target, which runs again *)
Snd(p) ==
    /\ Running(p) /\ owes[p] # <<>>
    /\ LET t == Last(owes[p])
       IN /\ got' = [got EXCEPT ![t] = <<p, hit[t]>>]
          /\ hit' = [hit EXCEPT ![t] = None]
          /\ runq' = Append(runq, t)
    /\ owes' = [owes EXCEPT ![p] = Front(@)]
    /\ UNCHANGED <<queues, alive, offers, line>>

(* ibegin: a new process; with the table full the beginner is dropped instead *)
Begin(p) ==
    /\ Running(p)
    /\ alive = Proc => Crowded
    /\ IF alive = Proc THEN runq' = Tail(runq) /\ UNCHANGED alive
       ELSE \E q \in Proc \ alive : alive' = alive \cup {q} /\ runq' = Append(runq, q)
    /\ UNCHANGED <<queues, offers, hit, owes, got, line>>

(* iret of a process: it has ended *)
Halt(p) ==
    /\ Running(p) /\ p # Interpreter /\ owes[p] = <<>>
    /\ alive' = alive \ {p} /\ runq' = Tail(runq)
    /\ got' = [got EXCEPT ![p] = None]
    /\ UNCHANGED <<queues, offers, hit, owes, line>>

(* xec: after some instructions it is the next one's turn *)
PutOff == /\ Len(runq) > 1
          /\ runq' = Append(Tail(runq), Head(runq))
          /\ UNCHANGED <<queues, alive, offers, hit, owes, got, line>>

(* idone: the statement is executed, and all others run on *)
Done == /\ Running(Interpreter) /\ owes[Interpreter] = <<>>
        /\ runq' = Tail(runq)
        /\ UNCHANGED <<queues, alive, offers, hit, owes, got, line>>

(* execute: with nobody left to run the interpreter reads the next statement, *)
(* with a stack that is empty; after "interpreter process blocked" only when  *)
(* the session is interactive                                                 *)
Blocked == \/ PlacesOf(Interpreter, line) # {}
           \/ \E p \in Proc : Contains(owes[p], Interpreter)
Statement == /\ runq = <<>>
             /\ Blocked => Interactive
             /\ runq' = <<Interpreter>>
             /\ owes' = [owes EXCEPT ![Interpreter] = <<>>]
             /\ offers' = [offers EXCEPT ![Interpreter] = <<>>]
             /\ UNCHANGED <<queues, alive, hit, got, line>>

Next == \/ \E p \in Proc : \/ \E l \in Lists : Post(p, l) \/ \E i \in 1 .. Len(l) : Communicate(p, l, i)
                           \/ Snd(p) \/ Begin(p) \/ Halt(p)
        \/ PutOff \/ Done \/ Statement

Spec == Init /\ [][Next]_vars

-----------------------------------------------------------------------------
(* PROPERTIES *)

Offers(p) == {offers[p][i] : i \in 1 .. Len(offers[p])}

TypeOK == /\ sndq \in [Chan -> Seq(Proc)] /\ rcvq \in [Chan -> Seq(Proc)]
          /\ runq \in Seq(Proc) /\ alive \subseteq Proc
          /\ offers \in [Proc -> Lists \cup {<<>>}]
          /\ hit \in [Proc -> (Chan \X {FALSE}) \cup {None}]
          /\ owes \in [Proc -> Seq(Proc)]
          /\ got \in [Proc -> (Proc \X (Chan \X {FALSE})) \cup {None}]
          /\ line \in Seq(Proc)

(* A process that has begun and not halted is either to be run, or offers to  *)
(* communicate, or one sender has a value for it: exactly once, so nobody is  *)
(* run while it waits and nobody is forgotten (the interpreter is absent once *)
(* its statement is done).                                                    *)
OnePlace ==
    \A p \in Proc :
      LET places == Cardinality(PlacesOf(p, runq)) + Cardinality(PlacesOf(p, line))
                    + Cardinality({w \in Proc \X (1 .. Cardinality(Proc)) :
                                      w[2] \in PlacesOf(p, owes[w[1]])})
      IN IF p \notin alive THEN places = 0
         ELSE places = 1 \/ (p = Interpreter /\ places = 0)

(* A channel's queues hold, in their order, just the processes whose list     *)
(* names it, and those are suspended at their commcln (proc.c:104-105: the    *)
(* commcln takes all of the list off the queues); and nobody waits to send on *)
(* a channel while another waits to receive from it.                          *)
QueuesTell ==
    /\ \A c \in Chan : \A snd \in BOOLEAN :
         LET Q == IF snd THEN sndq[c] ELSE rcvq[c]
         IN /\ \A p \in Proc : Cardinality(PlacesOf(p, Q))
                               = Cardinality(PlacesOf(<<c, snd>>, offers[p]))
            /\ \A i, j \in 1 .. Len(Q) : i < j => \E a, b \in 1 .. Len(line) :
                   a <= b /\ line[a] = Q[i] /\ line[b] = Q[j]
    /\ \A c \in Chan : \A p \in ToSet(sndq[c]), q \in ToSet(rcvq[c]) : p = q

(* proc.c and xec.c implement communication in pairs: one queue per channel   *)
(* and direction, a target's commcln run by its partner, and a run queue.     *)
waiters == [i \in 1 .. Len(line) |-> [p |-> line[i], offers |-> Offers(line[i])]]
debts == [p \in Proc |-> [i \in 1 .. Len(owes[p]) |-> <<owes[p][i], hit[owes[p][i]]>>]]
Sync == INSTANCE SyncChan WITH line <- waiters, owes <- debts
ImplementsSync == Sync!Spec
=============================================================================

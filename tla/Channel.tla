------------------------------- MODULE Channel -------------------------------
(* The channels of libthread/channel.c: send, recv, nbsend, nbrecv and alt.   *)
(* The central chanlock makes every section up to an unlock one step.         *)
(* _threadrendezvous(t, tag, ...) is one step of the two threads that meet on *)
(* the tag: whoever comes first waits for the other (module Sched has the two *)
(* halves). A waiter's tag is the address of a variable on its own stack, so  *)
(* the thread names the tag; the variable's value says by which channel it    *)
(* has been claimed.                                                          *)
EXTENDS Naturals, FiniteSets, Sequences, SequencesExt

CONSTANTS Thread, Chan,
          Sends, Recvs, \* which thread sends (receives) on which channel
          Alts,     \* which thread calls alt with which list of [op |-> , c |-> ]
          Size,     \* c->s of each channel; 0: unbuffered
          NSlot,    \* entries of qentry (32 in the code)
          UMod,     \* where the uints f and n wrap around (2^32 in the code)
          MaxSend,  \* bound: how many values each thread may make
          None      \* nil

Slot == 0 .. NSlot - 1
Item(op) == [op : op, c : Chan]
Value == UNION {{t} \X (1 .. MaxSend[t]) : t \in Thread}

ASSUME ChannelAssumption ==
    /\ Sends \subseteq Thread \X Chan /\ Recvs \subseteq Thread \X Chan
    /\ Alts \subseteq Thread \X Seq(Item({"SND", "RCV", "NOP", "NOBLK"}))
    /\ Size \in [Chan -> Nat]
    /\ NSlot \in Nat \ {0} /\ UMod \in Nat \ {0}
    /\ MaxSend \in [Thread -> Nat] /\ None \notin Chan \cup Value
    /\ \A c \in Chan : Size[c] < UMod

VARIABLES f, n, v,  \* of each channel: extraction point, number of values, buffer
          qentry,   \* of each channel: in each slot an Alt, [t |-> , i |-> ], or None
          tag,      \* of each waiter: the channel that claimed it, or None
          req,      \* of each waiter: its call, its Alts and the value it sends
          in,       \* of each waiter: what a peer wrote through its v
          pc, peer, \* where each thread stands, and whom it is waking
          hit,      \* history: by which of its Alts a waiter was claimed
          made,     \* history: how many values a thread has made
          sent,     \* history: the values whose send has succeeded
          log       \* history: what each thread received, <<value, channel>>

buffer == <<f, n, v>>
vars == <<buffer, qentry, tag, req, in, pc, peer, hit, made, sent, log>>

NoReq == [call |-> "Callnil", alts |-> <<>>, out |-> None]
Location == {"idle", "waiting", "waking", "woken", "fatal"}

Init == /\ f = [c \in Chan |-> 0] /\ n = [c \in Chan |-> 0]
        /\ v = [c \in Chan |-> [k \in 0 .. Size[c] - 1 |-> None]]
        /\ qentry = [c \in Chan |-> [k \in Slot |-> None]]
        /\ tag = [t \in Thread |-> None]
        /\ req = [t \in Thread |-> NoReq]
        /\ in = [t \in Thread |-> None]
        /\ pc = [t \in Thread |-> "idle"]
        /\ peer = [t \in Thread |-> None]
        /\ hit = [t \in Thread |-> 0]
        /\ made = [t \in Thread |-> 0]
        /\ sent = {}
        /\ log = [t \in Thread |-> <<>>]

-----------------------------------------------------------------------------
(* The buffer.  f and n are uints, and indices are reduced modulo c->s.       *)
(* Broken variants: take the newest value; put the value over the oldest.     *)
Newest(c) == v[c][(f[c] + n[c] - 1) % Size[c]]
PutOver(c, m) == /\ v' = [v EXCEPT ![c][f[c] % Size[c]] = m]
                 /\ n' = [n EXCEPT ![c] = (@ + 1) % UMod]
                 /\ UNCHANGED f

HasRoom(c) == n[c] < Size[c]
Oldest(c) == v[c][f[c] % Size[c]]

Put(c, m) == /\ v' = [v EXCEPT ![c][((f[c] + n[c]) % UMod) % Size[c]] = m]
             /\ n' = [n EXCEPT ![c] = (@ + 1) % UMod]
             /\ UNCHANGED f

Take(c) == /\ n' = [n EXCEPT ![c] = (@ + UMod - 1) % UMod]
           /\ f' = [f EXCEPT ![c] = (@ + 1) % UMod]
           /\ UNCHANGED v

(* The queue.  q is qentry as the caller leaves it.                           *)
ItemOf(w) == req[w.t].alts[w.i]
Co(op) == IF op = "SND" THEN "RCV" ELSE "SND"
Lowest(S) == CHOOSE k \in S : \A j \in S : k <= j

Used(q, c) == {k \in Slot : q[c][k] # None}

(* a broken variant: claim waiters that others have claimed *)
PeersAll(q, c, op) == {k \in Used(q, c) : ItemOf(q[c][k]).op = Co(op)}

(* the slots of the waiters that op could serve, and that nobody has claimed *)
Peers(q, c, op) == {k \in Used(q, c) : /\ ItemOf(q[c][k]).op = Co(op)
                                       /\ tag[q[c][k].t] = None}
FirstPeer(q, c, op) == q[c][Lowest(Peers(q, c, op))]

(* an Alt takes the lowest unused slot; with none left it is not queued *)
Enter(q, c, w) == IF Used(q, c) = Slot THEN q
                  ELSE [q EXCEPT ![c][Lowest(Slot \ Used(q, c))] = w]

EnterItem(q, t, A, i) == IF A[i].op = "NOP" THEN q ELSE Enter(q, A[i].c, [t |-> t, i |-> i])
EnterAll(q, t, A) == FoldLeftDomain(LAMBDA r, i : EnterItem(r, t, A, i), q, A)

(* a broken variant: stay queued *)
LeaveNot(t) == qentry

Leave(t) == [c \in Chan |-> [k \in Slot |->
               IF k \in Used(qentry, c) /\ qentry[c][k].t = t THEN None ELSE qentry[c][k]]]

(* *xa->tag = c, and on to the rendezvous with the waiter *)
Claim(t, w, c) == /\ tag' = [tag EXCEPT ![t] = None, ![w.t] = c]
                  /\ hit' = [hit EXCEPT ![t] = 0, ![w.t] = w.i]
                  /\ pc' = [pc EXCEPT ![t] = "waking"]
                  /\ peer' = [peer EXCEPT ![t] = w.t]
                  /\ req' = [req EXCEPT ![t] = NoReq]

Finish(t) == /\ tag' = [tag EXCEPT ![t] = None]
             /\ hit' = [hit EXCEPT ![t] = 0]
             /\ pc' = [pc EXCEPT ![t] = "idle"]
             /\ req' = [req EXCEPT ![t] = NoReq]
             /\ UNCHANGED peer

(* queue up with request r, and on to the rendezvous on one's own tag *)
Wait(t, r, q) == /\ qentry' = EnterAll(q, t, r.alts)
                 /\ tag' = [tag EXCEPT ![t] = None]
                 /\ hit' = [hit EXCEPT ![t] = 0]
                 /\ req' = [req EXCEPT ![t] = r]
                 /\ in' = [in EXCEPT ![t] = None]
                 /\ pc' = [pc EXCEPT ![t] = "waiting"]
                 /\ UNCHANGED <<buffer, peer, sent, log>>

(* What the history remembers: a send of m that succeeds, a receive of m *)
DidSend(m) == sent' = sent \cup {m} /\ UNCHANGED log
DidRecv(t, c, m) == log' = [log EXCEPT ![t] = Append(@, <<m, c>>)] /\ UNCHANGED sent

-----------------------------------------------------------------------------
(* send and nbsend, from the label retry on: claim a waiting receiver, giving *)
(* it the value by way of the buffer if that has room; or put the value in    *)
(* the buffer; or (send only) queue up                                        *)
SendToWaiter(t, r, c, q) ==
    /\ Peers(q, c, "SND") # {}
    /\ LET w == FirstPeer(q, c, "SND")
       IN  /\ Claim(t, w, c)
           /\ IF HasRoom(c)
                THEN Put(c, r.out) /\ in' = [in EXCEPT ![t] = None]
                ELSE in' = [in EXCEPT ![t] = None, ![w.t] = r.out] /\ UNCHANGED buffer
    /\ DidSend(r.out)
    /\ qentry' = q

SendToBuffer(t, r, c, q) ==
    /\ Peers(q, c, "SND") = {} /\ HasRoom(c)
    /\ Put(c, r.out)
    /\ Finish(t)
    /\ DidSend(r.out)
    /\ qentry' = q /\ in' = [in EXCEPT ![t] = None]

SendBlocks(t, r, c, q) ==
    /\ r.call = "Callsnd"
    /\ Peers(q, c, "SND") = {} /\ ~HasRoom(c)
    /\ Wait(t, r, q)

SendBody(t, r, q) == LET c == r.alts[1].c
                     IN  SendToWaiter(t, r, c, q) \/ SendToBuffer(t, r, c, q)
                            \/ SendBlocks(t, r, c, q)

(* recv and nbrecv, likewise *)
RecvFromWaiter(t, c, q) ==
    /\ Peers(q, c, "RCV") # {}
    /\ LET w == FirstPeer(q, c, "RCV")
       IN  /\ Claim(t, w, c)
           /\ IF n[c] # 0 THEN Take(c) /\ DidRecv(t, c, Oldest(c))
                          ELSE DidRecv(t, c, req[w.t].out) /\ UNCHANGED buffer
    /\ qentry' = q /\ in' = [in EXCEPT ![t] = None]

(* a broken variant: take from the buffer without a look at who waits to send *)
RecvPastWaiter(t, c, q) ==
    /\ n[c] # 0
    /\ Take(c)
    /\ Finish(t)
    /\ DidRecv(t, c, Oldest(c))
    /\ qentry' = q /\ in' = [in EXCEPT ![t] = None]

RecvFromBuffer(t, c, q) ==
    /\ Peers(q, c, "RCV") = {} /\ n[c] # 0
    /\ Take(c)
    /\ Finish(t)
    /\ DidRecv(t, c, Oldest(c))
    /\ qentry' = q /\ in' = [in EXCEPT ![t] = None]

RecvBlocks(t, r, c, q) ==
    /\ r.call = "Callrcv"
    /\ Peers(q, c, "RCV") = {} /\ n[c] = 0
    /\ Wait(t, r, q)

RecvBody(t, r, q) == LET c == r.alts[1].c
                     IN  RecvFromWaiter(t, c, q) \/ RecvFromBuffer(t, c, q)
                            \/ RecvBlocks(t, r, c, q)

-----------------------------------------------------------------------------
(* alt, from the label repeat on *)
ByBuffer(a) == (a.op = "SND" /\ HasRoom(a.c)) \/ (a.op = "RCV" /\ n[a.c] # 0)

CanGo(q, a) == ByBuffer(a) \/ (a.op \in {"SND", "RCV"} /\ Peers(q, a.c, a.op) # {})

(* nrand picks any of those that can go; CHANNOBLK gives up only if none has  *)
(* been found before it, and nobody queues beyond it                          *)
Ready(q, A) == {i \in 1 .. Len(A) : CanGo(q, A[i])}
NoBlk(A) == {i \in 1 .. Len(A) : A[i].op = "NOBLK"}
GivesUp(q, A) == \E k \in NoBlk(A) : \A i \in 1 .. k : ~CanGo(q, A[i])

(* through the buffer of a buffered channel, room or not *)
AltBuffer(t, r, a) ==
    IF Size[a.c] = 0 THEN UNCHANGED buffer
    ELSE IF a.op = "SND" THEN Put(a.c, r.out) ELSE Take(a.c)

(* found in the buffer: if a waiter can now go on, it is claimed and woken *)
AltByBuffer(t, r, a, q) ==
    /\ ByBuffer(a)
    /\ AltBuffer(t, r, a)
    /\ IF a.op = "SND" THEN DidSend(r.out) ELSE DidRecv(t, a.c, Oldest(a.c))
    /\ IF Peers(q, a.c, a.op) = {} THEN Finish(t) ELSE Claim(t, FirstPeer(q, a.c, a.op), a.c)
    /\ in' = [in EXCEPT ![t] = None]

(* found a waiter: the value is copied from Alt to Alt *)
AltByWaiter(t, r, a, q) ==
    /\ ~ByBuffer(a)
    /\ AltBuffer(t, r, a)
    /\ LET w == FirstPeer(q, a.c, a.op)
       IN  /\ Claim(t, w, a.c)
           /\ IF a.op = "SND"
                THEN DidSend(r.out) /\ in' = [in EXCEPT ![t] = None, ![w.t] = r.out]
                ELSE DidRecv(t, a.c, req[w.t].out) /\ in' = [in EXCEPT ![t] = None]

AltGoes(t, r, q) ==
    /\ ~GivesUp(q, r.alts)
    /\ \E i \in Ready(q, r.alts) :
          AltByBuffer(t, r, r.alts[i], q) \/ AltByWaiter(t, r, r.alts[i], q)
    /\ qentry' = q

(* nothing can proceed: queue on all channels, for which there must be slots *)
AltBlocks(t, r, q) ==
    /\ Ready(q, r.alts) = {} /\ NoBlk(r.alts) = {}
    /\ IF \A i \in 1 .. Len(r.alts) : r.alts[i].op = "NOP" \/ Used(q, r.alts[i].c) # Slot
         THEN Wait(t, r, q)
         ELSE /\ pc' = [pc EXCEPT ![t] = "fatal"]
              /\ UNCHANGED <<buffer, qentry, tag, req, in, peer, hit, sent, log>>

AltBody(t, r, q) == AltGoes(t, r, q) \/ AltBlocks(t, r, q)

Body(t, r, q) == \/ r.call \in {"Callsnd", "nbsend"} /\ SendBody(t, r, q)
                 \/ r.call \in {"Callrcv", "nbrecv"} /\ RecvBody(t, r, q)
                 \/ r.call = "Callalt" /\ AltBody(t, r, q)

-----------------------------------------------------------------------------
(* lock(&chanlock) returns, unless an assertion has failed inside it *)
Unlocked == \A u \in Thread : pc[u] # "fatal"
Idle(t) == pc[t] = "idle" /\ Unlocked

Fresh(t) == <<t, made[t] + 1>>
Make(t) == made[t] < MaxSend[t] /\ made' = [made EXCEPT ![t] = @ + 1]

SendOn(t, c) == \E k \in {"Callsnd", "nbsend"} :
    Body(t, [call |-> k, alts |-> <<[op |-> "SND", c |-> c]>>, out |-> Fresh(t)], qentry)

RecvOn(t, c) == \E k \in {"Callrcv", "nbrecv"} :
    Body(t, [call |-> k, alts |-> <<[op |-> "RCV", c |-> c]>>, out |-> None], qentry)

Send(t) == Idle(t) /\ Make(t) /\ \E c \in Chan : <<t, c>> \in Sends /\ SendOn(t, c)

Recv(t) == Idle(t) /\ UNCHANGED made /\ \E c \in Chan : <<t, c>> \in Recvs /\ RecvOn(t, c)

(* all the sends of one alt offer the same value *)
Alt(t) == /\ Idle(t)
          /\ \E A \in {a[2] : a \in {b \in Alts : b[1] = t}} :
               LET offers == \E i \in 1 .. Len(A) : A[i].op = "SND"
               IN  /\ IF offers THEN Make(t) ELSE UNCHANGED made
                   /\ Body(t, [call |-> "Callalt", alts |-> A,
                               out |-> IF offers THEN Fresh(t) ELSE None], qentry)

(* the rendezvous on u's tag *)
Meet(t, u) == /\ pc[t] = "waking" /\ peer[t] = u /\ pc[u] = "waiting"
              /\ pc' = [pc EXCEPT ![t] = "idle", ![u] = "woken"]
              /\ peer' = [peer EXCEPT ![t] = None]
              /\ UNCHANGED <<buffer, qentry, tag, req, in, hit, made, sent, log>>

(* a broken variant: it finds the first entry, in use or not *)
ReportedAny(t) == CHOOSE i \in DOMAIN req[t].alts : /\ req[t].alts[i].c = tag[t]
                     /\ \A j \in DOMAIN req[t].alts : req[t].alts[j].c = tag[t] => i <= j

(* alt knows the channel that claimed it, not the entry: it looks for the     *)
(* last of its entries with that channel                                      *)
Named(t) == {i \in DOMAIN req[t].alts : /\ req[t].alts[i].c = tag[t]
                                        /\ req[t].alts[i].op \in {"SND", "RCV"}}
Reported(t) == CHOOSE i \in Named(t) : \A j \in Named(t) : j <= i

(* back from the rendezvous: dequeue; an unbuffered channel has moved the     *)
(* value, on a buffered one the call starts over                              *)
Return(t) == /\ pc[t] = "woken" /\ Unlocked /\ Size[tag[t]] = 0
             /\ qentry' = Leave(t)
             /\ IF req[t].alts[Reported(t)].op = "SND" THEN DidSend(req[t].out)
                                                       ELSE DidRecv(t, tag[t], in[t])
             /\ Finish(t)
             /\ in' = [in EXCEPT ![t] = None]
             /\ UNCHANGED <<buffer, made>>

Retry(t) == /\ pc[t] = "woken" /\ Unlocked /\ Size[tag[t]] > 0
            /\ Body(t, req[t], Leave(t))
            /\ UNCHANGED made

Step(t) == Send(t) \/ Recv(t) \/ Alt(t) \/ Return(t) \/ Retry(t) \/ \E u \in Thread : Meet(t, u)

Next == \E t \in Thread : Step(t)

Spec == Init /\ [][Next]_vars

-----------------------------------------------------------------------------
TypeOK == /\ f \in [Chan -> 0 .. UMod - 1] /\ n \in [Chan -> 0 .. UMod - 1]
          /\ \A c \in Chan : /\ DOMAIN v[c] = 0 .. Size[c] - 1
                             /\ \A k \in DOMAIN v[c] : v[c][k] \in Value \cup {None}
                             /\ \A k \in Used(qentry, c) :
                                   /\ qentry[c][k].t \in Thread
                                   /\ qentry[c][k].i \in DOMAIN req[qentry[c][k].t].alts
                                   /\ ItemOf(qentry[c][k]).c = c
          /\ tag \in [Thread -> Chan \cup {None}]
          /\ in \in [Thread -> Value \cup {None}]
          /\ pc \in [Thread -> Location]
          /\ peer \in [Thread -> Thread \cup {None}]
          /\ \A t \in Thread : made[t] \in 0 .. MaxSend[t]
          /\ sent \subseteq Value

Claimed(t) == pc[t] \in {"waiting", "woken"} /\ tag[t] # None

(* Every place where value m is: received, in a buffer, or in the hands of a  *)
(* waiter that has been claimed and has not returned yet.                     *)
Received(m) == UNION {{<<t, i>> : i \in {i \in DOMAIN log[t] : log[t][i][1] = m}} : t \in Thread}
Buffered(m) == UNION {{<<c, k>> : k \in {k \in 0 .. n[c] - 1 :
                         Size[c] > 0 /\ v[c][((f[c] + k) % UMod) % Size[c]] = m}} : c \in Chan}
Handed(m) == {t \in Thread : Claimed(t) /\ in[t] = m}

Copies(m) == Received(m) \cup Buffered(m) \cup Handed(m)

(* A value is received at most once: a sender never hands out its value a     *)
(* second time, whoever claims it and however often it has to start over.     *)
NoDuplicate == \A m \in Value : Cardinality(Copies(m)) <= 1

(* A value whose send has succeeded is in the channel or has been received:   *)
(* it is never overwritten in the buffer or in the variable of a receiver.    *)
NoLoss == \A m \in sent : Copies(m) # {}

(* A receiver sees the values of one sender on one channel in their order.    *)
SenderOrder == \A t \in Thread : \A i, j \in DOMAIN log[t] :
    ( /\ i < j
      /\ log[t][i][2] = log[t][j][2]
      /\ log[t][i][1][1] = log[t][j][1][1] ) => log[t][i][1][2] < log[t][j][1][2]

(* No wake-up is forgotten: a sender and a receiver never both sleep on one   *)
(* channel with nobody on the way to either of them, and nobody sleeps on a   *)
(* channel whose buffer would let it go on, unless as many others have been   *)
(* woken for it as the buffer has values (room). (An alt that shares its end  *)
(* of a buffered channel with others may be woken, start over by a different  *)
(* channel (goto repeat, channel.c:179) and leave behind what it was woken    *)
(* for; then it does not hold.)                                               *)
Asleep(c, op) == {qentry[c][k] : k \in Peers(qentry, c, Co(op))}
Bound(c, op) == {t \in Thread : Claimed(t) /\ tag[t] = c /\ req[t].alts[hit[t]].op = op}
NoForgottenWaiter ==
    \A c \in Chan :
       /\ \A w \in Asleep(c, "SND"), x \in Asleep(c, "RCV") : w.t = x.t
       /\ Asleep(c, "RCV") # {} => n[c] <= Cardinality(Bound(c, "RCV"))
       /\ Asleep(c, "SND") # {} => Size[c] - n[c] <= Cardinality(Bound(c, "SND"))

(* Each waiter is claimed by at most one thread, and the claim is good: the   *)
(* claimer is on its way to the rendezvous with it until the waiter is woken. *)
OneClaimer == \A u \in Thread :
                 (pc[u] = "waiting" /\ tag[u] # None)
                    <=> Cardinality({t \in Thread : pc[t] = "waking" /\ peer[t] = u}) = 1

(* alt reports the entry that has happened.                                   *)
AltTellsTruth == \A t \in Thread :
                    Claimed(t) /\ Size[tag[t]] = 0 => Reported(t) = hit[t]

(* "Number of values in the channel", of an array of s values: the buffer     *)
(* never holds more than it has room for.                                     *)
WithinBuffer == \A c \in Chan : n[c] <= Size[c]
=============================================================================

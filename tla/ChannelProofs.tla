---------------------------- MODULE ChannelProofs ----------------------------
(* Proofs about the channels of libthread: each waiter is claimed by one      *)
(* thread at most, which meets it, whatever send, recv and alt do elsewhere;  *)
(* alt reports the entry that has happened; and no wake-up is forgotten as    *)
(* long as no thread that waits on a buffered channel by alt shares that end  *)
(* of the channel with others.                                                *)
EXTENDS Channel, ListFacts

-----------------------------------------------------------------------------
(* THE INDUCTIVE INVARIANT *)

Ops == {"SND", "RCV", "NOP", "NOBLK"}
Calls == {"Callsnd", "nbsend", "Callrcv", "nbrecv", "Callalt"}
Entry == [t : Thread, i : Nat]
Queues == [Chan -> [Slot -> Entry \cup {None}]]

Buffers == /\ f \in [Chan -> 0 .. UMod - 1] /\ n \in [Chan -> 0 .. UMod - 1]
           /\ DOMAIN v = Chan
           /\ \A c \in Chan : v[c] \in [0 .. Size[c] - 1 -> Value \cup {None}]

(* an Alt that may wait: it is for a channel, one way or the other *)
Waits(a, c) == a.c = c /\ a.op \in {"SND", "RCV"}

(* a call that is being made: one that sends has a value for it *)
ReqOK(r) == /\ r.alts \in Seq(Item(Ops))
            /\ r.call \in Calls
            /\ r.call \in {"Callsnd", "nbsend"} => Len(r.alts) = 1 /\ r.alts[1].op = "SND"
            /\ r.call \in {"Callrcv", "nbrecv"} => Len(r.alts) = 1 /\ r.alts[1].op = "RCV"
            /\ \A i \in 1 .. Len(r.alts) : r.alts[i].op = "SND" => r.out \in Value

(* The entries of queue q are of threads that wait, or that have been claimed *)
(* and have not been back to dequeue; each is one of the Alts of its thread.  *)
Member(w, c) == /\ w \in Entry
                /\ pc[w.t] = "waiting" \/ tag[w.t] # None
                /\ w.i \in 1 .. Len(req[w.t].alts)
                /\ Waits(req[w.t].alts[w.i], c)
Queued(q) == /\ q \in Queues
             /\ \A c \in Chan : \A k \in Slot : q[c][k] # None => Member(q[c][k], c)

Typed == /\ Buffers
         /\ tag \in [Thread -> Chan \cup {None}]
         /\ in \in [Thread -> Value \cup {None}]
         /\ pc \in [Thread -> Location]
         /\ peer \in [Thread -> Thread \cup {None}]
         /\ DOMAIN req = Thread /\ DOMAIN hit = Thread
         /\ DOMAIN made = Thread /\ \A t \in Thread : made[t] \in 0 .. MaxSend[t]
         /\ sent \subseteq Value

(* A claim names the channel of the Alt by which the waiter was claimed.      *)
ClaimOf(t) == /\ hit[t] \in 1 .. Len(req[t].alts)
              /\ Waits(req[t].alts[hit[t]], tag[t])
Places == \A t \in Thread :
             /\ pc[t] \in {"idle", "waking"} => tag[t] = None
             /\ pc[t] = "woken" => tag[t] # None
             /\ pc[t] \in {"waiting", "woken"} => ReqOK(req[t])
             /\ pc[t] \in {"waiting", "woken"} /\ tag[t] # None => ClaimOf(t)

(* Who is on the way to a waiter has claimed it, alone, and no claim is       *)
(* without its claimer.                                                       *)
Wakes(t, u) == pc[t] = "waking" /\ peer[t] = u
Claims ==
    /\ \A t \in Thread : pc[t] = "waking" => /\ peer[t] \in Thread
                                             /\ pc[peer[t]] = "waiting" /\ tag[peer[t]] # None
    /\ \A t, x \in Thread : \A u \in Thread : Wakes(t, u) /\ Wakes(x, u) => t = x
    /\ \A u \in Thread : pc[u] = "waiting" /\ tag[u] # None => \E t \in Thread : Wakes(t, u)

IInv == Typed /\ Queued(qentry) /\ Places /\ Claims

-----------------------------------------------------------------------------
(* BUFFERS AND QUEUES *)

(* A value put into a buffer, and one taken out of it.                        *)
LEMMA PutKeeps ==
  ASSUME Buffers, NEW c \in Chan, NEW m \in Value, Put(c, m) PROVE Buffers'
<1>1. UMod \in Nat \ {0}
  BY ChannelAssumption
<1>2. (n[c] + 1) % UMod \in 0 .. UMod - 1
  BY <1>1 DEF Buffers
<1>3. n' \in [Chan -> 0 .. UMod - 1] /\ f' = f
  BY <1>2 DEF Put, Buffers
<1>4. PICK k : v' = [v EXCEPT ![c][k] = m]
  BY DEF Put
<1>5. v' = [v EXCEPT ![c] = [v[c] EXCEPT ![k] = m]]
  BY <1>4
<1>6. [v[c] EXCEPT ![k] = m] \in [0 .. Size[c] - 1 -> Value \cup {None}]
  BY DEF Buffers
<1>. QED  BY <1>3, <1>5, <1>6 DEF Buffers

(* A value taken out leaves the buffers well formed.                          *)
LEMMA TakeKeeps ==
  ASSUME Buffers, NEW c \in Chan, Take(c) PROVE Buffers'
<1>1. UMod \in Nat \ {0}
  BY ChannelAssumption
<1>2. (n[c] + UMod - 1) % UMod \in 0 .. UMod - 1 /\ (f[c] + 1) % UMod \in 0 .. UMod - 1
  BY <1>1 DEF Buffers
<1>. QED  BY <1>2 DEF Take, Buffers

(* A waiter that has been found is in the queue, unclaimed.                   *)
Found(q, c, w) == \E k \in Slot : w = q[c][k] /\ w # None /\ tag[w.t] = None

(* The waiter that is found is queued, for the other operation.               *)
LEMMA PeerFound ==
  ASSUME Queued(qentry), NEW q, NEW c, NEW op, Peers(q, c, op) # {}
  PROVE  /\ Found(q, c, FirstPeer(q, c, op))
         /\ ItemOf(FirstPeer(q, c, op)).op = Co(op)
<1>. DEFINE S == Peers(q, c, op)
            k == Lowest(S)
<1>1. S \subseteq 0 .. NSlot - 1 /\ NSlot \in Nat /\ S # {}
  BY ChannelAssumption DEF Peers, Used, Slot
<1>2. k \in S
  <2>. HIDE DEF S
  <2>1. \E x \in S : \A y \in S : x <= y
    BY <1>1, LeastOfSlots
  <2>. QED  BY <2>1 DEF Lowest
<1>. QED  BY <1>2 DEF Peers, Used, FirstPeer, Found

(* Dequeuing takes just the entries of t.                                     *)
Absent(q, t) == \A c \in Chan : \A k \in Slot : q[c][k] # None => q[c][k].t # t

(* Whoever leaves the queues is in none of them afterwards.                   *)
LEMMA LeaveDequeues ==
  ASSUME Queued(qentry), NEW t PROVE Queued(Leave(t)) /\ Absent(Leave(t), t)
<1>1. \A c \in Chan : \A k \in Slot : Leave(t)[c][k] \in {qentry[c][k], None}
  BY DEF Leave
<1>2. Leave(t) \in Queues
  BY <1>1 DEF Leave, Queued, Queues
<1>3. Absent(Leave(t), t)
  BY DEF Absent, Leave, Used
<1>. QED  BY <1>1, <1>2, <1>3 DEF Queued

(* Queuing adds only entries for the Alts of the call.                        *)
Entered(q, t, A) ==
    {r \in Queues : \A c \in Chan : \A k \in Slot :
        \/ r[c][k] = q[c][k]
        \/ \E i \in 1 .. Len(A) : A[i].c = c /\ A[i].op # "NOP" /\ r[c][k] = [t |-> t, i |-> i]}

(* One more item of a list is queued.                                         *)
LEMMA EnterItemAdds ==
  ASSUME NEW t \in Thread, NEW A \in Seq(Item(Ops)), NEW q, NEW u \in Entered(q, t, A),
         NEW i \in 1 .. Len(A)
  PROVE  EnterItem(u, t, A, i) \in Entered(q, t, A)
<1>. DEFINE w == [t |-> t, i |-> i]
            e == EnterItem(u, t, A, i)
<1>1. w \in Entry /\ A[i].c \in Chan
  <2>1. A[i] \in Item(Ops) /\ i \in Nat
    BY ElementOfSeq
  <2>. QED  BY <2>1 DEF Entry, Item
<1>2. CASE e = u
  BY <1>2
<1>3. CASE e # u
  <2>1. A[i].op # "NOP"
    BY <1>3 DEF EnterItem
  <2>2. PICK k : e = [u EXCEPT ![A[i].c][k] = w]
    BY <1>3, <2>1 DEF EnterItem, Enter
  <2>3. u \in [Chan -> [Slot -> Entry \cup {None}]]
    BY DEF Entered, Queues
  <2>4. e = [u EXCEPT ![A[i].c] = [u[A[i].c] EXCEPT ![k] = w]]
    BY <2>2
  <2>. HIDE DEF e, w
  <2>5. e \in Queues
    BY <1>1, <2>3, <2>4 DEF Queues
  <2>6. \A c \in Chan : \A j \in Slot : e[c][j] = u[c][j] \/ (c = A[i].c /\ e[c][j] = w)
    BY <1>1, <2>3, <2>4
  <2>7. ASSUME NEW c \in Chan, NEW j \in Slot
        PROVE  \/ e[c][j] = q[c][j]
               \/ \E l \in 1 .. Len(A) : A[l].c = c /\ A[l].op # "NOP" /\ e[c][j] = [t |-> t, i |-> l]
    <3>1. CASE e[c][j] = u[c][j]
      <4>1. \/ u[c][j] = q[c][j]
            \/ \E l \in 1 .. Len(A) : A[l].c = c /\ A[l].op # "NOP" /\ u[c][j] = [t |-> t, i |-> l]
        BY DEF Entered
      <4>. QED  BY <3>1, <4>1
    <3>2. CASE c = A[i].c /\ e[c][j] = w
      BY <2>1, <3>2 DEF w
    <3>. QED  BY <2>6, <3>1, <3>2
  <2>. QED  BY <2>5, <2>7 DEF Entered, e
<1>. QED  BY <1>2, <1>3

(* FoldLeft over the Alts is that, one Alt after the other.                   *)
LEMMA EnterAllAdds ==
  ASSUME NEW t \in Thread, NEW A \in Seq(Item(Ops)), NEW q \in Queues
  PROVE  EnterAll(q, t, A) \in Entered(q, t, A)
<1>. DEFINE m == Len(A)
            U == Entered(q, t, A)
            seq == [i \in DOMAIN A |-> i]
            st == [x \in U \X (1 .. m) |-> EnterItem(x[1], t, A, x[2])]
            Eq(g) == g = [s \in SUBSET (1 .. m) |->
                            IF s = {} THEN q ELSE EnterItem(g[s \ {Max(s)}], t, A, seq[Max(s)])]
            it == CHOOSE g : Eq(g)
<1>1. m \in Nat /\ DOMAIN A = 1 .. m /\ DOMAIN seq = 1 .. m /\ \A i \in 1 .. m : seq[i] = i
  OBVIOUS
<1>2. ASSUME NEW u \in U, NEW i \in 1 .. m PROVE EnterItem(u, t, A, i) \in U
  BY EnterItemAdds
<1>3. st \in [U \X (1 .. m) -> U]
  <2>. HIDE DEF U, m
  <2>. QED  BY <1>2
<1>4. q \in U
  BY DEF Entered
<1>5. PICK g : IsFold(g, m, U, q, st)
  <2>. HIDE DEF st, m, U
  <2>. QED  BY ONLY <1>1, <1>3, <1>4, FoldExists
<1>6. g \in [SUBSET (1 .. m) -> U]
  BY <1>5 DEF IsFold
<1>7. ASSUME NEW s \in SUBSET (1 .. m), s # {}
      PROVE  Max(s) \in 1 .. m /\ s \ {Max(s)} \in SUBSET (1 .. m)
             /\ g[s] = EnterItem(g[s \ {Max(s)}], t, A, seq[Max(s)])
  <2>1. Max(s) \in s
    <3>. HIDE DEF m
    <3>1. \E x \in s : \A y \in s : x >= y
      BY <1>1, <1>7, GreatestExists
    <3>. QED  BY <3>1 DEF Max
  <2>2. g[s \ {Max(s)}] \in U
    <3>. HIDE DEF U, m
    <3>. QED  BY <1>6
  <2>3. g[s] = st[<<g[s \ {Max(s)}], Max(s)>>]
    <3>. HIDE DEF U, m, st
    <3>. QED  BY <1>5, <1>7 DEF IsFold, Top, Max
  <2>4. st[<<g[s \ {Max(s)}], Max(s)>>] = EnterItem(g[s \ {Max(s)}], t, A, Max(s))
    <3>. HIDE DEF U, m
    <3>. QED  BY <2>1, <2>2
  <2>5. seq[Max(s)] = Max(s)
    BY <1>1, <2>1
  <2>. HIDE DEF seq, st, U, m
  <2>. QED  BY <2>1, <2>3, <2>4, <2>5
<1>8. Eq(g)
  <2>1. g[{}] = q
    <3>. HIDE DEF U, m, st
    <3>. QED  BY <1>5 DEF IsFold
  <2>. HIDE DEF U, m, seq
  <2>. QED  BY <1>6, <1>7, <2>1
<1>9. Eq(it)
  <2>. HIDE DEF Eq
  <2>. QED  BY <1>8
<1>10. EnterAll(q, t, A) = it[1 .. m]
  BY <1>1 DEF EnterAll, FoldLeftDomain, FoldLeft, MapThenFoldSet
<1>. DEFINE B == [k \in 0 .. m |-> U]
<1>11. \A k \in 0 .. m : B[k] = U
  OBVIOUS
<1>12. /\ it[{}] = q
       /\ \A s \in SUBSET (1 .. m) : s # {} => it[s] = EnterItem(it[s \ {Max(s)}], t, A, seq[Max(s)])
  <2>. HIDE DEF m, it, seq
  <2>. QED  BY <1>9
<1>. HIDE DEF U, m, it, B, seq
<1>13. it[{}] \in B[0]
  BY <1>1, <1>4, <1>11, <1>12
<1>14. ASSUME NEW k \in 1 .. m, it[1 .. (k - 1)] \in B[k - 1] PROVE it[1 .. k] \in B[k]
  <2>1. /\ 1 .. k \in SUBSET (1 .. m) /\ 1 .. k # {} /\ k - 1 \in 0 .. m /\ k \in 0 .. m
        /\ (1 .. k) \ {k} = 1 .. (k - 1)
        /\ \A x \in 1 .. k : (\A y \in 1 .. k : x >= y) => x = k
    BY <1>1, FoldIntervals
  <2>2. Max(1 .. k) = k
    <3>1. \E x \in 1 .. k : \A y \in 1 .. k : x >= y
      BY <1>1, <2>1, GreatestExists
    <3>. QED  BY <2>1, <3>1 DEF Max
  <2>3. it[1 .. k] = EnterItem(it[1 .. (k - 1)], t, A, k)
    BY <1>1, <1>12, <2>1, <2>2
  <2>4. it[1 .. (k - 1)] \in U
    BY <1>11, <1>14, <2>1
  <2>. QED  BY <1>2, <1>11, <2>1, <2>3, <2>4
<1>15. it[1 .. m] \in B[m]
  BY <1>1, <1>13, <1>14, FoldKeeps
<1>16. m \in 0 .. m
  BY <1>1
<1>. QED  BY <1>10, <1>11, <1>15, <1>16 DEF U

-----------------------------------------------------------------------------
(* WHAT A CALL DOES UNDER CHANLOCK *)

(* t may go through its call with the queues q: it has no entry in them.      *)
May(t, q) == t \in Thread /\ pc[t] \in {"idle", "woken"} /\ Queued(q) /\ Absent(q, t)

Fatal(t) == /\ pc' = [pc EXCEPT ![t] = "fatal"]
            /\ UNCHANGED <<buffer, qentry, tag, req, in, peer, hit, sent, log>>

(* It claims a waiter, is done, queues up, or its assertion fails.            *)
Outcome(t, r, q) ==
    \/ /\ qentry' = q
       /\ \/ Finish(t)
          \/ \E c \in Chan : \E w : Found(q, c, w) /\ Claim(t, w, c)
    \/ /\ \A i \in 1 .. Len(r.alts) : r.alts[i].op # "NOBLK"
       /\ Wait(t, r, q)
    \/ Fatal(t)

(* The values stay values, in the buffers and where waiters wait for them.    *)
Data == Buffers /\ in \in [Thread -> Value \cup {None}] /\ sent \subseteq Value

(* Queueing touches no buffer.                                                *)
LEMMA WaitData ==
  ASSUME Data, NEW t \in Thread, NEW r, NEW q, Wait(t, r, q) PROVE Data'
BY DEF Wait, Data, Buffers, buffer

(* What the three ways through send do.                                       *)
LEMMA SendBodyDoes ==
  ASSUME Data, Queued(qentry), NEW t, NEW q, May(t, q), NEW r, ReqOK(r), NEW c \in Chan,
         r.alts = <<[op |-> "SND", c |-> c]>>,
         SendToWaiter(t, r, c, q) \/ SendToBuffer(t, r, c, q) \/ SendBlocks(t, r, c, q)
  PROVE  Outcome(t, r, q) /\ Data'
<1>1. r.out \in Value /\ t \in Thread
  BY DEF ReqOK, May
<1>2. CASE SendToWaiter(t, r, c, q)
  <2>1. PICK w : /\ Found(q, c, w) /\ Claim(t, w, c) /\ qentry' = q /\ DidSend(r.out)
                 /\ IF HasRoom(c) THEN Put(c, r.out) /\ in' = [in EXCEPT ![t] = None]
                    ELSE in' = [in EXCEPT ![t] = None, ![w.t] = r.out] /\ UNCHANGED buffer
    BY <1>2, PeerFound DEF SendToWaiter
  <2>2. Outcome(t, r, q)
    BY <2>1 DEF Outcome
  <2>3. Buffers'
    <3>1. CASE HasRoom(c)
      BY <1>1, <2>1, <3>1, PutKeeps DEF Data
    <3>2. CASE ~HasRoom(c)
      BY <2>1, <3>2 DEF Data, Buffers, buffer
    <3>. QED  BY <3>1, <3>2
  <2>. QED  BY <1>1, <2>1, <2>2, <2>3 DEF Data, DidSend
<1>3. CASE SendToBuffer(t, r, c, q)
  <2>1. Buffers'
    BY <1>1, <1>3, PutKeeps DEF Data, SendToBuffer
  <2>. QED  BY <1>1, <1>3, <2>1 DEF SendToBuffer, Outcome, Data, DidSend
<1>4. CASE SendBlocks(t, r, c, q)
  <2>1. Wait(t, r, q) /\ \A i \in 1 .. Len(r.alts) : r.alts[i].op # "NOBLK"
    BY <1>4 DEF SendBlocks
  <2>. QED  BY <1>1, <2>1, WaitData DEF Outcome
<1>. QED  BY <1>2, <1>3, <1>4

(* What the three ways through recv do.                                       *)
LEMMA RecvBodyDoes ==
  ASSUME Data, Queued(qentry), NEW t, NEW q, May(t, q), NEW r, ReqOK(r), NEW c \in Chan,
         r.alts = <<[op |-> "RCV", c |-> c]>>,
         RecvFromWaiter(t, c, q) \/ RecvFromBuffer(t, c, q) \/ RecvBlocks(t, r, c, q)
  PROVE  Outcome(t, r, q) /\ Data'
<1>1. t \in Thread
  BY DEF May
<1>2. CASE RecvFromWaiter(t, c, q)
  <2>1. PICK w : /\ Found(q, c, w) /\ Claim(t, w, c) /\ qentry' = q
                 /\ Take(c) \/ UNCHANGED buffer
                 /\ in' = [in EXCEPT ![t] = None] /\ UNCHANGED sent
    BY <1>2, PeerFound DEF RecvFromWaiter, DidRecv
  <2>2. Buffers'
    <3>1. CASE Take(c)
      BY <3>1, TakeKeeps DEF Data
    <3>2. CASE UNCHANGED buffer
      BY <3>2 DEF Data, Buffers, buffer
    <3>. QED  BY <2>1, <3>1, <3>2
  <2>. QED  BY <1>1, <2>1, <2>2 DEF Data, Outcome
<1>3. CASE RecvFromBuffer(t, c, q)
  <2>1. Buffers'
    BY <1>3, TakeKeeps DEF Data, RecvFromBuffer
  <2>. QED  BY <1>1, <1>3, <2>1 DEF RecvFromBuffer, Outcome, Data, DidRecv
<1>4. CASE RecvBlocks(t, r, c, q)
  <2>1. Wait(t, r, q) /\ \A i \in 1 .. Len(r.alts) : r.alts[i].op # "NOBLK"
    BY <1>4 DEF RecvBlocks
  <2>. QED  BY <1>1, <2>1, WaitData DEF Outcome
<1>. QED  BY <1>2, <1>3, <1>4

(* What the ways through alt do.                                              *)
LEMMA AltBodyDoes ==
  ASSUME Data, Queued(qentry), NEW t, NEW q, May(t, q), NEW r, ReqOK(r), AltBody(t, r, q)
  PROVE  Outcome(t, r, q) /\ Data'
<1>1. t \in Thread
  BY DEF May
<1>2. CASE AltGoes(t, r, q)
  <2>1. PICK i \in Ready(q, r.alts) :
             AltByBuffer(t, r, r.alts[i], q) \/ AltByWaiter(t, r, r.alts[i], q)
    BY <1>2 DEF AltGoes
  <2>2. PICK a \in Item(Ops) : a = r.alts[i] /\ i \in 1 .. Len(r.alts)
    <3>1. i \in 1 .. Len(r.alts) /\ r.alts \in Seq(Item(Ops))
      BY DEF Ready, ReqOK
    <3>2. r.alts[i] \in Item(Ops)
      BY <3>1, ElementOfSeq
    <3>. QED  BY <3>1, <3>2
  <2>3. a.c \in Chan /\ (a.op = "SND" => r.out \in Value) /\ CanGo(q, a)
    BY <2>2 DEF Item, ReqOK, Ready
  <2>4. a.op \in {"SND", "RCV"}
    BY <2>3 DEF CanGo, ByBuffer
  <2>5. qentry' = q
    BY <1>2 DEF AltGoes
  <2>6. ASSUME AltBuffer(t, r, a) PROVE Buffers'
    <3>1. CASE Size[a.c] = 0
      BY <2>6, <3>1 DEF AltBuffer, Data, Buffers, buffer
    <3>2. CASE Size[a.c] # 0 /\ a.op = "SND"
      BY <2>3, <2>6, <3>2, PutKeeps DEF AltBuffer, Data
    <3>3. CASE Size[a.c] # 0 /\ a.op # "SND"
      BY <2>3, <2>6, <3>3, TakeKeeps DEF AltBuffer, Data
    <3>. QED  BY <3>1, <3>2, <3>3
  <2>7. CASE AltByBuffer(t, r, a, q)
    <3>1. AltBuffer(t, r, a) /\ in' = [in EXCEPT ![t] = None]
      BY <2>7 DEF AltByBuffer
    <3>2. sent' \subseteq Value
      BY <2>3, <2>7 DEF AltByBuffer, DidSend, DidRecv, Data
    <3>3. Finish(t) \/ \E w : Found(q, a.c, w) /\ Claim(t, w, a.c)
      BY <2>7, PeerFound DEF AltByBuffer
    <3>. QED  BY <1>1, <2>3, <2>5, <2>6, <3>1, <3>2, <3>3 DEF Outcome, Data
  <2>8. CASE AltByWaiter(t, r, a, q)
    <3>1. Peers(q, a.c, a.op) # {} /\ AltBuffer(t, r, a)
      BY <2>3, <2>8 DEF AltByWaiter, CanGo
    <3>2. PICK w : /\ Found(q, a.c, w) /\ Claim(t, w, a.c)
                   /\ IF a.op = "SND"
                        THEN DidSend(r.out) /\ in' = [in EXCEPT ![t] = None, ![w.t] = r.out]
                        ELSE DidRecv(t, a.c, req[w.t].out) /\ in' = [in EXCEPT ![t] = None]
      BY <2>8, <3>1, PeerFound DEF AltByWaiter
    <3>3. sent' \subseteq Value /\ in' \in [Thread -> Value \cup {None}]
      BY <1>1, <2>3, <3>2 DEF DidSend, DidRecv, Data
    <3>. QED  BY <1>1, <2>3, <2>5, <2>6, <3>1, <3>2, <3>3 DEF Outcome, Data
  <2>. QED  BY <2>1, <2>2, <2>7, <2>8
<1>3. CASE AltBlocks(t, r, q)
  <2>1. \A i \in 1 .. Len(r.alts) : r.alts[i].op # "NOBLK"
    BY <1>3 DEF AltBlocks, NoBlk
  <2>2. CASE Wait(t, r, q)
    BY <1>1, <2>1, <2>2, WaitData DEF Outcome
  <2>3. CASE Fatal(t)
    BY <2>3 DEF Fatal, Outcome, Data, Buffers, buffer
  <2>. QED  BY <1>3, <2>2, <2>3 DEF AltBlocks, Fatal
<1>. QED  BY <1>2, <1>3 DEF AltBody

(* Every call, and every call that starts over.                               *)
LEMMA BodyDoes ==
  ASSUME Data, Queued(qentry), NEW t, NEW q, May(t, q), NEW r, ReqOK(r), Body(t, r, q)
  PROVE  Outcome(t, r, q) /\ Data'
<1>1. r.alts \in Seq(Item(Ops))
  BY DEF ReqOK
<1>2. CASE r.call \in {"Callsnd", "nbsend"} /\ SendBody(t, r, q)
  <2>1. Len(r.alts) = 1 /\ r.alts[1].op = "SND"
    BY <1>2 DEF ReqOK
  <2>2. PICK a \in Item(Ops) : a = r.alts[1]
    BY <1>1, <2>1
  <2>3. a.c \in Chan /\ a = [op |-> "SND", c |-> a.c]
    BY <2>1, <2>2 DEF Item
  <2>4. r.alts = <<[op |-> "SND", c |-> a.c]>>
    BY <1>1, <2>1, <2>2, <2>3
  <2>. QED  BY <1>2, <2>2, <2>3, <2>4, SendBodyDoes DEF SendBody
<1>3. CASE r.call \in {"Callrcv", "nbrecv"} /\ RecvBody(t, r, q)
  <2>1. Len(r.alts) = 1 /\ r.alts[1].op = "RCV"
    BY <1>3 DEF ReqOK
  <2>2. PICK a \in Item(Ops) : a = r.alts[1]
    BY <1>1, <2>1
  <2>3. a.c \in Chan /\ a = [op |-> "RCV", c |-> a.c]
    BY <2>1, <2>2 DEF Item
  <2>4. r.alts = <<[op |-> "RCV", c |-> a.c]>>
    BY <1>1, <2>1, <2>2, <2>3
  <2>. QED  BY <1>3, <2>2, <2>3, <2>4, RecvBodyDoes DEF RecvBody
<1>4. CASE r.call = "Callalt" /\ AltBody(t, r, q)
  BY <1>4, AltBodyDoes
<1>. QED  BY <1>2, <1>3, <1>4 DEF Body

-----------------------------------------------------------------------------
(* WHAT EACH OUTCOME LEAVES *)

(* the threads' places in the protocol, apart from the values *)
Control == /\ tag \in [Thread -> Chan \cup {None}]
           /\ pc \in [Thread -> Location]
           /\ peer \in [Thread -> Thread \cup {None}]
           /\ DOMAIN req = Thread /\ DOMAIN hit = Thread
           /\ Queued(qentry) /\ Places /\ Claims

(* Nobody is on the way to a thread that does not wait.                       *)
LEMMA NobodyWakes ==
  ASSUME Control, NEW t \in Thread, pc[t] # "waiting" PROVE \A x \in Thread : ~Wakes(x, t)
BY DEF Control, Claims, Wakes

(* A thread claims a waiter and is on the way to it.                          *)
LEMMA ClaimKeeps ==
  ASSUME Control, NEW t, NEW q, May(t, q), NEW c \in Chan, NEW w, Found(q, c, w),
         Claim(t, w, c), qentry' = q
  PROVE  Control'
<1>1. t \in Thread /\ pc[t] \in {"idle", "woken"} /\ c # None
  BY ChannelAssumption DEF May
<1>2. PICK k \in Slot : w = q[c][k] /\ w # None /\ tag[w.t] = None
  BY DEF Found
<1>3. Member(w, c) /\ w.t # t
  BY <1>2 DEF May, Queued, Absent
<1>4. PICK u \in Thread : u = w.t
  BY <1>3 DEF Member, Entry
<1>5. u # t /\ tag[u] = None /\ pc[u] = "waiting" /\ ReqOK(req[u])
  BY <1>2, <1>3, <1>4 DEF Member, Control, Places
<1>6. /\ tag' = [tag EXCEPT ![t] = None, ![u] = c] /\ hit' = [hit EXCEPT ![t] = 0, ![u] = w.i]
      /\ pc' = [pc EXCEPT ![t] = "waking"] /\ peer' = [peer EXCEPT ![t] = u]
      /\ req' = [req EXCEPT ![t] = NoReq]
  BY <1>4 DEF Claim
<1>7. /\ tag' \in [Thread -> Chan \cup {None}] /\ pc' \in [Thread -> Location]
      /\ peer' \in [Thread -> Thread \cup {None}] /\ DOMAIN req' = Thread /\ DOMAIN hit' = Thread
  BY <1>1, <1>6 DEF Control, Location
<1>8. /\ tag'[t] = None /\ pc'[t] = "waking" /\ peer'[t] = u
      /\ tag'[u] = c /\ hit'[u] = w.i /\ pc'[u] = "waiting" /\ req'[u] = req[u]
      /\ \A x \in Thread : x # t => pc'[x] = pc[x] /\ peer'[x] = peer[x] /\ req'[x] = req[x]
      /\ \A x \in Thread : x # t /\ x # u => tag'[x] = tag[x] /\ hit'[x] = hit[x]
  BY <1>1, <1>5, <1>6 DEF Control
<1>9. Queued(qentry)'
  <2>1. \A d \in Chan : \A j \in Slot : q[d][j] # None => Member(q[d][j], d) /\ q[d][j].t # t
    BY DEF May, Queued, Absent
  <2>2. ASSUME NEW d \in Chan, NEW y, Member(y, d), y.t # t PROVE Member(y, d)'
    <3>1. y.t \in Thread
      BY <2>2 DEF Member, Entry
    <3>. QED  BY <1>1, <1>8, <2>2, <3>1 DEF Member
  <2>3. q \in Queues
    BY DEF May, Queued
  <2>. QED  BY <2>1, <2>2, <2>3 DEF Queued
<1>10. Places'
  <2>1. SUFFICES ASSUME NEW x \in Thread
                 PROVE  /\ pc'[x] \in {"idle", "waking"} => tag'[x] = None
                        /\ pc'[x] = "woken" => tag'[x] # None
                        /\ pc'[x] \in {"waiting", "woken"} => ReqOK(req'[x])
                        /\ pc'[x] \in {"waiting", "woken"} /\ tag'[x] # None => ClaimOf(x)'
    BY DEF Places, ReqOK
  <2>2. CASE x = t
    BY <1>8, <2>2
  <2>3. CASE x = u
    <3>1. ClaimOf(u)'
      BY <1>3, <1>4, <1>8 DEF Member, ClaimOf
    <3>. QED  BY <1>5, <1>8, <2>3, <3>1
  <2>4. CASE x # t /\ x # u
    <3>1. /\ pc[x] \in {"idle", "waking"} => tag[x] = None
          /\ pc[x] = "woken" => tag[x] # None
          /\ pc[x] \in {"waiting", "woken"} => ReqOK(req[x])
          /\ pc[x] \in {"waiting", "woken"} /\ tag[x] # None => ClaimOf(x)
      BY DEF Control, Places
    <3>2. ClaimOf(x)' <=> ClaimOf(x)
      BY <1>8, <2>4 DEF ClaimOf
    <3>. QED  BY <1>8, <2>4, <3>1, <3>2
  <2>. QED  BY <2>2, <2>3, <2>4
<1>11. \A x \in Thread : ~Wakes(x, t) /\ ~Wakes(x, u)
  BY <1>1, <1>5, NobodyWakes DEF Control, Claims, Wakes
<1>12. Claims'
  <2>1. ASSUME NEW x \in Thread, pc'[x] = "waking"
        PROVE  peer'[x] \in Thread /\ pc'[peer'[x]] = "waiting" /\ tag'[peer'[x]] # None
    <3>1. CASE x = t
      BY <1>1, <1>8, <3>1
    <3>2. CASE x # t
      <4>1. /\ pc[x] = "waking" /\ peer'[x] = peer[x] /\ peer[x] \in Thread
            /\ pc[peer[x]] = "waiting" /\ tag[peer[x]] # None
        BY <1>8, <2>1, <3>2 DEF Control, Claims
      <4>2. peer[x] # t /\ peer[x] # u
        BY <1>11, <4>1 DEF Wakes
      <4>. QED  BY <1>8, <4>1, <4>2
    <3>. QED  BY <3>1, <3>2
  <2>2. \A x \in Thread : \A y \in Thread : Wakes(x, y)' <=> Wakes(x, y) \/ (x = t /\ y = u)
    BY <1>8, <1>1 DEF Wakes
  <2>3. \A x, z \in Thread : \A y \in Thread : Wakes(x, y)' /\ Wakes(z, y)' => x = z
    BY <1>11, <2>2 DEF Control, Claims
  <2>4. ASSUME NEW y \in Thread, pc'[y] = "waiting", tag'[y] # None
        PROVE  \E x \in Thread : Wakes(x, y)'
    <3>1. CASE y = u
      BY <1>1, <2>2, <3>1
    <3>2. CASE y # u
      <4>1. pc[y] = "waiting" /\ tag[y] # None
        BY <1>8, <2>4, <3>2
      <4>. QED  BY <2>2, <4>1 DEF Control, Claims
    <3>. QED  BY <3>1, <3>2
  <2>. QED  BY <2>1, <2>3, <2>4 DEF Claims
<1>. QED  BY <1>7, <1>9, <1>10, <1>12 DEF Control

(* A thread that is done, or queues up, or fails: it neither is claimed nor   *)
(* claims, and what holds of all others remains.                              *)
Alone(t) ==
    /\ tag' \in [Thread -> Chan \cup {None}] /\ pc' \in [Thread -> Location]
    /\ peer' \in [Thread -> Thread \cup {None}] /\ DOMAIN req' = Thread /\ DOMAIN hit' = Thread
    /\ pc'[t] \in {"idle", "waiting", "fatal"}
    /\ pc'[t] \in {"idle", "waiting"} => tag'[t] = None
    /\ pc'[t] = "waiting" => ReqOK(req'[t])
    /\ \A x \in Thread : x # t => /\ pc'[x] = pc[x] /\ req'[x] = req[x]
                                  /\ tag'[x] = tag[x] /\ hit'[x] = hit[x]
    /\ UNCHANGED peer

(* A call that concerns nobody else disturbs no one's place.                  *)
LEMMA AloneKeeps ==
  ASSUME Control, NEW t \in Thread, pc[t] \in {"idle", "woken"}, Alone(t), Queued(qentry)'
  PROVE  Control'
<1>1. Places'
  <2>1. SUFFICES ASSUME NEW x \in Thread
                 PROVE  /\ pc'[x] \in {"idle", "waking"} => tag'[x] = None
                        /\ pc'[x] = "woken" => tag'[x] # None
                        /\ pc'[x] \in {"waiting", "woken"} => ReqOK(req'[x])
                        /\ pc'[x] \in {"waiting", "woken"} /\ tag'[x] # None => ClaimOf(x)'
    BY DEF Places, ReqOK
  <2>2. CASE x = t
    BY <2>2 DEF Alone
  <2>3. CASE x # t
    <3>1. /\ pc[x] \in {"idle", "waking"} => tag[x] = None
          /\ pc[x] = "woken" => tag[x] # None
          /\ pc[x] \in {"waiting", "woken"} => ReqOK(req[x])
          /\ pc[x] \in {"waiting", "woken"} /\ tag[x] # None => ClaimOf(x)
      BY DEF Control, Places
    <3>2. pc'[x] = pc[x] /\ req'[x] = req[x] /\ tag'[x] = tag[x] /\ hit'[x] = hit[x]
      BY <2>3 DEF Alone
    <3>3. ClaimOf(x)' <=> ClaimOf(x)
      BY <3>2 DEF ClaimOf
    <3>. QED  BY <3>1, <3>2, <3>3
  <2>. QED  BY <2>2, <2>3
<1>2. \A x, y \in Thread : Wakes(x, y)' <=> Wakes(x, y)
  BY DEF Alone, Wakes
<1>3. \A x \in Thread : ~Wakes(x, t)
  BY NobodyWakes
<1>4. ASSUME NEW x \in Thread, pc'[x] = "waking"
      PROVE  peer'[x] \in Thread /\ pc'[peer'[x]] = "waiting" /\ tag'[peer'[x]] # None
  <2>1. x # t /\ pc[x] = "waking" /\ peer'[x] = peer[x]
    BY <1>4 DEF Alone
  <2>2. peer[x] \in Thread /\ pc[peer[x]] = "waiting" /\ tag[peer[x]] # None
    BY <2>1 DEF Control, Claims
  <2>3. peer[x] # t
    BY <1>3, <2>1 DEF Wakes
  <2>. QED  BY <2>1, <2>2, <2>3 DEF Alone
<1>5. \A x, z \in Thread : \A y \in Thread : Wakes(x, y)' /\ Wakes(z, y)' => x = z
  BY <1>2 DEF Control, Claims
<1>6. ASSUME NEW y \in Thread, pc'[y] = "waiting", tag'[y] # None
      PROVE  \E x \in Thread : Wakes(x, y)'
  <2>1. y # t
    BY <1>6 DEF Alone
  <2>2. pc[y] = "waiting" /\ tag[y] # None
    BY <1>6, <2>1 DEF Alone
  <2>. QED  BY <1>2, <2>2 DEF Control, Claims
<1>7. Claims'
  BY <1>4, <1>5, <1>6 DEF Claims
<1>. QED  BY <1>1, <1>7 DEF Control, Alone

(* The entries of the others remain good when t alone changes.                *)
LEMMA OthersStay ==
  ASSUME NEW q, NEW t \in Thread, Queued(q), Alone(t),
         NEW c \in Chan, NEW k \in Slot, q[c][k] # None, q[c][k].t # t
  PROVE  Member(q[c][k], c)'
<1>1. Member(q[c][k], c)
  BY DEF Queued
<1>2. q[c][k].t \in Thread
  BY <1>1 DEF Member, Entry
<1>3. PICK x \in Thread : x = q[c][k].t
  BY <1>2
<1>4. pc'[x] = pc[x] /\ req'[x] = req[x] /\ tag'[x] = tag[x]
  BY <1>3 DEF Alone
<1>. QED  BY <1>1, <1>3, <1>4 DEF Member

(* So does a call that ends,                                                  *)
LEMMA FinishKeeps ==
  ASSUME Control, NEW t, NEW q, May(t, q), Finish(t), qentry' = q PROVE Control'
<1>1. t \in Thread /\ pc[t] \in {"idle", "woken"}
  BY DEF May
<1>2. Alone(t)
  BY <1>1 DEF Alone, Finish, Control, Location
<1>3. Queued(qentry)'
  <2>1. Queued(q) /\ Absent(q, t)
    BY DEF May
  <2>2. \A c \in Chan : \A k \in Slot : q[c][k] # None => Member(q[c][k], c)'
    BY <1>1, <1>2, <2>1, OthersStay DEF Absent
  <2>. QED  BY <2>1, <2>2 DEF Queued
<1>. QED  BY <1>1, <1>2, <1>3, AloneKeeps

(* one that queues and sleeps,                                                *)
LEMMA WaitKeeps ==
  ASSUME Control, NEW t, NEW q, May(t, q), NEW r, ReqOK(r), Wait(t, r, q),
         \A i \in 1 .. Len(r.alts) : r.alts[i].op # "NOBLK"
  PROVE  Control'
<1>1. t \in Thread /\ pc[t] \in {"idle", "woken"} /\ Queued(q) /\ Absent(q, t)
  BY DEF May
<1>2. /\ qentry' = EnterAll(q, t, r.alts) /\ pc'[t] = "waiting" /\ req'[t] = r
      /\ r.alts \in Seq(Item(Ops))
  BY <1>1 DEF Wait, Control, ReqOK
<1>3. Alone(t)
  BY <1>1, <1>2 DEF Alone, Wait, Control, Location
<1>4. qentry' \in Entered(q, t, r.alts)
  BY <1>1, <1>2, EnterAllAdds DEF Queued
<1>5. ASSUME NEW c \in Chan, NEW k \in Slot, NEW w, w = qentry'[c][k], w # None
      PROVE  Member(w, c)'
  <2>1. CASE w = q[c][k]
    <3>1. q[c][k] # None /\ q[c][k].t # t
      BY <1>1, <1>5, <2>1 DEF Absent
    <3>2. Member(q[c][k], c)'
      BY <1>1, <1>3, <3>1, OthersStay
    <3>. QED  BY <2>1, <3>2
  <2>2. ASSUME NEW i \in 1 .. Len(r.alts), r.alts[i].c = c, r.alts[i].op # "NOP",
               w = [t |-> t, i |-> i]
        PROVE  Member(w, c)'
    <3>1. r.alts[i] \in Item(Ops) /\ i \in Nat
      BY <1>2, ElementOfSeq
    <3>2. r.alts[i].op \in {"SND", "RCV"}
      BY <2>2, <3>1 DEF Item, Ops
    <3>3. w \in Entry /\ w.t = t /\ w.i = i
      BY <1>1, <2>2, <3>1 DEF Entry
    <3>. QED  BY <1>2, <2>2, <3>2, <3>3 DEF Member, Waits
  <2>3. \/ w = q[c][k]
        \/ \E i \in 1 .. Len(r.alts) : r.alts[i].c = c /\ r.alts[i].op # "NOP" /\ w = [t |-> t, i |-> i]
    BY <1>4, <1>5 DEF Entered
  <2>. QED  BY <2>1, <2>2, <2>3
<1>6. Queued(qentry)'
  BY <1>4, <1>5 DEF Queued, Entered
<1>. QED  BY <1>1, <1>3, <1>6, AloneKeeps

(* and one that fails an assertion.                                           *)
LEMMA FatalKeeps ==
  ASSUME Control, NEW t \in Thread, pc[t] \in {"idle", "woken"}, Fatal(t) PROVE Control'
<1>1. Alone(t)
  BY DEF Alone, Fatal, Control, Location
<1>2. Queued(qentry)
  BY DEF Control
<1>3. ASSUME NEW c \in Chan, NEW k \in Slot, NEW w, w = qentry[c][k], w # None
      PROVE  Member(w, c)'
  <2>1. CASE w.t # t
    BY <1>1, <1>2, <1>3, <2>1, OthersStay
  <2>2. CASE w.t = t
    <3>1. Member(w, c)
      BY <1>2, <1>3 DEF Queued
    <3>2. tag[t] # None
      BY <2>2, <3>1 DEF Member
    <3>. QED  BY <2>2, <3>1, <3>2 DEF Member, Fatal
  <2>. QED  BY <2>1, <2>2
<1>4. Queued(qentry)'
  BY <1>2, <1>3 DEF Queued, Fatal
<1>. QED  BY <1>1, <1>4, AloneKeeps

(* Every call under chanlock.                                                 *)
LEMMA OutcomeKeeps ==
  ASSUME Control, NEW t, NEW q, May(t, q), NEW r, ReqOK(r), Outcome(t, r, q) PROVE Control'
<1>1. t \in Thread /\ pc[t] \in {"idle", "woken"}
  BY DEF May
<1>. QED  BY <1>1, ClaimKeeps, FinishKeeps, WaitKeeps, FatalKeeps DEF Outcome

-----------------------------------------------------------------------------
(* THE STEPS *)

(* The invariant in the parts that the lemmas are about.                      *)
LEMMA InvParts == IInv <=> /\ Data /\ Control
                           /\ DOMAIN made = Thread /\ \A t \in Thread : made[t] \in 0 .. MaxSend[t]
BY DEF IInv, Typed, Data, Control

(* A call that t makes in this program, and what it brings along with it.     *)
Makes(t, r) == \/ r.call \in {"Callsnd", "nbsend"} /\ <<t, r.alts[1].c>> \in Sends
               \/ r.call \in {"Callrcv", "nbrecv"} /\ <<t, r.alts[1].c>> \in Recvs
               \/ r.call = "Callalt" /\ <<t, r.alts>> \in Alts
CallOf(t, r) == pc[t] = "idle" /\ ReqOK(r) /\ Makes(t, r) /\ Body(t, r, qentry)

(* The value that it sends, if any, is a new one.                             *)
IsSend(r) == \E i \in 1 .. Len(r.alts) : r.alts[i].op = "SND"
Carries(t, r) == IF IsSend(r) THEN r.out = Fresh(t) /\ made' = [made EXCEPT ![t] = @ + 1]
                 ELSE UNCHANGED made

(* What is sent next is a value, and counted.                                 *)
LEMMA FreshIsValue ==
  ASSUME IInv, NEW t \in Thread, Make(t)
  PROVE  /\ Fresh(t) \in Value
         /\ DOMAIN made' = Thread /\ \A x \in Thread : made'[x] \in 0 .. MaxSend[x]
<1>1. MaxSend \in [Thread -> Nat] /\ DOMAIN made = Thread /\ made[t] \in 0 .. MaxSend[t]
  BY ChannelAssumption DEF IInv, Typed
<1>2. made[t] < MaxSend[t] /\ made' = [made EXCEPT ![t] = made[t] + 1]
  BY DEF Make
<1>3. MaxSend[t] \in Nat /\ made[t] + 1 \in 1 .. MaxSend[t]
  BY <1>1, <1>2
<1>4. Fresh(t) \in {t} \X (1 .. MaxSend[t])
  BY <1>3 DEF Fresh
<1>5. \A x \in Thread : made'[x] \in 0 .. MaxSend[x]
  BY <1>1, <1>2, <1>3 DEF IInv, Typed
<1>. QED  BY <1>1, <1>2, <1>4, <1>5 DEF Value

(* A single communication, as a list of one.                                  *)
LEMMA OneAlt ==
  ASSUME NEW c \in Chan, NEW op \in Ops
  PROVE  LET A == <<[op |-> op, c |-> c]>>
         IN  A \in Seq(Item(Ops)) /\ Len(A) = 1 /\ A[1].op = op /\ A[1].c = c
<1>1. [op |-> op, c |-> c] \in Item(Ops)
  BY DEF Item
<1>. QED  BY <1>1

(* Each of the three calls begins with a request that is well formed.         *)
LEMMA SendCalls ==
  ASSUME IInv, NEW t \in Thread, Send(t)
  PROVE  /\ \E r : CallOf(t, r) /\ Carries(t, r)
         /\ DOMAIN made' = Thread /\ \A x \in Thread : made'[x] \in 0 .. MaxSend[x]
<1>1. PICK c \in Chan : <<t, c>> \in Sends /\ SendOn(t, c)
  BY DEF Send
<1>2. PICK k \in {"Callsnd", "nbsend"} :
         Body(t, [call |-> k, alts |-> <<[op |-> "SND", c |-> c]>>, out |-> Fresh(t)], qentry)
  BY <1>1 DEF SendOn
<1>3. PICK A : A = <<[op |-> "SND", c |-> c]>>
  OBVIOUS
<1>4. PICK r : r = [call |-> k, alts |-> A, out |-> Fresh(t)]
  OBVIOUS
<1>5. A \in Seq(Item(Ops)) /\ Len(A) = 1 /\ A[1].op = "SND" /\ A[1].c = c
  BY <1>3, OneAlt DEF Ops
<1>6. Fresh(t) \in Value /\ DOMAIN made' = Thread /\ \A x \in Thread : made'[x] \in 0 .. MaxSend[x]
  BY FreshIsValue DEF Send
<1>7. ReqOK(r)
  BY <1>4, <1>5, <1>6 DEF ReqOK, Calls
<1>8. Body(t, r, qentry) /\ pc[t] = "idle"
  BY <1>2, <1>3, <1>4 DEF Send, Idle
<1>9. CallOf(t, r)
  <2>1. r.call \in {"Callsnd", "nbsend"} /\ r.alts[1].c = c
    BY <1>4, <1>5
  <2>2. Makes(t, r)
    BY <1>1, <2>1 DEF Makes
  <2>. QED  BY <1>7, <1>8, <2>2 DEF CallOf
<1>10. Carries(t, r)
  <2>1. IsSend(r)
    BY <1>4, <1>5 DEF IsSend
  <2>2. Make(t) /\ r.out = Fresh(t)
    BY <1>4 DEF Send
  <2>. QED  BY <2>1, <2>2 DEF Carries, Make
<1>. QED  BY <1>6, <1>9, <1>10

(* The same for recv and nbrecv,                                              *)
LEMMA RecvCalls ==
  ASSUME IInv, NEW t \in Thread, Recv(t)
  PROVE  /\ \E r : CallOf(t, r) /\ Carries(t, r)
         /\ DOMAIN made' = Thread /\ \A x \in Thread : made'[x] \in 0 .. MaxSend[x]
<1>1. PICK c \in Chan : <<t, c>> \in Recvs /\ RecvOn(t, c)
  BY DEF Recv
<1>2. PICK k \in {"Callrcv", "nbrecv"} :
         Body(t, [call |-> k, alts |-> <<[op |-> "RCV", c |-> c]>>, out |-> None], qentry)
  BY <1>1 DEF RecvOn
<1>3. PICK A : A = <<[op |-> "RCV", c |-> c]>>
  OBVIOUS
<1>4. PICK r : r = [call |-> k, alts |-> A, out |-> None]
  OBVIOUS
<1>5. A \in Seq(Item(Ops)) /\ Len(A) = 1 /\ A[1].op = "RCV" /\ A[1].c = c
  BY <1>3, OneAlt DEF Ops
<1>6. DOMAIN made' = Thread /\ \A x \in Thread : made'[x] \in 0 .. MaxSend[x]
  BY DEF Recv, IInv, Typed
<1>7. \A i \in 1 .. Len(A) : A[i].op # "SND"
  BY <1>5
<1>8. ReqOK(r)
  BY <1>4, <1>5, <1>7 DEF ReqOK, Calls
<1>9. Body(t, r, qentry) /\ pc[t] = "idle"
  BY <1>2, <1>3, <1>4 DEF Recv, Idle
<1>10. CallOf(t, r)
  <2>1. r.call \in {"Callrcv", "nbrecv"} /\ r.alts[1].c = c
    BY <1>4, <1>5
  <2>2. Makes(t, r)
    BY <1>1, <2>1 DEF Makes
  <2>. QED  BY <1>8, <1>9, <2>2 DEF CallOf
<1>11. Carries(t, r)
  BY <1>4, <1>7 DEF Carries, IsSend, Recv
<1>. QED  BY <1>6, <1>10, <1>11

(* and for alt.                                                               *)
LEMMA AltCalls ==
  ASSUME IInv, NEW t \in Thread, Alt(t)
  PROVE  /\ \E r : CallOf(t, r) /\ Carries(t, r)
         /\ DOMAIN made' = Thread /\ \A x \in Thread : made'[x] \in 0 .. MaxSend[x]
<1>1. PICK b \in Alts :
         /\ b[1] = t
         /\ IF \E i \in 1 .. Len(b[2]) : b[2][i].op = "SND" THEN Make(t) ELSE UNCHANGED made
         /\ Body(t, [call |-> "Callalt", alts |-> b[2],
                     out |-> IF \E i \in 1 .. Len(b[2]) : b[2][i].op = "SND" THEN Fresh(t) ELSE None],
                 qentry)
  BY DEF Alt
<1>2. PICK A \in Seq(Item(Ops)) : A = b[2] /\ <<t, A>> \in Alts
  <2>1. b \in Thread \X Seq(Item(Ops))
    BY ChannelAssumption DEF Ops
  <2>2. b = <<t, b[2]>> /\ b[2] \in Seq(Item(Ops))
    BY <1>1, <2>1
  <2>. QED  BY <2>2
<1>3. PICK o : o = IF \E i \in 1 .. Len(A) : A[i].op = "SND" THEN Fresh(t) ELSE None
  OBVIOUS
<1>4. PICK r : r = [call |-> "Callalt", alts |-> A, out |-> o]
  OBVIOUS
<1>5. /\ DOMAIN made' = Thread /\ \A x \in Thread : made'[x] \in 0 .. MaxSend[x]
      /\ \A i \in 1 .. Len(A) : A[i].op = "SND" => o \in Value
  <2>1. CASE \E i \in 1 .. Len(A) : A[i].op = "SND"
    BY <1>1, <1>2, <1>3, <2>1, FreshIsValue
  <2>2. CASE ~ \E i \in 1 .. Len(A) : A[i].op = "SND"
    <3>1. UNCHANGED made
      BY <1>1, <1>2, <2>2
    <3>. QED  BY <2>2, <3>1 DEF IInv, Typed
  <2>. QED  BY <2>1, <2>2
<1>6. ReqOK(r)
  BY <1>4, <1>5 DEF ReqOK, Calls
<1>7. Body(t, r, qentry)
  BY <1>1, <1>2, <1>3, <1>4
<1>8. pc[t] = "idle" /\ Unlocked
  BY DEF Alt, Idle
<1>9. CallOf(t, r)
  BY <1>2, <1>4, <1>6, <1>7, <1>8 DEF CallOf, Makes
<1>10. Carries(t, r)
  BY <1>1, <1>2, <1>3, <1>4 DEF Carries, IsSend, Make
<1>. QED  BY <1>5, <1>9, <1>10

(* A thread that is idle has no entries.                                      *)
LEMMA CallMay ==
  ASSUME IInv, NEW t \in Thread, pc[t] = "idle" PROVE May(t, qentry)
<1>1. tag[t] = None /\ Queued(qentry)
  BY DEF IInv, Places
<1>2. Absent(qentry, t)
  BY <1>1 DEF Queued, Member, Absent
<1>. QED  BY <1>1, <1>2 DEF May

(* The steps one by one: a call,                                              *)
LEMMA CallKeeps ==
  ASSUME IInv, NEW t \in Thread, NEW r, CallOf(t, r),
         DOMAIN made' = Thread, \A x \in Thread : made'[x] \in 0 .. MaxSend[x]
  PROVE  IInv'
<1>1. May(t, qentry) /\ Data /\ Control /\ Queued(qentry)
  BY CallMay, InvParts DEF CallOf, IInv
<1>2. Outcome(t, r, qentry) /\ Data'
  BY <1>1, BodyDoes DEF CallOf
<1>3. Control'
  BY <1>1, <1>2, OutcomeKeeps DEF CallOf
<1>. QED  BY <1>2, <1>3 DEF IInv, Typed, Data, Control

(* Back from the rendezvous, a thread dequeues and may go on.                 *)
LEMMA WokenMay ==
  ASSUME IInv, NEW t \in Thread, pc[t] = "woken" PROVE May(t, Leave(t))
<1>1. Queued(Leave(t)) /\ Absent(Leave(t), t)
  BY LeaveDequeues DEF IInv
<1>. QED  BY <1>1 DEF May

(* a waiter on a buffered channel that starts over,                           *)
LEMMA RetryKeeps ==
  ASSUME IInv, NEW t \in Thread, Retry(t) PROVE IInv'
<1>1. pc[t] = "woken" /\ Body(t, req[t], Leave(t)) /\ UNCHANGED made /\ ReqOK(req[t])
  BY DEF Retry, IInv, Places
<1>2. PICK r, q : r = req[t] /\ q = Leave(t)
  OBVIOUS
<1>3. May(t, q) /\ Data /\ Control /\ Queued(qentry)
  BY <1>1, <1>2, WokenMay, InvParts DEF IInv
<1>4. Outcome(t, r, q) /\ Data'
  BY <1>1, <1>2, <1>3, BodyDoes
<1>5. Control'
  BY <1>1, <1>2, <1>3, <1>4, OutcomeKeeps
<1>. QED  BY <1>1, <1>4, <1>5 DEF IInv, Typed, Data, Control

(* The entry that alt reports is one of its Alts for the channel that claimed *)
(* it.                                                                        *)
LEMMA ReportedIs ==
  ASSUME IInv, NEW t \in Thread, Claimed(t)
  PROVE  hit[t] \in Named(t) /\ Reported(t) \in Named(t) /\ \A j \in Named(t) : j <= Reported(t)
<1>1. PICK A \in Seq(Item(Ops)) : A = req[t].alts
  BY DEF IInv, Places, Claimed, ReqOK
<1>2. hit[t] \in 1 .. Len(A) /\ Waits(A[hit[t]], tag[t])
  BY <1>1 DEF IInv, Places, Claimed, ClaimOf
<1>3. Len(A) \in Nat /\ DOMAIN A = 1 .. Len(A)
  OBVIOUS
<1>4. hit[t] \in Named(t) /\ Named(t) \subseteq 1 .. Len(A)
  BY <1>1, <1>2, <1>3 DEF Named, Waits
<1>5. PICK i \in Named(t) : \A j \in Named(t) : i >= j
  BY <1>3, <1>4, GreatestExists
<1>6. \A j \in Named(t) : j <= i
  BY <1>3, <1>4, <1>5
<1>. QED  BY <1>4, <1>6 DEF Reported

(* one on an unbuffered channel that returns,                                 *)
LEMMA ReturnKeeps ==
  ASSUME IInv, NEW t \in Thread, Return(t) PROVE IInv'
<1>1. /\ pc[t] = "woken" /\ qentry' = Leave(t) /\ Finish(t)
      /\ in' = [in EXCEPT ![t] = None] /\ UNCHANGED <<buffer, made>>
      /\ tag[t] # None /\ ReqOK(req[t])
  BY DEF Return, IInv, Places
<1>2. Control'
  <2>1. PICK q : q = Leave(t)
    OBVIOUS
  <2>2. May(t, q) /\ Control
    BY <1>1, <2>1, WokenMay, InvParts
  <2>. QED  BY <1>1, <2>1, <2>2, FinishKeeps
<1>3. sent' \subseteq Value
  <2>1. CASE req[t].alts[Reported(t)].op = "SND"
    <3>1. Reported(t) \in Named(t)
      BY <1>1, ReportedIs DEF Claimed
    <3>2. DOMAIN req[t].alts = 1 .. Len(req[t].alts)
      BY <1>1 DEF ReqOK
    <3>3. req[t].out \in Value
      BY <1>1, <2>1, <3>1, <3>2 DEF ReqOK, Named
    <3>. QED  BY <2>1, <3>3 DEF Return, DidSend, IInv, Typed
  <2>2. CASE req[t].alts[Reported(t)].op # "SND"
    BY <2>2 DEF Return, DidRecv, IInv, Typed
  <2>. QED  BY <2>1, <2>2
<1>4. Buffers'
  BY <1>1 DEF IInv, Typed, Buffers, buffer
<1>. QED  BY <1>1, <1>2, <1>3, <1>4 DEF IInv, Typed, Control

(* and the meeting of claimer and claimed.                                    *)
LEMMA MeetKeeps ==
  ASSUME IInv, NEW t \in Thread, NEW u \in Thread, Meet(t, u) PROVE IInv'
<1>1. /\ Wakes(t, u) /\ pc[u] = "waiting" /\ t # u
      /\ pc' = [pc EXCEPT ![t] = "idle", ![u] = "woken"] /\ peer' = [peer EXCEPT ![t] = None]
      /\ UNCHANGED <<buffer, qentry, tag, req, in, hit, made, sent>>
  BY DEF Meet, Wakes
<1>2. tag[u] # None /\ \A x \in Thread : Wakes(x, u) => x = t
  BY <1>1 DEF IInv, Claims, Wakes
<1>3. /\ pc'[t] = "idle" /\ pc'[u] = "woken"
      /\ \A x \in Thread : x # t => peer'[x] = peer[x]
      /\ \A x \in Thread : x # t /\ x # u => pc'[x] = pc[x]
  BY <1>1 DEF IInv, Typed
<1>4. Typed'
  BY <1>1 DEF IInv, Typed, Location, Buffers, buffer
<1>5. Queued(qentry)'
  <2>1. ASSUME NEW c \in Chan, NEW w, Member(w, c) PROVE Member(w, c)'
    <3>1. w.t \in Thread
      BY <2>1 DEF Member, Entry
    <3>2. pc'[w.t] = "waiting" \/ tag[w.t] # None
      <4>1. tag[t] = None /\ pc[t] = "waking"
        BY <1>1 DEF IInv, Places, Wakes
      <4>. QED  BY <1>2, <1>3, <2>1, <3>1, <4>1 DEF Member
    <3>. QED  BY <1>1, <2>1, <3>2 DEF Member
  <2>. QED  BY <1>1, <2>1 DEF IInv, Queued
<1>6. Places'
  <2>1. SUFFICES ASSUME NEW x \in Thread
                 PROVE  /\ pc'[x] \in {"idle", "waking"} => tag'[x] = None
                        /\ pc'[x] = "woken" => tag'[x] # None
                        /\ pc'[x] \in {"waiting", "woken"} => ReqOK(req'[x])
                        /\ pc'[x] \in {"waiting", "woken"} /\ tag'[x] # None => ClaimOf(x)'
    BY DEF Places, ReqOK
  <2>2. /\ pc[x] \in {"idle", "waking"} => tag[x] = None
        /\ pc[x] = "woken" => tag[x] # None
        /\ pc[x] \in {"waiting", "woken"} => ReqOK(req[x])
        /\ pc[x] \in {"waiting", "woken"} /\ tag[x] # None => ClaimOf(x)
    BY DEF IInv, Places
  <2>3. ClaimOf(x)' <=> ClaimOf(x)
    BY <1>1 DEF ClaimOf
  <2>4. CASE x = t
    <3>1. tag[x] = None
      BY <1>1, <2>2, <2>4 DEF Wakes
    <3>. QED  BY <1>1, <1>3, <2>4, <3>1
  <2>5. CASE x = u
    BY <1>1, <1>2, <1>3, <2>2, <2>3, <2>5
  <2>6. CASE x # t /\ x # u
    BY <1>1, <1>3, <2>2, <2>3, <2>6
  <2>. QED  BY <2>4, <2>5, <2>6
<1>7. Claims'
  <2>1. \A x, y \in Thread : Wakes(x, y)' <=> Wakes(x, y) /\ x # t
    BY <1>1, <1>3 DEF Wakes
  <2>2. ASSUME NEW x \in Thread, pc'[x] = "waking"
        PROVE  peer'[x] \in Thread /\ pc'[peer'[x]] = "waiting" /\ tag'[peer'[x]] # None
    <3>1. x # t /\ x # u /\ pc[x] = "waking" /\ peer'[x] = peer[x]
      BY <1>3, <2>2
    <3>2. peer[x] \in Thread /\ pc[peer[x]] = "waiting" /\ tag[peer[x]] # None
      BY <3>1 DEF IInv, Claims
    <3>3. peer[x] # t /\ peer[x] # u
      BY <1>1, <1>2, <3>1, <3>2 DEF Wakes
    <3>. QED  BY <1>1, <1>3, <3>1, <3>2, <3>3
  <2>3. \A x, z \in Thread : \A y \in Thread : Wakes(x, y)' /\ Wakes(z, y)' => x = z
    BY <2>1 DEF IInv, Claims
  <2>4. ASSUME NEW y \in Thread, pc'[y] = "waiting", tag'[y] # None
        PROVE  \E x \in Thread : Wakes(x, y)'
    <3>1. y # u /\ y # t /\ pc[y] = "waiting" /\ tag[y] # None
      BY <1>1, <1>3, <2>4
    <3>2. PICK x \in Thread : Wakes(x, y)
      BY <3>1 DEF IInv, Claims
    <3>3. x # t
      BY <1>1, <3>1, <3>2 DEF Wakes
    <3>. QED  BY <2>1, <3>2, <3>3
  <2>. QED  BY <2>2, <2>3, <2>4 DEF Claims
<1>. QED  BY <1>4, <1>5, <1>6, <1>7 DEF IInv

(* Nobody has called yet.                                                     *)
LEMMA InitHolds == Init => IInv
<1>. SUFFICES ASSUME Init PROVE IInv
  OBVIOUS
<1>. USE ChannelAssumption DEF Init
<1>1. Typed
  BY DEF Typed, Buffers, Location
<1>2. Queued(qentry)
  BY DEF Queued, Queues
<1>3. Places
  BY DEF Places
<1>4. Claims
  BY DEF Claims, Wakes
<1>. QED  BY <1>1, <1>2, <1>3, <1>4 DEF IInv

(* The inductive invariant holds, in whatever order the threads get chanlock. *)
THEOREM Invariance == Spec => []IInv
<1>1. ASSUME IInv, [Next]_vars PROVE IInv'
  <2>1. CASE UNCHANGED vars
    <3>1. UNCHANGED <<f, n, v, qentry, tag, req, in, pc, peer, hit, made, sent>>
      BY <2>1 DEF vars, buffer
    <3>2. \A x, y : Wakes(x, y)' <=> Wakes(x, y)
      BY <3>1 DEF Wakes
    <3>3. \A x : ClaimOf(x)' <=> ClaimOf(x)
      BY <3>1 DEF ClaimOf
    <3>4. \A w, c : Member(w, c)' <=> Member(w, c)
      BY <3>1 DEF Member
    <3>5. Typed' /\ Claims'
      BY <1>1, <3>1, <3>2 DEF IInv, Typed, Buffers, Claims
    <3>6. Queued(qentry)'
      BY <1>1, <3>1, <3>4 DEF IInv, Queued
    <3>7. Places'
      BY <1>1, <3>1, <3>3 DEF IInv, Places, ReqOK
    <3>. QED  BY <3>5, <3>6, <3>7 DEF IInv
  <2>2. ASSUME NEW t \in Thread, Send(t) \/ Recv(t) \/ Alt(t) PROVE IInv'
    <3>1. /\ \E r : CallOf(t, r)
          /\ DOMAIN made' = Thread /\ \A x \in Thread : made'[x] \in 0 .. MaxSend[x]
      BY <1>1, <2>2, SendCalls, RecvCalls, AltCalls
    <3>. QED  BY <1>1, <3>1, CallKeeps
  <2>3. ASSUME NEW t \in Thread, Return(t) PROVE IInv'
    BY <1>1, <2>3, ReturnKeeps
  <2>4. ASSUME NEW t \in Thread, Retry(t) PROVE IInv'
    BY <1>1, <2>4, RetryKeeps
  <2>5. ASSUME NEW t \in Thread, NEW u \in Thread, Meet(t, u) PROVE IInv'
    BY <1>1, <2>5, MeetKeeps
  <2>. QED  BY <1>1, <2>1, <2>2, <2>3, <2>4, <2>5 DEF Next, Step
<1>. QED  BY InitHolds, <1>1, PTL DEF Spec

-----------------------------------------------------------------------------
(* WHAT FOLLOWS *)

(* Every variable of the channels keeps its type: the uints stay below their  *)
(* bound, and each queue entry names one of its thread's Alts for the channel *)
(* it is queued on, through every retry and dequeue.                          *)
THEOREM TypeCorrect == Spec => []TypeOK
<1>1. ASSUME IInv PROVE TypeOK
  <2>1. ASSUME NEW c \in Chan, NEW k \in Used(qentry, c)
        PROVE  /\ qentry[c][k].t \in Thread
               /\ qentry[c][k].i \in DOMAIN req[qentry[c][k].t].alts
               /\ ItemOf(qentry[c][k]).c = c
    <3>1. Member(qentry[c][k], c)
      BY <1>1, <2>1 DEF IInv, Queued, Used
    <3>. QED  BY <3>1 DEF Member, Entry, Waits, ItemOf
  <2>2. \A c \in Chan : /\ DOMAIN v[c] = 0 .. Size[c] - 1
                        /\ \A k \in DOMAIN v[c] : v[c][k] \in Value \cup {None}
    BY <1>1 DEF IInv, Typed, Buffers
  <2>. QED  BY <1>1, <2>1, <2>2 DEF TypeOK, IInv, Typed, Buffers
<1>. QED  BY <1>1, Invariance, PTL

(* However calls race for one waiter, one of them alone has claimed it and is *)
(* on its way to the rendezvous with it; nobody is on the way to a thread     *)
(* that does not wait for it.                                                 *)
THEOREM OneClaimed == Spec => []OneClaimer
<1>1. ASSUME IInv PROVE OneClaimer
  <2>1. SUFFICES ASSUME NEW u \in Thread
                 PROVE  (pc[u] = "waiting" /\ tag[u] # None)
                          <=> Cardinality({t \in Thread : pc[t] = "waking" /\ peer[t] = u}) = 1
    BY DEF OneClaimer
  <2>. DEFINE W == {t \in Thread : pc[t] = "waking" /\ peer[t] = u}
  <2>2. CASE pc[u] = "waiting" /\ tag[u] # None
    <3>1. PICK t \in Thread : Wakes(t, u)
      BY <1>1, <2>2 DEF IInv, Claims
    <3>2. W = {t}
      BY <1>1, <3>1 DEF IInv, Claims, Wakes
    <3>. QED  BY <2>2, <3>2, FS_Singleton
  <2>3. CASE ~(pc[u] = "waiting" /\ tag[u] # None)
    <3>1. W = {}
      BY <1>1, <2>3 DEF IInv, Claims
    <3>. QED  BY <2>3, <3>1, FS_EmptySet
  <2>. QED  BY <2>2, <2>3
<1>. QED  BY <1>1, Invariance, PTL

(* A thread that waits has made one of its calls.                             *)
CallsMade == \A t \in Thread : pc[t] \in {"waiting", "woken"} => Makes(t, req[t])

(* A call leaves its own list, if anything, with its thread.                  *)
LEMMA ListStays ==
  ASSUME Control, NEW t \in Thread, NEW r, NEW q, Outcome(t, r, q), NEW x \in Thread,
         pc'[x] \in {"waiting", "woken"}
  PROVE  \/ x = t /\ req'[x] = r
         \/ pc[x] \in {"waiting", "woken"} /\ req'[x] = req[x]
<1>1. CASE \E w, c : Claim(t, w, c)
  BY <1>1 DEF Claim, Control
<1>2. CASE Finish(t)
  BY <1>2 DEF Finish, Control
<1>3. CASE Wait(t, r, q)
  BY <1>3 DEF Wait, Control
<1>4. CASE Fatal(t)
  BY <1>4 DEF Fatal, Control
<1>. QED  BY <1>1, <1>2, <1>3, <1>4 DEF Outcome

(* What a thread sleeps with is of a call it has made.                        *)
LEMMA MadeStays ==
  ASSUME Control, CallsMade, NEW t \in Thread, NEW r, NEW q, Outcome(t, r, q), Makes(t, r)
  PROVE  CallsMade'
BY ListStays DEF CallsMade, Makes

(* No step makes up a call.                                                   *)
LEMMA StepsMake ==
  ASSUME IInv, CallsMade, [Next]_vars PROVE CallsMade'
<1>1. CASE UNCHANGED vars
  BY <1>1 DEF vars, CallsMade, Makes
<1>2. ASSUME NEW t \in Thread, Send(t) \/ Recv(t) \/ Alt(t) PROVE CallsMade'
  <2>1. PICK r : CallOf(t, r)
    BY <1>2, SendCalls, RecvCalls, AltCalls
  <2>2. Control /\ Outcome(t, r, qentry)
    BY <2>1, CallMay, InvParts, BodyDoes DEF CallOf, IInv
  <2>. QED  BY <2>1, <2>2, MadeStays DEF CallOf
<1>3. ASSUME NEW t \in Thread, Return(t) PROVE CallsMade'
  BY <1>3 DEF Return, Finish, CallsMade, Makes, IInv, Typed
<1>4. ASSUME NEW t \in Thread, Retry(t) PROVE CallsMade'
  <2>1. PICK r, q : r = req[t] /\ q = Leave(t)
    OBVIOUS
  <2>2. pc[t] = "woken" /\ Body(t, r, q) /\ ReqOK(r) /\ May(t, q)
    BY <1>4, <2>1, WokenMay DEF Retry, IInv, Places
  <2>3. Control /\ Outcome(t, r, q)
    BY <2>2, InvParts, BodyDoes DEF IInv
  <2>4. Makes(t, r)
    BY <2>1, <2>2 DEF CallsMade
  <2>. QED  BY <2>3, <2>4, MadeStays
<1>5. ASSUME NEW t \in Thread, NEW u \in Thread, Meet(t, u) PROVE CallsMade'
  BY <1>5 DEF Meet, CallsMade, Makes, IInv, Typed
<1>. QED  BY <1>1, <1>2, <1>3, <1>4, <1>5 DEF Next, Step

(* Whoever waits has been let to: on its own call, never on that of another.  *)
LEMMA CallsHold == Spec => []CallsMade
<1>1. Init => CallsMade
  BY DEF Init, CallsMade
<1>2. IInv /\ CallsMade /\ [Next]_vars => CallsMade'
  BY StepsMake
<1>. QED  BY <1>1, <1>2, Invariance, PTL DEF Spec

(* An alt list that names no channel twice.                                   *)
Once(A) == \A i, j \in 1 .. Len(A) :
    A[i].c = A[j].c /\ {A[i].op, A[j].op} \subseteq {"SND", "RCV"} => i = j

(* Whatever call a thread waits in, its list names no channel twice then.     *)
LEMMA ReportsHit ==
  ASSUME \A a \in Alts : Once(a[2]), IInv, CallsMade PROVE AltTellsTruth
<1>1. SUFFICES ASSUME NEW t \in Thread, Claimed(t) PROVE Reported(t) = hit[t]
  BY DEF AltTellsTruth
<1>2. hit[t] \in Named(t) /\ Reported(t) \in Named(t)
  BY <1>1, ReportedIs
<1>3. ReqOK(req[t]) /\ Makes(t, req[t])
  BY <1>1 DEF CallsMade, Claimed, IInv, Places
<1>4. DOMAIN req[t].alts = 1 .. Len(req[t].alts)
  BY <1>3 DEF ReqOK
<1>5. Once(req[t].alts)
  <2>1. CASE Len(req[t].alts) = 1
    BY <2>1 DEF Once
  <2>2. CASE <<t, req[t].alts>> \in Alts
    BY <2>2
  <2>. QED  BY <1>3, <2>1, <2>2 DEF Makes, ReqOK
<1>. QED  BY <1>2, <1>4, <1>5 DEF Named, Once

(* alt reports the entry that has happened to every caller whose lists name   *)
(* no channel twice: the channel that it finds in the tag then tells the      *)
(* entry. (For a list that sends and receives on one channel it need not.)    *)
THEOREM AltReportsIt == ASSUME \A a \in Alts : Once(a[2]) PROVE Spec => []AltTellsTruth
<1>1. IInv /\ CallsMade => AltTellsTruth
  BY ReportsHit
<1>. QED  BY <1>1, CallsHold, Invariance, PTL

-----------------------------------------------------------------------------
(* WHO SHARES A CHANNEL *)

(* The threads that use one end of channel c.                                 *)
Users(c, op) ==
    {t \in Thread : \/ op = "SND" /\ <<t, c>> \in Sends
                    \/ op = "RCV" /\ <<t, c>> \in Recvs
                    \/ \E a \in Alts : a[1] = t /\ \E i \in 1 .. Len(a[2]) :
                                          a[2][i].c = c /\ a[2][i].op = op}

(* An alt that can be claimed on a buffered channel has that end of it to     *)
(* itself: when it starts over it may go on by another channel, and then      *)
(* leaves what it was woken for behind.                                       *)
AltsApart == \A a \in Alts : \A i \in 1 .. Len(a[2]) :
    a[2][i].op \in {"SND", "RCV"} /\ Size[a[2][i].c] # 0
       => Users(a[2][i].c, a[2][i].op) = {a[1]}

Given == AltsApart /\ IsFiniteSet(Thread)

-----------------------------------------------------------------------------
(* THE INVARIANT, IN TERMS OF THREADS *)

(* x is queued on c, and nobody has claimed it.                               *)
Rests(x, c, op) == /\ tag[x] = None
                   /\ \E k \in Slot : /\ qentry[c][k] # None
                                      /\ qentry[c][k].t = x
                                      /\ ItemOf(qentry[c][k]).op = op

(* An unbuffered channel has no values in it.                                 *)
Direct == \A c \in Chan : Size[c] = 0 => n[c] = 0

NoPair == \A c \in Chan : \A x, y \in Thread :
             Rests(x, c, "SND") /\ Rests(y, c, "RCV") => x = y
NoValue == \A c \in Chan : \A x \in Thread :
              Rests(x, c, "RCV") => n[c] <= Cardinality(Bound(c, "RCV"))
NoRoom == \A c \in Chan : \A x \in Thread :
             Rests(x, c, "SND") => Size[c] - n[c] <= Cardinality(Bound(c, "SND"))

Cared == Direct /\ NoPair /\ NoValue /\ NoRoom

(* What is to be proved, from the stronger statement.                         *)
LEMMA CaredFor == IInv /\ Cared => NoForgottenWaiter
<1>. SUFFICES ASSUME IInv, Cared PROVE NoForgottenWaiter
  OBVIOUS
<1>1. ASSUME NEW c \in Chan, NEW op \in {"SND", "RCV"}, NEW w \in Asleep(c, op)
      PROVE  w.t \in Thread /\ Rests(w.t, c, op)
  <2>1. PICK k \in Peers(qentry, c, Co(op)) : w = qentry[c][k]
    BY <1>1 DEF Asleep
  <2>2. k \in Slot /\ w # None /\ ItemOf(w).op = op /\ tag[w.t] = None
    BY <2>1 DEF Peers, Used, Co
  <2>3. Member(w, c)
    BY <2>1, <2>2 DEF IInv, Queued
  <2>. QED  BY <2>1, <2>2, <2>3 DEF Rests, Member, Entry
<1>. QED  BY <1>1 DEF NoForgottenWaiter, Cared, NoPair, NoValue, NoRoom

(* Whoever rests on an end of a channel uses it.                              *)
LEMMA RestsUses ==
  ASSUME IInv, CallsMade, NEW c \in Chan, NEW op \in {"SND", "RCV"}, NEW x \in Thread,
         Rests(x, c, op)
  PROVE  pc[x] = "waiting" /\ x \in Users(c, op)
<1>1. PICK i \in 1 .. Len(req[x].alts) :
             req[x].alts[i].c = c /\ req[x].alts[i].op = op /\ pc[x] = "waiting"
  BY DEF Rests, IInv, Queued, Member, Waits, ItemOf
<1>2. ReqOK(req[x]) /\ Makes(x, req[x])
  BY <1>1 DEF IInv, Places, CallsMade
<1>3. CASE req[x].call = "Callalt"
  BY <1>1, <1>2, <1>3 DEF Makes, Users
<1>4. CASE req[x].call # "Callalt"
  <2>1. i = 1
    BY <1>1, <1>2, <1>4 DEF Makes, ReqOK
  <2>. QED  BY <1>1, <1>2, <1>4, <2>1 DEF Makes, ReqOK, Users
<1>. QED  BY <1>1, <1>3, <1>4

(* Nobody else rests where an alt may be claimed on a buffered channel.       *)
LEMMA AltAlone ==
  ASSUME Given, IInv, CallsMade, NEW t \in Thread, NEW r, Makes(t, r), r.call = "Callalt",
         NEW i \in 1 .. Len(r.alts), NEW c \in Chan, NEW op \in {"SND", "RCV"},
         r.alts[i].c = c, r.alts[i].op = op, Size[c] # 0,
         NEW x \in Thread, Rests(x, c, op)
  PROVE  x = t
<1>1. <<t, r.alts>> \in Alts
  BY DEF Makes
<1>2. Users(c, op) = {t}
  BY <1>1 DEF Given, AltsApart
<1>. QED  BY <1>2, RestsUses

(* A thread that has been woken for what others wait for too has been woken   *)
(* from a send or a recv on just that channel.                                *)
LEMMA BoundIsPlain ==
  ASSUME Given, IInv, CallsMade, NEW c \in Chan, NEW op \in {"SND", "RCV"}, Size[c] # 0,
         NEW t \in Bound(c, op), NEW x \in Thread, Rests(x, c, op)
  PROVE  /\ req[t].call # "Callalt" /\ Len(req[t].alts) = 1
         /\ req[t].alts[1].c = c /\ req[t].alts[1].op = op
<1>1. /\ t \in Thread /\ tag[t] = c /\ tag[t] # None /\ pc[t] \in {"waiting", "woken"}
      /\ req[t].alts[hit[t]].op = op
  BY DEF Bound, Claimed
<1>2. ReqOK(req[t]) /\ ClaimOf(t) /\ Makes(t, req[t])
  BY <1>1 DEF IInv, Places, CallsMade
<1>3. hit[t] \in 1 .. Len(req[t].alts) /\ req[t].alts[hit[t]].c = c
  BY <1>1, <1>2 DEF ClaimOf, Waits
<1>4. x # t
  BY <1>1 DEF Rests
<1>5. req[t].call # "Callalt"
  BY <1>1, <1>2, <1>3, <1>4, AltAlone
<1>6. Len(req[t].alts) = 1 /\ hit[t] = 1
  BY <1>2, <1>3, <1>5 DEF ReqOK, Makes
<1>. QED  BY <1>1, <1>3, <1>5, <1>6

-----------------------------------------------------------------------------
(* HOW A CALL COMES OUT *)

(* The queues q are those of now without the entries of t.                    *)
Kept(t, q) == \A c \in Chan : \A k \in Slot :
                 q[c][k] = IF qentry[c][k] # None /\ qentry[c][k].t = t
                             THEN None ELSE qentry[c][k]

(* t makes call r for the first time, or starts over.                         *)
Calling(t, r, q) == /\ t \in Thread /\ ReqOK(r) /\ Makes(t, r)
                    /\ May(t, q) /\ Kept(t, q)
                    /\ pc[t] = "woken" => r = req[t]

Stuck(c, op) == IF op = "SND" THEN ~HasRoom(c) ELSE n[c] = 0

(* It goes on by end op of channel c: with room, or a value; past the buffer; *)
(* or (alt) through the buffer though there is no room, or no value.          *)
Through(t, r, q, c, op) ==
    /\ qentry' = q
    /\ IF Peers(q, c, op) = {} THEN Finish(t) ELSE Claim(t, FirstPeer(q, c, op), c)
    /\ \A d \in Chan : d # c => n'[d] = n[d]
    /\ \/ ~Stuck(c, op) /\ n'[c] = IF op = "SND" THEN n[c] + 1 ELSE n[c] - 1
       \/ Peers(q, c, op) # {} /\ Stuck(c, op) /\ n'[c] = n[c]
       \/ /\ Peers(q, c, op) # {} /\ Stuck(c, op)
          /\ r.call = "Callalt" /\ Size[c] # 0
          /\ IF op = "SND" THEN n'[c] \in 0 .. n[c] + 1 ELSE n'[c] = UMod - 1

Blocked(t, r, q) ==
    /\ Wait(t, r, q)
    /\ \A i \in 1 .. Len(r.alts) : r.alts[i].op \in {"SND", "RCV"} =>
          Peers(q, r.alts[i].c, r.alts[i].op) = {} /\ Stuck(r.alts[i].c, r.alts[i].op)

ComesOut(t, r, q) ==
    \/ \E i \in 1 .. Len(r.alts) : /\ r.alts[i].op \in {"SND", "RCV"}
                                   /\ Through(t, r, q, r.alts[i].c, r.alts[i].op)
    \/ Blocked(t, r, q)
    \/ Fatal(t) /\ r.call = "Callalt"

(* What Put and Take do to n.                                                 *)
LEMMA PutCounts ==
  ASSUME Buffers, NEW c \in Chan, NEW m, Put(c, m)
  PROVE  /\ \A d \in Chan : d # c => n'[d] = n[d]
         /\ n'[c] \in 0 .. n[c] + 1
         /\ HasRoom(c) => n'[c] = n[c] + 1
<1>1. UMod \in Nat \ {0} /\ Size[c] \in Nat /\ Size[c] < UMod /\ n[c] \in 0 .. UMod - 1
  BY ChannelAssumption DEF Buffers
<1>2. n' = [n EXCEPT ![c] = (n[c] + 1) % UMod] /\ DOMAIN n = Chan
  BY DEF Put, Buffers
<1>3. n[c] + 1 < UMod => (n[c] + 1) % UMod = n[c] + 1
  BY <1>1
<1>4. n[c] + 1 = UMod => (n[c] + 1) % UMod = 0
  BY <1>1
<1>5. (n[c] + 1) % UMod \in 0 .. n[c] + 1
  BY <1>1, <1>3, <1>4
<1>6. HasRoom(c) => n[c] + 1 < UMod
  BY <1>1 DEF HasRoom
<1>. QED  BY <1>2, <1>3, <1>5, <1>6

(* Taking a value counts the buffer down (around, when it was empty).         *)
LEMMA TakeCounts ==
  ASSUME Buffers, NEW c \in Chan, Take(c)
  PROVE  /\ \A d \in Chan : d # c => n'[d] = n[d]
         /\ n[c] # 0 => n'[c] = n[c] - 1
         /\ n[c] = 0 => n'[c] = UMod - 1
<1>1. UMod \in Nat \ {0} /\ n[c] \in 0 .. UMod - 1
  BY ChannelAssumption DEF Buffers
<1>2. n' = [n EXCEPT ![c] = (n[c] + UMod - 1) % UMod] /\ DOMAIN n = Chan
  BY DEF Take, Buffers
<1>3. n[c] # 0 => (n[c] + UMod - 1) % UMod = n[c] - 1
  <2>1. SUFFICES ASSUME n[c] # 0 PROVE (UMod + (n[c] - 1)) % UMod = n[c] - 1
    BY <1>1
  <2>2. n[c] - 1 \in 0 .. UMod - 1
    BY <1>1, <2>1
  <2>. QED  BY <1>1, <2>2
<1>4. n[c] = 0 => (n[c] + UMod - 1) % UMod = UMod - 1
  BY <1>1
<1>. QED  BY <1>2, <1>3, <1>4

(* A send goes through one channel, or nowhere, or sleeps.                    *)
LEMMA SendComesOut ==
  ASSUME Buffers, NEW t, NEW r, NEW q, ReqOK(r), r.call \in {"Callsnd", "nbsend"},
         SendBody(t, r, q)
  PROVE  ComesOut(t, r, q)
<1>1. Len(r.alts) = 1 /\ r.alts[1].op = "SND" /\ 1 \in 1 .. Len(r.alts)
  BY DEF ReqOK
<1>2. r.alts[1] \in Item(Ops)
  BY <1>1, ElementOfSeq DEF ReqOK
<1>3. PICK c \in Chan : c = r.alts[1].c
  BY <1>2 DEF Item
<1>4. SendToWaiter(t, r, c, q) => Through(t, r, q, c, "SND")
  BY <1>3, PutCounts DEF SendToWaiter, Through, Stuck, buffer
<1>5. SendToBuffer(t, r, c, q) => Through(t, r, q, c, "SND")
  BY <1>3, PutCounts DEF SendToBuffer, Through, Stuck
<1>6. SendBlocks(t, r, c, q) => Blocked(t, r, q)
  BY <1>1, <1>3 DEF SendBlocks, Blocked, Stuck
<1>. QED  BY <1>1, <1>3, <1>4, <1>5, <1>6 DEF SendBody, ComesOut

(* So does a receive,                                                         *)
LEMMA RecvComesOut ==
  ASSUME Buffers, NEW t, NEW r, NEW q, ReqOK(r), r.call \in {"Callrcv", "nbrecv"},
         RecvBody(t, r, q)
  PROVE  ComesOut(t, r, q)
<1>1. Len(r.alts) = 1 /\ r.alts[1].op = "RCV" /\ 1 \in 1 .. Len(r.alts)
  BY DEF ReqOK
<1>2. r.alts[1] \in Item(Ops)
  BY <1>1, ElementOfSeq DEF ReqOK
<1>3. PICK c \in Chan : c = r.alts[1].c
  BY <1>2 DEF Item
<1>4. RecvFromWaiter(t, c, q) => Through(t, r, q, c, "RCV")
  BY <1>3, TakeCounts DEF RecvFromWaiter, Through, Stuck, buffer
<1>5. RecvFromBuffer(t, c, q) => Through(t, r, q, c, "RCV")
  BY <1>3, TakeCounts DEF RecvFromBuffer, Through, Stuck
<1>6. RecvBlocks(t, r, c, q) => Blocked(t, r, q)
  BY <1>1, <1>3 DEF RecvBlocks, Blocked, Stuck
<1>. QED  BY <1>1, <1>3, <1>4, <1>5, <1>6 DEF RecvBody, ComesOut

(* and an alt, by the item it chooses.                                        *)
LEMMA AltComesOut ==
  ASSUME Buffers, Direct, NEW t, NEW r, NEW q, ReqOK(r), r.call = "Callalt", AltBody(t, r, q)
  PROVE  ComesOut(t, r, q)
<1>1. ASSUME NEW i \in 1 .. Len(r.alts)
      PROVE  r.alts[i].c \in Chan
  <2>1. r.alts[i] \in Item(Ops)
    BY ElementOfSeq DEF ReqOK
  <2>. QED  BY <2>1 DEF Item
<1>2. CASE AltGoes(t, r, q)
  <2>1. PICK i \in Ready(q, r.alts) :
             AltByBuffer(t, r, r.alts[i], q) \/ AltByWaiter(t, r, r.alts[i], q)
    BY <1>2 DEF AltGoes
  <2>2. i \in 1 .. Len(r.alts) /\ CanGo(q, r.alts[i]) /\ qentry' = q
    BY <1>2, <2>1 DEF Ready, AltGoes
  <2>3. PICK c \in Chan, op \in {r.alts[i].op} : c = r.alts[i].c /\ op = r.alts[i].op
    BY <1>1, <2>2
  <2>4. op \in {"SND", "RCV"}
    BY <2>2, <2>3 DEF CanGo, ByBuffer
  <2>5. /\ UNCHANGED n \/ (Size[c] # 0 /\ op = "SND" /\ Put(c, r.out))
                       \/ (Size[c] # 0 /\ op = "RCV" /\ Take(c))
        /\ Size[c] = 0 => UNCHANGED n
        /\ Size[c] # 0 => IF op = "SND" THEN Put(c, r.out) ELSE Take(c)
    BY <2>1, <2>3, <2>4 DEF AltByBuffer, AltByWaiter, AltBuffer, buffer
  <2>6. CASE AltByBuffer(t, r, r.alts[i], q)
    <3>1. ~Stuck(c, op) /\ Size[c] # 0
      <4>1. Size[c] \in Nat /\ n[c] \in Nat
        BY ChannelAssumption DEF Buffers
      <4>. QED  BY <2>3, <2>4, <2>6, <4>1 DEF AltByBuffer, ByBuffer, Stuck, HasRoom, Direct
    <3>2. n'[c] = IF op = "SND" THEN n[c] + 1 ELSE n[c] - 1
      BY <2>4, <2>5, <3>1, PutCounts, TakeCounts DEF Stuck
    <3>3. \A d \in Chan : d # c => n'[d] = n[d]
      BY <2>5, <3>1, PutCounts, TakeCounts
    <3>4. IF Peers(q, c, op) = {} THEN Finish(t) ELSE Claim(t, FirstPeer(q, c, op), c)
      BY <2>3, <2>6 DEF AltByBuffer
    <3>5. Through(t, r, q, c, op)
      BY <2>2, <3>1, <3>2, <3>3, <3>4 DEF Through
    <3>. QED  BY <2>2, <2>3, <2>4, <3>5 DEF ComesOut
  <2>7. CASE AltByWaiter(t, r, r.alts[i], q)
    <3>1. Stuck(c, op) /\ Peers(q, c, op) # {} /\ Claim(t, FirstPeer(q, c, op), c)
      BY <2>2, <2>3, <2>4, <2>7 DEF AltByWaiter, ByBuffer, CanGo, Stuck
    <3>2. CASE Size[c] = 0
      <4>. QED  BY <2>2, <2>3, <2>4, <2>5, <3>1, <3>2 DEF ComesOut, Through
    <3>3. CASE Size[c] # 0
      <4>1. \A d \in Chan : d # c => n'[d] = n[d]
        BY <2>5, <3>3, PutCounts, TakeCounts
      <4>2. IF op = "SND" THEN n'[c] \in 0 .. n[c] + 1 ELSE n'[c] = UMod - 1
        BY <2>4, <2>5, <3>1, <3>3, PutCounts, TakeCounts DEF Stuck
      <4>3. Through(t, r, q, c, op)
        BY <2>2, <3>1, <3>3, <4>1, <4>2 DEF Through
      <4>. QED  BY <2>2, <2>3, <2>4, <4>3 DEF ComesOut
    <3>. QED  BY <3>2, <3>3
  <2>. QED  BY <2>1, <2>6, <2>7
<1>3. CASE AltBlocks(t, r, q)
  <2>1. CASE Wait(t, r, q)
    <3>1. ASSUME NEW i \in 1 .. Len(r.alts), r.alts[i].op \in {"SND", "RCV"}
          PROVE  Peers(q, r.alts[i].c, r.alts[i].op) = {} /\ Stuck(r.alts[i].c, r.alts[i].op)
      <4>1. ~CanGo(q, r.alts[i])
        BY <1>3 DEF AltBlocks, Ready
      <4>. QED  BY <3>1, <4>1 DEF CanGo, ByBuffer, Stuck
    <3>. QED  BY <2>1, <3>1 DEF ComesOut, Blocked
  <2>2. CASE Fatal(t)
    BY <2>2 DEF ComesOut
  <2>. QED  BY <1>3, <2>1, <2>2 DEF AltBlocks, Fatal
<1>. QED  BY <1>2, <1>3 DEF AltBody

(* Every call, and every call that starts over.                               *)
LEMMA BodyComesOut ==
  ASSUME Buffers, Direct, NEW t, NEW r, NEW q, ReqOK(r), Body(t, r, q)
  PROVE  ComesOut(t, r, q)
BY SendComesOut, RecvComesOut, AltComesOut DEF Body

-----------------------------------------------------------------------------
(* WHO RESTS, AND WHO HAS BEEN WOKEN, AFTER A CALL *)

(* Set A loses t at most, and set B has what is left of it.                   *)
LEMMA Tally ==
  ASSUME NEW T, IsFiniteSet(T), NEW A, A \subseteq T, NEW B, B \subseteq T, NEW t,
         \A x \in A : x # t => x \in B
  PROVE  /\ Cardinality(A) \in Nat /\ Cardinality(B) \in Nat
         /\ Cardinality(A) <= Cardinality(B) + 1
         /\ t \notin A => Cardinality(A) <= Cardinality(B)
         /\ \A w \in B : t \notin A /\ w \notin A => Cardinality(A) + 1 <= Cardinality(B)
<1>1. IsFiniteSet(A) /\ IsFiniteSet(B) /\ Cardinality(A) \in Nat /\ Cardinality(B) \in Nat
  BY FS_Subset, FS_CardinalityType
<1>2. CASE t \in A
  <2>1. Cardinality(A \ {t}) = Cardinality(A) - 1
    BY <1>2, OneLess
  <2>2. Cardinality(A \ {t}) <= Cardinality(B)
    BY <1>1, FS_Subset
  <2>. QED  BY <1>1, <1>2, <2>1, <2>2
<1>3. CASE t \notin A
  <2>1. A \subseteq B
    BY <1>3
  <2>2. Cardinality(A) <= Cardinality(B)
    BY <1>1, <2>1, FS_Subset
  <2>3. ASSUME NEW w \in B, w \notin A PROVE Cardinality(A) + 1 <= Cardinality(B)
    <3>1. Cardinality(A \cup {w}) = Cardinality(A) + 1
      BY <2>1, <2>3, OneMore
    <3>2. Cardinality(A \cup {w}) <= Cardinality(B)
      BY <1>1, <2>1, <2>3, FS_Subset
    <3>. QED  BY <3>1, <3>2
  <2>. QED  BY <1>1, <1>3, <2>2, <2>3
<1>. QED  BY <1>2, <1>3

(* The others that rest are found in the queue that the call looks at.        *)
LEMMA RestsIsPeer ==
  ASSUME IInv, NEW t, NEW q, Kept(t, q), NEW c \in Chan, NEW op \in {"SND", "RCV"},
         NEW x, x # t, Rests(x, c, Co(op))
  PROVE  Peers(q, c, op) # {}
<1>1. PICK k \in Slot : /\ qentry[c][k] # None /\ qentry[c][k].t = x
                        /\ ItemOf(qentry[c][k]).op = Co(op) /\ tag[x] = None
  BY DEF Rests
<1>2. q[c][k] = qentry[c][k]
  BY <1>1 DEF Kept
<1>. QED  BY <1>1, <1>2 DEF Peers, Used

(* Nobody comes to rest but the caller, if it blocks.                         *)
LEMMA OthersRest ==
  ASSUME Control, NEW t \in Thread, NEW r, NEW q, Kept(t, q), ReqOK(r), Queued(q),
         (qentry' = q /\ (Finish(t) \/ \E y : \E d \in Chan : Claim(t, y, d))) \/ Wait(t, r, q) \/ Fatal(t),
         NEW c \in Chan, NEW op, NEW x \in Thread, x # t, Rests(x, c, op)'
  PROVE  Rests(x, c, op)
<1>1. PICK k \in Slot : LET w == qentry'[c][k]
                        IN  w # None /\ w.t = x /\ tag'[x] = None /\ req'[x].alts[w.i].op = op
  BY DEF Rests, ItemOf
<1>2. qentry'[c][k] = qentry[c][k]
  <2>1. CASE qentry' = q
    BY <1>1, <2>1 DEF Kept
  <2>2. CASE Wait(t, r, q)
    <3>1. qentry' \in Entered(q, t, r.alts)
      BY <2>2, EnterAllAdds DEF Wait, Queued, ReqOK
    <3>2. qentry'[c][k] = q[c][k] \/ \E i \in Nat : qentry'[c][k] = [t |-> t, i |-> i]
      BY <3>1 DEF Entered
    <3>3. PICK w : w = qentry'[c][k]
      OBVIOUS
    <3>4. w.t = x
      BY <1>1, <3>3
    <3>5. \A i \in Nat : w # [t |-> t, i |-> i]
      BY <3>4
    <3>6. qentry'[c][k] = q[c][k]
      BY <3>2, <3>3, <3>5
    <3>. QED  BY <1>1, <3>6 DEF Kept
  <2>3. CASE Fatal(t)
    BY <2>3 DEF Fatal
  <2>. QED  BY <2>1, <2>2, <2>3
<1>3. req'[x] = req[x] /\ tag[x] = None
  <2>1. CASE Finish(t)
    BY <1>1, <2>1 DEF Finish, Control
  <2>2. ASSUME NEW y, NEW d \in Chan, Claim(t, y, d) PROVE req'[x] = req[x] /\ tag[x] = None
    BY <1>1, <2>2, ChannelAssumption DEF Claim, Control
  <2>3. CASE Wait(t, r, q)
    BY <1>1, <2>3 DEF Wait, Control
  <2>4. CASE Fatal(t)
    BY <1>1, <2>4 DEF Fatal
  <2>. QED  BY <2>1, <2>2, <2>3, <2>4
<1>. QED  BY <1>1, <1>2, <1>3 DEF Rests, ItemOf

(* Who is bound for a channel's value or room stays so when another moves.    *)
LEMMA OthersBound ==
  ASSUME Control, NEW t \in Thread, NEW r, NEW q,
         (\/ Finish(t)
          \/ \E d \in Chan : \E y : Found(q, d, y) /\ Claim(t, y, d)
          \/ Wait(t, r, q)
          \/ Fatal(t)),
         NEW c \in Chan, NEW op, NEW x \in Bound(c, op), x # t
  PROVE  x \in Bound(c, op)'
<1>1. /\ x \in Thread /\ tag[x] = c /\ tag[x] # None /\ pc[x] \in {"waiting", "woken"}
      /\ req[x].alts[hit[x]].op = op
  BY DEF Bound, Claimed
<1>2. tag'[x] = tag[x] /\ pc'[x] = pc[x] /\ req'[x] = req[x] /\ hit'[x] = hit[x]
  <2>1. CASE Finish(t)
    BY <1>1, <2>1 DEF Finish, Control
  <2>2. ASSUME NEW d, NEW y, Found(q, d, y), Claim(t, y, d)
        PROVE  tag'[x] = tag[x] /\ pc'[x] = pc[x] /\ req'[x] = req[x] /\ hit'[x] = hit[x]
    <3>1. y.t # x
      BY <1>1, <2>2 DEF Found
    <3>. QED  BY <1>1, <2>2, <3>1 DEF Claim, Control
  <2>3. CASE Wait(t, r, q)
    BY <1>1, <2>3 DEF Wait, Control
  <2>4. CASE Fatal(t)
    BY <1>1, <2>4 DEF Fatal, Control
  <2>. QED  BY <2>1, <2>2, <2>3, <2>4
<1>. QED  BY <1>1, <1>2 DEF Bound, Claimed

(* A claim adds one to those that have been woken.                            *)
LEMMA ClaimBinds ==
  ASSUME Control, NEW t, NEW q, May(t, q), NEW c \in Chan, NEW op \in {"SND", "RCV"},
         Peers(q, c, op) # {}, Claim(t, FirstPeer(q, c, op), c), qentry' = q
  PROVE  \E u \in Thread : u \in Bound(c, Co(op))' /\ u \notin Bound(c, Co(op))
<1>1. PICK w : /\ w = FirstPeer(q, c, op) /\ Found(q, c, w) /\ ItemOf(w).op = Co(op)
               /\ Claim(t, w, c)
  BY PeerFound DEF Control
<1>2. PICK k \in Slot : w = q[c][k] /\ w # None /\ tag[w.t] = None
  BY <1>1 DEF Found
<1>3. Member(w, c) /\ w.t # t /\ t \in Thread
  BY <1>2 DEF May, Queued, Absent
<1>4. PICK u \in Thread : u = w.t
  BY <1>3 DEF Member, Entry
<1>5. /\ u # t /\ tag[u] = None /\ pc[u] = "waiting" /\ c # None
      /\ req[u].alts[w.i].op = Co(op)
  BY <1>1, <1>2, <1>3, <1>4, ChannelAssumption DEF Member, ItemOf
<1>6. /\ tag' = [tag EXCEPT ![t] = None, ![u] = c] /\ hit' = [hit EXCEPT ![t] = 0, ![u] = w.i]
      /\ pc' = [pc EXCEPT ![t] = "waking"] /\ req' = [req EXCEPT ![t] = NoReq]
  BY <1>1, <1>4 DEF Claim
<1>7. tag'[u] = c /\ hit'[u] = w.i /\ pc'[u] = "waiting" /\ req'[u] = req[u]
  BY <1>3, <1>5, <1>6 DEF Control
<1>. QED  BY <1>5, <1>7 DEF Bound, Claimed

-----------------------------------------------------------------------------
(* NO WAKE-UP IS FORGOTTEN *)

(* What is there, at channel c, for those that rest on end op of it.          *)
Left(c, op) == IF op = "RCV" THEN n[c] ELSE Size[c] - n[c]
Served(op) == \A c \in Chan : \A x \in Thread :
                 Rests(x, c, op) => Left(c, op) <= Cardinality(Bound(c, op))

(* The stronger statement in its parts.                                       *)
LEMMA CaredParts == Cared <=> Direct /\ NoPair /\ Served("RCV") /\ Served("SND")
BY DEF Cared, NoValue, NoRoom, Served, Left

(* The counts are numbers that SMT can compare.                               *)
LEMMA Numbers ==
  ASSUME IInv PROVE \A c \in Chan : n[c] \in Nat /\ Size[c] \in Nat /\ Size[c] < UMod /\ UMod \in Nat
BY ChannelAssumption DEF IInv, Typed, Buffers

(* What the caller had been woken for is what it has just called for.         *)
LEMMA CallerBound ==
  ASSUME Given, IInv, CallsMade, NEW t, NEW r, NEW q, Calling(t, r, q),
         NEW c \in Chan, NEW op \in {"SND", "RCV"}, Size[c] # 0, t \in Bound(c, op),
         NEW x \in Thread, Rests(x, c, op)
  PROVE  /\ r.call # "Callalt" /\ Len(r.alts) = 1
         /\ r.alts[1].c = c /\ r.alts[1].op = op
<1>1. pc[t] = "woken"
  BY DEF Bound, Claimed, Calling, May
<1>2. r = req[t]
  BY <1>1 DEF Calling
<1>. QED  BY <1>2, BoundIsPlain

(* A call that goes through a channel leaves nobody asleep beside it.         *)
LEMMA ThroughKeeps ==
  ASSUME Given, IInv, IInv', CallsMade, Cared, NEW t, NEW r, NEW q, Calling(t, r, q),
         NEW i \in 1 .. Len(r.alts), NEW c \in Chan, NEW op \in {"SND", "RCV"},
         r.alts[i].c = c, r.alts[i].op = op, Through(t, r, q, c, op)
  PROVE  Cared'
<1>1. Control /\ t \in Thread /\ ReqOK(r) /\ May(t, q) /\ Kept(t, q) /\ Makes(t, r)
  BY InvParts DEF Calling
<1>2. \/ Peers(q, c, op) = {} /\ Finish(t)
      \/ Peers(q, c, op) # {} /\ \E w : w = FirstPeer(q, c, op) /\ Found(q, c, w) /\ Claim(t, w, c)
  BY <1>1, PeerFound DEF Through, Control
<1>3. ASSUME NEW d \in Chan, NEW o \in {"SND", "RCV"}, NEW x \in Thread, Rests(x, d, o)'
      PROVE  x # t /\ Rests(x, d, o)
  <2>1. x # t
    BY <1>1, <1>3 DEF Rests, Through, May, Absent
  <2>. QED  BY <1>1, <1>2, <1>3, <2>1, OthersRest DEF May, Through
<1>4. \A d \in Chan : \A o \in {"SND", "RCV"} : \A x \in Bound(d, o) :
         x # t => x \in Bound(d, o)'
  BY <1>1, <1>2, OthersBound
<1>5. \A d \in Chan : n[d] \in Nat /\ n'[d] \in Nat /\ Size[d] \in Nat /\ Size[d] < UMod /\ UMod \in Nat
  BY Numbers, ChannelAssumption DEF IInv, Typed, Buffers
<1>6. \A d \in Chan : d # c => n'[d] = n[d]
  BY DEF Through
<1>7. Size[c] = 0 => n'[c] = 0 /\ n[c] = 0
  BY <1>5 DEF Cared, Direct, Through, Stuck, HasRoom
<1>8. Direct'
  BY <1>6, <1>7 DEF Cared, Direct
<1>9. NoPair'
  BY <1>3 DEF Cared, NoPair
<1>10. ASSUME NEW d \in Chan, NEW o \in {"SND", "RCV"}, NEW x \in Thread, Rests(x, d, o)'
       PROVE  Left(d, o)' <= Cardinality(Bound(d, o)')
  <2>1. x # t /\ Rests(x, d, o)
    BY <1>3, <1>10
  <2>2. PICK A, B : A = Bound(d, o) /\ B = Bound(d, o)'
    OBVIOUS
  <2>3. A \subseteq Thread /\ B \subseteq Thread /\ IsFiniteSet(Thread)
    BY <2>2 DEF Bound, Given
  <2>4. \A y \in A : y # t => y \in B
    BY <1>4, <2>2
  <2>5. /\ Cardinality(A) \in Nat /\ Cardinality(B) \in Nat
        /\ Cardinality(A) <= Cardinality(B) + 1
        /\ t \notin A => Cardinality(A) <= Cardinality(B)
        /\ \A w \in B : t \notin A /\ w \notin A => Cardinality(A) + 1 <= Cardinality(B)
    BY <2>3, <2>4, Tally
  <2>6. Left(d, o) <= Cardinality(A)
    BY <1>10, <2>1, <2>2, CaredParts DEF Served
  <2>7. PICK l, m : l = Left(d, o) /\ m = Left(d, o)'
    OBVIOUS
  <2>8. l \in Int /\ m \in Int
    BY <1>5, <2>7 DEF Left
  <2>9. CASE Size[d] = 0
    <3>1. n'[d] = 0
      BY <1>8, <2>9 DEF Direct
    <3>. QED  BY <2>2, <2>5, <2>9, <3>1 DEF Left
  <2>10. CASE Size[d] # 0 /\ d # c
    <3>1. m = l
      BY <1>6, <2>7, <2>10 DEF Left
    <3>2. t \notin A
      BY <2>1, <2>2, <2>10, CallerBound, <1>1
    <3>. QED  BY <2>2, <2>5, <2>6, <2>7, <2>8, <3>1, <3>2
  <2>11. r.call = "Callalt" /\ Size[c] # 0 /\ d = c /\ o = op => FALSE
    BY <1>1, <2>1, AltAlone
  <2>12. CASE Size[d] # 0 /\ d = c /\ o = op
    <3>1. m = l - 1 \/ (m = l /\ l <= 0)
      <4>1. CASE ~Stuck(c, op) /\ n'[c] = IF op = "SND" THEN n[c] + 1 ELSE n[c] - 1
        BY <1>5, <2>7, <2>12, <4>1 DEF Left
      <4>2. CASE Stuck(c, op) /\ n'[c] = n[c]
        BY <1>5, <2>7, <2>12, <4>2 DEF Left, Stuck, HasRoom
      <4>. QED  BY <2>11, <2>12, <4>1, <4>2 DEF Through
    <3>. QED  BY <2>2, <2>5, <2>6, <2>7, <2>8, <3>1
  <2>13. CASE Size[d] # 0 /\ d = c /\ o # op
    <3>1. o = Co(op)
      BY <2>13 DEF Co
    <3>2. Peers(q, c, op) # {}
      BY <1>1, <2>1, <2>13, <3>1, RestsIsPeer
    <3>3. PICK u \in Thread : u \in B /\ u \notin A
      BY <1>1, <1>2, <2>2, <2>13, <3>1, <3>2, ClaimBinds DEF Through
    <3>4. t \notin A
      <4>1. t \in A => r.call # "Callalt" /\ Len(r.alts) = 1 /\ r.alts[1].op = o
        BY <2>1, <2>2, <2>13, CallerBound, <1>1
      <4>. QED  BY <2>13, <4>1
    <3>5. m <= l + 1 \/ m <= 0
      BY <1>5, <2>7, <2>13 DEF Left, Through
    <3>. QED  BY <2>2, <2>5, <2>6, <2>7, <2>8, <3>3, <3>4, <3>5
  <2>. QED  BY <2>9, <2>10, <2>12, <2>13
<1>. QED  BY <1>8, <1>9, <1>10, CaredParts DEF Served, Cared, NoValue, NoRoom, Left

(* One that sleeps has found nothing to go on by.                             *)
LEMMA BlockedKeeps ==
  ASSUME Given, IInv, IInv', CallsMade, Cared, NEW t, NEW r, NEW q, Calling(t, r, q),
         Blocked(t, r, q)
  PROVE  Cared'
<1>1. Control /\ t \in Thread /\ ReqOK(r) /\ May(t, q) /\ Kept(t, q)
  BY InvParts DEF Calling
<1>2. Wait(t, r, q) /\ n' = n
  BY DEF Blocked, Wait, buffer
<1>3. ASSUME NEW d \in Chan, NEW o \in {"SND", "RCV"}, NEW x \in Thread, Rests(x, d, o)', x # t
      PROVE  Rests(x, d, o)
  BY <1>1, <1>2, <1>3, OthersRest DEF May
<1>4. \A d \in Chan : \A o \in {"SND", "RCV"} : \A x \in Bound(d, o) :
         x # t => x \in Bound(d, o)'
  BY <1>1, <1>2, OthersBound
<1>5. ASSUME NEW d \in Chan, NEW o \in {"SND", "RCV"}, Rests(t, d, o)'
      PROVE  Peers(q, d, o) = {} /\ Stuck(d, o)
  <2>1. PICK j \in Nat : /\ j \in 1 .. Len(req'[t].alts)
                         /\ req'[t].alts[j].c = d /\ req'[t].alts[j].op = o
    <3>1. PICK k \in Slot : /\ qentry'[d][k] # None /\ qentry'[d][k].t = t
                            /\ req'[qentry'[d][k].t].alts[qentry'[d][k].i].op = o
      BY <1>5 DEF Rests, ItemOf
    <3>2. PICK w : w = qentry'[d][k]
      OBVIOUS
    <3>3. Member(w, d)'
      BY <3>1, <3>2 DEF IInv, Queued
    <3>. QED  BY <3>1, <3>2, <3>3 DEF Member, Waits, Entry
  <2>2. req'[t] = r
    BY <1>1, <1>2 DEF Wait, Control
  <2>. QED  BY <2>1, <2>2 DEF Blocked
<1>6. Direct'
  BY <1>2 DEF Cared, Direct
<1>7. NoPair'
  <2>1. ASSUME NEW d \in Chan, NEW o \in {"SND", "RCV"}, NEW x \in Thread,
               Rests(t, d, o)', Rests(x, d, Co(o))'
        PROVE  x = t
    BY <1>1, <1>3, <1>5, <2>1, RestsIsPeer DEF Co
  <2>2. SUFFICES ASSUME NEW d \in Chan, NEW x \in Thread, NEW y \in Thread,
                        Rests(x, d, "SND")', Rests(y, d, "RCV")', x # y
                 PROVE  FALSE
    BY DEF NoPair
  <2>3. x # t /\ y # t
    BY <2>1, <2>2 DEF Co
  <2>. QED  BY <1>3, <2>2, <2>3 DEF Cared, NoPair
<1>8. ASSUME NEW d \in Chan, NEW o \in {"SND", "RCV"}, NEW x \in Thread, Rests(x, d, o)'
      PROVE  Left(d, o)' <= Cardinality(Bound(d, o)')
  <2>1. PICK A, B : A = Bound(d, o) /\ B = Bound(d, o)'
    OBVIOUS
  <2>2. A \subseteq Thread /\ B \subseteq Thread /\ IsFiniteSet(Thread)
    BY <2>1 DEF Bound, Given
  <2>3. /\ Cardinality(A) \in Nat /\ Cardinality(B) \in Nat
        /\ t \notin A => Cardinality(A) <= Cardinality(B)
    BY <1>4, <2>1, <2>2, Tally
  <2>4. n[d] \in Nat /\ n'[d] = n[d] /\ Size[d] \in Nat
    BY <1>2, Numbers
  <2>5. Stuck(d, o) \/ Size[d] = 0 => Left(d, o)' <= 0
    BY <1>6, <2>4 DEF Left, Stuck, HasRoom, Direct
  <2>6. CASE x = t
    BY <1>5, <1>8, <2>1, <2>3, <2>4, <2>5, <2>6 DEF Left
  <2>7. CASE x # t /\ Size[d] # 0
    <3>1. Rests(x, d, o)
      BY <1>3, <1>8, <2>7
    <3>2. CASE t \in A
      <4>1. Len(r.alts) = 1 /\ r.alts[1].c = d /\ r.alts[1].op = o
        BY <2>1, <2>7, <3>1, <3>2, CallerBound
      <4>2. Stuck(d, o)
        BY <4>1 DEF Blocked
      <4>. QED  BY <2>1, <2>3, <2>4, <2>5, <4>2 DEF Left
    <3>3. CASE t \notin A
      <4>1. Left(d, o) <= Cardinality(A)
        BY <2>1, <3>1, CaredParts DEF Served
      <4>2. Left(d, o)' = Left(d, o)
        BY <2>4 DEF Left
      <4>. QED  BY <2>1, <2>3, <2>4, <3>3, <4>1, <4>2 DEF Left
    <3>. QED  BY <3>2, <3>3
  <2>. QED  BY <2>1, <2>3, <2>4, <2>5, <2>6, <2>7 DEF Left
<1>. QED  BY <1>6, <1>7, <1>8 DEF Cared, NoValue, NoRoom, Left

(* The assertion of an alt fails: nothing changes for the others, as it is    *)
(* not one of several that have been woken at one end.                        *)
LEMMA FatalCares ==
  ASSUME Given, IInv, CallsMade, Cared, NEW t, NEW r, NEW q, Calling(t, r, q),
         Fatal(t), r.call = "Callalt"
  PROVE  Cared'
<1>1. Control /\ t \in Thread /\ pc[t] \in {"idle", "woken"}
  BY InvParts DEF Calling, May
<1>2. UNCHANGED <<n, qentry, tag, req, hit>> /\ pc' = [pc EXCEPT ![t] = "fatal"]
  BY DEF Fatal, buffer
<1>3. \A x, d, o : Rests(x, d, o)' <=> Rests(x, d, o)
  BY <1>2 DEF Rests, ItemOf
<1>4. Direct' /\ NoPair'
  BY <1>2, <1>3 DEF Cared, Direct, NoPair
<1>5. ASSUME NEW d \in Chan, NEW o \in {"SND", "RCV"}, NEW x \in Thread, Rests(x, d, o)
      PROVE  Left(d, o)' <= Cardinality(Bound(d, o)')
  <2>1. PICK A, B : A = Bound(d, o) /\ B = Bound(d, o)'
    OBVIOUS
  <2>2. \A y \in A : y # t => y \in B
    BY <1>1, <2>1, OthersBound
  <2>3. /\ Cardinality(A) \in Nat /\ Cardinality(B) \in Nat
        /\ t \notin A => Cardinality(A) <= Cardinality(B)
    BY <2>1, <2>2, Tally DEF Bound, Given
  <2>4. n[d] \in Nat /\ n'[d] = n[d] /\ Size[d] \in Nat
    BY <1>2, Numbers
  <2>5. Left(d, o) <= Cardinality(A) /\ Left(d, o)' = Left(d, o)
    BY <1>5, <2>1, <2>4, CaredParts DEF Served, Left
  <2>6. CASE Size[d] = 0
    BY <2>1, <2>3, <2>4, <2>6 DEF Left, Cared, Direct
  <2>7. CASE Size[d] # 0
    <3>1. t \notin A
      BY <1>5, <2>1, <2>7, CallerBound
    <3>. QED  BY <2>1, <2>3, <2>4, <2>5, <3>1 DEF Left
  <2>. QED  BY <2>6, <2>7
<1>. QED  BY <1>3, <1>4, <1>5 DEF Cared, NoValue, NoRoom, Left

(* A call that tries, for the first time or again:                            *)
LEMMA BodyCares ==
  ASSUME Given, IInv, IInv', CallsMade, Cared, NEW t, NEW r, NEW q, Calling(t, r, q),
         Body(t, r, q)
  PROVE  Cared'
<1>1. Buffers /\ Direct /\ ReqOK(r)
  BY DEF IInv, Typed, Cared, Calling
<1>2. ComesOut(t, r, q)
  BY <1>1, BodyComesOut
<1>3. ASSUME NEW i \in 1 .. Len(r.alts), r.alts[i].op \in {"SND", "RCV"},
             Through(t, r, q, r.alts[i].c, r.alts[i].op)
      PROVE  Cared'
  <2>1. r.alts[i] \in Item(Ops)
    BY <1>1, ElementOfSeq DEF ReqOK
  <2>2. r.alts[i].c \in Chan
    BY <2>1 DEF Item
  <2>. QED  BY <1>3, <2>2, ThroughKeeps
<1>. QED  BY <1>2, <1>3, BlockedKeeps, FatalCares DEF ComesOut

-----------------------------------------------------------------------------
(* THE STEPS *)

(* the first time,                                                            *)
LEMMA CallCares ==
  ASSUME Given, IInv, IInv', CallsMade, Cared, NEW t \in Thread, NEW r, CallOf(t, r)
  PROVE  Cared'
<1>1. May(t, qentry) /\ pc[t] = "idle" /\ ReqOK(r) /\ Makes(t, r) /\ Body(t, r, qentry)
  BY CallMay DEF CallOf
<1>2. Kept(t, qentry)
  BY <1>1 DEF May, Absent, Kept
<1>. QED  BY <1>1, <1>2, BodyCares DEF Calling

(* and again, after the wake-up.                                              *)
LEMMA RetryCares ==
  ASSUME Given, IInv, IInv', CallsMade, Cared, NEW t \in Thread, Retry(t)
  PROVE  Cared'
<1>1. PICK r, q : r = req[t] /\ q = Leave(t)
  OBVIOUS
<1>2. pc[t] = "woken" /\ Body(t, r, q) /\ ReqOK(r) /\ May(t, q)
  BY <1>1, WokenMay DEF Retry, IInv, Places
<1>3. Makes(t, r)
  BY <1>1, <1>2 DEF CallsMade
<1>4. Kept(t, q)
  BY <1>1 DEF Kept, Leave, Used
<1>. QED  BY <1>1, <1>2, <1>3, <1>4, BodyCares DEF Calling

(* The return from an unbuffered channel takes nothing with it.               *)
LEMMA ReturnCares ==
  ASSUME Given, IInv, CallsMade, Cared, NEW t \in Thread, Return(t)
  PROVE  Cared'
<1>1. /\ Control /\ Size[tag[t]] = 0 /\ Finish(t) /\ n' = n
      /\ qentry' = Leave(t) /\ pc[t] = "woken"
  BY InvParts DEF Return, buffer
<1>2. PICK q : q = Leave(t)
  OBVIOUS
<1>3. Kept(t, q) /\ May(t, q)
  BY <1>1, <1>2, WokenMay DEF Kept, Leave, Used
<1>4. ASSUME NEW d \in Chan, NEW o \in {"SND", "RCV"}, NEW x \in Thread, Rests(x, d, o)'
      PROVE  x # t /\ Rests(x, d, o)
  <2>1. x # t
    BY <1>1, <1>2, <1>3, <1>4 DEF Rests, May, Absent
  <2>2. ReqOK(req[t])
    BY <1>1 DEF IInv, Places
  <2>. QED  BY <1>1, <1>2, <1>3, <1>4, <2>1, <2>2, OthersRest DEF May
<1>5. Direct' /\ NoPair'
  BY <1>1, <1>4 DEF Cared, Direct, NoPair
<1>6. ASSUME NEW d \in Chan, NEW o \in {"SND", "RCV"}, NEW x \in Thread, Rests(x, d, o)'
      PROVE  Left(d, o)' <= Cardinality(Bound(d, o)')
  <2>1. PICK A, B : A = Bound(d, o) /\ B = Bound(d, o)'
    OBVIOUS
  <2>2. \A y \in A : y # t => y \in B
    BY <1>1, <2>1, OthersBound
  <2>3. /\ Cardinality(A) \in Nat /\ Cardinality(B) \in Nat
        /\ t \notin A => Cardinality(A) <= Cardinality(B)
    BY <2>1, <2>2, Tally DEF Bound, Given
  <2>4. n[d] \in Nat /\ n'[d] = n[d] /\ Size[d] \in Nat
    BY <1>1, Numbers
  <2>5. Left(d, o) <= Cardinality(A) /\ Left(d, o)' = Left(d, o)
    BY <1>4, <1>6, <2>1, <2>4, CaredParts DEF Served, Left
  <2>6. CASE Size[d] = 0
    BY <2>1, <2>3, <2>4, <2>6 DEF Left, Cared, Direct
  <2>7. CASE Size[d] # 0
    <3>1. t \notin A
      BY <1>1, <2>1, <2>7 DEF Bound
    <3>. QED  BY <2>1, <2>3, <2>4, <2>5, <3>1 DEF Left
  <2>. QED  BY <2>6, <2>7
<1>. QED  BY <1>5, <1>6 DEF Cared, NoValue, NoRoom, Left

(* A meeting makes no one forgotten.                                          *)
LEMMA MeetCares ==
  ASSUME IInv, Cared, NEW t \in Thread, NEW u \in Thread, Meet(t, u) PROVE Cared'
<1>1. UNCHANGED <<n, qentry, tag, req, hit>>
  BY DEF Meet, buffer
<1>2. \A x, d, o : Rests(x, d, o)' <=> Rests(x, d, o)
  BY <1>1 DEF Rests, ItemOf
<1>3. \A x \in Thread : Claimed(x)' <=> Claimed(x)
  BY <1>1 DEF Meet, Claimed, IInv, Typed
<1>4. \A d, o : Bound(d, o)' = Bound(d, o)
  BY <1>1, <1>3 DEF Bound
<1>. QED  BY <1>1, <1>2, <1>4 DEF Cared, Direct, NoPair, NoValue, NoRoom

(* Every step.                                                                *)
LEMMA StepCares ==
  ASSUME Given, IInv, IInv', CallsMade, Cared, [Next]_vars PROVE Cared'
<1>1. CASE UNCHANGED vars
  <2>1. UNCHANGED <<n, qentry, tag, req, hit, pc>>
    BY <1>1 DEF vars, buffer
  <2>2. \A x, d, o : Rests(x, d, o)' <=> Rests(x, d, o)
    BY <2>1 DEF Rests, ItemOf
  <2>3. \A d, o : Bound(d, o)' = Bound(d, o)
    BY <2>1 DEF Bound, Claimed
  <2>. QED  BY <2>1, <2>2, <2>3 DEF Cared, Direct, NoPair, NoValue, NoRoom
<1>2. ASSUME NEW t \in Thread, Send(t) \/ Recv(t) \/ Alt(t) PROVE Cared'
  BY <1>2, SendCalls, RecvCalls, AltCalls, CallCares
<1>. QED  BY <1>1, <1>2, ReturnCares, RetryCares, MeetCares DEF Next, Step

(* Wherever the spec leads.                                                   *)
LEMMA CaredHolds == ASSUME Given PROVE Spec => []Cared
<1>1. Init => Cared
  BY DEF Init, Cared, Direct, NoPair, NoValue, NoRoom, Rests
<1>2. IInv /\ IInv' /\ CallsMade /\ Cared /\ [Next]_vars => Cared'
  BY StepCares
<1>. QED  BY <1>1, <1>2, CallsHold, Invariance, PTL DEF Spec

(* No wake-up is forgotten, however many threads send, receive and poll on a  *)
(* channel, as long as an alt that waits on a buffered channel has its end of *)
(* that channel to itself: a sender and a receiver never both sleep with      *)
(* nobody on the way to either, and values (room) never outnumber those that  *)
(* have been woken for them while others sleep.                               *)
THEOREM NoWakeUpForgotten ==
  ASSUME AltsApart, IsFiniteSet(Thread) PROVE Spec => []NoForgottenWaiter
<1>1. Spec => []Cared
  BY CaredHolds DEF Given
<1>2. IInv /\ Cared => NoForgottenWaiter
  BY CaredFor
<1>. QED  BY <1>1, <1>2, Invariance, PTL
=============================================================================

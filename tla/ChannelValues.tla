---------------------------- MODULE ChannelValues ----------------------------
(* Proofs about the channels of libthread, continued: what happens to the     *)
(* values. With one sender and one receiver on each buffered channel (and any *)
(* number on the unbuffered ones) no value is lost, doubled or overtaken.     *)
EXTENDS ChannelProofs

-----------------------------------------------------------------------------
(* THE HYPOTHESES *)

(* One thread sends on a buffered channel, and one receives from it.          *)
Paired == \A c \in Chan : Size[c] # 0 =>
             \A op \in {"SND", "RCV"} : \A t, u \in Users(c, op) : t = u

(* The ring of a channel's buffer closes where the counters wrap around: its  *)
(* size divides 2^32.                                                         *)
RingCloses == \A c \in Chan : Size[c] # 0 => \E d \in Nat : UMod = Size[c] * d

(* And no list of an alt names a channel twice.                               *)
Agreed == /\ Paired /\ RingCloses /\ (\A a \in Alts : Once(a[2]))
          /\ IsFiniteSet(Thread)

(* An alt has its end of a buffered channel to itself then.                   *)
LEMMA NobodyElse == ASSUME Agreed PROVE Given
<1>1. ASSUME NEW a \in Alts, NEW i \in 1 .. Len(a[2]), a[2][i].op \in {"SND", "RCV"},
             Size[a[2][i].c] # 0
      PROVE  Users(a[2][i].c, a[2][i].op) = {a[1]}
  <2>1. a \in Thread \X Seq(Item(Ops))
    BY ChannelAssumption DEF Ops
  <2>2. PICK t \in Thread, A \in Seq(Item(Ops)) : a = <<t, A>>
    BY <2>1
  <2>3. A[i] \in Item(Ops)
    BY <2>2, ElementOfSeq
  <2>4. PICK c \in Chan, op \in {"SND", "RCV"} : c = a[2][i].c /\ op = a[2][i].op
    BY <1>1, <2>2, <2>3 DEF Item
  <2>5. t \in Users(c, op)
    BY <2>2, <2>4 DEF Users
  <2>6. \A u \in Users(c, op) : u = t
    BY <1>1, <2>4, <2>5 DEF Agreed, Paired
  <2>. QED  BY <2>2, <2>4, <2>5, <2>6
<1>. QED  BY <1>1 DEF Agreed, Given, AltsApart

-----------------------------------------------------------------------------
(* THE INVARIANT *)

(* what a buffer holds, from its extraction point on *)
Cell(c, k) == v[c][((f[c] + (k - 1)) % UMod) % Size[c]]

(* The spots where a value may be that has left its sender's hands: in what a *)
(* thread has received, in the variable that a waiting receiver was given     *)
(* it by, in a buffer.                                                        *)
Logged == UNION {{<<"log", t, i>> : i \in 1 .. Len(log[t])} : t \in Thread}
InHand == {<<"in", t, 0>> : t \in {u \in Thread : in[u] # None}}
Stored == UNION {{<<"buf", c, k>> : k \in 1 .. n[c]} : c \in Chan}
Spots == Logged \cup InHand \cup Stored

(* the value in a spot, and the channel by which it has come there *)
Val(a) == IF a[1] = "log" THEN log[a[2]][a[3]][1]
          ELSE IF a[1] = "in" THEN in[a[2]] ELSE Cell(a[2], a[3])
Via(a) == IF a[1] = "log" THEN log[a[2]][a[3]][2]
          ELSE IF a[1] = "in" THEN tag[a[2]] ELSE a[2]
Held == {Val(a) : a \in Spots}

(* a is to be seen by a receiver before b *)
Ahead(a, b) == /\ Via(a) = Via(b)
               /\ \/ a[1] = "log" /\ b[1] = "log" /\ a[2] = b[2] /\ a[3] < b[3]
                  \/ a[1] = "log" /\ b[1] = "in" /\ a[2] = b[2]
                  \/ a[1] = "log" /\ b[1] = "buf"
                  \/ a[1] = "buf" /\ b[1] = "buf" /\ a[3] < b[3]

Counted == \A a \in Spots : Val(a) \in Value /\ Val(a)[2] <= made[Val(a)[1]]
Single == \A a, b \in Spots : Val(a) = Val(b) => a = b
Unlost == sent \subseteq Held
InOrder == \A a, b \in Spots : Ahead(a, b) /\ Val(a)[1] = Val(b)[1] => Val(a)[2] < Val(b)[2]

(* A waiter that has been claimed on an unbuffered channel has been given a   *)
(* value there, or its own has been taken.                                    *)
ByHand(t, op) == Claimed(t) /\ Size[tag[t]] = 0 /\ req[t].alts[hit[t]].op = op
Delivered == \A t \in Thread : in[t] # None => ByHand(t, "RCV")
Reached == \A t \in Thread : ByHand(t, "RCV") => in[t] # None

(* Whoever waits to send has one value, its newest, and nobody else has that  *)
(* value before it is taken.                                                  *)
Offered == \A t \in Thread : pc[t] \in {"waiting", "woken"} /\ IsSend(req[t]) =>
              /\ req[t].out = <<t, made[t]>>
              /\ req[t].out \in Held <=> ByHand(t, "SND")

Fits == \A c \in Chan : n[c] <= Size[c]

VInv == /\ log \in [Thread -> Seq(Value \X Chan)]
        /\ Counted /\ Single /\ Unlost /\ InOrder /\ Delivered /\ Reached /\ Offered /\ Fits

-----------------------------------------------------------------------------
(* THE BUFFERS, CELL BY CELL *)

(* Which cell of the buffer the k-th value is in.                             *)
LEMMA CellAt ==
  ASSUME RingCloses, Buffers, NEW c \in Chan, Size[c] # 0, NEW k \in 1 .. Size[c]
  PROVE  /\ Size[c] \in Nat \ {0} /\ f[c] \in Nat /\ f[c] + (k - 1) \in Nat
         /\ Cell(c, k) = v[c][(f[c] + (k - 1)) % Size[c]]
         /\ (f[c] + (k - 1)) % Size[c] \in 0 .. Size[c] - 1
<1>1. /\ UMod \in Nat \ {0} /\ Size[c] \in Nat \ {0} /\ Size[c] < UMod
      /\ f[c] \in 0 .. UMod - 1
  BY ChannelAssumption DEF Buffers
<1>2. PICK d \in Nat : UMod = Size[c] * d
  BY DEF RingCloses
<1>3. f[c] + (k - 1) \in Nat /\ f[c] + (k - 1) < UMod + UMod
  BY <1>1
<1>4. ((f[c] + (k - 1)) % UMod) % Size[c] = (f[c] + (k - 1)) % Size[c]
  BY <1>1, <1>2, <1>3, RingWraps
<1>5. (f[c] + (k - 1)) % Size[c] \in 0 .. Size[c] - 1
  BY <1>1, <1>3, Divided
<1>. QED  BY <1>1, <1>3, <1>4, <1>5 DEF Cell

(* A value put into a buffer with room follows those that are in it.          *)
LEMMA PutCells ==
  ASSUME RingCloses, Buffers, Buffers', NEW c \in Chan, NEW m, HasRoom(c), Put(c, m)
  PROVE  /\ n'[c] = n[c] + 1 /\ \A k : k = n[c] + 1 => Cell(c, k)' = m
         /\ \A k \in 1 .. n[c] : Cell(c, k)' = Cell(c, k)
         /\ \A d \in Chan : d # c => n'[d] = n[d] /\ \A k : Cell(d, k)' = Cell(d, k)
<1>. DEFINE s == Size[c]
            x == f[c]
            l == n[c]
<1>1. /\ UMod \in Nat \ {0} /\ s \in Nat \ {0} /\ s < UMod /\ l \in 0 .. s - 1
      /\ x \in 0 .. UMod - 1 /\ v[c] \in [0 .. s - 1 -> Value \cup {None}] /\ DOMAIN v = Chan
  BY ChannelAssumption DEF Buffers, HasRoom
<1>2. n'[c] = l + 1 /\ \A d \in Chan : d # c => n'[d] = n[d]
  BY PutCounts
<1>3. /\ f' = f
      /\ v' = [v EXCEPT ![c] = [v[c] EXCEPT ![((x + l) % UMod) % s] = m]]
  BY DEF Put
<1>4. PICK d \in Nat : UMod = s * d
  BY <1>1 DEF RingCloses
<1>. HIDE DEF s, x, l
<1>5. ((x + l) % UMod) % s = (x + l) % s /\ (x + l) % s \in 0 .. s - 1
  <2>1. x + l \in Nat /\ x + l < UMod + UMod
    BY <1>1
  <2>2. ((x + l) % UMod) % s = (x + l) % s
    BY <1>1, <1>4, <2>1, RingWraps
  <2>3. (x + l) % s \in 0 .. s - 1
    BY <1>1, <2>1, Divided
  <2>. QED  BY <2>2, <2>3
<1>6. v'[c] = [v[c] EXCEPT ![(x + l) % s] = m] /\ \A e \in Chan : e # c => v'[e] = v[e]
  BY <1>1, <1>3, <1>5
<1>7. ASSUME NEW k \in 1 .. l + 1 PROVE Cell(c, k)' = v'[c][(x + (k - 1)) % s]
  <2>1. k \in 1 .. s
    BY <1>1
  <2>2. ((x + (k - 1)) % UMod) % s = (x + (k - 1)) % s
    <3>1. x + (k - 1) \in Nat /\ x + (k - 1) < UMod + UMod
      BY <1>1, <2>1
    <3>. QED  BY <1>1, <1>4, <3>1, RingWraps
  <2>. QED  BY <1>3, <2>2 DEF Cell, s, x
<1>8. ASSUME NEW k, k = l + 1 PROVE Cell(c, k)' = m
  <2>1. k \in 1 .. l + 1 /\ k - 1 = l
    BY <1>1, <1>8
  <2>2. Cell(c, k)' = v'[c][(x + l) % s]
    BY <1>7, <2>1
  <2>3. v'[c][(x + l) % s] = m
    BY <1>1, <1>5, <1>6
  <2>. QED  BY <2>2, <2>3
<1>9. ASSUME NEW k \in 1 .. l PROVE Cell(c, k)' = Cell(c, k)
  <2>1. k \in 1 .. s /\ k \in 1 .. l + 1
    BY <1>1
  <2>2. /\ Cell(c, k) = v[c][(x + (k - 1)) % s]
        /\ (x + (k - 1)) % s \in 0 .. s - 1
    BY <1>1, <2>1, CellAt DEF s, x
  <2>3. (x + (k - 1)) % s # (x + l) % s
    <3>1. x + (k - 1) \in Nat /\ x + l \in Nat /\ x + (k - 1) < x + l /\ x + l < (x + (k - 1)) + s
      BY <1>1
    <3>. QED  BY <1>1, <3>1, CellsDiffer
  <2>. QED  BY <1>1, <1>6, <1>7, <2>1, <2>2, <2>3
<1>10. \A e \in Chan : e # c => \A k : Cell(e, k)' = Cell(e, k)
  BY <1>3, <1>6 DEF Cell
<1>. QED  BY <1>2, <1>8, <1>9, <1>10 DEF l

(* What is taken out of a buffer is the first value, and the others move up.  *)
LEMMA TakeCells ==
  ASSUME RingCloses, Buffers, NEW c \in Chan, n[c] # 0, n[c] <= Size[c], Take(c)
  PROVE  /\ n'[c] = n[c] - 1 /\ Oldest(c) = Cell(c, 1)
         /\ \A k \in 1 .. n[c] - 1 : Cell(c, k)' = Cell(c, k + 1)
         /\ \A d \in Chan : d # c => n'[d] = n[d] /\ \A k : Cell(d, k)' = Cell(d, k)
<1>. DEFINE s == Size[c]
            x == f[c]
            l == n[c]
<1>1. /\ UMod \in Nat \ {0} /\ s \in Nat \ {0} /\ s < UMod /\ l \in 1 .. s
      /\ x \in 0 .. UMod - 1 /\ DOMAIN f = Chan
  BY ChannelAssumption DEF Buffers
<1>2. n'[c] = l - 1 /\ \A d \in Chan : d # c => n'[d] = n[d]
  BY TakeCounts
<1>3. v' = v /\ f' = [f EXCEPT ![c] = (x + 1) % UMod]
  BY DEF Take
<1>4. PICK d \in Nat : UMod = s * d
  BY <1>1 DEF RingCloses
<1>5. Oldest(c) = Cell(c, 1)
  <2>1. 1 \in 1 .. s /\ x + (1 - 1) = x
    BY <1>1
  <2>. QED  BY <2>1, <1>1, CellAt DEF Oldest
<1>. HIDE DEF s, x, l
<1>6. ASSUME NEW k \in 1 .. l - 1 PROVE Cell(c, k)' = Cell(c, k + 1)
  <2>1. f'[c] = (x + 1) % UMod
    BY <1>1, <1>3
  <2>2. k + 1 \in 1 .. s /\ (k + 1) - 1 = k /\ k \in Nat /\ k < UMod
    BY <1>1
  <2>3. Cell(c, k + 1) = v[c][(x + k) % s]
    BY <1>1, <2>2, CellAt DEF s, x
  <2>4. ((((x + 1) % UMod) + (k - 1)) % UMod) % s = (x + k) % s
    <3>1. (x + k) \in Nat /\ x + k < UMod + UMod
      BY <1>1, <2>2
    <3>2. ((x + k) % UMod) % s = (x + k) % s
      BY <1>1, <1>4, <3>1, RingWraps
    <3>3. CASE x + 1 < UMod
      <4>1. (x + 1) % UMod = x + 1
        BY <1>1, <3>3
      <4>2. (x + 1) + (k - 1) = x + k
        BY <1>1, <2>2
      <4>. QED  BY <3>2, <4>1, <4>2
    <3>4. CASE x + 1 = UMod
      <4>1. (x + 1) % UMod = 0 /\ 0 + (k - 1) = k - 1
        BY <1>1, <2>2, <3>4
      <4>2. (x + k) % UMod = k - 1
        <5>1. k - 1 \in 0 .. UMod - 1 /\ x + k = UMod * 1 + (k - 1)
          BY <1>1, <2>2, <3>4
        <5>. QED  BY <1>1, <3>1, <5>1, RemainderIs
      <4>3. (k - 1) % UMod = k - 1
        BY <1>1, <2>2
      <4>. QED  BY <3>2, <4>1, <4>2, <4>3
    <3>. QED  BY <1>1, <3>3, <3>4
  <2>. QED  BY <1>3, <2>1, <2>3, <2>4 DEF Cell, s
<1>7. \A e \in Chan : e # c => \A k : Cell(e, k)' = Cell(e, k)
  BY <1>1, <1>3 DEF Cell
<1>. QED  BY <1>2, <1>5, <1>6, <1>7 DEF l

-----------------------------------------------------------------------------
(* WHEN VALUES MOVE *)

(* The invariant of the spots.                                                *)
Sound == Counted /\ Single /\ Unlost /\ InOrder

(* A step takes the values of some spots on to others and brings at most one  *)
(* new value m, behind all others: g tells for each spot (but a new one) from *)
(* which one its value is.                                                    *)
Moves(g, new, m) ==
    /\ \A z \in new : z \in Spots' /\ Val(z)' = m /\ \A y \in new : y = z
    /\ \A b \in Spots' : b \notin new => g[b] \in Spots /\ Val(b)' = Val(g[b])
    /\ \A a, b \in Spots' : a \notin new /\ b \notin new /\ g[a] = g[b] => a = b
    /\ \A a \in Spots : \E b \in Spots' : b \notin new /\ g[b] = a
    /\ \A a, b \in Spots' : a \notin new /\ b \notin new /\ Ahead(a, b)' => Ahead(g[a], g[b])
    /\ \A z \in new : \A b \in Spots' : ~Ahead(z, b)'

(* m is the newest value of thread u, and nowhere yet.                        *)
Newborn(m, u) == /\ m \in Value /\ m[1] = u /\ m \notin Held
                 /\ \A a \in Spots : Val(a)[1] = u => Val(a)[2] < m[2]

Born(new, m, u) == new # {} => Newborn(m, u) /\ m[2] <= made'[u]

(* what has come to be held *)
Gain(new, m) == {m : z \in new}

(* The invariant of the spots is kept by such a step.                         *)
LEMMA MovesKeep ==
  ASSUME Sound, NEW g, NEW new, NEW m, NEW u, Moves(g, new, m),
         Born(new, m, u),
         \A x \in Thread : made[x] \in Nat /\ made'[x] \in Nat /\ made[x] <= made'[x],
         sent' \subseteq Held \cup Gain(new, m)
  PROVE  Sound' /\ Held' = Held \cup Gain(new, m)
<1>1. ASSUME NEW x \in Value PROVE x[1] \in Thread /\ x[2] \in Nat
  BY <1>1, ChannelAssumption DEF Value
<1>2. Counted'
  <2>1. SUFFICES ASSUME NEW b \in Spots' PROVE Val(b)' \in Value /\ Val(b)'[2] <= made'[Val(b)'[1]]
    BY DEF Counted
  <2>2. CASE b \in new
    BY <2>2 DEF Moves, Born, Newborn
  <2>3. CASE b \notin new
    <3>1. g[b] \in Spots /\ Val(b)' = Val(g[b])
      BY <2>3 DEF Moves
    <3>2. Val(g[b]) \in Value /\ Val(g[b])[2] <= made[Val(g[b])[1]]
      BY <3>1 DEF Sound, Counted
    <3>. QED  BY <1>1, <3>1, <3>2
  <2>. QED  BY <2>2, <2>3
<1>3. Held' = Held \cup Gain(new, m)
  <2>1. ASSUME NEW x \in Held PROVE x \in Held'
    <3>1. PICK a \in Spots : x = Val(a)
      BY <2>1 DEF Held
    <3>2. PICK b \in Spots' : b \notin new /\ g[b] = a
      BY <3>1 DEF Moves
    <3>. QED  BY <3>1, <3>2 DEF Moves, Held
  <2>2. ASSUME NEW x \in Held', new = {} PROVE x \in Held
    BY <2>2 DEF Held, Moves
  <2>3. ASSUME NEW x \in Held', new # {} PROVE x \in Held \cup {m}
    BY <2>3 DEF Held, Moves
  <2>4. new # {} => m \in Held'
    BY DEF Held, Moves
  <2>. QED  BY <2>1, <2>2, <2>3, <2>4 DEF Gain
<1>4. Unlost'
  BY <1>3 DEF Unlost
<1>5. Single'
  <2>1. SUFFICES ASSUME NEW a \in Spots', NEW b \in Spots', Val(a)' = Val(b)' PROVE a = b
    BY DEF Single
  <2>2. ASSUME NEW x \in Spots', x \notin new PROVE g[x] \in Spots /\ Val(x)' = Val(g[x]) /\ Val(g[x]) \in Held
    BY <2>2 DEF Moves, Held
  <2>3. CASE a \notin new /\ b \notin new
    BY <2>1, <2>2, <2>3 DEF Sound, Single, Moves
  <2>4. CASE a \in new \/ b \in new
    BY <2>1, <2>2, <2>4 DEF Moves, Born, Newborn
  <2>. QED  BY <2>3, <2>4
<1>6. InOrder'
  <2>1. SUFFICES ASSUME NEW a \in Spots', NEW b \in Spots', Ahead(a, b)', Val(a)'[1] = Val(b)'[1]
                 PROVE  Val(a)'[2] < Val(b)'[2]
    BY DEF InOrder
  <2>2. a \notin new /\ g[a] \in Spots /\ Val(a)' = Val(g[a])
    BY <2>1 DEF Moves
  <2>3. CASE b \in new
    BY <2>1, <2>2, <2>3 DEF Moves, Born, Newborn
  <2>4. CASE b \notin new
    <3>1. g[b] \in Spots /\ Val(b)' = Val(g[b]) /\ Ahead(g[a], g[b])
      BY <2>1, <2>2, <2>4 DEF Moves
    <3>. QED  BY <2>1, <2>2, <3>1 DEF Sound, InOrder
  <2>. QED  BY <2>3, <2>4
<1>. QED  BY <1>2, <1>3, <1>4, <1>5, <1>6 DEF Sound

-----------------------------------------------------------------------------
(* WHAT A CALL DOES WITH VALUES *)

(* Whoever has been woken at an end of a channel uses it.                     *)
LEMMA BoundUses ==
  ASSUME IInv, CallsMade, NEW c \in Chan, NEW op \in {"SND", "RCV"}, NEW x \in Bound(c, op)
  PROVE  x \in Users(c, op)
<1>1. /\ x \in Thread /\ tag[x] = c /\ tag[x] # None /\ pc[x] \in {"waiting", "woken"}
      /\ req[x].alts[hit[x]].op = op
  BY DEF Bound, Claimed
<1>2. ReqOK(req[x]) /\ ClaimOf(x) /\ Makes(x, req[x])
  BY <1>1 DEF IInv, Places, CallsMade
<1>3. hit[x] \in 1 .. Len(req[x].alts) /\ req[x].alts[hit[x]].c = c
  BY <1>1, <1>2 DEF ClaimOf, Waits
<1>4. CASE req[x].call = "Callalt"
  BY <1>1, <1>2, <1>3, <1>4 DEF Makes, Users
<1>5. CASE req[x].call # "Callalt"
  <2>1. hit[x] = 1
    BY <1>2, <1>3, <1>5 DEF Makes, ReqOK
  <2>. QED  BY <1>1, <1>2, <1>3, <1>5, <2>1 DEF Makes, ReqOK, Users
<1>. QED  BY <1>4, <1>5

(* Nobody waits on a buffered channel for one that finds no room (no value)   *)
(* there: that waiter, alone at its end, would have had a value (room).       *)
LEMMA NoStuckPeer ==
  ASSUME Paired, IInv, CallsMade, Cared, NEW t, NEW q, Kept(t, q), May(t, q),
         NEW c \in Chan, Size[c] # 0, NEW op \in {"SND", "RCV"}, Peers(q, c, op) # {}
  PROVE  ~Stuck(c, op)
<1>1. PICK w : Found(q, c, w) /\ ItemOf(w).op = Co(op)
  BY PeerFound DEF IInv
<1>2. PICK k \in Slot : w = q[c][k] /\ w # None /\ tag[w.t] = None /\ qentry[c][k] = w
  BY <1>1 DEF Found, Kept
<1>3. w.t \in Thread
  BY <1>2 DEF May, Queued, Member, Entry
<1>4. PICK x \in Thread, o \in {"SND", "RCV"} : x = w.t /\ o = Co(op)
  BY <1>3 DEF Co
<1>5. Rests(x, c, o)
  BY <1>1, <1>2, <1>4 DEF Rests
<1>6. Left(c, o) <= Cardinality(Bound(c, o))
  BY <1>5, CaredParts DEF Served
<1>7. Bound(c, o) = {}
  <2>1. SUFFICES ASSUME NEW y \in Bound(c, o) PROVE FALSE
    OBVIOUS
  <2>2. y = x
    BY <1>5, RestsUses, BoundUses DEF Paired
  <2>. QED  BY <1>2, <1>4, <2>1, <2>2 DEF Bound, Claimed
<1>8. Left(c, o) <= 0
  BY <1>6, <1>7, FS_EmptySet
<1>. QED  BY <1>4, <1>8, Numbers DEF Left, Stuck, HasRoom, Co

(* A value is put into a buffer, or taken out of one;                         *)
Goes(t, q, c, op) == IF Peers(q, c, op) = {} THEN Finish(t) ELSE Claim(t, FirstPeer(q, c, op), c)
Puts(t, r, q, c) == /\ Size[c] # 0 /\ HasRoom(c) /\ Put(c, r.out) /\ DidSend(r.out)
                    /\ in' = [in EXCEPT ![t] = None] /\ Goes(t, q, c, "SND")
Takes(t, q, c) == /\ Size[c] # 0 /\ n[c] # 0 /\ Take(c) /\ DidRecv(t, c, Oldest(c))
                  /\ in' = [in EXCEPT ![t] = None] /\ Goes(t, q, c, "RCV")

(* it goes from hand to hand; or nothing happens to values.                   *)
Meets(t, q, c, op, u) ==
    /\ Size[c] = 0 /\ UNCHANGED buffer
    /\ \E w : /\ w = FirstPeer(q, c, op) /\ Found(q, c, w) /\ ItemOf(w).op = Co(op)
              /\ Claim(t, w, c) /\ u = w.t
Hands(t, r, q, c, u) == /\ Meets(t, q, c, "SND", u) /\ DidSend(r.out)
                        /\ in' = [in EXCEPT ![t] = None, ![u] = r.out]
Gets(t, q, c, u) == /\ Meets(t, q, c, "RCV", u) /\ DidRecv(t, c, req[u].out)
                    /\ in' = [in EXCEPT ![t] = None]

Carried(t, r, q) ==
    \/ \E c \in Chan : \/ IsSend(r) /\ (Puts(t, r, q, c) \/ \E u : Hands(t, r, q, c, u))
                       \/ Takes(t, q, c) \/ \E u : Gets(t, q, c, u)
    \/ Wait(t, r, q)
    \/ Fatal(t)

(* That is what becomes of a send,                                            *)
LEMMA SendCarries ==
  ASSUME Paired, IInv, CallsMade, Cared, NEW t, NEW r, NEW q, Calling(t, r, q),
         r.call \in {"Callsnd", "nbsend"}, SendBody(t, r, q)
  PROVE  Carried(t, r, q)
<1>1. Len(r.alts) = 1 /\ r.alts[1].op = "SND" /\ 1 \in 1 .. Len(r.alts)
  BY DEF ReqOK, Calling
<1>2. r.alts[1] \in Item(Ops) /\ IsSend(r)
  BY <1>1, ElementOfSeq DEF ReqOK, Calling, IsSend
<1>3. PICK c \in Chan : c = r.alts[1].c
  BY <1>2 DEF Item
<1>4. n[c] \in Nat /\ Size[c] \in Nat /\ Queued(qentry) /\ May(t, q) /\ Kept(t, q)
  BY Numbers DEF IInv, Calling
<1>5. CASE SendToWaiter(t, r, c, q)
  <2>1. PICK w : /\ w = FirstPeer(q, c, "SND") /\ Found(q, c, w) /\ ItemOf(w).op = Co("SND")
                 /\ Claim(t, w, c)
    BY <1>4, <1>5, PeerFound DEF SendToWaiter
  <2>2. CASE HasRoom(c)
    <3>1. Size[c] # 0
      BY <1>4, <2>2 DEF HasRoom
    <3>. QED  BY <1>2, <1>5, <2>2, <3>1 DEF SendToWaiter, Puts, Goes, Carried
  <2>3. CASE ~HasRoom(c)
    <3>1. Size[c] = 0
      BY <1>4, <1>5, <2>3, NoStuckPeer DEF SendToWaiter, Stuck
    <3>2. Hands(t, r, q, c, w.t)
      BY <1>5, <2>1, <2>3, <3>1 DEF SendToWaiter, Hands, Meets
    <3>. QED  BY <1>2, <3>2 DEF Carried
  <2>. QED  BY <2>2, <2>3
<1>6. CASE SendToBuffer(t, r, c, q)
  <2>1. Size[c] # 0
    BY <1>4, <1>6 DEF SendToBuffer, HasRoom
  <2>. QED  BY <1>2, <1>6, <2>1 DEF SendToBuffer, Puts, Goes, Carried
<1>7. CASE SendBlocks(t, r, c, q)
  BY <1>7 DEF SendBlocks, Carried
<1>. QED  BY <1>3, <1>5, <1>6, <1>7 DEF SendBody

(* of a receive,                                                              *)
LEMMA RecvCarries ==
  ASSUME Paired, IInv, CallsMade, Cared, NEW t, NEW r, NEW q, Calling(t, r, q),
         r.call \in {"Callrcv", "nbrecv"}, RecvBody(t, r, q)
  PROVE  Carried(t, r, q)
<1>1. Len(r.alts) = 1 /\ r.alts[1].op = "RCV" /\ 1 \in 1 .. Len(r.alts)
  BY DEF ReqOK, Calling
<1>2. r.alts[1] \in Item(Ops)
  BY <1>1, ElementOfSeq DEF ReqOK, Calling
<1>3. PICK c \in Chan : c = r.alts[1].c
  BY <1>2 DEF Item
<1>4. /\ Size[c] = 0 => n[c] = 0
      /\ Queued(qentry) /\ May(t, q) /\ Kept(t, q)
  BY DEF IInv, Calling, Cared, Direct
<1>5. CASE RecvFromWaiter(t, c, q)
  <2>1. PICK w : /\ w = FirstPeer(q, c, "RCV") /\ Found(q, c, w) /\ ItemOf(w).op = Co("RCV")
                 /\ Claim(t, w, c)
    BY <1>4, <1>5, PeerFound DEF RecvFromWaiter
  <2>2. CASE n[c] # 0
    BY <1>4, <1>5, <2>2 DEF RecvFromWaiter, Takes, Goes, Carried
  <2>3. CASE n[c] = 0
    <3>1. Size[c] = 0
      BY <1>4, <1>5, <2>3, NoStuckPeer DEF RecvFromWaiter, Stuck
    <3>2. Gets(t, q, c, w.t)
      BY <1>5, <2>1, <2>3, <3>1 DEF RecvFromWaiter, Gets, Meets
    <3>. QED  BY <3>2 DEF Carried
  <2>. QED  BY <2>2, <2>3
<1>6. CASE RecvFromBuffer(t, c, q)
  BY <1>4, <1>6 DEF RecvFromBuffer, Takes, Goes, Carried
<1>7. CASE RecvBlocks(t, r, c, q)
  BY <1>7 DEF RecvBlocks, Carried
<1>. QED  BY <1>3, <1>5, <1>6, <1>7 DEF RecvBody

(* and of an alt.                                                             *)
LEMMA AltCarries ==
  ASSUME Paired, IInv, CallsMade, Cared, NEW t, NEW r, NEW q, Calling(t, r, q),
         AltBody(t, r, q)
  PROVE  Carried(t, r, q)
<1>1. CASE AltGoes(t, r, q)
  <2>1. PICK i \in Ready(q, r.alts) :
             AltByBuffer(t, r, r.alts[i], q) \/ AltByWaiter(t, r, r.alts[i], q)
    BY <1>1 DEF AltGoes
  <2>2. PICK a \in Item(Ops) : a = r.alts[i] /\ i \in 1 .. Len(r.alts) /\ CanGo(q, a)
    <3>1. i \in 1 .. Len(r.alts) /\ r.alts \in Seq(Item(Ops)) /\ CanGo(q, r.alts[i])
      BY <2>1 DEF Ready, ReqOK, Calling
    <3>. QED  BY <3>1, ElementOfSeq
  <2>3. PICK c \in Chan, op \in {"SND", "RCV"} : c = a.c /\ op = a.op
    BY <2>2 DEF Item, CanGo, ByBuffer
  <2>4. op = "SND" => IsSend(r)
    BY <2>2, <2>3 DEF IsSend
  <2>5. /\ n[c] \in Nat /\ Size[c] \in Nat /\ (Size[c] = 0 => n[c] = 0)
        /\ Queued(qentry) /\ May(t, q) /\ Kept(t, q)
    BY Numbers DEF IInv, Calling, Cared, Direct
  <2>6. CASE AltByBuffer(t, r, a, q)
    <3>1. Size[c] # 0 /\ ~Stuck(c, op)
      BY <2>3, <2>5, <2>6 DEF AltByBuffer, ByBuffer, HasRoom, Stuck
    <3>2. CASE op = "SND"
      BY <2>3, <2>4, <2>6, <3>1, <3>2 DEF AltByBuffer, AltBuffer, Stuck, Puts, Goes, Carried
    <3>3. CASE op = "RCV"
      BY <2>3, <2>6, <3>1, <3>3 DEF AltByBuffer, AltBuffer, Stuck, Takes, Goes, Carried
    <3>. QED  BY <3>2, <3>3
  <2>7. CASE AltByWaiter(t, r, a, q)
    <3>1. Peers(q, c, op) # {} /\ Stuck(c, op)
      BY <2>2, <2>3, <2>7 DEF AltByWaiter, CanGo, ByBuffer, Stuck
    <3>2. Size[c] = 0
      BY <2>5, <3>1, NoStuckPeer
    <3>3. PICK w : /\ w = FirstPeer(q, c, op) /\ Found(q, c, w) /\ ItemOf(w).op = Co(op)
                   /\ Claim(t, w, c)
      BY <2>3, <2>5, <2>7, <3>1, PeerFound DEF AltByWaiter
    <3>4. Meets(t, q, c, op, w.t)
      BY <2>3, <2>7, <3>2, <3>3 DEF AltByWaiter, AltBuffer, Meets
    <3>5. CASE op = "SND"
      <4>1. Hands(t, r, q, c, w.t)
        BY <2>3, <2>7, <3>3, <3>4, <3>5 DEF AltByWaiter, Hands
      <4>. QED  BY <2>4, <3>5, <4>1 DEF Carried
    <3>6. CASE op = "RCV"
      <4>1. Gets(t, q, c, w.t)
        BY <2>3, <2>7, <3>3, <3>4, <3>6 DEF AltByWaiter, Gets
      <4>. QED  BY <4>1 DEF Carried
    <3>. QED  BY <3>5, <3>6
  <2>. QED  BY <2>1, <2>2, <2>6, <2>7
<1>2. CASE AltBlocks(t, r, q)
  BY <1>2 DEF AltBlocks, Carried, Fatal
<1>. QED  BY <1>1, <1>2 DEF AltBody

(* Of every call.                                                             *)
LEMMA BodyCarries ==
  ASSUME Paired, IInv, CallsMade, Cared, NEW t, NEW r, NEW q, Calling(t, r, q), Body(t, r, q)
  PROVE  Carried(t, r, q)
BY SendCarries, RecvCarries, AltCarries DEF Body

-----------------------------------------------------------------------------
(* THE SPOTS, ONE BY ONE *)

IsLog(a) == \E t \in Thread : \E i \in 1 .. Len(log[t]) : a = <<"log", t, i>>
IsIn(a) == \E t \in Thread : in[t] # None /\ a = <<"in", t, 0>>
IsBuf(a) == \E c \in Chan : \E k \in 1 .. n[c] : a = <<"buf", c, k>>

(* The three kinds of spots, now and after the step.                          *)
LEMMA Kinds ==
  /\ \A a : a \in Spots <=> IsLog(a) \/ IsIn(a) \/ IsBuf(a)
  /\ \A a : a \in Spots' <=> IsLog(a)' \/ IsIn(a)' \/ IsBuf(a)'
BY DEF Spots, Logged, InHand, Stored, IsLog, IsIn, IsBuf

(* What stays where it is.                                                    *)
LogsStay == \A x \in Thread : \A i \in 1 .. Len(log[x]) :
               i \in 1 .. Len(log'[x]) /\ log'[x][i] = log[x][i]
InsStay == \A x \in Thread : in[x] # None => in'[x] = in[x] /\ tag'[x] = tag[x]
CellsStay == \A c \in Chan : \A k \in 1 .. n[c] : k \in 1 .. n'[c] /\ Cell(c, k)' = Cell(c, k)

(* The value in a spot, kind by kind.                                         *)
LEMMA LogStays ==
  ASSUME LogsStay, NEW a, IsLog(a)
  PROVE  IsLog(a)' /\ Val(a)' = Val(a) /\ Via(a)' = Via(a)
<1>1. PICK t \in Thread : \E i \in 1 .. Len(log[t]) : a = <<"log", t, i>>
  BY DEF IsLog
<1>2. PICK i \in 1 .. Len(log[t]) : a = <<"log", t, i>>
  BY <1>1
<1>3. i \in 1 .. Len(log'[t]) /\ log'[t][i] = log[t][i]
  BY DEF LogsStay
<1>4. a[1] = "log" /\ a[2] = t /\ a[3] = i
  BY <1>2
<1>. QED  BY <1>2, <1>3, <1>4 DEF IsLog, Val, Via

(* What a waiter was given stays with it,                                     *)
LEMMA InStays ==
  ASSUME InsStay, NEW a, IsIn(a)
  PROVE  IsIn(a)' /\ Val(a)' = Val(a) /\ Via(a)' = Via(a)
<1>1. PICK t \in Thread : in[t] # None /\ a = <<"in", t, 0>>
  BY DEF IsIn
<1>2. in'[t] = in[t] /\ tag'[t] = tag[t]
  BY <1>1 DEF InsStay
<1>3. a[1] = "in" /\ a[1] # "log" /\ a[2] = t
  BY <1>1
<1>. QED  BY <1>1, <1>2, <1>3 DEF IsIn, Val, Via

(* and what is in a buffer, in its cell.                                      *)
LEMMA BufStays ==
  ASSUME CellsStay, NEW a, IsBuf(a)
  PROVE  IsBuf(a)' /\ Val(a)' = Val(a) /\ Via(a)' = Via(a)
<1>1. PICK c \in Chan : \E k \in 1 .. n[c] : a = <<"buf", c, k>>
  BY DEF IsBuf
<1>2. PICK k \in 1 .. n[c] : a = <<"buf", c, k>>
  BY <1>1
<1>3. k \in 1 .. n'[c] /\ Cell(c, k)' = Cell(c, k)
  BY DEF CellsStay
<1>4. a[1] = "buf" /\ a[1] # "in" /\ a[1] # "log" /\ a[2] = c /\ a[3] = k
  BY <1>2
<1>. QED  BY <1>2, <1>3, <1>4 DEF IsBuf, Val, Via

(* The number of values a thread has made only grows.                         *)
Grows == \A x \in Thread : made[x] \in Nat /\ made'[x] \in Nat /\ made[x] <= made'[x]

(* A step that only takes values on,                                          *)
LEMMA ShiftKeeps ==
  ASSUME Sound, Grows, NEW g, NEW new, \A z : z \notin new, NEW m, Moves(g, new, m), sent' \subseteq Held
  PROVE  Sound' /\ Held' = Held
<1>1. PICK u : u = m
  OBVIOUS
<1>2. Born(new, m, u) /\ Gain(new, m) = {}
  BY DEF Born, Gain
<1>3. sent' \subseteq Held \cup Gain(new, m)
  BY <1>2
<1>4. \A x \in Thread : made[x] \in Nat /\ made'[x] \in Nat /\ made[x] <= made'[x]
  BY DEF Grows
<1>5. Sound' /\ Held' = Held \cup Gain(new, m)
  BY <1>2, <1>3, <1>4, MovesKeep
<1>. QED  BY <1>2, <1>5

(* and one by which all values stay, and one may come.                       *)
Comes(new, m) == /\ \A a : a \in Spots' => a \in new \/ a \in Spots
                 /\ \A z \in new : /\ z \in Spots' /\ z \notin Spots /\ Val(z)' = m
                                   /\ \A y \in new : y = z
                                   /\ \A b \in Spots' : ~Ahead(z, b)'

LEMMA StayKeeps ==
  ASSUME Sound, LogsStay, InsStay, CellsStay, Grows, NEW new, NEW m, NEW u, Comes(new, m),
         Born(new, m, u), sent' \subseteq Held \cup Gain(new, m)
  PROVE  Sound' /\ Held' = Held \cup Gain(new, m)
<1>. DEFINE g == [b \in Spots' |-> b]
<1>1. \A a \in Spots : a \in Spots' /\ Val(a)' = Val(a) /\ Via(a)' = Via(a)
  BY Kinds, LogStays, InStays, BufStays
<1>2. \A a, b \in Spots : Ahead(a, b)' <=> Ahead(a, b)
  BY <1>1 DEF Ahead
<1>3. \A b \in Spots' : g[b] = b
  OBVIOUS
<1>. HIDE DEF g
<1>4. Moves(g, new, m)
  BY <1>1, <1>2, <1>3 DEF Moves, Comes
<1>. QED  BY <1>4, MovesKeep DEF Grows

-----------------------------------------------------------------------------
(* WHO IS TOUCHED BY A CALL *)

Untouched(x) == tag'[x] = tag[x] /\ pc'[x] = pc[x] /\ req'[x] = req[x] /\ hit'[x] = hit[x]

(* A claim touches the claimer and the claimed,                               *)
LEMMA ClaimTouches ==
  ASSUME Control, NEW t, NEW q, May(t, q), NEW c \in Chan, NEW w, Found(q, c, w), Claim(t, w, c)
  PROVE  /\ w.t \in Thread /\ w.t # t /\ tag[w.t] = None /\ pc[w.t] = "waiting"
         /\ ReqOK(req[w.t]) /\ w.i \in 1 .. Len(req[w.t].alts) /\ tag'[w.t] = c /\ c # None
         /\ hit'[w.t] = w.i /\ pc'[w.t] = "waiting" /\ req'[w.t] = req[w.t]
         /\ pc'[t] = "waking" /\ \A x \in Thread : x # t /\ x # w.t => Untouched(x)
<1>1. t \in Thread /\ c # None
  BY ChannelAssumption DEF May
<1>2. PICK k \in Slot : w = q[c][k] /\ w # None /\ tag[w.t] = None
  BY DEF Found
<1>3. Member(w, c) /\ w.t # t
  BY <1>2 DEF May, Queued, Absent
<1>4. w.t \in Thread /\ pc[w.t] = "waiting" /\ ReqOK(req[w.t])
  BY <1>2, <1>3 DEF Member, Entry, Control, Places
<1>5. w.i \in 1 .. Len(req[w.t].alts)
  BY <1>3 DEF Member
<1>. QED  BY <1>1, <1>2, <1>3, <1>4, <1>5 DEF Claim, Control, Untouched

(* all else the caller alone.                                                 *)
LEMMA AloneTouches ==
  ASSUME Control, NEW t \in Thread, NEW r, NEW q, Finish(t) \/ Wait(t, r, q) \/ Fatal(t)
  PROVE  /\ \A x \in Thread : x # t => Untouched(x)
         /\ pc'[t] \in {"idle", "waiting", "fatal"}
         /\ pc'[t] = "waiting" => Wait(t, r, q) /\ req'[t] = r /\ tag'[t] = None
<1>1. CASE Finish(t)
  BY <1>1 DEF Finish, Control, Untouched
<1>2. CASE Wait(t, r, q)
  BY <1>2 DEF Wait, Control, Untouched
<1>3. CASE Fatal(t)
  BY <1>3 DEF Fatal, Control, Untouched
<1>. QED  BY <1>1, <1>2, <1>3

(* A thread that goes on by a buffered channel ends, or claims a waiter.      *)
LEMMA GoesIs ==
  ASSUME Control, NEW t, NEW q, NEW c \in Chan, NEW op, Goes(t, q, c, op)
  PROVE  Finish(t) \/ \E w : Found(q, c, w) /\ ItemOf(w).op = Co(op) /\ Claim(t, w, c)
BY PeerFound DEF Goes, Control

Went(t, r, q) == \/ \E c \in Chan : \E w : Found(q, c, w) /\ Claim(t, w, c)
                 \/ Finish(t) \/ Wait(t, r, q) \/ Fatal(t)

(* Nobody who has been given a value is touched.                              *)
LEMMA HoldersUntouched ==
  ASSUME Control, Delivered, NEW t, NEW r, NEW q, May(t, q), in[t] = None, Went(t, r, q)
  PROVE  \A x \in Thread : in[x] # None => x # t /\ Untouched(x)
<1>1. SUFFICES ASSUME NEW x \in Thread, in[x] # None PROVE x # t /\ Untouched(x)
  OBVIOUS
<1>2. x # t /\ tag[x] # None /\ t \in Thread
  BY <1>1 DEF Delivered, ByHand, Claimed, May
<1>3. ASSUME NEW c \in Chan, NEW w, Found(q, c, w), Claim(t, w, c) PROVE Untouched(x)
  <2>1. w.t # x
    BY <1>2, <1>3, ClaimTouches
  <2>. QED  BY <1>2, <1>3, <2>1, ClaimTouches
<1>4. Finish(t) \/ Wait(t, r, q) \/ Fatal(t) => Untouched(x)
  BY <1>2, AloneTouches
<1>. QED  BY <1>2, <1>3, <1>4 DEF Went

(* What the invariant says of a thread that waits.                            *)
Told(x) == /\ in[x] # None <=> ByHand(x, "RCV")
           /\ pc[x] \in {"waiting", "woken"} /\ IsSend(req[x]) =>
                 /\ req[x].out = <<x, made[x]>>
                 /\ req[x].out \in Held <=> ByHand(x, "SND")

(* It is what three parts of the invariant say.                               *)
LEMMA ToldIs ==
  /\ Delivered /\ Reached /\ Offered <=> \A x \in Thread : Told(x)
  /\ (\A x \in Thread : Told(x)') => Delivered' /\ Reached' /\ Offered'
BY DEF Told, Delivered, Reached, Offered

(* The values that the step has brought are those of others.                  *)
NotOf(x) == Held \subseteq Held' /\ \A m \in Held' : m \in Held \/ m[1] # x

(* It stays true of a thread that is not touched,                             *)
LEMMA ToldStays ==
  ASSUME NEW x, Told(x), Untouched(x), NotOf(x), in'[x] = in[x], made'[x] = made[x]
  PROVE  Told(x)'
<1>1. /\ ByHand(x, "SND")' <=> ByHand(x, "SND")
      /\ ByHand(x, "RCV")' <=> ByHand(x, "RCV")
      /\ IsSend(req[x])' <=> IsSend(req[x])
  BY DEF Untouched, ByHand, Claimed, IsSend
<1>2. ASSUME pc[x] \in {"waiting", "woken"}, IsSend(req[x])
      PROVE  req[x].out \in Held' <=> req[x].out \in Held
  <2>1. req[x].out[1] = x
    BY <1>2 DEF Told
  <2>. QED  BY <2>1 DEF NotOf
<1>. QED  BY <1>1, <1>2 DEF Told, Untouched

(* and of one that is claimed: on a buffered channel,                         *)
LEMMA ToldRoused ==
  ASSUME NEW x, Told(x), NotOf(x), NEW c, Size[c] # 0, tag[x] = None, tag'[x] = c,
         pc[x] = "waiting", pc'[x] = "waiting", req'[x] = req[x], in'[x] = in[x], made'[x] = made[x]
  PROVE  Told(x)'
<1>1. /\ ~ByHand(x, "SND")' /\ ~ByHand(x, "SND")
      /\ ~ByHand(x, "RCV")' /\ ~ByHand(x, "RCV")
      /\ IsSend(req[x])' <=> IsSend(req[x])
  BY DEF ByHand, Claimed, IsSend
<1>2. ASSUME IsSend(req[x]) PROVE req[x].out \in Held' <=> req[x].out \in Held
  <2>1. req[x].out[1] = x
    BY <1>2 DEF Told
  <2>. QED  BY <2>1 DEF NotOf
<1>. QED  BY <1>1, <1>2 DEF Told

(* and on an unbuffered one.                                                  *)
LEMMA ToldMet ==
  ASSUME NEW x, Told(x), NEW c, Size[c] = 0, tag[x] = None, tag'[x] = c, c # None,
         pc[x] = "waiting", pc'[x] = "waiting", req'[x] = req[x], made'[x] = made[x],
         NEW op \in {"SND", "RCV"}, req[x].alts[hit'[x]].op = op,
         op = "SND" => in'[x] = in[x] /\ IsSend(req[x]) /\ req[x].out \in Held',
         op = "RCV" => in'[x] # None /\ NotOf(x)
  PROVE  Told(x)'
<1>1. /\ ~ByHand(x, "SND") /\ ~ByHand(x, "RCV")
      /\ ByHand(x, "SND")' <=> op = "SND"
      /\ ByHand(x, "RCV")' <=> op = "RCV"
      /\ IsSend(req[x])' <=> IsSend(req[x])
  BY DEF ByHand, Claimed, IsSend
<1>2. ASSUME op = "RCV", IsSend(req[x]) PROVE req[x].out \in Held' <=> req[x].out \in Held
  <2>1. req[x].out[1] = x
    BY <1>2 DEF Told
  <2>. QED  BY <1>2, <2>1 DEF NotOf
<1>3. CASE op = "SND"
  BY <1>1, <1>3 DEF Told
<1>4. CASE op = "RCV"
  BY <1>1, <1>2, <1>4 DEF Told
<1>. QED  BY <1>3, <1>4

(* What is received is logged at the end.                                     *)
LogOK == log \in [Thread -> Seq(Value \X Chan)]

(* One more entry,                                                            *)
LEMMA LogGrows ==
  ASSUME LogOK, NEW t \in Thread, NEW c \in Chan, NEW m \in Value, DidRecv(t, c, m)
  PROVE  /\ LogOK' /\ LogsStay /\ sent' = sent
         /\ Len(log[t]) \in Nat /\ Len(log'[t]) = Len(log[t]) + 1
         /\ log'[t][Len(log[t]) + 1] = <<m, c>>
         /\ \A x \in Thread : x # t => log'[x] = log[x]
<1>1. PICK e \in Value \X Chan : e = <<m, c>>
  OBVIOUS
<1>2. log[t] \in Seq(Value \X Chan)
  BY DEF LogOK
<1>3. /\ log'[t] = Append(log[t], e) /\ \A x \in Thread : x # t => log'[x] = log[x]
      /\ log' = [log EXCEPT ![t] = Append(log[t], e)] /\ sent' = sent
  BY <1>1 DEF DidRecv, LogOK
<1>4. /\ Append(log[t], e) \in Seq(Value \X Chan) /\ Len(log[t]) \in Nat
      /\ Len(log'[t]) = Len(log[t]) + 1
      /\ \A i \in 1 .. Len(log[t]) : log'[t][i] = log[t][i]
      /\ log'[t][Len(log[t]) + 1] = e
  BY <1>2, <1>3, AppendList
<1>5. LogOK'
  BY <1>3, <1>4 DEF LogOK
<1>6. LogsStay
  BY <1>3, <1>4 DEF LogsStay
<1>. QED  BY <1>1, <1>3, <1>4, <1>5, <1>6

(* or none.                                                                   *)
LEMMA LogSame == ASSUME LogOK, log' = log PROVE LogOK' /\ LogsStay
BY DEF LogOK, LogsStay

(* The new entry is the last one of its thread.                               *)
LEMMA LogKinds ==
  ASSUME NEW t \in Thread, NEW l \in Nat, l = Len(log[t]) + 1, Len(log[t]) \in Nat,
         Len(log'[t]) = l, \A x \in Thread : x # t => log'[x] = log[x],
         NEW z, z = <<"log", t, l>>
  PROVE  /\ \A b : IsLog(b)' /\ b # z => /\ IsLog(b) /\ b[1] = "log"
                                         /\ b[2] = t => b[3] \in Nat /\ b[3] < l
         /\ \A b : IsLog(b) => b # z
<1>1. ASSUME NEW b, IsLog(b)', b # z
      PROVE  IsLog(b) /\ b[1] = "log" /\ (b[2] = t => b[3] \in Nat /\ b[3] < l)
  <2>1. PICK x \in Thread : \E i \in 1 .. Len(log'[x]) : b = <<"log", x, i>>
    BY <1>1 DEF IsLog
  <2>2. PICK i \in 1 .. Len(log'[x]) : b = <<"log", x, i>>
    BY <2>1
  <2>3. b[1] = "log" /\ b[2] = x /\ b[3] = i
    BY <2>2
  <2>4. ASSUME x = t PROVE i \in 1 .. Len(log[t]) /\ i \in Nat /\ i < l
    <3>1. i # l
      BY <1>1, <2>2, <2>4
    <3>. QED  BY <2>4, <3>1
  <2>5. i \in 1 .. Len(log[x])
    BY <2>4
  <2>6. IsLog(b)
    BY <2>2, <2>5 DEF IsLog
  <2>. QED  BY <2>3, <2>4, <2>6
<1>2. ASSUME NEW b, IsLog(b) PROVE b # z
  <2>1. PICK x \in Thread : \E i \in 1 .. Len(log[x]) : b = <<"log", x, i>>
    BY <1>2 DEF IsLog
  <2>2. PICK i \in 1 .. Len(log[x]) : b = <<"log", x, i>>
    BY <2>1
  <2>3. b[2] = x /\ b[3] = i /\ z[2] = t /\ z[3] = l /\ l \notin 1 .. Len(log[t])
    BY <2>2
  <2>. QED  BY <2>3
<1>. QED  BY <1>1, <1>2

-----------------------------------------------------------------------------
(* EACH WAY THAT A VALUE GOES *)

(* A call in the midst of the others: it has been given nothing yet, and the  *)
(* value that it sends, if any, is the newest of its thread and nowhere.      *)
Amid(t, r, q) == /\ Calling(t, r, q) /\ in[t] = None /\ Grows
                 /\ \A x \in Thread : x # t => made'[x] = made[x]
                 /\ IsSend(r) => r.out = <<t, made'[t]>> /\ Newborn(r.out, t)

(* The parts of the invariants that the cases need.                           *)
LEMMA Parts ==
  ASSUME IInv, VInv, NEW t, NEW r, NEW q, Amid(t, r, q)
  PROVE  /\ Control /\ Buffers /\ LogOK /\ Sound /\ Delivered /\ Fits /\ t \in Thread
         /\ May(t, q) /\ Kept(t, q) /\ Grows /\ in \in [Thread -> Value \cup {None}]
         /\ \A x \in Thread : Told(x)
         /\ \A x \in Thread : x # t => made'[x] = made[x]
         /\ \A c \in Chan : n[c] \in Nat /\ Size[c] \in Nat
BY InvParts, ToldIs, Numbers DEF VInv, LogOK, Sound, Amid, Calling, IInv, Typed

(* Put together again.                                                        *)
LEMMA Together ==
  ASSUME LogOK', Sound', Fits', \A x \in Thread : Told(x)'
  PROVE  VInv'
BY ToldIs DEF VInv, LogOK, Sound

(* Those who are not on buffered channel c, or newly woken for it.            *)
LEMMA GoesTells ==
  ASSUME IInv, VInv, NEW t, NEW r, NEW q, Amid(t, r, q), NEW c \in Chan, Size[c] # 0,
         NEW op, Goes(t, q, c, op), in' = in,
         \A x \in Thread : x # t => NotOf(x)
  PROVE  \A x \in Thread : Told(x)'
<1>1. /\ Control /\ t \in Thread /\ May(t, q) /\ in[t] = None
      /\ \A x \in Thread : Told(x)
      /\ \A x \in Thread : x # t => made'[x] = made[x]
  BY Parts DEF Amid
<1>2. CASE Finish(t)
  <2>1. \A x \in Thread : x # t => Untouched(x)
    BY <1>1, <1>2, AloneTouches
  <2>2. Told(t)'
    BY <1>1, <1>2 DEF Finish, Control, Told, ByHand, Claimed
  <2>. QED  BY <1>1, <2>1, <2>2, ToldStays
<1>3. ASSUME NEW w, Found(q, c, w), Claim(t, w, c) PROVE \A x \in Thread : Told(x)'
  <2>1. /\ w.t \in Thread /\ w.t # t /\ tag[w.t] = None /\ pc[w.t] = "waiting" /\ tag'[w.t] = c
        /\ pc'[w.t] = "waiting" /\ req'[w.t] = req[w.t] /\ pc'[t] = "waking"
        /\ \A x \in Thread : x # t /\ x # w.t => Untouched(x)
    BY <1>1, <1>3, ClaimTouches
  <2>2. PICK u \in Thread : u = w.t
    BY <2>1
  <2>3. Told(u)'
    BY <1>1, <2>1, <2>2, ToldRoused
  <2>4. Told(t)'
    BY <1>1, <2>1 DEF Told, ByHand, Claimed
  <2>. QED  BY <1>1, <2>1, <2>2, <2>3, <2>4, ToldStays
<1>. QED  BY <1>1, <1>2, <1>3, GoesIs

(* into a buffer,                                                             *)
LEMMA PutsKeep ==
  ASSUME RingCloses, IInv, IInv', VInv, NEW t, NEW r, NEW q, Amid(t, r, q), IsSend(r),
         NEW c \in Chan, Puts(t, r, q, c)
  PROVE  VInv'
<1>1. /\ Control /\ Buffers /\ LogOK /\ Sound /\ Delivered /\ Fits /\ t \in Thread /\ May(t, q)
      /\ Grows /\ in \in [Thread -> Value \cup {None}] /\ n[c] \in Nat /\ Size[c] \in Nat
  BY Parts
<1>2. Buffers'
  BY DEF IInv, Typed
<1>3. /\ in' = in /\ log' = log /\ sent' = sent \cup {r.out} /\ in[t] = None
      /\ HasRoom(c) /\ Put(c, r.out) /\ Size[c] # 0 /\ Goes(t, q, c, "SND")
  BY <1>1 DEF Puts, DidSend, Amid
<1>4. PICK m, l : m = r.out /\ l = n[c] + 1 /\ l \in Nat
  BY <1>1
<1>5. /\ n'[c] = l /\ Cell(c, l)' = m
      /\ \A k \in 1 .. n[c] : Cell(c, k)' = Cell(c, k)
      /\ \A d \in Chan : d # c => n'[d] = n[d] /\ \A k : Cell(d, k)' = Cell(d, k)
  BY <1>1, <1>2, <1>3, <1>4, PutCells
<1>6. InsStay
  <2>1. Went(t, r, q)
    BY <1>1, <1>3, GoesIs DEF Went
  <2>. QED  BY <1>1, <1>3, <2>1, HoldersUntouched DEF InsStay, Untouched
<1>7. LogOK' /\ LogsStay
  BY <1>1, <1>3, LogSame
<1>8. CellsStay
  <2>1. \A k \in 1 .. n[c] : k \in 1 .. n'[c]
    BY <1>1, <1>4, <1>5
  <2>. QED  BY <1>5, <2>1 DEF CellsStay
<1>9. PICK z : z = <<"buf", c, l>>
  OBVIOUS
<1>10. z[1] = "buf" /\ z[2] = c /\ z[3] = l
  BY <1>9
<1>11. z \in Spots' /\ z \notin Spots
  <2>1. l \in 1 .. n'[c]
    BY <1>4, <1>5, <1>1
  <2>2. IsBuf(z)'
    BY <1>9, <2>1 DEF IsBuf
  <2>3. ~IsLog(z) /\ ~IsIn(z)
    BY <1>10 DEF IsLog, IsIn
  <2>4. ~IsBuf(z)
    <3>1. l \notin 1 .. n[c]
      BY <1>1, <1>4
    <3>. QED  BY <1>9, <3>1 DEF IsBuf
  <2>. QED  BY <2>2, <2>3, <2>4, Kinds
<1>12. Val(z)' = m
  BY <1>5, <1>10 DEF Val
<1>13. ASSUME NEW b \in Spots' PROVE (b = z \/ b \in Spots) /\ ~Ahead(z, b)'
  <2>1. CASE IsLog(b)'
    <3>1. IsLog(b) /\ b[1] = "log"
      BY <1>3, <2>1 DEF IsLog
    <3>. QED  BY <1>10, <3>1, Kinds DEF Ahead
  <2>2. CASE IsIn(b)'
    <3>1. IsIn(b) /\ b[1] = "in"
      BY <1>3, <2>2 DEF IsIn
    <3>. QED  BY <1>10, <3>1, Kinds DEF Ahead
  <2>3. CASE IsBuf(b)'
    <3>1. PICK d \in Chan : \E k \in 1 .. n'[d] : b = <<"buf", d, k>>
      BY <2>3 DEF IsBuf
    <3>2. PICK k \in 1 .. n'[d] : b = <<"buf", d, k>>
      BY <3>1
    <3>3. b[1] = "buf" /\ b[2] = d /\ b[3] = k
      BY <3>2
    <3>4. CASE d = c
      <4>1. k = l \/ k \in 1 .. n[c]
        BY <1>1, <1>4, <1>5, <3>4
      <4>2. b = z \/ IsBuf(b)
        BY <1>9, <3>2, <3>4, <4>1 DEF IsBuf
      <4>3. ~(l < k)
        BY <1>4, <1>5, <3>4
      <4>. QED  BY <1>10, <3>3, <4>2, <4>3, Kinds DEF Ahead
    <3>5. CASE d # c
      <4>1. IsBuf(b)
        BY <1>5, <3>2, <3>5 DEF IsBuf
      <4>2. Via(z)' = c /\ Via(b)' = d
        BY <1>10, <3>3 DEF Via
      <4>. QED  BY <3>5, <4>1, <4>2, Kinds DEF Ahead
    <3>. QED  BY <3>4, <3>5
  <2>. QED  BY <2>1, <2>2, <2>3, Kinds
<1>14. Newborn(m, t) /\ m = <<t, made'[t]>> /\ made'[t] \in Nat
  BY <1>1, <1>4 DEF Amid, Grows
<1>15. Sound' /\ Held' = Held \cup {m}
  <2>1. PICK new : new = {z}
    OBVIOUS
  <2>2. Gain(new, m) = {m} /\ sent' \subseteq Held \cup Gain(new, m)
    BY <1>1, <1>3, <1>4, <2>1 DEF Sound, Unlost, Gain
  <2>3. Born(new, m, t)
    BY <1>14 DEF Born
  <2>4. Comes(new, m)
    BY <1>11, <1>12, <1>13, <2>1 DEF Comes
  <2>5. Sound' /\ Held' = Held \cup Gain(new, m)
    BY <1>1, <1>6, <1>7, <1>8, <2>2, <2>3, <2>4, StayKeeps
  <2>. QED  BY <2>2, <2>5
<1>16. \A x \in Thread : x # t => NotOf(x)
  BY <1>14, <1>15 DEF NotOf
<1>17. \A x \in Thread : Told(x)'
  BY <1>3, <1>16, GoesTells
<1>18. Fits'
  BY <1>1, <1>3, <1>4, <1>5 DEF Fits, HasRoom
<1>. QED  BY <1>7, <1>15, <1>17, <1>18, Together

(* out of a buffer,                                                           *)
LEMMA TakesKeep ==
  ASSUME RingCloses, IInv, VInv, NEW t, NEW r, NEW q, Amid(t, r, q), NEW c \in Chan, Takes(t, q, c)
  PROVE  VInv'
<1>1. /\ Control /\ Buffers /\ LogOK /\ Sound /\ Delivered /\ Fits /\ t \in Thread /\ May(t, q)
      /\ Grows /\ in \in [Thread -> Value \cup {None}] /\ n[c] \in Nat /\ Size[c] \in Nat
  BY Parts
<1>2. /\ in' = in /\ in[t] = None /\ n[c] # 0 /\ n[c] <= Size[c] /\ Take(c)
      /\ DidRecv(t, c, Oldest(c)) /\ Size[c] # 0 /\ Goes(t, q, c, "RCV")
  BY <1>1 DEF Takes, Amid, Fits
<1>3. /\ n'[c] = n[c] - 1 /\ Oldest(c) = Cell(c, 1)
      /\ \A k \in 1 .. n[c] - 1 : Cell(c, k)' = Cell(c, k + 1)
      /\ \A d \in Chan : d # c => n'[d] = n[d] /\ \A k : Cell(d, k)' = Cell(d, k)
  BY <1>1, <1>2, TakeCells
<1>4. InsStay
  <2>1. Went(t, r, q)
    BY <1>1, <1>2, GoesIs DEF Went
  <2>. QED  BY <1>1, <1>2, <2>1, HoldersUntouched DEF InsStay, Untouched
<1>5. PICK first : first = <<"buf", c, 1>>
  OBVIOUS
<1>6. /\ first \in Spots /\ Val(first) = Oldest(c) /\ Via(first) = c /\ Oldest(c) \in Value
      /\ first[1] = "buf" /\ first[2] = c /\ first[3] = 1
  <2>1. 1 \in 1 .. n[c]
    BY <1>1, <1>2
  <2>2. IsBuf(first)
    BY <1>5, <2>1 DEF IsBuf
  <2>3. first[1] = "buf" /\ first[2] = c /\ first[3] = 1
    BY <1>5
  <2>4. Val(first) = Oldest(c) /\ Via(first) = c
    BY <1>3, <2>3 DEF Val, Via
  <2>. QED  BY <1>1, <2>2, <2>3, <2>4, Kinds DEF Sound, Counted
<1>7. PICK m \in Value, l \in Nat : m = Oldest(c) /\ l = Len(log[t]) + 1
  BY <1>1, <1>6 DEF LogOK
<1>8. /\ LogOK' /\ LogsStay /\ sent' = sent
      /\ Len(log[t]) \in Nat /\ Len(log'[t]) = l /\ log'[t][l] = <<m, c>>
      /\ \A x \in Thread : x # t => log'[x] = log[x]
  BY <1>1, <1>2, <1>7, LogGrows
<1>9. PICK z : z = <<"log", t, l>>
  OBVIOUS
<1>10. /\ z[1] = "log" /\ z[2] = t /\ z[3] = l
       /\ Val(z)' = m /\ Via(z)' = c
  BY <1>8, <1>9 DEF Val, Via
<1>11. z \in Spots'
  <2>1. l \in 1 .. Len(log'[t])
    BY <1>7, <1>8
  <2>. QED  BY <1>1, <1>9, <2>1, Kinds DEF IsLog
<1>. DEFINE h(b) == IF b = z THEN first
                    ELSE IF b[1] = "buf" /\ b[2] = c THEN <<"buf", c, b[3] + 1>> ELSE b
            g == [b \in Spots' |-> h(b)]
<1>12. \A b \in Spots' : g[b] = h(b)
  OBVIOUS
<1>. HIDE DEF g
<1>13. ASSUME NEW b, IsLog(b)', b # z
       PROVE  /\ b \in Spots /\ b[1] = "log" /\ g[b] = b
              /\ Val(b)' = Val(b) /\ Via(b)' = Via(b)
              /\ b[2] = t => b[3] < l
  <2>1. IsLog(b) /\ b[1] = "log" /\ (b[2] = t => b[3] < l)
    BY <1>1, <1>7, <1>8, <1>9, <1>13, LogKinds
  <2>2. b \in Spots' /\ b \in Spots
    BY <1>13, <2>1, Kinds
  <2>. QED  BY <1>8, <1>12, <1>13, <2>1, <2>2, LogStays
<1>14. ASSUME NEW b, IsIn(b)'
       PROVE  /\ b \in Spots /\ b[1] = "in" /\ g[b] = b /\ b # z /\ b[2] # t
              /\ Val(b)' = Val(b) /\ Via(b)' = Via(b)
  <2>1. PICK x \in Thread : in'[x] # None /\ b = <<"in", x, 0>>
    BY <1>14 DEF IsIn
  <2>2. b[1] = "in" /\ b[2] = x /\ x # t /\ IsIn(b)
    BY <1>2, <2>1 DEF IsIn
  <2>3. b \in Spots' /\ b \in Spots /\ b # z
    BY <1>10, <1>14, <2>2, Kinds
  <2>. QED  BY <1>4, <1>12, <2>2, <2>3, InStays
<1>15. ASSUME NEW b, IsBuf(b)'
       PROVE  /\ b[1] = "buf" /\ b # z /\ g[b] \in Spots /\ b[3] \in Nat \ {0}
              /\ Val(b)' = Val(g[b]) /\ Via(b)' = Via(g[b])
              /\ g[b][1] = "buf" /\ g[b][2] = b[2]
              /\ g[b][3] = IF b[2] = c THEN b[3] + 1 ELSE b[3]
              /\ b[2] # c => g[b] = b
              /\ \A k \in 1 .. n[c] - 1 : b = <<"buf", c, k>> => g[b] = <<"buf", c, k + 1>>
  <2>1. PICK d \in Chan : \E k \in 1 .. n'[d] : b = <<"buf", d, k>>
    BY <1>15 DEF IsBuf
  <2>2. PICK k \in 1 .. n'[d] : b = <<"buf", d, k>>
    BY <2>1
  <2>3. b[1] = "buf" /\ b[2] = d /\ b[3] = k /\ b # z /\ b \in Spots' /\ k \in Nat \ {0}
    BY <1>10, <1>15, <2>2, Kinds
  <2>4. CASE d = c
    <3>1. k \in 1 .. n[c] - 1 /\ k + 1 \in 1 .. n[c]
      BY <1>1, <1>3, <2>4
    <3>2. PICK y : y = <<"buf", c, k + 1>>
      OBVIOUS
    <3>3. g[b] = y /\ y[1] = "buf" /\ y[2] = c /\ y[3] = k + 1
      BY <1>12, <2>3, <2>4, <3>2
    <3>4. IsBuf(y)
      BY <3>1, <3>2 DEF IsBuf
    <3>5. Val(b)' = Cell(c, k)' /\ Val(y) = Cell(c, k + 1) /\ Via(b)' = c /\ Via(y) = c
      BY <2>3, <2>4, <3>3 DEF Val, Via
    <3>6. g[b] \in Spots /\ Val(b)' = Val(g[b]) /\ Via(b)' = Via(g[b])
      BY <1>3, <3>1, <3>3, <3>4, <3>5, Kinds
    <3>7. \A j : b = <<"buf", c, j>> => g[b] = <<"buf", c, j + 1>>
      BY <2>2, <3>2, <3>3
    <3>. QED  BY <2>3, <2>4, <3>3, <3>6, <3>7
  <2>5. CASE d # c
    <3>1. g[b] = b /\ IsBuf(b)
      BY <1>3, <1>12, <2>2, <2>3, <2>5 DEF IsBuf
    <3>2. Val(b)' = Cell(d, k)' /\ Val(b) = Cell(d, k) /\ Via(b)' = d /\ Via(b) = d
      BY <2>3 DEF Val, Via
    <3>3. g[b] \in Spots /\ Val(b)' = Val(g[b]) /\ Via(b)' = Via(g[b])
      BY <1>3, <2>5, <3>1, <3>2, Kinds
    <3>4. \A j : b # <<"buf", c, j>>
      BY <2>3, <2>5
    <3>. QED  BY <2>3, <2>5, <3>1, <3>3, <3>4
  <2>. QED  BY <2>4, <2>5
<1>16. g[z] = first
  BY <1>11, <1>12
<1>. HIDE DEF h
<1>17. ASSUME NEW b \in Spots'
       PROVE  g[b] \in Spots /\ Val(b)' = Val(g[b]) /\ Via(b)' = Via(g[b])
  <2>1. CASE b = z
    BY <1>6, <1>7, <1>10, <1>16, <2>1
  <2>2. CASE IsLog(b)' /\ b # z
    BY <1>13, <2>2
  <2>3. CASE IsIn(b)'
    BY <1>14, <2>3
  <2>4. CASE IsBuf(b)'
    BY <1>15, <2>4
  <2>. QED  BY <2>1, <2>2, <2>3, <2>4, Kinds
<1>18. ASSUME NEW a \in Spots', NEW b \in Spots', g[a] = g[b] PROVE a = b
  <2>1. CASE a = z
    <3>1. IsBuf(b)' => g[b] # first
      <4>1. IsBuf(b)' => g[b][2] # c \/ g[b][3] # 1
        BY <1>15
      <4>. QED  BY <1>6, <4>1
    <3>. QED  BY <1>6, <1>13, <1>14, <1>16, <1>18, <2>1, <3>1, Kinds
  <2>2. CASE b = z
    <3>1. IsBuf(a)' => g[a] # first
      <4>1. IsBuf(a)' => g[a][2] # c \/ g[a][3] # 1
        BY <1>15
      <4>. QED  BY <1>6, <4>1
    <3>. QED  BY <1>6, <1>13, <1>14, <1>16, <1>18, <2>2, <3>1, Kinds
  <2>3. CASE a # z /\ b # z /\ IsBuf(a)' /\ IsBuf(b)'
    <3>1. a[2] = b[2] /\ a[3] = b[3]
      BY <1>15, <1>18, <2>3
    <3>. QED  BY <2>3, <3>1 DEF IsBuf
  <2>4. CASE a # z /\ b # z /\ ~(IsBuf(a)' /\ IsBuf(b)')
    <3>1. ASSUME NEW y, IsBuf(y)' PROVE g[y][1] = "buf"
      BY <1>15, <3>1
    <3>. QED  BY <1>13, <1>14, <1>18, <2>4, <3>1, Kinds
  <2>. QED  BY <2>1, <2>2, <2>3, <2>4
<1>19. ASSUME NEW a \in Spots PROVE \E b \in Spots' : g[b] = a
  <2>1. CASE IsLog(a)
    <3>1. IsLog(a)' /\ a # z
      BY <1>1, <1>7, <1>8, <1>9, <2>1, LogKinds, LogStays
    <3>. QED  BY <1>13, <3>1, Kinds
  <2>2. CASE IsIn(a)
    BY <1>4, <1>14, <2>2, InStays, Kinds
  <2>3. CASE IsBuf(a)
    <3>1. PICK d \in Chan : \E k \in 1 .. n[d] : a = <<"buf", d, k>>
      BY <2>3 DEF IsBuf
    <3>2. PICK k \in 1 .. n[d] : a = <<"buf", d, k>>
      BY <3>1
    <3>3. CASE d # c
      <4>1. IsBuf(a)' /\ a[2] = d
        BY <1>3, <3>2, <3>3 DEF IsBuf
      <4>. QED  BY <1>15, <3>3, <4>1, Kinds
    <3>4. CASE d = c /\ k = 1
      BY <1>5, <1>11, <1>16, <3>2, <3>4
    <3>5. CASE d = c /\ k # 1
      <4>1. PICK j \in 1 .. n[c] - 1 : j = k - 1
        BY <1>1, <3>5
      <4>2. PICK b : b = <<"buf", c, j>>
        OBVIOUS
      <4>3. b[2] = c /\ b[3] = j /\ IsBuf(b)' /\ j + 1 = k
        BY <1>3, <3>5, <4>1, <4>2 DEF IsBuf
      <4>. QED  BY <1>15, <3>2, <3>5, <4>1, <4>2, <4>3, Kinds
    <3>. QED  BY <3>3, <3>4, <3>5
  <2>. QED  BY <2>1, <2>2, <2>3, Kinds
<1>20. ASSUME NEW a \in Spots', NEW b \in Spots', Ahead(a, b)' PROVE Ahead(g[a], g[b])
  <2>1. Via(g[a]) = Via(g[b]) /\ Via(a)' = Via(b)'
    BY <1>17, <1>20 DEF Ahead
  <2>2. \A y \in Spots' : y[1] = "buf" <=> IsBuf(y)'
    BY <1>10, <1>13, <1>14, <1>15, Kinds
  <2>3. \A y \in Spots' : y[1] = "log" <=> y = z \/ (IsLog(y)' /\ y # z)
    BY <1>10, <1>13, <1>14, <1>15, Kinds
  <2>4. CASE a = z
    <3>1. IsBuf(b)'
      <4>1. CASE b[1] = "log" /\ b[2] = t /\ l < b[3]
        <5>1. b # z /\ IsLog(b)'
          BY <1>7, <1>10, <2>3, <4>1
        <5>2. b[3] < l /\ b[3] \in Nat
          BY <1>13, <4>1, <5>1 DEF IsLog
        <5>. QED  BY <1>7, <4>1, <5>2
      <4>2. CASE b[1] = "in" /\ b[2] = t
        BY <1>10, <1>13, <1>14, <1>15, <4>2, Kinds
      <4>3. CASE b[1] = "buf"
        BY <2>2, <4>3
      <4>. QED  BY <1>10, <1>20, <2>4, <4>1, <4>2, <4>3 DEF Ahead
    <3>2. b[2] = c
      BY <1>10, <1>15, <2>1, <2>4, <3>1 DEF Via
    <3>3. g[b][1] = "buf" /\ g[b][3] = b[3] + 1 /\ 1 < b[3] + 1
      BY <1>15, <3>1, <3>2
    <3>. QED  BY <1>6, <1>16, <2>1, <2>4, <3>3 DEF Ahead
  <2>5. CASE a # z /\ a[1] = "log"
    <3>1. g[a] = a
      BY <1>13, <2>3, <2>5
    <3>2. CASE b = z
      BY <1>6, <1>16, <2>1, <2>5, <3>1, <3>2 DEF Ahead
    <3>3. CASE IsBuf(b)'
      <4>1. g[b][1] = "buf"
        BY <1>15, <3>3
      <4>. QED  BY <2>1, <2>5, <3>1, <4>1 DEF Ahead
    <3>4. CASE b # z /\ ~IsBuf(b)'
      <4>1. g[b] = b
        BY <1>13, <1>14, <3>4, Kinds
      <4>. QED  BY <1>20, <2>1, <2>5, <3>1, <4>1 DEF Ahead
    <3>. QED  BY <3>2, <3>3, <3>4
  <2>6. CASE a # z /\ a[1] # "log"
    <3>1. a[1] = "buf" /\ b[1] = "buf" /\ a[3] < b[3]
      BY <1>20, <2>6 DEF Ahead
    <3>2. IsBuf(a)' /\ IsBuf(b)' /\ a[2] = b[2]
      BY <2>1, <2>2, <3>1 DEF Via
    <3>3. /\ g[a][1] = "buf" /\ a[3] \in Nat /\ g[a][3] = IF a[2] = c THEN a[3] + 1 ELSE a[3]
          /\ g[b][1] = "buf" /\ b[3] \in Nat /\ g[b][3] = IF b[2] = c THEN b[3] + 1 ELSE b[3]
      BY <1>15, <3>2
    <3>4. g[a][3] < g[b][3]
      BY <3>1, <3>2, <3>3
    <3>. QED  BY <2>1, <3>3, <3>4 DEF Ahead
  <2>. QED  BY <2>4, <2>5, <2>6
<1>21. Sound' /\ Held' = Held
  <2>1. PICK new : new = {}
    OBVIOUS
  <2>2. Moves(g, new, m)
    BY <1>17, <1>18, <1>19, <1>20, <2>1 DEF Moves
  <2>3. sent' \subseteq Held
    BY <1>1, <1>8 DEF Sound, Unlost
  <2>. QED  BY <1>1, <2>1, <2>2, <2>3, ShiftKeeps
<1>22. \A x \in Thread : Told(x)'
  BY <1>2, <1>21, GoesTells DEF NotOf
<1>23. Fits'
  BY <1>1, <1>2, <1>3, Parts DEF Fits
<1>. QED  BY <1>8, <1>21, <1>22, <1>23, Together

(* A value is of a thread, and numbered.                                      *)
LEMMA ValueIs == \A m \in Value : m = <<m[1], m[2]>> /\ m[1] \in Thread /\ m[2] \in Nat
BY ChannelAssumption DEF Value

(* The value of a waiter that nobody has taken is nowhere else.               *)
LEMMA PendingIsNew ==
  ASSUME Sound, NEW x \in Thread, Told(x), pc[x] \in {"waiting", "woken"}, IsSend(req[x]),
         ReqOK(req[x]), ~ByHand(x, "SND"), made[x] \in Nat
  PROVE  Newborn(req[x].out, x) /\ req[x].out = <<x, made[x]>>
<1>1. PICK m \in Value : m = req[x].out
  BY DEF IsSend, ReqOK
<1>2. m = <<x, made[x]>> /\ m \notin Held
  BY <1>1 DEF Told
<1>3. ASSUME NEW a \in Spots, Val(a)[1] = x PROVE Val(a)[2] < m[2]
  <2>1. Val(a) \in Value /\ Val(a) \in Held /\ Val(a)[2] <= made[x]
    BY <1>3 DEF Sound, Counted, Held
  <2>2. Val(a)[2] # made[x]
    BY <1>2, <1>3, <2>1, ValueIs
  <2>3. Val(a)[2] \in Nat
    BY <2>1, ValueIs
  <2>. QED  BY <1>2, <2>1, <2>2, <2>3
<1>. QED  BY <1>1, <1>2, <1>3 DEF Newborn

(* Who meets whom, on an unbuffered channel.                                  *)
LEMMA MeetsWhom ==
  ASSUME IInv, VInv, NEW t, NEW r, NEW q, Amid(t, r, q), NEW c \in Chan,
         NEW op \in {"SND", "RCV"}, NEW u, Meets(t, q, c, op, u)
  PROVE  /\ u \in Thread /\ u # t /\ tag[u] = None /\ tag'[u] = c /\ c # None
         /\ pc[u] = "waiting" /\ pc'[u] = "waiting" /\ req'[u] = req[u] /\ in[u] = None
         /\ hit'[u] \in 1 .. Len(req[u].alts) /\ req[u].alts[hit'[u]].op = Co(op)
         /\ ReqOK(req[u]) /\ pc'[t] = "waking"
         /\ \A x \in Thread : x # t /\ x # u => Untouched(x)
         /\ Went(t, r, q) /\ n' = n /\ CellsStay /\ Fits' /\ Size[c] = 0 /\ n[c] = 0
<1>1. /\ Control /\ t \in Thread /\ May(t, q) /\ n[c] \in Nat /\ Fits
      /\ \A x \in Thread : Told(x)
  BY Parts
<1>2. PICK w : Found(q, c, w) /\ ItemOf(w).op = Co(op) /\ Claim(t, w, c) /\ u = w.t
  BY DEF Meets
<1>3. UNCHANGED <<f, n, v>> /\ Size[c] = 0
  BY DEF Meets, buffer
<1>4. CellsStay /\ Fits' /\ n[c] = 0
  BY <1>1, <1>3 DEF CellsStay, Cell, Fits
<1>5. Went(t, r, q)
  BY <1>2 DEF Went
<1>6. /\ u \in Thread /\ u # t /\ tag[u] = None /\ tag'[u] = c /\ c # None
      /\ pc[u] = "waiting" /\ pc'[u] = "waiting" /\ req'[u] = req[u] /\ hit'[u] = w.i
      /\ w.i \in 1 .. Len(req[u].alts) /\ ReqOK(req[u]) /\ pc'[t] = "waking"
      /\ \A x \in Thread : x # t /\ x # u => Untouched(x)
  BY <1>1, <1>2, ClaimTouches
<1>7. in[u] = None
  BY <1>1, <1>6 DEF Told, ByHand, Claimed
<1>. QED  BY <1>2, <1>3, <1>4, <1>5, <1>6, <1>7 DEF ItemOf

(* to a receiver that waits,                                                  *)
LEMMA HandsKeep ==
  ASSUME IInv, VInv, NEW t, NEW r, NEW q, Amid(t, r, q), IsSend(r),
         NEW c \in Chan, NEW u, Hands(t, r, q, c, u)
  PROVE  VInv'
<1>1. /\ Control /\ LogOK /\ Sound /\ Delivered /\ t \in Thread /\ May(t, q) /\ in[t] = None
      /\ Grows /\ in \in [Thread -> Value \cup {None}] /\ \A x \in Thread : Told(x)
      /\ \A x \in Thread : x # t => made'[x] = made[x]
  BY Parts DEF Amid
<1>2. PICK m \in Value : m = r.out /\ m = <<t, made'[t]>> /\ Newborn(m, t)
  BY DEF Amid, Newborn
<1>3. /\ u \in Thread /\ u # t /\ tag[u] = None /\ tag'[u] = c /\ c # None
      /\ pc[u] = "waiting" /\ pc'[u] = "waiting" /\ req'[u] = req[u] /\ in[u] = None
      /\ req[u].alts[hit'[u]].op = "RCV" /\ pc'[t] = "waking"
      /\ \A x \in Thread : x # t /\ x # u => Untouched(x)
      /\ Went(t, r, q) /\ n' = n /\ CellsStay /\ Fits' /\ Size[c] = 0
  BY MeetsWhom DEF Hands, Co
<1>4. /\ in'[u] = m /\ in'[t] = None /\ \A x \in Thread : x # u => in'[x] = in[x]
      /\ log' = log /\ sent' = sent \cup {m} /\ m # None
  BY <1>1, <1>2, <1>3, ChannelAssumption DEF Hands, DidSend
<1>5. InsStay
  BY <1>1, <1>3, <1>4, HoldersUntouched DEF InsStay, Untouched
<1>6. LogOK' /\ LogsStay
  BY <1>1, <1>4, LogSame
<1>7. PICK z : z = <<"in", u, 0>>
  OBVIOUS
<1>8. z[1] = "in" /\ z[2] = u
  BY <1>7
<1>9. z \in Spots' /\ z \notin Spots /\ Val(z)' = m
  <2>1. IsIn(z)'
    BY <1>3, <1>4, <1>7 DEF IsIn
  <2>2. ~IsIn(z) /\ ~IsLog(z) /\ ~IsBuf(z)
    BY <1>3, <1>8 DEF IsIn, IsLog, IsBuf
  <2>. QED  BY <1>4, <1>8, <2>1, <2>2, Kinds DEF Val
<1>10. ASSUME NEW b \in Spots' PROVE (b = z \/ b \in Spots) /\ ~Ahead(z, b)'
  <2>1. IsLog(b)' => IsLog(b)
    BY <1>4 DEF IsLog
  <2>2. IsIn(b)' => IsIn(b) \/ b = z
    BY <1>4, <1>7 DEF IsIn
  <2>3. IsBuf(b)' => IsBuf(b)
    BY <1>3 DEF IsBuf
  <2>. QED  BY <1>8, <2>1, <2>2, <2>3, Kinds DEF Ahead
<1>11. Sound' /\ Held' = Held \cup {m}
  <2>1. PICK new : new = {z}
    OBVIOUS
  <2>2. Gain(new, m) = {m} /\ sent' \subseteq Held \cup Gain(new, m)
    BY <1>1, <1>4, <2>1 DEF Sound, Unlost, Gain
  <2>3. Born(new, m, t)
    BY <1>1, <1>2 DEF Grows, Born
  <2>4. Comes(new, m)
    BY <1>9, <1>10, <2>1 DEF Comes
  <2>5. Sound' /\ Held' = Held \cup Gain(new, m)
    BY <1>1, <1>3, <1>5, <1>6, <2>2, <2>3, <2>4, StayKeeps
  <2>. QED  BY <2>2, <2>5
<1>12. \A x \in Thread : x # t => NotOf(x)
  BY <1>2, <1>11 DEF NotOf
<1>13. Told(u)'
  BY <1>1, <1>3, <1>4, <1>12, ToldMet
<1>14. Told(t)'
  BY <1>3, <1>4 DEF Told, ByHand, Claimed
<1>15. \A x \in Thread : Told(x)'
  BY <1>1, <1>3, <1>4, <1>12, <1>13, <1>14, ToldStays
<1>. QED  BY <1>3, <1>6, <1>11, <1>15, Together

(* from a sender that waits,                                                  *)
LEMMA GetsKeep ==
  ASSUME IInv, VInv, NEW t, NEW r, NEW q, Amid(t, r, q), NEW c \in Chan, NEW u, Gets(t, q, c, u)
  PROVE  VInv'
<1>1. /\ Control /\ LogOK /\ Sound /\ Delivered /\ t \in Thread /\ May(t, q) /\ in[t] = None
      /\ Grows /\ in \in [Thread -> Value \cup {None}] /\ \A x \in Thread : Told(x)
      /\ \A x \in Thread : x # t => made'[x] = made[x]
  BY Parts DEF Amid
<1>2. /\ u \in Thread /\ u # t /\ tag[u] = None /\ tag'[u] = c /\ c # None
      /\ pc[u] = "waiting" /\ pc'[u] = "waiting" /\ req'[u] = req[u] /\ in[u] = None
      /\ hit'[u] \in 1 .. Len(req[u].alts) /\ req[u].alts[hit'[u]].op = "SND"
      /\ ReqOK(req[u]) /\ pc'[t] = "waking"
      /\ \A x \in Thread : x # t /\ x # u => Untouched(x)
      /\ Went(t, r, q) /\ n' = n /\ CellsStay /\ Fits' /\ Size[c] = 0 /\ n[c] = 0
  BY MeetsWhom DEF Gets, Co
<1>3. IsSend(req[u]) /\ ~ByHand(u, "SND") /\ made[u] \in Nat
  BY <1>1, <1>2 DEF IsSend, ByHand, Claimed, Grows
<1>4. PICK m \in Value : m = req[u].out /\ m = <<u, made[u]>> /\ Newborn(m, u)
  BY <1>1, <1>2, <1>3, PendingIsNew DEF Newborn
<1>5. in' = in /\ DidRecv(t, c, m)
  BY <1>1, <1>4 DEF Gets
<1>6. PICK l \in Nat : l = Len(log[t]) + 1
  BY <1>1 DEF LogOK
<1>7. /\ LogOK' /\ LogsStay /\ sent' = sent
      /\ Len(log[t]) \in Nat /\ Len(log'[t]) = l /\ log'[t][l] = <<m, c>>
      /\ \A x \in Thread : x # t => log'[x] = log[x]
  BY <1>1, <1>5, <1>6, LogGrows
<1>8. InsStay
  BY <1>1, <1>2, <1>5, HoldersUntouched DEF InsStay, Untouched
<1>9. PICK z : z = <<"log", t, l>>
  OBVIOUS
<1>10. /\ z[1] = "log" /\ z[2] = t /\ z[3] = l
       /\ Val(z)' = m /\ Via(z)' = c
  BY <1>7, <1>9 DEF Val, Via
<1>11. z \in Spots' /\ z \notin Spots
  <2>1. l \in 1 .. Len(log'[t])
    BY <1>6, <1>7
  <2>2. IsLog(z)'
    BY <1>1, <1>9, <2>1 DEF IsLog
  <2>3. ~IsLog(z)
    BY <1>1, <1>6, <1>7, <1>9, LogKinds
  <2>. QED  BY <1>10, <2>2, <2>3, Kinds DEF IsIn, IsBuf
<1>12. ASSUME NEW b \in Spots' PROVE (b = z \/ b \in Spots) /\ ~Ahead(z, b)'
  <2>1. CASE b = z
    BY <1>6, <1>10, <2>1 DEF Ahead
  <2>2. CASE IsLog(b)' /\ b # z
    <3>1. IsLog(b) /\ b[1] = "log" /\ (b[2] = t => b[3] \in Nat /\ b[3] < l)
      BY <1>1, <1>6, <1>7, <1>9, <2>2, LogKinds
    <3>. QED  BY <1>6, <1>10, <3>1, Kinds DEF Ahead
  <2>3. CASE IsIn(b)'
    <3>1. IsIn(b) /\ b[1] = "in" /\ b[2] # t
      BY <1>1, <1>5, <2>3 DEF IsIn
    <3>. QED  BY <1>10, <3>1, Kinds DEF Ahead
  <2>4. CASE IsBuf(b)'
    <3>1. IsBuf(b) /\ b[1] = "buf" /\ b[2] # c
      BY <1>2, <2>4 DEF IsBuf
    <3>2. Via(b)' = b[2]
      BY <3>1 DEF Via
    <3>. QED  BY <1>10, <3>1, <3>2, Kinds DEF Ahead
  <2>. QED  BY <2>1, <2>2, <2>3, <2>4, Kinds
<1>13. Sound' /\ Held' = Held \cup {m}
  <2>1. PICK new : new = {z}
    OBVIOUS
  <2>2. Gain(new, m) = {m} /\ sent' \subseteq Held \cup Gain(new, m)
    BY <1>1, <1>7, <2>1 DEF Sound, Unlost, Gain
  <2>3. Born(new, m, u)
    BY <1>1, <1>2, <1>4 DEF Grows, Born
  <2>4. Comes(new, m)
    BY <1>10, <1>11, <1>12, <2>1 DEF Comes
  <2>5. Sound' /\ Held' = Held \cup Gain(new, m)
    BY <1>1, <1>2, <1>7, <1>8, <2>2, <2>3, <2>4, StayKeeps
  <2>. QED  BY <2>2, <2>5
<1>14. \A x \in Thread : x # u => NotOf(x)
  BY <1>4, <1>13 DEF NotOf
<1>15. Told(u)'
  <2>1. req[u].out \in Held'
    BY <1>4, <1>13
  <2>. QED  BY <1>1, <1>2, <1>3, <1>5, <2>1 DEF Told, ByHand, Claimed
<1>16. Told(t)'
  BY <1>1, <1>2, <1>5 DEF Told, ByHand, Claimed
<1>17. \A x \in Thread : Told(x)'
  BY <1>1, <1>2, <1>5, <1>14, <1>15, <1>16, ToldStays
<1>. QED  BY <1>2, <1>7, <1>13, <1>17, Together

(* or nowhere.                                                                *)
LEMMA QuietKeeps ==
  ASSUME LogOK, Sound, Fits, Grows, UNCHANGED <<f, n, v, in, log>>,
         \A x \in Thread : in[x] # None => tag'[x] = tag[x],
         sent' \subseteq Held
  PROVE  LogOK' /\ Sound' /\ Fits' /\ Held' = Held
<1>1. LogOK' /\ LogsStay
  BY LogSame
<1>2. InsStay /\ CellsStay /\ Fits'
  BY DEF InsStay, CellsStay, Cell, Fits
<1>3. PICK new, m : new = {} /\ m = None
  OBVIOUS
<1>4. Comes(new, m)
  <2>1. \A a : a \in Spots' => a \in Spots
    BY Kinds DEF IsLog, IsIn, IsBuf
  <2>. QED  BY <1>3, <2>1 DEF Comes
<1>5. Gain(new, m) = {} /\ Born(new, m, m)
  BY <1>3 DEF Gain, Born
<1>6. sent' \subseteq Held \cup Gain(new, m)
  OBVIOUS
<1>7. Sound' /\ Held' = Held \cup Gain(new, m)
  BY <1>1, <1>2, <1>4, <1>5, <1>6, StayKeeps
<1>. QED  BY <1>1, <1>2, <1>5, <1>7

(* A call that sleeps, or fails,                                              *)
LEMMA RestsKeep ==
  ASSUME IInv, VInv, NEW t, NEW r, NEW q, Amid(t, r, q), Wait(t, r, q) \/ Fatal(t)
  PROVE  VInv'
<1>1. /\ Control /\ LogOK /\ Sound /\ Delivered /\ Fits /\ t \in Thread /\ May(t, q) /\ in[t] = None
      /\ Grows /\ in \in [Thread -> Value \cup {None}] /\ \A x \in Thread : Told(x)
      /\ \A x \in Thread : x # t => made'[x] = made[x]
  BY Parts DEF Amid
<1>2. UNCHANGED <<f, n, v, in, log, sent>>
  BY <1>1 DEF Wait, Fatal, buffer
<1>3. \A x \in Thread : in[x] # None => tag'[x] = tag[x]
  BY <1>1, HoldersUntouched DEF Went, Untouched
<1>4. sent' \subseteq Held
  BY <1>1, <1>2 DEF Sound, Unlost
<1>5. LogOK' /\ Sound' /\ Fits' /\ Held' = Held
  BY <1>1, <1>2, <1>3, <1>4, QuietKeeps
<1>6. /\ \A x \in Thread : x # t => Untouched(x)
      /\ pc'[t] \in {"idle", "waiting", "fatal"}
      /\ pc'[t] = "waiting" => req'[t] = r /\ tag'[t] = None
  BY <1>1, AloneTouches
<1>7. Told(t)'
  <2>1. ~ByHand(t, "RCV")' /\ ~ByHand(t, "SND")'
    BY <1>6 DEF ByHand, Claimed
  <2>2. pc'[t] = "waiting" /\ IsSend(req[t])' => req'[t].out = <<t, made'[t]>> /\ req'[t].out \notin Held'
    BY <1>5, <1>6 DEF Amid, Newborn, IsSend
  <2>. QED  BY <1>1, <1>2, <1>6, <2>1, <2>2 DEF Told
<1>8. \A x \in Thread : Told(x)'
  BY <1>1, <1>2, <1>5, <1>6, <1>7, ToldStays DEF NotOf
<1>. QED  BY <1>5, <1>8, Together

-----------------------------------------------------------------------------
(* THE STEPS, FOR THE VALUES *)

(* A call, for the first time or again.                                       *)
LEMMA BodyKeepsValues ==
  ASSUME Paired, RingCloses, IInv, IInv', CallsMade, Cared, VInv, NEW t, NEW r, NEW q,
         Amid(t, r, q), Body(t, r, q)
  PROVE  VInv'
<1>1. Carried(t, r, q)
  BY BodyCarries DEF Amid
<1>. QED  BY <1>1, PutsKeep, TakesKeep, HandsKeep, GetsKeep, RestsKeep DEF Carried

(* What a call sends the first time is new.                                   *)
LEMMA CallAmid ==
  ASSUME IInv, VInv, NEW t \in Thread, NEW r, CallOf(t, r), Carries(t, r),
         DOMAIN made' = Thread, \A x \in Thread : made'[x] \in 0 .. MaxSend[x]
  PROVE  Amid(t, r, qentry)
<1>1. May(t, qentry) /\ pc[t] = "idle" /\ ReqOK(r) /\ Makes(t, r)
  BY CallMay DEF CallOf
<1>2. Calling(t, r, qentry)
  BY <1>1 DEF Calling, Kept, May, Absent
<1>3. in[t] = None
  BY <1>1 DEF VInv, Delivered, ByHand, Claimed
<1>4. /\ DOMAIN made = Thread /\ \A x \in Thread : made[x] \in Nat /\ made'[x] \in Nat
  <2>1. MaxSend \in [Thread -> Nat]
    BY ChannelAssumption
  <2>. QED  BY <2>1 DEF IInv, Typed
<1>5. /\ \A x \in Thread : x # t => made'[x] = made[x]
      /\ made'[t] = IF IsSend(r) THEN made[t] + 1 ELSE made[t]
  BY <1>4 DEF Carries
<1>6. Grows
  <2>1. \A x \in Thread : made[x] <= made'[x]
    BY <1>4, <1>5
  <2>. QED  BY <1>4, <2>1 DEF Grows
<1>7. ASSUME IsSend(r) PROVE r.out = <<t, made'[t]>> /\ Newborn(r.out, t)
  <2>1. PICK m \in Value : m = r.out
    BY <1>1, <1>7 DEF IsSend, ReqOK
  <2>2. m = <<t, made[t] + 1>> /\ made'[t] = made[t] + 1
    BY <1>5, <1>7, <2>1 DEF Carries, Fresh
  <2>3. ASSUME NEW a \in Spots, Val(a)[1] = t PROVE Val(a)[2] < m[2]
    <3>1. Val(a) \in Value /\ Val(a)[2] <= made[t]
      BY <2>3 DEF VInv, Counted
    <3>. QED  BY <1>4, <2>2, <3>1, ValueIs
  <2>4. m \notin Held
    BY <1>4, <2>2, <2>3 DEF Held
  <2>. QED  BY <2>1, <2>2, <2>3, <2>4 DEF Newborn
<1>. QED  BY <1>2, <1>3, <1>5, <1>6, <1>7 DEF Amid

(* What it sends when it starts over has not been taken.                      *)
LEMMA RetryAmid ==
  ASSUME IInv, CallsMade, VInv, NEW t \in Thread, Retry(t), NEW r, r = req[t], NEW q, q = Leave(t)
  PROVE  Amid(t, r, q)
<1>1. /\ pc[t] = "woken" /\ ReqOK(r) /\ May(t, q) /\ made' = made
      /\ Size[tag[t]] > 0
  BY WokenMay DEF Retry, IInv, Places
<1>2. Makes(t, r)
  BY <1>1 DEF CallsMade
<1>3. Kept(t, q)
  BY DEF Kept, Leave, Used
<1>4. tag[t] \in Chan
  BY <1>1 DEF IInv, Typed, Places
<1>5. Size[tag[t]] # 0
  BY <1>1, <1>4, ChannelAssumption
<1>6. Told(t) /\ Sound
  BY ToldIs DEF VInv, Sound
<1>7. in[t] = None /\ ~ByHand(t, "SND")
  BY <1>5, <1>6 DEF Told, ByHand
<1>8. Grows
  <2>1. \A x \in Thread : made[x] \in Nat
    BY ChannelAssumption DEF IInv, Typed
  <2>2. \A x \in Thread : made[x] <= made[x]
    BY <2>1
  <2>. QED  BY <1>1, <2>1, <2>2 DEF Grows
<1>9. IsSend(r) => r.out = <<t, made'[t]>> /\ Newborn(r.out, t)
  BY <1>1, <1>6, <1>7, <1>8, PendingIsNew DEF Grows
<1>10. Calling(t, r, q)
  BY <1>1, <1>2, <1>3 DEF Calling
<1>. QED  BY <1>1, <1>7, <1>8, <1>9, <1>10 DEF Amid

(* Back from an unbuffered channel: a sender has nothing left to do,          *)
LEMMA SentReturns ==
  ASSUME IInv, VInv, NEW t \in Thread, Return(t), Reported(t) = hit[t],
         req[t].alts[hit[t]].op = "SND"
  PROVE  VInv'
<1>1. /\ pc[t] = "woken" /\ tag[t] # None /\ ReqOK(req[t]) /\ hit[t] \in 1 .. Len(req[t].alts)
      /\ Size[tag[t]] = 0 /\ Finish(t) /\ DidSend(req[t].out)
      /\ UNCHANGED <<f, n, v, made>> /\ in' = [in EXCEPT ![t] = None]
  BY DEF Return, IInv, Places, ClaimOf, buffer
<1>2. /\ Control /\ LogOK /\ Sound /\ Fits /\ (\A x \in Thread : Told(x))
      /\ in \in [Thread -> Value \cup {None}] /\ \A x \in Thread : made[x] \in Nat
  <2>1. MaxSend \in [Thread -> Nat]
    BY ChannelAssumption
  <2>. QED  BY <2>1, InvParts, ToldIs DEF VInv, LogOK, Sound, IInv, Typed
<1>3. ByHand(t, "SND") /\ ~ByHand(t, "RCV") /\ IsSend(req[t])
  BY <1>1 DEF ByHand, Claimed, IsSend
<1>4. in[t] = None /\ in' = in /\ log' = log /\ sent' = sent \cup {req[t].out}
  BY <1>1, <1>2, <1>3 DEF Told, DidSend
<1>5. sent' \subseteq Held
  BY <1>1, <1>2, <1>3, <1>4 DEF Told, Sound, Unlost
<1>6. \A x \in Thread : x # t => Untouched(x)
  BY <1>1, <1>2, AloneTouches
<1>7. Grows
  <2>1. \A x \in Thread : made[x] <= made[x]
    BY <1>2
  <2>. QED  BY <1>1, <1>2, <2>1 DEF Grows
<1>8. LogOK' /\ Sound' /\ Fits' /\ Held' = Held
  BY <1>1, <1>2, <1>4, <1>5, <1>6, <1>7, QuietKeeps DEF Untouched
<1>9. Told(t)'
  BY <1>1, <1>2, <1>4 DEF Told, Finish, ByHand, Claimed, Control
<1>10. \A x \in Thread : Told(x)'
  BY <1>1, <1>2, <1>4, <1>6, <1>8, <1>9, ToldStays DEF NotOf
<1>. QED  BY <1>8, <1>10, Together

(* and a receiver has its value.                                              *)
LEMMA ReceivedReturns ==
  ASSUME IInv, VInv, NEW t \in Thread, Return(t), Reported(t) = hit[t],
         req[t].alts[hit[t]].op # "SND"
  PROVE  VInv'
<1>1. /\ pc[t] = "woken" /\ tag[t] # None /\ hit[t] \in 1 .. Len(req[t].alts)
      /\ req[t].alts[hit[t]].op = "RCV" /\ tag[t] \in Chan
      /\ Size[tag[t]] = 0 /\ Finish(t) /\ DidRecv(t, tag[t], in[t])
      /\ UNCHANGED <<f, n, v, made>> /\ in' = [in EXCEPT ![t] = None]
  BY DEF Return, IInv, Places, ClaimOf, buffer, Waits, Typed
<1>2. /\ Control /\ LogOK /\ Sound /\ Fits /\ (\A x \in Thread : Told(x))
      /\ in \in [Thread -> Value \cup {None}] /\ \A x \in Thread : made[x] \in Nat
      /\ \A x \in Chan : n[x] \in Nat
  <2>1. MaxSend \in [Thread -> Nat]
    BY ChannelAssumption
  <2>. QED  BY <2>1, InvParts, ToldIs, Numbers DEF VInv, LogOK, Sound, IInv, Typed
<1>3. in[t] # None
  BY <1>1, <1>2 DEF Told, ByHand, Claimed
<1>4. PICK m \in Value, c \in Chan : m = in[t] /\ c = tag[t] /\ Size[c] = 0 /\ DidRecv(t, c, m)
  BY <1>1, <1>2, <1>3
<1>5. PICK l \in Nat : l = Len(log[t]) + 1
  BY <1>2 DEF LogOK
<1>6. /\ LogOK' /\ LogsStay /\ sent' = sent
      /\ Len(log[t]) \in Nat /\ Len(log'[t]) = l /\ log'[t][l] = <<m, c>>
      /\ \A x \in Thread : x # t => log'[x] = log[x]
  BY <1>2, <1>4, <1>5, LogGrows
<1>7. in'[t] = None /\ \A x \in Thread : x # t => in'[x] = in[x] /\ Untouched(x)
  BY <1>1, <1>2, AloneTouches
<1>8. CellsStay /\ Fits' /\ n[c] = 0
  BY <1>1, <1>2, <1>4 DEF CellsStay, Cell, Fits
<1>9. PICK z, hand : z = <<"log", t, l>> /\ hand = <<"in", t, 0>>
  OBVIOUS
<1>10. /\ z[1] = "log" /\ z[2] = t /\ z[3] = l /\ hand[1] = "in" /\ hand[2] = t
       /\ Val(z)' = m /\ Via(z)' = c /\ Val(hand) = m /\ Via(hand) = c
  BY <1>4, <1>6, <1>9 DEF Val, Via
<1>11. z \in Spots' /\ hand \in Spots
  <2>1. l \in 1 .. Len(log'[t])
    BY <1>5, <1>6
  <2>2. IsLog(z)'
    BY <1>9, <2>1 DEF IsLog
  <2>. QED  BY <1>3, <1>9, <2>2, Kinds DEF IsIn
<1>. DEFINE g == [b \in Spots' |-> IF b = z THEN hand ELSE b]
<1>12. g[z] = hand /\ \A b \in Spots' : b # z => g[b] = b
  BY <1>11
<1>. HIDE DEF g
<1>13. ASSUME NEW b, IsLog(b)', b # z
       PROVE  /\ b \in Spots /\ b[1] = "log" /\ Val(b)' = Val(b) /\ Via(b)' = Via(b)
              /\ b[2] = t => b[3] \in Nat /\ b[3] < l
  <2>1. IsLog(b) /\ b[1] = "log" /\ (b[2] = t => b[3] \in Nat /\ b[3] < l)
    BY <1>5, <1>6, <1>9, <1>13, LogKinds
  <2>. QED  BY <1>6, <2>1, LogStays, Kinds
<1>14. ASSUME NEW b, IsIn(b)'
       PROVE  /\ b \in Spots /\ b[1] = "in" /\ b[2] # t /\ Val(b)' = Val(b) /\ Via(b)' = Via(b)
  <2>1. PICK x \in Thread : in'[x] # None /\ b = <<"in", x, 0>>
    BY <1>14 DEF IsIn
  <2>2. b[1] = "in" /\ b[2] = x /\ x # t /\ IsIn(b)
    BY <1>7, <2>1 DEF IsIn
  <2>. QED  BY <1>7, <2>1, <2>2, Kinds DEF Val, Via, Untouched
<1>15. ASSUME NEW b, IsBuf(b)'
       PROVE  /\ b \in Spots /\ b[1] = "buf" /\ b[2] # c /\ Val(b)' = Val(b) /\ Via(b)' = Via(b)
              /\ Via(b)' = b[2]
  <2>1. IsBuf(b) /\ b[1] = "buf" /\ b[2] # c
    BY <1>1, <1>8, <1>15 DEF IsBuf
  <2>. QED  BY <1>8, <2>1, BufStays, Kinds DEF Via
<1>16. ASSUME NEW b \in Spots'
       PROVE  /\ g[b] \in Spots /\ Val(b)' = Val(g[b]) /\ Via(b)' = Via(g[b])
              /\ b # z => b # hand
  <2>1. CASE b = z
    BY <1>10, <1>11, <1>12, <2>1
  <2>2. CASE b # z
    BY <1>10, <1>12, <1>13, <1>14, <1>15, <2>2, Kinds
  <2>. QED  BY <2>1, <2>2
<1>17. ASSUME NEW a \in Spots', NEW b \in Spots', g[a] = g[b] PROVE a = b
  BY <1>12, <1>16, <1>17
<1>18. ASSUME NEW a \in Spots PROVE \E b \in Spots' : g[b] = a
  <2>1. CASE a = hand
    BY <1>11, <1>12, <2>1
  <2>2. CASE a # hand
    <3>1. a \in Spots' /\ a # z
      <4>1. CASE IsLog(a)
        BY <1>5, <1>6, <1>9, <4>1, LogKinds, LogStays, Kinds
      <4>2. CASE IsIn(a)
        BY <1>7, <1>9, <1>10, <2>2, <4>2, Kinds DEF IsIn
      <4>3. CASE IsBuf(a)
        BY <1>8, <1>10, <4>3, BufStays, Kinds DEF IsBuf
      <4>. QED  BY <4>1, <4>2, <4>3, Kinds
    <3>. QED  BY <1>12, <3>1
  <2>. QED  BY <2>1, <2>2
<1>19. ASSUME NEW a \in Spots', NEW b \in Spots', Ahead(a, b)' PROVE Ahead(g[a], g[b])
  <2>1. Via(g[a]) = Via(g[b]) /\ Via(a)' = Via(b)'
    BY <1>16, <1>19 DEF Ahead
  <2>2. CASE a = z
    <3>1. CASE b = z
      BY <1>5, <1>10, <1>19, <2>2, <3>1 DEF Ahead
    <3>2. CASE IsLog(b)' /\ b # z
      BY <1>5, <1>10, <1>13, <1>19, <2>2, <3>2 DEF Ahead
    <3>3. CASE IsIn(b)'
      BY <1>10, <1>14, <1>19, <2>2, <3>3 DEF Ahead
    <3>4. CASE IsBuf(b)'
      BY <1>10, <1>15, <2>1, <2>2, <3>4
    <3>. QED  BY <3>1, <3>2, <3>3, <3>4, Kinds
  <2>3. CASE a # z /\ b = z
    <3>1. a[1] = "log" /\ a[2] = t
      BY <1>10, <1>19, <2>3 DEF Ahead
    <3>. QED  BY <1>10, <1>12, <2>1, <2>3, <3>1 DEF Ahead
  <2>4. CASE a # z /\ b # z
    BY <1>12, <1>19, <2>1, <2>4 DEF Ahead
  <2>. QED  BY <2>2, <2>3, <2>4
<1>20. Grows
  <2>1. \A x \in Thread : made[x] <= made[x]
    BY <1>2
  <2>. QED  BY <1>1, <1>2, <2>1 DEF Grows
<1>21. Sound' /\ Held' = Held
  <2>1. PICK new : new = {}
    OBVIOUS
  <2>2. Moves(g, new, m)
    BY <1>16, <1>17, <1>18, <1>19, <2>1 DEF Moves
  <2>3. sent' \subseteq Held
    BY <1>2, <1>6 DEF Sound, Unlost
  <2>. QED  BY <1>2, <1>20, <2>1, <2>2, <2>3, ShiftKeeps
<1>22. Told(t)'
  BY <1>1, <1>2, <1>7 DEF Told, Finish, ByHand, Claimed, Control
<1>23. \A x \in Thread : Told(x)'
  BY <1>1, <1>2, <1>7, <1>21, <1>22, ToldStays DEF NotOf
<1>. QED  BY <1>6, <1>8, <1>21, <1>23, Together

(* A step that moves no value and puts nobody in another place.               *)
LEMMA IdleKeeps ==
  ASSUME IInv, VInv, UNCHANGED <<f, n, v, in, log, sent, made, tag, req, hit>>,
         \A x \in Thread : /\ Claimed(x)' <=> Claimed(x)
                           /\ pc'[x] \in {"waiting", "woken"} => pc[x] \in {"waiting", "woken"}
  PROVE  VInv'
<1>1. /\ LogOK /\ Sound /\ Fits /\ (\A x \in Thread : Told(x)) /\ \A x \in Thread : made[x] \in Nat
  <2>1. MaxSend \in [Thread -> Nat]
    BY ChannelAssumption
  <2>. QED  BY <2>1, ToldIs DEF VInv, LogOK, Sound, IInv, Typed
<1>2. Grows
  <2>1. \A x \in Thread : made[x] <= made[x]
    BY <1>1
  <2>. QED  BY <1>1, <2>1 DEF Grows
<1>3. sent' \subseteq Held
  BY <1>1 DEF Sound, Unlost
<1>4. LogOK' /\ Sound' /\ Fits' /\ Held' = Held
  BY <1>1, <1>2, <1>3, QuietKeeps
<1>5. \A x \in Thread : Told(x)'
  <2>1. \A x \in Thread : \A op : ByHand(x, op)' <=> ByHand(x, op)
    BY DEF ByHand
  <2>2. \A x : IsSend(req[x])' <=> IsSend(req[x])
    BY DEF IsSend
  <2>. QED  BY <1>1, <1>4, <2>1, <2>2 DEF Told
<1>. QED  BY <1>4, <1>5, Together

(* A call makes none of the values go astray,                                 *)
LEMMA CallKeepsValues ==
  ASSUME Agreed, IInv, IInv', CallsMade, Cared, VInv, NEW t \in Thread,
         Send(t) \/ Recv(t) \/ Alt(t)
  PROVE  VInv'
<1>1. PICK r : CallOf(t, r) /\ Carries(t, r)
  BY SendCalls, RecvCalls, AltCalls
<1>2. DOMAIN made' = Thread /\ \A x \in Thread : made'[x] \in 0 .. MaxSend[x]
  BY SendCalls, RecvCalls, AltCalls
<1>3. PICK q : q = qentry
  OBVIOUS
<1>4. Amid(t, r, q) /\ Body(t, r, q)
  BY <1>1, <1>2, <1>3, CallAmid DEF CallOf
<1>. QED  BY <1>4, BodyKeepsValues DEF Agreed

(* nor does one that starts over,                                             *)
LEMMA RetryKeepsValues ==
  ASSUME Agreed, IInv, IInv', CallsMade, Cared, VInv, NEW t \in Thread, Retry(t)
  PROVE  VInv'
<1>1. PICK r, q : r = req[t] /\ q = Leave(t)
  OBVIOUS
<1>2. Amid(t, r, q) /\ Body(t, r, q)
  BY <1>1, RetryAmid DEF Retry
<1>. QED  BY <1>2, BodyKeepsValues DEF Agreed

(* nor one that comes back, which does what the entry says that has happened, *)
LEMMA ReturnKeepsValues ==
  ASSUME Agreed, IInv, CallsMade, VInv, NEW t \in Thread, Return(t)
  PROVE  VInv'
<1>1. pc[t] = "woken" /\ tag[t] # None /\ Size[tag[t]] = 0
  BY DEF Return, IInv, Places
<1>2. Reported(t) = hit[t]
  BY <1>1, ReportsHit DEF Agreed, AltTellsTruth, Claimed
<1>. QED  BY <1>2, SentReturns, ReceivedReturns

(* and a meeting moves none.                                                  *)
LEMMA MeetKeepsValues ==
  ASSUME IInv, VInv, NEW t \in Thread, NEW u \in Thread, Meet(t, u) PROVE VInv'
<1>1. \A x \in Thread : /\ Claimed(x)' <=> Claimed(x)
                        /\ pc'[x] \in {"waiting", "woken"} => pc[x] \in {"waiting", "woken"}
  BY DEF Meet, Claimed, IInv, Typed
<1>. QED  BY <1>1, IdleKeeps DEF Meet, buffer

(* Every step.                                                                *)
LEMMA StepKeepsValues ==
  ASSUME Agreed, IInv, IInv', CallsMade, Cared, VInv, [Next]_vars PROVE VInv'
<1>1. CASE UNCHANGED vars
  <2>1. \A x \in Thread : /\ Claimed(x)' <=> Claimed(x)
                          /\ pc'[x] \in {"waiting", "woken"} => pc[x] \in {"waiting", "woken"}
    BY <1>1 DEF vars, Claimed
  <2>. QED  BY <1>1, <2>1, IdleKeeps DEF vars, buffer
<1>. QED  BY <1>1, CallKeepsValues, RetryKeepsValues, ReturnKeepsValues, MeetKeepsValues
          DEF Next, Step

(* At first there are no values.                                              *)
LEMMA NoValuesYet == ASSUME Init PROVE VInv
<1>1. \A a : ~IsLog(a) /\ ~IsIn(a) /\ ~IsBuf(a)
  BY DEF Init, IsLog, IsIn, IsBuf
<1>2. Spots = {}
  BY <1>1, Kinds
<1>3. Counted /\ Single /\ Unlost /\ InOrder
  BY <1>2 DEF Init, Counted, Single, Unlost, InOrder
<1>4. log \in [Thread -> Seq(Value \X Chan)]
  BY DEF Init
<1>5. Delivered /\ Reached /\ Offered
  BY DEF Init, Delivered, Reached, Offered, ByHand, Claimed
<1>6. Fits
  BY ChannelAssumption DEF Init, Fits
<1>. QED  BY <1>3, <1>4, <1>5, <1>6 DEF VInv

(* The invariant of the values.                                               *)
LEMMA ValuesHold == ASSUME Agreed PROVE Spec => []VInv
<1>1. Init => VInv
  BY NoValuesYet
<1>2. IInv /\ IInv' /\ CallsMade /\ Cared /\ VInv /\ [Next]_vars => VInv'
  BY StepKeepsValues
<1>3. Spec => []Cared
  BY CaredHolds, NobodyElse
<1>. QED  BY <1>1, <1>2, <1>3, CallsHold, Invariance, PTL DEF Spec

-----------------------------------------------------------------------------
(* WHAT IT MEANS FOR THE VALUES *)

(* where a spot is in the eyes of Copies *)
Place(a) == IF a[1] = "log" THEN <<a[2], a[3]>>
            ELSE IF a[1] = "in" THEN a[2] ELSE <<a[2], a[3] - 1>>

(* what it takes to be a copy of m *)
LEMMA CopiesAre ==
  ASSUME NEW m, NEW e
  PROVE  /\ e \in Received(m) <=> \E t \in Thread : \E i \in DOMAIN log[t] :
                                     log[t][i][1] = m /\ e = <<t, i>>
         /\ e \in Buffered(m) <=> \E c \in Chan : \E k \in 0 .. n[c] - 1 :
               Size[c] > 0 /\ v[c][((f[c] + k) % UMod) % Size[c]] = m /\ e = <<c, k>>
         /\ e \in Handed(m) <=> \E t \in Thread : Claimed(t) /\ in[t] = m /\ e = t
<1>1. e \in Received(m) <=> \E t \in Thread : \E i \in DOMAIN log[t] :
                              log[t][i][1] = m /\ e = <<t, i>>
  BY DEF Received
<1>2. e \in Buffered(m) <=> \E c \in Chan : \E k \in 0 .. n[c] - 1 :
        Size[c] > 0 /\ v[c][((f[c] + k) % UMod) % Size[c]] = m /\ e = <<c, k>>
  BY DEF Buffered
<1>. QED  BY <1>1, <1>2 DEF Handed

(* Every copy of a value is in a spot,                                        *)
LEMMA CopyInSpot ==
  ASSUME IInv, VInv, NEW m \in Value, NEW e \in Copies(m)
  PROVE  \E a \in Spots : Val(a) = m /\ e = Place(a)
<1>1. CASE e \in Received(m)
  <2>1. PICK t \in Thread : \E i \in DOMAIN log[t] : log[t][i][1] = m /\ e = <<t, i>>
    BY <1>1, CopiesAre
  <2>2. PICK i \in DOMAIN log[t] : log[t][i][1] = m /\ e = <<t, i>>
    BY <2>1
  <2>3. i \in 1 .. Len(log[t])
    BY <2>2 DEF VInv
  <2>4. PICK a : a = <<"log", t, i>>
    OBVIOUS
  <2>5. IsLog(a) /\ Val(a) = m /\ e = Place(a)
    BY <2>2, <2>3, <2>4 DEF IsLog, Val, Place
  <2>. QED  BY <2>5, Kinds
<1>2. CASE e \in Buffered(m)
  <2>1. PICK c \in Chan : \E k \in 0 .. n[c] - 1 :
               v[c][((f[c] + k) % UMod) % Size[c]] = m /\ e = <<c, k>>
    BY <1>2, CopiesAre
  <2>2. PICK k \in 0 .. n[c] - 1 : v[c][((f[c] + k) % UMod) % Size[c]] = m /\ e = <<c, k>>
    BY <2>1
  <2>3. n[c] \in Nat
    BY Numbers
  <2>4. PICK l \in 1 .. n[c] : l = k + 1
    BY <2>3
  <2>5. l - 1 = k
    BY <2>3, <2>4
  <2>6. PICK a : a = <<"buf", c, l>>
    OBVIOUS
  <2>7. a[1] = "buf" /\ a[2] = c /\ a[3] = l /\ IsBuf(a)
    BY <2>6 DEF IsBuf
  <2>8. Val(a) = m /\ e = Place(a)
    BY <2>2, <2>5, <2>7 DEF Val, Cell, Place
  <2>. QED  BY <2>7, <2>8, Kinds
<1>3. CASE e \in Handed(m)
  <2>1. PICK t \in Thread : in[t] = m /\ e = t
    BY <1>3, CopiesAre
  <2>2. PICK a : a = <<"in", t, 0>>
    OBVIOUS
  <2>3. IsIn(a) /\ Val(a) = m /\ e = Place(a)
    BY <2>1, <2>2, ChannelAssumption DEF IsIn, Val, Place
  <2>. QED  BY <2>3, Kinds
<1>. QED  BY <1>1, <1>2, <1>3 DEF Copies

(* and every spot is a copy.                                                  *)
LEMMA SpotHasCopy ==
  ASSUME IInv, VInv, NEW a \in Spots PROVE Place(a) \in Copies(Val(a))
<1>1. CASE IsLog(a)
  <2>1. PICK t \in Thread : \E i \in 1 .. Len(log[t]) : a = <<"log", t, i>>
    BY <1>1 DEF IsLog
  <2>2. PICK i \in 1 .. Len(log[t]) : a = <<"log", t, i>>
    BY <2>1
  <2>3. i \in DOMAIN log[t] /\ Place(a) = <<t, i>> /\ Val(a) = log[t][i][1]
    BY <2>2 DEF VInv, Place, Val
  <2>. QED  BY <2>3, CopiesAre DEF Copies
<1>2. CASE IsIn(a)
  <2>1. PICK t \in Thread : in[t] # None /\ a = <<"in", t, 0>>
    BY <1>2 DEF IsIn
  <2>2. Claimed(t) /\ Place(a) = t /\ Val(a) = in[t]
    BY <2>1 DEF VInv, Delivered, ByHand, Place, Val
  <2>. QED  BY <2>2, CopiesAre DEF Copies
<1>3. CASE IsBuf(a)
  <2>1. PICK c \in Chan : \E l \in 1 .. n[c] : a = <<"buf", c, l>>
    BY <1>3 DEF IsBuf
  <2>2. PICK l \in 1 .. n[c] : a = <<"buf", c, l>>
    BY <2>1
  <2>3. n[c] \in Nat /\ Size[c] \in Nat /\ n[c] <= Size[c]
    BY Numbers DEF VInv, Fits
  <2>4. PICK k \in 0 .. n[c] - 1 : k = l - 1
    BY <2>3
  <2>5. Size[c] > 0
    BY <2>2, <2>3
  <2>6. a[1] = "buf" /\ a[2] = c /\ a[3] = l
    BY <2>2
  <2>7. Place(a) = <<c, k>> /\ Val(a) = v[c][((f[c] + k) % UMod) % Size[c]]
    BY <2>4, <2>6 DEF Place, Val, Cell
  <2>. QED  BY <2>5, <2>7, CopiesAre DEF Copies
<1>. QED  BY <1>1, <1>2, <1>3, Kinds

-----------------------------------------------------------------------------
(* THE THEOREMS *)

(* No value is received twice: with one sender and one receiver on each       *)
(* buffered channel, and any number on the others, a value is in one place,   *)
(* whoever claims its sender and however often that has to start over.        *)
THEOREM NothingDoubled == ASSUME Agreed PROVE Spec => []NoDuplicate
<1>1. ASSUME IInv, VInv, NEW m \in Value PROVE Cardinality(Copies(m)) <= 1
  <2>1. ASSUME NEW d \in Copies(m), NEW e \in Copies(m) PROVE d = e
    <3>1. PICK a \in Spots : Val(a) = m /\ d = Place(a)
      BY <1>1, CopyInSpot
    <3>2. PICK b \in Spots : Val(b) = m /\ e = Place(b)
      BY <1>1, CopyInSpot
    <3>. QED  BY <1>1, <3>1, <3>2 DEF VInv, Single
  <2>2. CASE Copies(m) = {}
    BY <2>2, FS_EmptySet
  <2>3. CASE \E e : e \in Copies(m)
    <3>1. PICK e : Copies(m) = {e}
      BY <2>1, <2>3
    <3>. QED  BY <3>1, FS_Singleton
  <2>. QED  BY <2>2, <2>3
<1>2. IInv /\ VInv => NoDuplicate
  BY <1>1 DEF NoDuplicate
<1>. QED  BY <1>2, ValuesHold, Invariance, PTL

(* No value is lost: once its send has succeeded it is in the buffer, in the  *)
(* hands of a receiver on its way back, or received; a later value is never   *)
(* written over it.                                                           *)
THEOREM NothingLost == ASSUME Agreed PROVE Spec => []NoLoss
<1>1. ASSUME IInv, VInv, NEW m \in sent PROVE Copies(m) # {}
  <2>1. PICK a \in Spots : Val(a) = m
    BY <1>1 DEF VInv, Unlost, Held
  <2>. QED  BY <1>1, <2>1, SpotHasCopy
<1>2. IInv /\ VInv => NoLoss
  BY <1>1 DEF NoLoss
<1>. QED  BY <1>2, ValuesHold, Invariance, PTL

(* No value is overtaken: a receiver sees the values of one sender on one     *)
(* channel in the order in which they were made, whether they came through    *)
(* the buffer or from hand to hand.                                           *)
THEOREM NothingOvertaken == ASSUME Agreed PROVE Spec => []SenderOrder
<1>1. ASSUME IInv, VInv, NEW t \in Thread, NEW i \in DOMAIN log[t], NEW j \in DOMAIN log[t],
             i < j, log[t][i][2] = log[t][j][2], log[t][i][1][1] = log[t][j][1][1]
      PROVE  log[t][i][1][2] < log[t][j][1][2]
  <2>1. i \in 1 .. Len(log[t]) /\ j \in 1 .. Len(log[t])
    BY <1>1 DEF VInv
  <2>2. PICK a, b : a = <<"log", t, i>> /\ b = <<"log", t, j>>
    OBVIOUS
  <2>3. IsLog(a) /\ IsLog(b)
    BY <2>1, <2>2 DEF IsLog
  <2>4. /\ Val(a) = log[t][i][1] /\ Val(b) = log[t][j][1]
        /\ Via(a) = Via(b) /\ a[1] = "log" /\ b[1] = "log" /\ a[2] = b[2] /\ a[3] < b[3]
    BY <1>1, <2>2 DEF Val, Via
  <2>5. Val(a)[2] < Val(b)[2]
    BY <1>1, <2>3, <2>4, Kinds DEF VInv, InOrder, Ahead
  <2>. QED  BY <2>4, <2>5
<1>2. IInv /\ VInv => SenderOrder
  BY <1>1 DEF SenderOrder
<1>. QED  BY <1>2, ValuesHold, Invariance, PTL

(* No buffer ever holds more than it has room for, though an alt that has     *)
(* found a sleeping receiver puts its value in the buffer without a look at   *)
(* the room: with one receiver, a full buffer has nobody asleep on it. (With  *)
(* two receivers it may have: the run altfull.)                               *)
THEOREM NothingOverfull == ASSUME Agreed PROVE Spec => []WithinBuffer
<1>1. VInv => WithinBuffer
  BY DEF VInv, Fits, WithinBuffer
<1>. QED  BY <1>1, ValuesHold, PTL
=============================================================================

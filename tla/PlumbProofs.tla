----------------------------- MODULE PlumbProofs -----------------------------
(* Proofs about the plumber's file server: its counts agree with its lists,   *)
(* no read waits while mail for it does, the rules have one writer, and the   *)
(* port is a mailbox for each of its readers (PlumbPort), for any number of   *)
(* clients, messages and units.                                               *)
EXTENDS Plumb, ListFacts

-----------------------------------------------------------------------------
(* THE STATE, AND WHAT HOLDS OF ITS QUEUES *)

Unit == Nat \X Nat
Parts == {<<>>} \cup {SubSeq(m, 1, k) : m \in Message, k \in 1 .. Size - 1}
Replies == {<<>>} \cup {SubSeq(m, i, j) : m \in Message, i \in 1 .. Size, j \in 1 .. Size}
FidType == [busy : BOOLEAN, open : BOOLEAN, mode : {"OREAD", "OWRITE"},
            dir : Files \cup {Nil}, offset : 0 .. Size - 1, writebuf : Parts]
SendType == [fid : Seq(Fids \cup {Nil}), nleft : Int, msg : Message]
ReadType == [fid : Fids, tag : Fids \cup {Nil}, count : 1 .. Size]
QType == [sendq : Seq(SendType), readq : Seq(ReadType), fids : [Fids -> FidType],
          wait : [Fids -> BOOLEAN], reply : [Fids -> Replies]]

(* the entries of a send that still await it *)
Entries(x) == {i \in 1 .. Len(x.fid) : x.fid[i] # Nil}
SendOK(x, P) == /\ x.nleft = Cardinality(Entries(x))
                /\ \A i \in Entries(x) : x.fid[i] \in P
                /\ \A i, j \in Entries(x) : x.fid[i] = x.fid[j] => i = j
SendsOK(sq, P) == /\ sq \in Seq(SendType)
                  /\ \A k \in 1 .. Len(sq) : SendOK(sq[k], P)

(* The reads rq that are queued and those a proc has in hand, ih, are, apart  *)
(* from flushed ones that came late, the reads that clients wait for with w.  *)
ReadsOK(rq, w, ih, P) ==
    /\ \A k \in 1 .. Len(rq) : rq[k].tag # Nil => /\ rq[k].tag = rq[k].fid
                                                  /\ rq[k].fid \in P /\ w[rq[k].fid]
    /\ \A j, k \in 1 .. Len(rq) : rq[j].tag = rq[k].tag /\ rq[j].tag # Nil => j = k
    /\ \A r \in ih : r.tag # Nil => /\ r.tag = r.fid /\ r.fid \in P /\ w[r.fid]
                                    /\ \A k \in 1 .. Len(rq) : rq[k].tag # r.tag
    /\ \A r, t \in ih : r.tag = t.tag /\ r.tag # Nil => r = t
    /\ \A f \in Fids : w[f] => \/ \E r \in ih : r.tag = f
                               \/ \E k \in 1 .. Len(rq) : rq[k].tag = f
    /\ ~Overtake => /\ \A k \in 1 .. Len(rq) : rq[k].tag # Nil
                    /\ \A r \in ih : r.tag # Nil

Shelf(fd, d) == {f \in Fids : fd[f].open /\ fd[f].dir = d}

-----------------------------------------------------------------------------
(* DRAINQUEUE *)

(* What drainqueue keeps, one exchange after the other, from the queues and   *)
(* the fids it begins with.                                                   *)
Good(q, sq, fd, ih) ==
    /\ Len(q.sendq) = Len(sq)
    /\ \A k \in 1 .. Len(sq) :
         /\ Len(q.sendq[k].fid) = Len(sq[k].fid)
         /\ \A i \in 1 .. Len(sq[k].fid) : q.sendq[k].fid[i] \in {sq[k].fid[i], Nil}
         /\ q.sendq[k].nleft = Cardinality(Entries(q.sendq[k]))
    /\ \A f \in Fids :
         /\ q.fids[f] = [fd[f] EXCEPT !.offset = q.fids[f].offset]
         /\ f \notin Shelf(fd, "port") => q.fids[f].offset = fd[f].offset
    /\ ReadsOK(q.readq, q.wait, ih, Shelf(fd, "port"))
GoodSet(sq, fd, ih) == {q \in QType : Good(q, sq, fd, ih)}

(* A message is Size units.                                                   *)
LEMMA MessageUnits ==
  ASSUME NEW m \in Message PROVE m \in Seq(Unit) /\ Len(m) = Size
<1>1. PICK id \in 1 .. MaxMsgs : m = Units(id)
  BY DEF Message
<1>2. Size \in Nat /\ id \in Nat
  BY PlumbAssumption
<1>3. [k \in 1 .. Size |-> <<id, k>>] \in [1 .. Size -> Unit]
  BY <1>2 DEF Unit
<1>. QED  BY <1>1, <1>2, <1>3 DEF Units

(* What updating two fields at once makes of an entry of the sends.           *)
LEMMA SendsWithout ==
  ASSUME NEW sq \in Seq(SendType), NEW s \in 1 .. Len(sq), NEW i
  PROVE  [sq EXCEPT ![s].fid[i] = Nil, ![s].nleft = @ - 1]
           = [sq EXCEPT ![s] = [fid |-> [sq[s].fid EXCEPT ![i] = Nil],
                                nleft |-> sq[s].nleft - 1, msg |-> sq[s].msg]]
<1>. DEFINE x == sq[s]
            y == [fid |-> [x.fid EXCEPT ![i] = Nil], nleft |-> x.nleft, msg |-> x.msg]
            z == [fid |-> [x.fid EXCEPT ![i] = Nil], nleft |-> x.nleft - 1, msg |-> x.msg]
            sq1 == [sq EXCEPT ![s].fid[i] = Nil]
<1>1. x = [fid |-> x.fid, nleft |-> x.nleft, msg |-> x.msg]
  <2>1. x \in SendType
    BY ElementOfSeq
  <2>. QED  BY <2>1 DEF SendType
<1>2. [x EXCEPT !.fid[i] = Nil] = y
  <2>1. \A a, b, c : [[fid |-> a, nleft |-> b, msg |-> c] EXCEPT !.fid[i] = Nil]
                      = [fid |-> [a EXCEPT ![i] = Nil], nleft |-> b, msg |-> c]
    OBVIOUS
  <2>. QED  BY <1>1, <2>1
<1>3. [y EXCEPT !.nleft = x.nleft - 1] = z
  OBVIOUS
<1>. HIDE DEF y, z
<1>4. sq1 = [sq EXCEPT ![s] = y]
  BY <1>2
<1>5. [sq1 EXCEPT ![s].nleft = x.nleft - 1] = [sq EXCEPT ![s] = z]
  <2>. HIDE DEF sq1
  <2>1. sq1[s] = y
    BY <1>4
  <2>. QED  BY <1>3, <1>4, <2>1
<1>6. [sq EXCEPT ![s].fid[i] = Nil, ![s].nleft = x.nleft - 1]
        = [sq1 EXCEPT ![s].nleft = x.nleft - 1]
  OBVIOUS
<1>. QED  BY <1>5, <1>6 DEF z

(* e is q after the read in place k, of the fid in entry i of send s, has been *)
(* answered; done: the fid has the whole message now.                         *)
Answered(q, s, i, k, done, o, a, e) ==
    e = [sendq |-> IF done THEN [q.sendq EXCEPT ![s] =
                                   [fid |-> [q.sendq[s].fid EXCEPT ![i] = Nil],
                                    nleft |-> q.sendq[s].nleft - 1, msg |-> q.sendq[s].msg]]
                   ELSE q.sendq,
         readq |-> RemoveAt(q.readq, k),
         fids |-> [q.fids EXCEPT ![q.sendq[s].fid[i]] =
                                   [q.fids[q.sendq[s].fid[i]] EXCEPT !.offset = o]],
         wait |-> IF q.readq[k].tag = Nil THEN q.wait
                  ELSE [q.wait EXCEPT ![q.readq[k].tag] = FALSE],
         reply |-> a]

(* how far the answer goes; and what is done, o and the answers then are      *)
Reach(q, s, i, k) == Least(q.fids[q.sendq[s].fid[i]].offset + q.readq[k].count, Size)
Exactly(q, s, i, k, done, o, a) ==
    /\ done <=> Reach(q, s, i, k) = Size
    /\ o = IF done THEN 0 ELSE Reach(q, s, i, k)
    /\ a = IF q.readq[k].tag = Nil THEN q.reply
           ELSE [q.reply EXCEPT ![q.readq[k].tag] =
                   SubSeq(q.sendq[s].msg, q.fids[q.sendq[s].fid[i]].offset + 1, Reach(q, s, i, k))]

(* One exchange: nothing, or a read of the fid in this entry is answered.     *)
LEMMA ExchangeGives ==
  ASSUME NEW q \in QType, NEW s \in 1 .. Len(q.sendq),
         NEW i \in 1 .. Len(q.sendq[s].fid)
  PROVE  \/ /\ Exchange(q, s, i) = q
            /\ \A k \in 1 .. Len(q.readq) : q.readq[k].fid # q.sendq[s].fid[i]
         \/ /\ q.sendq[s].fid[i] \in Fids
            /\ \E k \in 1 .. Len(q.readq), done \in BOOLEAN, o \in 0 .. Size - 1,
                  a \in [Fids -> Replies] :
                 /\ q.readq[k].fid = q.sendq[s].fid[i]
                 /\ Answered(q, s, i, k, done, o, a, Exchange(q, s, i))
                 /\ Exactly(q, s, i, k, done, o, a)
<1>. DEFINE f == q.sendq[s].fid[i]
            x == q.sendq[s]
            Reads == {k \in 1 .. Len(q.readq) : q.readq[k].fid = f}
            k == CHOOSE k \in Reads : \A j \in Reads : k <= j
            off == q.fids[f].offset
            pack == x.msg
            n == Least(Len(pack) - off, q.readq[k].count)
            done == Through(off + n, pack)
            tag == q.readq[k].tag
<1>. HIDE DEF k, off, pack, n, done, tag
<1>1. /\ x \in SendType /\ f \in Fids \cup {Nil} /\ Len(q.readq) \in Nat
      /\ \A j \in 1 .. Len(q.readq) : q.readq[j] \in ReadType
      /\ q.fids \in [Fids -> FidType] /\ q.reply \in [Fids -> Replies]
  <2>1. q.sendq \in Seq(SendType) /\ q.readq \in Seq(ReadType)
    BY DEF QType
  <2>2. x \in SendType
    BY <2>1, ElementOfSeq
  <2>3. x.fid \in Seq(Fids \cup {Nil})
    BY <2>2 DEF SendType
  <2>4. f \in Fids \cup {Nil}
    BY <2>3, ElementOfSeq
  <2>5. Len(q.readq) \in Nat /\ \A j \in 1 .. Len(q.readq) : q.readq[j] \in ReadType
    BY <2>1
  <2>. QED  BY <2>2, <2>4, <2>5 DEF QType
<1>2. CASE f = Nil \/ Reads = {}
  <2>1. Exchange(q, s, i) = q
    BY <1>2 DEF Exchange
  <2>2. \A j \in 1 .. Len(q.readq) : q.readq[j].fid # f
    <3>1. \A j \in 1 .. Len(q.readq) : q.readq[j].fid # Nil
      BY <1>1, PlumbAssumption DEF ReadType
    <3>. QED  BY <1>2, <3>1
  <2>. QED  BY <2>1, <2>2
<1>3. CASE f # Nil /\ Reads # {}
  <2>1. k \in Reads
    <3>1. \E j \in Reads : \A l \in Reads : j <= l
      <4>1. Reads \subseteq 1 .. Len(q.readq)
        OBVIOUS
      <4>. QED
        <5>. HIDE DEF Reads
        <5>. QED  BY <4>1, <1>1, <1>3, LeastExists
    <3>. QED
      <4>. HIDE DEF Reads
      <4>. QED  BY <3>1 DEF k
  <2>2. /\ k \in 1 .. Len(q.readq) /\ q.readq[k].fid = f /\ q.readq[k] \in ReadType
        /\ f \in Fids
    BY <2>1, <1>1, <1>3
  <2>3. /\ off \in 0 .. Size - 1 /\ Len(pack) = Size /\ pack \in Message
        /\ q.readq[k].count \in 1 .. Size /\ tag \in Fids \cup {Nil} /\ Size \in Nat
    <3>1. q.fids[f] \in FidType
      BY <2>2, <1>1
    <3>. QED  BY <3>1, <2>2, <1>1, MessageUnits, PlumbAssumption
                 DEF FidType, SendType, ReadType, off, pack, tag
  <2>4. n \in 1 .. Size /\ off + n \in 1 .. Size
    BY <2>3, SMTT(20) DEF Least, n
  <2>5. done \in BOOLEAN /\ (IF done THEN 0 ELSE off + n) \in 0 .. Size - 1
    BY <2>3, <2>4 DEF Through, done
  <2>6. SubSeq(pack, off + 1, off + n) \in Replies
    <3>1. off + 1 \in 1 .. Size
      BY <2>3
    <3>2. \A m \in Message, j \in 1 .. Size, l \in 1 .. Size : SubSeq(m, j, l) \in Replies
      BY DEF Replies
    <3>. QED  BY ONLY <3>1, <3>2, <2>3, <2>4
  <2>. DEFINE a == IF tag = Nil THEN q.reply
                   ELSE [q.reply EXCEPT ![tag] = SubSeq(pack, off + 1, off + n)]
              o == IF done THEN 0 ELSE off + n
  <2>7. a \in [Fids -> Replies] /\ o \in 0 .. Size - 1
    BY <2>6, <2>5, <1>1
  <2>. DEFINE y == [fid |-> [x.fid EXCEPT ![i] = Nil], nleft |-> x.nleft - 1, msg |-> x.msg]
  <2>8. [q.sendq EXCEPT ![s].fid[i] = Nil, ![s].nleft = @ - 1] = [q.sendq EXCEPT ![s] = y]
    <3>1. q.sendq \in Seq(SendType)
      BY DEF QType
    <3>. QED  BY <3>1, SendsWithout
  <2>9. Exchange(q, s, i) =
          [sendq |-> IF done THEN [q.sendq EXCEPT ![s] = y] ELSE q.sendq,
           readq |-> RemoveAt(q.readq, k),
           fids |-> [q.fids EXCEPT ![f] = [q.fids[f] EXCEPT !.offset = o]],
           wait |-> IF tag = Nil THEN q.wait ELSE [q.wait EXCEPT ![tag] = FALSE],
           reply |-> a]
    BY <1>3, <2>8 DEF Exchange, k, n, off, done, pack, tag
  <2>10. Answered(q, s, i, k, done, o, a, Exchange(q, s, i))
    BY <2>9 DEF tag, Answered
  <2>11. Exactly(q, s, i, k, done, o, a)
    <3>1. Reach(q, s, i, k) = off + n
      <4>1. \A b, c \in Nat : b <= Size => Least(b + c, Size) = b + Least(Size - b, c)
        BY <2>3 DEF Least
      <4>2. Reach(q, s, i, k) = Least(off + q.readq[k].count, Size)
        BY DEF Reach, off
      <4>3. n = Least(Size - off, q.readq[k].count)
        BY <2>3 DEF n
      <4>4. off \in Nat /\ q.readq[k].count \in Nat /\ off <= Size
        BY <2>3
      <4>. QED  BY ONLY <4>1, <4>2, <4>3, <4>4
    <3>2. done <=> off + n = Size
      BY <2>3, <2>4 DEF Through, done
    <3>. QED  BY <3>1, <3>2 DEF Exactly, off, pack, tag
  <2>. HIDE DEF a, o
  <2>. QED  BY <2>2, <2>5, <2>7, <2>10, <2>11
<1>. QED  BY <1>2, <1>3

(* The places of the reads that are left when the one in place k is removed.  *)
Place(k, j) == IF j < k THEN j ELSE j + 1

(* What taking a read out of the queue leaves in it.                          *)
LEMMA RemovedPlaces ==
  ASSUME NEW S, NEW rq \in Seq(S), NEW k \in 1 .. Len(rq)
  PROVE  /\ RemoveAt(rq, k) \in Seq(S)
         /\ \A j \in 1 .. Len(RemoveAt(rq, k)) :
              Place(k, j) \in 1 .. Len(rq) /\ Place(k, j) # k /\ RemoveAt(rq, k)[j] = rq[Place(k, j)]
         /\ \A j, l \in 1 .. Len(RemoveAt(rq, k)) : Place(k, j) = Place(k, l) => j = l
         /\ \A j \in 1 .. Len(rq) : j # k => \E l \in 1 .. Len(RemoveAt(rq, k)) :
                                                  RemoveAt(rq, k)[l] = rq[j]
<1>. DEFINE t == RemoveAt(rq, k)
<1>1. /\ t \in Seq(S) /\ Len(t) \in Nat /\ Len(rq) \in Nat /\ Len(t) = Len(rq) - 1
      /\ \A j \in 1 .. Len(t) : t[j] = rq[Place(k, j)]
  BY RemoveList DEF RemoveAt, Place
<1>. HIDE DEF t
<1>2. \A j \in 1 .. Len(t) : Place(k, j) \in 1 .. Len(rq) /\ Place(k, j) # k
  BY <1>1 DEF Place
<1>3. \A j, l \in 1 .. Len(t) : Place(k, j) = Place(k, l) => j = l
  BY <1>1 DEF Place
<1>4. ASSUME NEW j \in 1 .. Len(rq), j # k PROVE \E l \in 1 .. Len(t) : t[l] = rq[j]
  <2>1. CASE j < k
    <3>1. j \in 1 .. Len(t) /\ Place(k, j) = j
      BY <2>1, <1>1 DEF Place
    <3>. QED  BY <3>1, <1>1
  <2>2. CASE j > k
    <3>1. j - 1 \in 1 .. Len(t) /\ Place(k, j - 1) = j
      BY <2>2, <1>1 DEF Place
    <3>. QED  BY <3>1, <1>1
  <2>. QED  BY <2>1, <2>2, <1>1, <1>4
<1>. QED  BY <1>1, <1>2, <1>3, <1>4 DEF t

(* A read is answered, or flushed: its client waits no longer.                *)
LEMMA ReadLeaves ==
  ASSUME NEW rq \in Seq(ReadType), NEW w \in [Fids -> BOOLEAN], NEW ih \in SUBSET ReadType,
         NEW P, NEW k \in 1 .. Len(rq), ReadsOK(rq, w, ih, P)
  PROVE  ReadsOK(RemoveAt(rq, k),
                 IF rq[k].tag = Nil THEN w ELSE [w EXCEPT ![rq[k].tag] = FALSE], ih, P)
<1>. DEFINE t == RemoveAt(rq, k)
            tag == rq[k].tag
            v == IF tag = Nil THEN w ELSE [w EXCEPT ![tag] = FALSE]
<1>1. /\ t \in Seq(ReadType)
      /\ \A j \in 1 .. Len(t) : /\ Place(k, j) \in 1 .. Len(rq) /\ Place(k, j) # k
                                /\ t[j] = rq[Place(k, j)]
      /\ \A j, l \in 1 .. Len(t) : Place(k, j) = Place(k, l) => j = l
      /\ \A j \in 1 .. Len(rq) : j # k => \E l \in 1 .. Len(t) : t[l] = rq[j]
  BY RemovedPlaces
<1>2. \A j \in 1 .. Len(rq) : rq[j].fid \in Fids /\ rq[j].tag \in Fids \cup {Nil}
  <2>1. \A j \in 1 .. Len(rq) : rq[j] \in ReadType
    BY ElementOfSeq
  <2>. QED  BY <2>1 DEF ReadType
<1>3. \A r \in ih : r.fid \in Fids /\ r.tag \in Fids \cup {Nil}
  BY DEF ReadType
<1>4. v \in [Fids -> BOOLEAN] /\ \A f \in Fids : v[f] <=> (w[f] /\ f # tag)
  BY <1>2, PlumbAssumption
<1>. HIDE DEF t, v
<1>5. \A j \in 1 .. Len(t) : t[j].tag # Nil => /\ t[j].tag = t[j].fid
                                              /\ t[j].fid \in P /\ v[t[j].fid]
  <2>1. SUFFICES ASSUME NEW j \in 1 .. Len(t), t[j].tag # Nil
                 PROVE  t[j].tag = t[j].fid /\ t[j].fid \in P /\ v[t[j].fid]
    OBVIOUS
  <2>2. rq[Place(k, j)].tag = rq[Place(k, j)].fid /\ rq[Place(k, j)].fid \in P /\ w[rq[Place(k, j)].fid]
    BY <1>1, <2>1 DEF ReadsOK
  <2>3. rq[Place(k, j)].tag # tag
    BY <1>1, <2>1 DEF ReadsOK
  <2>. QED  BY <2>2, <2>3, <1>1, <1>2, <1>4
<1>6. \A j, l \in 1 .. Len(t) : t[j].tag = t[l].tag /\ t[j].tag # Nil => j = l
  <2>1. SUFFICES ASSUME NEW j \in 1 .. Len(t), NEW l \in 1 .. Len(t),
                        t[j].tag = t[l].tag, t[j].tag # Nil
                 PROVE  j = l
    OBVIOUS
  <2>2. Place(k, j) = Place(k, l)
    BY <2>1, <1>1, SMTT(20) DEF ReadsOK
  <2>. QED  BY <2>2, <1>1
<1>7. \A r \in ih : r.tag # Nil => /\ r.tag = r.fid /\ r.fid \in P /\ v[r.fid]
                                   /\ \A j \in 1 .. Len(t) : t[j].tag # r.tag
  <2>1. SUFFICES ASSUME NEW r \in ih, r.tag # Nil
                 PROVE  /\ r.tag = r.fid /\ r.fid \in P /\ v[r.fid]
                        /\ \A j \in 1 .. Len(t) : t[j].tag # r.tag
    OBVIOUS
  <2>2. /\ r.tag = r.fid /\ r.fid \in P /\ w[r.fid]
        /\ \A j \in 1 .. Len(rq) : rq[j].tag # r.tag
    BY <2>1 DEF ReadsOK
  <2>3. r.fid # tag /\ r.fid \in Fids
    BY <2>2, <1>3
  <2>4. v[r.fid]
    BY <2>2, <2>3, <1>4
  <2>5. ASSUME NEW j \in 1 .. Len(t) PROVE t[j].tag # r.tag
    <3>1. Place(k, j) \in 1 .. Len(rq) /\ t[j] = rq[Place(k, j)]
      BY <1>1
    <3>. QED  BY <3>1, <2>2
  <2>. QED  BY <2>2, <2>4, <2>5
<1>8. ASSUME NEW f \in Fids, v[f]
      PROVE  \/ \E r \in ih : r.tag = f
             \/ \E j \in 1 .. Len(t) : t[j].tag = f
  <2>1. w[f] /\ f # tag
    BY <1>4, <1>8
  <2>2. \/ \E r \in ih : r.tag = f
        \/ \E j \in 1 .. Len(rq) : rq[j].tag = f
    BY <2>1 DEF ReadsOK
  <2>. QED  BY <2>1, <2>2, <1>1
<1>9. ~Overtake => /\ \A j \in 1 .. Len(t) : t[j].tag # Nil
                   /\ \A r \in ih : r.tag # Nil
  BY <1>1 DEF ReadsOK
<1>10. \A r, u \in ih : r.tag = u.tag /\ r.tag # Nil => r = u
  BY DEF ReadsOK
<1>11. ReadsOK(t, v, ih, P)
  BY <1>5, <1>6, <1>7, <1>8, <1>9, <1>10 DEF ReadsOK
<1>. QED  BY <1>11 DEF t, v

(* One exchange keeps what drainqueue keeps.                                  *)
LEMMA ExchangeGood ==
  ASSUME NEW sq, NEW fd \in [Fids -> FidType], NEW ih \in SUBSET ReadType,
         SendsOK(sq, Shelf(fd, "port")), NEW q \in GoodSet(sq, fd, ih),
         NEW s \in 1 .. Len(sq), NEW i \in 1 .. Len(sq[s].fid)
  PROVE  Exchange(q, s, i) \in GoodSet(sq, fd, ih)
<1>. DEFINE e == Exchange(q, s, i)
            f == q.sendq[s].fid[i]
            x == q.sendq[s]
            y == [fid |-> [x.fid EXCEPT ![i] = Nil], nleft |-> x.nleft - 1, msg |-> x.msg]
            P == Shelf(fd, "port")
<1>1. q \in QType /\ Good(q, sq, fd, ih)
  BY DEF GoodSet
<1>2. s \in 1 .. Len(q.sendq) /\ i \in 1 .. Len(q.sendq[s].fid)
  BY <1>1 DEF Good
<1>3. CASE e = q
  BY <1>3
<1>4. ASSUME f \in Fids, NEW k \in 1 .. Len(q.readq), NEW done \in BOOLEAN,
             NEW o \in 0 .. Size - 1, NEW a \in [Fids -> Replies], q.readq[k].fid = f,
             Answered(q, s, i, k, done, o, a, e)
      PROVE  e \in GoodSet(sq, fd, ih)
  <2>1. e = [sendq |-> IF done THEN [q.sendq EXCEPT ![s] = y] ELSE q.sendq,
             readq |-> RemoveAt(q.readq, k),
             fids |-> [q.fids EXCEPT ![f] = [q.fids[f] EXCEPT !.offset = o]],
             wait |-> IF q.readq[k].tag = Nil THEN q.wait
                      ELSE [q.wait EXCEPT ![q.readq[k].tag] = FALSE],
             reply |-> a]
    BY <1>4 DEF Answered
  <2>. HIDE DEF e
  <2>2. /\ e.fids = [q.fids EXCEPT ![f] = [q.fids[f] EXCEPT !.offset = o]]
         /\ e = [sendq |-> e.sendq, readq |-> e.readq, fids |-> e.fids, wait |-> e.wait,
                 reply |-> e.reply]
         /\ e.readq = RemoveAt(q.readq, k) /\ e.reply = a
    <3>. HIDE DEF f, x, y
    <3>. QED  BY <2>1
  <2>3. /\ q.sendq \in Seq(SendType) /\ q.readq \in Seq(ReadType) /\ q.fids \in [Fids -> FidType]
        /\ q.wait \in [Fids -> BOOLEAN]
    BY <1>1 DEF QType
  <2>4. x \in SendType /\ x.fid \in Seq(Fids \cup {Nil}) /\ x.nleft \in Int /\ x.msg \in Message
    <3>1. x \in SendType
      BY <2>3, <1>2, ElementOfSeq
    <3>. QED  BY <3>1 DEF SendType
  <2>5. /\ y.fid \in Seq(Fids \cup {Nil}) /\ Len(y.fid) = Len(x.fid) /\ y.nleft = x.nleft - 1
        /\ \A j \in 1 .. Len(x.fid) : y.fid[j] = IF j = i THEN Nil ELSE x.fid[j]
    BY <2>4, <1>2, ExceptSeq
  <2>6. y \in SendType
    BY <2>4, <2>5 DEF SendType
  <2>7. y.nleft = Cardinality(Entries(y))
    <3>1. Entries(x) \subseteq 1 .. Len(x.fid) /\ i \in Entries(x) /\ Len(x.fid) \in Nat
      <4>1. Len(x.fid) \in Nat
        BY <2>4, LenProperties
      <4>2. i \in Entries(x)
        BY <1>2, <1>4, PlumbAssumption DEF Entries
      <4>. QED  BY <4>1, <4>2 DEF Entries
    <3>2. Entries(y) = Entries(x) \ {i}
      BY <2>5 DEF Entries
    <3>3. Cardinality(Entries(x) \ {i}) = Cardinality(Entries(x)) - 1
      <4>1. IsFiniteSet(1 .. Len(x.fid))
        <5>. DEFINE n == Len(x.fid)
        <5>1. n \in Int
          BY <3>1
        <5>. HIDE DEF n
        <5>2. IsFiniteSet(1 .. n)
          BY <5>1, FS_Interval
        <5>. QED  BY <5>2 DEF n
      <4>. QED  BY <4>1, <3>1, OneLess
    <3>4. x.nleft = Cardinality(Entries(x))
      BY <1>1 DEF Good
    <3>. QED  BY <3>2, <3>3, <3>4, <2>5
  <2>8. /\ e.sendq \in Seq(SendType) /\ Len(e.sendq) = Len(q.sendq)
        /\ \A j \in 1 .. Len(q.sendq) : e.sendq[j] = IF done /\ j = s THEN y ELSE q.sendq[j]
    <3>. HIDE DEF y
    <3>1. CASE done
      <4>1. e.sendq = [q.sendq EXCEPT ![s] = y]
        BY <3>1, <2>1
      <4>. QED  BY <4>1, <3>1, <2>3, <2>6, <1>2, ExceptSeq
    <3>2. CASE ~done
      BY <3>2, <2>1, <2>3
    <3>. QED  BY <3>1, <3>2
  <2>9. e.fids \in [Fids -> FidType]
    <3>1. [q.fids[f] EXCEPT !.offset = o] \in FidType
      <4>1. q.fids[f] \in FidType
        BY <1>4, <2>3
      <4>2. \A u \in FidType : [u EXCEPT !.offset = o] \in FidType
        BY DEF FidType
      <4>. QED  BY <4>1, <4>2
    <3>. QED  BY <3>1, <2>3, <1>4, <2>2
  <2>10. e \in QType
    <3>1. RemoveAt(q.readq, k) \in Seq(ReadType)
      BY <2>3, RemovedPlaces
    <3>2. q.readq[k].tag \in Fids \cup {Nil}
      <4>1. q.readq[k] \in ReadType
        BY <2>3, ElementOfSeq
      <4>. QED  BY <4>1 DEF ReadType
    <3>3. e.wait \in [Fids -> BOOLEAN]
      BY <1>4, <2>1, <2>3, <3>2
    <3>. QED  BY <1>4, <2>2, <2>8, <2>9, <3>1, <3>3 DEF QType
  <2>11. ASSUME NEW j \in 1 .. Len(sq)
        PROVE  /\ Len(e.sendq[j].fid) = Len(sq[j].fid)
               /\ \A l \in 1 .. Len(sq[j].fid) : e.sendq[j].fid[l] \in {sq[j].fid[l], Nil}
               /\ e.sendq[j].nleft = Cardinality(Entries(e.sendq[j]))
    <3>1. /\ Len(q.sendq) = Len(sq) /\ Len(q.sendq[j].fid) = Len(sq[j].fid)
          /\ \A l \in 1 .. Len(sq[j].fid) : q.sendq[j].fid[l] \in {sq[j].fid[l], Nil}
          /\ q.sendq[j].nleft = Cardinality(Entries(q.sendq[j]))
      BY <1>1 DEF Good
    <3>. HIDE DEF y
    <3>2. CASE done /\ j = s
      <4>1. e.sendq[j] = y
        BY <3>1, <3>2, <2>8
      <4>. QED  BY <4>1, <3>1, <3>2, <2>5, <2>7
    <3>3. CASE ~(done /\ j = s)
      <4>1. e.sendq[j] = q.sendq[j]
        BY <3>1, <3>3, <2>8
      <4>. QED  BY <4>1, <3>1
    <3>. QED  BY <3>2, <3>3
  <2>12. f \in P
    <3>1. sq[s].fid[i] = f
      BY <1>1, <1>4, PlumbAssumption DEF Good
    <3>2. i \in Entries(sq[s])
      BY <3>1, <1>4, PlumbAssumption DEF Entries
    <3>. QED  BY <3>1, <3>2 DEF SendsOK, SendOK
  <2>13. ASSUME NEW g \in Fids
         PROVE  /\ e.fids[g] = [fd[g] EXCEPT !.offset = e.fids[g].offset]
                /\ g \notin P => e.fids[g].offset = fd[g].offset
    <3>1. /\ q.fids[g] = [fd[g] EXCEPT !.offset = q.fids[g].offset]
          /\ g \notin P => q.fids[g].offset = fd[g].offset
      BY <1>1 DEF Good
    <3>2. CASE g = f
      <4>1. e.fids[g] = [q.fids[g] EXCEPT !.offset = o]
        BY <3>2, <2>1, <2>3
      <4>2. fd[g] \in FidType
        OBVIOUS
      <4>3. \A u : [[fd[g] EXCEPT !.offset = u] EXCEPT !.offset = o] = [fd[g] EXCEPT !.offset = o]
        BY <4>2 DEF FidType
      <4>4. [fd[g] EXCEPT !.offset = o].offset = o
        BY <4>2 DEF FidType
      <4>5. e.fids[g] = [fd[g] EXCEPT !.offset = o]
        BY <4>1, <4>3, <3>1
      <4>. QED  BY <4>4, <4>5, <3>2, <2>12
    <3>3. CASE g # f
      <4>1. e.fids[g] = q.fids[g]
        BY <3>3, <2>2, <1>4, <2>3
      <4>. QED  BY <4>1, <3>1
    <3>. QED  BY <3>2, <3>3
  <2>14. ReadsOK(e.readq, e.wait, ih, P)
    <3>1. ReadsOK(q.readq, q.wait, ih, P)
      BY <1>1 DEF Good
    <3>2. ReadsOK(RemoveAt(q.readq, k),
                  IF q.readq[k].tag = Nil THEN q.wait
                  ELSE [q.wait EXCEPT ![q.readq[k].tag] = FALSE], ih, P)
      BY <3>1, <2>3, ReadLeaves
    <3>3. /\ e.readq = RemoveAt(q.readq, k)
          /\ e.wait = IF q.readq[k].tag = Nil THEN q.wait
                      ELSE [q.wait EXCEPT ![q.readq[k].tag] = FALSE]
      BY <2>1
    <3>. QED  BY <3>2, <3>3
  <2>15. Len(e.sendq) = Len(sq)
    BY <2>8, <1>1 DEF Good
  <2>. HIDE DEF e
  <2>16. Good(e, sq, fd, ih)
    BY <2>11, <2>13, <2>14, <2>15 DEF Good
  <2>. QED  BY <2>10, <2>16 DEF GoodSet
<1>. QED
  <2>1. \/ e = q /\ \A k \in 1 .. Len(q.readq) : q.readq[k].fid # f
        \/ /\ f \in Fids
           /\ \E k \in 1 .. Len(q.readq), done \in BOOLEAN, o \in 0 .. Size - 1,
                 a \in [Fids -> Replies] :
                /\ q.readq[k].fid = f
                /\ Answered(q, s, i, k, done, o, a, e)
    BY <1>1, <1>2, ExchangeGives
  <2>. HIDE DEF e, f, y
  <2>2. e \in GoodSet(sq, fd, ih)
    BY <2>1, <1>3, <1>4
  <2>. QED  BY <2>2 DEF e

(* No read waits that the sends before s, or the entries up to i of s, could  *)
(* have answered.                                                             *)
Served(q, sq, s, i) ==
    \A t \in 1 .. Len(sq) : \A l \in 1 .. Len(sq[t].fid) :
       t < s \/ (t = s /\ l <= i) =>
          \A k \in 1 .. Len(q.readq) : q.readq[k].fid # q.sendq[t].fid[l]

(* Unless a flush has come before its read, a fid has one read in the queue,  *)
(* and an exchange leaves none that the entry could answer.                   *)
LEMMA ExchangeServes ==
  ASSUME NEW sq, NEW fd \in [Fids -> FidType], NEW ih \in SUBSET ReadType,
         SendsOK(sq, Shelf(fd, "port")), NEW q \in GoodSet(sq, fd, ih),
         NEW s \in 1 .. Len(sq), NEW i \in 1 .. Len(sq[s].fid),
         ~Overtake, Served(q, sq, s, i - 1)
  PROVE  Served(Exchange(q, s, i), sq, s, i)
<1>. DEFINE e == Exchange(q, s, i)
            f == q.sendq[s].fid[i]
<1>1. q \in QType /\ Good(q, sq, fd, ih)
  BY DEF GoodSet
<1>2. /\ s \in 1 .. Len(q.sendq) /\ i \in 1 .. Len(q.sendq[s].fid)
      /\ Len(sq[s].fid) \in Nat /\ Len(sq) \in Nat
  <2>1. sq \in Seq(SendType)
    BY DEF SendsOK
  <2>2. sq[s] \in SendType
    BY <2>1, ElementOfSeq
  <2>. QED  BY <1>1, <2>1, <2>2 DEF Good, SendType
<1>3. SUFFICES ASSUME NEW t \in 1 .. Len(sq), NEW l \in 1 .. Len(sq[t].fid),
                      t < s \/ (t = s /\ l <= i),
                      NEW j \in 1 .. Len(e.readq)
               PROVE  e.readq[j].fid # e.sendq[t].fid[l]
  BY DEF Served
<1>4. t < s \/ (t = s /\ l <= i - 1) \/ (t = s /\ l = i)
  <2>1. Len(sq[t].fid) \in Nat
    <3>1. sq \in Seq(SendType)
      BY DEF SendsOK
    <3>2. sq[t] \in SendType
      BY <3>1, ElementOfSeq
    <3>. QED  BY <3>2 DEF SendType
  <2>. QED  BY <1>2, <1>3, <2>1
<1>5. CASE e = q /\ \A k \in 1 .. Len(q.readq) : q.readq[k].fid # f
  <2>1. CASE t < s \/ (t = s /\ l <= i - 1)
    BY <2>1, <1>3, <1>5 DEF Served
  <2>2. CASE t = s /\ l = i
    BY <2>2, <1>3, <1>5
  <2>. QED  BY <2>1, <2>2, <1>4
<1>6. ASSUME f \in Fids, NEW k \in 1 .. Len(q.readq), NEW done \in BOOLEAN,
             NEW o \in 0 .. Size - 1, NEW a \in [Fids -> Replies], q.readq[k].fid = f,
             Answered(q, s, i, k, done, o, a, e)
      PROVE  e.readq[j].fid # e.sendq[t].fid[l]
  <2>1. q.sendq \in Seq(SendType) /\ q.readq \in Seq(ReadType)
    BY <1>1 DEF QType
  <2>2. /\ e.readq = RemoveAt(q.readq, k)
        /\ e.sendq = IF done THEN [q.sendq EXCEPT ![s] =
                                     [fid |-> [q.sendq[s].fid EXCEPT ![i] = Nil],
                                      nleft |-> q.sendq[s].nleft - 1, msg |-> q.sendq[s].msg]]
                     ELSE q.sendq
    BY <1>6 DEF Answered
  <2>3. /\ Place(k, j) \in 1 .. Len(q.readq) /\ Place(k, j) # k
        /\ e.readq[j] = q.readq[Place(k, j)]
    BY <2>1, <2>2, <1>3, RemovedPlaces, SMTT(20)
  <2>4. q.readq[Place(k, j)].fid \in Fids
    <3>1. q.readq[Place(k, j)] \in ReadType
      BY <2>1, <2>3, ElementOfSeq
    <3>. QED  BY <3>1 DEF ReadType
  <2>5. e.sendq[t].fid[l] = q.sendq[t].fid[l] \/ e.sendq[t].fid[l] = Nil
    <3>1. /\ t \in 1 .. Len(q.sendq) /\ l \in 1 .. Len(q.sendq[t].fid)
      BY <1>1 DEF Good
    <3>2. q.sendq[s].fid \in Seq(Fids \cup {Nil})
      <4>1. q.sendq[s] \in SendType
        BY <2>1, <1>2, ElementOfSeq
      <4>. QED  BY <4>1 DEF SendType
    <3>3. CASE done /\ t = s
      <4>1. e.sendq[t].fid = [q.sendq[s].fid EXCEPT ![i] = Nil]
        BY <3>3, <2>1, <2>2, <1>2
      <4>. QED  BY <4>1, <3>1, <3>2, <3>3
    <3>4. CASE ~(done /\ t = s)
      <4>1. e.sendq[t] = q.sendq[t]
        BY <3>4, <3>1, <2>1, <2>2
      <4>. QED  BY <4>1
    <3>. QED  BY <3>3, <3>4
  <2>6. CASE t < s \/ (t = s /\ l <= i - 1)
    <3>1. q.readq[Place(k, j)].fid # q.sendq[t].fid[l]
      BY <2>3, <2>6 DEF Served
    <3>. QED  BY <3>1, <2>3, <2>4, <2>5, PlumbAssumption
  <2>7. CASE t = s /\ l = i
    <3>1. q.readq[Place(k, j)].fid # f
      <4>1. ReadsOK(q.readq, q.wait, ih, Shelf(fd, "port"))
        BY <1>1 DEF Good
      <4>2. /\ q.readq[Place(k, j)].tag = q.readq[Place(k, j)].fid
            /\ q.readq[k].tag = q.readq[k].fid
            /\ q.readq[k].tag # Nil
        BY <4>1, <2>3 DEF ReadsOK
      <4>3. q.readq[k].tag # q.readq[Place(k, j)].tag
        BY <4>1, <4>2, <2>3 DEF ReadsOK
      <4>. QED  BY <4>2, <4>3, <1>6
    <3>. QED  BY <3>1, <2>7, <2>3, <2>4, <2>5, PlumbAssumption
  <2>. QED  BY <2>6, <2>7, <1>4
<1>. QED
  <2>1. \/ e = q /\ \A k \in 1 .. Len(q.readq) : q.readq[k].fid # f
        \/ /\ f \in Fids
           /\ \E k \in 1 .. Len(q.readq), done \in BOOLEAN, o \in 0 .. Size - 1,
                 a \in [Fids -> Replies] :
                /\ q.readq[k].fid = f
                /\ Answered(q, s, i, k, done, o, a, e)
    BY <1>1, <1>2, ExchangeGives
  <2>. HIDE DEF e, f
  <2>. QED  BY <2>1, <1>5, <1>6

-----------------------------------------------------------------------------
(* WHO IS ANSWERED, AND FROM WHICH MESSAGE *)

(* the first send that awaits f *)
First(sq, s, f) == /\ s \in 1 .. Len(sq) /\ Awaits(sq[s], f)
                   /\ \A t \in 1 .. Len(sq) : t < s => ~Awaits(sq[t], f)

(* The reads of f in a queue, of which there is one at most, unless a flush   *)
(* has come before its read.                                                  *)
ReadsOf(rq, f) == {rq[k] : k \in {k \in 1 .. Len(rq) : rq[k].fid = f}}

(* q is to f what Q is; or a read of f has been answered with what was left   *)
(* of the first message that awaits f in Q.                                   *)
Untouched(q, Q, f) ==
    /\ ReadsOf(q.readq, f) = ReadsOf(Q.readq, f)
    /\ q.fids[f].offset = Q.fids[f].offset /\ q.reply[f] = Q.reply[f]
    /\ \A t \in 1 .. Len(Q.sendq) : Awaits(q.sendq[t], f) <=> Awaits(Q.sendq[t], f)
FedBy(q, Q, f, s, x) ==
    LET u == Least(Q.fids[f].offset + x.count, Size)
    IN /\ ReadsOf(q.readq, f) = {}
       /\ q.fids[f].offset = IF u = Size THEN 0 ELSE u
       /\ q.reply[f] = SubSeq(Q.sendq[s].msg, Q.fids[f].offset + 1, u)
       /\ \A t \in 1 .. Len(Q.sendq) :
             Awaits(q.sendq[t], f) <=> (Awaits(Q.sendq[t], f) /\ ~(t = s /\ u = Size))
Fed(q, Q, f) == \E s, x : x \in ReadsOf(Q.readq, f) /\ First(Q.sendq, s, f) /\ FedBy(q, Q, f, s, x)
Follows(q, Q) == /\ \A t \in 1 .. Len(Q.sendq) : q.sendq[t].msg = Q.sendq[t].msg
                 /\ \A f \in Fids : Untouched(q, Q, f) \/ Fed(q, Q, f)

(* A step that does not touch f leaves it what it was before.                 *)
LEMMA FollowsOn ==
  ASSUME NEW e, NEW q, NEW Q, NEW f, Len(Q.sendq) = Len(q.sendq), Untouched(e, q, f)
  PROVE  /\ Untouched(q, Q, f) => Untouched(e, Q, f)
         /\ Fed(q, Q, f) => Fed(e, Q, f)
<1>1. Untouched(q, Q, f) => Untouched(e, Q, f)
  BY DEF Untouched
<1>2. ASSUME NEW s, NEW x, FedBy(q, Q, f, s, x) PROVE FedBy(e, Q, f, s, x)
  BY <1>2 DEF Untouched, FedBy
<1>. QED  BY <1>1, <1>2 DEF Fed

(* What a fid has in a queue of reads when one of them is taken out.          *)
LEMMA ReadsOfLess ==
  ASSUME NEW rq \in Seq(ReadType), NEW k \in 1 .. Len(rq)
  PROVE  /\ \A g : g # rq[k].fid => ReadsOf(RemoveAt(rq, k), g) = ReadsOf(rq, g)
         /\ (\A j \in 1 .. Len(rq) : rq[j].fid = rq[k].fid => j = k)
               => ReadsOf(RemoveAt(rq, k), rq[k].fid) = {}
<1>1. PICK t : t = RemoveAt(rq, k)
  OBVIOUS
<1>2. /\ \A j \in 1 .. Len(t) : /\ Place(k, j) \in 1 .. Len(rq) /\ Place(k, j) # k
                                /\ t[j] = rq[Place(k, j)]
      /\ \A j \in 1 .. Len(rq) : j # k => \E l \in 1 .. Len(t) : t[l] = rq[j]
  <2>1. /\ \A j \in 1 .. Len(RemoveAt(rq, k)) :
              /\ Place(k, j) \in 1 .. Len(rq) /\ Place(k, j) # k
              /\ RemoveAt(rq, k)[j] = rq[Place(k, j)]
        /\ \A j \in 1 .. Len(rq) : j # k => \E l \in 1 .. Len(RemoveAt(rq, k)) :
                                                  RemoveAt(rq, k)[l] = rq[j]
    BY RemovedPlaces
  <2>. QED  BY <1>1, <2>1
<1>3. ASSUME NEW g, g # rq[k].fid PROVE ReadsOf(t, g) = ReadsOf(rq, g)
  <2>1. ASSUME NEW x \in ReadsOf(t, g) PROVE x \in ReadsOf(rq, g)
    BY <1>2 DEF ReadsOf
  <2>2. ASSUME NEW x \in ReadsOf(rq, g) PROVE x \in ReadsOf(t, g)
    <3>1. PICK j \in 1 .. Len(rq) : rq[j].fid = g /\ x = rq[j]
      BY DEF ReadsOf
    <3>2. PICK l \in 1 .. Len(t) : t[l] = rq[j]
      BY <1>2, <1>3, <3>1
    <3>. QED  BY <3>1, <3>2 DEF ReadsOf
  <2>. QED  BY <2>1, <2>2
<1>4. ASSUME \A j \in 1 .. Len(rq) : rq[j].fid = rq[k].fid => j = k
      PROVE  ReadsOf(t, rq[k].fid) = {}
  BY <1>2, <1>4 DEF ReadsOf
<1>. QED  BY <1>1, <1>3, <1>4

(* Unless a flush has come before its read, a fid has one read at most.       *)
LEMMA OneRead ==
  ASSUME NEW rq, NEW w, NEW ih, NEW P, ReadsOK(rq, w, ih, P), ~Overtake
  PROVE  /\ \A j, k \in 1 .. Len(rq) : rq[j].fid = rq[k].fid => j = k
         /\ \A k \in 1 .. Len(rq) : rq[k].tag = rq[k].fid /\ rq[k].tag # Nil /\ rq[k].fid \in P /\ w[rq[k].fid]
<1>1. \A k \in 1 .. Len(rq) : rq[k].tag # Nil /\ rq[k].tag = rq[k].fid /\ rq[k].fid \in P /\ w[rq[k].fid]
  BY DEF ReadsOK
<1>2. \A j, k \in 1 .. Len(rq) : rq[j].tag = rq[k].tag /\ rq[j].tag # Nil => j = k
  BY DEF ReadsOK
<1>. QED  BY <1>1, <1>2

(* One exchange: who is answered is so from the first message that awaits it. *)
LEMMA ExchangeFollows ==
  ASSUME NEW sq, NEW fd \in [Fids -> FidType], NEW ih \in SUBSET ReadType,
         SendsOK(sq, Shelf(fd, "port")), NEW q \in GoodSet(sq, fd, ih),
         NEW s \in 1 .. Len(sq), NEW i \in 1 .. Len(sq[s].fid),
         ~Overtake, Served(q, sq, s, i - 1), NEW Q, Q.sendq = sq, Follows(q, Q)
  PROVE  Follows(Exchange(q, s, i), Q)
<1>1. PICK e : e = Exchange(q, s, i)
  OBVIOUS
<1>2. PICK f : f = q.sendq[s].fid[i]
  OBVIOUS
<1>3. q \in QType /\ Good(q, sq, fd, ih)
  BY DEF GoodSet
<1>4. /\ Len(q.sendq) = Len(sq) /\ s \in 1 .. Len(q.sendq) /\ i \in 1 .. Len(q.sendq[s].fid)
      /\ q.sendq \in Seq(SendType) /\ q.readq \in Seq(ReadType) /\ q.fids \in [Fids -> FidType]
      /\ q.reply \in [Fids -> Replies]
  BY <1>3 DEF Good, QType
<1>5. SUFFICES ASSUME e # q PROVE Follows(e, Q)
  BY <1>1
<1>6. f \in Fids /\ \E k \in 1 .. Len(q.readq), done \in BOOLEAN, o \in 0 .. Size - 1,
                       a \in [Fids -> Replies] :
                      /\ q.readq[k].fid = f
                      /\ Answered(q, s, i, k, done, o, a, e)
                      /\ Exactly(q, s, i, k, done, o, a)
  BY <1>1, <1>2, <1>3, <1>4, <1>5, ExchangeGives
<1>7. PICK k \in 1 .. Len(q.readq), done \in BOOLEAN, o \in 0 .. Size - 1, a \in [Fids -> Replies] :
         /\ q.readq[k].fid = f
         /\ Answered(q, s, i, k, done, o, a, e)
         /\ Exactly(q, s, i, k, done, o, a)
  BY <1>6
<1>8. /\ \A j \in 1 .. Len(q.readq) : q.readq[j].fid = f => j = k
      /\ q.readq[k].tag = f /\ f # Nil
  <2>1. ReadsOK(q.readq, q.wait, ih, Shelf(fd, "port"))
    BY <1>3 DEF Good
  <2>. QED  BY <1>7, <2>1, OneRead
<1>9. PICK u : u = Least(q.fids[f].offset + q.readq[k].count, Size)
  OBVIOUS
<1>10. /\ done <=> u = Size
       /\ o = IF done THEN 0 ELSE u
       /\ a = [q.reply EXCEPT ![f] = SubSeq(q.sendq[s].msg, q.fids[f].offset + 1, u)]
  BY <1>2, <1>7, <1>8, <1>9 DEF Exactly, Reach
<1>11. PICK y : y = [fid |-> [q.sendq[s].fid EXCEPT ![i] = Nil],
                     nleft |-> q.sendq[s].nleft - 1, msg |-> q.sendq[s].msg]
  OBVIOUS
<1>12. /\ e.sendq = IF done THEN [q.sendq EXCEPT ![s] = y] ELSE q.sendq
       /\ e.readq = RemoveAt(q.readq, k)
       /\ e.fids = [q.fids EXCEPT ![f] = [q.fids[f] EXCEPT !.offset = o]]
       /\ e.reply = a
  BY <1>2, <1>7, <1>11 DEF Answered
<1>13. /\ \A g \in Fids : g # f => e.fids[g] = q.fids[g] /\ e.reply[g] = q.reply[g]
       /\ e.fids[f].offset = o
       /\ e.reply[f] = SubSeq(q.sendq[s].msg, q.fids[f].offset + 1, u)
  <2>1. q.fids[f] \in FidType
    BY <1>4, <1>6
  <2>2. [q.fids[f] EXCEPT !.offset = o].offset = o
    BY <2>1 DEF FidType
  <2>3. /\ \A g \in Fids : g # f => e.fids[g] = q.fids[g]
        /\ e.fids[f] = [q.fids[f] EXCEPT !.offset = o]
    BY <1>4, <1>6, <1>12
  <2>4. /\ \A g \in Fids : g # f => e.reply[g] = q.reply[g]
        /\ e.reply[f] = SubSeq(q.sendq[s].msg, q.fids[f].offset + 1, u)
    BY <1>4, <1>6, <1>10, <1>12
  <2>. QED  BY <2>2, <2>3, <2>4
<1>14. /\ \A t \in 1 .. Len(q.sendq) : t # s => e.sendq[t] = q.sendq[t]
       /\ e.sendq[s] = IF done THEN y ELSE q.sendq[s]
  BY <1>4, <1>12
<1>15. /\ q.sendq[s].fid \in Seq(Fids \cup {Nil})
       /\ \A j \in 1 .. Len(q.sendq[s].fid) : q.sendq[s].fid[j] = f => j = i
  <2>1. q.sendq[s] \in SendType
    BY <1>4, ElementOfSeq
  <2>2. SendOK(sq[s], Shelf(fd, "port"))
    BY DEF SendsOK
  <2>3. /\ Len(q.sendq[s].fid) = Len(sq[s].fid)
        /\ \A j \in 1 .. Len(sq[s].fid) : q.sendq[s].fid[j] \in {sq[s].fid[j], Nil}
    BY <1>3 DEF Good
  <2>4. \A j \in 1 .. Len(sq[s].fid) : q.sendq[s].fid[j] = f => sq[s].fid[j] = f /\ j \in Entries(sq[s])
    BY <1>8, <2>3 DEF Entries
  <2>5. sq[s].fid[i] = f /\ i \in Entries(sq[s])
    BY <1>2, <2>4
  <2>. QED  BY <2>1, <2>2, <2>3, <2>4, <2>5 DEF SendType, SendOK
<1>16. /\ Len(y.fid) = Len(q.sendq[s].fid) /\ y.msg = q.sendq[s].msg
       /\ \A j \in 1 .. Len(q.sendq[s].fid) : y.fid[j] = IF j = i THEN Nil ELSE q.sendq[s].fid[j]
  BY <1>11, <1>15
<1>17. \A t \in 1 .. Len(q.sendq) : e.sendq[t].msg = q.sendq[t].msg
  BY <1>14, <1>16
<1>18. ASSUME NEW g \in Fids, g # f PROVE Untouched(e, q, g)
  <2>1. ReadsOf(e.readq, g) = ReadsOf(q.readq, g)
    BY <1>4, <1>7, <1>12, <1>18, ReadsOfLess
  <2>2. Awaits(y, g) <=> Awaits(q.sendq[s], g)
    BY <1>2, <1>4, <1>16, <1>18, PlumbAssumption DEF Awaits
  <2>3. \A t \in 1 .. Len(q.sendq) : Awaits(e.sendq[t], g) <=> Awaits(q.sendq[t], g)
    BY <1>14, <2>2
  <2>. QED  BY <1>13, <1>18, <2>1, <2>3 DEF Untouched
<1>19. Untouched(q, Q, f)
  <2>1. q.readq[k] \in ReadsOf(q.readq, f)
    BY <1>7 DEF ReadsOf
  <2>2. ~Fed(q, Q, f)
    BY <2>1 DEF Fed, FedBy
  <2>. QED  BY <1>6, <2>2 DEF Follows
<1>20. First(sq, s, f)
  <2>1. Awaits(q.sendq[s], f)
    BY <1>2, <1>4 DEF Awaits
  <2>2. ASSUME NEW t \in 1 .. Len(sq), t < s PROVE ~Awaits(q.sendq[t], f)
    <3>1. Len(q.sendq[t].fid) = Len(sq[t].fid)
      BY <1>3 DEF Good
    <3>. QED  BY <1>7, <2>2, <3>1 DEF Served, Awaits
  <2>3. \A t \in 1 .. Len(sq) : Awaits(q.sendq[t], f) <=> Awaits(sq[t], f)
    BY <1>19 DEF Untouched
  <2>. QED  BY <2>1, <2>2, <2>3 DEF First
<1>21. FedBy(e, Q, f, s, q.readq[k])
  <2>1. ReadsOf(e.readq, f) = {}
    <3>1. \A j \in 1 .. Len(q.readq) : q.readq[j].fid = q.readq[k].fid => j = k
      BY <1>7, <1>8
    <3>2. ReadsOf(RemoveAt(q.readq, k), q.readq[k].fid) = {}
      BY <1>4, <3>1, ReadsOfLess
    <3>. QED  BY <1>7, <1>12, <3>2
  <2>2. /\ Q.fids[f].offset = q.fids[f].offset /\ Q.sendq[s].msg = q.sendq[s].msg
        /\ \A t \in 1 .. Len(sq) : Awaits(q.sendq[t], f) <=> Awaits(sq[t], f)
    BY <1>19 DEF Untouched, Follows
  <2>3. ~Awaits(y, f)
    BY <1>8, <1>15, <1>16 DEF Awaits
  <2>4. \A t \in 1 .. Len(sq) : Awaits(e.sendq[t], f) <=> (Awaits(sq[t], f) /\ ~(t = s /\ u = Size))
    BY <1>4, <1>10, <1>14, <2>2, <2>3
  <2>. QED  BY <1>9, <1>10, <1>13, <2>1, <2>2, <2>4 DEF FedBy
<1>22. q.readq[k] \in ReadsOf(Q.readq, f)
  <2>1. q.readq[k] \in ReadsOf(q.readq, f)
    BY <1>7 DEF ReadsOf
  <2>. QED  BY <1>19, <2>1 DEF Untouched
<1>23. Fed(e, Q, f)
  BY <1>20, <1>21, <1>22 DEF Fed
<1>24. ASSUME NEW g \in Fids PROVE Untouched(e, Q, g) \/ Fed(e, Q, g)
  <2>1. CASE g = f
    BY <1>23, <2>1
  <2>2. CASE g # f
    <3>1. Untouched(q, Q, g) \/ Fed(q, Q, g)
      BY DEF Follows
    <3>2. Len(Q.sendq) = Len(q.sendq)
      BY <1>4
    <3>. QED  BY <1>18, <2>2, <3>1, <3>2, FollowsOn
  <2>. QED  BY <2>1, <2>2
<1>. QED  BY <1>4, <1>17, <1>24 DEF Follows

-----------------------------------------------------------------------------
(* THE ENTRIES OF A SEND, AND THE SENDS, IN THEIR ORDER *)

(* The entries of send s, each in its turn.                                   *)
LEMMA ExchangeAllTrace ==
  ASSUME NEW sq, NEW fd \in [Fids -> FidType], NEW ih \in SUBSET ReadType,
         SendsOK(sq, Shelf(fd, "port")), NEW q \in GoodSet(sq, fd, ih),
         NEW s \in 1 .. Len(sq)
  PROVE  LET n == Len(sq[s].fid)
         IN  /\ n \in Nat
             /\ \E w \in [0 .. n -> GoodSet(sq, fd, ih)] :
                   /\ w[0] = q /\ ExchangeAll(q, s) = w[n]
                   /\ \A k \in 1 .. n : w[k] = Exchange(w[k - 1], s, k)
<1>. DEFINE n == Len(sq[s].fid)
            r == ExchangeAll(q, s)
            U == GoodSet(sq, fd, ih)
            st == [x \in U \X (1 .. n) |-> Exchange(x[1], s, x[2])]
            Eq(g) == g = [t \in SUBSET (1 .. n) |->
                            IF t = {} THEN q ELSE Exchange(g[t \ {Max(t)}], s, Upto(n)[Max(t)])]
            it == CHOOSE g : Eq(g)
<1>1. n \in Nat
  <2>1. sq \in Seq(SendType)
    BY DEF SendsOK
  <2>2. sq[s] \in SendType
    BY <2>1, ElementOfSeq
  <2>3. sq[s].fid \in Seq(Fids \cup {Nil})
    BY <2>2 DEF SendType
  <2>. QED  BY <2>3
<1>2. st \in [U \X (1 .. n) -> U]
  <2>1. \A u \in U, i \in 1 .. n : Exchange(u, s, i) \in U
    BY ExchangeGood
  <2>. HIDE DEF U, n
  <2>. QED  BY <2>1
<1>3. \A t \in SUBSET (1 .. n) : t # {} => Max(t) \in t /\ \A y \in t : Max(t) >= y
  <2>1. SUFFICES ASSUME NEW t \in SUBSET (1 .. n), t # {}
                 PROVE  Max(t) \in t /\ \A y \in t : Max(t) >= y
    OBVIOUS
  <2>2. \E x \in t : \A y \in t : x >= y
    <3>. HIDE DEF n
    <3>. QED  BY <1>1, <2>1, GreatestExists
  <2>. QED  BY <2>2 DEF Max
<1>4. \E g : Eq(g)
  <2>1. PICK f : IsFold(f, n, U, q, st)
    <3>. HIDE DEF st, n, U
    <3>1. q \in U
      BY DEF U
    <3>2. n \in Nat
      BY <1>1
    <3>. QED  BY ONLY <1>2, <3>1, <3>2, FoldExists
  <2>2. \A t \in SUBSET (1 .. n) : f[t] = IF t = {} THEN q ELSE st[<<f[t \ {Max(t)}], Max(t)>>]
    BY <2>1 DEF IsFold, Top, Max
  <2>3. ASSUME NEW t \in SUBSET (1 .. n), t # {}
        PROVE  f[t] = Exchange(f[t \ {Max(t)}], s, Upto(n)[Max(t)])
    <3>1. Max(t) \in 1 .. n /\ t \ {Max(t)} \in SUBSET (1 .. n)
      BY <2>3, <1>3
    <3>2. f[t \ {Max(t)}] \in U
      <4>. HIDE DEF U, n
      <4>. QED  BY <3>1, <2>1 DEF IsFold
    <3>3. Upto(n)[Max(t)] = Max(t)
      BY <3>1 DEF Upto
    <3>4. f[t] = st[<<f[t \ {Max(t)}], Max(t)>>]
      BY <2>2, <2>3
    <3>. HIDE DEF U, n
    <3>. QED  BY <3>1, <3>2, <3>3, <3>4
  <2>4. \A t \in SUBSET (1 .. n) : f[t] = IF t = {} THEN q
                                         ELSE Exchange(f[t \ {Max(t)}], s, Upto(n)[Max(t)])
    BY <2>2, <2>3
  <2>5. Eq(f)
    <3>1. f \in [SUBSET (1 .. n) -> U]
      BY <2>1 DEF IsFold
    <3>. HIDE DEF U, n
    <3>. QED  BY <3>1, <2>4
  <2>. HIDE DEF Eq
  <2>. QED  BY <2>5
<1>5. Eq(it)
  <2>. HIDE DEF Eq
  <2>. QED  BY <1>4
<1>6. r = it[1 .. n]
  <2>1. DOMAIN Upto(n) = 1 .. n
    BY DEF Upto
  <2>2. Len(q.sendq[s].fid) = n
    BY DEF GoodSet, Good
  <2>3. r = FoldLeft(LAMBDA p, i : Exchange(p, s, i), q, Upto(n))
    BY <2>2 DEF ExchangeAll
  <2>. QED  BY <2>1, <2>3 DEF FoldLeft, MapThenFoldSet
<1>7. n \in Nat /\ q \in U
  BY <1>1
<1>8. /\ it[{}] = q
      /\ \A t \in SUBSET (1 .. n) : t # {} => it[t] = Exchange(it[t \ {Max(t)}], s, Upto(n)[Max(t)])
  <2>. HIDE DEF n, it
  <2>. QED  BY <1>5
<1>9. \A i \in 1 .. n : Upto(n)[i] = i
  BY DEF Upto
<1>10. \A u \in U, i \in 1 .. n : st[<<u, i>>] = Exchange(u, s, i)
  <2>. HIDE DEF U, n
  <2>. QED  OBVIOUS
<1>. HIDE DEF it, r, n, U, st, Eq
<1>11. Steps(it, n, U, st)
  <2>1. SUFFICES ASSUME NEW t \in SUBSET (1 .. n), t # {}, it[t \ {Top(t)}] \in U
                 PROVE  it[t] = st[<<it[t \ {Top(t)}], Top(t)>>]
    BY DEF Steps
  <2>2. Top(t) = Max(t) /\ Max(t) \in 1 .. n
    BY <1>3, <2>1 DEF Top, Max
  <2>3. it[t] = Exchange(it[t \ {Max(t)}], s, Upto(n)[Max(t)])
    BY <1>8, <2>1
  <2>. QED  BY <1>9, <1>10, <2>1, <2>2, <2>3
<1>12. PICK w : IsChain(w, n, U, q, st) /\ w[n] = it[1 .. n]
  <2>1. Folded(it, n, U, q, st)
    BY <1>2, <1>7, <1>8, <1>11 DEF Folded
  <2>. QED  BY <2>1, FoldChain DEF Chained
<1>13. w \in [0 .. n -> U] /\ w[0] = q /\ r = w[n]
  BY <1>6, <1>12 DEF IsChain
<1>14. ASSUME NEW k \in 1 .. n PROVE w[k] = Exchange(w[k - 1], s, k)
  <2>1. w[k - 1] \in U
    BY <1>7, <1>13
  <2>. QED  BY <1>10, <1>12, <2>1 DEF IsChain
<1>. QED  BY <1>7, <1>13, <1>14 DEF n, r, U

(* What they keep, and that they leave no read that send s could answer.      *)
LEMMA ExchangeAllGood ==
  ASSUME NEW sq, NEW fd \in [Fids -> FidType], NEW ih \in SUBSET ReadType,
         SendsOK(sq, Shelf(fd, "port")), NEW q \in GoodSet(sq, fd, ih),
         NEW s \in 1 .. Len(sq)
  PROVE  /\ ExchangeAll(q, s) \in GoodSet(sq, fd, ih)
         /\ ~Overtake /\ Served(q, sq, s, 0) =>
              /\ Served(ExchangeAll(q, s), sq, s + 1, 0)
              /\ \A Q : Q.sendq = sq /\ Follows(q, Q) => Follows(ExchangeAll(q, s), Q)
<1>1. PICK n : n = Len(sq[s].fid)
  OBVIOUS
<1>2. PICK r : r = ExchangeAll(q, s)
  OBVIOUS
<1>3. n \in Nat /\ \E w \in [0 .. n -> GoodSet(sq, fd, ih)] :
          /\ w[0] = q /\ r = w[n] /\ \A k \in 1 .. n : w[k] = Exchange(w[k - 1], s, k)
  BY <1>1, <1>2, ExchangeAllTrace
<1>4. PICK w \in [0 .. n -> GoodSet(sq, fd, ih)] :
          /\ w[0] = q /\ r = w[n] /\ \A k \in 1 .. n : w[k] = Exchange(w[k - 1], s, k)
  BY <1>3
<1>5. r \in GoodSet(sq, fd, ih)
  BY <1>3, <1>4
<1>6. ASSUME ~Overtake, Served(q, sq, s, 0) PROVE Served(r, sq, s, n)
  <2>. DEFINE T == {k \in 0 .. n : Served(w[k], sq, s, k)}
  <2>1. 0 \in T
    BY <1>3, <1>4, <1>6
  <2>2. ASSUME NEW k \in 1 .. n, k - 1 \in T PROVE k \in T
    <3>1. /\ k - 1 \in 0 .. n /\ k \in 0 .. n /\ w[k - 1] \in GoodSet(sq, fd, ih)
          /\ Served(w[k - 1], sq, s, k - 1) /\ k \in 1 .. Len(sq[s].fid)
      BY <1>1, <1>3, <1>4, <2>2
    <3>2. Served(Exchange(w[k - 1], s, k), sq, s, k)
      BY <1>6, <3>1, ExchangeServes
    <3>. QED  BY <1>4, <3>1, <3>2
  <2>. HIDE DEF T
  <2>3. \A k \in 0 .. n : k \in T
    BY <1>3, <2>1, <2>2, UptoInduction
  <2>. QED  BY <1>3, <1>4, <2>3 DEF T
<1>7. Served(r, sq, s, n) => Served(r, sq, s + 1, 0)
  <2>1. SUFFICES ASSUME Served(r, sq, s, n),
                        NEW t \in 1 .. Len(sq), NEW l \in 1 .. Len(sq[t].fid),
                        t < s + 1 \/ (t = s + 1 /\ l <= 0), NEW k \in 1 .. Len(r.readq)
                 PROVE  r.readq[k].fid # r.sendq[t].fid[l]
    BY DEF Served
  <2>2. Len(sq) \in Nat /\ Len(sq[t].fid) \in Nat
    <3>1. sq \in Seq(SendType)
      BY DEF SendsOK
    <3>2. sq[t] \in SendType
      BY <3>1, ElementOfSeq
    <3>. QED  BY <3>1, <3>2 DEF SendType
  <2>3. t < s \/ (t = s /\ l <= n)
    BY <1>1, <2>1, <2>2
  <2>. QED  BY <2>1, <2>3 DEF Served
<1>8. ASSUME ~Overtake, Served(q, sq, s, 0), NEW Q, Q.sendq = sq, Follows(q, Q)
      PROVE  Follows(r, Q)
  <2>. DEFINE T == {k \in 0 .. n : Served(w[k], sq, s, k) /\ Follows(w[k], Q)}
  <2>1. 0 \in T
    BY <1>3, <1>4, <1>8
  <2>2. ASSUME NEW k \in 1 .. n, k - 1 \in T PROVE k \in T
    <3>1. /\ k - 1 \in 0 .. n /\ k \in 0 .. n /\ w[k - 1] \in GoodSet(sq, fd, ih)
          /\ Served(w[k - 1], sq, s, k - 1) /\ Follows(w[k - 1], Q) /\ k \in 1 .. Len(sq[s].fid)
      BY <1>1, <1>3, <1>4, <2>2
    <3>2. Served(Exchange(w[k - 1], s, k), sq, s, k)
      BY <1>8, <3>1, ExchangeServes
    <3>3. Follows(Exchange(w[k - 1], s, k), Q)
      BY <1>8, <3>1, ExchangeFollows
    <3>. QED  BY <1>4, <3>1, <3>2, <3>3
  <2>. HIDE DEF T
  <2>3. \A k \in 0 .. n : k \in T
    BY <1>3, <2>1, <2>2, UptoInduction
  <2>. QED  BY <1>3, <1>4, <2>3 DEF T
<1>. QED  BY <1>2, <1>5, <1>6, <1>7, <1>8

(* The sends that are kept when those that nobody waits for are deleted.      *)
Kept(sq) == {u \in Seq(SendType) : \A k \in 1 .. Len(u) : /\ u[k].nleft # 0
                                                          /\ \E j \in 1 .. Len(sq) : u[k] = sq[j]}
KeepOne(u, x) == IF x.nleft = 0 THEN u ELSE Append(u, x)

(* The sends that are left of the queue up to each of its places.             *)
LEMMA LeftTrace ==
  ASSUME NEW sq \in Seq(SendType)
  PROVE  \E w \in [0 .. Len(sq) -> Seq(SendType)] :
            /\ w[0] = <<>> /\ Left(sq) = w[Len(sq)]
            /\ \A k \in 1 .. Len(sq) : w[k] = KeepOne(w[k - 1], sq[k])
<1>. DEFINE n == Len(sq)
            U == Seq(SendType)
            st == [x \in U \X (1 .. n) |-> KeepOne(x[1], sq[x[2]])]
            Eq(g) == g = [t \in SUBSET (1 .. n) |->
                            IF t = {} THEN <<>> ELSE KeepOne(g[t \ {Max(t)}], sq[Max(t)])]
            it == CHOOSE g : Eq(g)
<1>1. n \in Nat /\ DOMAIN sq = 1 .. n /\ <<>> \in U
  OBVIOUS
<1>2. ASSUME NEW u \in U, NEW i \in 1 .. n PROVE KeepOne(u, sq[i]) \in U
  BY DEF KeepOne
<1>3. st \in [U \X (1 .. n) -> U] /\ \A u \in U, i \in 1 .. n : st[<<u, i>>] = KeepOne(u, sq[i])
  <2>. HIDE DEF U, n
  <2>. QED  BY <1>2
<1>4. Left(sq) = it[1 .. n]
  BY <1>1 DEF Left, FoldLeft, MapThenFoldSet, KeepOne
<1>. HIDE DEF U, n, st
<1>5. ASSUME NEW t \in SUBSET (1 .. n), t # {} PROVE Max(t) \in t /\ Top(t) = Max(t)
  <2>1. \E x \in t : \A y \in t : x >= y
    BY <1>1, <1>5, GreatestExists
  <2>. QED  BY <2>1 DEF Max, Top
<1>6. PICK f : IsFold(f, n, U, <<>>, st)
  BY ONLY <1>1, <1>3, FoldExists
<1>7. /\ f \in [SUBSET (1 .. n) -> U] /\ f[{}] = <<>>
      /\ \A t \in SUBSET (1 .. n) : t # {} => f[t] = st[<<f[t \ {Top(t)}], Top(t)>>]
  BY <1>6 DEF IsFold
<1>8. ASSUME NEW t \in SUBSET (1 .. n), t # {}
      PROVE  f[t] = KeepOne(f[t \ {Max(t)}], sq[Max(t)])
  <2>1. /\ Max(t) \in 1 .. n /\ f[t \ {Max(t)}] \in U
        /\ f[t] = st[<<f[t \ {Max(t)}], Max(t)>>]
    BY <1>5, <1>7, <1>8
  <2>. QED  BY <1>3, <2>1
<1>9. Eq(it)
  <2>1. Eq(f)
    BY <1>7, <1>8
  <2>. HIDE DEF Eq
  <2>. QED  BY <2>1
<1>10. /\ it[{}] = <<>>
       /\ \A t \in SUBSET (1 .. n) : t # {} => it[t] = KeepOne(it[t \ {Max(t)}], sq[Max(t)])
  <2>. HIDE DEF it
  <2>. QED  BY <1>9
<1>. HIDE DEF it, Eq
<1>11. Steps(it, n, U, st)
  BY <1>3, <1>5, <1>10 DEF Steps
<1>12. PICK w : IsChain(w, n, U, <<>>, st) /\ w[n] = it[1 .. n]
  <2>1. Folded(it, n, U, <<>>, st)
    BY <1>1, <1>3, <1>10, <1>11 DEF Folded
  <2>. QED  BY <2>1, FoldChain DEF Chained
<1>13. w \in [0 .. n -> U] /\ w[0] = <<>> /\ Left(sq) = w[n]
  BY <1>4, <1>12 DEF IsChain
<1>14. ASSUME NEW k \in 1 .. n PROVE w[k] = KeepOne(w[k - 1], sq[k])
  <2>1. w[k - 1] \in U
    BY <1>1, <1>13
  <2>. QED  BY <1>3, <1>12, <2>1 DEF IsChain
<1>. QED  BY <1>13, <1>14 DEF n, U

(* What Left leaves of a queue are sends of it that some fid still awaits.    *)
LEMMA LeftIs ==
  ASSUME NEW sq \in Seq(SendType) PROVE Left(sq) \in Kept(sq)
<1>1. PICK n \in Nat : n = Len(sq)
  OBVIOUS
<1>2. PICK w \in [0 .. n -> Seq(SendType)] :
         /\ w[0] = <<>> /\ Left(sq) = w[n]
         /\ \A k \in 1 .. n : w[k] = KeepOne(w[k - 1], sq[k])
  BY <1>1, LeftTrace
<1>3. ASSUME NEW u \in Kept(sq), NEW i \in 1 .. n PROVE KeepOne(u, sq[i]) \in Kept(sq)
  <2>1. u \in Seq(SendType) /\ sq[i] \in SendType
    BY <1>1, ElementOfSeq DEF Kept
  <2>2. CASE sq[i].nleft = 0
    BY <2>2 DEF KeepOne
  <2>3. CASE sq[i].nleft # 0
    <3>. DEFINE v == Append(u, sq[i])
    <3>1. /\ v \in Seq(SendType) /\ Len(v) = Len(u) + 1 /\ Len(u) \in Nat
          /\ \A k \in 1 .. Len(u) : v[k] = u[k]
          /\ v[Len(u) + 1] = sq[i]
      BY <2>1, AppendList
    <3>. HIDE DEF v
    <3>2. ASSUME NEW k \in 1 .. Len(v)
          PROVE  v[k].nleft # 0 /\ \E j \in 1 .. Len(sq) : v[k] = sq[j]
      <4>1. CASE k \in 1 .. Len(u)
        BY <4>1, <3>1 DEF Kept
      <4>2. CASE k = Len(u) + 1
        BY <4>2, <3>1, <2>3, <1>1
      <4>. QED  BY <4>1, <4>2, <3>1
    <3>3. v \in Kept(sq)
      BY <3>1, <3>2 DEF Kept
    <3>. QED  BY <3>3, <2>3 DEF KeepOne, v
  <2>. QED  BY <2>2, <2>3
<1>. DEFINE T == {k \in 0 .. n : w[k] \in Kept(sq)}
<1>4. 0 \in T
  BY <1>2 DEF Kept
<1>5. ASSUME NEW k \in 1 .. n, k - 1 \in T PROVE k \in T
  BY <1>2, <1>3, <1>5
<1>6. \A k \in 0 .. n : k \in T
  <2>. HIDE DEF T
  <2>. QED  BY <1>4, <1>5, UptoInduction
<1>. QED  BY <1>2, <1>6

(* All sends, each in its turn,                                               *)
LEMMA DrainedTrace ==
  ASSUME NEW sq, NEW fd \in [Fids -> FidType], NEW rq \in Seq(ReadType),
         NEW ih \in SUBSET ReadType, wait \in [Fids -> BOOLEAN], reply \in [Fids -> Replies],
         SendsOK(sq, Shelf(fd, "port")), ReadsOK(rq, wait, ih, Shelf(fd, "port"))
  PROVE  \E w \in [0 .. Len(sq) -> GoodSet(sq, fd, ih)] :
            /\ w[0] = [sendq |-> sq, readq |-> rq, fids |-> fd, wait |-> wait, reply |-> reply]
            /\ \A k \in 1 .. Len(sq) : w[k] = ExchangeAll(w[k - 1], k)
            /\ Drained(fd, sq, rq) = [w[Len(sq)] EXCEPT !.sendq = Left(@)]
<1>. DEFINE n == Len(sq)
            Q == [sendq |-> sq, readq |-> rq, fids |-> fd, wait |-> wait, reply |-> reply]
            U == GoodSet(sq, fd, ih)
            r == FoldLeft(ExchangeAll, Q, Upto(n))
            st == [x \in U \X (1 .. n) |-> ExchangeAll(x[1], x[2])]
            Eq(g) == g = [t \in SUBSET (1 .. n) |->
                            IF t = {} THEN Q ELSE ExchangeAll(g[t \ {Max(t)}], Upto(n)[Max(t)])]
            it == CHOOSE g : Eq(g)
<1>1. n \in Nat /\ sq \in Seq(SendType) /\ DOMAIN Upto(n) = 1 .. n
  BY DEF SendsOK, Upto
<1>2. Q \in U
  <2>1. Q \in QType
    BY <1>1 DEF QType
  <2>2. Len(Q.sendq) = Len(sq)
    OBVIOUS
  <2>3. ASSUME NEW k \in 1 .. Len(sq)
        PROVE  /\ Len(Q.sendq[k].fid) = Len(sq[k].fid)
               /\ \A i \in 1 .. Len(sq[k].fid) : Q.sendq[k].fid[i] \in {sq[k].fid[i], Nil}
               /\ Q.sendq[k].nleft = Cardinality(Entries(Q.sendq[k]))
    BY DEF SendsOK, SendOK
  <2>4. ASSUME NEW f \in Fids PROVE Q.fids[f] = [fd[f] EXCEPT !.offset = Q.fids[f].offset]
    <3>1. fd[f] \in FidType
      OBVIOUS
    <3>2. \A x \in FidType : x = [x EXCEPT !.offset = x.offset]
      BY DEF FidType
    <3>. QED  BY <3>1, <3>2
  <2>. QED  BY <2>1, <2>2, <2>3, <2>4 DEF GoodSet, Good
<1>3. n \in Nat /\ Q \in U
  BY <1>1, <1>2
<1>4. \A i \in 1 .. n : Upto(n)[i] = i
  BY DEF Upto
<1>5. st \in [U \X (1 .. n) -> U] /\ \A u \in U, i \in 1 .. n : st[<<u, i>>] = ExchangeAll(u, i)
  <2>1. \A u \in U, i \in 1 .. n : ExchangeAll(u, i) \in U
    BY ExchangeAllGood
  <2>. HIDE DEF U, n
  <2>. QED  BY <2>1
<1>6. r = it[1 .. n]
  BY <1>1 DEF FoldLeft, MapThenFoldSet
<1>7. Drained(fd, sq, rq) = [r EXCEPT !.sendq = Left(@)]
  BY DEF Drained
<1>. HIDE DEF U, n, st, Q, r
<1>8. ASSUME NEW t \in SUBSET (1 .. n), t # {} PROVE Max(t) \in t /\ Top(t) = Max(t)
  <2>1. \E x \in t : \A y \in t : x >= y
    BY <1>3, <1>8, GreatestExists
  <2>. QED  BY <2>1 DEF Max, Top
<1>9. PICK f : IsFold(f, n, U, Q, st)
  BY ONLY <1>3, <1>5, FoldExists
<1>10. /\ f \in [SUBSET (1 .. n) -> U] /\ f[{}] = Q
      /\ \A t \in SUBSET (1 .. n) : t # {} => f[t] = st[<<f[t \ {Top(t)}], Top(t)>>]
  BY <1>9 DEF IsFold
<1>11. ASSUME NEW t \in SUBSET (1 .. n), t # {}
      PROVE  f[t] = ExchangeAll(f[t \ {Max(t)}], Upto(n)[Max(t)])
  <2>1. /\ Max(t) \in 1 .. n /\ f[t \ {Max(t)}] \in U
        /\ f[t] = st[<<f[t \ {Max(t)}], Max(t)>>]
    BY <1>8, <1>10, <1>11
  <2>. QED  BY <1>4, <1>5, <2>1
<1>12. Eq(it)
  <2>1. Eq(f)
    BY <1>10, <1>11
  <2>. HIDE DEF Eq
  <2>. QED  BY <2>1
<1>13. /\ it[{}] = Q
       /\ \A t \in SUBSET (1 .. n) : t # {} => it[t] = ExchangeAll(it[t \ {Max(t)}], Upto(n)[Max(t)])
  <2>. HIDE DEF it
  <2>. QED  BY <1>12
<1>. HIDE DEF it, Eq
<1>14. Steps(it, n, U, st)
  <2>1. SUFFICES ASSUME NEW t \in SUBSET (1 .. n), t # {}, it[t \ {Top(t)}] \in U
                 PROVE  it[t] = st[<<it[t \ {Top(t)}], Top(t)>>]
    BY DEF Steps
  <2>2. Top(t) = Max(t) /\ Max(t) \in 1 .. n
    BY <1>8, <2>1
  <2>3. it[t] = ExchangeAll(it[t \ {Max(t)}], Upto(n)[Max(t)])
    BY <1>13, <2>1
  <2>. QED  BY <1>4, <1>5, <2>1, <2>2, <2>3
<1>15. PICK w : IsChain(w, n, U, Q, st) /\ w[n] = it[1 .. n]
  <2>1. Folded(it, n, U, Q, st)
    BY <1>3, <1>5, <1>13, <1>14 DEF Folded
  <2>. QED  BY <2>1, FoldChain DEF Chained
<1>16. w \in [0 .. n -> U] /\ w[0] = Q /\ r = w[n]
  BY <1>6, <1>15 DEF IsChain
<1>17. ASSUME NEW k \in 1 .. n PROVE w[k] = ExchangeAll(w[k - 1], k)
  <2>1. w[k - 1] \in U
    BY <1>3, <1>16
  <2>. QED  BY <1>5, <1>15, <2>1 DEF IsChain
<1>. QED  BY <1>16, <1>17, <1>7 DEF n, U, Q

(* and what drainqueue then deletes is as above.                              *)
LEMMA DrainedGood ==
  ASSUME NEW sq, NEW fd \in [Fids -> FidType], NEW rq \in Seq(ReadType),
         NEW ih \in SUBSET ReadType, wait \in [Fids -> BOOLEAN], reply \in [Fids -> Replies],
         SendsOK(sq, Shelf(fd, "port")), ReadsOK(rq, wait, ih, Shelf(fd, "port"))
  PROVE  \E r \in GoodSet(sq, fd, ih) :
            /\ Drained(fd, sq, rq) = [r EXCEPT !.sendq = Left(r.sendq)]
            /\ ~Overtake =>
                 /\ Served(r, sq, Len(sq) + 1, 0)
                 /\ Follows(r, [sendq |-> sq, readq |-> rq, fids |-> fd, wait |-> wait, reply |-> reply])
<1>1. PICK n \in Nat : n = Len(sq) /\ sq \in Seq(SendType)
  BY DEF SendsOK
<1>. DEFINE Q == [sendq |-> sq, readq |-> rq, fids |-> fd, wait |-> wait, reply |-> reply]
<1>2. PICK w \in [0 .. n -> GoodSet(sq, fd, ih)] :
         /\ w[0] = Q /\ \A k \in 1 .. n : w[k] = ExchangeAll(w[k - 1], k)
         /\ Drained(fd, sq, rq) = [w[n] EXCEPT !.sendq = Left(@)]
  BY <1>1, DrainedTrace
<1>3. Served(Q, sq, 1, 0)
  <2>1. \A t \in 1 .. Len(sq) : ~(t < 1)
    BY <1>1
  <2>2. ASSUME NEW t \in 1 .. Len(sq), NEW l \in 1 .. Len(sq[t].fid) PROVE ~(l <= 0)
    <3>1. sq[t] \in SendType
      BY <1>1, ElementOfSeq
    <3>2. Len(sq[t].fid) \in Nat
      BY <3>1 DEF SendType
    <3>. QED  BY <3>2
  <2>. QED  BY <2>1, <2>2 DEF Served
<1>4. Follows(Q, Q) /\ Q.sendq = sq
  BY DEF Follows, Untouched
<1>. HIDE DEF Q
<1>5. ASSUME ~Overtake PROVE Served(w[n], sq, n + 1, 0) /\ Follows(w[n], Q)
  <2>. DEFINE T == {k \in 0 .. n : Served(w[k], sq, k + 1, 0) /\ Follows(w[k], Q)}
  <2>1. 0 \in T
    BY <1>2, <1>3, <1>4
  <2>2. ASSUME NEW k \in 1 .. n, k - 1 \in T PROVE k \in T
    <3>1. /\ k \in 0 .. n /\ w[k - 1] \in GoodSet(sq, fd, ih) /\ k \in 1 .. Len(sq)
          /\ Served(w[k - 1], sq, k, 0) /\ Follows(w[k - 1], Q)
      BY <1>1, <2>2
    <3>2. Served(ExchangeAll(w[k - 1], k), sq, k + 1, 0) /\ Follows(ExchangeAll(w[k - 1], k), Q)
      BY <1>4, <1>5, <3>1, ExchangeAllGood
    <3>. QED  BY <1>2, <3>1, <3>2
  <2>. HIDE DEF T
  <2>3. \A k \in 0 .. n : k \in T
    BY <2>1, <2>2, UptoInduction
  <2>. QED  BY <2>3 DEF T
<1>6. PICK r \in GoodSet(sq, fd, ih) : r = w[n]
  BY <1>2
<1>7. Drained(fd, sq, rq) = [r EXCEPT !.sendq = Left(r.sendq)]
  BY <1>2, <1>6
<1>8. ~Overtake => Served(r, sq, Len(sq) + 1, 0) /\ Follows(r, Q)
  BY <1>1, <1>5, <1>6
<1>. QED  BY <1>7, <1>8 DEF Q

-----------------------------------------------------------------------------
(* WHAT A FID IS TO READ *)

(* what a send x adds to what f is to read *)
MailOne(b, x, f) == IF Awaits(x, f) THEN Append(b, x.msg) ELSE b

(* The mail of f up to each of the sends,                                     *)
Mailed(w, sq, n, f) ==
    w[0] = <<>> /\ \A k \in 1 .. n : w[k] = MailOne(w[k - 1], sq[k], f)

(* It has such a trace, whose last is the mail.                               *)
LEMMA MailTrace ==
  ASSUME NEW sq \in Seq(SendType), NEW f
  PROVE  \E w \in [0 .. Len(sq) -> Seq(Message)] : Mailed(w, sq, Len(sq), f) /\ Mail(sq, f) = w[Len(sq)]
<1>. DEFINE n == Len(sq)
            U == Seq(Message)
            st == [x \in U \X (1 .. n) |-> MailOne(x[1], sq[x[2]], f)]
            Eq(g) == g = [t \in SUBSET (1 .. n) |->
                            IF t = {} THEN <<>> ELSE MailOne(g[t \ {Max(t)}], sq[Max(t)], f)]
            it == CHOOSE g : Eq(g)
<1>1. n \in Nat /\ DOMAIN sq = 1 .. n /\ <<>> \in U
  OBVIOUS
<1>2. ASSUME NEW u \in U, NEW i \in 1 .. n PROVE MailOne(u, sq[i], f) \in U
  <2>1. sq[i] \in SendType
    BY ElementOfSeq
  <2>2. sq[i].msg \in Message
    BY <2>1 DEF SendType
  <2>. QED  BY <2>2 DEF MailOne
<1>3. /\ st \in [U \X (1 .. n) -> U]
      /\ \A u \in U, i \in 1 .. n : st[<<u, i>>] = MailOne(u, sq[i], f)
  <2>. HIDE DEF U, n
  <2>. QED  BY <1>2
<1>4. Mail(sq, f) = it[1 .. n]
  BY <1>1 DEF Mail, FoldLeft, MapThenFoldSet, MailOne
<1>. HIDE DEF U, n, st
<1>5. ASSUME NEW t \in SUBSET (1 .. n), t # {} PROVE Max(t) \in t /\ Top(t) = Max(t)
  <2>1. \E x \in t : \A y \in t : x >= y
    BY <1>1, <1>5, GreatestExists
  <2>. QED  BY <2>1 DEF Max, Top
<1>6. PICK h : IsFold(h, n, U, <<>>, st)
  BY ONLY <1>1, <1>3, FoldExists
<1>7. /\ h \in [SUBSET (1 .. n) -> U] /\ h[{}] = <<>>
      /\ \A t \in SUBSET (1 .. n) : t # {} => h[t] = st[<<h[t \ {Top(t)}], Top(t)>>]
  BY <1>6 DEF IsFold
<1>8. ASSUME NEW t \in SUBSET (1 .. n), t # {}
      PROVE  h[t] = MailOne(h[t \ {Max(t)}], sq[Max(t)], f)
  <2>1. /\ Max(t) \in 1 .. n /\ h[t \ {Max(t)}] \in U
        /\ h[t] = st[<<h[t \ {Max(t)}], Max(t)>>]
    BY <1>5, <1>7, <1>8
  <2>. QED  BY <1>3, <2>1
<1>9. Eq(it)
  <2>1. Eq(h)
    BY <1>7, <1>8
  <2>. HIDE DEF Eq
  <2>. QED  BY <2>1
<1>10. /\ it[{}] = <<>>
       /\ \A t \in SUBSET (1 .. n) : t # {} => it[t] = MailOne(it[t \ {Max(t)}], sq[Max(t)], f)
  <2>. HIDE DEF it
  <2>. QED  BY <1>9
<1>. HIDE DEF it, Eq
<1>11. Steps(it, n, U, st)
  BY <1>3, <1>5, <1>10 DEF Steps
<1>12. PICK w : IsChain(w, n, U, <<>>, st) /\ w[n] = it[1 .. n]
  <2>1. Folded(it, n, U, <<>>, st)
    BY <1>1, <1>3, <1>10, <1>11 DEF Folded
  <2>. QED  BY <2>1, FoldChain DEF Chained
<1>13. w \in [0 .. n -> U] /\ w[0] = <<>> /\ Mail(sq, f) = w[n]
  BY <1>4, <1>12 DEF IsChain
<1>14. ASSUME NEW k \in 1 .. n PROVE w[k] = MailOne(w[k - 1], sq[k], f)
  <2>1. w[k - 1] \in U
    BY <1>1, <1>13
  <2>. QED  BY <1>3, <1>12, <2>1 DEF IsChain
<1>. QED  BY <1>13, <1>14 DEF n, U, Mailed

(* which is all there is to it.                                               *)
LEMMA MailIs ==
  ASSUME NEW sq \in Seq(SendType), NEW f, NEW w, Mailed(w, sq, Len(sq), f)
  PROVE  Mail(sq, f) = w[Len(sq)] /\ Mail(sq, f) \in Seq(Message)
<1>1. PICK n \in Nat : n = Len(sq)
  OBVIOUS
<1>2. PICK v \in [0 .. n -> Seq(Message)] : Mailed(v, sq, n, f) /\ Mail(sq, f) = v[n]
  BY <1>1, MailTrace
<1>. DEFINE T == {k \in 0 .. n : v[k] = w[k]}
<1>3. 0 \in T
  BY <1>2 DEF Mailed
<1>4. ASSUME NEW k \in 1 .. n, k - 1 \in T PROVE k \in T
  BY <1>1, <1>2, <1>4 DEF Mailed
<1>5. \A k \in 0 .. n : k \in T
  <2>. HIDE DEF T
  <2>. QED  BY <1>3, <1>4, UptoInduction
<1>. QED  BY <1>1, <1>2, <1>5

(* One more send,                                                             *)
LEMMA MailAppend ==
  ASSUME NEW sq \in Seq(SendType), NEW x \in SendType, NEW f
  PROVE  Mail(Append(sq, x), f) = MailOne(Mail(sq, f), x, f)
<1>1. PICK n \in Nat : n = Len(sq)
  OBVIOUS
<1>2. PICK tq : tq = Append(sq, x)
  OBVIOUS
<1>3. /\ tq \in Seq(SendType) /\ Len(tq) = n + 1
      /\ \A k \in 1 .. n : tq[k] = sq[k]
      /\ tq[n + 1] = x
  BY <1>1, <1>2, AppendList
<1>4. PICK w : Mailed(w, tq, n + 1, f) /\ Mail(tq, f) = w[n + 1]
  BY <1>3, MailTrace
<1>5. Mailed(w, sq, n, f)
  BY <1>3, <1>4 DEF Mailed
<1>6. Mail(sq, f) = w[n]
  BY <1>1, <1>5, MailIs
<1>7. w[n + 1] = MailOne(w[n], x, f)
  <2>1. n + 1 \in 1 .. n + 1 /\ (n + 1) - 1 = n
    OBVIOUS
  <2>. QED  BY <1>3, <1>4, <2>1 DEF Mailed
<1>. QED  BY <1>2, <1>4, <1>6, <1>7

(* none that awaits f,                                                        *)
LEMMA MailNone ==
  ASSUME NEW sq \in Seq(SendType), NEW f, \A k \in 1 .. Len(sq) : ~Awaits(sq[k], f)
  PROVE  Mail(sq, f) = <<>>
<1>1. PICK n \in Nat : n = Len(sq)
  OBVIOUS
<1>2. Mailed([k \in 0 .. n |-> <<>>], sq, n, f)
  BY <1>1 DEF Mailed, MailOne
<1>3. Mail(sq, f) = [k \in 0 .. n |-> <<>>][n]
  BY <1>1, <1>2, MailIs
<1>. QED  BY <1>3

(* the same for f in each,                                                    *)
LEMMA MailSame ==
  ASSUME NEW sq \in Seq(SendType), NEW tq \in Seq(SendType), NEW f, Len(sq) = Len(tq),
         \A k \in 1 .. Len(sq) : (Awaits(sq[k], f) <=> Awaits(tq[k], f)) /\ sq[k].msg = tq[k].msg
  PROVE  Mail(sq, f) = Mail(tq, f)
<1>1. PICK w : Mailed(w, sq, Len(sq), f) /\ Mail(sq, f) = w[Len(sq)]
  BY MailTrace
<1>2. Mailed(w, tq, Len(tq), f)
  BY <1>1 DEF Mailed, MailOne
<1>. QED  BY <1>1, <1>2, MailIs

(* or fewer, those that nobody awaits left out: what f is to read.            *)
LEMMA MailLeft ==
  ASSUME NEW sq \in Seq(SendType), NEW f,
         \A k \in 1 .. Len(sq) : sq[k].nleft = 0 => ~Awaits(sq[k], f)
  PROVE  Mail(Left(sq), f) = Mail(sq, f)
<1>1. PICK n \in Nat : n = Len(sq)
  OBVIOUS
<1>2. PICK w \in [0 .. n -> Seq(SendType)] :
         /\ w[0] = <<>> /\ Left(sq) = w[n]
         /\ \A k \in 1 .. n : w[k] = KeepOne(w[k - 1], sq[k])
  BY <1>1, LeftTrace
<1>3. PICK v : Mailed(v, sq, n, f) /\ Mail(sq, f) = v[n]
  BY <1>1, MailTrace
<1>. DEFINE T == {k \in 0 .. n : Mail(w[k], f) = v[k]}
<1>4. 0 \in T
  <2>1. <<>> \in Seq(SendType) /\ \A k \in 1 .. Len(<<>>) : ~Awaits(<<>>[k], f)
    OBVIOUS
  <2>2. Mail(<<>>, f) = <<>>
    BY <2>1, MailNone
  <2>. QED  BY <1>2, <1>3, <2>2 DEF Mailed
<1>5. ASSUME NEW k \in 1 .. n, k - 1 \in T PROVE k \in T
  <2>1. w[k - 1] \in Seq(SendType) /\ sq[k] \in SendType /\ Mail(w[k - 1], f) = v[k - 1]
    BY <1>1, <1>2, <1>5, ElementOfSeq
  <2>2. v[k] = MailOne(v[k - 1], sq[k], f) /\ w[k] = KeepOne(w[k - 1], sq[k])
    BY <1>2, <1>3 DEF Mailed
  <2>3. CASE sq[k].nleft = 0
    BY <1>1, <2>1, <2>2, <2>3 DEF MailOne, KeepOne
  <2>4. CASE sq[k].nleft # 0
    <3>1. w[k] = Append(w[k - 1], sq[k])
      BY <2>2, <2>4 DEF KeepOne
    <3>2. Mail(w[k], f) = MailOne(Mail(w[k - 1], f), sq[k], f)
      BY <2>1, <3>1, MailAppend
    <3>. QED  BY <2>1, <2>2, <3>2
  <2>. QED  BY <2>3, <2>4
<1>6. \A k \in 0 .. n : k \in T
  <2>. HIDE DEF T
  <2>. QED  BY <1>4, <1>5, UptoInduction
<1>. QED  BY <1>2, <1>3, <1>6

(* A list and its tail, with one more at the end.                             *)
OneLonger(q, x) == /\ Append(q, x) # <<>>
                   /\ Append(q, x)[1] = IF q = <<>> THEN x ELSE q[1]
                   /\ q = <<>> => Tail(Append(q, x)) = <<>>
                   /\ q # <<>> => Tail(Append(q, x)) = Append(Tail(q), x)

(* Appending makes it so.                                                     *)
LEMMA AppendTail == ASSUME NEW S, NEW q \in Seq(S), NEW x \in S PROVE OneLonger(q, x)
<1>1. /\ Append(q, x) \in Seq(S) /\ Len(Append(q, x)) = Len(q) + 1 /\ Len(q) \in Nat
      /\ \A i \in 1 .. Len(q) : Append(q, x)[i] = q[i]
      /\ Append(q, x)[Len(q) + 1] = x
  BY AppendList
<1>2. q = <<>> \/ Len(q) >= 1
  BY EmptySeq
<1>3. Append(q, x) # <<>>
  BY <1>1
<1>4. Append(q, x)[1] = IF q = <<>> THEN x ELSE q[1]
  BY <1>1, <1>2
<1>5. ASSUME q = <<>> PROVE Tail(Append(q, x)) = <<>>
  BY <1>5
<1>6. ASSUME q # <<>> PROVE Tail(Append(q, x)) = Append(Tail(q), x)
  <2>1. PICK a : a = Tail(Append(q, x))
    OBVIOUS
  <2>2. PICK b : b = Append(Tail(q), x)
    OBVIOUS
  <2>3. /\ a \in Seq(S) /\ Len(a) = Len(q) /\ \A i \in 1 .. Len(a) : a[i] = Append(q, x)[i + 1]
    <3>1. PICK r \in Seq(S) : r = Append(q, x)
      BY <1>1
    <3>. QED  BY <1>1, <1>3, <2>1, <3>1, TailList
  <2>4. /\ Tail(q) \in Seq(S) /\ Len(Tail(q)) = Len(q) - 1
        /\ \A i \in 1 .. Len(Tail(q)) : Tail(q)[i] = q[i + 1]
    BY <1>6, TailList
  <2>5. /\ b \in Seq(S) /\ Len(b) = Len(Tail(q)) + 1
        /\ \A i \in 1 .. Len(Tail(q)) : b[i] = Tail(q)[i]
        /\ b[Len(Tail(q)) + 1] = x
    BY <2>2, <2>4, AppendList
  <2>6. ASSUME NEW i \in 1 .. Len(q) PROVE a[i] = b[i]
    <3>1. CASE i < Len(q)
      <4>1. i \in 1 .. Len(Tail(q)) /\ i + 1 \in 1 .. Len(q) /\ i \in 1 .. Len(a)
        BY <1>1, <2>3, <2>4, <3>1
      <4>. QED  BY <1>1, <2>3, <2>4, <2>5, <4>1
    <3>2. CASE i = Len(q)
      BY <1>1, <2>3, <2>4, <2>5, <3>2
    <3>. QED  BY <1>1, <3>1, <3>2
  <2>7. a = b
    <3>1. Len(a) = Len(b)
      BY <1>1, <2>3, <2>4, <2>5
    <3>. QED  BY <2>3, <2>5, <2>6, <3>1, SeqEqual
  <2>. QED  BY <2>1, <2>2, <2>7
<1>. QED  BY <1>3, <1>4, <1>5, <1>6 DEF OneLonger

(* What f reads next comes from the first send that awaits it; one fewer, if  *)
(* that one awaits it no longer.                                              *)
LEMMA MailFirst ==
  ASSUME NEW sq \in Seq(SendType), NEW f, NEW s, First(sq, s, f)
  PROVE  /\ Mail(sq, f) # <<>> /\ Head(Mail(sq, f)) = sq[s].msg
         /\ \A tq \in Seq(SendType) :
              Len(tq) = Len(sq) /\ (\A k \in 1 .. Len(sq) :
                 /\ tq[k].msg = sq[k].msg
                 /\ Awaits(tq[k], f) <=> k # s /\ Awaits(sq[k], f))
                => Mail(tq, f) = Tail(Mail(sq, f))
<1>1. PICK n \in Nat : n = Len(sq)
  OBVIOUS
<1>2. /\ s \in 1 .. n /\ Awaits(sq[s], f) /\ \A t \in 1 .. n : t < s => ~Awaits(sq[t], f)
      /\ \A k \in 1 .. n : sq[k].msg \in Message
  <2>1. \A k \in 1 .. n : sq[k] \in SendType
    BY <1>1, ElementOfSeq
  <2>. QED  BY <1>1, <2>1 DEF First, SendType
<1>3. PICK w \in [0 .. n -> Seq(Message)] : Mailed(w, sq, n, f) /\ Mail(sq, f) = w[n]
  BY <1>1, MailTrace
<1>4. w[0] = <<>> /\ \A k \in 1 .. n : w[k] = MailOne(w[k - 1], sq[k], f)
  BY <1>3 DEF Mailed
<1>5. ASSUME NEW k \in 1 .. n
      PROVE  /\ k \in 0 .. n /\ k - 1 \in 0 .. n /\ w[k - 1] \in Seq(Message) /\ sq[k].msg \in Message
             /\ w[k] = IF Awaits(sq[k], f) THEN Append(w[k - 1], sq[k].msg) ELSE w[k - 1]
             /\ k < s => ~Awaits(sq[k], f)
  BY <1>2, <1>3, <1>4 DEF MailOne
<1>6. ASSUME NEW k \in 0 .. n
      PROVE  IF k < s THEN w[k] = <<>> ELSE w[k] # <<>> /\ w[k][1] = sq[s].msg
  <2>. DEFINE T == {l \in 0 .. n : IF l < s THEN w[l] = <<>> ELSE w[l] # <<>> /\ w[l][1] = sq[s].msg}
  <2>1. 0 \in T
    BY <1>2, <1>4
  <2>2. ASSUME NEW l \in 1 .. n, l - 1 \in T PROVE l \in T
    <3>1. PICK u \in Seq(Message), x \in Message :
             u = w[l - 1] /\ x = sq[l].msg /\ w[l] = IF Awaits(sq[l], f) THEN Append(u, x) ELSE u
      BY <1>5
    <3>2. IF l - 1 < s THEN u = <<>> ELSE u # <<>> /\ u[1] = sq[s].msg
      BY <2>2, <3>1
    <3>3. Append(u, x) # <<>> /\ Append(u, x)[1] = IF u = <<>> THEN x ELSE u[1]
      <4>1. u \in Seq(Message) /\ x \in Message
        BY <3>1
      <4>2. OneLonger(u, x)
        BY ONLY <4>1, AppendTail, Zenon
      <4>. QED  BY <4>2 DEF OneLonger
    <3>4. CASE l < s
      BY <1>2, <1>5, <3>1, <3>2, <3>4
    <3>5. CASE l = s
      BY <1>2, <3>1, <3>2, <3>3, <3>5
    <3>6. CASE l > s
      <4>1. ~(l - 1 < s) /\ ~(l < s) /\ l \in 0 .. n
        BY <1>2, <3>6
      <4>2. u # <<>> /\ u[1] = sq[s].msg
        BY <3>2, <4>1
      <4>3. w[l] # <<>> /\ w[l][1] = sq[s].msg
        BY <3>1, <3>3, <4>2
      <4>. QED  BY <4>1, <4>3
    <3>. QED  BY <1>2, <3>4, <3>5, <3>6
  <2>3. \A l \in 0 .. n : l \in T
    <3>. HIDE DEF T
    <3>. QED  BY <2>1, <2>2, UptoInduction
  <2>. QED  BY <2>3
<1>7. Mail(sq, f) \in Seq(Message) /\ Mail(sq, f) # <<>> /\ Mail(sq, f)[1] = sq[s].msg
  BY <1>2, <1>3, <1>6
<1>8. Head(Mail(sq, f)) = sq[s].msg
  BY <1>7
<1>9. ASSUME NEW tq \in Seq(SendType), Len(tq) = n,
             \A k \in 1 .. n : /\ tq[k].msg = sq[k].msg
                               /\ Awaits(tq[k], f) <=> k # s /\ Awaits(sq[k], f)
      PROVE  Mail(tq, f) = Tail(Mail(sq, f))
  <2>1. PICK v \in [0 .. n -> Seq(Message)] : Mailed(v, tq, n, f) /\ Mail(tq, f) = v[n]
    BY <1>9, MailTrace
  <2>2. v[0] = <<>> /\ \A k \in 1 .. n : v[k] = MailOne(v[k - 1], tq[k], f)
    BY <2>1 DEF Mailed
  <2>. DEFINE T == {k \in 0 .. n : v[k] = IF k < s THEN <<>> ELSE Tail(w[k])}
  <2>3. 0 \in T
    BY <1>2, <2>2
  <2>4. ASSUME NEW k \in 1 .. n, k - 1 \in T PROVE k \in T
    <3>1. PICK u \in Seq(Message), x \in Message :
             u = w[k - 1] /\ x = sq[k].msg /\ w[k] = IF Awaits(sq[k], f) THEN Append(u, x) ELSE u
      BY <1>5
    <3>2. PICK t : t = v[k - 1]
      OBVIOUS
    <3>3. v[k] = IF k # s /\ Awaits(sq[k], f) THEN Append(t, x) ELSE t
      BY <1>9, <2>2, <3>1, <3>2 DEF MailOne
    <3>4. t = IF k - 1 < s THEN <<>> ELSE Tail(u)
      BY <2>4, <3>1, <3>2
    <3>5. IF k - 1 < s THEN u = <<>> ELSE u # <<>>
      BY <1>5, <1>6, <3>1
    <3>6. /\ u = <<>> => Tail(Append(u, x)) = <<>>
          /\ u # <<>> => Tail(Append(u, x)) = Append(Tail(u), x)
      <4>1. u \in Seq(Message) /\ x \in Message
        BY <3>1
      <4>2. OneLonger(u, x)
        BY ONLY <4>1, AppendTail, Zenon
      <4>. QED  BY <4>2 DEF OneLonger
    <3>7. v[k] = IF k < s THEN <<>> ELSE Tail(w[k])
      <4>1. CASE k < s
        BY <1>2, <1>5, <3>3, <3>4, <4>1
      <4>2. CASE k = s
        <5>1. k - 1 < s /\ ~(k < s)
          BY <1>2, <4>2
        <5>2. u = <<>> /\ t = <<>>
          BY <3>4, <3>5, <5>1
        <5>3. v[k] = t /\ w[k] = Append(u, x)
          BY <1>2, <3>1, <3>3, <4>2
        <5>. QED  BY <3>6, <5>1, <5>2, <5>3
      <4>3. CASE k > s
        <5>1. ~(k - 1 < s) /\ ~(k < s) /\ k # s
          BY <1>2, <4>3
        <5>2. u # <<>> /\ t = Tail(u)
          BY <3>4, <3>5, <5>1
        <5>. QED  BY <3>1, <3>3, <3>6, <5>1, <5>2
      <4>. QED  BY <1>2, <4>1, <4>2, <4>3
    <3>. QED  BY <3>7
  <2>5. \A k \in 0 .. n : k \in T
    <3>. HIDE DEF T
    <3>. QED  BY <2>3, <2>4, UptoInduction
  <2>. QED  BY <1>2, <1>3, <2>1, <2>5
<1>. QED  BY <1>1, <1>7, <1>8, <1>9

(* There is mail just when a send awaits f, and then a first one.             *)
LEMMA MailThere ==
  ASSUME NEW sq \in Seq(SendType), NEW f
  PROVE  Mail(sq, f) # <<>> <=> \E s : First(sq, s, f)
<1>1. ASSUME Mail(sq, f) # <<>> PROVE \E s : First(sq, s, f)
  <2>1. PICK S : S = {k \in 1 .. Len(sq) : Awaits(sq[k], f)}
    OBVIOUS
  <2>2. S # {} /\ S \subseteq 1 .. Len(sq) /\ Len(sq) \in Nat
    BY <1>1, <2>1, MailNone
  <2>3. PICK s \in S : \A t \in S : s <= t
    BY <2>2, LeastExists
  <2>4. First(sq, s, f)
    BY <2>1, <2>2, <2>3 DEF First
  <2>. QED  BY <2>4
<1>. QED  BY <1>1, MailFirst

(* Messages that wait for the first who opens the port are its mail.          *)
LEMMA MailHeld ==
  ASSUME NEW hq \in Seq(Message), NEW sq \in Seq(SendType), NEW f, Len(sq) = Len(hq),
         \A k \in 1 .. Len(hq) : sq[k].msg = hq[k] /\ Awaits(sq[k], f)
  PROVE  Mail(sq, f) = hq
<1>1. PICK n \in Nat : n = Len(sq)
  OBVIOUS
<1>2. PICK w \in [0 .. n -> Seq(Message)] : Mailed(w, sq, n, f) /\ Mail(sq, f) = w[n]
  BY <1>1, MailTrace
<1>. DEFINE T == {k \in 0 .. n : Len(w[k]) = k /\ \A i \in 1 .. k : w[k][i] = hq[i]}
<1>3. 0 \in T
  BY <1>2 DEF Mailed
<1>4. ASSUME NEW k \in 1 .. n, k - 1 \in T PROVE k \in T
  <2>1. /\ w[k] = Append(w[k - 1], hq[k]) /\ w[k - 1] \in Seq(Message) /\ Len(w[k - 1]) = k - 1
        /\ \A i \in 1 .. k - 1 : w[k - 1][i] = hq[i]
    BY <1>1, <1>2, <1>4 DEF Mailed, MailOne
  <2>2. hq[k] \in Message
    BY <1>1
  <2>3. /\ Len(w[k]) = (k - 1) + 1
        /\ \A i \in 1 .. k - 1 : w[k][i] = w[k - 1][i]
        /\ w[k][(k - 1) + 1] = hq[k]
    BY <2>1, <2>2, AppendList
  <2>4. Len(w[k]) = k /\ \A i \in 1 .. k : w[k][i] = hq[i]
    BY <2>1, <2>3
  <2>. QED  BY <2>4
<1>5. \A k \in 0 .. n : k \in T
  <2>. HIDE DEF T
  <2>. QED  BY <1>3, <1>4, UptoInduction
<1>6. w[n] \in Seq(Message) /\ Len(w[n]) = Len(hq) /\ \A i \in 1 .. Len(hq) : w[n][i] = hq[i]
  BY <1>1, <1>2, <1>5
<1>7. w[n] = hq
  BY <1>6, SeqEqual
<1>. QED  BY <1>2, <1>7

-----------------------------------------------------------------------------
(* THE INDUCTIVE INVARIANT *)

(* A client on its way through Topen has chosen its file and has it not open. *)
FidsAgree ==
    \A f \in Fids : /\ fids[f].open => fids[f].busy
                    /\ fids[f].busy => fids[f].dir \in Files
                    /\ opening[f] # Nil => /\ fids[f].busy /\ ~fids[f].open
                                           /\ opening[f] \in Perm[fids[f].dir]

(* What a fid has of a message in portions, and what its client has still to  *)
(* write of it, make the message; or the units that came last were dropped.   *)
Portioned(x, rest) ==
    \/ rest = <<>> /\ x.offset = 0
    \/ \E id \in 1 .. MaxMsgs, j \in 1 .. Size - 1 :
          /\ rest = SubSeq(Units(id), j + 1, Size)
          /\ x.offset # 0 => x.offset = j /\ x.writebuf = SubSeq(Units(id), 1, j)
PortionsAgree ==
    \A f \in Fids : /\ ~fids[f].open => fids[f].offset = 0 /\ half[f] = <<>>
                    /\ fids[f].open /\ fids[f].dir = "send" => Portioned(fids[f], half[f])

(* The list of a file is of the fids that have it open.                       *)
ListsAgree ==
    \A d \in Files : /\ fopen[d] \in Seq(Fids)
                     /\ nopen[d] = Len(fopen[d])
                     /\ \A i, j \in 1 .. Len(fopen[d]) : fopen[d][i] = fopen[d][j] => i = j
                     /\ \A f \in Fids : f \in OpenOn(d) <=>
                                           \E i \in 1 .. Len(fopen[d]) : fopen[d][i] = f

(* No read waits while there is something for its fid.                        *)
Quiet(sq, rq) == \A k \in 1 .. Len(rq) : \A s \in 1 .. Len(sq) :
                    \A i \in 1 .. Len(sq[s].fid) : sq[s].fid[i] # rq[k].fid

Typed ==
    /\ fids \in [Fids -> FidType]
    /\ nopen \in [Files -> Nat] /\ DOMAIN fopen = Files
    /\ holdq \in Seq(Message) /\ readq \in Seq(ReadType) /\ sendq \in Seq(SendType)
    /\ rulesref \in Int
    /\ opening \in [Fids -> {"OREAD", "OWRITE", Nil}]
    /\ inhand \in SUBSET ReadType
    /\ wait \in [Fids -> BOOLEAN] /\ reply \in [Fids -> Replies]
    /\ nmsg \in 0 .. MaxMsgs /\ DOMAIN half = Fids

IInv ==
    /\ Typed /\ FidsAgree /\ PortionsAgree /\ ListsAgree
    /\ SendsOK(sendq, OpenOn("port")) /\ \A k \in 1 .. Len(sendq) : sendq[k].nleft # 0
    /\ ReadsOK(readq, wait, inhand, OpenOn("port"))
    /\ holdq # <<>> => fopen["port"] = <<>>
    /\ ~Overtake => Quiet(sendq, readq)
    /\ RulesHeld

-----------------------------------------------------------------------------
(* WHAT THE HANDLERS DO *)

(* After drainqueue.                                                          *)
LEMMA DrainDoes ==
  ASSUME NEW sq, NEW fd \in [Fids -> FidType], NEW rq \in Seq(ReadType),
         NEW ih \in SUBSET ReadType, wait \in [Fids -> BOOLEAN], reply \in [Fids -> Replies],
         SendsOK(sq, Shelf(fd, "port")), ReadsOK(rq, wait, ih, Shelf(fd, "port")),
         Drain(fd, sq, rq)
  PROVE  /\ readq' \in Seq(ReadType) /\ fids' \in [Fids -> FidType]
         /\ wait' \in [Fids -> BOOLEAN] /\ reply' \in [Fids -> Replies]
         /\ SendsOK(sendq', Shelf(fd, "port"))
         /\ \A k \in 1 .. Len(sendq') : sendq'[k].nleft # 0
         /\ ReadsOK(readq', wait', ih, Shelf(fd, "port"))
         /\ ~Overtake => Quiet(sendq', readq')
         /\ \A f \in Fids : /\ fids'[f] = [fd[f] EXCEPT !.offset = fids'[f].offset]
                            /\ f \notin Shelf(fd, "port") => fids'[f].offset = fd[f].offset
<1>. DEFINE P == Shelf(fd, "port")
<1>1. PICK r \in GoodSet(sq, fd, ih) :
         /\ Drained(fd, sq, rq) = [r EXCEPT !.sendq = Left(r.sendq)]
         /\ ~Overtake => Served(r, sq, Len(sq) + 1, 0)
  BY DrainedGood
<1>2. r \in QType /\ Good(r, sq, fd, ih)
  BY DEF GoodSet
<1>3. /\ sendq' = Left(r.sendq) /\ readq' = r.readq
      /\ fids' = r.fids /\ wait' = r.wait /\ reply' = r.reply
  BY <1>1, <1>2 DEF Drain, QType
<1>4. /\ sendq' \in Seq(SendType)
      /\ \A k \in 1 .. Len(sendq') : /\ sendq'[k].nleft # 0
                                     /\ \E j \in 1 .. Len(r.sendq) : sendq'[k] = r.sendq[j]
  <2>1. r.sendq \in Seq(SendType)
    BY <1>2 DEF QType
  <2>. QED  BY <2>1, <1>3, LeftIs DEF Kept
<1>5. ASSUME NEW j \in 1 .. Len(r.sendq) PROVE SendOK(r.sendq[j], P)
  <2>1. /\ j \in 1 .. Len(sq) /\ Len(r.sendq[j].fid) = Len(sq[j].fid)
        /\ \A i \in 1 .. Len(sq[j].fid) : r.sendq[j].fid[i] \in {sq[j].fid[i], Nil}
        /\ r.sendq[j].nleft = Cardinality(Entries(r.sendq[j]))
    BY <1>2 DEF Good
  <2>2. SendOK(sq[j], P)
    BY <2>1 DEF SendsOK
  <2>3. \A i \in Entries(r.sendq[j]) : i \in Entries(sq[j]) /\ r.sendq[j].fid[i] = sq[j].fid[i]
    BY <2>1 DEF Entries
  <2>. QED  BY <2>1, <2>2, <2>3 DEF SendOK
<1>6. SendsOK(sendq', P)
  BY <1>4, <1>5 DEF SendsOK
<1>7. ASSUME ~Overtake PROVE Quiet(sendq', readq')
  <2>1. SUFFICES ASSUME NEW k \in 1 .. Len(readq'), NEW s \in 1 .. Len(sendq'),
                        NEW i \in 1 .. Len(sendq'[s].fid)
                 PROVE  sendq'[s].fid[i] # readq'[k].fid
    BY DEF Quiet
  <2>2. PICK j \in 1 .. Len(r.sendq) : sendq'[s] = r.sendq[j]
    BY <1>4
  <2>3. j \in 1 .. Len(sq) /\ i \in 1 .. Len(sq[j].fid) /\ Len(sq) \in Nat
    BY <1>2, <2>2, <2>1 DEF Good, SendsOK
  <2>4. j < Len(sq) + 1
    BY <2>3
  <2>5. Served(r, sq, Len(sq) + 1, 0)
    BY <1>1, <1>7
  <2>6. \A l \in 1 .. Len(r.readq) : r.readq[l].fid # r.sendq[j].fid[i]
    BY <2>3, <2>4, <2>5 DEF Served
  <2>. QED  BY <1>3, <2>1, <2>2, <2>6
<1>8. /\ readq' \in Seq(ReadType) /\ fids' \in [Fids -> FidType]
      /\ wait' \in [Fids -> BOOLEAN] /\ reply' \in [Fids -> Replies]
  BY <1>2, <1>3 DEF QType
<1>. QED  BY <1>2, <1>3, <1>4, <1>6, <1>7, <1>8 DEF Good

(* A step that opens and closes no file.                                      *)
LEMMA SameFiles ==
  ASSUME \A f \in Fids : /\ fids'[f].busy = fids[f].busy /\ fids'[f].open = fids[f].open
                         /\ fids'[f].mode = fids[f].mode /\ fids'[f].dir = fids[f].dir,
         UNCHANGED <<nopen, fopen, rulesref, opening>>,
         FidsAgree, ListsAgree, RulesHeld
  PROVE  /\ FidsAgree' /\ ListsAgree' /\ RulesHeld'
         /\ \A d : OpenOn(d)' = OpenOn(d)
<1>1. \A d : OpenOn(d)' = OpenOn(d)
  BY DEF OpenOn
<1>2. FidsAgree'
  BY DEF FidsAgree
<1>3. ListsAgree'
  BY <1>1 DEF ListsAgree
<1>4. RulesHeld'
  <2>1. Writers' = Writers
    BY DEF Writers, OpenOn
  <2>2. Past' = Past
    BY DEF Past
  <2>. QED  BY <2>1, <2>2 DEF RulesHeld
<1>. QED  BY <1>1, <1>2, <1>3, <1>4

(* A read comes in: a proc has it in hand.                                    *)
LEMMA ReadComes ==
  ASSUME NEW rq \in Seq(ReadType), NEW w \in [Fids -> BOOLEAN], NEW ih \in SUBSET ReadType,
         NEW P, ReadsOK(rq, w, ih, P), NEW r \in ReadType, r.tag = r.fid, r.fid \in P, ~w[r.fid]
  PROVE  ReadsOK(rq, [w EXCEPT ![r.fid] = TRUE], ih \cup {r}, P)
<1>. DEFINE f == r.fid
            v == [w EXCEPT ![f] = TRUE]
<1>1. f \in Fids /\ f # Nil /\ v \in [Fids -> BOOLEAN] /\ \A g \in Fids : v[g] <=> w[g] \/ g = f
  BY PlumbAssumption DEF ReadType
<1>2. \A k \in 1 .. Len(rq) : rq[k] \in ReadType
  BY ElementOfSeq
<1>3. \A k \in 1 .. Len(rq) : rq[k].tag # f
  BY <1>1 DEF ReadsOK
<1>4. \A t \in ih : t.tag # f
  BY <1>1 DEF ReadsOK
<1>. HIDE DEF v
<1>5. \A k \in 1 .. Len(rq) : rq[k].tag # Nil => /\ rq[k].tag = rq[k].fid
                                                /\ rq[k].fid \in P /\ v[rq[k].fid]
  BY <1>1, <1>2 DEF ReadsOK, ReadType
<1>6. \A t \in ih \cup {r} : t.tag # Nil => /\ t.tag = t.fid /\ t.fid \in P /\ v[t.fid]
                                            /\ \A k \in 1 .. Len(rq) : rq[k].tag # t.tag
  BY <1>1, <1>3 DEF ReadsOK, ReadType
<1>7. \A t, u \in ih \cup {r} : t.tag = u.tag /\ t.tag # Nil => t = u
  BY <1>4 DEF ReadsOK
<1>8. \A g \in Fids : v[g] => \/ \E t \in ih \cup {r} : t.tag = g
                              \/ \E k \in 1 .. Len(rq) : rq[k].tag = g
  <2>1. SUFFICES ASSUME NEW g \in Fids, v[g]
                 PROVE  \/ \E t \in ih \cup {r} : t.tag = g
                        \/ \E k \in 1 .. Len(rq) : rq[k].tag = g
    OBVIOUS
  <2>2. CASE g = f
    BY <2>2
  <2>3. CASE g # f
    BY <2>1, <2>3, <1>1 DEF ReadsOK
  <2>. QED  BY <2>2, <2>3
<1>. QED  BY <1>1, <1>5, <1>6, <1>7, <1>8 DEF ReadsOK, v

(* The proc queues it,                                                        *)
LEMMA ReadQueued ==
  ASSUME NEW rq \in Seq(ReadType), NEW w \in [Fids -> BOOLEAN], NEW ih \in SUBSET ReadType,
         NEW P, ReadsOK(rq, w, ih, P), NEW r \in ih
  PROVE  /\ <<r>> \o rq \in Seq(ReadType)
         /\ ReadsOK(<<r>> \o rq, w, ih \ {r}, P)
<1>. DEFINE q == <<r>> \o rq
<1>1. /\ q \in Seq(ReadType) /\ Len(rq) \in Nat /\ Len(q) = Len(rq) + 1 /\ q[1] = r
      /\ \A k \in 1 .. Len(rq) : q[k + 1] = rq[k]
  BY ConsList
<1>. HIDE DEF q
<1>2. \A k \in 1 .. Len(q) : k = 1 \/ (k - 1 \in 1 .. Len(rq) /\ q[k] = rq[k - 1])
  <2>1. SUFFICES ASSUME NEW k \in 1 .. Len(q), k # 1
                 PROVE  k - 1 \in 1 .. Len(rq) /\ q[k] = rq[k - 1]
    OBVIOUS
  <2>2. k - 1 \in 1 .. Len(rq) /\ (k - 1) + 1 = k
    BY <2>1, <1>1
  <2>. QED  BY <2>2, <1>1
<1>3. \A k \in 1 .. Len(q) : q[k] = r \/ \E j \in 1 .. Len(rq) : q[k] = rq[j]
  BY <1>1, <1>2
<1>4. ASSUME NEW k \in 1 .. Len(q), q[k].tag # Nil
      PROVE  q[k].tag = q[k].fid /\ q[k].fid \in P /\ w[q[k].fid]
  <2>1. CASE q[k] = r
    BY <2>1, <1>4 DEF ReadsOK
  <2>2. CASE \E j \in 1 .. Len(rq) : q[k] = rq[j]
    BY <2>2, <1>4 DEF ReadsOK
  <2>. QED  BY <2>1, <2>2, <1>3
<1>5. \A j, k \in 1 .. Len(q) : q[j].tag = q[k].tag /\ q[j].tag # Nil => j = k
  <2>1. SUFFICES ASSUME NEW j \in 1 .. Len(q), NEW k \in 1 .. Len(q),
                        q[j].tag = q[k].tag, q[j].tag # Nil
                 PROVE  j = k
    OBVIOUS
  <2>2. \A i \in 1 .. Len(rq) : rq[i].tag # r.tag \/ r.tag = Nil
    BY DEF ReadsOK
  <2>3. \A i \in 1 .. Len(q) : i # 1 => q[i].tag # r.tag \/ r.tag = Nil
    BY <1>2, <2>2
  <2>4. CASE j = 1 \/ k = 1
    BY <2>1, <2>4, <2>3, <1>1
  <2>5. CASE j # 1 /\ k # 1
    <3>1. j - 1 = k - 1
      BY <2>1, <2>5, <1>2, SMTT(20) DEF ReadsOK
    <3>. QED  BY <3>1, <1>1
  <2>. QED  BY <2>4, <2>5
<1>6. \A t \in ih \ {r} : t.tag # Nil => /\ t.tag = t.fid /\ t.fid \in P /\ w[t.fid]
                                         /\ \A k \in 1 .. Len(q) : q[k].tag # t.tag
  <2>1. SUFFICES ASSUME NEW t \in ih \ {r}, t.tag # Nil
                 PROVE  /\ t.tag = t.fid /\ t.fid \in P /\ w[t.fid]
                        /\ \A k \in 1 .. Len(q) : q[k].tag # t.tag
    OBVIOUS
  <2>2. /\ t.tag = t.fid /\ t.fid \in P /\ w[t.fid] /\ r.tag # t.tag
        /\ \A k \in 1 .. Len(rq) : rq[k].tag # t.tag
    BY <2>1 DEF ReadsOK
  <2>3. \A k \in 1 .. Len(q) : q[k].tag # t.tag
    BY <2>2, <1>3
  <2>. QED  BY <2>2, <2>3
<1>7. \A t, u \in ih \ {r} : t.tag = u.tag /\ t.tag # Nil => t = u
  BY DEF ReadsOK
<1>8. \A g \in Fids : w[g] => \/ \E t \in ih \ {r} : t.tag = g
                              \/ \E k \in 1 .. Len(q) : q[k].tag = g
  <2>1. SUFFICES ASSUME NEW g \in Fids, w[g], \A t \in ih \ {r} : t.tag # g
                 PROVE  \E k \in 1 .. Len(q) : q[k].tag = g
    OBVIOUS
  <2>2. CASE r.tag = g
    <3>1. 1 \in 1 .. Len(q)
      BY <1>1
    <3>. QED  BY <3>1, <2>2, <1>1
  <2>3. CASE r.tag # g
    <3>1. PICK k \in 1 .. Len(rq) : rq[k].tag = g
      BY <2>1, <2>3 DEF ReadsOK
    <3>2. k + 1 \in 1 .. Len(q)
      BY <1>1
    <3>. QED  BY <3>1, <3>2, <1>1
  <2>. QED  BY <2>2, <2>3
<1>9. ~Overtake => /\ \A k \in 1 .. Len(q) : q[k].tag # Nil
                   /\ \A t \in ih \ {r} : t.tag # Nil
  <2>1. ~Overtake => r.tag # Nil /\ \A j \in 1 .. Len(rq) : rq[j].tag # Nil
    BY DEF ReadsOK
  <2>2. ~Overtake => \A k \in 1 .. Len(q) : q[k].tag # Nil
    BY <2>1, <1>3
  <2>. QED  BY <2>2 DEF ReadsOK
<1>. QED  BY <1>1, <1>4, <1>5, <1>6, <1>7, <1>8, <1>9 DEF ReadsOK, q

(* or drops it, flushed, when its fid has come to name another file.          *)
LEMMA ReadDropped ==
  ASSUME NEW rq, NEW w, NEW ih, NEW P, ReadsOK(rq, w, ih, P), NEW r \in ih, r.fid \notin P
  PROVE  ReadsOK(rq, w, ih \ {r}, P)
<1>1. r.tag = Nil
  BY DEF ReadsOK
<1>2. \A g \in Fids : w[g] => \/ \E t \in ih \ {r} : t.tag = g
                              \/ \E k \in 1 .. Len(rq) : rq[k].tag = g
  <2>1. \A g \in Fids : g # Nil
    BY PlumbAssumption
  <2>. QED  BY <1>1, <2>1 DEF ReadsOK
<1>. QED  BY <1>2 DEF ReadsOK

(* A flush that comes before the read is in the queue: it has no tag then.    *)
LEMMA ReadLate ==
  ASSUME NEW rq, NEW w \in [Fids -> BOOLEAN], NEW ih \in SUBSET ReadType, NEW P,
         ReadsOK(rq, w, ih, P), NEW f \in Fids, Overtake,
         NEW late, late = {r \in ih : r.tag = f}, late # {}
  PROVE  /\ {[r EXCEPT !.tag = Nil] : r \in late} \subseteq ReadType
         /\ ReadsOK(rq, [w EXCEPT ![f] = FALSE],
                    (ih \ late) \cup {[r EXCEPT !.tag = Nil] : r \in late}, P)
<1>. DEFINE new == {[r EXCEPT !.tag = Nil] : r \in late}
            v == [w EXCEPT ![f] = FALSE]
<1>1. \A r \in ReadType : [r EXCEPT !.tag = Nil] \in ReadType /\ [r EXCEPT !.tag = Nil].tag = Nil
  BY DEF ReadType
<1>2. new \subseteq ReadType /\ \A r \in new : r.tag = Nil
  BY <1>1
<1>3. f # Nil /\ \A g \in Fids : v[g] <=> w[g] /\ g # f
  BY PlumbAssumption
<1>4. \A k \in 1 .. Len(rq) : rq[k].tag # f
  BY <1>3 DEF ReadsOK
<1>5. \A r \in ih : r.fid \in Fids
  BY DEF ReadType
<1>. HIDE DEF new, v
<1>6. ASSUME NEW k \in 1 .. Len(rq), rq[k].tag # Nil
      PROVE  rq[k].tag = rq[k].fid /\ rq[k].fid \in P /\ v[rq[k].fid]
  <2>1. rq[k].tag = rq[k].fid /\ rq[k].fid \in P /\ w[rq[k].fid]
    BY <1>6 DEF ReadsOK
  <2>2. rq[k].fid # f
    BY <2>1, <1>4
  <2>3. \A g : w[g] /\ g # f => v[g]
    BY DEF v
  <2>. QED  BY <2>1, <2>2, <2>3
<1>7. ASSUME NEW r \in (ih \ late) \cup new, r.tag # Nil
      PROVE  /\ r.tag = r.fid /\ r.fid \in P /\ v[r.fid]
             /\ \A k \in 1 .. Len(rq) : rq[k].tag # r.tag
  <2>1. r \in ih /\ r.tag # f
    BY <1>2, <1>7
  <2>. QED  BY <2>1, <1>3, <1>5, <1>7 DEF ReadsOK
<1>8. \A r, t \in (ih \ late) \cup new : r.tag = t.tag /\ r.tag # Nil => r = t
  BY <1>2 DEF ReadsOK
<1>9. \A g \in Fids : v[g] => \/ \E r \in (ih \ late) \cup new : r.tag = g
                              \/ \E k \in 1 .. Len(rq) : rq[k].tag = g
  BY <1>3 DEF ReadsOK
<1>10. ReadsOK(rq, v, (ih \ late) \cup new, P)
  BY <1>6, <1>7, <1>8, <1>9 DEF ReadsOK
<1>. QED  BY <1>2, <1>10 DEF new, v

(* More fids have the port open, or fewer, not those that are waited for.     *)
LEMMA ReadsElsewhere ==
  ASSUME NEW rq, NEW w, NEW ih, NEW P, NEW S, ReadsOK(rq, w, ih, P),
         \A f \in P : w[f] => f \in S
  PROVE  ReadsOK(rq, w, ih, S)
BY DEF ReadsOK

(* Fewer reads, and no entry of a send that was not there: no read waits.     *)
LEMMA QuietLess ==
  ASSUME NEW sq, NEW rq, NEW tq, NEW vq, Quiet(sq, rq),
         \A k \in 1 .. Len(vq) : \E j \in 1 .. Len(rq) : vq[k] = rq[j] /\ rq[j].fid # Nil,
         \A s \in 1 .. Len(tq) : \A i \in 1 .. Len(tq[s].fid) :
            tq[s].fid[i] # Nil => \E t \in 1 .. Len(sq) : \E l \in 1 .. Len(sq[t].fid) :
                                     tq[s].fid[i] = sq[t].fid[l]
  PROVE  Quiet(tq, vq)
<1>. SUFFICES ASSUME NEW k \in 1 .. Len(vq), NEW s \in 1 .. Len(tq),
                     NEW i \in 1 .. Len(tq[s].fid), tq[s].fid[i] = vq[k].fid
              PROVE  FALSE
  BY DEF Quiet
<1>1. PICK j \in 1 .. Len(rq) : vq[k] = rq[j] /\ rq[j].fid # Nil
  OBVIOUS
<1>2. PICK t \in 1 .. Len(sq) : \E l \in 1 .. Len(sq[t].fid) : tq[s].fid[i] = sq[t].fid[l]
  BY <1>1
<1>. QED  BY <1>1, <1>2 DEF Quiet

(* INIT AND THE ACTIONS *)

(* It holds when the plumber starts.                                          *)
LEMMA InitHolds == Init => IInv
<1>. SUFFICES ASSUME Init PROVE IInv
  OBVIOUS
<1>. USE PlumbAssumption DEF Init
<1>1. \A f \in Fids : fids[f] = NewFid /\ NewFid \in FidType
  <2>1. <<>> \in Parts
    BY DEF Parts
  <2>. QED  BY <2>1 DEF NewFid, FidType
<1>2. Typed
  BY <1>1 DEF Typed, Replies
<1>3. FidsAgree
  BY <1>1 DEF FidsAgree, NewFid
<1>4. PortionsAgree
  BY <1>1 DEF PortionsAgree, NewFid
<1>5. \A d : OpenOn(d) = {}
  BY <1>1 DEF OpenOn, NewFid
<1>6. ListsAgree
  BY <1>5 DEF ListsAgree
<1>7. SendsOK(sendq, OpenOn("port")) /\ \A k \in 1 .. Len(sendq) : sendq[k].nleft # 0
  BY DEF SendsOK
<1>8. ReadsOK(readq, wait, inhand, OpenOn("port"))
  BY DEF ReadsOK
<1>9. Quiet(sendq, readq)
  BY DEF Quiet
<1>10. RulesHeld
  <2>1. Writers = {}
    BY <1>5 DEF Writers
  <2>2. Past = {}
    BY DEF Past
  <2>3. Cardinality({}) = 0
    BY FS_EmptySet
  <2>. QED  BY <2>1, <2>2, <2>3 DEF RulesHeld
<1>. QED  BY <1>2, <1>3, <1>4, <1>6, <1>7, <1>8, <1>9, <1>10 DEF IInv

(* Twalk: the fid is neither open nor on its way to be.                       *)
LEMMA WalkKeeps ==
  ASSUME IInv, NEW f \in Fids, NEW d \in Files, Walk(f, d) PROVE IInv'
<1>1. /\ fids[f] \in FidType /\ ~fids[f].busy /\ ~fids[f].open /\ opening[f] = Nil
      /\ d \in Files \cup {Nil}
  BY DEF IInv, Typed, FidsAgree, Walk, Free
<1>2. PICK y \in FidType : y = fids[f]
  BY <1>1
<1>. DEFINE x == [y EXCEPT !.busy = TRUE, !.open = FALSE, !.dir = d]
<1>3. fids' = [fids EXCEPT ![f] = x]
  BY <1>2 DEF IInv, Typed, Walk
<1>4. /\ x \in FidType /\ x.busy /\ ~x.open /\ x.dir = d
      /\ x.offset = y.offset /\ x.writebuf = y.writebuf
  BY <1>1 DEF FidType
<1>. HIDE DEF x
<1>5. /\ fids' \in [Fids -> FidType] /\ fids'[f] = x
      /\ \A g \in Fids : g # f => fids'[g] = fids[g]
  BY <1>3, <1>4 DEF IInv, Typed
<1>6. UNCHANGED <<queues, rulesref, opening, inhand, client>>
  BY DEF Walk
<1>7. \A e : OpenOn(e)' = OpenOn(e)
  <2>1. \A g \in Fids : \A e : g \in OpenOn(e)' <=> g \in OpenOn(e)
    BY <1>1, <1>4, <1>5 DEF OpenOn
  <2>. QED  BY <2>1 DEF OpenOn
<1>8. Writers' = Writers
  <2>1. \A g \in OpenOn("rules") : fids'[g].mode = fids[g].mode
    BY <1>1, <1>5 DEF OpenOn
  <2>. QED  BY <2>1, <1>7 DEF Writers
<1>9. Past' = Past
  <2>1. \A g \in Fids : opening[g] = "OWRITE" => fids'[g] = fids[g]
    BY <1>1, <1>5, PlumbAssumption
  <2>. QED  BY <2>1, <1>6 DEF Past
<1>10. RulesHeld'
  BY <1>6, <1>8, <1>9 DEF IInv, RulesHeld
<1>11. Typed'
  BY <1>5, <1>6 DEF IInv, Typed, queues, client
<1>12. FidsAgree'
  BY <1>1, <1>4, <1>5, <1>6 DEF IInv, FidsAgree
<1>13. PortionsAgree'
  BY <1>2, <1>1, <1>4, <1>5, <1>6 DEF IInv, PortionsAgree, Portioned, client
<1>14. ListsAgree'
  BY <1>6, <1>7 DEF IInv, ListsAgree, queues
<1>. QED
  BY <1>6, <1>7, <1>10, <1>11, <1>12, <1>13, <1>14 DEF IInv, queues, client

(* Topen up to the lock: the rules' count grows with those who are past it.   *)
LEMMA OpenCheckKeeps ==
  ASSUME IInv, NEW f \in Fids, NEW m \in {"OREAD", "OWRITE"}, OpenCheck(f, m) PROVE IInv'
<1>1. /\ opening[f] = Nil /\ fids[f].busy /\ ~fids[f].open /\ m \in Perm[fids[f].dir]
      /\ opening' = [opening EXCEPT ![f] = m]
      /\ UNCHANGED <<fids, queues, inhand, client>>
  BY DEF OpenCheck, Free
<1>2. /\ opening' \in [Fids -> {"OREAD", "OWRITE", Nil}] /\ opening'[f] = m
      /\ \A g \in Fids : g # f => opening'[g] = opening[g]
  BY <1>1 DEF IInv, Typed
<1>3. /\ \A d : OpenOn(d)' = OpenOn(d)
      /\ Writers' = Writers
  BY <1>1 DEF OpenOn, Writers
<1>4. rulesref' \in Int /\ RulesHeld'
  <2>1. CASE fids[f].dir = "rules" /\ m = "OWRITE"
    <3>1. rulesref = 0 /\ rulesref' = 1
      BY <2>1 DEF OpenCheck
    <3>2. Past' = Past \cup {f} /\ f \notin Past
      BY <1>1, <1>2, <2>1, PlumbAssumption DEF Past
    <3>3. Cardinality(Past) \in Nat /\ Cardinality(Past') = Cardinality(Past) + 1
      <4>1. Past \subseteq Fids
        BY DEF Past
      <4>2. Cardinality(Past \cup {f}) = Cardinality(Past) + 1 /\ Cardinality(Past) \in Nat
        BY <3>2, <4>1, OneMore, PlumbAssumption
      <4>. QED  BY <4>2, <3>2
    <3>4. Cardinality(Writers) \in Nat
      <4>1. Writers \subseteq Fids
        BY DEF Writers, OpenOn
      <4>. QED  BY <4>1, FS_Subset, FS_CardinalityType, PlumbAssumption
    <3>. QED  BY <3>1, <3>3, <3>4, <1>3 DEF IInv, RulesHeld
  <2>2. CASE ~(fids[f].dir = "rules" /\ m = "OWRITE")
    <3>1. rulesref' = rulesref
      BY <2>2 DEF OpenCheck
    <3>2. Past' = Past
      <4>1. ~(opening[f] = "OWRITE" /\ fids[f].dir = "rules")
        BY <1>1, PlumbAssumption
      <4>2. ~(opening'[f] = "OWRITE" /\ fids'[f].dir = "rules")
        BY <1>1, <1>2, <2>2
      <4>3. \A g \in Fids : opening'[g] = "OWRITE" /\ fids'[g].dir = "rules"
                              <=> opening[g] = "OWRITE" /\ fids[g].dir = "rules"
        BY <4>1, <4>2, <1>1, <1>2
      <4>. QED  BY <4>3 DEF Past
    <3>. QED  BY <3>1, <3>2, <1>3 DEF IInv, Typed, RulesHeld
  <2>. QED  BY <2>1, <2>2
<1>5. Typed'
  BY <1>1, <1>2, <1>4 DEF IInv, Typed, queues, client
<1>6. FidsAgree'
  BY <1>1, <1>2 DEF IInv, FidsAgree
<1>7. PortionsAgree'
  BY <1>1 DEF IInv, PortionsAgree, Portioned, client
<1>8. ListsAgree'
  BY <1>1, <1>3 DEF IInv, ListsAgree, queues
<1>. QED  BY <1>1, <1>3, <1>4, <1>5, <1>6, <1>7, <1>8 DEF IInv, queues, client

(* A Tread comes in.                                                          *)
LEMMA ReadKeeps ==
  ASSUME IInv, NEW f \in Fids, NEW n \in 1 .. Size, Read(f, n) PROVE IInv'
<1>. DEFINE r == [fid |-> f, tag |-> f, count |-> n]
<1>1. /\ ~wait[f] /\ f \in OpenOn("port")
      /\ inhand' = inhand \cup {r} /\ wait' = [wait EXCEPT ![f] = TRUE]
      /\ UNCHANGED <<fids, queues, rulesref, opening, reply, nmsg, half>>
  BY DEF Read, Free, OpenOn
<1>2. r \in ReadType /\ r.tag = r.fid /\ r.fid = f
  BY DEF ReadType
<1>. HIDE DEF r
<1>3. \A d : OpenOn(d)' = OpenOn(d)
  BY <1>1 DEF OpenOn
<1>4. ReadsOK(readq, wait', inhand', OpenOn("port"))
  <2>1. ReadsOK(readq, [wait EXCEPT ![r.fid] = TRUE], inhand \cup {r}, OpenOn("port"))
    BY <1>1, <1>2, ReadComes DEF IInv, Typed
  <2>. QED  BY <2>1, <1>1, <1>2
<1>5. Typed'
  BY <1>1, <1>2 DEF IInv, Typed, queues
<1>6. FidsAgree' /\ ListsAgree' /\ RulesHeld'
  BY <1>1, SameFiles DEF IInv, queues
<1>7. PortionsAgree'
  BY <1>1 DEF IInv, PortionsAgree, Portioned
<1>. QED  BY <1>1, <1>3, <1>4, <1>5, <1>6, <1>7 DEF IInv, queues

(* A handler that ends in drainqueue, from fids fd, sends sq and reads rq.    *)
LEMMA DrainKeeps ==
  ASSUME IInv, NEW fd \in [Fids -> FidType],
         \A g \in Fids : /\ fd[g].busy = fids[g].busy /\ fd[g].open = fids[g].open
                         /\ fd[g].mode = fids[g].mode /\ fd[g].dir = fids[g].dir,
         NEW sq, NEW rq \in Seq(ReadType), NEW ih \in SUBSET ReadType,
         SendsOK(sq, OpenOn("port")), ReadsOK(rq, wait, ih, OpenOn("port")),
         Drain(fd, sq, rq), UNCHANGED <<nopen, fopen, rulesref, opening>>
  PROVE  /\ FidsAgree' /\ ListsAgree' /\ RulesHeld'
         /\ \A d : OpenOn(d)' = OpenOn(d)
         /\ readq' \in Seq(ReadType) /\ fids' \in [Fids -> FidType]
         /\ wait' \in [Fids -> BOOLEAN] /\ reply' \in [Fids -> Replies]
         /\ SendsOK(sendq', OpenOn("port"))
         /\ \A k \in 1 .. Len(sendq') : sendq'[k].nleft # 0
         /\ ReadsOK(readq', wait', ih, OpenOn("port"))
         /\ ~Overtake => Quiet(sendq', readq')
         /\ \A g \in Fids : /\ fids'[g].open = fids[g].open /\ fids'[g].dir = fids[g].dir
                            /\ fids'[g].writebuf = fd[g].writebuf
                            /\ g \notin OpenOn("port") => fids'[g].offset = fd[g].offset
<1>1. Shelf(fd, "port") = OpenOn("port")
  BY DEF Shelf, OpenOn
<1>2. wait \in [Fids -> BOOLEAN] /\ reply \in [Fids -> Replies]
  BY DEF IInv, Typed
<1>3. /\ readq' \in Seq(ReadType) /\ fids' \in [Fids -> FidType]
      /\ wait' \in [Fids -> BOOLEAN] /\ reply' \in [Fids -> Replies]
      /\ SendsOK(sendq', OpenOn("port"))
      /\ \A k \in 1 .. Len(sendq') : sendq'[k].nleft # 0
      /\ ReadsOK(readq', wait', ih, OpenOn("port"))
      /\ ~Overtake => Quiet(sendq', readq')
      /\ \A g \in Fids : /\ fids'[g] = [fd[g] EXCEPT !.offset = fids'[g].offset]
                         /\ g \notin OpenOn("port") => fids'[g].offset = fd[g].offset
  BY <1>1, <1>2, DrainDoes
<1>4. ASSUME NEW g \in Fids
      PROVE  /\ fids'[g].busy = fids[g].busy /\ fids'[g].open = fids[g].open
             /\ fids'[g].mode = fids[g].mode /\ fids'[g].dir = fids[g].dir
             /\ fids'[g].writebuf = fd[g].writebuf
  <2>1. PICK x \in FidType : x = fd[g]
    OBVIOUS
  <2>2. PICK o : o = fids'[g].offset
    OBVIOUS
  <2>3. fids'[g] = [x EXCEPT !.offset = o]
    BY <1>3, <2>1, <2>2
  <2>4. /\ [x EXCEPT !.offset = o].busy = x.busy /\ [x EXCEPT !.offset = o].open = x.open
        /\ [x EXCEPT !.offset = o].mode = x.mode /\ [x EXCEPT !.offset = o].dir = x.dir
        /\ [x EXCEPT !.offset = o].writebuf = x.writebuf
    BY DEF FidType
  <2>. QED  BY <2>1, <2>3, <2>4
<1>5. /\ FidsAgree' /\ ListsAgree' /\ RulesHeld'
      /\ \A d : OpenOn(d)' = OpenOn(d)
  BY <1>4, SameFiles DEF IInv
<1>. QED  BY <1>3, <1>4, <1>5

(* queueread and drainqueue.                                                  *)
LEMMA QueueKeeps ==
  ASSUME IInv, NEW r \in inhand, Queue(r) PROVE IInv'
<1>1. /\ inhand' = inhand \ {r} /\ inhand \in SUBSET ReadType
      /\ UNCHANGED <<nopen, fopen, holdq, rulesref, opening, nmsg, half>>
  BY DEF Queue, IInv, Typed
<1>2. CASE fids[r.fid].dir = "port"
  <2>1. Drain(fids, sendq, <<r>> \o readq)
    BY <1>2 DEF Queue
  <2>2. <<r>> \o readq \in Seq(ReadType) /\ ReadsOK(<<r>> \o readq, wait, inhand', OpenOn("port"))
    BY <1>1, ReadQueued DEF IInv, Typed
  <2>3. fids \in [Fids -> FidType] /\ SendsOK(sendq, OpenOn("port")) /\ inhand' \in SUBSET ReadType
    BY <1>1 DEF IInv, Typed
  <2>4. /\ FidsAgree' /\ ListsAgree' /\ RulesHeld'
        /\ \A d : OpenOn(d)' = OpenOn(d)
        /\ readq' \in Seq(ReadType) /\ fids' \in [Fids -> FidType]
        /\ wait' \in [Fids -> BOOLEAN] /\ reply' \in [Fids -> Replies]
        /\ SendsOK(sendq', OpenOn("port"))
        /\ \A k \in 1 .. Len(sendq') : sendq'[k].nleft # 0
        /\ ReadsOK(readq', wait', inhand', OpenOn("port"))
        /\ ~Overtake => Quiet(sendq', readq')
        /\ \A g \in Fids : /\ fids'[g].open = fids[g].open /\ fids'[g].dir = fids[g].dir
                           /\ fids'[g].writebuf = fids[g].writebuf
                           /\ g \notin OpenOn("port") => fids'[g].offset = fids[g].offset
    BY <1>1, <2>1, <2>2, <2>3, DrainKeeps
  <2>5. Typed'
    BY <1>1, <2>3, <2>4 DEF IInv, Typed, SendsOK
  <2>6. PortionsAgree'
    BY <1>1, <2>4, SMTT(20) DEF IInv, PortionsAgree, Portioned, OpenOn
  <2>. QED  BY <1>1, <2>4, <2>5, <2>6 DEF IInv
<1>3. CASE fids[r.fid].dir # "port"
  <2>1. UNCHANGED <<sendq, readq, fids, wait, reply>>
    BY <1>3 DEF Queue
  <2>2. r.fid \notin OpenOn("port")
    BY <1>3 DEF OpenOn
  <2>3. ReadsOK(readq, wait, inhand', OpenOn("port"))
    BY <1>1, <2>2, ReadDropped DEF IInv
  <2>4. Typed'
    BY <1>1, <2>1 DEF IInv, Typed
  <2>5. /\ FidsAgree' /\ ListsAgree' /\ RulesHeld'
        /\ \A d : OpenOn(d)' = OpenOn(d)
    BY <1>1, <2>1, SameFiles DEF IInv
  <2>6. PortionsAgree'
    BY <1>1, <2>1 DEF IInv, PortionsAgree, Portioned
  <2>. QED  BY <1>1, <2>1, <2>3, <2>4, <2>5, <2>6 DEF IInv
<1>. QED  BY <1>2, <1>3

(* Tflush.                                                                    *)
LEMMA FlushKeeps ==
  ASSUME IInv, NEW f \in Fids, Flush(f) PROVE IInv'
<1>. DEFINE slow == {r \in inhand : r.tag = f}
            P == OpenOn("port")
<1>1. /\ wait[f] /\ wait' = [wait EXCEPT ![f] = FALSE]
      /\ UNCHANGED <<fids, nopen, fopen, holdq, sendq, rulesref, opening, reply, nmsg, half>>
      /\ readq \in Seq(ReadType) /\ wait \in [Fids -> BOOLEAN] /\ inhand \in SUBSET ReadType
      /\ ReadsOK(readq, wait, inhand, P)
  BY DEF Flush, IInv, Typed
<1>2. /\ FidsAgree' /\ ListsAgree' /\ RulesHeld'
      /\ \A d : OpenOn(d)' = OpenOn(d)
  BY <1>1, SameFiles DEF IInv
<1>3. PortionsAgree'
  BY <1>1 DEF IInv, PortionsAgree, Portioned
<1>4. /\ readq' \in Seq(ReadType) /\ inhand' \in SUBSET ReadType
      /\ ReadsOK(readq', wait', inhand', P)
      /\ ~Overtake => Quiet(sendq, readq')
  <2>1. CASE slow # {}
    <3>1. /\ Overtake /\ UNCHANGED readq
          /\ inhand' = (inhand \ slow) \cup {[r EXCEPT !.tag = Nil] : r \in slow}
      BY <2>1 DEF Flush
    <3>. HIDE DEF P
    <3>2. /\ {[r EXCEPT !.tag = Nil] : r \in slow} \subseteq ReadType
          /\ ReadsOK(readq, [wait EXCEPT ![f] = FALSE],
                     (inhand \ slow) \cup {[r EXCEPT !.tag = Nil] : r \in slow}, P)
      BY <1>1, <2>1, <3>1, ReadLate
    <3>. QED  BY <1>1, <3>1, <3>2
  <2>2. CASE slow = {}
    <3>. DEFINE Tagged == {k \in 1 .. Len(readq) : readq[k].tag = f}
                k == CHOOSE k \in Tagged : \A j \in Tagged : k <= j
    <3>1. readq' = RemoveAt(readq, k) /\ UNCHANGED inhand
      BY <2>2 DEF Flush, Flushed
    <3>2. Tagged # {}
      <4>1. \E j \in 1 .. Len(readq) : readq[j].tag = f
        BY <1>1, <2>2 DEF ReadsOK
      <4>. QED  BY <4>1
    <3>3. k \in Tagged
      <4>1. Tagged \subseteq 1 .. Len(readq) /\ Len(readq) \in Nat
        BY <1>1
      <4>. HIDE DEF Tagged
      <4>2. \E j \in Tagged : \A l \in Tagged : j <= l
        BY <3>2, <4>1, LeastExists
      <4>. QED  BY <4>2
    <3>. HIDE DEF k, P
    <3>4. k \in 1 .. Len(readq) /\ readq[k].tag = f /\ f # Nil
      BY <3>3, PlumbAssumption
    <3>5. ReadsOK(RemoveAt(readq, k),
                  IF readq[k].tag = Nil THEN wait ELSE [wait EXCEPT ![readq[k].tag] = FALSE],
                  inhand, P)
      BY <1>1, <3>4, ReadLeaves
    <3>6. ReadsOK(readq', wait', inhand', P)
      BY <1>1, <3>1, <3>4, <3>5
    <3>7. /\ readq' \in Seq(ReadType)
          /\ \A j \in 1 .. Len(readq') : /\ Place(k, j) \in 1 .. Len(readq)
                                         /\ readq'[j] = readq[Place(k, j)]
      BY <1>1, <3>1, <3>4, RemovedPlaces
    <3>8. ASSUME ~Overtake PROVE Quiet(sendq, readq')
      BY <3>7, <3>8 DEF IInv, Quiet
    <3>. QED  BY <1>1, <3>1, <3>6, <3>7, <3>8
  <2>. QED  BY <2>1, <2>2
<1>5. Typed'
  BY <1>1, <1>4 DEF IInv, Typed
<1>. QED  BY <1>1, <1>2, <1>3, <1>4, <1>5 DEF IInv

(* A message sent to all on the list of the port.                             *)
LEMMA SendreqOK ==
  ASSUME NEW m \in Message, NEW list \in Seq(Fids), NEW P,
         \A i, j \in 1 .. Len(list) : list[i] = list[j] => i = j,
         \A i \in 1 .. Len(list) : list[i] \in P
  PROVE  /\ Sendreq(m, list) \in SendType /\ SendOK(Sendreq(m, list), P)
         /\ Sendreq(m, list).nleft = Len(list) /\ Sendreq(m, list).fid = list
<1>. DEFINE x == Sendreq(m, list)
<1>1. Len(list) \in Nat /\ \A i \in 1 .. Len(list) : list[i] \in Fids /\ list[i] # Nil
  BY PlumbAssumption
<1>2. list \in Seq(Fids \cup {Nil})
  OBVIOUS
<1>3. x \in SendType /\ x.nleft = Len(list) /\ x.fid = list
  BY <1>1, <1>2 DEF Sendreq, SendType
<1>. HIDE DEF x
<1>4. Entries(x) = 1 .. Len(list)
  BY <1>1, <1>3 DEF Entries
<1>5. Cardinality(1 .. Len(list)) = Len(list)
  <2>1. PICK n \in Nat : n = Len(list)
    BY <1>1
  <2>2. Cardinality(1 .. n) = n
    BY FS_Interval
  <2>. QED  BY <2>1, <2>2
<1>6. SendOK(x, P)
  BY <1>3, <1>4, <1>5 DEF SendOK
<1>. QED  BY <1>3, <1>6 DEF x

(* More fids have the port open than a message still goes to.                 *)
LEMMA SendsElsewhere ==
  ASSUME NEW sq, NEW P, NEW S, P \subseteq S, SendsOK(sq, P) PROVE SendsOK(sq, S)
BY DEF SendsOK, SendOK

(* The rest of Topen: the fid comes to the front of its file's list, and      *)
(* messages held for the port are sent to it.                                 *)
LEMMA OpenKeeps ==
  ASSUME IInv, NEW f \in Fids, Open(f) PROVE IInv'
<1>1. PICK dd \in Files : dd = fids[f].dir
  BY DEF Open, IInv, FidsAgree
<1>. DEFINE open == <<f>> \o fopen[dd]
<1>2. /\ opening[f] # Nil /\ fids[f].busy /\ ~fids[f].open 
      /\ opening[f] \in {"OREAD", "OWRITE"}
      /\ opening' = [opening EXCEPT ![f] = Nil]
      /\ nopen' = [nopen EXCEPT ![dd] = @ + 1] /\ fopen' = [fopen EXCEPT ![dd] = open]
      /\ UNCHANGED <<readq, rulesref, inhand, client>>
  BY <1>1 DEF Open, IInv, Typed, FidsAgree
<1>3. PICK y \in FidType : y = fids[f]
  BY DEF IInv, Typed
<1>. DEFINE x == [y EXCEPT !.mode = opening[f], !.open = TRUE]
<1>4. fids' = [fids EXCEPT ![f] = x]
  BY <1>3 DEF IInv, Typed, Open
<1>5. /\ x \in FidType /\ x.busy = y.busy /\ x.open /\ x.mode = opening[f] /\ x.dir = y.dir
      /\ x.offset = y.offset
  BY <1>2 DEF FidType
<1>. HIDE DEF x
<1>6. /\ fids' \in [Fids -> FidType] /\ fids'[f] = x
      /\ \A g \in Fids : g # f => fids'[g] = fids[g]
  BY <1>4, <1>5 DEF IInv, Typed
<1>7. /\ opening' \in [Fids -> {"OREAD", "OWRITE", Nil}] /\ opening'[f] = Nil
      /\ \A g \in Fids : g # f => opening'[g] = opening[g]
  BY <1>2 DEF IInv, Typed
<1>8. /\ f \in OpenOn(dd)' /\ f \notin OpenOn(dd)
      /\ \A g \in Fids, d \in Files : g # f \/ d # dd => (g \in OpenOn(d)' <=> g \in OpenOn(d))
  BY <1>1, <1>2, <1>3, <1>5, <1>6 DEF OpenOn
<1>9. /\ fopen[dd] \in Seq(Fids) /\ nopen[dd] = Len(fopen[dd])
      /\ \A i, j \in 1 .. Len(fopen[dd]) : fopen[dd][i] = fopen[dd][j] => i = j
      /\ \A g \in Fids : g \in OpenOn(dd) <=> \E i \in 1 .. Len(fopen[dd]) : fopen[dd][i] = g
  BY <1>2 DEF IInv, ListsAgree
<1>10. /\ open \in Seq(Fids) /\ Len(open) = Len(fopen[dd]) + 1 /\ Len(fopen[dd]) \in Nat
      /\ open[1] = f /\ \A i \in 1 .. Len(fopen[dd]) : open[i + 1] = fopen[dd][i]
  BY <1>9, ConsList
<1>11. /\ nopen' \in [Files -> Nat] /\ nopen'[dd] = nopen[dd] + 1 /\ DOMAIN fopen' = Files
       /\ fopen'[dd] = open
       /\ \A d \in Files : d # dd => nopen'[d] = nopen[d] /\ fopen'[d] = fopen[d]
  BY <1>2, <1>9 DEF IInv, Typed
<1>. HIDE DEF open
<1>12. \A i \in 1 .. Len(open) : i = 1 \/ (i - 1 \in 1 .. Len(fopen[dd]) /\ open[i] = fopen[dd][i - 1])
  <2>1. SUFFICES ASSUME NEW i \in 1 .. Len(open), i # 1
                 PROVE  i - 1 \in 1 .. Len(fopen[dd]) /\ open[i] = fopen[dd][i - 1]
    OBVIOUS
  <2>2. i - 1 \in 1 .. Len(fopen[dd]) /\ (i - 1) + 1 = i
    BY <1>10, <2>1
  <2>. QED  BY <2>2, <1>10
<1>13. \A i, j \in 1 .. Len(open) : open[i] = open[j] => i = j
  <2>1. \A i \in 1 .. Len(fopen[dd]) : fopen[dd][i] # f
    BY <1>8, <1>9
  <2>2. SUFFICES ASSUME NEW i \in 1 .. Len(open), NEW j \in 1 .. Len(open), open[i] = open[j]
                 PROVE  i = j
    OBVIOUS
  <2>3. CASE i = 1 \/ j = 1
    BY <2>1, <2>2, <2>3, <1>10, <1>12
  <2>4. CASE i # 1 /\ j # 1
    <3>1. /\ i - 1 \in 1 .. Len(fopen[dd]) /\ j - 1 \in 1 .. Len(fopen[dd])
          /\ fopen[dd][i - 1] = fopen[dd][j - 1]
      BY <2>2, <2>4, <1>12
    <3>2. i - 1 = j - 1
      BY <3>1, <1>9
    <3>. QED  BY <3>2, <1>10
  <2>. QED  BY <2>3, <2>4
<1>14. \A g \in Fids : g \in OpenOn(dd)' <=> \E i \in 1 .. Len(open) : open[i] = g
  <2>1. ASSUME NEW g \in Fids, g \in OpenOn(dd)' PROVE \E i \in 1 .. Len(open) : open[i] = g
    <3>1. CASE g = f
      <4>1. 1 \in 1 .. Len(open)
        BY <1>10
      <4>. QED  BY <3>1, <4>1, <1>10
    <3>2. CASE g # f
      <4>1. PICK i \in 1 .. Len(fopen[dd]) : fopen[dd][i] = g
        BY <2>1, <3>2, <1>2, <1>8, <1>9
      <4>2. i + 1 \in 1 .. Len(open)
        BY <1>10
      <4>. QED  BY <4>1, <4>2, <1>10
    <3>. QED  BY <3>1, <3>2
  <2>2. ASSUME NEW g \in Fids, NEW i \in 1 .. Len(open), open[i] = g PROVE g \in OpenOn(dd)'
    <3>1. CASE i = 1
      BY <2>2, <3>1, <1>8, <1>10
    <3>2. CASE i # 1
      <4>1. g \in OpenOn(dd)
        BY <2>2, <3>2, <1>9, <1>12
      <4>. QED  BY <4>1, <1>2, <1>8
    <3>. QED  BY <3>1, <3>2
  <2>. QED  BY <2>1, <2>2
<1>15. ListsAgree'
  <2>1. SUFFICES ASSUME NEW d \in Files
                 PROVE  /\ fopen'[d] \in Seq(Fids) /\ nopen'[d] = Len(fopen'[d])
                        /\ \A i, j \in 1 .. Len(fopen'[d]) : fopen'[d][i] = fopen'[d][j] => i = j
                        /\ \A g \in Fids : g \in OpenOn(d)' <=>
                                              \E i \in 1 .. Len(fopen'[d]) : fopen'[d][i] = g
    BY DEF ListsAgree
  <2>2. CASE d = dd
    BY <2>2, <1>9, <1>10, <1>11, <1>13, <1>14
  <2>3. CASE d # dd
    BY <2>3, <1>8, <1>11 DEF IInv, ListsAgree
  <2>. QED  BY <2>2, <2>3
<1>16. FidsAgree'
  BY <1>2, <1>3, <1>5, <1>6, <1>7 DEF IInv, FidsAgree

<1>17. PortionsAgree'
  BY <1>2, <1>3, <1>5, <1>6 DEF IInv, PortionsAgree, Portioned, client
<1>18. RulesHeld'
  <2>1. Past \subseteq Fids /\ Writers \subseteq Fids /\ IsFiniteSet(Fids)
    BY PlumbAssumption DEF Past, Writers, OpenOn
  <2>2. rulesref = Cardinality(Writers) + Cardinality(Past) /\ rulesref <= 1 /\ rulesref' = rulesref
    BY <1>2 DEF IInv, RulesHeld
  <2>3. CASE opening[f] = "OWRITE" /\ dd = "rules"
    <3>1. f \in Past /\ Past' = Past \ {f}
      BY <2>3, <1>3, <1>5, <1>6, <1>7, <1>1, PlumbAssumption DEF Past
    <3>2. f \notin Writers /\ Writers' = Writers \cup {f}
      BY <2>3, <1>2, <1>3, <1>5, <1>6, <1>8, <1>1 DEF Writers, OpenOn
    <3>3. /\ Cardinality(Past') = Cardinality(Past) - 1 /\ Cardinality(Past) \in Nat
          /\ Cardinality(Writers') = Cardinality(Writers) + 1 /\ Cardinality(Writers) \in Nat
      <4>1. Cardinality(Past \ {f}) = Cardinality(Past) - 1 /\ Cardinality(Past) \in Nat
        BY <3>1, <2>1, OneLess
      <4>2. Cardinality(Writers \cup {f}) = Cardinality(Writers) + 1 /\ Cardinality(Writers) \in Nat
        BY <3>2, <2>1, OneMore
      <4>. QED  BY <4>1, <4>2, <3>1, <3>2
    <3>. QED  BY <3>3, <2>2 DEF RulesHeld
  <2>4. CASE ~(opening[f] = "OWRITE" /\ dd = "rules")
    <3>1. Past' = Past
      <4>1. \A g \in Fids : opening'[g] = "OWRITE" /\ fids'[g].dir = "rules"
                              <=> opening[g] = "OWRITE" /\ fids[g].dir = "rules"
        BY <2>4, <1>6, <1>7, <1>1, PlumbAssumption
      <4>. QED  BY <4>1 DEF Past
    <3>2. Writers' = Writers
      <4>1. \A g \in Fids : fids'[g].open /\ fids'[g].dir = "rules" /\ fids'[g].mode = "OWRITE"
                              <=> fids[g].open /\ fids[g].dir = "rules" /\ fids[g].mode = "OWRITE"
        BY <2>4, <1>2, <1>3, <1>5, <1>6, <1>1
      <4>. QED  BY <4>1 DEF Writers, OpenOn
    <3>. QED  BY <3>1, <3>2, <2>2 DEF RulesHeld
  <2>. QED  BY <2>3, <2>4
<1>19. OpenOn("port") \subseteq OpenOn("port")' /\ "port" \in Files
  BY <1>1, <1>2, <1>3, <1>5, <1>6 DEF OpenOn, Files
<1>20. ReadsOK(readq', wait', inhand', OpenOn("port")')
  BY <1>2, <1>19, ReadsElsewhere DEF IInv, client
<1>21. /\ sendq' \in Seq(SendType) /\ holdq' \in Seq(Message)
       /\ SendsOK(sendq', OpenOn("port")')
       /\ \A k \in 1 .. Len(sendq') : sendq'[k].nleft # 0
       /\ holdq' # <<>> => fopen'["port"] = <<>>
       /\ ~Overtake => Quiet(sendq', readq')
  <2>1. SendsOK(sendq, OpenOn("port")')
    BY <1>19, SendsElsewhere DEF IInv
  <2>2. CASE dd # "port"
    <3>1. UNCHANGED <<sendq, holdq>>
      BY <1>1, <2>2 DEF Open
    <3>2. fopen'["port"] = fopen["port"]
      BY <2>2, <1>11, <1>19
    <3>. QED  BY <3>1, <3>2, <2>1, <1>2 DEF IInv, Typed
  <2>3. CASE dd = "port"
    <3>. DEFINE new == [k \in 1 .. Len(holdq) |-> Sendreq(holdq[k], open)]
                P == OpenOn("port")'
    <3>1. sendq' = sendq \o new /\ holdq' = <<>>
      BY <1>1, <2>3 DEF Open, open
    <3>2. ASSUME NEW k \in 1 .. Len(holdq)
          PROVE  /\ Sendreq(holdq[k], open) \in SendType /\ SendOK(Sendreq(holdq[k], open), P)
                 /\ Sendreq(holdq[k], open).nleft # 0
      <4>1. holdq[k] \in Message
        <5>1. holdq \in Seq(Message)
          BY DEF IInv, Typed
        <5>. QED  BY <5>1, ElementOfSeq
      <4>2. \A i \in 1 .. Len(open) : open[i] \in P
        <5>1. \A i \in 1 .. Len(open) : open[i] \in Fids
          BY <1>10
        <5>. QED  BY <5>1, <1>14, <2>3
      <4>3. /\ Sendreq(holdq[k], open) \in SendType /\ SendOK(Sendreq(holdq[k], open), P)
            /\ Sendreq(holdq[k], open).nleft = Len(open)
        <5>. HIDE DEF P
        <5>. QED  BY <4>1, <4>2, <1>10, <1>13, SendreqOK
      <4>. QED  BY <4>3, <1>10
    <3>. HIDE DEF P
    <3>3. /\ new \in Seq(SendType) /\ Len(new) = Len(holdq) /\ Len(holdq) \in Nat
          /\ \A k \in 1 .. Len(holdq) : new[k] = Sendreq(holdq[k], open)
      <4>1. Len(holdq) \in Nat
        BY DEF IInv, Typed
      <4>. QED  BY <4>1, <3>2
    <3>. HIDE DEF new
    <3>4. sendq \in Seq(SendType) /\ Len(sendq) \in Nat
      BY DEF IInv, Typed
    <3>5. /\ sendq' \in Seq(SendType) /\ Len(sendq') = Len(sendq) + Len(new)
          /\ \A k \in 1 .. Len(sendq) + Len(new) :
                sendq'[k] = IF k <= Len(sendq) THEN sendq[k] ELSE new[k - Len(sendq)]
      <4>1. /\ sendq \o new \in Seq(SendType) /\ Len(sendq \o new) = Len(sendq) + Len(new)
            /\ \A k \in 1 .. Len(sendq) + Len(new) :
                  (sendq \o new)[k] = IF k <= Len(sendq) THEN sendq[k] ELSE new[k - Len(sendq)]
        BY <3>3, <3>4, ConcatProperties
      <4>. QED  BY <4>1, <3>1
    <3>6. ASSUME NEW k \in 1 .. Len(sendq')
          PROVE  SendOK(sendq'[k], P) /\ sendq'[k].nleft # 0
      <4>1. CASE k <= Len(sendq)
        <5>1. k \in 1 .. Len(sendq) /\ sendq'[k] = sendq[k]
          BY <4>1, <3>4, <3>5, <3>3
        <5>. QED  BY <5>1, <2>1 DEF IInv, SendsOK, P
      <4>2. CASE ~(k <= Len(sendq))
        <5>1. k - Len(sendq) \in 1 .. Len(holdq) /\ sendq'[k] = new[k - Len(sendq)]
          BY <4>2, <3>3, <3>4, <3>5
        <5>. QED  BY <5>1, <3>2, <3>3
      <4>. QED  BY <4>1, <4>2
    <3>7. ASSUME ~Overtake PROVE Quiet(sendq', readq')
      <4>1. Quiet(sendq, readq) /\ readq' = readq
        BY <3>7, <1>2 DEF IInv
      <4>2. CASE holdq = <<>>
        <5>1. Len(new) = 0
          BY <4>2, <3>3
        <5>2. sendq' = sendq
          <6>1. new = <<>>
            BY <5>1, <3>3, EmptySeq
          <6>. QED  BY <6>1, <3>1, <3>4
        <5>. QED  BY <5>2, <4>1
      <4>3. CASE holdq # <<>>
        <5>1. fopen["port"] = <<>> /\ OpenOn("port") = {}
          <6>1. fopen["port"] = <<>>
            BY <4>3 DEF IInv
          <6>2. \A g \in Fids : g \notin OpenOn("port")
            BY <6>1, <1>19 DEF IInv, ListsAgree
          <6>. QED  BY <6>1, <6>2 DEF OpenOn
        <5>2. \A k \in 1 .. Len(readq) : readq[k].tag # Nil /\ readq[k].fid \in OpenOn("port")
          BY <3>7 DEF IInv, ReadsOK
        <5>. QED  BY <5>1, <5>2, <4>1 DEF Quiet
      <4>. QED  BY <4>2, <4>3
    <3>8. SendsOK(sendq', P)
      BY <3>5, <3>6 DEF SendsOK
    <3>9. holdq' \in Seq(Message) /\ holdq' = <<>>
      BY <3>1
    <3>. QED  BY <3>5, <3>6, <3>7, <3>8, <3>9 DEF P
  <2>. QED  BY <2>2, <2>3
<1>22. Typed'
  BY <1>2, <1>6, <1>7, <1>11, <1>21 DEF IInv, Typed, client
<1>. QED  BY <1>15, <1>16, <1>17, <1>18, <1>20, <1>21, <1>22 DEF IInv

(* The units from i to j of message id, and what portions of them make.       *)
Part(id, i, j) == [k \in 1 .. j + 1 - i |-> <<id, i + k - 1>>]

(* A part of a message, unit by unit.                                         *)
LEMMA PartIs ==
  ASSUME NEW id \in Nat, NEW i \in 1 .. Size + 1, NEW j \in 0 .. Size, i <= j + 1
  PROVE  /\ SubSeq(Units(id), i, j) = Part(id, i, j)
         /\ Part(id, i, j) \in Seq(Unit) /\ Len(Part(id, i, j)) = j + 1 - i
         /\ \A k \in 1 .. j + 1 - i : Part(id, i, j)[k] = <<id, i + k - 1>>
<1>. DEFINE n == j + 1 - i
            m == Units(id)
            p == SubSeq(m, i, j)
<1>1. Size \in Nat /\ n \in Nat /\ i \in Nat /\ j \in Nat
  BY PlumbAssumption
<1>2. m \in Seq(Unit) /\ Len(m) = Size /\ \A k \in 1 .. Size : m[k] = <<id, k>>
  BY <1>1 DEF Units, Unit
<1>. HIDE DEF m
<1>3. /\ p \in Seq(Unit) /\ Len(p) = n
      /\ \A k \in 1 .. n : p[k] = m[i + k - 1]
  <2>1. \A k \in i .. j : m[k] \in Unit
    BY <1>1, <1>2
  <2>2. /\ p \in Seq(Unit) /\ Len(p) = IF i <= j THEN j - i + 1 ELSE 0
        /\ \A k \in 1 .. j - i + 1 : p[k] = m[i + k - 1]
    BY <1>1, <2>1, SubSeqProperties
  <2>. QED  BY <1>1, <2>2
<1>. HIDE DEF p
<1>4. \A k \in 1 .. n : p[k] = <<id, i + k - 1>>
  <2>1. \A k \in 1 .. n : i + k - 1 \in 1 .. Size
    BY <1>1
  <2>. QED  BY <1>2, <1>3, <2>1
<1>5. p = Part(id, i, j)
  <2>1. DOMAIN p = 1 .. n /\ p = [k \in DOMAIN p |-> p[k]]
    BY <1>1, <1>3
  <2>. QED  BY <1>4, <2>1 DEF Part
<1>. QED  BY <1>3, <1>4, <1>5 DEF p, m

(* The rest of a message, cut in two.                                         *)
LEMMA PartOfPart ==
  ASSUME NEW id \in Nat, NEW j \in 0 .. Size, NEW k \in 0 .. Size - j
  PROVE  /\ SubSeq(Part(id, j + 1, Size), 1, k) = Part(id, j + 1, j + k)
         /\ SubSeq(Part(id, j + 1, Size), k + 1, Size - j) = Part(id, j + k + 1, Size)
<1>. DEFINE p == Part(id, j + 1, Size)
            a == SubSeq(p, 1, k)
            b == SubSeq(p, k + 1, Size - j)
            n == Size - j
<1>1. Size \in Nat /\ j \in Nat /\ k \in Nat /\ n \in Nat
  BY PlumbAssumption
<1>2. p \in Seq(Unit) /\ Len(p) = n /\ \A l \in 1 .. n : p[l] = <<id, j + l>>
  <2>1. j + 1 \in 1 .. Size + 1 /\ Size \in 0 .. Size /\ j + 1 <= Size + 1
    BY <1>1
  <2>2. /\ p \in Seq(Unit) /\ Len(p) = Size + 1 - (j + 1)
        /\ \A l \in 1 .. Size + 1 - (j + 1) : p[l] = <<id, (j + 1) + l - 1>>
    BY <2>1, PartIs
  <2>3. Size + 1 - (j + 1) = n /\ \A l \in 1 .. n : (j + 1) + l - 1 = j + l
    BY <1>1
  <2>. QED  BY <2>2, <2>3
<1>. HIDE DEF p
<1>3. \A l \in 1 .. n : p[l] \in Unit
  BY <1>2
<1>4. a \in Seq(Unit) /\ Len(a) = k /\ \A l \in 1 .. k : a[l] = p[l]
  <2>1. /\ a \in Seq(Unit) /\ Len(a) = IF 1 <= k THEN k - 1 + 1 ELSE 0
        /\ \A l \in 1 .. k - 1 + 1 : a[l] = p[1 + l - 1]
    BY <1>1, <1>2, <1>3, SubSeqProperties
  <2>. QED  BY <1>1, <2>1
<1>5. b \in Seq(Unit) /\ Len(b) = n - k /\ \A l \in 1 .. n - k : b[l] = p[k + l]
  <2>1. /\ b \in Seq(Unit) /\ Len(b) = IF k + 1 <= n THEN n - (k + 1) + 1 ELSE 0
        /\ \A l \in 1 .. n - (k + 1) + 1 : b[l] = p[(k + 1) + l - 1]
    BY <1>1, <1>2, <1>3, SubSeqProperties
  <2>. QED  BY <1>1, <2>1
<1>. HIDE DEF a, b
<1>6. a = Part(id, j + 1, j + k)
  <2>1. a = [l \in 1 .. k |-> a[l]]
    BY <1>1, <1>4
  <2>2. \A l \in 1 .. k : a[l] = <<id, (j + 1) + l - 1>>
    <3>1. \A l \in 1 .. k : l \in 1 .. n /\ j + l = (j + 1) + l - 1
      BY <1>1
    <3>. QED  BY <3>1, <1>2, <1>4
  <2>3. (j + k) + 1 - (j + 1) = k
    BY <1>1
  <2>. QED  BY <2>1, <2>2, <2>3 DEF Part
<1>7. b = Part(id, j + k + 1, Size)
  <2>1. b = [l \in 1 .. n - k |-> b[l]]
    BY <1>1, <1>5
  <2>2. \A l \in 1 .. n - k : b[l] = <<id, (j + k + 1) + l - 1>>
    <3>1. \A l \in 1 .. n - k : k + l \in 1 .. n /\ j + (k + l) = (j + k + 1) + l - 1
      BY <1>1
    <3>. QED  BY <3>1, <1>2, <1>5
  <2>3. Size + 1 - (j + k + 1) = n - k
    BY <1>1
  <2>. QED  BY <2>1, <2>2, <2>3 DEF Part
<1>. QED  BY <1>6, <1>7 DEF a, b, p

(* What has come of a message, and the portion that follows it.               *)
LEMMA PartAfterPart ==
  ASSUME NEW id \in Nat, NEW j \in 0 .. Size, NEW l \in 0 .. Size, j <= l
  PROVE  /\ SubSeq(Part(id, 1, j), 1, j) = Part(id, 1, j)
         /\ Part(id, 1, j) \o Part(id, j + 1, l) = Part(id, 1, l)
<1>. DEFINE a == Part(id, 1, j)
            b == Part(id, j + 1, l)
<1>1. Size \in Nat /\ j \in Nat /\ l \in Nat
  BY PlumbAssumption
<1>2. a \in Seq(Unit) /\ Len(a) = j /\ \A k \in 1 .. j : a[k] = <<id, k>>
  <2>1. 1 \in 1 .. Size + 1 /\ 1 <= j + 1 /\ j + 1 - 1 = j
    BY <1>1
  <2>2. /\ a \in Seq(Unit) /\ Len(a) = j + 1 - 1
        /\ \A k \in 1 .. j + 1 - 1 : a[k] = <<id, 1 + k - 1>>
    BY <2>1, PartIs
  <2>. QED  BY <1>1, <2>1, <2>2
<1>3. b \in Seq(Unit) /\ Len(b) = l - j /\ \A k \in 1 .. l - j : b[k] = <<id, j + k>>
  <2>1. j + 1 \in 1 .. Size + 1 /\ j + 1 <= l + 1
    BY <1>1
  <2>2. /\ b \in Seq(Unit) /\ Len(b) = l + 1 - (j + 1)
        /\ \A k \in 1 .. l + 1 - (j + 1) : b[k] = <<id, (j + 1) + k - 1>>
    BY <2>1, PartIs
  <2>3. l + 1 - (j + 1) = l - j /\ \A k \in 1 .. l - j : (j + 1) + k - 1 = j + k
    BY <1>1
  <2>. QED  BY <2>2, <2>3
<1>. HIDE DEF a, b
<1>4. SubSeq(a, 1, j) = a
  BY <1>1, <1>2, SubSeqFull
<1>. DEFINE c == a \o b
<1>5. /\ c \in Seq(Unit) /\ Len(c) = l
      /\ \A k \in 1 .. l : c[k] = IF k <= j THEN a[k] ELSE b[k - j]
  <2>1. /\ c \in Seq(Unit) /\ Len(c) = Len(a) + Len(b)
        /\ \A k \in 1 .. Len(a) + Len(b) : c[k] = IF k <= Len(a) THEN a[k] ELSE b[k - Len(a)]
    BY <1>2, <1>3, ConcatProperties
  <2>2. Len(a) + Len(b) = l
    BY <1>1, <1>2, <1>3
  <2>. QED  BY <1>2, <2>1, <2>2
<1>. HIDE DEF c
<1>6. ASSUME NEW k \in 1 .. l PROVE c[k] = <<id, 1 + k - 1>>
  <2>1. CASE k <= j
    BY <1>1, <1>2, <1>5, <2>1
  <2>2. CASE ~(k <= j)
    <3>1. k - j \in 1 .. l - j /\ j + (k - j) = k /\ 1 + k - 1 = k
      BY <1>1, <2>2
    <3>2. c[k] = b[k - j]
      BY <1>5, <2>2
    <3>3. b[k - j] = <<id, j + (k - j)>>
      BY <1>3, <3>1
    <3>. QED  BY <3>1, <3>2, <3>3
  <2>. QED  BY <2>1, <2>2
<1>7. c = [k \in 1 .. l |-> c[k]]
  BY <1>1, <1>5
<1>8. l + 1 - 1 = l
  BY <1>1
<1>9. c = Part(id, 1, l)
  BY <1>6, <1>7, <1>8 DEF Part
<1>. QED  BY <1>4, <1>9 DEF a, b, c

(* What is left to a client after a portion that is not kept.                 *)
Rest(u) == u = <<>> \/ \E id \in 1 .. MaxMsgs, j \in 1 .. Size - 1 : u = SubSeq(Units(id), j + 1, Size)

(* A Twrite finds nothing to keep, a message so far, or a whole message; x is  *)
(* the Fid, u the portion, rest what is left of the message.                  *)
Sofar(x, u) == IF x.offset = 0 THEN u ELSE SubSeq(x.writebuf, 1, x.offset) \o u
Written(x, u, rest) ==
    \/ Unpack(Sofar(x, u)) = "bad" /\ Rest(rest)
    \/ Unpack(Sofar(x, u)) = "message" /\ Rest(rest) /\ Sofar(x, u) \in Message
    \/ /\ Unpack(Sofar(x, u)) = "more" /\ x.offset + Len(u) \in 1 .. Size - 1
       /\ \E id \in 1 .. MaxMsgs : /\ Sofar(x, u) = SubSeq(Units(id), 1, x.offset + Len(u))
                                   /\ rest = SubSeq(Units(id), x.offset + Len(u) + 1, Size)

(* plumbunpackpartial waits until the last unit has come.                     *)
LEMMA UnpackPart ==
  ASSUME NEW id \in 1 .. MaxMsgs, NEW k \in 1 .. Size
  PROVE  /\ k < Size => Unpack(Part(id, 1, k)) = "more"
         /\ k = Size => Unpack(Part(id, 1, k)) = "message" /\ Part(id, 1, k) \in Message
<1>1. Size \in Nat /\ id \in Nat /\ MaxMsgs \in Nat
  BY PlumbAssumption
<1>2. /\ Part(id, 1, k) = SubSeq(Units(id), 1, k) /\ Len(Part(id, 1, k)) = k
      /\ Part(id, 1, k)[1] = <<id, 1>>
  <2>1. 1 \in 1 .. Size + 1 /\ k \in 0 .. Size /\ 1 <= k + 1 /\ k + 1 - 1 = k /\ 1 \in 1 .. k
    BY <1>1
  <2>2. /\ SubSeq(Units(id), 1, k) = Part(id, 1, k) /\ Len(Part(id, 1, k)) = k + 1 - 1
        /\ \A l \in 1 .. k + 1 - 1 : Part(id, 1, k)[l] = <<id, 1 + l - 1>>
    BY <1>1, <2>1, PartIs
  <2>3. Part(id, 1, k)[1] = <<id, 1 + 1 - 1>>
    BY <2>1, <2>2
  <2>. QED  BY <2>1, <2>2, <2>3
<1>. DEFINE p == Part(id, 1, k)
<1>. HIDE DEF p
<1>3. p[1][2] = 1 /\ Len(p) = k
  BY <1>2 DEF p
<1>4. k < Size => Unpack(p) = "more"
  BY <1>1, <1>3 DEF Unpack
<1>5. k = Size => Unpack(p) = "message"
  BY <1>1, <1>3 DEF Unpack
<1>6. k = Size => p \in Message
  <2>1. SubSeq(Units(id), 1, Size) = Units(id)
    <3>1. Units(id) \in Message
      BY DEF Message
    <3>2. Units(id) \in Seq(Unit) /\ Len(Units(id)) = Size
      BY <3>1, MessageUnits
    <3>3. SubSeq(Units(id), 1, Len(Units(id))) = Units(id)
      BY <3>2, SubSeqFull
    <3>. QED  BY <3>2, <3>3
  <2>. QED  BY <1>2, <2>1 DEF Message, p
<1>. QED  BY <1>4, <1>5, <1>6 DEF p

(* Every portion a client writes goes on with its message, or starts one.     *)
LEMMA PortionIs ==
  ASSUME IInv, NEW f \in Fids, fids[f].open, fids[f].dir = "send", NEW w \in Portions(f)
  PROVE  w.n \in 0 .. MaxMsgs /\ Written(fids[f], w.u, w.rest)
<1>. DEFINE x == fids[f]
            h == half[f]
            new == Units(nmsg + 1)
<1>1. /\ Size \in Nat \ {0} /\ MaxMsgs \in Nat /\ nmsg \in 0 .. MaxMsgs
      /\ x.offset \in 0 .. Size - 1
      /\ Portioned(x, h)
  <2>1. x \in FidType
    BY DEF IInv, Typed
  <2>. QED  BY <2>1, PlumbAssumption DEF IInv, Typed, PortionsAgree, FidType
<1>2. \/ \E k \in 1 .. Len(h) : w = [u |-> SubSeq(h, 1, k),
                                     rest |-> SubSeq(h, Len(SubSeq(h, 1, k)) + 1, Len(h)), n |-> nmsg]
      \/ /\ nmsg # MaxMsgs /\ h = <<>>
         /\ \E k \in 1 .. Len(new) : w = [u |-> SubSeq(new, 1, k),
                                          rest |-> SubSeq(new, Len(SubSeq(new, 1, k)) + 1, Size),
                                          n |-> nmsg + 1]
      \/ /\ nmsg # MaxMsgs /\ h # <<>>
         /\ w = [u |-> new, rest |-> SubSeq(new, Len(new) + 1, Size), n |-> nmsg + 1]
  BY DEF Portions
<1>3. ASSUME NEW id \in 1 .. MaxMsgs, NEW k \in 0 .. Size
      PROVE  /\ SubSeq(Units(id), 1, k) = Part(id, 1, k) /\ Len(Part(id, 1, k)) = k
             /\ Part(id, 1, k) \in Seq(Unit)
             /\ SubSeq(Units(id), k + 1, Size) = Part(id, k + 1, Size)
             /\ Len(Part(id, k + 1, Size)) = Size - k
  <2>1. /\ id \in Nat /\ 1 \in 1 .. Size + 1 /\ 1 <= k + 1 /\ k + 1 - 1 = k
        /\ k + 1 \in 1 .. Size + 1 /\ Size \in 0 .. Size /\ k + 1 <= Size + 1
        /\ Size + 1 - (k + 1) = Size - k
    BY <1>1
  <2>2. /\ SubSeq(Units(id), 1, k) = Part(id, 1, k) /\ Len(Part(id, 1, k)) = k + 1 - 1
        /\ Part(id, 1, k) \in Seq(Unit)
    BY <2>1, PartIs
  <2>3. /\ SubSeq(Units(id), k + 1, Size) = Part(id, k + 1, Size)
        /\ Len(Part(id, k + 1, Size)) = Size + 1 - (k + 1)
    BY <2>1, PartIs
  <2>. QED  BY <2>1, <2>2, <2>3
<1>4. ASSUME NEW id \in 1 .. MaxMsgs, NEW k \in 1 .. Size PROVE Rest(Part(id, k + 1, Size))
  <2>1. CASE k < Size
    <3>1. k \in 1 .. Size - 1 /\ k \in 0 .. Size
      BY <1>1, <2>1
    <3>2. Part(id, k + 1, Size) = SubSeq(Units(id), k + 1, Size)
      BY <1>3, <3>1
    <3>. QED  BY <3>1, <3>2 DEF Rest
  <2>2. CASE k = Size
    <3>1. k + 1 \in 1 .. Size + 1 /\ Size \in 0 .. Size /\ k + 1 <= Size + 1 /\ id \in Nat
          /\ Size + 1 - (k + 1) = 0
      BY <1>1, <2>2
    <3>2. Part(id, k + 1, Size) \in Seq(Unit) /\ Len(Part(id, k + 1, Size)) = Size + 1 - (k + 1)
      BY <3>1, PartIs
    <3>3. Part(id, k + 1, Size) = <<>>
      BY <3>1, <3>2, EmptySeq
    <3>. QED  BY <3>3 DEF Rest
  <2>. QED  BY <1>1, <2>1, <2>2
<1>5. ASSUME h # <<>> PROVE \E id \in 1 .. MaxMsgs, j \in 1 .. Size - 1 :
                               /\ h = Part(id, j + 1, Size)
                               /\ x.offset # 0 => x.offset = j /\ x.writebuf = Part(id, 1, j)
  <2>1. PICK id \in 1 .. MaxMsgs, j \in 1 .. Size - 1 :
           /\ h = SubSeq(Units(id), j + 1, Size)
           /\ x.offset # 0 => x.offset = j /\ x.writebuf = SubSeq(Units(id), 1, j)
    BY <1>1, <1>5 DEF Portioned
  <2>2. j \in 0 .. Size
    BY <1>1
  <2>. QED  BY <1>3, <2>1, <2>2
<1>6. ASSUME h = <<>> PROVE x.offset = 0
  <2>1. SUFFICES ASSUME NEW id \in 1 .. MaxMsgs, NEW j \in 1 .. Size - 1,
                        h = SubSeq(Units(id), j + 1, Size)
                 PROVE  FALSE
    BY <1>1 DEF Portioned
  <2>2. j \in 0 .. Size
    BY <1>1
  <2>3. /\ SubSeq(Units(id), 1, j) = Part(id, 1, j) /\ Len(Part(id, 1, j)) = j
        /\ Part(id, 1, j) \in Seq(Unit)
        /\ SubSeq(Units(id), j + 1, Size) = Part(id, j + 1, Size)
        /\ Len(Part(id, j + 1, Size)) = Size - j
    BY ONLY <1>3, <2>2, Zenon
  <2>4. Len(h) = Size - j
    BY <2>1, <2>3
  <2>5. Len(h) = 0
    BY <1>6
  <2>. QED  BY <1>1, <2>4, <2>5
<1>7. nmsg # MaxMsgs => /\ nmsg + 1 \in 1 .. MaxMsgs /\ Len(new) = Size
                        /\ new = Part(nmsg + 1, 1, Size)
  <2>1. SUFFICES ASSUME nmsg # MaxMsgs
                 PROVE  nmsg + 1 \in 1 .. MaxMsgs /\ Len(new) = Size /\ new = Part(nmsg + 1, 1, Size)
    OBVIOUS
  <2>2. nmsg + 1 \in 1 .. MaxMsgs
    BY <1>1, <2>1
  <2>3. new \in Seq(Unit) /\ Len(new) = Size
    <3>1. new \in Message
      BY <2>2 DEF Message
    <3>. QED  BY <3>1, MessageUnits
  <2>4. SubSeq(new, 1, Len(new)) = new
    BY <2>3, SubSeqFull
  <2>5. Size \in 0 .. Size
    BY <1>1
  <2>. QED  BY <1>3, <2>2, <2>3, <2>4, <2>5
<1>. HIDE DEF h, x
<1>8. ASSUME NEW k \in 1 .. Len(h),
             w = [u |-> SubSeq(h, 1, k),
                  rest |-> SubSeq(h, Len(SubSeq(h, 1, k)) + 1, Len(h)), n |-> nmsg]
      PROVE  w.n \in 0 .. MaxMsgs /\ Written(x, w.u, w.rest)
  <2>1. h # <<>>
    BY <1>8
  <2>2. PICK id \in 1 .. MaxMsgs, j \in 1 .. Size - 1 :
           /\ h = Part(id, j + 1, Size)
           /\ x.offset # 0 => x.offset = j /\ x.writebuf = Part(id, 1, j)
    BY <1>5, <2>1
  <2>3. j \in 0 .. Size
    BY <1>1
  <2>4. /\ SubSeq(Units(id), 1, j) = Part(id, 1, j) /\ Len(Part(id, 1, j)) = j
         /\ Part(id, 1, j) \in Seq(Unit)
         /\ SubSeq(Units(id), j + 1, Size) = Part(id, j + 1, Size)
         /\ Len(Part(id, j + 1, Size)) = Size - j
    BY ONLY <1>3, <2>3, Zenon
  <2>5. /\ j \in 0 .. Size /\ id \in Nat /\ Len(h) = Size - j
    BY <2>3, <2>2, <2>4
  <2>6. k \in 0 .. Size - j /\ j + k \in 1 .. Size /\ j + k \in 0 .. Size /\ j <= j + k
        /\ j + 1 \in 1 .. Size + 1 /\ j + 1 <= (j + k) + 1 /\ (j + k) + 1 - (j + 1) = k
    BY <1>1, <1>8, <2>5
  <2>7. /\ SubSeq(h, 1, k) = Part(id, j + 1, j + k)
        /\ SubSeq(h, k + 1, Size - j) = Part(id, j + k + 1, Size)
    BY <2>2, <2>5, <2>6, PartOfPart
  <2>8. /\ Len(Part(id, j + 1, j + k)) = k /\ Part(id, j + 1, j + k) \in Seq(Unit)
        /\ Part(id, j + 1, j + k)[1] = <<id, j + 1>>
    <3>1. /\ Part(id, j + 1, j + k) \in Seq(Unit)
          /\ Len(Part(id, j + 1, j + k)) = (j + k) + 1 - (j + 1)
          /\ \A l \in 1 .. (j + k) + 1 - (j + 1) : Part(id, j + 1, j + k)[l] = <<id, (j + 1) + l - 1>>
      BY <2>5, <2>6, PartIs
    <3>2. 1 \in 1 .. (j + k) + 1 - (j + 1) /\ (j + 1) + 1 - 1 = j + 1
      BY <2>5, <2>6, <1>8
    <3>3. Part(id, j + 1, j + k)[1] = <<id, (j + 1) + 1 - 1>>
      BY <3>1, <3>2
    <3>. QED  BY <2>6, <3>1, <3>2, <3>3
  <2>9. /\ w.u = Part(id, j + 1, j + k) /\ w.rest = Part(id, j + k + 1, Size) /\ w.n = nmsg
        /\ Len(w.u) = k
    BY <1>8, <2>5, <2>7, <2>8
  <2>10. CASE x.offset = 0
    <3>1. Sofar(x, w.u) = w.u
      BY <2>10 DEF Sofar
    <3>2. w.u[1][2] = j + 1 /\ j + 1 # 1
      BY <2>8, <2>9, <1>1
    <3>3. Unpack(w.u) = "bad"
      BY <3>2 DEF Unpack
    <3>4. Rest(w.rest)
      BY <1>4, <2>6, <2>9
    <3>. QED  BY <1>1, <2>9, <3>1, <3>3, <3>4 DEF Written
  <2>11. CASE x.offset # 0
    <3>1. Sofar(x, w.u) = SubSeq(Part(id, 1, j), 1, j) \o Part(id, j + 1, j + k)
      BY <2>2, <2>9, <2>11 DEF Sofar
    <3>2. Sofar(x, w.u) = Part(id, 1, j + k)
      BY <2>5, <2>6, <3>1, PartAfterPart
    <3>3. CASE j + k < Size
      <4>1. x.offset + Len(w.u) = j + k /\ j + k \in 1 .. Size - 1
        <5>1. x.offset = j /\ Len(w.u) = k
          BY <2>2, <2>9, <2>11
        <5>. QED  BY <1>1, <2>6, <3>3, <5>1
      <4>2. Unpack(Sofar(x, w.u)) = "more"
        BY <2>6, <3>2, <3>3, UnpackPart
      <4>3. /\ Sofar(x, w.u) = SubSeq(Units(id), 1, j + k)
            /\ w.rest = SubSeq(Units(id), j + k + 1, Size)
        BY <1>3, <2>6, <2>9, <3>2
      <4>. QED  BY <1>1, <2>9, <4>1, <4>2, <4>3 DEF Written
    <3>4. CASE j + k = Size
      <4>1. Unpack(Sofar(x, w.u)) = "message" /\ Sofar(x, w.u) \in Message
        BY <2>6, <3>2, <3>4, UnpackPart
      <4>2. Rest(w.rest)
        BY <1>4, <2>6, <2>9
      <4>. QED  BY <1>1, <2>9, <4>1, <4>2 DEF Written
    <3>. QED  BY <1>1, <2>6, <3>3, <3>4
  <2>. QED  BY <2>10, <2>11
<1>9. ASSUME nmsg # MaxMsgs, h = <<>>, NEW k \in 1 .. Len(new),
             w = [u |-> SubSeq(new, 1, k),
                  rest |-> SubSeq(new, Len(SubSeq(new, 1, k)) + 1, Size), n |-> nmsg + 1]
      PROVE  w.n \in 0 .. MaxMsgs /\ Written(x, w.u, w.rest)
  <2>1. PICK id \in 1 .. MaxMsgs : id = nmsg + 1
    BY <1>7, <1>9
  <2>2. k \in 1 .. Size /\ k \in 0 .. Size
    BY <1>1, <1>7, <1>9
  <2>3. /\ w.u = Part(id, 1, k) /\ Len(w.u) = k /\ w.rest = Part(id, k + 1, Size)
        /\ w.n \in 0 .. MaxMsgs
        /\ w.u = SubSeq(Units(id), 1, k) /\ w.rest = SubSeq(Units(id), k + 1, Size)
    <3>1. /\ SubSeq(Units(id), 1, k) = Part(id, 1, k) /\ Len(Part(id, 1, k)) = k
          /\ Part(id, 1, k) \in Seq(Unit)
          /\ SubSeq(Units(id), k + 1, Size) = Part(id, k + 1, Size)
          /\ Len(Part(id, k + 1, Size)) = Size - k
      BY ONLY <1>3, <2>2, Zenon
    <3>2. w.u = SubSeq(Units(id), 1, k) /\ Len(SubSeq(Units(id), 1, k)) = k /\ w.n = id
          /\ w.rest = SubSeq(Units(id), Len(SubSeq(Units(id), 1, k)) + 1, Size)
      BY <1>9, <2>1, <3>1
    <3>3. w.rest = SubSeq(Units(id), k + 1, Size)
      BY <3>2
    <3>4. w.u = Part(id, 1, k) /\ w.rest = Part(id, k + 1, Size)
      BY ONLY <3>1, <3>2, <3>3, Zenon
    <3>5. Len(w.u) = k
      BY ONLY <3>1, <3>4, Zenon
    <3>6. w.n \in 0 .. MaxMsgs
      BY <1>1, <3>2
    <3>. QED  BY ONLY <3>2, <3>3, <3>4, <3>5, <3>6, Zenon
  <2>4. x.offset = 0 /\ Sofar(x, w.u) = w.u
    BY <1>6, <1>9 DEF Sofar
  <2>5. CASE k < Size
    <3>1. Unpack(w.u) = "more"
      BY <2>2, <2>3, <2>5, UnpackPart
    <3>2. x.offset + Len(w.u) = k /\ k \in 1 .. Size - 1
      BY <1>1, <2>2, <2>3, <2>4, <2>5
    <3>. QED  BY <2>3, <2>4, <3>1, <3>2 DEF Written
  <2>6. CASE k = Size
    <3>1. Unpack(w.u) = "message" /\ w.u \in Message
      BY <2>2, <2>3, <2>6, UnpackPart
    <3>2. Rest(w.rest)
      BY <1>4, <2>2, <2>3
    <3>. QED  BY <2>3, <2>4, <3>1, <3>2 DEF Written
  <2>. QED  BY <1>1, <2>2, <2>5, <2>6
<1>10. ASSUME nmsg # MaxMsgs, h # <<>>,
              w = [u |-> new, rest |-> SubSeq(new, Len(new) + 1, Size), n |-> nmsg + 1]
       PROVE  w.n \in 0 .. MaxMsgs /\ Written(x, w.u, w.rest)
  <2>1. PICK id \in 1 .. MaxMsgs : id = nmsg + 1
    BY <1>7, <1>10
  <2>2. Size \in 1 .. Size /\ Size \in 0 .. Size
    BY <1>1
  <2>3. /\ w.u = Part(id, 1, Size) /\ Len(w.u) = Size /\ w.rest = Part(id, Size + 1, Size)
        /\ w.n \in 0 .. MaxMsgs /\ w.u \in Seq(Unit)
    <3>1. /\ SubSeq(Units(id), 1, Size) = Part(id, 1, Size) /\ Len(Part(id, 1, Size)) = Size
          /\ Part(id, 1, Size) \in Seq(Unit)
          /\ SubSeq(Units(id), Size + 1, Size) = Part(id, Size + 1, Size)
          /\ Len(Part(id, Size + 1, Size)) = Size - Size
      BY ONLY <1>3, <2>2, Zenon
    <3>2. /\ w.u = Units(id) /\ Len(Units(id)) = Size /\ w.n = id
          /\ w.rest = SubSeq(Units(id), Len(Units(id)) + 1, Size)
          /\ Units(id) = Part(id, 1, Size)
      BY <1>7, <1>10, <2>1
    <3>3. w.rest = SubSeq(Units(id), Size + 1, Size)
      BY <3>2
    <3>. QED  BY <1>1, <3>1, <3>2, <3>3
  <2>4. Rest(w.rest)
    BY <1>4, <2>2, <2>3
  <2>5. CASE x.offset = 0
    <3>1. Sofar(x, w.u) = w.u
      BY <2>5 DEF Sofar
    <3>2. Unpack(w.u) = "message" /\ w.u \in Message
      BY <2>2, <2>3, UnpackPart
    <3>. QED  BY <2>3, <2>4, <3>1, <3>2 DEF Written
  <2>6. CASE x.offset # 0
    <3>1. PICK e \in 1 .. MaxMsgs, j \in 1 .. Size - 1 : x.offset = j /\ x.writebuf = Part(e, 1, j)
      BY <1>5, <1>10, <2>6
    <3>2. j \in 0 .. Size /\ e \in Nat
      BY <1>1
    <3>3. Part(e, 1, j) \in Seq(Unit) /\ Len(Part(e, 1, j)) = j
      BY <1>3, <3>2
    <3>4. Sofar(x, w.u) = Part(e, 1, j) \o w.u
      <4>1. SubSeq(Part(e, 1, j), 1, j) = Part(e, 1, j)
        BY <3>3, SubSeqFull
      <4>. QED  BY <2>6, <3>1, <4>1 DEF Sofar
    <3>5. Len(Sofar(x, w.u)) = j + Size
      BY <2>3, <3>3, <3>4, ConcatProperties
    <3>6. Unpack(Sofar(x, w.u)) = "bad"
      BY <1>1, <3>5 DEF Unpack
    <3>. QED  BY <2>3, <2>4, <3>6 DEF Written
  <2>. QED  BY <2>5, <2>6
<1>. QED  BY <1>2, <1>8, <1>9, <1>10 DEF x

(* Twrite, cases apart: the fid is f, the portion w.u.                        *)
Clean(f) == [fids EXCEPT ![f].offset = 0, ![f].writebuf = <<>>]

(* A fid cleaned of what it has written stays the same in all else.           *)
LEMMA CleanFids ==
  ASSUME IInv, NEW f \in Fids
  PROVE  /\ Clean(f) \in [Fids -> FidType]
         /\ Clean(f)[f].offset = 0
         /\ \A g \in Fids : /\ Clean(f)[g].busy = fids[g].busy /\ Clean(f)[g].open = fids[g].open
                            /\ Clean(f)[g].mode = fids[g].mode /\ Clean(f)[g].dir = fids[g].dir
                            /\ g # f => Clean(f)[g] = fids[g]
<1>1. fids \in [Fids -> FidType]
  BY DEF IInv, Typed
<1>2. PICK y \in FidType : y = fids[f]
  BY <1>1
<1>. DEFINE x == [y EXCEPT !.offset = 0, !.writebuf = <<>>]
<1>3. Clean(f) = [fids EXCEPT ![f] = x]
  BY <1>1, <1>2 DEF Clean
<1>4. /\ x \in FidType /\ x.offset = 0 /\ x.busy = y.busy /\ x.open = y.open
      /\ x.mode = y.mode /\ x.dir = y.dir
  <2>1. 0 \in 0 .. Size - 1 /\ <<>> \in Parts
    BY PlumbAssumption DEF Parts
  <2>. QED  BY <2>1 DEF FidType
<1>. HIDE DEF x
<1>5. Clean(f)[f] = x /\ \A g \in Fids : g # f => Clean(f)[g] = fids[g]
  BY <1>1, <1>3
<1>6. Clean(f) \in [Fids -> FidType]
  BY <1>1, <1>3, <1>4
<1>. QED  BY <1>2, <1>4, <1>5, <1>6

(* It drops the portion, disposes of the message, or keeps what has come.     *)
LEMMA TwriteCases ==
  ASSUME NEW f, NEW u, NEW port \in BOOLEAN, NEW h, NEW rest,
         Written(fids[f], u, rest), Twrite(f, u, port, h)
  PROVE  \/ /\ Rest(rest) /\ fids' = Clean(f)
            /\ UNCHANGED <<holdq, sendq, readq, wait, reply>>
         \/ /\ Rest(rest) /\ Sofar(fids[f], u) \in Message
            /\ Dispose(Sofar(fids[f], u), h, Clean(f))
         \/ /\ fids[f].offset + Len(u) \in 1 .. Size - 1
            /\ \E id \in 1 .. MaxMsgs :
                  /\ Sofar(fids[f], u) = SubSeq(Units(id), 1, fids[f].offset + Len(u))
                  /\ rest = SubSeq(Units(id), fids[f].offset + Len(u) + 1, Size)
            /\ fids' = [fids EXCEPT ![f].offset = @ + Len(u), ![f].writebuf = Sofar(fids[f], u)]
            /\ UNCHANGED <<holdq, sendq, readq, wait, reply>>
<1>. DEFINE all == Sofar(fids[f], u)
<1>1. Twrite(f, u, port, h) =
        CASE Unpack(all) = "more" ->
              /\ fids' = [fids EXCEPT ![f].offset = @ + Len(u), ![f].writebuf = all]
              /\ UNCHANGED <<holdq, sendq, readq, wait, reply>>
         [] Unpack(all) = "message" /\ port -> Dispose(all, h, Clean(f))
         [] OTHER -> fids' = Clean(f) /\ UNCHANGED <<holdq, sendq, readq, wait, reply>>
  BY DEF Twrite, Sofar, Clean
<1>. HIDE DEF all
<1>2. CASE Unpack(all) = "bad" /\ Rest(rest)
  BY <1>1, <1>2
<1>3. CASE Unpack(all) = "message" /\ Rest(rest) /\ all \in Message
  <2>1. CASE port
    BY <1>1, <1>3, <2>1 DEF all
  <2>2. CASE ~port
    BY <1>1, <1>3, <2>2
  <2>. QED  BY <2>1, <2>2
<1>4. CASE /\ Unpack(all) = "more" /\ fids[f].offset + Len(u) \in 1 .. Size - 1
           /\ \E id \in 1 .. MaxMsgs : /\ all = SubSeq(Units(id), 1, fids[f].offset + Len(u))
                                       /\ rest = SubSeq(Units(id), fids[f].offset + Len(u) + 1, Size)
  BY <1>1, <1>4 DEF all
<1>. QED  BY <1>2, <1>3, <1>4 DEF Written, all

(* Clients other than f are where they were in their messages.                *)
LEMMA PortionsElsewhere ==
  ASSUME IInv, NEW f \in Fids, fids[f].open, fids[f].dir = "send", fids'[f].open,
         Portioned(fids'[f], half'[f]),
         \A g \in Fids : /\ fids'[g].open = fids[g].open /\ fids'[g].dir = fids[g].dir
                         /\ g # f => /\ fids'[g].writebuf = fids[g].writebuf
                                     /\ g \notin OpenOn("port") => fids'[g].offset = fids[g].offset
                                     /\ half'[g] = half[g]
  PROVE  PortionsAgree'
<1>1. ASSUME NEW g \in Fids, g # f
      PROVE  /\ ~fids'[g].open => fids'[g].offset = 0 /\ half'[g] = <<>>
             /\ fids'[g].open /\ fids'[g].dir = "send" => Portioned(fids'[g], half'[g])
  <2>1. CASE g \in OpenOn("port")
    BY <1>1, <2>1 DEF OpenOn
  <2>2. CASE g \notin OpenOn("port")
    <3>1. /\ fids'[g].open = fids[g].open /\ fids'[g].dir = fids[g].dir
          /\ fids'[g].writebuf = fids[g].writebuf /\ fids'[g].offset = fids[g].offset
          /\ half'[g] = half[g]
      BY <1>1, <2>2
    <3>2. /\ ~fids[g].open => fids[g].offset = 0 /\ half[g] = <<>>
          /\ fids[g].open /\ fids[g].dir = "send" => Portioned(fids[g], half[g])
      BY DEF IInv, PortionsAgree
    <3>3. Portioned(fids[g], half[g]) => Portioned(fids'[g], half'[g])
      BY <3>1 DEF Portioned
    <3>. QED  BY <3>1, <3>2, <3>3
  <2>. QED  BY <2>1, <2>2
<1>. QED  BY <1>1 DEF PortionsAgree

(* dispose of a message, and drainqueue.                                      *)
LEMMA DisposeDoes ==
  ASSUME IInv, NEW f \in Fids, f \notin OpenOn("port"), NEW m \in Message, NEW h \in BOOLEAN,
         Dispose(m, h, Clean(f)), UNCHANGED <<nopen, fopen, rulesref, opening>>
  PROVE  /\ FidsAgree' /\ ListsAgree' /\ RulesHeld'
         /\ \A d : OpenOn(d)' = OpenOn(d)
         /\ readq' \in Seq(ReadType) /\ fids' \in [Fids -> FidType] /\ holdq' \in Seq(Message)
         /\ wait' \in [Fids -> BOOLEAN] /\ reply' \in [Fids -> Replies]
         /\ SendsOK(sendq', OpenOn("port"))
         /\ \A k \in 1 .. Len(sendq') : sendq'[k].nleft # 0
         /\ ReadsOK(readq', wait', inhand, OpenOn("port"))
         /\ holdq' # <<>> => fopen["port"] = <<>>
         /\ ~Overtake => Quiet(sendq', readq')
         /\ \A g \in Fids : /\ fids'[g].open = fids[g].open /\ fids'[g].dir = fids[g].dir
                            /\ g # f => fids'[g].writebuf = fids[g].writebuf
                            /\ g # f /\ g \notin OpenOn("port") => fids'[g].offset = fids[g].offset
         /\ fids'[f].offset = 0
<1>1. /\ Clean(f) \in [Fids -> FidType]
      /\ Clean(f)[f].offset = 0
      /\ \A g \in Fids : /\ Clean(f)[g].busy = fids[g].busy /\ Clean(f)[g].open = fids[g].open
                         /\ Clean(f)[g].mode = fids[g].mode /\ Clean(f)[g].dir = fids[g].dir
                         /\ g # f => Clean(f)[g] = fids[g]
  BY CleanFids
<1>2. /\ fopen["port"] \in Seq(Fids) /\ nopen["port"] = Len(fopen["port"])
      /\ \A i, j \in 1 .. Len(fopen["port"]) : fopen["port"][i] = fopen["port"][j] => i = j
      /\ \A g \in Fids : g \in OpenOn("port") <=>
                            \E i \in 1 .. Len(fopen["port"]) : fopen["port"][i] = g
  <2>1. "port" \in Files
    BY DEF Files
  <2>. QED  BY <2>1 DEF IInv, ListsAgree
<1>3. CASE nopen["port"] = 0
  <2>1. /\ holdq' = IF h THEN Append(holdq, m) ELSE holdq
        /\ fids' = Clean(f) /\ UNCHANGED <<sendq, readq, wait, reply>>
    BY <1>3 DEF Dispose
  <2>2. fopen["port"] = <<>>
    <3>1. PICK list \in Seq(Fids) : list = fopen["port"]
      BY <1>2
    <3>2. Len(list) = 0
      BY <1>2, <1>3, <3>1
    <3>3. list = <<>>
      BY <3>2, EmptySeq
    <3>. QED  BY <3>1, <3>3
  <2>3. holdq' \in Seq(Message)
    BY <2>1 DEF IInv, Typed
  <2>4. /\ FidsAgree' /\ ListsAgree' /\ RulesHeld'
        /\ \A d : OpenOn(d)' = OpenOn(d)
    BY <1>1, <2>1, SameFiles DEF IInv
  <2>. QED  BY <1>1, <2>1, <2>2, <2>3, <2>4 DEF IInv, Typed
<1>4. CASE nopen["port"] # 0
  <2>. DEFINE sq == Append(sendq, Sendreq(m, fopen["port"]))
  <2>1. Drain(Clean(f), sq, readq) /\ holdq' = holdq
    BY <1>4 DEF Dispose, Post
  <2>2. SendsOK(sq, OpenOn("port"))
    <3>1. \A i \in 1 .. Len(fopen["port"]) : fopen["port"][i] \in OpenOn("port")
      <4>1. \A i \in 1 .. Len(fopen["port"]) : fopen["port"][i] \in Fids
        BY <1>2
      <4>. QED  BY <4>1, <1>2
    <3>2. Sendreq(m, fopen["port"]) \in SendType /\ SendOK(Sendreq(m, fopen["port"]), OpenOn("port"))
      BY <1>2, <3>1, SendreqOK
    <3>3. sendq \in Seq(SendType) /\ \A k \in 1 .. Len(sendq) : SendOK(sendq[k], OpenOn("port"))
      BY DEF IInv, SendsOK
    <3>4. /\ sq \in Seq(SendType) /\ Len(sq) = Len(sendq) + 1 /\ Len(sendq) \in Nat
          /\ \A k \in 1 .. Len(sendq) : sq[k] = sendq[k]
          /\ sq[Len(sendq) + 1] = Sendreq(m, fopen["port"])
      BY <3>2, <3>3, AppendList
    <3>. HIDE DEF sq
    <3>5. ASSUME NEW k \in 1 .. Len(sq) PROVE SendOK(sq[k], OpenOn("port"))
      <4>1. CASE k \in 1 .. Len(sendq)
        BY <3>3, <3>4, <4>1
      <4>2. CASE k = Len(sendq) + 1
        BY <3>2, <3>4, <4>2
      <4>. QED  BY <3>4, <4>1, <4>2
    <3>. QED  BY <3>4, <3>5 DEF SendsOK
  <2>. HIDE DEF sq
  <2>3. /\ readq \in Seq(ReadType) /\ inhand \in SUBSET ReadType /\ holdq \in Seq(Message)
        /\ ReadsOK(readq, wait, inhand, OpenOn("port"))
        /\ holdq # <<>> => fopen["port"] = <<>>
    BY DEF IInv, Typed
  <2>4. /\ FidsAgree' /\ ListsAgree' /\ RulesHeld'
        /\ \A d : OpenOn(d)' = OpenOn(d)
        /\ readq' \in Seq(ReadType) /\ fids' \in [Fids -> FidType]
        /\ wait' \in [Fids -> BOOLEAN] /\ reply' \in [Fids -> Replies]
        /\ SendsOK(sendq', OpenOn("port"))
        /\ \A k \in 1 .. Len(sendq') : sendq'[k].nleft # 0
        /\ ReadsOK(readq', wait', inhand, OpenOn("port"))
        /\ ~Overtake => Quiet(sendq', readq')
        /\ \A g \in Fids : /\ fids'[g].open = fids[g].open /\ fids'[g].dir = fids[g].dir
                           /\ fids'[g].writebuf = Clean(f)[g].writebuf
                           /\ g \notin OpenOn("port") => fids'[g].offset = Clean(f)[g].offset
    BY <1>1, <2>1, <2>2, <2>3, DrainKeeps
  <2>. QED  BY <1>1, <2>1, <2>3, <2>4
<1>. QED  BY <1>3, <1>4

(* Twrite to "send", whichever of the three it comes to.                      *)
LEMMA WriteKeeps ==
  ASSUME IInv, NEW f \in Fids, Write(f) PROVE IInv'
<1>1. PICK w \in Portions(f), port \in BOOLEAN, h \in BOOLEAN :
         /\ Twrite(f, w.u, port, h)
         /\ half' = [half EXCEPT ![f] = w.rest] /\ nmsg' = w.n
  BY DEF Write
<1>2. /\ fids[f].open /\ fids[f].dir = "send" /\ f \notin OpenOn("port")
      /\ UNCHANGED <<nopen, fopen, rulesref, opening, inhand>>
  BY DEF Write, OpenOn
<1>3. w.n \in 0 .. MaxMsgs /\ Written(fids[f], w.u, w.rest)
  BY <1>2, PortionIs
<1>4. /\ nmsg' \in 0 .. MaxMsgs /\ DOMAIN half' = Fids /\ half'[f] = w.rest
      /\ \A g \in Fids : g # f => half'[g] = half[g]
  BY <1>1, <1>3 DEF IInv, Typed
<1>5. \/ /\ Rest(w.rest) /\ fids' = Clean(f)
         /\ UNCHANGED <<holdq, sendq, readq, wait, reply>>
      \/ /\ Rest(w.rest) /\ Sofar(fids[f], w.u) \in Message
         /\ Dispose(Sofar(fids[f], w.u), h, Clean(f))
      \/ /\ fids[f].offset + Len(w.u) \in 1 .. Size - 1
         /\ \E id \in 1 .. MaxMsgs :
               /\ Sofar(fids[f], w.u) = SubSeq(Units(id), 1, fids[f].offset + Len(w.u))
               /\ w.rest = SubSeq(Units(id), fids[f].offset + Len(w.u) + 1, Size)
         /\ fids' = [fids EXCEPT ![f].offset = @ + Len(w.u), ![f].writebuf = Sofar(fids[f], w.u)]
         /\ UNCHANGED <<holdq, sendq, readq, wait, reply>>
  BY <1>1, <1>3, TwriteCases
<1>6. Rest(w.rest) /\ fids'[f].offset = 0 => Portioned(fids'[f], half'[f])
  BY <1>4 DEF Rest, Portioned
<1>7. ASSUME Rest(w.rest), fids' = Clean(f), UNCHANGED <<holdq, sendq, readq, wait, reply>>
      PROVE  IInv'
  <2>1. /\ Clean(f) \in [Fids -> FidType]
        /\ Clean(f)[f].offset = 0
        /\ \A g \in Fids : /\ Clean(f)[g].busy = fids[g].busy /\ Clean(f)[g].open = fids[g].open
                           /\ Clean(f)[g].mode = fids[g].mode /\ Clean(f)[g].dir = fids[g].dir
                           /\ g # f => Clean(f)[g] = fids[g]
    BY CleanFids
  <2>2. /\ FidsAgree' /\ ListsAgree' /\ RulesHeld'
        /\ \A d : OpenOn(d)' = OpenOn(d)
    BY <1>2, <1>7, <2>1, SameFiles DEF IInv
  <2>3. PortionsAgree'
    BY <1>2, <1>4, <1>6, <1>7, <2>1, PortionsElsewhere
  <2>4. Typed'
    BY <1>2, <1>4, <1>7, <2>1 DEF IInv, Typed
  <2>. QED  BY <1>2, <1>7, <2>2, <2>3, <2>4 DEF IInv
<1>8. ASSUME Rest(w.rest), Sofar(fids[f], w.u) \in Message,
             Dispose(Sofar(fids[f], w.u), h, Clean(f))
      PROVE  IInv'
  <2>1. /\ FidsAgree' /\ ListsAgree' /\ RulesHeld'
        /\ \A d : OpenOn(d)' = OpenOn(d)
        /\ readq' \in Seq(ReadType) /\ fids' \in [Fids -> FidType] /\ holdq' \in Seq(Message)
        /\ wait' \in [Fids -> BOOLEAN] /\ reply' \in [Fids -> Replies]
        /\ SendsOK(sendq', OpenOn("port"))
        /\ \A k \in 1 .. Len(sendq') : sendq'[k].nleft # 0
        /\ ReadsOK(readq', wait', inhand, OpenOn("port"))
        /\ holdq' # <<>> => fopen["port"] = <<>>
        /\ ~Overtake => Quiet(sendq', readq')
        /\ \A g \in Fids : /\ fids'[g].open = fids[g].open /\ fids'[g].dir = fids[g].dir
                           /\ g # f => fids'[g].writebuf = fids[g].writebuf
                           /\ g # f /\ g \notin OpenOn("port") => fids'[g].offset = fids[g].offset
        /\ fids'[f].offset = 0
    BY <1>2, <1>8, DisposeDoes
  <2>2. PortionsAgree'
    BY <1>2, <1>4, <1>6, <1>8, <2>1, PortionsElsewhere
  <2>3. sendq' \in Seq(SendType)
    BY <2>1 DEF SendsOK
  <2>4. Typed'
    BY <1>2, <1>4, <2>1, <2>3 DEF IInv, Typed
  <2>. QED  BY <1>2, <2>1, <2>2, <2>4 DEF IInv
<1>9. ASSUME fids[f].offset + Len(w.u) \in 1 .. Size - 1,
             NEW id \in 1 .. MaxMsgs,
             Sofar(fids[f], w.u) = SubSeq(Units(id), 1, fids[f].offset + Len(w.u)),
             w.rest = SubSeq(Units(id), fids[f].offset + Len(w.u) + 1, Size),
             fids' = [fids EXCEPT ![f].offset = @ + Len(w.u), ![f].writebuf = Sofar(fids[f], w.u)],
             UNCHANGED <<holdq, sendq, readq, wait, reply>>
      PROVE  IInv'
  <2>1. PICK n \in 1 .. Size - 1 : n = fids[f].offset + Len(w.u)
    BY <1>9
  <2>2. PICK u : u = Sofar(fids[f], w.u)
    OBVIOUS
  <2>3. PICK y \in FidType : y = fids[f]
    BY DEF IInv, Typed
  <2>. DEFINE x == [y EXCEPT !.offset = n, !.writebuf = u]
  <2>4. fids' = [fids EXCEPT ![f] = x]
    BY <1>9, <2>1, <2>2, <2>3 DEF IInv, Typed
  <2>5. u \in Parts /\ n \in 0 .. Size - 1
    <3>1. Units(id) \in Message
      BY DEF Message
    <3>. QED  BY <1>9, <2>1, <2>2, <3>1 DEF Parts
  <2>6. /\ x \in FidType /\ x.offset = n /\ x.writebuf = u
        /\ x.busy = y.busy /\ x.open = y.open /\ x.mode = y.mode /\ x.dir = y.dir
    BY <2>5 DEF FidType
  <2>. HIDE DEF x
  <2>7. /\ fids' \in [Fids -> FidType] /\ fids'[f] = x
        /\ \A g \in Fids : g # f => fids'[g] = fids[g]
    BY <2>4, <2>6 DEF IInv, Typed
  <2>8. \A g \in Fids : /\ fids'[g].busy = fids[g].busy /\ fids'[g].open = fids[g].open
                        /\ fids'[g].mode = fids[g].mode /\ fids'[g].dir = fids[g].dir
    BY <2>3, <2>6, <2>7
  <2>9. /\ FidsAgree' /\ ListsAgree' /\ RulesHeld'
        /\ \A d : OpenOn(d)' = OpenOn(d)
    BY <1>2, <2>8, SameFiles DEF IInv
  <2>10. Portioned(fids'[f], half'[f])
    <3>1. half'[f] = SubSeq(Units(id), n + 1, Size) /\ u = SubSeq(Units(id), 1, n)
      BY <1>4, <1>9, <2>1, <2>2
    <3>2. fids'[f].offset = n /\ fids'[f].writebuf = u
      BY <2>6, <2>7
    <3>3. Portioned(x, half'[f])
      BY <2>6, <3>1 DEF Portioned
    <3>. QED  BY <2>7, <3>3
  <2>11. PortionsAgree'
    BY <1>2, <1>4, <2>7, <2>8, <2>10, PortionsElsewhere
  <2>12. Typed'
    BY <1>2, <1>4, <1>9, <2>7 DEF IInv, Typed
  <2>. QED  BY <1>2, <1>9, <2>9, <2>11, <2>12 DEF IInv
<1>. QED  BY <1>5, <1>7, <1>8, <1>9

(* removesenders, of one send.                                                *)
Drop(f, x) ==
    LET I == {i \in 1 .. Len(x.fid) : x.fid[i] = f}
        i == CHOOSE i \in I : \A j \in I : i <= j
    IN IF I = {} THEN x ELSE [x EXCEPT !.fid[i] = Nil, !.nleft = @ - 1]

(* A message loses one reader of those it waits for.                          *)
LEMMA DropDoes ==
  ASSUME NEW x \in SendType, NEW P, SendOK(x, P), NEW f \in Fids
  PROVE  /\ Drop(f, x) \in SendType /\ SendOK(Drop(f, x), P \ {f})
         /\ Len(Drop(f, x).fid) = Len(x.fid)
         /\ \A l \in 1 .. Len(x.fid) : Drop(f, x).fid[l] \in {x.fid[l], Nil}
         /\ Drop(f, x).msg = x.msg
         /\ \A g \in Fids : g # f => (Awaits(Drop(f, x), g) <=> Awaits(x, g))
<1>. DEFINE I == {i \in 1 .. Len(x.fid) : x.fid[i] = f}
            i == CHOOSE i \in I : \A j \in I : i <= j
            z == [x EXCEPT !.fid[i] = Nil, !.nleft = @ - 1]
<1>1. /\ x.fid \in Seq(Fids \cup {Nil}) /\ Len(x.fid) \in Nat /\ f # Nil /\ x.nleft \in Int
      /\ x.nleft = Cardinality(Entries(x))
  BY PlumbAssumption DEF SendType, SendOK
<1>2. I \subseteq Entries(x)
  BY <1>1 DEF Entries
<1>3. CASE I = {}
  <2>1. Drop(f, x) = x
    BY <1>3 DEF Drop
  <2>2. \A l \in Entries(x) : x.fid[l] # f
    BY <1>3 DEF Entries
  <2>3. SendOK(x, P \ {f})
    BY <2>2 DEF SendOK
  <2>. QED  BY <2>1, <2>3
<1>4. CASE I # {}
  <2>1. Drop(f, x) = z
    BY <1>4 DEF Drop
  <2>2. i \in I
    <3>1. I \subseteq 1 .. Len(x.fid)
      OBVIOUS
    <3>. HIDE DEF I
    <3>2. \E j \in I : \A l \in I : j <= l
      BY <1>1, <1>4, <3>1, LeastExists
    <3>. QED  BY <3>2
  <2>3. i \in 1 .. Len(x.fid) /\ x.fid[i] = f /\ i \in Entries(x)
    BY <1>2, <2>2
  <2>. HIDE DEF i
  <2>4. /\ z \in SendType /\ Len(z.fid) = Len(x.fid) /\ z.nleft = x.nleft - 1
        /\ \A l \in 1 .. Len(x.fid) : z.fid[l] = IF l = i THEN Nil ELSE x.fid[l]
        /\ z.msg = x.msg
    <3>. DEFINE s == [x.fid EXCEPT ![i] = Nil]
    <3>1. s \in Seq(Fids \cup {Nil}) /\ Len(s) = Len(x.fid)
          /\ \A l \in 1 .. Len(x.fid) : s[l] = IF l = i THEN Nil ELSE x.fid[l]
      BY <1>1, <2>3, ExceptSeq
    <3>2. z = [[x EXCEPT !.fid = s] EXCEPT !.nleft = x.nleft - 1]
      OBVIOUS
    <3>. HIDE DEF s
    <3>3. z \in SendType /\ z.fid = s /\ z.nleft = x.nleft - 1 /\ z.msg = x.msg
      <4>. HIDE DEF z
      <4>1. /\ [x EXCEPT !.fid = s] \in SendType /\ [x EXCEPT !.fid = s].fid = s
            /\ [x EXCEPT !.fid = s].msg = x.msg
        BY <3>1 DEF SendType
      <4>2. PICK y \in SendType : y = [x EXCEPT !.fid = s]
        BY <4>1
      <4>3. /\ [y EXCEPT !.nleft = x.nleft - 1] \in SendType
            /\ [y EXCEPT !.nleft = x.nleft - 1].fid = y.fid
            /\ [y EXCEPT !.nleft = x.nleft - 1].nleft = x.nleft - 1
            /\ [y EXCEPT !.nleft = x.nleft - 1].msg = y.msg
        BY <1>1 DEF SendType
      <4>. QED  BY <3>2, <4>1, <4>2, <4>3
    <3>. QED  BY <3>1, <3>3
  <2>. HIDE DEF z
  <2>5. Entries(z) = Entries(x) \ {i}
    BY <2>4 DEF Entries
  <2>6. z.nleft = Cardinality(Entries(z))
    <3>1. IsFiniteSet(1 .. Len(x.fid))
      <4>1. PICK n \in Nat : n = Len(x.fid)
        BY <1>1
      <4>2. IsFiniteSet(1 .. n)
        BY FS_Interval
      <4>. QED  BY <4>1, <4>2
    <3>2. Entries(x) \subseteq 1 .. Len(x.fid)
      BY DEF Entries
    <3>3. Cardinality(Entries(x) \ {i}) = Cardinality(Entries(x)) - 1
      BY <2>3, <3>1, <3>2, OneLess
    <3>. QED  BY <1>1, <2>4, <2>5, <3>3
  <2>7. \A l \in Entries(z) : l \in Entries(x) /\ l # i /\ z.fid[l] = x.fid[l] /\ x.fid[l] # f
    <3>1. \A l \in Entries(z) : l \in Entries(x) /\ l # i /\ z.fid[l] = x.fid[l]
      BY <2>4, <2>5 DEF Entries
    <3>. QED  BY <2>3, <3>1 DEF SendOK
  <2>8. SendOK(z, P \ {f})
    BY <2>6, <2>7 DEF SendOK
  <2>9. ASSUME NEW g \in Fids, g # f PROVE Awaits(z, g) <=> Awaits(x, g)
    BY <2>3, <2>4, <2>9, PlumbAssumption DEF Awaits
  <2>. QED  BY <2>1, <2>4, <2>8, <2>9
<1>. QED  BY <1>3, <1>4

(* removesenders, for the whole queue of sends.                               *)
LEMMA WithoutDoes ==
  ASSUME NEW P, SendsOK(sendq, P), NEW f \in Fids
  PROVE  /\ SendsOK(Without(f), P \ {f})
         /\ \A k \in 1 .. Len(Without(f)) : Without(f)[k].nleft # 0
         /\ \A s \in 1 .. Len(Without(f)) : \A i \in 1 .. Len(Without(f)[s].fid) :
               Without(f)[s].fid[i] # Nil => \E t \in 1 .. Len(sendq) :
                  \E l \in 1 .. Len(sendq[t].fid) : Without(f)[s].fid[i] = sendq[t].fid[l]
<1>. DEFINE d == [k \in 1 .. Len(sendq) |-> Drop(f, sendq[k])]
            v == Without(f)
<1>1. v = Left(d)
  BY DEF Without, Drop
<1>2. /\ sendq \in Seq(SendType) /\ Len(sendq) \in Nat
      /\ \A k \in 1 .. Len(sendq) : sendq[k] \in SendType /\ SendOK(sendq[k], P)
  <2>1. sendq \in Seq(SendType)
    BY DEF SendsOK
  <2>2. \A k \in 1 .. Len(sendq) : sendq[k] \in SendType
    BY <2>1, ElementOfSeq
  <2>. QED  BY <2>1, <2>2 DEF SendsOK
<1>3. \A k \in 1 .. Len(sendq) :
         /\ Drop(f, sendq[k]) \in SendType /\ SendOK(Drop(f, sendq[k]), P \ {f})
         /\ Len(Drop(f, sendq[k]).fid) = Len(sendq[k].fid)
         /\ \A l \in 1 .. Len(sendq[k].fid) : Drop(f, sendq[k]).fid[l] \in {sendq[k].fid[l], Nil}
  BY <1>2, DropDoes
<1>4. d \in Seq(SendType) /\ Len(d) = Len(sendq) /\ \A k \in 1 .. Len(sendq) : d[k] = Drop(f, sendq[k])
  BY <1>2, <1>3
<1>. HIDE DEF d, v
<1>5. /\ v \in Seq(SendType)
      /\ \A k \in 1 .. Len(v) : v[k].nleft # 0 /\ \E j \in 1 .. Len(sendq) : v[k] = Drop(f, sendq[j])
  <2>1. Left(d) \in Kept(d)
    BY <1>4, LeftIs
  <2>. QED  BY <1>1, <1>4, <2>1 DEF Kept
<1>6. SendsOK(v, P \ {f})
  BY <1>3, <1>5 DEF SendsOK
<1>7. ASSUME NEW s \in 1 .. Len(v), NEW i \in 1 .. Len(v[s].fid), v[s].fid[i] # Nil
      PROVE  \E t \in 1 .. Len(sendq) : \E l \in 1 .. Len(sendq[t].fid) : v[s].fid[i] = sendq[t].fid[l]
  <2>1. PICK j \in 1 .. Len(sendq) : v[s] = Drop(f, sendq[j])
    BY <1>5
  <2>. QED  BY <1>3, <1>7, <2>1
<1>. QED  BY <1>5, <1>6, <1>7 DEF v

(* The list of a file without one of those who have it open.                  *)
Distinct(list) == \A i, j \in 1 .. Len(list) : list[i] = list[j] => i = j
Shorter(list, less, f) ==
    /\ less \in Seq(Fids) /\ Len(less) = Len(list) - 1 /\ Len(less) \in Nat
    /\ Distinct(less)
    /\ \A g : (\E i \in 1 .. Len(less) : less[i] = g)
               <=> (g # f /\ \E i \in 1 .. Len(list) : list[i] = g)

(* A list of fids without its k-th.                                           *)
LEMMA ListWithout ==
  ASSUME NEW list \in Seq(Fids), Distinct(list), NEW k \in 1 .. Len(list)
  PROVE  Shorter(list, RemoveAt(list, k), list[k])
<1>1. PICK less : less = RemoveAt(list, k)
  OBVIOUS
<1>2. /\ less \in Seq(Fids) /\ Len(less) \in Nat /\ Len(less) = Len(list) - 1
      /\ \A j \in 1 .. Len(less) : /\ Place(k, j) \in 1 .. Len(list) /\ Place(k, j) # k
                                   /\ less[j] = list[Place(k, j)]
      /\ \A j, l \in 1 .. Len(less) : Place(k, j) = Place(k, l) => j = l
      /\ \A j \in 1 .. Len(list) : j # k => \E l \in 1 .. Len(less) : less[l] = list[j]
  <2>1. /\ RemoveAt(list, k) \in Seq(Fids) /\ Len(RemoveAt(list, k)) \in Nat
        /\ Len(RemoveAt(list, k)) = Len(list) - 1
    BY RemoveList DEF RemoveAt
  <2>2. \A j \in 1 .. Len(RemoveAt(list, k)) :
           Place(k, j) \in 1 .. Len(list) /\ Place(k, j) # k /\ RemoveAt(list, k)[j] = list[Place(k, j)]
    BY RemovedPlaces
  <2>3. \A j, l \in 1 .. Len(RemoveAt(list, k)) : Place(k, j) = Place(k, l) => j = l
    BY RemovedPlaces
  <2>4. ASSUME NEW j \in 1 .. Len(list), j # k
        PROVE  \E l \in 1 .. Len(RemoveAt(list, k)) : RemoveAt(list, k)[l] = list[j]
    BY <2>4, RemovedPlaces
  <2>. QED  BY <1>1, <2>1, <2>2, <2>3, <2>4
<1>3. ASSUME NEW i \in 1 .. Len(less), NEW j \in 1 .. Len(less), less[i] = less[j] PROVE i = j
  <2>1. list[Place(k, i)] = list[Place(k, j)]
    BY <1>2, <1>3
  <2>2. Place(k, i) = Place(k, j)
    BY <1>2, <2>1 DEF Distinct
  <2>. QED  BY <1>2, <2>2
<1>4. ASSUME NEW i \in 1 .. Len(less)
      PROVE  less[i] # list[k] /\ \E j \in 1 .. Len(list) : list[j] = less[i]
  <2>1. Place(k, i) \in 1 .. Len(list) /\ Place(k, i) # k /\ less[i] = list[Place(k, i)]
    BY <1>2
  <2>. QED  BY <2>1 DEF Distinct
<1>5. ASSUME NEW j \in 1 .. Len(list), list[j] # list[k]
      PROVE  \E i \in 1 .. Len(less) : less[i] = list[j]
  BY <1>2, <1>5
<1>6. ASSUME NEW g
      PROVE (\E i \in 1 .. Len(less) : less[i] = g)
               <=> (g # list[k] /\ \E i \in 1 .. Len(list) : list[i] = g)
  <2>1. ASSUME \E i \in 1 .. Len(less) : less[i] = g
        PROVE  g # list[k] /\ \E i \in 1 .. Len(list) : list[i] = g
    <3>1. PICK i \in 1 .. Len(less) : less[i] = g
      BY <2>1
    <3>. QED  BY <1>4, <3>1
  <2>2. ASSUME g # list[k], \E i \in 1 .. Len(list) : list[i] = g
        PROVE  \E i \in 1 .. Len(less) : less[i] = g
    <3>1. PICK j \in 1 .. Len(list) : list[j] = g
      BY <2>2
    <3>. QED  BY <1>5, <2>2, <3>1
  <2>. QED  BY <2>1, <2>2
<1>7. Shorter(list, less, list[k])
  BY <1>2, <1>3, <1>6 DEF Shorter, Distinct
<1>. QED  BY <1>1, <1>7

(* Tclunk.                                                                    *)
LEMMA ClunkKeeps ==
  ASSUME IInv, NEW f \in Fids, Clunk(f) PROVE IInv'
<1>1. /\ ~wait[f] /\ opening[f] = Nil /\ fids[f].busy
      /\ fids' = [fids EXCEPT ![f] = Shut(f)]
      /\ half' = [half EXCEPT ![f] = <<>>] /\ reply' = [reply EXCEPT ![f] = <<>>]
      /\ UNCHANGED <<holdq, readq, opening, inhand, wait, nmsg>>
  BY DEF Clunk, Free
<1>2. PICK d \in Files : d = fids[f].dir
  BY <1>1 DEF IInv, FidsAgree
<1>3. PICK y \in FidType : y = fids[f]
  BY DEF IInv, Typed
<1>4. PICK x : x = Shut(f)
  OBVIOUS
<1>5. /\ x \in FidType /\ ~x.busy /\ ~x.open /\ x.offset = 0
      /\ x.mode = y.mode /\ x.dir = y.dir
  <2>1. 0 \in 0 .. Size - 1 /\ <<>> \in Parts
    BY PlumbAssumption DEF Parts
  <2>2. x = [y EXCEPT !.busy = FALSE, !.open = FALSE, !.offset = 0, !.writebuf = <<>>]
    BY <1>3, <1>4 DEF Shut
  <2>. QED  BY <2>1, <2>2 DEF FidType
<1>6. /\ fids' \in [Fids -> FidType] /\ fids'[f] = x
      /\ \A g \in Fids : g # f => fids'[g] = fids[g]
  BY <1>1, <1>4, <1>5 DEF IInv, Typed
<1>7. \A e \in Files : OpenOn(e)' = OpenOn(e) \ {f}
  BY <1>5, <1>6 DEF OpenOn
<1>8. FidsAgree'
  BY <1>1, <1>5, <1>6 DEF IInv, FidsAgree
<1>9. PortionsAgree'
  <2>1. /\ DOMAIN half' = Fids /\ half'[f] = <<>> /\ \A g \in Fids : g # f => half'[g] = half[g]
    BY <1>1 DEF IInv, Typed
  <2>. QED  BY <1>5, <1>6, <2>1 DEF IInv, PortionsAgree, Portioned
<1>10. "port" \in Files /\ "rules" \in Files
  BY DEF Files
<1>11. ReadsOK(readq', wait', inhand', OpenOn("port")')
  <2>1. \A g \in OpenOn("port") : wait[g] => g \in OpenOn("port")'
    BY <1>1, <1>7, <1>10
  <2>2. ReadsOK(readq, wait, inhand, OpenOn("port")')
    BY <2>1, ReadsElsewhere DEF IInv
  <2>. QED  BY <1>1, <2>2
<1>12. Past' = Past
  <2>1. \A g \in Fids : opening'[g] = "OWRITE" /\ fids'[g].dir = "rules"
                          <=> opening[g] = "OWRITE" /\ fids[g].dir = "rules"
    BY <1>1, <1>6, PlumbAssumption
  <2>. QED  BY <2>1 DEF Past
<1>13. /\ DOMAIN half' = Fids
       /\ reply' \in [Fids -> Replies]
  <2>1. <<>> \in Replies
    BY DEF Replies
  <2>. QED  BY <1>1, <2>1 DEF IInv, Typed
<1>14. CASE ~fids[f].open
  <2>1. UNCHANGED <<nopen, fopen, sendq, rulesref>>
    BY <1>14 DEF Clunk
  <2>2. \A e \in Files : OpenOn(e)' = OpenOn(e)
    BY <1>7, <1>14 DEF OpenOn
  <2>3. ListsAgree'
    BY <2>1, <2>2 DEF IInv, ListsAgree
  <2>4. Writers' = Writers
    <3>1. \A g \in OpenOn("rules") : fids'[g] = fids[g]
      BY <1>6, <1>14 DEF OpenOn
    <3>. QED  BY <1>10, <2>2, <3>1 DEF Writers
  <2>5. RulesHeld'
    BY <1>12, <2>1, <2>4 DEF IInv, RulesHeld
  <2>6. Typed'
    BY <1>1, <1>6, <1>13, <2>1 DEF IInv, Typed
  <2>. QED  BY <1>1, <1>8, <1>9, <1>10, <1>11, <2>1, <2>2, <2>3, <2>5, <2>6 DEF IInv
<1>15. CASE fids[f].open
  <2>1. /\ nopen' = [nopen EXCEPT ![d] = @ - 1]
        /\ fopen' = [fopen EXCEPT ![d] = RemoveAt(@, CHOOSE k \in 1 .. Len(@) : @[k] = f)]
        /\ sendq' = IF d = "port" THEN Without(f) ELSE sendq
        /\ rulesref' = IF GivesBack(f) THEN rulesref - 1 ELSE rulesref
    BY <1>2, <1>15 DEF Clunk
  <2>2. PICK list \in Seq(Fids) : list = fopen[d]
    BY DEF IInv, ListsAgree
  <2>3. f \in OpenOn(d)
    BY <1>2, <1>15 DEF OpenOn
  <2>4. /\ nopen[d] = Len(list)
        /\ \A i, j \in 1 .. Len(list) : list[i] = list[j] => i = j
        /\ \A g \in Fids : g \in OpenOn(d) <=> \E i \in 1 .. Len(list) : list[i] = g
    BY <2>2 DEF IInv, ListsAgree
  <2>5. \E i \in 1 .. Len(list) : list[i] = f
    BY <2>3, <2>4
  <2>6. PICK at \in 1 .. Len(list) : list[at] = f /\ fopen'[d] = RemoveAt(list, at)
    <3>1. (CHOOSE k \in 1 .. Len(list) : list[k] = f) \in {k \in 1 .. Len(list) : list[k] = f}
      BY <2>5
    <3>2. fopen'[d] = RemoveAt(list, CHOOSE k \in 1 .. Len(list) : list[k] = f)
      BY <2>1, <2>2 DEF IInv, Typed
    <3>. QED  BY <3>1, <3>2
  <2>7. PICK less : less = RemoveAt(list, at)
    OBVIOUS
  <2>8. /\ DOMAIN fopen' = Files /\ fopen'[d] = less
        /\ nopen' = [nopen EXCEPT ![d] = nopen[d] - 1]
        /\ \A e \in Files : e # d => fopen'[e] = fopen[e] /\ nopen'[e] = nopen[e]
    BY <2>1, <2>6, <2>7 DEF IInv, Typed
  <2>9. /\ less \in Seq(Fids) /\ Len(less) = Len(list) - 1 /\ Len(less) \in Nat
        /\ \A j, l \in 1 .. Len(less) : less[j] = less[l] => j = l
        /\ \A g : (\E j \in 1 .. Len(less) : less[j] = g)
                    <=> (g # list[at] /\ \E j \in 1 .. Len(list) : list[j] = g)
    <3>1. Distinct(list)
      BY <2>4 DEF Distinct
    <3>2. Shorter(list, less, list[at])
      BY <2>7, <3>1, ListWithout
    <3>. QED  BY <3>2 DEF Shorter, Distinct
  <2>10. nopen' \in [Files -> Nat] /\ nopen'[d] = Len(less)
    BY <2>8, <2>4, <2>9 DEF IInv, Typed
  <2>11. ListsAgree'
    <3>1. SUFFICES ASSUME NEW e \in Files
                   PROVE  /\ fopen'[e] \in Seq(Fids) /\ nopen'[e] = Len(fopen'[e])
                          /\ \A i, j \in 1 .. Len(fopen'[e]) : fopen'[e][i] = fopen'[e][j] => i = j
                          /\ \A g \in Fids : g \in OpenOn(e)' <=>
                                                \E i \in 1 .. Len(fopen'[e]) : fopen'[e][i] = g
      BY DEF ListsAgree
    <3>2. CASE e = d
      <4>1. fopen'[e] = less /\ nopen'[e] = Len(less) /\ OpenOn(e)' = OpenOn(d) \ {f}
        BY <1>7, <2>8, <2>10, <3>2
      <4>2. \A g \in Fids : g \in OpenOn(d) \ {f} <=> \E i \in 1 .. Len(less) : less[i] = g
        BY <2>6, <2>4, <2>9
      <4>. QED  BY <2>9, <4>1, <4>2
    <3>3. CASE e # d
      <4>1. OpenOn(e)' = OpenOn(e)
        BY <1>2, <1>7, <3>3 DEF OpenOn
      <4>2. fopen'[e] = fopen[e] /\ nopen'[e] = nopen[e]
        BY <2>8, <3>3
      <4>3. /\ fopen[e] \in Seq(Fids) /\ nopen[e] = Len(fopen[e])
            /\ \A i, j \in 1 .. Len(fopen[e]) : fopen[e][i] = fopen[e][j] => i = j
            /\ \A g \in Fids : g \in OpenOn(e) <=>
                                  \E i \in 1 .. Len(fopen[e]) : fopen[e][i] = g
        BY DEF IInv, ListsAgree
      <4>. QED  BY <4>1, <4>2, <4>3
    <3>. QED  BY <3>2, <3>3
  <2>12. RulesHeld' /\ rulesref' \in Int
    <3>1. Writers \subseteq Fids /\ Past \subseteq Fids /\ IsFiniteSet(Fids)
      BY PlumbAssumption DEF Writers, OpenOn, Past
    <3>2. rulesref = Cardinality(Writers) + Cardinality(Past) /\ rulesref <= 1 /\ rulesref \in Int
      BY DEF IInv, RulesHeld, Typed
    <3>3. CASE GivesBack(f)
      <4>1. f \in Writers /\ Writers' = Writers \ {f}
        BY <1>6, <1>7, <1>10, <1>15, <3>3 DEF Writers, OpenOn, GivesBack
      <4>2. /\ Cardinality(Writers \ {f}) = Cardinality(Writers) - 1
            /\ Cardinality(Writers) \in Nat
        BY <3>1, <4>1, OneLess
      <4>3. Cardinality(Past) \in Nat
        BY <3>1, FS_Subset, FS_CardinalityType
      <4>4. rulesref' = rulesref - 1
        BY <2>1, <3>3
      <4>. QED  BY <1>12, <3>2, <4>1, <4>2, <4>3, <4>4 DEF RulesHeld
    <3>4. CASE ~GivesBack(f)
      <4>1. Writers' = Writers
        <5>1. f \notin Writers
          BY <3>4 DEF Writers, OpenOn, GivesBack
        <5>2. \A g \in Fids : g \in OpenOn("rules")' /\ fids'[g].mode = "OWRITE"
                                <=> g \in OpenOn("rules") /\ fids[g].mode = "OWRITE"
          <6>1. f \notin OpenOn("rules")'
            BY <1>7, <1>10
          <6>2. ASSUME NEW g \in Fids, g # f
                PROVE  g \in OpenOn("rules")' /\ fids'[g].mode = "OWRITE"
                          <=> g \in OpenOn("rules") /\ fids[g].mode = "OWRITE"
            <7>1. fids'[g] = fids[g]
              BY <1>6, <6>2
            <7>2. g \in OpenOn("rules")' <=> g \in OpenOn("rules")
              BY <1>7, <1>10, <6>2
            <7>. QED  BY <7>1, <7>2
          <6>3. ~(f \in OpenOn("rules") /\ fids[f].mode = "OWRITE")
            BY <5>1 DEF Writers
          <6>. QED  BY <6>1, <6>2, <6>3
        <5>3. OpenOn("rules") \subseteq Fids /\ OpenOn("rules")' \subseteq Fids
          BY DEF OpenOn
        <5>. QED  BY <5>2, <5>3 DEF Writers
      <4>2. rulesref' = rulesref
        BY <2>1, <3>4
      <4>. QED  BY <1>12, <3>2, <4>1, <4>2 DEF RulesHeld
    <3>. QED  BY <3>3, <3>4
  <2>13. /\ SendsOK(sendq', OpenOn("port")')
         /\ \A k \in 1 .. Len(sendq') : sendq'[k].nleft # 0
         /\ ~Overtake => Quiet(sendq', readq')
    <3>1. CASE d = "port"
      <4>1. sendq' = Without(f)
        BY <2>1, <3>1
      <4>2. SendsOK(sendq, OpenOn("port"))
        BY DEF IInv
      <4>3. /\ SendsOK(Without(f), OpenOn("port") \ {f})
            /\ \A k \in 1 .. Len(Without(f)) : Without(f)[k].nleft # 0
            /\ \A s \in 1 .. Len(Without(f)) : \A i \in 1 .. Len(Without(f)[s].fid) :
                  Without(f)[s].fid[i] # Nil => \E t \in 1 .. Len(sendq) :
                     \E l \in 1 .. Len(sendq[t].fid) : Without(f)[s].fid[i] = sendq[t].fid[l]
        BY <4>2, WithoutDoes
      <4>4. \A k \in 1 .. Len(readq) : readq[k].fid # Nil
        <5>1. readq \in Seq(ReadType)
          BY DEF IInv, Typed
        <5>2. \A k \in 1 .. Len(readq) : readq[k] \in ReadType
          BY <5>1, ElementOfSeq
        <5>. QED  BY <5>2, PlumbAssumption DEF ReadType
      <4>5. ASSUME ~Overtake PROVE Quiet(Without(f), readq)
        <5>1. Quiet(sendq, readq)
          BY <4>5 DEF IInv
        <5>. QED  BY <4>3, <4>4, <5>1, QuietLess, SMTT(20)
      <4>. QED  BY <1>1, <1>7, <1>10, <4>1, <4>3, <4>5
    <3>2. CASE d # "port"
      <4>1. sendq' = sendq /\ OpenOn("port")' = OpenOn("port")
        BY <1>2, <1>7, <1>10, <2>1, <3>2 DEF OpenOn
      <4>. QED  BY <1>1, <4>1 DEF IInv
    <3>. QED  BY <3>1, <3>2
  <2>14. holdq # <<>> => fopen'["port"] = <<>>
    <3>1. CASE d = "port"
      <4>1. holdq = <<>>
        <5>1. SUFFICES ASSUME fopen["port"] = <<>> PROVE FALSE
          BY DEF IInv
        <5>. QED  BY <5>1, <2>2, <2>3, <2>4, <3>1
      <4>. QED  BY <4>1
    <3>2. CASE d # "port"
      BY <1>10, <2>8, <3>2 DEF IInv
    <3>. QED  BY <3>1, <3>2
  <2>15. Typed'
    <3>1. sendq' \in Seq(SendType)
      BY <2>13 DEF SendsOK
    <3>. QED  BY <1>1, <1>6, <1>13, <2>8, <2>10, <2>12, <3>1 DEF IInv, Typed
  <2>. QED  BY <1>1, <1>8, <1>9, <1>11, <2>11, <2>12, <2>13, <2>14, <2>15 DEF IInv
<1>. QED  BY <1>14, <1>15

(* Every handler keeps it.                                                    *)
LEMMA NextKeeps ==
  ASSUME IInv, [Next]_vars PROVE IInv'
<1>1. CASE UNCHANGED vars
  <2>1. UNCHANGED <<fids, nopen, fopen, holdq, readq, sendq, rulesref, opening, inhand,
                    wait, reply, nmsg, half>>
    BY <1>1 DEF vars, queues, client
  <2>2. \A d \in Files : OpenOn(d)' = OpenOn(d)
    BY <2>1 DEF OpenOn
  <2>3. OpenOn("port")' = OpenOn("port") /\ Writers' = Writers /\ Past' = Past
    BY <2>1, <2>2 DEF Files, Writers, Past
  <2>4. Typed' /\ FidsAgree' /\ PortionsAgree'
    BY <2>1 DEF IInv, Typed, FidsAgree, PortionsAgree
  <2>5. ListsAgree'
    BY <2>1, <2>2 DEF IInv, ListsAgree
  <2>6. RulesHeld'
    BY <2>1, <2>3 DEF IInv, RulesHeld
  <2>. QED  BY <2>1, <2>3, <2>4, <2>5, <2>6 DEF IInv
<1>2. ASSUME NEW f \in Fids, NEW d \in Files, Walk(f, d) PROVE IInv'
  BY <1>2, WalkKeeps
<1>3. ASSUME NEW f \in Fids, NEW m \in {"OREAD", "OWRITE"}, OpenCheck(f, m) PROVE IInv'
  BY <1>3, OpenCheckKeeps
<1>4. ASSUME NEW f \in Fids, NEW n \in 1 .. Size, Read(f, n) PROVE IInv'
  BY <1>4, ReadKeeps
<1>5. ASSUME NEW f \in Fids, Open(f) PROVE IInv'
  BY <1>5, OpenKeeps
<1>6. ASSUME NEW f \in Fids, Flush(f) PROVE IInv'
  BY <1>6, FlushKeeps
<1>7. ASSUME NEW f \in Fids, Write(f) PROVE IInv'
  BY <1>7, WriteKeeps
<1>8. ASSUME NEW f \in Fids, Clunk(f) PROVE IInv'
  BY <1>8, ClunkKeeps
<1>9. ASSUME NEW r \in inhand, Queue(r) PROVE IInv'
  BY <1>9, QueueKeeps
<1>. QED  BY <1>1, <1>2, <1>3, <1>4, <1>5, <1>6, <1>7, <1>8, <1>9 DEF Next

(* The inductive invariant holds, whatever the order in which the procs of    *)
(* fsysproc handle the requests.                                              *)
THEOREM Invariance == Spec => []IInv
<1>1. IInv /\ [Next]_vars => IInv'
  BY NextKeeps
<1>. QED  BY InitHolds, <1>1, PTL DEF Spec

-----------------------------------------------------------------------------
(* WHAT FOLLOWS FROM IT *)

(* A list whose members differ is no longer than the set they come from.      *)
LEMMA ListShort ==
  ASSUME NEW S, IsFiniteSet(S), NEW q, NEW I \in SUBSET Nat, IsFiniteSet(I),
         \A i \in I : q[i] \in S, \A i, j \in I : q[i] = q[j] => i = j
  PROVE  Cardinality(I) \in Nat /\ Cardinality(S) \in Nat /\ Cardinality(I) <= Cardinality(S)
<1>1. Cardinality({q[i] : i \in I}) = Cardinality(I)
  BY ImageCount
<1>2. {q[i] : i \in I} \subseteq S
  OBVIOUS
<1>3. Cardinality({q[i] : i \in I}) <= Cardinality(S)
  BY <1>2, FS_Subset
<1>. QED  BY <1>1, <1>3, FS_CardinalityType

(* The entries of a send that await it, as a set of numbers.                  *)
LEMMA EntriesFinite ==
  ASSUME NEW x \in SendType PROVE Entries(x) \in SUBSET Nat /\ IsFiniteSet(Entries(x))
<1>1. Len(x.fid) \in Nat
  BY DEF SendType
<1>2. IsFiniteSet(1 .. Len(x.fid)) /\ Entries(x) \subseteq 1 .. Len(x.fid)
  BY <1>1, FS_Interval, SMTT(20) DEF Entries
<1>. QED  BY <1>1, <1>2, FS_Subset

(* The bounds of the counts, from the lists they count.                       *)
LEMMA TypeFollows == IInv => TypeOK
<1>. SUFFICES ASSUME IInv PROVE TypeOK
  OBVIOUS
<1>1. Typed
  BY DEF IInv
<1>2. IsFiniteSet(Fids) /\ Cardinality(Fids) \in Nat
  BY PlumbAssumption, FS_CardinalityType
<1>3. ASSUME NEW d \in Files PROVE nopen[d] \in 0 .. Cardinality(Fids) /\ fopen[d] \in Seq(Fids)
  <2>1. PICK list \in Seq(Fids) : list = fopen[d]
    BY DEF IInv, ListsAgree
  <2>2. /\ nopen[d] = Len(list)
        /\ \A i, j \in 1 .. Len(list) : list[i] = list[j] => i = j
    BY <2>1 DEF IInv, ListsAgree
  <2>3. Len(list) \in Nat /\ 1 .. Len(list) \in SUBSET Nat /\ \A i \in 1 .. Len(list) : list[i] \in Fids
    OBVIOUS
  <2>4. IsFiniteSet(1 .. Len(list)) /\ Cardinality(1 .. Len(list)) = Len(list)
    BY <2>3, FS_Interval, SMTT(20)
  <2>5. Cardinality(1 .. Len(list)) <= Cardinality(Fids)
    BY <1>2, <2>2, <2>3, <2>4, ListShort
  <2>. QED  BY <1>2, <2>1, <2>2, <2>3, <2>4, <2>5
<1>4. ASSUME NEW k \in 1 .. Len(sendq)
      PROVE  /\ sendq[k].msg \in Message /\ sendq[k].fid \in Seq(Fids \cup {Nil})
             /\ sendq[k].nleft \in 1 .. Cardinality(Fids)
  <2>1. PICK x \in SendType : x = sendq[k]
    <3>1. sendq \in Seq(SendType)
      BY <1>1 DEF Typed
    <3>2. sendq[k] \in SendType
      BY <3>1, ElementOfSeq
    <3>. QED  BY <3>2
  <2>2. SendOK(x, OpenOn("port")) /\ x.nleft # 0
    BY <2>1 DEF IInv, SendsOK
  <2>3. Entries(x) \in SUBSET Nat /\ IsFiniteSet(Entries(x))
    BY EntriesFinite
  <2>4. \A i \in Entries(x) : x.fid[i] \in Fids
    BY <2>2 DEF SendOK, OpenOn
  <2>5. \A i, j \in Entries(x) : x.fid[i] = x.fid[j] => i = j
    BY <2>2 DEF SendOK
  <2>6. Cardinality(Entries(x)) \in Nat /\ Cardinality(Entries(x)) <= Cardinality(Fids)
    BY <1>2, <2>3, <2>4, <2>5, ListShort
  <2>7. x.nleft \in 1 .. Cardinality(Fids)
    BY <1>2, <2>2, <2>6 DEF SendOK
  <2>. QED  BY <2>1, <2>7 DEF SendType
<1>5. rulesref \in 0 .. Cardinality(Fids)
  <2>1. Writers \subseteq Fids /\ Past \subseteq Fids
    BY DEF Writers, OpenOn, Past
  <2>2. /\ Cardinality(Writers) \in Nat /\ Cardinality(Writers) <= Cardinality(Fids)
        /\ Cardinality(Past) \in Nat /\ Cardinality(Past) <= Cardinality(Fids)
    BY <1>2, <2>1, FS_Subset, FS_CardinalityType
  <2>3. rulesref = Cardinality(Writers) + Cardinality(Past) /\ rulesref <= 1
    BY DEF IInv, RulesHeld
  <2>. QED  BY <1>2, <2>2, <2>3
<1>6. fids \in [Fids -> [busy : BOOLEAN, open : BOOLEAN, mode : {"OREAD", "OWRITE"},
                         dir : Files \cup {Nil}, offset : 0 .. Size - 1,
                         writebuf : {<<>>} \cup {SubSeq(m, 1, k) : m \in Message, k \in 1 .. Size - 1}]]
  BY <1>1 DEF Typed, FidType, Parts
<1>7. nopen \in [Files -> 0 .. Cardinality(Fids)]
  BY <1>1, <1>3 DEF Typed
<1>. QED  BY <1>1, <1>3, <1>4, <1>5, <1>6, <1>7 DEF Typed, ReadType, TypeOK

(* The agreement of counts and lists, as the run states it.                   *)
LEMMA AgreementFollows == IInv => QueuesAgree
<1>. SUFFICES ASSUME IInv PROVE QueuesAgree
  OBVIOUS
<1>1. ASSUME NEW d \in Files
      PROVE  nopen[d] = Len(fopen[d]) /\ IsInjective(fopen[d]) /\ ToSet(fopen[d]) = OpenOn(d)
  <2>1. PICK list \in Seq(Fids) : list = fopen[d]
    BY DEF IInv, ListsAgree
  <2>2. /\ nopen[d] = Len(list)
        /\ \A i, j \in 1 .. Len(list) : list[i] = list[j] => i = j
        /\ \A f \in Fids : f \in OpenOn(d) <=> \E i \in 1 .. Len(list) : list[i] = f
    BY <2>1 DEF IInv, ListsAgree
  <2>3. DOMAIN list = 1 .. Len(list) /\ \A i \in 1 .. Len(list) : list[i] \in Fids
    OBVIOUS
  <2>4. IsInjective(list)
    BY <2>2, <2>3 DEF IsInjective
  <2>5. ToSet(list) = OpenOn(d)
    <3>1. OpenOn(d) \subseteq Fids
      BY DEF OpenOn
    <3>. QED  BY <2>2, <2>3, <3>1 DEF ToSet
  <2>. QED  BY <2>1, <2>2, <2>4, <2>5
<1>2. ASSUME NEW k \in 1 .. Len(sendq)
      PROVE  LET I == {i \in 1 .. Len(sendq[k].fid) : sendq[k].fid[i] # Nil}
             IN /\ sendq[k].nleft = Cardinality(I)
                /\ {sendq[k].fid[i] : i \in I} \subseteq OpenOn("port")
                /\ Cardinality({sendq[k].fid[i] : i \in I}) = Cardinality(I)
  <2>1. PICK x \in SendType : x = sendq[k]
    <3>1. sendq \in Seq(SendType)
      BY DEF IInv, Typed
    <3>2. sendq[k] \in SendType
      BY <3>1, ElementOfSeq
    <3>. QED  BY <3>2
  <2>2. SendOK(x, OpenOn("port"))
    BY <2>1 DEF IInv, SendsOK
  <2>3. IsFiniteSet(Entries(x))
    BY EntriesFinite
  <2>4. Cardinality({x.fid[i] : i \in Entries(x)}) = Cardinality(Entries(x))
    BY <2>2, <2>3, ImageCount DEF SendOK
  <2>5. /\ x.nleft = Cardinality(Entries(x))
        /\ {x.fid[i] : i \in Entries(x)} \subseteq OpenOn("port")
    BY <2>2 DEF SendOK
  <2>. QED  BY <2>1, <2>4, <2>5 DEF Entries
<1>. QED  BY <1>1, <1>2 DEF QueuesAgree

(* What the order of Tread and Tflush is needed for.                          *)
LEMMA QuietFollows == ~Overtake /\ IInv => NoVainWait /\ NobodyReadsYet
<1>. SUFFICES ASSUME ~Overtake, IInv PROVE NoVainWait /\ NobodyReadsYet
  OBVIOUS
<1>1. \A k \in 1 .. Len(readq) : /\ readq[k].tag = readq[k].fid /\ wait[readq[k].fid]
                                 /\ readq[k].fid \in OpenOn("port")
  BY DEF IInv, ReadsOK
<1>2. \A k \in 1 .. Len(readq) : \A s \in 1 .. Len(sendq) : ~Awaits(sendq[s], readq[k].fid)
  BY DEF IInv, Quiet, Awaits
<1>3. ASSUME holdq # <<>> PROVE fopen["port"] = <<>> /\ readq = <<>>
  <2>1. fopen["port"] = <<>>
    BY <1>3 DEF IInv
  <2>2. \A f \in Fids : f \notin OpenOn("port")
    <3>1. "port" \in Files
      BY DEF Files
    <3>2. \A f \in Fids : f \in OpenOn("port") <=>
                            \E i \in 1 .. Len(fopen["port"]) : fopen["port"][i] = f
      BY <3>1 DEF IInv, ListsAgree
    <3>. QED  BY <2>1, <3>2
  <2>3. OpenOn("port") \subseteq Fids
    BY DEF OpenOn
  <2>4. readq \in Seq(ReadType)
    BY DEF IInv, Typed
  <2>. QED  BY <1>1, <2>1, <2>2, <2>3, <2>4
<1>. QED  BY <1>1, <1>2, <1>3 DEF NoVainWait, NobodyReadsYet

(* Every variable has its type; nleft and the counts stay within the number   *)
(* of Fid structs.                                                            *)
THEOREM TypeCorrect == Spec => []TypeOK
BY Invariance, TypeFollows, PTL

(* The counts of fsys.c agree with its lists: nopen with fopen, and nleft     *)
(* with the fids, each once and all of them open, that a message still goes   *)
(* to: the tests of nleft at fsys.c:421 and 475 delete what is delivered.     *)
THEOREM CountsAgree == Spec => []QueuesAgree
BY Invariance, AgreementFollows, PTL

(* The rules have one writer, and their reference count is what is open.      *)
THEOREM OneRulesWriter == Spec => []RulesHeld
BY Invariance, PTL DEF IInv

(* As long as no Tflush overtakes its Tread, no read is left in the queue     *)
(* beside a message for its fid, and only reads that a client waits for are   *)
(* in it (fsys.c:374).                                                        *)
THEOREM NoReadWaitsInVain ==
  ASSUME ~Overtake PROVE Spec => []NoVainWait
<1>1. IInv => NoVainWait
  BY QuietFollows
<1>. QED  BY Invariance, <1>1, PTL

(* Under the same condition the comment at fsys.c:515 is right: while         *)
(* messages are held nobody reads.                                            *)
THEOREM HeldMeansUnread ==
  ASSUME ~Overtake PROVE Spec => []NobodyReadsYet
<1>1. IInv => NobodyReadsYet
  BY QuietFollows
<1>. QED  BY Invariance, <1>1, PTL

-----------------------------------------------------------------------------
(* THE PORT AS A MAILBOX FOR EACH READER *)

-----------------------------------------------------------------------------
(* THE PORT AS A MAILBOX FOR EACH READER *)

(* how much f asks for, 0 when no read of it is queued                        *)
Asked(rq, f) == LET I == {k \in 1 .. Len(rq) : rq[k].fid = f}
                IN IF I = {} THEN 0 ELSE rq[CHOOSE k \in I : TRUE].count

(* It is what the one read of f asks for.                                     *)
LEMMA AskedIs ==
  ASSUME NEW rq \in Seq(ReadType), NEW f,
         \A j, k \in 1 .. Len(rq) : rq[j].fid = rq[k].fid => j = k
  PROVE  /\ ReadsOf(rq, f) = {} => Asked(rq, f) = 0
         /\ \A x \in ReadsOf(rq, f) : Asked(rq, f) = x.count /\ x.count \in 1 .. Size
<1>1. PICK I : I = {k \in 1 .. Len(rq) : rq[k].fid = f}
  OBVIOUS
<1>2. Asked(rq, f) = IF I = {} THEN 0 ELSE rq[CHOOSE k \in I : TRUE].count
  BY <1>1 DEF Asked
<1>3. ReadsOf(rq, f) = {rq[k] : k \in I}
  BY <1>1 DEF ReadsOf
<1>4. ASSUME NEW x \in ReadsOf(rq, f) PROVE Asked(rq, f) = x.count /\ x.count \in 1 .. Size
  <2>1. PICK k \in I : x = rq[k]
    BY <1>3
  <2>2. \A j \in I : j = k
    BY <1>1, <2>1
  <2>3. (CHOOSE j \in I : TRUE) = k
    BY <2>1, <2>2
  <2>4. rq[k] \in ReadType
    BY <1>1, <2>1, ElementOfSeq
  <2>. QED  BY <1>2, <2>1, <2>3, <2>4 DEF ReadType
<1>. QED  BY <1>2, <1>3, <1>4

(* A reader's turn: its mail b, how much of the first message it has taken,   *)
(* what it asks for and the last answer, before and after.                    *)
Turn(b, t, w, a, b1, t1, w1, a1) ==
    LET served == w > 0 /\ b # <<>>
        u == Least(t + w, Size)
    IN /\ b1 = IF served /\ u = Size THEN Tail(b) ELSE b
       /\ t1 = IF served /\ u = Size THEN 0 ELSE IF served THEN u ELSE t
       /\ w1 = IF served THEN 0 ELSE w
       /\ a1 = IF served THEN SubSeq(Head(b), t + 1, u) ELSE a

(* Deleting the sends that no fid awaits takes nobody's mail.                 *)
LEMMA LeftMail ==
  ASSUME NEW sq \in Seq(SendType), NEW f \in Fids,
         \A k \in 1 .. Len(sq) : sq[k].nleft = Cardinality(Entries(sq[k]))
  PROVE  Mail(Left(sq), f) = Mail(sq, f)
<1>1. ASSUME NEW k \in 1 .. Len(sq), sq[k].nleft = 0 PROVE ~Awaits(sq[k], f)
  <2>1. sq[k].fid \in Seq(Fids \cup {Nil})
    <3>1. sq[k] \in SendType
      BY ElementOfSeq
    <3>. QED  BY <3>1 DEF SendType
  <2>2. PICK n \in Nat : n = Len(sq[k].fid)
    BY <2>1
  <2>3. IsFiniteSet(1 .. n) /\ Entries(sq[k]) \subseteq 1 .. n
    <3>1. IsFiniteSet(1 .. n)
      <4>1. 1 \in Int /\ n \in Int
        BY <2>2
      <4>. QED  BY ONLY <4>1, FS_Interval
    <3>. QED  BY <2>2, <3>1 DEF Entries
  <2>4. IsFiniteSet(Entries(sq[k])) /\ Cardinality(Entries(sq[k])) = 0
    BY <1>1, <2>3, FS_Subset
  <2>5. Entries(sq[k]) = {}
    BY <2>4, FS_EmptySet
  <2>. QED  BY <2>5, PlumbAssumption DEF Entries, Awaits
<1>. QED  BY <1>1, MailLeft

(* drainqueue gives each reader a turn.                                       *)
LEMMA DrainSettles ==
  ASSUME NEW sq, NEW fd \in [Fids -> FidType], NEW rq \in Seq(ReadType),
         NEW ih \in SUBSET ReadType, wait \in [Fids -> BOOLEAN], reply \in [Fids -> Replies],
         SendsOK(sq, Shelf(fd, "port")), ReadsOK(rq, wait, ih, Shelf(fd, "port")),
         Drain(fd, sq, rq), ~Overtake, NEW f \in Fids
  PROVE  Turn(Mail(sq, f), fd[f].offset, Asked(rq, f), reply[f],
              Mail(sendq', f), fids'[f].offset, Asked(readq', f), reply'[f])
<1>. DEFINE P == Shelf(fd, "port")
            Q == [sendq |-> sq, readq |-> rq, fids |-> fd, wait |-> wait, reply |-> reply]
<1>1. PICK r \in GoodSet(sq, fd, ih) :
         /\ Drained(fd, sq, rq) = [r EXCEPT !.sendq = Left(r.sendq)]
         /\ Follows(r, Q)
  BY DrainedGood
<1>2. r \in QType /\ Good(r, sq, fd, ih)
  BY DEF GoodSet
<1>3. /\ sendq' = Left(r.sendq) /\ readq' = r.readq
      /\ fids' = r.fids /\ reply' = r.reply
  BY <1>1, <1>2 DEF Drain, QType
<1>4. /\ Q.sendq = sq /\ Q.readq = rq /\ Q.fids = fd /\ Q.reply = reply
  OBVIOUS
<1>. HIDE DEF Q, P
<1>5. /\ r.sendq \in Seq(SendType) /\ sq \in Seq(SendType) /\ Len(r.sendq) = Len(sq)
      /\ \A t \in 1 .. Len(sq) : r.sendq[t].msg = sq[t].msg
      /\ r.readq \in Seq(ReadType)
  BY <1>1, <1>2, <1>4 DEF QType, Good, SendsOK, Follows
<1>6. Mail(sendq', f) = Mail(r.sendq, f)
  <2>1. \A k \in 1 .. Len(r.sendq) : r.sendq[k].nleft = Cardinality(Entries(r.sendq[k]))
    BY <1>2 DEF Good
  <2>. QED  BY <1>3, <1>5, <2>1, LeftMail
<1>7. /\ \A j, k \in 1 .. Len(rq) : rq[j].fid = rq[k].fid => j = k
      /\ \A j, k \in 1 .. Len(r.readq) : r.readq[j].fid = r.readq[k].fid => j = k
  <2>1. ReadsOK(r.readq, r.wait, ih, P)
    BY <1>2 DEF Good, P
  <2>2. ReadsOK(rq, wait, ih, P)
    BY DEF P
  <2>. QED  BY <2>1, <2>2, OneRead
<1>8. Untouched(r, Q, f) \/ Fed(r, Q, f)
  BY <1>1 DEF Follows
<1>9. CASE Untouched(r, Q, f)
  <2>1. /\ ReadsOf(r.readq, f) = ReadsOf(rq, f)
        /\ fids'[f].offset = fd[f].offset /\ reply'[f] = reply[f]
        /\ \A t \in 1 .. Len(sq) : Awaits(r.sendq[t], f) <=> Awaits(sq[t], f)
    BY <1>3, <1>4, <1>9 DEF Untouched
  <2>2. Mail(r.sendq, f) = Mail(sq, f)
    BY <1>5, <2>1, MailSame
  <2>3. CASE ReadsOf(rq, f) = {}
    <3>1. Asked(rq, f) = 0 /\ Asked(readq', f) = 0
      BY <1>3, <1>5, <1>7, <2>1, <2>3, AskedIs
    <3>. QED  BY <1>6, <2>1, <2>2, <3>1 DEF Turn
  <2>4. CASE ReadsOf(rq, f) # {}
    <3>1. PICK x \in ReadsOf(rq, f) : TRUE
      BY <2>4
    <3>2. Asked(rq, f) = x.count /\ Asked(readq', f) = x.count
      BY <1>3, <1>5, <1>7, <2>1, <3>1, AskedIs
    <3>3. PICK k \in 1 .. Len(readq') : readq'[k].fid = f
      BY <1>3, <2>1, <3>1 DEF ReadsOf
    <3>4. Quiet(sendq', readq') /\ SendsOK(sendq', P)
      BY DrainDoes DEF P
    <3>5. \A s \in 1 .. Len(sendq') : ~Awaits(sendq'[s], f)
      BY <3>3, <3>4 DEF Quiet, Awaits
    <3>6. Mail(sendq', f) = <<>>
      BY <3>4, <3>5, MailNone DEF SendsOK
    <3>. QED  BY <1>6, <2>1, <2>2, <3>2, <3>6 DEF Turn
  <2>. QED  BY <2>3, <2>4
<1>10. CASE Fed(r, Q, f)
  <2>1. PICK s, x : x \in ReadsOf(rq, f) /\ First(sq, s, f) /\ FedBy(r, Q, f, s, x)
    BY <1>4, <1>10 DEF Fed
  <2>2. PICK u : u = Least(fd[f].offset + x.count, Size)
    OBVIOUS
  <2>3. /\ ReadsOf(readq', f) = {}
        /\ fids'[f].offset = IF u = Size THEN 0 ELSE u
        /\ reply'[f] = SubSeq(sq[s].msg, fd[f].offset + 1, u)
        /\ \A t \in 1 .. Len(sq) :
              Awaits(r.sendq[t], f) <=> (Awaits(sq[t], f) /\ ~(t = s /\ u = Size))
    BY <1>3, <1>4, <2>1, <2>2 DEF FedBy
  <2>4. Asked(rq, f) = x.count /\ Asked(rq, f) > 0 /\ Asked(readq', f) = 0
    <3>1. Asked(rq, f) = x.count /\ x.count \in 1 .. Size
      BY <1>7, <2>1, AskedIs
    <3>2. Asked(readq', f) = 0
      BY <1>3, <1>5, <1>7, <2>3, AskedIs
    <3>. QED  BY <3>1, <3>2
  <2>5. Mail(sq, f) # <<>> /\ Head(Mail(sq, f)) = sq[s].msg
    BY <1>5, <2>1, MailFirst
  <2>6. Mail(r.sendq, f) = IF u = Size THEN Tail(Mail(sq, f)) ELSE Mail(sq, f)
    <3>1. CASE u = Size
      <4>1. \A t \in 1 .. Len(sq) : /\ r.sendq[t].msg = sq[t].msg
                                    /\ Awaits(r.sendq[t], f) <=> t # s /\ Awaits(sq[t], f)
        BY <1>5, <2>3, <3>1
      <4>2. Mail(r.sendq, f) = Tail(Mail(sq, f))
        BY <1>5, <2>1, <4>1, MailFirst
      <4>. QED  BY <3>1, <4>2
    <3>2. CASE u # Size
      BY <1>5, <2>3, <3>2, MailSame
    <3>. QED  BY <3>1, <3>2
  <2>. QED  BY <1>6, <2>2, <2>3, <2>4, <2>5, <2>6 DEF Turn
<1>. QED  BY <1>8, <1>9, <1>10

(* The mailboxes, what is taken of the first message in each, and what the    *)
(* readers ask for, of any queues and fids.                                   *)
MailsOf(sq) == [f \in Fids |-> Mail(sq, f)]
TakenOf(fd) == [f \in Fids |-> IF f \in Shelf(fd, "port") THEN fd[f].offset ELSE 0]
WantOf(rq) == [f \in Fids |-> Asked(rq, f)]
PortStep == Port!Next \/ UNCHANGED Port!vars

(* The variables of PlumbPort by these names, now and in the next state.      *)
LEMMA PortNames ==
  /\ box = MailsOf(sendq) /\ box' = MailsOf(sendq')
  /\ taken = TakenOf(fids) /\ taken' = TakenOf(fids')
  /\ want = WantOf(readq) /\ want' = WantOf(readq')
  /\ Subscribers = Shelf(fids, "port") /\ Subscribers' = Shelf(fids', "port")
  /\ OpenOn("port") = Shelf(fids, "port") /\ OpenOn("port")' = Shelf(fids', "port")
<1>1. Subscribers = Shelf(fids, "port") /\ Subscribers' = Shelf(fids', "port")
  BY DEF Subscribers, OpenOn, Shelf
<1>2. OpenOn("port") = Shelf(fids, "port") /\ OpenOn("port")' = Shelf(fids', "port")
  BY DEF OpenOn, Shelf
<1>3. box = MailsOf(sendq) /\ box' = MailsOf(sendq')
  BY DEF box, MailsOf
<1>4. taken = TakenOf(fids) /\ taken' = TakenOf(fids')
  BY <1>1 DEF taken, TakenOf
<1>5. want = WantOf(readq) /\ want' = WantOf(readq')
  BY DEF want, WantOf, Asked, Reading
<1>. QED  BY <1>1, <1>2, <1>3, <1>4, <1>5

(* Who does not subscribe has no answer.                                      *)
Unread == \A f \in Fids : f \notin OpenOn("port") => reply[f] = <<>>

(* What each reader has of its turn, in the next state.                       *)
TurnsOf(b, w) == \A r \in Fids : Turn(b[r], taken[r], w[r], reply[r],
                                      box'[r], taken'[r], want'[r], reply'[r])

(* A turn for each reader is what the port settles;                           *)
LEMMA TurnsSettle ==
  ASSUME NEW b, NEW w, TurnsOf(b, w), reply' \in [Fids -> Replies]
  PROVE  Port!Settle(b, w)
<1>. DEFINE Sv(r) == w[r] > 0 /\ b[r] # <<>>
            Up(r) == Least(taken[r] + w[r], Size)
<1>1. /\ box' = [r \in Fids |-> box'[r]] /\ taken' = [r \in Fids |-> taken'[r]]
      /\ want' = [r \in Fids |-> want'[r]] /\ reply' = [r \in Fids |-> reply'[r]]
  <2>1. box' = [r \in Fids |-> box'[r]]
    BY PortNames DEF MailsOf
  <2>2. taken' = [r \in Fids |-> taken'[r]]
    BY PortNames DEF TakenOf
  <2>3. want' = [r \in Fids |-> want'[r]]
    BY PortNames DEF WantOf
  <2>. QED  BY <2>1, <2>2, <2>3
<1>2. \A r \in Fids :
        /\ box'[r] = IF Sv(r) /\ Up(r) = Size THEN Tail(b[r]) ELSE b[r]
        /\ taken'[r] = IF Sv(r) /\ Up(r) = Size THEN 0 ELSE IF Sv(r) THEN Up(r) ELSE taken[r]
        /\ want'[r] = IF Sv(r) THEN 0 ELSE w[r]
        /\ reply'[r] = IF Sv(r) THEN SubSeq(Head(b[r]), taken[r] + 1, Up(r)) ELSE reply[r]
  BY DEF TurnsOf, Turn
<1>3. box' = [r \in Fids |-> IF Sv(r) /\ Up(r) = Size THEN Tail(b[r]) ELSE b[r]]
  BY <1>1, <1>2, Zenon
<1>4. taken' = [r \in Fids |-> IF Sv(r) /\ Up(r) = Size THEN 0 ELSE IF Sv(r) THEN Up(r) ELSE taken[r]]
  BY <1>1, <1>2, Zenon
<1>5. want' = [r \in Fids |-> IF Sv(r) THEN 0 ELSE w[r]]
  BY <1>1, <1>2, Zenon
<1>6. reply' = [r \in Fids |-> IF Sv(r) THEN SubSeq(Head(b[r]), taken[r] + 1, Up(r)) ELSE reply[r]]
  BY <1>1, <1>2, Zenon
<1>. QED  BY <1>3, <1>4, <1>5, <1>6, Zenon DEF Port!Settle, Port!Least, Least

(* and a turn with no mail, or no read, changes nothing.                      *)
LEMMA IdleTurn ==
  ASSUME NEW b, NEW t, NEW w \in Nat, NEW a, b = <<>> \/ w = 0
  PROVE  Turn(b, t, w, a, b, t, w, a)
BY DEF Turn

(* A step that the port does not see.                                         *)
LEMMA Unseen ==
  ASSUME UNCHANGED <<sendq, readq, holdq, reply>>,
         \A f \in Fids : /\ f \in OpenOn("port")' <=> f \in OpenOn("port")
                         /\ f \in OpenOn("port") => fids'[f].offset = fids[f].offset
  PROVE  PortStep /\ (Unread => Unread')
<1>1. Subscribers' = Subscribers
  BY DEF Subscribers, OpenOn
<1>2. taken' = taken
  BY <1>1 DEF taken, Subscribers
<1>3. box' = box /\ want' = want
  BY PortNames
<1>4. Unread => Unread'
  BY DEF Unread
<1>. QED  BY <1>1, <1>2, <1>3, <1>4 DEF PortStep, Port!vars

(* The reads of a queue are of subscribers, and ask for something.            *)
LEMMA AskedOf ==
  ASSUME NEW rq \in Seq(ReadType), NEW w, NEW ih, NEW P, ReadsOK(rq, w, ih, P), ~Overtake, NEW f
  PROVE  /\ Asked(rq, f) \in Nat
         /\ f \notin P \/ ~w[f] => Asked(rq, f) = 0
         /\ Asked(rq, f) # 0 => \E k \in 1 .. Len(rq) : rq[k].fid = f
<1>1. /\ \A j, k \in 1 .. Len(rq) : rq[j].fid = rq[k].fid => j = k
      /\ \A k \in 1 .. Len(rq) : rq[k].fid \in P /\ w[rq[k].fid]
  BY OneRead
<1>2. CASE ReadsOf(rq, f) = {}
  <2>1. Asked(rq, f) = 0
    BY <1>1, <1>2, AskedIs
  <2>. QED  BY <2>1
<1>3. CASE ReadsOf(rq, f) # {}
  <2>1. PICK x \in ReadsOf(rq, f) : TRUE
    BY <1>3
  <2>2. PICK k \in 1 .. Len(rq) : rq[k].fid = f
    BY <2>1 DEF ReadsOf
  <2>3. Asked(rq, f) = x.count /\ x.count \in 1 .. Size
    BY <1>1, <2>1, AskedIs
  <2>4. Size \in Nat
    BY PlumbAssumption
  <2>. QED  BY <1>1, <2>2, <2>3, <2>4
<1>. QED  BY <1>2, <1>3

(* drainqueue settles the port, from any queues.                              *)
LEMMA DrainTurns ==
  ASSUME ~Overtake, Unread, NEW fd \in [Fids -> FidType], NEW sq, NEW rq \in Seq(ReadType),
         NEW ih \in SUBSET ReadType, wait \in [Fids -> BOOLEAN], reply \in [Fids -> Replies],
         SendsOK(sq, OpenOn("port")), ReadsOK(rq, wait, ih, OpenOn("port")),
         \A g \in Fids : /\ fd[g].open = fids[g].open /\ fd[g].dir = fids[g].dir
                         /\ g \in OpenOn("port") => fd[g].offset = fids[g].offset,
         Drain(fd, sq, rq)
  PROVE  Port!Settle(MailsOf(sq), WantOf(rq)) /\ Subscribers' = Subscribers /\ Unread'
<1>1. Shelf(fd, "port") = OpenOn("port")
  BY DEF Shelf, OpenOn
<1>2. /\ reply' \in [Fids -> Replies] /\ fids' \in [Fids -> FidType]
      /\ \A g \in Fids : fids'[g] = [fd[g] EXCEPT !.offset = fids'[g].offset]
  BY <1>1, DrainDoes
<1>3. \A g \in Fids : fids'[g].open = fids[g].open /\ fids'[g].dir = fids[g].dir
  <2>1. SUFFICES ASSUME NEW g \in Fids PROVE fids'[g].open = fd[g].open /\ fids'[g].dir = fd[g].dir
    OBVIOUS
  <2>2. fd[g] \in FidType /\ fids'[g] = [fd[g] EXCEPT !.offset = fids'[g].offset]
    BY <1>2
  <2>. QED  BY <2>2 DEF FidType
<1>4. OpenOn("port")' = OpenOn("port") /\ Shelf(fids, "port") = OpenOn("port")
      /\ Shelf(fids', "port") = OpenOn("port")
  BY <1>3 DEF OpenOn, Shelf
<1>5. ASSUME NEW r \in Fids
      PROVE  /\ Turn(MailsOf(sq)[r], taken[r], WantOf(rq)[r], reply[r], box'[r], taken'[r], want'[r], reply'[r])
             /\ r \notin OpenOn("port") => reply'[r] = reply[r]
  <2>1. Turn(Mail(sq, r), fd[r].offset, Asked(rq, r), reply[r],
             Mail(sendq', r), fids'[r].offset, Asked(readq', r), reply'[r])
    BY <1>1, DrainSettles
  <2>2. /\ MailsOf(sq)[r] = Mail(sq, r) /\ WantOf(rq)[r] = Asked(rq, r)
        /\ box'[r] = Mail(sendq', r) /\ want'[r] = Asked(readq', r)
    BY PortNames DEF MailsOf, WantOf
  <2>3. CASE r \in OpenOn("port")
    <3>1. taken[r] = fd[r].offset /\ taken'[r] = fids'[r].offset
      BY <1>4, <2>3, PortNames DEF TakenOf
    <3>. QED  BY <2>1, <2>2, <2>3, <3>1
  <2>4. CASE r \notin OpenOn("port")
    <3>1. taken[r] = 0 /\ taken'[r] = 0
      BY <1>4, <2>4, PortNames DEF TakenOf
    <3>2. Asked(rq, r) = 0
      BY <2>4, AskedOf
    <3>3. /\ Mail(sendq', r) = Mail(sq, r) /\ Asked(readq', r) = 0 /\ reply'[r] = reply[r]
      BY <2>1, <3>2 DEF Turn
    <3>. QED  BY <2>2, <3>1, <3>2, <3>3 DEF Turn
  <2>. QED  BY <2>3, <2>4
<1>6. Port!Settle(MailsOf(sq), WantOf(rq))
  <2>1. TurnsOf(MailsOf(sq), WantOf(rq))
    BY <1>5 DEF TurnsOf
  <2>. QED  BY <1>2, <2>1, TurnsSettle
<1>7. Unread'
  BY <1>4, <1>5 DEF Unread
<1>. QED  BY <1>4, <1>6, <1>7 DEF Subscribers

Single(rq) == \A j, k \in 1 .. Len(rq) : rq[j].fid = rq[k].fid => j = k

(* The reads of f say what it asks for, wherever they are in the queue.       *)
LEMMA AskedSame ==
  ASSUME NEW rq \in Seq(ReadType), NEW tq \in Seq(ReadType), Single(rq), Single(tq), NEW f,
         ReadsOf(rq, f) = ReadsOf(tq, f)
  PROVE  Asked(rq, f) = Asked(tq, f)
<1>1. CASE ReadsOf(rq, f) = {}
  BY <1>1, AskedIs DEF Single
<1>2. CASE ReadsOf(rq, f) # {}
  <2>1. PICK x : x \in ReadsOf(rq, f) /\ x \in ReadsOf(tq, f)
    BY <1>2
  <2>2. Asked(rq, f) = x.count
    BY <2>1, AskedIs DEF Single
  <2>3. Asked(tq, f) = x.count
    BY <2>1, AskedIs DEF Single
  <2>. QED  BY <2>2, <2>3
<1>. QED  BY <1>1, <1>2

(* The first read in a queue is what its fid asks for; the others as before.  *)
LEMMA AskedFirst ==
  ASSUME NEW rq \in Seq(ReadType), NEW r \in ReadType, NEW w, NEW ih, NEW P,
         ReadsOK(<<r>> \o rq, w, ih, P), ~Overtake
  PROVE  /\ Asked(<<r>> \o rq, r.fid) = r.count /\ r.count \in 1 .. Size
         /\ \A k \in 1 .. Len(rq) : rq[k].fid # r.fid
         /\ \A f : f # r.fid => Asked(<<r>> \o rq, f) = Asked(rq, f)
<1>1. PICK q : q = <<r>> \o rq
  OBVIOUS
<1>2. /\ q \in Seq(ReadType) /\ Len(rq) \in Nat /\ Len(q) = Len(rq) + 1 /\ q[1] = r
      /\ \A i \in 1 .. Len(rq) : q[i + 1] = rq[i]
  BY <1>1, ConsList
<1>3. \A j, k \in 1 .. Len(q) : q[j].fid = q[k].fid => j = k
  BY <1>1, OneRead
<1>4. \A k \in 1 .. Len(rq) : rq[k].fid # r.fid
  <2>1. SUFFICES ASSUME NEW k \in 1 .. Len(rq), rq[k].fid = r.fid PROVE FALSE
    OBVIOUS
  <2>2. k + 1 \in 1 .. Len(q) /\ 1 \in 1 .. Len(q) /\ k + 1 # 1
    BY <1>2
  <2>3. q[k + 1].fid = q[1].fid
    BY <1>2, <2>1
  <2>. QED  BY <1>3, <2>2, <2>3
<1>5. \A j, k \in 1 .. Len(rq) : rq[j].fid = rq[k].fid => j = k
  <2>1. SUFFICES ASSUME NEW j \in 1 .. Len(rq), NEW k \in 1 .. Len(rq), rq[j].fid = rq[k].fid
                 PROVE  j = k
    OBVIOUS
  <2>2. j + 1 \in 1 .. Len(q) /\ k + 1 \in 1 .. Len(q) /\ q[j + 1].fid = q[k + 1].fid
    BY <1>2, <2>1
  <2>3. j + 1 = k + 1
    BY <1>3, <2>2
  <2>. QED  BY <2>3
<1>6. r \in ReadsOf(q, r.fid)
  BY <1>2 DEF ReadsOf
<1>7. Asked(q, r.fid) = r.count /\ r.count \in 1 .. Size
  BY <1>2, <1>3, <1>6, AskedIs
<1>8. ASSUME NEW f, f # r.fid PROVE Asked(q, f) = Asked(rq, f)
  <2>1. ReadsOf(q, f) = ReadsOf(rq, f)
    <3>1. ASSUME NEW x \in ReadsOf(q, f) PROVE x \in ReadsOf(rq, f)
      <4>1. PICK j \in 1 .. Len(q) : q[j].fid = f /\ x = q[j]
        BY DEF ReadsOf
      <4>2. j - 1 \in 1 .. Len(rq) /\ rq[j - 1] = x
        BY <1>2, <1>8, <4>1
      <4>. QED  BY <4>1, <4>2 DEF ReadsOf
    <3>2. ASSUME NEW x \in ReadsOf(rq, f) PROVE x \in ReadsOf(q, f)
      <4>1. PICK j \in 1 .. Len(rq) : rq[j].fid = f /\ x = rq[j]
        BY DEF ReadsOf
      <4>2. j + 1 \in 1 .. Len(q) /\ q[j + 1] = x
        BY <1>2, <4>1
      <4>. QED  BY <4>1, <4>2 DEF ReadsOf
    <3>. QED  BY <3>1, <3>2
  <2>. QED  BY <1>2, <1>3, <1>5, <2>1, AskedSame DEF Single
<1>. QED  BY <1>1, <1>4, <1>7, <1>8

(* A read that is queued asks, and is answered if there is mail.              *)
LEMMA QueueAsks ==
  ASSUME IInv, Unread, ~Overtake, NEW r \in inhand, Queue(r)
  PROVE  PortStep /\ Unread'
<1>1. /\ inhand \in SUBSET ReadType /\ readq \in Seq(ReadType) /\ fids \in [Fids -> FidType]
      /\ wait \in [Fids -> BOOLEAN] /\ reply \in [Fids -> Replies]
      /\ SendsOK(sendq, OpenOn("port")) /\ ReadsOK(readq, wait, inhand, OpenOn("port"))
  BY DEF IInv, Typed
<1>2. r \in ReadType /\ r.tag = r.fid /\ r.fid \in OpenOn("port") /\ r.fid \in Fids
  BY <1>1 DEF ReadsOK, ReadType
<1>3. Drain(fids, sendq, <<r>> \o readq) /\ holdq' = holdq
  BY <1>2 DEF Queue, OpenOn
<1>4. PICK rq : rq = <<r>> \o readq
  OBVIOUS
<1>5. rq \in Seq(ReadType) /\ ReadsOK(rq, wait, inhand \ {r}, OpenOn("port"))
  BY <1>1, <1>4, ReadQueued
<1>6. Port!Settle(MailsOf(sendq), WantOf(rq)) /\ Subscribers' = Subscribers /\ Unread'
  <2>1. inhand \ {r} \in SUBSET ReadType
    BY <1>1
  <2>. QED  BY <1>1, <1>3, <1>4, <1>5, <2>1, DrainTurns
<1>7. /\ Asked(rq, r.fid) = r.count /\ r.count \in 1 .. Size
      /\ \A k \in 1 .. Len(readq) : readq[k].fid # r.fid
      /\ \A f : f # r.fid => Asked(rq, f) = Asked(readq, f)
  BY <1>1, <1>2, <1>4, <1>5, AskedFirst
<1>8. want[r.fid] = 0
  <2>1. Asked(readq, r.fid) = 0
    BY <1>1, <1>7, AskedOf
  <2>. QED  BY <1>2, <2>1, PortNames DEF WantOf
<1>9. WantOf(rq) = [want EXCEPT ![r.fid] = r.count]
  BY <1>2, <1>7, PortNames DEF WantOf
<1>10. Port!Ask(r.fid, r.count)
  BY <1>2, <1>3, <1>6, <1>8, <1>9, PortNames DEF Port!Ask, Subscribers
<1>. QED  BY <1>2, <1>6, <1>7, <1>10 DEF PortStep, Port!Next

(* A flush cancels.                                                           *)
LEMMA FlushCancels ==
  ASSUME IInv, Unread, ~Overtake, NEW f \in Fids, Flush(f)
  PROVE  PortStep /\ Unread'
<1>1. /\ readq \in Seq(ReadType) /\ inhand \in SUBSET ReadType
      /\ ReadsOK(readq, wait, inhand, OpenOn("port"))
  BY DEF IInv, Typed
<1>2. /\ wait[f] /\ readq' = Flushed(f) /\ ~\E r \in inhand : r.tag = f
      /\ UNCHANGED <<fids, holdq, sendq, reply>>
  BY DEF Flush
<1>3. PICK k0 \in 1 .. Len(readq) : readq[k0].tag = f
  BY <1>1, <1>2 DEF ReadsOK
<1>4. PICK k \in 1 .. Len(readq) : readq[k].tag = f /\ readq' = RemoveAt(readq, k)
  <2>1. PICK I : I = {j \in 1 .. Len(readq) : readq[j].tag = f}
    OBVIOUS
  <2>2. I \subseteq 1 .. Len(readq) /\ I # {} /\ Len(readq) \in Nat
    BY <1>1, <1>3, <2>1
  <2>3. \E j \in I : \A i \in I : j <= i
    BY <2>2, LeastExists
  <2>4. PICK j : j = CHOOSE l \in I : \A i \in I : l <= i
    OBVIOUS
  <2>5. j \in I
    BY <2>3, <2>4
  <2>6. readq' = RemoveAt(readq, j)
    BY <1>2, <2>1, <2>4 DEF Flushed
  <2>. QED  BY <2>1, <2>5, <2>6
<1>5. /\ readq[k].fid = f
      /\ \A i, j \in 1 .. Len(readq) : readq[i].fid = readq[j].fid => i = j
  BY <1>1, <1>4, OneRead
<1>6. /\ \A g : g # f => ReadsOf(readq', g) = ReadsOf(readq, g)
      /\ ReadsOf(readq', f) = {}
  <2>1. \A j \in 1 .. Len(readq) : readq[j].fid = readq[k].fid => j = k
    BY <1>5
  <2>2. /\ \A g : g # readq[k].fid => ReadsOf(RemoveAt(readq, k), g) = ReadsOf(readq, g)
        /\ ReadsOf(RemoveAt(readq, k), readq[k].fid) = {}
    BY <1>1, <2>1, ReadsOfLess
  <2>. QED  BY <1>4, <1>5, <2>2
<1>7. /\ readq' \in Seq(ReadType)
      /\ \A i, j \in 1 .. Len(readq') : readq'[i].fid = readq'[j].fid => i = j
  <2>1. PICK tq : tq = RemoveAt(readq, k)
    OBVIOUS
  <2>2. /\ tq \in Seq(ReadType)
        /\ \A j \in 1 .. Len(tq) : /\ Place(k, j) \in 1 .. Len(readq)
                                   /\ tq[j] = readq[Place(k, j)]
        /\ \A i, j \in 1 .. Len(tq) : Place(k, i) = Place(k, j) => i = j
    BY <1>1, <1>4, <2>1, RemovedPlaces
  <2>3. readq' = tq
    BY <1>4, <2>1
  <2>4. \A i, j \in 1 .. Len(tq) : tq[i].fid = tq[j].fid => i = j
    BY <1>5, <2>2
  <2>. QED  BY <2>2, <2>3, <2>4
<1>8. Asked(readq', f) = 0
  BY <1>6, <1>7, AskedIs
<1>9. ASSUME NEW g \in Fids, g # f PROVE Asked(readq', g) = Asked(readq, g)
  BY <1>1, <1>5, <1>6, <1>7, <1>9, AskedSame DEF Single
<1>10. want' = [want EXCEPT ![f] = 0]
  BY <1>8, <1>9, PortNames DEF WantOf
<1>11. Subscribers' = Subscribers /\ box' = box /\ taken' = taken
  BY <1>2, PortNames
<1>12. Port!Cancel(f)
  BY <1>2, <1>10, <1>11 DEF Port!Cancel
<1>13. Unread'
  BY <1>2 DEF Unread, OpenOn
<1>. QED  BY <1>12, <1>13 DEF PortStep, Port!Next

(* A fid that does not have the port open has no mail,                        *)
LEMMA NoMail ==
  ASSUME NEW sq, NEW P, SendsOK(sq, P), NEW f \in Fids, f \notin P
  PROVE  Mail(sq, f) = <<>>
<1>1. ASSUME NEW k \in 1 .. Len(sq) PROVE ~Awaits(sq[k], f)
  <2>1. SUFFICES ASSUME NEW i \in 1 .. Len(sq[k].fid), sq[k].fid[i] = f PROVE FALSE
    BY DEF Awaits
  <2>2. i \in Entries(sq[k])
    BY <2>1, PlumbAssumption DEF Entries
  <2>3. \A j \in Entries(sq[k]) : sq[k].fid[j] \in P
    BY DEF SendsOK, SendOK
  <2>. QED  BY <2>1, <2>2, <2>3
<1>. QED  BY <1>1, MailNone DEF SendsOK

(* and messages that nobody may read are not in the queue.                    *)
LEMMA NobodySends ==
  ASSUME NEW sq, SendsOK(sq, {}), \A k \in 1 .. Len(sq) : sq[k].nleft # 0
  PROVE  sq = <<>>
<1>1. sq \in Seq(SendType)
  BY DEF SendsOK
<1>2. ASSUME NEW k \in 1 .. Len(sq) PROVE FALSE
  <2>1. Entries(sq[k]) = {} /\ sq[k].nleft = Cardinality(Entries(sq[k]))
    BY DEF SendsOK, SendOK
  <2>. QED  BY <2>1, FS_EmptySet
<1>. QED  BY <1>1, <1>2, EmptySeq

(* Who reads has no mail.                                                     *)
LEMMA QuietTurn ==
  ASSUME IInv, ~Overtake, NEW r \in Fids, NEW b, NEW t, NEW a, b = Mail(sendq, r)
  PROVE  Turn(b, t, Asked(readq, r), a, b, t, Asked(readq, r), a)
<1>1. /\ readq \in Seq(ReadType) /\ sendq \in Seq(SendType)
      /\ ReadsOK(readq, wait, inhand, OpenOn("port")) /\ Quiet(sendq, readq)
  BY DEF IInv, Typed
<1>2. /\ Asked(readq, r) \in Nat
      /\ Asked(readq, r) # 0 => \E k \in 1 .. Len(readq) : readq[k].fid = r
  BY <1>1, AskedOf
<1>3. ASSUME Asked(readq, r) # 0 PROVE b = <<>>
  <2>1. \A s \in 1 .. Len(sendq) : ~Awaits(sendq[s], r)
    BY <1>1, <1>2, <1>3 DEF Quiet, Awaits
  <2>. QED  BY <1>1, <2>1, MailNone
<1>. QED  BY <1>2, <1>3, IdleTurn

(* Opening the port subscribes, to what is held for the first as well.        *)
LEMMA OpenSends ==
  ASSUME IInv, NEW f \in Fids, f \notin OpenOn("port"),
         sendq' = sendq \o [k \in 1 .. Len(holdq) |-> Sendreq(holdq[k], <<f>> \o fopen["port"])]
  PROVE  /\ Mail(sendq', f) = holdq
         /\ \A g \in Fids : g # f => Mail(sendq', g) = Mail(sendq, g)
<1>1. /\ SendsOK(sendq, OpenOn("port")) /\ \A k \in 1 .. Len(sendq) : sendq[k].nleft # 0
      /\ holdq \in Seq(Message) /\ sendq \in Seq(SendType) /\ Len(holdq) \in Nat
      /\ holdq # <<>> => fopen["port"] = <<>>
  BY DEF IInv, Typed
<1>. DEFINE new == [k \in 1 .. Len(holdq) |-> Sendreq(holdq[k], <<f>> \o fopen["port"])]
<1>2. CASE holdq = <<>>
  <2>1. new = <<>>
    BY <1>2
  <2>2. sendq' = sendq
    <3>1. sendq \o <<>> = sendq
      BY <1>1, ConcatEmptySeq
    <3>. QED  BY <2>1, <3>1
  <2>. QED  BY <1>1, <1>2, <2>2, NoMail
<1>3. CASE holdq # <<>>
  <2>1. fopen["port"] = <<>> /\ OpenOn("port") = {}
    <3>1. fopen["port"] = <<>> /\ "port" \in Files
      BY <1>1, <1>3 DEF Files
    <3>2. \A g \in Fids : g \notin OpenOn("port")
      BY <3>1 DEF IInv, ListsAgree
    <3>. QED  BY <3>1, <3>2 DEF OpenOn
  <2>2. sendq = <<>>
    BY <1>1, <2>1, NobodySends
  <2>3. <<f>> \o fopen["port"] = <<f>>
    BY <2>1
  <2>4. sendq' = <<>> \o [k \in 1 .. Len(holdq) |-> Sendreq(holdq[k], <<f>>)]
    BY <2>2, <2>3
  <2>5. ASSUME NEW m \in Message
        PROVE  /\ Sendreq(m, <<f>>) \in SendType /\ Sendreq(m, <<f>>).msg = m
               /\ \A g : Awaits(Sendreq(m, <<f>>), g) <=> g = f
    <3>1. PICK l : l = <<f>>
      OBVIOUS
    <3>2. l \in Seq(Fids) /\ Len(l) = 1 /\ l[1] = f
      BY <3>1
    <3>3. Sendreq(m, l) \in SendType
      BY <3>2 DEF Sendreq, SendType
    <3>4. Sendreq(m, l).msg = m /\ Sendreq(m, l).fid = l
      BY DEF Sendreq
    <3>5. \A g : Awaits(Sendreq(m, l), g) <=> g = f
      <4>1. \A i : i \in 1 .. Len(l) <=> i = 1
        BY <3>2
      <4>. QED  BY <3>2, <3>4, <4>1 DEF Awaits
    <3>. QED  BY <3>1, <3>3, <3>4, <3>5
  <2>6. \A k \in 1 .. Len(holdq) : holdq[k] \in Message
    BY <1>1
  <2>7. /\ sendq' \in Seq(SendType) /\ Len(sendq') = Len(holdq)
        /\ \A k \in 1 .. Len(holdq) : /\ sendq'[k].msg = holdq[k]
                                      /\ \A g : Awaits(sendq'[k], g) <=> g = f
    <3>1. PICK w : w = [k \in 1 .. Len(holdq) |-> Sendreq(holdq[k], <<f>>)]
      OBVIOUS
    <3>2. /\ w \in Seq(SendType) /\ Len(w) = Len(holdq)
          /\ \A k \in 1 .. Len(holdq) : w[k] = Sendreq(holdq[k], <<f>>)
      BY <1>1, <2>5, <2>6, <3>1
    <3>3. sendq' = w
      <4>1. <<>> \o w = w
        BY <3>2, ConcatEmptySeq
      <4>. QED  BY <2>4, <3>1, <4>1
    <3>. QED  BY <2>5, <2>6, <3>2, <3>3
  <2>8. Mail(sendq', f) = holdq
    BY <1>1, <2>7, MailHeld
  <2>9. ASSUME NEW g \in Fids, g # f PROVE Mail(sendq', g) = Mail(sendq, g)
    <3>1. Mail(sendq', g) = <<>>
      BY <2>7, <2>9, MailNone
    <3>2. Mail(sendq, g) = <<>>
      BY <1>1, <2>1, NoMail
    <3>. QED  BY <3>1, <3>2
  <2>. QED  BY <2>8, <2>9
<1>. QED  BY <1>2, <1>3

(* Topen of the port subscribes; of another file, it is not seen.             *)
LEMMA OpenSubscribes ==
  ASSUME IInv, Unread, ~Overtake, NEW f \in Fids, Open(f)
  PROVE  PortStep /\ Unread'
<1>1. /\ ~fids[f].open /\ fids \in [Fids -> FidType] /\ reply \in [Fids -> Replies]
      /\ fids[f].offset = 0 /\ fids' = [fids EXCEPT ![f].mode = opening[f], ![f].open = TRUE]
      /\ readq' = readq /\ reply' = reply
  BY DEF IInv, Typed, FidsAgree, PortionsAgree, Open, client
<1>2. /\ \A g \in Fids : g # f => fids'[g] = fids[g]
      /\ fids'[f].open /\ fids'[f].dir = fids[f].dir /\ fids'[f].offset = fids[f].offset
  <2>1. PICK y \in FidType : y = fids[f]
    BY <1>1
  <2>2. fids' = [fids EXCEPT ![f] = [y EXCEPT !.mode = opening[f], !.open = TRUE]]
    BY <1>1, <2>1
  <2>3. /\ [y EXCEPT !.mode = opening[f], !.open = TRUE].open
        /\ [y EXCEPT !.mode = opening[f], !.open = TRUE].dir = y.dir
        /\ [y EXCEPT !.mode = opening[f], !.open = TRUE].offset = y.offset
    BY DEF FidType
  <2>. QED  BY <1>1, <2>1, <2>2, <2>3
<1>3. f \notin OpenOn("port")
  BY <1>1 DEF OpenOn
<1>4. CASE fids[f].dir # "port"
  <2>1. UNCHANGED <<sendq, holdq>>
    BY <1>4 DEF Open
  <2>2. \A g \in Fids : g \in OpenOn("port")' <=> g \in OpenOn("port")
    BY <1>1, <1>2, <1>4 DEF OpenOn
  <2>3. \A g \in Fids : fids'[g].offset = fids[g].offset
    BY <1>2
  <2>. QED  BY <1>1, <2>1, <2>2, <2>3, Unseen
<1>5. CASE fids[f].dir = "port"
  <2>1. /\ sendq' = sendq \o [k \in 1 .. Len(holdq) |-> Sendreq(holdq[k], <<f>> \o fopen["port"])]
        /\ holdq' = <<>>
    BY <1>5 DEF Open
  <2>2. /\ Mail(sendq', f) = holdq
        /\ \A g \in Fids : g # f => Mail(sendq', g) = Mail(sendq, g)
    BY <1>3, <2>1, OpenSends
  <2>3. OpenOn("port")' = OpenOn("port") \cup {f}
    BY <1>1, <1>2, <1>5 DEF OpenOn
  <2>4. ASSUME NEW r \in Fids
        PROVE  Turn([box EXCEPT ![f] = holdq][r], taken[r], want[r], reply[r],
                    box'[r], taken'[r], want'[r], reply'[r])
    <3>1. /\ box[r] = Mail(sendq, r) /\ box'[r] = Mail(sendq', r)
          /\ want[r] = Asked(readq, r) /\ want'[r] = Asked(readq, r)
          /\ box \in [Fids -> {Mail(sendq, g) : g \in Fids}]
      BY <1>1, PortNames DEF MailsOf, WantOf
    <3>2. taken'[r] = taken[r]
      <4>1. r \in Shelf(fids', "port") <=> r \in Shelf(fids, "port") \/ r = f
        BY <2>3, PortNames
      <4>2. f \notin Shelf(fids, "port")
        BY <1>3, PortNames
      <4>3. taken[r] = IF r \in Shelf(fids, "port") THEN fids[r].offset ELSE 0
        BY PortNames DEF TakenOf
      <4>4. taken'[r] = IF r \in Shelf(fids', "port") THEN fids'[r].offset ELSE 0
        BY PortNames DEF TakenOf
      <4>. QED  BY <1>1, <1>2, <4>1, <4>2, <4>3, <4>4
    <3>3. CASE r = f
      <4>1. Asked(readq, f) = 0
        BY <1>3, AskedOf DEF IInv, Typed
      <4>2. [box EXCEPT ![f] = holdq][f] = holdq
        BY <3>1
      <4>. QED  BY <1>1, <2>2, <3>1, <3>2, <3>3, <4>1, <4>2, IdleTurn
    <3>4. CASE r # f
      <4>1. [box EXCEPT ![f] = holdq][r] = Mail(sendq, r) /\ box'[r] = Mail(sendq, r)
        BY <2>2, <3>1, <3>4
      <4>. QED  BY <1>1, <3>1, <3>2, <4>1, QuietTurn
    <3>. QED  BY <3>3, <3>4
  <2>5. Port!Settle([box EXCEPT ![f] = holdq], want)
    <3>1. TurnsOf([box EXCEPT ![f] = holdq], want)
      BY <2>4 DEF TurnsOf
    <3>. QED  BY <1>1, <3>1, TurnsSettle
  <2>6. Port!Subscribe(f)
    BY <1>3, <2>1, <2>3, <2>5 DEF Port!Subscribe, Subscribers
  <2>7. Unread'
    BY <1>1, <2>3 DEF Unread
  <2>. QED  BY <2>6, <2>7 DEF PortStep, Port!Next
<1>. QED  BY <1>4, <1>5

(* A message for the port goes to everybody who subscribes,                   *)
LEMMA SendIsPost ==
  ASSUME IInv, Unread, ~Overtake, NEW f \in Fids, f \notin OpenOn("port"), NEW m \in Message,
         Post(Clean(f), m), holdq' = holdq, nopen["port"] # 0
  PROVE  Port!Post(m) /\ Unread'
<1>1. PICK open : open = fopen["port"]
  OBVIOUS
<1>2. /\ open \in Seq(Fids) /\ \A i, j \in 1 .. Len(open) : open[i] = open[j] => i = j
      /\ \A g \in Fids : g \in OpenOn("port") <=> \E i \in 1 .. Len(open) : open[i] = g
      /\ nopen["port"] = Len(open) /\ Len(open) \in Nat
      /\ \A i \in 1 .. Len(open) : open[i] \in OpenOn("port") /\ open[i] \in Fids
  <2>1. "port" \in Files
    BY DEF Files
  <2>2. /\ open \in Seq(Fids) /\ \A i, j \in 1 .. Len(open) : open[i] = open[j] => i = j
        /\ \A g \in Fids : g \in OpenOn("port") <=> \E i \in 1 .. Len(open) : open[i] = g
        /\ nopen["port"] = Len(open)
    BY <1>1, <2>1 DEF IInv, ListsAgree
  <2>3. Len(open) \in Nat /\ \A i \in 1 .. Len(open) : open[i] \in Fids
    BY <2>2
  <2>. QED  BY <2>2, <2>3
<1>3. PICK x : x = Sendreq(m, open)
  OBVIOUS
<1>4. x \in SendType /\ SendOK(x, OpenOn("port")) /\ x.fid = open /\ x.msg = m
  <2>1. x \in SendType /\ SendOK(x, OpenOn("port")) /\ x.fid = open
    BY <1>2, <1>3, SendreqOK
  <2>. QED  BY <1>3, <2>1 DEF Sendreq
<1>5. PICK sq : sq = Append(sendq, x)
  OBVIOUS
<1>6. SendsOK(sq, OpenOn("port")) /\ sendq \in Seq(SendType)
  <2>1. /\ sendq \in Seq(SendType) /\ \A k \in 1 .. Len(sendq) : SendOK(sendq[k], OpenOn("port"))
    BY DEF IInv, SendsOK
  <2>2. /\ sq \in Seq(SendType) /\ Len(sq) = Len(sendq) + 1 /\ Len(sendq) \in Nat
        /\ \A k \in 1 .. Len(sendq) : sq[k] = sendq[k]
        /\ sq[Len(sendq) + 1] = x
    BY <1>4, <1>5, <2>1, AppendList
  <2>3. \A k \in 1 .. Len(sq) : k \in 1 .. Len(sendq) \/ k = Len(sendq) + 1
    BY <2>2
  <2>. QED  BY <1>4, <2>1, <2>2, <2>3 DEF SendsOK
<1>7. /\ Clean(f) \in [Fids -> FidType]
      /\ \A g \in Fids : /\ Clean(f)[g].open = fids[g].open /\ Clean(f)[g].dir = fids[g].dir
                         /\ g # f => Clean(f)[g] = fids[g]
  BY CleanFids
<1>8. Drain(Clean(f), sq, readq)
  BY <1>1, <1>3, <1>5 DEF Post
<1>9. Port!Settle(MailsOf(sq), WantOf(readq)) /\ Subscribers' = Subscribers /\ Unread'
  <2>1. /\ readq \in Seq(ReadType) /\ inhand \in SUBSET ReadType
        /\ wait \in [Fids -> BOOLEAN] /\ reply \in [Fids -> Replies]
        /\ ReadsOK(readq, wait, inhand, OpenOn("port"))
    BY DEF IInv, Typed
  <2>2. \A g \in Fids : g \in OpenOn("port") => Clean(f)[g].offset = fids[g].offset
    BY <1>7
  <2>. QED  BY <1>6, <1>7, <1>8, <2>1, <2>2, DrainTurns
<1>10. MailsOf(sq) = [r \in Fids |-> IF r \in Subscribers THEN Append(box[r], m) ELSE box[r]]
  <2>1. ASSUME NEW r \in Fids
        PROVE  Mail(sq, r) = IF r \in Subscribers THEN Append(box[r], m) ELSE box[r]
    <3>1. Mail(sq, r) = MailOne(Mail(sendq, r), x, r)
      BY <1>4, <1>5, <1>6, MailAppend
    <3>2. Awaits(x, r) <=> r \in Subscribers
      BY <1>2, <1>4 DEF Awaits, Subscribers
    <3>3. box[r] = Mail(sendq, r)
      BY PortNames DEF MailsOf
    <3>. QED  BY <1>4, <3>1, <3>2, <3>3 DEF MailOne
  <2>. QED  BY <2>1 DEF MailsOf
<1>11. Subscribers # {}
  <2>1. 1 \in 1 .. Len(open)
    BY <1>2
  <2>. QED  BY <1>2, <2>1 DEF Subscribers
<1>. QED  BY <1>9, <1>10, <1>11, PortNames DEF Port!Post

(* or is held, when nobody does.                                              *)
LEMMA HeldIsHold ==
  ASSUME IInv, Unread, NEW f \in Fids, f \notin OpenOn("port"), nopen["port"] = 0,
         fids' = Clean(f), UNCHANGED <<sendq, readq, reply>>
  PROVE  /\ Subscribers = {} /\ Subscribers' = Subscribers
         /\ box' = box /\ taken' = taken /\ want' = want /\ reply' = reply /\ Unread'
<1>1. \A g \in Fids : /\ Clean(f)[g].open = fids[g].open /\ Clean(f)[g].dir = fids[g].dir
                      /\ g # f => Clean(f)[g] = fids[g]
  BY CleanFids
<1>2. OpenOn("port")' = OpenOn("port")
  BY <1>1 DEF OpenOn
<1>3. OpenOn("port") = {}
  <2>1. "port" \in Files
    BY DEF Files
  <2>2. \A g \in Fids : g \notin OpenOn("port")
    BY <2>1 DEF IInv, ListsAgree
  <2>. QED  BY <2>2 DEF OpenOn
<1>4. taken' = taken
  BY <1>2, <1>3, PortNames DEF TakenOf
<1>5. box' = box /\ want' = want
  BY PortNames
<1>6. Unread'
  BY <1>2 DEF Unread
<1>. QED  BY <1>2, <1>3, <1>4, <1>5, <1>6 DEF Subscribers

(* Twrite posts or holds the message it ends; until then it is not seen.      *)
LEMMA WriteIsSeen ==
  ASSUME IInv, Unread, ~Overtake, NEW f \in Fids, Write(f)
  PROVE  PortStep /\ Unread'
<1>1. PICK w \in Portions(f), port \in BOOLEAN, h \in BOOLEAN : Twrite(f, w.u, port, h)
  BY DEF Write
<1>2. /\ fids[f].open /\ fids[f].dir = "send" /\ f \notin OpenOn("port")
      /\ fids \in [Fids -> FidType] /\ holdq \in Seq(Message)
  BY DEF Write, OpenOn, IInv, Typed
<1>3. Written(fids[f], w.u, w.rest)
  BY <1>2, PortionIs
<1>4. \/ fids' = Clean(f) /\ UNCHANGED <<holdq, sendq, readq, reply>>
      \/ \E m \in Message : Dispose(m, h, Clean(f))
      \/ /\ fids' = [fids EXCEPT ![f].offset = @ + Len(w.u), ![f].writebuf = Sofar(fids[f], w.u)]
         /\ UNCHANGED <<holdq, sendq, readq, reply>>
  BY <1>1, <1>3, TwriteCases
<1>5. ASSUME fids' = Clean(f), UNCHANGED <<holdq, sendq, readq, reply>>
      PROVE  PortStep /\ Unread'
  <2>1. \A g \in Fids : /\ Clean(f)[g].open = fids[g].open /\ Clean(f)[g].dir = fids[g].dir
                        /\ g # f => Clean(f)[g] = fids[g]
    BY CleanFids
  <2>2. \A g \in Fids : /\ g \in OpenOn("port")' <=> g \in OpenOn("port")
                        /\ g \in OpenOn("port") => fids'[g].offset = fids[g].offset
    BY <1>2, <1>5, <2>1 DEF OpenOn
  <2>. QED  BY <1>5, <2>2, Unseen
<1>6. ASSUME fids' = [fids EXCEPT ![f].offset = @ + Len(w.u), ![f].writebuf = Sofar(fids[f], w.u)],
             UNCHANGED <<holdq, sendq, readq, reply>>
      PROVE  PortStep /\ Unread'
  <2>1. PICK y \in FidType : y = fids[f]
    BY <1>2
  <2>2. PICK z : z = [y EXCEPT !.offset = @ + Len(w.u), !.writebuf = Sofar(fids[f], w.u)]
    OBVIOUS
  <2>3. z.open = y.open /\ z.dir = y.dir
    BY <2>2 DEF FidType
  <2>4. fids' = [fids EXCEPT ![f] = z]
    BY <1>6, <2>1, <2>2
  <2>5. /\ \A g \in Fids : g # f => fids'[g] = fids[g]
        /\ fids'[f].open = fids[f].open /\ fids'[f].dir = fids[f].dir
    BY <1>2, <2>1, <2>3, <2>4
  <2>6. \A g \in Fids : /\ g \in OpenOn("port")' <=> g \in OpenOn("port")
                        /\ g \in OpenOn("port") => fids'[g].offset = fids[g].offset
    BY <1>2, <2>5 DEF OpenOn
  <2>. QED  BY <1>6, <2>6, Unseen
<1>7. ASSUME NEW m \in Message, Dispose(m, h, Clean(f)) PROVE PortStep /\ Unread'
  <2>1. CASE nopen["port"] # 0
    <3>1. Post(Clean(f), m) /\ holdq' = holdq
      BY <1>7, <2>1 DEF Dispose
    <3>2. Port!Post(m) /\ Unread'
      BY <1>2, <2>1, <3>1, SendIsPost
    <3>. QED  BY <3>2 DEF PortStep, Port!Next
  <2>2. CASE nopen["port"] = 0
    <3>1. /\ holdq' = IF h THEN Append(holdq, m) ELSE holdq
          /\ fids' = Clean(f) /\ UNCHANGED <<sendq, readq, reply>>
      BY <1>7, <2>2 DEF Dispose
    <3>2. /\ Subscribers = {} /\ Subscribers' = Subscribers
          /\ box' = box /\ taken' = taken /\ want' = want /\ reply' = reply /\ Unread'
      BY <1>2, <2>2, <3>1, HeldIsHold
    <3>3. CASE h
      <4>1. Port!Hold(m)
        BY <3>1, <3>2, <3>3 DEF Port!Hold
      <4>. QED  BY <3>2, <4>1 DEF PortStep, Port!Next
    <3>4. CASE ~h
      BY <3>1, <3>2, <3>4 DEF PortStep, Port!vars
    <3>. QED  BY <3>3, <3>4
  <2>. QED  BY <2>1, <2>2
<1>. QED  BY <1>4, <1>5, <1>6, <1>7

(* Whoever closes the port loses the mail, and nobody else.                   *)
LEMMA WithoutMail ==
  ASSUME NEW P, SendsOK(sendq, P), NEW f \in Fids, NEW g \in Fids
  PROVE  Mail(Without(f), g) = IF g = f THEN <<>> ELSE Mail(sendq, g)
<1>1. CASE g = f
  <2>1. SendsOK(Without(f), P \ {f})
    BY WithoutDoes
  <2>. QED  BY <1>1, <2>1, NoMail
<1>2. CASE g # f
  <2>1. PICK d : d = [k \in 1 .. Len(sendq) |-> Drop(f, sendq[k])]
    OBVIOUS
  <2>2. Without(f) = Left(d)
    BY <2>1 DEF Without, Drop
  <2>3. /\ sendq \in Seq(SendType) /\ Len(sendq) \in Nat
        /\ \A k \in 1 .. Len(sendq) : sendq[k] \in SendType /\ SendOK(sendq[k], P)
    <3>1. sendq \in Seq(SendType)
      BY DEF SendsOK
    <3>2. \A k \in 1 .. Len(sendq) : sendq[k] \in SendType
      BY <3>1, ElementOfSeq
    <3>. QED  BY <3>1, <3>2 DEF SendsOK
  <2>4. \A k \in 1 .. Len(sendq) :
           /\ Drop(f, sendq[k]) \in SendType /\ SendOK(Drop(f, sendq[k]), P \ {f})
           /\ Drop(f, sendq[k]).msg = sendq[k].msg
           /\ Awaits(Drop(f, sendq[k]), g) <=> Awaits(sendq[k], g)
    BY <1>2, <2>3, DropDoes
  <2>5. /\ d \in Seq(SendType) /\ Len(d) = Len(sendq)
        /\ \A k \in 1 .. Len(sendq) : d[k] = Drop(f, sendq[k])
    BY <2>1, <2>3, <2>4
  <2>6. \A k \in 1 .. Len(d) : /\ d[k].nleft = Cardinality(Entries(d[k]))
                               /\ Awaits(d[k], g) <=> Awaits(sendq[k], g)
                               /\ d[k].msg = sendq[k].msg
    BY <2>4, <2>5 DEF SendOK
  <2>7. Mail(Left(d), g) = Mail(d, g)
    BY <2>5, <2>6, LeftMail
  <2>8. Mail(d, g) = Mail(sendq, g)
    BY <2>3, <2>5, <2>6, MailSame
  <2>. QED  BY <1>2, <2>2, <2>7, <2>8
<1>. QED  BY <1>1, <1>2

(* Tclunk of the port leaves it; of another file, it is not seen.             *)
LEMMA ClunkLeaves ==
  ASSUME IInv, Unread, ~Overtake, NEW f \in Fids, Clunk(f)
  PROVE  PortStep /\ Unread'
<1>1. /\ ~wait[f] /\ fids \in [Fids -> FidType] /\ reply \in [Fids -> Replies]
      /\ readq \in Seq(ReadType) /\ ReadsOK(readq, wait, inhand, OpenOn("port"))
      /\ SendsOK(sendq, OpenOn("port"))
      /\ fids' = [fids EXCEPT ![f] = Shut(f)] /\ reply' = [reply EXCEPT ![f] = <<>>]
      /\ readq' = readq /\ holdq' = holdq
  BY DEF IInv, Typed, Clunk, Free
<1>2. ~Shut(f).open
  <2>1. PICK y \in FidType : y = fids[f]
    BY <1>1
  <2>. QED  BY <2>1 DEF Shut, FidType
<1>3. ~fids'[f].open /\ \A g \in Fids : g # f => fids'[g] = fids[g]
  BY <1>1, <1>2
<1>4. f \notin OpenOn("port")' /\ \A g \in Fids : g # f => (g \in OpenOn("port")' <=> g \in OpenOn("port"))
  BY <1>3 DEF OpenOn
<1>5. /\ reply'[f] = <<>> /\ \A g \in Fids : g # f => reply'[g] = reply[g]
  BY <1>1
<1>6. Unread'
  BY <1>4, <1>5 DEF Unread
<1>7. CASE f \in OpenOn("port")
  <2>1. sendq' = Without(f)
    BY <1>7 DEF OpenOn, Clunk
  <2>2. box' = [box EXCEPT ![f] = <<>>]
    <3>1. \A g \in Fids : Mail(sendq', g) = IF g = f THEN <<>> ELSE Mail(sendq, g)
      BY <1>1, <2>1, WithoutMail
    <3>. QED  BY <3>1, PortNames DEF MailsOf
  <2>3. taken' = [taken EXCEPT ![f] = 0]
    <3>1. \A g \in Fids : (IF g \in OpenOn("port")' THEN fids'[g].offset ELSE 0)
                          = IF g = f THEN 0 ELSE IF g \in OpenOn("port") THEN fids[g].offset ELSE 0
      BY <1>3, <1>4
    <3>2. /\ taken = [g \in Fids |-> IF g \in OpenOn("port") THEN fids[g].offset ELSE 0]
          /\ taken' = [g \in Fids |-> IF g \in OpenOn("port")' THEN fids'[g].offset ELSE 0]
      BY PortNames DEF TakenOf
    <3>. QED  BY <3>1, <3>2
  <2>4. want' = want /\ want[f] = 0
    <3>1. Asked(readq, f) = 0
      BY <1>1, AskedOf
    <3>. QED  BY <1>1, <3>1, PortNames DEF WantOf
  <2>5. f \in Subscribers /\ Subscribers' = Subscribers \ {f}
    <3>1. OpenOn("port")' = OpenOn("port") \ {f}
      <4>1. OpenOn("port") \subseteq Fids /\ OpenOn("port")' \subseteq Fids
        BY DEF OpenOn
      <4>. QED  BY <1>4, <4>1
    <3>. QED  BY <1>7, <3>1 DEF Subscribers
  <2>6. Port!Leave(f)
    BY <1>1, <2>2, <2>3, <2>4, <2>5 DEF Port!Leave
  <2>. QED  BY <1>6, <2>6 DEF PortStep, Port!Next
<1>8. CASE f \notin OpenOn("port")
  <2>1. sendq' = sendq
    BY <1>8 DEF OpenOn, Clunk
  <2>2. reply' = reply
    BY <1>1, <1>8 DEF Unread
  <2>3. \A g \in Fids : /\ g \in OpenOn("port")' <=> g \in OpenOn("port")
                        /\ g \in OpenOn("port") => fids'[g].offset = fids[g].offset
    BY <1>3, <1>4, <1>8
  <2>. QED  BY <1>1, <1>6, <2>1, <2>2, <2>3, Unseen
<1>. QED  BY <1>7, <1>8

(* Twalk names a file, and no file is open yet.                               *)
LEMMA WalkUnseen ==
  ASSUME IInv, Unread, NEW f \in Fids, NEW d \in Files, Walk(f, d)
  PROVE  PortStep /\ Unread'
<1>1. /\ fids \in [Fids -> FidType] /\ ~fids[f].open
      /\ fids' = [fids EXCEPT ![f].busy = TRUE, ![f].open = FALSE, ![f].dir = d]
      /\ UNCHANGED <<sendq, readq, holdq, reply>>
  BY DEF IInv, Typed, FidsAgree, Walk, queues, client
<1>2. PICK y \in FidType : y = fids[f]
  BY <1>1
<1>3. fids' = [fids EXCEPT ![f] = [y EXCEPT !.busy = TRUE, !.open = FALSE, !.dir = d]]
  BY <1>1, <1>2
<1>4. ~[y EXCEPT !.busy = TRUE, !.open = FALSE, !.dir = d].open
  BY DEF FidType
<1>5. ~fids'[f].open /\ \A g \in Fids : g # f => fids'[g] = fids[g]
  BY <1>1, <1>3, <1>4
<1>6. \A g \in Fids : /\ g \in OpenOn("port")' <=> g \in OpenOn("port")
                      /\ g \in OpenOn("port") => fids'[g].offset = fids[g].offset
  BY <1>1, <1>5 DEF OpenOn
<1>. QED  BY <1>1, <1>6, Unseen

(* Nor is a step seen that leaves the fids and the queues alone.              *)
LEMMA RestUnseen ==
  ASSUME Unread, UNCHANGED <<fids, sendq, readq, holdq, reply>>
  PROVE  PortStep /\ Unread'
<1>1. \A g \in Fids : /\ g \in OpenOn("port")' <=> g \in OpenOn("port")
                      /\ g \in OpenOn("port") => fids'[g].offset = fids[g].offset
  BY DEF OpenOn
<1>. QED  BY <1>1, Unseen

(* The port of fsys.c, with one queue of messages for all its readers, keeps  *)
(* what a plumber port promises, as long as no Tflush overtakes its Tread:    *)
(* what the units of messages in the queue, the offsets of the fids and the   *)
(* queue of reads amount to is a mailbox for each reader, from which it reads *)
(* every message that came while it had the port open, whole and in order.    *)
THEOREM ImplementsMailboxes == ASSUME ~Overtake PROVE Spec => ImplementsPort
<1>1. Init => Port!Init /\ Unread
  <2>1. SUFFICES ASSUME Init PROVE Port!Init /\ Unread
    OBVIOUS
  <2>2. /\ fids = [f \in Fids |-> NewFid] /\ holdq = <<>> /\ readq = <<>> /\ sendq = <<>>
        /\ reply = [f \in Fids |-> <<>>]
    BY <2>1 DEF Init
  <2>3. OpenOn("port") = {}
    BY <2>2 DEF OpenOn, NewFid
  <2>4. box = [f \in Fids |-> <<>>]
    <3>1. sendq \in Seq(SendType) /\ \A k \in 1 .. Len(sendq) : FALSE
      BY <2>2
    <3>2. \A f \in Fids : Mail(sendq, f) = <<>>
      BY <3>1, MailNone
    <3>. QED  BY <3>2, PortNames DEF MailsOf
  <2>5. taken = [f \in Fids |-> 0]
    BY <2>3, PortNames DEF TakenOf
  <2>6. want = [f \in Fids |-> 0]
    <3>1. \A f : Reading(f) = {}
      BY <2>2 DEF Reading
    <3>. QED  BY <3>1 DEF want
  <2>7. Unread
    BY <2>2 DEF Unread
  <2>. QED  BY <2>2, <2>3, <2>4, <2>5, <2>6, <2>7 DEF Port!Init, Subscribers
<1>2. IInv /\ Unread /\ [Next]_vars => Unread' /\ [Port!Next]_(Port!vars)
  <2>1. SUFFICES ASSUME IInv, Unread, [Next]_vars PROVE PortStep /\ Unread'
    BY DEF PortStep
  <2>2. ASSUME NEW f \in Fids, NEW d \in Files, Walk(f, d) PROVE PortStep /\ Unread'
    BY <2>1, <2>2, WalkUnseen
  <2>3. ASSUME NEW f \in Fids, NEW m \in {"OREAD", "OWRITE"}, OpenCheck(f, m)
        PROVE  PortStep /\ Unread'
    BY <2>1, <2>3, RestUnseen DEF OpenCheck, queues, client
  <2>4. ASSUME NEW f \in Fids, NEW n \in 1 .. Size, Read(f, n) PROVE PortStep /\ Unread'
    BY <2>1, <2>4, RestUnseen DEF Read, queues
  <2>5. ASSUME NEW f \in Fids, Open(f) PROVE PortStep /\ Unread'
    BY <2>1, <2>5, OpenSubscribes
  <2>6. ASSUME NEW f \in Fids, Flush(f) PROVE PortStep /\ Unread'
    BY <2>1, <2>6, FlushCancels
  <2>7. ASSUME NEW f \in Fids, Write(f) PROVE PortStep /\ Unread'
    BY <2>1, <2>7, WriteIsSeen
  <2>8. ASSUME NEW f \in Fids, Clunk(f) PROVE PortStep /\ Unread'
    BY <2>1, <2>8, ClunkLeaves
  <2>9. ASSUME NEW r \in inhand, Queue(r) PROVE PortStep /\ Unread'
    BY <2>1, <2>9, QueueAsks
  <2>10. CASE UNCHANGED vars
    BY <2>1, <2>10, RestUnseen DEF vars, queues, client
  <2>. QED  BY <2>1, <2>2, <2>3, <2>4, <2>5, <2>6, <2>7, <2>8, <2>9, <2>10 DEF Next
<1>. QED  BY <1>1, <1>2, Invariance, PTL DEF Spec, ImplementsPort, Port!Spec
=============================================================================

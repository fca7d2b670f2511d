----------------------------- MODULE SquintProofs -----------------------------
(* Proofs about the processes of the squint interpreter: each is in the run   *)
(* queue, or offers to communicate, or is owed a value, and in one place only.*)
EXTENDS Squint, ListFacts

-----------------------------------------------------------------------------
(* THE INDUCTIVE INVARIANT *)

QueueOf(c, snd) == IF snd THEN sndq[c] ELSE rcvq[c]

In(x, s) == PlacesOf(x, s) # {}
InRun(p) == In(p, runq)
InLine(p) == In(p, line)
InDebt(p) == \E q \in Proc : In(p, owes[q])
Somewhere(p) == InRun(p) \/ InLine(p) \/ InDebt(p)

Once(s) == \A i, j \in 1 .. Len(s) : s[i] = s[j] => i = j

(* Nobody is twice in the run queue, or in line, or owed a value twice.       *)
Distinct == /\ Once(runq) /\ Once(line)
            /\ \A q \in Proc : Once(owes[q])
            /\ \A q, r, p \in Proc : In(p, owes[q]) /\ In(p, owes[r]) => q = r

(* Nobody is in two of these, and whoever is in none has halted, or is the    *)
(* interpreter; it owes nothing.                                              *)
Apart == \A p \in Proc : ~(InRun(p) /\ InLine(p)) /\ ~(InRun(p) /\ InDebt(p))
                         /\ ~(InLine(p) /\ InDebt(p))
Present == /\ Interpreter \in alive
           /\ \A p \in Proc : Somewhere(p) => p \in alive
           /\ \A p \in alive \ {Interpreter} : Somewhere(p)
           /\ \A p \in Proc : ~Somewhere(p) => owes[p] = <<>>

(* Those in line have a list of offers, which all its queues stand for; and   *)
(* those who are owed a value know which offer of theirs was taken.           *)
Offering == /\ \A p \in Proc : offers[p] # <<>> <=> InLine(p)
            /\ \A p \in Proc : IF InDebt(p) THEN hit[p] \in Chan \X {FALSE} ELSE hit[p] = None
            /\ \A c \in Chan, snd \in BOOLEAN, p \in Proc :
                  In(p, QueueOf(c, snd)) => In(<<c, snd>>, offers[p])

IInv == TypeOK /\ Distinct /\ Apart /\ Present /\ Offering

(* What the proofs assume: no program begins more processes than proctab has  *)
(* entries, and no statement is executed after an error.                      *)
Given == ~Crowded /\ ~Interactive /\ IsFiniteSet(Proc)

-----------------------------------------------------------------------------
(* LISTS WITHOUT SOMEBODY *)

(* The members of a set of numbers in their order, by their rank.             *)
Rank(K, i) == Cardinality({j \in K : j <= i})

(* Ranks count up from 1, without a gap.                                      *)
LEMMA Ranks ==
  ASSUME NEW m \in Nat, NEW K, K \subseteq 1 .. m
  PROVE  /\ IsFiniteSet(K) /\ Cardinality(K) \in Nat
         /\ \A i \in K : Rank(K, i) \in 1 .. Cardinality(K)
         /\ \A i, k \in K : i < k => Rank(K, i) < Rank(K, k)
         /\ \A n \in 1 .. Cardinality(K) : \E i \in K : Rank(K, i) = n
<1>1. IsFiniteSet(K) /\ Cardinality(K) \in Nat
  <2>1. IsFiniteSet(1 .. m)
    BY FS_Interval
  <2>. QED  BY <2>1, FS_Subset, FS_CardinalityType
<1>2. ASSUME NEW i \in K PROVE /\ IsFiniteSet({j \in K : j <= i})
                               /\ Rank(K, i) \in 1 .. Cardinality(K)
  <2>1. PICK A : A = {j \in K : j <= i}
    OBVIOUS
  <2>2. A \subseteq K /\ i \in A
    BY <2>1
  <2>3. IsFiniteSet(A) /\ Cardinality(A) <= Cardinality(K)
    BY <1>1, <2>2, FS_Subset
  <2>4. Cardinality(A) \in Nat /\ Cardinality(A) # 0
    BY <2>2, <2>3, FS_CardinalityType, FS_EmptySet
  <2>5. Rank(K, i) = Cardinality(A)
    BY <2>1 DEF Rank
  <2>. QED  BY <1>1, <2>1, <2>3, <2>4, <2>5
<1>3. ASSUME NEW i \in K, NEW k \in K, i < k PROVE Rank(K, i) < Rank(K, k)
  <2>1. PICK A, B : A = {j \in K : j <= i} /\ B = {j \in K : j <= k}
    OBVIOUS
  <2>2. A \subseteq B \ {k} /\ k \in B /\ B \subseteq K
    <3>1. \A j \in K : j \in Int
      OBVIOUS
    <3>2. \A j \in A : j \in B /\ j # k
      BY <1>3, <2>1, <3>1
    <3>3. k \in B
      BY <2>1, <3>1
    <3>4. A \subseteq B \ {k}
      BY <3>2
    <3>. QED  BY <2>1, <3>3, <3>4
  <2>3. IsFiniteSet(B) /\ Cardinality(B) \in Nat
    BY <1>1, <2>2, FS_Subset, FS_CardinalityType
  <2>4. IsFiniteSet(B \ {k}) /\ Cardinality(B \ {k}) = Cardinality(B) - 1
    BY <2>2, <2>3, FS_RemoveElement
  <2>5. IsFiniteSet(A) /\ Cardinality(A) <= Cardinality(B \ {k}) /\ Cardinality(A) \in Nat
    BY <2>2, <2>4, FS_Subset, FS_CardinalityType
  <2>6. Rank(K, i) = Cardinality(A) /\ Rank(K, k) = Cardinality(B)
    BY <2>1 DEF Rank
  <2>. QED  BY <2>3, <2>4, <2>5, <2>6
<1>4. ASSUME NEW n \in 1 .. Cardinality(K) PROVE \E i \in K : Rank(K, i) = n
  <2>1. PICK f, T : f = [i \in K |-> Rank(K, i)] /\ T = 1 .. Cardinality(K)
    OBVIOUS
  <2>2. \A i, k \in K : Rank(K, i) = Rank(K, k) => i = k
    <3>1. \A i, k \in K : i < k \/ k < i \/ i = k
      OBVIOUS
    <3>2. \A i \in K : Rank(K, i) \in Int
      <4>1. PICK c \in Nat : c = Cardinality(K)
        BY <1>1
      <4>2. \A i \in K : Rank(K, i) \in 1 .. c
        BY <1>2, <4>1
      <4>. QED  BY <4>1, <4>2
    <3>3. \A i, k \in K : i < k => Rank(K, i) # Rank(K, k)
      BY <1>3, <3>2
    <3>. QED  BY <3>1, <3>3
  <2>3. f \in Injection(K, T)
    BY <1>2, <2>1, <2>2 DEF Injection, IsInjective
  <2>4. IsFiniteSet(T) /\ Cardinality(T) = Cardinality(K)
    BY <1>1, <2>1, FS_Interval
  <2>5. f \in Surjection(K, T)
    BY <2>3, <2>4, FS_Injection
  <2>. QED  BY <2>1, <2>5 DEF Surjection
<1>. QED  BY <1>1, <1>2, <1>3, <1>4

(* g tells where the elements of r have been in s: r is s without the x in it *)
Picks(g, r, s, x) ==
    /\ \A i \in 1 .. Len(r) : g[i] \in 1 .. Len(s) /\ r[i] = s[g[i]] /\ s[g[i]] # x
    /\ \A i, j \in 1 .. Len(r) : i < j => g[i] < g[j]
    /\ \A k \in 1 .. Len(s) : s[k] # x => \E i \in 1 .. Len(r) : g[i] = k

(* Without leaves the others, in their order.                                 *)
LEMMA WithoutIs ==
  ASSUME NEW S, NEW s \in Seq(S), NEW x
  PROVE  Without(s, x) \in Seq(S) /\ \E g : Picks(g, Without(s, x), s, x)
<1>1. Len(s) \in Nat /\ \A i \in 1 .. Len(s) : s[i] \in S
  OBVIOUS
<1>2. PICK K : K = (1 .. Len(s)) \ PlacesOf(x, s)
  OBVIOUS
<1>3. K \subseteq 1 .. Len(s) /\ \A k \in 1 .. Len(s) : k \in K <=> s[k] # x
  BY <1>2 DEF PlacesOf
<1>4. PICK n \in Nat : n = Cardinality(K)
  BY <1>1, <1>3, Ranks
<1>5. /\ \A i \in K : Rank(K, i) \in 1 .. n
      /\ \A i, k \in K : i < k => Rank(K, i) < Rank(K, k)
      /\ \A i \in 1 .. n : \E k \in K : Rank(K, k) = i
  BY <1>1, <1>3, <1>4, Ranks
<1>6. PICK g : g = [i \in 1 .. n |-> Nth(K, i)]
  OBVIOUS
<1>7. \A i \in 1 .. n : g[i] \in K /\ Rank(K, g[i]) = i
  BY <1>5, <1>6 DEF Nth, Rank
<1>8. PICK r : r = Without(s, x)
  OBVIOUS
<1>9. r = [i \in 1 .. n |-> s[g[i]]]
  BY <1>2, <1>4, <1>6, <1>8 DEF Without
<1>10. r \in Seq(S) /\ Len(r) = n /\ \A i \in 1 .. n : r[i] = s[g[i]]
  <2>1. \A i \in 1 .. n : s[g[i]] \in S
    BY <1>1, <1>3, <1>7
  <2>. QED  BY <1>4, <1>9, <2>1
<1>11. ASSUME NEW i \in 1 .. n, NEW j \in 1 .. n, i < j PROVE g[i] < g[j]
  <2>1. g[i] \in 1 .. Len(s) /\ g[j] \in 1 .. Len(s)
    BY <1>3, <1>7
  <2>2. ~(g[j] < g[i]) /\ g[i] # g[j]
    BY <1>5, <1>7, <1>11
  <2>. QED  BY <1>1, <2>1, <2>2
<1>12. ASSUME NEW k \in 1 .. Len(s), s[k] # x PROVE \E i \in 1 .. n : g[i] = k
  <2>1. k \in K /\ Rank(K, k) \in 1 .. n
    BY <1>3, <1>5, <1>12
  <2>2. g[Rank(K, k)] \in K /\ Rank(K, g[Rank(K, k)]) = Rank(K, k)
    BY <1>7, <2>1
  <2>3. g[Rank(K, k)] \in 1 .. Len(s) /\ k \in 1 .. Len(s)
    BY <1>3, <2>2
  <2>4. ~(k < g[Rank(K, k)]) /\ ~(g[Rank(K, k)] < k)
    <3>1. PICK h : h = g[Rank(K, k)]
      OBVIOUS
    <3>2. h \in K /\ Rank(K, h) = Rank(K, k) /\ k \in K /\ Rank(K, k) \in Int
      BY <2>1, <2>2, <3>1
    <3>3. \A i, j \in K : i < j => Rank(K, i) < Rank(K, j)
      BY <1>5
    <3>. QED  BY <3>1, <3>2, <3>3
  <2>. QED  BY <1>1, <2>1, <2>3, <2>4
<1>13. Picks(g, r, s, x)
  BY <1>3, <1>7, <1>10, <1>11, <1>12 DEF Picks
<1>. QED  BY <1>8, <1>10, <1>13

(* Who is left: everybody but x, and nobody twice who has been there once.    *)
LEMMA WithoutPlaces ==
  ASSUME NEW S, NEW s \in Seq(S), NEW x
  PROVE  /\ \A y : In(y, Without(s, x)) <=> In(y, s) /\ y # x
         /\ Once(s) => Once(Without(s, x))
<1>1. PICK r, g : r = Without(s, x) /\ Picks(g, r, s, x)
  BY WithoutIs
<1>2. r \in Seq(S)
  BY <1>1, WithoutIs
<1>3. PlacesOf(x, r) = {}
  BY <1>1 DEF Picks, PlacesOf
<1>4. ASSUME NEW y, y # x PROVE PlacesOf(y, r) = {} <=> PlacesOf(y, s) = {}
  <2>1. ASSUME NEW i \in PlacesOf(y, r) PROVE g[i] \in PlacesOf(y, s)
    BY <1>1 DEF Picks, PlacesOf
  <2>2. ASSUME NEW k \in PlacesOf(y, s) PROVE \E i : i \in PlacesOf(y, r)
    BY <1>1, <1>4 DEF Picks, PlacesOf
  <2>. QED  BY <2>1, <2>2
<1>5. ASSUME Once(s) PROVE Once(r)
  <2>1. SUFFICES ASSUME NEW i \in 1 .. Len(r), NEW j \in 1 .. Len(r), r[i] = r[j], i < j
                 PROVE  FALSE
    BY <1>2 DEF Once
  <2>2. g[i] < g[j] /\ g[i] \in 1 .. Len(s) /\ g[j] \in 1 .. Len(s) /\ s[g[i]] = s[g[j]]
    BY <1>1, <2>1 DEF Picks
  <2>3. g[i] = g[j]
    BY <1>5, <2>2 DEF Once
  <2>. QED  BY <2>2, <2>3
<1>. QED  BY <1>1, <1>3, <1>4, <1>5 DEF In

(* Who is in a list after one more has joined at its end, or has left from    *)
(* its front or its end, or has joined several times.                         *)
LEMMA AppendPlaces ==
  ASSUME NEW S, NEW s \in Seq(S), NEW x \in S
  PROVE  /\ Append(s, x) \in Seq(S)
         /\ \A y : In(y, Append(s, x)) <=> In(y, s) \/ y = x
         /\ Once(s) /\ ~In(x, s) => Once(Append(s, x))
<1>1. PICK r : r = Append(s, x)
  OBVIOUS
<1>2. /\ r \in Seq(S) /\ Len(r) = Len(s) + 1 /\ Len(s) \in Nat
      /\ \A i \in 1 .. Len(s) : r[i] = s[i]
      /\ r[Len(s) + 1] = x
  BY <1>1, AppendList
<1>3. \A y : In(y, r) <=> In(y, s) \/ y = x
  BY <1>2 DEF In, PlacesOf
<1>4. ASSUME Once(s), ~In(x, s) PROVE Once(r)
  <2>1. \A i \in 1 .. Len(s) : s[i] # x
    BY <1>4 DEF In, PlacesOf
  <2>2. SUFFICES ASSUME NEW i \in 1 .. Len(r), NEW j \in 1 .. Len(r), r[i] = r[j]
                 PROVE  i = j
    BY DEF Once
  <2>3. CASE i \in 1 .. Len(s) /\ j \in 1 .. Len(s)
    BY <1>2, <1>4, <2>2, <2>3 DEF Once
  <2>4. CASE i = Len(s) + 1 \/ j = Len(s) + 1
    BY <1>2, <2>1, <2>2, <2>4
  <2>. QED  BY <1>2, <2>3, <2>4
<1>. QED  BY <1>1, <1>2, <1>3, <1>4

(* The same for the tail of a list,                                           *)
LEMMA TailPlaces ==
  ASSUME NEW S, NEW s \in Seq(S), s # <<>>
  PROVE  /\ Head(s) \in S /\ Tail(s) \in Seq(S) /\ In(Head(s), s)
         /\ \A y : y # Head(s) => (In(y, Tail(s)) <=> In(y, s))
         /\ Once(s) => ~In(Head(s), Tail(s)) /\ Once(Tail(s))
<1>1. PICK r, h : r = Tail(s) /\ h = Head(s)
  OBVIOUS
<1>2. /\ r \in Seq(S) /\ Len(s) \in Nat /\ Len(s) >= 1 /\ Len(r) = Len(s) - 1
      /\ h = s[1] /\ h \in S
      /\ \A i \in 1 .. Len(r) : r[i] = s[i + 1]
  BY <1>1, TailList
<1>3. In(h, s)
  BY <1>2 DEF In, PlacesOf
<1>4. ASSUME NEW y, y # h PROVE In(y, r) <=> In(y, s)
  <2>1. ASSUME NEW i \in PlacesOf(y, r) PROVE i + 1 \in PlacesOf(y, s)
    BY <1>2 DEF PlacesOf
  <2>2. ASSUME NEW i \in PlacesOf(y, s) PROVE i - 1 \in PlacesOf(y, r)
    <3>1. i \in 1 .. Len(s) /\ s[i] = y /\ i # 1
      BY <1>2, <1>4 DEF PlacesOf
    <3>2. i - 1 \in 1 .. Len(r) /\ (i - 1) + 1 = i
      BY <1>2, <3>1
    <3>. QED  BY <1>2, <3>1, <3>2 DEF PlacesOf
  <2>. QED  BY <2>1, <2>2 DEF In
<1>5. ASSUME Once(s) PROVE ~In(h, r) /\ Once(r)
  <2>1. ASSUME NEW i \in 1 .. Len(r) PROVE r[i] # h
    <3>1. i + 1 \in 1 .. Len(s) /\ 1 \in 1 .. Len(s) /\ i + 1 # 1
      BY <1>2
    <3>. QED  BY <1>2, <1>5, <3>1 DEF Once
  <2>2. ASSUME NEW i \in 1 .. Len(r), NEW j \in 1 .. Len(r), r[i] = r[j] PROVE i = j
    <3>1. i + 1 \in 1 .. Len(s) /\ j + 1 \in 1 .. Len(s) /\ s[i + 1] = s[j + 1]
      BY <1>2, <2>2
    <3>2. i + 1 = j + 1
      BY <1>5, <3>1 DEF Once
    <3>. QED  BY <1>2, <3>2
  <2>. QED  BY <2>1, <2>2 DEF In, PlacesOf, Once
<1>. QED  BY <1>1, <1>2, <1>3, <1>4, <1>5

(* for all but its last,                                                      *)
LEMMA FrontList ==
  ASSUME NEW S, NEW s \in Seq(S), s # <<>>
  PROVE  /\ Len(s) \in Nat /\ Len(s) >= 1 /\ \A i \in 1 .. Len(s) : s[i] \in S
         /\ Front(s) \in Seq(S) /\ Len(Front(s)) = Len(s) - 1
         /\ \A i \in 1 .. Len(s) - 1 : Front(s)[i] = s[i]
<1>1. PICK r : r = SubSeq(s, 1, Len(s) - 1)
  OBVIOUS
<1>2. Len(s) \in Nat /\ Len(s) >= 1 /\ \A i \in 1 .. Len(s) : s[i] \in S
  BY EmptySeq
<1>3. \A i \in 1 .. Len(s) - 1 : s[i] \in S
  BY <1>2
<1>4. /\ r \in Seq(S) /\ Len(r) = IF 1 <= Len(s) - 1 THEN (Len(s) - 1) - 1 + 1 ELSE 0
      /\ \A i \in 1 .. (Len(s) - 1) - 1 + 1 : r[i] = s[1 + i - 1]
  BY <1>1, <1>2, <1>3, SubSeqProperties, Len(s) - 1 \in Int
<1>5. PICK n \in Nat : n = Len(s) /\ n >= 1
  BY <1>2
<1>6. Len(r) = IF 1 <= n - 1 THEN (n - 1) - 1 + 1 ELSE 0
  BY <1>4, <1>5
<1>7. Len(r) = n - 1
  <2>1. CASE n = 1
    BY <1>5, <1>6, <2>1
  <2>2. CASE n > 1
    BY <1>5, <1>6, <2>2
  <2>. QED  BY <1>5, <2>1, <2>2
<1>8. ASSUME NEW i \in 1 .. n - 1 PROVE r[i] = s[i]
  <2>1. i \in 1 .. (Len(s) - 1) - 1 + 1 /\ 1 + i - 1 = i
    BY <1>5
  <2>2. r[i] = s[1 + i - 1]
    BY <1>4, <2>1
  <2>. QED  BY <2>1, <2>2
<1>. QED  BY <1>1, <1>2, <1>4, <1>5, <1>7, <1>8 DEF Front

LEMMA FrontPlaces ==
  ASSUME NEW S, NEW s \in Seq(S), s # <<>>
  PROVE  /\ Last(s) \in S /\ Front(s) \in Seq(S) /\ In(Last(s), s)
         /\ \A y : y # Last(s) => (In(y, Front(s)) <=> In(y, s))
         /\ Once(s) => ~In(Last(s), Front(s)) /\ Once(Front(s))
<1>1. PICK r, h : r = Front(s) /\ h = Last(s)
  OBVIOUS
<1>2. Len(s) \in Nat /\ Len(s) >= 1 /\ \A i \in 1 .. Len(s) : s[i] \in S
  BY FrontList
<1>3. /\ r \in Seq(S) /\ Len(r) = Len(s) - 1
      /\ \A i \in 1 .. Len(r) : r[i] = s[i]
  BY <1>1, FrontList
<1>4. h = s[Len(s)] /\ h \in S
  BY <1>1, <1>2 DEF Last
<1>5. In(h, s)
  BY <1>2, <1>4 DEF In, PlacesOf
<1>6. ASSUME NEW y, y # h PROVE In(y, r) <=> In(y, s)
  <2>1. PlacesOf(y, r) \subseteq PlacesOf(y, s)
    BY <1>2, <1>3 DEF PlacesOf
  <2>2. ASSUME NEW i \in PlacesOf(y, s) PROVE i \in PlacesOf(y, r)
    <3>1. i \in 1 .. Len(s) /\ s[i] = y /\ i # Len(s)
      BY <1>4, <1>6, <2>2 DEF PlacesOf
    <3>. QED  BY <1>2, <1>3, <3>1 DEF PlacesOf
  <2>. QED  BY <2>1, <2>2 DEF In
<1>7. ASSUME Once(s) PROVE ~In(h, r) /\ Once(r)
  <2>1. ASSUME NEW i \in 1 .. Len(r) PROVE r[i] # h
    <3>1. i \in 1 .. Len(s) /\ Len(s) \in 1 .. Len(s) /\ i # Len(s)
      BY <1>2, <1>3
    <3>. QED  BY <1>3, <1>4, <1>7, <3>1 DEF Once
  <2>2. \A i \in 1 .. Len(r) : i \in 1 .. Len(s)
    BY <1>2, <1>3
  <2>. QED  BY <1>3, <1>7, <2>1, <2>2 DEF In, PlacesOf, Once
<1>. QED  BY <1>1, <1>3, <1>4, <1>5, <1>6, <1>7

(* and with several copies of one at its end.                                 *)
LEMMA CopiesPlaces ==
  ASSUME NEW S, NEW s \in Seq(S), NEW x \in S, NEW n \in Nat
  PROVE  /\ s \o [i \in 1 .. n |-> x] \in Seq(S)
         /\ \A y : In(y, s \o [i \in 1 .. n |-> x]) <=> In(y, s) \/ (y = x /\ n > 0)
<1>1. PICK b, r : b = [i \in 1 .. n |-> x] /\ r = s \o b
  OBVIOUS
<1>2. b \in Seq(S) /\ Len(b) = n /\ \A i \in 1 .. n : b[i] = x
  BY <1>1
<1>3. /\ r \in Seq(S) /\ Len(r) = Len(s) + n /\ Len(s) \in Nat
      /\ \A i \in 1 .. Len(r) : r[i] = IF i <= Len(s) THEN s[i] ELSE b[i - Len(s)]
  BY <1>1, <1>2, ConcatProperties
<1>4. /\ \A i \in 1 .. Len(s) : i \in 1 .. Len(r) /\ r[i] = s[i]
      /\ \A i \in 1 .. Len(r) : i \in 1 .. Len(s) \/ (r[i] = x /\ n > 0)
      /\ n > 0 => Len(r) \in 1 .. Len(r) /\ r[Len(r)] = x
  <2>1. \A i \in 1 .. Len(s) : i \in 1 .. Len(r) /\ r[i] = s[i]
    BY <1>2, <1>3
  <2>2. ASSUME NEW i \in 1 .. Len(r), ~(i \in 1 .. Len(s)) PROVE r[i] = x /\ n > 0
    <3>1. i - Len(s) \in 1 .. n /\ ~(i <= Len(s))
      BY <1>3, <2>2
    <3>. QED  BY <1>2, <1>3, <3>1
  <2>3. n > 0 => Len(r) \in 1 .. Len(r) /\ ~(Len(r) \in 1 .. Len(s))
    BY <1>3
  <2>. QED  BY <2>1, <2>2, <2>3
<1>5. \A y : In(y, r) <=> In(y, s) \/ (y = x /\ n > 0)
  BY <1>4 DEF In, PlacesOf
<1>. QED  BY <1>1, <1>3, <1>5

-----------------------------------------------------------------------------
(* THE QUEUES OF THE CHANNELS *)

(* pqins puts a process in the queues that its list names, pqclean takes it   *)
(* off those, and neither touches anybody else.                               *)
LEMMA InsertedIs ==
  ASSUME NEW Q \in [Chan -> Seq(Proc)], NEW snd, NEW p \in Proc, NEW l \in Lists
  PROVE  /\ Inserted(Q, snd, p, l) \in [Chan -> Seq(Proc)]
         /\ \A c \in Chan : \A y :
               In(y, Inserted(Q, snd, p, l)[c]) <=> In(y, Q[c]) \/ (y = p /\ In(<<c, snd>>, l))
<1>1. l \in Seq(Chan \X BOOLEAN) /\ Len(l) \in Nat
  BY SquintAssumption
<1>2. PICK r : r = Inserted(Q, snd, p, l)
  OBVIOUS
<1>3. ASSUME NEW c \in Chan
      PROVE  /\ r[c] \in Seq(Proc)
             /\ \A y : In(y, r[c]) <=> In(y, Q[c]) \/ (y = p /\ In(<<c, snd>>, l))
  <2>1. PICK P : P = PlacesOf(<<c, snd>>, l)
    OBVIOUS
  <2>2. P \subseteq 1 .. Len(l)
    BY <2>1 DEF PlacesOf
  <2>3. IsFiniteSet(P) /\ Cardinality(P) \in Nat
    BY <1>1, <2>2, Ranks
  <2>4. PICK n \in Nat : n = Cardinality(P)
    BY <2>3
  <2>5. n > 0 <=> In(<<c, snd>>, l)
    <3>1. n = 0 <=> P = {}
      BY <2>3, <2>4, FS_EmptySet
    <3>. QED  BY <2>1, <2>4, <3>1 DEF In
  <2>6. r[c] = Q[c] \o [i \in 1 .. n |-> p]
    BY <1>2, <2>1, <2>4 DEF Inserted
  <2>7. PICK z \in Seq(Proc) : z = Q[c]
    OBVIOUS
  <2>8. /\ z \o [i \in 1 .. n |-> p] \in Seq(Proc)
        /\ \A y : In(y, z \o [i \in 1 .. n |-> p]) <=> In(y, z) \/ (y = p /\ n > 0)
    BY CopiesPlaces
  <2>. QED  BY <2>5, <2>6, <2>7, <2>8
<1>4. r = [c \in Chan |-> r[c]]
  BY <1>2 DEF Inserted
<1>. QED  BY <1>2, <1>3, <1>4

(* What pqclean leaves.                                                       *)
LEMMA CleanedIs ==
  ASSUME NEW Q \in [Chan -> Seq(Proc)], NEW snd, NEW q, NEW x
  PROVE  /\ Cleaned(Q, snd, q, x) \in [Chan -> Seq(Proc)]
         /\ \A c \in Chan : \A y :
               In(y, Cleaned(Q, snd, q, x)[c])
                  <=> In(y, Q[c]) /\ ~(y = q /\ In(<<c, snd>>, offers[q]))
<1>1. PICK r : r = Cleaned(Q, snd, q, x)
  OBVIOUS
<1>2. ASSUME NEW c \in Chan
      PROVE  /\ r[c] \in Seq(Proc)
             /\ \A y : In(y, r[c]) <=> In(y, Q[c]) /\ ~(y = q /\ In(<<c, snd>>, offers[q]))
  <2>1. r[c] = IF In(<<c, snd>>, offers[q]) THEN Without(Q[c], q) ELSE Q[c]
    BY <1>1 DEF Cleaned, In
  <2>2. Q[c] \in Seq(Proc)
    OBVIOUS
  <2>3. CASE In(<<c, snd>>, offers[q])
    <3>1. /\ Without(Q[c], q) \in Seq(Proc)
          /\ \A y : In(y, Without(Q[c], q)) <=> In(y, Q[c]) /\ y # q
      BY <2>2, WithoutIs, WithoutPlaces
    <3>. QED  BY <2>1, <2>3, <3>1
  <2>4. CASE ~In(<<c, snd>>, offers[q])
    BY <2>1, <2>2, <2>4
  <2>. QED  BY <2>3, <2>4
<1>3. r = [c \in Chan |-> r[c]]
  BY <1>1 DEF Cleaned
<1>. QED  BY <1>1, <1>2, <1>3

-----------------------------------------------------------------------------
(* THE STEPS *)

(* The interpreter runs alone.                                                *)
LEMMA InitHolds == ASSUME Init PROVE IInv
<1>. USE SquintAssumption DEF Init
<1>1. TypeOK
  BY DEF TypeOK
<1>2. /\ \A y : ~In(y, <<>>)
      /\ \A y : In(y, <<Interpreter>>) <=> y = Interpreter
  <2>1. \A y : PlacesOf(y, <<>>) = {}
    BY DEF PlacesOf
  <2>2. \A y : y # Interpreter => PlacesOf(y, <<Interpreter>>) = {}
    BY DEF PlacesOf
  <2>3. 1 \in PlacesOf(Interpreter, <<Interpreter>>)
    BY DEF PlacesOf
  <2>. QED  BY <2>1, <2>2, <2>3 DEF In
<1>3. \A y \in Proc : (InRun(y) <=> y = Interpreter) /\ ~InLine(y) /\ ~InDebt(y)
  BY <1>2 DEF InRun, InLine, InDebt
<1>4. Distinct
  BY <1>2 DEF Distinct, Once
<1>5. Apart /\ Present
  BY <1>3 DEF Apart, Present, Somewhere
<1>6. Offering
  BY <1>2, <1>3 DEF Offering, QueueOf
<1>. QED  BY <1>1, <1>4, <1>5, <1>6 DEF IInv

(* The process that runs is nowhere else.                                     *)
LEMMA RunnerIs ==
  ASSUME IInv, NEW p, Running(p)
  PROVE  /\ p \in Proc /\ InRun(p) /\ ~InLine(p) /\ ~InDebt(p) /\ p \in alive
         /\ offers[p] = <<>> /\ hit[p] = None
         /\ Tail(runq) \in Seq(Proc) /\ Once(Tail(runq))
         /\ \A y : In(y, Tail(runq)) <=> InRun(y) /\ y # p
<1>1. runq \in Seq(Proc) /\ runq # <<>> /\ p = Head(runq) /\ Once(runq)
  BY DEF IInv, TypeOK, Running, Distinct
<1>2. /\ p \in Proc /\ Tail(runq) \in Seq(Proc) /\ In(p, runq)
      /\ \A y : y # p => (In(y, Tail(runq)) <=> In(y, runq))
      /\ ~In(p, Tail(runq)) /\ Once(Tail(runq))
  BY <1>1, TailPlaces
<1>3. InRun(p)
  BY <1>2 DEF InRun
<1>4. ~InLine(p) /\ ~InDebt(p) /\ p \in alive
  BY <1>2, <1>3 DEF IInv, Apart, Present, Somewhere
<1>5. offers[p] = <<>> /\ hit[p] = None
  BY <1>2, <1>4 DEF IInv, Offering
<1>. QED  BY <1>2, <1>3, <1>4, <1>5 DEF InRun

(* A process that finds nobody joins the line and the queues.                 *)
LEMMA PostKeeps ==
  ASSUME IInv, NEW p \in Proc, NEW l \in Lists, Post(p, l)
  PROVE  IInv'
<1>1. /\ Running(p)
      /\ sndq' = Inserted(sndq, TRUE, p, l) /\ rcvq' = Inserted(rcvq, FALSE, p, l)
      /\ offers' = [offers EXCEPT ![p] = l] /\ runq' = Tail(runq) /\ line' = Append(line, p)
      /\ got' = [got EXCEPT ![p] = None] /\ UNCHANGED <<alive, hit, owes>>
  BY DEF Post
<1>2. /\ InRun(p) /\ ~InLine(p) /\ ~InDebt(p) /\ p \in alive
      /\ runq' \in Seq(Proc) /\ Once(runq')
      /\ \A y : InRun(y)' <=> InRun(y) /\ y # p
  BY <1>1, RunnerIs DEF InRun
<1>3. /\ line' \in Seq(Proc) /\ Once(line')
      /\ \A y : InLine(y)' <=> InLine(y) \/ y = p
  BY <1>1, <1>2, AppendPlaces DEF InLine, IInv, TypeOK, Distinct
<1>4. \A y : InDebt(y)' <=> InDebt(y)
  BY <1>1 DEF InDebt
<1>5. l # <<>> /\ l \in Seq(Chan \X BOOLEAN)
  BY SquintAssumption
<1>6. /\ sndq' \in [Chan -> Seq(Proc)] /\ rcvq' \in [Chan -> Seq(Proc)]
      /\ \A c \in Chan, snd \in BOOLEAN : \A y :
            In(y, QueueOf(c, snd)') <=> In(y, QueueOf(c, snd)) \/ (y = p /\ In(<<c, snd>>, l))
  <2>1. /\ sndq' \in [Chan -> Seq(Proc)]
        /\ \A c \in Chan : \A y : In(y, sndq'[c]) <=> In(y, sndq[c]) \/ (y = p /\ In(<<c, TRUE>>, l))
    BY <1>1, InsertedIs DEF IInv, TypeOK
  <2>2. /\ rcvq' \in [Chan -> Seq(Proc)]
        /\ \A c \in Chan : \A y : In(y, rcvq'[c]) <=> In(y, rcvq[c]) \/ (y = p /\ In(<<c, FALSE>>, l))
    BY <1>1, InsertedIs DEF IInv, TypeOK
  <2>3. ASSUME NEW c \in Chan, NEW snd \in BOOLEAN, NEW y
        PROVE  In(y, QueueOf(c, snd)') <=> In(y, QueueOf(c, snd)) \/ (y = p /\ In(<<c, snd>>, l))
    <3>1. CASE snd = TRUE
      <4>1. QueueOf(c, snd)' = sndq'[c] /\ QueueOf(c, snd) = sndq[c]
        BY <3>1, Zenon DEF QueueOf
      <4>2. In(y, sndq'[c]) <=> In(y, sndq[c]) \/ (y = p /\ In(<<c, TRUE>>, l))
        BY <2>1
      <4>. QED  BY <3>1, <4>1, <4>2, Zenon
    <3>2. CASE snd = FALSE
      <4>1. QueueOf(c, snd)' = rcvq'[c] /\ QueueOf(c, snd) = rcvq[c]
        BY <3>2, Zenon DEF QueueOf
      <4>2. In(y, rcvq'[c]) <=> In(y, rcvq[c]) \/ (y = p /\ In(<<c, FALSE>>, l))
        BY <2>2
      <4>. QED  BY <3>2, <4>1, <4>2, Zenon
    <3>. QED  BY <3>1, <3>2
  <2>. QED  BY <2>1, <2>2, <2>3
<1>7. TypeOK'
  BY <1>1, <1>2, <1>3, <1>6 DEF IInv, TypeOK
<1>8. Distinct'
  BY <1>1, <1>2, <1>3 DEF IInv, Distinct
<1>9. Apart'
  BY <1>2, <1>3, <1>4 DEF IInv, Apart
<1>10. Present'
  BY <1>1, <1>2, <1>3, <1>4 DEF IInv, Present, Somewhere
<1>11. Offering'
  <2>1. /\ \A y \in Proc : offers'[y] = IF y = p THEN l ELSE offers[y]
        /\ hit' = hit
    BY <1>1 DEF IInv, TypeOK
  <2>2. \A c \in Chan, snd \in BOOLEAN, y \in Proc :
           In(y, QueueOf(c, snd)') => In(<<c, snd>>, offers'[y])
    <3>1. \A c \in Chan, snd \in BOOLEAN : ~In(p, QueueOf(c, snd))
      <4>1. offers[p] = <<>>
        BY <1>1, RunnerIs
      <4>2. \A x : ~In(x, <<>>)
        BY DEF In, PlacesOf
      <4>. QED  BY <4>1, <4>2 DEF IInv, Offering
    <3>. QED  BY <1>6, <2>1, <3>1 DEF IInv, Offering
  <2>3. \A y \in Proc : offers'[y] # <<>> <=> InLine(y)'
    BY <1>3, <1>5, <2>1 DEF IInv, Offering
  <2>4. \A y \in Proc : IF InDebt(y)' THEN hit'[y] \in Chan \X {FALSE} ELSE hit'[y] = None
    BY <1>4, <2>1 DEF IInv, Offering
  <2>. QED  BY <2>2, <2>3, <2>4 DEF Offering
<1>. QED  BY <1>7, <1>8, <1>9, <1>10, <1>11 DEF IInv

(* What a step leaves alone that touches neither queues nor offers.           *)
LEMMA OfferingStays ==
  ASSUME Offering, UNCHANGED <<queues, offers, hit>>,
         \A y \in Proc : (InLine(y)' <=> InLine(y)) /\ (InDebt(y)' <=> InDebt(y))
  PROVE  Offering'
<1>1. sndq' = sndq /\ rcvq' = rcvq /\ offers' = offers /\ hit' = hit
  BY DEF queues
<1>2. \A c \in Chan, snd \in BOOLEAN : QueueOf(c, snd)' = QueueOf(c, snd)
  BY <1>1 DEF QueueOf
<1>. QED  BY <1>1, <1>2 DEF Offering

(* A sender hands over: the last target of its stack is owed nothing more and *)
(* runs again.                                                                *)
LEMMA SndKeeps ==
  ASSUME IInv, NEW p \in Proc, Snd(p)
  PROVE  IInv'
<1>1. PICK t : t = Last(owes[p])
  OBVIOUS
<1>2. /\ Running(p) /\ owes[p] # <<>>
      /\ got' = [got EXCEPT ![t] = <<p, hit[t]>>] /\ hit' = [hit EXCEPT ![t] = None]
      /\ runq' = Append(runq, t) /\ owes' = [owes EXCEPT ![p] = Front(@)]
      /\ sndq' = sndq /\ rcvq' = rcvq /\ alive' = alive /\ offers' = offers /\ line' = line
  BY <1>1 DEF Snd, queues
<1>3. owes \in [Proc -> Seq(Proc)] /\ owes[p] \in Seq(Proc) /\ Once(owes[p])
  BY DEF IInv, TypeOK, Distinct
<1>4. /\ t \in Proc /\ Front(owes[p]) \in Seq(Proc) /\ In(t, owes[p])
      /\ \A y : In(y, Front(owes[p])) <=> In(y, owes[p]) /\ y # t
      /\ Once(Front(owes[p]))
  BY <1>1, <1>2, <1>3, FrontPlaces
<1>5. InDebt(t) /\ ~InRun(t) /\ ~InLine(t) /\ \A q \in Proc : In(t, owes[q]) => q = p
  BY <1>4 DEF InDebt, IInv, Apart, Distinct
<1>6. \A q \in Proc : owes'[q] = IF q = p THEN Front(owes[p]) ELSE owes[q]
  BY <1>2, <1>3
<1>7. \A q \in Proc : \A y : In(y, owes'[q]) <=> In(y, owes[q]) /\ y # t
  BY <1>4, <1>5, <1>6
<1>8. \A y : InDebt(y)' <=> InDebt(y) /\ y # t
  BY <1>7 DEF InDebt
<1>9. /\ runq' \in Seq(Proc) /\ Once(runq') /\ \A y : InRun(y)' <=> InRun(y) \/ y = t
  BY <1>2, <1>4, <1>5, AppendPlaces DEF IInv, TypeOK, Distinct, InRun
<1>10. \A y : InLine(y)' <=> InLine(y)
  BY <1>2 DEF InLine
<1>11. TypeOK'
  <2>1. hit[t] \in Chan \X {FALSE}
    BY <1>4, <1>5 DEF IInv, TypeOK, Offering
  <2>2. got' \in [Proc -> (Proc \X (Chan \X {FALSE})) \cup {None}]
    BY <1>2, <2>1 DEF IInv, TypeOK
  <2>3. hit' \in [Proc -> (Chan \X {FALSE}) \cup {None}]
    BY <1>2 DEF IInv, TypeOK
  <2>4. owes' \in [Proc -> Seq(Proc)]
    BY <1>2, <1>3, <1>4
  <2>. QED  BY <1>2, <1>9, <2>2, <2>3, <2>4 DEF IInv, TypeOK
<1>12. Distinct'
  BY <1>2, <1>4, <1>6, <1>7, <1>9 DEF IInv, Distinct
<1>13. Apart'
  BY <1>5, <1>8, <1>9, <1>10 DEF IInv, Apart
<1>14. Present'
  <2>1. \A y \in Proc : Somewhere(y)' <=> Somewhere(y)
    BY <1>5, <1>8, <1>9, <1>10 DEF Somewhere
  <2>2. InRun(p)
    BY <1>2, RunnerIs
  <2>3. \A y \in Proc : ~Somewhere(y) => owes'[y] = <<>>
    BY <1>6, <2>2 DEF IInv, Present, Somewhere
  <2>4. alive \subseteq Proc
    BY DEF IInv, TypeOK
  <2>. QED  BY <1>2, <2>1, <2>3, <2>4 DEF IInv, Present
<1>15. Offering'
  <2>1. \A c \in Chan, snd \in BOOLEAN : QueueOf(c, snd)' = QueueOf(c, snd)
    BY <1>2 DEF QueueOf
  <2>2. \A y \in Proc : hit'[y] = IF y = t THEN None ELSE hit[y]
    BY <1>2 DEF IInv, TypeOK
  <2>3. \A y \in Proc : IF InDebt(y)' THEN hit'[y] \in Chan \X {FALSE} ELSE hit'[y] = None
    BY <1>8, <2>2 DEF IInv, Offering
  <2>4. \A y \in Proc : offers'[y] # <<>> <=> InLine(y)'
    BY <1>2, <1>10 DEF IInv, Offering
  <2>. QED  BY <1>2, <2>1, <2>3, <2>4 DEF IInv, Offering
<1>. QED  BY <1>11, <1>12, <1>13, <1>14, <1>15 DEF IInv

(* A new process runs, and owes and offers nothing.                           *)
LEMMA BeginKeeps ==
  ASSUME IInv, ~Crowded, NEW p \in Proc, Begin(p)
  PROVE  IInv'
<1>1. PICK q \in Proc \ alive : alive' = alive \cup {q} /\ runq' = Append(runq, q)
  BY DEF Begin
<1>2. /\ sndq' = sndq /\ rcvq' = rcvq /\ offers' = offers /\ hit' = hit /\ owes' = owes
      /\ got' = got /\ line' = line
  BY DEF Begin, queues
<1>3. ~Somewhere(q)
  BY <1>1 DEF IInv, Present
<1>4. runq' \in Seq(Proc) /\ Once(runq') /\ \A y : InRun(y)' <=> InRun(y) \/ y = q
  BY <1>1, <1>3, AppendPlaces DEF IInv, TypeOK, Distinct, InRun, Somewhere
<1>5. \A y : (InLine(y)' <=> InLine(y)) /\ (InDebt(y)' <=> InDebt(y))
  BY <1>2 DEF InLine, InDebt
<1>6. TypeOK'
  BY <1>1, <1>2, <1>4 DEF IInv, TypeOK
<1>7. Distinct'
  BY <1>2, <1>4 DEF IInv, Distinct
<1>8. Apart'
  BY <1>3, <1>4, <1>5 DEF IInv, Apart, Somewhere
<1>9. Present'
  <2>1. \A y : Somewhere(y)' <=> Somewhere(y) \/ y = q
    BY <1>4, <1>5 DEF Somewhere
  <2>. QED  BY <1>1, <1>2, <2>1 DEF IInv, Present
<1>10. Offering'
  BY <1>2, <1>5, OfferingStays DEF IInv, queues
<1>. QED  BY <1>6, <1>7, <1>8, <1>9, <1>10 DEF IInv

(* A process that owes nothing leaves the run queue: it has ended, or it is   *)
(* the interpreter, whose statement is done.                                  *)
LEMMA LeaveKeeps ==
  ASSUME IInv, NEW p \in Proc, Running(p), owes[p] = <<>>, runq' = Tail(runq),
         (alive' = alive \ {p} /\ p # Interpreter) \/ (alive' = alive /\ p = Interpreter),
         got' \in [Proc -> (Proc \X (Chan \X {FALSE})) \cup {None}],
         UNCHANGED <<queues, offers, hit, owes, line>>
  PROVE  IInv'
<1>1. /\ sndq' = sndq /\ rcvq' = rcvq /\ offers' = offers /\ hit' = hit /\ owes' = owes
      /\ line' = line
  BY DEF queues
<1>2. /\ InRun(p) /\ ~InLine(p) /\ ~InDebt(p) /\ runq' \in Seq(Proc) /\ Once(runq')
      /\ \A y : InRun(y)' <=> InRun(y) /\ y # p
  BY RunnerIs DEF InRun
<1>3. \A y : (InLine(y)' <=> InLine(y)) /\ (InDebt(y)' <=> InDebt(y))
  BY <1>1 DEF InLine, InDebt
<1>4. TypeOK'
  BY <1>1, <1>2 DEF IInv, TypeOK
<1>5. Distinct'
  BY <1>1, <1>2 DEF IInv, Distinct
<1>6. Apart'
  BY <1>2, <1>3 DEF IInv, Apart
<1>7. Present'
  <2>1. \A y : Somewhere(y)' <=> Somewhere(y) /\ y # p
    BY <1>2, <1>3 DEF Somewhere
  <2>. QED  BY <1>1, <2>1 DEF IInv, Present
<1>8. Offering'
  BY <1>3, OfferingStays DEF IInv
<1>. QED  BY <1>4, <1>5, <1>6, <1>7, <1>8 DEF IInv

(* The one that has run goes to the end of the run queue.                     *)
LEMMA PutOffKeeps == ASSUME IInv, PutOff PROVE IInv'
<1>1. /\ runq \in Seq(Proc) /\ Len(runq) > 1 /\ runq' = Append(Tail(runq), Head(runq))
      /\ sndq' = sndq /\ rcvq' = rcvq /\ alive' = alive /\ offers' = offers /\ hit' = hit
      /\ owes' = owes /\ got' = got /\ line' = line
  BY DEF PutOff, queues, IInv, TypeOK
<1>2. PICK p : p = Head(runq)
  OBVIOUS
<1>3. runq # <<>>
  BY <1>1
<1>4. /\ p \in Proc /\ InRun(p) /\ Tail(runq) \in Seq(Proc) /\ Once(Tail(runq))
      /\ \A y : In(y, Tail(runq)) <=> InRun(y) /\ y # p
  BY <1>2, <1>3, RunnerIs DEF Running
<1>5. runq' \in Seq(Proc) /\ Once(runq') /\ \A y : InRun(y)' <=> InRun(y)
  BY <1>1, <1>2, <1>4, AppendPlaces DEF InRun
<1>6. \A y : (InLine(y)' <=> InLine(y)) /\ (InDebt(y)' <=> InDebt(y))
  BY <1>1 DEF InLine, InDebt
<1>7. TypeOK'
  BY <1>1, <1>5 DEF IInv, TypeOK
<1>8. Distinct'
  BY <1>1, <1>5 DEF IInv, Distinct
<1>9. Apart' /\ Present'
  BY <1>1, <1>5, <1>6 DEF IInv, Apart, Present, Somewhere
<1>10. Offering'
  BY <1>1, <1>6, OfferingStays DEF IInv, queues
<1>. QED  BY <1>7, <1>8, <1>9, <1>10 DEF IInv

(* The next statement is executed with the interpreter nowhere.               *)
LEMMA StatementIs ==
  ASSUME IInv, ~Interactive, Statement
  PROVE  /\ ~InLine(Interpreter) /\ ~InDebt(Interpreter) /\ owes[Interpreter] = <<>>
         /\ owes' = owes /\ offers' = offers
         /\ \A y : ~InRun(y) /\ (InRun(y)' <=> y = Interpreter)
<1>. USE SquintAssumption
<1>1. /\ runq = <<>> /\ runq' = <<Interpreter>> /\ ~Blocked
      /\ owes' = [owes EXCEPT ![Interpreter] = <<>>]
      /\ offers' = [offers EXCEPT ![Interpreter] = <<>>]
  BY DEF Statement
<1>2. ~InLine(Interpreter) /\ ~InDebt(Interpreter)
  <2>1. ~InLine(Interpreter)
    BY <1>1 DEF Blocked, InLine, In
  <2>2. ASSUME NEW q \in Proc PROVE ~In(Interpreter, owes[q])
    BY <1>1 DEF Blocked, Contains, In, PlacesOf
  <2>. QED  BY <2>1, <2>2 DEF InDebt
<1>3. /\ \A y : ~In(y, <<>>)
      /\ \A y : In(y, <<Interpreter>>) <=> y = Interpreter
  <2>1. \A y : PlacesOf(y, <<>>) = {}
    BY DEF PlacesOf
  <2>2. \A y : y # Interpreter => PlacesOf(y, <<Interpreter>>) = {}
    BY DEF PlacesOf
  <2>3. 1 \in PlacesOf(Interpreter, <<Interpreter>>)
    BY DEF PlacesOf
  <2>. QED  BY <2>1, <2>2, <2>3 DEF In
<1>4. \A y : ~InRun(y) /\ (InRun(y)' <=> y = Interpreter)
  BY <1>1, <1>3 DEF InRun
<1>5. owes[Interpreter] = <<>> /\ offers[Interpreter] = <<>>
  BY <1>2, <1>4 DEF IInv, Present, Somewhere, Offering
<1>6. owes' = owes /\ offers' = offers
  BY <1>1, <1>5 DEF IInv, TypeOK
<1>. QED  BY <1>2, <1>4, <1>5, <1>6

(* So it begins the next one where it would be with none before.              *)
LEMMA StatementKeeps == ASSUME IInv, ~Interactive, Statement PROVE IInv'
<1>. USE SquintAssumption
<1>1. /\ runq = <<>> /\ runq' = <<Interpreter>>
      /\ sndq' = sndq /\ rcvq' = rcvq /\ alive' = alive /\ hit' = hit /\ got' = got /\ line' = line
  BY DEF Statement, queues
<1>2. /\ ~InLine(Interpreter) /\ ~InDebt(Interpreter) /\ owes[Interpreter] = <<>>
      /\ owes' = owes /\ offers' = offers
      /\ \A y : ~InRun(y) /\ (InRun(y)' <=> y = Interpreter)
  BY StatementIs
<1>3. \A y : (InLine(y)' <=> InLine(y)) /\ (InDebt(y)' <=> InDebt(y))
  BY <1>1, <1>2 DEF InLine, InDebt
<1>4. TypeOK'
  <2>1. runq' \in Seq(Proc)
    BY <1>1
  <2>. QED  BY <1>1, <1>2, <2>1 DEF IInv, TypeOK
<1>5. Distinct'
  <2>1. Once(runq')
    BY <1>1 DEF Once
  <2>. QED  BY <1>1, <1>2, <2>1 DEF IInv, Distinct
<1>6. Apart'
  BY <1>2, <1>3 DEF IInv, Apart
<1>7. Present'
  <2>1. \A y : Somewhere(y)' <=> Somewhere(y) \/ y = Interpreter
    BY <1>2, <1>3 DEF Somewhere
  <2>. QED  BY <1>1, <1>2, <2>1 DEF IInv, Present
<1>8. Offering'
  BY <1>1, <1>2, <1>3, OfferingStays DEF IInv, queues
<1>. QED  BY <1>4, <1>5, <1>6, <1>7, <1>8 DEF IInv

(* Nothing happens.                                                           *)
LEMMA StutterKeeps == ASSUME IInv, UNCHANGED vars PROVE IInv'
<1>1. /\ sndq' = sndq /\ rcvq' = rcvq /\ runq' = runq /\ alive' = alive /\ offers' = offers
      /\ hit' = hit /\ owes' = owes /\ got' = got /\ line' = line
  BY DEF vars, queues
<1>2. \A y : (InRun(y)' <=> InRun(y)) /\ (InLine(y)' <=> InLine(y)) /\ (InDebt(y)' <=> InDebt(y))
  BY <1>1 DEF InRun, InLine, InDebt
<1>3. TypeOK' /\ Distinct'
  BY <1>1 DEF IInv, TypeOK, Distinct
<1>4. Apart' /\ Present'
  BY <1>1, <1>2 DEF IInv, Apart, Present, Somewhere
<1>5. Offering'
  BY <1>1, <1>2, OfferingStays DEF IInv, queues
<1>. QED  BY <1>3, <1>4, <1>5 DEF IInv

(* The partner found is in line, and offers the other half of o.              *)
LEMMA PartnerIs ==
  ASSUME IInv, NEW o \in Chan \X BOOLEAN, Other(o) # <<>>
  PROVE  /\ First(Other(o)) \in Proc /\ InLine(First(Other(o)))
         /\ In(<<o[1], ~o[2]>>, offers[First(Other(o))])
<1>1. PICK c \in Chan, snd \in BOOLEAN : o = <<c, snd>>
  OBVIOUS
<1>2. PICK q, s : q = First(Other(o)) /\ s = Other(o)
  OBVIOUS
<1>3. s = QueueOf(c, ~snd)
  <2>1. o[1] = c /\ o[2] = snd
    BY <1>1
  <2>2. CASE snd = TRUE
    BY <1>2, <2>1, <2>2, Zenon DEF Other, QueueOf
  <2>3. CASE snd = FALSE
    BY <1>2, <2>1, <2>3, Zenon DEF Other, QueueOf
  <2>. QED  BY <2>2, <2>3
<1>4. s \in Seq(Proc)
  BY <1>3 DEF QueueOf, IInv, TypeOK
<1>5. q \in Proc /\ In(q, s)
  BY <1>2, <1>4, TailPlaces DEF First
<1>6. In(<<c, ~snd>>, offers[q])
  BY <1>3, <1>5 DEF IInv, Offering
<1>7. offers[q] # <<>>
  <2>1. \A x : ~In(x, <<>>)
    BY DEF In, PlacesOf
  <2>. QED  BY <1>6, <2>1
<1>8. InLine(q)
  BY <1>5, <1>7 DEF IInv, Offering
<1>9. o[1] = c /\ ~o[2] = ~snd
  BY <1>1
<1>. QED  BY <1>2, <1>5, <1>6, <1>8, <1>9

(* The partner leaves the line and the queues of all its offers; the receiver *)
(* of the two is owed the value, and the sender of them runs.                 *)
LEMMA CommunicateKeeps ==
  ASSUME IInv, NEW p \in Proc, NEW l \in Lists, NEW i \in 1 .. Len(l), Communicate(p, l, i)
  PROVE  IInv'
<1>1. PICK o, q : o = l[i] /\ q = First(Other(o))
  OBVIOUS
<1>2. o \in Chan \X BOOLEAN
  BY <1>1, SquintAssumption
<1>3. /\ Running(p) /\ Other(o) # <<>>
      /\ sndq' = Cleaned(sndq, TRUE, q, o[1]) /\ rcvq' = Cleaned(rcvq, FALSE, q, o[1])
      /\ \E j \in Cases(offers[q], <<o[1], ~o[2]>>) :
            hit' = [hit EXCEPT ![p] = IF o[2] THEN None ELSE o,
                               ![q] = IF o[2] THEN offers[q][j] ELSE None]
      /\ offers' = [offers EXCEPT ![q] = <<>>]
      /\ o[2] => owes' = [owes EXCEPT ![p] = Append(@, q)] /\ runq' = runq
      /\ ~o[2] => owes' = [owes EXCEPT ![q] = Append(@, p)] /\ runq' = Append(Tail(runq), q)
      /\ line' = Without(line, q) /\ got' = [got EXCEPT ![p] = None] /\ alive' = alive
  BY <1>1 DEF Communicate, Resumes
<1>4. q \in Proc /\ InLine(q) /\ ~InRun(q) /\ ~InDebt(q) /\ q \in alive
  BY <1>1, <1>2, <1>3, PartnerIs DEF IInv, Apart, Present, Somewhere
<1>5. /\ InRun(p) /\ ~InLine(p) /\ ~InDebt(p) /\ p \in alive /\ hit[p] = None
      /\ Tail(runq) \in Seq(Proc) /\ Once(Tail(runq))
      /\ \A y : In(y, Tail(runq)) <=> InRun(y) /\ y # p
  BY <1>3, RunnerIs
<1>6. p # q
  BY <1>4, <1>5
<1>7. line' \in Seq(Proc) /\ Once(line') /\ \A y : InLine(y)' <=> InLine(y) /\ y # q
  <2>1. line \in Seq(Proc) /\ Once(line)
    BY DEF IInv, TypeOK, Distinct
  <2>2. /\ Without(line, q) \in Seq(Proc) /\ Once(Without(line, q))
        /\ \A y : In(y, Without(line, q)) <=> In(y, line) /\ y # q
    BY <2>1, WithoutIs, WithoutPlaces
  <2>. QED  BY <1>3, <2>2 DEF InLine
<1>8. /\ sndq' \in [Chan -> Seq(Proc)] /\ rcvq' \in [Chan -> Seq(Proc)]
      /\ \A c \in Chan, snd \in BOOLEAN, y \in Proc :
            In(y, QueueOf(c, snd)') => In(y, QueueOf(c, snd)) /\ y # q
  <2>1. /\ sndq' \in [Chan -> Seq(Proc)]
        /\ \A c \in Chan : \A y :
              In(y, sndq'[c]) <=> In(y, sndq[c]) /\ ~(y = q /\ In(<<c, TRUE>>, offers[q]))
    <3>1. PICK Q, x : Q = sndq /\ x = o[1]
      OBVIOUS
    <3>2. Q \in [Chan -> Seq(Proc)]
      BY <3>1 DEF IInv, TypeOK
    <3>3. /\ Cleaned(Q, TRUE, q, x) \in [Chan -> Seq(Proc)]
          /\ \A c \in Chan : \A y :
                In(y, Cleaned(Q, TRUE, q, x)[c])
                   <=> In(y, Q[c]) /\ ~(y = q /\ In(<<c, TRUE>>, offers[q]))
      BY <3>2, CleanedIs
    <3>4. sndq' = Cleaned(Q, TRUE, q, x)
      BY <1>3, <3>1
    <3>. QED  BY <3>1, <3>3, <3>4
  <2>2. /\ rcvq' \in [Chan -> Seq(Proc)]
        /\ \A c \in Chan : \A y :
              In(y, rcvq'[c]) <=> In(y, rcvq[c]) /\ ~(y = q /\ In(<<c, FALSE>>, offers[q]))
    <3>1. PICK Q, x : Q = rcvq /\ x = o[1]
      OBVIOUS
    <3>2. Q \in [Chan -> Seq(Proc)]
      BY <3>1 DEF IInv, TypeOK
    <3>3. /\ Cleaned(Q, FALSE, q, x) \in [Chan -> Seq(Proc)]
          /\ \A c \in Chan : \A y :
                In(y, Cleaned(Q, FALSE, q, x)[c])
                   <=> In(y, Q[c]) /\ ~(y = q /\ In(<<c, FALSE>>, offers[q]))
      BY <3>2, CleanedIs
    <3>4. rcvq' = Cleaned(Q, FALSE, q, x)
      BY <1>3, <3>1
    <3>. QED  BY <3>1, <3>3, <3>4
  <2>3. ASSUME NEW c \in Chan, NEW snd \in BOOLEAN, NEW y \in Proc, In(y, QueueOf(c, snd)')
        PROVE  In(y, QueueOf(c, snd)) /\ y # q
    <3>1. In(y, QueueOf(c, snd)) => In(<<c, snd>>, offers[y])
      BY DEF IInv, Offering
    <3>2. In(y, QueueOf(c, snd)) /\ ~(y = q /\ In(<<c, snd>>, offers[q]))
      <4>1. CASE snd = TRUE
        <5>1. QueueOf(c, snd)' = sndq'[c] /\ QueueOf(c, snd) = sndq[c]
          BY <4>1, Zenon DEF QueueOf
        <5>2. In(y, sndq'[c]) <=> In(y, sndq[c]) /\ ~(y = q /\ In(<<c, TRUE>>, offers[q]))
          BY <2>1
        <5>. QED  BY <2>3, <4>1, <5>1, <5>2, Zenon
      <4>2. CASE snd = FALSE
        <5>1. QueueOf(c, snd)' = rcvq'[c] /\ QueueOf(c, snd) = rcvq[c]
          BY <4>2, Zenon DEF QueueOf
        <5>2. In(y, rcvq'[c]) <=> In(y, rcvq[c]) /\ ~(y = q /\ In(<<c, FALSE>>, offers[q]))
          BY <2>2
        <5>. QED  BY <2>3, <4>2, <5>1, <5>2, Zenon
      <4>. QED  BY <4>1, <4>2
    <3>. QED  BY <3>1, <3>2, Zenon
  <2>. QED  BY <2>1, <2>2, <2>3
<1>9. PICK s, t : /\ s = IF o[2] THEN p ELSE q
                  /\ t = IF o[2] THEN q ELSE p
  OBVIOUS
<1>10. s \in Proc /\ t \in Proc /\ s # t /\ ~InDebt(t) /\ s \in alive
  BY <1>4, <1>5, <1>6, <1>9
<1>11. owes' = [owes EXCEPT ![s] = Append(owes[s], t)]
  BY <1>2, <1>3, <1>9
<1>12. runq' \in Seq(Proc) /\ Once(runq')
       /\ \A y : InRun(y)' <=> (InRun(y) /\ y # p) \/ y = s
  <2>1. CASE o[2]
    <3>1. runq' = runq /\ s = p
      BY <1>3, <1>9, <2>1
    <3>. QED  BY <1>5, <3>1 DEF IInv, TypeOK, Distinct, InRun
  <2>2. CASE ~o[2]
    <3>1. runq' = Append(Tail(runq), q) /\ s = q /\ ~In(q, Tail(runq))
      BY <1>3, <1>4, <1>5, <1>9, <2>2
    <3>2. /\ Append(Tail(runq), q) \in Seq(Proc) /\ Once(Append(Tail(runq), q))
          /\ \A y : In(y, Append(Tail(runq), q)) <=> In(y, Tail(runq)) \/ y = q
      BY <1>4, <1>5, <3>1, AppendPlaces
    <3>. QED  BY <1>5, <3>1, <3>2 DEF InRun
  <2>. QED  BY <2>1, <2>2
<1>13. owes[s] \in Seq(Proc) /\ Once(owes[s]) /\ ~In(t, owes[s]) /\ owes \in [Proc -> Seq(Proc)]
  BY <1>10 DEF IInv, TypeOK, Distinct, InDebt
<1>14. /\ Append(owes[s], t) \in Seq(Proc) /\ Once(Append(owes[s], t))
       /\ \A y : In(y, Append(owes[s], t)) <=> In(y, owes[s]) \/ y = t
  BY <1>10, <1>13, AppendPlaces
<1>15. \A r \in Proc : owes'[r] = IF r = s THEN Append(owes[s], t) ELSE owes[r]
  BY <1>11, <1>13
<1>16. \A r \in Proc : \A y : In(y, owes'[r]) <=> In(y, owes[r]) \/ (r = s /\ y = t)
  BY <1>14, <1>15
<1>17. \A y : InDebt(y)' <=> InDebt(y) \/ y = t
  BY <1>10, <1>16 DEF InDebt
<1>18. \A y \in Proc : hit'[y] = IF y = t THEN hit'[t] ELSE IF y = s THEN None ELSE hit[y]
  <2>1. hit \in [Proc -> (Chan \X {FALSE}) \cup {None}]
    BY DEF IInv, TypeOK
  <2>. QED  BY <1>3, <1>4, <1>6, <1>9, <2>1
<1>19. hit' \in [Proc -> (Chan \X {FALSE}) \cup {None}] /\ hit'[t] \in Chan \X {FALSE}
  <2>1. hit \in [Proc -> (Chan \X {FALSE}) \cup {None}]
    BY DEF IInv, TypeOK
  <2>2. PICK j \in Cases(offers[q], <<o[1], ~o[2]>>) :
           hit' = [hit EXCEPT ![p] = IF o[2] THEN None ELSE o,
                              ![q] = IF o[2] THEN offers[q][j] ELSE None]
    BY <1>3
  <2>3. offers[q][j] = <<o[1], ~o[2]>>
    BY <2>2 DEF Cases, PlacesOf
  <2>4. CASE o[2]
    <3>1. offers[q][j] \in Chan \X {FALSE}
      <4>1. o[1] \in Chan
        BY <1>2
      <4>2. (~o[2]) = FALSE
        BY <2>4
      <4>3. offers[q][j] = <<o[1], FALSE>>
        BY <2>3, <4>2, Zenon
      <4>4. PICK c \in Chan : c = o[1]
        BY <4>1
      <4>5. <<c, FALSE>> \in Chan \X {FALSE}
        OBVIOUS
      <4>. QED  BY <4>3, <4>4, <4>5
    <3>2. t = q /\ hit' = [hit EXCEPT ![p] = None, ![q] = offers[q][j]]
      BY <1>9, <2>2, <2>4
    <3>. QED  BY <1>4, <1>6, <2>1, <3>1, <3>2
  <2>5. CASE ~o[2]
    <3>1. o \in Chan \X {FALSE}
      BY <1>2, <2>5
    <3>2. t = p /\ hit' = [hit EXCEPT ![p] = o, ![q] = None]
      BY <1>9, <2>2, <2>5
    <3>. QED  BY <1>4, <1>6, <2>1, <3>1, <3>2
  <2>. QED  BY <2>4, <2>5
<1>20. \A y \in Proc : offers'[y] = IF y = q THEN <<>> ELSE offers[y]
  BY <1>3 DEF IInv, TypeOK
<1>21. TypeOK'
  <2>1. offers' \in [Proc -> Lists \cup {<<>>}]
    BY <1>3 DEF IInv, TypeOK
  <2>2. owes' \in [Proc -> Seq(Proc)]
    BY <1>11, <1>13, <1>14
  <2>3. got' \in [Proc -> (Proc \X (Chan \X {FALSE})) \cup {None}]
    BY <1>3 DEF IInv, TypeOK
  <2>. QED  BY <1>3, <1>7, <1>8, <1>12, <1>19, <2>1, <2>2, <2>3 DEF IInv, TypeOK
<1>22. Distinct'
  <2>1. \A r \in Proc : Once(owes'[r])
    BY <1>14, <1>15 DEF IInv, Distinct
  <2>2. \A r \in Proc : ~In(t, owes[r])
    BY <1>10 DEF InDebt
  <2>3. ASSUME NEW r \in Proc, NEW u \in Proc, NEW y \in Proc,
               In(y, owes'[r]), In(y, owes'[u])
        PROVE  r = u
    <3>1. CASE y = t
      BY <1>16, <2>2, <2>3, <3>1
    <3>2. CASE y # t
      BY <1>16, <2>3, <3>2 DEF IInv, Distinct
    <3>. QED  BY <3>1, <3>2
  <2>. QED  BY <1>7, <1>12, <2>1, <2>3 DEF Distinct
<1>23. (s = p /\ t = q) \/ (s = q /\ t = p)
  BY <1>9
<1>24. Apart'
  BY <1>4, <1>5, <1>6, <1>7, <1>12, <1>17, <1>23 DEF IInv, Apart
<1>25. Present'
  <2>1. \A y \in Proc : Somewhere(y)' <=> Somewhere(y)
    BY <1>4, <1>5, <1>6, <1>7, <1>12, <1>17, <1>23 DEF Somewhere
  <2>2. Somewhere(s)
    BY <1>4, <1>5, <1>23 DEF Somewhere
  <2>3. \A y \in Proc : ~Somewhere(y) => owes'[y] = <<>>
    BY <1>15, <2>2 DEF IInv, Present
  <2>4. alive \subseteq Proc
    BY DEF IInv, TypeOK
  <2>. QED  BY <1>3, <2>1, <2>3, <2>4 DEF IInv, Present
<1>26. Offering'
  <2>1. \A y \in Proc : offers'[y] # <<>> <=> InLine(y)'
    BY <1>7, <1>20 DEF IInv, Offering
  <2>2. \A y \in Proc : IF InDebt(y)' THEN hit'[y] \in Chan \X {FALSE} ELSE hit'[y] = None
    <3>1. ~InDebt(s)
      BY <1>4, <1>5, <1>23
    <3>. QED  BY <1>10, <1>17, <1>18, <1>19, <3>1 DEF IInv, Offering
  <2>3. \A c \in Chan, snd \in BOOLEAN, y \in Proc :
           In(y, QueueOf(c, snd)') => In(<<c, snd>>, offers'[y])
    BY <1>8, <1>20 DEF IInv, Offering
  <2>. QED  BY <2>1, <2>2, <2>3 DEF Offering
<1>. QED  BY <1>21, <1>22, <1>24, <1>25, <1>26 DEF IInv

-----------------------------------------------------------------------------
(* WHAT FOLLOWS *)

(* Every state of the interpreter has the invariant.                          *)
THEOREM Invariance == ASSUME Given PROVE Spec => []IInv
<1>1. Init => IInv
  BY InitHolds
<1>2. IInv /\ [Next]_vars => IInv'
  <2>1. SUFFICES ASSUME IInv, [Next]_vars PROVE IInv'
    OBVIOUS
  <2>2. ASSUME NEW p \in Proc, NEW l \in Lists, Post(p, l) PROVE IInv'
    BY <2>1, <2>2, PostKeeps
  <2>3. ASSUME NEW p \in Proc, NEW l \in Lists, NEW i \in 1 .. Len(l), Communicate(p, l, i)
        PROVE  IInv'
    BY <2>1, <2>3, CommunicateKeeps
  <2>4. ASSUME NEW p \in Proc, Snd(p) PROVE IInv'
    BY <2>1, <2>4, SndKeeps
  <2>5. ASSUME NEW p \in Proc, Begin(p) PROVE IInv'
    BY <2>1, <2>5, BeginKeeps DEF Given
  <2>6. ASSUME NEW p \in Proc, Halt(p) PROVE IInv'
    <3>1. got' \in [Proc -> (Proc \X (Chan \X {FALSE})) \cup {None}]
      BY <2>1, <2>6 DEF Halt, IInv, TypeOK
    <3>. QED  BY <2>1, <2>6, <3>1, LeaveKeeps DEF Halt
  <2>7. CASE PutOff
    BY <2>1, <2>7, PutOffKeeps
  <2>8. CASE Done
    <3>1. got' \in [Proc -> (Proc \X (Chan \X {FALSE})) \cup {None}]
      BY <2>1, <2>8 DEF Done, IInv, TypeOK
    <3>. QED  BY <2>1, <2>8, <3>1, SquintAssumption, LeaveKeeps DEF Done
  <2>9. CASE Statement
    BY <2>1, <2>9, StatementKeeps DEF Given
  <2>10. CASE UNCHANGED vars
    BY <2>1, <2>10, StutterKeeps
  <2>. QED  BY <2>1, <2>2, <2>3, <2>4, <2>5, <2>6, <2>7, <2>8, <2>9, <2>10 DEF Next
<1>. QED  BY <1>1, <1>2, PTL DEF Spec

(* Every variable keeps its type; no value is handed over but for an offer.   *)
THEOREM TypeCorrect == ASSUME Given PROVE Spec => []TypeOK
<1>1. IInv => TypeOK
  BY DEF IInv
<1>. QED  BY <1>1, Invariance, PTL

(* How often somebody is in a list where nobody is twice.                     *)
LEMMA CountOnce ==
  ASSUME NEW S, NEW s \in Seq(S), Once(s), NEW x
  PROVE  Cardinality(PlacesOf(x, s)) = IF In(x, s) THEN 1 ELSE 0
<1>1. CASE In(x, s)
  <2>1. PICK k : k \in PlacesOf(x, s)
    BY <1>1 DEF In
  <2>2. PlacesOf(x, s) = {k}
    BY <2>1 DEF PlacesOf, Once
  <2>. QED  BY <1>1, <2>2, FS_Singleton
<1>2. CASE ~In(x, s)
  BY <1>2, FS_EmptySet DEF In
<1>. QED  BY <1>1, <1>2

(* A list in which nobody is twice is no longer than there are processes.     *)
LEMMA OnceIsShort ==
  ASSUME IsFiniteSet(Proc), NEW s \in Seq(Proc), Once(s)
  PROVE  Len(s) <= Cardinality(Proc) /\ Cardinality(Proc) \in Nat /\ Len(s) \in Nat
<1>1. PICK f, T : f = [i \in 1 .. Len(s) |-> s[i]] /\ T = 1 .. Len(s)
  OBVIOUS
<1>2. f \in Injection(T, Proc)
  BY <1>1 DEF Injection, IsInjective, Once
<1>3. Len(s) \in Nat
  OBVIOUS
<1>4. IsFiniteSet(T) /\ Cardinality(T) = Len(s)
  <2>1. PICK n \in Nat : n = Len(s)
    BY <1>3
  <2>2. IsFiniteSet(1 .. n) /\ Cardinality(1 .. n) = n
    BY FS_Interval
  <2>. QED  BY <1>1, <2>1, <2>2
<1>5. Cardinality(T) <= Cardinality(Proc)
  BY <1>2, FS_Injection
<1>. QED  BY <1>3, <1>4, <1>5, FS_CardinalityType

(* A process that has begun and not halted is to be run, or offers to         *)
(* communicate, or is owed a value, and exactly once.                         *)
THEOREM InOnePlace == ASSUME Given PROVE Spec => []OnePlace
<1>1. IInv => OnePlace
  <2>1. SUFFICES ASSUME IInv, NEW p \in Proc
                 PROVE  LET places == Cardinality(PlacesOf(p, runq)) + Cardinality(PlacesOf(p, line))
                                      + Cardinality({w \in Proc \X (1 .. Cardinality(Proc)) :
                                                        w[2] \in PlacesOf(p, owes[w[1]])})
                        IN  IF p \notin alive THEN places = 0
                            ELSE places = 1 \/ (p = Interpreter /\ places = 0)
    BY Zenon DEF OnePlace
  <2>2. Cardinality(PlacesOf(p, runq)) = IF InRun(p) THEN 1 ELSE 0
    BY <2>1, CountOnce DEF IInv, TypeOK, Distinct, InRun
  <2>3. Cardinality(PlacesOf(p, line)) = IF InLine(p) THEN 1 ELSE 0
    BY <2>1, CountOnce DEF IInv, TypeOK, Distinct, InLine
  <2>4. PICK W : W = {w \in Proc \X (1 .. Cardinality(Proc)) : w[2] \in PlacesOf(p, owes[w[1]])}
    OBVIOUS
  <2>5. Cardinality(W) = IF InDebt(p) THEN 1 ELSE 0
    <3>1. CASE InDebt(p)
      <4>1. PICK q \in Proc : In(p, owes[q])
        BY <3>1 DEF InDebt
      <4>2. PICK i : i \in PlacesOf(p, owes[q])
        BY <4>1 DEF In
      <4>3. owes[q] \in Seq(Proc) /\ Once(owes[q])
        BY <2>1 DEF IInv, TypeOK, Distinct
      <4>4. i \in 1 .. Cardinality(Proc)
        BY <4>2, <4>3, OnceIsShort DEF Given, PlacesOf
      <4>5. ASSUME NEW r \in Proc, NEW j \in 1 .. Cardinality(Proc), j \in PlacesOf(p, owes[r])
            PROVE  r = q /\ j = i
        <5>1. r = q
          BY <2>1, <4>1, <4>5 DEF IInv, Distinct, In
        <5>. QED  BY <4>2, <4>3, <4>5, <5>1 DEF Once, PlacesOf
      <4>6. W = {<<q, i>>}
        BY <2>4, <4>2, <4>4, <4>5
      <4>. QED  BY <3>1, <4>6, FS_Singleton
    <3>2. CASE ~InDebt(p)
      <4>1. W = {}
        BY <2>4, <3>2 DEF InDebt, In
      <4>. QED  BY <3>2, <4>1, FS_EmptySet
    <3>. QED  BY <3>1, <3>2
  <2>6. p \notin alive => ~InRun(p) /\ ~InLine(p) /\ ~InDebt(p)
    BY <2>1 DEF IInv, Present, Somewhere
  <2>7. p \in alive /\ p # Interpreter => InRun(p) \/ InLine(p) \/ InDebt(p)
    BY <2>1 DEF IInv, Present, Somewhere
  <2>8. ~(InRun(p) /\ InLine(p)) /\ ~(InRun(p) /\ InDebt(p)) /\ ~(InLine(p) /\ InDebt(p))
    BY <2>1 DEF IInv, Apart
  <2>. QED  BY <2>2, <2>3, <2>4, <2>5, <2>6, <2>7, <2>8
<1>. QED  BY <1>1, Invariance, PTL

-----------------------------------------------------------------------------
(* WHAT THE QUEUES TELL *)

(* A queue stands for an offer: everybody is in it as often as his list has   *)
(* the offer, and its order is that of the line.                              *)
Behind(Q, s) == \A i, j \in 1 .. Len(Q) : i < j =>
                    \E a, b \in 1 .. Len(s) : a <= b /\ s[a] = Q[i] /\ s[b] = Q[j]
Stands(Q, o, offs) == \A p \in Proc : Cardinality(PlacesOf(p, Q)) = Cardinality(PlacesOf(o, offs[p]))
Tells(Q, o, offs, s) == Stands(Q, o, offs) /\ Behind(Q, s)

(* Nobody waits at one end of a channel for another who waits at its other.   *)
Unmatched == \A c \in Chan : \A p, q \in Proc : In(p, sndq[c]) /\ In(q, rcvq[c]) => p = q

Telling == /\ \A c \in Chan : Tells(sndq[c], <<c, TRUE>>, offers, line)
           /\ \A c \in Chan : Tells(rcvq[c], <<c, FALSE>>, offers, line)
           /\ Unmatched

(* How often somebody is in a list that x has left, or joined n times.        *)
LEMMA CountWithout ==
  ASSUME NEW S, NEW s \in Seq(S), NEW x, NEW y
  PROVE  Cardinality(PlacesOf(y, Without(s, x))) = IF y = x THEN 0 ELSE Cardinality(PlacesOf(y, s))
<1>1. PICK r, g : r = Without(s, x) /\ r \in Seq(S) /\ Picks(g, r, s, x)
  BY WithoutIs
<1>2. CASE y = x
  <2>1. PlacesOf(y, r) = {}
    BY <1>1, <1>2 DEF Picks, PlacesOf
  <2>. QED  BY <1>1, <1>2, <2>1, FS_EmptySet
<1>3. CASE y # x
  <2>1. PICK I, J : I = PlacesOf(y, r) /\ J = PlacesOf(y, s)
    OBVIOUS
  <2>2. I \subseteq 1 .. Len(r) /\ Len(r) \in Nat
    BY <1>1, <2>1 DEF PlacesOf
  <2>3. IsFiniteSet(I)
    BY <2>2, Ranks
  <2>4. PICK f : f = [i \in I |-> g[i]]
    OBVIOUS
  <2>5. \A i \in I : f[i] \in J
    BY <1>1, <2>1, <2>4 DEF Picks, PlacesOf
  <2>6. \A k \in J : \E i \in I : f[i] = k
    <3>1. SUFFICES ASSUME NEW k \in J PROVE \E i \in I : f[i] = k
      OBVIOUS
    <3>2. k \in 1 .. Len(s) /\ s[k] = y
      BY <2>1 DEF PlacesOf
    <3>3. PICK i \in 1 .. Len(r) : g[i] = k
      BY <1>1, <1>3, <3>2 DEF Picks
    <3>4. r[i] = y
      BY <1>1, <3>2, <3>3 DEF Picks
    <3>. QED  BY <2>1, <2>4, <3>3, <3>4 DEF PlacesOf
  <2>7. \A i, j \in I : f[i] = f[j] => i = j
    <3>1. SUFFICES ASSUME NEW i \in I, NEW j \in I, g[i] = g[j], i # j PROVE FALSE
      BY <2>4
    <3>2. i \in 1 .. Len(r) /\ j \in 1 .. Len(r) /\ (i < j \/ j < i)
      BY <2>2, <3>1
    <3>3. g[i] \in 1 .. Len(s) /\ (g[i] < g[j] \/ g[j] < g[i])
      BY <1>1, <3>2 DEF Picks
    <3>. QED  BY <3>1, <3>3
  <2>8. f \in Surjection(I, J) /\ f \in Injection(I, J)
    <3>1. f \in [I -> J]
      BY <2>4, <2>5
    <3>. QED  BY <2>6, <2>7, <3>1 DEF Surjection, Injection, IsInjective
  <2>9. Cardinality(J) = Cardinality(I)
    BY <2>3, <2>8, FS_Surjection
  <2>. QED  BY <1>1, <1>3, <2>1, <2>9
<1>. QED  BY <1>2, <1>3

(* The same for the list that x has joined.                                   *)
LEMMA CountCopies ==
  ASSUME NEW S, NEW s \in Seq(S), NEW x \in S, ~In(x, s), NEW n \in Nat, NEW y
  PROVE  Cardinality(PlacesOf(y, s \o [i \in 1 .. n |-> x]))
            = IF y = x THEN n ELSE Cardinality(PlacesOf(y, s))
<1>1. PICK b, r : b = [i \in 1 .. n |-> x] /\ r = s \o b
  OBVIOUS
<1>2. b \in Seq(S) /\ Len(b) = n /\ \A i \in 1 .. n : b[i] = x
  BY <1>1
<1>3. PICK m \in Nat : m = Len(s)
  OBVIOUS
<1>4. /\ r \in Seq(S) /\ Len(r) = m + n
      /\ \A i \in 1 .. Len(r) : r[i] = IF i <= m THEN s[i] ELSE b[i - m]
  BY <1>1, <1>2, <1>3, ConcatProperties
<1>5. \A i \in 1 .. m : s[i] # x
  BY <1>3 DEF In, PlacesOf
<1>6. \A i \in 1 .. m + n : r[i] = IF i <= m THEN s[i] ELSE x
  <2>. SUFFICES ASSUME NEW i \in 1 .. m + n PROVE r[i] = IF i <= m THEN s[i] ELSE x
    OBVIOUS
  <2>1. r[i] = IF i <= m THEN s[i] ELSE b[i - m]
    BY <1>4
  <2>2. i > m => i - m \in 1 .. n
    OBVIOUS
  <2>3. i > m => b[i - m] = x
    BY ONLY <1>2, <2>2, Zenon
  <2>. QED  BY <2>1, <2>3
<1>7. CASE y = x
  <2>1. PlacesOf(x, r) = m + 1 .. m + n
    BY <1>4, <1>5, <1>6 DEF PlacesOf
  <2>2. Cardinality(m + 1 .. m + n) = n
    <3>1. m + 1 \in Int /\ m + n \in Int
      OBVIOUS
    <3>2. Cardinality(m + 1 .. m + n) = IF m + 1 > m + n THEN 0 ELSE (m + n) - (m + 1) + 1
      BY <3>1, FS_Interval
    <3>. QED  BY <3>2
  <2>. QED  BY <1>1, <1>7, <2>1, <2>2
<1>8. CASE y # x
  <2>1. PlacesOf(y, r) = PlacesOf(y, s)
    BY <1>3, <1>4, <1>6, <1>8 DEF PlacesOf
  <2>. QED  BY <1>1, <1>8, <2>1
<1>. QED  BY <1>7, <1>8

(* The order is kept when somebody leaves the queue, or, not being in the     *)
(* queue, the line; and when somebody joins the end of both.                  *)
LEMMA BehindWithout ==
  ASSUME NEW S, NEW Q \in Seq(S), NEW s, NEW x, Behind(Q, s)
  PROVE  Behind(Without(Q, x), s)
<1>1. PICK r, g : r = Without(Q, x) /\ Picks(g, r, Q, x)
  BY WithoutIs
<1>2. SUFFICES ASSUME NEW i \in 1 .. Len(r), NEW j \in 1 .. Len(r), i < j
               PROVE  \E a, b \in 1 .. Len(s) : a <= b /\ s[a] = r[i] /\ s[b] = r[j]
  BY <1>1 DEF Behind
<1>3. /\ g[i] \in 1 .. Len(Q) /\ g[j] \in 1 .. Len(Q) /\ g[i] < g[j]
      /\ r[i] = Q[g[i]] /\ r[j] = Q[g[j]]
  BY <1>1, <1>2 DEF Picks
<1>. QED  BY <1>3 DEF Behind

(* The same when x leaves the line,                                           *)
LEMMA BehindLineWithout ==
  ASSUME NEW S, NEW s \in Seq(S), NEW Q, NEW x, ~In(x, Q), Behind(Q, s)
  PROVE  Behind(Q, Without(s, x))
<1>1. PICK r, g : r = Without(s, x) /\ r \in Seq(S) /\ Picks(g, r, s, x)
  BY WithoutIs
<1>2. SUFFICES ASSUME NEW i \in 1 .. Len(Q), NEW j \in 1 .. Len(Q), i < j
               PROVE  \E a, b \in 1 .. Len(r) : a <= b /\ r[a] = Q[i] /\ r[b] = Q[j]
  BY <1>1 DEF Behind
<1>3. PICK a \in 1 .. Len(s), b \in 1 .. Len(s) : a <= b /\ s[a] = Q[i] /\ s[b] = Q[j]
  BY <1>2 DEF Behind
<1>4. Q[i] # x /\ Q[j] # x
  BY DEF In, PlacesOf
<1>5. PICK k \in 1 .. Len(r), m \in 1 .. Len(r) : g[k] = a /\ g[m] = b
  BY <1>1, <1>3, <1>4 DEF Picks
<1>6. r[k] = Q[i] /\ r[m] = Q[j]
  BY <1>1, <1>3, <1>5 DEF Picks
<1>7. k <= m
  <2>1. m < k => b < a
    BY <1>1, <1>5 DEF Picks
  <2>. QED  BY <1>1, <1>3, <2>1
<1>. QED  BY <1>6, <1>7

(* and when x joins the end of both.                                          *)
LEMMA BehindCopies ==
  ASSUME NEW S, NEW Q \in Seq(S), NEW s \in Seq(S), NEW x \in S, NEW n \in Nat,
         \A y \in S : In(y, Q) => In(y, s), Behind(Q, s)
  PROVE  Behind(Q \o [i \in 1 .. n |-> x], Append(s, x))
<1>1. PICK b, r, t : b = [i \in 1 .. n |-> x] /\ r = Q \o b /\ t = Append(s, x)
  OBVIOUS
<1>2. b \in Seq(S) /\ Len(b) = n /\ \A i \in 1 .. n : b[i] = x
  BY <1>1
<1>3. PICK m \in Nat : m = Len(Q)
  OBVIOUS
<1>4. /\ r \in Seq(S) /\ Len(r) = m + n
      /\ \A i \in 1 .. Len(r) : r[i] = IF i <= m THEN Q[i] ELSE b[i - m]
  BY <1>1, <1>2, <1>3, ConcatProperties
<1>5. \A i \in 1 .. m + n : r[i] = IF i <= m THEN Q[i] ELSE x
  <2>. SUFFICES ASSUME NEW i \in 1 .. m + n PROVE r[i] = IF i <= m THEN Q[i] ELSE x
    OBVIOUS
  <2>1. r[i] = IF i <= m THEN Q[i] ELSE b[i - m]
    BY <1>4
  <2>2. i > m => i - m \in 1 .. n
    OBVIOUS
  <2>3. i > m => b[i - m] = x
    BY ONLY <1>2, <2>2, Zenon
  <2>. QED  BY <2>1, <2>3
<1>6. PICK k \in Nat : k = Len(s)
  OBVIOUS
<1>7. Len(t) = k + 1 /\ t[k + 1] = x /\ \A i \in 1 .. k : t[i] = s[i]
  BY <1>1, <1>6, AppendList
<1>8. \A i \in 1 .. m : \E a \in 1 .. k : s[a] = Q[i]
  <2>1. SUFFICES ASSUME NEW i \in 1 .. m PROVE \E a \in 1 .. k : s[a] = Q[i]
    OBVIOUS
  <2>2. Q[i] \in S /\ In(Q[i], Q)
    BY <1>3 DEF In, PlacesOf
  <2>. QED  BY <1>6, <2>2 DEF In, PlacesOf
<1>9. SUFFICES Behind(r, t)
  BY <1>1
<1>10. SUFFICES ASSUME NEW i \in 1 .. m + n, NEW j \in 1 .. m + n, i < j
               PROVE  \E c, d \in 1 .. k + 1 : c <= d /\ t[c] = r[i] /\ t[d] = r[j]
  BY <1>4, <1>7 DEF Behind
<1>11. CASE j <= m
  <2>1. i \in 1 .. m /\ j \in 1 .. m /\ r[i] = Q[i] /\ r[j] = Q[j]
    BY <1>5, <1>10, <1>11
  <2>2. PICK c \in 1 .. k, d \in 1 .. k : c <= d /\ s[c] = Q[i] /\ s[d] = Q[j]
    BY <1>3, <1>6, <1>10, <2>1 DEF Behind
  <2>. QED  BY <1>7, <2>1, <2>2
<1>12. CASE i <= m /\ j > m
  <2>1. i \in 1 .. m /\ r[i] = Q[i] /\ r[j] = x
    BY <1>5, <1>10, <1>12
  <2>2. PICK c \in 1 .. k : s[c] = Q[i]
    BY <1>8, <2>1
  <2>3. c <= k + 1 /\ k + 1 \in 1 .. k + 1 /\ c \in 1 .. k + 1
    OBVIOUS
  <2>. QED  BY <1>7, <2>1, <2>2, <2>3
<1>13. CASE i > m
  <2>1. r[i] = x /\ r[j] = x /\ k + 1 \in 1 .. k + 1
    BY <1>5, <1>10, <1>13
  <2>. QED  BY <1>7, <2>1
<1>. QED  BY <1>10, <1>11, <1>12, <1>13

(* pqins and pqclean keep what the queue of an offer tells.                   *)
LEMMA InsertedTells ==
  ASSUME NEW Q \in [Chan -> Seq(Proc)], NEW snd, NEW p \in Proc, NEW l \in Lists,
         NEW s \in Seq(Proc), NEW offs, NEW offs2,
         \A y \in Proc : offs2[y] = IF y = p THEN l ELSE offs[y],
         NEW c \in Chan, ~In(p, Q[c]), \A y \in Proc : In(y, Q[c]) => In(y, s),
         Tells(Q[c], <<c, snd>>, offs, s)
  PROVE  Tells(Inserted(Q, snd, p, l)[c], <<c, snd>>, offs2, Append(s, p))
<1>1. PICK P : P = PlacesOf(<<c, snd>>, l)
  OBVIOUS
<1>2. PICK n \in Nat : n = Cardinality(P)
  <2>1. l \in Seq(Chan \X BOOLEAN) /\ Len(l) \in Nat
    BY SquintAssumption
  <2>2. P \subseteq 1 .. Len(l)
    BY <1>1 DEF PlacesOf
  <2>3. Cardinality(P) \in Nat
    BY <2>1, <2>2, Ranks
  <2>. QED  BY <2>3
<1>3. PICK z, r : z = Q[c] /\ r = z \o [i \in 1 .. n |-> p]
  OBVIOUS
<1>4. Inserted(Q, snd, p, l)[c] = r
  BY <1>1, <1>2, <1>3 DEF Inserted
<1>5. z \in Seq(Proc) /\ ~In(p, z) /\ (\A y \in Proc : In(y, z) => In(y, s))
      /\ Stands(z, <<c, snd>>, offs) /\ Behind(z, s)
  BY <1>3 DEF Tells
<1>6. Stands(r, <<c, snd>>, offs2)
  <2>1. ASSUME NEW y \in Proc
        PROVE  Cardinality(PlacesOf(y, r)) = Cardinality(PlacesOf(<<c, snd>>, offs2[y]))
    <3>1. Cardinality(PlacesOf(y, r)) = IF y = p THEN n ELSE Cardinality(PlacesOf(y, z))
      <4>1. Cardinality(PlacesOf(y, z \o [i \in 1 .. n |-> p]))
               = IF y = p THEN n ELSE Cardinality(PlacesOf(y, z))
        BY <1>5, CountCopies
      <4>. QED  BY <1>3, <4>1
    <3>2. CASE y = p
      BY <1>1, <1>2, <3>1, <3>2
    <3>3. CASE y # p
      BY <1>5, <3>1, <3>3 DEF Stands
    <3>. QED  BY <3>2, <3>3
  <2>. QED  BY <2>1 DEF Stands
<1>7. Behind(r, Append(s, p))
  BY <1>3, <1>5, BehindCopies
<1>. QED  BY <1>4, <1>6, <1>7 DEF Tells

(* The same for pqclean.                                                      *)
LEMMA CleanedTells ==
  ASSUME NEW Q \in [Chan -> Seq(Proc)], NEW snd, NEW q \in Proc, NEW x,
         NEW s \in Seq(Proc), NEW offs, \A y \in Proc : offs[y] = IF y = q THEN <<>> ELSE offers[y],
         NEW c \in Chan, In(q, Q[c]) => In(<<c, snd>>, offers[q]),
         Tells(Q[c], <<c, snd>>, offers, s)
  PROVE  Tells(Cleaned(Q, snd, q, x)[c], <<c, snd>>, offs, Without(s, q))
<1>1. PICK z, r : z = Q[c] /\ r = Cleaned(Q, snd, q, x)[c]
  OBVIOUS
<1>2. z \in Seq(Proc) /\ Stands(z, <<c, snd>>, offers) /\ Behind(z, s)
  BY <1>1 DEF Tells
<1>3. IF In(<<c, snd>>, offers[q]) THEN r = Without(z, q) ELSE r = z /\ ~In(q, z)
  BY <1>1 DEF Cleaned, In
<1>4. r \in Seq(Proc) /\ ~In(q, r) /\ Behind(r, s)
  BY <1>2, <1>3, WithoutIs, WithoutPlaces, BehindWithout
<1>5. \A y \in Proc : Cardinality(PlacesOf(y, r)) = IF y = q THEN 0 ELSE Cardinality(PlacesOf(y, z))
  <2>1. CASE In(<<c, snd>>, offers[q])
    BY <1>2, <1>3, <2>1, CountWithout
  <2>2. CASE ~In(<<c, snd>>, offers[q])
    BY <1>3, <2>2, FS_EmptySet DEF In
  <2>. QED  BY <2>1, <2>2
<1>6. Stands(r, <<c, snd>>, offs)
  <2>1. ASSUME NEW y \in Proc
        PROVE  Cardinality(PlacesOf(y, r)) = Cardinality(PlacesOf(<<c, snd>>, offs[y]))
    <3>1. CASE y = q
      <4>1. PlacesOf(<<c, snd>>, <<>>) = {}
        BY DEF PlacesOf
      <4>. QED  BY <1>5, <3>1, <4>1, FS_EmptySet
    <3>2. CASE y # q
      BY <1>2, <1>5, <3>2 DEF Stands
    <3>. QED  BY <3>1, <3>2
  <2>. QED  BY <2>1 DEF Stands
<1>7. Behind(r, Without(s, q))
  BY <1>4, BehindLineWithout
<1>. QED  BY <1>1, <1>6, <1>7 DEF Tells

(* Who finds nobody waiting joins the queues with no partner in them.         *)
LEMMA PostTells ==
  ASSUME IInv, Telling, NEW p \in Proc, NEW l \in Lists, Post(p, l)
  PROVE  Telling'
<1>1. /\ Running(p) /\ \A i \in 1 .. Len(l) : Other(l[i]) = <<>>
      /\ sndq' = Inserted(sndq, TRUE, p, l) /\ rcvq' = Inserted(rcvq, FALSE, p, l)
      /\ offers' = [offers EXCEPT ![p] = l] /\ line' = Append(line, p)
  BY DEF Post
<1>2. /\ sndq \in [Chan -> Seq(Proc)] /\ rcvq \in [Chan -> Seq(Proc)] /\ line \in Seq(Proc)
      /\ \A y \in Proc : offers'[y] = IF y = p THEN l ELSE offers[y]
  BY <1>1 DEF IInv, TypeOK
<1>3. \A x : ~In(x, <<>>)
  BY DEF In, PlacesOf
<1>4. \A c \in Chan, y \in Proc : /\ In(y, sndq[c]) => In(<<c, TRUE>>, offers[y])
                                  /\ In(y, rcvq[c]) => In(<<c, FALSE>>, offers[y])
  <2>1. \A c \in Chan : QueueOf(c, TRUE) = sndq[c] /\ QueueOf(c, FALSE) = rcvq[c]
    BY DEF QueueOf
  <2>. QED  BY <2>1 DEF IInv, Offering
<1>5. \A c \in Chan, y \in Proc : /\ In(y, sndq[c]) => In(y, line) /\ y # p
                                  /\ In(y, rcvq[c]) => In(y, line) /\ y # p
  <2>1. offers[p] = <<>>
    BY <1>1, RunnerIs
  <2>. QED  BY <1>3, <1>4, <2>1 DEF IInv, Offering, InLine
<1>6. ASSUME NEW c \in Chan PROVE Tells(sndq'[c], <<c, TRUE>>, offers', line')
  <2>1. PICK Q, offs, offs2, s : Q = sndq /\ offs = offers /\ offs2 = offers' /\ s = line
    OBVIOUS
  <2>2. /\ Q \in [Chan -> Seq(Proc)] /\ s \in Seq(Proc) /\ ~In(p, Q[c])
        /\ \A y \in Proc : In(y, Q[c]) => In(y, s)
        /\ \A y \in Proc : offs2[y] = IF y = p THEN l ELSE offs[y]
        /\ Tells(Q[c], <<c, TRUE>>, offs, s)
    BY <1>2, <1>5, <2>1 DEF Telling
  <2>3. Tells(Inserted(Q, TRUE, p, l)[c], <<c, TRUE>>, offs2, Append(s, p))
    BY <2>2, InsertedTells
  <2>. QED  BY <1>1, <2>1, <2>3
<1>7. ASSUME NEW c \in Chan PROVE Tells(rcvq'[c], <<c, FALSE>>, offers', line')
  <2>1. PICK Q, offs, offs2, s : Q = rcvq /\ offs = offers /\ offs2 = offers' /\ s = line
    OBVIOUS
  <2>2. /\ Q \in [Chan -> Seq(Proc)] /\ s \in Seq(Proc) /\ ~In(p, Q[c])
        /\ \A y \in Proc : In(y, Q[c]) => In(y, s)
        /\ \A y \in Proc : offs2[y] = IF y = p THEN l ELSE offs[y]
        /\ Tells(Q[c], <<c, FALSE>>, offs, s)
    BY <1>2, <1>5, <2>1 DEF Telling
  <2>3. Tells(Inserted(Q, FALSE, p, l)[c], <<c, FALSE>>, offs2, Append(s, p))
    BY <2>2, InsertedTells
  <2>. QED  BY <1>1, <2>1, <2>3
<1>8. Unmatched'
  <2>1. \A c \in Chan : \A y : /\ In(y, sndq'[c]) <=> In(y, sndq[c]) \/ (y = p /\ In(<<c, TRUE>>, l))
                               /\ In(y, rcvq'[c]) <=> In(y, rcvq[c]) \/ (y = p /\ In(<<c, FALSE>>, l))
    <3>1. PICK Q, R : Q = sndq /\ R = rcvq
      OBVIOUS
    <3>2. Q \in [Chan -> Seq(Proc)] /\ R \in [Chan -> Seq(Proc)]
      BY <1>2, <3>1
    <3>3. \A c \in Chan : \A y :
             In(y, Inserted(Q, TRUE, p, l)[c]) <=> In(y, Q[c]) \/ (y = p /\ In(<<c, TRUE>>, l))
      BY <3>2, InsertedIs
    <3>4. \A c \in Chan : \A y :
             In(y, Inserted(R, FALSE, p, l)[c]) <=> In(y, R[c]) \/ (y = p /\ In(<<c, FALSE>>, l))
      BY <3>2, InsertedIs
    <3>. QED  BY <1>1, <3>1, <3>3, <3>4
  <2>2. ASSUME NEW c \in Chan PROVE /\ In(<<c, TRUE>>, l) => rcvq[c] = <<>>
                                    /\ In(<<c, FALSE>>, l) => sndq[c] = <<>>
    <3>1. ASSUME In(<<c, TRUE>>, l) PROVE rcvq[c] = <<>>
      <4>1. PICK i \in 1 .. Len(l) : l[i] = <<c, TRUE>>
        BY <3>1 DEF In, PlacesOf
      <4>2. Other(<<c, TRUE>>) = <<>>
        BY <1>1, <4>1
      <4>. QED  BY <4>2 DEF Other
    <3>2. ASSUME In(<<c, FALSE>>, l) PROVE sndq[c] = <<>>
      <4>1. PICK i \in 1 .. Len(l) : l[i] = <<c, FALSE>>
        BY <3>2 DEF In, PlacesOf
      <4>2. Other(<<c, FALSE>>) = <<>>
        BY <1>1, <4>1
      <4>. QED  BY <4>2 DEF Other
    <3>. QED  BY <3>1, <3>2
  <2>3. ASSUME NEW c \in Chan, NEW y \in Proc, NEW z \in Proc, In(y, sndq'[c]), In(z, rcvq'[c])
        PROVE  y = z
    <3>1. In(y, sndq[c]) \/ (y = p /\ In(<<c, TRUE>>, l))
      BY <2>1, <2>3
    <3>2. In(z, rcvq[c]) \/ (z = p /\ In(<<c, FALSE>>, l))
      BY <2>1, <2>3
    <3>3. (In(<<c, TRUE>>, l) => ~In(z, rcvq[c])) /\ (In(<<c, FALSE>>, l) => ~In(y, sndq[c]))
      BY <1>3, <2>2
    <3>4. In(y, sndq[c]) /\ In(z, rcvq[c]) => y = z
      BY DEF Telling, Unmatched
    <3>. QED  BY <3>1, <3>2, <3>3, <3>4
  <2>. QED  BY <2>3 DEF Unmatched
<1>. QED  BY <1>6, <1>7, <1>8 DEF Telling

(* Who communicates takes his partner off all queues.                         *)
LEMMA CommunicateTells ==
  ASSUME IInv, Telling, NEW p \in Proc, NEW l \in Lists, NEW i \in 1 .. Len(l), Communicate(p, l, i)
  PROVE  Telling'
<1>1. PICK o, q : o = l[i] /\ q = First(Other(o))
  OBVIOUS
<1>2. o \in Chan \X BOOLEAN
  BY <1>1, SquintAssumption
<1>3. /\ Other(o) # <<>>
      /\ sndq' = Cleaned(sndq, TRUE, q, o[1]) /\ rcvq' = Cleaned(rcvq, FALSE, q, o[1])
      /\ offers' = [offers EXCEPT ![q] = <<>>] /\ line' = Without(line, q)
  BY <1>1 DEF Communicate
<1>4. q \in Proc
  BY <1>1, <1>2, <1>3, PartnerIs
<1>5. /\ sndq \in [Chan -> Seq(Proc)] /\ rcvq \in [Chan -> Seq(Proc)] /\ line \in Seq(Proc)
      /\ \A y \in Proc : offers'[y] = IF y = q THEN <<>> ELSE offers[y]
  BY <1>3 DEF IInv, TypeOK
<1>6. \A c \in Chan, y \in Proc : /\ In(y, sndq[c]) => In(<<c, TRUE>>, offers[y])
                                  /\ In(y, rcvq[c]) => In(<<c, FALSE>>, offers[y])
  <2>1. \A c \in Chan : QueueOf(c, TRUE) = sndq[c] /\ QueueOf(c, FALSE) = rcvq[c]
    BY DEF QueueOf
  <2>. QED  BY <2>1 DEF IInv, Offering
<1>7. PICK Q, R, offs, s, x : Q = sndq /\ R = rcvq /\ offs = offers' /\ s = line /\ x = o[1]
  OBVIOUS
<1>8. /\ Q \in [Chan -> Seq(Proc)] /\ R \in [Chan -> Seq(Proc)] /\ s \in Seq(Proc)
      /\ \A y \in Proc : offs[y] = IF y = q THEN <<>> ELSE offers[y]
  BY <1>5, <1>7
<1>9. ASSUME NEW c \in Chan PROVE Tells(sndq'[c], <<c, TRUE>>, offers', line')
  <2>1. (In(q, Q[c]) => In(<<c, TRUE>>, offers[q])) /\ Tells(Q[c], <<c, TRUE>>, offers, s)
    BY <1>4, <1>6, <1>7 DEF Telling
  <2>2. Tells(Cleaned(Q, TRUE, q, x)[c], <<c, TRUE>>, offs, Without(s, q))
    BY <1>4, <1>8, <2>1, CleanedTells
  <2>. QED  BY <1>3, <1>7, <2>2
<1>10. ASSUME NEW c \in Chan PROVE Tells(rcvq'[c], <<c, FALSE>>, offers', line')
  <2>1. (In(q, R[c]) => In(<<c, FALSE>>, offers[q])) /\ Tells(R[c], <<c, FALSE>>, offers, s)
    BY <1>4, <1>6, <1>7 DEF Telling
  <2>2. Tells(Cleaned(R, FALSE, q, x)[c], <<c, FALSE>>, offs, Without(s, q))
    BY <1>4, <1>8, <2>1, CleanedTells
  <2>. QED  BY <1>3, <1>7, <2>2
<1>11. Unmatched'
  <2>1. \A c \in Chan : \A y : In(y, Cleaned(Q, TRUE, q, x)[c]) => In(y, Q[c])
    BY <1>8, CleanedIs
  <2>2. \A c \in Chan : \A y : In(y, Cleaned(R, FALSE, q, x)[c]) => In(y, R[c])
    BY <1>8, CleanedIs
  <2>3. \A c \in Chan : \A y : (In(y, sndq'[c]) => In(y, sndq[c])) /\ (In(y, rcvq'[c]) => In(y, rcvq[c]))
    BY <1>3, <1>7, <2>1, <2>2
  <2>. QED  BY <2>3 DEF Telling, Unmatched
<1>. QED  BY <1>9, <1>10, <1>11 DEF Telling

(* The queues and the line tell the same at every step.                       *)
LEMMA TellingHolds == ASSUME Given PROVE Spec => []Telling
<1>1. Init => Telling
  <2>1. SUFFICES ASSUME Init PROVE Telling
    OBVIOUS
  <2>2. \A x : PlacesOf(x, <<>>) = {}
    BY DEF PlacesOf
  <2>3. /\ \A c \in Chan : sndq[c] = <<>> /\ rcvq[c] = <<>>
        /\ \A p \in Proc : offers[p] = <<>>
    BY <2>1 DEF Init
  <2>4. \A o : Stands(<<>>, o, offers)
    BY <2>2, <2>3 DEF Stands
  <2>5. \A s : Behind(<<>>, s)
    BY DEF Behind
  <2>. QED  BY <2>2, <2>3, <2>4, <2>5 DEF Telling, Tells, Unmatched, In
<1>2. IInv /\ Telling /\ [Next]_vars => Telling'
  <2>1. SUFFICES ASSUME IInv, Telling, [Next]_vars PROVE Telling'
    OBVIOUS
  <2>2. ASSUME NEW p \in Proc, NEW l \in Lists, Post(p, l) PROVE Telling'
    BY <2>1, <2>2, PostTells
  <2>3. ASSUME NEW p \in Proc, NEW l \in Lists, NEW i \in 1 .. Len(l), Communicate(p, l, i)
        PROVE  Telling'
    BY <2>1, <2>3, CommunicateTells
  <2>4. ASSUME UNCHANGED <<queues, offers, line>> PROVE Telling'
    BY <2>1, <2>4 DEF Telling, Unmatched, queues
  <2>5. ASSUME NEW p \in Proc, Snd(p) \/ Begin(p) \/ Halt(p) PROVE Telling'
    BY <2>4, <2>5 DEF Snd, Begin, Halt
  <2>6. CASE PutOff \/ Done \/ UNCHANGED vars
    BY <2>4, <2>6 DEF PutOff, Done, vars
  <2>7. CASE Statement
    <3>1. UNCHANGED <<queues, offers, line>>
      BY <2>1, <2>7, StatementIs DEF Statement, Given
    <3>. QED  BY <2>4, <3>1
  <2>. QED  BY <2>1, <2>2, <2>3, <2>5, <2>6, <2>7 DEF Next
<1>. QED  BY <1>1, <1>2, Invariance, PTL DEF Spec

(* A channel's queues hold just those whose list names it, in the order in    *)
(* which they came, and no two of them could communicate.                     *)
THEOREM QueuesToldTrue == ASSUME Given PROVE Spec => []QueuesTell
<1>1. IInv /\ Telling => QueuesTell
  <2>1. SUFFICES ASSUME IInv, Telling PROVE QueuesTell
    OBVIOUS
  <2>2. ASSUME NEW c \in Chan, NEW snd \in BOOLEAN
        PROVE  Tells(IF snd THEN sndq[c] ELSE rcvq[c], <<c, snd>>, offers, line)
    <3>1. CASE snd = TRUE
      BY <2>1, <3>1, Zenon DEF Telling
    <3>2. CASE snd = FALSE
      BY <2>1, <3>2, Zenon DEF Telling
    <3>. QED  BY <3>1, <3>2
  <2>3. \A c \in Chan : \A p \in ToSet(sndq[c]), q \in ToSet(rcvq[c]) : p = q
    <3>1. SUFFICES ASSUME NEW c \in Chan, NEW p \in ToSet(sndq[c]), NEW q \in ToSet(rcvq[c])
                   PROVE  p = q
      OBVIOUS
    <3>2. sndq[c] \in Seq(Proc) /\ rcvq[c] \in Seq(Proc)
      BY <2>1 DEF IInv, TypeOK
    <3>3. p \in Proc /\ q \in Proc /\ In(p, sndq[c]) /\ In(q, rcvq[c])
      BY <3>2 DEF ToSet, In, PlacesOf
    <3>. QED  BY <2>1, <3>3 DEF Telling, Unmatched
  <2>4. \A c \in Chan : \A snd \in BOOLEAN :
           LET Q == IF snd THEN sndq[c] ELSE rcvq[c]
           IN /\ \A p \in Proc : Cardinality(PlacesOf(p, Q))
                                 = Cardinality(PlacesOf(<<c, snd>>, offers[p]))
              /\ \A i, j \in 1 .. Len(Q) : i < j => \E a, b \in 1 .. Len(line) :
                     a <= b /\ line[a] = Q[i] /\ line[b] = Q[j]
    BY <2>2, Zenon DEF Tells, Stands, Behind
  <2>. QED  BY <2>3, <2>4, Zenon DEF QueuesTell
<1>. QED  BY <1>1, Invariance, TellingHolds, PTL

-----------------------------------------------------------------------------
(* COMMUNICATION AS SELECT PROMISES IT *)

(* What everybody in line offers, and what everybody owes, as the abstract    *)
(* specification has it.                                                      *)
OffersOf(of, y) == {of[y][i] : i \in 1 .. Len(of[y])}
WaitersOf(ln, of) == [i \in 1 .. Len(ln) |-> [p |-> ln[i], offers |-> OffersOf(of, ln[i])]]
DebtsOf(ow, ht) == [p \in Proc |-> [i \in 1 .. Len(ow[p]) |-> <<ow[p][i], ht[ow[p][i]]>>]]

Listings == [Proc -> Seq(Chan \X BOOLEAN)]
Waiter == [p : Proc, offers : SUBSET (Chan \X BOOLEAN)]
Debt == Proc \X ((Chan \X {FALSE}) \cup {None})

LEMMA Names ==
  /\ waiters = WaitersOf(line, offers) /\ waiters' = WaitersOf(line', offers')
  /\ debts = DebtsOf(owes, hit) /\ debts' = DebtsOf(owes', hit')
  /\ \A y : Offers(y) = OffersOf(offers, y)
<1>1. waiters = WaitersOf(line, offers) /\ waiters' = WaitersOf(line', offers')
  BY DEF waiters, WaitersOf, Offers, OffersOf
<1>2. debts = DebtsOf(owes, hit) /\ debts' = DebtsOf(owes', hit')
  BY DEF debts, DebtsOf
<1>. QED  BY <1>1, <1>2 DEF Offers, OffersOf

LEMMA OffersAre ==
  /\ TypeOK => offers \in Listings
  /\ TypeOK' => offers' \in Listings
<1>1. <<>> \in Seq(Chan \X BOOLEAN)
  OBVIOUS
<1>2. Lists \cup {<<>>} \subseteq Seq(Chan \X BOOLEAN)
  BY <1>1, SquintAssumption
<1>. QED  BY <1>2 DEF TypeOK, Listings

LEMMA WaitersAre ==
  ASSUME NEW ln \in Seq(Proc), NEW of \in Listings
  PROVE  /\ WaitersOf(ln, of) \in Seq(Waiter) /\ Len(WaitersOf(ln, of)) = Len(ln)
         /\ \A i \in 1 .. Len(ln) :
               WaitersOf(ln, of)[i] = [p |-> ln[i], offers |-> OffersOf(of, ln[i])]
<1>1. Len(ln) \in Nat /\ \A i \in 1 .. Len(ln) : ln[i] \in Proc
  OBVIOUS
<1>2. ASSUME NEW y \in Proc PROVE OffersOf(of, y) \in SUBSET (Chan \X BOOLEAN)
  BY DEF OffersOf, Listings
<1>3. \A i \in 1 .. Len(ln) : [p |-> ln[i], offers |-> OffersOf(of, ln[i])] \in Waiter
  BY <1>1, <1>2 DEF Waiter
<1>. QED  BY <1>1, <1>3 DEF WaitersOf

LEMMA DebtsAre ==
  ASSUME NEW ow \in [Proc -> Seq(Proc)], NEW ht \in [Proc -> (Chan \X {FALSE}) \cup {None}]
  PROVE  /\ DebtsOf(ow, ht) \in [Proc -> Seq(Debt)]
         /\ \A y \in Proc : /\ Len(DebtsOf(ow, ht)[y]) = Len(ow[y])
                            /\ \A i \in 1 .. Len(ow[y]) :
                                  DebtsOf(ow, ht)[y][i] = <<ow[y][i], ht[ow[y][i]]>>
<1>1. ASSUME NEW y \in Proc
      PROVE  /\ Len(DebtsOf(ow, ht)[y]) = Len(ow[y]) /\ DebtsOf(ow, ht)[y] \in Seq(Debt)
             /\ \A i \in 1 .. Len(ow[y]) : DebtsOf(ow, ht)[y][i] = <<ow[y][i], ht[ow[y][i]]>>
  <2>1. Len(ow[y]) \in Nat /\ \A i \in 1 .. Len(ow[y]) : ow[y][i] \in Proc
    OBVIOUS
  <2>2. \A i \in 1 .. Len(ow[y]) : <<ow[y][i], ht[ow[y][i]]>> \in Debt
    BY <2>1 DEF Debt
  <2>3. DebtsOf(ow, ht)[y] = [i \in 1 .. Len(ow[y]) |-> <<ow[y][i], ht[ow[y][i]]>>]
    BY DEF DebtsOf
  <2>. QED  BY <2>1, <2>2, <2>3
<1>2. DebtsOf(ow, ht) \in [Proc -> Seq(Debt)]
  BY <1>1 DEF DebtsOf
<1>. QED  BY <1>1, <1>2

(* In the words of the invariant.                                             *)
LEMMA Mapped ==
  ASSUME IInv
  PROVE  /\ line \in Seq(Proc) /\ Len(waiters) = Len(line)
         /\ \A i \in 1 .. Len(line) : waiters[i].p = line[i] /\ waiters[i].offers = Offers(line[i])
         /\ debts \in [Proc -> Seq(Debt)]
         /\ \A y \in Proc : /\ Len(debts[y]) = Len(owes[y])
                            /\ \A i \in 1 .. Len(owes[y]) :
                                  debts[y][i] = <<owes[y][i], hit[owes[y][i]]>>
<1>1. /\ line \in Seq(Proc) /\ offers \in Listings /\ owes \in [Proc -> Seq(Proc)]
      /\ hit \in [Proc -> (Chan \X {FALSE}) \cup {None}]
  BY OffersAre DEF IInv, TypeOK
<1>2. \A i \in 1 .. Len(line) : waiters[i] = [p |-> line[i], offers |-> Offers(line[i])]
  BY <1>1, Names, WaitersAre
<1>3. Len(waiters) = Len(line)
  BY <1>1, Names, WaitersAre
<1>4. \A y \in Proc : /\ Len(debts[y]) = Len(owes[y])
                      /\ \A i \in 1 .. Len(owes[y]) : debts[y][i] = <<owes[y][i], hit[owes[y][i]]>>
  BY <1>1, Names, DebtsAre
<1>5. debts \in [Proc -> Seq(Debt)]
  BY <1>1, Names, DebtsAre
<1>6. \A i \in 1 .. Len(line) : waiters[i].p = line[i] /\ waiters[i].offers = Offers(line[i])
  <2>1. SUFFICES ASSUME NEW i \in 1 .. Len(line)
                 PROVE  waiters[i].p = line[i] /\ waiters[i].offers = Offers(line[i])
    OBVIOUS
  <2>2. PICK x, S : x = line[i] /\ S = Offers(line[i])
    OBVIOUS
  <2>3. waiters[i] = [p |-> x, offers |-> S]
    BY <1>2, <2>2
  <2>. QED  BY <2>2, <2>3
<1>. QED  BY <1>1, <1>3, <1>4, <1>5, <1>6

(* Who waits there is in line, or owed a value.                               *)
LEMMA WaitsIs == ASSUME IInv, NEW y \in Proc PROVE Sync!Waits(y) <=> InLine(y) \/ InDebt(y)
<1>1. InLine(y) <=> \E i \in 1 .. Len(line) : line[i] = y
  BY DEF InLine, In, PlacesOf
<1>2. \A q \in Proc : In(y, owes[q]) <=> \E i \in 1 .. Len(owes[q]) : owes[q][i] = y
  BY DEF In, PlacesOf
<1>3. (\E i \in 1 .. Len(waiters) : waiters[i].p = y) <=> InLine(y)
  BY <1>1, Mapped
<1>4. \A q \in Proc : (\E i \in 1 .. Len(debts[q]) : debts[q][i][1] = y) <=> In(y, owes[q])
  <2>1. SUFFICES ASSUME NEW q \in Proc
                 PROVE  (\E i \in 1 .. Len(debts[q]) : debts[q][i][1] = y) <=> In(y, owes[q])
    OBVIOUS
  <2>2. \A i \in 1 .. Len(owes[q]) : debts[q][i] = <<owes[q][i], hit[owes[q][i]]>>
    BY Mapped
  <2>3. \A i \in 1 .. Len(owes[q]) : debts[q][i][1] = owes[q][i]
    BY <2>2
  <2>4. Len(debts[q]) = Len(owes[q])
    BY Mapped
  <2>. QED  BY <1>2, <2>3, <2>4
<1>. QED  BY <1>3, <1>4 DEF Sync!Waits, InDebt

(* Who is in the queue of an offer: those who have it on their list.          *)
LEMMA StandIn ==
  ASSUME IInv, NEW Q \in Seq(Proc), NEW o, Stands(Q, o, offers), NEW y \in Proc
  PROVE  In(y, Q) <=> o \in Offers(y)
<1>1. offers[y] \in Seq(Chan \X BOOLEAN)
  BY OffersAre DEF IInv, Listings
<1>2. PICK K, L : K = PlacesOf(y, Q) /\ L = PlacesOf(o, offers[y])
  OBVIOUS
<1>3. K \subseteq 1 .. Len(Q) /\ L \subseteq 1 .. Len(offers[y]) /\ Len(Q) \in Nat /\ Len(offers[y]) \in Nat
  BY <1>1, <1>2 DEF PlacesOf
<1>4. IsFiniteSet(K) /\ IsFiniteSet(L)
  BY <1>3, Ranks
<1>5. Cardinality(K) = Cardinality(L)
  BY <1>2 DEF Stands
<1>6. K = {} <=> L = {}
  BY <1>4, <1>5, FS_EmptySet
<1>7. o \in Offers(y) <=> L # {}
  BY <1>2 DEF Offers, PlacesOf
<1>. QED  BY <1>2, <1>6, <1>7 DEF In

(* What the queue tells in which the other half of an offer waits.            *)
LEMMA OtherTells ==
  ASSUME IInv, Telling, NEW o \in Chan \X BOOLEAN
  PROVE  /\ Other(o) \in Seq(Proc) /\ Behind(Other(o), line)
         /\ \A y \in Proc : In(y, Other(o)) <=> <<o[1], ~o[2]>> \in Offers(y)
<1>1. PICK c, h : c = o[1] /\ h = <<c, ~o[2]>> /\ c \in Chan
  OBVIOUS
<1>2. PICK Q : Q = Other(o)
  OBVIOUS
<1>3. Q \in Seq(Proc) /\ Tells(Q, h, offers, line)
  <2>1. CASE o[2]
    <3>1. h = <<c, FALSE>>
      BY <1>1, <2>1
    <3>2. Q = rcvq[c]
      BY <1>1, <1>2, <2>1 DEF Other
    <3>3. rcvq[c] \in Seq(Proc)
      BY <1>1 DEF IInv, TypeOK
    <3>. QED  BY <1>1, <3>1, <3>2, <3>3 DEF Telling
  <2>2. CASE ~o[2]
    <3>1. h = <<c, TRUE>>
      BY <1>1, <2>2
    <3>2. Q = sndq[c]
      BY <1>1, <1>2, <2>2 DEF Other
    <3>3. sndq[c] \in Seq(Proc)
      BY <1>1 DEF IInv, TypeOK
    <3>. QED  BY <1>1, <3>1, <3>2, <3>3 DEF Telling
  <2>. QED  BY <2>1, <2>2
<1>4. \A y \in Proc : In(y, Q) <=> h \in Offers(y)
  BY <1>3, StandIn DEF Tells
<1>. QED  BY <1>1, <1>2, <1>3, <1>4 DEF Tells

(* The first in line with the other half is the head of that queue.           *)
LEMMA PartnerFound ==
  ASSUME IInv, Telling, NEW o \in Chan \X BOOLEAN
  PROVE  /\ Other(o) = <<>> => Sync!Partner(o) = 0
         /\ Other(o) # <<>> => /\ Sync!Partner(o) \in 1 .. Len(line)
                               /\ line[Sync!Partner(o)] = First(Other(o))
<1>1. PICK Q : Q = Other(o)
  OBVIOUS
<1>2. PICK h, I : h = <<o[1], ~o[2]>> /\ I = {i \in 1 .. Len(waiters) : h \in waiters[i].offers}
  OBVIOUS
<1>3. Sync!Partner(o) = IF I = {} THEN 0 ELSE CHOOSE i \in I : \A j \in I : i <= j
  BY <1>2 DEF Sync!Partner
<1>4. /\ line \in Seq(Proc) /\ Len(line) \in Nat /\ \A i \in 1 .. Len(line) : line[i] \in Proc
      /\ Once(line)
  BY DEF IInv, TypeOK, Distinct
<1>5. Q \in Seq(Proc) /\ Behind(Q, line) /\ \A y \in Proc : In(y, Q) <=> h \in Offers(y)
  BY <1>1, <1>2, OtherTells
<1>6. I \subseteq 1 .. Len(line) /\ \A i \in 1 .. Len(line) : i \in I <=> In(line[i], Q)
  BY <1>2, <1>4, <1>5, Mapped
<1>7. CASE Q = <<>>
  <2>1. \A y : ~In(y, Q)
    BY <1>7 DEF In, PlacesOf
  <2>2. I = {}
    BY <1>6, <2>1
  <2>. QED  BY <1>1, <1>3, <1>7, <2>2
<1>8. CASE Q # <<>>
  <2>1. PICK q : q = Head(Q)
    OBVIOUS
  <2>2. q = Q[1] /\ q \in Proc /\ In(q, Q) /\ Len(Q) \in Nat /\ Len(Q) >= 1
    BY <1>5, <1>8, <2>1, TailList, TailPlaces
  <2>3. InLine(q)
    <3>1. h \in Offers(q)
      BY <1>5, <2>2
    <3>2. offers[q] # <<>>
      BY <3>1 DEF Offers
    <3>. QED  BY <2>2, <3>2 DEF IInv, Offering
  <2>4. PICK k \in 1 .. Len(line) : line[k] = q
    BY <2>3 DEF InLine, In, PlacesOf
  <2>5. k \in I
    BY <1>6, <2>2, <2>4
  <2>6. ASSUME NEW j \in I PROVE k <= j
    <3>1. In(line[j], Q)
      BY <1>6
    <3>2. PICK m \in 1 .. Len(Q) : Q[m] = line[j]
      BY <3>1 DEF In, PlacesOf
    <3>3. CASE m = 1
      BY <1>4, <1>6, <2>2, <2>4, <3>2, <3>3 DEF Once
    <3>4. CASE m # 1
      <4>1. 1 \in 1 .. Len(Q) /\ 1 < m
        BY <2>2, <3>4
      <4>2. PICK a \in 1 .. Len(line), b \in 1 .. Len(line) : a <= b /\ line[a] = Q[1] /\ line[b] = Q[m]
        BY <1>5, <4>1 DEF Behind
      <4>3. a = k /\ b = j
        BY <1>4, <1>6, <2>2, <2>4, <3>2, <4>2 DEF Once
      <4>. QED  BY <4>2, <4>3
    <3>. QED  BY <3>3, <3>4
  <2>7. ASSUME NEW i \in I, \A j \in I : i <= j PROVE i = k
    BY <1>4, <1>6, <2>5, <2>6, <2>7
  <2>8. (CHOOSE i \in I : \A j \in I : i <= j) = k
    BY <2>5, <2>6, <2>7
  <2>. QED  BY <1>1, <1>3, <1>8, <2>1, <2>4, <2>5, <2>8 DEF First
<1>. QED  BY <1>7, <1>8

(* A list without one that is in it once is the list without its place.       *)
LEMMA LeftOut ==
  ASSUME NEW S, NEW s \in Seq(S), Once(s), NEW k \in 1 .. Len(s)
  PROVE  /\ Len(Without(s, s[k])) = Len(s) - 1
         /\ \A i \in 1 .. Len(s) - 1 : Without(s, s[k])[i] = s[IF i < k THEN i ELSE i + 1]
<1>1. PICK n \in Nat : n = Len(s)
  OBVIOUS
<1>2. PICK K : K = (1 .. n) \ {k}
  OBVIOUS
<1>3. PlacesOf(s[k], s) = {k}
  BY <1>1, <1>2 DEF Once, PlacesOf
<1>4. k \in 1 .. n /\ K \subseteq 1 .. n
  BY <1>1, <1>2
<1>5. Cardinality(K) = n - 1
  <2>1. IsFiniteSet(1 .. n) /\ Cardinality(1 .. n) = n
    BY FS_Interval
  <2>. QED  BY <1>1, <1>2, <1>4, <2>1, FS_RemoveElement
<1>6. Without(s, s[k]) = [m \in 1 .. (n - 1) |-> s[Nth(K, m)]]
  BY <1>1, <1>2, <1>3, <1>5 DEF Without
<1>7. ASSUME NEW i \in 1 .. (n - 1) PROVE Nth(K, i) = IF i < k THEN i ELSE i + 1
  <2>1. PICK m \in 1 .. n : m = IF i < k THEN i ELSE i + 1
    OBVIOUS
  <2>2. m \in K
    BY <1>1, <1>2, <1>4, <2>1
  <2>3. Rank(K, m) = i
    <3>1. CASE i < k
      <4>1. {j \in K : j <= m} = 1 .. i
        BY <1>1, <1>2, <1>4, <2>1, <3>1
      <4>2. Cardinality(1 .. i) = i
        BY FS_Interval
      <4>. QED  BY <4>1, <4>2 DEF Rank
    <3>2. CASE ~(i < k)
      <4>1. {j \in K : j <= m} = (1 .. (i + 1)) \ {k}
        BY <1>1, <1>2, <1>4, <2>1, <3>2
      <4>2. PICK T : T = 1 .. (i + 1)
        OBVIOUS
      <4>3. IsFiniteSet(T) /\ Cardinality(T) = i + 1
        BY <4>2, FS_Interval
      <4>4. k \in T
        BY <1>4, <3>2, <4>2
      <4>5. Cardinality(T \ {k}) = Cardinality(T) - 1
        BY <4>3, <4>4, OneLess
      <4>6. PICK A : A = {j \in K : j <= m}
        OBVIOUS
      <4>7. Rank(K, m) = Cardinality(A) /\ A = T \ {k}
        BY <4>1, <4>2, <4>6 DEF Rank
      <4>. QED  BY <4>3, <4>5, <4>7
    <3>. QED  BY <3>1, <3>2
  <2>4. ASSUME NEW a \in K, Rank(K, a) = i PROVE a = m
    <3>1. a < m => Rank(K, a) < Rank(K, m)
      BY <1>4, <2>2, Ranks
    <3>2. m < a => Rank(K, m) < Rank(K, a)
      BY <1>4, <2>2, Ranks
    <3>3. a \in Nat /\ m \in Nat /\ i \in Nat
      BY <1>4
    <3>. QED  BY <2>3, <2>4, <3>1, <3>2, <3>3
  <2>5. Nth(K, i) = CHOOSE a \in K : Rank(K, a) = i
    BY DEF Nth, Rank
  <2>6. (CHOOSE a \in K : Rank(K, a) = i) = m
    BY <2>2, <2>3, <2>4
  <2>. QED  BY <2>1, <2>5, <2>6
<1>8. Len(Without(s, s[k])) = n - 1
  BY <1>1, <1>2, <1>4, <1>6
<1>9. \A i \in 1 .. (n - 1) : Without(s, s[k])[i] = s[IF i < k THEN i ELSE i + 1]
  BY <1>6, <1>7
<1>. QED  BY <1>1, <1>2, <1>8, <1>9

(* The abstract line follows the concrete one: somebody joins,                *)
LEMMA LineJoined ==
  ASSUME NEW ln \in Seq(Proc), NEW of \in Listings, NEW of2 \in Listings,
         NEW p \in Proc, ~In(p, ln), \A y \in Proc : y # p => of2[y] = of[y]
  PROVE  WaitersOf(Append(ln, p), of2)
            = Append(WaitersOf(ln, of), [p |-> p, offers |-> OffersOf(of2, p)])
<1>1. PICK n \in Nat : n = Len(ln)
  OBVIOUS
<1>2. PICK w, ln2 : w = [p |-> p, offers |-> OffersOf(of2, p)] /\ ln2 = Append(ln, p)
  OBVIOUS
<1>3. PICK q, r, a : q = WaitersOf(ln, of) /\ r = WaitersOf(ln2, of2) /\ a = Append(q, w)
  OBVIOUS
<1>4. /\ ln2 \in Seq(Proc) /\ Len(ln2) = n + 1 /\ ln2[n + 1] = p
      /\ \A i \in 1 .. n : ln2[i] = ln[i] /\ ln[i] \in Proc /\ ln[i] # p
  BY <1>1, <1>2, AppendList DEF In, PlacesOf
<1>5. /\ r \in Seq(Waiter) /\ Len(r) = n + 1
      /\ \A i \in 1 .. n + 1 : r[i] = [p |-> ln2[i], offers |-> OffersOf(of2, ln2[i])]
  BY <1>3, <1>4, WaitersAre
<1>6. /\ q \in Seq(Waiter) /\ Len(q) = n
      /\ \A i \in 1 .. n : q[i] = [p |-> ln[i], offers |-> OffersOf(of, ln[i])]
  BY <1>1, <1>3, WaitersAre
<1>7. r[n + 1] = w /\ w \in Waiter
  <2>1. n + 1 \in 1 .. n + 1
    BY <1>1
  <2>2. r[n + 1] = w
    BY <1>2, <1>4, <1>5, <2>1
  <2>. QED  BY <1>5, <2>1, <2>2
<1>8. /\ a \in Seq(Waiter) /\ Len(a) = n + 1 /\ a[n + 1] = w
      /\ \A i \in 1 .. n : a[i] = q[i]
  BY <1>3, <1>6, <1>7, AppendList
<1>9. ASSUME NEW i \in 1 .. n PROVE r[i] = a[i]
  <2>1. OffersOf(of2, ln[i]) = OffersOf(of, ln[i])
    BY <1>4 DEF OffersOf
  <2>2. i \in 1 .. n + 1
    OBVIOUS
  <2>. QED  BY <1>4, <1>5, <1>6, <1>8, <2>1, <2>2
<1>10. \A i \in 1 .. Len(r) : r[i] = a[i]
  BY <1>5, <1>7, <1>8, <1>9
<1>11. r = a
  BY <1>5, <1>8, <1>10, SeqEqual
<1>. QED  BY <1>2, <1>3, <1>11

(* or leaves it.                                                              *)
LEMMA LineLeft ==
  ASSUME NEW ln \in Seq(Proc), Once(ln), NEW of \in Listings, NEW of2 \in Listings,
         NEW k \in 1 .. Len(ln), \A y \in Proc : y # ln[k] => of2[y] = of[y]
  PROVE  WaitersOf(Without(ln, ln[k]), of2) = Sync!Without(WaitersOf(ln, of), k)
<1>1. PICK n \in Nat : n = Len(ln) /\ \A i \in 1 .. n : ln[i] \in Proc
  OBVIOUS
<1>2. PICK ln2 : ln2 = Without(ln, ln[k])
  OBVIOUS
<1>3. PICK q, r, a : q = WaitersOf(ln, of) /\ r = WaitersOf(ln2, of2) /\ a = Sync!Without(q, k)
  OBVIOUS
<1>4. /\ ln2 \in Seq(Proc) /\ Len(ln2) = n - 1
      /\ \A i \in 1 .. n - 1 : ln2[i] = ln[IF i < k THEN i ELSE i + 1]
  BY <1>1, <1>2, LeftOut, WithoutIs
<1>5. /\ r \in Seq(Waiter) /\ Len(r) = n - 1
      /\ \A i \in 1 .. n - 1 : r[i] = [p |-> ln2[i], offers |-> OffersOf(of2, ln2[i])]
  BY <1>3, <1>4, WaitersAre
<1>6. /\ q \in Seq(Waiter) /\ Len(q) = n
      /\ \A i \in 1 .. n : q[i] = [p |-> ln[i], offers |-> OffersOf(of, ln[i])]
  BY <1>1, <1>3, WaitersAre
<1>7. /\ a \in Seq(Waiter) /\ Len(a) = n - 1
      /\ \A i \in 1 .. n - 1 : a[i] = q[IF i < k THEN i ELSE i + 1]
  <2>1. a = SubSeq(q, 1, k - 1) \o SubSeq(q, k + 1, Len(q))
    BY <1>3 DEF Sync!Without
  <2>2. k \in 1 .. Len(q)
    BY <1>1, <1>6
  <2>. QED  BY <1>6, <2>1, <2>2, RemoveList
<1>8. ASSUME NEW i \in 1 .. n - 1 PROVE r[i] = a[i]
  <2>1. PICK j \in 1 .. n : j = (IF i < k THEN i ELSE i + 1) /\ j # k
    BY <1>1
  <2>2. ln[j] \in Proc /\ ln[j] # ln[k]
    BY <1>1, <2>1 DEF Once
  <2>3. OffersOf(of2, ln[j]) = OffersOf(of, ln[j])
    BY <2>2 DEF OffersOf
  <2>4. r[i] = [p |-> ln[j], offers |-> OffersOf(of2, ln[j])]
    BY <1>4, <1>5, <2>1
  <2>. QED  BY <1>6, <1>7, <2>1, <2>3, <2>4
<1>9. r = a
  BY <1>5, <1>7, <1>8, SeqEqual
<1>. QED  BY <1>2, <1>3, <1>9

(* A list of debts with one more at its end, or without its last.             *)
DebtList(s, ht) == [i \in 1 .. Len(s) |-> <<s[i], ht[s[i]]>>]
Tags == [Proc -> (Chan \X {FALSE}) \cup {None}]

LEMMA DebtListIs ==
  ASSUME NEW s \in Seq(Proc), NEW ht \in Tags
  PROVE  /\ DebtList(s, ht) \in Seq(Debt) /\ Len(DebtList(s, ht)) = Len(s) /\ Len(s) \in Nat
         /\ \A i \in 1 .. Len(s) : s[i] \in Proc /\ DebtList(s, ht)[i] = <<s[i], ht[s[i]]>>
<1>1. Len(s) \in Nat /\ \A i \in 1 .. Len(s) : s[i] \in Proc
  OBVIOUS
<1>2. \A i \in 1 .. Len(s) : <<s[i], ht[s[i]]>> \in Debt
  BY <1>1 DEF Debt, Tags
<1>. QED  BY <1>1, <1>2 DEF DebtList

LEMMA DebtMore ==
  ASSUME NEW s \in Seq(Proc), NEW t \in Proc, NEW ht \in Tags, NEW ht2 \in Tags,
         \A i \in 1 .. Len(s) : ht2[s[i]] = ht[s[i]]
  PROVE  DebtList(Append(s, t), ht2) = Append(DebtList(s, ht), <<t, ht2[t]>>)
<1>1. PICK n \in Nat : n = Len(s)
  OBVIOUS
<1>2. PICK r, d : r = Append(s, t) /\ d = <<t, ht2[t]>>
  OBVIOUS
<1>3. PICK a, b, e : a = DebtList(s, ht) /\ b = Append(a, d) /\ e = DebtList(r, ht2)
  OBVIOUS
<1>4. r \in Seq(Proc) /\ Len(r) = n + 1 /\ r[n + 1] = t /\ \A i \in 1 .. n : r[i] = s[i]
  BY <1>1, <1>2, AppendList
<1>5. /\ e \in Seq(Debt) /\ Len(e) = n + 1
      /\ \A i \in 1 .. n + 1 : e[i] = <<r[i], ht2[r[i]]>>
  BY <1>3, <1>4, DebtListIs
<1>6. a \in Seq(Debt) /\ Len(a) = n /\ \A i \in 1 .. n : a[i] = <<s[i], ht[s[i]]>>
  BY <1>1, <1>3, DebtListIs
<1>7. e[n + 1] = d /\ d \in Debt
  <2>1. n + 1 \in 1 .. n + 1
    BY <1>1
  <2>2. e[n + 1] = d
    BY <1>2, <1>4, <1>5, <2>1
  <2>. QED  BY <1>5, <2>1, <2>2
<1>8. b \in Seq(Debt) /\ Len(b) = n + 1 /\ b[n + 1] = d /\ \A i \in 1 .. n : b[i] = a[i]
  BY <1>3, <1>6, <1>7, AppendList
<1>9. ASSUME NEW i \in 1 .. n PROVE e[i] = b[i]
  <2>1. i \in 1 .. n + 1 /\ i \in 1 .. Len(s)
    BY <1>1
  <2>2. e[i] = <<r[i], ht2[r[i]]>> /\ r[i] = s[i]
    BY <1>4, <1>5, <2>1
  <2>3. ht2[s[i]] = ht[s[i]]
    BY <2>1
  <2>. QED  BY <1>6, <1>8, <2>2, <2>3
<1>10. \A i \in 1 .. n + 1 : e[i] = b[i]
  BY <1>1, <1>7, <1>8, <1>9
<1>11. e = b
  BY <1>5, <1>8, <1>10, SeqEqual
<1>. QED  BY <1>2, <1>3, <1>11

LEMMA DebtLess ==
  ASSUME NEW s \in Seq(Proc), s # <<>>, NEW ht \in Tags, NEW ht2 \in Tags,
         \A i \in 1 .. Len(s) - 1 : ht2[s[i]] = ht[s[i]]
  PROVE  DebtList(Front(s), ht2) = SubSeq(DebtList(s, ht), 1, Len(DebtList(s, ht)) - 1)
<1>1. PICK n \in Nat : n = Len(s) /\ n >= 1
  BY EmptySeq
<1>2. PICK r : r = Front(s)
  OBVIOUS
<1>3. PICK a, b, e : a = DebtList(s, ht) /\ b = Front(a) /\ e = DebtList(r, ht2)
  OBVIOUS
<1>4. r \in Seq(Proc) /\ Len(r) = n - 1 /\ \A i \in 1 .. n - 1 : r[i] = s[i]
  BY <1>1, <1>2, FrontList
<1>5. /\ e \in Seq(Debt) /\ Len(e) = n - 1
      /\ \A i \in 1 .. n - 1 : e[i] = <<r[i], ht2[r[i]]>>
  BY <1>3, <1>4, DebtListIs
<1>6. a \in Seq(Debt) /\ Len(a) = n /\ \A i \in 1 .. n : a[i] = <<s[i], ht[s[i]]>>
  BY <1>1, <1>3, DebtListIs
<1>7. a # <<>>
  BY <1>1, <1>6
<1>8. b \in Seq(Debt) /\ Len(b) = n - 1 /\ \A i \in 1 .. n - 1 : b[i] = a[i]
  BY <1>3, <1>6, <1>7, FrontList
<1>9. ASSUME NEW i \in 1 .. n - 1 PROVE e[i] = b[i]
  <2>1. i \in 1 .. n /\ i \in 1 .. Len(s) - 1
    BY <1>1
  <2>2. e[i] = <<s[i], ht2[s[i]]>>
    BY <1>4, <1>5
  <2>3. ht2[s[i]] = ht[s[i]]
    BY <2>1
  <2>. QED  BY <1>6, <1>8, <2>1, <2>2, <2>3
<1>10. e = b
  BY <1>5, <1>8, <1>9, SeqEqual
<1>. QED  BY <1>2, <1>3, <1>10 DEF Front

(* What is owed, with one more owed by s, or with its last handed over: those *)
(* who are still owed a value remember the same offer.                        *)
Recalled(ow, ht, ht2) == \A y \in Proc : \A x : In(x, ow[y]) => ht2[x] = ht[x]
Grows(D, D2, s, d) == D2 = [D EXCEPT ![s] = Append(D[s], d)]
Shrinks(D, D2, s) == D2 = [D EXCEPT ![s] = SubSeq(D[s], 1, Len(D[s]) - 1)]

LEMMA DebtsGrow ==
  ASSUME NEW ow \in [Proc -> Seq(Proc)], NEW ht \in Tags, NEW ht2 \in Tags,
         NEW s \in Proc, NEW t \in Proc, Recalled(ow, ht, ht2),
         NEW ow2, Grows(ow, ow2, s, t)
  PROVE  Grows(DebtsOf(ow, ht), DebtsOf(ow2, ht2), s, <<t, ht2[t]>>)
<1>1. ow2 = [ow EXCEPT ![s] = Append(ow[s], t)]
  BY DEF Grows
<1>2. ASSUME NEW y \in Proc PROVE \A i \in 1 .. Len(ow[y]) : ht2[ow[y][i]] = ht[ow[y][i]]
  BY DEF Recalled, In, PlacesOf
<1>3. DebtList(Append(ow[s], t), ht2) = Append(DebtList(ow[s], ht), <<t, ht2[t]>>)
  <2>1. PICK w \in Seq(Proc) : w = ow[s]
    OBVIOUS
  <2>2. \A i \in 1 .. Len(w) : ht2[w[i]] = ht[w[i]]
    BY <1>2, <2>1
  <2>3. DebtList(Append(w, t), ht2) = Append(DebtList(w, ht), <<t, ht2[t]>>)
    BY <2>2, DebtMore
  <2>. QED  BY <2>1, <2>3
<1>4. ASSUME NEW y \in Proc PROVE DebtList(ow[y], ht2) = DebtList(ow[y], ht)
  BY <1>2 DEF DebtList
<1>5. \A y \in Proc : ow2[y] = IF y = s THEN Append(ow[s], t) ELSE ow[y]
  BY <1>1
<1>6. /\ DebtsOf(ow2, ht2) = [y \in Proc |-> DebtList(ow2[y], ht2)]
      /\ DebtsOf(ow, ht) = [y \in Proc |-> DebtList(ow[y], ht)]
  BY DEF DebtsOf, DebtList
<1>7. PICK D, D2, d : /\ D = DebtsOf(ow, ht) /\ D2 = DebtsOf(ow2, ht2)
                       /\ d = Append(DebtList(ow[s], ht), <<t, ht2[t]>>)
  OBVIOUS
<1>8. D2 = [y \in Proc |-> IF y = s THEN d ELSE D[y]]
  <2>1. ASSUME NEW y \in Proc PROVE DebtList(ow2[y], ht2) = IF y = s THEN d ELSE D[y]
    <3>1. D[y] = DebtList(ow[y], ht)
      BY <1>6, <1>7
    <3>2. CASE y = s
      BY <1>3, <1>5, <1>7, <3>2
    <3>3. CASE y # s
      BY <1>4, <1>5, <3>1, <3>3
    <3>. QED  BY <3>2, <3>3
  <2>2. D2 = [y \in Proc |-> DebtList(ow2[y], ht2)]
    BY <1>6, <1>7
  <2>. QED  BY <2>1, <2>2, Zenon
<1>9. D = [y \in Proc |-> D[y]] /\ D[s] = DebtList(ow[s], ht)
  BY <1>6, <1>7
<1>10. D2 = [D EXCEPT ![s] = d]
  BY <1>8, <1>9
<1>. QED  BY <1>7, <1>9, <1>10 DEF Grows

LEMMA DebtsShrink ==
  ASSUME NEW ow \in [Proc -> Seq(Proc)], NEW ht \in Tags, NEW ht2 \in Tags,
         NEW s \in Proc, ow[s] # <<>>, NEW ow2, Shrinks(ow, ow2, s), Recalled(ow2, ht, ht2)
  PROVE  Shrinks(DebtsOf(ow, ht), DebtsOf(ow2, ht2), s)
<1>1. ow2 = [ow EXCEPT ![s] = Front(ow[s])] /\ Recalled(ow2, ht, ht2)
  BY DEF Shrinks, Front
<1>2. PICK w \in Seq(Proc) : w = ow[s] /\ w # <<>>
  OBVIOUS
<1>3. ASSUME NEW i \in 1 .. Len(w) - 1 PROVE ht2[w[i]] = ht[w[i]]
  <2>1. PICK r : r = ow2[s]
    OBVIOUS
  <2>2. r = Front(w)
    BY <1>1, <1>2, <2>1
  <2>3. Len(r) = Len(w) - 1 /\ r[i] = w[i]
    BY <1>2, <2>2, FrontList
  <2>4. In(w[i], r)
    BY <2>3 DEF In, PlacesOf
  <2>. QED  BY <1>1, <2>1, <2>4 DEF Recalled
<1>4. DebtList(Front(ow[s]), ht2) = SubSeq(DebtList(ow[s], ht), 1, Len(DebtList(ow[s], ht)) - 1)
  <2>1. DebtList(Front(w), ht2) = SubSeq(DebtList(w, ht), 1, Len(DebtList(w, ht)) - 1)
    BY <1>2, <1>3, DebtLess
  <2>. QED  BY <1>2, <2>1
<1>5. ASSUME NEW y \in Proc, y # s PROVE DebtList(ow[y], ht2) = DebtList(ow[y], ht)
  <2>1. \A i \in 1 .. Len(ow[y]) : In(ow[y][i], ow[y])
    BY DEF In, PlacesOf
  <2>2. ow2[y] = ow[y]
    BY <1>1, <1>5
  <2>3. \A i \in 1 .. Len(ow[y]) : ht2[ow[y][i]] = ht[ow[y][i]]
    BY <1>1, <2>1, <2>2 DEF Recalled
  <2>. QED  BY <2>3 DEF DebtList
<1>6. \A y \in Proc : ow2[y] = IF y = s THEN Front(ow[s]) ELSE ow[y]
  BY <1>1
<1>7. /\ DebtsOf(ow2, ht2) = [y \in Proc |-> DebtList(ow2[y], ht2)]
      /\ DebtsOf(ow, ht) = [y \in Proc |-> DebtList(ow[y], ht)]
  BY DEF DebtsOf, DebtList
<1>8. PICK D, D2, d : /\ D = DebtsOf(ow, ht) /\ D2 = DebtsOf(ow2, ht2)
                       /\ d = SubSeq(DebtList(ow[s], ht), 1, Len(DebtList(ow[s], ht)) - 1)
  OBVIOUS
<1>9. D2 = [y \in Proc |-> IF y = s THEN d ELSE D[y]]
  <2>1. ASSUME NEW y \in Proc PROVE DebtList(ow2[y], ht2) = IF y = s THEN d ELSE D[y]
    <3>1. D[y] = DebtList(ow[y], ht)
      BY <1>7, <1>8
    <3>2. CASE y = s
      BY <1>4, <1>6, <1>8, <3>2
    <3>3. CASE y # s
      BY <1>5, <1>6, <3>1, <3>3
    <3>. QED  BY <3>2, <3>3
  <2>2. D2 = [y \in Proc |-> DebtList(ow2[y], ht2)]
    BY <1>7, <1>8
  <2>. QED  BY <2>1, <2>2, Zenon
<1>10. D = [y \in Proc |-> D[y]] /\ D[s] = DebtList(ow[s], ht)
  BY <1>7, <1>8
<1>11. D2 = [D EXCEPT ![s] = d]
  BY <1>9, <1>10
<1>. QED  BY <1>8, <1>10, <1>11 DEF Shrinks

-----------------------------------------------------------------------------
(* EACH STEP IS ONE OF THE PROMISE, OR NONE *)

(* A process that finds nobody waits in line there, with all of its list.     *)
LEMMA PostSelects ==
  ASSUME IInv, Telling, IInv', NEW p \in Proc, NEW l \in Lists, Post(p, l)
  PROVE  \E S \in (SUBSET Sync!Offer) \ {{}} : Sync!Select(p, S)
<1>1. /\ Running(p) /\ \A i \in 1 .. Len(l) : Other(l[i]) = <<>>
      /\ offers' = [offers EXCEPT ![p] = l] /\ line' = Append(line, p)
      /\ got' = [got EXCEPT ![p] = None] /\ UNCHANGED <<hit, owes>>
  BY DEF Post
<1>2. PICK S : S = {l[i] : i \in 1 .. Len(l)}
  OBVIOUS
<1>3. l \in Seq(Chan \X BOOLEAN) /\ l # <<>> /\ \A i \in 1 .. Len(l) : l[i] \in Chan \X BOOLEAN
  BY SquintAssumption
<1>4. S \in (SUBSET Sync!Offer) \ {{}}
  <2>1. 1 \in 1 .. Len(l)
    BY <1>3, EmptySeq
  <2>. QED  BY <1>2, <1>3, <2>1 DEF Sync!Offer
<1>5. ~InLine(p) /\ ~InDebt(p)
  BY <1>1, RunnerIs
<1>6. ~Sync!Waits(p)
  BY <1>5, WaitsIs
<1>7. \A o \in S : Sync!Partner(o) = 0
  BY <1>1, <1>2, <1>3, PartnerFound
<1>8. waiters' = Append(waiters, [p |-> p, offers |-> S])
  <2>1. offers \in Listings /\ offers' \in Listings /\ line \in Seq(Proc)
    BY OffersAre DEF IInv, TypeOK
  <2>2. ~In(p, line) /\ \A y \in Proc : y # p => offers'[y] = offers[y]
    BY <1>1, <1>5, <2>1 DEF InLine, Listings
  <2>3. offers'[p] = l
    BY <1>1, <2>1 DEF Listings
  <2>4. OffersOf(offers', p) = S
    BY <1>2, <2>3 DEF OffersOf
  <2>5. PICK of, of2, ln : of = offers /\ of2 = offers' /\ ln = line
    OBVIOUS
  <2>6. WaitersOf(Append(ln, p), of2) = Append(WaitersOf(ln, of), [p |-> p, offers |-> OffersOf(of2, p)])
    BY <2>1, <2>2, <2>5, LineJoined
  <2>. QED  BY <1>1, <2>4, <2>5, <2>6, Names
<1>9. debts' = debts
  BY <1>1, Names
<1>10. Sync!Select(p, S)
  BY <1>1, <1>6, <1>7, <1>8, <1>9 DEF Sync!Select
<1>. QED  BY <1>4, <1>10

(* A process that finds somebody meets the one who has waited longest.        *)
LEMMA CommunicateSelects ==
  ASSUME IInv, Telling, IInv', NEW p \in Proc, NEW l \in Lists, NEW i \in 1 .. Len(l),
         Communicate(p, l, i)
  PROVE  \E S \in (SUBSET Sync!Offer) \ {{}} : Sync!Select(p, S)
<1>1. PICK o, q : o = l[i] /\ q = First(Other(o))
  OBVIOUS
<1>2. l \in Seq(Chan \X BOOLEAN) /\ \A j \in 1 .. Len(l) : l[j] \in Chan \X BOOLEAN
  BY SquintAssumption
<1>3. o \in Chan \X BOOLEAN
  BY <1>1, <1>2
<1>4. /\ Running(p) /\ Other(o) # <<>>
      /\ \E j \in Cases(offers[q], <<o[1], ~o[2]>>) :
            hit' = [hit EXCEPT ![p] = IF o[2] THEN None ELSE o,
                               ![q] = IF o[2] THEN offers[q][j] ELSE None]
      /\ offers' = [offers EXCEPT ![q] = <<>>]
      /\ o[2] => owes' = [owes EXCEPT ![p] = Append(owes[p], q)]
      /\ ~o[2] => owes' = [owes EXCEPT ![q] = Append(owes[q], p)]
      /\ line' = Without(line, q) /\ got' = [got EXCEPT ![p] = None]
  BY <1>1 DEF Communicate
<1>5. PICK S : S = {l[j] : j \in 1 .. Len(l)}
  OBVIOUS
<1>6. o \in S /\ S \in (SUBSET Sync!Offer) \ {{}}
  <2>1. o \in S
    BY <1>1, <1>5
  <2>2. S \subseteq Sync!Offer
    BY <1>2, <1>5 DEF Sync!Offer
  <2>. QED  BY <2>1, <2>2
<1>7. ~InLine(p) /\ ~InDebt(p)
  BY <1>4, RunnerIs
<1>8. ~Sync!Waits(p)
  BY <1>7, WaitsIs
<1>9. PICK k : k = Sync!Partner(o)
  OBVIOUS
<1>10. k \in 1 .. Len(line) /\ line[k] = q /\ k # 0
  BY <1>1, <1>3, <1>4, <1>9, PartnerFound
<1>11. waiters[k].p = q
  BY <1>10, Mapped
<1>12. q \in Proc /\ InLine(q) /\ ~InDebt(q) /\ p # q
  BY <1>1, <1>3, <1>4, <1>7, PartnerIs DEF IInv, Apart
<1>13. waiters' = Sync!Without(waiters, k)
  <2>1. PICK of, of2, ln : of = offers /\ of2 = offers' /\ ln = line
    OBVIOUS
  <2>2. of \in Listings /\ of2 \in Listings /\ ln \in Seq(Proc) /\ Once(ln)
    BY <2>1, OffersAre DEF IInv, TypeOK, Distinct
  <2>3. k \in 1 .. Len(ln) /\ ln[k] = q
    BY <1>10, <2>1
  <2>4. \A y \in Proc : y # ln[k] => of2[y] = of[y]
    BY <1>4, <2>1, <2>2, <2>3 DEF Listings
  <2>5. WaitersOf(Without(ln, ln[k]), of2) = Sync!Without(WaitersOf(ln, of), k)
    BY <2>2, <2>3, <2>4, LineLeft
  <2>. QED  BY <1>4, <2>1, <2>3, <2>5, Names
<1>14. PICK s, t, half : /\ s = (IF o[2] THEN p ELSE q) /\ t = (IF o[2] THEN q ELSE p)
                         /\ half = <<o[1], FALSE>>
  OBVIOUS
<1>15. s \in Proc /\ t \in Proc /\ ~InDebt(s) /\ ~InDebt(t)
  BY <1>7, <1>12, <1>14
<1>16. owes' = [owes EXCEPT ![s] = Append(owes[s], t)]
  BY <1>3, <1>4, <1>14
<1>17. hit'[t] = half /\ \A y \in Proc : y # s /\ y # t => hit'[y] = hit[y]
  <2>1. PICK j \in Cases(offers[q], <<o[1], ~o[2]>>) :
           hit' = [hit EXCEPT ![p] = IF o[2] THEN None ELSE o,
                              ![q] = IF o[2] THEN offers[q][j] ELSE None]
    BY <1>4
  <2>2. offers[q][j] = <<o[1], ~o[2]>>
    BY <2>1 DEF Cases, PlacesOf
  <2>3. hit \in [Proc -> (Chan \X {FALSE}) \cup {None}]
    BY DEF IInv, TypeOK
  <2>4. \A y \in Proc : y # s /\ y # t => hit'[y] = hit[y]
    BY <1>14, <2>1, <2>3
  <2>5. CASE o[2]
    <3>1. t = q /\ (~o[2]) = FALSE
      BY <1>14, <2>5
    <3>2. offers[q][j] = half
      BY <1>14, <2>2, <3>1, Zenon
    <3>3. hit' = [hit EXCEPT ![p] = None, ![q] = offers[q][j]]
      BY <2>1, <2>5
    <3>. QED  BY <1>12, <2>3, <2>4, <3>1, <3>2, <3>3
  <2>6. CASE ~o[2]
    <3>1. t = p
      BY <1>14, <2>6
    <3>2. o = half
      <4>1. PICK c \in Chan, h \in BOOLEAN : o = <<c, h>>
        BY <1>3
      <4>2. h = FALSE /\ o[1] = c
        BY <2>6, <4>1
      <4>. QED  BY <1>14, <4>1, <4>2
    <3>3. hit' = [hit EXCEPT ![p] = o, ![q] = None]
      BY <2>1, <2>6
    <3>. QED  BY <1>12, <2>3, <2>4, <3>1, <3>2, <3>3
  <2>. QED  BY <2>5, <2>6
<1>18. debts' = [debts EXCEPT ![s] = Append(debts[s], <<t, half>>)]
  <2>1. PICK ow, ht, ht2 : ow = owes /\ ht = hit /\ ht2 = hit'
    OBVIOUS
  <2>2. ow \in [Proc -> Seq(Proc)] /\ ht \in Tags /\ ht2 \in Tags
    BY <2>1 DEF IInv, TypeOK, Tags
  <2>3. Recalled(ow, ht, ht2)
    <3>1. SUFFICES ASSUME NEW y \in Proc, NEW x, In(x, ow[y]) PROVE ht2[x] = ht[x]
      BY DEF Recalled
    <3>2. x \in Proc
      BY <2>2, <3>1 DEF In, PlacesOf
    <3>3. InDebt(x)
      BY <2>1, <3>1 DEF InDebt
    <3>. QED  BY <1>15, <1>17, <2>1, <3>2, <3>3
  <2>4. Grows(ow, owes', s, t)
    BY <1>16, <2>1 DEF Grows
  <2>5. Grows(DebtsOf(ow, ht), DebtsOf(owes', ht2), s, <<t, ht2[t]>>)
    BY <1>15, <2>2, <2>3, <2>4, DebtsGrow
  <2>. QED  BY <1>17, <2>1, <2>5, Names DEF Grows
<1>19. debts' = IF o[2] THEN [debts EXCEPT ![p] = Append(debts[p], <<q, half>>)]
                ELSE [debts EXCEPT ![q] = Append(debts[q], <<p, half>>)]
  BY <1>14, <1>18
<1>20. Sync!Select(p, S)
  <2>1. \E z \in S :
           LET x == waiters[Sync!Partner(z)].p
               h == <<z[1], FALSE>>
           IN  /\ Sync!Partner(z) # 0
               /\ waiters' = Sync!Without(waiters, Sync!Partner(z))
               /\ debts' = IF z[2] THEN [debts EXCEPT ![p] = Append(@, <<x, h>>)]
                           ELSE [debts EXCEPT ![x] = Append(@, <<p, h>>)]
    BY <1>6, <1>9, <1>10, <1>11, <1>13, <1>14, <1>19, Zenon
  <2>2. ~\A z \in S : Sync!Partner(z) = 0
    BY <1>6, <1>9, <1>10
  <2>. QED  BY <1>4, <1>8, <2>1, <2>2, Zenon DEF Sync!Select
<1>. QED  BY <1>6, <1>20

(* The value goes to the one owed it innermost, for the offer it made.        *)
LEMMA SndSends ==
  ASSUME IInv, IInv', NEW p \in Proc, Snd(p)
  PROVE  Sync!Send(p)
<1>1. PICK t : t = Last(owes[p])
  OBVIOUS
<1>2. /\ Running(p) /\ owes[p] # <<>>
      /\ got' = [got EXCEPT ![t] = <<p, hit[t]>>] /\ hit' = [hit EXCEPT ![t] = None]
      /\ owes' = [owes EXCEPT ![p] = Front(owes[p])] /\ offers' = offers /\ line' = line
  BY <1>1 DEF Snd
<1>3. ~Sync!Waits(p)
  <2>1. ~InLine(p) /\ ~InDebt(p)
    BY <1>2, RunnerIs
  <2>. QED  BY <2>1, WaitsIs
<1>4. owes[p] \in Seq(Proc) /\ Once(owes[p])
  BY DEF IInv, TypeOK, Distinct
<1>5. t \in Proc /\ In(t, owes[p])
  BY <1>1, <1>2, <1>4, FrontPlaces
<1>6. waiters' = waiters
  BY <1>2, Names
<1>7. debts[p] # <<>> /\ debts[p][Len(debts[p])] = <<t, hit[t]>>
  <2>1. PICK n \in Nat : n = Len(owes[p]) /\ n >= 1
    BY <1>2, <1>4, FrontList
  <2>2. Len(debts[p]) = n /\ debts[p] \in Seq(Debt)
    BY <2>1, Mapped
  <2>3. t = owes[p][n]
    BY <1>1, <2>1 DEF Last
  <2>4. debts[p][n] = <<owes[p][n], hit[owes[p][n]]>>
    <3>1. n \in 1 .. Len(owes[p])
      BY <2>1
    <3>. QED  BY <3>1, Mapped
  <2>. QED  BY <2>1, <2>2, <2>3, <2>4
<1>8. debts' = [debts EXCEPT ![p] = SubSeq(debts[p], 1, Len(debts[p]) - 1)]
  <2>1. PICK ow, ht, ht2 : ow = owes /\ ht = hit /\ ht2 = hit'
    OBVIOUS
  <2>2. ow \in [Proc -> Seq(Proc)] /\ ht \in Tags /\ ht2 \in Tags
    BY <2>1 DEF IInv, TypeOK, Tags
  <2>3. ow[p] # <<>> /\ Shrinks(ow, owes', p)
    BY <1>2, <2>1 DEF Shrinks, Front
  <2>4. ASSUME NEW y \in Proc PROVE ~In(t, owes'[y])
    <3>1. CASE y = p
      <4>1. owes'[y] = Front(owes[p])
        BY <1>2, <3>1 DEF IInv, TypeOK
      <4>. QED  BY <1>1, <1>2, <1>4, <4>1, FrontPlaces
    <3>2. CASE y # p
      <4>1. owes'[y] = owes[y]
        BY <1>2, <3>2 DEF IInv, TypeOK
      <4>. QED  BY <1>5, <3>2, <4>1 DEF IInv, Distinct
    <3>. QED  BY <3>1, <3>2
  <2>5. Recalled(owes', ht, ht2)
    <3>1. SUFFICES ASSUME NEW y \in Proc, NEW x, In(x, owes'[y]) PROVE ht2[x] = ht[x]
      BY DEF Recalled
    <3>2. owes'[y] \in Seq(Proc)
      BY DEF IInv, TypeOK
    <3>3. x \in Proc
      BY <3>1, <3>2 DEF In, PlacesOf
    <3>4. x # t
      BY <2>4, <3>1
    <3>. QED  BY <1>2, <2>1, <2>2, <3>3, <3>4 DEF Tags
  <2>6. Shrinks(DebtsOf(ow, ht), DebtsOf(owes', ht2), p)
    BY <2>2, <2>3, <2>5, DebtsShrink
  <2>. QED  BY <2>1, <2>6, Names DEF Shrinks
<1>9. PICK d : d = debts[p][Len(debts[p])]
  OBVIOUS
<1>10. d[1] = t /\ d[2] = hit[t]
  BY <1>7, <1>9
<1>. QED  BY <1>2, <1>3, <1>6, <1>7, <1>8, <1>9, <1>10 DEF Sync!Send

(* A process that halts may be done with its value; nothing else is seen.     *)
SyncStep == Sync!Next \/ UNCHANGED Sync!vars

LEMMA RestUnseen ==
  ASSUME UNCHANGED <<line, offers, owes, hit, got>>
  PROVE  SyncStep
<1>1. waiters' = waiters /\ debts' = debts
  BY Names
<1>. QED  BY <1>1 DEF SyncStep, Sync!vars

LEMMA HaltUses == ASSUME NEW p \in Proc, Halt(p) PROVE Sync!Use(p)
<1>1. waiters' = waiters /\ debts' = debts
  BY Names DEF Halt
<1>. QED  BY <1>1 DEF Halt, Sync!Use

(* Communication in pairs, over queues, is communication as select promises   *)
(* it: every step that is seen is the choice of a partner, of those that      *)
(* offer the same the one that waits longest, or the handing over of a value. *)
THEOREM Implements == ASSUME Given PROVE Spec => ImplementsSync
<1>1. Init => Sync!Init
  <2>1. SUFFICES ASSUME Init PROVE Sync!Init
    OBVIOUS
  <2>2. line = <<>> /\ owes = [p \in Proc |-> <<>>] /\ got = [p \in Proc |-> None]
    BY <2>1 DEF Init
  <2>3. waiters = <<>>
    BY <2>2 DEF waiters
  <2>4. debts = [p \in Proc |-> <<>>]
    BY <2>2 DEF debts
  <2>. QED  BY <2>2, <2>3, <2>4 DEF Sync!Init
<1>2. IInv /\ IInv' /\ Telling /\ [Next]_vars => [Sync!Next]_(Sync!vars)
  <2>1. SUFFICES ASSUME IInv, IInv', Telling, [Next]_vars PROVE SyncStep
    BY DEF SyncStep
  <2>2. ASSUME NEW p \in Proc, NEW l \in Lists, Post(p, l) PROVE SyncStep
    <3>1. \E S \in (SUBSET Sync!Offer) \ {{}} : Sync!Select(p, S)
      BY <2>1, <2>2, PostSelects
    <3>. QED  BY <3>1 DEF SyncStep, Sync!Next
  <2>3. ASSUME NEW p \in Proc, NEW l \in Lists, NEW i \in 1 .. Len(l), Communicate(p, l, i)
        PROVE  SyncStep
    <3>1. \E S \in (SUBSET Sync!Offer) \ {{}} : Sync!Select(p, S)
      BY <2>1, <2>3, CommunicateSelects
    <3>. QED  BY <3>1 DEF SyncStep, Sync!Next
  <2>4. ASSUME NEW p \in Proc, Snd(p) PROVE SyncStep
    BY <2>1, <2>4, SndSends DEF SyncStep, Sync!Next
  <2>5. ASSUME NEW p \in Proc, Halt(p) PROVE SyncStep
    BY <2>5, HaltUses DEF SyncStep, Sync!Next
  <2>6. ASSUME NEW p \in Proc, Begin(p) PROVE SyncStep
    BY <2>6, RestUnseen DEF Begin
  <2>7. CASE PutOff \/ Done \/ UNCHANGED vars
    BY <2>7, RestUnseen DEF PutOff, Done, vars
  <2>8. CASE Statement
    <3>1. offers' = offers /\ owes' = owes
      BY <2>1, <2>8, StatementIs DEF Given
    <3>. QED  BY <2>8, <3>1, RestUnseen DEF Statement
  <2>. QED  BY <2>1, <2>2, <2>3, <2>4, <2>5, <2>6, <2>7, <2>8 DEF Next
<1>. QED  BY <1>1, <1>2, Invariance, TellingHolds, PTL DEF Spec, ImplementsSync, Sync!Spec
=============================================================================

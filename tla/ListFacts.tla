------------------------------ MODULE ListFacts ------------------------------
(* Facts about lists and counts that the proofs of several modules need: what *)
(* the C code does to its linked lists (append at the tail, take the head)    *)
(* and to its counters (one more, one less), as sequences and cardinalities.  *)
EXTENDS Integers, Sequences, FiniteSets, SequenceTheorems, FiniteSetTheorems,
        WellFoundedInduction, TLAPS

(* What appending an element, and taking the head off, does to a list.        *)
LEMMA AppendList ==
  ASSUME NEW S, NEW q \in Seq(S), NEW n \in S
  PROVE  /\ Append(q, n) \in Seq(S)
         /\ Len(Append(q, n)) = Len(q) + 1
         /\ Len(q) \in Nat
         /\ \A i \in 1..Len(q) : Append(q, n)[i] = q[i]
         /\ Append(q, n)[Len(q) + 1] = n
OBVIOUS

(* The tail of a list.                                                        *)
LEMMA TailList ==
  ASSUME NEW S, NEW q \in Seq(S), q # <<>>
  PROVE  /\ Tail(q) \in Seq(S)
         /\ Len(q) \in Nat /\ Len(q) >= 1
         /\ Len(Tail(q)) = Len(q) - 1
         /\ Head(q) = q[1] /\ Head(q) \in S
         /\ \A i \in 1..Len(Tail(q)) : Tail(q)[i] = q[i + 1]
<1>1. Len(q) \in Nat /\ Len(q) >= 1
  BY EmptySeq
<1>2. Head(q) = q[1]
  OBVIOUS
<1>. QED
  BY <1>1, <1>2, HeadTailProperties

(* An element in front of a list.                                             *)
LEMMA ConsList ==
  ASSUME NEW S, NEW x \in S, NEW q \in Seq(S)
  PROVE  /\ <<x>> \o q \in Seq(S) /\ Len(q) \in Nat
         /\ Len(<<x>> \o q) = Len(q) + 1
         /\ (<<x>> \o q)[1] = x
         /\ \A i \in 1..Len(q) : (<<x>> \o q)[i + 1] = q[i]
<1>1. <<x>> \in Seq(S) /\ Len(<<x>>) = 1 /\ <<x>>[1] = x /\ Len(q) \in Nat
  OBVIOUS
<1>2. /\ <<x>> \o q \in Seq(S)
      /\ Len(<<x>> \o q) = 1 + Len(q)
      /\ \A i \in 1..(1 + Len(q)) : (<<x>> \o q)[i] = IF i <= 1 THEN <<x>>[i] ELSE q[i - 1]
  BY <1>1, ConcatProperties
<1>3. (<<x>> \o q)[1] = x
  BY <1>1, <1>2
<1>4. ASSUME NEW i \in 1..Len(q) PROVE (<<x>> \o q)[i + 1] = q[i]
  <2>1. i + 1 \in 1..(1 + Len(q)) /\ ~(i + 1 <= 1) /\ (i + 1) - 1 = i
    BY <1>1
  <2>. QED
    BY <2>1, <1>2
<1>. QED
  BY <1>1, <1>2, <1>3, <1>4

(* A counter that follows the size of a set: one member more, one less.       *)
LEMMA OneMore ==
  ASSUME NEW T, IsFiniteSet(T), NEW A, A \subseteq T, NEW x \in T, x \notin A
  PROVE  Cardinality(A) \in Nat /\ Cardinality(A \cup {x}) = Cardinality(A) + 1
<1>. IsFiniteSet(A)
  BY FS_Subset
<1>. QED
  BY FS_CardinalityType, FS_AddElement

(* A finite set without one of its members.                                   *)
LEMMA OneLess ==
  ASSUME NEW T, IsFiniteSet(T), NEW A, A \subseteq T, NEW x \in A
  PROVE  /\ Cardinality(A) \in Nat /\ Cardinality(A) >= 1
         /\ Cardinality(A \ {x}) = Cardinality(A) - 1
         /\ Cardinality(A) = 1 => A = {x}
<1>1. IsFiniteSet(A)
  BY FS_Subset
<1>2. Cardinality(A) \in Nat /\ Cardinality(A) # 0
  BY <1>1, FS_CardinalityType, FS_EmptySet
<1>3. Cardinality(A \ {x}) = Cardinality(A) - 1
  BY <1>1, FS_RemoveElement
<1>4. Cardinality(A) = 1 => A = {x}
  BY <1>1, FS_Singleton
<1>. QED
  BY <1>2, <1>3, <1>4
-----------------------------------------------------------------------------
(* INDUCTION OVER A SET, AND FOLDS *)

(* Induction, stated about a set instead of a predicate: the well-foundedness *)
(* of the numbers gives the least one outside of it.                          *)
LEMMA NatSetInduction ==
  ASSUME NEW S, 0 \in S, \A n \in Nat : n \in S => n + 1 \in S
  PROVE  Nat \subseteq S
<1>. DEFINE R == {p \in Nat \X Nat : p[1] < p[2]}
            T == Nat \ S
<1>1. IsWellFoundedOn(R, Nat)
  BY NatLessThanWellFounded DEF OpToRel
<1>2. SUFFICES ASSUME T # {} PROVE FALSE
  OBVIOUS
<1>3. PICK x \in T : \A y \in T : <<y, x>> \notin R
  <2>. HIDE DEF R, T
  <2>1. T \subseteq Nat  BY DEF T
  <2>. QED  BY <1>1, <1>2, <2>1, WFMin
<1>4. x # 0 /\ x - 1 \in Nat
  OBVIOUS
<1>5. x - 1 \in T
  BY <1>4
<1>6. <<x - 1, x>> \in R
  BY <1>4
<1>. QED  BY <1>3, <1>5, <1>6

(* The same up to a bound.                                                    *)
LEMMA UptoInduction ==
  ASSUME NEW n \in Nat, NEW S, 0 \in S, \A k \in 1 .. n : k - 1 \in S => k \in S
  PROVE  \A k \in 0 .. n : k \in S
<1>. DEFINE T == {k \in Nat : k <= n => k \in S}
<1>1. 0 \in T
  OBVIOUS
<1>2. \A k \in Nat : k \in T => k + 1 \in T
  OBVIOUS
<1>3. Nat \subseteq T
  <2>. HIDE DEF T
  <2>. QED  BY <1>1, <1>2, NatSetInduction
<1>. QED  BY <1>3

(* A set of numbers up to n has a greatest one.                               *)
LEMMA GreatestExists ==
  ASSUME NEW n \in Nat, NEW s, s \subseteq 1 .. n, s # {}
  PROVE  \E x \in s : \A y \in s : x >= y
<1>. DEFINE T == {k \in 0 .. n : \A t \in SUBSET (1 .. k) : t # {} => \E x \in t : \A y \in t : x >= y}
<1>1. 0 \in T
  <2>1. 0 \in 0 .. n
    OBVIOUS
  <2>2. \A t \in SUBSET (1 .. 0) : t = {}
    OBVIOUS
  <2>. QED  BY ONLY <2>1, <2>2, Zenon
<1>2. ASSUME NEW k \in 1 .. n, k - 1 \in T PROVE k \in T
  <2>1. SUFFICES ASSUME NEW t \in SUBSET (1 .. k), t # {}
                 PROVE  \E x \in t : \A y \in t : x >= y
    OBVIOUS
  <2>2. CASE k \in t
    BY <2>2
  <2>3. CASE k \notin t
    <3>1. t \in SUBSET (1 .. (k - 1))
      BY <2>3
    <3>. QED  BY <3>1, <2>1, <1>2
  <2>. QED  BY <2>2, <2>3
<1>3. \A k \in 0 .. n : k \in T
  <2>. HIDE DEF T
  <2>. QED  BY <1>1, <1>2, UptoInduction
<1>. QED  BY <1>3

(* The function that a fold over 1 .. n is defined by exists, when a step     *)
(* from a member of U leads to one; Top is what Max is in the folds.          *)
Top(s) == CHOOSE x \in s : \A y \in s : x >= y

IsFold(f, n, U, b, st) ==
    /\ f \in [SUBSET (1 .. n) -> U]
    /\ \A s \in SUBSET (1 .. n) :
          f[s] = IF s = {} THEN b ELSE st[<<f[s \ {Top(s)}], Top(s)>>]

(* Such a fold exists, whatever the step.                                     *)
LEMMA FoldExists ==
  ASSUME NEW n \in Nat, NEW U, NEW b \in U, NEW st \in [U \X (1 .. n) -> U]
  PROVE  \E f : IsFold(f, n, U, b, st)
<1>. DEFINE D == SUBSET (1 .. n)
            Eq(f, s) == f[s] = IF s = {} THEN b ELSE st[<<f[s \ {Top(s)}], Top(s)>>]
            T == {k \in Nat : \E f \in [D -> U] : \A s \in D : Cardinality(s) <= k => Eq(f, s)}
<1>1. \A s \in D : IsFiniteSet(s) /\ Cardinality(s) \in Nat /\ Cardinality(s) <= n
  <2>1. IsFiniteSet(1 .. n) /\ Cardinality(1 .. n) = n
    BY FS_Interval
  <2>2. SUFFICES ASSUME NEW s \in D
                 PROVE  IsFiniteSet(s) /\ Cardinality(s) \in Nat /\ Cardinality(s) <= n
    OBVIOUS
  <2>3. IsFiniteSet(s) /\ Cardinality(s) <= Cardinality(1 .. n)
    <3>. HIDE DEF T
    <3>. QED  BY <2>1, FS_Subset
  <2>. QED  BY <2>1, <2>3, FS_CardinalityType
<1>2. 0 \in T
  <2>1. \A s \in D : Cardinality(s) <= 0 => s = {}
    BY <1>1, FS_EmptySet
  <2>2. [s \in D |-> b] \in [D -> U]
    OBVIOUS
  <2>. QED  BY <2>1, <2>2
<1>3. ASSUME NEW k \in Nat, k \in T PROVE k + 1 \in T
  <2>1. PICK f \in [D -> U] : \A s \in D : Cardinality(s) <= k => Eq(f, s)
    BY <1>3
  <2>. DEFINE g == [s \in D |-> IF s = {} THEN b ELSE st[<<f[s \ {Top(s)}], Top(s)>>]]
  <2>2. g \in [D -> U]
    <3>1. ASSUME NEW s \in D, s # {} PROVE f[s \ {Top(s)}] \in U /\ Top(s) \in 1 .. n
      <4>1. Top(s) \in s
        BY <3>1, GreatestExists DEF Top
      <4>. QED  BY <4>1
    <3>. QED  BY <3>1
  <2>3. ASSUME NEW s \in D, Cardinality(s) <= k + 1 PROVE Eq(g, s)
    <3>1. CASE s = {}
      BY <3>1
    <3>2. CASE s # {}
      <4>. DEFINE t == s \ {Top(s)}
      <4>1. Top(s) \in s /\ t \in D
        BY <3>2, GreatestExists DEF Top
      <4>2. Cardinality(t) <= k
        BY <4>1, <1>1, <2>3, FS_RemoveElement
      <4>3. g[t] = f[t]
        BY <4>1, <4>2, <2>1
      <4>4. g[s] = st[<<f[t], Top(s)>>]
        BY <3>2
      <4>. QED  BY <4>3, <4>4, <3>2
    <3>. QED  BY <3>1, <3>2
  <2>4. \E h \in [D -> U] : \A s \in D : Cardinality(s) <= k + 1 => Eq(h, s)
    <3>. HIDE DEF g, Eq
    <3>. QED  BY <2>2, <2>3
  <2>. QED
    <3>. HIDE DEF Eq, D
    <3>. QED  BY <2>4
<1>4. n \in T
  <2>. HIDE DEF T
  <2>. QED  BY <1>2, <1>3, NatSetInduction
<1>5. PICK f \in [D -> U] : \A s \in D : Cardinality(s) <= n => Eq(f, s)
  BY <1>4
<1>. QED  BY <1>5, <1>1 DEF IsFold

(* What each step of a fold keeps, from A[0] to A[n], holds of its result.    *)
LEMMA FoldKeeps ==
  ASSUME NEW n \in Nat, NEW A, NEW f, f[{}] \in A[0],
         \A k \in 1 .. n : f[1 .. (k - 1)] \in A[k - 1] => f[1 .. k] \in A[k]
  PROVE  f[1 .. n] \in A[n]
<1>. DEFINE T == {k \in 0 .. n : f[1 .. k] \in A[k]}
<1>1. 0 \in T
  <2>1. 1 .. 0 = {}
    OBVIOUS
  <2>. QED  BY <2>1
<1>2. \A k \in 1 .. n : k - 1 \in T => k \in T
  OBVIOUS
<1>3. \A k \in 0 .. n : k \in T
  <2>. HIDE DEF T
  <2>. QED  BY <1>1, <1>2, UptoInduction
<1>. QED  BY <1>3

(* A set of numbers up to n has a least one, too.                             *)
LEMMA LeastExists ==
  ASSUME NEW n \in Nat, NEW s, s \subseteq 1 .. n, s # {}
  PROVE  \E x \in s : \A y \in s : x <= y
<1>. DEFINE t == {n + 1 - x : x \in s}
<1>1. t \subseteq 1 .. n /\ t # {}
  <2>1. \A x \in s : n + 1 - x \in 1 .. n
    OBVIOUS
  <2>2. PICK x \in s : TRUE
    OBVIOUS
  <2>. QED  BY <2>1, <2>2
<1>2. PICK z \in t : \A y \in t : z >= y
  <2>. HIDE DEF t
  <2>. QED  BY <1>1, GreatestExists
<1>3. PICK x \in s : z = n + 1 - x
  OBVIOUS
<1>4. \A y \in s : n + 1 - x >= n + 1 - y
  BY <1>2, <1>3
<1>5. \A y \in s : x <= y
  BY <1>4
<1>. QED  BY <1>5

(* The same for numbers from 0.                                               *)
LEMMA LeastOfSlots ==
  ASSUME NEW n \in Nat, NEW s, s \subseteq 0 .. n - 1, s # {}
  PROVE  \E x \in s : \A y \in s : x <= y
<1>. DEFINE t == {x + 1 : x \in s}
<1>1. t \subseteq 1 .. n /\ t # {}
  <2>1. \A x \in s : x + 1 \in 1 .. n
    OBVIOUS
  <2>2. PICK x \in s : TRUE
    OBVIOUS
  <2>. QED  BY <2>1, <2>2
<1>2. PICK m \in t : \A y \in t : m <= y
  <2>. HIDE DEF t
  <2>. QED  BY <1>1, LeastExists
<1>3. PICK x \in s : m = x + 1
  OBVIOUS
<1>4. ASSUME NEW y \in s PROVE x <= y
  <2>1. m <= y + 1
    BY <1>2
  <2>. QED  BY <1>3, <2>1
<1>. QED  BY <1>4

(* A list without the element in place k.                                     *)
LEMMA RemoveList ==
  ASSUME NEW S, NEW q \in Seq(S), NEW k \in 1 .. Len(q)
  PROVE  LET r == SubSeq(q, 1, k - 1) \o SubSeq(q, k + 1, Len(q))
         IN  /\ r \in Seq(S) /\ Len(r) \in Nat /\ Len(q) \in Nat
             /\ Len(r) = Len(q) - 1
             /\ \A i \in 1 .. Len(r) : r[i] = q[IF i < k THEN i ELSE i + 1]
<1>. DEFINE a == SubSeq(q, 1, k - 1)
            b == SubSeq(q, k + 1, Len(q))
<1>1. Len(q) \in Nat /\ \A i \in 1 .. Len(q) : q[i] \in S
  OBVIOUS
<1>2. /\ a \in Seq(S) /\ Len(a) = k - 1
      /\ \A i \in 1 .. k - 1 : a[i] = q[i]
  <2>1. \A i \in 1 .. k - 1 : q[i] \in S
    BY <1>1
  <2>2. /\ a \in Seq(S) /\ Len(a) = IF 1 <= k - 1 THEN (k - 1) - 1 + 1 ELSE 0
        /\ \A i \in 1 .. (k - 1) - 1 + 1 : a[i] = q[1 + i - 1]
    BY <2>1, SubSeqProperties, k - 1 \in Int
  <2>. QED  BY <2>2
<1>3. /\ b \in Seq(S) /\ Len(b) = Len(q) - k
      /\ \A i \in 1 .. Len(q) - k : b[i] = q[k + i]
  <2>1. \A i \in k + 1 .. Len(q) : q[i] \in S
    BY <1>1
  <2>2. /\ b \in Seq(S) /\ Len(b) = IF k + 1 <= Len(q) THEN Len(q) - (k + 1) + 1 ELSE 0
        /\ \A i \in 1 .. Len(q) - (k + 1) + 1 : b[i] = q[(k + 1) + i - 1]
    BY <2>1, SubSeqProperties, k + 1 \in Int, Len(q) \in Int
  <2>. QED  BY <2>2, <1>1
<1>. HIDE DEF a, b
<1>4. /\ a \o b \in Seq(S) /\ Len(a \o b) = Len(q) - 1
      /\ \A i \in 1 .. Len(q) - 1 : (a \o b)[i] = IF i <= k - 1 THEN a[i] ELSE b[i - (k - 1)]
  BY <1>1, <1>2, <1>3, ConcatProperties
<1>5. ASSUME NEW i \in 1 .. Len(q) - 1
      PROVE  (a \o b)[i] = q[IF i < k THEN i ELSE i + 1]
  <2>1. CASE i < k
    BY <2>1, <1>4, <1>2, <1>1
  <2>2. CASE ~(i < k)
    <3>1. i - (k - 1) \in 1 .. Len(q) - k /\ k + (i - (k - 1)) = i + 1 /\ ~(i <= k - 1)
      BY <2>2, <1>1
    <3>. QED  BY <3>1, <1>4, <1>3
  <2>. QED  BY ONLY <2>1, <2>2, Zenon
<1>. DEFINE r == a \o b
<1>6. /\ r \in Seq(S) /\ Len(r) \in Nat /\ Len(q) \in Nat
      /\ Len(r) = Len(q) - 1
      /\ \A i \in 1 .. Len(r) : r[i] = q[IF i < k THEN i ELSE i + 1]
  BY <1>1, <1>4, <1>5
<1>. QED
  <2>. HIDE DEF r
  <2>. QED  BY <1>6 DEF a, b, r

(* An injection has as many values as arguments.                              *)
LEMMA ImageCount ==
  ASSUME NEW I, IsFiniteSet(I), NEW f, \A i, j \in I : f[i] = f[j] => i = j
  PROVE  Cardinality({f[i] : i \in I}) = Cardinality(I)
<1>. DEFINE T == {f[i] : i \in I}
            g == [i \in I |-> f[i]]
<1>1. g \in Surjection(I, T) /\ g \in Injection(I, T)
  BY DEF Surjection, Injection, IsInjective
<1>. QED
  <2>. HIDE DEF g, T
  <2>1. Cardinality(T) = Cardinality(I)
    BY <1>1, FS_Surjection
  <2>. QED  BY <2>1 DEF T

(* The intervals that such a fold goes through.                               *)
LEMMA FoldIntervals ==
  ASSUME NEW n \in Nat
  PROVE  /\ 1 .. 0 = {}
         /\ \A k \in 1 .. n : /\ 1 .. k \in SUBSET (1 .. n) /\ 1 .. k # {}
                              /\ (1 .. k) \ {k} = 1 .. (k - 1)
                              /\ k - 1 \in 0 .. n /\ k \in 0 .. n
                              /\ \A x \in 1 .. k : (\A y \in 1 .. k : x >= y) => x = k
<1>1. 1 .. 0 = {}
  OBVIOUS
<1>2. ASSUME NEW k \in 1 .. n
      PROVE  /\ 1 .. k \in SUBSET (1 .. n) /\ 1 .. k # {}
             /\ k - 1 \in 0 .. n /\ k \in 0 .. n
  <2>1. k \in 1 .. k
    OBVIOUS
  <2>. QED  BY <2>1
<1>3. ASSUME NEW k \in 1 .. n PROVE (1 .. k) \ {k} = 1 .. (k - 1)
  OBVIOUS
<1>4. ASSUME NEW k \in 1 .. n, NEW x \in 1 .. k, \A y \in 1 .. k : x >= y PROVE x = k
  <2>1. k \in 1 .. k
    OBVIOUS
  <2>2. x >= k
    BY <2>1, <1>4
  <2>. QED  BY <2>2
<1>. QED  BY <1>1, <1>2, <1>3, <1>4

(* The values that a fold takes on its way, where it is defined by recursion  *)
(* over the intervals from 1.                                                 *)
IsChain(w, n, U, b, st) ==
    /\ w \in [0 .. n -> U] /\ w[0] = b
    /\ \A k \in 1 .. n : w[k] = st[<<w[k - 1], k>>]
Steps(f, n, U, st) ==
    \A s \in SUBSET (1 .. n) : s # {} /\ f[s \ {Top(s)}] \in U
                                  => f[s] = st[<<f[s \ {Top(s)}], Top(s)>>]

Folded(f, n, U, b, st) ==
    n \in Nat /\ b \in U /\ st \in [U \X (1 .. n) -> U] /\ f[{}] = b /\ Steps(f, n, U, st)
Chained(f, n, U, b, st) == \E w : IsChain(w, n, U, b, st) /\ w[n] = f[1 .. n]

(* There is such a chain, and the fold is its last.                           *)
LEMMA FoldChain ==
  ASSUME NEW f, NEW n, NEW U, NEW b, NEW st, Folded(f, n, U, b, st)
  PROVE  Chained(f, n, U, b, st)
<1>. USE DEF Folded
<1>. DEFINE T == {k \in 0 .. n : f[1 .. k] \in U}
            w == [k \in 0 .. n |-> f[1 .. k]]
<1>1. /\ 1 .. 0 = {}
      /\ \A k \in 1 .. n : /\ 1 .. k \in SUBSET (1 .. n) /\ 1 .. k # {}
                           /\ (1 .. k) \ {k} = 1 .. (k - 1)
                           /\ k - 1 \in 0 .. n /\ k \in 0 .. n
                           /\ \A x \in 1 .. k : (\A y \in 1 .. k : x >= y) => x = k
  BY FoldIntervals
<1>2. ASSUME NEW k \in 1 .. n, f[1 .. (k - 1)] \in U
      PROVE  f[1 .. k] = st[<<f[1 .. (k - 1)], k>>] /\ f[1 .. k] \in U
  <2>1. Top(1 .. k) = k
    <3>1. \E x \in 1 .. k : \A y \in 1 .. k : x >= y
      BY <1>1, GreatestExists
    <3>. QED  BY <1>1, <3>1 DEF Top
  <2>2. f[1 .. k] = st[<<f[1 .. (k - 1)], k>>]
    BY <1>1, <1>2, <2>1 DEF Steps
  <2>. QED  BY <1>2, <2>2
<1>3. \A k \in 0 .. n : k \in T
  <2>1. 0 \in T
    BY <1>1
  <2>2. ASSUME NEW k \in 1 .. n, k - 1 \in T PROVE k \in T
    BY <1>1, <1>2, <2>2
  <2>. HIDE DEF T
  <2>. QED  BY <2>1, <2>2, UptoInduction
<1>4. \A k \in 0 .. n : w[k] = f[1 .. k]
  OBVIOUS
<1>5. w \in [0 .. n -> U]
  BY <1>3
<1>6. w[0] = b /\ w[n] = f[1 .. n]
  BY <1>1, <1>4
<1>. HIDE DEF w
<1>7. \A k \in 1 .. n : w[k] = st[<<w[k - 1], k>>]
  BY <1>1, <1>2, <1>3, <1>4
<1>. QED  BY <1>5, <1>6, <1>7 DEF IsChain, Chained

(* q lists each element of S, and lists it once.                              *)
OnceEach(q, S) == /\ q \in Seq(S)
                  /\ \A i, j \in 1 .. Len(q) : q[i] = q[j] => i = j
                  /\ \A x \in S : \E i \in 1 .. Len(q) : q[i] = x

(* Such a list is empty just when there is nothing to be listed; an element   *)
(* that is new goes at its end, its head or any other element comes out.      *)
LEMMA OnceEmpty == ASSUME NEW S, NEW q, OnceEach(q, S) PROVE q = <<>> <=> S = {}
<1>1. q = <<>> => S = {}
  BY DEF OnceEach
<1>2. q # <<>> => q[1] \in S
  BY EmptySeq DEF OnceEach
<1>. QED  BY <1>1, <1>2

(* The empty list has nobody in it.                                           *)
LEMMA OnceNone == OnceEach(<<>>, {})
BY DEF OnceEach

(* One more at the end,                                                       *)
LEMMA OnceAppend ==
  ASSUME NEW S, NEW q, OnceEach(q, S), NEW x, x \notin S
  PROVE  OnceEach(Append(q, x), S \cup {x})
<1>1. q \in Seq(S \cup {x})
  BY DEF OnceEach
<1>2. PICK r : r = Append(q, x)
  OBVIOUS
<1>3. /\ r \in Seq(S \cup {x}) /\ Len(q) \in Nat /\ Len(r) = Len(q) + 1
      /\ \A i \in 1 .. Len(q) : r[i] = q[i] /\ q[i] \in S
      /\ r[Len(q) + 1] = x
  BY <1>1, <1>2, AppendList DEF OnceEach
<1>4. ASSUME NEW i \in 1 .. Len(r), NEW j \in 1 .. Len(r), r[i] = r[j] PROVE i = j
  <2>1. CASE i \in 1 .. Len(q) /\ j \in 1 .. Len(q)
    BY <1>3, <1>4, <2>1 DEF OnceEach
  <2>2. CASE i = Len(q) + 1 \/ j = Len(q) + 1
    BY <1>3, <1>4, <2>2
  <2>. QED  BY <1>3, <2>1, <2>2
<1>5. ASSUME NEW y \in S \cup {x} PROVE \E i \in 1 .. Len(r) : r[i] = y
  <2>1. CASE y \in S
    <3>1. PICK i \in 1 .. Len(q) : q[i] = y
      BY <2>1 DEF OnceEach
    <3>. QED  BY <1>3, <3>1
  <2>2. CASE y = x
    BY <1>3, <2>2
  <2>. QED  BY <2>1, <2>2
<1>. QED  BY <1>2, <1>3, <1>4, <1>5 DEF OnceEach

(* where the element in place i has been before the one in place k came out   *)
Before(i, k) == IF i < k THEN i ELSE i + 1

(* one less in the middle,                                                    *)
LEMMA OnceWithout ==
  ASSUME NEW S, NEW q, OnceEach(q, S), NEW k \in 1 .. Len(q)
  PROVE  /\ q[k] \in S
         /\ OnceEach(SubSeq(q, 1, k - 1) \o SubSeq(q, k + 1, Len(q)), S \ {q[k]})
<1>1. /\ q \in Seq(S) /\ Len(q) \in Nat
      /\ \A i \in 1 .. Len(q) : q[i] \in S
      /\ \A i, j \in 1 .. Len(q) : q[i] = q[j] => i = j
  BY DEF OnceEach
<1>2. PICK r : r = SubSeq(q, 1, k - 1) \o SubSeq(q, k + 1, Len(q))
  OBVIOUS
<1>3. /\ r \in Seq(S) /\ Len(r) \in Nat /\ Len(r) = Len(q) - 1
      /\ \A i \in 1 .. Len(r) : r[i] = q[Before(i, k)]
  <2>1. /\ r \in Seq(S) /\ Len(r) \in Nat /\ Len(r) = Len(q) - 1
        /\ \A i \in 1 .. Len(r) : r[i] = q[IF i < k THEN i ELSE i + 1]
    BY <1>1, <1>2, RemoveList
  <2>. QED  BY <2>1 DEF Before
<1>4. \A i \in 1 .. Len(r) : Before(i, k) \in 1 .. Len(q) /\ Before(i, k) # k
  BY <1>1, <1>3 DEF Before
<1>5. \A i, j \in 1 .. Len(r) : Before(i, k) = Before(j, k) => i = j
  BY <1>1, <1>3 DEF Before
<1>6. \A i \in 1 .. Len(r) : r[i] \in S \ {q[k]}
  BY <1>1, <1>3, <1>4
<1>7. r \in Seq(S \ {q[k]})
  BY <1>3, <1>6
<1>8. \A i, j \in 1 .. Len(r) : r[i] = r[j] => i = j
  BY <1>1, <1>3, <1>4, <1>5
<1>9. ASSUME NEW y \in S \ {q[k]} PROVE \E i \in 1 .. Len(r) : r[i] = y
  <2>1. PICK i \in 1 .. Len(q) : q[i] = y
    BY DEF OnceEach
  <2>2. i # k
    BY <2>1
  <2>3. PICK j : j = IF i < k THEN i ELSE i - 1
    OBVIOUS
  <2>4. j \in 1 .. Len(r) /\ Before(j, k) = i
    BY <1>1, <1>3, <2>2, <2>3 DEF Before
  <2>. QED  BY <1>3, <2>1, <2>4
<1>. QED  BY <1>1, <1>2, <1>7, <1>8, <1>9 DEF OnceEach

(* one less at the front.                                                     *)
LEMMA OnceTail ==
  ASSUME NEW S, NEW q, OnceEach(q, S), q # <<>>
  PROVE  Head(q) \in S /\ OnceEach(Tail(q), S \ {Head(q)})
<1>1. /\ q \in Seq(S) /\ Len(q) \in Nat
      /\ \A i \in 1 .. Len(q) : q[i] \in S
      /\ \A i, j \in 1 .. Len(q) : q[i] = q[j] => i = j
  BY DEF OnceEach
<1>2. PICK r, h : r = Tail(q) /\ h = Head(q)
  OBVIOUS
<1>3. /\ r \in Seq(S) /\ Len(q) >= 1 /\ Len(r) = Len(q) - 1
      /\ h = q[1] /\ h \in S
      /\ \A i \in 1 .. Len(r) : r[i] = q[i + 1]
  BY <1>1, <1>2, TailList
<1>4. \A i \in 1 .. Len(r) : i + 1 \in 1 .. Len(q) /\ i + 1 # 1
  BY <1>1, <1>3
<1>5. 1 \in 1 .. Len(q)
  BY <1>1, <1>3
<1>6. \A i \in 1 .. Len(r) : r[i] \in S \ {h}
  BY <1>1, <1>3, <1>4, <1>5
<1>7. r \in Seq(S \ {h})
  BY <1>3, <1>6
<1>8. \A i, j \in 1 .. Len(r) : i + 1 = j + 1 => i = j
  OBVIOUS
<1>9. \A i, j \in 1 .. Len(r) : r[i] = r[j] => i = j
  BY <1>1, <1>3, <1>4, <1>8
<1>10. ASSUME NEW y \in S \ {h} PROVE \E i \in 1 .. Len(r) : r[i] = y
  <2>1. PICK i \in 1 .. Len(q) : q[i] = y
    BY DEF OnceEach
  <2>2. i # 1
    BY <1>3, <2>1
  <2>3. i - 1 \in 1 .. Len(r) /\ (i - 1) + 1 = i
    BY <1>1, <1>3, <2>2
  <2>. QED  BY <1>3, <2>1, <2>3
<1>. QED  BY <1>2, <1>3, <1>7, <1>9, <1>10 DEF OnceEach

(* How often an element is listed.                                            *)
LEMMA OnceCount ==
  ASSUME NEW S, NEW q, OnceEach(q, S), NEW x
  PROVE  Cardinality({i \in 1 .. Len(q) : q[i] = x}) = IF x \in S THEN 1 ELSE 0
<1>1. CASE x \in S
  <2>1. PICK k \in 1 .. Len(q) : q[k] = x
    BY <1>1 DEF OnceEach
  <2>2. ASSUME NEW i \in 1 .. Len(q), q[i] = x PROVE i = k
    BY <2>1, <2>2 DEF OnceEach
  <2>3. {i \in 1 .. Len(q) : q[i] = x} = {k}
    BY <2>1, <2>2, Zenon
  <2>. QED  BY <1>1, <2>3, FS_Singleton
<1>2. CASE x \notin S
  <2>1. \A i \in 1 .. Len(q) : q[i] \in S
    BY DEF OnceEach
  <2>2. {i \in 1 .. Len(q) : q[i] = x} = {}
    BY <1>2, <2>1
  <2>. QED  BY <1>2, <2>2, FS_EmptySet
<1>. QED  BY <1>1, <1>2

-----------------------------------------------------------------------------
(* REMAINDERS *)

(* Division with remainder: there is one,                                     *)
LEMMA Divided ==
  ASSUME NEW x \in Nat, NEW s \in Nat \ {0}
  PROVE  x \div s \in Nat /\ x % s \in 0 .. s - 1 /\ x = s * (x \div s) + (x % s)
<1>1. x % s \in 0 .. s - 1 /\ x \div s \in Int
  OBVIOUS
<1>2. x = s * (x \div s) + (x % s)
  OBVIOUS
<1>3. x \div s >= 0
  BY <1>1, <1>2
<1>. QED  BY <1>1, <1>2, <1>3

(* and only one.                                                              *)
LEMMA RemainderIs ==
  ASSUME NEW s \in Nat \ {0}, NEW x \in Nat, NEW q \in Nat, NEW r \in 0 .. s - 1, x = s * q + r
  PROVE  x % s = r
<1>1. PICK p \in Nat, e \in 0 .. s - 1 : x = s * p + e /\ x % s = e
  BY Divided
<1>2. p < q => s * q >= s * p + s
  BY <1>1
<1>3. q < p => s * p >= s * q + s
  BY <1>1
<1>. QED  BY <1>1, <1>2, <1>3

(* Where a ring of s cells closes, u = s * d, a counter that wraps around at  *)
(* u goes on to the next cell.                                                *)
LEMMA RingWraps ==
  ASSUME NEW s \in Nat \ {0}, NEW d \in Nat, NEW u \in Nat \ {0}, u = s * d,
         NEW x \in Nat, x < u + u
  PROVE  (x % u) % s = x % s
<1>1. CASE x < u
  <2>1. x % u = x
    BY <1>1
  <2>. QED  BY <2>1
<1>2. CASE x >= u
  <2>1. PICK y \in Nat : x = y + u
    <3>1. x - u \in Nat /\ x = (x - u) + u
      BY <1>2
    <3>. QED  BY <3>1
  <2>2. x % u = y
    <3>1. y \in 0 .. u - 1
      BY <2>1
    <3>2. x = u * 1 + y
      BY <2>1
    <3>. QED  BY <3>1, <3>2, RemainderIs
  <2>3. PICK q \in Nat, r \in 0 .. s - 1 : y = s * q + r /\ y % s = r
    BY Divided
  <2>4. q + d \in Nat /\ x = s * (q + d) + r
    BY <2>1, <2>3
  <2>5. x % s = r
    BY <2>4, RemainderIs
  <2>. QED  BY <2>2, <2>3, <2>5
<1>. QED  BY <1>1, <1>2

(* Less than s numbers in a row are in different cells.                       *)
LEMMA CellsDiffer ==
  ASSUME NEW s \in Nat \ {0}, NEW x \in Nat, NEW y \in Nat, x < y, y < x + s
  PROVE  x % s # y % s
<1>1. PICK q \in Nat, r \in 0 .. s - 1 : x = s * q + r /\ x % s = r
  BY Divided
<1>2. PICK p \in Nat, e \in 0 .. s - 1 : y = s * p + e /\ y % s = e
  BY Divided
<1>3. q < p => s * p >= s * q + s
  BY <1>1, <1>2
<1>4. p < q => s * q >= s * p + s
  BY <1>1, <1>2
<1>. QED  BY <1>1, <1>2, <1>3, <1>4
=============================================================================

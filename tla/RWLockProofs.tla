----------------------------- MODULE RWLockProofs -----------------------------
(* Proofs about RWLock, for every set of threads and every pool of elements.  *)
(* IInv is inductive: beside the properties of the lock it says how the list, *)
(* the elements and the threads that wait or wake belong together.            *)
EXTENDS RWLock, ListFacts

QueuedR == {"renq", "rwait"}   \* rlock, not back from its rendezvous
QueuedW == {"wenq", "wwait"}   \* wlock, likewise
Waits == RWaiting \cup WWaiting
Active == Waking \cup Looping  \* inside runlock or wunlock, after the hand-over

(* A waiter has an element of the pool, and has it alone. *)
OwnElement == \A t, u \in Thread :
                 pc[t] \in Waits => /\ mp[t] \in inuse
                                    /\ pc[u] \in Waits /\ mp[t] = mp[u] => t = u

(* t sleeps on element n, whose state field says what t waits for *)
SleepsOn(t, n) == /\ mp[t] = n
                  /\ \/ state[n] = "QueuingR" /\ pc[t] \in QueuedR
                     \/ state[n] = "QueuingW" /\ pc[t] \in QueuedW

(* The list holds elements of sleeping waiters, each once. *)
ListOfSleepers ==
    /\ \A i \in 1..Len(queue) : \E t \in Thread : SleepsOn(t, queue[i])
    /\ \A i, j \in 1..Len(queue) : queue[i] = queue[j] => i = j

(* t sleeps on element n, whatever it waits for *)
Sleeps(t, n) == mp[t] = n /\ pc[t] \in QueuedR \cup QueuedW

(* Whoever is to be woken sleeps still, and is off the list. *)
WakeUpMeets == \A t \in Thread : pc[t] \in Waking =>
                  \E u \in Thread : /\ pc[u] \in QueuedR \cup QueuedW
                                    /\ mp[u] = mp[t] /\ ~InQueue(mp[t])

OneActive == \A t, u \in Thread : pc[t] \in Active /\ pc[u] \in Active => t = u

(* While wunlock lets the readers in, one is in already, and no writer is. *)
ReadersOnly == \A t \in Thread :
                  pc[t] \in Looping => readers > 0 /\ \A u \in Thread : ~Writes(u)

IInv == /\ TypeOK /\ Exclusion /\ NoVainWait
        /\ OwnElement /\ ListOfSleepers /\ WakeUpMeets /\ OneActive /\ ReadersOnly

-----------------------------------------------------------------------------
(* THE LIST *)

(* Chaining a fresh element puts that one into the list and nothing else;     *)
(* taking the head off takes that one out and nothing else.                   *)
LEMMA InAppend ==
  ASSUME TypeOK, NEW n \in Qlp, queue' = Append(queue, n), NEW m
  PROVE  InQueue(m)' <=> InQueue(m) \/ m = n
<1>. queue \in Seq(Qlp)
  BY DEF TypeOK
<1>. QED
  BY AppendList DEF InQueue

(* Whose element is in the list after its head has left.                      *)
LEMMA InTail ==
  ASSUME TypeOK, ListOfSleepers, queue # <<>>, queue' = Tail(queue), NEW m
  PROVE  InQueue(m)' <=> InQueue(m) /\ m # Head(queue)
<1>. queue \in Seq(Qlp)
  BY DEF TypeOK
<1>1. \A i, j \in 1..Len(queue) : queue[i] = queue[j] => i = j
  BY DEF ListOfSleepers
<1>2. ASSUME InQueue(m)' PROVE InQueue(m) /\ m # Head(queue)
  BY <1>1, <1>2, TailList DEF InQueue
<1>3. ASSUME InQueue(m), m # Head(queue) PROVE InQueue(m)'
  <2>1. PICK i \in 1..Len(queue) : queue[i] = m
    BY <1>3 DEF InQueue
  <2>2. i # 1 /\ i - 1 \in 1..Len(Tail(queue))
    BY <1>3, <2>1, TailList
  <2>3. Tail(queue)[i - 1] = m
    BY <2>1, <2>2, TailList
  <2>. QED
    BY <2>2, <2>3 DEF InQueue
<1>. QED
  BY <1>2, <1>3

(* Every element of the list is that of a sleeper, also the first one.        *)
LEMMA Sleeper ==
  ASSUME ListOfSleepers, NEW n, InQueue(n)
  PROVE  \E t \in Thread : SleepsOn(t, n)
BY DEF ListOfSleepers, InQueue

(* The head of the list has its sleeper.                                      *)
LEMMA HeadSleeper ==
  ASSUME TypeOK, ListOfSleepers, queue # <<>>
  PROVE  InQueue(Head(queue)) /\ Head(queue) \in Qlp
                              /\ \E t \in Thread : SleepsOn(t, Head(queue))
<1>1. queue \in Seq(Qlp)
  BY DEF TypeOK
<1>2. Head(queue) = queue[1] /\ 1 \in 1..Len(queue) /\ Head(queue) \in Qlp
  BY <1>1, TailList
<1>. QED
  BY <1>2 DEF ListOfSleepers, InQueue

(* A waiter that has come back from its rendezvous is off the list.           *)
LEMMA AwakeOffList ==
  ASSUME OwnElement, ListOfSleepers, NEW t \in Thread, pc[t] \in {"rwoken", "wwoken"}
  PROVE  ~InQueue(mp[t])
BY Sleeper DEF OwnElement, SleepsOn, Waits, RWaiting, WWaiting, QueuedR, QueuedW

(* Nobody can both read and write, and whoever waits does not hold q->lock.   *)
LEMMA Apart ==
  ASSUME NEW t \in Thread
  PROVE  /\ ~(Reads(t) /\ Writes(t))
         /\ pc[t] \in Active \cup {"idle", "dry"} => ~Reads(t) /\ ~Writes(t)
BY DEF Reads, Writes, RWaiting, WWaiting, Active, Waking, Looping

(* The counter of readers is the size of a finite set.                        *)
LEMMA ReadersFinite == {t \in Thread : Reads(t)} \subseteq Thread /\ IsFiniteSet(Thread)
BY QlpAssumption

-----------------------------------------------------------------------------
(* WHAT STEPS HAVE IN COMMON *)

(* A step that nobody notices who waits for the lock or has it. *)
Unnoticed == /\ queue' = queue /\ state' = state
             /\ \A u \in Thread : /\ (Reads(u)' <=> Reads(u)) /\ (Writes(u)' <=> Writes(u))
                                  /\ pc'[u] \in Looping <=> pc[u] \in Looping
                                  /\ \A n : Sleeps(u, n)' => Sleeps(u, n)

(* A step of a thread outside the list, which touches no element: only the    *)
(* thread itself can read or write before it and not after, or the reverse.   *)
LEMMA QuietStep ==
  ASSUME IInv, NEW t \in Thread, NEW l, Goto(t, l), UNCHANGED <<queue, state, mp, inuse>>,
         pc[t] \notin Waits \cup Waking, l \notin Waits \cup Active
  PROVE  /\ OwnElement' /\ ListOfSleepers' /\ WakeUpMeets' /\ OneActive'
         /\ \A u \in Thread : u # t => (Reads(u)' <=> Reads(u)) /\ (Writes(u)' <=> Writes(u))
         /\ \A u \in Thread : u # t => pc'[u] = pc[u]
         /\ pc'[t] = l
<1>1. \A u \in Thread : pc'[u] = IF u = t THEN l ELSE pc[u]
  BY DEF Goto, IInv, TypeOK
<1>2. \A m : InQueue(m)' <=> InQueue(m)
  BY DEF InQueue
<1>3. OwnElement'
  BY <1>1 DEF IInv, OwnElement
<1>4. ListOfSleepers'
  BY <1>1 DEF IInv, ListOfSleepers, SleepsOn, QueuedR, QueuedW, Waits, RWaiting, WWaiting
<1>5. WakeUpMeets'
  BY <1>1, <1>2 DEF IInv, WakeUpMeets, Active, QueuedR, QueuedW, Waits, RWaiting, WWaiting
<1>6. OneActive'
  BY <1>1 DEF IInv, OneActive
<1>7. \A u \in Thread : u # t => (Reads(u)' <=> Reads(u)) /\ (Writes(u)' <=> Writes(u))
  BY <1>1, <1>2 DEF Reads, Writes
<1>. QED
  BY <1>1, <1>3, <1>4, <1>5, <1>6, <1>7

(* Taking the head off the list gives its sleeper the lock, and changes       *)
(* nothing for anybody but it and the thread that took it off.                *)
LEMMA TakenOff ==
  ASSUME IInv, NEW t \in Thread, NEW l, Unchain(t, l), queue # <<>>,
         l \in Waking, pc[t] \notin Waits,
         NEW w \in Thread, SleepsOn(w, Head(queue))
  PROVE  /\ w # t /\ ~Reads(w) /\ ~Writes(w)
         /\ Reads(w)' <=> pc[w] \in QueuedR
         /\ Writes(w)' <=> pc[w] \in QueuedW
         /\ \A u \in Thread : u # t /\ u # w =>
              (Reads(u)' <=> Reads(u)) /\ (Writes(u)' <=> Writes(u))
         /\ \A u \in Thread : /\ pc'[u] = IF u = t THEN l ELSE pc[u]
                              /\ mp'[u] = IF u = t THEN Head(queue) ELSE mp[u]
         /\ \A m : InQueue(m)' <=> InQueue(m) /\ m # Head(queue)
<1>. /\ mp' = [mp EXCEPT ![t] = Head(queue)] /\ queue' = Tail(queue)
     /\ pc' = [pc EXCEPT ![t] = l] /\ state' = state /\ inuse' = inuse
     /\ pc \in [Thread -> Location] /\ mp \in [Thread -> Qlp \cup {NoQlp}]
     /\ queue \in Seq(Qlp)
  BY DEF Unchain, Goto, poolvars, IInv, TypeOK
<1>1. \A u \in Thread : /\ pc'[u] = IF u = t THEN l ELSE pc[u]
                        /\ mp'[u] = IF u = t THEN Head(queue) ELSE mp[u]
  OBVIOUS
<1>2. \A m : InQueue(m)' <=> InQueue(m) /\ m # Head(queue)
  BY InTail DEF IInv
<1>3. InQueue(Head(queue))
  BY HeadSleeper DEF IInv
<1>4. /\ w # t /\ mp[w] = Head(queue) /\ pc[w] \in QueuedR \cup QueuedW
      /\ ~Reads(w) /\ ~Writes(w)
  BY <1>3 DEF SleepsOn, QueuedR, QueuedW, Reads, Writes, Waits, RWaiting, WWaiting
<1>5. \A u \in Thread : pc[u] \in Waits /\ mp[u] = Head(queue) => u = w
  BY <1>4 DEF IInv, OwnElement, Waits, QueuedR, QueuedW, RWaiting, WWaiting
<1>6. /\ Reads(w)' <=> pc[w] \in QueuedR
      /\ Writes(w)' <=> pc[w] \in QueuedW
  BY <1>1, <1>2, <1>4 DEF Reads, Writes, QueuedR, QueuedW, RWaiting, WWaiting
<1>7. \A u \in Thread : u # t /\ u # w =>
         (Reads(u)' <=> Reads(u)) /\ (Writes(u)' <=> Writes(u))
  BY <1>1, <1>2, <1>5 DEF Reads, Writes, Waits
<1>. QED
  BY <1>1, <1>2, <1>4, <1>6, <1>7

(* The hand-over of runlock and wunlock: the sleeper w at the head of the     *)
(* list reads or writes from here on, and it is the one that t goes to wake.  *)
LEMMA HandOver ==
  ASSUME IInv, NEW t \in Thread, NEW l, Unchain(t, l), queue # <<>>,
         l \in Waking, pc[t] \in {"reading", "writing", "loop"},
         \A u \in Thread : u # t => pc[u] \notin Active
  PROVE  /\ OwnElement' /\ ListOfSleepers' /\ WakeUpMeets' /\ OneActive'
         /\ \A u \in Thread : u # t => pc'[u] = pc[u]
         /\ pc'[t] = l
         /\ \E w \in Thread :
              /\ w # t /\ SleepsOn(w, Head(queue)) /\ ~Reads(w) /\ ~Writes(w)
              /\ Reads(w)' <=> pc[w] \in QueuedR
              /\ Writes(w)' <=> pc[w] \in QueuedW
              /\ \A u \in Thread : u # t /\ u # w =>
                   (Reads(u)' <=> Reads(u)) /\ (Writes(u)' <=> Writes(u))
<1>. /\ mp' = [mp EXCEPT ![t] = Head(queue)] /\ queue' = Tail(queue)
     /\ pc' = [pc EXCEPT ![t] = l] /\ state' = state /\ inuse' = inuse
     /\ pc \in [Thread -> Location] /\ mp \in [Thread -> Qlp \cup {NoQlp}]
     /\ queue \in Seq(Qlp)
  BY DEF Unchain, Goto, poolvars, IInv, TypeOK
<1>1. PICK w \in Thread : SleepsOn(w, Head(queue))
  BY HeadSleeper DEF IInv
<1>2. pc[t] \notin Waits /\ l \notin Waits
  BY DEF Waits, RWaiting, WWaiting, Waking
<1>3. /\ w # t /\ ~Reads(w) /\ ~Writes(w)
      /\ Reads(w)' <=> pc[w] \in QueuedR
      /\ Writes(w)' <=> pc[w] \in QueuedW
      /\ \A u \in Thread : u # t /\ u # w =>
           (Reads(u)' <=> Reads(u)) /\ (Writes(u)' <=> Writes(u))
  BY <1>1, <1>2, TakenOff
<1>4. /\ \A u \in Thread : /\ pc'[u] = IF u = t THEN l ELSE pc[u]
                           /\ mp'[u] = IF u = t THEN Head(queue) ELSE mp[u]
      /\ \A m : InQueue(m)' <=> InQueue(m) /\ m # Head(queue)
  BY <1>1, <1>2, TakenOff
<1>5. OwnElement'
  BY <1>2, <1>4 DEF IInv, OwnElement
<1>6. ListOfSleepers'
  <2>1. \A i \in 1..Len(queue)' : i + 1 \in 1..Len(queue) /\ queue'[i] = queue[i + 1]
    BY TailList
  <2>2. \A i \in 1..Len(queue)' : \E u \in Thread : u # t /\ SleepsOn(u, queue[i + 1])
    BY <2>1, <1>2 DEF IInv, ListOfSleepers, SleepsOn, QueuedR, QueuedW, Waits, RWaiting, WWaiting
  <2>3. \A i \in 1..Len(queue)' : \E u \in Thread : SleepsOn(u, queue[i])'
    BY <1>4, <2>1, <2>2 DEF SleepsOn
  <2>4. \A i, j \in 1..Len(queue)' : queue'[i] = queue'[j] => i = j
    BY <2>1 DEF IInv, ListOfSleepers
  <2>. QED
    BY <2>3, <2>4 DEF ListOfSleepers, SleepsOn
<1>7. WakeUpMeets'
  <2>1. pc[w] \in QueuedR \cup QueuedW /\ mp[w] = Head(queue)
    BY <1>1 DEF SleepsOn
  <2>. QED
    BY <1>3, <1>4, <2>1 DEF WakeUpMeets, Active
<1>8. OneActive'
  BY <1>4 DEF OneActive
<1>. QED
  BY <1>1, <1>3, <1>4, <1>5, <1>6, <1>7, <1>8

(* The counter q->readers follows the readers: one comes, one goes, none does. *)
Counted == readers \in Nat /\ readers = Cardinality({t \in Thread : Reads(t)})

(* The readers are counted right when one comes,                              *)
LEMMA ReaderComes ==
  ASSUME Counted, NEW w \in Thread, ~Reads(w), Reads(w)', readers' = readers + 1,
         \A u \in Thread : u # w => (Reads(u)' <=> Reads(u))
  PROVE  Counted'
<1>1. {t \in Thread : Reads(t)}' = {t \in Thread : Reads(t)} \cup {w}
  OBVIOUS
<1>. QED
  BY <1>1, ReadersFinite, OneMore DEF Counted

(* when one goes,                                                             *)
LEMMA ReaderGoes ==
  ASSUME Counted, NEW w \in Thread, Reads(w), ~Reads(w)', readers' = readers - 1,
         \A u \in Thread : u # w => (Reads(u)' <=> Reads(u))
  PROVE  Counted' /\ (readers' = 0 => \A u \in Thread : Reads(u) => u = w)
<1>1. {t \in Thread : Reads(t)}' = {t \in Thread : Reads(t)} \ {w}
  OBVIOUS
<1>2. /\ Cardinality({t \in Thread : Reads(t)} \ {w}) = readers - 1
      /\ readers >= 1
      /\ readers = 1 => {t \in Thread : Reads(t)} = {w}
  BY ReadersFinite, OneLess DEF Counted
<1>. QED
  BY <1>1, <1>2 DEF Counted

(* and when none does.                                                        *)
LEMMA ReadersStay ==
  ASSUME Counted, readers' = readers, \A u \in Thread : Reads(u)' <=> Reads(u)
  PROVE  Counted'
<1>1. {t \in Thread : Reads(t)}' = {t \in Thread : Reads(t)}
  OBVIOUS
<1>. QED
  BY <1>1 DEF Counted

(* The counter is not zero while somebody reads.                              *)
LEMMA ReaderCounted ==
  ASSUME Counted, NEW w \in Thread, Reads(w)
  PROVE  readers > 0
<1>. DEFINE R == {t \in Thread : Reads(t)}
<1>1. w \in R /\ R \subseteq Thread /\ IsFiniteSet(Thread)
  BY ReadersFinite
<1>2. Cardinality(R) >= 1 /\ Cardinality(R) \in Nat
  BY ONLY <1>1, OneLess
<1>. QED
  BY <1>2 DEF Counted

(* The invariant counts right.                                                *)
LEMMA InvCounts == IInv => Counted
BY DEF IInv, TypeOK, Exclusion, Counted

-----------------------------------------------------------------------------
(* ONE LEMMA PER ACTION *)

(* A reader joins the readers, if there is no writer.                         *)
LEMMA RLockInv == ASSUME IInv, NEW t \in Thread, RLock(t) PROVE IInv'
<1>1. /\ pc[t] = "idle" /\ writer = 0 /\ queue = <<>> /\ readers' = readers + 1
      /\ Goto(t, "reading") /\ UNCHANGED <<writer, queue, state, mp, inuse, hint>>
      /\ LockFree
  BY DEF RLock, Ready, CanRead, poolvars
<1>2. pc[t] \notin Waits \cup Waking /\ "reading" \notin Waits \cup Active
  BY <1>1 DEF Waits, RWaiting, WWaiting, Active, Waking, Looping
<1>3. /\ OwnElement' /\ ListOfSleepers' /\ WakeUpMeets' /\ OneActive'
      /\ \A u \in Thread : u # t => (Reads(u)' <=> Reads(u)) /\ (Writes(u)' <=> Writes(u))
      /\ \A u \in Thread : u # t => pc'[u] = pc[u]
      /\ pc'[t] = "reading"
  BY <1>1, <1>2, QuietStep
<1>4. ~Reads(t) /\ ~Writes(t) /\ Reads(t)' /\ ~Writes(t)'
  BY <1>1, <1>3 DEF Reads, Writes, RWaiting, WWaiting
<1>5. Counted'
  BY <1>1, <1>3, <1>4, InvCounts, ReaderComes
<1>6. \A u \in Thread : ~Writes(u)' /\ pc'[u] \notin Looping
  BY <1>1, <1>3, <1>4 DEF IInv, Exclusion, Looping
<1>7. Exclusion'
  BY <1>1, <1>5, <1>6 DEF Exclusion, Counted
<1>8. TypeOK'
  BY <1>1, <1>5 DEF IInv, TypeOK, Counted, Goto, Location
<1>9. NoVainWait'
  BY <1>1, <1>3 DEF IInv, NoVainWait
<1>10. ReadersOnly'
  BY <1>6 DEF ReadersOnly
<1>. QED
  BY <1>3, <1>7, <1>8, <1>9, <1>10 DEF IInv

(* A writer takes the lock, if nobody has it.                                 *)
LEMMA WLockInv == ASSUME IInv, NEW t \in Thread, WLock(t) PROVE IInv'
<1>1. /\ pc[t] = "idle" /\ readers = 0 /\ writer = 0 /\ writer' = 1
      /\ Goto(t, "writing") /\ UNCHANGED <<readers, queue, state, mp, inuse, hint>>
      /\ LockFree
  BY DEF WLock, Ready, CanWrite, poolvars
<1>2. pc[t] \notin Waits \cup Waking /\ "writing" \notin Waits \cup Active
  BY <1>1 DEF Waits, RWaiting, WWaiting, Active, Waking, Looping
<1>3. /\ OwnElement' /\ ListOfSleepers' /\ WakeUpMeets' /\ OneActive'
      /\ \A u \in Thread : u # t => (Reads(u)' <=> Reads(u)) /\ (Writes(u)' <=> Writes(u))
      /\ \A u \in Thread : u # t => pc'[u] = pc[u]
      /\ pc'[t] = "writing"
  BY <1>1, <1>2, QuietStep
<1>4. ~Reads(t) /\ ~Writes(t) /\ ~Reads(t)' /\ Writes(t)'
  BY <1>1, <1>3 DEF Reads, Writes, RWaiting, WWaiting
<1>5. Counted'
  BY <1>1, <1>3, <1>4, InvCounts, ReadersStay
<1>6. \A u \in Thread : ~Reads(u) /\ ~Writes(u) /\ pc'[u] \notin Looping
  <2>1. \A u \in Thread : ~Reads(u)
    BY <1>1, InvCounts, ReaderCounted
  <2>2. \A u \in Thread : ~Writes(u) /\ pc[u] \notin Looping
    BY <1>1 DEF IInv, Exclusion
  <2>. QED
    BY <1>3, <2>1, <2>2 DEF Looping
<1>7. Exclusion'
  BY <1>1, <1>3, <1>4, <1>5, <1>6 DEF Exclusion, Counted
<1>8. TypeOK'
  BY <1>1 DEF IInv, TypeOK, Goto, Location
<1>9. NoVainWait'
  BY <1>1, <1>3 DEF IInv, NoVainWait
<1>10. ReadersOnly'
  BY <1>6 DEF ReadersOnly
<1>. QED
  BY <1>3, <1>7, <1>8, <1>9, <1>10 DEF IInv

(* A thread that aborts in getqlp has no lock and waits for none.             *)
LEMMA ExhaustInv == ASSUME IInv, NEW t \in Thread, Exhaust(t) PROVE IInv' /\ Unnoticed
<1>1. /\ pc[t] = "idle" /\ Goto(t, "dry")
      /\ UNCHANGED <<readers, writer, queue, state, mp, inuse, hint>>
  BY DEF Exhaust, Ready, qvars, poolvars
<1>2. pc[t] \notin Waits \cup Waking /\ "dry" \notin Waits \cup Active
  BY <1>1 DEF Waits, RWaiting, WWaiting, Active, Waking, Looping
<1>3. /\ OwnElement' /\ ListOfSleepers' /\ WakeUpMeets' /\ OneActive'
      /\ \A u \in Thread : u # t => (Reads(u)' <=> Reads(u)) /\ (Writes(u)' <=> Writes(u))
      /\ \A u \in Thread : u # t => pc'[u] = pc[u]
      /\ pc'[t] = "dry"
  BY <1>1, <1>2, QuietStep
<1>4. ~Reads(t) /\ ~Writes(t) /\ ~Reads(t)' /\ ~Writes(t)'
  BY <1>1, <1>3 DEF Reads, Writes, RWaiting, WWaiting
<1>5. \A u \in Thread : /\ (Reads(u)' <=> Reads(u)) /\ (Writes(u)' <=> Writes(u))
                        /\ pc'[u] \in Looping <=> pc[u] \in Looping
  BY <1>1, <1>3, <1>4 DEF Looping
<1>6. Counted'
  BY <1>1, <1>5, InvCounts, ReadersStay
<1>7. Exclusion'
  BY <1>1, <1>5, <1>6 DEF IInv, Exclusion, Counted
<1>8. TypeOK'
  BY <1>1 DEF IInv, TypeOK, Goto, Location, Aborted
<1>9. NoVainWait' /\ ReadersOnly'
  BY <1>1, <1>3, <1>5 DEF IInv, NoVainWait, ReadersOnly, HeadIs
<1>10. Unnoticed
  BY <1>1, <1>3, <1>5 DEF Unnoticed, Sleeps, QueuedR, QueuedW
<1>. QED
  BY <1>3, <1>7, <1>8, <1>9, <1>10 DEF IInv

(* The newcomer goes to the end of the list, with an element of its own.      *)
LEMMA ChainInv ==
  ASSUME IInv, NEW t \in Thread, NEW s, NEW l, Chain(t, s, l), pc[t] = "idle",
         \/ s = "QueuingR" /\ l = "renq"
         \/ s = "QueuingW" /\ l = "wenq",
         readers > 0 \/ writer = 1,
         writer = 0 /\ queue = <<>> => s = "QueuingW"
  PROVE  IInv'
<1>1. PICK n \in Qlp : /\ GetQlp(n) /\ mp' = [mp EXCEPT ![t] = n]
                       /\ queue' = Append(queue, n) /\ state' = [state EXCEPT ![n] = s]
  BY DEF Chain
<1>2. /\ pc' = [pc EXCEPT ![t] = l] /\ readers' = readers /\ writer' = writer
      /\ n \notin inuse /\ inuse' = inuse \cup {n} /\ hint' = n
      /\ pc \in [Thread -> Location] /\ mp \in [Thread -> Qlp \cup {NoQlp}]
      /\ queue \in Seq(Qlp) /\ state \in [Qlp -> {"Queuing", "QueuingR", "QueuingW"}]
  BY <1>1 DEF Chain, Goto, GetQlp, QlpFree, IInv, TypeOK
<1>3. \A u \in Thread : u # t => pc'[u] = pc[u] /\ mp'[u] = mp[u]
  BY <1>1, <1>2
<1>4. pc'[t] = l /\ mp'[t] = n
  BY <1>1, <1>2
<1>5. \A m : InQueue(m)' <=> InQueue(m) \/ m = n
  BY <1>1, InAppend DEF IInv
<1>6. \A u \in Thread : u # t /\ pc[u] \in Waits => mp[u] # n
  BY <1>2 DEF IInv, OwnElement
<1>7. ~Reads(t) /\ ~Writes(t) /\ ~Reads(t)' /\ ~Writes(t)'
  BY <1>4, <1>5 DEF Reads, Writes, RWaiting, WWaiting
<1>8. \A u \in Thread : (Reads(u)' <=> Reads(u)) /\ (Writes(u)' <=> Writes(u))
  BY <1>3, <1>5, <1>6, <1>7 DEF Reads, Writes, Waits
<1>9. \A u \in Thread : /\ pc'[u] \in Looping <=> pc[u] \in Looping
                        /\ pc'[u] \in Waking <=> pc[u] \in Waking
  BY <1>3, <1>4 DEF Looping, Waking
<1>10. TypeOK'
  BY <1>1, <1>2, AppendList DEF IInv, TypeOK, Location, RWaiting, WWaiting
<1>11. Exclusion'
  BY <1>2, <1>8, <1>9, InvCounts, ReadersStay DEF IInv, Exclusion, Counted
<1>12. OwnElement'
  <2>1. \A u \in Thread : u # t /\ pc'[u] \in Waits => mp'[u] \in inuse /\ mp'[u] # n
    BY <1>3, <1>6 DEF IInv, OwnElement
  <2>2. \A u, w \in Thread : u # t /\ w # t /\ pc'[u] \in Waits /\ pc'[w] \in Waits
                              => (mp'[u] = mp'[w] => u = w)
    BY <1>3 DEF IInv, OwnElement
  <2>. QED
    BY <1>2, <1>4, <2>1, <2>2 DEF OwnElement
<1>13. \A i \in 1..Len(queue) : /\ queue[i] \in Qlp /\ queue[i] # n
                                /\ \E u \in Thread : u # t /\ SleepsOn(u, queue[i])
  <2>1. \A i \in 1..Len(queue) : \E u \in Thread : u # t /\ SleepsOn(u, queue[i])
    BY DEF IInv, ListOfSleepers, SleepsOn, QueuedR, QueuedW
  <2>. QED
    BY <1>2, <1>6, <2>1 DEF SleepsOn, QueuedR, QueuedW, Waits, RWaiting, WWaiting
<1>14. ListOfSleepers'
  <2>1. \A i \in 1..Len(queue) : queue'[i] = queue[i]
    BY <1>1, <1>2, AppendList
  <2>2. Len(queue)' = Len(queue) + 1 /\ queue'[Len(queue) + 1] = n /\ Len(queue) \in Nat
    BY <1>1, <1>2, AppendList
  <2>3. \/ s = "QueuingR" /\ l \in QueuedR
        \/ s = "QueuingW" /\ l \in QueuedW
    BY DEF QueuedR, QueuedW
  <2>4. state'[n] = s
    BY <1>1, <1>2
  <2>5. \A i, j \in 1..Len(queue)' : queue'[i] = queue'[j] => i = j
    BY <1>13, <2>1, <2>2 DEF IInv, ListOfSleepers
  <2>6. ASSUME NEW i \in 1..Len(queue)' PROVE \E u \in Thread : SleepsOn(u, queue[i])'
    <3>1. CASE i = Len(queue) + 1
      BY <3>1, <2>2, <2>3, <2>4, <1>4 DEF SleepsOn
    <3>2. CASE i # Len(queue) + 1
      BY <3>2, <2>1, <2>2, <1>1, <1>2, <1>3, <1>13 DEF SleepsOn
    <3>. QED
      BY <3>1, <3>2
  <2>. QED
    BY <2>5, <2>6 DEF ListOfSleepers, SleepsOn
<1>15. WakeUpMeets'
  <2>. SUFFICES ASSUME NEW u \in Thread, pc'[u] \in Waking
                PROVE  \E w \in Thread : /\ pc'[w] \in QueuedR \cup QueuedW
                                         /\ mp'[w] = mp'[u] /\ ~InQueue(mp[u])'
    BY DEF WakeUpMeets
  <2>1. u # t /\ pc[u] \in Waking /\ mp'[u] = mp[u]
    BY <1>3, <1>4, <1>9 DEF Waking
  <2>2. PICK w \in Thread : pc[w] \in QueuedR \cup QueuedW /\ mp[w] = mp[u] /\ ~InQueue(mp[u])
    BY <2>1 DEF IInv, WakeUpMeets
  <2>3. w # t
    BY <2>2 DEF QueuedR, QueuedW
  <2>4. mp[w] # n
    BY <2>2, <2>3, <1>6 DEF QueuedR, QueuedW, Waits, RWaiting, WWaiting
  <2>. QED
    BY <2>1, <2>2, <2>3, <2>4, <1>3, <1>5
<1>16. OneActive' /\ ReadersOnly'
  BY <1>2, <1>8, <1>9 DEF IInv, OneActive, ReadersOnly, Active
<1>17. NoVainWait'
  <2>1. queue' # <<>> /\ Head(queue') = IF queue = <<>> THEN n ELSE Head(queue)
    BY <1>1, <1>2
  <2>2. state'[n] = s /\ \A m \in Qlp : m # n => state'[m] = state[m]
    BY <1>1, <1>2
  <2>3. queue # <<>> => Head(queue) \in Qlp /\ Head(queue) # n
    BY <1>2, <1>13, TailList
  <2>4. \A u \in Thread : pc'[u] # "abort"
    BY <1>3, <1>4 DEF IInv, NoVainWait
  <2>5. writer' = 0 => HeadIs("QueuingW")'
    BY <1>2, <2>1, <2>2, <2>3 DEF IInv, NoVainWait, HeadIs
  <2>. QED
    BY <1>2, <2>4, <2>5 DEF NoVainWait
<1>. QED
  BY <1>10, <1>11, <1>12, <1>14, <1>15, <1>16, <1>17 DEF IInv

(* Readers and writers wait only behind somebody who has the lock.            *)
LEMMA WaitInv == ASSUME IInv, NEW t \in Thread, RWait(t) \/ WWait(t) PROVE IInv'
<1>1. writer \in {0, 1} /\ readers \in Nat
  BY DEF IInv, TypeOK
<1>2. CASE RWait(t)
  <2>1. /\ pc[t] = "idle" /\ Chain(t, "QueuingR", "renq")
        /\ writer # 0 \/ queue # <<>>
    BY <1>2 DEF RWait, Ready, CanRead
  <2>2. readers > 0 \/ writer = 1
    BY <1>1, <2>1 DEF IInv, NoVainWait
  <2>. QED
    BY <2>1, <2>2, ChainInv
<1>3. CASE WWait(t)
  <2>1. /\ pc[t] = "idle" /\ Chain(t, "QueuingW", "wenq")
        /\ readers # 0 \/ writer # 0
    BY <1>3 DEF WWait, Ready, CanWrite
  <2>2. readers > 0 \/ writer = 1
    BY <1>1, <2>1
  <2>. QED
    BY <2>1, <2>2, ChainInv
<1>. QED
  BY <1>2, <1>3

(* A reader goes; with other readers left, or an empty list, nothing follows. *)
LEMMA RUnlockInv == ASSUME IInv, NEW t \in Thread, RUnlock(t) PROVE IInv'
<1>1. /\ pc[t] = "reading" /\ readers' = readers - 1 /\ (readers' > 0 \/ queue = <<>>)
      /\ Goto(t, "idle") /\ UNCHANGED <<writer, queue, state, mp, inuse, hint>>
      /\ LockFree
  BY DEF RUnlock, Ready, poolvars
<1>2. pc[t] \notin Waits \cup Waking /\ "idle" \notin Waits \cup Active
  BY <1>1 DEF Waits, RWaiting, WWaiting, Active, Waking, Looping
<1>3. /\ OwnElement' /\ ListOfSleepers' /\ WakeUpMeets' /\ OneActive'
      /\ \A u \in Thread : u # t => (Reads(u)' <=> Reads(u)) /\ (Writes(u)' <=> Writes(u))
      /\ \A u \in Thread : u # t => pc'[u] = pc[u]
      /\ pc'[t] = "idle"
  BY <1>1, <1>2, QuietStep
<1>4. Reads(t) /\ ~Writes(t) /\ ~Reads(t)' /\ ~Writes(t)'
  BY <1>1, <1>3 DEF Reads, Writes, RWaiting, WWaiting
<1>5. Counted'
  BY <1>1, <1>3, <1>4, InvCounts, ReaderGoes
<1>6. \A u \in Thread : (Writes(u)' <=> Writes(u)) /\ pc'[u] \notin Looping /\ pc[u] \notin Looping
  BY <1>1, <1>3, <1>4 DEF LockFree, Looping
<1>7. Exclusion'
  BY <1>1, <1>3, <1>4, <1>5, <1>6 DEF IInv, Exclusion, Counted
<1>8. TypeOK'
  BY <1>1, <1>5 DEF IInv, TypeOK, Counted, Goto, Location
<1>9. NoVainWait'
  BY <1>1, <1>3 DEF IInv, NoVainWait, HeadIs
<1>10. ReadersOnly'
  BY <1>6 DEF ReadersOnly
<1>. QED
  BY <1>3, <1>7, <1>8, <1>9, <1>10 DEF IInv

(* The last reader hands the lock to the writer at the head of the list,      *)
(* which must be one: the abort is not reached.                               *)
LEMMA RUnlockLastInv == ASSUME IInv, NEW t \in Thread, RUnlockLast(t) PROVE IInv'
<1>1. /\ pc[t] = "reading" /\ readers' = readers - 1 /\ readers' = 0 /\ queue # <<>>
      /\ LockFree
  BY DEF RUnlockLast, Ready
<1>2. Reads(t) /\ ~Writes(t)
  BY <1>1 DEF Reads, Writes, WWaiting
<1>3. \A u \in Thread : ~Writes(u) /\ pc[u] \notin Looping
  BY <1>1, <1>2 DEF IInv, Exclusion, LockFree
<1>4. HeadIs("QueuingW")
  BY <1>1, <1>3 DEF IInv, Exclusion, NoVainWait, TypeOK
<1>5. writer' = 1 /\ Unchain(t, "rel") /\ state' = state
  BY <1>4 DEF RUnlockLast, Unchain
<1>6. \A u \in Thread : u # t => pc[u] \notin Active
  <2>. SUFFICES ASSUME NEW u \in Thread, u # t, pc[u] \in Waking PROVE FALSE
    BY <1>3 DEF Active
  <2>1. PICK w \in Thread : /\ pc[w] \in QueuedR \cup QueuedW
                            /\ mp[w] = mp[u] /\ ~InQueue(mp[u])
    BY DEF IInv, WakeUpMeets
  <2>2. w # t /\ (Reads(w) \/ Writes(w))
    BY <2>1, <1>1 DEF Reads, Writes, QueuedR, QueuedW, RWaiting, WWaiting
  <2>3. Reads(w)
    BY <2>2, <1>3
  <2>. DEFINE R == {x \in Thread : Reads(x)}
  <2>4. R \subseteq Thread /\ IsFiniteSet(Thread) /\ t \in R /\ w \in R
    BY <2>3, <1>2, ReadersFinite
  <2>5. Cardinality(R) = 1
    BY <1>1, InvCounts DEF Counted
  <2>6. Cardinality(R) = 1 => R = {t}
    BY ONLY <2>4, OneLess
  <2>. QED
    BY <2>2, <2>4, <2>5, <2>6
<1>7. "rel" \in Waking /\ pc[t] \in {"reading", "writing", "loop"}
  BY <1>1 DEF Waking
<1>8. PICK w \in Thread :
           /\ w # t /\ SleepsOn(w, Head(queue)) /\ ~Reads(w) /\ ~Writes(w)
           /\ Reads(w)' <=> pc[w] \in QueuedR
           /\ Writes(w)' <=> pc[w] \in QueuedW
           /\ \A u \in Thread : u # t /\ u # w =>
                (Reads(u)' <=> Reads(u)) /\ (Writes(u)' <=> Writes(u))
  BY <1>1, <1>5, <1>6, <1>7, HandOver
<1>9. /\ OwnElement' /\ ListOfSleepers' /\ WakeUpMeets' /\ OneActive'
      /\ \A u \in Thread : u # t => pc'[u] = pc[u]
      /\ pc'[t] = "rel"
  BY <1>1, <1>5, <1>6, <1>7, HandOver
<1>10. ~Reads(t)' /\ ~Writes(t)' /\ ~Reads(w)' /\ Writes(w)'
  BY <1>4, <1>8, <1>9 DEF HeadIs, SleepsOn, QueuedR, QueuedW, Reads, Writes, RWaiting, WWaiting
<1>11. Counted'
  BY <1>1, <1>2, <1>8, <1>10, InvCounts, ReaderGoes
<1>12. \A u \in Thread : ~Reads(u)' /\ pc'[u] \notin Looping
  <2>1. \A u \in Thread : Reads(u) => u = t
    BY <1>1, <1>2, <1>8, <1>10, InvCounts, ReaderGoes
  <2>. QED
    BY <2>1, <1>3, <1>8, <1>9, <1>10 DEF Looping
<1>13. Exclusion'
  BY <1>3, <1>5, <1>8, <1>10, <1>11, <1>12 DEF Exclusion, Counted
<1>14. TypeOK'
  <2>1. Head(queue) \in Qlp /\ Tail(queue) \in Seq(Qlp)
    BY <1>1, TailList DEF IInv, TypeOK
  <2>. QED
    BY <2>1, <1>1, <1>5 DEF IInv, TypeOK, Unchain, Goto, Location, Waking, poolvars
<1>15. NoVainWait'
  BY <1>5, <1>9 DEF IInv, NoVainWait
<1>16. ReadersOnly'
  BY <1>12 DEF ReadersOnly
<1>. QED
  BY <1>9, <1>13, <1>14, <1>15, <1>16 DEF IInv

(* The writer goes and nobody waits.                                          *)
LEMMA WUnlockInv == ASSUME IInv, NEW t \in Thread, WUnlock(t) PROVE IInv'
<1>1. /\ pc[t] = "writing" /\ writer' = 0 /\ queue = <<>>
      /\ Goto(t, "idle") /\ UNCHANGED <<readers, queue, state, mp, inuse, hint>>
      /\ LockFree
  BY DEF WUnlock, Ready, poolvars
<1>2. pc[t] \notin Waits \cup Waking /\ "idle" \notin Waits \cup Active
  BY <1>1 DEF Waits, RWaiting, WWaiting, Active, Waking, Looping
<1>3. /\ OwnElement' /\ ListOfSleepers' /\ WakeUpMeets' /\ OneActive'
      /\ \A u \in Thread : u # t => (Reads(u)' <=> Reads(u)) /\ (Writes(u)' <=> Writes(u))
      /\ \A u \in Thread : u # t => pc'[u] = pc[u]
      /\ pc'[t] = "idle"
  BY <1>1, <1>2, QuietStep
<1>4. ~Reads(t) /\ Writes(t) /\ ~Reads(t)' /\ ~Writes(t)'
  BY <1>1, <1>3 DEF Reads, Writes, RWaiting, WWaiting
<1>5. Counted'
  BY <1>1, <1>3, <1>4, InvCounts, ReadersStay
<1>6. \A u \in Thread : ~Writes(u)' /\ pc'[u] \notin Looping
  BY <1>1, <1>3, <1>4 DEF IInv, Exclusion, LockFree, Looping
<1>7. Exclusion'
  BY <1>1, <1>5, <1>6 DEF Exclusion, Counted
<1>8. TypeOK'
  BY <1>1 DEF IInv, TypeOK, Goto, Location
<1>9. NoVainWait'
  BY <1>1, <1>3 DEF IInv, NoVainWait
<1>10. ReadersOnly'
  BY <1>6 DEF ReadersOnly
<1>. QED
  BY <1>3, <1>7, <1>8, <1>9, <1>10 DEF IInv

(* While one writes, nobody else is inside runlock or wunlock.                *)
LEMMA WriterAlone ==
  ASSUME IInv, NEW t \in Thread, pc[t] = "writing", LockFree
  PROVE  \A u \in Thread : pc[u] \notin Active
<1>1. Writes(t)
  BY DEF Writes
<1>. SUFFICES ASSUME NEW u \in Thread, pc[u] \in Waking PROVE FALSE
  BY DEF Active, LockFree
<1>2. PICK w \in Thread : /\ pc[w] \in QueuedR \cup QueuedW
                          /\ mp[w] = mp[u] /\ ~InQueue(mp[u])
  BY DEF IInv, WakeUpMeets
<1>3. w # t /\ (Reads(w) \/ Writes(w))
  BY <1>2 DEF Reads, Writes, QueuedR, QueuedW, RWaiting, WWaiting
<1>. QED
  BY <1>1, <1>3 DEF IInv, Exclusion

(* The writer hands the lock to the writer at the head of the list.           *)
LEMMA WUnlockToWriterInv == ASSUME IInv, NEW t \in Thread, WUnlockToWriter(t) PROVE IInv'
<1>1. /\ pc[t] = "writing" /\ HeadIs("QueuingW") /\ queue # <<>> /\ LockFree
      /\ Unchain(t, "rel") /\ readers' = readers /\ writer' = writer /\ state' = state
  BY DEF WUnlockToWriter, Ready, HeadIs, Unchain
<1>2. ~Reads(t) /\ Writes(t)
  BY <1>1 DEF Reads, Writes, RWaiting
<1>3. \A u \in Thread : pc[u] \notin Active
  BY <1>1, WriterAlone
<1>4. "rel" \in Waking /\ pc[t] \in {"reading", "writing", "loop"}
  BY <1>1 DEF Waking
<1>5. PICK w \in Thread :
           /\ w # t /\ SleepsOn(w, Head(queue)) /\ ~Reads(w) /\ ~Writes(w)
           /\ Reads(w)' <=> pc[w] \in QueuedR
           /\ Writes(w)' <=> pc[w] \in QueuedW
           /\ \A u \in Thread : u # t /\ u # w =>
                (Reads(u)' <=> Reads(u)) /\ (Writes(u)' <=> Writes(u))
  BY <1>1, <1>3, <1>4, HandOver
<1>6. /\ OwnElement' /\ ListOfSleepers' /\ WakeUpMeets' /\ OneActive'
      /\ \A u \in Thread : u # t => pc'[u] = pc[u]
      /\ pc'[t] = "rel"
  BY <1>1, <1>3, <1>4, HandOver
<1>7. ~Reads(t)' /\ ~Writes(t)' /\ ~Reads(w)' /\ Writes(w)'
  BY <1>1, <1>5, <1>6 DEF HeadIs, SleepsOn, QueuedR, QueuedW, Reads, Writes, RWaiting, WWaiting
<1>8. \A u \in Thread : Reads(u)' <=> Reads(u)
  BY <1>2, <1>5, <1>7
<1>9. Counted'
  BY <1>1, <1>8, InvCounts, ReadersStay
<1>10. \A u \in Thread : /\ Writes(u)' <=> u = w
                         /\ ~Reads(u)' /\ pc'[u] \notin Looping
  BY <1>2, <1>3, <1>5, <1>6, <1>7, <1>8 DEF IInv, Exclusion, Active, Looping
<1>11. writer' = 1
  BY <1>1, <1>2 DEF IInv, Exclusion
<1>12. Exclusion'
  BY <1>9, <1>10, <1>11 DEF Exclusion, Counted
<1>13. TypeOK'
  <2>1. Head(queue) \in Qlp /\ Tail(queue) \in Seq(Qlp)
    BY <1>1, TailList DEF IInv, TypeOK
  <2>. QED
    BY <2>1, <1>1 DEF IInv, TypeOK, Unchain, Goto, Location, Waking, poolvars
<1>14. NoVainWait'
  BY <1>6, <1>11 DEF IInv, NoVainWait
<1>15. ReadersOnly'
  BY <1>10 DEF ReadersOnly
<1>. QED
  BY <1>6, <1>12, <1>13, <1>14, <1>15 DEF IInv

(* Each element of the list is a reader's or a writer's: wunlock, which finds *)
(* one at the head that is no writer's, does not abort but wakes a reader.    *)
LEMMA WakesReader ==
  ASSUME IInv, NEW t \in Thread, WakeReader(t)
  PROVE  /\ HeadIs("QueuingR") /\ queue # <<>> /\ readers' = readers + 1 /\ writer' = writer
         /\ Unchain(t, "wake") /\ state' = state
         /\ (pc[t] = "writing" /\ LockFree) \/ pc[t] = "loop"
<1>1. queue # <<>>
  BY DEF WakeReader, HeadIs
<1>2. PICK w \in Thread : SleepsOn(w, Head(queue))
  BY <1>1, HeadSleeper DEF IInv
<1>3. state[Head(queue)] \in {"QueuingR", "QueuingW"}
  BY <1>2 DEF SleepsOn
<1>4. HeadIs("QueuingR")
  BY <1>1, <1>3 DEF WakeReader, HeadIs
<1>. QED
  BY <1>1, <1>4 DEF WakeReader, Ready, Unchain

(* wunlock's loop counts in the reader at the head of the list; the writer is *)
(* no writer any more from the first one on.                                  *)
LEMMA WakeReaderInv == ASSUME IInv, NEW t \in Thread, WakeReader(t) PROVE IInv'
<1>1. /\ HeadIs("QueuingR") /\ queue # <<>> /\ readers' = readers + 1 /\ writer' = writer
      /\ Unchain(t, "wake") /\ state' = state
      /\ (pc[t] = "writing" /\ LockFree) \/ pc[t] = "loop"
  BY WakesReader
<1>2. \A u \in Thread : u # t => pc[u] \notin Active
  BY <1>1, WriterAlone DEF IInv, OneActive, Active, Looping
<1>3. \A u \in Thread : u # t => ~Writes(u)
  BY <1>1 DEF IInv, Exclusion, ReadersOnly, Writes, Looping
<1>4. "wake" \in Waking /\ pc[t] \in {"reading", "writing", "loop"}
  BY <1>1 DEF Waking
<1>5. PICK w \in Thread :
           /\ w # t /\ SleepsOn(w, Head(queue)) /\ ~Reads(w) /\ ~Writes(w)
           /\ Reads(w)' <=> pc[w] \in QueuedR
           /\ Writes(w)' <=> pc[w] \in QueuedW
           /\ \A u \in Thread : u # t /\ u # w =>
                (Reads(u)' <=> Reads(u)) /\ (Writes(u)' <=> Writes(u))
  BY <1>1, <1>2, <1>4, HandOver
<1>6. /\ OwnElement' /\ ListOfSleepers' /\ WakeUpMeets' /\ OneActive'
      /\ \A u \in Thread : u # t => pc'[u] = pc[u]
      /\ pc'[t] = "wake"
  BY <1>1, <1>2, <1>4, HandOver
<1>7. /\ ~Reads(t) /\ ~Reads(t)' /\ ~Writes(t)' /\ Reads(w)' /\ ~Writes(w)'
  BY <1>1, <1>5, <1>6 DEF HeadIs, SleepsOn, QueuedR, QueuedW, Reads, Writes, RWaiting, WWaiting
<1>8. \A u \in Thread : u # w => (Reads(u)' <=> Reads(u))
  BY <1>5, <1>7
<1>9. Counted'
  BY <1>1, <1>5, <1>7, <1>8, InvCounts, ReaderComes
<1>10. \A u \in Thread : ~Writes(u)'
  BY <1>3, <1>5, <1>7
<1>11. writer' = 1 /\ pc'[t] \in Looping
  BY <1>1, <1>6 DEF IInv, Exclusion, Looping, Writes
<1>12. Exclusion'
  BY <1>9, <1>10, <1>11 DEF Exclusion, Counted
<1>13. TypeOK'
  <2>1. Head(queue) \in Qlp /\ Tail(queue) \in Seq(Qlp)
    BY <1>1, TailList DEF IInv, TypeOK
  <2>. QED
    BY <2>1, <1>1, <1>9 DEF IInv, TypeOK, Counted, Unchain, Goto, Location, Waking, poolvars
<1>14. NoVainWait'
  BY <1>6, <1>11 DEF IInv, NoVainWait
<1>15. ReadersOnly'
  <2>1. readers' > 0
    BY <1>1, InvCounts DEF Counted
  <2>. QED
    BY <1>10, <2>1 DEF ReadersOnly
<1>. QED
  BY <1>6, <1>12, <1>13, <1>14, <1>15 DEF IInv

(* At the end of the loop the lock is the readers', and a writer is next.     *)
LEMMA WakeDoneInv == ASSUME IInv, NEW t \in Thread, WakeDone(t) PROVE IInv'
<1>1. /\ pc[t] = "loop" /\ ~HeadIs("QueuingR") /\ writer' = 0
      /\ Goto(t, "idle") /\ UNCHANGED <<readers, queue, state, mp, inuse, hint>>
  BY DEF WakeDone, poolvars
<1>2. pc[t] \notin Waits \cup Waking /\ "idle" \notin Waits \cup Active
  BY <1>1 DEF Waits, RWaiting, WWaiting, Active, Waking, Looping
<1>3. /\ OwnElement' /\ ListOfSleepers' /\ WakeUpMeets' /\ OneActive'
      /\ \A u \in Thread : u # t => (Reads(u)' <=> Reads(u)) /\ (Writes(u)' <=> Writes(u))
      /\ \A u \in Thread : u # t => pc'[u] = pc[u]
      /\ pc'[t] = "idle"
  BY <1>1, <1>2, QuietStep
<1>4. ~Reads(t) /\ ~Writes(t) /\ ~Reads(t)' /\ ~Writes(t)'
  BY <1>1, <1>3 DEF Reads, Writes, RWaiting, WWaiting
<1>5. Counted'
  BY <1>1, <1>3, <1>4, InvCounts, ReadersStay
<1>6. \A u \in Thread : ~Writes(u)' /\ pc'[u] \notin Looping
  BY <1>1, <1>3, <1>4 DEF IInv, ReadersOnly, OneActive, Active, Looping
<1>7. Exclusion'
  BY <1>1, <1>5, <1>6 DEF Exclusion, Counted
<1>8. TypeOK'
  BY <1>1 DEF IInv, TypeOK, Goto, Location
<1>9. NoVainWait'
  <2>1. readers > 0
    BY <1>1 DEF IInv, ReadersOnly, Looping
  <2>2. queue # <<>> => HeadIs("QueuingW")
    BY <1>1, HeadSleeper DEF IInv, HeadIs, SleepsOn
  <2>. QED
    BY <1>1, <1>3, <2>1, <2>2 DEF IInv, NoVainWait, HeadIs
<1>10. ReadersOnly'
  BY <1>6 DEF ReadersOnly
<1>. QED
  BY <1>3, <1>7, <1>8, <1>9, <1>10 DEF IInv

(* Parking changes nothing but that the thread sleeps.                        *)
LEMMA ParkInv == ASSUME IInv, NEW t \in Thread, Park(t) PROVE IInv' /\ Unnoticed
<1>1. /\ UNCHANGED <<readers, writer, queue, state, mp, inuse, hint>>
      /\ \/ pc[t] = "renq" /\ pc' = [pc EXCEPT ![t] = "rwait"]
         \/ pc[t] = "wenq" /\ pc' = [pc EXCEPT ![t] = "wwait"]
         \/ pc[t] = "rel" /\ pc' = [pc EXCEPT ![t] = "relwait"]
         \/ pc[t] = "wake" /\ pc' = [pc EXCEPT ![t] = "wakewait"]
      /\ pc \in [Thread -> Location]
  BY DEF Park, AtRendezvous, ParkedAt, Enqueued, Goto, qvars, poolvars, IInv, TypeOK
<1>2. \A u \in Thread :
         /\ pc'[u] \in RWaiting <=> pc[u] \in RWaiting
         /\ pc'[u] \in WWaiting <=> pc[u] \in WWaiting
         /\ pc'[u] \in QueuedR <=> pc[u] \in QueuedR
         /\ pc'[u] \in QueuedW <=> pc[u] \in QueuedW
         /\ pc'[u] \in Waking <=> pc[u] \in Waking
         /\ pc'[u] \in Looping <=> pc[u] \in Looping
         /\ pc'[u] = "reading" <=> pc[u] = "reading"
         /\ pc'[u] = "writing" <=> pc[u] = "writing"
         /\ pc'[u] = "abort" <=> pc[u] = "abort"
  BY <1>1 DEF RWaiting, WWaiting, QueuedR, QueuedW, Waking, Looping
<1>3. \A u \in Thread : (Reads(u)' <=> Reads(u)) /\ (Writes(u)' <=> Writes(u))
  BY <1>1, <1>2 DEF Reads, Writes, InQueue
<1>4. Exclusion'
  BY <1>1, <1>2, <1>3, InvCounts, ReadersStay DEF IInv, Exclusion, Counted
<1>5. TypeOK'
  BY <1>1 DEF IInv, TypeOK, Location, RWaiting, WWaiting, Waking, Looping
<1>6. OwnElement' /\ ListOfSleepers'
  BY <1>1, <1>2 DEF IInv, OwnElement, ListOfSleepers, SleepsOn, Waits
<1>7. WakeUpMeets' /\ OneActive'
  BY <1>1, <1>2 DEF IInv, WakeUpMeets, OneActive, Active, InQueue
<1>8. NoVainWait' /\ ReadersOnly'
  BY <1>1, <1>2, <1>3 DEF IInv, NoVainWait, ReadersOnly, HeadIs
<1>9. Unnoticed
  BY <1>1, <1>2, <1>3 DEF Unnoticed, Sleeps
<1>. QED
  BY <1>4, <1>5, <1>6, <1>7, <1>8, <1>9 DEF IInv

(* Those who meet are a thread that wakes and the sleeper it wakes: two       *)
(* sleepers have different elements, and two threads never wake at once.      *)
LEMMA MeetInv ==
  ASSUME IInv, NEW t \in Thread, NEW u \in Thread, Meet(t, u)
  PROVE  IInv' /\ Unnoticed
<1>1. /\ UNCHANGED <<readers, writer, queue, state, mp, inuse, hint>>
      /\ mp[u] = mp[t] /\ pc \in [Thread -> Location]
      /\ pc' = [pc EXCEPT ![t] = After(pc[t]), ![u] = After(pc[u])]
      /\ pc[t] \in {"renq", "wenq", "rel", "wake"}
      /\ pc[u] \in {"rwait", "wwait", "relwait", "wakewait"}
  BY DEF Meet, AtRendezvous, Enqueued, Parked, qvars, poolvars, IInv, TypeOK
<1>2. PICK v \in Thread, w \in Thread :
           /\ v # w /\ pc[v] \in Waking /\ pc[w] \in QueuedR \cup QueuedW /\ mp[v] = mp[w]
           /\ \A x \in Thread : pc'[x] = IF x = v \/ x = w THEN After(pc[x]) ELSE pc[x]
  <2>1. t # u /\ \A x \in Thread : pc'[x] = IF x = t \/ x = u THEN After(pc[x]) ELSE pc[x]
    BY <1>1
  <2>2. CASE pc[t] \in Waking
    <3>1. pc[u] \in QueuedR \cup QueuedW
      BY <2>1, <2>2, <1>1 DEF IInv, OneActive, Active, Waking, QueuedR, QueuedW
    <3>. QED
      BY <2>1, <2>2, <3>1, <1>1
  <2>3. CASE pc[t] \notin Waking
    <3>1. pc[t] \in QueuedR \cup QueuedW
      BY <2>3, <1>1 DEF Waking, QueuedR, QueuedW
    <3>2. pc[u] \in Waking
      BY <2>1, <3>1, <1>1 DEF IInv, OwnElement, Waits, RWaiting, WWaiting, Waking,
         QueuedR, QueuedW
    <3>. QED
      BY <2>1, <3>1, <3>2, <1>1
  <2>. QED
    BY <2>2, <2>3
<1>3. /\ \/ pc[v] \in {"rel", "relwait"} /\ pc'[v] = "idle"
         \/ pc[v] \in Looping /\ pc'[v] = "loop"
      /\ \/ pc[w] \in QueuedR /\ pc'[w] = "rwoken"
         \/ pc[w] \in QueuedW /\ pc'[w] = "wwoken"
  BY <1>2 DEF After, Waking, Looping, QueuedR, QueuedW
<1>4. ~InQueue(mp[w])
  BY <1>2 DEF IInv, WakeUpMeets
<1>5. \A x \in Thread : x # v /\ x # w => pc'[x] = pc[x]
  BY <1>2
<1>6. \A x \in Thread : /\ pc'[x] \in RWaiting <=> pc[x] \in RWaiting
                        /\ pc'[x] \in WWaiting <=> pc[x] \in WWaiting
                        /\ pc'[x] \in Looping <=> pc[x] \in Looping
                        /\ pc'[x] = "reading" <=> pc[x] = "reading"
                        /\ pc'[x] = "writing" <=> pc[x] = "writing"
                        /\ pc'[x] # "abort"
  BY <1>2, <1>3, <1>5 DEF IInv, NoVainWait, RWaiting, WWaiting, QueuedR, QueuedW, Looping, Waking
<1>7. \A x \in Thread : (Reads(x)' <=> Reads(x)) /\ (Writes(x)' <=> Writes(x))
  BY <1>1, <1>6 DEF Reads, Writes, InQueue
<1>8. Exclusion'
  BY <1>1, <1>6, <1>7, InvCounts, ReadersStay DEF IInv, Exclusion, Counted
<1>9. TypeOK'
  <2>1. \A x \in Thread : pc'[x] \in Location
    BY <1>1, <1>3, <1>5 DEF Location, RWaiting, WWaiting, Looping
  <2>2. pc' \in [Thread -> Location]
    BY <1>1, <2>1
  <2>. QED
    BY <1>1, <2>2 DEF IInv, TypeOK
<1>10. OwnElement'
  BY <1>1, <1>6 DEF IInv, OwnElement, Waits
<1>11. ListOfSleepers'
  <2>1. \A i \in 1..Len(queue) : \E x \in Thread : x # v /\ x # w /\ SleepsOn(x, queue[i])
    BY <1>2, <1>4 DEF IInv, ListOfSleepers, SleepsOn, InQueue, Waking, QueuedR, QueuedW
  <2>. QED
    BY <1>1, <1>5, <2>1 DEF IInv, ListOfSleepers, SleepsOn
<1>12. \A x \in Thread : pc'[x] \notin Waking
  BY <1>2, <1>3, <1>5 DEF IInv, OneActive, Active, Waking
<1>13. WakeUpMeets' /\ OneActive'
  BY <1>6, <1>12 DEF IInv, WakeUpMeets, OneActive, Active
<1>14. NoVainWait' /\ ReadersOnly'
  BY <1>1, <1>6, <1>7 DEF IInv, NoVainWait, ReadersOnly, HeadIs
<1>15. Unnoticed
  BY <1>1, <1>3, <1>5, <1>6, <1>7 DEF Unnoticed, Sleeps, QueuedR, QueuedW, Looping
<1>. QED
  BY <1>8, <1>9, <1>10, <1>11, <1>13, <1>14, <1>15 DEF IInv

(* Back from the rendezvous, the waiter gives its element back; the lock is   *)
(* its own already.                                                           *)
LEMMA ReturnInv == ASSUME IInv, NEW t \in Thread, Return(t) PROVE IInv' /\ Unnoticed
<1>1. /\ UNCHANGED <<readers, writer, queue, state, mp, hint>> /\ inuse' = inuse \ {mp[t]}
      /\ pc \in [Thread -> Location]
      /\ \/ pc[t] = "rwoken" /\ pc' = [pc EXCEPT ![t] = "reading"]
         \/ pc[t] = "wwoken" /\ pc' = [pc EXCEPT ![t] = "writing"]
  BY DEF Return, PutQlp, Goto, qvars, IInv, TypeOK
<1>2. ~InQueue(mp[t])
  BY <1>1, AwakeOffList DEF IInv
<1>3. \A u \in Thread : u # t => pc'[u] = pc[u]
  BY <1>1
<1>4. \/ pc[t] = "rwoken" /\ pc'[t] = "reading"
      \/ pc[t] = "wwoken" /\ pc'[t] = "writing"
  BY <1>1
<1>5. \A u \in Thread : (Reads(u)' <=> Reads(u)) /\ (Writes(u)' <=> Writes(u))
  BY <1>1, <1>2, <1>3, <1>4 DEF Reads, Writes, InQueue, RWaiting, WWaiting
<1>6. \A u \in Thread : /\ pc'[u] \in Waking <=> pc[u] \in Waking
                        /\ pc'[u] \in Looping <=> pc[u] \in Looping
                        /\ pc'[u] \in QueuedR <=> pc[u] \in QueuedR
                        /\ pc'[u] \in QueuedW <=> pc[u] \in QueuedW
                        /\ pc'[u] \in Waits <=> pc[u] \in Waits /\ u # t
                        /\ pc'[u] # "abort"
  BY <1>3, <1>4 DEF IInv, NoVainWait, Waking, Looping, QueuedR, QueuedW, Waits, RWaiting, WWaiting
<1>7. Exclusion'
  BY <1>1, <1>5, <1>6, InvCounts, ReadersStay DEF IInv, Exclusion, Counted
<1>8. TypeOK'
  BY <1>1 DEF IInv, TypeOK, Location
<1>9. OwnElement'
  <2>1. pc[t] \in Waits
    BY <1>4 DEF Waits, RWaiting, WWaiting
  <2>2. \A u \in Thread : u # t /\ pc[u] \in Waits => mp[u] # mp[t]
    BY <2>1 DEF IInv, OwnElement
  <2>. QED
    BY <1>1, <1>6, <2>2 DEF IInv, OwnElement
<1>10. ListOfSleepers'
  BY <1>1, <1>6 DEF IInv, ListOfSleepers, SleepsOn
<1>11. WakeUpMeets' /\ OneActive'
  BY <1>1, <1>6 DEF IInv, WakeUpMeets, OneActive, Active, InQueue
<1>12. NoVainWait' /\ ReadersOnly'
  BY <1>1, <1>5, <1>6 DEF IInv, NoVainWait, ReadersOnly, HeadIs
<1>13. Unnoticed
  BY <1>1, <1>5, <1>6 DEF Unnoticed, Sleeps
<1>. QED
  BY <1>7, <1>8, <1>9, <1>10, <1>11, <1>12, <1>13 DEF IInv

-----------------------------------------------------------------------------
(* Nobody has the lock at first, and nobody waits.                            *)
LEMMA InitInv == Init => IInv
<1>. SUFFICES ASSUME Init PROVE IInv
  OBVIOUS
<1>1. /\ queue = <<>> /\ inuse = {} /\ hint \in Qlp /\ readers = 0 /\ writer = 0
      /\ state \in [Qlp -> {"Queuing"}] /\ pc = [t \in Thread |-> "idle"]
      /\ mp = [t \in Thread |-> NoQlp]
  BY DEF Init, QlpInit
<1>2. TypeOK
  <2>1. queue \in Seq(Qlp)
    BY <1>1, EmptySeq
  <2>2. pc \in [Thread -> Location] /\ mp \in [Thread -> Qlp \cup {NoQlp}]
    BY <1>1 DEF Location
  <2>. QED
    BY <1>1, <2>1, <2>2 DEF TypeOK
<1>3. \A t \in Thread : pc[t] = "idle"
  BY <1>1
<1>4. \A t \in Thread : ~Reads(t) /\ ~Writes(t) /\ pc[t] \notin Active \cup Waits \cup {"abort"}
  BY <1>3 DEF Reads, Writes, RWaiting, WWaiting, Active, Waking, Looping, Waits
<1>5. Exclusion
  <2>1. {t \in Thread : Reads(t)} = {}
    BY <1>4
  <2>2. Cardinality({t \in Thread : Reads(t)}) = 0
    BY <2>1, FS_EmptySet
  <2>. QED
    BY <1>1, <1>4, <2>2 DEF Exclusion, Active
<1>6. NoVainWait /\ ReadersOnly
  BY <1>1, <1>4 DEF NoVainWait, ReadersOnly, Active
<1>7. OwnElement /\ WakeUpMeets /\ OneActive
  BY <1>4 DEF OwnElement, WakeUpMeets, OneActive, Active
<1>8. ListOfSleepers
  BY <1>1 DEF ListOfSleepers
<1>. QED
  BY <1>2, <1>5, <1>6, <1>7, <1>8 DEF IInv

(* The invariant of the reader/writer lock, for every number of threads and   *)
(* every size of the pool.                                                    *)
THEOREM Invariance == Spec => []IInv
<1>1. IInv /\ [Next]_vars => IInv'
  <2>. SUFFICES ASSUME IInv, [Next]_vars PROVE IInv'
    OBVIOUS
  <2>1. CASE UNCHANGED vars
    <3>. UNCHANGED <<readers, writer, queue, state, pc, mp, inuse, hint>>
      BY <2>1 DEF vars, poolvars, qvars
    <3>. QED
      BY DEF IInv, TypeOK, Exclusion, NoVainWait, OwnElement, ListOfSleepers, WakeUpMeets,
         OneActive, ReadersOnly, Reads, Writes, InQueue, SleepsOn, HeadIs
  <2>2. ASSUME NEW t \in Thread, Step(t) PROVE IInv'
    BY <2>2, RLockInv, WLockInv, WaitInv, ExhaustInv, RUnlockInv, RUnlockLastInv, WUnlockInv,
       WUnlockToWriterInv, WakeReaderInv, WakeDoneInv, ParkInv, MeetInv, ReturnInv
       DEF Step, Unlock, Rendezvous
  <2>. QED
    BY <2>1, <2>2 DEF Next
<1>. QED
  BY InitInv, <1>1, PTL DEF Spec

(* Every variable of the lock keeps its type; the counter of readers, which   *)
(* runlock decrements, never falls below zero.                                *)
THEOREM TypeCorrect == Spec => []TypeOK
BY Invariance, PTL DEF IInv

(* A writer has the lock alone, from the hand-over on, and q->readers and     *)
(* q->writer tell who has it.                                                 *)
THEOREM Exclusive == Spec => []Exclusion
BY Invariance, PTL DEF IInv

(* Nobody is left waiting for a free lock, readers hold back only those who   *)
(* queue behind a writer, and the abort that runlock and wunlock each have    *)
(* for a head of the list that they do not expect is not taken: see           *)
(* NoVainWait's own second part, and WakesReader.                             *)
THEOREM NoneWaitsInVain == Spec => []NoVainWait
BY Invariance, PTL DEF IInv

(* The list holds elements of sleeping waiters, each of its own kind, once.   *)
THEOREM ListIsOfSleepers == Spec => [](OwnElement /\ ListOfSleepers)
BY Invariance, PTL DEF IInv

(* Whoever runlock or wunlock goes to wake is there to be woken.              *)
THEOREM WakeUpFindsWaiter == Spec => []WakeUpMeets
BY Invariance, PTL DEF IInv

-----------------------------------------------------------------------------
(* THE PROMISE *)

(* While wunlock lets the readers in, the first k of the list go with them:   *)
(* the readers up to the first writer. Otherwise nobody does.                 *)
Letting == \E t \in Thread : pc[t] \in Looping
Front(k) == /\ k \in 0..Len(queue)
            /\ Letting => /\ \A j \in 1..k : state[queue[j]] = "QueuingR"
                          /\ k # Len(queue) => state[queue[k + 1]] # "QueuingR"
            /\ ~Letting => k = 0

(* who has the lock, and those of the list that go with them *)
Holders == {t \in Thread : Reads(t) \/ Writes(t)}
Led(k) == {WaiterOf(queue[i]) : i \in 1..k}
Kind(n) == IF state[n] = "QueuingR" THEN "R" ELSE "W"
Requests == Thread \X {"R", "W"}

(* Each element of the list names the thread that sleeps on it. *)
Named == \A i \in 1..Len(queue) :
            /\ WaiterOf(queue[i]) \in Thread /\ Sleeps(WaiterOf(queue[i]), queue[i])
            /\ \A u \in Thread : Sleeps(u, queue[i]) => WaiterOf(queue[i]) = u

(* What the abstract lock sees. *)
Seen(k) == /\ batch = Holders \cup Led(k)
           /\ line \in Seq(Requests) /\ Len(queue) \in Nat /\ Len(line) = Len(queue) - k
           /\ \A i \in 1..(Len(queue) - k) :
                 line[i] = <<WaiterOf(queue[i + k]), Kind(queue[i + k])>>

Mapped == Named /\ \A k : Front(k) => Seen(k)

(* There is always such a front of the list.                                  *)
LEMMA FrontExists == ASSUME IInv PROVE \E k \in 0..Len(queue) : Front(k)
<1>1. Len(queue) \in Nat
  BY DEF IInv, TypeOK
<1>2. CASE ~Letting
  BY <1>1, <1>2 DEF Front
<1>3. CASE Letting
  <2>. DEFINE s == {j \in 1..Len(queue) : state[queue[j]] # "QueuingR"}
  <2>1. CASE s = {}
    BY <1>1, <1>3, <2>1 DEF Front
  <2>2. CASE s # {}
    <3>1. s \subseteq 1..Len(queue)
      OBVIOUS
    <3>2. PICK x \in s : \A y \in s : x <= y
      <4>. HIDE DEF s
      <4>. QED
        BY <1>1, <2>2, <3>1, LeastExists
    <3>3. x - 1 \in 0..Len(queue) /\ (x - 1) + 1 = x /\ state[queue[x]] # "QueuingR"
      BY <1>1, <3>2
    <3>4. \A j \in 1..(x - 1) : state[queue[j]] = "QueuingR"
      BY <1>1, <3>2
    <3>5. Front(x - 1)
      BY <1>3, <3>3, <3>4 DEF Front
    <3>. QED
      BY <3>3, <3>5
  <2>. QED
    BY <2>1, <2>2
<1>. QED
  BY <1>2, <1>3

(* The mapping of the refinement, from the invariant,                         *)
LEMMA Sees == IInv => Mapped
<1>. SUFFICES ASSUME IInv PROVE Mapped
  OBVIOUS
<1>1. queue \in Seq(Qlp) /\ Len(queue) \in Nat
  BY DEF IInv, TypeOK
<1>2. Named
  <2>. SUFFICES ASSUME NEW i \in 1..Len(queue)
                PROVE  /\ WaiterOf(queue[i]) \in Thread /\ Sleeps(WaiterOf(queue[i]), queue[i])
                       /\ \A u \in Thread : Sleeps(u, queue[i]) => WaiterOf(queue[i]) = u
    BY DEF Named
  <2>1. PICK u \in Thread : SleepsOn(u, queue[i])
    BY DEF IInv, ListOfSleepers
  <2>2. pc[u] \in QueuedR \cup QueuedW /\ pc[u] \in RWaiting \cup WWaiting /\ mp[u] = queue[i]
    BY <2>1 DEF SleepsOn, QueuedR, QueuedW, RWaiting, WWaiting
  <2>3. \A v \in Thread : pc[v] \in RWaiting \cup WWaiting /\ mp[v] = queue[i] => v = u
    BY <2>2 DEF IInv, OwnElement, Waits
  <2>4. WaiterOf(queue[i]) = u
    BY <2>2, <2>3 DEF WaiterOf
  <2>. QED
    BY <2>2, <2>3, <2>4 DEF Sleeps, QueuedR, QueuedW, RWaiting, WWaiting
<1>3. ASSUME NEW k, Front(k) PROVE Seen(k)
  <2>1. k \in 0..Len(queue)
    BY <1>3 DEF Front
  <2>2. Behind = 1..k
    <3>1. CASE ~Letting
      <4>1. k = 0 /\ Behind = {} /\ 1..0 = {}
        BY <1>3, <3>1 DEF Front, Behind, Letting
      <4>. QED
        BY <4>1
    <3>2. CASE Letting
      <4>1. Behind = {i \in 1..Len(queue) : \A j \in 1..i : state[queue[j]] = "QueuingR"}
        BY <3>2 DEF Behind, Letting
      <4>2. \A i \in 1..k : i \in Behind
        BY <1>1, <1>3, <2>1, <3>2, <4>1 DEF Front
      <4>3. ASSUME NEW i \in Behind PROVE i \in 1..k
        <5>1. SUFFICES ASSUME i > k PROVE FALSE
          BY <1>1, <2>1, <4>1
        <5>2. k + 1 \in 1..i /\ k # Len(queue)
          BY <1>1, <2>1, <4>1, <5>1
        <5>. QED
          BY <1>3, <3>2, <4>1, <5>2 DEF Front
      <4>. QED
        BY <4>2, <4>3
    <3>. QED
      BY <3>1, <3>2
  <2>3. Cardinality(Behind) = k
    BY <1>1, <2>1, <2>2, FS_Interval
  <2>4. batch = Holders \cup Led(k)
    BY <2>2 DEF batch, Holders, Led
  <2>5. line = [i \in 1..(Len(queue) - k) |-> <<WaiterOf(queue[i + k]), Kind(queue[i + k])>>]
    BY <2>3 DEF line, Kind
  <2>6. Len(queue) - k \in Nat /\ \A i \in 1..(Len(queue) - k) : i + k \in 1..Len(queue)
    BY <1>1, <2>1
  <2>7. \A i \in 1..(Len(queue) - k) :
           <<WaiterOf(queue[i + k]), Kind(queue[i + k])>> \in Requests
    BY <1>2, <2>6 DEF Named, Kind, Requests
  <2>. HIDE DEF line
  <2>8. line \in Seq(Requests) /\ Len(line) = Len(queue) - k
    BY <2>5, <2>6, <2>7
  <2>. QED
    BY <1>1, <2>4, <2>5, <2>8 DEF Seen
<1>. QED
  BY <1>2, <1>3 DEF Mapped

(* and after the step.                                                        *)
LEMMA SeesAfter == IInv' => Mapped'
BY Sees, PTL

(* The front of the list after the step.                                      *)
LEMMA FrontAfter == IInv' => (\E k \in 0..Len(queue) : Front(k))'
<1>1. IInv => \E k \in 0..Len(queue) : Front(k)
  BY FrontExists
<1>. QED
  BY <1>1, PTL

(* An element that stays in the list keeps its waiter.                        *)
LEMMA WaiterStays ==
  ASSUME IInv, IInv', NEW n, NEW i \in 1..Len(queue), queue[i] = n,
         NEW j \in 1..Len(queue)', queue'[j] = n,
         \A u \in Thread : Sleeps(u, n)' => Sleeps(u, n)
  PROVE  WaiterOf(queue[j])' = WaiterOf(queue[i])
<1>1. PICK w \in Thread : w = WaiterOf(queue[j])' /\ Sleeps(w, n)'
  BY SeesAfter DEF Mapped, Named, Sleeps
<1>. QED
  BY <1>1, Sees DEF Mapped, Named

(* While the list stays, the line does, and those of the list that go along.  *)
LEMMA LineStays ==
  ASSUME IInv, IInv', NEW k \in Nat, Front(k), Front(k)', queue' = queue, state' = state,
         \A u \in Thread : \A n : Sleeps(u, n)' => Sleeps(u, n)
  PROVE  line' = line /\ Led(k)' = Led(k)
<1>1. /\ Seen(k) /\ Seen(k)' /\ k \in 0..Len(queue)
  BY Sees, SeesAfter DEF Mapped, Front
<1>2. ASSUME NEW i \in 1..Len(queue)
      PROVE  WaiterOf(queue[i])' = WaiterOf(queue[i]) /\ Kind(queue[i])' = Kind(queue[i])
  <2>1. WaiterOf(queue[i])' = WaiterOf(queue[i])
    BY WaiterStays
  <2>. QED
    BY <2>1 DEF Kind
<1>3. Led(k)' = Led(k)
  <2>1. \A i \in 1..k : i \in 1..Len(queue)
    <3>1. Len(queue) \in Nat
      BY <1>1 DEF Seen
    <3>. QED
      BY <1>1, <3>1
  <2>2. \A i \in 1..k : WaiterOf(queue[i])' = WaiterOf(queue[i])
    BY <1>2, <2>1
  <2>. QED
    BY <2>2 DEF Led
<1>4. /\ line \in Seq(Requests) /\ line' \in Seq(Requests) /\ Len(line) = Len(queue) - k
      /\ Len(line') = Len(queue) - k /\ Len(queue) \in Nat
  <2>1. line \in Seq(Requests) /\ Len(line) = Len(queue) - k /\ Len(queue) \in Nat
    BY <1>1 DEF Seen
  <2>2. line' \in Seq(Requests) /\ Len(line)' = Len(queue)' - k
    BY <1>1 DEF Seen, Requests
  <2>. QED
    BY <2>1, <2>2
<1>5. ASSUME NEW i \in 1..Len(line') PROVE line'[i] = line[i]
  <2>1. i + k \in 1..Len(queue) /\ i \in 1..(Len(queue) - k)
    BY <1>1, <1>4
  <2>2. line[i] = <<WaiterOf(queue[i + k]), Kind(queue[i + k])>>
    BY <1>1, <2>1 DEF Seen
  <2>3. line'[i] = <<WaiterOf(queue[i + k])', Kind(queue[i + k])'>>
    BY <1>1, <2>1 DEF Seen
  <2>. QED
    BY <1>2, <2>1, <2>2, <2>3
<1>. QED
  BY <1>3, <1>4, <1>5, SeqEqual

(* With it and with the same holders nothing of the abstract lock moves.      *)
LEMMA StaysPut ==
  ASSUME IInv, IInv', NEW k \in Nat, Front(k), Front(k)', queue' = queue, state' = state,
         \A u \in Thread : \A n : Sleeps(u, n)' => Sleeps(u, n),
         \A u \in Thread : (Reads(u)' <=> Reads(u)) /\ (Writes(u)' <=> Writes(u))
  PROVE  UNCHANGED <<batch, kind, line>>
<1>1. line' = line /\ Led(k)' = Led(k)
  BY LineStays
<1>2. batch = Holders \cup Led(k) /\ batch' = Holders' \cup Led(k)'
  BY Sees, SeesAfter DEF Mapped, Seen
<1>3. Holders' = Holders /\ kind' = kind
  BY DEF Holders, kind
<1>. QED
  BY <1>1, <1>2, <1>3

(* What nobody notices in the lock, nobody notices in the abstract one.       *)
LEMMA UnnoticedMaps == ASSUME IInv, IInv', Unnoticed PROVE UNCHANGED <<batch, kind, line>>
<1>1. PICK k \in 0..Len(queue) : Front(k)
  BY FrontExists
<1>2. k \in Nat
  BY DEF IInv, TypeOK
<1>3. Letting' <=> Letting
  BY DEF Letting, Unnoticed
<1>4. Front(k)'
  BY <1>1, <1>3 DEF Front, Unnoticed
<1>. QED
  BY <1>1, <1>2, <1>4, StaysPut DEF Unnoticed

(* At the end of wunlock's loop nobody of the list is left to go along.       *)
LEMMA WakeDoneMaps ==
  ASSUME IInv, IInv', NEW t \in Thread, WakeDone(t) PROVE UNCHANGED <<batch, kind, line>>
<1>1. /\ pc[t] = "loop" /\ ~HeadIs("QueuingR") /\ UNCHANGED <<queue, state, mp>>
      /\ \A u \in Thread : pc'[u] = IF u = t THEN "idle" ELSE pc[u]
      /\ queue \in Seq(Qlp)
  BY DEF WakeDone, Goto, IInv, TypeOK
<1>2. Letting /\ ~Letting'
  <2>1. Letting
    BY <1>1 DEF Letting, Looping
  <2>2. \A u \in Thread : pc[u] \in Looping => u = t
    BY <1>1 DEF IInv, OneActive, Active, Looping
  <2>. QED
    BY <1>1, <2>1, <2>2 DEF Letting, Looping
<1>3. PICK k \in 0..Len(queue) : Front(k)
  BY FrontExists
<1>4. k = 0 /\ 0 \in Nat
  <2>1. SUFFICES ASSUME k # 0 PROVE FALSE
    OBVIOUS
  <2>2. 1 \in 1..k /\ queue # <<>> /\ Head(queue) = queue[1]
    BY <1>1, <1>3, <2>1, EmptySeq
  <2>. QED
    BY <1>1, <1>2, <1>3, <2>2 DEF Front, HeadIs
<1>5. Front(0)'
  BY <1>1, <1>2 DEF Front
<1>6. \A u \in Thread : /\ (Reads(u)' <=> Reads(u)) /\ (Writes(u)' <=> Writes(u))
                        /\ \A n : Sleeps(u, n)' => Sleeps(u, n)
  BY <1>1 DEF Reads, Writes, InQueue, Sleeps, RWaiting, WWaiting, QueuedR, QueuedW
<1>. QED
  BY <1>1, <1>3, <1>4, <1>5, <1>6, StaysPut

-----------------------------------------------------------------------------
(* When the head leaves the list, the others keep their waiters and move up.  *)
LEMMA MoveUp ==
  ASSUME IInv, IInv', queue # <<>>, queue' = Tail(queue), state' = state,
         \A u \in Thread : \A n : Sleeps(u, n)' => Sleeps(u, n)
  PROVE  /\ Len(queue) \in Nat /\ Len(queue) >= 1 /\ Len(queue)' = Len(queue) - 1
         /\ \A j \in 1..Len(queue)' : /\ WaiterOf(queue[j])' = WaiterOf(queue[j + 1])
                                      /\ Kind(queue[j])' = Kind(queue[j + 1])
                                      /\ queue'[j] = queue[j + 1]
         /\ \A k \in 0..Len(queue)' : Led(k + 1) = {WaiterOf(queue[1])} \cup Led(k)'
<1>1. /\ Len(queue) \in Nat /\ Len(queue) >= 1 /\ Len(queue)' = Len(queue) - 1
      /\ \A j \in 1..Len(queue)' : queue'[j] = queue[j + 1]
  BY TailList DEF IInv, TypeOK
<1>2. ASSUME NEW j \in 1..Len(queue)'
      PROVE  /\ WaiterOf(queue[j])' = WaiterOf(queue[j + 1])
             /\ Kind(queue[j])' = Kind(queue[j + 1])
  <2>1. j + 1 \in 1..Len(queue) /\ queue'[j] = queue[j + 1]
    BY <1>1
  <2>2. PICK n : n = queue[j + 1]
    OBVIOUS
  <2>3. WaiterOf(queue[j])' = WaiterOf(queue[j + 1])
    BY <2>1, <2>2, WaiterStays
  <2>. QED
    BY <2>1, <2>3 DEF Kind
<1>3. ASSUME NEW k \in 0..Len(queue)' PROVE Led(k + 1) = {WaiterOf(queue[1])} \cup Led(k)'
  <2>1. Led(k)' = {WaiterOf(queue[j + 1]) : j \in 1..k}
    <3>1. \A j \in 1..k : j \in 1..Len(queue)'
      BY <1>1
    <3>. QED
      BY <1>2, <3>1 DEF Led
  <2>2. ASSUME NEW i \in 1..(k + 1), i # 1 PROVE WaiterOf(queue[i]) \in Led(k)'
    <3>1. i - 1 \in 1..k /\ (i - 1) + 1 = i
      BY <1>1, <2>2
    <3>. QED
      BY <2>1, <3>1
  <2>3. \A j \in 1..k : j + 1 \in 1..(k + 1)
    BY <1>1
  <2>4. 1 \in 1..(k + 1)
    BY <1>1
  <2>. QED
    BY <2>1, <2>2, <2>3, <2>4 DEF Led
<1>. QED
  BY <1>1, <1>2, <1>3

(* Who waits at the head of the list, and for what.                           *)
LEMMA HeadWaiter ==
  ASSUME IInv, queue # <<>>
  PROVE  /\ Head(queue) = queue[1] /\ WaiterOf(queue[1]) \in Thread
         /\ SleepsOn(WaiterOf(queue[1]), Head(queue))
<1>1. Len(queue) \in Nat /\ 1 \in 1..Len(queue) /\ Head(queue) = queue[1]
  BY TailList DEF IInv, TypeOK
<1>2. PICK u \in Thread : SleepsOn(u, Head(queue))
  BY HeadSleeper DEF IInv
<1>3. WaiterOf(queue[1]) = u
  BY <1>1, <1>2, Sees DEF Mapped, Named, Sleeps, SleepsOn
<1>. QED
  BY <1>1, <1>2, <1>3

(* Taking the head off the list does not put anybody to sleep.                *)
LEMMA UnchainSleeps ==
  ASSUME IInv, NEW t \in Thread, NEW l, Unchain(t, l), l \in Waking
  PROVE  \A u \in Thread : \A n : Sleeps(u, n)' => Sleeps(u, n)
BY DEF Unchain, Goto, IInv, TypeOK, Sleeps, Waking, QueuedR, QueuedW

(* A reader that wunlock's loop lets in was one of the batch before.          *)
LEMMA LetInMaps ==
  ASSUME IInv, IInv', NEW t \in Thread, WakeReader(t), pc[t] = "loop"
  PROVE  UNCHANGED <<batch, kind, line>>
<1>1. /\ HeadIs("QueuingR") /\ queue # <<>> /\ Unchain(t, "wake") /\ state' = state
      /\ queue' = Tail(queue) /\ "wake" \in Waking /\ pc[t] \notin Waits
  BY WakesReader DEF Unchain, Waking, Waits, RWaiting, WWaiting
<1>2. PICK w \in Thread : w = WaiterOf(queue[1])
  BY <1>1, HeadWaiter
<1>3. SleepsOn(w, Head(queue)) /\ Head(queue) = queue[1]
  BY <1>1, <1>2, HeadWaiter
<1>4. /\ w # t /\ Reads(w)' /\ ~Writes(w)'
      /\ \A u \in Thread : u # t /\ u # w =>
           (Reads(u)' <=> Reads(u)) /\ (Writes(u)' <=> Writes(u))
      /\ pc'[t] = "wake"
  BY <1>1, <1>3, TakenOff DEF HeadIs, SleepsOn, QueuedR, QueuedW
<1>5. ~Reads(t) /\ ~Writes(t) /\ ~Reads(t)' /\ ~Writes(t)'
  BY <1>4 DEF Reads, Writes, RWaiting, WWaiting
<1>6. Letting /\ Letting'
  BY <1>4 DEF Letting, Looping
<1>7. kind = "R" /\ kind' = "R"
  BY <1>6 DEF kind, Letting, IInv, ReadersOnly
<1>8. PICK k \in 0..Len(queue) : Front(k)
  BY FrontExists
<1>9. /\ Len(queue) \in Nat /\ Len(queue) >= 1 /\ Len(queue)' = Len(queue) - 1
      /\ \A j \in 1..Len(queue)' : /\ WaiterOf(queue[j])' = WaiterOf(queue[j + 1])
                                   /\ Kind(queue[j])' = Kind(queue[j + 1])
                                   /\ queue'[j] = queue[j + 1]
      /\ \A m \in 0..Len(queue)' : Led(m + 1) = {WaiterOf(queue[1])} \cup Led(m)'
  BY <1>1, MoveUp, UnchainSleeps
<1>10. k # 0
  <2>1. SUFFICES ASSUME k = 0 PROVE FALSE
    OBVIOUS
  <2>2. k # Len(queue) /\ k + 1 = 1
    BY <1>9, <2>1
  <2>3. state[queue[1]] # "QueuingR"
    BY <1>6, <1>8, <2>2 DEF Front
  <2>. QED
    BY <1>1, <1>3, <2>3 DEF HeadIs
<1>11. PICK m \in 0..Len(queue)' : k = m + 1
  <2>1. k - 1 \in 0..Len(queue)' /\ k = (k - 1) + 1
    BY <1>8, <1>9, <1>10
  <2>. QED
    BY <2>1
<1>12. Front(m)'
  <2>1. \A j \in 1..m : j \in 1..Len(queue)' /\ j + 1 \in 1..k
    BY <1>9, <1>11
  <2>2. \A j \in 1..m : state'[queue'[j]] = "QueuingR"
    BY <1>1, <1>6, <1>8, <1>9, <2>1 DEF Front
  <2>3. m # Len(queue)' => state'[queue'[m + 1]] # "QueuingR"
    <3>. SUFFICES ASSUME m # Len(queue)' PROVE state'[queue'[m + 1]] # "QueuingR"
      OBVIOUS
    <3>1. m + 1 \in 1..Len(queue)' /\ k # Len(queue) /\ k + 1 = (m + 1) + 1
      BY <1>9, <1>11
    <3>2. queue'[m + 1] = queue[k + 1]
      BY <1>9, <3>1
    <3>. QED
      BY <1>1, <1>6, <1>8, <3>1, <3>2 DEF Front
  <2>. QED
    BY <1>6, <2>2, <2>3 DEF Front
<1>13. Seen(k) /\ Seen(m)'
  BY <1>8, <1>12, Sees, SeesAfter DEF Mapped
<1>14. batch' = batch
  <2>1. Holders' = Holders \cup {w}
    BY <1>4, <1>5 DEF Holders
  <2>2. Led(k) = {w} \cup Led(m)'
    BY <1>2, <1>9, <1>11
  <2>. QED
    BY <1>13, <2>1, <2>2 DEF Seen
<1>15. line' = line
  <2>1. /\ line \in Seq(Requests) /\ line' \in Seq(Requests)
        /\ Len(line) = Len(queue) - k /\ Len(line') = Len(queue) - k
    BY <1>9, <1>11, <1>13 DEF Seen, Requests
  <2>2. ASSUME NEW i \in 1..Len(line') PROVE line'[i] = line[i]
    <3>1. i \in 1..(Len(queue) - k) /\ i \in 1..(Len(queue)' - m)
      BY <1>9, <1>11, <2>1
    <3>2. i + m \in 1..Len(queue)' /\ (i + m) + 1 = i + k
      BY <1>9, <1>11, <2>1
    <3>3. line[i] = <<WaiterOf(queue[i + k]), Kind(queue[i + k])>>
      BY <1>13, <3>1 DEF Seen
    <3>4. line'[i] = <<WaiterOf(queue[i + m])', Kind(queue[i + m])'>>
      BY <1>13, <3>1 DEF Seen
    <3>5. /\ WaiterOf(queue[i + m])' = WaiterOf(queue[i + k])
          /\ Kind(queue[i + m])' = Kind(queue[i + k])
      BY <1>9, <3>2
    <3>. QED
      BY <3>3, <3>4, <3>5
  <2>. QED
    BY <2>1, <2>2, SeqEqual
<1>. QED
  BY <1>7, <1>14, <1>15

-----------------------------------------------------------------------------
(* The last of the batch goes, and the head of the line follows: a writer     *)
(* alone, a reader with all the readers right behind it.                      *)
LEMMA HandsOn ==
  ASSUME IInv, IInv', NEW t \in Thread, queue # <<>>, queue' = Tail(queue), state' = state,
         \A u \in Thread : \A n : Sleeps(u, n)' => Sleeps(u, n),
         ~Letting, Holders = {t}, Holders' = {WaiterOf(queue[1])},
         kind' = Kind(queue[1]), Letting' <=> Kind(queue[1]) = "R"
  PROVE  Fair!Leave(t)
<1>1. /\ Len(queue) \in Nat /\ Len(queue) >= 1 /\ Len(queue)' = Len(queue) - 1
      /\ \A j \in 1..Len(queue)' : /\ WaiterOf(queue[j])' = WaiterOf(queue[j + 1])
                                   /\ Kind(queue[j])' = Kind(queue[j + 1])
                                   /\ queue'[j] = queue[j + 1]
      /\ \A m \in 0..Len(queue)' : Led(m + 1) = {WaiterOf(queue[1])} \cup Led(m)'
  BY MoveUp
<1>2. Front(0)
  <2>1. 0 \in 0..Len(queue)
    BY <1>1
  <2>. QED
    BY <2>1 DEF Front
<1>3. PICK k \in 0..Len(queue)' : Front(k)'
  <2>1. \E k \in 0..Len(queue)' : Front(k)'
    BY FrontAfter
  <2>. QED
    BY <2>1
<1>4. Seen(0) /\ Seen(k)'
  BY <1>2, <1>3, Sees, SeesAfter DEF Mapped
<1>5. /\ line \in Seq(Requests) /\ Len(line) = Len(queue) /\ line # <<>>
      /\ \A i \in 1..Len(queue) : line[i] = <<WaiterOf(queue[i]), Kind(queue[i])>>
  <2>1. Len(queue) - 0 = Len(queue) /\ \A i \in 1..Len(queue) : i + 0 = i
    BY <1>1
  <2>2. line \in Seq(Requests) /\ Len(line) = Len(queue)
    BY <1>4, <2>1 DEF Seen
  <2>3. \A i \in 1..Len(queue) : line[i] = <<WaiterOf(queue[i]), Kind(queue[i])>>
    BY <1>4, <2>1 DEF Seen
  <2>4. line # <<>>
    BY <1>1, <2>2, EmptySeq
  <2>. QED
    BY <2>2, <2>3, <2>4
<1>6. batch = {t}
  <2>1. Led(0) = {}
    BY DEF Led
  <2>. QED
    BY <1>4, <2>1 DEF Seen
<1>7. k + 1 \in 1..Len(line) /\ k \in Nat
  BY <1>1, <1>3, <1>5
<1>8. k + 1 = 1 \/ \A j \in 1..(k + 1) : line[j][2] = "R"
  <2>1. CASE ~Letting'
    BY <1>3, <2>1 DEF Front
  <2>2. CASE Letting'
    <3>. SUFFICES ASSUME NEW j \in 1..(k + 1) PROVE line[j][2] = "R"
      OBVIOUS
    <3>1. line[j][2] = Kind(queue[j])
      BY <1>1, <1>5, <1>7
    <3>2. CASE j = 1
      BY <2>2, <3>1, <3>2
    <3>3. CASE j # 1
      <4>1. j - 1 \in 1..k /\ j - 1 \in 1..Len(queue)' /\ (j - 1) + 1 = j
        BY <1>1, <1>3, <1>7, <3>3
      <4>2. state'[queue'[j - 1]] = "QueuingR"
        BY <1>3, <2>2, <4>1 DEF Front
      <4>. QED
        BY <1>1, <3>1, <4>1, <4>2 DEF Kind
    <3>. QED
      BY <3>2, <3>3
  <2>. QED
    BY <2>1, <2>2
<1>9. k + 1 # Len(line) => \E j \in 1..(k + 2) : line[j][2] # "R"
  <2>. SUFFICES ASSUME k + 1 # Len(line) PROVE \E j \in 1..(k + 2) : line[j][2] # "R"
    OBVIOUS
  <2>1. /\ k + 2 \in 1..Len(queue) /\ k + 2 \in 1..(k + 2) /\ 1 \in 1..(k + 2)
        /\ 1 \in 1..Len(queue) /\ k # Len(queue)' /\ k + 1 \in 1..Len(queue)'
        /\ (k + 1) + 1 = k + 2
    <3>1. PICK n \in Nat : n = Len(queue)
      BY <1>1
    <3>2. Len(line) = n /\ Len(queue)' = n - 1 /\ k + 1 \in 1..n /\ k + 1 # n /\ k \in Nat
      BY <1>1, <1>5, <1>7, <3>1
    <3>3. /\ k + 2 \in 1..n /\ k + 2 \in 1..(k + 2) /\ 1 \in 1..(k + 2) /\ 1 \in 1..n
          /\ k # n - 1 /\ k + 1 \in 1..(n - 1) /\ (k + 1) + 1 = k + 2
      BY ONLY <3>2, SMT
    <3>. QED
      BY ONLY <3>1, <3>2, <3>3
  <2>2. CASE ~Letting'
    BY <1>5, <2>1, <2>2
  <2>3. CASE Letting'
    <3>1. state'[queue'[k + 1]] # "QueuingR"
      BY <1>3, <2>1, <2>3 DEF Front
    <3>2. Kind(queue[k + 2]) # "R"
      BY <1>1, <2>1, <3>1 DEF Kind
    <3>. QED
      BY <1>5, <2>1, <3>2
  <2>. QED
    BY <2>2, <2>3
<1>10. Fair!Last = k + 1
  <2>1. ASSUME NEW i \in 1..Len(line), i = 1 \/ \A j \in 1..i : line[j][2] = "R",
               i = Len(line) \/ ~\A j \in 1..(i + 1) : line[j][2] = "R"
        PROVE  i = k + 1
    <3>1. CASE i < k + 1
      <4>1. i + 1 \in 1..(k + 1) /\ i # Len(line) /\ k + 1 # 1
        BY <1>7, <3>1
      <4>2. \A j \in 1..(i + 1) : j \in 1..(k + 1)
        BY <1>7, <4>1
      <4>. QED
        BY <1>8, <2>1, <4>1, <4>2
    <3>2. CASE i > k + 1
      <4>1. i # 1 /\ k + 1 # Len(line) /\ \A j \in 1..(k + 2) : j \in 1..i
        BY <1>7, <3>2
      <4>. QED
        BY <1>9, <2>1, <4>1
    <3>. QED
      BY <1>7, <3>1, <3>2
  <2>2. k + 1 = Len(line) \/ ~\A j \in 1..((k + 1) + 1) : line[j][2] = "R"
    <3>1. (k + 1) + 1 = k + 2
      BY <1>7
    <3>. QED
      BY <1>9, <3>1
  <2>. QED
    BY <1>5, <1>7, <1>8, <2>1, <2>2 DEF Fair!Last, Fair!Together
<1>11. batch' = {line[i][1] : i \in 1..(k + 1)}
  <2>1. batch' = Led(k + 1)
    BY <1>1, <1>3, <1>4 DEF Seen
  <2>2. \A i \in 1..(k + 1) : line[i][1] = WaiterOf(queue[i])
    BY <1>1, <1>5, <1>7
  <2>. QED
    BY <2>1, <2>2 DEF Led
<1>12. kind' = line[1][2]
  BY <1>1, <1>5
<1>13. line' = SubSeq(line, (k + 1) + 1, Len(line))
  <2>1. /\ line' \in Seq(Requests) /\ Len(line') = Len(queue)' - k
    BY <1>4 DEF Seen, Requests
  <2>2. PICK r : r = SubSeq(line, (k + 1) + 1, Len(line))
    OBVIOUS
  <2>3. \A i \in ((k + 1) + 1)..Len(line) : line[i] \in Requests
    <3>1. \A i \in ((k + 1) + 1)..Len(line) : i \in 1..Len(line)
      BY <1>5, <1>7, <1>1
    <3>. QED
      BY <1>5, <3>1, ElementOfSeq
  <2>4. /\ r \in Seq(Requests)
        /\ Len(r) = IF (k + 1) + 1 <= Len(line) THEN Len(line) - ((k + 1) + 1) + 1 ELSE 0
        /\ \A i \in 1..(Len(line) - ((k + 1) + 1) + 1) : r[i] = line[((k + 1) + 1) + i - 1]
    <3>1. (k + 1) + 1 \in Int /\ Len(line) \in Int
      BY <1>1, <1>5, <1>7
    <3>. QED
      BY <2>2, <2>3, <3>1, SubSeqProperties, SMTT(20)
  <2>5. Len(r) = Len(line')
    <3>1. /\ Len(queue) \in Nat /\ Len(line) = Len(queue) /\ k + 1 \in 1..Len(queue)
          /\ k \in Nat
      BY <1>1, <1>5, <1>7
    <3>2. Len(line') = (Len(queue) - 1) - k
      BY ONLY <1>1, <2>1
    <3>3. Len(r) = IF (k + 1) + 1 <= Len(queue) THEN Len(queue) - ((k + 1) + 1) + 1 ELSE 0
      BY ONLY <2>4, <3>1
    <3>. QED
      BY ONLY <3>1, <3>2, <3>3
  <2>6. ASSUME NEW i \in 1..Len(line') PROVE line'[i] = r[i]
    <3>1. /\ i \in 1..(Len(queue)' - k) /\ i + k \in 1..Len(queue)'
          /\ i \in 1..(Len(line) - ((k + 1) + 1) + 1)
          /\ ((k + 1) + 1) + i - 1 = (i + k) + 1 /\ (i + k) + 1 \in 1..Len(queue)
      BY <1>1, <1>3, <1>5, <1>7, <2>1
    <3>2. line'[i] = <<WaiterOf(queue[i + k])', Kind(queue[i + k])'>>
      BY <1>4, <3>1 DEF Seen
    <3>3. r[i] = line[(i + k) + 1]
      BY <2>4, <3>1
    <3>4. line[(i + k) + 1] = <<WaiterOf(queue[(i + k) + 1]), Kind(queue[(i + k) + 1])>>
      BY <1>5, <3>1
    <3>. QED
      BY <1>1, <3>1, <3>2, <3>3, <3>4
  <2>. QED
    BY <2>1, <2>2, <2>4, <2>5, <2>6, SeqEqual
<1>. QED
  BY <1>5, <1>6, <1>10, <1>11, <1>12, <1>13 DEF Fair!Leave

(* One of the batch goes and others stay, or nobody is in line.               *)
LEMMA GoesAway ==
  ASSUME IInv, IInv', NEW t \in Thread, queue' = queue, state' = state,
         \A u \in Thread : \A n : Sleeps(u, n)' => Sleeps(u, n),
         ~Letting, ~Letting', t \in Holders, Holders' = Holders \ {t},
         Holders = {t} => queue = <<>> /\ kind' = "R",
         Holders # {t} => kind' = kind
  PROVE  Fair!Leave(t)
<1>1. Front(0) /\ Front(0)' /\ 0 \in Nat
  BY DEF Front, IInv, TypeOK
<1>2. Led(0) = {} /\ Led(0)' = {}
  BY DEF Led
<1>3. batch = Holders /\ batch' = Holders' /\ line \in Seq(Requests) /\ Len(line) = Len(queue) - 0
  BY <1>1, <1>2, Sees, SeesAfter DEF Mapped, Seen
<1>4. line' = line
  BY <1>1, LineStays
<1>5. CASE Holders = {t}
  <2>1. line = <<>>
    <3>1. Len(line) = 0
      BY <1>3, <1>5
    <3>. QED
      BY <1>3, <3>1, EmptySeq
  <2>2. Fair!Last = 0 /\ Len(line) = 0
    BY <2>1 DEF Fair!Last
  <2>3. line' = SubSeq(line, Fair!Last + 1, Len(line))
    <3>1. SubSeq(line, 1, 0) = <<>>
      BY SubSeqEmpty
    <3>. QED
      BY <1>4, <2>1, <2>2, <3>1
  <2>4. batch' = {line[i][1] : i \in 1..Fair!Last}
    BY <1>3, <1>5, <2>2
  <2>. QED
    BY <1>3, <1>5, <2>1, <2>3, <2>4 DEF Fair!Leave
<1>6. CASE Holders # {t}
  BY <1>3, <1>4, <1>6 DEF Fair!Leave
<1>. QED
  BY <1>5, <1>6

(* A newcomer that is neither in the lock nor in the list is unknown.         *)
LEMMA Newcomer ==
  ASSUME IInv, ~Letting, NEW t \in Thread, pc[t] = "idle"
  PROVE  /\ ~Fair!Known(t) /\ t \notin Holders /\ Front(0) /\ Seen(0) /\ batch = Holders
         /\ Len(queue) \in Nat /\ line \in Seq(Requests) /\ Len(line) = Len(queue)
         /\ \A i \in 1..Len(queue) : line[i] = <<WaiterOf(queue[i]), Kind(queue[i])>>
<1>1. Len(queue) \in Nat /\ 0 \in 0..Len(queue)
  BY DEF IInv, TypeOK
<1>2. Front(0) /\ Led(0) = {}
  BY <1>1 DEF Front, Led
<1>3. Seen(0) /\ Named
  BY <1>2, Sees DEF Mapped
<1>4. batch = Holders /\ t \notin Holders
  BY <1>2, <1>3 DEF Seen, Holders, Reads, Writes, RWaiting, WWaiting
<1>5. /\ line \in Seq(Requests) /\ Len(line) = Len(queue)
      /\ \A i \in 1..Len(queue) : line[i] = <<WaiterOf(queue[i]), Kind(queue[i])>>
  <2>1. Len(queue) - 0 = Len(queue) /\ \A i \in 1..Len(queue) : i + 0 = i
    BY <1>1
  <2>. QED
    BY <1>3, <2>1 DEF Seen
<1>6. ASSUME NEW i \in 1..Len(line) PROVE line[i][1] # t
  <2>1. line[i][1] = WaiterOf(queue[i]) /\ i \in 1..Len(queue)
    BY <1>5
  <2>. QED
    BY <1>3, <2>1 DEF Named, Sleeps, QueuedR, QueuedW
<1>. QED
  BY <1>1, <1>2, <1>3, <1>4, <1>5, <1>6 DEF Fair!Known

(* Whoever is compatible with those that have the lock joins them.            *)
LEMMA JoinsIn ==
  ASSUME IInv, IInv', NEW t \in Thread, NEW s, pc[t] = "idle", queue = <<>>,
         queue' = queue, state' = state,
         \A u \in Thread : \A n : Sleeps(u, n)' => Sleeps(u, n),
         ~Letting, ~Letting', Holders' = Holders \cup {t}, kind' = s,
         Holders = {} \/ (s = "R" /\ kind = "R")
  PROVE  Fair!Join(t, s)
<1>1. ~Fair!Known(t) /\ batch = Holders /\ line \in Seq(Requests) /\ Len(line) = Len(queue)
  BY Newcomer
<1>2. Front(0) /\ Front(0)' /\ 0 \in Nat /\ Led(0)' = {}
  BY Newcomer DEF Front, IInv, TypeOK, Led
<1>3. batch' = Holders'
  BY <1>2, SeesAfter DEF Mapped, Seen
<1>4. line' = line
  BY <1>2, LineStays
<1>5. line = <<>>
  <2>1. Len(line) = 0
    BY <1>1
  <2>. QED
    BY <1>1, <2>1, EmptySeq
<1>. QED
  BY <1>1, <1>3, <1>4, <1>5 DEF Fair!Join

(* Everybody else goes to the end of the line.                                *)
LEMMA LinesUp ==
  ASSUME IInv, IInv', NEW t \in Thread, NEW s, NEW l, Chain(t, s, l), pc[t] = "idle",
         ~Letting, ~Letting',
         \/ s = "QueuingR" /\ l = "renq"
         \/ s = "QueuingW" /\ l = "wenq",
         Holders' = Holders, kind' = kind,
         queue # <<>> \/ (Holders # {} /\ (s = "QueuingW" \/ kind = "W"))
  PROVE  Fair!Join(t, IF s = "QueuingR" THEN "R" ELSE "W")
<1>1. PICK n \in Qlp : /\ n \notin inuse /\ mp' = [mp EXCEPT ![t] = n]
                       /\ queue' = Append(queue, n) /\ state' = [state EXCEPT ![n] = s]
                       /\ pc' = [pc EXCEPT ![t] = l]
  BY DEF Chain, Goto, GetQlp, QlpFree
<1>2. /\ \A u \in Thread : /\ pc'[u] = IF u = t THEN l ELSE pc[u]
                           /\ mp'[u] = IF u = t THEN n ELSE mp[u]
      /\ \A m \in Qlp : state'[m] = IF m = n THEN s ELSE state[m]
  BY <1>1 DEF IInv, TypeOK
<1>3. /\ Len(queue) \in Nat /\ Len(queue)' = Len(queue) + 1 /\ queue'[Len(queue) + 1] = n
      /\ \A i \in 1..Len(queue) : queue'[i] = queue[i]
  BY <1>1, AppendList DEF IInv, TypeOK
<1>4. /\ ~Fair!Known(t) /\ batch = Holders /\ line \in Seq(Requests) /\ Len(line) = Len(queue)
      /\ \A i \in 1..Len(queue) : line[i] = <<WaiterOf(queue[i]), Kind(queue[i])>>
  BY Newcomer
<1>5. Front(0)' /\ Led(0)' = {}
  <2>1. 0 \in 0..Len(queue)'
    BY <1>3
  <2>. QED
    BY <2>1 DEF Front, Led
<1>6. Seen(0)' /\ Named'
  BY <1>5, SeesAfter DEF Mapped
<1>7. batch' = batch
  BY <1>4, <1>5, <1>6 DEF Seen
<1>8. /\ line' \in Seq(Requests) /\ Len(line') = Len(queue) + 1
      /\ \A i \in 1..(Len(queue) + 1) : line'[i] = <<WaiterOf(queue[i])', Kind(queue[i])'>>
  <2>1. Len(queue)' - 0 = Len(queue) + 1 /\ \A i \in 1..(Len(queue) + 1) : i + 0 = i
    BY <1>3
  <2>. QED
    BY <1>6, <2>1 DEF Seen, Requests
<1>9. ASSUME NEW i \in 1..Len(queue) PROVE line'[i] = line[i]
  <2>1. i \in 1..Len(queue)' /\ i \in 1..(Len(queue) + 1) /\ queue'[i] = queue[i]
    BY <1>3
  <2>2. queue[i] \in Qlp /\ queue[i] # n
    <3>1. queue[i] \in inuse /\ queue[i] \in Qlp
      BY Sees DEF Mapped, Named, Sleeps, QueuedR, QueuedW, Waits, RWaiting, WWaiting,
         IInv, OwnElement, TypeOK
    <3>. QED
      BY <1>1, <3>1
  <2>3. PICK m : m = queue[i]
    OBVIOUS
  <2>4. \A u \in Thread : Sleeps(u, m)' => Sleeps(u, m)
    BY <1>2, <2>2, <2>3 DEF Sleeps
  <2>5. WaiterOf(queue[i])' = WaiterOf(queue[i])
    BY <2>1, <2>3, <2>4, WaiterStays
  <2>6. Kind(queue[i])' = Kind(queue[i])
    BY <1>2, <2>1, <2>2 DEF Kind
  <2>. QED
    BY <1>4, <1>8, <2>1, <2>5, <2>6
<1>10. line'[Len(queue) + 1] = <<t, IF s = "QueuingR" THEN "R" ELSE "W">>
  <2>1. PICK e : e = Len(queue) + 1
    OBVIOUS
  <2>2. e \in 1..Len(queue)' /\ e \in 1..(Len(queue) + 1) /\ queue'[e] = n
    BY <1>3, <2>1
  <2>3. Sleeps(t, queue[e])'
    BY <1>2, <2>2 DEF Sleeps, QueuedR, QueuedW
  <2>4. WaiterOf(queue[e])' = t
    BY <1>6, <2>2, <2>3 DEF Named
  <2>5. Kind(queue[e])' = IF s = "QueuingR" THEN "R" ELSE "W"
    BY <1>2, <2>2 DEF Kind
  <2>6. line'[e] = <<WaiterOf(queue[e])', Kind(queue[e])'>>
    BY <1>8, <2>2
  <2>. QED
    BY <2>1, <2>4, <2>5, <2>6
<1>11. line' = Append(line, <<t, IF s = "QueuingR" THEN "R" ELSE "W">>)
  <2>1. PICK x \in Requests : x = <<t, IF s = "QueuingR" THEN "R" ELSE "W">>
    <3>1. <<t, "R">> \in Requests /\ <<t, "W">> \in Requests
      BY DEF Requests
    <3>. QED
      BY <3>1
  <2>2. /\ Append(line, x) \in Seq(Requests) /\ Len(Append(line, x)) = Len(queue) + 1
        /\ \A i \in 1..Len(queue) : Append(line, x)[i] = line[i]
        /\ Append(line, x)[Len(queue) + 1] = x
    BY <1>4, <2>1, AppendList
  <2>3. ASSUME NEW i \in 1..Len(line') PROVE line'[i] = Append(line, x)[i]
    <3>1. i \in 1..Len(queue) \/ i = Len(queue) + 1
      BY <1>3, <1>8
    <3>. QED
      BY <1>9, <1>10, <2>1, <2>2, <3>1
  <2>. QED
    BY <1>8, <2>1, <2>2, <2>3, SeqEqual
<1>12. ~(line = <<>> /\ (batch = {} \/ (s = "QueuingR" /\ kind = "R")))
  <2>1. line = <<>> => queue = <<>>
    <3>. SUFFICES ASSUME line = <<>> PROVE queue = <<>>
      OBVIOUS
    <3>1. Len(queue) = 0
      BY <1>4
    <3>. QED
      BY <3>1, EmptySeq DEF IInv, TypeOK
  <2>. QED
    BY <1>4, <2>1
<1>. QED
  BY <1>4, <1>7, <1>11, <1>12 DEF Fair!Join

-----------------------------------------------------------------------------
(* A step of a thread that neither waits nor wakes anybody.                   *)
LEMMA PlainStep ==
  ASSUME IInv, LockFree, NEW t \in Thread, NEW l, Goto(t, l), UNCHANGED <<queue, state, mp>>,
         pc[t] \notin Waits, l \notin Waits \cup Looping
  PROVE  /\ ~Letting /\ ~Letting'
         /\ \A u \in Thread : \A n : Sleeps(u, n)' => Sleeps(u, n)
         /\ \A u \in Thread : u # t => (Reads(u)' <=> Reads(u)) /\ (Writes(u)' <=> Writes(u))
         /\ Reads(t) <=> pc[t] = "reading"
         /\ Writes(t) <=> pc[t] = "writing"
         /\ Reads(t)' <=> l = "reading"
         /\ Writes(t)' <=> l = "writing"
<1>1. \A u \in Thread : pc'[u] = IF u = t THEN l ELSE pc[u]
  BY DEF Goto, IInv, TypeOK
<1>2. ~Letting /\ ~Letting'
  BY <1>1 DEF Letting, LockFree
<1>3. \A u \in Thread : \A n : Sleeps(u, n)' => Sleeps(u, n)
  BY <1>1 DEF Sleeps, QueuedR, QueuedW, Waits, RWaiting, WWaiting
<1>4. \A m : InQueue(m)' <=> InQueue(m)
  BY DEF InQueue
<1>5. \A u \in Thread : u # t => (Reads(u)' <=> Reads(u)) /\ (Writes(u)' <=> Writes(u))
  BY <1>1, <1>4 DEF Reads, Writes
<1>6. /\ Reads(t) <=> pc[t] = "reading"
      /\ Writes(t) <=> pc[t] = "writing"
      /\ Reads(t)' <=> l = "reading"
      /\ Writes(t)' <=> l = "writing"
  BY <1>1 DEF Reads, Writes, Waits
<1>. QED
  BY <1>2, <1>3, <1>5, <1>6

(* A reader joins readers, a writer nobody.                                   *)
LEMMA LockMaps ==
  ASSUME IInv, IInv', NEW t \in Thread, RLock(t) \/ WLock(t)
  PROVE  \E s \in {"R", "W"} : Fair!Join(t, s)
<1>1. PICK l \in {"reading", "writing"} :
           /\ pc[t] = "idle" /\ LockFree /\ Goto(t, l) /\ UNCHANGED <<queue, state, mp>>
           /\ l = "reading" => CanRead /\ writer' = writer
           /\ l = "writing" => CanWrite
  BY DEF RLock, WLock, Ready
<1>2. queue = <<>> /\ \A u \in Thread : ~Writes(u)
  BY <1>1 DEF CanRead, CanWrite, IInv, NoVainWait, Exclusion, TypeOK
<1>3. /\ ~Letting /\ ~Letting'
      /\ \A u \in Thread : \A n : Sleeps(u, n)' => Sleeps(u, n)
      /\ \A u \in Thread : u # t => (Reads(u)' <=> Reads(u)) /\ (Writes(u)' <=> Writes(u))
      /\ Reads(t)' <=> l = "reading"
      /\ Writes(t)' <=> l = "writing"
  <2>1. pc[t] \notin Waits /\ l \notin Waits \cup Looping
    BY <1>1 DEF Waits, RWaiting, WWaiting, Looping
  <2>. QED
    BY <1>1, <2>1, PlainStep
<1>4. Holders' = Holders \cup {t} /\ kind = "R"
  BY <1>2, <1>3 DEF Holders, kind
<1>5. CASE l = "reading"
  <2>1. kind' = "R"
    BY <1>2, <1>3, <1>5 DEF kind
  <2>. QED
    BY <1>1, <1>2, <1>3, <1>4, <2>1, JoinsIn
<1>6. CASE l = "writing"
  <2>1. kind' = "W"
    BY <1>3, <1>6 DEF kind
  <2>2. Holders = {}
    <3>1. \A u \in Thread : ~Reads(u)
      BY <1>1, <1>6, InvCounts, ReaderCounted DEF CanWrite, Counted
    <3>. QED
      BY <1>2, <3>1 DEF Holders
  <2>. QED
    BY <1>1, <1>2, <1>3, <1>4, <2>1, <2>2, JoinsIn
<1>. QED
  BY <1>5, <1>6

(* Who has the lock while a writer has.                                       *)
LEMMA WriterHolds ==
  ASSUME IInv, NEW t \in Thread, Writes(t) PROVE Holders = {t} /\ kind = "W"
BY DEF Holders, kind, IInv, Exclusion

(* Who has it while a reader has.                                             *)
LEMMA ReaderHolds ==
  ASSUME IInv, NEW t \in Thread, Reads(t)
  PROVE  /\ Holders = {u \in Thread : Reads(u)} /\ kind = "R" /\ \A u \in Thread : ~Writes(u)
         /\ readers = 1 <=> Holders = {t}
<1>1. \A u \in Thread : ~Writes(u)
  BY Apart DEF IInv, Exclusion
<1>2. Holders = {u \in Thread : Reads(u)} /\ kind = "R"
  BY <1>1 DEF Holders, kind
<1>3. readers = Cardinality(Holders) /\ Holders \subseteq Thread /\ t \in Holders
  BY <1>2 DEF IInv, Exclusion
<1>4. readers = 1 => Holders = {t}
  BY <1>3, ReadersFinite, OneLess
<1>5. Holders = {t} => readers = 1
  BY <1>3, FS_Singleton
<1>. QED
  BY <1>1, <1>2, <1>4, <1>5

(* Whoever cannot have the lock at once lines up.                             *)
LEMMA WaitMaps ==
  ASSUME IInv, IInv', NEW t \in Thread, RWait(t) \/ WWait(t)
  PROVE  \E k \in {"R", "W"} : Fair!Join(t, k)
<1>1. PICK s, l : /\ Chain(t, s, l) /\ pc[t] = "idle" /\ LockFree
                  /\ \/ s = "QueuingR" /\ l = "renq" /\ ~CanRead
                     \/ s = "QueuingW" /\ l = "wenq" /\ ~CanWrite
  BY DEF RWait, WWait, Ready
<1>2. PICK n \in Qlp : /\ n \notin inuse /\ mp' = [mp EXCEPT ![t] = n]
                       /\ queue' = Append(queue, n) /\ pc' = [pc EXCEPT ![t] = l]
  BY <1>1 DEF Chain, Goto, GetQlp, QlpFree
<1>3. \A u \in Thread : /\ pc'[u] = IF u = t THEN l ELSE pc[u]
                        /\ mp'[u] = IF u = t THEN n ELSE mp[u]
  BY <1>2 DEF IInv, TypeOK
<1>4. ~Letting /\ ~Letting'
  BY <1>1, <1>3 DEF Letting, LockFree, Looping
<1>5. \A m : InQueue(m)' <=> InQueue(m) \/ m = n
  BY <1>2, InAppend DEF IInv
<1>6. \A u \in Thread : u # t /\ pc[u] \in Waits => mp[u] # n
  BY <1>2 DEF IInv, OwnElement
<1>7. ~Reads(t) /\ ~Writes(t) /\ ~Reads(t)' /\ ~Writes(t)'
  BY <1>1, <1>3, <1>5 DEF Reads, Writes, RWaiting, WWaiting
<1>8. \A u \in Thread : (Reads(u)' <=> Reads(u)) /\ (Writes(u)' <=> Writes(u))
  BY <1>3, <1>5, <1>6, <1>7 DEF Reads, Writes, Waits
<1>9. Holders' = Holders /\ kind' = kind
  BY <1>8 DEF Holders, kind
<1>10. queue # <<>> \/ (Holders # {} /\ (s = "QueuingW" \/ kind = "W"))
  <2>1. writer \in {0, 1} /\ readers \in Nat
    BY DEF IInv, TypeOK
  <2>2. CASE writer = 1
    <3>1. PICK u \in Thread : Writes(u)
      BY <1>4, <2>2 DEF IInv, Exclusion, Letting
    <3>. QED
      BY <3>1, WriterHolds
  <2>3. CASE writer = 0 /\ queue = <<>>
    <3>1. s = "QueuingW" /\ readers # 0
      BY <1>1, <2>3 DEF CanRead, CanWrite
    <3>2. PICK u \in Thread : Reads(u)
      <4>1. SUFFICES ASSUME \A u \in Thread : ~Reads(u) PROVE FALSE
        OBVIOUS
      <4>2. {u \in Thread : Reads(u)} = {}
        BY <4>1
      <4>. QED
        BY <3>1, <4>2, FS_EmptySet DEF IInv, Exclusion
    <3>. QED
      BY <3>1, <3>2 DEF Holders
  <2>. QED
    BY <2>1, <2>2, <2>3
<1>11. Fair!Join(t, IF s = "QueuingR" THEN "R" ELSE "W")
  BY <1>1, <1>4, <1>9, <1>10, LinesUp
<1>. QED
  BY <1>11

(* runlock and wunlock when nobody is woken.                                  *)
LEMMA UnlockMaps ==
  ASSUME IInv, IInv', NEW t \in Thread, RUnlock(t) \/ WUnlock(t)
  PROVE  Fair!Leave(t)
<1>1. /\ pc[t] \in {"reading", "writing"} /\ LockFree /\ Goto(t, "idle")
      /\ UNCHANGED <<queue, state, mp>>
      /\ pc[t] = "reading" => readers' = readers - 1 /\ (readers' > 0 \/ queue = <<>>)
      /\ pc[t] = "writing" => queue = <<>>
  BY DEF RUnlock, WUnlock, Ready
<1>2. /\ ~Letting /\ ~Letting'
      /\ \A u \in Thread : \A n : Sleeps(u, n)' => Sleeps(u, n)
      /\ \A u \in Thread : u # t => (Reads(u)' <=> Reads(u)) /\ (Writes(u)' <=> Writes(u))
      /\ Reads(t) <=> pc[t] = "reading"
      /\ Writes(t) <=> pc[t] = "writing"
      /\ ~Reads(t)' /\ ~Writes(t)'
  <2>1. pc[t] \notin Waits /\ "idle" \notin Waits \cup Looping
    BY <1>1 DEF Waits, RWaiting, WWaiting, Looping
  <2>. QED
    BY <1>1, <2>1, PlainStep
<1>3. t \in Holders /\ Holders' = Holders \ {t}
  BY <1>1, <1>2 DEF Holders
<1>4. \A u \in Thread : u # t => ~Writes(u)
  BY <1>1, <1>2 DEF IInv, Exclusion
<1>5. kind' = "R"
  BY <1>2, <1>4 DEF kind
<1>6. (Holders = {t} => queue = <<>>) /\ (Holders # {t} => kind = "R")
  <2>1. CASE pc[t] = "reading"
    <3>1. kind = "R" /\ (Holders = {t} => readers = 1)
      BY <1>2, <2>1, ReaderHolds
    <3>2. readers = 1 => queue = <<>>
      BY <1>1, <2>1
    <3>. QED
      BY <3>1, <3>2
  <2>2. CASE pc[t] = "writing"
    BY <1>1, <1>2, <2>2, WriterHolds
  <2>. QED
    BY <1>1, <2>1, <2>2
<1>. QED
  BY <1>1, <1>2, <1>3, <1>5, <1>6, GoesAway

(* runlock and wunlock when the lock is handed on.                            *)
LEMMA HandMaps ==
  ASSUME IInv, IInv', NEW t \in Thread, NEW s, NEW l, Unchain(t, l), HeadIs(s), LockFree,
         \/ s = "QueuingR" /\ l = "wake"
         \/ s = "QueuingW" /\ l = "rel",
         pc[t] \in {"reading", "writing"}, Holders = {t}
  PROVE  Fair!Leave(t)
<1>1. /\ queue # <<>> /\ queue' = Tail(queue) /\ state' = state /\ l \in Waking
      /\ pc[t] \notin Waits
  BY DEF HeadIs, Unchain, Waking, Waits, RWaiting, WWaiting
<1>2. PICK w \in Thread : w = WaiterOf(queue[1])
  BY <1>1, HeadWaiter
<1>3. SleepsOn(w, Head(queue)) /\ Head(queue) = queue[1]
  BY <1>1, <1>2, HeadWaiter
<1>4. /\ w # t
      /\ Reads(w)' <=> s = "QueuingR"
      /\ Writes(w)' <=> s = "QueuingW"
      /\ \A u \in Thread : u # t /\ u # w =>
           (Reads(u)' <=> Reads(u)) /\ (Writes(u)' <=> Writes(u))
      /\ \A u \in Thread : pc'[u] = IF u = t THEN l ELSE pc[u]
  BY <1>1, <1>3, TakenOff DEF HeadIs, SleepsOn, QueuedR, QueuedW
<1>5. ~Reads(t)' /\ ~Writes(t)'
  BY <1>4 DEF Reads, Writes, RWaiting, WWaiting
<1>6. Holders' = {w} /\ (kind' = "W" <=> s = "QueuingW") /\ kind' \in {"R", "W"}
  <2>1. \A u \in Thread : u # t => ~Reads(u) /\ ~Writes(u)
    BY DEF Holders
  <2>. QED
    BY <1>4, <1>5, <2>1 DEF Holders, kind
<1>7. ~Letting /\ (Letting' <=> l = "wake")
  BY <1>4 DEF Letting, LockFree, Looping
<1>8. Kind(queue[1]) = IF s = "QueuingR" THEN "R" ELSE "W"
  BY <1>3 DEF Kind, HeadIs
<1>9. kind' = Kind(queue[1]) /\ (Letting' <=> Kind(queue[1]) = "R")
  BY <1>6, <1>7, <1>8
<1>10. \A u \in Thread : \A n : Sleeps(u, n)' => Sleeps(u, n)
  BY <1>1, UnchainSleeps
<1>. QED
  BY <1>1, <1>2, <1>6, <1>7, <1>9, <1>10, HandsOn

(* The last reader, and the writer, hand on what is theirs alone.             *)
LEMMA HandOnMaps ==
  ASSUME IInv, IInv', NEW t \in Thread,
         \/ RUnlockLast(t)
         \/ WUnlockToWriter(t)
         \/ WakeReader(t) /\ pc[t] # "loop"
  PROVE  Fair!Leave(t)
<1>1. CASE RUnlockLast(t)
  <2>1. /\ pc[t] = "reading" /\ LockFree /\ queue # <<>> /\ readers = 1
    BY <1>1 DEF RUnlockLast, Ready, IInv, TypeOK
  <2>2. Reads(t)
    BY <2>1 DEF Reads
  <2>3. Holders = {t} /\ \A u \in Thread : ~Writes(u) /\ pc[u] \notin Looping
    BY <2>1, <2>2, ReaderHolds DEF LockFree
  <2>4. HeadIs("QueuingW")
    BY <2>1, <2>3 DEF IInv, Exclusion, NoVainWait, TypeOK
  <2>5. Unchain(t, "rel")
    BY <1>1, <2>4 DEF RUnlockLast
  <2>. QED
    BY <2>1, <2>3, <2>4, <2>5, HandMaps
<1>2. CASE WUnlockToWriter(t) \/ (WakeReader(t) /\ pc[t] # "loop")
  <2>1. PICK s, l : /\ pc[t] = "writing" /\ LockFree /\ Unchain(t, l) /\ HeadIs(s)
                    /\ \/ s = "QueuingR" /\ l = "wake"
                       \/ s = "QueuingW" /\ l = "rel"
    BY <1>2, WakesReader DEF WUnlockToWriter, Ready
  <2>2. Holders = {t}
    BY <2>1, WriterHolds DEF Writes
  <2>. QED
    BY <2>1, <2>2, HandMaps
<1>. QED
  BY <1>1, <1>2

(* Every step of the lock is one of the batch and the line, or nobody there   *)
(* notices it.                                                                *)
LEMMA StepImplements ==
  ASSUME IInv, IInv', [Next]_vars
  PROVE  [Fair!Next]_<<batch, kind, line>>
<1>1. ASSUME NEW t \in Thread, Step(t) PROVE [Fair!Next]_<<batch, kind, line>>
  <2>1. CASE RLock(t) \/ WLock(t) \/ RWait(t) \/ WWait(t)
    <3>1. \E s \in {"R", "W"} : Fair!Join(t, s)
      BY <2>1, LockMaps, WaitMaps
    <3>. QED
      BY <3>1 DEF Fair!Next
  <2>2. CASE \/ RUnlock(t) \/ RUnlockLast(t) \/ WUnlock(t) \/ WUnlockToWriter(t)
             \/ WakeReader(t) /\ pc[t] # "loop"
    <3>1. Fair!Leave(t)
      BY <2>2, UnlockMaps, HandOnMaps
    <3>. QED
      BY <3>1 DEF Fair!Next
  <2>3. CASE WakeReader(t) /\ pc[t] = "loop"
    BY <2>3, LetInMaps
  <2>4. CASE WakeDone(t)
    BY <2>4, WakeDoneMaps
  <2>5. CASE Exhaust(t) \/ Park(t) \/ Return(t) \/ \E u \in Thread : Meet(t, u)
    <3>1. Unnoticed
      BY <2>5, ExhaustInv, ParkInv, ReturnInv, MeetInv
    <3>. QED
      BY <3>1, UnnoticedMaps
  <2>. QED
    BY <1>1, <2>1, <2>2, <2>3, <2>4, <2>5 DEF Step, Unlock, Rendezvous
<1>2. CASE UNCHANGED vars
  <2>1. Unnoticed
    BY <1>2 DEF Unnoticed, vars, qvars, Reads, Writes, InQueue, Sleeps
  <2>. QED
    BY <2>1, UnnoticedMaps
<1>. QED
  BY <1>1, <1>2 DEF Next

(* The reader/writer lock implements the fair one: whoever comes waits behind *)
(* those that came before, and the last one out lets in the head of the line, *)
(* a reader with all the readers right behind it, before anybody newer.       *)
THEOREM Implements == Spec => ImplementsFairRWLock
<1>1. Init => Fair!Init
  <2>. SUFFICES ASSUME Init PROVE batch = {} /\ kind = "R" /\ line = <<>>
    BY DEF Fair!Init
  <2>1. IInv /\ queue = <<>> /\ \A t \in Thread : pc[t] = "idle"
    BY InitInv DEF Init
  <2>2. ~Letting /\ \A t \in Thread : ~Reads(t) /\ ~Writes(t)
    BY <2>1 DEF Letting, Looping, Reads, Writes, RWaiting, WWaiting
  <2>3. Front(0) /\ Holders = {} /\ Led(0) = {} /\ kind = "R"
    BY <2>1, <2>2 DEF Front, Holders, Led, kind
  <2>4. Seen(0)
    BY <2>1, <2>3, Sees DEF Mapped
  <2>5. Len(line) = 0 /\ line \in Seq(Requests)
    BY <2>1, <2>4 DEF Seen
  <2>. QED
    BY <2>3, <2>4, <2>5, EmptySeq DEF Seen
<1>2. IInv /\ IInv' /\ [Next]_vars => [Fair!Next]_<<batch, kind, line>>
  BY StepImplements
<1>3. [Fair!Next]_<<batch, kind, line>> => [Fair!Next]_(Fair!vars)
  BY DEF Fair!vars
<1>. QED
  BY <1>1, <1>2, <1>3, Invariance, PTL DEF Spec, ImplementsFairRWLock, Fair!Spec
=============================================================================

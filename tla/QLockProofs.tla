------------------------------ MODULE QLockProofs ------------------------------
(* Proofs about QLock, for every set of threads and every pool of elements.   *)
(* IInv is inductive; each property of the lock is one of its conjuncts.      *)
EXTENDS QLock, ListFacts

(* The types are kept by every step.                                          *)
LEMMA TypeStep == TypeOK /\ [Next]_vars => TypeOK'
<1>. SUFFICES ASSUME TypeOK, [Next]_vars
              PROVE  TypeOK'
  OBVIOUS
<1>. USE DEF TypeOK, Goto, poolvars
<1>1. ASSUME NEW t \in Thread, Acquire(t) PROVE TypeOK'
  BY <1>1 DEF Acquire, Location
<1>2. ASSUME NEW t \in Thread, Enqueue(t) PROVE TypeOK'
  BY <1>2 DEF Enqueue, GetQlp, QlpFree, Location, Queued
<1>3. ASSUME NEW t \in Thread, Exhaust(t) PROVE TypeOK'
  BY <1>3 DEF Exhaust, Location
<1>4. ASSUME NEW t \in Thread, Dequeue(t) PROVE TypeOK'
  BY <1>4, TailList DEF Dequeue, Location, Waking
<1>5. ASSUME NEW t \in Thread, Release(t) PROVE TypeOK'
  BY <1>5 DEF Release, Location
<1>6. ASSUME NEW t \in Thread, Park(t) PROVE TypeOK'
  BY <1>6 DEF Park, Location, Queued, Waking
<1>7. ASSUME NEW t \in Thread, Return(t) PROVE TypeOK'
  BY <1>7 DEF Return, PutQlp, Location
<1>8. ASSUME NEW t \in Thread, NEW u \in Thread, Meet(t, u) PROVE TypeOK'
  BY <1>8 DEF Meet, After, Location
<1>9. CASE UNCHANGED vars
  BY <1>9 DEF vars
<1>. QED
  BY <1>1, <1>2, <1>3, <1>4, <1>5, <1>6, <1>7, <1>8, <1>9 DEF Next, Step

(* Chaining a fresh element puts that one into the list and nothing else;     *)
(* taking the head off takes that one out and nothing else.                   *)
LEMMA InAppend ==
  ASSUME TypeOK, NEW n \in Qlp, queue' = Append(queue, n), NEW m
  PROVE  InQueue(m)' <=> InQueue(m) \/ m = n
<1>. queue \in Seq(Qlp)
  BY DEF TypeOK
<1>. QED
  BY AppendList DEF InQueue

(* Whose element is in the list after its head has left.                      *)
LEMMA InTail ==
  ASSUME IInv, queue # <<>>, queue' = Tail(queue), NEW m
  PROVE  InQueue(m)' <=> InQueue(m) /\ m # Head(queue)
<1>. queue \in Seq(Qlp)
  BY DEF IInv, TypeOK
<1>1. \A i, j \in 1..Len(queue) : queue[i] = queue[j] => i = j
  BY DEF IInv, OneWaiterPerElement
<1>2. ASSUME InQueue(m)' PROVE InQueue(m) /\ m # Head(queue)
  BY <1>1, <1>2, TailList DEF InQueue
<1>3. ASSUME InQueue(m), m # Head(queue) PROVE InQueue(m)'
  <2>1. PICK i \in 1..Len(queue) : queue[i] = m
    BY <1>3 DEF InQueue
  <2>2. i # 1 /\ i - 1 \in 1..Len(Tail(queue))
    BY <1>3, <2>1, TailList
  <2>3. Tail(queue)[i - 1] = m
    BY <2>1, <2>2, TailList
  <2>. QED
    BY <2>2, <2>3 DEF InQueue
<1>. QED
  BY <1>2, <1>3

(* The initial state has the invariant: nobody waits and the lock is free.    *)
LEMMA InitInv == Init => IInv
<1>. SUFFICES ASSUME Init PROVE IInv
  OBVIOUS
<1>1. TypeOK
  <2>1. inuse \subseteq Qlp /\ hint \in Qlp /\ locked \in BOOLEAN
    BY DEF Init, QlpInit
  <2>2. queue \in Seq(Qlp)
    BY EmptySeq DEF Init
  <2>3. pc \in [Thread -> Location] /\ mp \in [Thread -> Qlp \cup {NoQlp}]
    BY DEF Init, Location
  <2>. QED
    BY <2>1, <2>2, <2>3 DEF TypeOK
<1>2. queue = <<>> /\ inuse = {} /\ ~locked /\ \A t \in Thread : pc[t] = "idle"
  BY DEF Init, QlpInit
<1>3. \A t \in Thread : ~Owns(t)
  BY <1>2 DEF Owns, Queued
<1>4. MutualExclusion /\ NoLostLock
  BY <1>2, <1>3 DEF MutualExclusion, NoLostLock
<1>5. OneWaiterPerElement
  BY <1>2 DEF OneWaiterPerElement, Waits, Queued
<1>6. WakeUpMeets /\ OneWaker
  BY <1>2 DEF WakeUpMeets, OneWaker, Waking
<1>. QED
  BY <1>1, <1>4, <1>5, <1>6 DEF IInv

(* One lemma per action that changes who owns the lock or what the list is.   *)
LEMMA AcquireInv == ASSUME IInv, NEW t \in Thread, Acquire(t), TypeOK' PROVE IInv'
<1>. USE DEF IInv, TypeOK, Acquire, Goto, poolvars, Owns, InQueue, Waits, Waking, Queued
<1>1. MutualExclusion' /\ NoLostLock'
  BY DEF MutualExclusion, NoLostLock
<1>2. OneWaiterPerElement'
  BY DEF OneWaiterPerElement
<1>3. WakeUpMeets' /\ OneWaker'
  BY DEF WakeUpMeets, OneWaker, NoLostLock
<1>. QED
  BY <1>1, <1>2, <1>3

(* The newcomer goes to the end of the list, with an element of its own.      *)
LEMMA EnqueueInv == ASSUME IInv, NEW t \in Thread, Enqueue(t), TypeOK' PROVE IInv'
<1>1. PICK n \in Qlp : /\ GetQlp(n) /\ mp' = [mp EXCEPT ![t] = n]
                       /\ queue' = Append(queue, n)
  BY DEF Enqueue
<1>2. n \notin inuse /\ inuse' = inuse \cup {n}
  BY <1>1 DEF GetQlp, QlpFree
<1>3. /\ pc[t] = "idle" /\ pc' = [pc EXCEPT ![t] = "enq"] /\ locked' = locked
      /\ pc \in [Thread -> Location] /\ mp \in [Thread -> Qlp \cup {NoQlp}]
      /\ queue \in Seq(Qlp)
  BY DEF Enqueue, Goto, IInv, TypeOK
<1>4. \A m : InQueue(m)' <=> InQueue(m) \/ m = n
  BY <1>1, InAppend DEF IInv
<1>5. \A u \in Thread : Owns(u)' <=> Owns(u)
  BY <1>1, <1>2, <1>3, <1>4 DEF Owns, Queued, Waits, IInv, OneWaiterPerElement
<1>6. ~Owns(t)
  BY <1>3 DEF Owns, Queued
<1>7. MutualExclusion' /\ NoLostLock'
  BY <1>3, <1>5 DEF IInv, MutualExclusion, NoLostLock
<1>8. OneWaiterPerElement'
  <2>1. \A u \in Thread : pc'[u] \in Waits => mp'[u] \in inuse'
    BY <1>1, <1>2, <1>3 DEF IInv, OneWaiterPerElement, Waits, Queued
  <2>2. \A m \in inuse' : \E u \in Thread : pc'[u] \in Waits /\ mp'[u] = m
    <3>. SUFFICES ASSUME NEW m \in inuse' PROVE \E u \in Thread : pc'[u] \in Waits /\ mp'[u] = m
      OBVIOUS
    <3>1. CASE m = n
      BY <3>1, <1>1, <1>3 DEF Waits, Queued
    <3>2. CASE m # n
      BY <3>2, <1>1, <1>2, <1>3 DEF IInv, OneWaiterPerElement, Waits, Queued
    <3>. QED
      BY <3>1, <3>2
  <2>3. \A u, w \in Thread : pc'[u] \in Waits /\ pc'[w] \in Waits /\ mp'[u] = mp'[w] => u = w
    BY <1>1, <1>2, <1>3 DEF IInv, OneWaiterPerElement, Waits, Queued
  <2>4. \A i \in 1..Len(queue) : \E u \in Thread : u # t /\ pc[u] \in Queued /\ mp[u] = queue[i]
    BY <1>3 DEF IInv, OneWaiterPerElement, Queued
  <2>5. \A i \in 1..Len(queue)' : \E u \in Thread : pc'[u] \in Queued /\ mp'[u] = queue'[i]
    <3>. SUFFICES ASSUME NEW i \in 1..Len(queue)'
                  PROVE  \E u \in Thread : pc'[u] \in Queued /\ mp'[u] = queue'[i]
      OBVIOUS
    <3>1. CASE i = Len(queue) + 1
      BY <3>1, <1>1, <1>3, AppendList DEF Queued
    <3>2. CASE i # Len(queue) + 1
      <4>1. i \in 1..Len(queue) /\ queue'[i] = queue[i]
        BY <3>2, <1>1, <1>3, AppendList
      <4>. QED
        BY <4>1, <2>4, <1>1, <1>3
    <3>. QED
      BY <3>1, <3>2
  <2>6. \A i \in 1..Len(queue) : queue[i] \in inuse
    BY DEF IInv, OneWaiterPerElement, Waits
  <2>7. \A i, j \in 1..Len(queue)' : queue'[i] = queue'[j] => i = j
    BY <2>6, <1>1, <1>2, <1>3, AppendList DEF IInv, OneWaiterPerElement
  <2>. QED
    BY <2>1, <2>2, <2>3, <2>5, <2>7 DEF OneWaiterPerElement
<1>9. WakeUpMeets' /\ OneWaker'
  BY <1>1, <1>3, <1>5, <1>6 DEF IInv, WakeUpMeets, OneWaker, Waking, Queued
<1>. QED
  BY <1>7, <1>8, <1>9 DEF IInv

(* The hand-over: the head of the list owns the lock from here on.            *)
LEMMA DequeueInv == ASSUME IInv, NEW t \in Thread, Dequeue(t), TypeOK' PROVE IInv'
<1>1. /\ pc[t] = "held" /\ queue # <<>> /\ queue' = Tail(queue)
      /\ pc' = [pc EXCEPT ![t] = "rel"] /\ mp' = [mp EXCEPT ![t] = Head(queue)]
      /\ locked' = locked /\ inuse' = inuse
      /\ pc \in [Thread -> Location] /\ mp \in [Thread -> Qlp \cup {NoQlp}]
      /\ queue \in Seq(Qlp)
  BY DEF Dequeue, Goto, poolvars, IInv, TypeOK
<1>2. \A m : InQueue(m)' <=> InQueue(m) /\ m # Head(queue)
  BY <1>1, InTail
<1>3. PICK w \in Thread : pc[w] \in Queued /\ mp[w] = Head(queue)
  BY <1>1, TailList DEF IInv, OneWaiterPerElement
<1>4. w # t /\ Owns(t) /\ locked
  BY <1>1, <1>3 DEF Owns, Queued, IInv, NoLostLock
<1>5. \A u \in Thread : Owns(u)' <=> u = w
  <2>1. Owns(w)'
    BY <1>1, <1>2, <1>3, <1>4 DEF Owns, Queued
  <2>2. \A u \in Thread : u # w /\ Owns(u)' => FALSE
    <3>. SUFFICES ASSUME NEW u \in Thread, u # w, Owns(u)' PROVE FALSE
      OBVIOUS
    <3>1. u # t
      BY <1>1 DEF Owns, Queued
    <3>2. ~Owns(u)
      BY <3>1, <1>4 DEF IInv, MutualExclusion
    <3>3. pc[u] \in Queued /\ mp[u] = Head(queue)
      BY <3>1, <3>2, <1>1, <1>2 DEF Owns
    <3>. QED
      BY <3>3, <1>3 DEF IInv, OneWaiterPerElement, Waits
  <2>. QED
    BY <2>1, <2>2
<1>6. MutualExclusion' /\ NoLostLock'
  BY <1>1, <1>4, <1>5 DEF MutualExclusion, NoLostLock
<1>7. OneWaiterPerElement'
  <2>1. \A u \in Thread : pc'[u] \in Waits <=> pc[u] \in Waits
    BY <1>1 DEF Waits, Queued
  <2>2. \A u \in Thread : pc'[u] \in Queued <=> pc[u] \in Queued
    BY <1>1 DEF Queued
  <2>3. \A u \in Thread : pc[u] \in Waits => mp'[u] = mp[u]
    BY <1>1 DEF Waits, Queued
  <2>4. \A i \in 1..Len(queue)' : i + 1 \in 1..Len(queue) /\ queue'[i] = queue[i + 1]
    BY <1>1, TailList
  <2>5. \A i \in 1..Len(queue)' : \E u \in Thread : pc'[u] \in Queued /\ mp'[u] = queue'[i]
    BY <2>2, <2>3, <2>4 DEF IInv, OneWaiterPerElement, Waits
  <2>6. \A i, j \in 1..Len(queue)' : queue'[i] = queue'[j] => i = j
    BY <2>4 DEF IInv, OneWaiterPerElement
  <2>. QED
    BY <2>1, <2>3, <2>5, <2>6, <1>1 DEF IInv, OneWaiterPerElement
<1>8. \A u \in Thread : pc[u] \notin Waking
  BY <1>1, <1>4 DEF IInv, WakeUpMeets, MutualExclusion, Queued
<1>9. WakeUpMeets' /\ OneWaker'
  BY <1>1, <1>3, <1>4, <1>5, <1>8 DEF WakeUpMeets, OneWaker, Waking, Queued
<1>. QED
  BY <1>6, <1>7, <1>9 DEF IInv

(* With nobody in the list the owner goes, and nobody owns the lock.          *)
LEMMA ReleaseInv == ASSUME IInv, NEW t \in Thread, Release(t), TypeOK' PROVE IInv'
<1>1. /\ pc[t] = "held" /\ pc' = [pc EXCEPT ![t] = "idle"] /\ locked' = FALSE
      /\ queue' = queue /\ mp' = mp /\ inuse' = inuse
      /\ pc \in [Thread -> Location]
  BY DEF Release, Goto, poolvars, IInv, TypeOK
<1>2. \A u \in Thread : ~Owns(u)'
  BY <1>1 DEF IInv, MutualExclusion, Owns, Queued, InQueue
<1>3. OneWaiterPerElement'
  BY <1>1 DEF IInv, OneWaiterPerElement, Waits, Queued
<1>4. \A u \in Thread : pc[u] \notin Waking
  BY <1>1 DEF IInv, WakeUpMeets, MutualExclusion, Owns, Queued
<1>. QED
  BY <1>1, <1>2, <1>3, <1>4 DEF IInv, MutualExclusion, NoLostLock, WakeUpMeets, OneWaker, Waking

(* Who owns the lock is not touched by aborting, parking, meeting, returning. *)
LEMMA ExhaustOwns ==
  ASSUME IInv, NEW t \in Thread, Exhaust(t)
  PROVE  \A u \in Thread : Owns(u)' <=> Owns(u)
BY DEF Exhaust, Goto, IInv, TypeOK, Owns, Queued, InQueue

(* Parking, returning and meeting leave the lock with its owner.              *)
LEMMA ParkOwns ==
  ASSUME IInv, NEW t \in Thread, Park(t)
  PROVE  \A u \in Thread : Owns(u)' <=> Owns(u)
BY DEF Park, Goto, IInv, TypeOK, Owns, Queued, InQueue

(* The same for the return,                                                   *)
LEMMA ReturnOwns ==
  ASSUME IInv, NEW t \in Thread, Return(t)
  PROVE  \A u \in Thread : Owns(u)' <=> Owns(u)
BY DEF Return, Goto, IInv, TypeOK, Owns, Queued, InQueue

(* A thread that aborts is out of the protocol: it owned and waited for nothing. *)
LEMMA ExhaustInv == ASSUME IInv, NEW t \in Thread, Exhaust(t), TypeOK' PROVE IInv'
<1>1. /\ pc[t] = "idle" /\ pc' = [pc EXCEPT ![t] = "aborted"] /\ locked' = locked
      /\ queue' = queue /\ mp' = mp /\ inuse' = inuse
      /\ pc \in [Thread -> Location]
  BY DEF Exhaust, Goto, poolvars, IInv, TypeOK
<1>2. \A u \in Thread : Owns(u)' <=> Owns(u)
  BY <1>1 DEF Owns, Queued, InQueue
<1>3. MutualExclusion' /\ NoLostLock'
  BY <1>1, <1>2 DEF IInv, MutualExclusion, NoLostLock
<1>4. OneWaiterPerElement'
  BY <1>1 DEF IInv, OneWaiterPerElement, Waits, Queued
<1>5. WakeUpMeets' /\ OneWaker'
  BY <1>1, <1>2 DEF IInv, WakeUpMeets, OneWaker, Waking, Queued
<1>. QED
  BY <1>3, <1>4, <1>5 DEF IInv

(* Parking moves a thread within Queued or within Waking, and nothing else.   *)
LEMMA ParkInv == ASSUME IInv, NEW t \in Thread, Park(t), TypeOK' PROVE IInv'
<1>1. /\ locked' = locked /\ queue' = queue /\ mp' = mp /\ inuse' = inuse
      /\ pc \in [Thread -> Location]
      /\ \/ pc[t] = "enq" /\ pc' = [pc EXCEPT ![t] = "wait"]
         \/ pc[t] = "rel" /\ pc' = [pc EXCEPT ![t] = "relwait"]
  BY DEF Park, Goto, poolvars, IInv, TypeOK
<1>2. \A u \in Thread : /\ pc'[u] \in Queued <=> pc[u] \in Queued
                        /\ pc'[u] \in Waking <=> pc[u] \in Waking
                        /\ pc'[u] = "woken" <=> pc[u] = "woken"
                        /\ pc'[u] = "held" <=> pc[u] = "held"
  BY <1>1 DEF Queued, Waking
<1>3. \A u \in Thread : Owns(u)' <=> Owns(u)
  BY <1>1, <1>2 DEF Owns, InQueue
<1>4. MutualExclusion' /\ NoLostLock'
  BY <1>1, <1>3 DEF IInv, MutualExclusion, NoLostLock
<1>5. OneWaiterPerElement'
  BY <1>1, <1>2 DEF IInv, OneWaiterPerElement, Waits
<1>6. WakeUpMeets' /\ OneWaker'
  BY <1>1, <1>2, <1>3 DEF IInv, WakeUpMeets, OneWaker
<1>. QED
  BY <1>4, <1>5, <1>6 DEF IInv

(* The meeting is always that of qunlock with the waiter it woke: two waiters *)
(* have different elements, and there is never a second thread in qunlock.    *)
LEMMA MeetPair ==
  ASSUME IInv, NEW t \in Thread, NEW u \in Thread, Meet(t, u)
  PROVE  /\ \E v, w \in Thread :
              /\ pc[v] \in Waking /\ pc[w] \in Queued /\ Owns(w)
              /\ pc'[v] = "idle" /\ pc'[w] = "woken"
              /\ \A x \in Thread : x # v /\ x # w => pc'[x] = pc[x]
         /\ \A x \in Thread : Owns(x)' <=> Owns(x)
<1>1. /\ locked' = locked /\ queue' = queue /\ mp' = mp /\ inuse' = inuse
      /\ mp[t] = mp[u] /\ t # u
      /\ pc \in [Thread -> Location]
  BY DEF Meet, poolvars, IInv, TypeOK
<1>2. PICK v \in Thread, w \in Thread :
           /\ pc[v] \in Waking /\ pc[w] \in Queued /\ mp[v] = mp[w]
           /\ pc' = [pc EXCEPT ![v] = "idle", ![w] = "woken"]
  <2>1. CASE pc[t] = "enq"
    <3>1. pc[u] \in Waking
      BY <2>1, <1>1 DEF Meet, IInv, OneWaiterPerElement, Waits, Queued, Waking
    <3>. QED
      BY <2>1, <3>1, <1>1 DEF Meet, After, Queued, Waking
  <2>2. CASE pc[t] = "rel"
    <3>1. pc[u] \in Queued
      BY <2>2, <1>1 DEF Meet, IInv, OneWaker, Queued, Waking
    <3>. QED
      BY <2>2, <3>1, <1>1 DEF Meet, After, Queued
  <2>. QED
    BY <2>1, <2>2 DEF Meet
<1>3. v # w
  BY <1>2 DEF Queued, Waking
<1>4. Owns(w)
  <2>1. PICK x \in Thread : pc[x] \in Queued /\ mp[x] = mp[v] /\ Owns(x)
    BY <1>2 DEF IInv, WakeUpMeets
  <2>2. x = w
    BY <2>1, <1>2 DEF IInv, OneWaiterPerElement, Waits
  <2>. QED
    BY <2>1, <2>2
<1>5. \A x \in Thread : x # v /\ x # w => pc'[x] = pc[x]
  BY <1>1, <1>2
<1>6. pc'[v] = "idle" /\ pc'[w] = "woken"
  BY <1>2, <1>3, <1>1
<1>7. \A x \in Thread : Owns(x)' <=> Owns(x)
  BY <1>1, <1>2, <1>4, <1>5, <1>6 DEF Owns, Queued, Waking, InQueue
<1>. QED
  BY <1>2, <1>4, <1>5, <1>6, <1>7

(* and for the meeting.                                                       *)
LEMMA MeetOwns ==
  ASSUME IInv, NEW t \in Thread, NEW u \in Thread, Meet(t, u)
  PROVE  \A x \in Thread : Owns(x)' <=> Owns(x)
BY MeetPair

(* The meeting keeps the invariant: the two are the waker and its waiter.     *)
LEMMA MeetInv ==
  ASSUME IInv, NEW t \in Thread, NEW u \in Thread, Meet(t, u), TypeOK' PROVE IInv'
<1>1. /\ locked' = locked /\ queue' = queue /\ mp' = mp /\ inuse' = inuse
  BY DEF Meet, poolvars
<1>2. PICK v \in Thread, w \in Thread :
           /\ pc[v] \in Waking /\ pc[w] \in Queued /\ Owns(w)
           /\ pc'[v] = "idle" /\ pc'[w] = "woken"
           /\ \A x \in Thread : x # v /\ x # w => pc'[x] = pc[x]
  BY MeetPair
<1>3. \A x \in Thread : Owns(x)' <=> Owns(x)
  BY MeetOwns
<1>4. MutualExclusion' /\ NoLostLock'
  BY <1>1, <1>3 DEF IInv, MutualExclusion, NoLostLock
<1>5. OneWaiterPerElement'
  <2>1. \A x \in Thread : pc'[x] \in Waits <=> pc[x] \in Waits
    BY <1>2 DEF Waits, Queued, Waking
  <2>2. \A i \in 1..Len(queue) : \E x \in Thread : pc'[x] \in Queued /\ mp[x] = queue[i]
    <3>. SUFFICES ASSUME NEW i \in 1..Len(queue)
                  PROVE  \E x \in Thread : pc'[x] \in Queued /\ mp[x] = queue[i]
      OBVIOUS
    <3>1. PICK x \in Thread : pc[x] \in Queued /\ mp[x] = queue[i]
      BY DEF IInv, OneWaiterPerElement
    <3>2. x # w
      BY <3>1, <1>2 DEF Owns, Queued, InQueue
    <3>3. x # v
      BY <3>1, <1>2 DEF Queued, Waking
    <3>. QED
      BY <3>1, <3>2, <3>3, <1>2
  <2>. QED
    BY <2>1, <2>2, <1>1 DEF IInv, OneWaiterPerElement
<1>6. \A x \in Thread : pc'[x] \notin Waking
  BY <1>2 DEF IInv, OneWaker, Waking
<1>. QED
  BY <1>4, <1>5, <1>6 DEF IInv, WakeUpMeets, OneWaker

(* The owner gives its element back to the pool; the lock stays its own.      *)
LEMMA ReturnInv == ASSUME IInv, NEW t \in Thread, Return(t), TypeOK' PROVE IInv'
<1>1. /\ pc[t] = "woken" /\ pc' = [pc EXCEPT ![t] = "held"] /\ locked' = locked
      /\ queue' = queue /\ mp' = mp /\ inuse' = inuse \ {mp[t]}
      /\ pc \in [Thread -> Location]
  BY DEF Return, PutQlp, Goto, IInv, TypeOK
<1>2. \A u \in Thread : Owns(u)' <=> Owns(u)
  BY <1>1 DEF Owns, Queued, InQueue
<1>3. MutualExclusion' /\ NoLostLock'
  BY <1>1, <1>2 DEF IInv, MutualExclusion, NoLostLock
<1>4. OneWaiterPerElement'
  <2>1. \A u \in Thread : pc'[u] \in Waits <=> pc[u] \in Waits /\ u # t
    BY <1>1 DEF Waits, Queued
  <2>2. \A u \in Thread : pc'[u] \in Queued <=> pc[u] \in Queued
    BY <1>1 DEF Queued
  <2>3. \A u \in Thread : pc[u] \in Waits /\ mp[u] = mp[t] => u = t
    BY <1>1 DEF IInv, OneWaiterPerElement, Waits
  <2>. QED
    BY <2>1, <2>2, <2>3, <1>1 DEF IInv, OneWaiterPerElement
<1>5. WakeUpMeets' /\ OneWaker'
  BY <1>1, <1>2 DEF IInv, WakeUpMeets, OneWaker, Waking, Queued
<1>. QED
  BY <1>3, <1>4, <1>5 DEF IInv

(* The invariant of the queueing lock, for every number of threads and every  *)
(* size of the pool.                                                          *)
THEOREM Invariance == Spec => []IInv
<1>1. IInv /\ [Next]_vars => IInv'
  <2>. SUFFICES ASSUME IInv, [Next]_vars PROVE IInv'
    OBVIOUS
  <2>1. TypeOK'
    BY TypeStep DEF IInv
  <2>2. CASE UNCHANGED vars
    BY <2>2, <2>1 DEF vars, IInv, MutualExclusion, NoLostLock, OneWaiterPerElement,
       WakeUpMeets, OneWaker, Owns, InQueue
  <2>3. ASSUME NEW t \in Thread, Step(t) PROVE IInv'
    BY <2>1, <2>3, AcquireInv, EnqueueInv, ExhaustInv, DequeueInv, ReleaseInv,
       ParkInv, ReturnInv, MeetInv DEF Step
  <2>. QED
    BY <2>2, <2>3 DEF Next
<1>. QED
  BY InitInv, <1>1, PTL DEF Spec

(* Every variable of the lock keeps its type.                                 *)
THEOREM TypeCorrect == Spec => []TypeOK
BY Invariance, PTL DEF IInv

(* Never two owners, the hand-over of qunlock included.                       *)
THEOREM Exclusive == Spec => []MutualExclusion
BY Invariance, PTL DEF IInv

(* The lock is never locked without an owner, nor free with one.              *)
THEOREM LockNotLost == Spec => []NoLostLock
BY Invariance, PTL DEF IInv

(* An element of the pool always stands for exactly one waiter.               *)
THEOREM ElementsAreWaiters == Spec => []OneWaiterPerElement
BY Invariance, PTL DEF IInv

(* The thread qunlock wakes is always there to be woken.                      *)
THEOREM WakeUpFindsWaiter == Spec => []WakeUpMeets
BY Invariance, PTL DEF IInv

-----------------------------------------------------------------------------
(* THE PROMISE: QLock implements FairMutex *)

(* Nobody stands in the list of a lock that is free: with NoLostLock, whoever *)
(* waits waits for somebody.                                                  *)
ListBehindOwner == locked \/ queue = <<>>

(* A step keeps somebody in front of those who wait.                          *)
LEMMA ListInvStep == IInv /\ ListBehindOwner /\ [Next]_vars => ListBehindOwner'
<1>. SUFFICES ASSUME IInv, ListBehindOwner, [Next]_vars PROVE ListBehindOwner'
  OBVIOUS
<1>. USE DEF ListBehindOwner
<1>1. ASSUME NEW t \in Thread, Step(t) PROVE ListBehindOwner'
  <2>1. CASE Acquire(t) \/ Enqueue(t) \/ Exhaust(t) \/ Release(t) \/ Park(t) \/ Return(t)
    BY <2>1 DEF Acquire, Enqueue, Exhaust, Release, Park, Return
  <2>2. CASE Dequeue(t)
    BY <2>2 DEF Dequeue, IInv, NoLostLock, Owns
  <2>3. ASSUME NEW u \in Thread, Meet(t, u) PROVE ListBehindOwner'
    BY <2>3 DEF Meet
  <2>. QED
    BY <1>1, <2>1, <2>2, <2>3 DEF Step
<1>2. CASE UNCHANGED vars
  BY <1>2 DEF vars
<1>. QED
  BY <1>1, <1>2 DEF Next

(* Nobody waits for a lock that nobody has.                                   *)
THEOREM NobodyWaitsForFree == Spec => []ListBehindOwner
<1>1. Init => ListBehindOwner
  BY DEF Init, ListBehindOwner
<1>. QED
  BY <1>1, ListInvStep, Invariance, PTL DEF Spec

(* t stands in place i of the list *)
StandsAt(t, i) == pc[t] \in Queued /\ mp[t] = queue[i]

(* What line is: its head the owner, then those who wait, in the list's order *)
LineShape ==
    /\ (\A t \in Thread : ~Owns(t)) => queue = <<>> /\ line = <<>>
    /\ \A t \in Thread : Owns(t) =>
         /\ line \in Seq(Thread) /\ Len(line) = Len(queue) + 1 /\ Len(queue) \in Nat
         /\ line[1] = t
         /\ \A i \in 1..Len(queue) : /\ StandsAt(line[i + 1], i)
                                     /\ \A u \in Thread : StandsAt(u, i) => line[i + 1] = u

(* The line that the abstract lock sees, from the invariants,                 *)
LEMMA LineIsShaped == IInv /\ ListBehindOwner => LineShape
<1>. SUFFICES ASSUME IInv, ListBehindOwner PROVE LineShape
  OBVIOUS
<1>. DEFINE rest == [i \in 1..Len(queue) |-> WaiterOf(queue[i])]
<1>1. queue \in Seq(Qlp) /\ Len(queue) \in Nat
  BY DEF IInv, TypeOK
<1>2. ASSUME \A t \in Thread : ~Owns(t) PROVE queue = <<>> /\ line = <<>>
  <2>1. queue = <<>>
    BY <1>2 DEF IInv, NoLostLock, ListBehindOwner
  <2>2. rest = <<>>
    <3>1. Len(queue) = 0
      BY <2>1
    <3>2. rest \in Seq(Thread) /\ Len(rest) = 0
      BY <3>1
    <3>. QED
      BY <3>2, EmptySeq
  <2>3. line = <<>> \o rest
    BY <1>2 DEF line
  <2>. QED
    BY <2>1, <2>2, <2>3, ConcatEmptySeq, EmptySeq
<1>3. ASSUME NEW t \in Thread, Owns(t)
      PROVE  /\ line \in Seq(Thread) /\ Len(line) = Len(queue) + 1 /\ line[1] = t
             /\ \A i \in 1..Len(queue) : /\ StandsAt(line[i + 1], i)
                                         /\ \A u \in Thread : StandsAt(u, i) => line[i + 1] = u
  <2>1. Owner = t
    BY <1>3 DEF Owner, IInv, MutualExclusion
  <2>2. \A i \in 1..Len(queue) :
           /\ WaiterOf(queue[i]) \in Thread /\ StandsAt(WaiterOf(queue[i]), i)
           /\ \A u \in Thread : StandsAt(u, i) => WaiterOf(queue[i]) = u
    <3>. SUFFICES ASSUME NEW i \in 1..Len(queue)
                  PROVE  /\ WaiterOf(queue[i]) \in Thread /\ StandsAt(WaiterOf(queue[i]), i)
                         /\ \A u \in Thread : StandsAt(u, i) => WaiterOf(queue[i]) = u
      OBVIOUS
    <3>1. \E u \in Thread : pc[u] \in Queued /\ mp[u] = queue[i]
      BY DEF IInv, OneWaiterPerElement
    <3>2. /\ WaiterOf(queue[i]) \in Thread
          /\ pc[WaiterOf(queue[i])] \in Queued /\ mp[WaiterOf(queue[i])] = queue[i]
      BY <3>1 DEF WaiterOf
    <3>. QED
      BY <3>2 DEF IInv, OneWaiterPerElement, StandsAt, Waits
  <2>3. rest \in Seq(Thread) /\ Len(rest) = Len(queue)
    BY <1>1, <2>2
  <2>4. line = <<t>> \o rest
    BY <1>3, <2>1 DEF line
  <2>5. \A i \in 1..Len(queue) : rest[i] = WaiterOf(queue[i])
    OBVIOUS
  <2>. HIDE DEF rest
  <2>6. /\ line \in Seq(Thread) /\ Len(line) = Len(queue) + 1 /\ line[1] = t
        /\ \A i \in 1..Len(queue) : line[i + 1] = WaiterOf(queue[i])
    BY <2>3, <2>4, <2>5, ConsList
  <2>. QED
    BY <2>2, <2>6
<1>. QED
  BY <1>1, <1>2, <1>3 DEF LineShape

(* and after the step.                                                        *)
LEMMA LineStaysShaped == IInv' /\ ListBehindOwner' => LineShape'
BY LineIsShaped, PTL

(* A step that leaves owner and list alone leaves the line alone.             *)
LEMMA LineStays ==
  ASSUME LineShape, LineShape', queue' = queue,
         \A u \in Thread : Owns(u)' <=> Owns(u),
         \A u \in Thread : pc'[u] \in Queued => pc[u] \in Queued /\ mp'[u] = mp[u]
  PROVE  line' = line
<1>1. CASE \A u \in Thread : ~Owns(u)
  BY <1>1 DEF LineShape
<1>2. ASSUME NEW o \in Thread, Owns(o) PROVE line' = line
  <2>1. /\ line \in Seq(Thread) /\ line' \in Seq(Thread) /\ Len(queue) \in Nat
        /\ Len(line) = Len(queue) + 1 /\ Len(line') = Len(queue) + 1
        /\ line[1] = o /\ line'[1] = o
    BY <1>2 DEF LineShape
  <2>2. \A i \in 1..Len(queue) : line'[i + 1] = line[i + 1]
    <3>. SUFFICES ASSUME NEW i \in 1..Len(queue) PROVE line'[i + 1] = line[i + 1]
      OBVIOUS
    <3>1. i + 1 \in 1..Len(line') /\ line'[i + 1] \in Thread
      BY <2>1
    <3>2. pc'[line'[i + 1]] \in Queued /\ mp'[line'[i + 1]] = queue[i]
      BY <1>2 DEF LineShape, StandsAt
    <3>3. StandsAt(line'[i + 1], i)
      BY <3>1, <3>2 DEF StandsAt
    <3>. QED
      BY <3>1, <3>3, <1>2 DEF LineShape
  <2>3. \A i \in 1..Len(line) : line'[i] = line[i]
    <3>. SUFFICES ASSUME NEW i \in 1..Len(line), i # 1 PROVE line'[i] = line[i]
      BY <2>1
    <3>1. i - 1 \in 1..Len(queue) /\ (i - 1) + 1 = i
      BY <2>1
    <3>. QED
      BY <3>1, <2>2
  <2>. QED
    BY <2>1, <2>3, SeqEqual
<1>. QED
  BY <1>1, <1>2

(* Whoever finds the lock free is first in line and last.                     *)
LEMMA AcquireJoins ==
  ASSUME IInv, LineShape, LineShape', NEW t \in Thread, Acquire(t)
  PROVE  Fair!Join(t)
<1>1. /\ ~locked /\ queue' = queue /\ pc[t] = "idle" /\ pc' = [pc EXCEPT ![t] = "held"]
      /\ pc \in [Thread -> Location]
  BY DEF Acquire, Goto, IInv, TypeOK
<1>2. \A u \in Thread : ~Owns(u)
  BY <1>1 DEF IInv, NoLostLock
<1>3. queue = <<>> /\ line = <<>>
  BY <1>2 DEF LineShape
<1>4. Owns(t)'
  BY <1>1 DEF Owns
<1>5. /\ line' \in Seq(Thread) /\ Len(line') = Len(queue') + 1 /\ line'[1] = t
  BY <1>4 DEF LineShape
<1>6. Len(line') = 1
  BY <1>1, <1>3, <1>5
<1>7. line' = <<t>> /\ Append(<<>>, t) = <<t>>
  <2>1. <<t>> \in Seq(Thread) /\ Len(<<t>>) = 1 /\ <<t>>[1] = t
    OBVIOUS
  <2>2. ASSUME NEW i \in 1..Len(line') PROVE line'[i] = <<t>>[i]
    <3>1. i = 1
      BY <1>6
    <3>. QED
      BY <3>1, <1>5, <2>1
  <2>3. line' = <<t>>
    BY <1>5, <1>6, <2>1, <2>2, SeqEqual
  <2>. QED
    BY <2>3
<1>. QED
  BY <1>3, <1>7 DEF Fair!Join, Fair!InLine

(* Whoever finds it locked goes to the end of the line.                       *)
LEMMA EnqueueJoins ==
  ASSUME IInv, LineShape, LineShape', NEW t \in Thread, Enqueue(t)
  PROVE  Fair!Join(t)
<1>1. PICK n \in Qlp : /\ GetQlp(n) /\ mp' = [mp EXCEPT ![t] = n]
                       /\ queue' = Append(queue, n)
  BY DEF Enqueue
<1>2. /\ n \notin inuse /\ pc[t] = "idle" /\ locked
      /\ \A u \in Thread : /\ pc'[u] = IF u = t THEN "enq" ELSE pc[u]
                           /\ mp'[u] = IF u = t THEN n ELSE mp[u]
      /\ queue \in Seq(Qlp)
  BY <1>1 DEF Enqueue, Goto, GetQlp, QlpFree, IInv, TypeOK
<1>3. PICK o \in Thread : Owns(o)
  BY <1>2 DEF IInv, NoLostLock
<1>4. \A m : InQueue(m)' <=> InQueue(m) \/ m = n
  BY <1>1, InAppend DEF IInv
<1>5. o # t /\ Owns(o)'
  BY <1>2, <1>3, <1>4 DEF Owns, Queued, Waits, IInv, OneWaiterPerElement
<1>6. /\ Len(queue) \in Nat /\ Len(queue)' = Len(queue) + 1
      /\ \A i \in 1..Len(queue) : queue'[i] = queue[i]
      /\ queue'[Len(queue) + 1] = n
  BY <1>1, <1>2, AppendList
<1>7. /\ line \in Seq(Thread) /\ line' \in Seq(Thread)
      /\ Len(line) = Len(queue) + 1 /\ Len(line') = Len(queue) + 2
      /\ line[1] = o /\ line'[1] = o
  BY <1>3, <1>5, <1>6 DEF LineShape
<1>8. \A i \in 1..Len(queue) : line'[i + 1] = line[i + 1]
  <2>. SUFFICES ASSUME NEW i \in 1..Len(queue) PROVE line'[i + 1] = line[i + 1]
    OBVIOUS
  <2>1. i + 1 \in 1..Len(line') /\ i \in 1..Len(queue)' /\ line'[i + 1] \in Thread
    BY <1>6, <1>7
  <2>2. pc'[line'[i + 1]] \in Queued /\ mp'[line'[i + 1]] = queue[i]
    BY <2>1, <1>5, <1>6 DEF LineShape, StandsAt
  <2>3. queue[i] # n
    BY <1>2 DEF IInv, OneWaiterPerElement, Waits
  <2>4. StandsAt(line'[i + 1], i)
    BY <2>1, <2>2, <2>3, <1>2 DEF StandsAt
  <2>. QED
    BY <2>1, <2>4, <1>3 DEF LineShape
<1>9. line'[Len(queue) + 2] = t
  <2>1. pc'[t] \in Queued /\ mp'[t] = queue'[Len(queue) + 1]
    BY <1>2, <1>6 DEF Queued
  <2>2. Len(queue) + 1 \in 1..Len(queue)' /\ (Len(queue) + 1) + 1 = Len(queue) + 2
    BY <1>6
  <2>. QED
    BY <2>1, <2>2, <1>5 DEF LineShape, StandsAt
<1>10. line' = Append(line, t)
  <2>1. /\ Append(line, t) \in Seq(Thread) /\ Len(Append(line, t)) = Len(queue) + 2
        /\ \A i \in 1..(Len(queue) + 1) : Append(line, t)[i] = line[i]
        /\ Append(line, t)[Len(queue) + 2] = t
    BY <1>6, <1>7, AppendList
  <2>2. ASSUME NEW i \in 1..Len(line') PROVE line'[i] = Append(line, t)[i]
    <3>1. CASE i = 1 \/ i = Len(queue) + 2
      BY <3>1, <2>1, <1>6, <1>7, <1>9
    <3>2. CASE i # 1 /\ i # Len(queue) + 2
      <4>1. i - 1 \in 1..Len(queue) /\ i \in 1..(Len(queue) + 1) /\ (i - 1) + 1 = i
        BY <3>2, <1>6, <1>7
      <4>. QED
        BY <4>1, <2>1, <1>8
    <3>. QED
      BY <3>1, <3>2
  <2>. QED
    BY <2>1, <2>2, <1>7, SeqEqual
<1>11. ~Fair!InLine(t)
  <2>. SUFFICES ASSUME NEW i \in 1..Len(line), line[i] = t PROVE FALSE
    BY DEF Fair!InLine
  <2>1. i # 1
    BY <1>5, <1>7
  <2>2. i - 1 \in 1..Len(queue) /\ (i - 1) + 1 = i
    BY <2>1, <1>6, <1>7
  <2>3. pc[t] \in Queued
    BY <2>2, <1>3 DEF LineShape, StandsAt
  <2>. QED
    BY <2>3, <1>2 DEF Queued
<1>. QED
  BY <1>10, <1>11 DEF Fair!Join

(* qunlock takes the owner out, and the next in line is the owner.            *)
LEMMA DequeueLeaves ==
  ASSUME IInv, LineShape, LineShape', NEW t \in Thread, Dequeue(t)
  PROVE  Fair!Leave(t)
<1>1. /\ pc[t] = "held" /\ queue # <<>> /\ queue' = Tail(queue)
      /\ \A u \in Thread : /\ pc'[u] = IF u = t THEN "rel" ELSE pc[u]
                           /\ mp'[u] = IF u = t THEN Head(queue) ELSE mp[u]
      /\ queue \in Seq(Qlp)
  BY DEF Dequeue, Goto, IInv, TypeOK
<1>2. /\ Len(queue) \in Nat /\ Len(queue) >= 1 /\ Len(queue)' = Len(queue) - 1
      /\ Head(queue) = queue[1]
      /\ \A i \in 1..Len(queue)' : queue'[i] = queue[i + 1]
  BY <1>1, TailList
<1>3. Owns(t)
  BY <1>1 DEF Owns
<1>4. PICK w \in Thread : StandsAt(w, 1)
  BY <1>2 DEF IInv, OneWaiterPerElement, StandsAt
<1>5. w # t /\ Owns(w)'
  <2>1. \A m : InQueue(m)' <=> InQueue(m) /\ m # Head(queue)
    BY <1>1, InTail
  <2>. QED
    BY <2>1, <1>1, <1>2, <1>4 DEF StandsAt, Owns, Queued
<1>6. /\ line \in Seq(Thread) /\ line' \in Seq(Thread)
      /\ Len(line) = Len(queue) + 1 /\ Len(line') = Len(queue)
      /\ line[1] = t /\ line[1 + 1] = w /\ line'[1] = w
  BY <1>2, <1>3, <1>4, <1>5 DEF LineShape
<1>7. /\ line # <<>> /\ Head(line) = t
      /\ Tail(line) \in Seq(Thread) /\ Len(Tail(line)) = Len(queue)
      /\ \A i \in 1..Len(queue) : Tail(line)[i] = line[i + 1]
  <2>1. line # <<>>
    BY <1>2, <1>6
  <2>. QED
    BY <2>1, <1>2, <1>6, TailList
<1>8. ASSUME NEW i \in 1..Len(line') PROVE line'[i] = Tail(line)[i]
  <2>1. CASE i = 1
    BY <2>1, <1>2, <1>6, <1>7
  <2>2. CASE i # 1
    <3>1. i - 1 \in 1..Len(queue)' /\ (i - 1) + 1 = i /\ i \in 1..Len(queue)
      BY <2>2, <1>2, <1>6
    <3>2. line'[i] \in Thread /\ pc'[line'[i]] \in Queued /\ mp'[line'[i]] = queue'[i - 1]
      BY <3>1, <1>5, <1>6, SMTT(20) DEF LineShape, StandsAt
    <3>3. queue'[i - 1] = queue[i]
      BY <3>1, <1>2
    <3>4. StandsAt(line'[i], i)
      BY <3>2, <3>3, <1>1 DEF StandsAt, Queued
    <3>5. line[i + 1] = line'[i]
      BY <3>1, <3>2, <3>4, <1>3 DEF LineShape
    <3>. QED
      BY <3>1, <3>5, <1>7
  <2>. QED
    BY <2>1, <2>2
<1>9. line' = Tail(line)
  BY <1>6, <1>7, <1>8, SeqEqual
<1>. QED
  BY <1>7, <1>9 DEF Fair!Leave

(* With nobody behind it the owner leaves an empty line.                      *)
LEMMA ReleaseLeaves ==
  ASSUME IInv, IInv', LineShape, LineShape', NEW t \in Thread, Release(t)
  PROVE  Fair!Leave(t)
<1>1. pc[t] = "held" /\ queue = <<>> /\ ~locked'
  BY DEF Release
<1>2. Owns(t) /\ \A u \in Thread : ~Owns(u)'
  BY <1>1 DEF Owns, IInv, NoLostLock
<1>3. line' = <<>>
  BY <1>2 DEF LineShape
<1>4. line \in Seq(Thread) /\ Len(line) = 1 /\ line[1] = t
  BY <1>1, <1>2 DEF LineShape
<1>5. line # <<>> /\ Head(line) = t /\ Tail(line) \in Seq(Thread) /\ Len(Tail(line)) = 0
  <2>1. line # <<>>
    BY <1>4, EmptySeq
  <2>. QED
    BY <2>1, <1>4, TailList
<1>6. Tail(line) = <<>>
  BY <1>5, EmptySeq
<1>. QED
  BY <1>3, <1>5, <1>6 DEF Fair!Leave

(* Every step of the lock is one of the line, or nobody there notices it.     *)
LEMMA StepImplements ==
  ASSUME IInv, IInv', LineShape, LineShape', [Next]_vars
  PROVE  [Fair!Next]_line
<1>1. ASSUME NEW t \in Thread, Step(t) PROVE [Fair!Next]_line
  <2>1. CASE Acquire(t)
    BY <2>1, AcquireJoins DEF Fair!Next
  <2>2. CASE Enqueue(t)
    BY <2>2, EnqueueJoins DEF Fair!Next
  <2>3. CASE Dequeue(t)
    BY <2>3, DequeueLeaves DEF Fair!Next
  <2>4. CASE Release(t)
    BY <2>4, ReleaseLeaves DEF Fair!Next
  <2>5. CASE Exhaust(t) \/ Park(t) \/ Return(t) \/ \E u \in Thread : Meet(t, u)
    <3>1. queue' = queue /\ mp' = mp /\ locked' = locked
      BY <2>5 DEF Exhaust, Park, Return, Meet
    <3>2. \A u \in Thread : pc'[u] \in Queued => pc[u] \in Queued
      BY <2>5 DEF Exhaust, Park, Return, Meet, After, Goto, Queued, IInv, TypeOK
    <3>3. \A u \in Thread : Owns(u)' <=> Owns(u)
      BY <2>5, ExhaustOwns, ParkOwns, ReturnOwns, MeetOwns
    <3>. QED
      BY <3>1, <3>2, <3>3, LineStays
  <2>. QED
    BY <1>1, <2>1, <2>2, <2>3, <2>4, <2>5 DEF Step
<1>2. CASE UNCHANGED vars
  <2>1. queue' = queue /\ mp' = mp /\ pc' = pc
    BY <1>2 DEF vars
  <2>2. \A u \in Thread : Owns(u)' <=> Owns(u)
    BY <2>1 DEF Owns, InQueue
  <2>. QED
    BY <2>1, <2>2, LineStays
<1>. QED
  BY <1>1, <1>2 DEF Next

(* The queueing lock implements the fair mutex: whoever asks gets the lock in *)
(* the order of asking, and nobody passes anybody on the way.                 *)
THEOREM Implements == Spec => ImplementsFairMutex
<1>1. Init => Fair!Init
  <2>. SUFFICES ASSUME Init PROVE line = <<>>
    BY DEF Fair!Init
  <2>1. IInv /\ ListBehindOwner
    BY InitInv DEF Init, ListBehindOwner
  <2>2. LineShape
    BY <2>1, LineIsShaped
  <2>3. \A t \in Thread : ~Owns(t)
    BY DEF Init, Owns, Queued
  <2>. QED
    BY <2>2, <2>3 DEF LineShape
<1>2. IInv /\ IInv' /\ ListBehindOwner /\ ListBehindOwner' /\ [Next]_vars => [Fair!Next]_line
  BY LineIsShaped, LineStaysShaped, StepImplements
<1>. QED
  BY <1>1, <1>2, Invariance, NobodyWaitsForFree, PTL DEF Spec, ImplementsFairMutex, Fair!Spec
=============================================================================

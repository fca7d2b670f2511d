-------------------------------- MODULE QLock --------------------------------
(* The queueing lock of lib9/qlock.c (qlock, qunlock, canqlock).  A section   *)
(* between lock(&q->lock) and unlock(&q->lock) is one step; between it and    *)
(* the rendezvous that follows any other thread may run.  A rendezvous is two *)
(* steps: the first of the two threads to arrive parks, the second one sends  *)
(* both on their way.                                                         *)
EXTENDS QLp, Naturals, Sequences

VARIABLES locked,  \* q->locked
          queue,   \* q->head ... q->tail, a list of elements
          pc,      \* where each thread stands
          mp       \* the thread's local variable: mp in qlock, p in qunlock

poolvars == <<inuse, hint>>
vars == <<inuse, hint, locked, queue, pc, mp>>

Queued == {"enq", "wait"}        \* chained into the list, not yet woken
Waking == {"rel", "relwait"}     \* qunlock, at its rendezvous
Location == {"idle", "woken", "held", "aborted"} \cup Queued \cup Waking

InQueue(n) == \E i \in 1..Len(queue) : queue[i] = n

TypeOK == /\ inuse \subseteq Qlp
          /\ hint \in Qlp
          /\ locked \in BOOLEAN
          /\ queue \in Seq(Qlp)
          /\ pc \in [Thread -> Location]
          /\ mp \in [Thread -> Qlp \cup {NoQlp}]

Init == /\ QlpInit
        /\ locked = FALSE
        /\ queue = <<>>
        /\ pc = [t \in Thread |-> "idle"]
        /\ mp = [t \in Thread |-> NoQlp]

Goto(t, l) == pc' = [pc EXCEPT ![t] = l]

(* lock(&q->lock) returns at once, unless a thread has aborted inside it *)
LockFree == \A t \in Thread : pc[t] # "aborted"

-----------------------------------------------------------------------------
(* qlock, and canqlock when it returns 1: the lock is free *)
Acquire(t) == /\ pc[t] = "idle"
              /\ LockFree
              /\ ~locked
              /\ locked' = TRUE
              /\ Goto(t, "held")
              /\ UNCHANGED <<queue, mp, poolvars>>

(* a broken variant: chain at the head of the list *)
EnqueueFirst(t) == /\ pc[t] = "idle"
                   /\ LockFree
                   /\ locked
                   /\ \E n \in Qlp : /\ GetQlp(n)
                                     /\ mp' = [mp EXCEPT ![t] = n]
                                     /\ queue' = <<n>> \o queue
                   /\ Goto(t, "enq")
                   /\ UNCHANGED locked

(* qlock: chain into the waiting list *)
Enqueue(t) == /\ pc[t] = "idle"
              /\ LockFree
              /\ locked
              /\ \E n \in Qlp : /\ GetQlp(n)
                                /\ mp' = [mp EXCEPT ![t] = n]
                                /\ queue' = Append(queue, n)
              /\ Goto(t, "enq")
              /\ UNCHANGED locked

(* qlock: getqlp finds no free element and aborts, with q->lock held *)
Exhaust(t) == /\ pc[t] = "idle"
              /\ LockFree
              /\ locked
              /\ QlpFree = {}
              /\ Goto(t, "aborted")
              /\ UNCHANGED <<locked, queue, mp, poolvars>>

(* broken variants: free the lock and wake the head to try again; wake the    *)
(* head and leave it chained                                                  *)
DequeueUnlocks(t) == /\ pc[t] = "held" /\ LockFree /\ queue # <<>>
                     /\ mp' = [mp EXCEPT ![t] = Head(queue)]
                     /\ queue' = Tail(queue)
                     /\ locked' = FALSE
                     /\ Goto(t, "rel")
                     /\ UNCHANGED poolvars
DequeueChained(t) == /\ pc[t] = "held" /\ LockFree /\ queue # <<>>
                     /\ mp' = [mp EXCEPT ![t] = Head(queue)]
                     /\ Goto(t, "rel")
                     /\ UNCHANGED <<locked, queue, poolvars>>

(* qunlock: take the head off the list; the lock stays locked and is its now *)
Dequeue(t) == /\ pc[t] = "held"
              /\ LockFree
              /\ queue # <<>>
              /\ mp' = [mp EXCEPT ![t] = Head(queue)]
              /\ queue' = Tail(queue)
              /\ Goto(t, "rel")
              /\ UNCHANGED <<locked, poolvars>>

(* a broken variant: the lock stays locked *)
ReleaseKeeps(t) == /\ pc[t] = "held" /\ LockFree /\ queue = <<>>
                   /\ Goto(t, "idle")
                   /\ UNCHANGED <<locked, queue, mp, poolvars>>

(* qunlock: nobody is waiting *)
Release(t) == /\ pc[t] = "held"
              /\ LockFree
              /\ queue = <<>>
              /\ locked' = FALSE
              /\ Goto(t, "idle")
              /\ UNCHANGED <<queue, mp, poolvars>>

(* rendezvous(mp, ...): the first to arrive parks ... *)
Park(t) == /\ pc[t] \in {"enq", "rel"}
           /\ \A u \in Thread : pc[u] \in {"wait", "relwait"} => mp[u] # mp[t]
           /\ Goto(t, IF pc[t] = "enq" THEN "wait" ELSE "relwait")
           /\ UNCHANGED <<locked, queue, mp, poolvars>>

After(l) == IF l \in Queued THEN "woken" ELSE "idle"

(* ... and the second finds it by its tag; both return *)
Meet(t, u) == /\ pc[t] \in {"enq", "rel"}
              /\ pc[u] \in {"wait", "relwait"}
              /\ mp[u] = mp[t]
              /\ pc' = [pc EXCEPT ![t] = After(pc[t]), ![u] = After(pc[u])]
              /\ UNCHANGED <<locked, queue, mp, poolvars>>

(* qlock, after its rendezvous: mp->inuse = 0 *)
Return(t) == /\ pc[t] = "woken"
             /\ PutQlp(mp[t])
             /\ Goto(t, "held")
             /\ UNCHANGED <<locked, queue, mp>>

Step(t) == \/ Acquire(t) \/ Enqueue(t) \/ Exhaust(t) \/ Dequeue(t)
           \/ Release(t) \/ Park(t) \/ Return(t)
           \/ \E u \in Thread : Meet(t, u)

Next == \E t \in Thread : Step(t)

Spec == Init /\ [][Next]_vars

(* A thread that runs keeps running, and whoever holds the lock lets it go;   *)
(* nobody is obliged to ask for the lock.                                     *)
Fairness == \A t \in Thread :
              /\ WF_vars(Dequeue(t) \/ Release(t))
              /\ WF_vars(Park(t) \/ \E u \in Thread : Meet(t, u))
              /\ WF_vars(Return(t))

FairSpec == Spec /\ Fairness

-----------------------------------------------------------------------------
(* The lock belongs to the thread that holds it, to one whose rendezvous has  *)
(* returned, and to one whose element qunlock has taken off the list.         *)
Owns(t) == \/ pc[t] \in {"woken", "held"}
           \/ pc[t] \in Queued /\ ~InQueue(mp[t])

(* At most one thread owns the lock, from the moment qunlock hands it over:   *)
(* the hand-over leaves no window in which a newcomer gets in.                *)
MutualExclusion == \A t, u \in Thread : Owns(t) /\ Owns(u) => t = u

(* q->locked says exactly whether somebody owns the lock: it cannot be free   *)
(* while a waiter sleeps, nor locked with nobody left to unlock it.           *)
NoLostLock == locked <=> \E t \in Thread : Owns(t)

(* An element in use is that of exactly one waiter: its address identifies    *)
(* the waiter at the rendezvous, and the pool does not leak. The list holds   *)
(* the elements of those who have not been woken, each of them once.          *)
Waits == Queued \cup {"woken"}
OneWaiterPerElement ==
    /\ \A t \in Thread : pc[t] \in Waits => mp[t] \in inuse
    /\ \A n \in inuse : \E t \in Thread : pc[t] \in Waits /\ mp[t] = n
    /\ \A t, u \in Thread : pc[t] \in Waits /\ pc[u] \in Waits /\ mp[t] = mp[u] => t = u
    /\ \A i \in 1..Len(queue) : \E t \in Thread : pc[t] \in Queued /\ mp[t] = queue[i]
    /\ \A i, j \in 1..Len(queue) : queue[i] = queue[j] => i = j

(* The wake-up of qunlock always meets: a thread at qunlock's rendezvous has  *)
(* a waiter that is bound for, or parked in, the rendezvous on the same tag.  *)
WakeUpMeets == \A t \in Thread : pc[t] \in Waking =>
                  \E u \in Thread : pc[u] \in Queued /\ mp[u] = mp[t] /\ Owns(u)

(* What makes these inductive: only one qunlock at a time is waking somebody, *)
(* so the address it passes is met by the waiter and not by another qunlock.  *)
OneWaker == \A t, u \in Thread : pc[t] \in Waking /\ pc[u] \in Waking => t = u

IInv == /\ TypeOK /\ MutualExclusion /\ NoLostLock
        /\ OneWaiterPerElement /\ WakeUpMeets /\ OneWaker

(* A thread that queued gets the lock, unless getqlp aborts the program.      *)
NoStarvation == \A t \in Thread : pc[t] = "enq" ~> pc[t] = "held" \/ ~LockFree

-----------------------------------------------------------------------------
(* The promise the lock makes: a line of threads, whose head has the lock.    *)
WaiterOf(n) == CHOOSE t \in Thread : pc[t] \in Queued /\ mp[t] = n
Owner == CHOOSE t \in Thread : Owns(t)
line == (IF \E t \in Thread : Owns(t) THEN <<Owner>> ELSE <<>>)
           \o [i \in 1..Len(queue) |-> WaiterOf(queue[i])]

Fair == INSTANCE FairMutex WITH line <- line
ImplementsFairMutex == Fair!Spec
=============================================================================

-------------------------------- MODULE RWLock --------------------------------
(* The reader/writer lock of lib9/qlock.c (rlock, runlock, wlock, wunlock).   *)
(* As in QLock, a section under q->lock is one step and a rendezvous is two,  *)
(* with one exception: wunlock wakes its readers one after the other WITHOUT  *)
(* giving up q->lock, so its loop is several steps during which every other   *)
(* operation on the lock has to wait.                                         *)
EXTENDS QLp, Naturals, Sequences

VARIABLES readers, \* q->readers
          writer,  \* q->writer
          queue,   \* q->head ... q->tail
          state,   \* the state field of each element
          pc,      \* where each thread stands
          mp       \* the thread's local variable: mp when it waits, p when it wakes

poolvars == <<inuse, hint>>
qvars == <<readers, writer, queue, state>>
vars == <<poolvars, qvars, pc, mp>>

RWaiting == {"renq", "rwait", "rwoken"}   \* rlock: chained ... back from rendezvous
WWaiting == {"wenq", "wwait", "wwoken"}   \* wlock, likewise
Looping  == {"loop", "wake", "wakewait"}  \* wunlock's loop, which holds q->lock
Waking   == {"rel", "relwait", "wake", "wakewait"}
Enqueued == {"renq", "wenq"}
Parked   == {"rwait", "wwait", "relwait", "wakewait"}
Aborted  == {"dry", "abort"}
Location == {"idle", "reading", "writing"} \cup RWaiting \cup WWaiting \cup Looping
               \cup Waking \cup Aborted

TypeOK == /\ inuse \subseteq Qlp /\ hint \in Qlp
          /\ readers \in Nat /\ writer \in {0, 1}
          /\ queue \in Seq(Qlp)
          /\ state \in [Qlp -> {"Queuing", "QueuingR", "QueuingW"}]
          /\ pc \in [Thread -> Location]
          /\ mp \in [Thread -> Qlp \cup {NoQlp}]

Init == /\ QlpInit
        /\ readers = 0 /\ writer = 0
        /\ queue = <<>>
        /\ state = [n \in Qlp |-> "Queuing"]
        /\ pc = [t \in Thread |-> "idle"]
        /\ mp = [t \in Thread |-> NoQlp]

Goto(t, l) == pc' = [pc EXCEPT ![t] = l]

(* q->lock is free: held over a step only by wunlock's loop or an abort *)
LockFree == \A t \in Thread : pc[t] \notin Looping \cup Aborted

Ready(t, l) == pc[t] = l /\ LockFree

(* a broken variant: chain at the head of the list *)
ChainFirst(t, s, l) == /\ \E n \in Qlp : /\ GetQlp(n)
                                         /\ mp' = [mp EXCEPT ![t] = n]
                                         /\ queue' = <<n>> \o queue
                                         /\ state' = [state EXCEPT ![n] = s]
                       /\ Goto(t, l)
                       /\ UNCHANGED <<readers, writer>>

(* chain a fresh element into the list and go to its rendezvous *)
Chain(t, s, l) == /\ \E n \in Qlp : /\ GetQlp(n)
                                    /\ mp' = [mp EXCEPT ![t] = n]
                                    /\ queue' = Append(queue, n)
                                    /\ state' = [state EXCEPT ![n] = s]
                  /\ Goto(t, l)
                  /\ UNCHANGED <<readers, writer>>

(* take the head off the list and go to wake it *)
Unchain(t, l) == /\ mp' = [mp EXCEPT ![t] = Head(queue)]
                 /\ queue' = Tail(queue)
                 /\ Goto(t, l)
                 /\ UNCHANGED <<state, poolvars>>

HeadIs(s) == queue # <<>> /\ state[Head(queue)] = s

-----------------------------------------------------------------------------
(* broken variants: readers pass waiting writers; a writer joins readers *)
CanReadAlways == writer = 0
CanWriteAlways == writer = 0

CanRead == writer = 0 /\ queue = <<>>
CanWrite == readers = 0 /\ writer = 0

(* a broken variant: the reader is not counted *)
RLockUncounted(t) == /\ Ready(t, "idle") /\ CanRead
                     /\ Goto(t, "reading")
                     /\ UNCHANGED <<qvars, mp, poolvars>>

RLock(t) == /\ Ready(t, "idle") /\ CanRead
            /\ readers' = readers + 1
            /\ Goto(t, "reading")
            /\ UNCHANGED <<writer, queue, state, mp, poolvars>>

RWait(t) == /\ Ready(t, "idle") /\ ~CanRead
            /\ Chain(t, "QueuingR", "renq")

WLock(t) == /\ Ready(t, "idle") /\ CanWrite
            /\ writer' = 1
            /\ Goto(t, "writing")
            /\ UNCHANGED <<readers, queue, state, mp, poolvars>>

WWait(t) == /\ Ready(t, "idle") /\ ~CanWrite
            /\ Chain(t, "QueuingW", "wenq")

(* getqlp finds no free element and aborts, with q->lock held *)
Exhaust(t) == /\ Ready(t, "idle") /\ ~(CanRead /\ CanWrite)
              /\ QlpFree = {}
              /\ Goto(t, "dry")
              /\ UNCHANGED <<qvars, mp, poolvars>>

(* a broken variant: whoever waits is left waiting *)
RUnlockForgets(t) == /\ Ready(t, "reading")
                     /\ readers' = readers - 1
                     /\ Goto(t, "idle")
                     /\ UNCHANGED <<writer, queue, state, mp, poolvars>>

(* runlock: other readers remain, or nobody is waiting *)
RUnlock(t) == /\ Ready(t, "reading")
              /\ readers' = readers - 1
              /\ readers' > 0 \/ queue = <<>>
              /\ Goto(t, "idle")
              /\ UNCHANGED <<writer, queue, state, mp, poolvars>>

(* runlock: the last reader starts the waiting writer, which must be there *)
RUnlockLast(t) == /\ Ready(t, "reading")
                  /\ readers' = readers - 1
                  /\ readers' = 0 /\ queue # <<>>
                  /\ IF HeadIs("QueuingW")
                       THEN writer' = 1 /\ Unchain(t, "rel")
                       ELSE /\ Goto(t, "abort")
                            /\ UNCHANGED <<writer, queue, state, mp, poolvars>>

(* wunlock: nobody is waiting *)
WUnlock(t) == /\ Ready(t, "writing") /\ queue = <<>>
              /\ writer' = 0
              /\ Goto(t, "idle")
              /\ UNCHANGED <<readers, queue, state, mp, poolvars>>

(* wunlock: the lock passes to a waiting writer; q->writer stays 1 *)
WUnlockToWriter(t) == /\ Ready(t, "writing") /\ HeadIs("QueuingW")
                      /\ Unchain(t, "rel")
                      /\ UNCHANGED <<readers, writer>>

(* wunlock's loop: count the reader in and go to wake it, q->lock held. The   *)
(* first one at the head, which is no writer, must be a reader.               *)
WakeReader(t) == /\ \/ Ready(t, "writing") /\ queue # <<>> /\ ~HeadIs("QueuingW")
                    \/ pc[t] = "loop" /\ HeadIs("QueuingR")
                 /\ IF HeadIs("QueuingR")
                      THEN readers' = readers + 1 /\ Unchain(t, "wake") /\ UNCHANGED writer
                      ELSE /\ Goto(t, "abort")
                           /\ UNCHANGED <<qvars, mp, poolvars>>

(* wunlock: no reader is left at the head of the list *)
WakeDone(t) == /\ pc[t] = "loop" /\ ~HeadIs("QueuingR")
               /\ writer' = 0
               /\ Goto(t, "idle")
               /\ UNCHANGED <<readers, queue, state, mp, poolvars>>

-----------------------------------------------------------------------------
(* rendezvous(mp, ...): the first to arrive parks, the second sends both on *)
AtRendezvous == Enqueued \cup {"rel", "wake"}

ParkedAt(l) == CASE l = "renq" -> "rwait" [] l = "wenq" -> "wwait"
                 [] l = "rel" -> "relwait" [] l = "wake" -> "wakewait"

After(l) == CASE l \in {"renq", "rwait"} -> "rwoken"
              [] l \in {"wenq", "wwait"} -> "wwoken"
              [] l \in {"rel", "relwait"} -> "idle"
              [] l \in {"wake", "wakewait"} -> "loop"

Park(t) == /\ pc[t] \in AtRendezvous
           /\ \A u \in Thread : pc[u] \in Parked => mp[u] # mp[t]
           /\ Goto(t, ParkedAt(pc[t]))
           /\ UNCHANGED <<qvars, mp, poolvars>>

Meet(t, u) == /\ pc[t] \in AtRendezvous
              /\ pc[u] \in Parked
              /\ mp[u] = mp[t]
              /\ pc' = [pc EXCEPT ![t] = After(pc[t]), ![u] = After(pc[u])]
              /\ UNCHANGED <<qvars, mp, poolvars>>

(* rlock and wlock, after the rendezvous: mp->inuse = 0 *)
Return(t) == /\ pc[t] \in {"rwoken", "wwoken"}
             /\ PutQlp(mp[t])
             /\ Goto(t, IF pc[t] = "rwoken" THEN "reading" ELSE "writing")
             /\ UNCHANGED <<qvars, mp>>

Unlock(t) == \/ RUnlock(t) \/ RUnlockLast(t) \/ WUnlock(t)
             \/ WUnlockToWriter(t) \/ WakeReader(t) \/ WakeDone(t)

Rendezvous(t) == Park(t) \/ \E u \in Thread : Meet(t, u)

Step(t) == \/ RLock(t) \/ RWait(t) \/ WLock(t) \/ WWait(t) \/ Exhaust(t)
           \/ Unlock(t) \/ Rendezvous(t) \/ Return(t)

Next == \E t \in Thread : Step(t)

Spec == Init /\ [][Next]_vars

(* A running thread keeps running and whoever has the lock lets it go. *)
Fairness == \A t \in Thread : /\ WF_vars(Unlock(t))
                              /\ WF_vars(Rendezvous(t))
                              /\ WF_vars(Return(t))

FairSpec == Spec /\ Fairness

-----------------------------------------------------------------------------
InQueue(n) == \E i \in 1..Len(queue) : queue[i] = n

(* A waiter has the lock once its element is off the list. *)
Reads(t)  == pc[t] = "reading" \/ (pc[t] \in RWaiting /\ ~InQueue(mp[t]))
Writes(t) == pc[t] = "writing" \/ (pc[t] \in WWaiting /\ ~InQueue(mp[t]))

(* A writer has the lock alone, and this from the moment the lock is handed   *)
(* to it, before it knows: the hand-over leaves no window. The counters tell  *)
(* the truth about who has the lock; the writer word may outlive its writer   *)
(* only while wunlock is letting the readers in.                              *)
Exclusion ==
    /\ \A t, u \in Thread : Writes(t) /\ (Reads(u) \/ Writes(u)) => t = u
    /\ readers = Cardinality({t \in Thread : Reads(t)})
    /\ writer = 1 <=> \E t \in Thread : Writes(t) \/ pc[t] \in Looping

(* Nobody waits for nothing: with no reader and no writer the list is empty,  *)
(* and readers keep others waiting only behind a writer. Neither runlock nor  *)
(* wunlock aborts: the last reader finds a writer at the head of the list, by *)
(* the second part, and the writer a writer or a reader, for each element of  *)
(* the list has been marked by its own waiter.                                *)
NoVainWait == /\ queue # <<>> => readers > 0 \/ writer = 1
              /\ writer = 0 /\ queue # <<>> => HeadIs("QueuingW")
              /\ \A t \in Thread : pc[t] # "abort"

(* Readers and writers that queued all get the lock, unless getqlp aborts.    *)
NoStarvation ==
    \A t \in Thread :
       pc[t] \in Enqueued ~> \/ pc[t] \in {"reading", "writing"}
                             \/ \E u \in Thread : pc[u] = "dry"

(* The promise: the batch is who has the lock and, while wunlock lets the     *)
(* readers in, those of the list it is going to wake; the line is the rest.   *)
WaiterOf(n) == CHOOSE t \in Thread : pc[t] \in RWaiting \cup WWaiting /\ mp[t] = n
Behind == IF \E t \in Thread : pc[t] \in Looping
            THEN {i \in 1..Len(queue) : \A j \in 1..i : state[queue[j]] = "QueuingR"}
            ELSE {}
batch == {t \in Thread : Reads(t) \/ Writes(t)} \cup {WaiterOf(queue[i]) : i \in Behind}
kind == IF \E t \in Thread : Writes(t) THEN "W" ELSE "R"
line == [i \in 1..(Len(queue) - Cardinality(Behind)) |->
           LET n == queue[i + Cardinality(Behind)]
           IN  <<WaiterOf(n), IF state[n] = "QueuingR" THEN "R" ELSE "W">>]

Fair == INSTANCE FairRWLock WITH line <- line, batch <- batch, kind <- kind
ImplementsFairRWLock == Fair!Spec
=============================================================================

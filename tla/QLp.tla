--------------------------------- MODULE QLp ---------------------------------
(* The pool of queue elements of lib9/qlock.c: a static array ql.x[1024] of   *)
(* QLp, each with an inuse word claimed by _tas, and the roving pointer ql.p. *)
(* Every QLock and RWLock of a program queues its waiters in elements of this *)
(* one pool, and an element's address is the tag its waiter and the thread    *)
(* that wakes it meet on in rendezvous.                                       *)
EXTENDS FiniteSets

CONSTANTS Thread,  \* the threads that call qlock, rlock, ...
          Qlp,     \* the elements of ql.x
          NoQlp    \* the nil pointer

ASSUME QlpAssumption == IsFiniteSet(Thread) /\ NoQlp \notin Qlp

VARIABLES inuse,   \* the elements whose inuse word is set
          hint     \* ql.p: the element handed out last

QlpInit == inuse = {} /\ hint \in Qlp

(* getqlp scans from ql.p+1, wraps, and gives up (abort) when it is back at   *)
(* ql.p, which it never tries: any other free element may be the one found.   *)
QlpFree == Qlp \ (inuse \cup {hint})

GetQlp(n) == /\ n \in QlpFree
             /\ inuse' = inuse \cup {n}
             /\ hint' = n

(* Broken variants of PutQlp: the element stays taken; the roving pointer is  *)
(* cleared along with it.                                                     *)
PutQlpLeaks(n) == UNCHANGED <<inuse, hint>>
PutQlpClears(n) == inuse' = inuse \ {n} /\ hint' = NoQlp

(* mp->inuse = 0, by the waiter, after its rendezvous has returned *)
PutQlp(n) == /\ inuse' = inuse \ {n}
             /\ UNCHANGED hint
=============================================================================

-------------------------------- MODULE Sched --------------------------------
(* The scheduler of libthread/thread.c: procs, which the kernel runs in       *)
(* parallel, each running one of its threads at a time and switching only     *)
(* inside _yield and _threadrendezvous; the rendezvous between threads of any *)
(* procs; the exit of threads and procs, and the reaping of dead child procs. *)
(* A section under rendezlock is one step, and so is what a proc does alone.  *)
EXTENDS Integers, FiniteSets, Sequences

CONSTANTS Proc, Thread, Tag,
          Main, MainThread, \* the proc and the thread of threadinit
          Spawner,    \* the procs whose threads call threadcreate
          MainLeaves, \* may MainThread exit while its proc has other threads?
          WaitChan,   \* has threadwaitchan been called?
          None        \* nil

ASSUME SchedAssumption == /\ Main \in Proc /\ MainThread \in Thread
                          /\ Spawner \subseteq Proc
                          /\ MainLeaves \in BOOLEAN /\ WaitChan \in BOOLEAN
                          /\ None \notin Thread \cup Proc

VARIABLES pstate,   \* of a proc: not created, live, dead, or waited for
          parent,   \* p->parent
          mustwait, \* p->mustwait.ref
          nprocs,   \* nprocs.ref
          nthreads, \* p->nthreads
          runnable, \* p->runnable
          cur, pc,  \* the thread on which the proc runs, and where in it
          proc,     \* t->proc
          threads,  \* the threads that are on the threads list of their proc
          state, env, tag, value, \* of a thread; env: where its jmp_buf leads
          rendez,   \* the queue of the threads that wait in a rendezvous
          ret,      \* what a thread's last rendezvous returned
          tlock,    \* threadlock is held for ever
          failed    \* an assertion has failed

pvars == <<pstate, parent, mustwait, nprocs>>
tvars == <<proc, nthreads>>
flags == <<tlock, failed>>
vars == <<pvars, tvars, flags, runnable, cur, pc, threads, state, env, tag, value,
          rendez, ret>>

Init == /\ pstate = [p \in Proc |-> IF p = Main THEN "live" ELSE "none"]
        /\ parent = [p \in Proc |-> None]
        /\ mustwait = [p \in Proc |-> 0]
        /\ nprocs = 1
        /\ nthreads = [p \in Proc |-> IF p = Main THEN 1 ELSE 0]
        /\ runnable = [p \in Proc |-> <<>>]
        /\ cur = [p \in Proc |-> IF p = Main THEN MainThread ELSE None]
        /\ pc = [p \in Proc |-> "user"]
        /\ proc = [t \in Thread |-> IF t = MainThread THEN Main ELSE None]
        /\ threads = {MainThread}
        /\ state = [t \in Thread |-> IF t = MainThread THEN "Running" ELSE "None"]
        /\ env = [t \in Thread |-> "none"]
        /\ tag = [t \in Thread |-> None]
        /\ value = [t \in Thread |-> None]
        /\ rendez = <<>>
        /\ ret = [t \in Thread |-> None]
        /\ tlock = FALSE
        /\ failed = FALSE

(* the proc runs: no assertion has failed, and getthread() gets threadlock *)
Runs(p, l) == pstate[p] = "live" /\ pc[p] = l /\ ~failed /\ ~tlock

-----------------------------------------------------------------------------
(* garbagethread(thr): it asserts that thr has exited and that its proc still *)
(* has it. For the main thread, which is first in threadtab, it returns       *)
(* early, with threadlock held.                                               *)
Garbage(thr) == /\ threads' = threads \ {thr}
                /\ failed' = ~(state[thr] = "Exiting" /\ thr \in threads)
                /\ tlock' = (thr = MainThread)

(* longjmp(new->env, thr): the proc goes on as thread new, st being the state *)
(* of the threads by then and q the rest of the run queue.  thr is the exited *)
(* thread that new is to collect, or None (~0); a new thread starts in        *)
(* threadlauncher, which collects nothing.                                    *)
Switch(p, new, q, thr, st, ev) ==
    /\ cur' = [cur EXCEPT ![p] = new]
    /\ pc' = [pc EXCEPT ![p] = "user"]
    /\ runnable' = [runnable EXCEPT ![p] = q]
    /\ state' = [st EXCEPT ![new] = "Running"]
    /\ env' = [ev EXCEPT ![new] = "none"]
    /\ ret' = IF ev[new] = "rdv" THEN [ret EXCEPT ![new] = value[new]] ELSE ret
    /\ IF thr # None /\ ev[new] # "launch" THEN Garbage(thr)
                                           ELSE UNCHANGED <<threads, flags>>

(* deadchild(p, pid, w), for child c: what it asserts, and what it frees      *)
ThreadsOf(c) == {t \in threads : proc[t] = c}
DeadChildren(p) == {c \in Proc : pstate[c] = "dead" /\ parent[c] = p}

DeadChild(c) ==
    /\ pstate' = [pstate EXCEPT ![c] = "gone"]
    /\ threads' = threads \ ThreadsOf(c)
    /\ failed' = ~( /\ Cardinality(ThreadsOf(c)) = 1
                    /\ \A t \in ThreadsOf(c) : state[t] = "Exiting" )

(* if(p->mustwait.ref && (pid = nbwait(&w)) > 0) deadchild(p, pid, &w) *)
MayReap(p) == mustwait[p] # 0 /\ DeadChildren(p) # {}

(* deadchild ends with decref(&p->mustwait), which an exiting thread does not *)
(* reach if it has to send to thewaitchan: send yields, and does not return   *)
Reaped(p, exiting) ==
    mustwait' = IF exiting /\ WaitChan THEN mustwait ELSE [mustwait EXCEPT ![p] = @ - 1]

ReapOne(p, exiting) ==
    IF MayReap(p) THEN Reaped(p, exiting) /\ \E c \in DeadChildren(p) : DeadChild(c)
                  ELSE UNCHANGED <<pstate, mustwait, threads, failed>>

-----------------------------------------------------------------------------
ThreadPrep(p, t) == /\ proc' = [proc EXCEPT ![t] = p]
                    /\ threads' = threads \cup {t}
                    /\ nthreads' = [nthreads EXCEPT ![p] = @ + 1]

(* threadcreate *)
ThreadCreate(p, t) ==
    /\ Runs(p, "user") /\ p \in Spawner /\ state[t] = "None"
    /\ ThreadPrep(p, t)
    /\ state' = [state EXCEPT ![t] = "Runnable"]
    /\ env' = [env EXCEPT ![t] = "launch"]
    /\ runnable' = [runnable EXCEPT ![p] = Append(@, t)]
    /\ UNCHANGED <<pvars, flags, cur, pc, tag, value, rendez, ret>>

(* a broken variant of proccreate: without incref(&nprocs) *)
ProcUncounted(p, c, t) ==
    /\ Runs(p, "user") /\ pstate[c] = "none" /\ state[t] = "None"
    /\ pstate' = [pstate EXCEPT ![c] = "live"]
    /\ parent' = [parent EXCEPT ![c] = p]
    /\ ThreadPrep(c, t)
    /\ state' = [state EXCEPT ![t] = "Running"]
    /\ cur' = [cur EXCEPT ![c] = t]
    /\ UNCHANGED <<mustwait, nprocs, flags, runnable, pc, env, tag, value, rendez, ret>>

(* proccreate, and proclauncher, which takes the thread off the run queue     *)
ProcCreate(p, c, t) ==
    /\ Runs(p, "user") /\ pstate[c] = "none" /\ state[t] = "None"
    /\ pstate' = [pstate EXCEPT ![c] = "live"]
    /\ parent' = [parent EXCEPT ![c] = p]
    /\ nprocs' = nprocs + 1
    /\ ThreadPrep(c, t)
    /\ state' = [state EXCEPT ![t] = "Running"]
    /\ cur' = [cur EXCEPT ![c] = t]
    /\ UNCHANGED <<mustwait, flags, runnable, pc, env, tag, value, rendez, ret>>

(* _yield, as far as lock(&rendezlock) *)
Yield(p) ==
    /\ Runs(p, "user")
    /\ pc' = [pc EXCEPT ![p] = "getq"]
    /\ ReapOne(p, FALSE)
    /\ UNCHANGED <<parent, nprocs, tvars, tlock, runnable, cur, state, env, tag, value,
                   rendez, ret>>

(* the rest of _yield: nothing to yield for ... *)
YieldNone(p) ==
    /\ Runs(p, "getq") /\ runnable[p] = <<>>
    /\ pc' = [pc EXCEPT ![p] = IF state[cur[p]] = "Exiting" THEN "sleep" ELSE "user"]
    /\ UNCHANGED <<pvars, tvars, flags, runnable, cur, threads, state, env, tag, value,
                   rendez, ret>>

(* broken variants: the yielding thread goes first again; every yielding      *)
(* thread is handed over to be collected                                      *)
YieldToFirst(p) ==
    /\ Runs(p, "getq") \/ (Runs(p, "relock") /\ state[cur[p]] = "Exiting")
    /\ runnable[p] # <<>>
    /\ LET t == cur[p] new == Head(runnable[p]) q == Tail(runnable[p])
       IN  IF state[t] = "Exiting"
             THEN Switch(p, new, q, t, state, env)
             ELSE Switch(p, new, <<t>> \o q, None, [state EXCEPT ![t] = "Runnable"],
                         [env EXCEPT ![t] = "yield"])
    /\ UNCHANGED <<pvars, tvars, tag, value, rendez>>
YieldToCollect(p) ==
    /\ Runs(p, "getq") \/ (Runs(p, "relock") /\ state[cur[p]] = "Exiting")
    /\ runnable[p] # <<>>
    /\ LET t == cur[p] new == Head(runnable[p]) q == Tail(runnable[p])
       IN  IF state[t] = "Exiting"
             THEN Switch(p, new, q, t, state, env)
             ELSE Switch(p, new, Append(q, t), t, [state EXCEPT ![t] = "Runnable"],
                         [env EXCEPT ![t] = "yield"])
    /\ UNCHANGED <<pvars, tvars, tag, value, rendez>>

(* ... or the next thread runs: the yielding one queues, an exiting one is    *)
(* handed to it to be collected                                               *)
YieldTo(p) ==
    /\ Runs(p, "getq") \/ (Runs(p, "relock") /\ state[cur[p]] = "Exiting")
    /\ runnable[p] # <<>>
    /\ LET t == cur[p] new == Head(runnable[p]) q == Tail(runnable[p])
       IN  IF state[t] = "Exiting"
             THEN Switch(p, new, q, t, state, env)
             ELSE Switch(p, new, Append(q, t), None, [state EXCEPT ![t] = "Runnable"],
                         [env EXCEPT ![t] = "yield"])
    /\ UNCHANGED <<pvars, tvars, tag, value, rendez>>

(* a broken variant of the removal below: it stays in the queue *)
WithoutNone(i) == rendez

(* _threadrendezvous finds a thread that waits on the tag, if there are       *)
(* several a local one                                                        *)
Waiting(g) == {i \in DOMAIN rendez : tag[rendez[i]] = g}
Partner(p, g) ==
    LET local == {i \in Waiting(g) : proc[rendez[i]] = p}
    IN  IF local # {} THEN CHOOSE i \in local : \A j \in local : i <= j
                      ELSE CHOOSE i \in Waiting(g) : \A j \in Waiting(g) : j <= i
Without(i) == SubSeq(rendez, 1, i - 1) \o SubSeq(rendez, i + 1, Len(rendez))

(* a broken variant: the value is taken and none is given for it *)
MeetTakes(p, g) ==
    /\ Runs(p, "user") /\ Waiting(g) # {}
    /\ LET t == cur[p] i == Partner(p, g) that == rendez[i]
       IN  /\ ret' = [ret EXCEPT ![t] = value[that]]
           /\ state' = [state EXCEPT ![that] = "Runnable"]
           /\ rendez' = Without(i)
           /\ runnable' = [runnable EXCEPT ![proc[that]] = Append(@, that)]
    /\ UNCHANGED <<pvars, tvars, flags, cur, pc, threads, env, tag, value>>

(* if there is one, which is asserted to be waiting, it is met *)
Meet(p, g) ==
    /\ Runs(p, "user") /\ Waiting(g) # {}
    /\ LET t == cur[p] i == Partner(p, g) that == rendez[i]
       IN  /\ failed' = (state[that] # "Rendezvous")
           /\ ret' = [ret EXCEPT ![t] = value[that]]
           /\ value' = [value EXCEPT ![that] = t]
           /\ state' = [state EXCEPT ![that] = "Runnable"]
           /\ rendez' = Without(i)
           /\ runnable' = [runnable EXCEPT ![proc[that]] = Append(@, that)]
    /\ UNCHANGED <<pvars, tvars, tlock, cur, pc, threads, env, tag>>

(* ... or queues and lets another thread run; with none it polls *)
Block(p, g) ==
    /\ Runs(p, "user") /\ Waiting(g) = {}
    /\ LET t == cur[p] st == [state EXCEPT ![t] = "Rendezvous"] ev == [env EXCEPT ![t] = "rdv"]
       IN  /\ value' = [value EXCEPT ![t] = t]
           /\ tag' = [tag EXCEPT ![t] = g]
           /\ rendez' = Append(rendez, t)
           /\ IF runnable[p] # <<>>
                THEN Switch(p, Head(runnable[p]), Tail(runnable[p]), None, st, ev)
                ELSE /\ pc' = [pc EXCEPT ![p] = "sleep"]
                     /\ state' = st /\ env' = ev
                     /\ UNCHANGED <<flags, runnable, cur, threads, ret>>
    /\ UNCHANGED <<pvars, tvars>>

(* The polling loops of _yield and _threadrendezvous, while no thread of the  *)
(* proc is runnable: sleep, reap a dead child if there is one, look again.    *)
(* If threadwaitchan has been called, deadchild sends it a message, and send  *)
(* yields in the name of the waiting thread: if it has been met meanwhile and *)
(* is itself the first runnable one it comes back, queued again; otherwise    *)
(* putq finds it queued already, or garbagethread finds that it has not       *)
(* exited.                                                                    *)
Reenters(p) == /\ WaitChan /\ MayReap(p)
               /\ state[cur[p]] # "Exiting" /\ runnable[p] # <<>>

PollReap(p) ==
    /\ Runs(p, "sleep")
    /\ IF Reenters(p) /\ Head(runnable[p]) # cur[p]
         THEN /\ failed' = TRUE
              /\ UNCHANGED <<pstate, mustwait, pc, runnable, threads, state>>
         ELSE /\ pc' = [pc EXCEPT ![p] = "relock"]
              /\ ReapOne(p, state[cur[p]] = "Exiting")
              /\ IF Reenters(p)
                   THEN /\ runnable' = [runnable EXCEPT ![p] = Append(Tail(@), cur[p])]
                        /\ state' = [state EXCEPT ![cur[p]] = "Running"]
                   ELSE UNCHANGED <<runnable, state>>
    /\ UNCHANGED <<parent, nprocs, tvars, tlock, cur, env, tag, value, rendez, ret>>

PollAgain(p) ==
    /\ Runs(p, "relock") /\ runnable[p] = <<>>
    /\ pc' = [pc EXCEPT ![p] = "sleep"]
    /\ UNCHANGED <<pvars, tvars, flags, runnable, cur, threads, state, env, tag, value,
                   rendez, ret>>

(* _threadrendezvous: a thread is runnable, perhaps the waiting one itself *)
Unblock(p) ==
    /\ Runs(p, "relock") /\ state[cur[p]] # "Exiting"
    /\ runnable[p] # <<>>
    /\ Switch(p, Head(runnable[p]), Tail(runnable[p]), None, state, env)
    /\ UNCHANGED <<pvars, tvars, tag, value, rendez>>

(* _threadexits: another thread of the proc goes on *)
ThreadExits(p) ==
    /\ Runs(p, "user") /\ nthreads[p] > 1
    /\ cur[p] = MainThread => MainLeaves
    /\ nthreads' = [nthreads EXCEPT ![p] = @ - 1]
    /\ state' = [state EXCEPT ![cur[p]] = "Exiting"]
    /\ pc' = [pc EXCEPT ![p] = "getq"]
    /\ ReapOne(p, TRUE)
    /\ UNCHANGED <<parent, nprocs, proc, tlock, runnable, cur, env, tag, value, rendez, ret>>

(* _threadexits of the last thread in a proc: the last proc exits at once *)
LastExits(p) ==
    /\ Runs(p, "user") /\ nthreads[p] = 1
    /\ nthreads' = [nthreads EXCEPT ![p] = 0]
    /\ nprocs' = nprocs - 1
    /\ state' = [state EXCEPT ![cur[p]] = "Exiting"]
    /\ pc' = [pc EXCEPT ![p] = "wait"]
    /\ pstate' = IF nprocs' = 0 THEN [pstate EXCEPT ![p] = "dead"] ELSE pstate
    /\ UNCHANGED <<parent, mustwait, proc, flags, runnable, cur, threads, env, tag, value,
                   rendez, ret>>

(* while(p->child) wait: it delays its exit for its children. The message to  *)
(* thewaitchan, if any, makes it yield, and with no thread left to yield to   *)
(* it polls for ever ...                                                      *)
Children(p) == {c \in Proc : parent[c] = p /\ pstate[c] \in {"live", "dead"}}

WaitChild(p) ==
    /\ Runs(p, "wait")
    /\ \E c \in DeadChildren(p) : DeadChild(c)
    /\ IF WaitChan THEN pc' = [pc EXCEPT ![p] = "sleep"] /\ UNCHANGED mustwait
                   ELSE Reaped(p, FALSE) /\ UNCHANGED pc
    /\ UNCHANGED <<parent, nprocs, tvars, tlock, runnable, cur, state, env, tag, value,
                   rendez, ret>>

(* a broken variant: without incref(&p->parent->mustwait) *)
ProcExitsSilently(p) ==
    /\ Runs(p, "wait") /\ Children(p) = {}
    /\ pstate' = [pstate EXCEPT ![p] = "dead"]
    /\ UNCHANGED <<parent, mustwait, nprocs, tvars, flags, runnable, cur, pc, threads, state,
                   env, tag, value, rendez, ret>>

(* ... and then exits and makes its parent clean up *)
ProcExits(p) ==
    /\ Runs(p, "wait") /\ Children(p) = {}
    /\ pstate' = [pstate EXCEPT ![p] = "dead"]
    /\ mustwait' = IF parent[p] = None THEN mustwait
                   ELSE [mustwait EXCEPT ![parent[p]] = @ + 1]
    /\ UNCHANGED <<parent, nprocs, tvars, flags, runnable, cur, pc, threads, state, env, tag,
                   value, rendez, ret>>

User(p) == \/ \E t \in Thread : ThreadCreate(p, t)
           \/ \E t \in Thread, c \in Proc : ProcCreate(p, c, t)
           \/ \E g \in Tag : Meet(p, g) \/ Block(p, g)
           \/ Yield(p) \/ ThreadExits(p) \/ LastExits(p)

Inside(p) == \/ YieldNone(p) \/ YieldTo(p) \/ Unblock(p)
             \/ PollReap(p) \/ PollAgain(p) \/ WaitChild(p) \/ ProcExits(p)

Next == \E p \in Proc : User(p) \/ Inside(p)

Spec == Init /\ [][Next]_vars

(* A proc goes on inside the library, and every thread that runs now and then *)
(* yields or exits: cooperative threads owe each other this much.             *)
Fairness == \A p \in Proc : /\ WF_vars(Inside(p))
                            /\ WF_vars(Yield(p) \/ ThreadExits(p) \/ LastExits(p))

FairSpec == Spec /\ Fairness

-----------------------------------------------------------------------------
TypeOK == /\ pstate \in [Proc -> {"none", "live", "dead", "gone"}]
          /\ parent \in [Proc -> Proc \cup {None}]
          /\ mustwait \in [Proc -> Int] /\ nprocs \in Nat
          /\ nthreads \in [Proc -> Nat]
          /\ runnable \in [Proc -> Seq(Thread)] /\ rendez \in Seq(Thread)
          /\ cur \in [Proc -> Thread \cup {None}]
          /\ pc \in [Proc -> {"user", "getq", "sleep", "relock", "wait"}]
          /\ proc \in [Thread -> Proc \cup {None}]
          /\ threads \subseteq Thread
          /\ state \in [Thread -> {"None", "Running", "Runnable", "Rendezvous", "Exiting"}]
          /\ env \in [Thread -> {"none", "launch", "yield", "rdv"}]
          /\ tag \in [Thread -> Tag \cup {None}]
          /\ value \in [Thread -> Thread \cup {None}]
          /\ ret \in [Thread -> Thread \cup {None}]

Count(t, q) == Cardinality({i \in DOMAIN q : q[i] = t})

(* A thread is in one place, the one its state names: on the run queue of its *)
(* own proc, in the rendezvous queue, or running, which it does on one proc;  *)
(* and whoever will be switched to has a jmp_buf to go on from. The counts    *)
(* tell when a proc, and when the program, has nothing left to do.            *)
OnePlace ==
    /\ \A t \in Thread : LET p == proc[t] IN
         p # None /\ pstate[p] = "live" =>
         /\ \A o \in Proc \ {p} : Count(t, runnable[o]) = 0 /\ cur[o] # t
         /\ Count(t, runnable[p]) = (IF state[t] = "Runnable" THEN 1 ELSE 0)
         /\ Count(t, rendez) = (IF state[t] = "Rendezvous" THEN 1 ELSE 0)
         /\ state[t] = "Running" => cur[p] = t /\ pc[p] \in {"user", "getq"}
         /\ state[t] \in {"Runnable", "Rendezvous"} => env[t] # "none"
    /\ \A p \in Proc : nthreads[p] =
          Cardinality({t \in Thread : proc[t] = p /\ state[t] \notin {"None", "Exiting"}})
    /\ nprocs = Cardinality({p \in Proc : pstate[p] = "live" /\ pc[p] # "wait"})

(* The assertions about threads of other procs or of an earlier step hold: a  *)
(* thread that is collected has exited and is still on its proc's list, a     *)
(* child that is reaped has exactly one thread left, which has exited, and    *)
(* whoever is found in the rendezvous queue waits; nor does a thread get into *)
(* the scheduler again from within it. (That a thread is queued once only,    *)
(* which putq asserts, is OnePlace's.)                                        *)
AssertionsHold == ~failed

(* A runnable thread runs, and a dead proc is waited for by its parent (the   *)
(* main proc has none here).                                                  *)
RunsAgain == \A t \in Thread : state[t] = "Runnable" ~> state[t] # "Runnable"
Reaping == \A p \in Proc \ {Main} :
              pstate[p] = "dead" ~> pstate[p] = "gone" \/ pstate[Main] = "dead"

(* The promise of a rendezvous. A thread that has been met, but does not run  *)
(* yet, finds its result in its value field.                                  *)
parked == {[t |-> rendez[i], tag |-> tag[rendez[i]]] : i \in DOMAIN rendez}
got == [t \in Thread |-> IF state[t] = "Rendezvous" THEN None
                         ELSE IF env[t] = "rdv" THEN value[t] ELSE ret[t]]

Promise == INSTANCE Rendezvous WITH parked <- parked, got <- got
ImplementsRendezvous == Promise!Spec
=============================================================================

----------------------------- MODULE SchedProofs -----------------------------
(* Proofs about the scheduler of libthread: every thread is in the one place  *)
(* that its state names, and what it collects and reaps has exited.           *)
EXTENDS Sched, ListFacts

-----------------------------------------------------------------------------
(* THE INDUCTIVE INVARIANT *)

Active == {"Running", "Runnable", "Rendezvous"}
PcOf == {"user", "getq", "sleep", "relock", "wait"}
Live(p) == pstate[p] = "live"

Typed == /\ pstate \in [Proc -> {"none", "live", "dead", "gone"}]
         /\ parent \in [Proc -> Proc \cup {None}]
         /\ mustwait \in [Proc -> Int]
         /\ nthreads \in [Proc -> Int]
         /\ runnable \in [Proc -> Seq(Thread)]
         /\ cur \in [Proc -> Thread \cup {None}]
         /\ pc \in [Proc -> PcOf]
         /\ proc \in [Thread -> Proc \cup {None}]
         /\ threads \subseteq Thread
         /\ state \in [Thread -> Active \cup {"None", "Exiting"}]
         /\ env \in [Thread -> {"none", "launch", "yield", "rdv"}]
         /\ tag \in [Thread -> Tag \cup {None}]
         /\ value \in [Thread -> Thread \cup {None}]
         /\ ret \in [Thread -> Thread \cup {None}]

(* A thread belongs to the proc that has it; a proc that has been created has *)
(* a thread to run, or to have run last.                                      *)
Owned == /\ \A t \in Thread : state[t] = "None" <=> proc[t] = None
         /\ \A t \in Thread : state[t] \in Active => Live(proc[t])
         /\ \A p \in Proc : cur[p] # None => proc[cur[p]] = p
         /\ \A p \in Proc : pstate[p] = "none" <=> cur[p] = None
         /\ \A p \in Proc : pstate[p] = "none" => pc[p] = "user"
         /\ \A t \in Thread : proc[t] # None => pstate[proc[t]] # "none"

(* Where a proc is tells the state of its thread, and the other way round.    *)
Fits(l, s) == /\ l = "user" => s = "Running"
              /\ l = "getq" => s \in {"Running", "Exiting"}
              /\ l \in {"sleep", "relock"} => s \in {"Rendezvous", "Runnable", "Exiting"}
              /\ l = "wait" => s = "Exiting"
Placed == /\ \A p \in Proc : Live(p) => Fits(pc[p], state[cur[p]])
          /\ \A t \in Thread : state[t] = "Running" => cur[proc[t]] = t
          /\ \A t \in Thread : state[t] \in {"Runnable", "Rendezvous"} => env[t] # "none"
          /\ \A t \in Thread : state[t] \in Active => pc[proc[t]] # "wait"

(* The queues list just the threads whose state says so, each once.           *)
Ready(p) == {t \in Thread : proc[t] = p /\ state[t] = "Runnable"}
Parked == {t \in Thread : state[t] = "Rendezvous"}
Listed == (\A p \in Proc : OnceEach(runnable[p], Ready(p))) /\ OnceEach(rendez, Parked)

(* The counters count the threads that have not exited, and the procs that do *)
(* not wait for their children.                                               *)
ActiveOf(p) == {t \in Thread : proc[t] = p /\ state[t] \in Active}
Busy == {p \in Proc : Live(p) /\ pc[p] # "wait"}
Counted == /\ \A p \in Proc : nthreads[p] = Cardinality(ActiveOf(p))
           /\ nprocs = Cardinality(Busy)

IInv == Typed /\ Owned /\ Placed /\ Listed /\ Counted

(* Of a proc whose threads create none: it has the one thread.                *)
Single == /\ pstate[Main] # "none" /\ parent[Main] = None
          /\ \A c \in Proc \ {Main} : pstate[c] \in {"live", "dead"} =>
                /\ ThreadsOf(c) = {cur[c]}
                /\ \A t \in Thread : proc[t] = c => t = cur[c]
                /\ pstate[c] = "dead" => state[cur[c]] = "Exiting"
          /\ ~failed

(* What the proofs assume: threadwaitchan has not been called.                *)
Given == ~WaitChan /\ IsFiniteSet(Proc) /\ IsFiniteSet(Thread)

(* A live proc has a thread of its own.                                       *)
LEMMA CurIsThread ==
  ASSUME IInv, NEW p \in Proc, Live(p)
  PROVE  cur[p] \in Thread /\ cur[p] # None /\ proc[cur[p]] = p
BY DEF IInv, Typed, Owned, Live

(* The initial state: the main proc runs the main thread.                     *)
LEMMA InitHolds == ASSUME Init, Given PROVE IInv /\ Single
<1>. USE SchedAssumption DEF Init
<1>1. Typed
  BY DEF Typed, PcOf, Active
<1>2. Owned
  BY DEF Owned, Live, Active
<1>3. Placed
  BY DEF Placed, Fits, Live, Active
<1>4. Listed
  <2>1. \A p \in Proc : Ready(p) = {}
    BY DEF Ready
  <2>2. Parked = {}
    BY DEF Parked
  <2>. QED  BY <2>1, <2>2, OnceNone DEF Listed
<1>5. Counted
  <2>1. ActiveOf(Main) = {MainThread} /\ \A p \in Proc \ {Main} : ActiveOf(p) = {}
    BY DEF ActiveOf, Active
  <2>2. Busy = {Main}
    BY DEF Busy, Live
  <2>. QED  BY <2>1, <2>2, FS_Singleton, FS_EmptySet DEF Counted
<1>6. Single
  BY DEF Single
<1>. QED  BY <1>1, <1>2, <1>3, <1>4, <1>5, <1>6 DEF IInv

-----------------------------------------------------------------------------
(* A PROC MOVES ON, AND REAPS *)

(* The procs that live, and those that do not exist, stay the same.           *)
SameLive == \A p \in Proc : /\ (pstate'[p] = "live") <=> (pstate[p] = "live")
                            /\ (pstate'[p] = "none") <=> (pstate[p] = "none")

(* What one proc does to itself and its threads, new being the one it runs by *)
(* then: nothing changes for the others but that one of their threads that    *)
(* waited in a rendezvous is met.                                             *)
Met(t) == state[t] = "Rendezvous" /\ state'[t] = "Runnable"

Moves(p, new, l) == /\ proc[new] = p /\ UNCHANGED proc
                    /\ cur' = [cur EXCEPT ![p] = new] /\ pc' = [pc EXCEPT ![p] = l]
                    /\ pstate'[p] = "live" => Fits(l, state'[new])
                    /\ l = "wait" => \A t \in Thread : proc[t] = p => state'[t] \notin Active
SameProcs(p) == /\ \A o \in Proc \ {p} : (pstate'[o] = "live") <=> (pstate[o] = "live")
                /\ \A o \in Proc : (pstate'[o] = "none") <=> (pstate[o] = "none")
SameThreads(p, new) ==
    \A t \in Thread :
       /\ (state'[t] = "None") <=> (state[t] = "None")
       /\ proc[t] # p => state'[t] = state[t] \/ Met(t)
       /\ proc[t] = p /\ state'[t] \in Active => pstate'[p] = "live"
       /\ proc[t] = p /\ state'[t] = "Running" => t = new
       /\ state'[t] \in {"Runnable", "Rendezvous"} => env'[t] # "none"

(* A step of one proc that keeps lists and counts keeps the rest.             *)
LEMMA StepKeeps ==
  ASSUME IInv, Typed', Listed', Counted', NEW p \in Proc, Live(p), NEW new \in Thread,
         NEW l \in PcOf, Moves(p, new, l), SameProcs(p), SameThreads(p, new)
  PROVE  IInv'
<1>. USE DEF Moves, SameProcs, SameThreads
<1>1. /\ \A o \in Proc \ {p} : cur'[o] = cur[o] /\ pc'[o] = pc[o]
      /\ cur'[p] = new /\ pc'[p] = l
  BY DEF IInv, Typed
<1>2. \A t \in Thread : proc[t] # p /\ state'[t] \in Active => state[t] \in Active
  BY DEF Active, Met
<1>3. Owned'
  <2>1. \A t \in Thread : state'[t] = "None" <=> proc'[t] = None
    BY DEF IInv, Owned
  <2>2. \A t \in Thread : state'[t] \in Active => pstate'[proc'[t]] = "live"
    <3>1. SUFFICES ASSUME NEW t \in Thread, state'[t] \in Active, proc[t] # p
                   PROVE  pstate'[proc[t]] = "live"
      OBVIOUS
    <3>2. state[t] \in Active
      BY <1>2, <3>1
    <3>3. pstate[proc[t]] = "live" /\ proc[t] # None
      BY <3>2 DEF IInv, Owned, Live, Active
    <3>4. proc[t] \in Proc
      BY <3>3 DEF IInv, Typed
    <3>. QED  BY <3>1, <3>3, <3>4
  <2>3. \A o \in Proc : cur'[o] # None => proc'[cur'[o]] = o
    BY <1>1 DEF IInv, Owned
  <2>4. \A o \in Proc : pstate'[o] = "none" <=> cur'[o] = None
    BY <1>1, CurIsThread, SchedAssumption DEF IInv, Owned
  <2>5. \A o \in Proc : pstate'[o] = "none" => pc'[o] = "user"
    BY <1>1 DEF IInv, Owned, Live
  <2>6. \A t \in Thread : proc'[t] # None => pstate'[proc'[t]] # "none"
    BY DEF IInv, Owned, Typed
  <2>. QED  BY <2>1, <2>2, <2>3, <2>4, <2>5, <2>6 DEF Owned, Live
<1>4. Placed'
  <2>1. ASSUME NEW o \in Proc, pstate'[o] = "live" PROVE Fits(pc'[o], state'[cur'[o]])
    <3>1. CASE o = p
      BY <1>1, <2>1, <3>1
    <3>2. CASE o # p
      <4>1. Live(o)
        BY <2>1, <3>2 DEF Live
      <4>2. cur[o] \in Thread /\ proc[cur[o]] = o /\ Fits(pc[o], state[cur[o]])
        BY <4>1, CurIsThread DEF IInv, Placed
      <4>3. Fits(pc[o], state'[cur[o]])
        BY <3>2, <4>2 DEF Fits, Met
      <4>. QED  BY <1>1, <3>2, <4>3
    <3>. QED  BY <3>1, <3>2
  <2>2. ASSUME NEW t \in Thread, state'[t] = "Running" PROVE cur'[proc'[t]] = t
    <3>1. CASE proc[t] = p
      BY <1>1, <2>2, <3>1
    <3>2. CASE proc[t] # p
      <4>1. state[t] = "Running"
        BY <2>2, <3>2 DEF Met
      <4>2. cur[proc[t]] = t /\ proc[t] # None
        BY <4>1 DEF IInv, Placed, Owned
      <4>3. proc[t] \in Proc
        BY <4>2 DEF IInv, Typed
      <4>. QED  BY <1>1, <3>2, <4>2, <4>3
    <3>. QED  BY <3>1, <3>2
  <2>3. ASSUME NEW t \in Thread, state'[t] \in Active PROVE pc'[proc'[t]] # "wait"
    <3>1. CASE proc[t] = p
      BY <1>1, <2>3, <3>1
    <3>2. CASE proc[t] # p
      <4>1. state[t] \in Active
        BY <1>2, <2>3, <3>2
      <4>2. pc[proc[t]] # "wait" /\ proc[t] \in Proc
        BY <4>1 DEF IInv, Placed, Owned, Typed, Active
      <4>. QED  BY <1>1, <3>2, <4>2
    <3>. QED  BY <3>1, <3>2
  <2>. QED  BY <2>1, <2>2, <2>3 DEF Placed, Live
<1>. QED  BY <1>3, <1>4 DEF IInv

(* The counters stay when no thread starts or exits and no proc either.       *)
LEMMA CountsStay ==
  ASSUME IInv, UNCHANGED <<nthreads, nprocs>>,
         \A t \in Thread : proc'[t] = proc[t] /\ (state'[t] \in Active <=> state[t] \in Active),
         \A o \in Proc : (pstate'[o] = "live" /\ pc'[o] # "wait")
                            <=> (pstate[o] = "live" /\ pc[o] # "wait")
  PROVE  Counted'
<1>1. \A o : ActiveOf(o)' = ActiveOf(o)
  BY DEF ActiveOf
<1>2. Busy' = Busy
  BY DEF Busy, Live
<1>. QED  BY <1>1, <1>2 DEF IInv, Counted

(* A proc gets to l inside the library, and its thread stays what it is.      *)
LEMMA MoveKeeps ==
  ASSUME IInv, NEW p \in Proc, NEW l \in PcOf, pc' = [pc EXCEPT ![p] = l],
         Live(p) => Fits(l, state[cur[p]]), l = "wait" <=> pc[p] = "wait", Live(p),
         SameLive, Typed', UNCHANGED <<tvars, nprocs, runnable, cur, state, env, rendez>>
  PROVE  IInv'
<1>1. cur[p] \in Thread /\ proc[cur[p]] = p /\ cur' = [cur EXCEPT ![p] = cur[p]]
  BY CurIsThread DEF IInv, Typed
<1>2. Listed'
  <2>1. Parked' = Parked /\ \A o : Ready(o)' = Ready(o)
    BY DEF Parked, Ready, tvars
  <2>. QED  BY <2>1 DEF IInv, Listed
<1>3. Counted'
  <2>1. \A o \in Proc : (pc'[o] = "wait") <=> (pc[o] = "wait")
    BY DEF IInv, Typed
  <2>. QED  BY <2>1, CountsStay DEF SameLive, tvars
<1>4. \A t \in Thread : proc[t] = p /\ state[t] = "Running" => t = cur[p]
  BY DEF IInv, Placed
<1>5. \A t \in Thread : proc[t] = p /\ state[t] \in Active => pstate'[p] = "live"
  BY DEF SameLive, Live
<1>6. /\ proc' = proc /\ state' = state
      /\ \A t \in Thread : state'[t] \in {"Runnable", "Rendezvous"} => env'[t] # "none"
  BY DEF tvars, IInv, Placed
<1>7. PICK new \in Thread : new = cur[p]
  BY <1>1
<1>8. Moves(p, new, l) /\ SameProcs(p)
  <2>1. l = "wait" => \A t \in Thread : proc[t] = p => state'[t] \notin Active
    BY <1>6 DEF IInv, Placed
  <2>. QED  BY <1>1, <1>6, <1>7, <2>1 DEF SameLive, Moves, SameProcs
<1>9. SameThreads(p, new)
  BY <1>4, <1>5, <1>6, <1>7 DEF SameThreads
<1>. QED  BY <1>2, <1>3, <1>8, <1>9, StepKeeps

(* Reaping turns a dead proc into one that is gone.                           *)
LEMMA DeadChildDoes ==
  ASSUME IInv, NEW p \in Proc, NEW c \in DeadChildren(p), DeadChild(c)
  PROVE  /\ SameLive /\ pstate' \in [Proc -> {"none", "live", "dead", "gone"}]
         /\ threads' \subseteq Thread
BY DEF IInv, Typed, DeadChildren, DeadChild, SameLive

(* Reaping a child touches no live proc.                                      *)
LEMMA ReapDoes ==
  ASSUME IInv, Given, NEW p \in Proc, NEW x, ReapOne(p, x)
  PROVE  /\ SameLive /\ pstate' \in [Proc -> {"none", "live", "dead", "gone"}]
         /\ threads' \subseteq Thread /\ mustwait' \in [Proc -> Int]
<1>1. CASE MayReap(p)
  <2>1. Reaped(p, x) /\ \E c \in DeadChildren(p) : DeadChild(c)
    BY <1>1 DEF ReapOne
  <2>2. mustwait' \in [Proc -> Int]
    BY <2>1 DEF Reaped, Given, IInv, Typed
  <2>. QED  BY <2>1, <2>2, DeadChildDoes
<1>2. CASE ~MayReap(p)
  BY <1>2 DEF ReapOne, IInv, Typed, SameLive
<1>. QED  BY <1>1, <1>2

(* The steps of a proc inside the library, one by one.                        *)
LEMMA YieldKeeps == ASSUME IInv, Given, NEW p \in Proc, Yield(p) PROVE IInv'
<1>1. /\ Live(p) /\ pc[p] = "user" /\ pc' = [pc EXCEPT ![p] = "getq"]
      /\ UNCHANGED <<parent, nprocs, tvars, runnable, cur, state, env, tag, value, rendez, ret>>
  BY DEF Yield, Runs, Live
<1>2. /\ SameLive /\ pstate' \in [Proc -> {"none", "live", "dead", "gone"}]
      /\ threads' \subseteq Thread /\ mustwait' \in [Proc -> Int]
  BY ReapDoes DEF Yield
<1>3. Typed'
  BY <1>1, <1>2 DEF IInv, Typed, tvars, PcOf
<1>4. Fits("getq", state[cur[p]])
  BY <1>1 DEF IInv, Placed, Fits
<1>. QED  BY <1>1, <1>2, <1>3, <1>4, MoveKeeps DEF PcOf

(* With nobody else to run, _yield returns to its caller.                     *)
LEMMA YieldNoneKeeps == ASSUME IInv, NEW p \in Proc, YieldNone(p) PROVE IInv'
<1>1. PICK l : /\ l = IF state[cur[p]] = "Exiting" THEN "sleep" ELSE "user"
               /\ pc' = [pc EXCEPT ![p] = l]
  BY DEF YieldNone
<1>2. /\ Live(p) /\ pc[p] = "getq"
      /\ UNCHANGED <<pvars, tvars, flags, runnable, cur, threads, state, env, tag, value,
                     rendez, ret>>
  BY DEF YieldNone, Runs, Live
<1>3. Typed' /\ SameLive
  BY <1>1, <1>2 DEF IInv, Typed, tvars, pvars, PcOf, SameLive
<1>4. Fits(l, state[cur[p]])
  BY <1>1, <1>2 DEF IInv, Placed, Fits
<1>. QED  BY <1>1, <1>2, <1>3, <1>4, MoveKeeps DEF PcOf, pvars

(* Reaping from the loop that waits for a runnable thread.                    *)
LEMMA PollReapKeeps == ASSUME IInv, Given, NEW p \in Proc, PollReap(p) PROVE IInv'
<1>1. /\ Live(p) /\ pc[p] = "sleep" /\ pc' = [pc EXCEPT ![p] = "relock"]
      /\ \E x : ReapOne(p, x)
      /\ UNCHANGED <<parent, nprocs, tvars, runnable, cur, state, env, tag, value, rendez, ret>>
  BY DEF PollReap, Runs, Live, Reenters, Given
<1>2. /\ SameLive /\ pstate' \in [Proc -> {"none", "live", "dead", "gone"}]
      /\ threads' \subseteq Thread /\ mustwait' \in [Proc -> Int]
  BY <1>1, ReapDoes
<1>3. Typed'
  BY <1>1, <1>2 DEF IInv, Typed, tvars, PcOf
<1>4. Fits("relock", state[cur[p]])
  BY <1>1 DEF IInv, Placed, Fits
<1>. QED  BY <1>1, <1>2, <1>3, <1>4, MoveKeeps DEF PcOf

(* The loop finds nothing to do.                                              *)
LEMMA PollAgainKeeps == ASSUME IInv, NEW p \in Proc, PollAgain(p) PROVE IInv'
<1>1. /\ Live(p) /\ pc[p] = "relock" /\ pc' = [pc EXCEPT ![p] = "sleep"]
      /\ UNCHANGED <<pvars, tvars, flags, runnable, cur, threads, state, env, tag, value,
                     rendez, ret>>
  BY DEF PollAgain, Runs, Live
<1>2. Typed' /\ SameLive
  BY <1>1 DEF IInv, Typed, tvars, pvars, PcOf, SameLive
<1>3. Fits("sleep", state[cur[p]])
  BY <1>1 DEF IInv, Placed, Fits
<1>. QED  BY <1>1, <1>2, <1>3, MoveKeeps DEF PcOf, pvars

(* Waiting for a child before the proc exits.                                 *)
LEMMA WaitChildKeeps == ASSUME IInv, Given, NEW p \in Proc, WaitChild(p) PROVE IInv'
<1>1. /\ Live(p) /\ pc[p] = "wait" /\ UNCHANGED pc /\ Reaped(p, FALSE)
      /\ \E c \in DeadChildren(p) : DeadChild(c)
      /\ UNCHANGED <<parent, nprocs, tvars, runnable, cur, state, env, tag, value, rendez, ret>>
  BY DEF WaitChild, Runs, Live, Given
<1>2. /\ SameLive /\ pstate' \in [Proc -> {"none", "live", "dead", "gone"}]
      /\ threads' \subseteq Thread /\ mustwait' \in [Proc -> Int]
  BY <1>1, DeadChildDoes DEF Reaped, IInv, Typed
<1>3. Typed'
  BY <1>1, <1>2 DEF IInv, Typed, tvars
<1>4. pc' = [pc EXCEPT ![p] = "wait"] /\ Fits("wait", state[cur[p]])
  BY <1>1 DEF IInv, Placed, Fits, Typed
<1>. QED  BY <1>1, <1>2, <1>3, <1>4, MoveKeeps DEF PcOf

-----------------------------------------------------------------------------
(* A PROC GOES ON WITH ANOTHER THREAD *)

(* The lists as they are to be when the threads are in states st.             *)
ReadyIn(st, p) == {t \in Thread : proc[t] = p /\ st[t] = "Runnable"}
ParkedIn(st) == {t \in Thread : st[t] = "Rendezvous"}

(* The thread that goes on is a runnable one of the proc.                     *)
LEMMA HeadIsReady ==
  ASSUME IInv, NEW p \in Proc, runnable[p] # <<>>
  PROVE  /\ Head(runnable[p]) \in Thread /\ proc[Head(runnable[p])] = p
         /\ state[Head(runnable[p])] = "Runnable"
         /\ OnceEach(Tail(runnable[p]), Ready(p) \ {Head(runnable[p])})
<1>1. OnceEach(runnable[p], Ready(p))
  BY DEF IInv, Listed
<1>2. /\ Head(runnable[p]) \in Ready(p)
      /\ OnceEach(Tail(runnable[p]), Ready(p) \ {Head(runnable[p])})
  BY <1>1, OnceTail
<1>. QED  BY <1>2 DEF Ready

(* A list of each element of a set of threads is a list of threads.           *)
LEMMA OnceIsSeq == ASSUME NEW S, NEW T, S \subseteq T, NEW q, OnceEach(q, S) PROVE q \in Seq(T)
BY DEF OnceEach

(* The state of the thread that stops, and its jmp_buf if it is to go on.     *)
Stops(p, st, ev) ==
    /\ \E s \in {"Runnable", "Rendezvous", "Exiting"} :
          /\ st = [state EXCEPT ![cur[p]] = s]
          /\ s = "Exiting" <=> state[cur[p]] = "Exiting"
          /\ s # "Exiting" => ev[cur[p]] # "none"
    /\ ev \in [Thread -> {"none", "launch", "yield", "rdv"}]
    /\ \A t \in Thread \ {cur[p]} : ev[t] = env[t]

(* longjmp: the one that has run stops in some state, the new one runs.       *)
LEMMA SwitchKeeps ==
  ASSUME IInv, NEW p \in Proc, Live(p), pc[p] # "wait",
         NEW new \in Thread, NEW q, NEW thr, NEW st, NEW ev,
         Switch(p, new, q, thr, st, ev), Stops(p, st, ev),
         proc[new] = p, st[new] = "Runnable",
         OnceEach(q, ReadyIn(st, p) \ {new}), OnceEach(rendez', ParkedIn(st)),
         UNCHANGED <<pvars, tvars>>,
         tag' \in [Thread -> Tag \cup {None}], value' \in [Thread -> Thread \cup {None}],
         value \in [Thread -> Thread \cup {None}]
  PROVE  IInv'
<1>1. PICK s \in {"Runnable", "Rendezvous", "Exiting"} :
          /\ st = [state EXCEPT ![cur[p]] = s]
          /\ s = "Exiting" <=> state[cur[p]] = "Exiting"
          /\ s # "Exiting" => ev[cur[p]] # "none"
  BY DEF Stops
<1>2. /\ cur' = [cur EXCEPT ![p] = new] /\ pc' = [pc EXCEPT ![p] = "user"]
      /\ runnable' = [runnable EXCEPT ![p] = q]
      /\ state' = [st EXCEPT ![new] = "Running"] /\ env' = [ev EXCEPT ![new] = "none"]
  BY DEF Switch
<1>3. cur[p] \in Thread /\ proc[cur[p]] = p
  BY CurIsThread
<1>4. q \in Seq(Thread) /\ st \in [Thread -> Active \cup {"None", "Exiting"}]
  BY <1>1, OnceIsSeq DEF ReadyIn, IInv, Typed, Active
<1>5. threads' \subseteq Thread /\ ret' \in [Thread -> Thread \cup {None}]
  BY DEF Switch, Garbage, IInv, Typed
<1>6. Typed'
  BY <1>2, <1>4, <1>5 DEF IInv, Typed, pvars, tvars, PcOf, Active, Stops
<1>7. /\ \A t \in Thread \ {cur[p], new} : state'[t] = state[t] /\ env'[t] = env[t]
      /\ state'[new] = "Running" /\ env'[new] = "none"
      /\ cur[p] # new => state'[cur[p]] = s /\ env'[cur[p]] = ev[cur[p]]
      /\ \A t \in Thread \ {new} : state'[t] = st[t]
  BY <1>1, <1>2, <1>3, <1>4 DEF IInv, Typed, Stops
<1>8. Listed'
  <2>1. Ready(p)' = ReadyIn(st, p) \ {new} /\ Parked' = ParkedIn(st)
    BY <1>7 DEF Ready, Parked, ReadyIn, ParkedIn, tvars
  <2>2. ASSUME NEW o \in Proc PROVE OnceEach(runnable'[o], Ready(o)')
    <3>1. CASE o = p
      BY <1>2, <2>1, <3>1 DEF IInv, Typed
    <3>2. CASE o # p
      <4>1. Ready(o)' = Ready(o)
        BY <1>3, <1>7, <3>2 DEF Ready, tvars
      <4>2. runnable'[o] = runnable[o]
        BY <1>2, <3>2 DEF IInv, Typed
      <4>. QED  BY <4>1, <4>2 DEF IInv, Listed
    <3>. QED  BY <3>1, <3>2
  <2>. QED  BY <2>1, <2>2 DEF Listed
<1>9. Active = {"Running", "Runnable", "Rendezvous"} /\ state[new] \in Active
  <2>1. state[cur[p]] \in Active \cup {"None", "Exiting"} /\ state[cur[p]] # "None"
    BY <1>3, SchedAssumption DEF IInv, Typed, Owned
  <2>2. CASE new = cur[p]
    <3>1. s = "Runnable"
      BY <1>1, <2>2, <1>3 DEF IInv, Typed
    <3>. QED  BY <1>1, <2>1, <2>2, <3>1 DEF Active
  <2>3. CASE new # cur[p]
    BY <1>1, <2>3 DEF IInv, Typed, Active
  <2>. QED  BY <2>2, <2>3 DEF Active
<1>10. \A t \in Thread : state'[t] \in Active <=> state[t] \in Active
  <2>1. state[cur[p]] \in Active \cup {"None", "Exiting"} /\ state[cur[p]] # "None"
    BY <1>3, SchedAssumption DEF IInv, Typed, Owned
  <2>. QED  BY <1>1, <1>3, <1>7, <1>9, <2>1
<1>11. \A t \in Thread : state'[t] = "None" <=> state[t] = "None"
  <2>1. state[cur[p]] # "None"
    BY <1>3, SchedAssumption DEF IInv, Owned
  <2>. QED  BY <1>1, <1>3, <1>7, <1>9, <2>1
<1>12. Counted'
  <2>1. \A o \in Proc : (pstate'[o] = "live" /\ pc'[o] # "wait")
                            <=> (pstate[o] = "live" /\ pc[o] # "wait")
    BY <1>2 DEF IInv, Typed, pvars
  <2>. QED  BY <1>10, <2>1, CountsStay DEF tvars, pvars
<1>13. Moves(p, new, "user") /\ SameProcs(p)
  BY <1>2, <1>7 DEF Moves, SameProcs, tvars, pvars, Fits
<1>14. SameThreads(p, new)
  <2>1. \A t \in Thread : proc[t] # p => state'[t] = state[t]
    BY <1>3, <1>7
  <2>2. \A t \in Thread : proc[t] = p /\ state'[t] = "Running" => t = new
    BY <1>1, <1>3, <1>7 DEF IInv, Placed
  <2>3. \A t \in Thread : state'[t] \in {"Runnable", "Rendezvous"} => env'[t] # "none"
    BY <1>1, <1>3, <1>7 DEF IInv, Placed
  <2>. QED  BY <1>11, <2>1, <2>2, <2>3 DEF SameThreads, Live, pvars
<1>. QED  BY <1>6, <1>8, <1>12, <1>13, <1>14, StepKeeps DEF PcOf

(* The thread that yields goes to the end of the list; one that has exited    *)
(* does not.                                                                  *)
LEMMA YieldToKeeps == ASSUME IInv, NEW p \in Proc, YieldTo(p) PROVE IInv'
<1>1. PICK t, new, q : t = cur[p] /\ new = Head(runnable[p]) /\ q = Tail(runnable[p])
  OBVIOUS
<1>2. /\ Live(p) /\ runnable[p] # <<>>
      /\ pc[p] = "getq" \/ (pc[p] = "relock" /\ state[t] = "Exiting")
      /\ UNCHANGED <<pvars, tvars, tag, value, rendez>>
  BY <1>1 DEF YieldTo, Runs, Live
<1>3. t \in Thread /\ proc[t] = p /\ state[t] \in {"Running", "Exiting"}
  BY <1>1, <1>2, CurIsThread DEF IInv, Placed, Fits
<1>4. /\ new \in Thread /\ proc[new] = p /\ state[new] = "Runnable" /\ new # t
      /\ OnceEach(q, Ready(p) \ {new})
  BY <1>1, <1>2, <1>3, HeadIsReady
<1>5. /\ tag' \in [Thread -> Tag \cup {None}] /\ value' \in [Thread -> Thread \cup {None}]
      /\ value \in [Thread -> Thread \cup {None}] /\ OnceEach(rendez, Parked)
  BY <1>2 DEF IInv, Typed, Listed
<1>6. CASE state[t] = "Exiting"
  <2>1. Switch(p, new, q, t, state, env)
    BY <1>1, <1>6 DEF YieldTo
  <2>2. Stops(p, state, env)
    BY <1>1, <1>6 DEF Stops, IInv, Typed
  <2>3. ReadyIn(state, p) = Ready(p) /\ ParkedIn(state) = Parked
    BY DEF ReadyIn, ParkedIn, Ready, Parked
  <2>. QED  BY <1>2, <1>4, <1>5, <2>1, <2>2, <2>3, SwitchKeeps
<1>7. CASE state[t] = "Running"
  <2>1. PICK st, ev : /\ st = [state EXCEPT ![t] = "Runnable"]
                      /\ ev = [env EXCEPT ![t] = "yield"]
    OBVIOUS
  <2>2. Switch(p, new, Append(q, t), None, st, ev)
    BY <1>1, <1>7, <2>1 DEF YieldTo
  <2>3. Stops(p, st, ev)
    BY <1>1, <1>3, <1>7, <2>1 DEF Stops, IInv, Typed
  <2>4. /\ ReadyIn(st, p) \ {new} = (Ready(p) \ {new}) \cup {t}
        /\ ParkedIn(st) = Parked /\ t \notin Ready(p) /\ st[new] = "Runnable"
    BY <1>3, <1>4, <1>7, <2>1 DEF ReadyIn, ParkedIn, Ready, Parked, IInv, Typed
  <2>5. OnceEach(Append(q, t), ReadyIn(st, p) \ {new})
    BY <1>4, <2>4, OnceAppend
  <2>. QED  BY <1>2, <1>4, <1>5, <2>2, <2>3, <2>4, <2>5, SwitchKeeps
<1>. QED  BY <1>3, <1>6, <1>7

(* A thread that waits in a rendezvous goes on when the proc has a runnable   *)
(* thread; it may be that thread.                                             *)
LEMMA UnblockKeeps == ASSUME IInv, NEW p \in Proc, Unblock(p) PROVE IInv'
<1>1. PICK t, new, q : t = cur[p] /\ new = Head(runnable[p]) /\ q = Tail(runnable[p])
  OBVIOUS
<1>2. /\ Live(p) /\ runnable[p] # <<>> /\ pc[p] = "relock" /\ state[t] # "Exiting"
      /\ UNCHANGED <<pvars, tvars, tag, value, rendez>>
      /\ Switch(p, new, q, None, state, env)
  BY <1>1 DEF Unblock, Runs, Live
<1>3. t \in Thread /\ proc[t] = p /\ state[t] \in {"Rendezvous", "Runnable"}
  BY <1>1, <1>2, CurIsThread DEF IInv, Placed, Fits
<1>4. /\ new \in Thread /\ proc[new] = p /\ state[new] = "Runnable"
      /\ OnceEach(q, Ready(p) \ {new})
  BY <1>1, <1>2, HeadIsReady
<1>5. /\ tag' \in [Thread -> Tag \cup {None}] /\ value' \in [Thread -> Thread \cup {None}]
      /\ value \in [Thread -> Thread \cup {None}] /\ OnceEach(rendez, Parked)
  BY <1>2 DEF IInv, Typed, Listed
<1>6. Stops(p, state, env)
  BY <1>1, <1>3 DEF Stops, IInv, Typed, Placed
<1>7. ReadyIn(state, p) = Ready(p) /\ ParkedIn(state) = Parked
  BY DEF ReadyIn, ParkedIn, Ready, Parked
<1>. QED  BY <1>2, <1>4, <1>5, <1>6, <1>7, SwitchKeeps

(* A thread that waits for its rendezvous queues for it.                      *)
LEMMA BlockKeeps ==
  ASSUME IInv, NEW p \in Proc, NEW g \in Tag, Block(p, g)
  PROVE  IInv'
<1>1. PICK t, new, q, st, ev :
          /\ t = cur[p] /\ new = Head(runnable[p]) /\ q = Tail(runnable[p])
          /\ st = [state EXCEPT ![t] = "Rendezvous"] /\ ev = [env EXCEPT ![t] = "rdv"]
  OBVIOUS
<1>2. /\ Live(p) /\ pc[p] = "user" /\ rendez' = Append(rendez, t)
      /\ value' = [value EXCEPT ![t] = t] /\ tag' = [tag EXCEPT ![t] = g]
      /\ UNCHANGED <<pvars, tvars>>
  BY <1>1 DEF Block, Runs, Live
<1>3. t \in Thread /\ proc[t] = p /\ state[t] = "Running"
  BY <1>1, <1>2, CurIsThread DEF IInv, Placed, Fits
<1>4. /\ tag' \in [Thread -> Tag \cup {None}] /\ value' \in [Thread -> Thread \cup {None}]
      /\ value \in [Thread -> Thread \cup {None}]
  BY <1>2, <1>3 DEF IInv, Typed
<1>5. Stops(p, st, ev)
  BY <1>1, <1>3 DEF Stops, IInv, Typed
<1>6. /\ \A o : ReadyIn(st, o) = Ready(o)
      /\ ParkedIn(st) = Parked \cup {t} /\ t \notin Parked
  BY <1>1, <1>3 DEF ReadyIn, ParkedIn, Ready, Parked, IInv, Typed
<1>7. OnceEach(rendez', ParkedIn(st))
  BY <1>2, <1>6, OnceAppend DEF IInv, Listed
<1>8. CASE runnable[p] # <<>>
  <2>1. Switch(p, new, q, None, st, ev)
    BY <1>1, <1>8 DEF Block
  <2>2. /\ new \in Thread /\ proc[new] = p /\ state[new] = "Runnable"
        /\ OnceEach(q, Ready(p) \ {new})
    BY <1>1, <1>8, HeadIsReady
  <2>3. st[new] = "Runnable"
    BY <1>1, <1>3, <2>2 DEF IInv, Typed
  <2>. QED  BY <1>2, <1>4, <1>5, <1>6, <1>7, <2>1, <2>2, <2>3, SwitchKeeps
<1>9. CASE runnable[p] = <<>>
  <2>1. /\ pc' = [pc EXCEPT ![p] = "sleep"] /\ state' = st /\ env' = ev
        /\ UNCHANGED <<flags, runnable, cur, threads, ret>>
    BY <1>1, <1>9 DEF Block
  <2>2. Typed'
    <3>1. rendez' \in Seq(Thread) /\ st \in [Thread -> Active \cup {"None", "Exiting"}]
      BY <1>1, <1>7, OnceIsSeq DEF ParkedIn, IInv, Typed, Active
    <3>. QED  BY <1>2, <1>4, <1>5, <2>1, <3>1 DEF IInv, Typed, Stops, pvars, tvars, PcOf
  <2>3. Listed'
    <3>1. proc' = proc /\ state' = st
      BY <1>2, <2>1 DEF tvars
    <3>2. Parked' = ParkedIn(st)
      BY <3>1 DEF Parked, ParkedIn
    <3>3. ASSUME NEW o PROVE Ready(o)' = Ready(o)
      <4>1. Ready(o)' = ReadyIn(st, o)
        BY <3>1 DEF Ready, ReadyIn
      <4>. QED  BY <4>1, <1>6
    <3>. QED  BY <1>7, <2>1, <3>2, <3>3 DEF IInv, Listed
  <2>4. \A x \in Thread : x # t => state'[x] = state[x] /\ env'[x] = env[x]
    BY <1>1, <2>1 DEF IInv, Typed
  <2>5. state'[t] = "Rendezvous" /\ env'[t] = "rdv"
    BY <1>1, <1>3, <2>1 DEF IInv, Typed
  <2>6. Counted'
    <3>1. \A o \in Proc : (pstate'[o] = "live" /\ pc'[o] # "wait")
                              <=> (pstate[o] = "live" /\ pc[o] # "wait")
      BY <1>2, <2>1 DEF IInv, Typed, pvars
    <3>2. \A x \in Thread : state'[x] \in Active <=> state[x] \in Active
      BY <1>3, <2>4, <2>5 DEF Active
    <3>. QED  BY <1>2, <3>1, <3>2, CountsStay DEF tvars, pvars
  <2>7. Moves(p, t, "sleep") /\ SameProcs(p)
    BY <1>1, <1>2, <1>3, <2>1, <2>5 DEF Moves, SameProcs, tvars, pvars, Fits, IInv, Typed
  <2>8. SameThreads(p, t)
    <3>1. \A x \in Thread : proc[x] = p /\ state'[x] = "Running" => x = t
      BY <1>1, <1>3, <2>4, <2>5 DEF IInv, Placed
    <3>. QED  BY <1>2, <1>3, <2>4, <2>5, <3>1 DEF SameThreads, Live, pvars, IInv, Placed
  <2>. QED  BY <1>2, <1>3, <2>2, <2>3, <2>6, <2>7, <2>8, StepKeeps DEF PcOf
<1>. QED  BY <1>8, <1>9

-----------------------------------------------------------------------------
(* A RENDEZVOUS, NEW THREADS AND PROCS, AND THEIR EXITS *)

(* The one that is met is on the queue of the rendezvous.                     *)
LEMMA PartnerWaits ==
  ASSUME IInv, NEW p \in Proc, NEW g, Waiting(g) # {}
  PROVE  Partner(p, g) \in 1 .. Len(rendez)
<1>1. OnceEach(rendez, Parked) /\ Len(rendez) \in Nat /\ DOMAIN rendez = 1 .. Len(rendez)
  BY DEF IInv, Listed, OnceEach
<1>2. PICK local : local = {i \in Waiting(g) : proc[rendez[i]] = p}
  OBVIOUS
<1>3. Waiting(g) \subseteq 1 .. Len(rendez) /\ local \subseteq 1 .. Len(rendez)
  BY <1>1, <1>2 DEF Waiting
<1>4. /\ local # {} => \E i \in local : \A j \in local : i <= j
      /\ \E i \in Waiting(g) : \A j \in Waiting(g) : j <= i
  <2>1. \E i \in Waiting(g) : \A j \in Waiting(g) : i >= j
    BY <1>1, <1>3, GreatestExists
  <2>2. \A i, j \in 1 .. Len(rendez) : i >= j => j <= i
    BY <1>1
  <2>. QED  BY <1>1, <1>3, <2>1, <2>2, LeastExists
<1>. QED  BY <1>2, <1>3, <1>4 DEF Partner

(* The one that is met becomes runnable on its own proc.                      *)
LEMMA MeetKeeps == ASSUME IInv, NEW p \in Proc, NEW g \in Tag, Meet(p, g) PROVE IInv'
<1>1. PICK t, i, that : t = cur[p] /\ i = Partner(p, g) /\ that = rendez[i]
  OBVIOUS
<1>2. /\ Live(p) /\ pc[p] = "user" /\ i \in 1 .. Len(rendez)
      /\ ret' = [ret EXCEPT ![t] = value[that]] /\ value' = [value EXCEPT ![that] = t]
      /\ state' = [state EXCEPT ![that] = "Runnable"]
      /\ rendez' = SubSeq(rendez, 1, i - 1) \o SubSeq(rendez, i + 1, Len(rendez))
      /\ runnable' = [runnable EXCEPT ![proc[that]] = Append(@, that)]
      /\ UNCHANGED <<pvars, tvars, cur, pc, threads, env, tag>>
  BY <1>1, PartnerWaits DEF Meet, Runs, Live, Without
<1>3. t \in Thread /\ proc[t] = p /\ state[t] = "Running"
  BY <1>1, <1>2, CurIsThread DEF IInv, Placed, Fits
<1>4. that \in Parked /\ OnceEach(rendez', Parked \ {that})
  <2>1. OnceEach(rendez, Parked)
    BY DEF IInv, Listed
  <2>. QED  BY <1>1, <1>2, <2>1, OnceWithout
<1>5. that \in Thread /\ state[that] = "Rendezvous" /\ proc[that] \in Proc /\ that # t
  BY <1>3, <1>4, SchedAssumption DEF Parked, IInv, Owned, Typed
<1>6. /\ \A x \in Thread : x # that => state'[x] = state[x]
      /\ state'[that] = "Runnable" /\ env' = env
  BY <1>2, <1>5 DEF IInv, Typed
<1>7. Listed'
  <2>1. Parked' = Parked \ {that}
    BY <1>5, <1>6 DEF Parked
  <2>2. ASSUME NEW o \in Proc PROVE OnceEach(runnable'[o], Ready(o)')
    <3>1. CASE o = proc[that]
      <4>1. Ready(o)' = Ready(o) \cup {that} /\ that \notin Ready(o)
        BY <1>2, <1>5, <1>6, <3>1 DEF Ready, tvars
      <4>2. runnable'[o] = Append(runnable[o], that)
        BY <1>2, <3>1 DEF IInv, Typed
      <4>. QED  BY <4>1, <4>2, OnceAppend DEF IInv, Listed
    <3>2. CASE o # proc[that]
      <4>1. Ready(o)' = Ready(o)
        BY <1>2, <1>5, <1>6, <3>2 DEF Ready, tvars
      <4>2. runnable'[o] = runnable[o]
        BY <1>2, <3>2 DEF IInv, Typed
      <4>. QED  BY <4>1, <4>2 DEF IInv, Listed
    <3>. QED  BY <3>1, <3>2
  <2>. QED  BY <1>4, <2>1, <2>2 DEF Listed
<1>8. Typed'
  <2>1. rendez' \in Seq(Thread)
    BY <1>4, OnceIsSeq DEF Parked
  <2>2. runnable' \in [Proc -> Seq(Thread)]
    BY <1>2, <1>5 DEF IInv, Typed
  <2>3. /\ ret' \in [Thread -> Thread \cup {None}] /\ value' \in [Thread -> Thread \cup {None}]
        /\ state' \in [Thread -> Active \cup {"None", "Exiting"}]
    BY <1>2, <1>3, <1>5 DEF IInv, Typed, Active
  <2>. QED  BY <1>2, <2>1, <2>2, <2>3 DEF IInv, Typed, pvars, tvars
<1>9. Counted'
  <2>1. \A x \in Thread : state'[x] \in Active <=> state[x] \in Active
    BY <1>5, <1>6 DEF Active
  <2>. QED  BY <1>2, <2>1, CountsStay DEF pvars, tvars
<1>10. Moves(p, t, "user") /\ SameProcs(p)
  BY <1>1, <1>2, <1>3, <1>5, <1>6 DEF Moves, SameProcs, pvars, tvars, Fits, IInv, Typed
<1>11. SameThreads(p, t)
  <2>1. \A x \in Thread : proc[x] = p /\ state'[x] = "Running" => x = t
    BY <1>1, <1>5, <1>6 DEF IInv, Placed
  <2>2. env[that] # "none"
    BY <1>5 DEF IInv, Placed
  <2>. QED  BY <1>2, <1>5, <1>6, <2>1, <2>2 DEF SameThreads, Met, Live, pvars, IInv, Placed
<1>. QED  BY <1>2, <1>3, <1>7, <1>8, <1>9, <1>10, <1>11, StepKeeps DEF PcOf

(* A new thread is runnable on its proc.                                      *)
LEMMA ThreadCreateKeeps ==
  ASSUME IInv, Given, NEW p \in Proc, NEW t \in Thread, ThreadCreate(p, t)
  PROVE  IInv'
<1>1. /\ Live(p) /\ pc[p] = "user" /\ state[t] = "None"
      /\ proc' = [proc EXCEPT ![t] = p] /\ threads' = threads \cup {t}
      /\ nthreads' = [nthreads EXCEPT ![p] = @ + 1]
      /\ state' = [state EXCEPT ![t] = "Runnable"] /\ env' = [env EXCEPT ![t] = "launch"]
      /\ runnable' = [runnable EXCEPT ![p] = Append(@, t)]
      /\ UNCHANGED <<pvars, flags, cur, pc, tag, value, rendez, ret>>
  BY DEF ThreadCreate, ThreadPrep, Runs, Live
<1>2. proc[t] = None /\ p # None
  BY <1>1, SchedAssumption DEF IInv, Owned
<1>3. /\ \A x \in Thread \ {t} : proc'[x] = proc[x] /\ state'[x] = state[x] /\ env'[x] = env[x]
      /\ proc'[t] = p /\ state'[t] = "Runnable" /\ env'[t] = "launch"
  BY <1>1 DEF IInv, Typed
<1>4. \A o \in Proc : cur[o] # t
  BY <1>2, SchedAssumption DEF IInv, Owned
<1>5. Typed'
  BY <1>1 DEF IInv, Typed, pvars, Active
<1>6. Owned'
  <2>1. \A o \in Proc : cur[o] # None => cur[o] \in Thread /\ proc'[cur[o]] = o
    BY <1>3, <1>4 DEF IInv, Owned, Typed
  <2>. QED  BY <1>1, <1>2, <1>3, <2>1 DEF IInv, Owned, Live, pvars
<1>7. Placed'
  <2>1. \A o \in Proc : Live(o) => state'[cur[o]] = state[cur[o]]
    BY <1>3, <1>4, CurIsThread
  <2>. QED  BY <1>1, <1>3, <2>1 DEF IInv, Placed, Live, pvars
<1>8. Listed'
  <2>1. Parked' = Parked
    BY <1>1, <1>3 DEF Parked
  <2>2. ASSUME NEW o \in Proc PROVE OnceEach(runnable'[o], Ready(o)')
    <3>1. CASE o = p
      <4>1. Ready(o)' = Ready(o) \cup {t} /\ t \notin Ready(o)
        BY <1>1, <1>3, <3>1 DEF Ready
      <4>2. runnable'[o] = Append(runnable[o], t)
        BY <1>1, <3>1 DEF IInv, Typed
      <4>. QED  BY <4>1, <4>2, OnceAppend DEF IInv, Listed
    <3>2. CASE o # p
      <4>1. Ready(o)' = Ready(o)
        BY <1>1, <1>3, <3>2 DEF Ready
      <4>2. runnable'[o] = runnable[o]
        BY <1>1, <3>2 DEF IInv, Typed
      <4>. QED  BY <4>1, <4>2 DEF IInv, Listed
    <3>. QED  BY <3>1, <3>2
  <2>. QED  BY <1>1, <2>1, <2>2 DEF IInv, Listed
<1>9. Counted'
  <2>1. /\ ActiveOf(p)' = ActiveOf(p) \cup {t} /\ t \notin ActiveOf(p)
        /\ \A o \in Proc \ {p} : ActiveOf(o)' = ActiveOf(o)
    BY <1>1, <1>2, <1>3 DEF ActiveOf, Active
  <2>2. Cardinality(ActiveOf(p)') = Cardinality(ActiveOf(p)) + 1
    BY <2>1, OneMore DEF Given, ActiveOf
  <2>3. ASSUME NEW o \in Proc PROVE nthreads'[o] = Cardinality(ActiveOf(o)')
    <3>1. /\ nthreads'[o] = IF o = p THEN nthreads[p] + 1 ELSE nthreads[o]
          /\ nthreads[o] = Cardinality(ActiveOf(o))
      BY <1>1 DEF IInv, Counted, Typed
    <3>. QED  BY <2>1, <2>2, <3>1
  <2>4. Busy' = Busy /\ nprocs' = nprocs
    BY <1>1 DEF Busy, Live, pvars
  <2>. QED  BY <2>3, <2>4 DEF IInv, Counted
<1>. QED  BY <1>5, <1>6, <1>7, <1>8, <1>9 DEF IInv

(* A new proc runs its new thread.                                            *)
LEMMA ProcCreateKeeps ==
  ASSUME IInv, Given, NEW p \in Proc, NEW c \in Proc, NEW t \in Thread, ProcCreate(p, c, t)
  PROVE  IInv'
<1>1. /\ pstate[c] = "none" /\ state[t] = "None"
      /\ pstate' = [pstate EXCEPT ![c] = "live"] /\ parent' = [parent EXCEPT ![c] = p]
      /\ nprocs' = nprocs + 1
      /\ proc' = [proc EXCEPT ![t] = c] /\ threads' = threads \cup {t}
      /\ nthreads' = [nthreads EXCEPT ![c] = @ + 1]
      /\ state' = [state EXCEPT ![t] = "Running"] /\ cur' = [cur EXCEPT ![c] = t]
      /\ UNCHANGED <<mustwait, flags, runnable, pc, env, tag, value, rendez, ret>>
  BY DEF ProcCreate, ThreadPrep
<1>2. proc[t] = None /\ c # None /\ pc[c] = "user" /\ cur[c] = None /\ t # None
  BY <1>1, SchedAssumption DEF IInv, Owned
<1>3. /\ \A x \in Thread \ {t} : proc'[x] = proc[x] /\ state'[x] = state[x]
      /\ proc'[t] = c /\ state'[t] = "Running"
      /\ \A o \in Proc \ {c} : cur'[o] = cur[o] /\ pstate'[o] = pstate[o]
      /\ cur'[c] = t /\ pstate'[c] = "live"
  BY <1>1 DEF IInv, Typed
<1>4. \A o \in Proc : cur[o] # t
  BY <1>2, SchedAssumption DEF IInv, Owned
<1>5. Typed'
  BY <1>1 DEF IInv, Typed, Active
<1>6. \A x \in Thread \ {t} : proc[x] # c
  BY <1>1, <1>2 DEF IInv, Owned
<1>7. Owned'
  <2>1. \A o \in Proc : cur'[o] # None => proc'[cur'[o]] = o
    <3>1. \A o \in Proc \ {c} : cur[o] # None => cur[o] \in Thread /\ proc'[cur[o]] = o
      BY <1>3, <1>4 DEF IInv, Owned, Typed
    <3>. QED  BY <1>3, <3>1
  <2>2. \A x \in Thread : state'[x] = "None" <=> proc'[x] = None
    BY <1>2, <1>3 DEF IInv, Owned
  <2>3. \A x \in Thread : state'[x] \in Active => pstate'[proc'[x]] = "live"
    <3>1. ASSUME NEW x \in Thread \ {t}, state[x] \in Active PROVE pstate'[proc[x]] = "live"
      <4>1. pstate[proc[x]] = "live" /\ proc[x] # None
        BY <3>1 DEF IInv, Owned, Live, Active
      <4>2. proc[x] \in Proc
        BY <4>1 DEF IInv, Typed
      <4>. QED  BY <1>3, <4>1, <4>2
    <3>. QED  BY <1>3, <3>1
  <2>4. \A o \in Proc : pstate'[o] = "none" <=> cur'[o] = None
    BY <1>2, <1>3 DEF IInv, Owned
  <2>5. \A o \in Proc : pstate'[o] = "none" => pc'[o] = "user"
    BY <1>1, <1>3 DEF IInv, Owned
  <2>6. \A x \in Thread : proc'[x] # None => pstate'[proc'[x]] # "none"
    <3>1. \A x \in Thread \ {t} : proc[x] # None => proc[x] \in Proc /\ pstate[proc[x]] # "none"
      BY DEF IInv, Owned, Typed
    <3>. QED  BY <1>3, <3>1
  <2>. QED  BY <2>1, <2>2, <2>3, <2>4, <2>5, <2>6 DEF Owned, Live
<1>8. Placed'
  <2>1. ASSUME NEW o \in Proc, pstate'[o] = "live" PROVE Fits(pc'[o], state'[cur'[o]])
    <3>1. CASE o = c
      BY <1>1, <1>2, <1>3, <3>1 DEF Fits
    <3>2. CASE o # c
      <4>1. Live(o)
        BY <1>3, <2>1, <3>2 DEF Live
      <4>2. cur[o] \in Thread \ {t} /\ Fits(pc[o], state[cur[o]])
        BY <1>4, <4>1, CurIsThread DEF IInv, Placed
      <4>. QED  BY <1>1, <1>3, <3>2, <4>2
    <3>. QED  BY <3>1, <3>2
  <2>2. ASSUME NEW x \in Thread, state'[x] = "Running" PROVE cur'[proc'[x]] = x
    <3>1. CASE x = t
      BY <1>3, <3>1
    <3>2. CASE x # t
      <4>1. state[x] = "Running" /\ cur[proc[x]] = x /\ proc[x] # None /\ proc[x] # c
        BY <1>3, <1>6, <2>2, <3>2 DEF IInv, Placed, Owned
      <4>2. proc[x] \in Proc
        BY <4>1 DEF IInv, Typed
      <4>. QED  BY <1>3, <3>2, <4>1, <4>2
    <3>. QED  BY <3>1, <3>2
  <2>3. \A x \in Thread : state'[x] \in {"Runnable", "Rendezvous"} => env'[x] # "none"
    BY <1>1, <1>3 DEF IInv, Placed
  <2>4. \A x \in Thread : state'[x] \in Active => pc'[proc'[x]] # "wait"
    BY <1>1, <1>2, <1>3 DEF IInv, Placed
  <2>. QED  BY <2>1, <2>2, <2>3, <2>4 DEF Placed, Live
<1>9. Listed'
  <2>1. Parked' = Parked /\ \A o : Ready(o)' = Ready(o)
    BY <1>1, <1>3 DEF Parked, Ready
  <2>. QED  BY <1>1, <2>1 DEF IInv, Listed
<1>10. Counted'
  <2>1. /\ ActiveOf(c)' = ActiveOf(c) \cup {t} /\ t \notin ActiveOf(c)
        /\ \A o \in Proc \ {c} : ActiveOf(o)' = ActiveOf(o)
    BY <1>1, <1>2, <1>3 DEF ActiveOf, Active
  <2>2. Cardinality(ActiveOf(c)') = Cardinality(ActiveOf(c)) + 1
    BY <2>1, OneMore DEF Given, ActiveOf
  <2>3. \A o \in Proc : nthreads'[o] = Cardinality(ActiveOf(o)')
    BY <1>1, <2>1, <2>2 DEF IInv, Counted, Typed
  <2>4. Busy' = Busy \cup {c} /\ c \notin Busy
    BY <1>1, <1>2, <1>3 DEF Busy, Live
  <2>5. Cardinality(Busy') = Cardinality(Busy) + 1
    BY <2>4, OneMore DEF Given, Busy
  <2>. QED  BY <1>1, <2>3, <2>5 DEF IInv, Counted
<1>. QED  BY <1>5, <1>7, <1>8, <1>9, <1>10 DEF IInv

(* A thread exits: it no longer counts.                                       *)
LEMMA ThreadExitsKeeps ==
  ASSUME IInv, Given, NEW p \in Proc, ThreadExits(p)
  PROVE  IInv'
<1>1. PICK t : t = cur[p]
  OBVIOUS
<1>2. /\ Live(p) /\ pc[p] = "user" /\ pc' = [pc EXCEPT ![p] = "getq"]
      /\ nthreads' = [nthreads EXCEPT ![p] = @ - 1]
      /\ state' = [state EXCEPT ![t] = "Exiting"] /\ ReapOne(p, TRUE)
      /\ UNCHANGED <<parent, nprocs, proc, runnable, cur, env, tag, value, rendez, ret>>
  BY <1>1 DEF ThreadExits, Runs, Live
<1>3. t \in Thread /\ proc[t] = p /\ state[t] = "Running"
  BY <1>1, <1>2, CurIsThread DEF IInv, Placed, Fits
<1>4. /\ SameLive /\ pstate' \in [Proc -> {"none", "live", "dead", "gone"}]
      /\ threads' \subseteq Thread /\ mustwait' \in [Proc -> Int]
  BY <1>2, ReapDoes
<1>5. /\ \A x \in Thread \ {t} : state'[x] = state[x]
      /\ state'[t] = "Exiting" /\ pc'[p] = "getq"
      /\ \A o \in Proc \ {p} : pc'[o] = pc[o]
  BY <1>2, <1>3 DEF IInv, Typed
<1>6. Typed'
  <2>1. /\ nthreads' \in [Proc -> Int] /\ pc' \in [Proc -> PcOf]
        /\ state' \in [Thread -> Active \cup {"None", "Exiting"}]
    BY <1>2, <1>3 DEF IInv, Typed, PcOf, Active
  <2>. QED  BY <1>2, <1>4, <2>1 DEF IInv, Typed
<1>7. Listed'
  <2>1. Parked' = Parked /\ \A o : Ready(o)' = Ready(o)
    BY <1>2, <1>3, <1>5 DEF Parked, Ready
  <2>. QED  BY <1>2, <2>1 DEF IInv, Listed
<1>8. Counted'
  <2>1. /\ ActiveOf(p)' = ActiveOf(p) \ {t} /\ t \in ActiveOf(p)
        /\ \A o \in Proc \ {p} : ActiveOf(o)' = ActiveOf(o)
    BY <1>2, <1>3, <1>5 DEF ActiveOf, Active
  <2>2. Cardinality(ActiveOf(p)') = Cardinality(ActiveOf(p)) - 1
    BY <2>1, OneLess DEF Given, ActiveOf
  <2>3. \A o \in Proc : nthreads'[o] = Cardinality(ActiveOf(o)')
    BY <1>2, <2>1, <2>2 DEF IInv, Counted, Typed
  <2>4. Busy' = Busy
    BY <1>2, <1>4, <1>5 DEF Busy, Live, SameLive
  <2>. QED  BY <1>2, <2>3, <2>4 DEF IInv, Counted
<1>9. Moves(p, t, "getq") /\ SameProcs(p)
  BY <1>1, <1>2, <1>3, <1>4, <1>5 DEF Moves, SameProcs, SameLive, Fits, IInv, Typed
<1>10. SameThreads(p, t)
  <2>1. pstate'[p] = "live"
    BY <1>2, <1>4 DEF SameLive, Live
  <2>2. \A x \in Thread : proc[x] = p /\ state[x] = "Running" => x = t
    BY <1>1 DEF IInv, Placed
  <2>. QED  BY <1>2, <1>3, <1>5, <2>1, <2>2 DEF SameThreads, IInv, Placed
<1>. QED  BY <1>2, <1>3, <1>6, <1>7, <1>8, <1>9, <1>10, StepKeeps DEF PcOf

(* The last thread of a proc exits: the proc has none left that could run,    *)
(* and it no longer counts either.                                            *)
LEMMA LastExitsKeeps ==
  ASSUME IInv, Given, NEW p \in Proc, LastExits(p)
  PROVE  IInv'
<1>1. PICK t : t = cur[p]
  OBVIOUS
<1>2. /\ Live(p) /\ pc[p] = "user" /\ pc' = [pc EXCEPT ![p] = "wait"] /\ nthreads[p] = 1
      /\ nthreads' = [nthreads EXCEPT ![p] = 0] /\ nprocs' = nprocs - 1
      /\ state' = [state EXCEPT ![t] = "Exiting"]
      /\ pstate' = [pstate EXCEPT ![p] = "dead"] \/ pstate' = pstate
      /\ UNCHANGED <<parent, mustwait, proc, flags, runnable, cur, threads, env, tag, value,
                     rendez, ret>>
  BY <1>1 DEF LastExits, Runs, Live
<1>3. t \in Thread /\ proc[t] = p /\ state[t] = "Running"
  BY <1>1, <1>2, CurIsThread DEF IInv, Placed, Fits
<1>4. /\ \A x \in Thread \ {t} : state'[x] = state[x]
      /\ state'[t] = "Exiting" /\ pc'[p] = "wait"
      /\ \A o \in Proc \ {p} : pc'[o] = pc[o] /\ pstate'[o] = pstate[o]
      /\ pstate'[p] \in {"live", "dead"}
  BY <1>2, <1>3 DEF IInv, Typed, Live
<1>5. Typed'
  BY <1>2, <1>3 DEF IInv, Typed, PcOf, Active
<1>6. Listed'
  <2>1. Parked' = Parked /\ \A o : Ready(o)' = Ready(o)
    BY <1>2, <1>3, <1>4 DEF Parked, Ready
  <2>. QED  BY <1>2, <2>1 DEF IInv, Listed
<1>7. ActiveOf(p) = {t}
  <2>1. t \in ActiveOf(p) /\ ActiveOf(p) \subseteq Thread
    BY <1>3 DEF ActiveOf, Active
  <2>2. Cardinality(ActiveOf(p)) = 1
    BY <1>2 DEF IInv, Counted
  <2>3. \E x \in ActiveOf(p) : ActiveOf(p) = {x}
    BY <2>1, <2>2, OneLess DEF Given
  <2>. QED  BY <2>1, <2>3
<1>8. Counted'
  <2>1. /\ ActiveOf(p)' = {}
        /\ \A o \in Proc \ {p} : ActiveOf(o)' = ActiveOf(o)
    BY <1>2, <1>3, <1>4, <1>7 DEF ActiveOf, Active
  <2>2. \A o \in Proc : nthreads'[o] = Cardinality(ActiveOf(o)')
    BY <1>2, <2>1, FS_EmptySet DEF IInv, Counted, Typed
  <2>3. Busy' = Busy \ {p} /\ p \in Busy
    BY <1>2, <1>4 DEF Busy, Live
  <2>4. Cardinality(Busy') = Cardinality(Busy) - 1
    BY <2>3, OneLess DEF Given, Busy
  <2>. QED  BY <1>2, <2>2, <2>4 DEF IInv, Counted
<1>9. Moves(p, t, "wait") /\ SameProcs(p)
  <2>1. \A x \in Thread : proc[x] = p => state'[x] \notin Active
    BY <1>4, <1>7 DEF ActiveOf, Active
  <2>. QED  BY <1>1, <1>2, <1>3, <1>4, <2>1 DEF Moves, SameProcs, Fits, IInv, Typed, Live
<1>10. SameThreads(p, t)
  <2>1. \A x \in Thread : proc[x] = p => state'[x] \notin Active
    BY <1>4, <1>7 DEF ActiveOf, Active
  <2>. QED  BY <1>2, <1>3, <1>4, <2>1 DEF SameThreads, IInv, Placed, Active
<1>. QED  BY <1>2, <1>3, <1>5, <1>6, <1>8, <1>9, <1>10, StepKeeps DEF PcOf

(* A proc that has waited for its children exits.                             *)
LEMMA ProcExitsKeeps ==
  ASSUME IInv, NEW p \in Proc, ProcExits(p)
  PROVE  IInv'
<1>1. /\ Live(p) /\ pc[p] = "wait" /\ pstate' = [pstate EXCEPT ![p] = "dead"]
      /\ \/ mustwait' = mustwait
         \/ parent[p] # None /\ mustwait' = [mustwait EXCEPT ![parent[p]] = @ + 1]
      /\ UNCHANGED <<parent, nprocs, tvars, flags, runnable, cur, pc, threads, state, env, tag,
                     value, rendez, ret>>
  BY DEF ProcExits, Runs, Live
<1>2. PICK t \in Thread : t = cur[p] /\ proc[t] = p
  BY <1>1, CurIsThread
<1>3. \A x \in Thread : proc[x] = p => state[x] \notin Active
  BY <1>1 DEF IInv, Placed
<1>4. /\ \A o \in Proc \ {p} : pstate'[o] = pstate[o]
      /\ pstate'[p] = "dead" /\ pc' = [pc EXCEPT ![p] = "wait"]
      /\ cur' = [cur EXCEPT ![p] = t]
  BY <1>1, <1>2 DEF IInv, Typed
<1>5. Typed'
  <2>1. mustwait' \in [Proc -> Int]
    BY <1>1 DEF IInv, Typed
  <2>. QED  BY <1>1, <2>1 DEF IInv, Typed, tvars
<1>6. Listed'
  <2>1. Parked' = Parked /\ \A o : Ready(o)' = Ready(o)
    BY <1>1 DEF Parked, Ready, tvars
  <2>. QED  BY <1>1, <2>1 DEF IInv, Listed
<1>7. Counted'
  <2>1. \A o \in Proc : (pstate'[o] = "live" /\ pc'[o] # "wait")
                            <=> (pstate[o] = "live" /\ pc[o] # "wait")
    BY <1>1, <1>4
  <2>. QED  BY <1>1, <2>1, CountsStay DEF tvars
<1>8. Moves(p, t, "wait") /\ SameProcs(p)
  BY <1>1, <1>2, <1>3, <1>4 DEF Moves, SameProcs, tvars, Live
<1>9. SameThreads(p, t)
  BY <1>1, <1>3 DEF SameThreads, tvars, IInv, Placed, Active
<1>. QED  BY <1>1, <1>5, <1>6, <1>7, <1>8, <1>9, StepKeeps DEF PcOf

(* Nothing happens.                                                           *)
LEMMA StutterKeeps == ASSUME IInv, UNCHANGED vars PROVE IInv'
<1>1. Typed' /\ Owned' /\ Placed'
  BY DEF IInv, Typed, Owned, Placed, Live, vars, pvars, tvars, flags
<1>2. Listed'
  BY DEF IInv, Listed, Ready, Parked, vars, pvars, tvars
<1>3. Counted'
  BY DEF IInv, Counted, ActiveOf, Busy, Live, vars, pvars, tvars
<1>. QED  BY <1>1, <1>2, <1>3 DEF IInv

(* What holds of the threads, the queues and the counters in every state.     *)
THEOREM Invariance == ASSUME Given PROVE Spec => []IInv
<1>1. Init => IInv
  BY InitHolds
<1>2. IInv /\ [Next]_vars => IInv'
  <2>1. SUFFICES ASSUME IInv, Next PROVE IInv'
    BY StutterKeeps
  <2>2. PICK p \in Proc : User(p) \/ Inside(p)
    BY <2>1 DEF Next
  <2>3. CASE User(p)
    <3>1. ASSUME NEW t \in Thread, ThreadCreate(p, t) PROVE IInv'
      BY <2>1, <3>1, ThreadCreateKeeps
    <3>2. ASSUME NEW t \in Thread, NEW c \in Proc, ProcCreate(p, c, t) PROVE IInv'
      BY <2>1, <3>2, ProcCreateKeeps
    <3>3. ASSUME NEW g \in Tag, Meet(p, g) PROVE IInv'
      BY <2>1, <3>3, MeetKeeps
    <3>4. ASSUME NEW g \in Tag, Block(p, g) PROVE IInv'
      BY <2>1, <3>4, BlockKeeps
    <3>5. CASE Yield(p)
      BY <2>1, <3>5, YieldKeeps
    <3>6. CASE ThreadExits(p)
      BY <2>1, <3>6, ThreadExitsKeeps
    <3>7. CASE LastExits(p)
      BY <2>1, <3>7, LastExitsKeeps
    <3>. QED  BY <2>3, <3>1, <3>2, <3>3, <3>4, <3>5, <3>6, <3>7 DEF User
  <2>4. CASE Inside(p)
    BY <2>1, <2>4, YieldNoneKeeps, YieldToKeeps, UnblockKeeps, PollReapKeeps, PollAgainKeeps,
       WaitChildKeeps, ProcExitsKeeps DEF Inside
  <2>. QED  BY <2>2, <2>3, <2>4
<1>. QED  BY <1>1, <1>2, PTL DEF Spec

(* Every variable has its type; the counts are never negative.                *)
THEOREM TypeCorrect == ASSUME Given PROVE Spec => []TypeOK
<1>1. IInv => TypeOK
  <2>1. SUFFICES ASSUME IInv PROVE TypeOK
    OBVIOUS
  <2>2. /\ \A p \in Proc : IsFiniteSet(ActiveOf(p))
        /\ IsFiniteSet(Busy)
    BY FS_Subset DEF Given, ActiveOf, Busy
  <2>3. /\ \A p \in Proc : nthreads[p] \in Nat
        /\ nprocs \in Nat
    BY <2>1, <2>2, FS_CardinalityType DEF IInv, Counted
  <2>4. nthreads \in [Proc -> Nat]
    BY <2>1, <2>3 DEF IInv, Typed
  <2>5. rendez \in Seq(Thread)
    BY <2>1, OnceIsSeq DEF IInv, Listed, Parked
  <2>. QED  BY <2>1, <2>3, <2>4, <2>5 DEF IInv, Typed, TypeOK, PcOf, Active
<1>. QED  BY <1>1, Invariance, PTL

(* A thread of a proc that runs is in one place: on its proc's run queue, in  *)
(* the rendezvous queue, or running, just as its state says; and nthreads and *)
(* nprocs, which say when a proc and the program are to end, count right.     *)
THEOREM InOnePlace == ASSUME Given PROVE Spec => []OnePlace
<1>1. IInv => OnePlace
  <2>1. SUFFICES ASSUME IInv PROVE OnePlace
    OBVIOUS
  <2>2. ASSUME NEW S, NEW q, OnceEach(q, S), NEW x
        PROVE  Count(x, q) = IF x \in S THEN 1 ELSE 0
    <3>1. DOMAIN q = 1 .. Len(q)
      BY <2>2 DEF OnceEach
    <3>. QED  BY <2>2, <3>1, OnceCount DEF Count
  <2>3. ASSUME NEW t \in Thread, proc[t] # None, pstate[proc[t]] = "live"
        PROVE  /\ \A o \in Proc \ {proc[t]} : Count(t, runnable[o]) = 0 /\ cur[o] # t
               /\ Count(t, runnable[proc[t]]) = (IF state[t] = "Runnable" THEN 1 ELSE 0)
               /\ Count(t, rendez) = (IF state[t] = "Rendezvous" THEN 1 ELSE 0)
               /\ state[t] = "Running" => cur[proc[t]] = t /\ pc[proc[t]] \in {"user", "getq"}
               /\ state[t] \in {"Runnable", "Rendezvous"} => env[t] # "none"
    <3>1. proc[t] \in Proc /\ t # None
      BY <2>1, <2>3, SchedAssumption DEF IInv, Typed
    <3>2. \A o \in Proc : Count(t, runnable[o]) = IF t \in Ready(o) THEN 1 ELSE 0
      BY <2>1, <2>2 DEF IInv, Listed
    <3>3. Count(t, rendez) = IF t \in Parked THEN 1 ELSE 0
      BY <2>1, <2>2 DEF IInv, Listed
    <3>4. \A o \in Proc \ {proc[t]} : Count(t, runnable[o]) = 0 /\ cur[o] # t
      BY <2>1, <3>1, <3>2 DEF Ready, IInv, Owned
    <3>5. ASSUME state[t] = "Running"
          PROVE  cur[proc[t]] = t /\ pc[proc[t]] \in {"user", "getq"}
      <4>1. cur[proc[t]] = t /\ Fits(pc[proc[t]], state[t]) /\ pc[proc[t]] \in PcOf
        BY <2>1, <2>3, <3>1, <3>5 DEF IInv, Placed, Live, Typed
      <4>. QED  BY <3>5, <4>1 DEF Fits, PcOf
    <3>. QED  BY <2>1, <3>1, <3>2, <3>3, <3>4, <3>5 DEF Ready, Parked, IInv, Placed
  <2>4. ASSUME NEW p \in Proc
        PROVE  nthreads[p] = Cardinality({t \in Thread : proc[t] = p
                                             /\ state[t] \notin {"None", "Exiting"}})
    <3>1. ActiveOf(p) = {t \in Thread : proc[t] = p /\ state[t] \notin {"None", "Exiting"}}
      BY <2>1 DEF ActiveOf, Active, IInv, Typed
    <3>. QED  BY <2>1, <3>1 DEF IInv, Counted
  <2>5. nprocs = Cardinality({p \in Proc : pstate[p] = "live" /\ pc[p] # "wait"})
    BY <2>1 DEF IInv, Counted, Busy, Live
  <2>. QED  BY <2>3, <2>4, <2>5 DEF OnePlace
<1>. QED  BY <1>1, Invariance, PTL

-----------------------------------------------------------------------------
(* WHAT IS COLLECTED AND REAPED HAS EXITED *)

(* If only the main proc's threads call threadcreate, a child proc has the    *)
(* one thread it was created with, which has exited when the proc is dead.    *)
LEMMA ReapedHasExited ==
  ASSUME IInv, Single, NEW p \in Proc, NEW c \in DeadChildren(p)
  PROVE  /\ c \in Proc \ {Main} /\ pstate[c] = "dead" /\ ThreadsOf(c) = {cur[c]}
         /\ state[cur[c]] = "Exiting"
BY SchedAssumption DEF Single, DeadChildren

(* Reaping leaves to the children the one thread they have,                   *)
LEMMA ReapKeepsSingle ==
  ASSUME IInv, Single, Given, NEW p \in Proc, \E c \in DeadChildren(p) : DeadChild(c),
         UNCHANGED <<parent, cur, proc>>, \A c \in Proc \ {Main} : pstate[c] = "dead" =>
                                                         state'[cur[c]] = state[cur[c]]
  PROVE  Single'
<1>1. PICK c \in DeadChildren(p) : DeadChild(c)
  OBVIOUS
<1>2. /\ c \in Proc \ {Main} /\ pstate[c] = "dead" /\ ThreadsOf(c) = {cur[c]}
      /\ state[cur[c]] = "Exiting"
  BY ReapedHasExited
<1>3. ~failed'
  BY <1>1, <1>2, FS_Singleton DEF DeadChild
<1>4. /\ pstate'[c] = "gone" /\ \A o \in Proc \ {c} : pstate'[o] = pstate[o]
      /\ threads' = threads \ ThreadsOf(c)
  BY <1>1, <1>2 DEF DeadChild, IInv, Typed
<1>5. \A o \in Proc \ {c} : ThreadsOf(o)' = ThreadsOf(o)
  BY <1>4 DEF ThreadsOf
<1>. QED  BY <1>2, <1>3, <1>4, <1>5, SchedAssumption DEF Single

(* whichever child it is.                                                     *)
LEMMA ReapOneKeepsSingle ==
  ASSUME IInv, Single, Given, NEW p \in Proc, NEW x, ReapOne(p, x),
         UNCHANGED <<parent, cur, proc>>, \A c \in Proc \ {Main} : pstate[c] = "dead" =>
                                                         state'[cur[c]] = state[cur[c]]
  PROVE  Single'
<1>1. CASE MayReap(p)
  BY <1>1, ReapKeepsSingle DEF ReapOne
<1>2. CASE ~MayReap(p)
  BY <1>2 DEF ReapOne, Single, ThreadsOf
<1>. QED  BY <1>1, <1>2

(* Whoever is met waits, as it is asserted.                                   *)
LEMMA MeetsParked ==
  ASSUME IInv, NEW p \in Proc, NEW g \in Tag, Meet(p, g)
  PROVE  \E that : /\ state' = [state EXCEPT ![that] = "Runnable"]
                   /\ that \in Parked /\ failed' = FALSE
                   /\ UNCHANGED <<pvars, tvars, cur, threads>>
<1>1. Partner(p, g) \in 1 .. Len(rendez)
  BY PartnerWaits DEF Meet
<1>2. rendez[Partner(p, g)] \in Parked
  BY <1>1 DEF IInv, Listed, OnceEach
<1>. QED  BY <1>2 DEF Meet, Parked

(* A thread is on the list of its proc until it has exited and another has    *)
(* gone on for it.                                                            *)
Needed(t) == state[t] \in Active \/ (proc[t] # None /\ Live(proc[t]) /\ cur[proc[t]] = t)
Held == \A t \in Thread : Needed(t) => t \in threads

(* Reaping takes only threads of a dead proc off the lists.                   *)
LEMMA DeadOffList ==
  ASSUME IInv, NEW p \in Proc, \E c \in DeadChildren(p) : DeadChild(c)
  PROVE  /\ \A t \in threads : proc[t] # None /\ Live(proc[t]) => t \in threads'
         /\ \A o \in Proc : pstate'[o] = "live" => Live(o)
BY DEF DeadChildren, DeadChild, ThreadsOf, Live, IInv, Typed

(* Nobody starts or goes on, and no thread of a live proc leaves its list.    *)
LEMMA HeldStays ==
  ASSUME IInv, Held, UNCHANGED <<proc, cur>>,
         \A t \in threads : proc[t] # None /\ Live(proc[t]) => t \in threads',
         \A o \in Proc : pstate'[o] = "live" => Live(o),
         \A t \in Thread : state'[t] \in Active => state[t] \in Active
  PROVE  Held'
<1>1. SUFFICES ASSUME NEW t \in Thread,
                      \/ state'[t] \in Active
                      \/ proc[t] # None /\ pstate'[proc[t]] = "live" /\ cur[proc[t]] = t
               PROVE  t \in threads'
  BY DEF Held, Needed, Live
<1>2. proc[t] # None /\ Live(proc[t])
  <2>1. CASE state'[t] \in Active
    BY <2>1 DEF IInv, Owned, Active
  <2>2. CASE proc[t] # None /\ pstate'[proc[t]] = "live"
    BY <2>2 DEF IInv, Typed
  <2>. QED  BY <1>1, <2>1, <2>2
<1>3. t \in threads
  BY <1>1, <1>2 DEF Held, Needed
<1>. QED  BY <1>2, <1>3

(* The one that goes on is on the list, and the one collected for it is not   *)
(* needed there.                                                              *)
LEMMA SwitchKeepsHeld ==
  ASSUME IInv, Held, NEW p \in Proc, Live(p), runnable[p] # <<>>,
         NEW q, NEW thr, NEW st, NEW ev,
         Switch(p, Head(runnable[p]), q, thr, st, ev),
         thr = None \/ (thr = cur[p] /\ st = state /\ state[thr] = "Exiting"),
         \A t \in Thread : st[t] \in Active => state[t] \in Active,
         st \in [Thread -> Active \cup {"None", "Exiting"}],
         UNCHANGED <<pvars, tvars>>
  PROVE  Held'
<1>1. PICK new \in Thread : new = Head(runnable[p]) /\ proc[new] = p /\ state[new] = "Runnable"
  BY HeadIsReady
<1>2. /\ cur' = [cur EXCEPT ![p] = new] /\ state' = [st EXCEPT ![new] = "Running"]
      /\ \/ threads' = threads
         \/ threads' = threads \ {cur[p]} /\ st = state /\ state[cur[p]] = "Exiting"
  BY <1>1 DEF Switch, Garbage
<1>3. cur[p] \in Thread /\ proc[cur[p]] = p /\ new \in threads
  BY <1>1, CurIsThread DEF Held, Needed, Active
<1>4. SUFFICES ASSUME NEW t \in Thread \ {new},
                      \/ state'[t] \in Active
                      \/ proc[t] # None /\ Live(proc[t]) /\ cur'[proc[t]] = t
               PROVE  t \in threads'
  BY <1>1, <1>2, <1>3 DEF Held, Needed, Live, pvars, tvars
<1>5. CASE state'[t] \in Active
  <2>1. st[t] \in Active /\ state[t] \in Active
    BY <1>2, <1>4, <1>5
  <2>2. t \in threads
    BY <2>1 DEF Held, Needed
  <2>. QED  BY <1>2, <2>1, <2>2 DEF Active
<1>6. CASE proc[t] # None /\ Live(proc[t]) /\ cur'[proc[t]] = t
  <2>1. proc[t] \in Proc \ {p} /\ cur[proc[t]] = t
    BY <1>2, <1>4, <1>6 DEF IInv, Typed
  <2>2. t \in threads /\ t # cur[p]
    BY <1>3, <1>6, <2>1 DEF Held, Needed
  <2>. QED  BY <1>2, <2>2
<1>. QED  BY <1>4, <1>5, <1>6

(* What a thread starts, ...                                                  *)
LEMMA StartsHeld ==
  ASSUME IInv, Held, NEW p \in Proc, NEW t \in Thread,
         proc' = [proc EXCEPT ![t] = p], threads' = threads \cup {t},
         \A x \in Thread \ {t} : state'[x] = state[x],
         \A o \in Proc \ {p} : pstate'[o] = pstate[o] /\ cur'[o] = cur[o],
         \/ pstate'[p] = pstate[p] /\ cur'[p] = cur[p]
         \/ cur'[p] = t
  PROVE  Held'
<1>1. SUFFICES ASSUME NEW x \in Thread \ {t},
                      \/ state'[x] \in Active
                      \/ proc[x] # None /\ pstate'[proc[x]] = "live" /\ cur'[proc[x]] = x
               PROVE  x \in threads
  BY DEF Held, Needed, Live, IInv, Typed
<1>2. CASE state'[x] \in Active
  BY <1>2 DEF Held, Needed
<1>3. CASE proc[x] # None /\ pstate'[proc[x]] = "live" /\ cur'[proc[x]] = x
  <2>1. proc[x] \in Proc
    BY <1>3 DEF IInv, Typed
  <2>2. Live(proc[x]) /\ cur[proc[x]] = x
    BY <1>3, <2>1 DEF Live
  <2>. QED  BY <1>3, <2>2 DEF Held, Needed
<1>. QED  BY <1>1, <1>2, <1>3

(* and what else a step does, leaves everybody listed.                        *)
LEMMA HeldKeeps == ASSUME IInv, Held, Given, Next PROVE Held'
<1>1. PICK p \in Proc : User(p) \/ Inside(p)
  BY DEF Next
<1>2. ASSUME NEW t \in Thread, ThreadCreate(p, t) PROVE Held'
  <2>1. /\ proc' = [proc EXCEPT ![t] = p] /\ threads' = threads \cup {t}
        /\ state' = [state EXCEPT ![t] = "Runnable"] /\ UNCHANGED <<pvars, cur>>
    BY <1>2 DEF ThreadCreate, ThreadPrep
  <2>2. \A x \in Thread \ {t} : state'[x] = state[x]
    BY <2>1 DEF IInv, Typed
  <2>. QED  BY <2>1, <2>2, StartsHeld DEF pvars
<1>3. ASSUME NEW t \in Thread, NEW c \in Proc, ProcCreate(p, c, t) PROVE Held'
  <2>1. /\ proc' = [proc EXCEPT ![t] = c] /\ threads' = threads \cup {t}
        /\ state' = [state EXCEPT ![t] = "Running"]
        /\ pstate' = [pstate EXCEPT ![c] = "live"] /\ cur' = [cur EXCEPT ![c] = t]
    BY <1>3 DEF ProcCreate, ThreadPrep
  <2>2. /\ \A x \in Thread \ {t} : state'[x] = state[x]
        /\ \A o \in Proc \ {c} : pstate'[o] = pstate[o] /\ cur'[o] = cur[o]
        /\ cur'[c] = t
    BY <2>1 DEF IInv, Typed
  <2>. QED  BY <2>1, <2>2, StartsHeld
<1>4. ASSUME NEW g \in Tag, Meet(p, g) PROVE Held'
  <2>1. PICK that : /\ state' = [state EXCEPT ![that] = "Runnable"] /\ that \in Parked
                    /\ UNCHANGED <<pvars, tvars, cur, threads>>
    BY <1>4, MeetsParked
  <2>. QED  BY <2>1, HeldStays DEF Parked, Active, pvars, tvars, Live, IInv, Typed
<1>5. ASSUME NEW g \in Tag, Block(p, g) PROVE Held'
  <2>. PICK t, st : t = cur[p] /\ st = [state EXCEPT ![t] = "Rendezvous"]
    OBVIOUS
  <2>1. /\ Live(p) /\ t \in Thread /\ state[t] = "Running" /\ UNCHANGED <<pvars, tvars>>
    BY <1>5, CurIsThread DEF Block, Runs, Live, IInv, Placed, Fits
  <2>2. /\ \A x \in Thread : st[x] \in Active => state[x] \in Active
        /\ st \in [Thread -> Active \cup {"None", "Exiting"}]
    BY <2>1 DEF IInv, Typed, Active
  <2>3. CASE runnable[p] # <<>>
    <3>1. Switch(p, Head(runnable[p]), Tail(runnable[p]), None, st, [env EXCEPT ![t] = "rdv"])
      BY <1>5, <2>3 DEF Block
    <3>. QED  BY <2>1, <2>2, <2>3, <3>1, SwitchKeepsHeld
  <2>4. CASE runnable[p] = <<>>
    <3>1. state' = st /\ UNCHANGED <<cur, threads>>
      BY <1>5, <2>4 DEF Block
    <3>. QED  BY <2>1, <2>2, <3>1, HeldStays DEF pvars, tvars, Live
  <2>. QED  BY <2>3, <2>4
<1>6. ASSUME NEW x, ReapOne(p, x), UNCHANGED <<proc, cur>>,
             \A t \in Thread : state'[t] \in Active => state[t] \in Active
      PROVE  Held'
  <2>1. CASE MayReap(p)
    BY <1>6, <2>1, DeadOffList, HeldStays DEF ReapOne
  <2>2. CASE ~MayReap(p)
    BY <1>6, <2>2, HeldStays DEF ReapOne, Live
  <2>. QED  BY <2>1, <2>2
<1>7. CASE Yield(p) \/ ThreadExits(p) \/ PollReap(p)
  <2>1. /\ \E x : ReapOne(p, x) /\ UNCHANGED <<proc, cur>>
        /\ state' = state \/ state' = [state EXCEPT ![cur[p]] = "Exiting"]
    BY <1>7 DEF Yield, ThreadExits, PollReap, Reenters, Given, tvars
  <2>2. \A t \in Thread : state'[t] \in Active => state[t] \in Active
    BY <2>1 DEF IInv, Typed, Active
  <2>. QED  BY <1>6, <2>1, <2>2
<1>8. CASE WaitChild(p)
  <2>1. /\ UNCHANGED <<proc, cur, state>> /\ \E c \in DeadChildren(p) : DeadChild(c)
    BY <1>8 DEF WaitChild, tvars
  <2>. QED  BY <2>1, DeadOffList, HeldStays
<1>9. CASE LastExits(p) \/ YieldNone(p) \/ PollAgain(p) \/ ProcExits(p)
  <2>1. /\ UNCHANGED <<proc, cur, threads>>
        /\ state' = state \/ state' = [state EXCEPT ![cur[p]] = "Exiting"]
        /\ pstate' = pstate \/ pstate' = [pstate EXCEPT ![p] = "dead"]
    BY <1>9 DEF LastExits, YieldNone, PollAgain, ProcExits, pvars, tvars
  <2>2. /\ \A t \in Thread : state'[t] \in Active => state[t] \in Active
        /\ \A o \in Proc : pstate'[o] = "live" => Live(o)
    BY <2>1 DEF IInv, Typed, Active, Live
  <2>. QED  BY <2>1, <2>2, HeldStays
<1>10. CASE YieldTo(p)
  <2>1. PICK t, q, st, ev :
            /\ t = cur[p] /\ q = Tail(runnable[p])
            /\ st = [state EXCEPT ![t] = "Runnable"] /\ ev = [env EXCEPT ![t] = "yield"]
    OBVIOUS
  <2>2. /\ Live(p) /\ runnable[p] # <<>> /\ t \in Thread /\ UNCHANGED <<pvars, tvars>>
        /\ state[t] \in {"Running", "Exiting"}
    BY <1>10, <2>1, CurIsThread DEF YieldTo, Runs, Live, IInv, Placed, Fits
  <2>3. CASE state[t] = "Exiting"
    <3>1. Switch(p, Head(runnable[p]), q, t, state, env)
      BY <1>10, <2>1, <2>3 DEF YieldTo
    <3>2. state \in [Thread -> Active \cup {"None", "Exiting"}]
      BY DEF IInv, Typed
    <3>. QED  BY <2>1, <2>2, <2>3, <3>1, <3>2, SwitchKeepsHeld
  <2>4. CASE state[t] # "Exiting"
    <3>1. Switch(p, Head(runnable[p]), Append(q, t), None, st, ev)
      BY <1>10, <2>1, <2>4 DEF YieldTo
    <3>2. /\ \A x \in Thread : st[x] \in Active => state[x] \in Active
          /\ st \in [Thread -> Active \cup {"None", "Exiting"}]
      BY <2>1, <2>2, <2>4 DEF IInv, Typed, Active
    <3>. QED  BY <2>2, <3>1, <3>2, SwitchKeepsHeld
  <2>. QED  BY <2>3, <2>4
<1>11. CASE Unblock(p)
  <2>1. /\ Live(p) /\ runnable[p] # <<>> /\ UNCHANGED <<pvars, tvars>>
        /\ Switch(p, Head(runnable[p]), Tail(runnable[p]), None, state, env)
    BY <1>11 DEF Unblock, Runs, Live
  <2>2. state \in [Thread -> Active \cup {"None", "Exiting"}]
    BY DEF IInv, Typed
  <2>. QED  BY <2>1, <2>2, SwitchKeepsHeld
<1>. QED
  BY <1>1, <1>2, <1>3, <1>4, <1>5, <1>7, <1>8, <1>9, <1>10, <1>11 DEF User, Inside

(* Nothing is collected but the exited thread that a main proc's thread goes  *)
(* on for: no other proc has a second thread to go on with.                   *)
LEMMA SwitchKeepsSingle ==
  ASSUME IInv, Single, Held, NEW p \in Proc, Live(p), runnable[p] # <<>>,
         NEW q, NEW thr, NEW st, NEW ev,
         Switch(p, Head(runnable[p]), q, thr, st, ev),
         thr = None \/ (thr = cur[p] /\ st = state /\ state[thr] = "Exiting"),
         \A t \in Thread : proc[t] # p => st[t] = state[t],
         st \in [Thread -> Active \cup {"None", "Exiting"}],
         UNCHANGED <<pvars, tvars>>
  PROVE  Single'
<1>1. PICK new \in Thread : new = Head(runnable[p]) /\ proc[new] = p /\ state[new] = "Runnable"
  BY HeadIsReady
<1>2. /\ cur' = [cur EXCEPT ![p] = new] /\ state' = [st EXCEPT ![new] = "Running"]
      /\ \/ threads' = threads /\ failed' = failed
         \/ threads' = threads \ {cur[p]} /\ thr = cur[p] /\ failed' = FALSE /\ thr # None
  <2>1. cur[p] \in threads
    BY CurIsThread, SchedAssumption DEF Held, Needed
  <2>. QED  BY <1>1, <2>1 DEF Switch, Garbage, flags
<1>3. cur[p] \in Thread /\ proc[cur[p]] = p
  BY CurIsThread
<1>4. p # Main => new = cur[p] /\ thr = None
  BY <1>1, <1>3 DEF Single, Live
<1>5. ~failed'
  BY <1>2 DEF Single
<1>6. \A c \in Proc \ {Main} : cur'[c] = cur[c]
  BY <1>2, <1>4 DEF IInv, Typed
<1>7. \A c \in Proc \ {Main} : ThreadsOf(c)' = ThreadsOf(c)
  BY <1>2, <1>3, <1>4 DEF ThreadsOf, tvars
<1>8. \A c \in Proc \ {Main} : pstate[c] = "dead" => state'[cur[c]] = state[cur[c]]
  <2>1. SUFFICES ASSUME NEW c \in Proc \ {Main}, pstate[c] = "dead"
                 PROVE  state'[cur[c]] = state[cur[c]]
    OBVIOUS
  <2>2. c # p /\ cur[c] \in Thread /\ proc[cur[c]] = c
    BY <2>1 DEF Live, IInv, Owned, Typed
  <2>. QED  BY <1>1, <1>2, <2>2
<1>. QED  BY <1>5, <1>6, <1>7, <1>8 DEF Single, pvars, tvars

(* The program keeps it when only the main proc's threads create threads,     *)
LEMMA UserKeepsSingle ==
  ASSUME IInv, Single, Held, Given, Spawner \subseteq {Main}, NEW p \in Proc, User(p)
  PROVE  Single'
<1>1. ASSUME NEW t \in Thread, ThreadCreate(p, t) PROVE Single'
  <2>1. /\ p = Main /\ state[t] = "None"
        /\ proc' = [proc EXCEPT ![t] = p] /\ threads' = threads \cup {t}
        /\ state' = [state EXCEPT ![t] = "Runnable"]
        /\ UNCHANGED <<pvars, flags, cur>>
    BY <1>1 DEF ThreadCreate, ThreadPrep
  <2>2. proc[t] = None /\ \A o \in Proc : cur[o] # t
    BY <2>1, SchedAssumption DEF IInv, Owned
  <2>3. \A c \in Proc \ {Main} : ThreadsOf(c)' = ThreadsOf(c)
    BY <2>1, <2>2, SchedAssumption DEF ThreadsOf, IInv, Typed
  <2>4. \A c \in Proc \ {Main} : \A x \in Thread : proc'[x] = c <=> proc[x] = c
    BY <2>1, <2>2, SchedAssumption DEF IInv, Typed
  <2>5. \A c \in Proc \ {Main} : pstate[c] = "dead" => state'[cur[c]] = state[cur[c]]
    BY <2>1, <2>2
  <2>. QED  BY <2>1, <2>3, <2>4, <2>5 DEF Single, pvars, flags
<1>2. ASSUME NEW t \in Thread, NEW c \in Proc, ProcCreate(p, c, t) PROVE Single'
  <2>1. /\ pstate[c] = "none" /\ state[t] = "None"
        /\ pstate' = [pstate EXCEPT ![c] = "live"] /\ parent' = [parent EXCEPT ![c] = p]
        /\ proc' = [proc EXCEPT ![t] = c] /\ threads' = threads \cup {t}
        /\ state' = [state EXCEPT ![t] = "Running"] /\ cur' = [cur EXCEPT ![c] = t]
        /\ UNCHANGED flags
    BY <1>2 DEF ProcCreate, ThreadPrep
  <2>2. c # Main /\ proc[t] = None /\ c # None /\ \A o \in Proc : cur[o] # t
    BY <2>1, SchedAssumption DEF IInv, Owned, Single
  <2>3. \A x \in Thread : proc[x] # c
    BY <2>1, <2>2 DEF IInv, Owned
  <2>4. /\ \A o \in Proc \ {c} : pstate'[o] = pstate[o] /\ parent'[o] = parent[o]
                                 /\ cur'[o] = cur[o]
        /\ pstate'[c] = "live" /\ cur'[c] = t
        /\ \A x \in Thread \ {t} : proc'[x] = proc[x] /\ state'[x] = state[x]
        /\ proc'[t] = c
    BY <2>1 DEF IInv, Typed
  <2>5. \A o \in Proc \ {c} : ThreadsOf(o)' = ThreadsOf(o)
    BY <2>1, <2>2, <2>4, SchedAssumption DEF ThreadsOf, IInv, Typed
  <2>6. ThreadsOf(c)' = {t}
    BY <2>1, <2>3, <2>4 DEF ThreadsOf, IInv, Typed
  <2>7. \A o \in Proc \ {c} : pstate[o] = "dead" => state'[cur[o]] = state[cur[o]]
    <3>1. \A o \in Proc \ {c} : pstate[o] = "dead" => cur[o] \in Thread \ {t}
      BY <2>2 DEF IInv, Owned, Typed
    <3>. QED  BY <2>4, <3>1
  <2>8. \A o \in Proc \ {c} : \A x \in Thread : proc'[x] = o => proc[x] = o
    BY <2>2, <2>4
  <2>. QED  BY <2>1, <2>2, <2>3, <2>4, <2>5, <2>6, <2>7, <2>8, SchedAssumption DEF Single, flags
<1>3. ASSUME NEW g \in Tag, Meet(p, g) PROVE Single'
  <2>1. PICK that : /\ state' = [state EXCEPT ![that] = "Runnable"]
                    /\ that \in Parked /\ failed' = FALSE
                    /\ UNCHANGED <<pvars, tvars, cur, threads>>
    BY <1>3, MeetsParked
  <2>2. \A c \in Proc : pstate[c] = "dead" => state'[cur[c]] = state[cur[c]] \/ state[cur[c]] # "Exiting"
    BY <2>1 DEF Parked
  <2>. QED  BY <2>1, <2>2 DEF Single, ThreadsOf, pvars, tvars, Parked
<1>4. ASSUME NEW g \in Tag, Block(p, g) PROVE Single'
  <2>. PICK t, st : t = cur[p] /\ st = [state EXCEPT ![t] = "Rendezvous"]
    OBVIOUS
  <2>1. Live(p) /\ t \in Thread /\ proc[t] = p /\ UNCHANGED <<pvars, tvars>>
    BY <1>4, CurIsThread DEF Block, Runs, Live
  <2>2. CASE runnable[p] # <<>>
    <3>1. Switch(p, Head(runnable[p]), Tail(runnable[p]), None, st, [env EXCEPT ![t] = "rdv"])
      BY <1>4, <2>2 DEF Block
    <3>2. /\ \A x \in Thread : proc[x] # p => st[x] = state[x]
          /\ st \in [Thread -> Active \cup {"None", "Exiting"}]
      <4>1. \A x \in Thread : proc[x] # p => st[x] = state[x]
        BY <2>1 DEF IInv, Typed
      <4>2. st \in [Thread -> Active \cup {"None", "Exiting"}]
        BY <2>1 DEF IInv, Typed, Active
      <4>. QED  BY <4>1, <4>2
    <3>. QED  BY <2>1, <2>2, <3>1, <3>2, SwitchKeepsSingle
  <2>3. CASE runnable[p] = <<>>
    <3>1. state' = st /\ UNCHANGED <<flags, cur, threads>>
      BY <1>4, <2>3 DEF Block
    <3>2. \A c \in Proc : pstate[c] = "dead" => cur[c] # t
      BY <2>1 DEF IInv, Owned, Live
    <3>. QED  BY <2>1, <3>1, <3>2 DEF Single, ThreadsOf, pvars, tvars, flags
  <2>. QED  BY <2>2, <2>3
<1>5. CASE Yield(p)
  BY <1>5, ReapOneKeepsSingle DEF Yield, tvars
<1>6. CASE ThreadExits(p)
  <2>1. /\ Live(p) /\ ReapOne(p, TRUE) /\ UNCHANGED <<parent, cur, proc>>
        /\ state' = [state EXCEPT ![cur[p]] = "Exiting"]
    BY <1>6 DEF ThreadExits, Runs, Live
  <2>2. \A c \in Proc \ {Main} : pstate[c] = "dead" => state'[cur[c]] = state[cur[c]]
    BY <2>1, CurIsThread DEF IInv, Owned, Live
  <2>. QED  BY <2>1, <2>2, ReapOneKeepsSingle
<1>7. CASE LastExits(p)
  <2>1. /\ Live(p) /\ state' = [state EXCEPT ![cur[p]] = "Exiting"]
        /\ pstate' = [pstate EXCEPT ![p] = "dead"] \/ pstate' = pstate
        /\ UNCHANGED <<parent, proc, flags, cur, threads>>
    BY <1>7 DEF LastExits, Runs, Live
  <2>2. cur[p] \in Thread
    BY <2>1, CurIsThread
  <2>3. state'[cur[p]] = "Exiting" /\ \A t \in Thread : state[t] = "Exiting" => state'[t] = "Exiting"
    BY <2>1, <2>2 DEF IInv, Typed
  <2>4. \A c \in Proc : pstate'[c] = "dead" => c = p \/ pstate[c] = "dead"
    BY <2>1 DEF IInv, Typed
  <2>5. /\ pstate'[Main] # "none"
        /\ \A c \in Proc : pstate'[c] \in {"live", "dead"} => pstate[c] \in {"live", "dead"}
    BY <2>1, SchedAssumption DEF Single, IInv, Typed, Live
  <2>6. \A c \in Proc : pstate[c] = "dead" => cur[c] \in Thread
    BY DEF IInv, Owned, Typed
  <2>7. \A c : ThreadsOf(c)' = ThreadsOf(c)
    BY <2>1 DEF ThreadsOf
  <2>. QED  BY <2>1, <2>2, <2>3, <2>4, <2>5, <2>6, <2>7 DEF Single, flags
<1>. QED  BY <1>1, <1>2, <1>3, <1>4, <1>5, <1>6, <1>7 DEF User

(* and so does the library.                                                   *)
LEMMA InsideKeepsSingle ==
  ASSUME IInv, Single, Held, Given, NEW p \in Proc, Inside(p)
  PROVE  Single'
<1>1. CASE YieldNone(p)
  BY <1>1 DEF YieldNone, Single, ThreadsOf, pvars, tvars, flags
<1>2. CASE YieldTo(p)
  <2>1. PICK t, q, st, ev :
            /\ t = cur[p] /\ q = Tail(runnable[p])
            /\ st = [state EXCEPT ![t] = "Runnable"] /\ ev = [env EXCEPT ![t] = "yield"]
    OBVIOUS
  <2>2. /\ Live(p) /\ runnable[p] # <<>> /\ t \in Thread /\ proc[t] = p
        /\ UNCHANGED <<pvars, tvars>>
    BY <1>2, <2>1, CurIsThread DEF YieldTo, Runs, Live
  <2>3. CASE state[t] = "Exiting"
    <3>1. Switch(p, Head(runnable[p]), q, t, state, env)
      BY <1>2, <2>1, <2>3 DEF YieldTo
    <3>2. state \in [Thread -> Active \cup {"None", "Exiting"}]
      BY DEF IInv, Typed
    <3>. QED  BY <2>1, <2>2, <2>3, <3>1, <3>2, SwitchKeepsSingle
  <2>4. CASE state[t] # "Exiting"
    <3>1. Switch(p, Head(runnable[p]), Append(q, t), None, st, ev)
      BY <1>2, <2>1, <2>4 DEF YieldTo
    <3>2. \A x \in Thread : proc[x] # p => st[x] = state[x]
      BY <2>1, <2>2 DEF IInv, Typed
    <3>3. st \in [Thread -> Active \cup {"None", "Exiting"}]
      BY <2>1 DEF IInv, Typed, Active
    <3>. QED  BY <2>2, <3>1, <3>2, <3>3, SwitchKeepsSingle
  <2>. QED  BY <2>3, <2>4
<1>3. CASE Unblock(p)
  <2>1. /\ Live(p) /\ runnable[p] # <<>> /\ UNCHANGED <<pvars, tvars>>
        /\ Switch(p, Head(runnable[p]), Tail(runnable[p]), None, state, env)
    BY <1>3 DEF Unblock, Runs, Live
  <2>2. state \in [Thread -> Active \cup {"None", "Exiting"}]
    BY DEF IInv, Typed
  <2>. QED  BY <2>1, <2>2, SwitchKeepsSingle
<1>4. CASE PollReap(p)
  <2>1. /\ UNCHANGED <<parent, cur, state>> /\ proc' = proc /\ \E x : ReapOne(p, x)
    BY <1>4 DEF PollReap, Reenters, Given, tvars
  <2>. QED  BY <2>1, ReapOneKeepsSingle
<1>5. CASE PollAgain(p)
  BY <1>5 DEF PollAgain, Single, ThreadsOf, pvars, tvars, flags
<1>6. CASE WaitChild(p)
  <2>1. /\ UNCHANGED <<parent, cur, state>> /\ proc' = proc
        /\ \E c \in DeadChildren(p) : DeadChild(c)
    BY <1>6 DEF WaitChild, tvars
  <2>. QED  BY <2>1, ReapKeepsSingle
<1>7. CASE ProcExits(p)
  <2>1. /\ Live(p) /\ pc[p] = "wait" /\ pstate' = [pstate EXCEPT ![p] = "dead"]
        /\ UNCHANGED <<parent, proc, failed, cur, threads, state>>
    BY <1>7 DEF ProcExits, Runs, Live, tvars, flags
  <2>2. state[cur[p]] = "Exiting"
    BY <2>1 DEF IInv, Placed, Fits
  <2>3. /\ \A c \in Proc : pstate'[c] = "dead" => c = p \/ pstate[c] = "dead"
        /\ \A c \in Proc : pstate'[c] \in {"live", "dead"} => pstate[c] \in {"live", "dead"}
        /\ pstate'[Main] # "none"
    BY <2>1, SchedAssumption DEF Single, IInv, Typed, Live
  <2>4. \A c : ThreadsOf(c)' = ThreadsOf(c)
    BY <2>1 DEF ThreadsOf
  <2>. QED  BY <2>1, <2>2, <2>3, <2>4 DEF Single
<1>. QED  BY <1>1, <1>2, <1>3, <1>4, <1>5, <1>6, <1>7 DEF Inside

(* The assertions of the scheduler that AssertionsHold names hold: a thread   *)
(* that garbagethread collects has exited and is still on its proc's list, so *)
(* has the one thread that deadchild finds of a child that has been waited    *)
(* for, and whoever a rendezvous finds waits. It takes that threadwaitchan    *)
(* has not been called, and that the threads of a proc other than the first   *)
(* create none.                                                               *)
THEOREM NoAssertionFails ==
  ASSUME Given, Spawner \subseteq {Main}
  PROVE  Spec => []AssertionsHold
<1>1. Init => IInv /\ Single /\ Held
  <2>1. SUFFICES ASSUME Init PROVE Held
    BY InitHolds
  <2>. QED  BY <2>1, SchedAssumption DEF Init, Held, Needed, Active, Live
<1>2. IInv /\ Single /\ Held /\ [Next]_vars => Single' /\ Held'
  <2>1. ASSUME IInv, Single, Held, Next PROVE Single' /\ Held'
    BY <2>1, UserKeepsSingle, InsideKeepsSingle, HeldKeeps DEF Next
  <2>2. ASSUME IInv, Single, Held, UNCHANGED vars PROVE Single' /\ Held'
    BY <2>2 DEF Single, Held, Needed, Live, ThreadsOf, vars, pvars, tvars, flags
  <2>. QED  BY <2>1, <2>2
<1>3. Single => AssertionsHold
  BY DEF Single, AssertionsHold
<1>. QED  BY <1>1, <1>2, <1>3, Invariance, PTL DEF Spec

-----------------------------------------------------------------------------
(* THE PROMISE OF A RENDEZVOUS *)

(* A thread that waits for its rendezvous has brought itself, and will go on  *)
(* with the value it gets; one that runs has taken up its value.              *)
Bound == \A t \in Thread : /\ state[t] \in {"None", "Running"} => env[t] = "none"
                           /\ state[t] = "Rendezvous" => env[t] = "rdv" /\ value[t] = t

(* The threads parked, by thread instead of by place in the queue.            *)
Comer(x) == [t |-> x, tag |-> tag[x]]

(* A set of list entries, by the thread.                                      *)
LEMMA ByThread ==
  ASSUME NEW S, NEW r, OnceEach(r, S), NEW g
  PROVE  {[t |-> r[i], tag |-> g[r[i]]] : i \in DOMAIN r} = {[t |-> x, tag |-> g[x]] : x \in S}
<1>1. DOMAIN r = 1 .. Len(r)
  BY DEF OnceEach
<1>2. \A i \in 1 .. Len(r) : r[i] \in S
  BY <1>1 DEF OnceEach
<1>3. \A x \in S : \E i \in 1 .. Len(r) : r[i] = x
  BY <1>1 DEF OnceEach
<1>. QED  BY <1>1, <1>2, <1>3

(* Those who wait in the rendezvous queue, before a step,                     *)
LEMMA ParkedIs == ASSUME IInv PROVE parked = {Comer(x) : x \in Parked}
<1>1. OnceEach(rendez, Parked)
  BY DEF IInv, Listed
<1>. QED  BY <1>1, ByThread DEF parked, Comer

(* and after it.                                                              *)
LEMMA NextParkedIs ==
  ASSUME IInv'
  PROVE  parked' = {[t |-> x, tag |-> tag'[x]] : x \in Parked'}
<1>1. OnceEach(rendez', Parked')
  BY DEF IInv, Listed
<1>. QED  BY <1>1, ByThread DEF parked

(* What keeps the parked threads and all results is no step of the promise.   *)
LEMMA SameParked ==
  ASSUME IInv, IInv', UNCHANGED tag, Parked' = Parked
  PROVE  parked' = parked
BY ParkedIs, NextParkedIs DEF Comer

(* A step that wakes nobody leaves everybody's partner and value as they are. *)
LEMMA StillBound ==
  ASSUME IInv, Bound, UNCHANGED <<env, value, ret>>,
         \A t \in Thread : state'[t] = state[t] \/ (state'[t] = "Exiting" /\ state[t] = "Running")
  PROVE  Bound' /\ got' = got
<1>1. Bound'
  BY DEF Bound
<1>2. \A t \in Thread : got'[t] = got[t]
  BY DEF Bound, got
<1>. QED  BY <1>1, <1>2 DEF got

(* The thread that goes on takes up its value and no other is affected.       *)
Brings(p, new, st, ev) ==
    /\ st[new] = "Runnable" /\ ev[new] = env[new]
    /\ \A x \in Thread \ {cur[p]} : value'[x] = value[x]
    /\ st[cur[p]] = "Rendezvous" => ev[cur[p]] = "rdv" /\ value'[cur[p]] = cur[p]
    /\ new = cur[p] => value' = value

Unaffected(p) == \A y \in Thread \ {cur[p]} : got'[y] = got[y]
Stopped(p, st, ev) == /\ state'[cur[p]] = st[cur[p]] /\ env'[cur[p]] = ev[cur[p]]
                      /\ ret'[cur[p]] = ret[cur[p]]

(* So does longjmp, but for the one that stops.                               *)
LEMMA SwitchBound ==
  ASSUME IInv, Bound, NEW p \in Proc, Live(p), runnable[p] # <<>>,
         NEW new, new = Head(runnable[p]), NEW q, NEW thr, NEW st, NEW ev,
         Switch(p, new, q, thr, st, ev), Stops(p, st, ev), Brings(p, new, st, ev)
  PROVE  /\ Bound' /\ Unaffected(p)
         /\ new = cur[p] => got'[new] = got[new]
         /\ new # cur[p] => Stopped(p, st, ev)
<1>. USE DEF Brings, Unaffected, Stopped
<1>1. /\ state' = [st EXCEPT ![new] = "Running"] /\ env' = [ev EXCEPT ![new] = "none"]
      /\ ret' = IF ev[new] = "rdv" THEN [ret EXCEPT ![new] = value[new]] ELSE ret
  BY DEF Switch
<1>2. new \in Thread /\ state[new] = "Runnable"
  BY HeadIsReady
<1>3. PICK s : st = [state EXCEPT ![cur[p]] = s] /\ s # "None" /\ s # "Running"
  BY DEF Stops
<1>4. cur[p] \in Thread
  BY CurIsThread
<1>5. /\ \A x \in Thread \ {cur[p], new} : state'[x] = state[x] /\ env'[x] = env[x]
                                           /\ ret'[x] = ret[x] /\ value'[x] = value[x]
      /\ cur[p] # new => /\ state'[cur[p]] = st[cur[p]] /\ env'[cur[p]] = ev[cur[p]]
                         /\ ret'[cur[p]] = ret[cur[p]]
      /\ state'[new] = "Running" /\ env'[new] = "none"
      /\ ret'[new] = IF ev[new] = "rdv" THEN value[new] ELSE ret[new]
      /\ st[cur[p]] = s
  BY <1>1, <1>2, <1>3, <1>4 DEF IInv, Typed, Stops
<1>6. Bound'
  BY <1>2, <1>3, <1>4, <1>5 DEF Bound
<1>7. got'[new] = got[new]
  BY <1>2, <1>5 DEF got
<1>8. \A x \in Thread \ {cur[p], new} : got'[x] = got[x]
  BY <1>5 DEF got
<1>. QED  BY <1>5, <1>6, <1>7, <1>8

(* The thread that comes second takes the first one along.                    *)
LEMMA MeetComes ==
  ASSUME IInv, IInv', Bound, NEW p \in Proc, NEW g \in Tag, Meet(p, g)
  PROVE  Bound' /\ Promise!Come(cur[p], g)
<1>1. PICK t, i, that : t = cur[p] /\ i = Partner(p, g) /\ that = rendez[i]
  OBVIOUS
<1>2. /\ Live(p) /\ pc[p] = "user" /\ i \in 1 .. Len(rendez) /\ Waiting(g) # {}
      /\ ret' = [ret EXCEPT ![t] = value[that]] /\ value' = [value EXCEPT ![that] = t]
      /\ state' = [state EXCEPT ![that] = "Runnable"] /\ UNCHANGED <<env, tag>>
  BY <1>1, PartnerWaits DEF Meet, Runs, Live
<1>3. t \in Thread /\ state[t] = "Running"
  BY <1>1, <1>2, CurIsThread DEF IInv, Placed, Fits
<1>4. that \in Parked /\ that \in Thread /\ that # t
  BY <1>1, <1>2, <1>3, SMTT(20) DEF IInv, Listed, OnceEach, Parked
<1>5. tag[that] = g
  <2>1. Waiting(g) \subseteq 1 .. Len(rendez) /\ Len(rendez) \in Nat
    BY DEF Waiting, IInv, Listed, OnceEach
  <2>2. i \in Waiting(g)
    <3>1. PICK local : local = {j \in Waiting(g) : proc[rendez[j]] = p}
      OBVIOUS
    <3>2. local \subseteq Waiting(g) /\ local \subseteq 1 .. Len(rendez)
      BY <2>1, <3>1
    <3>3. local # {} => \E x \in local : \A y \in local : x <= y
      BY <2>1, <3>2, LeastExists
    <3>4. \E x \in Waiting(g) : \A y \in Waiting(g) : y <= x
      <4>1. \E x \in Waiting(g) : \A y \in Waiting(g) : x >= y
        BY <1>2, <2>1, GreatestExists
      <4>2. \A x, y \in 1 .. Len(rendez) : x >= y => y <= x
        BY <2>1
      <4>. QED  BY <2>1, <4>1, <4>2
    <3>. QED  BY <1>1, <3>1, <3>2, <3>3, <3>4 DEF Partner
  <2>. QED  BY <1>1, <2>2 DEF Waiting
<1>6. /\ \A x \in Thread \ {that} : state'[x] = state[x] /\ value'[x] = value[x]
      /\ \A x \in Thread \ {t} : ret'[x] = ret[x]
      /\ state'[that] = "Runnable" /\ value'[that] = t /\ ret'[t] = value[that]
  BY <1>2, <1>3, <1>4 DEF IInv, Typed
<1>7. Bound'
  BY <1>2, <1>4, <1>6 DEF Bound
<1>8. Parked' = Parked \ {that}
  BY <1>4, <1>6 DEF Parked
<1>9. PICK w : w = Comer(that)
  OBVIOUS
<1>10. w \in parked /\ w.tag = g /\ w.t = that
  BY <1>4, <1>5, <1>9, ParkedIs DEF Comer
<1>11. parked' = parked \ {w}
  <2>1. /\ parked = {Comer(x) : x \in Parked} /\ parked' = {Comer(x) : x \in Parked'}
        /\ \A x : Comer(x)' = Comer(x)
    <3>1. parked' = {[t |-> x, tag |-> tag'[x]] : x \in Parked'}
      BY NextParkedIs
    <3>. QED  BY <1>2, <3>1, ParkedIs DEF Comer
  <2>2. \A x, y : Comer(x) = Comer(y) => x = y
    BY DEF Comer
  <2>. QED  BY <1>8, <1>9, <2>1, <2>2
<1>12. \A v \in parked : v.t # t
  BY <1>3, ParkedIs DEF Parked, Comer
<1>13. /\ got'[t] = that /\ got'[that] = t
       /\ \A x \in Thread \ {t, that} : got'[x] = got[x]
  BY <1>2, <1>3, <1>4, <1>6 DEF got, Bound, Parked
<1>14. got' = [got EXCEPT ![t] = w.t, ![w.t] = t]
  <2>1. /\ DOMAIN got' = Thread /\ DOMAIN got = Thread
        /\ got' = [x \in Thread |-> got'[x]] /\ got = [x \in Thread |-> got[x]]
    BY DEF got
  <2>. QED  BY <1>3, <1>4, <1>10, <1>13, <2>1
<1>. QED  BY <1>1, <1>7, <1>10, <1>11, <1>12, <1>14 DEF Promise!Come

(* The thread that comes first stays.                                         *)
LEMMA BlockComes ==
  ASSUME IInv, IInv', Bound, NEW p \in Proc, NEW g \in Tag, Block(p, g)
  PROVE  Bound' /\ Promise!Come(cur[p], g)
<1>1. PICK t, new, q, st, ev :
          /\ t = cur[p] /\ new = Head(runnable[p]) /\ q = Tail(runnable[p])
          /\ st = [state EXCEPT ![t] = "Rendezvous"] /\ ev = [env EXCEPT ![t] = "rdv"]
  OBVIOUS
<1>2. /\ Live(p) /\ pc[p] = "user" /\ Waiting(g) = {}
      /\ value' = [value EXCEPT ![t] = t] /\ tag' = [tag EXCEPT ![t] = g]
  BY <1>1 DEF Block, Runs, Live
<1>3. t \in Thread /\ state[t] = "Running"
  BY <1>1, <1>2, CurIsThread DEF IInv, Placed, Fits
<1>4. /\ \A x \in Thread \ {t} : value'[x] = value[x] /\ tag'[x] = tag[x]
      /\ value'[t] = t /\ tag'[t] = g
      /\ st[t] = "Rendezvous" /\ ev[t] = "rdv"
      /\ \A x \in Thread \ {t} : st[x] = state[x] /\ ev[x] = env[x]
  BY <1>1, <1>2, <1>3 DEF IInv, Typed
<1>5. /\ Bound' /\ \A x \in Thread \ {t} : got'[x] = got[x]
      /\ state'[t] = "Rendezvous"
      /\ \A x \in Thread \ {t} : state'[x] = "Rendezvous" <=> state[x] = "Rendezvous"
  <2>1. CASE runnable[p] # <<>>
    <3>1. Switch(p, new, q, None, st, ev) /\ Stops(p, st, ev)
      BY <1>1, <1>3, <2>1 DEF Block, Stops, IInv, Typed
    <3>2. new \in Thread /\ state[new] = "Runnable" /\ new # t
      BY <1>1, <1>3, <2>1, HeadIsReady
    <3>3. st[new] = "Runnable" /\ ev[new] = env[new]
      BY <1>4, <3>2
    <3>4. Bound' /\ (\A x \in Thread \ {t} : got'[x] = got[x]) /\ state'[t] = st[t]
      <4>1. Brings(p, new, st, ev) /\ new # cur[p]
        BY <1>1, <1>4, <3>2, <3>3 DEF Brings
      <4>2. Bound' /\ Unaffected(p) /\ Stopped(p, st, ev)
        <5>1. new = Head(runnable[p]) /\ Live(p)
          BY <1>1, <1>2
        <5>. QED  BY <2>1, <3>1, <4>1, <5>1, SwitchBound
      <4>. QED  BY <1>1, <4>2 DEF Unaffected, Stopped
    <3>5. state' = [st EXCEPT ![new] = "Running"]
      BY <3>1 DEF Switch
    <3>6. \A x \in Thread \ {t} : state'[x] = "Rendezvous" <=> state[x] = "Rendezvous"
      BY <1>1, <1>4, <3>2, <3>5 DEF IInv, Typed
    <3>. QED  BY <1>4, <3>4, <3>6
  <2>2. CASE runnable[p] = <<>>
    <3>1. state' = st /\ env' = ev /\ ret' = ret
      BY <1>1, <2>2 DEF Block
    <3>. QED  BY <1>3, <1>4, <3>1 DEF Bound, got
  <2>. QED  BY <2>1, <2>2
<1>6. Parked' = Parked \cup {t} /\ t \notin Parked
  BY <1>3, <1>5 DEF Parked
<1>7. parked' = parked \cup {[t |-> t, tag |-> g]}
  <2>1. /\ parked = {Comer(x) : x \in Parked}
        /\ parked' = {[t |-> x, tag |-> tag'[x]] : x \in Parked'}
    BY ParkedIs, NextParkedIs DEF Comer
  <2>2. \A x \in Parked : x \in Thread \ {t}
    BY <1>6 DEF Parked
  <2>. QED  BY <1>4, <1>6, <2>1, <2>2 DEF Comer
<1>8. \A w \in parked : w.t # t /\ w.tag # g
  <2>1. \A w \in parked : w.t # t
    BY <1>6, ParkedIs DEF Comer
  <2>2. \A w \in parked : w.tag # g
    BY <1>2 DEF parked, Waiting
  <2>. QED  BY <2>1, <2>2
<1>9. got' = [got EXCEPT ![t] = None]
  <2>1. got'[t] = None
    BY <1>3, <1>5 DEF got
  <2>2. /\ DOMAIN got' = Thread /\ DOMAIN got = Thread
        /\ got' = [x \in Thread |-> got'[x]] /\ got = [x \in Thread |-> got[x]]
    BY DEF got
  <2>. QED  BY <1>3, <1>5, <2>1, <2>2
<1>. QED  BY <1>1, <1>5, <1>7, <1>8, <1>9 DEF Promise!Come

(* What a proc does besides is no step of the promise: the queue of the       *)
(* rendezvous stays, and so do all results.                                   *)
Still == parked' = parked /\ got' = got

(* A yield is no step of the rendezvous,                                      *)
LEMMA YieldToStill == ASSUME IInv, IInv', Bound, NEW p \in Proc, YieldTo(p) PROVE Bound' /\ Still
<1>1. PICK t, new, q, st, ev :
          /\ t = cur[p] /\ new = Head(runnable[p]) /\ q = Tail(runnable[p])
          /\ st = [state EXCEPT ![t] = "Runnable"] /\ ev = [env EXCEPT ![t] = "yield"]
  OBVIOUS
<1>2. /\ Live(p) /\ runnable[p] # <<>> /\ UNCHANGED <<value, tag>>
      /\ pc[p] = "getq" \/ (pc[p] = "relock" /\ state[t] = "Exiting")
  BY <1>1 DEF YieldTo, Runs, Live
<1>3. t \in Thread /\ state[t] \in {"Running", "Exiting"}
  BY <1>1, <1>2, CurIsThread DEF IInv, Placed, Fits
<1>4. new \in Thread /\ state[new] = "Runnable" /\ new # t
  BY <1>1, <1>2, <1>3, HeadIsReady
<1>5. CASE state[t] = "Exiting"
  <2>1. Switch(p, new, q, t, state, env) /\ state' = [state EXCEPT ![new] = "Running"]
    BY <1>1, <1>5 DEF YieldTo, Switch
  <2>2. Stops(p, state, env)
    BY <1>1, <1>5 DEF Stops, IInv, Typed
  <2>3. Brings(p, new, state, env)
    BY <1>1, <1>2, <1>4, <1>5 DEF Brings
  <2>4. Bound' /\ Unaffected(p) /\ Stopped(p, state, env)
    BY <1>1, <1>2, <1>4, <2>1, <2>2, <2>3, SwitchBound
  <2>5. got'[t] = got[t]
    BY <1>1, <1>2, <1>3, <2>4 DEF Stopped, got
  <2>6. Parked' = Parked
    BY <1>4, <2>1 DEF Parked, IInv, Typed
  <2>7. \A x \in Thread : got'[x] = got[x]
    BY <1>1, <2>4, <2>5 DEF Unaffected
  <2>. QED  BY <1>2, <2>4, <2>6, <2>7, SameParked DEF Still, got
<1>6. CASE state[t] = "Running"
  <2>1. Switch(p, new, Append(q, t), None, st, ev) /\ state' = [st EXCEPT ![new] = "Running"]
    BY <1>1, <1>6 DEF YieldTo, Switch
  <2>2. Stops(p, st, ev)
    BY <1>1, <1>3, <1>6 DEF Stops, IInv, Typed
  <2>3. /\ st[t] = "Runnable" /\ ev[t] = "yield"
        /\ st[new] = "Runnable" /\ ev[new] = env[new]
    BY <1>1, <1>3, <1>4 DEF IInv, Typed
  <2>4. Brings(p, new, st, ev)
    BY <1>1, <1>2, <1>4, <2>3 DEF Brings
  <2>5. Bound' /\ Unaffected(p) /\ Stopped(p, st, ev)
    BY <1>1, <1>2, <1>4, <2>1, <2>2, <2>4, SwitchBound
  <2>6. got'[t] = got[t]
    BY <1>1, <1>2, <1>3, <1>6, <2>3, <2>5 DEF Stopped, got, Bound
  <2>7. Parked' = Parked
    BY <1>1, <1>4, <1>6, <2>1 DEF Parked, IInv, Typed
  <2>8. \A x \in Thread : got'[x] = got[x]
    BY <1>1, <2>5, <2>6 DEF Unaffected
  <2>. QED  BY <1>2, <2>5, <2>7, <2>8, SameParked DEF Still, got
<1>. QED  BY <1>3, <1>5, <1>6

(* nor is the end of one that has waited in the polling loop,                 *)
LEMMA UnblockStill == ASSUME IInv, IInv', Bound, NEW p \in Proc, Unblock(p) PROVE Bound' /\ Still
<1>1. PICK t, new, q : t = cur[p] /\ new = Head(runnable[p]) /\ q = Tail(runnable[p])
  OBVIOUS
<1>2. /\ Live(p) /\ runnable[p] # <<>> /\ UNCHANGED <<value, tag>>
      /\ pc[p] = "relock" /\ state[t] # "Exiting"
      /\ Switch(p, new, q, None, state, env) /\ state' = [state EXCEPT ![new] = "Running"]
  BY <1>1 DEF Unblock, Runs, Live, Switch
<1>3. t \in Thread /\ state[t] \in {"Rendezvous", "Runnable"}
  BY <1>1, <1>2, CurIsThread DEF IInv, Placed, Fits
<1>4. new \in Thread /\ state[new] = "Runnable"
  BY <1>1, <1>2, HeadIsReady
<1>5. Stops(p, state, env)
  BY <1>1, <1>3 DEF Stops, IInv, Typed, Placed
<1>6. Brings(p, new, state, env)
  BY <1>1, <1>2, <1>3, <1>4 DEF Brings, Bound
<1>7. /\ Bound' /\ Unaffected(p)
      /\ new = cur[p] => got'[new] = got[new]
      /\ new # cur[p] => Stopped(p, state, env)
  BY <1>1, <1>2, <1>5, <1>6, SwitchBound
<1>8. got'[t] = got[t]
  BY <1>1, <1>2, <1>3, <1>7 DEF Stopped, got
<1>9. Parked' = Parked
  BY <1>2, <1>4 DEF Parked, IInv, Typed
<1>10. \A x \in Thread : got'[x] = got[x]
  BY <1>1, <1>7, <1>8 DEF Unaffected
<1>. QED  BY <1>2, <1>7, <1>9, <1>10, SameParked DEF Still, got

(* A new thread has had no rendezvous, and is in no queue.                    *)
LEMMA CreateStill ==
  ASSUME IInv, IInv', Bound, NEW t \in Thread, state[t] = "None",
         NEW s \in {"Runnable", "Running"}, state' = [state EXCEPT ![t] = s],
         NEW e \in {"none", "launch"}, env' = [env EXCEPT ![t] = e],
         s = "Running" => e = "none", UNCHANGED <<value, tag, ret>>
  PROVE  Bound' /\ Still
<1>1. /\ state'[t] = s /\ env'[t] = e
      /\ \A x \in Thread \ {t} : state'[x] = state[x] /\ env'[x] = env[x]
  BY DEF IInv, Typed
<1>2. Bound'
  BY <1>1 DEF Bound
<1>3. Parked' = Parked
  BY <1>1 DEF Parked
<1>4. \A x \in Thread : got'[x] = got[x]
  BY <1>1 DEF got, Bound
<1>. QED  BY <1>2, <1>3, <1>4, SameParked DEF Still, got

(* nor what leaves the rendezvous alone.                                      *)
LEMMA RestStill ==
  ASSUME IInv, IInv', Bound, UNCHANGED <<env, value, ret, tag>>,
         \/ state' = state
         \/ \E t \in Thread : state[t] = "Running" /\ state' = [state EXCEPT ![t] = "Exiting"]
  PROVE  Bound' /\ Still
<1>1. \A t \in Thread : state'[t] = state[t] \/ (state'[t] = "Exiting" /\ state[t] = "Running")
  BY DEF IInv, Typed
<1>2. Parked' = Parked
  BY <1>1 DEF Parked
<1>. QED  BY <1>1, <1>2, StillBound, SameParked DEF Still

(* _threadrendezvous keeps the promise of a rendezvous: the first thread to   *)
(* come with a tag waits, the next one takes it along, and each of the two    *)
(* gets the value of the other, whatever else the threads and procs do.       *)
THEOREM KeepsPromise == ASSUME Given PROVE Spec => ImplementsRendezvous
<1>1. Init => Bound /\ Promise!Init
  <2>1. ASSUME Init PROVE Bound
    BY <2>1 DEF Init, Bound
  <2>2. ASSUME Init PROVE parked = {}
    BY <2>2 DEF Init, parked
  <2>3. ASSUME Init PROVE got = [t \in Thread |-> None]
    BY <2>3 DEF Init, got
  <2>. QED  BY <2>1, <2>2, <2>3 DEF Promise!Init
<1>2. IInv /\ IInv' /\ Bound /\ [Next]_vars => Bound' /\ [Promise!Next]_(Promise!vars)
  <2>1. SUFFICES ASSUME IInv, IInv', Bound, [Next]_vars
                 PROVE  Bound' /\ (Still \/ \E t \in Thread, g \in Tag : Promise!Come(t, g))
    BY DEF Promise!Next, Promise!vars, Still
  <2>2. CASE UNCHANGED vars
    BY <2>1, <2>2, RestStill DEF vars
  <2>3. ASSUME NEW p \in Proc, User(p)
        PROVE  Bound' /\ (Still \/ \E t \in Thread, g \in Tag : Promise!Come(t, g))
    <3>1. ASSUME NEW t \in Thread, ThreadCreate(p, t) PROVE Bound' /\ Still
      <4>1. /\ state[t] = "None" /\ state' = [state EXCEPT ![t] = "Runnable"]
            /\ env' = [env EXCEPT ![t] = "launch"] /\ UNCHANGED <<value, tag, ret>>
        BY <3>1 DEF ThreadCreate
      <4>. QED  BY <2>1, <4>1, CreateStill
    <3>2. ASSUME NEW t \in Thread, NEW c \in Proc, ProcCreate(p, c, t) PROVE Bound' /\ Still
      <4>1. /\ state[t] = "None" /\ state' = [state EXCEPT ![t] = "Running"]
            /\ env' = env /\ UNCHANGED <<value, tag, ret>>
        BY <3>2 DEF ProcCreate
      <4>2. env' = [env EXCEPT ![t] = "none"]
        BY <2>1, <4>1 DEF Bound, IInv, Typed
      <4>. QED  BY <2>1, <4>1, <4>2, CreateStill
    <3>3. ASSUME NEW g \in Tag, Meet(p, g) PROVE Bound' /\ Promise!Come(cur[p], g)
      BY <2>1, <3>3, MeetComes
    <3>4. ASSUME NEW g \in Tag, Block(p, g) PROVE Bound' /\ Promise!Come(cur[p], g)
      BY <2>1, <3>4, BlockComes
    <3>5. ASSUME NEW g \in Tag, Meet(p, g) \/ Block(p, g) PROVE cur[p] \in Thread
      <4>1. Live(p)
        BY <3>5 DEF Meet, Block, Runs, Live
      <4>. QED  BY <2>1, <4>1, CurIsThread
    <3>6. CASE Yield(p)
      BY <2>1, <3>6, RestStill DEF Yield
    <3>7. CASE ThreadExits(p) \/ LastExits(p)
      <4>1. Live(p) /\ pc[p] = "user" /\ state' = [state EXCEPT ![cur[p]] = "Exiting"]
            /\ UNCHANGED <<env, value, ret, tag>>
        BY <3>7 DEF ThreadExits, LastExits, Runs, Live
      <4>2. cur[p] \in Thread /\ state[cur[p]] = "Running"
        BY <2>1, <4>1, CurIsThread DEF IInv, Placed, Fits
      <4>. QED  BY <2>1, <4>1, <4>2, RestStill
    <3>. QED  BY <2>3, <3>1, <3>2, <3>3, <3>4, <3>5, <3>6, <3>7 DEF User
  <2>4. ASSUME NEW p \in Proc, Inside(p) PROVE Bound' /\ Still
    <3>1. CASE YieldNone(p) \/ PollAgain(p) \/ WaitChild(p) \/ ProcExits(p)
      BY <2>1, <3>1, RestStill DEF YieldNone, PollAgain, WaitChild, ProcExits
    <3>2. CASE PollReap(p)
      BY <2>1, <3>2, RestStill DEF PollReap, Reenters, Given
    <3>. QED  BY <2>1, <2>4, <3>1, <3>2, YieldToStill, UnblockStill DEF Inside
  <2>. QED  BY <2>1, <2>2, <2>3, <2>4 DEF Next
<1>. QED  BY <1>1, <1>2, Invariance, PTL DEF Spec, ImplementsRendezvous, Promise!Spec
=============================================================================

---------------------------------- MODULE Mk ----------------------------------
(* mk: how a target's dependency graph is worked off. cmd/mk/mk.c walks the   *)
(* graph and decides what is out of date (missing intermediate files may be   *)
(* pretended), recipe.c makes jobs, run.c runs them, up to NPROC at a time,   *)
(* and takes in the processes in the order they end. One walk of the graph is *)
(* one step, for mk learns of a process only when it waits. Only this module  *)
(* declares a RECURSIVE operator: work() calls itself down the graph.         *)
EXTENDS Integers, FiniteSets, Sequences, SequencesExt

CONSTANTS Node,
          Graphs,   \* the graphs tried: [root, arcs, rule, virtual], see GraphOK
          Old,      \* the times that files may have at first; 0: there is no file
          Limits,   \* values of nproclimit
          Nil

(* arcs: of each node its prerequisites in their order, Nil standing for an   *)
(* arc without a node (a recipe that needs nothing); rule: of each node the   *)
(* targets its recipe makes, <<>> when there is no recipe                     *)
GraphOK(g) == /\ g.root \in Node /\ g.virtual \subseteq Node
              /\ g.arcs \in [Node -> Seq(Node \cup {Nil})]
              /\ g.rule \in [Node -> Seq(Node)]
              /\ \A n \in Node : g.rule[n] # <<>> => Contains(g.rule[n], n)
ASSUME MkAssumption == /\ Nil \notin Node /\ \A g \in Graphs : GraphOK(g)
                       /\ Old \subseteq Nat /\ Limits \subseteq Nat \ {0}

VARIABLES graph, kflag, nproclimit, \* set once
          nodes,     \* of each node: which of NOTMADE, BEINGMADE, MADE, its pretence and time
          jobs,      \* the jobs that have not been started: each the list of its nodes
          events,    \* in each slot the job that runs, or Nil
          nrunning, runerrs,
          file, now, \* the files' times, and the clock
          pc,        \* which loop of mk() it is in
          ran,       \* history: how often each node's recipe has been started
          lazy       \* history: a recipe has succeeded without making its targets

given == <<graph, kflag, nproclimit>>
vars == <<given, nodes, jobs, events, nrunning, runerrs, file, now, pc, ran, lazy>>

Slots == 1 .. nproclimit
Fresh(t) == [made |-> {"NOTMADE"}, can |-> TRUE, pret |-> FALSE, time |-> t]

(* graph() builds what the root reaches *)
Prereqs(n) == SelectSeq(graph.arcs[n], LAMBDA c : c # Nil)
RECURSIVE Reached(_)
Reached(n) == {n} \cup UNION {Reached(Prereqs(n)[k]) : k \in 1 .. Len(Prereqs(n))}

Init == /\ graph \in Graphs /\ kflag \in BOOLEAN /\ nproclimit \in Limits
        /\ file \in {f \in [Node -> Old] :
                     \A n \in Node \ (Reached(graph.root) \ graph.virtual) : f[n] = 0}
        /\ nodes = [n \in Node |-> Fresh(file[n])]  \* graph() and clrmade()
        /\ jobs = <<>> /\ events = [i \in Slots |-> Nil]
        /\ nrunning = 0 /\ runerrs = 0
        /\ now = 1 + CHOOSE t \in Old : \A u \in Old : u <= t
        /\ pc = "work"
        /\ ran = [n \in Node |-> 0] /\ lazy = FALSE

-----------------------------------------------------------------------------
(* A walk works on a record of what it may change:                            *)
Walk == [nodes |-> nodes, jobs |-> jobs, events |-> events, nrunning |-> nrunning,
         errs |-> runerrs, file |-> file, ran |-> ran, did |-> FALSE, exit |-> FALSE]

Is(w, n, m) == m \in w.nodes[n].made
Unfinished(w, n) == Is(w, n, "NOTMADE") \/ Is(w, n, "BEINGMADE")
MadeSet(w, n, m) == [w EXCEPT !.nodes[n].made = {m}]
Unpretend(w, n) == [w EXCEPT !.nodes[n] = [Fresh(0) EXCEPT !.can = FALSE]]
OutOfDate(w, n, c) == w.nodes[n].time < w.nodes[c].time

(* sched(): the first job goes to the first slot that is free *)
Sched(w) ==
    LET free == {i \in Slots : w.events[i] = Nil}
    IN IF w.jobs = <<>> THEN w
       ELSE [w EXCEPT !.events[CHOOSE i \in free : \A j \in free : i <= j] = Head(w.jobs),
                      !.jobs = Tail(@), !.nrunning = @ + 1,
                      !.ran = [n \in Node |-> IF Contains(Head(w.jobs), n) THEN @[n] + 1 ELSE @[n]]]

SchedIfRoom(w) == IF w.nrunning < nproclimit THEN Sched(w) ELSE w

(* run() *)
Run(w, j) == SchedIfRoom([w EXCEPT !.jobs = Append(@, j)])

(* update(): the recipe of n has been run, fake: in vain *)
Update(w, n, fake) ==
    LET v == MadeSet(w, n, IF fake THEN "BEINGMADE" ELSE "MADE")
        Newer(t, c) == IF t < v.nodes[c].time THEN v.nodes[c].time ELSE t
    IN IF w.file[n] # 0
         THEN [v EXCEPT !.nodes[n] = [@ EXCEPT !.can = FALSE, !.pret = FALSE, !.time = w.file[n]]]
         ELSE [v EXCEPT !.nodes[n].time = FoldLeft(Newer, 1, Prereqs(n))]

(* dorecipe(): the job makes n and those of the rule's other targets that are *)
(* missing or out of date                                                     *)
DoRecipe(w, n) ==
    LET Stale(m) == \/ w.nodes[m].time = 0
                    \/ \E i \in 1 .. Len(Prereqs(m)) : OutOfDate(w, m, Prereqs(m)[i])
        job == <<n>> \o Reverse(SelectSeq(graph.rule[n], LAMBDA m : m # n /\ Stale(m)))
        begun == FoldLeft(LAMBDA v, m : MadeSet(v, m, "BEINGMADE"), w, job)
    IN IF graph.rule[n] # <<>> THEN [Run(begun, job) EXCEPT !.did = TRUE]
       ELSE IF n \in graph.virtual THEN Update(w, n, FALSE)
       ELSE [w EXCEPT !.exit = TRUE]  \* no recipe to make n

(* a node without prerequisites is there or it is not; broken: with -k the    *)
(* error is told and not counted                                              *)
LeafUncounted(w, n) ==
    IF w.nodes[n].time # 0 THEN MadeSet(w, n, "MADE")
    ELSE IF kflag THEN [w EXCEPT !.nodes[n].made = @ \cup {"BEINGMADE"}]
    ELSE [w EXCEPT !.exit = TRUE]
Leaf(w, n) ==
    IF w.nodes[n].time # 0 THEN MadeSet(w, n, "MADE")
    ELSE IF kflag THEN [w EXCEPT !.nodes[n].made = @ \cup {"BEINGMADE"}, !.errs = @ + 1]
    ELSE [w EXCEPT !.exit = TRUE]

(* n has been found out of date because of ra, when p needed it: may the file *)
(* of n, which is missing, be taken for made? Broken: whatever p's time is    *)
CanPretendAlways(w, n, p, ra) ==
    /\ w.nodes[n].time = 0 /\ (w.nodes[n].pret \/ w.nodes[n].can)
    /\ p # Nil /\ ra # Nil
CanPretend(w, n, p, ra) ==
    /\ w.nodes[n].time = 0 /\ (w.nodes[n].pret \/ w.nodes[n].can)
    /\ p # Nil /\ ra # Nil /\ ~OutOfDate(w, p, ra)

(* What follows binds the walk as the element of a set of one, where LET would *)
(* do, for TLC to evaluate it once: work() calls itself several times over.    *)
The(S) == CHOOSE x \in S : TRUE

RECURSIVE Work(_, _, _)

(* work() of c on behalf of n; what has been done before it stays done *)
Visit(w, c, n) == The({[v EXCEPT !.did = @ \/ w.did] : v \in {Work([w EXCEPT !.did = FALSE], c, n)}})

(* the loop over the prerequisites, mk.c:109: x has the walk and the locals *)
Look(x, n, c) ==
    IF c = Nil THEN [x EXCEPT !.ood = @ \/ x.w.nodes[n].time = 0]
    ELSE LET Seen(v) ==
               LET older == OutOfDate(v, n, c)
                   newest == x.ra = Nil \/ v.nodes[x.ra].time < v.nodes[c].time
               IN [w |-> v, ready |-> x.ready /\ ~Unfinished(v, c), ood |-> x.ood \/ older,
                   ra |-> IF older /\ newest THEN c ELSE x.ra]
         IN The({Seen(v) : v \in {Visit(x.w, c, n)}})
RECURSIVE Scan(_, _, _)
Scan(x, n, l) == IF l = <<>> THEN x
                 ELSE The({Scan(y, n, Tail(l)) : y \in {Look(x, n, Head(l))}})

(* the rescan for pretenders, mk.c:149; broken: none are looked for *)
LookAgainNot(y, n, c) == y
LookAgain(y, n, c) == IF ~y.w.nodes[c].pret THEN y
                      ELSE [w |-> Visit(Unpretend(y.w, c), c, n), ready |-> FALSE]
RECURSIVE Rescan(_, _, _)
Rescan(y, n, l) == IF l = <<>> THEN y
                   ELSE The({Rescan(z, n, Tail(l)) : z \in {LookAgain(y, n, Head(l))}})

(* the prerequisites being made, and n out of date: something is to be done *)
Act(w, n, p) ==
    LET Do(y) == IF y.ready THEN LET v == DoRecipe(w, n) IN [v EXCEPT !.did = @ \/ w.did]
                 ELSE IF y.w.did THEN y.w ELSE Work(y.w, n, p)
    IN The({Do(y) : y \in {Rescan([w |-> w, ready |-> TRUE], n, Prereqs(n))}})

Consider(w, n, p) ==
    LET Decide(x) ==
          IF ~x.ready THEN x.w
          ELSE IF ~x.ood THEN MadeSet(x.w, n, "MADE")
          ELSE IF CanPretend(x.w, n, p, x.ra)
            THEN [MadeSet(x.w, n, "MADE") EXCEPT !.nodes[n].can = FALSE, !.nodes[n].pret = TRUE]
          ELSE Act(x.w, n, p)
        None == [w |-> w, ready |-> TRUE, ood |-> FALSE, ra |-> Nil]
    IN The({Decide(x) : x \in {Scan(None, n, graph.arcs[n])}})

(* work() *)
Enter(w, n, p) ==
    IF Is(w, n, "MADE") /\ w.nodes[n].pret /\ p # Nil /\ OutOfDate(w, p, n)
      THEN Unpretend(w, n) ELSE w
Work(w, n, p) ==
    IF Is(w, n, "BEINGMADE") \/ (Is(w, n, "MADE") /\ ~w.nodes[n].pret) THEN w
    ELSE LET e == Enter(w, n, p)
             v == IF Is(e, n, "MADE") THEN [e EXCEPT !.nodes[n].time = 0] ELSE e
         IN IF graph.arcs[n] = <<>> THEN Leaf(v, n)
            ELSE The({Consider(z, n, p) : z \in {v}})

-----------------------------------------------------------------------------
(* mk(): its loop, then the wait for a root that is being made, then the rest *)
Drain(w) == IF w.jobs # <<>> THEN "drain"
            ELSE IF w.errs # 0 \/ Is(w, graph.root, "MADE") THEN "end" ELSE "assert"
Left(w) == IF Is(w, graph.root, "BEINGMADE") THEN "last" ELSE Drain(w)
Loop(w) == IF Is(w, graph.root, "NOTMADE") THEN "work" ELSE Left(w)

Becomes(w) == /\ nodes' = w.nodes /\ jobs' = w.jobs /\ events' = w.events
              /\ nrunning' = w.nrunning /\ runerrs' = w.errs /\ ran' = w.ran
              /\ file' = w.file

WalkGraph ==
    /\ pc = "work"
    /\ \E w \in {Work(Walk, graph.root, Nil)} :
         /\ Becomes(w)
         /\ pc' = IF w.exit THEN "exit" ELSE IF w.did THEN Loop(w) ELSE "wait"
    /\ UNCHANGED <<given, now, lazy>>

(* waitup() with nothing left to wait for: allowed in the loop only *)
NoChild ==
    /\ pc \in {"wait", "last", "drain"}
    /\ \A i \in Slots : events[i] = Nil
    /\ pc' = IF pc # "wait" THEN "lost"
             ELSE IF ~Unfinished(Walk, graph.root) THEN Loop(Walk)
             ELSE IF runerrs # 0 THEN Left(Walk) ELSE "assert"
    /\ UNCHANGED <<given, nodes, jobs, events, nrunning, runerrs, file, now, ran, lazy>>

(* waitup() with the status of the process in slot i: ok, and the time that   *)
(* the files of its targets have now; broken: the slot is still counted, or   *)
(* counted off twice                                                          *)
FreedNot(w, i) == [w EXCEPT !.events[i] = Nil]
FreedTwice(w, i) == [w EXCEPT !.events[i] = Nil, !.nrunning = @ - 2]
Freed(w, i) == [w EXCEPT !.events[i] = Nil, !.nrunning = @ - 1]

Ended(i, ok, makes, t) ==
    LET job == events[i]
        files == [n \in Node |-> IF makes /\ Contains(job, n) /\ n \notin graph.virtual
                                   THEN t ELSE file[n]]
        freed == [Freed(Walk, i) EXCEPT !.file = files,
                                        !.errs = IF ok \/ ~kflag THEN @ ELSE @ + 1]
        updated == FoldLeft(LAMBDA v, n : Update(v, n, ~ok), freed, job)
        w == SchedIfRoom(updated)
        stops == ~ok /\ ~kflag
    IN /\ pc \in {"wait", "last", "drain"}
       /\ job # Nil
       /\ now' = t
       /\ Becomes(IF stops THEN [freed EXCEPT !.jobs = <<>>] ELSE w)
       /\ pc' = IF stops THEN "exit" ELSE IF pc = "wait" THEN Loop(w) ELSE Drain(w)
       /\ lazy' = (lazy \/ (ok /\ ~makes))
       /\ UNCHANGED given

Next == \/ WalkGraph \/ NoChild
        \/ \E i \in Slots, ok \in BOOLEAN, makes \in BOOLEAN, t \in {now, now + 1} :
              Ended(i, ok, makes, t)

(* recipes end, and mk runs on *)
Spec == Init /\ [][Next]_vars /\ WF_vars(Next)

-----------------------------------------------------------------------------
(* PROPERTIES *)

InFlight == ({events[i] : i \in Slots} \ {Nil}) \cup {jobs[k] : k \in 1 .. Len(jobs)}

TypeOK == /\ nodes \in [Node -> [made : SUBSET {"NOTMADE", "BEINGMADE", "MADE"} \ {{}},
                                 can : BOOLEAN, pret : BOOLEAN, time : 0 .. now]]
          /\ jobs \in Seq(Seq(Node)) /\ DOMAIN events = Slots
          /\ \A i \in Slots : events[i] # Nil => events[i] \in Seq(Node)
          /\ nrunning \in 0 .. nproclimit /\ runerrs \in Nat
          /\ file \in [Node -> 0 .. now]
          /\ pc \in {"work", "wait", "last", "drain", "end", "exit", "lost", "assert"}

(* No recipe waits or runs while something it needs is not made, or only      *)
(* pretended (mk.c:127-162); no target is made by two jobs at a time, and     *)
(* none is made twice in a run of mk, pretended before or not: this when the  *)
(* recipes make their targets, for update() takes no pretence from a target   *)
(* that has no file (mk.c:177), and it may be made a second time.             *)
JobsInOrder ==
    /\ \A j \in InFlight : \A i \in 1 .. Len(j) : \A k \in 1 .. Len(Prereqs(j[i])) :
         LET c == nodes[Prereqs(j[i])[k]] IN c.made = {"MADE"} /\ (c.pret => lazy)
    /\ \A j1, j2 \in InFlight : j1 # j2 => ToSet(j1) \cap ToSet(j2) = {}
    /\ \A n \in Node : ran[n] > 1 => lazy

(* nrunning tells how many slots are taken, the assertion "out of slots!!"    *)
(* (run.c:211) cannot fail, and no job waits while a slot is free. When mk()  *)
(* returns nothing runs: the next one may read another NPROC (run.c:188).     *)
SlotsBusy == /\ nrunning = Cardinality({i \in Slots : events[i] # Nil})
             /\ jobs # <<>> => nrunning = nproclimit
             /\ pc = "end" => nrunning = 0 /\ jobs = <<>>

(* When mk has ended without an error, and the recipes did make their targets,*)
(* every file that is there is at least as new as the sources it comes from,  *)
(* however many of the files between have been pretended.                     *)
RECURSIVE Sources(_)
Sources(n) == IF graph.arcs[n] = <<>> THEN {n}
              ELSE UNION {Sources(Prereqs(n)[k]) : k \in 1 .. Len(Prereqs(n))}
UpToDate == pc = "end" /\ runerrs = 0 /\ ~lazy =>
              /\ file[graph.root] # 0 \/ graph.root \in graph.virtual
              /\ \A n \in Reached(graph.root) : file[n] # 0 =>
                   \A s \in Sources(n) : file[s] # 0 /\ file[n] >= file[s]

(* mk comes to an end, with its work done or with an error told, and never    *)
(* waits for a process that it has not started or fails in an assertion       *)
(* (mk.c:26, mk.c:36, run.c:124).                                             *)
Terminates == <>(pc \in {"end", "exit"})
=============================================================================

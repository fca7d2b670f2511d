# A verification development for the preplan9 port

The repository is a collection of Plan 9 programs and libraries ported to Unix.
Most of it are sequential programs. The parts in which things can happen in an
order nobody tried are the thread library (`libthread`), the queueing locks
(`lib9/qlock.c`), and the programs built as several communicating processes:
the plumber, `mk`, the `squint` interpreter, and `sam` with its terminal. This
directory models those, the libraries first, because the plumber and every
threaded program stand on them; then the plumber's file server, squint's
processes and mk. `sam` is left.

## 1. Inventory

| Component | State it keeps | Operations | Talks to |
|---|---|---|---|
| queueing locks, `lib9/qlock.c` | per lock: `locked` or `readers`/`writer`, the waiting list `head`..`tail`; for the program: the pool `ql.x[1024]`, `ql.p` | `qlock` `qunlock` `canqlock` `rlock` `runlock` `wlock` `wunlock`, `getqlp` | spin lock `q->lock`; `rendezvous`, which `threadinit` replaces by `threadrendezvous` |
| channels, `libthread/channel.c` | per channel: ring buffer `v`, `f`, `n`; `qused`/`qentry[32]`; per waiter: an `Alt` and a claim word on its stack | `chancreate` `chanfree` `send` `recv` `nbsend` `nbrecv` `alt` | `chanlock`; `_threadrendezvous` and `_yield` |
| scheduler, `libthread/thread.c` | per proc: `runnable`, `threads`, `nthreads`, `mustwait`, its child list; the rendezvous queue; `nprocs`; per thread: `state`, `tag`, `value`, `env` | `threadinit` `threadcreate` `proccreate` `yield` `threadrendezvous` `threadexits` `threadexitsall` `procexec` `threadwaitchan` | kernel: clone, wait, signals; sends on a channel for dead children |
| plumber, `cmd/plumb/fsys.c` | fids; per port: open fids, `sendq`, `readq`, `holdq`; the rules and who writes them; the lock of the 9P pipe | one handler per 9P message, in as many procs as are needed | `qlock`, `proccreate`, rules and matching, `libplumb` |
| mk | the dependency graph with flags and times, job queue, `events` slots, list of unexpected processes | `mk` `work` `dorecipe` `run` `sched` `waitup` `update` | fork/wait |
| squint, `cmd/squint/proc.c`, `xec.c` | process queues of every channel, the run queue, `proctab`, stacks | `commset` `commcln` and their one-channel forms, `snd`, `begin`, `halt`, `xec`, `execute` | - |
| sam and samterm | the text; what the terminal has of it (`rasp.c` on both sides); messages in flight | the `T*` and `H*` messages | a byte stream |
| everything else | shells, text tools, compilers, window programs, imported programs | | see "Not modelled" |

What is hard, and what makes each part correct:

* **locks** - `unlock(&q->lock)` comes before the rendezvous with the thread
  that is woken. The lock must change hands without a gap, no wake-up may be
  lost, waiters are served in order, and the address that waiter and waker meet
  on must not be in use twice.
* **channels** - claims (`*xa->tag = c`) are made under `chanlock`, the meeting
  follows outside. Values must arrive once, unharmed and in order, on buffered
  channels also for waiters that start over; nobody may sleep beside a value or
  beside room.
* **scheduler** - procs run in parallel and put threads on each other's run
  queues; an exiting thread is freed by whoever runs next; dead procs are reaped
  in the middle of other calls. A thread is in one place, comes back, gets the
  value its partner gave it, and assertions of the code hold.
* **plumber** - reads wait for messages and messages for reads, with flushes and
  clunks at any time; a message goes to everybody who had the port open, once,
  whole and in order.
* **mk** - parallel jobs end in any order, recipes fail or make nothing, and a
  missing file between a source and a target may be taken for made and have to
  be made after all; no target is built before its prerequisites or twice, what
  is there in the end is newer than its sources, and there is an end.
* **squint** - a process that offers several communications stands in several
  queues; the one that chooses it runs its clean-up. It must leave all queues,
  meet one partner, and be in one place.
* **sam** - the host knows what the terminal has, with messages in flight.

`PROJECT.json` lists the components, the hazards with their lines, the runs and
the definition-to-source map.

## 2. Modules

| Module | What it is | Code |
|---|---|---|
| `QLp` | the pool of queue elements | `getqlp`, `mp->inuse = 0` |
| `QLock` | the queueing lock, composed with `QLp` | `qlock` `qunlock` `canqlock` |
| `FairMutex` | abstract: a line of threads whose head has the lock | refined by `QLock` |
| `RWLock` | the reader/writer lock, composed with `QLp` | `rlock` `runlock` `wlock` `wunlock` |
| `FairRWLock` | abstract: batches of readers or one writer, in order of arrival | refined by `RWLock` |
| `Channel`, `MCChannel` | channels; who uses which in the runs | `channel.c` |
| `Rendezvous` | abstract: two threads on a tag exchange their values | refined by `Sched` |
| `Sched` | procs, threads, rendezvous, exit and reaping | `thread.c`, `getthread.c` |
| `PlumbPort` | abstract: a port is a mailbox for each subscriber, with messages held for the first | refined by `Plumb` |
| `Plumb` | the plumber's file server: fids, a port, the send file, the rules | `cmd/plumb/fsys.c`, `plumbunpackpartial` |
| `SyncChan` | abstract: select over synchronous channels, served in order of arrival | refined by `Squint` |
| `Squint`, `MCSquint` | squint's processes and channels; the lists offered in the run | `proc.c`, `xec.c`, `iret` |
| `Mk`, `MCMk` | how mk works off the dependency graph; five mkfiles | `mk.c`, `recipe.c`, `run.c` |
| `QLockProofs`, `RWLockProofs`, `ChannelProofs`, `ChannelValues`, `SchedProofs`, `PlumbProofs`, `SquintProofs` | the inductive invariants of the modules they are named after, and their theorems (section 5) | - |
| `ListFacts` | lemmas about lists, counts, induction and folds that those share | - |

**How state and actions correspond.** A section between `lock(&l)` and
`unlock(&l)` of a spin lock is one action: nobody else sees its intermediate
states. Whatever the code does after the unlock is an action of its own. In
`QLock` and `RWLock` each thread has a place `pc` and its local variable `mp`
(`mp` or `p` in the code). A rendezvous there is `Park` for whoever comes first
and `Meet` for the second; in `Channel` it is the one step `Meet`, which the
first to arrive waits for; `Sched` has the code of it. A waiter's element
(`QLp`) or claim word (`Channel`) is identified by its address in the code and
by the element or the thread in the models. There are two places where a lock is
kept over a step and the models say so: `wunlock` wakes its readers holding
`q->lock` (`Looping`), and an abort or a failed assertion keeps the lock for ever
(`LockFree`, `Idle`).

`QLock`: `Acquire` (`qlock`, `canqlock` on a free lock; a `canqlock` that fails
changes nothing), `Enqueue`, `Exhaust` (abort in `getqlp`), `Dequeue`, `Release`
(`qunlock`), `Return`. `RWLock` likewise, with `RUnlock`/`RUnlockLast` and
`WUnlock`/`WUnlockToWriter`/`WakeReader`/`WakeDone`. Several locks share the pool
in the code; the models have one lock, and a small pool stands for one which
other locks have used up.

`Channel`: `Send`, `Recv`, `Alt` are the calls up to the unlock: claim a waiter,
go through the buffer, or queue. `Return` is the end of a call on an unbuffered
channel; `Retry` is the `goto retry`/`goto repeat` of a buffered one. `f` and `n`
wrap around at `UMod`. `nrand` in `alt` is a free choice among all entries that
can go, those before a `CHANNOBLK` deciding whether it gives up. Histories
(`made`, `sent`, `log`, `hit`) let the properties speak of what was sent; no
guard reads them, except `made`, which bounds the number of values. Values of a
thread are numbered; `v == nil` (zeros are sent, a value received is dropped) is
left out. `_yield` after a call that did not block is left to `Sched`.

`Sched`: each proc has a place (`user`, inside `_yield`, in a polling loop, in
the exit loop); a call runs from one lock section to the next. `env` says where
a thread's `jmp_buf` leads, and `Switch` is `longjmp` with what happens on the
other side: a thread back in `_yield` or `_threadrendezvous` collects the exited
one it is handed, a thread that starts in `threadlauncher` does not. Each
rendezvous brings the thread's own name as its value. Signals only shorten the
sleep of the polling loops and are not needed. `failed` stands for the assertions
of `thread.c` that speak of another thread or of an earlier step: those of
`garbagethread` (139, 147) and `deadchild` (307), the one on the partner of a
rendezvous (500), and those that a re-entry from a polling loop runs into (426,
139). That otherwise `putq` is given a thread that is on no queue, and that one
back from its rendezvous is on none (426, 537), is part of `OnePlace`. The
others say what the model has by construction: that a proc runs its own thread
(175, 187), that a child `wait` returned is among the children (289, 303), that
a queue is a list (431), that `new`, which is nil there, is not `t` (377), and
that who goes on is running (538).

`Plumb`: procs of `fsysproc` take 9P requests off one pipe and handle them
concurrently; what is done under the `QLock` `queue` is one action. `OpenCheck`
and `Open` are the two halves of `fsysopen`, with the rules' reference count
taken between the locks; `Read` (a proc has taken a Tread off the pipe) and
`Queue` (`queueread`, `drainqueue`) those of `fsysread`. `Exchange` is the
body of `drainqueue` for one reader of one message, `Drained` its two loops.
`Write` is `fsyswrite` to the send file: a client writes a message in portions,
abandons one and begins another, or is told that it is bad (`Unpack`), and what
the rules make of it (a port or none, to be held or not) is free. A message is
its `Size` units, of which a read takes any number. There is one port, since
each has its own queues, and each `Fid` struct serves one client, who has one
request at a time but may flush the read it waits for. `Overtake` lets a Tflush
be handled before the Tread it names.

`Squint`: any instruction is a step, because `xec` puts a process off after a
random number of them. `Post` and `Communicate` are `icommset` (`icommset1` is
a select of one), the latter with the target's `icommcln`, which the chooser
runs; a sender then owes a value (`owes` stands for the targets on its stack)
and `Snd` pays it. Which of the cases that can go is taken is free, as `nrand`.
`line` is the order in which processes have queued; only the properties read it.

`Mk`: between two waits mk runs alone, so one call of `work` on the root is one
step (`WalkGraph`), computed by the recursive `Work` on a record of everything
it may change, in the order of the code: `Leaf`, `Scan` and `Look` (the loop
over the prerequisites), `CanPretend`, `Rescan` and `LookAgain`, `DoRecipe` and
`Run`. `Ended` is `waitup` with the status of any running process, which has
made its targets' files or not; `NoChild` is `waitup` with no process left.
`pc` is the loop of `mk()` it is in; `exit` an `Exit()` with an error told,
`lost` the failed wait of line 124, `assert` an assertion. Times are what the
code compares; 0 is no file.

The definitions named "broken", or "broken variant", are changed forms of the definition that
follows them. No specification uses them: they are for putting in place of the
original, to see that the property they are meant to break is broken.

## 3. Runs

| Run | Instance | Result |
|---|---|---|
| `qlock` | 4 threads, 3 elements | passes, 35 520 states |
| `rwlock` | 4 threads, 2 elements | passes, 63 272 states |
| `channel_mixed` | 3 threads; an unbuffered channel for all, one of size 2 from `p` to `r`; 5 values; indices modulo 4 | passes, 175 348 states |
| `channel_twosenders` | 2 senders, 1 receiver, size 1 | `NoDuplicate` violated |
| `channel_altfull` | 1 sender, also by `alt`, 2 receivers, size 1 | `WithinBuffer` violated |
| `sched_reap` | 2 procs, 3 threads, 2 tags | passes, 211 642 states |
| `sched_orphan` | a child proc creates a thread and its first one exits | `AssertionsHold` violated |
| `sched_waitmsg` | `threadwaitchan` in use, 4 threads | `AssertionsHold` violated |
| `plumb` | 3 fids, messages of 2 units, 2 messages | passes, about 152 000 states (up to symmetry) |
| `plumb_overtake` | the same, a Tflush may overtake its Tread | `NobodyReadsYet` violated |
| `squint` | the interpreter and 3 processes, 2 channels, 9 lists of one or two offers | passes, 63 209 states (up to symmetry) |
| `mk` | 5 mkfiles, files that are missing, old or new, with and without `-k`, `NPROC` 1 and 2 | passes, 198 198 states |

**Bounds.** Locks: `Thread` has one thread to own the lock, one that unlocks,
and two in line, so order and hand-over races show; with fewer elements than
waiters `getqlp` aborts in the run, with three (two for readers and writers) a
full line is reached too. The pool never hands out `ql.p`, so elements are
reused in turn, within the run. Channels: `MaxSend` limits the values (4 of `p`
fill the buffer twice and let `f` pass `UMod` = 4, which stands for 2^32), and
`NSlot` = 3 slots stand for 32: no more than three threads can queue. Scheduler:
a proc and its child, either with more than one thread or the last; a parent
that exits first and one that exits last. Plumber: three fids are two readers
and a sender, or a reader, a sender and one who writes the rules; two messages
queue behind each other, and two units are enough for a read or a write to stop
in the middle of one. Squint: the lists offer one communication, two on two
channels, both ways on one, and the same one twice; three processes besides the
interpreter let two wait in one queue while a third chooses; `Depth` bounds
selects within the value of a send. mk: the mkfiles have shared and chained
prerequisites, one recipe for two targets, a virtual root, and a recipe that
needs nothing; times 0, 1 and 2 give every order of old files, and later ones
come from the clock. Identical fids and processes are permuted (`SYMMETRY`); no
definition tells them apart, and no liveness is checked in those runs. Where a
system may stop (all threads
exited, all values sent, an abort) `CHECK_DEADLOCK` is off and a liveness
property says who must not be stuck.

**Checked.** Locks: `MutualExclusion`/`Exclusion` (from the hand-over on; the
counters of readers and writers are true),
`NoLostLock`, `NoVainWait` (nobody waits for a free lock; the last reader's
`runlock` finds a writer at the head of the list and `wunlock` a writer or a
reader, so that neither takes its branch to `abort()`, which `RUnlockLast` and
`WakeReader` have), `OneWaiterPerElement`, `WakeUpMeets`, `NoStarvation`,
and refinement of the abstract locks. Channels: `NoDuplicate`, `NoLoss`,
`SenderOrder`, `NoForgottenWaiter`, `OneClaimer`, `AltTellsTruth` (no list
naming a channel twice). Scheduler: `OnePlace` (with the counts of threads and
procs), `AssertionsHold` (`thread.c:139`, `147`, `307`, `500`, and no re-entry
from a polling loop), `RunsAgain`, `Reaping`, and refinement of
`Rendezvous`. Plumber: `QueuesAgree` (counts and lists), `NoVainWait` (no read
beside a message for it), `NobodyReadsYet` (nobody reads while messages are
held), `RulesHeld` (one writer of the rules, counted right), and refinement of
`PlumbPort`: every message once, whole, in order, to everybody who had the port
open. Squint: `OnePlace`, `QueuesTell` (the queues hold just those who offer,
in their order, and never both halves), and refinement of `SyncChan`. mk:
`JobsInOrder` (prerequisites first, once), `SlotsBusy` (the slots are counted
right and used; nothing runs when `mk()` returns), `UpToDate` (every file is as
new as its sources; a file may be older than one *between*, which was only
pretended when it was made), `Terminates`.

**Fairness.** Locks: weak fairness of a thread inside a call and of the unlock
of whoever holds the lock (the contract of a lock); nobody must ask for it. It
is per thread because the kernel runs procs independently of each other.
Scheduler: weak fairness of every proc inside the library, and of each proc's
running thread eventually yielding or exiting, which cooperative threads owe
each other; neither rendezvous nor thread creation is ever promised. Channels
are checked for safety only; `NoForgottenWaiter` is the state form of "no lost
wake-up". (`send` is not fair to other senders: waiters are served by slot.) mk: weak
fairness of its one next-state action: recipes end, and mk runs on. Plumber and
squint are checked for safety; `NoVainWait` and `OnePlace` are the state form of
"nobody is forgotten", and the clients owe the plumber nothing.

## 4. What the code does not keep

1. *A value is received twice* (`channel_twosenders`). On a buffered channel a
   receiver that claims a waiting sender takes the value directly if it finds the
   buffer empty, and the sender starts over (`channel.c:345-351`, `539`). With one
   sender the buffer is never empty then; with two another receive can empty it.
2. *A full buffer is written to* (`channel_altfull`): `alt` takes a waiting
   receiver for room (`channel.c:193-201`).
3. *An exited thread nobody collects* (`sched_orphan`): `threadlauncher` does not
   look at what `longjmp` passes it; the parent's "exactly one child" fails
   (`thread.c:306`).
4. *A wait message at the wrong moment* (`sched_waitmsg`): `deadchild` sends from
   within a polling rendezvous, the waiting thread yields, and is collected as if
   it had exited (`thread.c:139`, `314`).
5. *A flush that comes too early* (`plumb_overtake`): `fsysproc` lets go of the
   pipe before it handles a request. A Tflush handled before its Tread is queued
   finds nothing (`fsys.c:437`), and the read stays behind when its client has
   gone: later messages are held for a client to come, while somebody "reads".

The passing runs stay where the code is right: one sender and one receiver on the
buffered channel, threads created in the main proc, no wait channel, requests
handled in the order of the pipe. Five more are excluded by constants and not shown by a run: the main thread exiting while
others of its proc live (`garbagethread` returns with `threadlock` held,
`thread.c:163`; `MainLeaves = TRUE` violates `RunsAgain`); buffer sizes that
do not divide 2^32 once `f` has wrapped around; squint programs that begin more
processes than its table holds (the one that begins is dropped, `proc.c:60`;
`Crowded = TRUE` violates `OnePlace`); statements after "interpreter process
blocked", which find the interpreter in a channel's queue still (`xec.c:126`;
`Interactive = TRUE`); and an alt that waits on a buffered channel together with
other receivers (senders). Woken for a value, it starts over (`channel.c:179`)
and may go on by another channel that has become ready meanwhile; the value stays
in the buffer with another receiver asleep beside it until the next send. The
attempt to prove `NoForgottenWaiter` showed this; it is the hypothesis
`AltsApart` of its theorem. Of mk the properties exempt, as they must, recipes that
succeed without making their targets: `update()` then leaves a pretence in place
(`mk.c:177`), and such a recipe can be run twice.

## 5. Proofs

The theorems hold for every value of the constants: any number of threads,
procs, fids or processes, any pool, any channels, sizes and lists. TLC checked
each inductive invariant on the instances of section 3 (as an invariant of the
run) before it was proved. A module of proofs has the invariant first, as a
conjunction of named parts, then a lemma for each action, `Invariance`, and what
follows from it.

| Theorem | says | from |
|---|---|---|
| `QLockProofs`: `Exclusive`, `LockNotLost`, `ElementsAreWaiters`, `WakeUpFindsWaiter`, `NobodyWaitsForFree` | the safety invariants of the queueing lock, and that nobody waits for a free one | - |
| `QLockProofs`: `Implements` | `QLock` refines `FairMutex`: one owner, in order of arrival | - |
| `RWLockProofs`: `Exclusive`, `NoneWaitsInVain`, `ListIsOfSleepers`, `WakeUpFindsWaiter` | readers and writers exclude each other and are counted right; neither `runlock` nor `wunlock` takes its branch to `abort()`; wake-ups find their waiters | - |
| `RWLockProofs`: `Implements` | `RWLock` refines `FairRWLock`: a batch of readers or one writer, let in strictly in the order of requests | - |
| `ChannelProofs`: `OneClaimed` | one claimer per waiter, and none without | - |
| `ChannelProofs`: `AltReportsIt` | `alt` reports the entry by which it was claimed | no list of an `alt` names a channel twice |
| `ChannelProofs`: `NoWakeUpForgotten` | `NoForgottenWaiter` | `AltsApart`; finitely many threads |
| `ChannelValues`: `NothingDoubled`, `NothingLost`, `NothingOvertaken`, `NothingOverfull` | `NoDuplicate`, `NoLoss`, `SenderOrder`, and `n` within the size of the buffer | `Agreed`: one sender and one receiver on each *buffered* channel, whose size divides the modulus of the counters; no list of an `alt` names a channel twice; finitely many threads |
| `SchedProofs`: `InOnePlace` | `OnePlace`: a thread is in the one place its state names, and the counters are right | `Given`: no `threadwaitchan`; finitely many procs and threads |
| `SchedProofs`: `NoAssertionFails` | `AssertionsHold`: who is collected has exited and is on its proc's list, a dead proc has one thread, who is met waits | `Given`, and only threads of the main proc create threads |
| `SchedProofs`: `KeepsPromise` | `Sched` refines `Rendezvous` | `Given` |
| `PlumbProofs`: `CountsAgree`, `OneRulesWriter` | counts and lists agree; one writer of the rules | - |
| `PlumbProofs`: `NoReadWaitsInVain`, `HeldMeansUnread` | `NoVainWait`, `NobodyReadsYet` | requests are handled in the order of the pipe (`~Overtake`) |
| `PlumbProofs`: `ImplementsMailboxes` | `Plumb` refines `PlumbPort`: every message, whole, once and in order, to everybody who had the port open when it came, or held for the first; a read is answered as soon as there is mail | `~Overtake` |
| `SquintProofs`: `InOnePlace`, `QueuesToldTrue` | `OnePlace`, `QueuesTell` | `Given`: `~Crowded`, `~Interactive`; finitely many processes |
| `SquintProofs`: `Implements` | `Squint` refines `SyncChan`: a select meets at once one who offers the other half, of those the one that has waited longest, or waits in line | `Given` |

and `TypeCorrect` of each. The hypotheses are those that the code needs: each of
`~WaitChan`, `Spawner \subseteq {Main}`, `~Overtake`, `~Crowded`, `~Interactive`,
`AltsApart` and the parts of `Agreed` but finiteness excludes a case of section 4 in
which the property fails, or (`Once`) a report of the wrong entry, and the passing
runs satisfy them. Everything else used of the constants is in the named
`ASSUME`s of the modules, which TLC evaluates in the runs.

**Why the invariants are what they are.**

* `QLock`. `MutualExclusion` is not inductive: that the thread `Dequeue` wakes
  becomes the only owner depends on the list holding each waiter's element once,
  and `Meet` is right only if no two threads but that waiter and its waker have
  the same address, which needs the uniqueness of elements among waiters and that
  there is never a second thread in `qunlock`'s rendezvous. So `IInv` has
  `OneWaker`, and its part `WakeUpMeets` says that the woken waiter *owns the
  lock*: the next `qunlock` comes from it, after it has met the first. For the
  refinement the abstract line is the owner followed by the waiters of the list;
  that it begins with the owner is `ListBehindOwner`.
* `RWLock`. The same for the list, and `ReadersOnly`: while `wunlock` is in its
  loop one reader is counted in already, so that no other thread takes the
  lock for free and none unlocks it to a writer before the loop is done. For the
  refinement the abstract batch is those who have the lock and, while `wunlock`
  is letting readers in one by one, also the readers at the front of the list
  (`Front`), whom it will reach; the abstract line is the rest of the list. So
  the whole batch joins in the step in which the writer leaves, and the later
  steps of the loop are stutters: each moves one reader from the list to those
  counted in (`MoveUp`). The steps that only park, wake or return a thread are
  `Unnoticed`, and one lemma does for all of them. `RUnlockLast` and `WakeReader`
  may abort in the model as in the code. That they do not has two reasons: for
  `runlock` the second part of `NoVainWait`, which is about `writer = 0`; for
  `wunlock`, which looks at the head while `writer` is 1, that each element of
  the list has a sleeper who marked it as a reader's or a writer's
  (`ListOfSleepers`, in the lemma `WakesReader`).
* `Channel`. A queue entry may outlive its claim, since the claimed thread
  dequeues itself when it runs again; so entries are of threads that wait *or*
  are claimed (`Member`), only unclaimed ones are found, and claims and claimers
  are in bijection (`Claims`). `NoForgottenWaiter` is restated about threads
  instead of entries (`Cared`); what makes it inductive is that whoever is
  claimed on a buffered channel counts for one value or one place in it, and that a
  thread that blocks has found neither. For the values, `VInv` speaks of every
  *spot* a value may be in (`Spots`: a log, a cell of a buffer counted from the
  extraction point, a receiver's variable) and of the order between spots
  (`Ahead`): no value is in two (`Single`), each that was sent is in one (`Unlost`),
  and the order agrees with that of the senders (`InOrder`). Each step is a map
  from new spots to old (`Moves`) that keeps this, with at most one new value
  behind all others. What a thread offers while it waits is in no spot until it
  is claimed on an unbuffered channel (`Offered`); claimed on a buffered one it
  starts over, and `NoStuckPeer`, from `Cared`, says that the receiver that claims a
  waiting sender there finds a value in the buffer, and the sender that claims a
  receiver finds room: this is where a second sender or receiver would break the
  argument.
* `Sched`. `Placed` ties where a proc is in the code to the state of its thread, and
  `Listed` says that the queues are, without repetitions, just the sets of threads
  with the state for it (`OnceEach`). That assertions hold needs
  in addition that a child proc has one thread, which has exited when it is dead
  (`Single`), and that a thread is on its proc's list until it has exited and
  another has gone on for it (`Held`); the refinement, that a thread back from the
  rendezvous has its partner's value (`Bound`).
* `Plumb`. The fold over the readers of a message in `drainqueue` is reasoned
  about by an invariant of its intermediate results (`IsFold`, `FoldKeeps`).
  What a client has written so far and what it still has to write are parts of
  one message (`PortionsAgree`), which is why an unpacked one is whole; and no
  fid both waits and is waited for after each drain (`Quiet`). For the
  refinement the mail of a fid is a fold over the queue of messages (`Mail`), of
  which a trace of intermediate results is chosen (`MailTrace`). What has to be
  shown is that the two nested loops of `drainqueue`, over messages and their
  readers, amount to one *turn* of each reader (`Turn`), all at once: a read
  takes a part of the first message in its mailbox and of no other. A single
  exchange is this for one fid and leaves the others untouched (`OneRead`,
  `ExchangeFollows`); the invariant of the fold says that each fid is either as
  it was when the loops began, or has had its one read answered from the first
  message that awaited it then (`Follows`), and that no message passed so far
  awaits a fid that still reads (`Served`). Here
  `~Overtake` is used: only then has a fid no more than one read, and one that
  a client waits for. The handlers are then steps of the port, or unseen
  (`PortStep`), given that a fid that does not have the port open has no mail,
  no read and no answer (`NoMail`, `Unread`).
* `Squint`. A process is in the run queue, in line or owed a value, at most in
  one and there once (`Distinct`, `Apart`), and in none only if it owes nothing
  (`Present`); queues hold only those whose list of offers names them
  (`Offering`), so that whoever is found in one is in line. The order in the
  queues (`Behind`) is kept because both lists lose the same process, and what
  `pqclean` leaves is described by where each element has been (`Picks`). That
  is also the core of the refinement: the abstract line is the history `line`
  with everybody's list, so the first in it who offers the other half of an
  offer is the head of that offer's queue (`PartnerFound`); the step that takes
  him off the queues takes one place out of the abstract line (`LineLeft`), and
  the target of the value joins the debts of its sender (`DebtsGrow`), from
  which `isnd` takes the last (`DebtsShrink`).

Induction over numbers is stated about sets of numbers (`NatSetInduction`), and a
fold by the function of its intermediate results (`IsFold`, `FoldExists`), as the
provers cannot instantiate an operator.

**Only model-checked**: all liveness (`NoStarvation`, `RunsAgain`, `Reaping`,
`Terminates`), which the prover does not do; and all of `Mk`, whose `Work` is
recursive.

## 6. Not modelled

`lock`/`unlock`/`_tas` and the kernel's `rendezvous`, `clone`, `wait` and signals
are external and taken to work. Of the thread library `chanfree`, `procexec`,
`threadexitsall` and its signal chain are left out, and of `thewaitchan` all but
the re-entry into the scheduler (its channel is taken to have room, and the
extra `_yield` in `Yield` is not a step of its own). `libthread/qlock.c` is an
older lock that the library's Makefile does not build, as is
`libthread/plan9`. Of the plumber: two pending reads of one fid (they
are answered in the reverse of their order), the search of `newfid` (which may
give one free struct to two procs), a clunk while a read is out, a fid opened twice, attach, stat
and directory reads, the text of rules and messages, and what is answered to a
write. Of squint: arrays of channels in a select, run-time errors, and the
graphics input `schedio` waits for. Of mk: reading mkfiles and building the
graph (the graphs are given), metarules and archives, comparing programs,
`-a -i -n -t`, and notes. Window programs, compilers, text tools and the imported
programs are sequential, or driven by systems outside the repository.

## 7. Plan

1. *Done*: locks, channels and scheduler, their runs; proof of the queueing lock.
2. *Done*: the plumber's file server refining a port, squint's select refining
   synchronous channels, mk; refinements stated with `INSTANCE ... WITH`.
3. *Done*: proofs of every safety invariant of the locks, the channels, the
   scheduler, the plumber and squint; the refinements of `FairMutex`, `FairRWLock`,
   `Rendezvous`, `PlumbPort` and `SyncChan`.
4. *Left to extend*: `chanfree`; `RWLock` on cooperative threads, for the wake-up
   under `q->lock`; `Rasp` (sam's host and terminal with messages in flight).

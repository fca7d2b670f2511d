-------------------------------- MODULE Plumb --------------------------------
(* The plumber's file server, cmd/plumb/fsys.c: ports, the messages sent to   *)
(* them, the reads that wait for messages, and the rules file.                *)
(* Procs of fsysproc take requests off one channel and handle them            *)
(* concurrently. The QLock queue makes each section under it one step; what a *)
(* handler does before it only concerns its own fid, except for the rules'    *)
(* reference count, taken in a step of its own. A client has one request at a *)
(* time, save that it may flush a read it waits for.                          *)
EXTENDS Integers, FiniteSets, Sequences, SequencesExt

CONSTANTS Fids,      \* Fid structs, each kept for one client
          Size,      \* units of a packed message; the first one is its header
          Overtake,  \* may a Tflush be handled before the Tread it names?
          MaxMsgs,   \* bound: how many messages clients may begin to write
          Nil

Files == {"rules", "send", "port"}

ASSUME PlumbAssumption == /\ IsFiniteSet(Fids)
                          /\ Nil \notin Fids \cup Files \cup {"OREAD", "OWRITE"}
                          /\ Size \in Nat \ {0} /\ MaxMsgs \in Nat
                          /\ Overtake \in BOOLEAN

VARIABLES fids,     \* each Fid
          nopen, fopen,        \* of each Dirtab
          holdq, readq, sendq, \* of the port's Dirtab
          rulesref, \* rulesref.ref
          opening,  \* of each fid: the mode it is past the rules' check with, or Nil
          inhand,   \* reads a proc has, and has not queued yet
          wait,     \* the client waits for the answer to a read
          reply,    \* the answer to the client's last read since it opened the port
          nmsg,     \* how many messages clients have begun to write
          half      \* of each client: the units of its message still to be written

queues == <<nopen, fopen, holdq, readq, sendq>>
client == <<wait, reply, nmsg, half>>
vars == <<fids, queues, rulesref, opening, inhand, client>>

(* as what a file may be opened; ORDWR, for the rules only, counts as OWRITE *)
Perm == [rules |-> {"OREAD", "OWRITE"}, send |-> {"OWRITE"}, port |-> {"OREAD"}]
NewFid == [busy |-> FALSE, open |-> FALSE, mode |-> "OREAD", dir |-> Nil,
           offset |-> 0, writebuf |-> <<>>]

Init == /\ fids = [f \in Fids |-> NewFid]
        /\ nopen = [d \in Files |-> 0] /\ fopen = [d \in Files |-> <<>>]
        /\ holdq = <<>> /\ readq = <<>> /\ sendq = <<>>
        /\ rulesref = 0
        /\ opening = [f \in Fids |-> Nil]
        /\ inhand = {}
        /\ wait = [f \in Fids |-> FALSE] /\ reply = [f \in Fids |-> <<>>]
        /\ nmsg = 0 /\ half = [f \in Fids |-> <<>>]

(* the client of f waits for no answer *)
Free(f) == ~wait[f] /\ opening[f] = Nil

-----------------------------------------------------------------------------
(* THE QUEUES *)

Least(i, j) == IF i < j THEN i ELSE j

(* one Sendreq: everybody who has the port open shall receive m *)
Sendreq(m, open) == [fid |-> open, nleft |-> Len(open), msg |-> m]

(* the message has been transferred when the units up to n have; broken: one more *)
ThroughLate(n, pack) == n > Len(pack)
Through(n, pack) == n >= Len(pack)

(* the first queued read of the fid in entry i of send s is answered *)
Exchange(q, s, i) ==
    LET f == q.sendq[s].fid[i]
        Reads == {k \in 1 .. Len(q.readq) : q.readq[k].fid = f}
        k == CHOOSE k \in Reads : \A j \in Reads : k <= j
        off == q.fids[f].offset
        pack == q.sendq[s].msg
        n == Least(Len(pack) - off, q.readq[k].count)
        done == Through(off + n, pack)
        tag == q.readq[k].tag
    IN IF f = Nil \/ Reads = {} THEN q
       ELSE [sendq |-> IF done THEN [q.sendq EXCEPT ![s].fid[i] = Nil, ![s].nleft = @ - 1]
                       ELSE q.sendq,
             readq |-> RemoveAt(q.readq, k),
             fids |-> [q.fids EXCEPT ![f].offset = IF done THEN 0 ELSE off + n],
             wait |-> IF tag = Nil THEN q.wait ELSE [q.wait EXCEPT ![tag] = FALSE],
             reply |-> IF tag = Nil THEN q.reply
                       ELSE [q.reply EXCEPT ![tag] = SubSeq(pack, off + 1, off + n)]]

Upto(n) == [k \in 1 .. n |-> k]

(* the entries of send s, in their order *)
ExchangeAll(q, s) ==
    FoldLeft(LAMBDA p, i : Exchange(p, s, i), q, Upto(Len(q.sendq[s].fid)))

(* a send that has no fids left is deleted from the queue *)
Left(sq) == FoldLeft(LAMBDA kept, x : IF x.nleft = 0 THEN kept ELSE Append(kept, x), <<>>, sq)

(* drainqueue: sends in their order *)
Drained(fd, sq, rq) ==
    LET Q == [sendq |-> sq, readq |-> rq, fids |-> fd, wait |-> wait, reply |-> reply]
    IN [FoldLeft(ExchangeAll, Q, Upto(Len(sq))) EXCEPT !.sendq = Left(@)]

Drain(fd, sq, rq) ==
    LET q == Drained(fd, sq, rq)
    IN /\ sendq' = q.sendq /\ readq' = q.readq
       /\ fids' = q.fids /\ wait' = q.wait /\ reply' = q.reply

(* removesenders: what is queued for f is dropped; broken: it is not *)
WithoutNone(f) == sendq
Without(f) ==
    LET Drop(s) == LET I == {i \in 1 .. Len(s.fid) : s.fid[i] = f}
                       i == CHOOSE i \in I : \A j \in I : i <= j
                   IN IF I = {} THEN s ELSE [s EXCEPT !.fid[i] = Nil, !.nleft = @ - 1]
    IN Left([k \in 1 .. Len(sendq) |-> Drop(sendq[k])])

(* flushqueue; broken: it finds nothing *)
FlushedNone(f) == readq
Flushed(f) == LET Tagged == {k \in 1 .. Len(readq) : readq[k].tag = f}
              IN RemoveAt(readq, CHOOSE k \in Tagged : \A j \in Tagged : k <= j)

-----------------------------------------------------------------------------
(* THE HANDLERS *)

(* Tclone and Twalk: the client's fid names a file *)
Walk(f, d) ==
    /\ Free(f) /\ ~fids[f].busy
    /\ fids' = [fids EXCEPT ![f].busy = TRUE, ![f].open = FALSE, ![f].dir = d]
    /\ UNCHANGED <<queues, rulesref, opening, inhand, client>>

(* Topen, up to the queue lock; one who may not write the rules is refused *)
OpenCheck(f, m) ==
    LET d == fids[f].dir
        writes == d = "rules" /\ m = "OWRITE"
    IN /\ Free(f) /\ fids[f].busy /\ ~fids[f].open
       /\ m \in Perm[d]
       /\ writes => rulesref = 0
       /\ rulesref' = IF writes THEN rulesref + 1 ELSE rulesref
       /\ opening' = [opening EXCEPT ![f] = m]
       /\ UNCHANGED <<fids, queues, inhand, client>>

(* the rest of Topen, with queueheld *)
Open(f) ==
    LET d == fids[f].dir
        open == <<f>> \o fopen[d]
    IN /\ opening[f] # Nil
       /\ opening' = [opening EXCEPT ![f] = Nil]
       /\ fids' = [fids EXCEPT ![f].mode = opening[f], ![f].open = TRUE]
       /\ nopen' = [nopen EXCEPT ![d] = @ + 1]
       /\ fopen' = [fopen EXCEPT ![d] = open]
       /\ IF d = "port"
            THEN /\ sendq' = sendq \o [k \in 1 .. Len(holdq) |-> Sendreq(holdq[k], open)]
                 /\ holdq' = <<>>
            ELSE UNCHANGED <<sendq, holdq>>
       /\ UNCHANGED <<readq, rulesref, inhand, client>>

(* a Tread of the port comes in: a proc has it in hand *)
Read(f, n) ==
    /\ Free(f) /\ fids[f].open /\ fids[f].dir = "port"
    /\ inhand' = inhand \cup {[fid |-> f, tag |-> f, count |-> n]}
    /\ wait' = [wait EXCEPT ![f] = TRUE]
    /\ UNCHANGED <<fids, queues, rulesref, opening, reply, nmsg, half>>

(* queueread and drainqueue; a fid that has come to name another file by now  *)
(* is not a port to read from                                                 *)
Queue(r) ==
    /\ inhand' = inhand \ {r}
    /\ IF fids[r.fid].dir = "port" THEN Drain(fids, sendq, <<r>> \o readq)
       ELSE UNCHANGED <<sendq, readq, fids, wait, reply>>
    /\ UNCHANGED <<nopen, fopen, holdq, rulesref, opening, nmsg, half>>

(* Tflush. The answer ends the read for the client, also when flushqueue has  *)
(* not found it because the proc that has it is slower                        *)
Flush(f) ==
    LET slow == {r \in inhand : r.tag = f}
    IN /\ wait[f]
       /\ IF slow # {}
            THEN /\ Overtake
                 /\ \A r \in inhand : r.fid = f => r.tag = f  \* bound: one late read
                 /\ inhand' = (inhand \ slow) \cup {[r EXCEPT !.tag = Nil] : r \in slow}
                 /\ UNCHANGED readq
            ELSE readq' = Flushed(f) /\ UNCHANGED inhand
       /\ wait' = [wait EXCEPT ![f] = FALSE]
       /\ UNCHANGED <<fids, nopen, fopen, holdq, sendq, rulesref, opening, reply, nmsg, half>>

(* plumbunpackpartial: what the units written so far amount to *)
Unpack(u) == IF u[1][2] # 1 \/ Len(u) > Size THEN "bad"
             ELSE IF Len(u) < Size THEN "more" ELSE "message"

(* queuesend and drainqueue; broken: the reads that wait are forgotten *)
PostUndrained(fd, m) == /\ sendq' = Append(sendq, Sendreq(m, fopen["port"]))
                        /\ fids' = fd /\ UNCHANGED <<readq, wait, reply>>
Post(fd, m) == Drain(fd, Append(sendq, Sendreq(m, fopen["port"])), readq)

(* dispose of a message for the port; h: the rule says to start a client and  *)
(* to hold the message for it                                                 *)
Dispose(m, h, fd) ==
    IF nopen["port"] = 0
      THEN /\ holdq' = IF h THEN Append(holdq, m) ELSE holdq
           /\ fids' = fd
           /\ UNCHANGED <<sendq, readq, wait, reply>>
      ELSE Post(fd, m) /\ UNCHANGED holdq

(* Twrite to "send"; port: a rule or the message names the port *)
Twrite(f, u, port, h) ==
    LET all == IF fids[f].offset = 0 THEN u ELSE SubSeq(fids[f].writebuf, 1, fids[f].offset) \o u
        clean == [fids EXCEPT ![f].offset = 0, ![f].writebuf = <<>>]
    IN CASE Unpack(all) = "more" ->
              /\ fids' = [fids EXCEPT ![f].offset = @ + Len(u), ![f].writebuf = all]
              /\ UNCHANGED <<holdq, sendq, readq, wait, reply>>
         [] Unpack(all) = "message" /\ port -> Dispose(all, h, clean)
         [] OTHER -> fids' = clean /\ UNCHANGED <<holdq, sendq, readq, wait, reply>>

Units(id) == [k \in 1 .. Size |-> <<id, k>>]

(* a client goes on with its message, or begins another one: a new one in any *)
(* portions, and if it had not finished the last in one portion               *)
Portions(f) ==
    LET Starts(u) == {SubSeq(u, 1, k) : k \in 1 .. Len(u)}
        new == Units(nmsg + 1)
    IN {[u |-> p, rest |-> SubSeq(half[f], Len(p) + 1, Len(half[f])), n |-> nmsg]
          : p \in Starts(half[f])}
       \cup IF nmsg = MaxMsgs THEN {}
            ELSE {[u |-> p, rest |-> SubSeq(new, Len(p) + 1, Size), n |-> nmsg + 1]
                    : p \in IF half[f] = <<>> THEN Starts(new) ELSE {new}}

Write(f) ==
    /\ Free(f) /\ fids[f].open /\ fids[f].dir = "send"
    /\ \E w \in Portions(f), port \in BOOLEAN, h \in BOOLEAN :
         /\ Twrite(f, w.u, port, h)
         /\ half' = [half EXCEPT ![f] = w.rest] /\ nmsg' = w.n
    /\ UNCHANGED <<nopen, fopen, rulesref, opening, inhand>>

(* closing f gives back the rules; broken: also one that only reads them *)
GivesBackAny(f) == fids[f].dir = "rules"
GivesBack(f) == fids[f].dir = "rules" /\ fids[f].mode = "OWRITE"

(* the Fid after Tclunk; broken: what it has read or written in part stays *)
ShutKeeps(f) == [fids[f] EXCEPT !.busy = FALSE, !.open = FALSE]
Shut(f) == [fids[f] EXCEPT !.busy = FALSE, !.open = FALSE, !.offset = 0, !.writebuf = <<>>]

(* Tclunk *)
Clunk(f) ==
    LET d == fids[f].dir
    IN /\ Free(f) /\ fids[f].busy
       /\ IF fids[f].open
            THEN /\ nopen' = [nopen EXCEPT ![d] = @ - 1]
                 /\ fopen' = [fopen EXCEPT ![d] = RemoveAt(@, CHOOSE k \in 1 .. Len(@) : @[k] = f)]
                 /\ sendq' = IF d = "port" THEN Without(f) ELSE sendq
                 /\ rulesref' = IF GivesBack(f) THEN rulesref - 1 ELSE rulesref
            ELSE UNCHANGED <<nopen, fopen, sendq, rulesref>>
       /\ fids' = [fids EXCEPT ![f] = Shut(f)]
       /\ half' = [half EXCEPT ![f] = <<>>] /\ reply' = [reply EXCEPT ![f] = <<>>]
       /\ UNCHANGED <<holdq, readq, opening, inhand, wait, nmsg>>

Next == \/ \E f \in Fids : \/ \E d \in Files : Walk(f, d)
                           \/ \E m \in {"OREAD", "OWRITE"} : OpenCheck(f, m)
                           \/ \E n \in 1 .. Size : Read(f, n)
                           \/ Open(f) \/ Flush(f) \/ Write(f) \/ Clunk(f)
        \/ \E r \in inhand : Queue(r)

Spec == Init /\ [][Next]_vars

-----------------------------------------------------------------------------
(* PROPERTIES *)

Symmetry == Permutations(Fids)

Reading(f) == {k \in 1 .. Len(readq) : readq[k].fid = f}
OpenOn(d) == {f \in Fids : fids[f].open /\ fids[f].dir = d}
Awaits(x, f) == \E i \in 1 .. Len(x.fid) : x.fid[i] = f

Message == {Units(id) : id \in 1 .. MaxMsgs}
TypeOK ==
    /\ fids \in [Fids -> [busy : BOOLEAN, open : BOOLEAN, mode : {"OREAD", "OWRITE"},
                         dir : Files \cup {Nil}, offset : 0 .. Size - 1,
                         writebuf : {<<>>} \cup {SubSeq(m, 1, k) : m \in Message, k \in 1 .. Size - 1}]]
    /\ nopen \in [Files -> 0 .. Cardinality(Fids)]
    /\ \A d \in Files : fopen[d] \in Seq(Fids)
    /\ holdq \in Seq(Message)
    /\ readq \in Seq([fid : Fids, tag : Fids \cup {Nil}, count : 1 .. Size])
    /\ \A k \in 1 .. Len(sendq) : /\ sendq[k].msg \in Message
                                 /\ sendq[k].fid \in Seq(Fids \cup {Nil})
                                 /\ sendq[k].nleft \in 1 .. Cardinality(Fids)
    /\ rulesref \in 0 .. Cardinality(Fids)
    /\ opening \in [Fids -> {"OREAD", "OWRITE", Nil}]
    /\ inhand \subseteq [fid : Fids, tag : Fids \cup {Nil}, count : 1 .. Size]
    /\ wait \in [Fids -> BOOLEAN]
    /\ nmsg \in 0 .. MaxMsgs

(* The counts and the lists of fsys.c tell the same: nopen counts the list of *)
(* those who have the file open, a message still goes to as many as nleft     *)
(* says, and they are fids that have the port open, each once.                *)
QueuesAgree ==
    /\ \A d \in Files : /\ nopen[d] = Len(fopen[d])
                        /\ IsInjective(fopen[d])
                        /\ ToSet(fopen[d]) = OpenOn(d)
    /\ \A k \in 1 .. Len(sendq) :
         LET I == {i \in 1 .. Len(sendq[k].fid) : sendq[k].fid[i] # Nil}
         IN /\ sendq[k].nleft = Cardinality(I)
            /\ {sendq[k].fid[i] : i \in I} \subseteq OpenOn("port")
            /\ Cardinality({sendq[k].fid[i] : i \in I}) = Cardinality(I)

(* No read waits in the queue while a message for its fid does, and a queued  *)
(* read is the one its client waits for (drainqueue looks at the sends in     *)
(* their order and stops at the first read of a fid, fsys.c:374).             *)
NoVainWait ==
    \A k \in 1 .. Len(readq) :
       /\ \A s \in 1 .. Len(sendq) : ~Awaits(sendq[s], readq[k].fid)
       /\ readq[k].tag = readq[k].fid /\ wait[readq[k].fid]

(* "no need to drain queue because we know no-one is reading yet"             *)
(* (fsys.c:515): as long as messages are held nobody reads the port.          *)
NobodyReadsYet == holdq # <<>> => fopen["port"] = <<>> /\ readq = <<>>

Writers == {f \in OpenOn("rules") : fids[f].mode = "OWRITE"}
Past == {f \in Fids : opening[f] = "OWRITE" /\ fids[f].dir = "rules"}

(* One client at a time has the rules open for writing (fsys.c:691), and the  *)
(* count is given back by that client alone, whatever else is closed.         *)
RulesHeld == rulesref = Cardinality(Writers) + Cardinality(Past) /\ rulesref <= 1

(* The port of fsys.c, with its one queue of messages, each with the fids     *)
(* that have not had it, is a mailbox for each reader.                        *)
Subscribers == OpenOn("port")
Mail(sq, f) == FoldLeft(LAMBDA b, x : IF Awaits(x, f) THEN Append(b, x.msg) ELSE b,
                        <<>>, sq)
box == [f \in Fids |-> Mail(sendq, f)]
taken == [f \in Fids |-> IF f \in Subscribers THEN fids[f].offset ELSE 0]
want == [f \in Fids |-> IF Reading(f) = {} THEN 0
                        ELSE readq[CHOOSE k \in Reading(f) : TRUE].count]
Port == INSTANCE PlumbPort WITH Reader <- Fids, sub <- Subscribers, held <- holdq
ImplementsPort == Port!Spec
=============================================================================

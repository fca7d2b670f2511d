------------------------------ MODULE MCChannel ------------------------------
(* Instances of Channel: who uses which channel, and with which alt lists.    *)
EXTENDS Channel

CONSTANTS p, q, r,  \* threads
          un, bu    \* channels: unbuffered, buffered

MCThread == {p, q, r}
MCChan == {un, bu}

snd(x) == [op |-> "SND", c |-> x]
rcv(x) == [op |-> "RCV", c |-> x]
nop(x) == [op |-> "NOP", c |-> x]
noblk(x) == [op |-> "NOBLK", c |-> x]

(* An unbuffered channel un that everybody uses, and a buffered channel bu    *)
(* from p to r.                                                               *)
MixedSize == un :> 0 @@ bu :> 2
MixedMax == p :> 4 @@ q :> 1 @@ r :> 0
MixedSends == {<<p, un>>, <<q, un>>, <<p, bu>>}
MixedRecvs == {<<r, un>>, <<r, bu>>}
MixedAlts == {<<p, <<snd(bu), rcv(un)>>>>, <<p, <<snd(un), snd(bu), noblk(un)>>>>,
              <<q, <<nop(un), rcv(un)>>>>, <<r, <<rcv(un), rcv(bu)>>>>}

(* Two senders and one receiver on the buffered channel bu. *)
TwoSendersSize == un :> 0 @@ bu :> 1
TwoSendersMax == p :> 2 @@ q :> 1 @@ r :> 0
TwoSendersSends == {<<p, bu>>, <<q, bu>>}
TwoSendersRecvs == {<<r, bu>>}
NoAlts == {}

(* Two receivers on bu, and a sender that uses alt as well as send. *)
AltFullMax == p :> 3 @@ q :> 0 @@ r :> 0
AltFullSends == {<<p, bu>>}
AltFullRecvs == {<<q, bu>>, <<r, bu>>}
AltFullAlts == {<<p, <<snd(bu)>>>>}
=============================================================================

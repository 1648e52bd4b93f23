---------------------------- MODULE LossyChannel ----------------------------
(***************************************************************************)
(* What a netlink socket promises the program that reads it: the kernel    *)
(* sends messages 1, 2, 3, ... ; a message may be lost, at once or while   *)
(* it waits (the socket asks for NETLINK_RECV_NO_ENOBUFS, so the reader is *)
(* not told); a message that is not lost is delivered once, in the order   *)
(* it was sent.                                                            *)
(***************************************************************************)
EXTENDS Naturals, Sequences, SequencesExt

CONSTANT MaxMsgs        \* bound: how many messages are ever sent

VARIABLES sent,         \* the number of the last message sent
          chan,         \* the messages in flight, oldest first
          delivered     \* what the reader got, oldest first

vars == <<sent, chan, delivered>>

Init == sent = 0 /\ chan = <<>> /\ delivered = <<>>

Send == /\ sent < MaxMsgs
        /\ sent' = sent + 1
        /\ chan' = Append(chan, sent + 1)
        /\ UNCHANGED delivered

SendLost == /\ sent < MaxMsgs
            /\ sent' = sent + 1
            /\ UNCHANGED <<chan, delivered>>

Lose == /\ \E i \in DOMAIN chan : chan' = RemoveAt(chan, i)
        /\ UNCHANGED <<sent, delivered>>

Recv == /\ chan # <<>>
        /\ delivered' = Append(delivered, Head(chan))
        /\ chan' = Tail(chan)
        /\ UNCHANGED sent

Next == Send \/ SendLost \/ Lose \/ Recv

Spec == Init /\ [][Next]_vars
=============================================================================

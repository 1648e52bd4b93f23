------------------------------- MODULE RxRing -------------------------------
(***************************************************************************)
(* The receive side of one netlink socket of libdpif (nl.c): the ring of   *)
(* frames shared with the kernel (option -M of hub), or, when use_mmap is  *)
(* 0, recv() into the next frame of an anonymous mapping of the same       *)
(* shape.  The reader is the body of the loop that nl_dispatch (nl.c) and  *)
(* odp_loop (odp.c) share: take the next frame, wait for it, receive,      *)
(* parse, release.  The kernel side is external; it does what the frame    *)
(* states the code distinguishes stand for.                                *)
(*                                                                         *)
(* A message is its number: the kernel sends 1, 2, 3, ...; 0 is the empty  *)
(* frame (nm_len = 0).                                                     *)
(***************************************************************************)
EXTENDS Naturals, Sequences, FiniteSets

CONSTANTS FrameNr,      \* nm_frame_nr: frames of the ring
          Sockets,      \* sockets as nl_init leaves them: nl->use_mmap, and
                        \* rcvbuf, how many messages the kernel queues
          MaxMsgs,      \* bound: messages the kernel sends
          MaxFaults     \* bound: failures of poll() and recv()

ASSUME FrameNrAssumption   == FrameNr \in Nat \ {0}
ASSUME SocketsAssumption   == Sockets \subseteq [use_mmap : BOOLEAN, rcvbuf : Nat]
ASSUME MaxMsgsAssumption   == MaxMsgs \in Nat
ASSUME MaxFaultsAssumption == MaxFaults \in Nat

VARIABLES sock,         \* the socket
          status,       \* nm_status of each frame
          content,      \* the message in each frame's data
          offset,       \* nl->rx_ring.offset, counted in frames
          cur,          \* the frame the reader's buffer stands on
          pc,           \* where the reader is in its loop
          got,          \* the message nl_recv returned, 0 if none
          head,         \* the kernel's next frame
          skq,          \* the socket's receive queue
          sent,         \* the number of the last message sent
          delivered,    \* history: messages given to nl_parse, in order
          dropped,      \* history: messages the kernel threw away
          lost,         \* history: messages released without being parsed
          faults        \* failures so far

readerVars  == <<offset, cur, pc, got>>
historyVars == <<delivered, dropped, lost>>
vars == <<sock, status, content, readerVars, head, skq, sent, historyVars, faults>>

Frames   == 0 .. FrameNr - 1
Messages == 1 .. MaxMsgs
Status   == {"unused", "reserved", "valid", "copy"}

NextFrame(f) == (f + 1) % FrameNr

Seen == {delivered[i] : i \in DOMAIN delivered}

Init ==
  /\ sock      \in Sockets
  /\ status    = [f \in Frames |-> "unused"]
  /\ content   = [f \in Frames |-> 0]
  /\ offset    = 0
  /\ cur       = 0
  /\ pc        = "init"
  /\ got       = 0
  /\ head      = 0
  /\ skq       = <<>>
  /\ sent      = 0
  /\ delivered = <<>>
  /\ dropped   = {}
  /\ lost      = {}
  /\ faults    = 0

-----------------------------------------------------------------------------
(* The reader *)

\* nl_frame_init: stand on the frame at the ring's offset, and advance the
\* offset now, whatever becomes of the frame.
TakeFrame(next, wait) ==
  /\ pc = "init"
  /\ cur'    = offset
  /\ offset' = next
  /\ got'    = 0
  /\ pc'     = wait
  /\ UNCHANGED <<sock, status, content, head, skq, sent, historyVars, faults>>

WaitFor == IF sock.use_mmap THEN "poll" ELSE "recv"

FrameInitSkips ==                                      \* mutant of FrameInit
  TakeFrame(NextFrame(NextFrame(offset)), WaitFor)
FrameInit == TakeFrame(NextFrame(offset), WaitFor)

\* nl_pollin: the frame is ready, VALID or COPY.
PollFor(ready) ==
  /\ pc = "poll"
  /\ status[cur] \in ready
  /\ pc' = "recv"
  /\ UNCHANGED <<sock, status, content, offset, cur, got, head, skq, sent,
                 historyVars, faults>>

PollInValid == PollFor({"valid"})                         \* mutant of PollIn
PollIn == PollFor({"valid", "copy"})

\* nl_pollin: the frame is not ready yet, and poll() fails, reports POLLERR
\* or returns without POLLIN. nl_recv returns -1; the loop goes to "next".
PollFail ==
  /\ pc = "poll"
  /\ status[cur] \in {"unused", "reserved"}
  /\ faults < MaxFaults
  /\ faults' = faults + 1
  /\ pc' = "release"
  /\ UNCHANGED <<sock, status, content, offset, cur, got, head, skq, sent,
                 historyVars>>

\* nl_recv, VALID frame: the message is parsed where it lies. A frame of
\* length 0 makes nl_recv return 0: nothing to parse, the loop goes on.
RecvFrame(left) ==
  /\ pc = "recv"
  /\ status[cur] = "valid"
  /\ status' = left
  /\ got' = content[cur]
  /\ pc'  = IF content[cur] = 0 THEN "release" ELSE "parse"
  /\ UNCHANGED <<sock, content, offset, cur, head, skq, sent, historyVars, faults>>

RecvValidReleases == RecvFrame([status EXCEPT ![cur] = "unused"])  \* mutant
RecvValid == RecvFrame(status)                                     \* of this

Copying == ~ sock.use_mmap \/ status[cur] = "copy"

\* nl_recv, COPY frame or no ring: recv() moves the oldest queued message
\* into the frame's data.
RecvInto(frame, left) ==
  /\ pc = "recv"
  /\ Copying
  /\ skq # <<>>
  /\ content' = [content EXCEPT ![frame] = Head(skq)]
  /\ got'     = Head(skq)
  /\ skq'     = left
  /\ pc'      = "parse"
  /\ UNCHANGED <<sock, status, offset, cur, head, sent, historyVars, faults>>

RecvCopyFlushes == RecvInto(cur, <<>>)                  \* mutant of RecvCopy
RecvCopy == RecvInto(cur, Tail(skq))

\* nl_recv: recv() fails; the message stays in the queue.
RecvFail ==
  /\ pc = "recv"
  /\ Copying
  /\ faults < MaxFaults
  /\ faults' = faults + 1
  /\ pc' = "release"
  /\ UNCHANGED <<sock, status, content, offset, cur, got, head, skq, sent,
                 historyVars>>

\* nl_parse and the handlers read the message in the frame itself, and keep
\* pointers into it until they return.
Parse ==
  /\ pc = "parse"
  /\ delivered' = Append(delivered, content[cur])
  /\ pc' = "release"
  /\ UNCHANGED <<sock, status, content, offset, cur, got, head, skq, sent, dropped,
                 lost, faults>>

\* nl_frame_release: a VALID or COPY frame goes back to the kernel, any
\* other is left alone. After a failed poll the frame may have become VALID
\* in the meantime: its message goes back unparsed.
ReleaseIn(ready) ==
  /\ pc = "release"
  /\ status' = IF status[cur] \in ready
               THEN [status EXCEPT ![cur] = "unused"]
               ELSE status
  /\ lost' = IF status[cur] = "valid" /\ content[cur] # got
             THEN (lost \cup {content[cur]}) \ {0}
             ELSE lost
  /\ pc' = "init"
  /\ UNCHANGED <<sock, content, offset, cur, got, head, skq, sent, delivered,
                 dropped, faults>>

ReleaseCopy == ReleaseIn({"copy"})                                   \* mutants
ReleaseAll  == ReleaseIn(Status)                                     \* of Release
Release == ReleaseIn({"valid", "copy"})

Reader == \/ FrameInit \/ PollIn \/ PollFail \/ RecvValid \/ RecvCopy
          \/ RecvFail \/ Parse \/ Release

-----------------------------------------------------------------------------
(* The kernel *)

HeadFree == status[head] = "unused"

\* Take the frame at the head to write a message in place.
KReserve ==
  /\ sock.use_mmap
  /\ sent < MaxMsgs
  /\ HeadFree
  /\ status'  = [status EXCEPT ![head] = "reserved"]
  /\ content' = [content EXCEPT ![head] = sent + 1]
  /\ head'    = NextFrame(head)
  /\ sent'    = sent + 1
  /\ UNCHANGED <<sock, readerVars, skq, historyVars, faults>>

\* Hand over a written frame. Frames are reserved in order, but several
\* senders may finish in any order.
KCommit(f) ==
  /\ status[f] = "reserved"
  /\ status' = [status EXCEPT ![f] = "valid"]
  /\ UNCHANGED <<sock, content, readerVars, head, skq, sent, historyVars, faults>>

\* Give up on a reserved frame: it is handed over with length 0.
KAbort(f) ==
  /\ status[f] = "reserved"
  /\ status'  = [status EXCEPT ![f] = "valid"]
  /\ content' = [content EXCEPT ![f] = 0]
  /\ dropped' = dropped \cup {content[f]}
  /\ UNCHANGED <<sock, readerVars, head, skq, sent, delivered, lost, faults>>

QueueFull == Len(skq) >= sock.rcvbuf

\* A message that was not built in a frame (too large, or broadcast): the
\* frame says COPY, the message waits in the socket's queue.
KCopy ==
  /\ sock.use_mmap
  /\ sent < MaxMsgs
  /\ HeadFree /\ ~ QueueFull
  /\ status' = [status EXCEPT ![head] = "copy"]
  /\ skq'    = Append(skq, sent + 1)
  /\ head'   = NextFrame(head)
  /\ sent'   = sent + 1
  /\ UNCHANGED <<sock, content, readerVars, historyVars, faults>>

\* The same without a ring.
KQueue ==
  /\ ~ sock.use_mmap
  /\ sent < MaxMsgs
  /\ ~ QueueFull
  /\ skq'  = Append(skq, sent + 1)
  /\ sent' = sent + 1
  /\ UNCHANGED <<sock, status, content, readerVars, head, historyVars, faults>>

\* No room: the message is thrown away and, the socket having asked for
\* NETLINK_RECV_NO_ENOBUFS, nobody is told.
KDrop ==
  /\ sent < MaxMsgs
  /\ QueueFull \/ (sock.use_mmap /\ ~ HeadFree)
  /\ sent'    = sent + 1
  /\ dropped' = dropped \cup {sent + 1}
  /\ UNCHANGED <<sock, status, content, readerVars, head, skq, delivered, lost,
                 faults>>

Kernel == \/ KReserve \/ KCopy \/ KQueue \/ KDrop
          \/ \E f \in Frames : KCommit(f) \/ KAbort(f)

Next == Reader \/ Kernel

Spec == Init /\ [][Next]_vars

\* The reader's loop goes on (nl_dispatch is waiting for an answer, odp_loop
\* never stops by itself), and a sender in the kernel finishes its frame.
Fairness ==
  /\ WF_vars(FrameInit) /\ WF_vars(PollIn) /\ WF_vars(RecvValid)
  /\ WF_vars(RecvCopy)  /\ WF_vars(Parse)  /\ WF_vars(Release)
  /\ \A f \in Frames : WF_vars(KCommit(f) \/ KAbort(f))

FairSpec == Spec /\ Fairness

-----------------------------------------------------------------------------
(* Properties *)

\* Every variable keeps its range; in particular the offset and the kernel's
\* head stay inside the ring.
TypeOK ==
  /\ sock      \in Sockets
  /\ status    \in [Frames -> Status]
  /\ content   \in [Frames -> 0 .. MaxMsgs]
  /\ offset    \in Frames
  /\ cur       \in Frames
  /\ pc        \in {"init", "poll", "recv", "parse", "release"}
  /\ got       \in 0 .. MaxMsgs
  /\ head      \in Frames
  /\ skq       \in Seq(Messages)
  /\ sent      \in 0 .. MaxMsgs
  /\ delivered \in Seq(0 .. MaxMsgs)
  /\ dropped   \subseteq Messages
  /\ lost      \subseteq Messages
  /\ faults    \in 0 .. MaxFaults

\* While the handlers hold pointers into a frame, the frame is theirs (VALID
\* or COPY: the kernel takes only UNUSED frames) and its data is still the
\* message nl_recv returned: the zero-copy parsing of nl_parse, of packet_key
\* and packet_frame rests on it.
FrameStable ==
  pc = "parse" =>
    /\ got # 0
    /\ content[cur] = got
    /\ sock.use_mmap => status[cur] \in {"valid", "copy"}

\* Frames whose message the reader has yet to parse or to give up.
Pending == {f \in Frames :
              /\ status[f] \in {"reserved", "valid"}
              /\ ~ (f = cur /\ pc = "release" /\ content[f] = got)}

\* The messages that wait: in a frame, in the queue, or in the reader's hand.
Waiting == ({content[f] : f \in Pending} \cup {skq[i] : i \in DOMAIN skq}
              \cup (IF pc = "parse" THEN {got} ELSE {})) \ {0}

\* Every message sent is in exactly one place, also after failures of poll()
\* and recv(): parsed, once, thrown away by the kernel, released unparsed, or
\* still waiting. None disappears between the frames and the queue, and none
\* comes back in a frame that went round the ring unreleased.
Accounted ==
  /\ Cardinality(Seen) = Len(delivered)
  /\ Seen \cup dropped \cup lost \cup Waiting = 1 .. sent
  /\ Seen \cap dropped = {} /\ Seen \cap lost = {} /\ dropped \cap lost = {}
  /\ Waiting \cap (Seen \cup dropped \cup lost) = {}

\* A COPY frame never makes recv() block: its message, or an older one that
\* a failed recv() left behind, is in the queue.
RecvReady ==
  sock.use_mmap => Cardinality({f \in Frames : status[f] = "copy"})
               <= Len(skq)
                    + (IF pc \in {"parse", "release"} /\ got # 0 THEN 1 ELSE 0)

\* A failed poll makes the reader skip a frame that it comes back to a round
\* later. Where every message is built in its frame, a message is still
\* overtaken by fewer messages than the ring has frames.
Overtaken == sock.rcvbuf = 0 => \A j \in DOMAIN delivered :
  Cardinality({i \in 1 .. j - 1 : delivered[i] > delivered[j]}) < FrameNr

\* Without failures the reader waits on the very frame the kernel fills next
\* or has filled first: it never sits on an empty frame while another one
\* holds a message, and releases no message unparsed.
Lockstep == faults = 0 =>
  /\ lost = {}
  /\ pc = "poll" /\ status[cur] = "unused" =>
        \A f \in Frames : status[f] = "unused"

\* A message that reaches a frame or the queue is parsed in the end, or the
\* kernel gives it up.
Delivery == \A m \in Messages :
  (m <= sent) ~> (m \in Seen \cup dropped)

\* The channel of the abstract specification: what waits, oldest first.
InFlight == LET w == Waiting IN
  [i \in 1 .. Cardinality(w) |->
     CHOOSE m \in w : Cardinality({n \in w : n <= m}) = i]

Channel == INSTANCE LossyChannel WITH chan <- InFlight

\* Without failures the socket is a channel that may lose messages but never
\* reorders or repeats one.
IsChannel == Channel!Spec
=============================================================================

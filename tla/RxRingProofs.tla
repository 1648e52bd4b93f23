---------------------------- MODULE RxRingProofs ----------------------------
(***************************************************************************)
(* What holds of the receive ring for every size of ring and queue, every  *)
(* number of messages and of failures.                                     *)
(***************************************************************************)
EXTENDS RxRing, FiniteSetTheorems, SequenceTheorems, TLAPS

\* A reserved frame has a message being written in it; between nl_pollin and
\* the switch of nl_recv the frame stays ready; without a ring the frames'
\* status is never set.
FramesOwned ==
  /\ \A f \in Frames : status[f] = "reserved" => content[f] # 0
  /\ pc = "recv" /\ sock.use_mmap => status[cur] \in {"valid", "copy"}
  /\ ~ sock.use_mmap => \A f \in Frames : status[f] = "unused"

IInv == TypeOK /\ FramesOwned /\ FrameStable

\* A ring's cursor stays in the ring: what advancing the offset relies on.
LEMMA NextFrameInRing == ASSUME NEW f \in Frames PROVE NextFrame(f) \in Frames
  BY FrameNrAssumption DEF Frames, NextFrame

\* A frame that is not empty holds a message.
LEMMA NonEmptyContent == ASSUME NEW m \in 0 .. MaxMsgs, m # 0
                         PROVE m \in Messages
  BY MaxMsgsAssumption DEF Messages

\* IInv holds at the start: every frame is unused.
LEMMA InvInit == Init => IInv
  BY FrameNrAssumption, MaxMsgsAssumption, MaxFaultsAssumption
     DEF Init, IInv, TypeOK, FramesOwned, FrameStable, Frames, Status

\* No step of reader or kernel breaks IInv: the kernel writes only frames that
\* are unused or reserved, and the reader gives its frame back only after the
\* handlers are done.
LEMMA InvStep == IInv /\ [Next]_vars => IInv'
<1> SUFFICES ASSUME IInv, [Next]_vars PROVE IInv'
  OBVIOUS
<1> USE MaxMsgsAssumption, MaxFaultsAssumption, SocketsAssumption
    DEF IInv, TypeOK, FramesOwned, FrameStable, historyVars, readerVars
<1>1. CASE FrameInit
  BY <1>1, NextFrameInRing DEF FrameInit, TakeFrame, WaitFor
<1>2. CASE PollIn
  BY <1>2 DEF PollIn, PollFor
<1>3. CASE PollFail
  BY <1>3 DEF PollFail
<1>4. CASE RecvValid
  BY <1>4 DEF RecvValid, RecvFrame
<1>5. CASE RecvCopy
  <2>1. Head(skq) \in Messages /\ Tail(skq) \in Seq(Messages)
    BY <1>5 DEF RecvCopy, RecvInto
  <2> QED
    BY <1>5, <2>1 DEF RecvCopy, RecvInto, Copying, Messages
<1>6. CASE RecvFail
  BY <1>6 DEF RecvFail
<1>7. CASE Parse
  BY <1>7 DEF Parse
<1>8. CASE Release
  <2>1. lost' \subseteq Messages
    BY <1>8, NonEmptyContent DEF Release, ReleaseIn
  <2>2. status' \in [Frames -> Status]
    BY <1>8 DEF Release, ReleaseIn, Status
  <2>3. \A f \in Frames : status'[f] \in {status[f], "unused"}
    BY <1>8 DEF Release, ReleaseIn, Status
  <2> QED
    BY <1>8, <2>1, <2>2, <2>3 DEF Release, ReleaseIn
<1>9. CASE KReserve
  BY <1>9, NextFrameInRing DEF KReserve, HeadFree, Status
<1>10. CASE KCopy
  BY <1>10, NextFrameInRing DEF KCopy, HeadFree, Status, Messages
<1>11. CASE KQueue
  BY <1>11 DEF KQueue, Messages
<1>12. CASE KDrop
  BY <1>12 DEF KDrop, Messages
<1>13. ASSUME NEW f \in Frames, KCommit(f) PROVE IInv'
  BY <1>13 DEF KCommit, Status
<1>14. ASSUME NEW f \in Frames, KAbort(f) PROVE IInv'
  <2>1. content[f] \in Messages
    BY <1>14, NonEmptyContent DEF KAbort
  <2>2. pc = "parse" => f # cur
    BY <1>14 DEF KAbort
  <2>3. status' \in [Frames -> Status] /\ content' \in [Frames -> 0 .. MaxMsgs]
    BY <1>14 DEF KAbort, Status
  <2>4. dropped' \subseteq Messages
    BY <1>14, <2>1 DEF KAbort
  <2> QED
    BY <1>14, <2>2, <2>3, <2>4 DEF KAbort
<1>15. CASE UNCHANGED vars
  BY <1>15 DEF vars
<1> QED
  BY <1>1, <1>2, <1>3, <1>4, <1>5, <1>6, <1>7, <1>8, <1>9, <1>10, <1>11,
     <1>12, <1>13, <1>14, <1>15 DEF Next, Reader, Kernel

\* IInv is an invariant.
THEOREM Invariance == Spec => []IInv
  BY InvInit, InvStep, PTL DEF Spec

\* Every variable keeps its range: the ring's offset and the kernel's head
\* never leave the ring.
THEOREM TypeCorrect == Spec => []TypeOK
<1>1. IInv => TypeOK
  BY DEF IInv
<1> QED
  BY <1>1, Invariance, PTL

\* Zero-copy parsing is safe: while a handler reads a frame, the frame is the
\* reader's and its data is the message nl_recv returned.
THEOREM FrameStability == Spec => []FrameStable
<1>1. IInv => FrameStable
  BY DEF IInv
<1> QED
  BY <1>1, Invariance, PTL

-----------------------------------------------------------------------------
(* Where the messages are *)

\* What nl_recv returned has been parsed when the loop comes to "next", and
\* the frame is the reader's until nl_frame_release.
Handed ==
  /\ pc \in {"poll", "recv"} => got = 0
  /\ pc = "release" /\ got # 0 =>
       /\ got \in Seen
       /\ content[cur] = got
       /\ sock.use_mmap => status[cur] \in {"valid", "copy"}

\* No message is there twice.
NoTwins ==
  /\ \A i, j \in DOMAIN delivered : delivered[i] = delivered[j] => i = j
  /\ \A i, j \in DOMAIN skq : skq[i] = skq[j] => i = j
  /\ \A f, g \in Pending : content[f] = content[g] /\ content[f] # 0 => f = g
  /\ \A f \in Pending, i \in DOMAIN skq : content[f] # skq[i]
  /\ pc = "parse" => /\ \A i \in DOMAIN skq : skq[i] # got
                     /\ \A f \in Pending : content[f] = got => f = cur

\* Every message sent is in one place.
OnePlace ==
  /\ Seen \cup dropped \cup lost \cup Waiting = 1 .. sent
  /\ Seen \cap dropped = {} /\ Seen \cap lost = {} /\ dropped \cap lost = {}
  /\ Waiting \cap (Seen \cup dropped \cup lost) = {}

PlaceInv == IInv /\ Handed /\ NoTwins /\ OnePlace

\* What it is to wait.
LEMMA WaitingIs ==
  ASSUME NEW m
  PROVE  m \in Waiting <=>
           /\ m # 0
           /\ \/ \E f \in Pending : content[f] = m
              \/ \E i \in DOMAIN skq : skq[i] = m
              \/ pc = "parse" /\ m = got
  BY DEF Waiting

\* The same of the next state.
LEMMA WaitingNext ==
  ASSUME NEW m
  PROVE  m \in Waiting' <=>
           /\ m # 0
           /\ \/ \E f \in Pending' : content'[f] = m
              \/ \E i \in DOMAIN skq' : skq'[i] = m
              \/ pc' = "parse" /\ m = got'
  BY DEF Waiting

\* Nothing has been sent at first.
LEMMA PlaceInit == Init => PlaceInv
<1> SUFFICES ASSUME Init PROVE PlaceInv
  OBVIOUS
<1>1. IInv
  BY InvInit
<1>2. Pending = {} /\ DOMAIN skq = {} /\ DOMAIN delivered = {} /\ Seen = {}
  BY DEF Init, Pending, Seen
<1>3. Waiting = {}
  BY <1>2 DEF Waiting, Init
<1>4. 1 .. sent = {}
  BY DEF Init
<1>5. Handed
  BY DEF Init, Handed
<1>6. NoTwins
  BY <1>2 DEF NoTwins, Init
<1>7. OnePlace
  BY <1>2, <1>3, <1>4 DEF OnePlace, Init
<1> QED
  BY <1>1, <1>5, <1>6, <1>7 DEF PlaceInv

\* A step of the reader that takes no message anywhere.
LEMMA IdleStep ==
  ASSUME PlaceInv, IInv', FrameInit \/ PollIn \/ PollFail \/ RecvFail
  PROVE  PlaceInv'
<1>1. /\ UNCHANGED <<status, content, skq, sent, delivered, dropped, lost>>
      /\ pc \notin {"parse", "release"} /\ pc' # "parse"
      /\ pc' = "release" => got' = 0 /\ cur' = cur
      /\ pc' \in {"poll", "recv"} => got' = 0
  BY DEF FrameInit, TakeFrame, PollIn, PollFor, PollFail, RecvFail, PlaceInv, Handed,
         WaitFor, historyVars
<1>2. Seen' = Seen
  BY <1>1 DEF Seen
<1>3. \A f \in Frames : f \in Pending' => f \in Pending
  BY <1>1 DEF Pending
<1>4. \A f \in Frames : f \in Pending /\ content[f] # 0 => f \in Pending'
  BY <1>1 DEF Pending
<1>5. Pending \subseteq Frames /\ Pending' \subseteq Frames
  BY DEF Pending, Frames
<1>6. Waiting' = Waiting
  BY <1>1, <1>3, <1>4, <1>5, WaitingIs, WaitingNext
<1>7. Handed'
  BY <1>1 DEF Handed
<1>8. NoTwins'
  BY <1>1, <1>3, <1>5 DEF NoTwins, PlaceInv
<1>9. OnePlace'
  BY <1>1, <1>2, <1>6 DEF OnePlace, PlaceInv
<1> QED
  BY <1>7, <1>8, <1>9 DEF PlaceInv

\* nl_recv on a VALID frame: the message stays where it is.
LEMMA RecvValidStep == ASSUME PlaceInv, IInv', RecvValid PROVE PlaceInv'
<1>1. /\ UNCHANGED <<sock, status, content, cur, skq, sent, delivered, dropped, lost>>
      /\ pc = "recv" /\ got' = content[cur] /\ status[cur] = "valid"
      /\ pc' = IF content[cur] = 0 THEN "release" ELSE "parse"
      /\ cur \in Frames
  BY DEF RecvValid, RecvFrame, historyVars, PlaceInv, IInv, TypeOK
<1>2. Seen' = Seen
  BY <1>1 DEF Seen
<1>3. cur \in Pending /\ Pending \subseteq Frames /\ Pending' \subseteq Pending
  BY <1>1 DEF Pending
<1>4. \A f \in Pending : content[f] # 0 => f \in Pending'
  BY <1>1 DEF Pending
<1>5. Waiting' = Waiting
  BY <1>1, <1>3, <1>4, WaitingIs, WaitingNext
<1>6. Handed'
  BY <1>1 DEF Handed
<1>7. NoTwins'
  BY <1>1, <1>3 DEF NoTwins, PlaceInv
<1>8. OnePlace'
  BY <1>1, <1>2, <1>5 DEF OnePlace, PlaceInv
<1> QED
  BY <1>6, <1>7, <1>8 DEF PlaceInv

\* nl_recv with recv(): the oldest message of the queue goes to the reader.
LEMMA RecvCopyStep == ASSUME PlaceInv, IInv', RecvCopy PROVE PlaceInv'
<1>1. /\ UNCHANGED <<sock, status, cur, sent, delivered, dropped, lost>>
      /\ pc = "recv" /\ pc' = "parse" /\ cur \in Frames
      /\ skq # <<>> /\ skq \in Seq(Messages) /\ skq' = Tail(skq)
      /\ got' = Head(skq) /\ Head(skq) = skq[1]
      /\ content \in [Frames -> 0 .. MaxMsgs]
      /\ content' = [content EXCEPT ![cur] = Head(skq)]
      /\ ~ sock.use_mmap \/ status[cur] = "copy"
  BY DEF RecvCopy, RecvInto, Copying, historyVars, PlaceInv, IInv, TypeOK
<1>2. /\ DOMAIN skq = 1 .. Len(skq) /\ DOMAIN skq' = 1 .. Len(skq) - 1
      /\ Len(skq) \in Nat \ {0}
      /\ \A i \in 1 .. Len(skq) - 1 : skq'[i] = skq[i + 1]
      /\ skq[1] \in Messages
  BY <1>1
<1>3. Seen' = Seen
  BY <1>1 DEF Seen
<1>4. cur \notin Pending /\ cur \notin Pending'
  BY <1>1 DEF Pending, PlaceInv, IInv, FramesOwned
<1>5. /\ Pending' = Pending /\ Pending \subseteq Frames
      /\ \A f \in Pending : content'[f] = content[f]
  BY <1>1, <1>4 DEF Pending
<1>6. Head(skq) # 0
  BY <1>1, <1>2, MaxMsgsAssumption DEF Messages
<1>7. Waiting' = Waiting
  <2>1. \A m : (\E i \in DOMAIN skq : skq[i] = m)
                 <=> (\E i \in DOMAIN skq' : skq'[i] = m) \/ m = got'
    <3>1. \A i \in DOMAIN skq : i = 1 \/ (i - 1 \in DOMAIN skq' /\ skq'[i - 1] = skq[i])
      BY <1>2
    <3>2. \A i \in DOMAIN skq' : i + 1 \in DOMAIN skq /\ skq'[i] = skq[i + 1]
      BY <1>2
    <3>3. 1 \in DOMAIN skq /\ got' = skq[1]
      BY <1>1, <1>2
    <3> QED
      BY <3>1, <3>2, <3>3, Zenon
  <2>2. pc # "parse" /\ pc' = "parse" /\ got' # 0
    BY <1>1, <1>6
  <2> QED
    BY <1>5, <2>1, <2>2, WaitingIs, WaitingNext
<1>8. Handed'
  BY <1>1 DEF Handed
<1>9. NoTwins'
  <2> \A i, j \in 1 .. Len(skq) : skq[i] = skq[j] => i = j
    BY <1>2 DEF NoTwins, PlaceInv
  <2>1. \A i, j \in DOMAIN skq' : skq'[i] = skq'[j] => i = j
    BY <1>2
  <2>2. \A i \in DOMAIN skq' : skq'[i] # skq[1]
    BY <1>2
  <2> QED
    BY <1>1, <1>2, <1>5, <2>1, <2>2 DEF NoTwins, PlaceInv
<1>10. OnePlace'
  BY <1>1, <1>3, <1>7 DEF OnePlace, PlaceInv
<1> QED
  BY <1>8, <1>9, <1>10 DEF PlaceInv

\* The message in the reader's hand is one that waits.
LEMMA HandWaits ==
  ASSUME PlaceInv, pc = "parse"
  PROVE  got \in Waiting /\ content[cur] = got
  BY WaitingIs DEF PlaceInv, IInv, FrameStable

\* nl_parse: a message that waited has been parsed.
LEMMA ParseStep == ASSUME PlaceInv, IInv', Parse PROVE PlaceInv'
<1>1. /\ UNCHANGED <<sock, status, content, cur, got, skq, sent, dropped, lost>>
      /\ pc = "parse" /\ pc' = "release" /\ cur \in Frames
      /\ delivered' = Append(delivered, got) /\ delivered \in Seq(0 .. MaxMsgs)
      /\ content[cur] = got
      /\ sock.use_mmap => status[cur] \in {"valid", "copy"}
      /\ got \in Waiting /\ got # 0
  BY HandWaits DEF Parse, PlaceInv, IInv, TypeOK, FrameStable
<1>2. Seen' = Seen \cup {got}
  BY <1>1 DEF Seen
<1>3. /\ Pending \subseteq Frames /\ Pending' = Pending \ {cur}
      /\ \A f \in Pending : content[f] = got => f = cur
      /\ \A i \in DOMAIN skq : skq[i] # got
  BY <1>1 DEF Pending, NoTwins, PlaceInv, IInv, FramesOwned
<1>4. Waiting' = Waiting \ {got}
  BY <1>1, <1>3, WaitingIs, WaitingNext
<1>5. Handed'
  BY <1>1, <1>2 DEF Handed
<1>6. NoTwins'
  <2>1. \A i \in DOMAIN delivered : delivered[i] # got
    BY <1>1 DEF PlaceInv, OnePlace, Seen
  <2>2. \A i, j \in DOMAIN delivered' : delivered'[i] = delivered'[j] => i = j
    BY <1>1, <2>1 DEF PlaceInv, NoTwins
  <2> QED
    BY <1>1, <1>3, <2>2 DEF NoTwins, PlaceInv
<1>7. OnePlace'
  BY <1>1, <1>2, <1>4 DEF OnePlace, PlaceInv
<1> QED
  BY <1>5, <1>6, <1>7 DEF PlaceInv

\* nl_frame_release: what became VALID after a failed poll goes unparsed.
LEMMA ReleaseStep == ASSUME PlaceInv, IInv', Release PROVE PlaceInv'
<1> DEFINE unparsed == status[cur] = "valid" /\ content[cur] # got
<1>1. /\ UNCHANGED <<sock, content, cur, got, skq, sent, delivered, dropped>>
      /\ pc = "release" /\ pc' = "init" /\ cur \in Frames
      /\ status \in [Frames -> Status]
      /\ status' = IF status[cur] \in {"valid", "copy"}
                   THEN [status EXCEPT ![cur] = "unused"] ELSE status
      /\ lost' = IF unparsed THEN (lost \cup {content[cur]}) \ {0} ELSE lost
      /\ 0 \notin lost
  BY DEF Release, ReleaseIn, PlaceInv, IInv, TypeOK, Messages
<1>2. Seen' = Seen
  BY <1>1 DEF Seen
<1>3. got # 0 => content[cur] = got
  BY <1>1 DEF PlaceInv, Handed
<1>4. /\ Pending \subseteq Frames
      /\ Pending' = IF unparsed THEN Pending \ {cur} ELSE Pending
      /\ unparsed => cur \in Pending
  <2>1. CASE unparsed
    BY <1>1, <2>1 DEF Pending
  <2>2. CASE ~ unparsed /\ status[cur] \in {"valid", "copy"}
    BY <1>1, <2>2 DEF Pending
  <2>3. CASE status[cur] \notin {"valid", "copy"}
    <3>1. status[cur] = "reserved" => got = 0 /\ content[cur] # 0
      BY <1>1, <2>3 DEF PlaceInv, Handed, IInv, FramesOwned
    <3> QED
      BY <1>1, <2>3, <3>1 DEF Pending
  <2> QED
    BY <2>1, <2>2, <2>3
<1>5. CASE ~ unparsed
  <2>1. Waiting' = Waiting
    BY <1>1, <1>4, <1>5, WaitingIs, WaitingNext
  <2>2. NoTwins'
    BY <1>1, <1>4, <1>5 DEF NoTwins, PlaceInv
  <2> QED
    BY <1>1, <1>2, <1>5, <2>1, <2>2 DEF Handed, OnePlace, PlaceInv
<1>6. CASE unparsed
  <2>1. /\ \A f \in Pending' : content[f] # 0 => content[f] # content[cur]
        /\ \A i \in DOMAIN skq : skq[i] # content[cur]
    BY <1>1, <1>4, <1>6 DEF NoTwins, PlaceInv
  <2>2. Waiting' = Waiting \ {content[cur]}
    BY <1>1, <1>4, <1>6, <2>1, WaitingIs, WaitingNext
  <2>3. content[cur] = 0 \/ content[cur] \in Waiting
    BY <1>4, <1>6, WaitingIs
  <2>4. 0 \notin Waiting
    BY WaitingIs
  <2>5. NoTwins'
    BY <1>1, <1>4, <1>6 DEF NoTwins, PlaceInv
  <2>6. OnePlace'
    BY <1>1, <1>2, <1>6, <2>2, <2>3, <2>4 DEF OnePlace, PlaceInv
  <2> QED
    BY <1>1, <2>5, <2>6 DEF Handed, PlaceInv
<1> QED
  BY <1>5, <1>6

\* A new message is not among the old ones.
LEMMA NewMessage ==
  ASSUME PlaceInv
  PROVE  /\ sent + 1 \notin Seen \cup dropped \cup lost \cup Waiting
         /\ \A f \in Pending : content[f] # sent + 1
         /\ \A i \in DOMAIN skq : skq[i] # sent + 1
         /\ pc \in {"parse", "release"} => sent + 1 # got
<1>1. sent + 1 \notin 1 .. sent /\ sent \in Nat /\ sent + 1 # 0
  BY MaxMsgsAssumption DEF PlaceInv, IInv, TypeOK
<1>2. sent + 1 \notin Seen \cup dropped \cup lost \cup Waiting
  BY <1>1 DEF PlaceInv, OnePlace
<1>3. pc \in {"parse", "release"} => got = 0 \/ got \in Seen \cup Waiting
  BY HandWaits DEF PlaceInv, Handed
<1> QED
  BY <1>1, <1>2, <1>3, WaitingIs

\* The sets after a message joined those that wait.
LEMMA Joins ==
  ASSUME PlaceInv, sent' = sent + 1, Waiting' = Waiting \cup {sent + 1},
         UNCHANGED <<delivered, dropped, lost>>
  PROVE  OnePlace'
<1>1. Seen' = Seen
  BY DEF Seen
<1>2. sent \in Nat
  BY MaxMsgsAssumption DEF PlaceInv, IInv, TypeOK
<1>3. 1 .. sent' = (1 .. sent) \cup {sent + 1}
  BY <1>2
<1> QED
  BY <1>1, <1>3, NewMessage DEF OnePlace, PlaceInv

\* The kernel takes the frame at its head.
LEMMA KReserveStep == ASSUME PlaceInv, IInv', KReserve PROVE PlaceInv'
<1>1. /\ UNCHANGED <<sock, cur, pc, got, skq, delivered, dropped, lost>>
      /\ sock.use_mmap /\ head \in Frames /\ cur \in Frames /\ sent' = sent + 1
      /\ status \in [Frames -> Status] /\ content \in [Frames -> 0 .. MaxMsgs]
      /\ status[head] = "unused"
      /\ status' = [status EXCEPT ![head] = "reserved"]
      /\ content' = [content EXCEPT ![head] = sent + 1]
      /\ sent + 1 # 0
  BY MaxMsgsAssumption DEF KReserve, HeadFree, readerVars, historyVars, PlaceInv,
     IInv, TypeOK
<1>2. /\ Pending \subseteq Frames /\ head \notin Pending
      /\ Pending' = Pending \cup {head}
      /\ \A f \in Pending : content'[f] = content[f]
      /\ content'[head] = sent + 1
  BY <1>1, NewMessage DEF Pending
<1>3. pc = "parse" \/ (pc = "release" /\ got # 0) => head # cur
  BY <1>1 DEF PlaceInv, Handed, IInv, FrameStable
<1>4. Waiting' = Waiting \cup {sent + 1}
  BY <1>1, <1>2, WaitingIs, WaitingNext
<1>5. OnePlace'
  BY <1>1, <1>4, Joins
<1>6. NoTwins'
  BY <1>1, <1>2, NewMessage DEF PlaceInv, NoTwins
<1>7. Handed'
  BY <1>1, <1>3 DEF PlaceInv, Handed, Seen
<1> QED
  BY <1>5, <1>6, <1>7 DEF PlaceInv

\* A message for the queue, which takes the frame at the kernel's head if
\* there is a ring.
LEMMA QueueStep == ASSUME PlaceInv, IInv', KCopy \/ KQueue PROVE PlaceInv'
<1>1. /\ UNCHANGED <<sock, content, cur, pc, got, delivered, dropped, lost>>
      /\ head \in Frames /\ cur \in Frames /\ sent' = sent + 1
      /\ status \in [Frames -> Status]
      /\ status' = status \/ (/\ status[head] = "unused" /\ sock.use_mmap
                              /\ status' = [status EXCEPT ![head] = "copy"])
      /\ skq \in Seq(Messages) /\ skq' = Append(skq, sent + 1)
      /\ sent + 1 # 0
  BY MaxMsgsAssumption DEF KCopy, KQueue, HeadFree, readerVars, historyVars, PlaceInv,
     IInv, TypeOK
<1>2. /\ DOMAIN skq = 1 .. Len(skq) /\ DOMAIN skq' = 1 .. Len(skq) + 1
      /\ Len(skq) \in Nat
      /\ \A i \in 1 .. Len(skq) : skq'[i] = skq[i]
      /\ skq'[Len(skq) + 1] = sent + 1
  BY <1>1
<1>3. Pending' = Pending
  BY <1>1 DEF Pending
<1>4. pc = "parse" \/ (pc = "release" /\ got # 0) => status'[cur] = status[cur]
  BY <1>1 DEF PlaceInv, Handed, IInv, FrameStable
<1>5. \A m : (\E i \in DOMAIN skq' : skq'[i] = m)
               <=> (\E i \in DOMAIN skq : skq[i] = m) \/ m = sent + 1
  <2>1. DOMAIN skq' = DOMAIN skq \cup {Len(skq) + 1}
    BY <1>2
  <2>2. \A i \in DOMAIN skq : skq'[i] = skq[i]
    BY <1>2
  <2> QED
    BY <1>2, <2>1, <2>2, Zenon
<1>6. Waiting' = Waiting \cup {sent + 1}
  BY <1>1, <1>3, <1>5, WaitingIs, WaitingNext
<1>7. OnePlace'
  BY <1>1, <1>6, Joins
<1>8. NoTwins'
  <2>1. \A i, j \in DOMAIN skq' : skq'[i] = skq'[j] => i = j
    <3>1. \A i, j \in 1 .. Len(skq) : skq[i] = skq[j] => i = j
      BY <1>2 DEF PlaceInv, NoTwins
    <3>2. \A i \in 1 .. Len(skq) : skq[i] # sent + 1
      BY <1>2, NewMessage
    <3> QED
      BY <1>2, <3>1, <3>2
  <2>2. \A f \in Pending, i \in DOMAIN skq' : content[f] # skq'[i]
    BY <1>5, NewMessage DEF PlaceInv, NoTwins
  <2>3. pc = "parse" => \A i \in DOMAIN skq' : skq'[i] # got
    BY <1>5, NewMessage DEF PlaceInv, NoTwins
  <2> QED
    BY <1>1, <1>3, <2>1, <2>2, <2>3 DEF PlaceInv, NoTwins
<1>9. Handed'
  BY <1>1, <1>4 DEF PlaceInv, Handed, Seen
<1> QED
  BY <1>7, <1>8, <1>9 DEF PlaceInv

\* No room: the message is the kernel's to throw away.
LEMMA KDropStep == ASSUME PlaceInv, IInv', KDrop PROVE PlaceInv'
<1>1. /\ UNCHANGED <<sock, status, content, cur, pc, got, skq, delivered, lost>>
      /\ sent' = sent + 1 /\ dropped' = dropped \cup {sent + 1} /\ sent \in Nat
  BY MaxMsgsAssumption DEF KDrop, readerVars, PlaceInv, IInv, TypeOK
<1>2. Pending' = Pending /\ Seen' = Seen
  BY <1>1 DEF Pending, Seen
<1>3. Waiting' = Waiting
  BY <1>1, <1>2 DEF Waiting
<1>4. 1 .. sent' = (1 .. sent) \cup {sent + 1}
  BY <1>1
<1>5. OnePlace'
  BY <1>1, <1>2, <1>3, <1>4, NewMessage DEF PlaceInv, OnePlace
<1>6. NoTwins' /\ Handed'
  BY <1>1, <1>2 DEF PlaceInv, Handed, NoTwins
<1> QED
  BY <1>5, <1>6 DEF PlaceInv

\* A written frame is handed over.
LEMMA KCommitStep == ASSUME PlaceInv, IInv', NEW f \in Frames, KCommit(f) PROVE PlaceInv'
<1>1. /\ UNCHANGED <<sock, content, cur, pc, got, skq, sent, delivered, dropped, lost>>
      /\ status \in [Frames -> Status] /\ status[f] = "reserved"
      /\ status' = [status EXCEPT ![f] = "valid"]
  BY DEF KCommit, readerVars, historyVars, PlaceInv, IInv, TypeOK
<1>2. Pending' = Pending /\ Seen' = Seen
  BY <1>1 DEF Pending, Seen
<1>3. Waiting' = Waiting
  BY <1>1, <1>2 DEF Waiting
<1>4. OnePlace'
  BY <1>1, <1>2, <1>3 DEF PlaceInv, OnePlace
<1>5. NoTwins' /\ Handed'
  BY <1>1, <1>2 DEF PlaceInv, Handed, NoTwins
<1> QED
  BY <1>4, <1>5 DEF PlaceInv

\* A frame the kernel gave up on: its message is thrown away.
LEMMA KAbortStep == ASSUME PlaceInv, IInv', NEW f \in Frames, KAbort(f) PROVE PlaceInv'
<1>1. /\ UNCHANGED <<sock, cur, pc, got, skq, sent, delivered, lost>>
      /\ status \in [Frames -> Status] /\ status[f] = "reserved"
      /\ content \in [Frames -> 0 .. MaxMsgs] /\ cur \in Frames
      /\ status' = [status EXCEPT ![f] = "valid"]
      /\ content' = [content EXCEPT ![f] = 0]
      /\ dropped' = dropped \cup {content[f]}
      /\ content[f] # 0
      /\ pc = "parse" \/ (pc = "release" /\ got # 0) => f # cur
  BY DEF KAbort, readerVars, PlaceInv, IInv, TypeOK, Handed, FrameStable, FramesOwned
<1>2. Seen' = Seen
  BY <1>1 DEF Seen
<1>3. f \in Pending /\ Pending \subseteq Frames /\ Pending' \subseteq Pending
  BY <1>1 DEF Pending
<1>4. \A g \in Pending : g # f => g \in Pending' /\ content'[g] = content[g]
  BY <1>1, <1>3 DEF Pending
<1>5. /\ \A g \in Pending : content[g] = content[f] => g = f
      /\ \A i \in DOMAIN skq : skq[i] # content[f]
      /\ pc = "parse" => got # content[f]
  BY <1>1, <1>3 DEF PlaceInv, NoTwins
<1>6. Waiting' = Waiting \ {content[f]} /\ content[f] \in Waiting
  BY <1>1, <1>3, <1>4, <1>5, WaitingIs, WaitingNext
<1>7. OnePlace'
  BY <1>1, <1>2, <1>6 DEF PlaceInv, OnePlace
<1>8. NoTwins'
  <2>1. /\ \A g \in Pending' : g \in Pending /\ content'[g] \in {content[g], 0}
        /\ \A i \in DOMAIN skq : skq[i] # 0
        /\ pc = "parse" => got # 0
    BY <1>1, <1>3, MaxMsgsAssumption DEF PlaceInv, IInv, TypeOK, Messages, FrameStable
  <2> QED
    BY <1>1, <1>3, <1>4, <2>1 DEF PlaceInv, NoTwins
<1>9. Handed'
  BY <1>1, <1>2 DEF PlaceInv, Handed
<1> QED
  BY <1>7, <1>8, <1>9 DEF PlaceInv

\* PlaceInv is an invariant.
LEMMA PlaceInvariance == Spec => []PlaceInv
<1>1. PlaceInv /\ [Next]_vars => PlaceInv'
  <2> SUFFICES ASSUME PlaceInv, [Next]_vars PROVE PlaceInv'
    OBVIOUS
  <2>1. IInv'
    BY InvStep DEF PlaceInv
  <2>2. CASE UNCHANGED vars
    <3>1. Pending' = Pending /\ Seen' = Seen
      BY <2>2 DEF vars, readerVars, historyVars, Pending, Seen
    <3>2. Waiting' = Waiting
      BY <2>2, <3>1 DEF vars, readerVars, Waiting
    <3>3. Handed' /\ NoTwins'
      BY <2>2, <3>1 DEF vars, readerVars, historyVars, PlaceInv, Handed, NoTwins
    <3>4. OnePlace'
      BY <2>2, <3>1, <3>2 DEF vars, historyVars, PlaceInv, OnePlace
    <3> QED
      BY <2>1, <3>3, <3>4 DEF PlaceInv
  <2> QED
    BY <2>1, <2>2, IdleStep, RecvValidStep, RecvCopyStep, ParseStep, ReleaseStep,
       KReserveStep, QueueStep, KDropStep, KCommitStep, KAbortStep
       DEF Next, Reader, Kernel
<1> QED
  BY <1>1, PlaceInit, PTL DEF Spec

\* A sequence without repetitions has as many elements as places.
LEMMA NoRepetition ==
  ASSUME NEW S, NEW s \in Seq(S), \A i, j \in DOMAIN s : s[i] = s[j] => i = j
  PROVE  /\ IsFiniteSet({s[i] : i \in DOMAIN s})
         /\ Cardinality({s[i] : i \in DOMAIN s}) = Len(s)
<1> DEFINE D == 1 .. Len(s)
           R == {s[i] : i \in DOMAIN s}
           f == [i \in D |-> s[i]]
<1>1. DOMAIN s = D /\ Len(s) \in Nat
  OBVIOUS
<1>2. IsFiniteSet(D) /\ Cardinality(D) = Len(s)
  BY <1>1, FS_Interval
<1>3. f \in Bijection(D, R)
  BY <1>1 DEF Bijection, Injection, Surjection, IsInjective
<1> QED
  BY <1>2, <1>3, FS_Bijection, Zenon DEF ExistsBijection

\* Every message sent is parsed once, thrown away, released unparsed or still
\* waiting, whatever fails.
THEOREM MessagesAccounted == Spec => []Accounted
<1>1. PlaceInv => Accounted
  <2> SUFFICES ASSUME PlaceInv PROVE Cardinality(Seen) = Len(delivered)
    BY DEF PlaceInv, OnePlace, Accounted
  <2> QED
    BY NoRepetition DEF PlaceInv, IInv, TypeOK, NoTwins, Seen
<1> QED
  BY <1>1, PlaceInvariance, PTL

-----------------------------------------------------------------------------
(* The frames that say COPY *)

Copies == {f \in Frames : status[f] = "copy"}

\* The message of the reader's own frame has left the queue already.
CopyTaken == pc \in {"parse", "release"} /\ got # 0 /\ status[cur] = "copy"

\* There is a message in the queue for every COPY frame.
CopiesQueued ==
  sock.use_mmap => Cardinality(Copies) <= Len(skq) + IF CopyTaken THEN 1 ELSE 0

\* They can be counted.
LEMMA CopiesFinite ==
  /\ IsFiniteSet(Copies) /\ Cardinality(Copies) \in Nat
  /\ IsFiniteSet(Copies') /\ Cardinality(Copies') \in Nat
<1>1. IsFiniteSet(Frames)
  BY FS_Interval, FrameNrAssumption DEF Frames
<1>2. Copies \in SUBSET Frames /\ Copies' \in SUBSET Frames
  BY DEF Copies
<1> QED
  BY <1>1, <1>2, FS_Subset, FS_CardinalityType

\* What a step on one frame does to the number of COPY frames.
LEMMA CopiesStep ==
  ASSUME status \in [Frames -> Status], NEW f \in Frames, NEW s,
         status' = [status EXCEPT ![f] = s]
  PROVE  Cardinality(Copies') =
           IF s = "copy" /\ status[f] # "copy" THEN Cardinality(Copies) + 1
           ELSE IF s # "copy" /\ status[f] = "copy" THEN Cardinality(Copies) - 1
           ELSE Cardinality(Copies)
<1>1. CASE s = "copy"
  <2>1. Copies' = Copies \cup {f} /\ (f \in Copies <=> status[f] = "copy")
    BY <1>1 DEF Copies
  <2> QED
    BY <1>1, <2>1, CopiesFinite, FS_AddElement
<1>2. CASE s # "copy"
  <2>1. Copies' = Copies \ {f} /\ (f \in Copies <=> status[f] = "copy")
    BY <1>2 DEF Copies
  <2> QED
    BY <1>2, <2>1, CopiesFinite, FS_RemoveElement
<1> QED
  BY <1>1, <1>2

\* Every step keeps the COPY frames' messages in the queue: the kernel takes a
\* frame and queues the message in one, recv() takes one message for the frame
\* the reader is on, and only that frame is released.
LEMMA CopiesInv == PlaceInv /\ CopiesQueued /\ [Next]_vars => CopiesQueued'
<1> SUFFICES ASSUME PlaceInv, CopiesQueued, [Next]_vars, sock'.use_mmap
             PROVE  Cardinality(Copies') <= Len(skq') + IF CopyTaken' THEN 1 ELSE 0
  BY DEF CopiesQueued
<1>1. /\ sock' = sock /\ sock.use_mmap
      /\ status \in [Frames -> Status] /\ skq \in Seq(Messages) /\ Len(skq) \in Nat
      /\ head \in Frames /\ cur \in Frames
      /\ Cardinality(Copies) <= Len(skq) + IF CopyTaken THEN 1 ELSE 0
  <2>1. sock' = sock
    BY DEF Next, Reader, Kernel, FrameInit, TakeFrame, PollIn, PollFor, PollFail, RecvValid,
       RecvFrame, RecvCopy, RecvInto, RecvFail, Parse, Release, ReleaseIn, KReserve,
       KCommit, KAbort, KCopy, KQueue, KDrop, vars
  <2> QED
    BY <2>1 DEF PlaceInv, IInv, TypeOK, CopiesQueued
<1>2. Cardinality(Copies) \in Nat
  BY CopiesFinite
<1>3. /\ pc \in {"poll", "recv"} => got = 0
      /\ pc = "recv" => status[cur] \in {"valid", "copy"}
      /\ pc = "parse" => got # 0
  BY <1>1 DEF PlaceInv, Handed, IInv, FramesOwned, FrameStable
<1>4. CASE UNCHANGED <<status, skq>> /\ (CopyTaken => CopyTaken')
  <2>1. Copies' = Copies
    BY <1>4 DEF Copies
  <2> QED
    BY <1>1, <1>2, <1>4, <2>1
<1>5. CASE FrameInit \/ PollIn \/ PollFail \/ RecvValid \/ RecvFail \/ Parse \/ KDrop
             \/ UNCHANGED vars
  BY <1>4, <1>5 DEF FrameInit, TakeFrame, PollIn, PollFor, PollFail, RecvValid,
     RecvFrame, RecvFail, Parse, KDrop, vars, readerVars, CopyTaken, historyVars
<1>6. CASE RecvCopy
  <2>1. /\ status' = status /\ cur' = cur /\ pc' = "parse" /\ pc = "recv"
        /\ Len(skq') = Len(skq) - 1 /\ got' \in Messages
        /\ status[cur] = "copy"
    BY <1>1, <1>6 DEF RecvCopy, RecvInto, Copying
  <2>2. Copies' = Copies /\ CopyTaken' /\ ~ CopyTaken
    BY <2>1, MaxMsgsAssumption DEF Copies, CopyTaken, Messages
  <2> QED
    BY <1>1, <1>2, <2>1, <2>2
<1>7. CASE Release
  <2>1. /\ skq' = skq /\ pc = "release" /\ pc' = "init"
        /\ status' = IF status[cur] \in {"valid", "copy"}
                     THEN [status EXCEPT ![cur] = "unused"] ELSE status
    BY <1>7 DEF Release, ReleaseIn
  <2>2. CASE status[cur] \in {"valid", "copy"}
    <3>1. Cardinality(Copies') = IF status[cur] = "copy" THEN Cardinality(Copies) - 1
                                 ELSE Cardinality(Copies)
      BY <1>1, <2>1, <2>2, CopiesStep
    <3> QED
      BY <1>1, <1>2, <2>1, <2>2, <3>1 DEF CopyTaken
  <2>3. CASE status[cur] \notin {"valid", "copy"}
    <3>1. Copies' = Copies
      BY <2>1, <2>3 DEF Copies
    <3> QED
      BY <1>1, <1>2, <2>1, <2>3, <3>1 DEF CopyTaken
  <2> QED
    BY <2>2, <2>3
<1>8. CASE KReserve
  <2>1. /\ status' = [status EXCEPT ![head] = "reserved"] /\ status[head] = "unused"
        /\ skq' = skq /\ (CopyTaken => CopyTaken')
    BY <1>1, <1>8 DEF KReserve, HeadFree, readerVars, CopyTaken
  <2>2. Cardinality(Copies') = Cardinality(Copies)
    BY <1>1, <2>1, CopiesStep
  <2> QED
    BY <1>1, <1>2, <2>1, <2>2
<1>9. CASE KCopy
  <2>1. /\ status' = [status EXCEPT ![head] = "copy"] /\ status[head] = "unused"
        /\ Len(skq') = Len(skq) + 1 /\ (CopyTaken => CopyTaken')
    BY <1>1, <1>9 DEF KCopy, HeadFree, readerVars, CopyTaken
  <2>2. Cardinality(Copies') = Cardinality(Copies) + 1
    BY <1>1, <2>1, CopiesStep
  <2> QED
    BY <1>1, <1>2, <2>1, <2>2
<1>10. CASE KQueue
  BY <1>1, <1>10 DEF KQueue
<1>11. ASSUME NEW f \in Frames, KCommit(f) \/ KAbort(f)
       PROVE  Cardinality(Copies') <= Len(skq') + IF CopyTaken' THEN 1 ELSE 0
  <2>1. /\ status' = [status EXCEPT ![f] = "valid"] /\ status[f] = "reserved"
        /\ skq' = skq /\ (CopyTaken => CopyTaken')
    BY <1>1, <1>11 DEF KCommit, KAbort, readerVars, CopyTaken
  <2>2. Cardinality(Copies') = Cardinality(Copies)
    BY <1>1, <2>1, CopiesStep
  <2> QED
    BY <1>1, <1>2, <2>1, <2>2
<1> QED
  BY <1>5, <1>6, <1>7, <1>8, <1>9, <1>10, <1>11 DEF Next, Reader, Kernel

\* A COPY frame never makes recv() block.
THEOREM CopyNeverBlocks == Spec => []RecvReady
<1>1. Init => CopiesQueued
  <2> SUFFICES ASSUME Init PROVE Cardinality(Copies) = 0 /\ Len(skq) = 0
    BY DEF CopiesQueued
  <2>1. Copies = {}
    BY DEF Init, Copies
  <2> QED
    BY <2>1, FS_EmptySet DEF Init
<1>2. PlaceInv /\ CopiesQueued => RecvReady
  <2> SUFFICES ASSUME PlaceInv, CopiesQueued, sock.use_mmap
               PROVE  Cardinality(Copies)
                        <= Len(skq) + IF pc \in {"parse", "release"} /\ got # 0 THEN 1 ELSE 0
    BY DEF RecvReady, Copies
  <2>1. Len(skq) \in Nat /\ Cardinality(Copies) \in Nat
    BY CopiesFinite DEF PlaceInv, IInv, TypeOK
  <2> QED
    BY <2>1 DEF CopiesQueued, CopyTaken
<1> QED
  BY <1>1, <1>2, CopiesInv, PlaceInvariance, PTL DEF Spec

-----------------------------------------------------------------------------
(* Reader and kernel in step *)

\* Advancing a cursor, without the modulo.
LEMMA NextFrameIs ==
  ASSUME NEW f \in Frames
  PROVE  NextFrame(f) = IF f = FrameNr - 1 THEN 0 ELSE f + 1
  BY FrameNrAssumption DEF Frames, NextFrame

\* The frame the reader is at, or comes to next.
ReaderAt == IF pc = "init" THEN offset ELSE cur

\* A frame from a up to, not including, b, round the ring.
Between(f, a, b) == IF a <= b THEN a <= f /\ f < b ELSE a <= f \/ f < b

\* Without failures the frames in use are those from the reader's to the
\* kernel's: none, all, or some in between.
InStep == faults = 0 =>
  /\ lost = {}
  /\ pc = "poll" => sock.use_mmap
  /\ pc = "release" /\ status[cur] = "valid" => content[cur] = got
  /\ sock.use_mmap =>
       /\ pc # "init" => offset = NextFrame(cur)
       /\ pc = "release" => status[cur] \in {"valid", "copy"}
       /\ \/ \A f \in Frames : status[f] # "unused" <=> Between(f, ReaderAt, head)
          \/ ReaderAt = head /\ \A f \in Frames : status[f] # "unused"

\* The frames in use after the kernel took one.
LEMMA KernelAdvances ==
  ASSUME IInv, InStep, faults = 0, sock.use_mmap, ReaderAt \in Frames,
         status[head] = "unused", NEW s \in Status \ {"unused"},
         status' = [status EXCEPT ![head] = s],
         head' = NextFrame(head), ReaderAt' = ReaderAt
  PROVE  \/ \A f \in Frames : status'[f] # "unused" <=> Between(f, ReaderAt', head')
         \/ ReaderAt' = head' /\ \A f \in Frames : status'[f] # "unused"
<1>1. /\ status \in [Frames -> Status] /\ head \in Frames
      /\ \A f \in Frames : status'[f] = IF f = head THEN s ELSE status[f]
  BY DEF IInv, TypeOK
<1>2. \A f \in Frames : status[f] # "unused" <=> Between(f, ReaderAt, head)
  BY <1>1 DEF InStep
<1>3. head' = IF head = FrameNr - 1 THEN 0 ELSE head + 1
  BY <1>1, NextFrameIs
<1>4. \A f \in Frames : status'[f] # "unused" <=> f = head \/ Between(f, ReaderAt, head)
  BY <1>1, <1>2
<1>5. CASE ReaderAt = head'
  <2>1. \A f \in Frames : f = head \/ Between(f, ReaderAt, head)
    BY <1>1, <1>3, <1>5, FrameNrAssumption DEF Between, Frames
  <2> QED
    BY <1>4, <1>5, <2>1
<1>6. CASE ReaderAt # head'
  <2>1. \A f \in Frames : f = head \/ Between(f, ReaderAt, head)
                            <=> Between(f, ReaderAt, head')
    BY <1>1, <1>3, <1>6, FrameNrAssumption DEF Between, Frames
  <2> QED
    BY <1>4, <2>1
<1> QED
  BY <1>5, <1>6

\* The frames in use after the reader gave its own back.
LEMMA ReaderAdvances ==
  ASSUME IInv, InStep, faults = 0, sock.use_mmap, pc = "release", ReaderAt' = offset,
         status[cur] # "unused", status' = [status EXCEPT ![cur] = "unused"],
         head' = head
  PROVE  \A f \in Frames : status'[f] # "unused" <=> Between(f, ReaderAt', head')
<1>1. /\ status \in [Frames -> Status] /\ head \in Frames /\ cur \in Frames
      /\ \A f \in Frames : status'[f] = IF f = cur THEN "unused" ELSE status[f]
      /\ ReaderAt = cur
  BY DEF IInv, TypeOK, ReaderAt
<1>2. ReaderAt' = IF cur = FrameNr - 1 THEN 0 ELSE cur + 1
  BY <1>1, NextFrameIs DEF InStep
<1>3. CASE \A f \in Frames : status[f] # "unused" <=> Between(f, cur, head)
  <2>1. cur # head
    BY <1>1, <1>3 DEF Between, Frames
  <2>2. \A f \in Frames : f # cur /\ Between(f, cur, head)
                            <=> Between(f, ReaderAt', head)
    BY <1>1, <1>2, <2>1, FrameNrAssumption DEF Between, Frames
  <2> QED
    BY <1>1, <1>3, <2>2
<1>4. CASE cur = head /\ \A f \in Frames : status[f] # "unused"
  <2>1. \A f \in Frames : f # cur <=> Between(f, ReaderAt', head)
    BY <1>1, <1>2, <1>4, FrameNrAssumption DEF Between, Frames
  <2> QED
    BY <1>1, <1>4, <2>1
<1> QED
  BY <1>1, <1>3, <1>4 DEF InStep

\* No step without failure gets reader and kernel out of step.
LEMMA InStepInv == PlaceInv /\ InStep /\ [Next]_vars => InStep'
<1> SUFFICES ASSUME PlaceInv, InStep, [Next]_vars, faults' = 0 PROVE InStep'
  BY DEF InStep
<1>1. /\ cur \in Frames /\ offset \in Frames /\ head \in Frames /\ ReaderAt \in Frames
      /\ status \in [Frames -> Status] /\ faults \in Nat
  BY MaxFaultsAssumption DEF PlaceInv, IInv, TypeOK, ReaderAt
<1>2. CASE FrameInit
  <2>1. ReaderAt' = ReaderAt
    BY <1>2 DEF FrameInit, TakeFrame, ReaderAt, WaitFor
  <2> QED
    BY <1>2, <2>1 DEF FrameInit, TakeFrame, WaitFor, InStep, historyVars
<1>3. CASE PollIn \/ RecvValid \/ RecvCopy \/ Parse
  <2>1. /\ ReaderAt' = ReaderAt /\ pc # "init"
        /\ UNCHANGED <<sock, status, offset, cur, head, lost, faults>>
        /\ pc' # "poll"
    BY <1>3 DEF PollIn, PollFor, RecvValid, RecvFrame, RecvCopy, RecvInto, Parse, ReaderAt,
       historyVars
  <2>2. pc' = "release" => /\ sock.use_mmap => status[cur] \in {"valid", "copy"}
                           /\ status[cur] = "valid" => content'[cur] = got'
    BY <1>3 DEF PollIn, PollFor, RecvValid, RecvFrame, RecvCopy, RecvInto, Parse, PlaceInv,
       IInv, FrameStable
  <2> QED
    BY <2>1, <2>2 DEF InStep, Between
<1>4. CASE PollFail \/ RecvFail
  BY <1>1, <1>4 DEF PollFail, RecvFail
<1>5. CASE Release
  <2>1. /\ UNCHANGED <<sock, cur, offset, head, faults>> /\ pc = "release" /\ pc' = "init"
        /\ faults = 0 /\ ReaderAt' = offset
    BY <1>5 DEF Release, ReleaseIn, ReaderAt
  <2>2. lost' = {}
    BY <1>5, <2>1 DEF Release, ReleaseIn, InStep
  <2>3. sock.use_mmap => /\ status[cur] # "unused"
                         /\ status' = [status EXCEPT ![cur] = "unused"]
    BY <1>1, <1>5, <2>1 DEF Release, ReleaseIn, InStep
  <2> QED
    BY <2>1, <2>2, <2>3, ReaderAdvances DEF InStep, PlaceInv
<1>6. CASE KReserve \/ KCopy
  <2>1. /\ UNCHANGED <<sock, cur, offset, pc, got, lost, faults>>
        /\ sock.use_mmap /\ status[head] = "unused" /\ head' = NextFrame(head)
        /\ \E s \in Status \ {"unused"} : status' = [status EXCEPT ![head] = s]
        /\ ReaderAt' = ReaderAt
        /\ \A f \in Frames : f # head => content'[f] = content[f]
    BY <1>6 DEF KReserve, KCopy, HeadFree, readerVars, historyVars, ReaderAt, Status,
       PlaceInv, IInv, TypeOK
  <2>2. pc = "release" => cur # head
    BY <1>1, <2>1 DEF InStep
  <2> QED
    BY <1>1, <2>1, <2>2, KernelAdvances DEF InStep, PlaceInv
<1>7. CASE KQueue \/ KDrop \/ UNCHANGED vars
  BY <1>7 DEF KQueue, KDrop, vars, readerVars, historyVars, InStep, ReaderAt, Between
<1>8. ASSUME NEW f \in Frames, KCommit(f) \/ KAbort(f) PROVE InStep'
  <2>1. /\ UNCHANGED <<sock, cur, offset, head, pc, got, lost, faults>>
        /\ status[f] = "reserved" /\ status' = [status EXCEPT ![f] = "valid"]
        /\ ReaderAt' = ReaderAt
    BY <1>8 DEF KCommit, KAbort, readerVars, historyVars, ReaderAt
  <2>2. \A g \in Frames : status'[g] # "unused" <=> status[g] # "unused"
    BY <1>1, <2>1
  <2>3. sock.use_mmap /\ (f = cur => pc # "release")
    BY <1>1, <2>1 DEF InStep, PlaceInv, IInv, FramesOwned
  <2>4. pc = "release" => status'[cur] = status[cur] /\ content'[cur] = content[cur]
    BY <1>1, <1>8, <2>1, <2>3 DEF KCommit, KAbort, PlaceInv, IInv, TypeOK
  <2> QED
    BY <1>1, <2>1, <2>2, <2>3, <2>4 DEF InStep, Between
<1> QED
  BY <1>2, <1>3, <1>4, <1>5, <1>6, <1>7, <1>8 DEF Next, Reader, Kernel

\* Without failures the reader never sits on an empty frame while another one
\* holds a message, and releases no message unparsed.
THEOREM ReaderInStep == Spec => []Lockstep
<1>1. Init => InStep
  BY FrameNrAssumption DEF Init, InStep, ReaderAt, Between, Frames
<1>2. PlaceInv /\ InStep => Lockstep
  <2> SUFFICES ASSUME PlaceInv, InStep, faults = 0, pc = "poll", status[cur] = "unused",
                      NEW f \in Frames
               PROVE  status[f] = "unused"
    BY DEF Lockstep, InStep
  <2>1. cur \in Frames /\ head \in Frames /\ ReaderAt = cur /\ sock.use_mmap
    BY DEF PlaceInv, IInv, TypeOK, ReaderAt, InStep
  <2>2. \A g \in Frames : status[g] # "unused" <=> Between(g, cur, head)
    BY <2>1 DEF InStep
  <2>3. ~ Between(cur, cur, head)
    BY <2>1, <2>2
  <2> QED
    BY <2>1, <2>2, <2>3 DEF Between, Frames
<1> QED
  BY <1>1, <1>2, InStepInv, PlaceInvariance, PTL DEF Spec

-----------------------------------------------------------------------------
(* How far a message can be overtaken *)

\* The messages nobody threw away, and those sent after m.
Kept     == (1 .. sent) \ (dropped \cup lost)
Later(m) == {n \in Kept : n > m}

\* How many frames the kernel has taken since it took f.
Distance(f) == IF f < head THEN head - f - 1 ELSE head + FrameNr - f - 1

\* A message in a frame of the ring has been overtaken by those in the frames
\* the kernel took later at most: it does not go past the message's own.
Overtaking == sock.rcvbuf = 0 =>
  /\ skq = <<>>
  /\ \A f \in Frames : status[f] # "copy"
  /\ pc = "parse" => sock.use_mmap
  /\ \A f \in Pending : content[f] # 0 => Cardinality(Later(content[f])) <= Distance(f)
  /\ Overtaken

\* The later messages can be counted.
LEMMA LaterFinite ==
  ASSUME PlaceInv, NEW m
  PROVE  IsFiniteSet(Later(m)) /\ Cardinality(Later(m)) \in Nat
<1>1. IsFiniteSet(1 .. sent)
  BY FS_Interval, MaxMsgsAssumption DEF PlaceInv, IInv, TypeOK
<1>2. Later(m) \in SUBSET (1 .. sent)
  BY DEF Later, Kept
<1> QED
  BY <1>1, <1>2, FS_Subset, FS_CardinalityType

\* A message kept is in a frame, in the queue, in hand or parsed.
LEMMA KeptIs == ASSUME PlaceInv PROVE Kept = Seen \cup Waiting
  BY DEF PlaceInv, OnePlace, Kept

\* A step that takes no frame for a message: no message becomes later than
\* another.
LEMMA OvertakingKept ==
  ASSUME PlaceInv, PlaceInv', Overtaking, sock' = sock, skq' = <<>>, head' = head,
         \A f \in Frames : status'[f] # "copy",
         pc' = "parse" => sock.use_mmap,
         \A f \in Pending' : f \in Pending /\ content'[f] \in {content[f], 0},
         Kept' \subseteq Kept, sock.rcvbuf = 0 => Overtaken'
  PROVE  Overtaking'
<1> SUFFICES ASSUME sock.rcvbuf = 0, NEW f \in Pending', content'[f] # 0
             PROVE  Cardinality(Later(content[f])') <= Distance(f)'
  BY DEF Overtaking
<1>1. f \in Pending /\ f \in Frames /\ content'[f] = content[f] /\ content[f] # 0
  BY DEF Pending
<1>2. Later(content[f])' \in SUBSET Later(content[f])
  BY <1>1 DEF Later
<1>3. Cardinality(Later(content[f])') <= Cardinality(Later(content[f]))
  BY <1>2, LaterFinite, FS_Subset
<1>4. Cardinality(Later(content[f])) <= Distance(f) /\ Distance(f)' = Distance(f)
  BY <1>1 DEF Overtaking, Distance
<1>5. /\ Cardinality(Later(content[f])) \in Nat /\ Cardinality(Later(content[f])') \in Nat
      /\ Distance(f) \in Int
  <2>1. IsFiniteSet(Later(content[f])')
    BY <1>2, LaterFinite, FS_Subset
  <2>2. head \in Frames
    BY DEF PlaceInv, IInv, TypeOK
  <2>3. Distance(f) \in Int
    BY <1>1, <2>2, FrameNrAssumption DEF Distance, Frames
  <2> QED
    BY <2>1, <2>3, LaterFinite, FS_CardinalityType
<1> QED
  BY <1>3, <1>4, <1>5

\* The kernel takes a frame that holds none of the messages that wait: each of
\* them is one message and one frame further behind.
LEMMA OvertakingReserve ==
  ASSUME PlaceInv, PlaceInv', Overtaking, KReserve
  PROVE  Overtaking'
<1> SUFFICES ASSUME sock.rcvbuf = 0 PROVE Overtaking'
  BY DEF KReserve, Overtaking
<1>1. /\ UNCHANGED <<sock, skq, pc, got, cur, delivered, dropped, lost>>
      /\ sock.use_mmap /\ head \in Frames /\ sent' = sent + 1 /\ sent \in Nat
      /\ status[head] = "unused" /\ head' = NextFrame(head)
      /\ status \in [Frames -> Status] /\ content \in [Frames -> 0 .. MaxMsgs]
      /\ status' = [status EXCEPT ![head] = "reserved"]
      /\ content' = [content EXCEPT ![head] = sent + 1]
  BY MaxMsgsAssumption DEF KReserve, HeadFree, readerVars, historyVars, PlaceInv,
     IInv, TypeOK
<1>2. /\ \A f \in Frames : status'[f] # "copy"
      /\ skq' = <<>> /\ Overtaken' /\ (pc' = "parse" => sock'.use_mmap)
  BY <1>1 DEF Overtaking, Overtaken
<1>3. ASSUME NEW f \in Pending', content'[f] # 0
      PROVE  Cardinality(Later(content[f])') <= Distance(f)'
  <2>1. f \in Frames /\ head' = IF head = FrameNr - 1 THEN 0 ELSE head + 1
    BY <1>1, NextFrameIs DEF Pending
  <2>2. \A n \in Kept' : n = sent + 1 \/ (n \in Kept /\ n <= sent)
    BY <1>1 DEF Kept
  <2>3. CASE f = head
    <3>1. Later(content[f])' = {}
      BY <1>1, <2>2, <2>3 DEF Later, Kept
    <3>2. Distance(f)' = 0
      BY <2>1, <2>3, FrameNrAssumption DEF Distance, Frames
    <3> QED
      BY <3>1, <3>2, FS_EmptySet
  <2>4. CASE f # head
    <3>1. f \in Pending /\ content'[f] = content[f] /\ content[f] # 0
      BY <1>1, <1>3, <2>1, <2>4 DEF Pending
    <3>2. Later(content[f])' \in SUBSET (Later(content[f]) \cup {sent + 1})
      BY <2>2, <3>1 DEF Later
    <3>3. /\ IsFiniteSet(Later(content[f]) \cup {sent + 1})
          /\ Cardinality(Later(content[f]) \cup {sent + 1})
               \in {Cardinality(Later(content[f])), Cardinality(Later(content[f])) + 1}
      BY LaterFinite, FS_AddElement
    <3>4. /\ Cardinality(Later(content[f])')
               <= Cardinality(Later(content[f]) \cup {sent + 1})
          /\ Cardinality(Later(content[f])') \in Nat
      BY <3>2, <3>3, FS_Subset, FS_CardinalityType
    <3>5. Distance(f)' = Distance(f) + 1 /\ Distance(f) \in Int
      BY <1>1, <2>1, <2>4, FrameNrAssumption DEF Distance, Frames
    <3>6. Cardinality(Later(content[f])) <= Distance(f)
      BY <3>1 DEF Overtaking
    <3> QED
      BY <3>3, <3>4, <3>5, <3>6, LaterFinite
  <2> QED
    BY <2>3, <2>4
<1> QED
  BY <1>2, <1>3 DEF Overtaking

\* The message being parsed has been overtaken by fewer messages than there
\* are frames, and so had the ones before it.
LEMMA OvertakenParse ==
  ASSUME PlaceInv, Overtaking, sock.rcvbuf = 0, Parse
  PROVE  Overtaken'
<1>1. /\ pc = "parse" /\ content[cur] = got /\ got # 0 /\ cur \in Frames
      /\ delivered \in Seq(0 .. MaxMsgs) /\ delivered' = Append(delivered, got)
      /\ status[cur] = "valid" /\ head \in Frames
  BY DEF Parse, PlaceInv, IInv, TypeOK, FrameStable, Overtaking
<1>2. Cardinality(Later(got)) <= Distance(cur) /\ Distance(cur) < FrameNr
      /\ Distance(cur) \in Int
  BY <1>1, FrameNrAssumption DEF Overtaking, Pending, Distance, Frames
<1>3. Overtaken
  BY DEF Overtaking
<1>4. DOMAIN delivered' = 1 .. Len(delivered) + 1 /\ Len(delivered) \in Nat
      /\ DOMAIN delivered = 1 .. Len(delivered)
      /\ \A i \in 1 .. Len(delivered) : delivered'[i] = delivered[i]
      /\ delivered'[Len(delivered) + 1] = got
  BY <1>1
<1>5. ASSUME NEW j \in DOMAIN delivered'
      PROVE  Cardinality({i \in 1 .. j - 1 : delivered'[i] > delivered'[j]}) < FrameNr
  <2>1. CASE j \in DOMAIN delivered
    <3>1. {i \in 1 .. j - 1 : delivered'[i] > delivered'[j]}
            = {i \in 1 .. j - 1 : delivered[i] > delivered[j]}
      BY <1>4, <2>1
    <3> QED
      BY <1>3, <2>1, <3>1 DEF Overtaken
  <2>2. CASE j = Len(delivered) + 1
    <3> DEFINE I == {i \in 1 .. Len(delivered) : delivered[i] > got}
               f == [i \in I |-> delivered[i]]
    <3>1. {i \in 1 .. j - 1 : delivered'[i] > delivered'[j]} = I
      BY <1>4, <2>2
    <3>2. f \in Injection(I, Later(got))
      <4>1. \A i \in I : delivered[i] \in Seen /\ delivered[i] > got
        BY <1>4 DEF Seen
      <4>2. \A i \in I : delivered[i] \in Later(got)
        BY <4>1, KeptIs DEF Later
      <4>3. \A i, k \in I : delivered[i] = delivered[k] => i = k
        BY <1>4 DEF PlaceInv, NoTwins
      <4> QED
        BY <4>2, <4>3 DEF Injection, IsInjective
    <3>3. Cardinality(I) <= Cardinality(Later(got)) /\ IsFiniteSet(I)
      BY <3>2, LaterFinite, FS_Injection
    <3>4. Cardinality(I) \in Nat
      BY <3>3, FS_CardinalityType
    <3> HIDE DEF I
    <3> QED
      BY <1>2, <3>1, <3>3, <3>4, LaterFinite, FrameNrAssumption
  <2> QED
    BY <1>4, <2>1, <2>2
<1> QED
  BY <1>5 DEF Overtaken

\* No step lets a message be overtaken further than that.
LEMMA OvertakingInv == PlaceInv /\ PlaceInv' /\ Overtaking /\ [Next]_vars => Overtaking'
<1> SUFFICES ASSUME PlaceInv, PlaceInv', Overtaking, [Next]_vars, sock'.rcvbuf = 0
             PROVE  Overtaking'
  BY DEF Overtaking
<1>1. /\ sent \in Nat /\ status \in [Frames -> Status] /\ content \in [Frames -> 0 .. MaxMsgs]
      /\ cur \in Frames
  <2>1. TypeOK
    BY DEF PlaceInv, IInv
  <2> QED
    BY <2>1, MaxMsgsAssumption DEF TypeOK
<1>2. CASE /\ FrameInit \/ PollIn \/ PollFail \/ RecvValid \/ RecvFail \/ Release
              \/ KDrop \/ UNCHANGED vars
  <2>1. /\ UNCHANGED <<sock, skq, head, content, delivered>>
        /\ status' = status \/ status' = [status EXCEPT ![cur] = "unused"]
    BY <1>2 DEF FrameInit, TakeFrame, PollIn, PollFor, PollFail, RecvValid, RecvFrame,
       RecvFail, Release, ReleaseIn, KDrop, vars, readerVars, historyVars
  <2>2. Kept' \subseteq Kept
    BY <1>1, <1>2 DEF FrameInit, TakeFrame, PollIn, PollFor, PollFail, RecvValid, RecvFrame,
       RecvFail, Release, ReleaseIn, KDrop, vars, readerVars, historyVars, Kept
  <2>3. \A f \in Pending' : f \in Pending
    BY <1>1, <1>2 DEF FrameInit, TakeFrame, PollIn, PollFor, PollFail, RecvValid, RecvFrame,
       RecvFail, Release, ReleaseIn, KDrop, vars, readerVars, historyVars, Pending,
       PlaceInv, Handed, IInv, FramesOwned
  <2>4. pc' = "parse" => sock.use_mmap
    BY <1>2 DEF FrameInit, TakeFrame, WaitFor, PollIn, PollFor, PollFail, RecvValid,
       RecvFrame, RecvFail, Release, ReleaseIn, KDrop, vars, readerVars, Overtaking,
       PlaceInv, IInv, FramesOwned, TypeOK
  <2>5. Overtaken' /\ sock.rcvbuf = 0
    BY <2>1 DEF Overtaking, Overtaken
  <2>6. skq' = <<>> /\ \A f \in Frames : status'[f] # "copy"
    BY <1>1, <2>1, <2>5 DEF Overtaking
  <2>7. \A f \in Pending' : f \in Pending /\ content'[f] \in {content[f], 0}
    BY <2>1, <2>3
  <2> QED
    BY <2>1, <2>2, <2>4, <2>5, <2>6, <2>7, OvertakingKept
<1>3. CASE RecvCopy \/ KCopy \/ KQueue
  BY <1>3 DEF RecvCopy, RecvInto, KCopy, KQueue, QueueFull, Overtaking
<1>4. CASE Parse
  <2>1. UNCHANGED <<sock, skq, head, content, status, cur, got, sent, dropped, lost>>
        /\ pc' = "release"
    BY <1>4 DEF Parse
  <2>2. Kept' = Kept /\ Pending' \subseteq Pending
    BY <1>4, <2>1 DEF Kept, Pending, Parse
  <2> QED
    BY <1>4, <2>1, <2>2, OvertakingKept, OvertakenParse DEF Overtaking
<1>5. CASE KReserve
  BY <1>5, OvertakingReserve
<1>6. ASSUME NEW f \in Frames, KCommit(f) \/ KAbort(f) PROVE Overtaking'
  <2>1. /\ UNCHANGED <<sock, skq, head, cur, pc, got, delivered>>
        /\ status[f] = "reserved" /\ status' = [status EXCEPT ![f] = "valid"]
        /\ content' = content \/ content' = [content EXCEPT ![f] = 0]
    BY <1>6 DEF KCommit, KAbort, readerVars, historyVars
  <2>2. Kept' \subseteq Kept
    BY <1>6 DEF KCommit, KAbort, Kept, historyVars
  <2>3. \A g \in Pending' : g \in Pending /\ content'[g] \in {content[g], 0}
    BY <1>1, <2>1 DEF Pending, PlaceInv, Handed
  <2> QED
    BY <1>1, <2>1, <2>2, <2>3, OvertakingKept DEF Overtaking, Overtaken
<1> QED
  BY <1>2, <1>3, <1>4, <1>5, <1>6 DEF Next, Reader, Kernel

\* Where every message is built in its frame, a message is overtaken by fewer
\* messages than the ring has frames, however often poll() fails.
THEOREM OvertakingBounded == Spec => []Overtaken
<1>1. Init => Overtaking
  BY DEF Init, Overtaking, Overtaken, Pending
<1>2. Overtaking => Overtaken
  BY DEF Overtaking, Overtaken
<1> QED
  BY <1>1, <1>2, OvertakingInv, PlaceInvariance, PTL DEF Spec

-----------------------------------------------------------------------------
(* A socket without failures is a lossy channel *)

\* The COPY frames whose message is in the queue.
Untaken == {f \in Copies : ~ (f = cur /\ CopyTaken)}
InUse   == {f \in Frames : status[f] # "unused"}

\* When the kernel takes a frame it sends a message, msg[f]. The frames in use,
\* from the reader's to the kernel's, have theirs in order; what a frame holds
\* is its message unless the kernel gave that up, and the queue holds just the
\* messages of the COPY frames.
FramesOrdered(msg) ==
  /\ \A f, g \in InUse : Distance(f) > Distance(g) => msg[f] < msg[g]
  /\ \A f \in Pending : content[f] \in {0, msg[f]}
  /\ \A i \in DOMAIN skq : \E f \in Untaken : msg[f] = skq[i]
  /\ \A f \in Untaken : \E i \in DOMAIN skq : msg[f] = skq[i]
  /\ pc = "parse" => got = msg[cur]
  /\ pc = "release" /\ status[cur] = "copy" => got # 0

\* Without failures frames and queue hold their messages in the order in which
\* they were sent, behind the one in the reader's hand.
FifoInv == faults = 0 =>
  /\ \A i, j \in DOMAIN skq : i < j => skq[i] < skq[j]
  /\ IF sock.use_mmap
     THEN \E msg \in [Frames -> 0 .. sent] : FramesOrdered(msg)
     ELSE pc = "parse" => \A i \in DOMAIN skq : got < skq[i]

\* The messages of a set, oldest first.
Sorted(q, w) ==
  /\ q \in Seq(Nat)
  /\ w = {q[i] : i \in DOMAIN q}
  /\ \A i, j \in DOMAIN q : i < j => q[i] < q[j]

\* There is one such sequence, the one InFlight counts out.
LEMMA SortedIs ==
  ASSUME NEW q, NEW w, Sorted(q, w)
  PROVE  [i \in 1 .. Cardinality(w) |->
            CHOOSE m \in w : Cardinality({n \in w : n <= m}) = i] = q
<1>1. /\ q \in Seq(Nat) /\ Len(q) \in Nat /\ DOMAIN q = 1 .. Len(q)
      /\ \A i \in 1 .. Len(q) : q[i] \in Nat
      /\ w = {q[i] : i \in 1 .. Len(q)}
      /\ \A i, j \in 1 .. Len(q) : i < j => q[i] < q[j]
  BY DEF Sorted
<1>2. ASSUME NEW k \in 0 .. Len(q) PROVE Cardinality({q[i] : i \in 1 .. k}) = k
  <2> DEFINE S == {q[i] : i \in 1 .. k}
             f == [i \in 1 .. k |-> q[i]]
  <2>1. f \in Bijection(1 .. k, S)
    <3>1. \A i, j \in 1 .. k : f[i] = f[j] => i = j
      BY <1>1
    <3>2. \A m \in S : \E i \in 1 .. k : f[i] = m
      OBVIOUS
    <3>3. f \in [1 .. k -> S]
      OBVIOUS
    <3> QED
      BY <3>1, <3>2, <3>3 DEF Bijection, Injection, Surjection, IsInjective
  <2>2. ExistsBijection(1 .. k, S)
    BY <2>1 DEF ExistsBijection
  <2> QED
    BY <2>2, FS_CountingElements
<1>3. Cardinality(w) = Len(q)
  BY <1>1, <1>2
<1>4. ASSUME NEW k \in 1 .. Len(q) PROVE Cardinality({n \in w : n <= q[k]}) = k
  <2>1. {n \in w : n <= q[k]} = {q[i] : i \in 1 .. k}
    <3>1. \A i \in 1 .. Len(q) : q[i] <= q[k] <=> i <= k
      BY <1>1
    <3> QED
      BY <1>1, <3>1
  <2> QED
    BY <1>2, <2>1
<1>5. ASSUME NEW k \in 1 .. Len(q)
      PROVE  (CHOOSE m \in w : Cardinality({n \in w : n <= m}) = k) = q[k]
  <2>1. q[k] \in w /\ Cardinality({n \in w : n <= q[k]}) = k
    BY <1>1, <1>4
  <2>2. \A m \in w : Cardinality({n \in w : n <= m}) = k => m = q[k]
    BY <1>1, <1>4
  <2> QED
    BY <2>1, <2>2
<1>6. q = [i \in 1 .. Len(q) |-> q[i]]
  BY <1>1
<1> QED
  BY <1>3, <1>5, <1>6

\* A message sent later goes to the end.
LEMMA SortedAppend ==
  ASSUME NEW q, NEW w, Sorted(q, w), NEW s \in Nat, \A m \in w : m < s
  PROVE  Sorted(Append(q, s), w \cup {s})
<1>1. /\ q \in Seq(Nat) /\ Len(q) \in Nat /\ DOMAIN q = 1 .. Len(q)
      /\ Append(q, s) \in Seq(Nat) /\ DOMAIN Append(q, s) = 1 .. Len(q) + 1
      /\ \A i \in 1 .. Len(q) : Append(q, s)[i] = q[i] /\ q[i] < s
      /\ Append(q, s)[Len(q) + 1] = s
      /\ w = {q[i] : i \in 1 .. Len(q)}
      /\ \A i, j \in 1 .. Len(q) : i < j => q[i] < q[j]
  BY DEF Sorted
<1>2. w \cup {s} = {Append(q, s)[i] : i \in 1 .. Len(q) + 1}
  BY <1>1
<1>3. \A i, j \in 1 .. Len(q) + 1 : i < j => Append(q, s)[i] < Append(q, s)[j]
  BY <1>1
<1> QED
  BY <1>1, <1>2, <1>3 DEF Sorted

\* A message given up leaves a gap that closes.
LEMMA SortedRemove ==
  ASSUME NEW q, NEW w, Sorted(q, w), NEW k \in DOMAIN q
  PROVE  Sorted(Channel!RemoveAt(q, k), w \ {q[k]})
<1> DEFINE r == Channel!RemoveAt(q, k)
<1>1. /\ q \in Seq(Nat) /\ Len(q) \in Nat /\ DOMAIN q = 1 .. Len(q) /\ k \in 1 .. Len(q)
      /\ w = {q[i] : i \in 1 .. Len(q)}
      /\ \A i, j \in 1 .. Len(q) : i < j => q[i] < q[j]
      /\ \A i \in 1 .. Len(q) : q[i] \in Nat
  BY DEF Sorted
<1>2. /\ r \in Seq(Nat) /\ DOMAIN r = 1 .. Len(q) - 1
      /\ \A i \in 1 .. Len(q) - 1 : r[i] = IF i < k THEN q[i] ELSE q[i + 1]
  <2> DEFINE a == SubSeq(q, 1, k - 1)
             b == SubSeq(q, k + 1, Len(q))
  <2>1. /\ a \in Seq(Nat) /\ Len(a) = k - 1
        /\ \A i \in 1 .. k - 1 : a[i] = q[i]
    BY <1>1
  <2>2. /\ b \in Seq(Nat) /\ Len(b) = Len(q) - k
        /\ \A i \in 1 .. Len(q) - k : b[i] = q[k + i]
    <3>1. \A i \in k + 1 .. Len(q) : q[i] \in Nat
      BY <1>1
    <3>2. /\ b \in Seq(Nat)
          /\ Len(b) = IF k + 1 <= Len(q) THEN Len(q) - (k + 1) + 1 ELSE 0
          /\ \A i \in 1 .. Len(q) - (k + 1) + 1 : b[i] = q[k + 1 + i - 1]
      <4>1. k + 1 \in Int /\ Len(q) \in Int
        BY <1>1
      <4> QED
        BY <3>1, <4>1, SubSeqProperties
    <3>3. \A i \in 1 .. Len(q) - k : i \in 1 .. Len(q) - (k + 1) + 1 /\ k + 1 + i - 1 = k + i
      BY <1>1
    <3> QED
      BY <1>1, <3>2, <3>3
  <2>3. r = a \o b
    BY DEF Channel!RemoveAt
  <2> HIDE DEF a, b, r
  <2>4. /\ r \in Seq(Nat) /\ Len(r) = Len(q) - 1
        /\ \A i \in 1 .. Len(q) - 1 : r[i] = IF i <= k - 1 THEN a[i] ELSE b[i - (k - 1)]
    <3>1. /\ r \in Seq(Nat) /\ Len(r) = Len(a) + Len(b)
          /\ \A i \in 1 .. Len(a) + Len(b) : r[i] = IF i <= Len(a) THEN a[i]
                                                    ELSE b[i - Len(a)]
      BY <2>1, <2>2, <2>3, ConcatProperties
    <3>2. Len(a) + Len(b) = Len(q) - 1
      BY <1>1, <2>1, <2>2
    <3> QED
      BY <2>1, <3>1, <3>2
  <2>5. ASSUME NEW i \in 1 .. Len(q) - 1 PROVE r[i] = IF i < k THEN q[i] ELSE q[i + 1]
    <3>1. CASE i < k
      BY <1>1, <2>1, <2>4, <3>1
    <3>2. CASE ~ (i < k)
      <4>1. /\ ~ (i <= k - 1) /\ i - (k - 1) \in 1 .. Len(q) - k
            /\ k + (i - (k - 1)) = i + 1
        BY <1>1, <3>2
      <4>2. r[i] = b[i - (k - 1)]
        BY <2>4, <4>1
      <4> QED
        BY <2>2, <3>2, <4>1, <4>2
    <3> QED
      BY <3>1, <3>2
  <2>6. DOMAIN r = 1 .. Len(q) - 1
    BY <2>4
  <2> QED
    BY <2>4, <2>5, <2>6
<1> HIDE DEF r
<1>3. w \ {q[k]} = {r[i] : i \in 1 .. Len(q) - 1}
  <2>1. ASSUME NEW i \in 1 .. Len(q) - 1 PROVE r[i] \in w /\ r[i] # q[k]
    <3>1. PICK j \in 1 .. Len(q) : j # k /\ r[i] = q[j]
      BY <1>1, <1>2
    <3> QED
      BY <1>1, <3>1
  <2>2. \A i \in 1 .. Len(q) : i # k =>
           LET j == IF i < k THEN i ELSE i - 1 IN j \in 1 .. Len(q) - 1 /\ r[j] = q[i]
    BY <1>1, <1>2
  <2>3. \A m \in w : m # q[k] => \E j \in 1 .. Len(q) - 1 : r[j] = m
    BY <1>1, <2>2
  <2> QED
    BY <2>1, <2>3
<1>4. ASSUME NEW i \in 1 .. Len(q) - 1, NEW j \in 1 .. Len(q) - 1, i < j
      PROVE  r[i] < r[j]
  <2>1. PICK x \in 1 .. Len(q) : r[i] = q[x] /\ x = IF i < k THEN i ELSE i + 1
    <3>1. i \in 1 .. Len(q) /\ i + 1 \in 1 .. Len(q)
      BY <1>1
    <3> QED
      BY <1>2, <3>1
  <2>2. PICK y \in 1 .. Len(q) : r[j] = q[y] /\ y = IF j < k THEN j ELSE j + 1
    <3>1. j \in 1 .. Len(q) /\ j + 1 \in 1 .. Len(q)
      BY <1>1
    <3> QED
      BY <1>2, <3>1
  <2>3. x < y
    BY <1>1, <1>4, <2>1, <2>2
  <2> QED
    BY <1>1, <2>1, <2>2, <2>3
<1> QED
  BY <1>2, <1>3, <1>4 DEF Sorted, r

\* The oldest message is the first.
LEMMA SortedTail ==
  ASSUME NEW q, NEW w, Sorted(q, w), NEW m \in w, \A n \in w : m <= n
  PROVE  q # <<>> /\ Head(q) = m /\ Sorted(Tail(q), w \ {m})
<1>1. /\ q \in Seq(Nat) /\ Len(q) \in Nat /\ DOMAIN q = 1 .. Len(q)
      /\ w = {q[i] : i \in 1 .. Len(q)}
      /\ \A i, j \in 1 .. Len(q) : i < j => q[i] < q[j]
      /\ \A i \in 1 .. Len(q) : q[i] \in Nat
  BY DEF Sorted
<1>2. PICK k \in 1 .. Len(q) : q[k] = m
  BY <1>1
<1>3. 1 \in 1 .. Len(q) /\ q[1] \in w /\ m <= q[1]
  BY <1>1, <1>2
<1>4. k = 1
  BY <1>1, <1>2, <1>3
<1>5. q # <<>> /\ Head(q) = m
  BY <1>1, <1>2, <1>4
<1>6. /\ Tail(q) \in Seq(Nat) /\ DOMAIN Tail(q) = 1 .. Len(q) - 1
      /\ \A i \in 1 .. Len(q) - 1 : Tail(q)[i] = q[i + 1]
  BY <1>1, <1>5
<1>7. w \ {m} = {Tail(q)[i] : i \in 1 .. Len(q) - 1}
  <2>1. \A i \in 1 .. Len(q) - 1 : Tail(q)[i] \in w /\ Tail(q)[i] # m
    BY <1>1, <1>2, <1>4, <1>6
  <2>2. \A i \in 1 .. Len(q) : i # 1 => i - 1 \in 1 .. Len(q) - 1 /\ Tail(q)[i - 1] = q[i]
    BY <1>1, <1>6
  <2>3. \A n \in w : n # m => \E j \in 1 .. Len(q) - 1 : Tail(q)[j] = n
    BY <1>1, <1>2, <1>4, <2>2
  <2> QED
    BY <2>1, <2>3
<1>8. \A i, j \in 1 .. Len(q) - 1 : i < j => Tail(q)[i] < Tail(q)[j]
  BY <1>1, <1>6
<1> QED
  BY <1>5, <1>6, <1>7, <1>8 DEF Sorted

\* The reader is on the oldest of the frames in use.
LEMMA ReaderOldest ==
  ASSUME PlaceInv, InStep, faults = 0, sock.use_mmap, pc # "init", cur \in InUse,
         NEW f \in InUse, f # cur
  PROVE  Distance(f) < Distance(cur)
<1>1. /\ f \in Frames /\ cur \in Frames /\ head \in Frames /\ ReaderAt = cur
      /\ status[f] # "unused" /\ status[cur] # "unused"
  BY DEF PlaceInv, IInv, TypeOK, ReaderAt, InUse
<1>2. CASE cur = head
  BY <1>1, <1>2, FrameNrAssumption DEF Distance, Frames
<1>3. CASE cur # head
  <2>1. Between(f, cur, head) /\ Between(cur, cur, head)
    BY <1>1, <1>3 DEF InStep
  <2> QED
    BY <1>1, <1>3, <2>1, FrameNrAssumption DEF Distance, Frames, Between
<1> QED
  BY <1>2, <1>3

\* No two frames are equally far behind the kernel's head.
LEMMA DistanceApart ==
  ASSUME PlaceInv, NEW f \in Frames, NEW g \in Frames, f # g
  PROVE  /\ Distance(f) \in Nat /\ Distance(g) \in Nat
         /\ Distance(f) < Distance(g) \/ Distance(g) < Distance(f)
<1>1. head \in Frames
  BY DEF PlaceInv, IInv, TypeOK
<1> QED
  BY <1>1, FrameNrAssumption DEF Distance, Frames

\* A step that sends nothing into a frame or the queue and takes nothing from
\* the queue keeps the order.
LEMMA FifoKept ==
  ASSUME PlaceInv, FifoInv, faults = 0, UNCHANGED <<sock, skq, head>>,
         sent' \in Nat, sent <= sent', InUse' \subseteq InUse, Untaken' = Untaken,
         \A f \in Pending' : f \in Pending /\ content'[f] \in {content[f], 0},
         pc' = "parse" => /\ cur' = cur /\ got' # 0
                          /\ \/ pc = "parse" /\ got' = got
                             \/ cur \in Pending /\ got' = content[cur],
         pc' = "release" /\ status'[cur'] = "copy" => got' # 0
  PROVE  FifoInv'
<1>1. \A i, j \in DOMAIN skq' : i < j => skq'[i] < skq'[j]
  BY DEF FifoInv
<1>2. CASE sock.use_mmap
  <2>1. PICK msg \in [Frames -> 0 .. sent] : FramesOrdered(msg)
    BY <1>2 DEF FifoInv
  <2>2. msg \in [Frames -> 0 .. sent'] /\ sent \in Nat
    BY MaxMsgsAssumption DEF PlaceInv, IInv, TypeOK
  <2>3. \A f : Distance(f)' = Distance(f)
    BY DEF Distance
  <2>4. \A f, g \in InUse' : Distance(f)' > Distance(g)' => msg[f] < msg[g]
    BY <2>1, <2>3 DEF FramesOrdered
  <2>5. \A f \in Pending' : content'[f] \in {0, msg[f]}
    BY <2>1 DEF FramesOrdered
  <2>6. /\ \A i \in DOMAIN skq' : \E f \in Untaken' : msg[f] = skq'[i]
        /\ \A f \in Untaken' : \E i \in DOMAIN skq' : msg[f] = skq'[i]
    BY <2>1 DEF FramesOrdered
  <2>7. pc' = "parse" => got' = msg[cur']
    BY <2>1 DEF FramesOrdered
  <2>8. FramesOrdered(msg)'
    BY <2>4, <2>5, <2>6, <2>7 DEF FramesOrdered
  <2> QED
    BY <1>1, <1>2, <2>2, <2>8 DEF FifoInv
<1>3. CASE ~ sock.use_mmap
  <2>1. Pending = {}
    BY <1>3 DEF Pending, PlaceInv, IInv, FramesOwned
  <2>2. pc' = "parse" => \A i \in DOMAIN skq' : got' < skq'[i]
    BY <1>3, <2>1 DEF FifoInv
  <2> QED
    BY <1>1, <1>3, <2>2 DEF FifoInv
<1> QED
  BY <1>2, <1>3

\* A message sent comes behind all others.
LEMMA SentLater ==
  ASSUME PlaceInv
  PROVE  /\ sent \in Nat /\ \A m \in Waiting \cup Seen : m <= sent /\ m \in Nat
         /\ skq \in Seq(Messages) /\ Len(skq) \in Nat /\ DOMAIN skq = 1 .. Len(skq)
         /\ \A i \in DOMAIN skq : skq[i] \in Nat /\ skq[i] <= sent /\ skq[i] # 0
<1>1. sent \in Nat
  BY MaxMsgsAssumption DEF PlaceInv, IInv, TypeOK
<1>2. Waiting \cup Seen \subseteq 1 .. sent
  BY DEF PlaceInv, OnePlace
<1>3. skq \in Seq(Messages) /\ Len(skq) \in Nat /\ DOMAIN skq = 1 .. Len(skq)
  BY DEF PlaceInv, IInv, TypeOK
<1>4. \A i \in DOMAIN skq : skq[i] \in Waiting
  <2>1. \A i \in DOMAIN skq : skq[i] # 0
    BY <1>3, MaxMsgsAssumption DEF Messages
  <2> QED
    BY <2>1 DEF Waiting
<1> QED
  BY <1>1, <1>2, <1>3, <1>4

\* The kernel takes the frame at its head for a message, built in the frame or
\* queued: it is the last in order.
LEMMA FifoSend ==
  ASSUME PlaceInv, InStep, FifoInv, faults = 0, KReserve \/ KCopy
  PROVE  FifoInv'
<1>1. /\ UNCHANGED <<sock, cur, pc, got, faults>> /\ sock.use_mmap
      /\ head \in Frames /\ head' = NextFrame(head) /\ status[head] = "unused"
      /\ sent' = sent + 1 /\ status \in [Frames -> Status]
      /\ \A f \in Frames : f # head => status'[f] = status[f] /\ content'[f] = content[f]
      /\ status' \in [Frames -> Status]
      /\ cur \in Frames /\ content \in [Frames -> 0 .. MaxMsgs]
      /\ pc \in {"parse", "release", "recv"} => cur # head
  BY DEF KReserve, KCopy, HeadFree, readerVars, historyVars, PlaceInv, IInv, TypeOK,
     Status, InStep, FrameStable, FramesOwned
<1>2. PICK msg \in [Frames -> 0 .. sent] : FramesOrdered(msg)
  BY <1>1 DEF FifoInv
<1>3. PICK next \in [Frames -> 0 .. sent'] :
        /\ next[head] = sent + 1
        /\ \A f \in Frames : f # head => next[f] = msg[f] /\ msg[f] <= sent /\ msg[f] \in Nat
  <2>1. [msg EXCEPT ![head] = sent + 1] \in [Frames -> 0 .. sent']
    BY <1>1, <1>2, SentLater
  <2>2. sent \in Nat
    BY SentLater
  <2>3. \A f \in Frames : msg[f] <= sent /\ msg[f] \in Nat
    BY <1>2, <2>2
  <2>4. /\ [msg EXCEPT ![head] = sent + 1][head] = sent + 1
        /\ \A f \in Frames : f # head => [msg EXCEPT ![head] = sent + 1][f] = msg[f]
    BY <1>1, <1>2
  <2> QED
    BY <2>1, <2>3, <2>4
<1>4. /\ \A f \in InUse' : f # head => f \in InUse
      /\ InUse \subseteq Frames /\ head \notin InUse /\ InUse' \subseteq Frames
  BY <1>1 DEF InUse
<1>5. \A f, g \in InUse' : Distance(f)' > Distance(g)' => next[f] < next[g]
  <2> SUFFICES ASSUME NEW f \in InUse', NEW g \in InUse', Distance(f)' > Distance(g)'
               PROVE  next[f] < next[g]
    OBVIOUS
  <2>1. head' = IF head = FrameNr - 1 THEN 0 ELSE head + 1
    BY <1>1, NextFrameIs
  <2>2. \A h \in Frames : h = head => Distance(h)' = 0
    BY <1>1, <2>1, FrameNrAssumption DEF Distance, Frames
  <2>3. \A h \in Frames : h # head => Distance(h)' = Distance(h) + 1 /\ Distance(h) \in Nat
    BY <1>1, <2>1, FrameNrAssumption DEF Distance, Frames
  <2>4. f # head /\ f \in Frames /\ g \in Frames
    <3>1. f \in Frames /\ g \in Frames
      BY <1>4
    <3>2. Distance(g)' \in Nat
      BY <2>2, <2>3, <3>1
    <3> QED
      BY <2>2, <3>1, <3>2
  <2>5. CASE g = head
    BY <1>3, <2>4, <2>5, SentLater
  <2>6. CASE g # head
    <3>1. Distance(f) > Distance(g) /\ f \in InUse /\ g \in InUse
      BY <1>4, <2>3, <2>4, <2>6
    <3> QED
      BY <1>2, <1>3, <2>4, <2>6, <3>1 DEF FramesOrdered
  <2> QED
    BY <2>5, <2>6
<1>6. \A f \in Pending' : content'[f] \in {0, next[f]}
  <2> SUFFICES ASSUME NEW f \in Pending' PROVE content'[f] \in {0, next[f]}
    OBVIOUS
  <2>1. CASE f # head
    <3>1. f \in Pending /\ content'[f] = content[f] /\ f \in Frames
      BY <1>1, <2>1 DEF Pending
    <3> QED
      BY <1>2, <1>3, <2>1, <3>1 DEF FramesOrdered
  <2>2. CASE f = head
    <3>1. status'[head] # "copy"
      BY <2>2 DEF Pending
    <3>2. content'[head] = sent + 1
      BY <1>1, <3>1 DEF KReserve, KCopy
    <3> QED
      BY <1>3, <2>2, <3>2
  <2> QED
    BY <2>1, <2>2
<1>7. Untaken \subseteq Frames /\ head \notin Untaken
  BY <1>1 DEF Untaken, Copies
<1>8. CopyTaken' = CopyTaken
  BY <1>1 DEF CopyTaken
<1>9. CASE KReserve
  <2>1. Untaken' = Untaken /\ skq' = skq
    BY <1>1, <1>8, <1>9 DEF Untaken, Copies, KReserve
  <2>2. /\ \A i \in DOMAIN skq' : \E f \in Untaken' : next[f] = skq'[i]
        /\ \A f \in Untaken' : \E i \in DOMAIN skq' : next[f] = skq'[i]
    <3>1. \A f \in Untaken : next[f] = msg[f]
      BY <1>3, <1>7
    <3> QED
      BY <1>2, <2>1, <3>1 DEF FramesOrdered
  <2>3. FramesOrdered(next)'
    BY <1>1, <1>2, <1>3, <1>5, <1>6, <2>2 DEF FramesOrdered
  <2> QED
    BY <1>1, <1>3, <2>1, <2>3 DEF FifoInv
<1>10. CASE KCopy
  <2>1. /\ Untaken' = Untaken \cup {head} /\ skq' = Append(skq, sent + 1)
    BY <1>1, <1>8, <1>10 DEF Untaken, Copies, KCopy, CopyTaken
  <2>2. /\ DOMAIN skq' = 1 .. Len(skq) + 1 /\ DOMAIN skq = 1 .. Len(skq) /\ Len(skq) \in Nat
        /\ \A i \in 1 .. Len(skq) : skq'[i] = skq[i]
        /\ skq'[Len(skq) + 1] = sent + 1
    BY <2>1, SentLater
  <2>3. \A f \in Untaken : next[f] = msg[f]
    BY <1>3, <1>7
  <2>4. \A i \in DOMAIN skq' : \E f \in Untaken' : next[f] = skq'[i]
    <3> SUFFICES ASSUME NEW i \in DOMAIN skq' PROVE \E f \in Untaken' : next[f] = skq'[i]
      OBVIOUS
    <3>1. CASE i \in DOMAIN skq
      BY <1>2, <2>1, <2>2, <2>3, <3>1 DEF FramesOrdered
    <3>2. CASE i = Len(skq) + 1
      BY <1>3, <2>1, <2>2, <3>2
    <3> QED
      BY <2>2, <3>1, <3>2
  <2>5. \A f \in Untaken' : \E i \in DOMAIN skq' : next[f] = skq'[i]
    <3> SUFFICES ASSUME NEW f \in Untaken' PROVE \E i \in DOMAIN skq' : next[f] = skq'[i]
      OBVIOUS
    <3>1. CASE f = head
      <4>1. Len(skq) + 1 \in DOMAIN skq'
        BY <2>2
      <4> QED
        BY <1>3, <2>2, <3>1, <4>1
    <3>2. CASE f \in Untaken
      <4>1. PICK i \in DOMAIN skq : msg[f] = skq[i]
        BY <1>2, <3>2 DEF FramesOrdered
      <4>2. i \in DOMAIN skq' /\ skq'[i] = skq[i]
        BY <2>2, <4>1
      <4> QED
        BY <2>3, <3>2, <4>1, <4>2
    <3> QED
      BY <2>1, <3>1, <3>2
  <2>6. FramesOrdered(next)'
    BY <1>1, <1>2, <1>3, <1>5, <1>6, <2>4, <2>5 DEF FramesOrdered
  <2>7. \A i, j \in DOMAIN skq' : i < j => skq'[i] < skq'[j]
    <3>1. /\ \A i \in 1 .. Len(skq) : skq[i] \in Nat /\ skq[i] <= sent
          /\ \A i, j \in 1 .. Len(skq) : i < j => skq[i] < skq[j]
          /\ sent \in Nat
      BY <2>2, SentLater DEF FifoInv
    <3> QED
      BY <2>2, <3>1
  <2> QED
    BY <1>1, <1>3, <2>6, <2>7 DEF FifoInv
<1> QED
  BY <1>9, <1>10

\* A COPY frame is released with its message taken.
LEMMA CopyIsTaken ==
  ASSUME PlaceInv, FifoInv, faults = 0, pc = "release", status[cur] = "copy"
  PROVE  got # 0 /\ CopyTaken
<1>1. sock.use_mmap
  BY DEF PlaceInv, IInv, TypeOK, FramesOwned
<1> QED
  BY <1>1 DEF FifoInv, FramesOrdered, CopyTaken

\* recv() on a COPY frame takes the message the kernel took the frame for: of
\* those in the queue it is the first, as the frame is the oldest in use.
LEMMA FifoRecvCopy ==
  ASSUME PlaceInv, InStep, FifoInv, faults = 0, RecvCopy
  PROVE  FifoInv'
<1>1. /\ UNCHANGED <<sock, status, cur, head, sent, faults>> /\ pc = "recv" /\ pc' = "parse"
      /\ skq # <<>> /\ skq' = Tail(skq) /\ got' = skq[1] /\ cur \in Frames
      /\ content \in [Frames -> 0 .. MaxMsgs]
      /\ \A f \in Frames : f # cur => content'[f] = content[f]
      /\ ~ sock.use_mmap \/ status[cur] = "copy"
  BY DEF RecvCopy, RecvInto, Copying, PlaceInv, IInv, TypeOK
<1>2. /\ DOMAIN skq = 1 .. Len(skq) /\ DOMAIN skq' = 1 .. Len(skq) - 1
      /\ Len(skq) \in Nat \ {0} /\ 1 \in DOMAIN skq
      /\ \A i \in 1 .. Len(skq) - 1 : skq'[i] = skq[i + 1]
      /\ \A i \in DOMAIN skq : skq[i] \in Nat
      /\ skq[1] # 0
  BY <1>1, SentLater
<1>3. \A i, j \in DOMAIN skq : i < j => skq[i] < skq[j]
  BY DEF FifoInv
<1>4. ASSUME NEW i \in DOMAIN skq', NEW j \in DOMAIN skq', i < j
      PROVE  skq'[i] < skq'[j]
  <2>1. i + 1 \in DOMAIN skq /\ j + 1 \in DOMAIN skq /\ i + 1 < j + 1
    BY <1>2, <1>4
  <2> QED
    BY <1>2, <1>3, <2>1
<1>5. \A i \in DOMAIN skq' : got' < skq'[i] /\ i + 1 \in DOMAIN skq /\ skq'[i] = skq[i + 1]
  BY <1>1, <1>2, <1>3
<1>6. CASE ~ sock.use_mmap
  BY <1>1, <1>4, <1>5, <1>6 DEF FifoInv
<1>7. CASE sock.use_mmap
  <2>1. PICK msg \in [Frames -> 0 .. sent] : FramesOrdered(msg)
    BY <1>7 DEF FifoInv
  <2>2. /\ cur \in Untaken /\ Untaken' = Untaken \ {cur}
        /\ Untaken \subseteq InUse /\ InUse \subseteq Frames /\ InUse' = InUse
        /\ Pending' = Pending /\ cur \notin Pending /\ Pending \subseteq Frames
    BY <1>1, <1>2, <1>7 DEF Untaken, Copies, CopyTaken, InUse, Pending
  <2>3. \A f \in Frames : msg[f] \in Nat
    BY <2>1, SentLater
  <2>4. \A f \in Untaken : f # cur => msg[cur] < msg[f]
    <3>1. \A f \in Untaken : f # cur => Distance(f) < Distance(cur)
                                        /\ Distance(f) \in Nat /\ Distance(cur) \in Nat
      BY <1>1, <1>7, <2>2, ReaderOldest, DistanceApart
    <3> QED
      BY <2>1, <2>2, <3>1 DEF FramesOrdered
  <2>5. msg[cur] = skq[1]
    <3>1. PICK i \in DOMAIN skq : msg[cur] = skq[i]
      BY <2>1, <2>2 DEF FramesOrdered
    <3>2. PICK f \in Untaken : msg[f] = skq[1]
      BY <1>2, <2>1 DEF FramesOrdered
    <3>3. i = 1 \/ skq[1] < skq[i]
      BY <1>2, <1>3
    <3>4. f = cur \/ msg[cur] < msg[f]
      BY <2>4
    <3> QED
      BY <1>2, <2>2, <2>3, <3>1, <3>2, <3>3, <3>4
  <2>6. \A i \in DOMAIN skq' : \E f \in Untaken' : msg[f] = skq'[i]
    <3> SUFFICES ASSUME NEW i \in DOMAIN skq' PROVE \E f \in Untaken' : msg[f] = skq'[i]
      OBVIOUS
    <3>1. PICK f \in Untaken : msg[f] = skq[i + 1]
      BY <1>5, <2>1 DEF FramesOrdered
    <3>2. skq[1] < skq[i + 1] /\ skq[1] \in Nat
      BY <1>1, <1>2, <1>5
    <3> QED
      BY <1>5, <2>2, <2>5, <3>1, <3>2
  <2>7. \A f \in Untaken' : \E i \in DOMAIN skq' : msg[f] = skq'[i]
    <3> SUFFICES ASSUME NEW f \in Untaken' PROVE \E i \in DOMAIN skq' : msg[f] = skq'[i]
      OBVIOUS
    <3>1. PICK i \in DOMAIN skq : msg[f] = skq[i]
      BY <2>1, <2>2 DEF FramesOrdered
    <3>2. i # 1
      BY <1>2, <2>2, <2>3, <2>4, <2>5, <3>1
    <3>3. i - 1 \in DOMAIN skq' /\ skq'[i - 1] = skq[i]
      BY <1>2, <3>1, <3>2
    <3> QED
      BY <3>1, <3>3
  <2>8. \A f, g \in InUse' : Distance(f)' > Distance(g)' => msg[f] < msg[g]
    <3>1. \A f : Distance(f)' = Distance(f)
      BY <1>1 DEF Distance
    <3> QED
      BY <2>1, <2>2, <3>1 DEF FramesOrdered
  <2>9. \A f \in Pending' : content'[f] \in {0, msg[f]}
    BY <1>1, <2>1, <2>2 DEF FramesOrdered
  <2>10. FramesOrdered(msg)'
    BY <1>1, <2>5, <2>6, <2>7, <2>8, <2>9 DEF FramesOrdered
  <2> QED
    BY <1>1, <1>4, <1>7, <2>1, <2>10 DEF FifoInv
<1> QED
  BY <1>6, <1>7

\* Without failures no step breaks the order.
LEMMA FifoStep == PlaceInv /\ InStep /\ FifoInv /\ [Next]_vars => FifoInv'
<1> SUFFICES ASSUME PlaceInv, InStep, FifoInv, [Next]_vars, faults' = 0 PROVE FifoInv'
  BY DEF FifoInv
<1>1. /\ faults \in Nat /\ sent \in Nat /\ cur \in Frames /\ head \in Frames
      /\ status \in [Frames -> Status] /\ content \in [Frames -> 0 .. MaxMsgs]
      /\ skq \in Seq(Messages)
  <2>1. TypeOK
    BY DEF PlaceInv, IInv
  <2> QED
    BY <2>1, MaxMsgsAssumption, MaxFaultsAssumption DEF TypeOK
<1>2. CASE FrameInit \/ PollIn \/ RecvValid \/ Parse \/ KDrop \/ UNCHANGED vars
  <2>1. /\ UNCHANGED <<sock, status, content, skq, head, faults>>
        /\ pc \in {"parse", "release"} => cur' = cur /\ got' = got
        /\ sent' \in Nat /\ sent <= sent'
    BY <1>1, <1>2 DEF FrameInit, TakeFrame, PollIn, PollFor, RecvValid, RecvFrame, Parse,
       KDrop, vars, readerVars, historyVars
  <2>2. InUse' = InUse
    BY <2>1 DEF InUse
  <2>3. Untaken' = Untaken
    <3>1. Copies' = Copies
      BY <2>1 DEF Copies
    <3>2. CASE CopyTaken \/ CopyTaken'
      <4>1. CopyTaken' /\ CopyTaken /\ cur' = cur
        BY <1>2, <2>1, <3>2 DEF FrameInit, TakeFrame, WaitFor, PollIn, PollFor, RecvValid,
           RecvFrame, Parse, KDrop, vars, readerVars, historyVars, CopyTaken
      <4> QED
        BY <3>1, <4>1 DEF Untaken
    <3>3. CASE ~ CopyTaken /\ ~ CopyTaken'
      BY <3>1, <3>3 DEF Untaken
    <3> QED
      BY <3>2, <3>3
  <2>4. \A f \in Pending' : f \in Pending
    BY <1>2, <2>1 DEF FrameInit, TakeFrame, WaitFor, PollIn, PollFor, RecvValid, RecvFrame,
       Parse, KDrop, vars, readerVars, historyVars, Pending
  <2>5. pc' = "parse" => /\ cur' = cur /\ got' # 0
                         /\ \/ pc = "parse" /\ got' = got
                            \/ cur \in Pending /\ got' = content[cur]
    BY <1>1, <1>2 DEF FrameInit, TakeFrame, WaitFor, PollIn, PollFor, RecvValid, RecvFrame,
       Parse, KDrop, vars, readerVars, historyVars, Pending, PlaceInv, IInv, FrameStable
  <2>6. pc' = "release" /\ status'[cur'] = "copy" => got' # 0
    <3>1. pc' = "release" /\ pc # "release" /\ status'[cur'] = "copy" => got' # 0
      BY <1>2 DEF FrameInit, TakeFrame, WaitFor, PollIn, PollFor, RecvValid, RecvFrame,
         Parse, KDrop, vars, readerVars, historyVars, PlaceInv, IInv, FrameStable
    <3>2. pc = "release" /\ status'[cur'] = "copy" => got' # 0
      BY <2>1, CopyIsTaken
    <3> QED
      BY <3>1, <3>2
  <2>7. faults = 0
    BY <2>1
  <2> QED
    BY <2>1, <2>2, <2>3, <2>4, <2>5, <2>6, <2>7, FifoKept
<1>3. CASE PollFail \/ RecvFail
  BY <1>1, <1>3 DEF PollFail, RecvFail
<1>4. CASE RecvCopy
  BY <1>4, FifoRecvCopy DEF RecvCopy, RecvInto
<1>5. CASE Release
  <2>1. /\ UNCHANGED <<sock, content, skq, head, sent, cur, got, faults>>
        /\ pc = "release" /\ pc' = "init" /\ faults = 0
        /\ \A f \in Frames : f # cur => status'[f] = status[f]
        /\ status'[cur] = IF status[cur] \in {"valid", "copy"} THEN "unused" ELSE status[cur]
        /\ status' \in [Frames -> Status]
    BY <1>1, <1>5 DEF Release, ReleaseIn, Status
  <2>2. InUse' \subseteq InUse
    BY <1>1, <2>1 DEF InUse
  <2>3. Untaken' = Untaken
    <3>1. Untaken' = Copies \ {f \in Frames : f = cur /\ status[cur] = "copy"}
      BY <1>1, <2>1 DEF Untaken, Copies, CopyTaken
    <3>2. Untaken = Copies \ {f \in Frames : f = cur /\ status[cur] = "copy"}
      BY <1>1, <2>1, CopyIsTaken DEF Untaken, Copies, CopyTaken
    <3> QED
      BY <3>1, <3>2
  <2>4. \A f \in Pending' : f \in Pending
    BY <1>1, <2>1 DEF Pending, InStep, PlaceInv, IInv, FramesOwned
  <2> QED
    BY <1>1, <2>1, <2>2, <2>3, <2>4, FifoKept
<1>6. CASE KReserve \/ KCopy
  BY <1>6, FifoSend DEF KReserve, KCopy
<1>7. CASE KQueue
  <2>1. /\ UNCHANGED <<sock, pc, got, faults>> /\ ~ sock.use_mmap /\ sent' = sent + 1
        /\ skq' = Append(skq, sent + 1)
    BY <1>7 DEF KQueue, readerVars
  <2>2. /\ DOMAIN skq = 1 .. Len(skq) /\ DOMAIN skq' = 1 .. Len(skq) + 1 /\ Len(skq) \in Nat
        /\ \A i \in 1 .. Len(skq) : skq'[i] = skq[i] /\ skq[i] \in Nat /\ skq[i] <= sent
        /\ skq'[Len(skq) + 1] = sent + 1
    BY <2>1, SentLater
  <2>3. \A i, j \in DOMAIN skq' : i < j => skq'[i] < skq'[j]
    <3>1. \A i, j \in 1 .. Len(skq) : i < j => skq[i] < skq[j]
      BY <2>1, <2>2 DEF FifoInv
    <3> QED
      BY <1>1, <2>2, <3>1
  <2>4. pc = "parse" => got <= sent /\ got \in Nat
    BY HandWaits, SentLater
  <2>5. pc = "parse" => \A i \in DOMAIN skq' : got < skq'[i]
    <3>1. pc = "parse" => \A i \in 1 .. Len(skq) : got < skq[i]
      BY <2>1, <2>2 DEF FifoInv
    <3> QED
      BY <1>1, <2>2, <2>4, <3>1
  <2> QED
    BY <2>1, <2>3, <2>5 DEF FifoInv
<1>8. ASSUME NEW f \in Frames, KCommit(f) \/ KAbort(f) PROVE FifoInv'
  <2>1. /\ UNCHANGED <<sock, skq, head, sent, cur, pc, got, faults>>
        /\ status[f] = "reserved" /\ status' = [status EXCEPT ![f] = "valid"]
        /\ content' = content \/ content' = [content EXCEPT ![f] = 0]
    BY <1>8 DEF KCommit, KAbort, readerVars, historyVars
  <2>2. InUse' = InUse /\ Copies' = Copies
    BY <1>1, <2>1 DEF InUse, Copies
  <2>3. Untaken' = Untaken
    BY <1>1, <2>1, <2>2 DEF Untaken, CopyTaken
  <2>4. \A g \in Pending' : g \in Pending /\ content'[g] \in {content[g], 0}
    <3>1. f = cur /\ pc = "release" => content[f] # got
      BY <2>1 DEF PlaceInv, Handed, IInv, FramesOwned
    <3>2. f \in Pending
      BY <2>1, <3>1 DEF Pending
    <3> QED
      BY <1>1, <2>1, <3>2 DEF Pending
  <2>5. pc' = "parse" => cur' = cur /\ got' # 0 /\ pc = "parse" /\ got' = got
    BY <2>1 DEF PlaceInv, IInv, FrameStable
  <2>6. pc' = "release" /\ status'[cur'] = "copy" => got' # 0
    <3>1. pc' = "release" /\ status'[cur'] = "copy" => pc = "release" /\ status[cur] = "copy"
      BY <1>1, <2>1
    <3> QED
      BY <2>1, <3>1, CopyIsTaken
  <2> QED
    BY <1>1, <2>1, <2>2, <2>3, <2>4, <2>5, <2>6, FifoKept
<1> QED
  BY <1>2, <1>3, <1>4, <1>5, <1>6, <1>7, <1>8 DEF Next, Reader, Kernel

\* The message the reader parses is the oldest of those that wait.
LEMMA OldestInHand ==
  ASSUME PlaceInv, InStep, FifoInv, faults = 0, pc = "parse"
  PROVE  got \in Waiting /\ \A m \in Waiting : got <= m
<1>1. got \in Waiting /\ got \in Nat
  BY HandWaits, SentLater
<1>2. ASSUME NEW m \in Waiting PROVE m = got \/ got < m
  <2>1. CASE ~ sock.use_mmap
    <3>1. Pending = {}
      BY <2>1 DEF Pending, PlaceInv, IInv, FramesOwned
    <3>2. m = got \/ \E i \in DOMAIN skq : skq[i] = m
      BY <3>1, WaitingIs
    <3> QED
      BY <2>1, <3>2 DEF FifoInv
  <2>2. CASE sock.use_mmap
    <3>1. PICK msg \in [Frames -> 0 .. sent] : FramesOrdered(msg)
      BY <2>2 DEF FifoInv
    <3>2. /\ cur \in InUse /\ Pending \subseteq InUse /\ Untaken \subseteq InUse
          /\ InUse \subseteq Frames
      BY <2>2 DEF InUse, Untaken, Copies, Pending, PlaceInv, IInv, TypeOK, FrameStable
    <3>3. got = msg[cur]
      BY <3>1 DEF FramesOrdered
    <3>4. ASSUME NEW f \in InUse, f # cur PROVE got < msg[f]
      <4>1. Distance(f) < Distance(cur)
        BY <2>2, <3>2, <3>4, ReaderOldest
      <4>2. Distance(f) \in Nat /\ Distance(cur) \in Nat
        BY <3>2, <3>4, DistanceApart
      <4> QED
        BY <3>1, <3>2, <3>3, <4>1, <4>2 DEF FramesOrdered
    <3>5. m # 0 /\ ((\E f \in Pending : content[f] = m) \/ (\E i \in DOMAIN skq : skq[i] = m)
                    \/ m = got)
      BY WaitingIs
    <3>6. \E f \in InUse : m = msg[f]
      BY <3>1, <3>2, <3>3, <3>5 DEF FramesOrdered
    <3> QED
      BY <3>3, <3>4, <3>6
  <2> QED
    BY <2>1, <2>2
<1> QED
  BY <1>1, <1>2, SentLater

\* What waits is what was sent and has not come to an end.
LEMMA WaitingLeft ==
  ASSUME PlaceInv
  PROVE  Waiting = (1 .. sent) \ (Seen \cup dropped \cup lost)
  BY DEF PlaceInv, OnePlace

\* What a step without failures does to the messages in flight: they are q
\* before it and r after it.
ChannelMoves(q, r) ==
  \/ /\ sent < MaxMsgs /\ sent' = sent + 1
     /\ r \in {q, Append(q, sent + 1)} /\ delivered' = delivered
  \/ /\ r = q \/ \E k \in DOMAIN q : r = Channel!RemoveAt(q, k)
     /\ sent' = sent /\ delivered' = delivered
  \/ /\ q # <<>> /\ r = Tail(q)
     /\ delivered' = Append(delivered, Head(q)) /\ sent' = sent

LEMMA ChannelStep ==
  ASSUME PlaceInv, PlaceInv', InStep, InStep', FifoInv, [Next]_vars, faults' = 0,
         NEW q, Sorted(q, Waiting)
  PROVE  \E r : Sorted(r, Waiting') /\ ChannelMoves(q, r)
<1>1. /\ Waiting = (1 .. sent) \ (Seen \cup dropped \cup lost)
      /\ Waiting' = (1 .. sent') \ (Seen' \cup dropped' \cup lost')
      /\ Seen \cup dropped \cup lost \subseteq 1 .. sent
      /\ sent \in Nat /\ faults \in Nat
      /\ \A m \in Waiting : m <= sent /\ m \in Nat
  <2>1. Waiting' = (1 .. sent') \ (Seen' \cup dropped' \cup lost')
    BY DEF PlaceInv, OnePlace
  <2>2. faults \in Nat
    BY MaxFaultsAssumption DEF PlaceInv, IInv, TypeOK
  <2>3. Seen \cup dropped \cup lost \subseteq 1 .. sent
    BY DEF PlaceInv, OnePlace
  <2> QED
    BY <2>1, <2>2, <2>3, WaitingLeft, SentLater
<1>2. CASE UNCHANGED <<sent, delivered, dropped, lost>>
  <2>1. Waiting' = Waiting
    BY <1>1, <1>2 DEF Seen
  <2> QED
    BY <1>2, <2>1 DEF ChannelMoves
<1>3. CASE FrameInit \/ PollIn \/ RecvValid \/ RecvCopy \/ UNCHANGED vars
  BY <1>2, <1>3 DEF FrameInit, TakeFrame, PollIn, PollFor, RecvValid, RecvFrame, RecvCopy,
     RecvInto, vars, historyVars
<1>4. CASE PollFail \/ RecvFail
  BY <1>1, <1>4 DEF PollFail, RecvFail
<1>5. CASE Release
  <2>1. UNCHANGED <<sent, delivered, dropped, faults>>
    BY <1>5 DEF Release, ReleaseIn
  <2>2. lost = {} /\ lost' = {}
    BY <2>1 DEF InStep
  <2> QED
    BY <1>2, <2>1, <2>2
<1>6. ASSUME NEW f \in Frames, KCommit(f)
      PROVE  \E r : Sorted(r, Waiting') /\ ChannelMoves(q, r)
  BY <1>2, <1>6 DEF KCommit, historyVars
<1>7. CASE KReserve \/ KCopy \/ KQueue
  <2>1. UNCHANGED <<delivered, dropped, lost>> /\ sent' = sent + 1 /\ sent < MaxMsgs
    BY <1>7 DEF KReserve, KCopy, KQueue, historyVars
  <2>2. Waiting' = Waiting \cup {sent + 1}
    BY <1>1, <2>1 DEF Seen
  <2>3. Sorted(Append(q, sent + 1), Waiting \cup {sent + 1})
    BY <1>1, SortedAppend
  <2> QED
    BY <2>1, <2>2, <2>3 DEF ChannelMoves
<1>8. CASE KDrop
  <2>1. /\ UNCHANGED <<delivered, lost>> /\ sent' = sent + 1 /\ sent < MaxMsgs
        /\ dropped' = dropped \cup {sent + 1}
    BY <1>8 DEF KDrop
  <2>2. Waiting' = Waiting
    BY <1>1, <2>1 DEF Seen
  <2> QED
    BY <2>1, <2>2 DEF ChannelMoves
<1>9. ASSUME NEW f \in Frames, KAbort(f)
      PROVE  \E r : Sorted(r, Waiting') /\ ChannelMoves(q, r)
  <2>1. /\ UNCHANGED <<sent, delivered, lost>> /\ dropped' = dropped \cup {content[f]}
    BY <1>9 DEF KAbort
  <2>2. Waiting' = Waiting \ {content[f]}
    BY <1>1, <2>1 DEF Seen
  <2>3. CASE content[f] \in Waiting
    <3>1. PICK k \in DOMAIN q : q[k] = content[f]
      BY <2>3 DEF Sorted
    <3> QED
      BY <2>1, <2>2, <3>1, SortedRemove DEF ChannelMoves
  <2>4. CASE content[f] \notin Waiting
    BY <2>1, <2>2, <2>4 DEF ChannelMoves
  <2> QED
    BY <2>3, <2>4
<1>10. CASE Parse
  <2>1. /\ UNCHANGED <<sent, dropped, lost, faults>> /\ pc = "parse"
        /\ delivered' = Append(delivered, got)
    BY <1>10 DEF Parse, PlaceInv, IInv, FrameStable
  <2>2. Seen' = Seen \cup {got}
    <3>1. /\ DOMAIN delivered = 1 .. Len(delivered) /\ Len(delivered) \in Nat
          /\ DOMAIN delivered' = 1 .. Len(delivered) + 1
          /\ \A i \in 1 .. Len(delivered) : delivered'[i] = delivered[i]
          /\ delivered'[Len(delivered) + 1] = got
      BY <2>1 DEF PlaceInv, IInv, TypeOK
    <3> QED
      BY <3>1 DEF Seen
  <2>3. Waiting' = Waiting \ {got}
    BY <1>1, <2>1, <2>2
  <2>4. got \in Waiting /\ \A m \in Waiting : got <= m
    BY <2>1, OldestInHand
  <2>5. q # <<>> /\ Head(q) = got /\ Sorted(Tail(q), Waiting \ {got})
    BY <2>4, SortedTail
  <2> QED
    BY <2>1, <2>3, <2>5 DEF ChannelMoves
<1> QED
  BY <1>3, <1>4, <1>5, <1>6, <1>7, <1>8, <1>9, <1>10 DEF Next, Reader, Kernel

\* As long as nothing has failed, what waits is in order, and can be counted.
ChannelInv == InStep /\ FifoInv /\ (faults = 0 => \E q : Sorted(q, Waiting))

LEMMA ChannelInit == Init => ChannelInv /\ Channel!Init
<1> SUFFICES ASSUME Init PROVE ChannelInv /\ Channel!Init
  OBVIOUS
<1>1. Waiting = {} /\ Pending = {} /\ InUse = {} /\ Untaken = {} /\ DOMAIN skq = {}
  BY DEF Init, Waiting, Pending, InUse, Untaken, Copies
<1>2. Sorted(<<>>, Waiting)
  BY <1>1 DEF Sorted
<1>3. InFlight = <<>>
  BY <1>2, SortedIs DEF InFlight
<1>4. InStep
  BY FrameNrAssumption DEF Init, InStep, ReaderAt, Between, Frames
<1>5. FifoInv
  <2>1. [f \in Frames |-> 0] \in [Frames -> 0 .. sent]
    BY DEF Init
  <2>2. FramesOrdered([f \in Frames |-> 0])
    BY <1>1 DEF FramesOrdered, Init
  <2> QED
    BY <1>1, <2>1, <2>2 DEF FifoInv, Init
<1> QED
  BY <1>2, <1>3, <1>4, <1>5 DEF ChannelInv, Channel!Init, Init

\* Every step without failures is one of the channel, or none.
LEMMA ChannelNext ==
  ASSUME PlaceInv, PlaceInv', ChannelInv, [Next]_vars
  PROVE  ChannelInv' /\ (faults' = 0 => [Channel!Next]_Channel!vars)
<1>1. InStep' /\ FifoInv'
  BY InStepInv, FifoStep DEF ChannelInv
<1>2. ASSUME faults' = 0
      PROVE  (\E r : Sorted(r, Waiting')) /\ [Channel!Next]_Channel!vars
  <2>1. faults = 0
    <3>1. faults \in Nat /\ faults' \in {faults, faults + 1}
      BY MaxFaultsAssumption DEF PlaceInv, IInv, TypeOK, Next, Reader, Kernel, FrameInit,
         TakeFrame, PollIn, PollFor, PollFail, RecvValid, RecvFrame, RecvCopy, RecvInto,
         RecvFail, Parse, Release, ReleaseIn, KReserve, KCommit, KAbort, KCopy, KQueue,
         KDrop, vars
    <3> QED
      BY <1>2, <3>1
  <2>2. PICK q : Sorted(q, Waiting)
    BY <2>1 DEF ChannelInv
  <2>3. PICK r : Sorted(r, Waiting') /\ ChannelMoves(q, r)
    BY <1>1, <1>2, <2>2, ChannelStep DEF ChannelInv
  <2>4. InFlight = q /\ InFlight' = r
    BY <2>2, <2>3, SortedIs DEF InFlight
  <2>5. [Channel!Next]_Channel!vars
    BY <2>3, <2>4 DEF ChannelMoves, Channel!Next, Channel!Send, Channel!SendLost,
       Channel!Lose, Channel!Recv, Channel!vars
  <2> QED
    BY <2>3, <2>5
<1> QED
  BY <1>1, <1>2 DEF ChannelInv

\* As long as nothing fails, the program sees its socket as LossyChannel
\* promises, with a ring or without: messages may be lost, but none is parsed
\* twice, or before an older one.
THEOREM ImplementsChannel == Spec /\ [](faults = 0) => IsChannel
<1>1. Init => ChannelInv /\ Channel!Init
  BY ChannelInit
<1>2. PlaceInv /\ PlaceInv' /\ ChannelInv /\ [Next]_vars
        => ChannelInv' /\ ((faults = 0)' => [Channel!Next]_Channel!vars)
  BY ChannelNext
<1> QED
  BY <1>1, <1>2, PlaceInvariance, PTL DEF Spec, IsChannel, Channel!Spec
=============================================================================

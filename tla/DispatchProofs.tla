--------------------------- MODULE DispatchProofs ---------------------------
(***************************************************************************)
(* What holds of requests and answers for any number of calls, failures,   *)
(* losses and objects of a dump.                                           *)
(***************************************************************************)
EXTENDS Dispatch, SequenceTheorems, TLAPS

USE DEF Calls

-----------------------------------------------------------------------------
(* Types *)

\* The kernel numbers a dump's objects 1, 2, ... up to the last it has left.
DumpRange == Dumping => dump.next + dump.left <= MaxParts + 1

TInv == TypeOK /\ DumpRange

\* Every message made of values in range is a Message.
LEMMA MsgTyped ==
  ASSUME NEW type \in {"error", "data", "part", "done"},
         NEW s \in 0 .. SeqMod - 1, NEW c \in Calls, NEW error \in {0, -1},
         NEW part \in 0 .. MaxParts
  PROVE  Msg(type, s, c, error, part) \in Message
  BY DEF Msg, Message

\* What is known of a running dump's fields.
LEMMA DumpTyped ==
  ASSUME TInv, Dumping
  PROVE  /\ dump.next \in 1 .. MaxParts + 1 /\ dump.left \in 0 .. MaxParts
         /\ dump.seq \in 0 .. SeqMod - 1 /\ dump.call \in Calls
         /\ dump = [left |-> dump.left, seq |-> dump.seq, call |-> dump.call,
                    next |-> dump.next]
         /\ dump.next + dump.left <= MaxParts + 1
  BY DEF TInv, TypeOK, DumpRange

\* A datagram of parts holds as many messages as asked for.
LEMMA PartsTyped ==
  ASSUME TInv, Dumping, NEW n \in 0 .. dump.left
  PROVE  Parts(n) \in Seq(Message) /\ (n > 0 => Parts(n) # <<>>)
<1>1. dump.next \in 1 .. MaxParts + 1 /\ dump.left \in 0 .. MaxParts
      /\ dump.seq \in 0 .. SeqMod - 1 /\ dump.call \in Calls
  BY DumpTyped
<1>2. ASSUME NEW i \in 1 .. n
      PROVE  Msg("part", dump.seq, dump.call, 0, dump.next + i - 1) \in Message
  <2>1. dump.next + i - 1 \in 0 .. MaxParts
    BY <1>1, MaxPartsAssumption DEF TInv, DumpRange
  <2> QED
    BY <1>1, <2>1, MsgTyped
<1> QED
  BY <1>1, <1>2, MaxPartsAssumption DEF Parts

\* The queue keeps its type when one datagram joins it.
LEMMA AppendTyped ==
  ASSUME NEW q \in Seq(Datagram), NEW d \in Seq(Message), d # <<>>
  PROVE  Append(q, d) \in Seq(Datagram)
  BY DEF Datagram

\* A sequence with something appended is not empty.
LEMMA AppendNonEmpty ==
  ASSUME NEW S, NEW s \in Seq(S), NEW e \in S
  PROVE  Append(s, e) \in Seq(S) /\ Append(s, e) # <<>>
<1>1. Len(Append(s, e)) = Len(s) + 1 /\ Len(s) \in Nat /\ Len(<<>>) = 0
  OBVIOUS
<1> QED
  BY <1>1

\* A dump that goes on has sent objects that it had left.
LEMMA DumpMoreTyped ==
  ASSUME TInv, DumpMore
  PROVE  /\ rxq' \in Seq(Datagram)
         /\ dump' \in [left : 0 .. MaxParts, seq : 0 .. SeqMod - 1,
                       call : Calls, next : 1 .. MaxParts + 1]
         /\ dump'.next + dump'.left <= MaxParts + 1
<1>1. /\ dump.next \in 1 .. MaxParts + 1 /\ dump.left \in 0 .. MaxParts
      /\ dump.seq \in 0 .. SeqMod - 1 /\ dump.call \in Calls
      /\ dump = [left |-> dump.left, seq |-> dump.seq, call |-> dump.call,
                 next |-> dump.next]
      /\ dump.next + dump.left <= MaxParts + 1
  BY DumpTyped DEF DumpMore
<1>2. PICK n \in 1 .. dump.left :
        /\ rxq'  = Append(rxq, Parts(n))
        /\ dump' = [dump EXCEPT !.left = @ - n, !.next = @ + n]
  BY DEF DumpMore
<1>3. n \in 0 .. dump.left /\ n > 0
  BY <1>1
<1>4. Parts(n) \in Seq(Message) /\ Parts(n) # <<>>
  BY <1>3, PartsTyped DEF DumpMore
<1>5. rxq' \in Seq(Datagram)
  BY <1>2, <1>4, AppendTyped DEF TInv, TypeOK
<1>6. dump' = [left |-> dump.left - n, seq |-> dump.seq, call |-> dump.call,
               next |-> dump.next + n]
  BY <1>1, <1>2
<1>7. /\ dump.left - n \in 0 .. MaxParts
      /\ dump.next + n \in 1 .. MaxParts + 1
      /\ (dump.next + n) + (dump.left - n) <= MaxParts + 1
  BY <1>1, <1>3, MaxPartsAssumption
<1> QED
  BY <1>1, <1>5, <1>6, <1>7

\* NLMSG_DONE, alone or behind the last objects, is a datagram like another.
LEMMA DumpDoneTyped ==
  ASSUME TInv, DumpDone
  PROVE  /\ rxq' \in Seq(Datagram)
         /\ verdict' \in [Calls -> {"none", "ok", "fail", "cut"}]
<1> DEFINE end(error) == Msg("done", dump.seq, dump.call, error, 0)
<1>1. PICK n \in 0 .. dump.left, error \in {0, -1} :
        /\ rxq' = Append(rxq, Append(Parts(n), end(error)))
        /\ verdict' = [verdict EXCEPT ![dump.call] =
                         IF error = 0 THEN @ ELSE "cut"]
  BY DEF DumpDone
<1>2. Dumping /\ dump.seq \in 0 .. SeqMod - 1 /\ dump.call \in Calls
  BY DumpTyped DEF DumpDone
<1>3. Parts(n) \in Seq(Message) /\ end(error) \in Message
  BY <1>2, PartsTyped, MsgTyped, MaxPartsAssumption
<1>4. /\ Append(Parts(n), end(error)) \in Seq(Message)
      /\ Append(Parts(n), end(error)) # <<>>
  BY <1>3, AppendNonEmpty
<1>5. rxq' \in Seq(Datagram)
  BY <1>1, <1>4, AppendTyped DEF TInv, TypeOK
<1>6. verdict' \in [Calls -> {"none", "ok", "fail", "cut"}]
  BY <1>1 DEF TInv, TypeOK
<1> QED
  BY <1>5, <1>6

\* TInv holds at the start.
LEMMA TypeInit == Init => TInv
<1> SUFFICES ASSUME Init PROVE TInv
  OBVIOUS
<1>1. ~ Dumping /\ <<>> \in Seq(Message) /\ <<>> \in Seq(Datagram)
  BY DEF Init, Dumping
<1>2. DumpRange
  BY <1>1 DEF DumpRange
<1>3. quit \in BOOLEAN /\ (pc = "parse" <=> dg # <<>>)
  BY DEF Init
<1>4. ret \in {0, -1} /\ kind \in Kinds
  BY DEF Init, Kinds
<1>5. /\ verdict \in [Calls -> {"none", "ok", "fail", "cut"}]
      /\ results \in [Calls -> {"none", "ok", "fail"}]
  BY DEF Init
<1>6. /\ seq \in 0 .. SeqMod - 1 /\ call \in 0 .. MaxCalls
      /\ parsed \in 0 .. MaxCalls /\ answeredBy \in 0 .. MaxCalls
      /\ objects \in 0 .. MaxParts /\ faults \in 0 .. MaxFaults
      /\ losses \in 0 .. MaxLosses
  BY SeqModAssumption, MaxCallsAssumption, MaxPartsAssumption,
     MaxFaultsAssumption, MaxLossesAssumption DEF Init
<1>7. dg \in Seq(Message) /\ rxq \in Seq(Datagram) /\ pc = "idle"
  BY <1>1 DEF Init
<1> QED
  BY <1>1, <1>2, <1>3, <1>4, <1>5, <1>6, <1>7 DEF TInv, TypeOK

\* Answering a request with a datagram of one message appends it.
LEMMA AnswerTyped ==
  ASSUME TInv, call \in Calls, NEW type \in {"error", "data"},
         NEW error \in {0, -1}, NEW v \in {"ok", "fail"},
         Answer(v, << <<Msg(type, seq, call, error, 0)>> >>)
  PROVE  /\ rxq' \in Seq(Datagram)
         /\ rxq' = Append(rxq, <<Msg(type, seq, call, error, 0)>>)
         /\ verdict' \in [Calls -> {"none", "ok", "fail", "cut"}]
<1>1. Msg(type, seq, call, error, 0) \in Message
  BY MsgTyped, MaxPartsAssumption DEF TInv, TypeOK
<1>2. rxq' = Append(rxq, <<Msg(type, seq, call, error, 0)>>)
  BY DEF TInv, TypeOK, Answer
<1>3. /\ <<Msg(type, seq, call, error, 0)>> \in Seq(Message)
      /\ <<Msg(type, seq, call, error, 0)>> # <<>>
  BY <1>1
<1>4. rxq' \in Seq(Datagram)
  BY <1>2, <1>3, AppendTyped DEF TInv, TypeOK
<1> QED
  BY <1>2, <1>4 DEF TInv, TypeOK, Answer

\* No step takes a value out of its range or sends an empty datagram.
LEMMA TypeStep == TInv /\ [Next]_vars => TInv'
<1> SUFFICES ASSUME TInv, [Next]_vars PROVE TInv'
  OBVIOUS
<1> USE SeqModAssumption, MaxCallsAssumption, MaxPartsAssumption,
        MaxFaultsAssumption, MaxLossesAssumption
    DEF TInv, TypeOK, DumpRange, Dumping, callerVars, historyVars
<1>1. ASSUME NEW k \in Kinds, Build(k) PROVE TInv'
  <2>1. seq' \in 0 .. SeqMod - 1 /\ call' \in Calls
    BY <1>1 DEF Build
  <2>2. quit' \in BOOLEAN /\ ret' \in {0, -1} /\ pc' = "send" /\ kind' \in Kinds
    BY <1>1 DEF Build
  <2>3. pc' = "parse" <=> dg' # <<>>
    BY <1>1, <2>2 DEF Build
  <2> QED
    BY <1>1, <2>1, <2>2, <2>3 DEF Build
<1>2. CASE Send
  <2>0. call \in Calls
    BY <1>2 DEF Send
  <2>1. CASE Refused /\ UNCHANGED <<dump, objects>>
    BY <1>2, <2>0, <2>1, AnswerTyped DEF Send, Refused
  <2>2. CASE /\ Answer("ok", << <<Msg("error", seq, call, 0, 0)>> >>)
             /\ UNCHANGED <<dump, objects>>
    BY <1>2, <2>0, <2>2, AnswerTyped DEF Send
  <2>3. CASE /\ Answer("ok", << <<Msg("data", seq, call, 0, 0)>> >>)
             /\ UNCHANGED <<dump, objects>>
    BY <1>2, <2>0, <2>3, AnswerTyped DEF Send
  <2>4. CASE /\ kind = "dump" /\ Answer("ok", <<>>)
             /\ objects' \in 0 .. MaxParts
             /\ dump' = [left |-> objects', seq |-> seq, call |-> call,
                         next |-> 1]
    <3>1. dump' \in [left : 0 .. MaxParts, seq : 0 .. SeqMod - 1,
                     call : Calls, next : 1 .. MaxParts + 1]
      BY <2>0, <2>4
    <3>2. dump'.next = 1 /\ dump'.left \in 0 .. MaxParts
      BY <2>4
    <3>3. rxq' = rxq
      BY <2>4 DEF Answer
    <3>4. verdict' \in [Calls -> {"none", "ok", "fail", "cut"}]
      BY <2>4 DEF Answer
    <3>5. DumpRange'
      BY <3>2
    <3>6. TypeOK'
      BY <1>2, <2>0, <2>4, <3>1, <3>3, <3>4 DEF Send
    <3> QED
      BY <3>5, <3>6
  <2> QED
    BY <1>2, <2>1, <2>2, <2>3, <2>4 DEF Send
<1>3. CASE SendFail
  BY <1>3 DEF SendFail, Return
<1>4. CASE Recv
  <2>1. dg' \in Datagram /\ rxq' \in Seq(Datagram)
    BY <1>4 DEF Recv
  <2> QED
    BY <1>4, <2>1 DEF Recv, Datagram
<1>5. CASE RecvFail
  BY <1>5 DEF RecvFail, Return
<1>6. CASE ParseMsg
  <2>1. Head(dg) \in Message /\ Tail(dg) \in Seq(Message)
    BY <1>6 DEF ParseMsg
  <2>2. ret' \in {0, -1}
    BY <1>6, <2>1 DEF ParseMsg, Message, Ret
  <2>3. parsed' \in 0 .. MaxCalls /\ answeredBy' \in 0 .. MaxCalls
    BY <1>6, <2>1 DEF ParseMsg, Message
  <2>4. dg' \in Seq(Message) /\ quit' \in BOOLEAN
    BY <1>6, <2>1 DEF ParseMsg
  <2>5. /\ pc' \in {"parse", "done", "recv"}
        /\ pc' = "parse" <=> dg' # <<>>
    BY <1>6 DEF ParseMsg
  <2>6. /\ UNCHANGED <<seq, call, kind, rxq, dump, verdict, results, objects,
                       faults, losses>>
        /\ call \in Calls
    BY <1>6 DEF ParseMsg
  <2> QED
    BY <2>2, <2>3, <2>4, <2>5, <2>6
<1>7. CASE Finish
  BY <1>7 DEF Finish, Return
<1>8. CASE DumpMore
  <2>1. /\ rxq' \in Seq(Datagram)
        /\ dump' \in [left : 0 .. MaxParts, seq : 0 .. SeqMod - 1,
                      call : Calls, next : 1 .. MaxParts + 1]
        /\ dump'.next + dump'.left <= MaxParts + 1
    BY <1>8, DumpMoreTyped
  <2> QED
    BY <1>8, <2>1 DEF DumpMore
<1>9. CASE DumpDone
  <2>1. /\ rxq' \in Seq(Datagram)
        /\ verdict' \in [Calls -> {"none", "ok", "fail", "cut"}]
    BY <1>9, DumpDoneTyped
  <2> QED
    BY <1>9, <2>1 DEF DumpDone
<1>10. CASE Lose
  BY <1>10 DEF Lose
<1>11. CASE UNCHANGED vars
  BY <1>11 DEF vars
<1> QED
  BY <1>1, <1>2, <1>3, <1>4, <1>5, <1>6, <1>7, <1>8, <1>9, <1>10, <1>11
     DEF Next, Caller, Kernel

\* TInv is an invariant.
THEOREM TypeInvariance == Spec => []TInv
  BY TypeInit, TypeStep, PTL DEF Spec

\* Every variable keeps its range, and nl_parse always finds a message in a
\* datagram it has not finished.
THEOREM TypeCorrect == Spec => []TypeOK
<1>1. TInv => TypeOK
  BY DEF TInv
<1> QED
  BY <1>1, TypeInvariance, PTL

-----------------------------------------------------------------------------
(* What is still to be read *)

\* The datagram being parsed, and those in the queue behind it.
Unread == 0 .. Len(rxq)
At(i) == IF i = 0 THEN dg ELSE rxq[i]

Before(i, k, j, l) == i < j \/ (i = j /\ k < l)

-----------------------------------------------------------------------------
(* Calls without failures *)

\* Everything unread answers the call that waits, the message that ends its
\* answer comes last, and with it nothing is left.
CleanInv == faults = 0 =>
  /\ \A i \in Unread : \A k \in DOMAIN At(i) :
       /\ At(i)[k].seq = seq
       /\ Ends(At(i)[k]) => i = Len(rxq) /\ k = Len(At(i)) /\ ~ Dumping
  /\ Dumping => dump.seq = seq
  /\ quit \/ pc \in {"idle", "send"} => dg = <<>> /\ rxq = <<>> /\ ~ Dumping
  /\ pc = "done" => quit
  /\ pc = "send" => ~ quit

\* Every datagram is a sequence of messages.
LEMMA UnreadTyped ==
  ASSUME TInv
  PROVE  /\ Len(rxq) \in Nat /\ rxq \in Seq(Datagram) /\ DOMAIN rxq = 1 .. Len(rxq)
         /\ \A i \in Unread :
              /\ At(i) \in Seq(Message) /\ Len(At(i)) \in Nat
              /\ DOMAIN At(i) = 1 .. Len(At(i))
              /\ \A k \in DOMAIN At(i) : At(i)[k] \in Message
<1>1. /\ Len(rxq) \in Nat /\ rxq \in Seq(Datagram) /\ DOMAIN rxq = 1 .. Len(rxq)
      /\ dg \in Seq(Message)
  BY DEF TInv, TypeOK
<1>2. ASSUME NEW i \in Unread PROVE At(i) \in Seq(Message)
  <2>1. i # 0 => i \in 1 .. Len(rxq)
    BY <1>1 DEF Unread
  <2> QED
    BY <1>1, <2>1 DEF At, Datagram
<1>3. ASSUME NEW s \in Seq(Message)
      PROVE  /\ Len(s) \in Nat /\ DOMAIN s = 1 .. Len(s)
             /\ \A k \in DOMAIN s : s[k] \in Message
  OBVIOUS
<1> QED
  BY <1>1, <1>2, <1>3

\* One more datagram in the queue.
LEMMA Appended ==
  ASSUME TInv, UNCHANGED dg, NEW d, rxq' = Append(rxq, d)
  PROVE  /\ Len(rxq') = Len(rxq) + 1
         /\ Unread' = Unread \cup {Len(rxq')} /\ Len(rxq') \notin Unread
         /\ \A i \in Unread' : IF i \in Unread THEN At(i)' = At(i)
                               ELSE i = Len(rxq') /\ At(i)' = d
<1>1. Len(rxq) \in Nat /\ rxq \in Seq(Datagram)
  BY UnreadTyped
<1>2. /\ Len(rxq') = Len(rxq) + 1 /\ rxq'[Len(rxq) + 1] = d
      /\ \A i \in 1 .. Len(rxq) : rxq'[i] = rxq[i]
  BY <1>1
<1>3. /\ Unread' = Unread \cup {Len(rxq')} /\ Len(rxq') \notin Unread
      /\ \A i \in Unread : i # 0 => i \in 1 .. Len(rxq)
      /\ Len(rxq') # 0
  BY <1>1, <1>2 DEF Unread
<1> QED
  BY <1>1, <1>2, <1>3 DEF At

\* The first elements of a sequence.
LEMMA PrefixOf ==
  ASSUME NEW S, NEW s \in Seq(S), NEW n \in 0 .. Len(s)
  PROVE  /\ Len(SubSeq(s, 1, n)) = n
         /\ \A i \in 1 .. n : SubSeq(s, 1, n)[i] = s[i]
<1>1. \A i \in 1 .. n : s[i] \in S
  OBVIOUS
<1>2. /\ Len(SubSeq(s, 1, n)) = IF 1 <= n THEN n - 1 + 1 ELSE 0
      /\ \A i \in 1 .. n - 1 + 1 : SubSeq(s, 1, n)[i] = s[1 + i - 1]
  BY <1>1, SubSeqProperties
<1>3. n - 1 + 1 = n /\ \A i \in 1 .. n : 1 + i - 1 = i
  OBVIOUS
<1> QED
  BY <1>2, <1>3

\* Recv moves every datagram up by one.
LEMMA Received ==
  ASSUME TInv, Recv
  PROVE  /\ dg = <<>> /\ Len(rxq') = Len(rxq) - 1 /\ Len(rxq) > 0
         /\ \A i \in Unread' : i + 1 \in Unread /\ i + 1 # 0 /\ At(i)' = At(i + 1)
<1>1. /\ Len(rxq) \in Nat /\ rxq \in Seq(Datagram) /\ rxq # <<>>
      /\ dg' = Head(rxq) /\ rxq' = Tail(rxq) /\ dg = <<>>
  BY UnreadTyped DEF Recv, TInv, TypeOK
<1>2. /\ Len(rxq) > 0 /\ Len(rxq') = Len(rxq) - 1 /\ dg' = rxq[1]
      /\ \A i \in 1 .. Len(rxq) - 1 : rxq'[i] = rxq[i + 1]
  BY <1>1
<1>3. \A i \in Unread' : i + 1 \in Unread /\ i + 1 # 0 /\ i \in Nat /\ (i # 0 => i \in 1 .. Len(rxq) - 1)
  BY <1>1, <1>2 DEF Unread
<1> QED
  BY <1>1, <1>2, <1>3 DEF At

\* ParseMsg takes the first message, or drops all of its datagram.
LEMMA Parsed ==
  ASSUME TInv, ParseMsg
  PROVE  /\ UNCHANGED rxq /\ Unread' = Unread /\ 0 \in Unread
         /\ Head(dg) = At(0)[1] /\ Head(dg) \in Message /\ 1 \in DOMAIN At(0)
         /\ \A i \in Unread : i # 0 => At(i)' = At(i)
         /\ Stale(Head(dg)) => dg' = <<>>
         /\ ~ Stale(Head(dg)) =>
              /\ Len(At(0)') = Len(At(0)) - 1
              /\ \A k \in DOMAIN At(0)' : k + 1 \in DOMAIN At(0) /\ At(0)'[k] = At(0)[k + 1]
         /\ \A k \in DOMAIN At(0)' :
              k + 1 \in DOMAIN At(0) /\ k + 1 # 1 /\ At(0)'[k] = At(0)[k + 1]
<1>1. /\ dg \in Seq(Message) /\ dg # <<>> /\ rxq' = rxq
      /\ dg' = IF Stale(Head(dg)) THEN <<>> ELSE Tail(dg)
  BY DEF ParseMsg, TInv, TypeOK
<1>2. /\ Len(dg) \in Nat \ {0} /\ DOMAIN dg = 1 .. Len(dg) /\ Head(dg) = dg[1]
      /\ dg[1] \in Message /\ Tail(dg) \in Seq(Message) /\ Len(Tail(dg)) = Len(dg) - 1
      /\ DOMAIN Tail(dg) = 1 .. Len(dg) - 1
      /\ \A k \in 1 .. Len(dg) - 1 : Tail(dg)[k] = dg[k + 1]
  BY <1>1
<1>3. 1 \in DOMAIN dg /\ \A k \in 1 .. Len(dg) - 1 : k + 1 \in DOMAIN dg /\ k + 1 # 1
  BY <1>2
<1>4. Unread' = Unread /\ 0 \in Unread
  BY <1>1, UnreadTyped DEF Unread
<1>5. \A k \in DOMAIN dg' : k + 1 \in DOMAIN dg /\ k + 1 # 1 /\ dg'[k] = dg[k + 1]
  <2>1. DOMAIN <<>> = {}
    OBVIOUS
  <2> QED
    BY <1>1, <1>2, <1>3, <2>1
<1> QED
  BY <1>1, <1>2, <1>3, <1>4, <1>5 DEF At

\* The queue cannot be empty and hold a message.
LEMMA EmptyQueue ==
  ASSUME TInv, rxq = <<>>, dg = <<>>
  PROVE  Unread = {0} /\ DOMAIN At(0) = {}
<1>1. Len(rxq) = 0 /\ DOMAIN dg = {}
  OBVIOUS
<1> QED
  BY <1>1 DEF Unread, At

\* A single message as the only datagram.
LEMMA OnlyAnswer ==
  ASSUME TInv, pc = "send", pc' = "recv", UNCHANGED <<seq, dg, dump, quit>>, ~ quit,
         rxq = <<>>, dg = <<>>, ~ Dumping,
         NEW type \in {"error", "data"}, NEW error, NEW v,
         Answer(v, << <<Msg(type, seq, call, error, 0)>> >>)
  PROVE  CleanInv'
<1> DEFINE m == Msg(type, seq, call, error, 0)
<1>1. rxq' = Append(rxq, <<m>>) /\ ~ Dumping'
  BY UnreadTyped DEF Answer, Dumping, Idle
<1>2. /\ Len(rxq') = Len(rxq) + 1 /\ Len(rxq) = 0
      /\ Unread' = Unread \cup {Len(rxq')}
      /\ \A i \in Unread' : IF i \in Unread THEN At(i)' = At(i)
                            ELSE i = Len(rxq') /\ At(i)' = <<m>>
  BY <1>1, Appended
<1>3. Unread = {0} /\ DOMAIN At(0) = {}
  BY EmptyQueue
<1>4. m.seq = seq
  BY DEF Msg
<1>5. DOMAIN <<m>> = {1} /\ <<m>>[1] = m /\ Len(<<m>>) = 1
  OBVIOUS
<1> HIDE DEF m
<1>6. ASSUME NEW i \in Unread', NEW k \in DOMAIN At(i)'
      PROVE  /\ At(i)'[k].seq = seq' /\ i = Len(rxq') /\ k = Len(At(i)')
  BY <1>2, <1>3, <1>4, <1>5, <1>6
<1> QED
  BY <1>1, <1>6 DEF CleanInv

\* No step without failures leaves a message behind.
LEMMA CleanStep ==
  ASSUME TInv, CleanInv, [Next]_vars
  PROVE  CleanInv'
<1> SUFFICES ASSUME faults' = 0 PROVE CleanInv'
  BY DEF CleanInv
<1>1. faults \in Nat /\ MaxFaults \in Nat
  BY MaxFaultsAssumption DEF TInv, TypeOK
<1>2. CASE \E k \in Kinds : Build(k)
  <2>1. /\ rxq = <<>> /\ dg = <<>> /\ ~ Dumping /\ pc' = "send" /\ quit' = FALSE
        /\ UNCHANGED <<rxq, dg, dump>>
    BY <1>2 DEF Build, CleanInv
  <2>2. Unread' = {0} /\ DOMAIN At(0)' = {} /\ ~ Dumping'
    BY <2>1, EmptyQueue DEF Unread, At, Dumping, Idle
  <2> QED
    BY <2>1, <2>2 DEF CleanInv
<1>3. CASE Send
  <2>1. /\ pc = "send" /\ pc' = "recv" /\ UNCHANGED <<seq, dg, quit>> /\ faults = 0
        /\ rxq = <<>> /\ dg = <<>> /\ ~ Dumping
    BY <1>3 DEF Send, CleanInv
  <2>2. CASE Refused /\ UNCHANGED <<dump, objects>>
    BY <2>1, <2>2, OnlyAnswer DEF Refused, CleanInv
  <2>3. CASE /\ Answer("ok", << <<Msg("error", seq, call, 0, 0)>> >>)
             /\ UNCHANGED <<dump, objects>>
    BY <2>1, <2>3, OnlyAnswer DEF CleanInv
  <2>4. CASE /\ Answer("ok", << <<Msg("data", seq, call, 0, 0)>> >>)
             /\ UNCHANGED <<dump, objects>>
    BY <2>1, <2>4, OnlyAnswer DEF CleanInv
  <2>5. CASE /\ Answer("ok", <<>>)
             /\ dump' = [left |-> objects', seq |-> seq, call |-> call, next |-> 1]
    <3>1. rxq' = rxq /\ ~ quit' /\ dump'.seq = seq'
      BY <2>1, <2>5 DEF Answer, CleanInv
    <3>2. Unread' = {0} /\ DOMAIN At(0)' = {}
      BY <2>1, <3>1, EmptyQueue DEF Unread, At
    <3> QED
      BY <2>1, <3>1, <3>2 DEF CleanInv
  <2> QED
    BY <1>3, <2>2, <2>3, <2>4, <2>5 DEF Send
<1>4. CASE Recv
  <2>1. /\ UNCHANGED <<seq, dump, quit>> /\ faults = 0 /\ pc = "recv" /\ pc' = "parse"
        /\ rxq # <<>> /\ ~ quit
    BY <1>4 DEF Recv, CleanInv, historyVars
  <2>2. /\ Len(rxq') = Len(rxq) - 1 /\ Len(rxq) \in Nat
        /\ \A i \in Unread' : i + 1 \in Unread /\ At(i)' = At(i + 1)
    BY <1>4, Received, UnreadTyped
  <2>3. \A i \in Unread' : i + 1 = Len(rxq) => i = Len(rxq')
    BY <2>2 DEF Unread
  <2>4. Dumping' = Dumping
    BY <2>1 DEF Dumping, Idle
  <2>5. ASSUME NEW i \in Unread', NEW k \in DOMAIN At(i)'
        PROVE  /\ At(i)'[k].seq = seq'
               /\ Ends(At(i)'[k]) => i = Len(rxq') /\ k = Len(At(i)') /\ ~ Dumping'
    BY <2>1, <2>2, <2>3, <2>4 DEF CleanInv
  <2>6. \A i \in Unread' : \A k \in DOMAIN At(i)' :
          Ends(At(i)[k])' <=> Ends(At(i)'[k])
    BY DEF Ends
  <2> QED
    BY <2>1, <2>4, <2>5, <2>6 DEF CleanInv
<1>5. CASE ParseMsg
  <2> DEFINE m == Head(dg)
  <2>1. /\ UNCHANGED <<seq, dump, rxq>> /\ faults = 0 /\ pc = "parse" /\ dg # <<>> /\ ~ quit
        /\ pc' \in {"parse", "done", "recv"} /\ (pc' = "done" => quit')
        /\ quit' = (quit \/ (~ Stale(m) /\ Ends(m)))
    BY <1>5 DEF ParseMsg, CleanInv, TInv, TypeOK
  <2>2. /\ Unread' = Unread /\ 0 \in Unread /\ m = At(0)[1] /\ 1 \in DOMAIN At(0)
        /\ \A i \in Unread : i # 0 => At(i)' = At(i)
        /\ m \in Message /\ seq \in Nat
    BY <1>5, Parsed, SeqModAssumption DEF TInv, TypeOK
  <2>3. m.seq = seq /\ ~ Stale(m)
    <3>1. m.seq = seq
      BY <2>1, <2>2 DEF CleanInv
    <3> QED
      BY <2>2, <3>1 DEF Stale
  <2>4. /\ Len(At(0)') = Len(At(0)) - 1 /\ Len(At(0)) \in Nat
        /\ DOMAIN At(0)' = 1 .. Len(At(0)')
        /\ \A k \in DOMAIN At(0)' :
             k + 1 \in DOMAIN At(0) /\ k \in Nat /\ At(0)'[k] = At(0)[k + 1]
             /\ (k + 1 = Len(At(0)) => k = Len(At(0)'))
    <3>1. At(0)' = dg' /\ At(0) = dg /\ dg \in Seq(Message)
      BY DEF At, TInv, TypeOK
    <3>2. dg' = Tail(dg)
      BY <1>5, <2>3 DEF ParseMsg
    <3>3. Len(dg') = Len(dg) - 1 /\ Len(dg) \in Nat /\ DOMAIN dg' = 1 .. Len(dg')
      BY <2>1, <3>1, <3>2
    <3>4. \A k \in DOMAIN dg' : k + 1 \in DOMAIN dg /\ k \in Nat /\ dg'[k] = dg[k + 1]
             /\ (k + 1 = Len(dg) => k = Len(dg'))
      BY <2>1, <3>1, <3>2
    <3> QED
      BY <3>1, <3>3, <3>4
  <2>5. Dumping' = Dumping
    BY <2>1 DEF Dumping, Idle
  <2>6. ASSUME NEW i \in Unread', NEW k \in DOMAIN At(i)'
        PROVE  /\ At(i)'[k].seq = seq'
               /\ Ends(At(i)'[k]) => i = Len(rxq') /\ k = Len(At(i)') /\ ~ Dumping'
    <3>1. CASE i # 0
      BY <2>1, <2>2, <2>5, <3>1 DEF CleanInv
    <3>2. CASE i = 0
      BY <2>1, <2>2, <2>4, <2>5, <3>2 DEF CleanInv
    <3> QED
      BY <3>1, <3>2
  <2>7. quit' => dg' = <<>> /\ rxq' = <<>> /\ ~ Dumping'
    <3> SUFFICES ASSUME Ends(m) PROVE dg' = <<>> /\ rxq' = <<>> /\ ~ Dumping'
      BY <2>1
    <3>1. 0 = Len(rxq) /\ 1 = Len(At(0)) /\ ~ Dumping
      BY <2>1, <2>2 DEF CleanInv
    <3>2. Len(dg') = 0 /\ dg' \in Seq(Message) /\ rxq \in Seq(Datagram)
      <4>1. dg' \in {Tail(dg), <<>>} /\ dg \in Seq(Message) /\ rxq \in Seq(Datagram)
        BY <1>5 DEF ParseMsg, TInv, TypeOK
      <4>2. At(0)' = dg'
        BY DEF At
      <4>3. Len(dg') = 0
        BY <2>4, <3>1, <4>2
      <4> QED
        BY <2>1, <4>1, <4>3
    <3> QED
      BY <2>1, <2>5, <3>1, <3>2
  <2>8. \A i \in Unread' : \A k \in DOMAIN At(i)' :
          Ends(At(i)[k])' <=> Ends(At(i)'[k])
    BY DEF Ends
  <2>9. Dumping' => dump'.seq = seq'
    BY <2>1, <2>5 DEF CleanInv
  <2> QED
    BY <2>1, <2>6, <2>7, <2>8, <2>9 DEF CleanInv
<1>6. CASE DumpMore
  <2>1. PICK n \in 1 .. dump.left :
          /\ rxq'  = Append(rxq, Parts(n))
          /\ dump' = [dump EXCEPT !.left = @ - n, !.next = @ + n]
    BY <1>6 DEF DumpMore
  <2>2. /\ UNCHANGED <<seq, pc, quit, dg>> /\ faults = 0 /\ Dumping
    BY <1>6 DEF DumpMore, callerVars
  <2>3. dump'.seq = dump.seq /\ dump.seq = seq /\ ~ quit /\ pc \notin {"idle", "send", "done"}
    BY <2>1, <2>2, DumpTyped DEF CleanInv
  <2>4. \A k \in DOMAIN Parts(n) : Parts(n)[k].seq = seq /\ ~ Ends(Parts(n)[k])
    <3>1. \A k \in DOMAIN Parts(n) :
            Parts(n)[k] = Msg("part", dump.seq, dump.call, 0, dump.next + k - 1)
      BY DEF Parts
    <3>2. ASSUME NEW x PROVE /\ Msg("part", dump.seq, dump.call, 0, x).seq = seq
                             /\ ~ Ends(Msg("part", dump.seq, dump.call, 0, x))
      BY <2>3 DEF Msg, Ends
    <3> QED
      BY <3>1, <3>2
  <2>5. \A i \in Unread' : IF i \in Unread THEN At(i)' = At(i) ELSE At(i)' = Parts(n)
    BY <2>1, <2>2, Appended
  <2>6. ASSUME NEW i \in Unread', NEW k \in DOMAIN At(i)'
        PROVE  At(i)'[k].seq = seq' /\ ~ Ends(At(i)'[k])
    BY <2>2, <2>4, <2>5 DEF CleanInv
  <2>7. \A i \in Unread' : \A k \in DOMAIN At(i)' :
          Ends(At(i)[k])' <=> Ends(At(i)'[k])
    BY DEF Ends
  <2> QED
    BY <2>2, <2>3, <2>6, <2>7 DEF CleanInv
<1>7. CASE DumpDone
  <2> DEFINE end(error) == Msg("done", dump.seq, dump.call, error, 0)
  <2>1. PICK n \in 0 .. dump.left, error \in {0, -1} :
          rxq' = Append(rxq, Append(Parts(n), end(error)))
    BY <1>7 DEF DumpDone
  <2>2. /\ UNCHANGED <<seq, pc, quit, dg>> /\ faults = 0 /\ Dumping /\ ~ Dumping'
    BY <1>7 DEF DumpDone, callerVars, Dumping
  <2>3. dump.seq = seq /\ ~ quit /\ pc \notin {"idle", "send", "done"}
    BY <2>2 DEF CleanInv
  <2>4. /\ Parts(n) \in Seq(Message) /\ end(error) \in Message
    BY <2>1, <2>2, PartsTyped, MsgTyped, DumpTyped, MaxPartsAssumption
  <2> DEFINE d == Append(Parts(n), end(error))
  <2>5. \A k \in DOMAIN d : d[k].seq = seq /\ (Ends(d[k]) => k = Len(d))
    <3>1. \A k \in DOMAIN Parts(n) :
            Parts(n)[k] = Msg("part", dump.seq, dump.call, 0, dump.next + k - 1)
      BY DEF Parts
    <3>2. ASSUME NEW x PROVE /\ Msg("part", dump.seq, dump.call, 0, x).seq = seq
                             /\ ~ Ends(Msg("part", dump.seq, dump.call, 0, x))
      BY <2>3 DEF Msg, Ends
    <3>3. end(error).seq = seq
      BY <2>3 DEF Msg
    <3> HIDE DEF end
    <3>4. \A k \in DOMAIN d : \/ (k \in DOMAIN Parts(n) /\ d[k] = Parts(n)[k])
                               \/ (k = Len(d) /\ d[k] = end(error))
      BY <2>4
    <3> HIDE DEF d
    <3> QED
      BY <3>1, <3>2, <3>3, <3>4
  <2>6. /\ \A i \in Unread' : IF i \in Unread THEN At(i)' = At(i)
                               ELSE i = Len(rxq') /\ At(i)' = d
    BY <2>1, <2>2, Appended
  <2> HIDE DEF d
  <2>7. ASSUME NEW i \in Unread', NEW k \in DOMAIN At(i)'
        PROVE  /\ At(i)'[k].seq = seq'
               /\ Ends(At(i)'[k]) => i = Len(rxq') /\ k = Len(At(i)')
    BY <2>2, <2>5, <2>6 DEF CleanInv
  <2>8. \A i \in Unread' : \A k \in DOMAIN At(i)' :
          Ends(At(i)[k])' <=> Ends(At(i)'[k])
    BY DEF Ends
  <2> QED
    BY <2>2, <2>3, <2>7, <2>8 DEF CleanInv
<1>8. CASE Lose
  <2>1. /\ UNCHANGED <<seq, pc, quit, dg, dump>> /\ faults = 0 /\ rxq # <<>>
        /\ rxq \in Seq(Datagram) /\ rxq' = SubSeq(rxq, 1, Len(rxq) - 1)
    BY <1>8 DEF Lose, callerVars, historyVars, TInv, TypeOK
  <2>2. /\ Len(rxq) \in Nat \ {0} /\ Len(rxq') = Len(rxq) - 1
        /\ \A i \in 1 .. Len(rxq) - 1 : rxq'[i] = rxq[i]
    <3>1. Len(rxq) \in Nat \ {0} /\ Len(rxq) - 1 \in 0 .. Len(rxq)
      BY <2>1
    <3> QED
      BY <2>1, <3>1, PrefixOf
  <2>3. \A i \in Unread' : i \in Unread /\ i # Len(rxq) /\ At(i)' = At(i)
    BY <2>1, <2>2 DEF Unread, At
  <2>4. Dumping' = Dumping /\ ~ quit /\ pc \notin {"idle", "send", "done"}
    BY <2>1 DEF Dumping, Idle, CleanInv
  <2>5. ASSUME NEW i \in Unread', NEW k \in DOMAIN At(i)'
        PROVE  At(i)'[k].seq = seq' /\ ~ Ends(At(i)'[k])
    BY <2>1, <2>3 DEF CleanInv
  <2>6. \A i \in Unread' : \A k \in DOMAIN At(i)' :
          Ends(At(i)[k])' <=> Ends(At(i)'[k])
    BY DEF Ends
  <2> QED
    BY <2>1, <2>4, <2>5, <2>6 DEF CleanInv
<1>9. CASE Finish \/ UNCHANGED vars
  <2>1. /\ UNCHANGED <<seq, quit, dg, dump, rxq, faults>>
        /\ (pc' = pc \/ (pc = "done" /\ pc' = "idle"))
    BY <1>9 DEF Finish, Return, vars, callerVars
  <2>2. Unread' = Unread /\ Dumping' = Dumping /\ \A i \in Unread : At(i)' = At(i)
    BY <2>1 DEF Unread, At, Dumping, Idle
  <2>3. \A i \in Unread' : \A k \in DOMAIN At(i)' :
          Ends(At(i)[k])' <=> Ends(At(i)'[k])
    BY DEF Ends
  <2> QED
    BY <2>1, <2>2, <2>3 DEF CleanInv
<1>10. CASE SendFail \/ RecvFail
  BY <1>1, <1>10 DEF SendFail, RecvFail
<1> QED
  BY <1>2, <1>3, <1>4, <1>5, <1>6, <1>7, <1>8, <1>9, <1>10 DEF Next, Caller, Kernel

\* CleanInv holds at the start.
LEMMA CleanInit == Init => CleanInv
<1> SUFFICES ASSUME Init PROVE CleanInv
  OBVIOUS
<1>1. TInv /\ rxq = <<>> /\ dg = <<>> /\ ~ Dumping /\ quit = FALSE /\ pc = "idle"
  BY TypeInit DEF Init, Dumping
<1> QED
  BY <1>1, EmptyQueue DEF CleanInv

\* Without failures a call that returns leaves no message in the queue and no
\* dump running, even across the wrap of the sequence number.
THEOREM NothingLeftBehind == Spec => []CleanReturn
<1>1. TInv /\ CleanInv /\ [Next]_vars => CleanInv'
  BY CleanStep
<1>2. CleanInv => CleanReturn
  BY DEF CleanInv, CleanReturn
<1> QED
  BY <1>1, <1>2, CleanInit, TypeInvariance, PTL DEF Spec

-----------------------------------------------------------------------------
(* Answers, while sequence numbers tell the calls apart *)

\* Until the sequence number wraps it is the number of the call; without
\* failures there are messages of the current call only.
Numbered(s, c) == /\ call < SeqMod => s = c
                  /\ faults = 0 => s = seq /\ c = call

\* A call's messages carry the verdict the kernel reached of that call, and
\* the number of the call; a message of the current call is of the kind it
\* asked for. Before the current call has been sent there is none of it.
Sound(m) ==
  /\ Numbered(m.seq, m.call)
  /\ m.call <= call /\ (pc = "send" => m.call < call)
  /\ IF m.type = "error" /\ m.error < 0 THEN verdict[m.call] = "fail"
                                        ELSE verdict[m.call] \in {"ok", "cut"}
  /\ kind = "get" /\ m.call = call =>
       m.type = "data" \/ (m.type = "error" /\ m.error < 0)

\* All messages of a datagram answer the same call.
SoundDatagram(d) == \A i \in DOMAIN d : Sound(d[i]) /\ d[i].call = d[1].call

\* A running dump is that of the current call or an earlier one.
SoundDump == Dumping =>
  /\ Numbered(dump.seq, dump.call)
  /\ dump.call <= call /\ (pc = "send" => dump.call < call)
  /\ verdict[dump.call] \in {"ok", "cut"}
  /\ kind = "get" => dump.call # call

\* Once nl_dispatch has decided to quit, it has what it returns from the
\* current call's answer, and what is left of the datagram belongs to it.
SoundQuit == quit =>
  /\ pc \notin {"send", "recv"}
  /\ answeredBy = call /\ call # 0
  /\ IF ret < 0 THEN verdict[call] = "fail" ELSE verdict[call] \in {"ok", "cut"}
  /\ kind = "get" /\ ret = 0 => parsed = call
  /\ \A i \in DOMAIN dg : dg[i].call = call

AInv ==
  /\ TInv
  /\ call < SeqMod => seq = call
  /\ \A i \in DOMAIN rxq : SoundDatagram(rxq[i])
  /\ SoundDatagram(dg)
  /\ SoundDump
  /\ SoundQuit
  /\ pc = "done" => quit

\* A call is told apart only if the one before it is.
LEMMA StillApart ==
  ASSUME TInv, [Next]_vars, ToldApart'
  PROVE  ToldApart
<1>1. faults \in Nat /\ call \in Nat /\ SeqMod \in Nat
  BY SeqModAssumption, MaxFaultsAssumption, MaxCallsAssumption DEF TInv, TypeOK
<1>2. faults' \in {faults, faults + 1} /\ call' \in {call, call + 1}
  BY DEF Next, Caller, Kernel, Build, Send, SendFail, Recv, RecvFail, ParseMsg,
         Finish, DumpMore, DumpDone, Lose, vars, callerVars
<1> QED
  BY <1>1, <1>2 DEF ToldApart

\* What was numbered stays so until the next call.
LEMMA NumberedKept ==
  ASSUME UNCHANGED <<seq, call>>, faults' = 0 => faults = 0
  PROVE  \A s, c : Numbered(s, c) => Numbered(s, c)'
  BY DEF Numbered

\* What makes a datagram sound lasts as long as call, kind and verdicts do.
LEMMA SoundKept ==
  ASSUME UNCHANGED <<seq, call, kind, verdict>>, pc' = "send" => pc = "send",
         faults' = 0 => faults = 0
  PROVE  /\ \A d \in Seq(Message) : SoundDatagram(d) => SoundDatagram(d)'
         /\ SoundDump /\ UNCHANGED dump => SoundDump'
  BY NumberedKept DEF SoundDatagram, Sound, SoundDump, Dumping, Idle

\* A datagram in the queue is sound.
LEMMA Queued ==
  ASSUME AInv, NEW i \in DOMAIN rxq
  PROVE  rxq[i] \in Seq(Message) /\ rxq[i] # <<>> /\ SoundDatagram(rxq[i])
  BY DEF AInv, TInv, TypeOK, Datagram

\* At the start no message has been sent.
LEMMA AnswerInit == Init => AInv
<1> SUFFICES ASSUME Init PROVE AInv
  OBVIOUS
<1>1. TInv
  BY TypeInit
<1> QED
  BY <1>1 DEF Init, AInv, SoundDatagram, SoundDump, SoundQuit, Dumping

\* A sequence number that has not wrapped is that of the call.
LEMMA SeqStep ==
  ASSUME NEW c \in Nat, c + 1 < SeqMod
  PROVE  (c + 1) % SeqMod = c + 1
  BY SeqModAssumption

\* A fresh call makes every message there is an older call's; without failures
\* there is none.
LEMMA BuildStep ==
  ASSUME AInv, CleanInv, ToldApart', TInv', NEW k \in Kinds, Build(k)
  PROVE  AInv'
<1>1. /\ call \in Nat /\ call' = call + 1 /\ SeqMod \in Nat /\ faults' = faults
      /\ UNCHANGED <<rxq, dump, dg>>
  BY SeqModAssumption, MaxCallsAssumption DEF Build, AInv, TInv, TypeOK
<1>2. call' < SeqMod => seq' = call'
  BY <1>1, SeqStep DEF Build, AInv
<1>3. faults = 0 => rxq = <<>> /\ ~ Dumping
  BY DEF Build, CleanInv
<1>4. \A i \in DOMAIN rxq' : SoundDatagram(rxq[i])'
  <2>1. CASE faults = 0
    BY <1>1, <1>3, <2>1
  <2>2. CASE faults # 0
    <3>1. \A m \in Message : Sound(m) => Sound(m)'
      BY <1>1, <2>2 DEF Build, Sound, Numbered, Message
    <3>2. \A d \in Seq(Message) : SoundDatagram(d) => SoundDatagram(d)'
      BY <3>1 DEF SoundDatagram
    <3> QED
      BY <1>1, <3>2, Queued
  <2> QED
    BY <2>1, <2>2
<1>5. dg' = <<>> /\ ~ quit' /\ pc' = "send"
  BY DEF Build, AInv, TInv, TypeOK
<1>6. SoundDump'
  <2>1. CASE faults = 0
    BY <1>1, <1>3, <2>1 DEF SoundDump, Dumping, Idle
  <2>2. CASE faults # 0
    <3>1. Dumping' <=> Dumping
      BY <1>1 DEF Dumping, Idle
    <3>2. Numbered(dump.seq, dump.call) => Numbered(dump.seq, dump.call)'
      BY <1>1, <2>2 DEF Numbered
    <3>3. Dumping => dump.call \in Nat
      BY DumpTyped DEF AInv
    <3> QED
      BY <1>1, <3>1, <3>2, <3>3 DEF Build, AInv, SoundDump
  <2> QED
    BY <2>1, <2>2
<1> QED
  BY <1>2, <1>4, <1>5, <1>6 DEF AInv, SoundDatagram, SoundQuit, Build

\* An element of a sequence with something appended is an old one or the new.
LEMMA AppendElement ==
  ASSUME NEW S, NEW q \in Seq(S), NEW e, NEW i \in DOMAIN Append(q, e)
  PROVE  (i \in DOMAIN q /\ Append(q, e)[i] = q[i]) \/ Append(q, e)[i] = e
  OBVIOUS

\* The answer to a request, one message, joins the older ones.
LEMMA AnswerSound ==
  ASSUME AInv, pc = "send", pc' = "recv",
         UNCHANGED <<seq, call, kind, dg, dump, quit, faults>>,
         NEW type \in {"error", "data"}, NEW error \in {0, -1},
         NEW v \in {"ok", "fail"}, (error = 0) <=> (v = "ok"),
         kind = "get" => type = "data" \/ error < 0, type = "data" => error = 0,
         TInv',
         Answer(v, << <<Msg(type, seq, call, error, 0)>> >>)
  PROVE  AInv'
<1> DEFINE new == Msg(type, seq, call, error, 0)
<1>1. /\ call \in Calls /\ dg = <<>> /\ ~ quit /\ rxq \in Seq(Datagram)
      /\ verdict \in [Calls -> {"none", "ok", "fail", "cut"}]
  BY DEF AInv, TInv, TypeOK, SoundQuit
<1>2. rxq' = Append(rxq, <<new>>) /\ verdict' = [verdict EXCEPT ![call] = v]
  BY <1>1, AnswerTyped DEF AInv, Answer
<1>3. \A m \in Message : Sound(m) => Sound(m)'
  BY <1>1, <1>2, NumberedKept DEF Sound, Message
<1>4. Sound(new)'
  BY <1>1, <1>2 DEF Sound, Numbered, Msg, AInv
<1>5. \A i \in DOMAIN rxq' : SoundDatagram(rxq[i])'
  <2>1. \A d \in Seq(Message) : SoundDatagram(d) => SoundDatagram(d)'
    BY <1>3 DEF SoundDatagram
  <2>2. SoundDatagram(<<new>>)'
    <3>1. \A i \in DOMAIN <<new>> : i = 1 /\ <<new>>[i] = new
      OBVIOUS
    <3> HIDE DEF new
    <3> QED
      BY <1>4, <3>1, <1>1 DEF SoundDatagram
  <2> SUFFICES ASSUME NEW i \in DOMAIN rxq' PROVE SoundDatagram(rxq[i])'
    OBVIOUS
  <2>3. (i \in DOMAIN rxq /\ rxq'[i] = rxq[i]) \/ rxq'[i] = <<new>>
    BY <1>1, <1>2, AppendElement
  <2>4. CASE i \in DOMAIN rxq /\ rxq'[i] = rxq[i]
    BY <2>1, <2>4, Queued
  <2>5. CASE rxq'[i] = <<new>>
    BY <2>2, <2>5, <1>1
  <2> QED
    BY <2>3, <2>4, <2>5
<1>6. SoundDump'
  <2>1. SoundDump /\ (Dumping => dump.call \in Calls) /\ (Dumping' <=> Dumping)
    BY DumpTyped DEF AInv, Dumping, Idle
  <2> QED
    BY <1>1, <1>2, <2>1, NumberedKept DEF SoundDump
<1> QED
  BY <1>1, <1>5, <1>6 DEF AInv, SoundDatagram, SoundQuit

\* Whatever the kernel decides, the answer it queues says so.
LEMMA SendStep == ASSUME AInv, TInv', Send PROVE AInv'
<1>1. /\ pc = "send" /\ pc' = "recv" /\ UNCHANGED <<seq, call, kind, dg, quit, faults>>
      /\ call \in Calls /\ dg = <<>> /\ ~ quit
  BY DEF Send, AInv, TInv, TypeOK, SoundQuit
<1>2. CASE Refused /\ UNCHANGED <<dump, objects>>
  BY <1>1, <1>2, AnswerSound DEF Refused
<1>3. CASE /\ kind = "ack"
           /\ Answer("ok", << <<Msg("error", seq, call, 0, 0)>> >>)
           /\ UNCHANGED <<dump, objects>>
  BY <1>1, <1>3, AnswerSound
<1>4. CASE /\ kind = "get"
           /\ Answer("ok", << <<Msg("data", seq, call, 0, 0)>> >>)
           /\ UNCHANGED <<dump, objects>>
  BY <1>1, <1>4, AnswerSound
<1>5. CASE /\ kind = "dump" /\ Answer("ok", <<>>)
           /\ dump' = [left |-> objects', seq |-> seq, call |-> call,
                       next |-> 1]
  <2>1. rxq' = rxq /\ verdict' = [verdict EXCEPT ![call] = "ok"]
    BY <1>5 DEF Answer, AInv, TInv, TypeOK
  <2>2. \A m \in Message : Sound(m) => Sound(m)'
    BY <1>1, <2>1, NumberedKept DEF Sound, Message
  <2>3. \A i \in DOMAIN rxq' : SoundDatagram(rxq[i])'
    <3>1. \A d \in Seq(Message) : SoundDatagram(d) => SoundDatagram(d)'
      BY <2>2 DEF SoundDatagram
    <3> QED
      BY <2>1, <3>1, Queued
  <2>4. SoundDump'
    <3>1. Numbered(seq, call)'
      BY <1>1 DEF Numbered, AInv
    <3>2. dump'.seq = seq' /\ dump'.call = call' /\ verdict'[call] = "ok"
      BY <1>1, <1>5, <2>1 DEF AInv, TInv, TypeOK
    <3> QED
      BY <1>1, <1>5, <3>1, <3>2 DEF SoundDump, Send
  <2> QED
    BY <1>1, <2>3, <2>4 DEF AInv, SoundDatagram, SoundQuit
<1> QED
  BY <1>2, <1>3, <1>4, <1>5 DEF Send

\* Taking a datagram from the queue.
LEMMA RecvStep == ASSUME AInv, TInv', Recv PROVE AInv'
<1>1. \A d \in Seq(Message) : SoundDatagram(d) => SoundDatagram(d)'
  BY SoundKept DEF Recv, historyVars
<1>2. SoundDatagram(Head(rxq)) /\ Head(rxq) \in Seq(Message)
  BY DEF Recv, AInv, TInv, TypeOK, Datagram
<1>3. \A i \in DOMAIN rxq' : SoundDatagram(rxq[i])'
  <2> SUFFICES ASSUME NEW i \in DOMAIN rxq' PROVE SoundDatagram(rxq[i])'
    OBVIOUS
  <2>1. i + 1 \in DOMAIN rxq /\ rxq'[i] = rxq[i + 1]
    BY DEF Recv, AInv, TInv, TypeOK
  <2> QED
    BY <1>1, <2>1, Queued
<1>4. SoundDatagram(dg)'
  BY <1>1, <1>2 DEF Recv
<1>5. SoundDump' /\ ~ quit /\ quit' = quit
  BY SoundKept DEF Recv, AInv, SoundQuit, historyVars
<1> QED
  BY <1>3, <1>4, <1>5 DEF AInv, SoundQuit, Recv

\* A message of an older call is stale, one of the current call decides what
\* the call returns.
LEMMA ParseStep == ASSUME AInv, ToldApart, TInv', ParseMsg PROVE AInv'
<1> DEFINE m == Head(dg)
<1>1. /\ m \in Message /\ m = dg[1] /\ Sound(m) /\ dg # <<>> /\ pc = "parse"
      /\ call \in Calls
  BY DEF ParseMsg, AInv, TInv, TypeOK, SoundDatagram
<1>2. Stale(m) <=> m.call # call
  <2>1. Numbered(m.seq, m.call) /\ m.call <= call /\ (call < SeqMod => seq = call)
    BY <1>1 DEF Sound, AInv
  <2>2. m.call \in Nat /\ m.seq \in Nat /\ seq \in Nat /\ call \in Nat
    <3>1. m.call \in Calls /\ m.seq \in 0 .. SeqMod - 1
      BY <1>1 DEF Message
    <3>2. seq \in 0 .. SeqMod - 1
      BY DEF AInv, TInv, TypeOK
    <3> HIDE DEF m
    <3> QED
      BY <1>1, <3>1, <3>2, SeqModAssumption
  <2> HIDE DEF m
  <2> QED
    BY <2>1, <2>2 DEF Stale, ToldApart, Numbered
<1>3. \A d \in Seq(Message) : SoundDatagram(d) => SoundDatagram(d)'
  BY SoundKept DEF ParseMsg
<1>4. \A i \in DOMAIN rxq' : SoundDatagram(rxq[i])'
  BY <1>3, Queued DEF ParseMsg
<1>5. SoundDatagram(dg)'
  <2>1. dg \in Seq(Message) /\ SoundDatagram(dg) /\ dg' \in {Tail(dg), <<>>}
    BY DEF AInv, TInv, TypeOK, ParseMsg
  <2>2. /\ Tail(dg) \in Seq(Message) /\ <<>> \in Seq(Message)
        /\ \A i \in DOMAIN Tail(dg) : i + 1 \in DOMAIN dg /\ Tail(dg)[i] = dg[i + 1]
    BY <1>1, <2>1
  <2>3. \A i \in DOMAIN Tail(dg) : 1 \in DOMAIN Tail(dg)
    BY <2>2
  <2>4. SoundDatagram(Tail(dg)) /\ SoundDatagram(<<>>)
    BY <2>1, <2>2, <2>3 DEF SoundDatagram
  <2> QED
    BY <1>3, <2>1, <2>2, <2>4
<1>6. SoundDump'
  BY SoundKept DEF ParseMsg, AInv
<1>7. SoundQuit'
  <2>1. CASE Stale(m)
    <3>1. ~ quit
      <4>0. dg \in Seq(Message) /\ dg[1].call # call
        BY <1>1, <1>2, <2>1 DEF AInv, TInv, TypeOK
      <4>1. 1 \in DOMAIN dg /\ dg[1].call # call
        BY <4>0, <1>1
      <4>2. quit => dg[1].call = call
        BY <4>1 DEF SoundQuit, AInv
      <4> QED
        BY <4>1, <4>2
    <3>2. ~ quit'
      BY <2>1, <3>1 DEF ParseMsg
    <3> QED
      BY <3>2 DEF SoundQuit
  <2>2. CASE ~ Stale(m)
    <3>0. dg' = Tail(dg) /\ dg \in Seq(Message)
      BY <2>2 DEF ParseMsg, AInv, TInv, TypeOK
    <3>1. m.call = call /\ (\A i \in DOMAIN dg' : dg'[i].call = call)
      <4>1. m.call = call /\ (\A i \in DOMAIN dg : dg[i].call = call)
        BY <1>1, <1>2, <2>2 DEF AInv, SoundDatagram
      <4>2. \A i \in DOMAIN dg' : i + 1 \in DOMAIN dg /\ dg'[i] = dg[i + 1]
        BY <1>1, <3>0
      <4> QED
        BY <4>1, <4>2
    <3>2. quit' => answeredBy' = call
      BY <2>2, <3>1 DEF ParseMsg, SoundQuit, AInv
    <3>3. /\ ret' = IF m.type = "error" THEN m.error ELSE 0
          /\ parsed' = IF m.type \in {"data", "part"} THEN m.call ELSE parsed
          /\ UNCHANGED <<call, kind, verdict>>
          /\ quit' => pc' \in {"parse", "done"}
      BY DEF ParseMsg, Ret
    <3>4. m.error \in {0, -1}
      BY <1>1 DEF Message
    <3>5. IF ret' < 0 THEN verdict'[call] = "fail"
                      ELSE verdict'[call] \in {"ok", "cut"}
      BY <1>1, <3>1, <3>3, <3>4 DEF Sound
    <3>6. kind' = "get" /\ ret' = 0 => parsed' = call
      BY <1>1, <3>1, <3>3, <3>4 DEF Sound
    <3> QED
      BY <1>1, <3>1, <3>2, <3>3, <3>5, <3>6 DEF SoundQuit
  <2> QED
    BY <2>1, <2>2
<1> QED
  BY <1>4, <1>5, <1>6, <1>7 DEF AInv, ParseMsg

\* The parts of the running dump are sound.
LEMMA PartsSound ==
  ASSUME TInv, SoundDump, Dumping, NEW n \in 0 .. dump.left
  PROVE  /\ SoundDatagram(Parts(n))
         /\ \A i \in DOMAIN Parts(n) : Parts(n)[i].call = dump.call
<1>1. \A i \in DOMAIN Parts(n) :
        Parts(n)[i] = Msg("part", dump.seq, dump.call, 0, dump.next + i - 1)
  BY DEF Parts
<1>2. ASSUME NEW x
      PROVE  /\ Sound(Msg("part", dump.seq, dump.call, 0, x))
             /\ Msg("part", dump.seq, dump.call, 0, x).call = dump.call
  BY DEF Sound, Msg, SoundDump
<1>3. 1 \in DOMAIN Parts(n) \/ DOMAIN Parts(n) = {}
  BY DumpTyped DEF Parts
<1> QED
  BY <1>1, <1>2, <1>3 DEF SoundDatagram

\* A dump that goes on queues sound parts.
LEMMA DumpMoreStep == ASSUME AInv, TInv', DumpMore PROVE AInv'
<1>1. PICK n \in 1 .. dump.left :
        /\ rxq'  = Append(rxq, Parts(n))
        /\ dump' = [dump EXCEPT !.left = @ - n, !.next = @ + n]
  BY DEF DumpMore
<1>2. /\ Dumping /\ rxq \in Seq(Datagram)
      /\ UNCHANGED <<seq, call, kind, pc, quit, ret, dg, parsed, verdict,
                     answeredBy, faults>>
  BY DEF DumpMore, AInv, TInv, TypeOK, callerVars, historyVars
<1>3. \A d \in Seq(Message) : SoundDatagram(d) => SoundDatagram(d)'
  BY <1>2, SoundKept
<1>4. SoundDatagram(Parts(n))
  BY <1>2, PartsSound, DumpTyped DEF AInv
<1>5. dump'.seq = dump.seq /\ dump'.call = dump.call
  BY <1>1, <1>2, DumpTyped DEF AInv
<1>6. SoundDump'
  BY <1>2, <1>5, NumberedKept DEF AInv, SoundDump
<1>7. \A i \in DOMAIN rxq' : SoundDatagram(rxq[i])'
  <2> SUFFICES ASSUME NEW i \in DOMAIN rxq' PROVE SoundDatagram(rxq[i])'
    OBVIOUS
  <2>1. (i \in DOMAIN rxq /\ rxq'[i] = rxq[i]) \/ rxq'[i] = Parts(n)
    BY <1>1, <1>2, AppendElement
  <2>2. Parts(n) \in Seq(Message)
    BY <1>1, <1>2, PartsTyped, DumpTyped DEF AInv
  <2> QED
    BY <1>3, <1>4, <2>1, <2>2, Queued
<1>8. SoundDatagram(dg)' /\ SoundQuit'
  BY <1>2, <1>3 DEF AInv, SoundQuit, TInv, TypeOK
<1> QED
  BY <1>2, <1>6, <1>7, <1>8 DEF AInv

\* NLMSG_DONE is sound, and a dump cut short is still not refused.
LEMMA DumpDoneStep == ASSUME AInv, TInv', DumpDone PROVE AInv'
<1> DEFINE end(error) == Msg("done", dump.seq, dump.call, error, 0)
<1>1. PICK n \in 0 .. dump.left, error \in {0, -1} :
        /\ rxq' = Append(rxq, Append(Parts(n), end(error)))
        /\ verdict' = [verdict EXCEPT ![dump.call] =
                         IF error = 0 THEN @ ELSE "cut"]
  BY DEF DumpDone
<1>2. /\ Dumping /\ ~ Dumping' /\ rxq \in Seq(Datagram)
      /\ UNCHANGED <<seq, call, kind, pc, quit, ret, dg, parsed, answeredBy,
                     faults>>
      /\ verdict \in [Calls -> {"none", "ok", "fail", "cut"}]
      /\ dump.call \in Calls /\ verdict[dump.call] \in {"ok", "cut"}
  BY DumpTyped DEF DumpDone, Dumping, AInv, SoundDump, TInv, TypeOK, callerVars
<1>3. \A c \in Calls : /\ verdict[c] = "fail" => verdict'[c] = "fail"
                       /\ verdict[c] \in {"ok", "cut"}
                            => verdict'[c] \in {"ok", "cut"}
  BY <1>1, <1>2
<1>4. \A m \in Message : Sound(m) => Sound(m)'
  BY <1>2, <1>3, NumberedKept DEF Sound, Message
<1>5. \A d \in Seq(Message) : SoundDatagram(d) => SoundDatagram(d)'
  BY <1>4 DEF SoundDatagram
<1>6. /\ Parts(n) \in Seq(Message) /\ SoundDatagram(Parts(n))
      /\ \A i \in DOMAIN Parts(n) : Parts(n)[i].call = dump.call
  BY <1>2, PartsTyped, PartsSound DEF AInv
<1>7. end(error) \in Message /\ Sound(end(error)) /\ end(error).call = dump.call
  BY <1>2, MsgTyped, DumpTyped, MaxPartsAssumption
     DEF Sound, AInv, SoundDump, Msg
<1>8. /\ Append(Parts(n), end(error)) \in Seq(Message)
      /\ SoundDatagram(Append(Parts(n), end(error)))
  BY <1>6, <1>7 DEF SoundDatagram
<1>9. \A i \in DOMAIN rxq' : SoundDatagram(rxq[i])'
  <2> SUFFICES ASSUME NEW i \in DOMAIN rxq' PROVE SoundDatagram(rxq[i])'
    OBVIOUS
  <2>1. \/ i \in DOMAIN rxq /\ rxq'[i] = rxq[i]
        \/ rxq'[i] = Append(Parts(n), end(error))
    BY <1>1, <1>2, AppendElement
  <2> QED
    BY <2>1, <1>5, <1>8, Queued
<1>10. SoundDatagram(dg)'
  <2>1. dg \in Seq(Message) /\ SoundDatagram(dg)
    BY DEF AInv, TInv, TypeOK
  <2> QED
    BY <1>2, <1>5, <2>1
<1>11. SoundQuit'
  <2>1. call \in Nat /\ (call # 0 => call \in Calls) /\ SoundQuit
    BY DEF AInv, TInv, TypeOK
  <2> QED
    BY <1>2, <1>3, <2>1 DEF SoundQuit
<1> QED
  BY <1>2, <1>9, <1>10, <1>11 DEF AInv, SoundDump

\* No other step adds a message, or changes what the messages are about.
LEMMA OtherStep ==
  ASSUME AInv, TInv', SendFail \/ RecvFail \/ Finish \/ Lose \/ UNCHANGED vars
  PROVE  AInv'
<1>1. /\ UNCHANGED <<seq, call, kind, verdict, dump, dg, quit, ret, parsed,
                     answeredBy>>
      /\ pc' \in {pc, "idle"}
      /\ faults' = 0 => faults = 0
  <2>1. faults \in Nat
    BY MaxFaultsAssumption DEF AInv, TInv, TypeOK
  <2> QED
    BY <2>1 DEF SendFail, RecvFail, Finish, Lose, Return, vars, callerVars,
                historyVars
<1>2. \A d \in Seq(Message) : SoundDatagram(d) => SoundDatagram(d)'
  BY <1>1, SoundKept
<1>3. \A i \in DOMAIN rxq' : i \in DOMAIN rxq /\ rxq'[i] = rxq[i]
  <2>1. CASE Lose
    <3>1. rxq \in Seq(Datagram) /\ rxq' = SubSeq(rxq, 1, Len(rxq) - 1)
      BY <2>1 DEF Lose, AInv, TInv, TypeOK
    <3> QED
      BY <3>1, SubSeqProperties
  <2>2. CASE rxq' = rxq
    BY <2>2
  <2> QED
    BY <2>1, <2>2 DEF SendFail, RecvFail, Finish, vars
<1>4. \A i \in DOMAIN rxq' : SoundDatagram(rxq[i])'
  BY <1>2, <1>3, Queued
<1>5. SoundDatagram(dg)' /\ SoundDump'
  BY <1>1, <1>2, SoundKept DEF AInv, TInv, TypeOK
<1>6. SoundQuit'
  BY <1>1 DEF AInv, SoundQuit
<1> QED
  BY <1>1, <1>4, <1>5, <1>6 DEF AInv

\* SInv is an invariant, whatever fails or is lost, before the sequence number
\* wraps and, without failures, after it.
SInv == TInv /\ CleanInv /\ (ToldApart => AInv)

LEMMA AnswerStep ==
  ASSUME ToldApart, AInv, CleanInv, TInv', ToldApart', [Next]_vars
  PROVE  AInv'
  BY StillApart, BuildStep, SendStep, RecvStep, ParseStep, DumpMoreStep,
     DumpDoneStep, OtherStep DEF Next, Caller, Kernel

LEMMA AnswerInvariance == Spec => []SInv
<1>1. Init => SInv
  BY TypeInit, CleanInit, AnswerInit DEF SInv
<1>2. SInv /\ [Next]_vars => SInv'
  <2> SUFFICES ASSUME SInv, [Next]_vars PROVE SInv'
    OBVIOUS
  <2>1. TInv' /\ CleanInv'
    BY TypeStep, CleanStep DEF SInv
  <2>2. ToldApart' => AInv'
    BY <2>1, StillApart, AnswerStep DEF SInv
  <2> QED
    BY <2>1, <2>2 DEF SInv
<1> QED
  BY <1>1, <1>2, PTL DEF Spec

\* nl_dispatch never takes another call's message for the answer, whatever
\* failed or was lost before, until the sequence number wraps; and never at all
\* as long as nothing fails.
THEOREM RepliesMatch == Spec => []OwnReply
<1>1. SInv => OwnReply
  BY DEF SInv, AInv, SoundQuit, OwnReply
<1> QED
  BY <1>1, AnswerInvariance, PTL

\* What nl_dispatch returns is what the kernel decided of the call's own
\* request.
THEOREM VerdictsMatch == Spec => []OwnVerdict
<1>1. SInv => OwnVerdict
  BY DEF SInv, AInv, SoundQuit, OwnVerdict
<1> QED
  BY <1>1, AnswerInvariance, PTL

\* A call for an object that succeeds leaves its own answer in the family
\* structure.
THEOREM ParsedIsFresh == Spec => []FreshParse
<1>1. SInv => FreshParse
  BY DEF SInv, AInv, SoundQuit, FreshParse
<1> QED
  BY <1>1, AnswerInvariance, PTL

-----------------------------------------------------------------------------
(* The parts of a dump, while sequence numbers tell the calls apart *)

\* The places of the unread messages, the message at a place, and which of two
\* is read first.
Places == {p \in Unread \X Nat : p[2] \in DOMAIN At(p[1])}
MsgAt(p) == At(p[1])[p[2]]
Earlier(p, q) == p[1] < q[1] \/ (p[1] = q[1] /\ p[2] < q[2])

OwnPart(m) == m.call = call /\ m.type = "part"
OwnDone(m) == m.call = call /\ m.type = "done"
OwnRuns == Dumping /\ dump.call = call

\* The call waits for, or has, a dump that nothing cut short or lost.
WholeDump == /\ kind = "dump" /\ pc \in {"recv", "parse", "done"}
             /\ verdict[call] = "ok" /\ losses = 0 /\ ToldApart

\* The parts handled are in order, before those of the dump that runs.
ListedInOrder == \A i \in OwnParts :
  /\ listed[i][2] \in 1 .. objects
  /\ \A j \in OwnParts : i < j => listed[i][2] < listed[j][2]
  /\ OwnRuns => listed[i][2] < dump.next

\* The answer to a dump has parts and an end only.
OwnKinds == \A p \in Places : MsgAt(p).call = call =>
  /\ MsgAt(p).multi /\ MsgAt(p).type \in {"part", "done"}
  /\ MsgAt(p).type = "done" => ~ OwnRuns

\* The unread parts follow those handled, in order, and the end follows them.
UnreadInOrder == \A p \in Places : OwnPart(MsgAt(p)) =>
  /\ MsgAt(p).part \in 1 .. objects /\ ~ quit
  /\ \A i \in OwnParts : listed[i][2] < MsgAt(p).part
  /\ OwnRuns => MsgAt(p).part < dump.next
  /\ \A q \in Places :
       /\ OwnPart(MsgAt(q)) /\ Earlier(p, q) => MsgAt(p).part < MsgAt(q).part
       /\ OwnDone(MsgAt(q)) => Earlier(p, q)

StillRuns == OwnRuns => dump.next + dump.left = objects + 1 /\ ~ quit

\* Each object is listed, unread or still the kernel's.
NoneMissing == \A n \in 1 .. objects :
  \/ \E i \in OwnParts : listed[i][2] = n
  \/ \E p \in Places : OwnPart(MsgAt(p)) /\ MsgAt(p).part = n
  \/ OwnRuns /\ n >= dump.next

DumpInv ==
  /\ listed \in Seq(Calls \X (0 .. MaxParts))
  /\ pc = "send" => listed = <<>>
  /\ WholeDump => /\ ListedInOrder /\ OwnKinds /\ UnreadInOrder
                  /\ StillRuns /\ NoneMissing

\* A message that is parsed is stale exactly if another call's answer.
LEMMA StaleIff ==
  ASSUME AInv, ToldApart, ParseMsg
  PROVE  /\ Head(dg) = dg[1] /\ dg[1] \in Message /\ 1 \in DOMAIN dg
         /\ Stale(dg[1]) <=> dg[1].call # call
<1> DEFINE m == dg[1]
<1>1. /\ Head(dg) = m /\ m \in Message /\ 1 \in DOMAIN dg /\ Sound(m)
      /\ call \in Calls
  BY DEF ParseMsg, AInv, TInv, TypeOK, SoundDatagram
<1>2. Numbered(m.seq, m.call) /\ m.call <= call /\ (call < SeqMod => seq = call)
  BY <1>1 DEF Sound, AInv
<1>3. m.call \in Calls /\ m.seq \in 0 .. SeqMod - 1
  BY <1>1 DEF Message
<1>4. seq \in 0 .. SeqMod - 1
  BY DEF AInv, TInv, TypeOK
<1> HIDE DEF m
<1>5. m.call \in Nat /\ m.seq \in Nat /\ seq \in Nat /\ call \in Nat
  BY <1>1, <1>3, <1>4, SeqModAssumption
<1>6. Stale(m) <=> m.call # call
  BY <1>2, <1>5 DEF Stale, ToldApart, Numbered
<1> QED
  BY <1>1, <1>6 DEF m

\* Where a message was before Recv and before ParseMsg moved it up.
Behind(p) == <<p[1] + 1, p[2]>>
First == <<0, 1>>
After(p) == IF p[1] = 0 THEN <<0, p[2] + 1>> ELSE p

\* Recv moves each message.
LEMMA RecvPlaces ==
  ASSUME TInv, Recv
  PROVE  /\ \A p \in Places' : Behind(p) \in Places /\ MsgAt(p)' = MsgAt(Behind(p))
         /\ \A p, q \in Places' : Earlier(p, q) <=> Earlier(Behind(p), Behind(q))
         /\ \A p \in Places : \E q \in Places' : Behind(q) = p
<1>1. /\ dg = <<>> /\ Len(rxq') = Len(rxq) - 1 /\ Len(rxq) \in Nat
      /\ \A i \in Unread' : i + 1 \in Unread /\ At(i)' = At(i + 1)
  BY Received, UnreadTyped
<1>2. ASSUME NEW p \in Places'
      PROVE  Behind(p) \in Places /\ MsgAt(p)' = MsgAt(Behind(p))
  <2>1. p[1] \in Unread' /\ p[2] \in Nat /\ p[2] \in DOMAIN At(p[1])'
    BY DEF Places
  <2>2. Behind(p)[1] = p[1] + 1 /\ Behind(p)[2] = p[2]
    BY DEF Behind
  <2> QED
    BY <1>1, <2>1, <2>2 DEF Places, MsgAt, Behind
<1>3. ASSUME NEW p \in Places', NEW q \in Places'
      PROVE  Earlier(p, q) <=> Earlier(Behind(p), Behind(q))
  <2>1. p[1] \in Nat /\ q[1] \in Nat
    BY <1>1 DEF Places, Unread
  <2> QED
    BY <2>1 DEF Earlier, Behind
<1>4. ASSUME NEW p \in Places
      PROVE  \E q \in Places' : Behind(q) = p
  <2>1. p[1] \in Unread /\ p[2] \in Nat /\ p[2] \in DOMAIN At(p[1]) /\ p = <<p[1], p[2]>>
    BY DEF Places
  <2>2. p[1] # 0
    <3>1. DOMAIN dg = {}
      BY <1>1
    <3> QED
      BY <2>1, <3>1 DEF At
  <2> DEFINE q == <<p[1] - 1, p[2]>>
  <2>3. p[1] - 1 \in Unread' /\ p[1] - 1 + 1 = p[1]
    BY <1>1, <2>1, <2>2 DEF Unread
  <2>4. q \in Places'
    BY <1>1, <2>1, <2>3 DEF Places
  <2>5. Behind(q) = p
    BY <2>1, <2>3 DEF Behind
  <2> QED
    BY <2>4, <2>5
<1> QED
  BY <1>2, <1>3, <1>4

\* ParseMsg takes the first message and, with a stale one, other calls'.
LEMMA ParsePlaces ==
  ASSUME AInv, ToldApart, ParseMsg
  PROVE  /\ First \in Places /\ MsgAt(First) = dg[1]
         /\ \A p \in Places' : /\ After(p) \in Places /\ MsgAt(p)' = MsgAt(After(p))
                               /\ Earlier(First, After(p)) /\ After(p) # First
         /\ \A p, q \in Places' : Earlier(p, q) <=> Earlier(After(p), After(q))
         /\ \A p \in Places : MsgAt(p).call = call =>
              p = First \/ \E q \in Places' : After(q) = p
<1>1. /\ Unread' = Unread /\ 0 \in Unread /\ 1 \in DOMAIN At(0)
      /\ \A i \in Unread : i # 0 => At(i)' = At(i)
      /\ \A k \in DOMAIN At(0)' :
           k + 1 \in DOMAIN At(0) /\ k + 1 # 1 /\ At(0)'[k] = At(0)[k + 1]
  BY Parsed DEF AInv
<1>2. /\ At(0) = dg /\ At(0)' = dg' /\ Len(rxq) \in Nat
      /\ \A i \in Unread : i \in Nat /\ \A k \in DOMAIN At(i) : k \in Nat /\ k >= 1
  BY UnreadTyped DEF At, Unread, AInv
<1>3. First \in Places /\ MsgAt(First) = dg[1]
  BY <1>1, <1>2 DEF First, Places, MsgAt
<1>4. ASSUME NEW p \in Places'
      PROVE  /\ After(p) \in Places /\ MsgAt(p)' = MsgAt(After(p))
             /\ Earlier(First, After(p)) /\ After(p) # First
             /\ p[1] \in Nat /\ p[2] \in Nat
  <2>1. p[1] \in Unread /\ p[2] \in Nat /\ p[2] \in DOMAIN At(p[1])' /\ p = <<p[1], p[2]>>
    BY <1>1 DEF Places
  <2>2. CASE p[1] = 0
    <3>1. p[2] + 1 \in DOMAIN At(0) /\ At(0)'[p[2]] = At(0)[p[2] + 1] /\ p[2] + 1 # 1
      BY <1>1, <2>1, <2>2
    <3>2. p[2] + 1 \in Nat /\ p[2] + 1 > 1
      BY <1>1, <1>2, <2>1, <3>1
    <3>3. After(p) = <<0, p[2] + 1>>
      BY <2>2 DEF After
    <3>4. MsgAt(p)' = At(0)'[p[2]]
      BY <2>2 DEF MsgAt
    <3> QED
      BY <1>1, <2>1, <2>2, <3>1, <3>2, <3>3, <3>4 DEF Places, MsgAt, Earlier, First
  <2>3. CASE p[1] # 0
    <3>1. p[1] \in Nat /\ After(p) = p /\ At(p[1])' = At(p[1])
      BY <1>1, <1>2, <2>1, <2>3 DEF After
    <3>2. p \in Places
      BY <2>1, <3>1 DEF Places
    <3>3. MsgAt(p)' = MsgAt(p)
      BY <3>1 DEF MsgAt
    <3>4. Earlier(First, p) /\ p # First
      BY <2>3, <3>1 DEF Earlier, First
    <3> QED
      BY <2>1, <3>1, <3>2, <3>3, <3>4
  <2> QED
    BY <2>2, <2>3
<1>5. ASSUME NEW p \in Places', NEW q \in Places'
      PROVE  Earlier(p, q) <=> Earlier(After(p), After(q))
  <2>1. p[1] \in Nat /\ p[2] \in Nat /\ q[1] \in Nat /\ q[2] \in Nat
    BY <1>4
  <2>2. /\ After(p)[1] = p[1] /\ After(p)[2] = IF p[1] = 0 THEN p[2] + 1 ELSE p[2]
        /\ After(q)[1] = q[1] /\ After(q)[2] = IF q[1] = 0 THEN q[2] + 1 ELSE q[2]
    BY DEF After
  <2> QED
    BY <2>1, <2>2 DEF Earlier
<1>6. ASSUME NEW p \in Places, MsgAt(p).call = call, p # First
      PROVE  \E q \in Places' : After(q) = p
  <2>1. p[1] \in Unread /\ p[2] \in Nat /\ p[2] \in DOMAIN At(p[1]) /\ p = <<p[1], p[2]>>
    BY DEF Places
  <2>2. CASE p[1] # 0
    <3>1. p \in Places' /\ After(p) = p
      BY <1>1, <2>1, <2>2 DEF Places, After
    <3> QED
      BY <3>1
  <2>3. CASE p[1] = 0
    <3>1. ~ Stale(dg[1])
      <4>1. SoundDatagram(dg) /\ p[2] \in DOMAIN dg /\ dg[p[2]].call = call
        BY <1>2, <1>6, <2>1, <2>3 DEF AInv, MsgAt
      <4> QED
        BY <4>1, StaleIff DEF SoundDatagram
    <3>2. dg' = Tail(dg) /\ dg \in Seq(Message) /\ dg # <<>>
      BY <3>1, StaleIff DEF ParseMsg, AInv, TInv, TypeOK
    <3>3. p[2] # 1 /\ p[2] >= 1
      BY <1>2, <1>6, <2>1, <2>3 DEF First
    <3>4. p[2] - 1 \in DOMAIN dg' /\ p[2] - 1 \in Nat /\ p[2] - 1 + 1 = p[2]
      BY <1>2, <2>1, <2>3, <3>2, <3>3
    <3> DEFINE q == <<0, p[2] - 1>>
    <3>5. q \in Places'
      BY <1>1, <1>2, <3>4 DEF Places
    <3>6. After(q) = p
      BY <2>1, <2>3, <3>4 DEF After
    <3> QED
      BY <3>5, <3>6
  <2> QED
    BY <2>2, <2>3
<1> QED
  BY <1>3, <1>4, <1>5, <1>6

\* A datagram of the running dump is read after all others.
LEMMA AppendPlaces ==
  ASSUME TInv, UNCHANGED dg, NEW d \in Seq(Message), rxq' = Append(rxq, d)
  PROVE  /\ \A p \in Places : /\ p \in Places' /\ MsgAt(p)' = MsgAt(p)
                              /\ p[1] < Len(rxq') /\ p[1] \in Nat
         /\ \A p \in Places' : \/ p \in Places
                               \/ /\ p[1] = Len(rxq') /\ p[2] \in DOMAIN d
                                  /\ MsgAt(p)' = d[p[2]]
         /\ \A k \in DOMAIN d : \E p \in Places' :
              p[1] = Len(rxq') /\ p[2] = k /\ MsgAt(p)' = d[k]
         /\ Len(rxq') \in Nat
<1>1. /\ Len(rxq') = Len(rxq) + 1 /\ Len(rxq) \in Nat
      /\ Unread' = Unread \cup {Len(rxq')} /\ Len(rxq') \notin Unread
      /\ \A i \in Unread' : IF i \in Unread THEN At(i)' = At(i)
                            ELSE i = Len(rxq') /\ At(i)' = d
  BY Appended, UnreadTyped
<1>2. ASSUME NEW p \in Places
      PROVE  /\ p \in Places' /\ MsgAt(p)' = MsgAt(p)
             /\ p[1] < Len(rxq') /\ p[1] \in Nat
  <2>1. p[1] \in Unread /\ p \in Unread \X Nat /\ p[2] \in DOMAIN At(p[1])
    BY DEF Places
  <2>2. At(p[1])' = At(p[1]) /\ p \in Unread' \X Nat
    BY <1>1, <2>1
  <2> QED
    BY <1>1, <2>1, <2>2 DEF Places, MsgAt, Unread
<1>3. ASSUME NEW p \in Places', p \notin Places
      PROVE  p[1] = Len(rxq') /\ p[2] \in DOMAIN d /\ MsgAt(p)' = d[p[2]]
  <2>1. p[1] \in Unread' /\ p \in Unread' \X Nat /\ p[2] \in DOMAIN At(p[1])'
    BY DEF Places
  <2>2. p[1] \notin Unread
    <3> SUFFICES ASSUME p[1] \in Unread PROVE FALSE
      OBVIOUS
    <3>1. At(p[1])' = At(p[1]) /\ p \in Unread \X Nat
      BY <1>1, <2>1
    <3> QED
      BY <1>3, <2>1, <3>1 DEF Places
  <2> QED
    BY <1>1, <2>1, <2>2 DEF MsgAt
<1>4. ASSUME NEW k \in DOMAIN d
      PROVE  \E p \in Places' : p[1] = Len(rxq') /\ p[2] = k /\ MsgAt(p)' = d[k]
  <2>1. ASSUME NEW p, p = <<Len(rxq'), k>>
        PROVE  p \in Places' /\ p[1] = Len(rxq') /\ p[2] = k /\ MsgAt(p)' = d[k]
    <3>1. p[1] \in Unread' /\ At(p[1])' = d /\ p[2] = k /\ p[2] \in Nat
          /\ p[1] = Len(rxq')
      BY <1>1, <2>1
    <3>2. p \in Unread' \X Nat
      BY <2>1, <3>1
    <3> QED
      BY <3>1, <3>2 DEF Places, MsgAt
  <2> QED
    BY <2>1
<1> QED
  BY <1>1, <1>2, <1>3, <1>4

\* One more message is handled.
LEMMA ListedAppend ==
  ASSUME TInv, listed \in Seq(Calls \X (0 .. MaxParts)), UNCHANGED call,
         NEW m \in Message, listed' = Append(listed, <<m.call, m.part>>)
  PROVE  /\ listed' \in Seq(Calls \X (0 .. MaxParts))
         /\ \A i \in OwnParts : /\ i \in OwnParts' /\ listed'[i] = listed[i]
                                /\ i \in Nat /\ i < Len(listed')
         /\ \A i \in OwnParts' :
              i \in OwnParts \/ (/\ i = Len(listed') /\ m.call = call
                                 /\ listed'[i][2] = m.part)
         /\ m.call = call => Len(listed') \in OwnParts'
         /\ listed'[Len(listed')][2] = m.part /\ Len(listed') \in Nat
<1> DEFINE e == <<m.call, m.part>>
<1>1. e \in Calls \X (0 .. MaxParts) /\ e[1] = m.call /\ e[2] = m.part
  BY DEF Message
<1> HIDE DEF e
<1>2. listed' = Append(listed, e)
  BY DEF e
<1>3. /\ listed' \in Seq(Calls \X (0 .. MaxParts))
      /\ Len(listed') = Len(listed) + 1 /\ Len(listed) \in Nat
      /\ DOMAIN listed = 1 .. Len(listed) /\ DOMAIN listed' = 1 .. Len(listed')
      /\ listed'[Len(listed')] = e
      /\ \A i \in 1 .. Len(listed) : listed'[i] = listed[i]
  BY <1>1, <1>2
<1> QED
  BY <1>1, <1>3 DEF OwnParts

\* Recv only moves the messages.
LEMMA DumpRecvStep == ASSUME TInv, DumpInv, Recv PROVE DumpInv'
<1>1. /\ UNCHANGED <<seq, call, kind, quit, dump, verdict, listed, objects, faults,
                     losses>>
      /\ pc = "recv" /\ pc' = "parse"
  BY DEF Recv, historyVars
<1>2. OwnParts' = OwnParts /\ OwnRuns' = OwnRuns /\ ToldApart' = ToldApart
  BY <1>1 DEF OwnParts, OwnRuns, Dumping, Idle, ToldApart
<1> SUFFICES ASSUME WholeDump'
             PROVE  (ListedInOrder /\ OwnKinds /\ UnreadInOrder
                       /\ StillRuns /\ NoneMissing)'
  BY <1>1 DEF DumpInv
<1>3. ListedInOrder /\ OwnKinds /\ UnreadInOrder /\ StillRuns /\ NoneMissing
  BY <1>1, <1>2 DEF DumpInv, WholeDump
<1>4. /\ \A p \in Places' : Behind(p) \in Places /\ MsgAt(p)' = MsgAt(Behind(p))
      /\ \A p, q \in Places' : Earlier(p, q) <=> Earlier(Behind(p), Behind(q))
      /\ \A p \in Places : \E q \in Places' : Behind(q) = p
  BY RecvPlaces
<1>5. ListedInOrder' /\ StillRuns'
  BY <1>1, <1>2, <1>3 DEF ListedInOrder, StillRuns
<1>6. OwnKinds'
  BY <1>1, <1>2, <1>3, <1>4 DEF OwnKinds
<1>7. \A m : OwnPart(m)' = OwnPart(m) /\ OwnDone(m)' = OwnDone(m)
  BY <1>1 DEF OwnPart, OwnDone
<1>8. UnreadInOrder'
  <2> SUFFICES ASSUME NEW p \in Places', OwnPart(MsgAt(Behind(p)))
               PROVE  /\ MsgAt(p)'.part \in 1 .. objects' /\ ~ quit'
                      /\ \A i \in OwnParts' : listed'[i][2] < MsgAt(p)'.part
                      /\ OwnRuns' => MsgAt(p)'.part < dump'.next
                      /\ \A q \in Places' :
                         /\ (OwnPart(MsgAt(Behind(q))) /\ Earlier(p, q)) =>
                               MsgAt(p)'.part < MsgAt(q)'.part
                         /\ OwnDone(MsgAt(Behind(q))) => Earlier(p, q)
    BY <1>1, <1>4, <1>7 DEF UnreadInOrder, OwnPart, OwnDone, Earlier
  <2> QED
    BY <1>1, <1>2, <1>3, <1>4 DEF UnreadInOrder
<1>9. NoneMissing'
  <2> SUFFICES ASSUME NEW n \in 1 .. objects'
               PROVE  \/ \E i \in OwnParts' : listed'[i][2] = n
                      \/ \E p \in Places' : OwnPart(MsgAt(p))' /\ MsgAt(p)'.part = n
                      \/ OwnRuns' /\ n >= dump'.next
    BY DEF NoneMissing
  <2>1. CASE \E p \in Places : OwnPart(MsgAt(p)) /\ MsgAt(p).part = n
    <3>1. PICK p \in Places : OwnPart(MsgAt(p)) /\ MsgAt(p).part = n
      BY <2>1
    <3>2. PICK q \in Places' : Behind(q) = p
      BY <1>4
    <3>3. MsgAt(q)' = MsgAt(p) /\ OwnPart(MsgAt(q))'
      BY <1>1, <1>4, <3>1, <3>2 DEF OwnPart
    <3> QED
      BY <3>1, <3>3
  <2> QED
    BY <1>1, <1>2, <1>3, <2>1 DEF NoneMissing
<1> QED
  BY <1>5, <1>6, <1>8, <1>9

\* ParseMsg appends at most one part to those handled, a part of the call only
\* if the message is one.
LEMMA ParseListed ==
  ASSUME AInv, ToldApart, DumpInv, ParseMsg
  PROVE  /\ listed' \in Seq(Calls \X (0 .. MaxParts))
         /\ \A i \in OwnParts : i \in OwnParts' /\ listed'[i] = listed[i]
         /\ \A i \in OwnParts' :
              i \in OwnParts \/ (/\ i = Len(listed') /\ OwnPart(dg[1])
                                 /\ listed'[i][2] = dg[1].part)
         /\ \A i \in OwnParts : i \in Nat /\ (OwnPart(dg[1]) => i < Len(listed'))
         /\ OwnPart(dg[1]) =>
              Len(listed') \in OwnParts' /\ listed'[Len(listed')][2] = dg[1].part
         /\ Len(listed') \in Nat
<1> DEFINE m == dg[1]
<1>1. /\ Head(dg) = m /\ m \in Message /\ call' = call
      /\ TInv /\ listed \in Seq(Calls \X (0 .. MaxParts))
      /\ listed' = IF m.type = "part" THEN Append(listed, <<m.call, m.part>>)
                                      ELSE listed
  BY StaleIff DEF ParseMsg, AInv, DumpInv
<1> HIDE DEF m
<1>2. CASE m.type = "part"
  <2>1. listed' = Append(listed, <<m.call, m.part>>)
    BY <1>1, <1>2
  <2>2. /\ listed' \in Seq(Calls \X (0 .. MaxParts))
        /\ \A i \in OwnParts : /\ i \in OwnParts' /\ listed'[i] = listed[i]
                               /\ i \in Nat /\ i < Len(listed')
        /\ \A i \in OwnParts' :
             i \in OwnParts \/ (/\ i = Len(listed') /\ m.call = call
                                /\ listed'[i][2] = m.part)
        /\ m.call = call => Len(listed') \in OwnParts'
        /\ listed'[Len(listed')][2] = m.part /\ Len(listed') \in Nat
    BY <1>1, <2>1, ListedAppend
  <2> QED
    BY <1>2, <2>2 DEF OwnPart, m
<1>3. CASE m.type # "part"
  <2>1. listed' = listed /\ OwnParts' = OwnParts /\ ~ OwnPart(m)
    BY <1>1, <1>3 DEF OwnParts, OwnPart
  <2>2. Len(listed) \in Nat /\ DOMAIN listed = 1 .. Len(listed)
    BY <1>1
  <2>3. \A i \in OwnParts : i \in Nat
    BY <2>2 DEF OwnParts
  <2> QED
    BY <1>1, <2>1, <2>2, <2>3 DEF m
<1> QED
  BY <1>2, <1>3

\* ParseMsg handles the first part that is unread, or finds the end with no
\* part left.
LEMMA DumpParseStep ==
  ASSUME AInv, ToldApart, DumpInv, ParseMsg
  PROVE  DumpInv'
<1> DEFINE m == dg[1]
<1>1. /\ UNCHANGED <<seq, call, kind, dump, verdict, objects, faults, losses>>
      /\ pc = "parse" /\ pc' # "send" /\ Head(dg) = m /\ m \in Message
      /\ quit' = (quit \/ (m.call = call /\ Ends(m)))
  BY StaleIff DEF ParseMsg
<1>2. OwnRuns' = OwnRuns /\ ToldApart' = ToldApart
  BY <1>1 DEF OwnRuns, Dumping, Idle, ToldApart
<1>3. /\ listed' \in Seq(Calls \X (0 .. MaxParts))
      /\ \A i \in OwnParts : i \in OwnParts' /\ listed'[i] = listed[i]
      /\ \A i \in OwnParts' :
           i \in OwnParts \/ (/\ i = Len(listed') /\ OwnPart(m)
                              /\ listed'[i][2] = m.part)
      /\ \A i \in OwnParts : i \in Nat /\ (OwnPart(m) => i < Len(listed'))
      /\ OwnPart(m) => Len(listed') \in OwnParts' /\ listed'[Len(listed')][2] = m.part
      /\ Len(listed') \in Nat
  BY ParseListed
<1> SUFFICES ASSUME WholeDump'
             PROVE  (ListedInOrder /\ OwnKinds /\ UnreadInOrder
                       /\ StillRuns /\ NoneMissing)'
  BY <1>1, <1>3 DEF DumpInv
<1>4. ListedInOrder /\ OwnKinds /\ UnreadInOrder /\ StillRuns /\ NoneMissing
  BY <1>1, <1>2 DEF DumpInv, WholeDump
<1>5. /\ First \in Places /\ MsgAt(First) = m
      /\ \A p \in Places' : /\ After(p) \in Places /\ MsgAt(p)' = MsgAt(After(p))
                            /\ Earlier(First, After(p)) /\ After(p) # First
      /\ \A p, q \in Places' : Earlier(p, q) <=> Earlier(After(p), After(q))
      /\ \A p \in Places : MsgAt(p).call = call =>
           p = First \/ \E q \in Places' : After(q) = p
  BY ParsePlaces
<1>6. \A x : OwnPart(x)' = OwnPart(x) /\ OwnDone(x)' = OwnDone(x)
  BY <1>1 DEF OwnPart, OwnDone
<1> HIDE DEF m
<1>7. m.call = call /\ Ends(m) => OwnDone(m) /\ ~ OwnRuns
  BY <1>4, <1>5 DEF OwnKinds, Ends, OwnDone
<1>8. OwnPart(m) =>
        /\ m.part \in 1 .. objects
        /\ \A i \in OwnParts : listed[i][2] < m.part
        /\ OwnRuns => m.part < dump.next
        /\ \A q \in Places : OwnPart(MsgAt(q)) /\ Earlier(First, q) =>
             m.part < MsgAt(q).part
  BY <1>4, <1>5 DEF UnreadInOrder
<1>9. \A p \in Places : OwnPart(MsgAt(p)) /\ Earlier(First, p) => ~ OwnDone(m)
  <2> SUFFICES ASSUME NEW p \in Places, OwnPart(MsgAt(p)), Earlier(First, p), OwnDone(m)
               PROVE  FALSE
    OBVIOUS
  <2>1. Earlier(p, First)
    BY <1>4, <1>5 DEF UnreadInOrder
  <2>2. p[1] \in Nat /\ p[2] \in Nat
    BY UnreadTyped DEF Places, Unread, AInv
  <2> QED
    BY <2>1, <2>2 DEF Earlier, First
<1>10. ListedInOrder'
  <2> SUFFICES ASSUME NEW i \in OwnParts'
               PROVE  /\ listed'[i][2] \in 1 .. objects
                      /\ \A j \in OwnParts' : i < j => listed'[i][2] < listed'[j][2]
                      /\ OwnRuns => listed'[i][2] < dump.next
    BY <1>1, <1>2 DEF ListedInOrder
  <2>1. CASE i \in OwnParts
    BY <1>3, <1>4, <1>8, <2>1 DEF ListedInOrder
  <2>2. CASE i = Len(listed') /\ OwnPart(m) /\ listed'[i][2] = m.part
    <3>1. \A j \in OwnParts' : ~ (i < j)
      BY <1>3, <2>2
    <3> QED
      BY <1>8, <2>2, <3>1
  <2> QED
    BY <1>3, <2>1, <2>2
<1>11. OwnKinds'
  BY <1>1, <1>2, <1>4, <1>5 DEF OwnKinds
<1>12. UnreadInOrder'
  <2> SUFFICES ASSUME NEW p \in Places', OwnPart(MsgAt(After(p)))
               PROVE  /\ MsgAt(p)'.part \in 1 .. objects' /\ ~ quit'
                      /\ \A i \in OwnParts' : listed'[i][2] < MsgAt(p)'.part
                      /\ OwnRuns' => MsgAt(p)'.part < dump'.next
                      /\ \A q \in Places' :
                         /\ (OwnPart(MsgAt(After(q))) /\ Earlier(p, q)) =>
                               MsgAt(p)'.part < MsgAt(q)'.part
                         /\ OwnDone(MsgAt(After(q))) => Earlier(p, q)
    BY <1>1, <1>5, <1>6 DEF UnreadInOrder, OwnPart, OwnDone, Earlier
  <2>1. ~ quit'
    BY <1>1, <1>4, <1>5, <1>7, <1>9 DEF UnreadInOrder
  <2>2. \A i \in OwnParts' : listed'[i][2] < MsgAt(p)'.part
    BY <1>3, <1>4, <1>5, <1>8 DEF UnreadInOrder
  <2> QED
    BY <1>1, <1>2, <1>4, <1>5, <2>1, <2>2 DEF UnreadInOrder
<1>13. StillRuns'
  BY <1>1, <1>2, <1>4, <1>7 DEF StillRuns
<1>14. NoneMissing'
  <2> SUFFICES ASSUME NEW n \in 1 .. objects
               PROVE  \/ \E i \in OwnParts' : listed'[i][2] = n
                      \/ \E p \in Places' : OwnPart(MsgAt(p))' /\ MsgAt(p)'.part = n
                      \/ OwnRuns' /\ n >= dump'.next
    BY <1>1 DEF NoneMissing
  <2>1. CASE \E p \in Places : OwnPart(MsgAt(p)) /\ MsgAt(p).part = n
    <3>1. PICK p \in Places : OwnPart(MsgAt(p)) /\ MsgAt(p).part = n
      BY <2>1
    <3>2. CASE p = First
      BY <1>3, <1>5, <3>1, <3>2
    <3>3. CASE \E q \in Places' : After(q) = p
      <4>1. PICK q \in Places' : After(q) = p
        BY <3>3
      <4>2. MsgAt(q)' = MsgAt(p) /\ OwnPart(MsgAt(q))'
        BY <1>1, <1>5, <3>1, <4>1 DEF OwnPart
      <4> QED
        BY <3>1, <4>2
    <3> QED
      BY <1>5, <3>1, <3>2, <3>3 DEF OwnPart
  <2>2. CASE \E i \in OwnParts : listed[i][2] = n
    BY <1>3, <2>2
  <2> QED
    BY <1>1, <1>2, <1>4, <2>1, <2>2 DEF NoneMissing
<1> QED
  BY <1>10, <1>11, <1>12, <1>13, <1>14

\* The messages the kernel puts into one datagram of a dump.
LEMMA PartsAre ==
  ASSUME TInv, Dumping, NEW n \in 0 .. dump.left
  PROVE  /\ Parts(n) \in Seq(Message) /\ Len(Parts(n)) = n /\ DOMAIN Parts(n) = 1 .. n
         /\ \A k \in 1 .. n :
              /\ Parts(n)[k].call = dump.call /\ Parts(n)[k].type = "part"
              /\ Parts(n)[k].multi /\ Parts(n)[k].part = dump.next + k - 1
<1>1. dump.left \in Nat /\ n \in Nat
  BY DumpTyped, MaxPartsAssumption
<1>2. Parts(n) \in Seq(Message) /\ DOMAIN Parts(n) = 1 .. n
  BY PartsTyped DEF Parts
<1>3. Len(Parts(n)) = n
  BY <1>1, <1>2
<1>4. \A k \in 1 .. n :
        Parts(n)[k] = Msg("part", dump.seq, dump.call, 0, dump.next + k - 1)
  BY DEF Parts
<1>5. \A x : LET p == Msg("part", dump.seq, dump.call, 0, x) IN
        p.call = dump.call /\ p.type = "part" /\ p.multi /\ p.part = x
  BY DEF Msg
<1> QED
  BY <1>2, <1>3, <1>4, <1>5

\* What the kernel has left comes after what it has sent.
LEMMA NumberInRange ==
  ASSUME NEW next \in Nat, NEW left \in Nat, NEW all \in Nat, NEW k \in Nat,
         next >= 1, next + left = all + 1, 1 <= k, k <= left
  PROVE  next + k - 1 \in 1 .. all
  OBVIOUS

\* The next datagram of a dump that runs: n parts and, if ends = 1, the end.
LEMMA DumpAppendStep ==
  ASSUME TInv, DumpInv, Dumping, NEW n \in 0 .. dump.left, NEW ends \in {0, 1},
         UNCHANGED <<callerVars, listed, objects, faults, losses>>,
         NEW d \in Seq(Message), rxq' = Append(rxq, d),
         Len(d) = n + ends,
         \A k \in 1 .. n : /\ d[k].call = dump.call /\ d[k].type = "part"
                           /\ d[k].multi /\ d[k].part = dump.next + k - 1,
         ends = 1 => /\ d[n + 1].call = dump.call /\ d[n + 1].type = "done"
                 /\ d[n + 1].multi
                 /\ ~ Dumping' /\ (OwnRuns /\ WholeDump' => n = dump.left),
         ends = 0 => /\ dump'.next = dump.next + n /\ dump'.left = dump.left - n
                     /\ dump'.call = dump.call,
         WholeDump' => WholeDump
  PROVE  DumpInv'
<1>1. /\ UNCHANGED <<call, kind, pc, quit, dg, listed, objects>>
      /\ OwnParts' = OwnParts
  BY DEF callerVars, OwnParts
<1> SUFFICES ASSUME WholeDump'
             PROVE  (ListedInOrder /\ OwnKinds /\ UnreadInOrder
                       /\ StillRuns /\ NoneMissing)'
  BY <1>1 DEF DumpInv
<1>2. ListedInOrder /\ OwnKinds /\ UnreadInOrder /\ StillRuns /\ NoneMissing
  BY DEF DumpInv
<1> DEFINE L == Len(rxq')
<1>3. /\ \A p \in Places : /\ p \in Places' /\ MsgAt(p)' = MsgAt(p)
                           /\ p[1] < L /\ p[1] \in Nat
      /\ \A p \in Places' : \/ p \in Places
                            \/ /\ p[1] = L /\ p[2] \in DOMAIN d
                               /\ MsgAt(p)' = d[p[2]]
      /\ \A k \in DOMAIN d : \E p \in Places' :
           p[1] = L /\ p[2] = k /\ MsgAt(p)' = d[k]
      /\ L \in Nat
  BY <1>1, AppendPlaces
<1>4. /\ dump.next \in Nat /\ dump.left \in Nat /\ n \in Nat /\ n <= dump.left
      /\ dump = [left |-> dump.left, seq |-> dump.seq, call |-> dump.call,
                 next |-> dump.next]
      /\ dump.next >= 1 /\ objects \in Nat
  BY DumpTyped, MaxPartsAssumption DEF TInv, TypeOK
<1>5. DOMAIN d = 1 .. n + ends
  BY <1>4
<1>6. \A k \in DOMAIN d : \/ k \in 1 .. n
                          \/ ends = 1 /\ k = n + 1
  BY <1>4, <1>5
<1>7. \A k \in DOMAIN d : d[k].call = dump.call /\ d[k].multi /\ k \in Nat
  BY <1>6, <1>4
<1>8. /\ ends = 0 => dump'.next = dump.next + n /\ dump'.left = dump.left - n
      /\ ends = 0 => dump'.call = dump.call
  BY <1>4
<1>9. OwnRuns' => OwnRuns /\ ends = 0 /\ dump'.next = dump.next + n
                  /\ dump'.left = dump.left - n
  BY <1>1, <1>8 DEF OwnRuns
<1> HIDE DEF L
<1>10. ListedInOrder'
  <2>1. \A i \in OwnParts : listed[i][2] \in Int
    BY <1>2 DEF ListedInOrder
  <2>2. \A i \in OwnParts : OwnRuns' => listed[i][2] < dump'.next
    BY <1>2, <1>4, <1>9, <2>1 DEF ListedInOrder
  <2> QED
    BY <1>1, <1>2, <2>2 DEF ListedInOrder
<1>11. ASSUME NEW p \in Places', p \notin Places, MsgAt(p)'.call = call
       PROVE  /\ OwnRuns /\ p[1] = L /\ p[2] \in DOMAIN d /\ MsgAt(p)' = d[p[2]]
              /\ OwnRuns' => ends = 0
              /\ MsgAt(p)'.multi
              /\ MsgAt(p)'.type = "part" \/ (ends = 1 /\ MsgAt(p)'.type = "done" /\ p[2] = n + 1)
              /\ MsgAt(p)'.type = "part" =>
                   p[2] \in 1 .. n /\ MsgAt(p)'.part = dump.next + p[2] - 1
  <2>1. p[1] = L /\ p[2] \in DOMAIN d /\ MsgAt(p)' = d[p[2]]
    BY <1>3, <1>11
  <2>2. OwnRuns
    BY <1>7, <1>11, <2>1 DEF OwnRuns
  <2> QED
    BY <1>6, <1>7, <1>9, <2>1, <2>2
<1>12. OwnKinds'
  <2> SUFFICES ASSUME NEW p \in Places', MsgAt(p)'.call = call
               PROVE  /\ MsgAt(p)'.multi /\ MsgAt(p)'.type \in {"part", "done"}
                      /\ MsgAt(p)'.type = "done" => ~ OwnRuns'
    BY <1>1 DEF OwnKinds
  <2>1. CASE p \in Places
    BY <1>2, <1>3, <1>9, <2>1 DEF OwnKinds
  <2> QED
    BY <1>9, <1>11, <2>1
<1>13. OwnRuns => \A p \in Places : MsgAt(p).call = call => ~ OwnDone(MsgAt(p))
  BY <1>2 DEF OwnKinds, OwnDone
<1>14. OwnRuns => dump.next + dump.left = objects + 1 /\ ~ quit
  BY <1>2 DEF StillRuns
<1>15. UnreadInOrder'
  <2> SUFFICES ASSUME NEW p \in Places', MsgAt(p)'.call = call, MsgAt(p)'.type = "part"
               PROVE  /\ MsgAt(p)'.part \in 1 .. objects /\ ~ quit
                      /\ \A i \in OwnParts : listed[i][2] < MsgAt(p)'.part
                      /\ OwnRuns' => MsgAt(p)'.part < dump'.next
                      /\ \A q \in Places' : MsgAt(q)'.call = call =>
                           /\ MsgAt(q)'.type = "part" /\ Earlier(p, q) =>
                                MsgAt(p)'.part < MsgAt(q)'.part
                           /\ MsgAt(q)'.type = "done" => Earlier(p, q)
    BY <1>1 DEF UnreadInOrder, OwnPart, OwnDone, Earlier
  <2>1. CASE p \in Places
    <3>1. /\ MsgAt(p)' = MsgAt(p) /\ MsgAt(p).part \in 1 .. objects /\ ~ quit
          /\ \A i \in OwnParts : listed[i][2] < MsgAt(p).part
          /\ OwnRuns => MsgAt(p).part < dump.next
      BY <1>2, <1>3, <2>1 DEF UnreadInOrder, OwnPart
    <3>2. OwnRuns' => MsgAt(p).part < dump'.next
      BY <1>4, <1>9, <3>1
    <3>3. ASSUME NEW q \in Places', MsgAt(q)'.call = call
          PROVE  /\ MsgAt(q)'.type = "part" /\ Earlier(p, q) =>
                      MsgAt(p)'.part < MsgAt(q)'.part
                 /\ MsgAt(q)'.type = "done" => Earlier(p, q)
      <4>1. CASE q \in Places
        BY <1>2, <1>3, <2>1, <3>3, <4>1 DEF UnreadInOrder, OwnPart, OwnDone
      <4>2. CASE q \notin Places
        <5>1. OwnRuns /\ q[1] = L /\ p[1] < L /\ Earlier(p, q)
              /\ (MsgAt(q)'.type = "part" =>
                    q[2] \in 1 .. n /\ MsgAt(q)'.part = dump.next + q[2] - 1)
          BY <1>3, <1>11, <2>1, <3>3, <4>2 DEF Earlier
        <5> QED
          BY <1>4, <3>1, <5>1
      <4> QED
        BY <4>1, <4>2
    <3> QED
      BY <3>1, <3>2, <3>3
  <2>2. CASE p \notin Places
    <3>1. /\ OwnRuns /\ p[1] = L /\ p[2] \in 1 .. n
          /\ MsgAt(p)'.part = dump.next + p[2] - 1
      BY <1>11, <2>2
    <3>2. MsgAt(p)'.part \in 1 .. objects
      <4>1. p[2] \in Nat /\ 1 <= p[2] /\ p[2] <= n /\ dump.next + dump.left = objects + 1
        BY <1>4, <1>14, <3>1
      <4>2. p[2] <= dump.left
        BY <1>4, <4>1
      <4> QED
        BY <1>4, <3>1, <4>1, <4>2, NumberInRange
    <3>3. \A i \in OwnParts : listed[i][2] < MsgAt(p)'.part
      <4>1. \A i \in OwnParts : listed[i][2] \in Int /\ listed[i][2] < dump.next
        BY <1>2, <3>1 DEF ListedInOrder
      <4> QED
        BY <1>4, <3>1, <4>1
    <3>4. OwnRuns' => MsgAt(p)'.part < dump'.next
      BY <1>4, <1>9, <3>1
    <3>5. ASSUME NEW q \in Places', MsgAt(q)'.call = call
          PROVE  /\ MsgAt(q)'.type = "part" /\ Earlier(p, q) =>
                      MsgAt(p)'.part < MsgAt(q)'.part
                 /\ MsgAt(q)'.type = "done" => Earlier(p, q)
      <4>1. CASE q \in Places
        <5>1. q[1] < L /\ q[1] \in Nat /\ L \in Nat
          BY <1>3, <4>1
        <5>2. ~ Earlier(p, q)
          BY <3>1, <5>1 DEF Earlier
        <5>3. MsgAt(q)' = MsgAt(q) /\ ~ OwnDone(MsgAt(q))
          BY <1>3, <1>13, <3>1, <3>5, <4>1
        <5> QED
          BY <3>5, <5>2, <5>3 DEF OwnDone
      <4>2. CASE q \notin Places
        <5>1. /\ q[1] = L /\ q[2] \in Nat
              /\ MsgAt(q)'.type = "part" =>
                    q[2] \in 1 .. n /\ MsgAt(q)'.part = dump.next + q[2] - 1
              /\ MsgAt(q)'.type = "done" => q[2] = n + 1
          BY <1>7, <1>11, <3>5, <4>2
        <5>2. Earlier(p, q) <=> p[2] < q[2]
          BY <1>3, <3>1, <5>1 DEF Earlier
        <5> QED
          BY <1>4, <3>1, <5>1, <5>2
      <4> QED
        BY <4>1, <4>2
    <3> QED
      BY <1>14, <3>1, <3>2, <3>3, <3>4, <3>5
  <2> QED
    BY <2>1, <2>2
<1>16. StillRuns'
  BY <1>1, <1>4, <1>9, <1>14 DEF StillRuns
<1>17. NoneMissing'
  <2> SUFFICES ASSUME NEW x \in 1 .. objects
               PROVE  \/ \E i \in OwnParts : listed[i][2] = x
                      \/ \E p \in Places' : /\ MsgAt(p)'.call = call
                                            /\ MsgAt(p)'.type = "part"
                                            /\ MsgAt(p)'.part = x
                      \/ OwnRuns' /\ x >= dump'.next
    BY <1>1 DEF NoneMissing, OwnPart
  <2>1. CASE \E p \in Places : OwnPart(MsgAt(p)) /\ MsgAt(p).part = x
    BY <1>3, <2>1 DEF OwnPart
  <2>2. CASE OwnRuns /\ x >= dump.next
    <3> DEFINE k == x - dump.next + 1
    <3>1. CASE k \in 1 .. n
      <4>1. PICK p \in Places' : p[2] = k /\ MsgAt(p)' = d[k]
        <5>1. k \in DOMAIN d
          BY <1>4, <1>5, <3>1
        <5> HIDE DEF k
        <5> QED
          BY <1>3, <5>1
      <4>2. d[k].call = call /\ d[k].type = "part" /\ d[k].part = dump.next + k - 1
        BY <2>2, <3>1 DEF OwnRuns
      <4>3. d[k].part = x
        BY <1>4, <4>2
      <4> QED
        BY <4>1, <4>2, <4>3
    <3>2. CASE k \notin 1 .. n
      <4>1. x >= dump.next + n
        BY <1>4, <2>2, <3>2
      <4>2. ends = 0
        BY <1>4, <1>14, <2>2, <4>1
      <4>3. OwnRuns'
        <5>1. Dumping'
          <6>1. dump'.next = dump.next + n /\ Idle.next = 0
            BY <1>8, <4>2 DEF Idle
          <6>2. dump'.next # Idle.next
            BY <1>4, <6>1
          <6> QED
            BY <6>2 DEF Dumping
        <5> QED
          BY <1>1, <1>8, <2>2, <4>2, <5>1 DEF OwnRuns
      <4> QED
        BY <1>8, <4>1, <4>2, <4>3
    <3> QED
      BY <3>1, <3>2
  <2> QED
    BY <1>2, <2>1, <2>2 DEF NoneMissing
<1> QED
  BY <1>10, <1>12, <1>15, <1>16, <1>17

\* A dump that goes on queues the next parts.
LEMMA DumpGoesOn == ASSUME TInv, DumpInv, DumpMore PROVE DumpInv'
<1>1. PICK n \in 1 .. dump.left :
        /\ rxq'  = Append(rxq, Parts(n))
        /\ dump' = [dump EXCEPT !.left = @ - n, !.next = @ + n]
  BY DEF DumpMore
<1>2. Dumping /\ UNCHANGED <<callerVars, verdict, listed, objects, faults, losses>>
  BY DEF DumpMore, historyVars
<1>3. n \in 0 .. dump.left
  BY <1>1, <1>2, DumpTyped
<1>4. WholeDump' => WholeDump
  BY <1>2 DEF WholeDump, callerVars, ToldApart
<1>5. dump'.next = dump.next + n /\ dump'.left = dump.left - n /\ dump'.call = dump.call
  BY <1>1, <1>2, DumpTyped
<1>6. /\ Parts(n) \in Seq(Message) /\ Len(Parts(n)) = n
      /\ \A k \in 1 .. n :
           /\ Parts(n)[k].call = dump.call /\ Parts(n)[k].type = "part"
           /\ Parts(n)[k].multi /\ Parts(n)[k].part = dump.next + k - 1
  BY <1>2, <1>3, PartsAre
<1> DEFINE d == Parts(n)
           ends == 0
<1>7. /\ ends \in {0, 1} /\ Len(d) = n + ends /\ d \in Seq(Message)
      /\ ends = 1 => /\ d[n + 1].call = dump.call /\ d[n + 1].type = "done"
                     /\ d[n + 1].multi
                     /\ ~ Dumping' /\ (OwnRuns /\ WholeDump' => n = dump.left)
      /\ ends = 0 => /\ dump'.next = dump.next + n /\ dump'.left = dump.left - n
                     /\ dump'.call = dump.call
      /\ rxq' = Append(rxq, d)
  BY <1>1, <1>3, <1>5, <1>6
<1>8. \A k \in 1 .. n : /\ d[k].call = dump.call /\ d[k].type = "part"
                         /\ d[k].multi /\ d[k].part = dump.next + k - 1
  BY <1>6
<1> HIDE DEF d, ends
<1> QED
  BY <1>2, <1>3, <1>4, <1>7, <1>8, DumpAppendStep

\* A dump that ends has queued all of its objects, or was cut short.
LEMMA DumpEnds == ASSUME TInv, DumpInv, DumpDone PROVE DumpInv'
<1> DEFINE end(error) == Msg("done", dump.seq, dump.call, error, 0)
<1>1. PICK n \in 0 .. dump.left, error \in {0, -1} :
        /\ (error = 0) => (n = dump.left)
        /\ rxq' = Append(rxq, Append(Parts(n), end(error)))
        /\ verdict' = [verdict EXCEPT ![dump.call] =
                         IF error = 0 THEN @ ELSE "cut"]
  BY DEF DumpDone
<1>2. /\ Dumping /\ ~ Dumping'
      /\ UNCHANGED <<callerVars, listed, objects, faults, losses>>
      /\ verdict \in [Calls -> {"none", "ok", "fail", "cut"}]
      /\ dump.call \in Calls /\ dump.seq \in 0 .. SeqMod - 1 /\ n \in Nat
  BY DumpTyped, MaxPartsAssumption DEF DumpDone, Dumping, TInv, TypeOK
<1>3. WholeDump' => WholeDump /\ (OwnRuns => n = dump.left)
  <2>1. verdict'[call] = "ok" => verdict[call] = "ok"
                                 /\ (dump.call = call => error = 0)
    BY <1>1, <1>2
  <2> QED
    BY <1>1, <1>2, <2>1 DEF WholeDump, callerVars, ToldApart, OwnRuns
<1>4. /\ end(error).call = dump.call /\ end(error).type = "done" /\ end(error).multi
      /\ end(error) \in Message
  <2>1. end(error) \in Message
    BY <1>2, MsgTyped, MaxPartsAssumption
  <2> QED
    BY <2>1 DEF Msg
<1> DEFINE d == Append(Parts(n), end(error))
<1>5. /\ Parts(n) \in Seq(Message) /\ Len(Parts(n)) = n /\ DOMAIN Parts(n) = 1 .. n
      /\ \A k \in 1 .. n :
           /\ Parts(n)[k].call = dump.call /\ Parts(n)[k].type = "part"
           /\ Parts(n)[k].multi /\ Parts(n)[k].part = dump.next + k - 1
  BY <1>2, PartsAre
<1> HIDE DEF end
<1>6. /\ d \in Seq(Message) /\ Len(d) = n + 1 /\ d[n + 1] = end(error)
      /\ \A k \in 1 .. n : d[k] = Parts(n)[k]
  BY <1>2, <1>4, <1>5
<1> DEFINE ends == 1
<1>7. /\ ends \in {0, 1}
      /\ Len(d) = n + ends
      /\ ends = 1 => /\ d[n + 1].call = dump.call /\ d[n + 1].type = "done"
                 /\ d[n + 1].multi
                 /\ ~ Dumping' /\ (OwnRuns /\ WholeDump' => n = dump.left)
      /\ ends = 0 => /\ dump'.next = dump.next + n /\ dump'.left = dump.left - n
                     /\ dump'.call = dump.call
      /\ WholeDump' => WholeDump
      /\ rxq' = Append(rxq, d)
  BY <1>1, <1>2, <1>3, <1>4, <1>6
<1>8. \A k \in 1 .. n : /\ d[k].call = dump.call /\ d[k].type = "part"
                         /\ d[k].multi /\ d[k].part = dump.next + k - 1
  BY <1>5, <1>6
<1>9. n \in 0 .. dump.left /\ d \in Seq(Message)
  BY <1>1, <1>6
<1> HIDE DEF d, ends
<1> QED
  BY <1>2, <1>7, <1>8, <1>9, DumpAppendStep

\* A dump starts with nothing of the call listed or unread.
LEMMA DumpStarts == ASSUME AInv, DumpInv, TInv', Send PROVE DumpInv'
<1>1. /\ pc = "send" /\ pc' = "recv" /\ listed = <<>> /\ ~ quit
      /\ UNCHANGED <<call, kind, quit, dg, listed, losses>>
      /\ verdict \in [Calls -> {"none", "ok", "fail", "cut"}] /\ call \in Calls
      /\ listed' \in Seq(Calls \X (0 .. MaxParts))
  BY DEF Send, DumpInv, AInv, SoundQuit, TInv, TypeOK
<1> SUFFICES ASSUME WholeDump'
             PROVE  (ListedInOrder /\ OwnKinds /\ UnreadInOrder
                       /\ StillRuns /\ NoneMissing)'
  BY <1>1 DEF DumpInv
<1>2. kind = "dump" /\ verdict'[call] = "ok"
  BY <1>1 DEF WholeDump
<1>3. /\ Answer("ok", <<>>) /\ objects' \in 0 .. MaxParts
      /\ dump' = [left |-> objects', seq |-> seq, call |-> call, next |-> 1]
  BY <1>1, <1>2 DEF Send, Refused, Answer
<1>4. rxq' = rxq
  BY <1>3 DEF Answer, AInv, TInv, TypeOK
<1>5. OwnParts' = {}
  <2>1. DOMAIN listed' = {}
    BY <1>1
  <2> QED
    BY <2>1 DEF OwnParts
<1>6. ASSUME NEW p \in Places' PROVE MsgAt(p)'.call # call
  <2>1. /\ p[1] \in Unread /\ p[2] \in DOMAIN At(p[1]) /\ MsgAt(p)' = At(p[1])[p[2]]
    BY <1>1, <1>4 DEF Places, Unread, At, MsgAt
  <2>2. SoundDatagram(At(p[1])) /\ At(p[1])[p[2]] \in Message
    <3>1. p[1] # 0 => p[1] \in DOMAIN rxq
      BY <2>1, UnreadTyped DEF Unread, AInv
    <3> QED
      BY <2>1, <3>1, UnreadTyped DEF At, AInv
  <2>3. At(p[1])[p[2]].call \in Calls /\ At(p[1])[p[2]].call < call
    BY <1>1, <2>1, <2>2 DEF SoundDatagram, Sound, Message
  <2> QED
    BY <1>1, <2>1, <2>3
<1>7. objects' \in Nat /\ dump'.next = 1 /\ dump'.left = objects' /\ OwnRuns'
  <2>1. Dumping'
    BY <1>3 DEF Dumping, Idle
  <2> QED
    BY <1>1, <1>3, <2>1, MaxPartsAssumption DEF OwnRuns
<1>8. ListedInOrder' /\ OwnKinds' /\ UnreadInOrder'
  BY <1>1, <1>5, <1>6 DEF ListedInOrder, OwnKinds, UnreadInOrder, OwnPart
<1>9. StillRuns' /\ NoneMissing'
  BY <1>1, <1>7 DEF StillRuns, NoneMissing
<1> QED
  BY <1>8, <1>9

\* DumpInv holds of every step.
LEMMA DumpStep ==
  ASSUME SInv, ToldApart => DumpInv, [Next]_vars, SInv', ToldApart'
  PROVE  DumpInv'
<1>1. ToldApart /\ TInv /\ AInv /\ DumpInv /\ TInv'
  BY StillApart DEF SInv
<1>2. CASE \E k \in Kinds : Build(k)
  <2>1. listed' = <<>> /\ pc' = "send"
    BY <1>2 DEF Build
  <2>2. <<>> \in Seq(Calls \X (0 .. MaxParts))
    OBVIOUS
  <2> QED
    BY <2>1, <2>2 DEF DumpInv, WholeDump
<1>3. CASE SendFail \/ RecvFail \/ Finish
  BY <1>1, <1>3 DEF SendFail, RecvFail, Finish, Return, DumpInv, WholeDump
<1>4. CASE Lose
  <2>1. losses' = losses + 1 /\ losses \in Nat /\ UNCHANGED <<listed, pc>>
    BY <1>1, <1>4, MaxLossesAssumption
       DEF Lose, TInv, TypeOK, callerVars, historyVars
  <2> QED
    BY <1>1, <2>1 DEF DumpInv, WholeDump
<1>5. CASE UNCHANGED vars
  <2>1. /\ UNCHANGED <<call, kind, pc, quit, verdict, listed, objects, losses>>
        /\ Places' = Places /\ OwnParts' = OwnParts /\ OwnRuns' = OwnRuns
        /\ ToldApart' = ToldApart /\ dump' = dump
        /\ \A p : MsgAt(p)' = MsgAt(p)
    BY <1>5 DEF Places, OwnParts, OwnRuns, Dumping, Idle, ToldApart, MsgAt, At,
                Unread, vars, callerVars, historyVars
  <2>2. /\ WholeDump' = WholeDump /\ ListedInOrder' = ListedInOrder
        /\ StillRuns' = StillRuns /\ OwnKinds' = OwnKinds
    BY <2>1 DEF WholeDump, ListedInOrder, StillRuns, OwnKinds
  <2>3. /\ UnreadInOrder' = UnreadInOrder /\ NoneMissing' = NoneMissing
    BY <2>1 DEF UnreadInOrder, NoneMissing, OwnPart, OwnDone, Earlier
  <2> QED
    BY <1>1, <2>1, <2>2, <2>3 DEF DumpInv
<1> QED
  BY <1>1, <1>2, <1>3, <1>4, <1>5, DumpStarts, DumpRecvStep, DumpParseStep,
     DumpGoesOn, DumpEnds DEF Next, Caller, Kernel

\* DumpInv holds at the start.
LEMMA DumpInit == Init => DumpInv
<1> SUFFICES ASSUME Init PROVE DumpInv
  OBVIOUS
<1>1. <<>> \in Seq(Calls \X (0 .. MaxParts))
  OBVIOUS
<1> QED
  BY <1>1 DEF Init, DumpInv, WholeDump

\* Unless an answer is lost or the kernel cuts the dump short, a dump that
\* finishes has handled each of its objects once and in order, whatever an
\* abandoned dump left in the queue.
THEOREM DumpsComplete == Spec => []DumpComplete
<1>1. Init => (ToldApart => DumpInv)
  BY DumpInit
<1>2. SInv /\ (ToldApart => DumpInv) /\ [Next]_vars /\ SInv'
        => (ToldApart => DumpInv)'
  BY DumpStep
<1>3. SInv /\ (ToldApart => DumpInv) => DumpComplete
  <2> SUFFICES ASSUME SInv, ToldApart, DumpInv, pc = "done", kind = "dump",
                      verdict[call] = "ok", losses = 0
               PROVE  /\ {listed[i][2] : i \in OwnParts} = 1 .. objects
                      /\ \A i, j \in OwnParts : i < j => listed[i][2] < listed[j][2]
    BY DEF DumpComplete
  <2>1. ListedInOrder /\ UnreadInOrder /\ StillRuns /\ NoneMissing /\ quit
    BY DEF DumpInv, WholeDump, SInv, AInv
  <2>2. ~ OwnRuns /\ \A p \in Places : ~ OwnPart(MsgAt(p))
    BY <2>1 DEF StillRuns, UnreadInOrder
  <2>3. \A n \in 1 .. objects : \E i \in OwnParts : listed[i][2] = n
    BY <2>1, <2>2 DEF NoneMissing
  <2> QED
    BY <2>1, <2>3 DEF ListedInOrder
<1> QED
  BY <1>1, <1>2, <1>3, AnswerInvariance, PTL DEF Spec
=============================================================================

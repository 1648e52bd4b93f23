------------------------------ MODULE Dispatch ------------------------------
(***************************************************************************)
(* Request and response on one netlink socket of libdpif: what nlctrl's    *)
(* get_family, dp_exec, vport_exec, flow_exec, rtnl_exec and odp_link do   *)
(* with genl_builder or rtnl_builder (one more sequence number), nl_send   *)
(* and nl_dispatch (wait for the answer).  Calls on a socket follow one    *)
(* another; a call that fails halfway leaves its answer behind, and the    *)
(* next call finds it.                                                     *)
(*                                                                         *)
(* The kernel is external: it decides a request when it is sent, and       *)
(* queues the answer as datagrams of one or more messages.  The transport  *)
(* is the FIFO that RxRing implements.  Messages are well formed, so the   *)
(* handlers do not fail; the dp socket is covered up to the moment its     *)
(* upcalls start.                                                          *)
(***************************************************************************)
EXTENDS Naturals, Integers, Sequences

CONSTANTS SeqMod,       \* 2^32 in the code: nl->seq is a __u32
          MaxCalls,     \* bound: calls made on the socket
          MaxParts,     \* bound: objects a dump lists
          MaxFaults,    \* bound: failures of send() and recv()
          MaxLosses     \* bound: answers lost (NETLINK_RECV_NO_ENOBUFS)

ASSUME SeqModAssumption    == SeqMod \in Nat /\ SeqMod > 1
ASSUME MaxCallsAssumption  == MaxCalls \in Nat
ASSUME MaxPartsAssumption  == MaxParts \in Nat
ASSUME MaxFaultsAssumption == MaxFaults \in Nat
ASSUME MaxLossesAssumption == MaxLosses \in Nat

VARIABLES seq,          \* nl->seq
          call,         \* the number of the current, or last, call
          kind,         \* what it asks for
          pc,           \* where the caller is
          quit,         \* quit of nl_dispatch
          ret,          \* ret of nl_dispatch
          dg,           \* the rest of the datagram being parsed
          parsed,       \* the call whose answer the family structure holds
          rxq,          \* the socket's receive queue, a FIFO of datagrams
          dump,         \* the kernel's running dump
          verdict,      \* history: what the kernel decided of each call
          results,      \* history: what each call returned
          answeredBy,   \* history: whose message made nl_dispatch quit
          listed,       \* history: the parts handled in this call
          objects,      \* history: how many objects this call's dump has
          faults, losses

callerVars  == <<seq, call, kind, pc, quit, ret, dg, parsed>>
historyVars == <<verdict, results, answeredBy, listed, objects>>
vars == <<callerVars, rxq, dump, historyVars, faults, losses>>

Calls == 1 .. MaxCalls
Kinds == {"ack",        \* NLM_F_ACK: answered by NLMSG_ERROR, error 0 if done
          "get",        \* plain or NLM_F_ECHO: answered by an object
          "dump"}       \* NLM_F_DUMP: answered by a list and NLMSG_DONE

\* nlmsg_type, NLM_F_MULTI and nlmsgerr.error, as far as nl_dispatch looks.
Msg(type, s, c, error, part) ==
  [type |-> type, multi |-> type \in {"part", "done"}, seq |-> s, call |-> c,
   error |-> error, part |-> part]

Idle == [left |-> -1, seq |-> 0, call |-> 0, next |-> 0]  \* no dump runs
Dumping == dump # Idle

Init ==
  /\ seq = 0 /\ call = 0 /\ kind = "get" /\ pc = "idle"
  /\ quit = FALSE /\ ret = 0 /\ dg = <<>> /\ parsed = 0
  /\ rxq = <<>> /\ dump = Idle
  /\ verdict = [c \in Calls |-> "none"]
  /\ results = [c \in Calls |-> "none"]
  /\ answeredBy = 0 /\ listed = <<>> /\ objects = 0
  /\ faults = 0 /\ losses = 0

-----------------------------------------------------------------------------
(* The caller *)

\* genl_builder, rtnl_builder: a fresh sequence number. nl_dispatch starts
\* with quit = 0.
Build(k) ==
  /\ pc = "idle"
  /\ call < MaxCalls
  /\ call' = call + 1
  /\ kind' = k
  /\ seq'  = (seq + 1) % SeqMod
  /\ pc'   = "send"
  /\ quit' = FALSE /\ ret' = 0
  /\ answeredBy' = 0 /\ listed' = <<>> /\ objects' = 0
  /\ UNCHANGED <<dg, parsed, rxq, dump, verdict, results, faults, losses>>

Answer(v, datagrams) ==
  /\ verdict' = [verdict EXCEPT ![call] = v]
  /\ rxq' = rxq \o datagrams

Refused == Answer("fail", << <<Msg("error", seq, call, -1, 0)>> >>)

\* nl_send: the kernel decides the request before send() returns. A dump is
\* refused (EBUSY) while an earlier one of this socket runs.
Send ==
  /\ pc = "send"
  /\ pc' = "recv"
  /\ \/ /\ Refused
        /\ UNCHANGED <<dump, objects>>
     \/ /\ kind = "ack"
        /\ Answer("ok", << <<Msg("error", seq, call, 0, 0)>> >>)
        /\ UNCHANGED <<dump, objects>>
     \/ /\ kind = "get"
        /\ Answer("ok", << <<Msg("data", seq, call, 0, 0)>> >>)
        /\ UNCHANGED <<dump, objects>>
     \/ /\ kind = "dump" /\ ~ Dumping
        /\ Answer("ok", <<>>)
        /\ objects' \in 0 .. MaxParts
        /\ dump' = [left |-> objects', seq |-> seq, call |-> call, next |-> 1]
  /\ UNCHANGED <<seq, call, kind, quit, ret, dg, parsed, results, answeredBy,
                 listed, faults, losses>>

Return(r) ==
  /\ pc' = "idle"
  /\ results' = [results EXCEPT ![call] = r]

\* nl_send: send() fails, the request never reaches the kernel.
SendFail ==
  /\ pc = "send"
  /\ faults < MaxFaults
  /\ faults' = faults + 1
  /\ Return("fail")
  /\ UNCHANGED <<seq, call, kind, quit, ret, dg, parsed, rxq, dump, verdict,
                 answeredBy, listed, objects, losses>>

\* nl_dispatch: nl_recv gets the next datagram.
Recv ==
  /\ pc = "recv"
  /\ rxq # <<>>
  /\ dg'  = Head(rxq)
  /\ rxq' = Tail(rxq)
  /\ pc'  = "parse"
  /\ UNCHANGED <<seq, call, kind, quit, ret, parsed, dump, historyVars, faults,
                 losses>>

\* nl_dispatch: nl_recv fails. The call returns -1, its answer stays behind.
RecvFail ==
  /\ pc = "recv"
  /\ faults < MaxFaults
  /\ faults' = faults + 1
  /\ Return("fail")
  /\ UNCHANGED <<seq, call, kind, quit, ret, dg, parsed, rxq, dump, verdict,
                 answeredBy, listed, objects, losses>>

StaleNever(m) == FALSE                                     \* mutants of Stale
StaleData(m)  == m.seq < seq /\ m.type # "error"
StaleAck(m)   == m.seq < seq /\ m.type # "data"
StaleEqual(m) == m.seq <= seq
Stale(m) == m.seq < seq

EndsAlways(m) == TRUE                                      \* mutant of Ends
Ends(m) == m.multi => m.type = "done"

\* ret after the message; nl_recv had left the datagram's length in it.
Ret(m) == IF m.type = "error" THEN m.error ELSE 0

\* nl_dispatch and nl_parse, one message: the handler has run, on whatever
\* call's message it is, before the sequence number is looked at. An older
\* message ends the datagram, the rest of it unread. The error that
\* NLMSG_DONE carries is not looked at.
ParseMsg ==
  /\ pc = "parse"
  /\ LET m == Head(dg) IN
     /\ parsed' = IF m.type \in {"data", "part"} THEN m.call ELSE parsed
     /\ listed' = IF m.type = "part" THEN Append(listed, <<m.call, m.part>>)
                                     ELSE listed
     /\ ret'  = Ret(m)
     /\ quit' = (quit \/ (~ Stale(m) /\ Ends(m)))
     /\ answeredBy' = IF ~ Stale(m) /\ Ends(m) THEN m.call ELSE answeredBy
     /\ dg' = IF Stale(m) THEN <<>> ELSE Tail(dg)
  /\ pc' = IF dg' # <<>> THEN "parse" ELSE IF quit' THEN "done" ELSE "recv"
  /\ UNCHANGED <<seq, call, kind, rxq, dump, verdict, results, objects, faults,
                 losses>>

\* nl_dispatch returns the ret of the last message it parsed.
Finish ==
  /\ pc = "done"
  /\ Return(IF ret < 0 THEN "fail" ELSE "ok")
  /\ UNCHANGED <<seq, call, kind, quit, ret, dg, parsed, rxq, dump, verdict,
                 answeredBy, listed, objects, faults, losses>>

Caller == \/ \E k \in Kinds : Build(k)
          \/ Send \/ SendFail \/ Recv \/ RecvFail \/ ParseMsg \/ Finish

-----------------------------------------------------------------------------
(* The kernel *)

\* The next n objects of the running dump.
Parts(n) == [i \in 1 .. n |->
               Msg("part", dump.seq, dump.call, 0, dump.next + i - 1)]

\* One more datagram of the running dump: some of the objects left.
DumpMore ==
  /\ Dumping
  /\ \E n \in 1 .. dump.left :
       /\ rxq'  = Append(rxq, Parts(n))
       /\ dump' = [dump EXCEPT !.left = @ - n, !.next = @ + n]
  /\ UNCHANGED <<callerVars, historyVars, faults, losses>>

\* The dump ends, after the last object or with an error before it; a kernel
\* that finds room puts the last objects and NLMSG_DONE in one datagram.
DumpDone ==
  /\ Dumping
  /\ \E n \in 0 .. dump.left, error \in {0, -1} :
       /\ (error = 0) => (n = dump.left)
       /\ rxq' = Append(rxq,
                   Append(Parts(n), Msg("done", dump.seq, dump.call, error, 0)))
       /\ verdict' = [verdict EXCEPT ![dump.call] =
                        IF error = 0 THEN @ ELSE "cut"]
  /\ dump' = Idle
  /\ UNCHANGED <<callerVars, results, answeredBy, listed, objects, faults,
                 losses>>

\* A full receive queue: the datagram is lost and nobody is told.
Lose ==
  /\ losses < MaxLosses
  /\ rxq # <<>>
  /\ losses' = losses + 1
  /\ rxq' = SubSeq(rxq, 1, Len(rxq) - 1)
  /\ UNCHANGED <<callerVars, dump, historyVars, faults>>

Kernel == DumpMore \/ DumpDone \/ Lose

Next == Caller \/ Kernel

Spec == Init /\ [][Next]_vars

\* A call is a sequential program that goes on; a dump the socket's owner
\* reads goes on until NLMSG_DONE.
Fairness ==
  /\ WF_vars(Send) /\ WF_vars(Recv) /\ WF_vars(ParseMsg) /\ WF_vars(Finish)
  /\ WF_vars(DumpMore \/ DumpDone)

FairSpec == Spec /\ Fairness

-----------------------------------------------------------------------------
(* Properties *)

Message == [type : {"error", "data", "part", "done"}, multi : BOOLEAN,
            seq : 0 .. SeqMod - 1, call : Calls, error : {0, -1},
            part : 0 .. MaxParts]
Datagram == Seq(Message) \ {<<>>}

\* Every variable keeps its range, and no datagram is empty: nl_parse always
\* finds a message in a datagram it has not finished.
TypeOK ==
  /\ seq \in 0 .. SeqMod - 1
  /\ call \in 0 .. MaxCalls
  /\ kind \in Kinds
  /\ pc \in {"idle", "send", "recv", "parse", "done"}
  /\ pc # "idle" => call \in Calls
  /\ quit \in BOOLEAN
  /\ ret \in {0, -1}
  /\ dg \in Seq(Message) /\ (pc = "parse" <=> dg # <<>>)
  /\ parsed \in 0 .. MaxCalls
  /\ rxq \in Seq(Datagram)
  /\ Dumping => dump \in [left : 0 .. MaxParts, seq : 0 .. SeqMod - 1,
                          call : Calls, next : 1 .. MaxParts + 1]
  /\ verdict \in [Calls -> {"none", "ok", "fail", "cut"}]
  /\ results \in [Calls -> {"none", "ok", "fail"}]
  /\ answeredBy \in 0 .. MaxCalls
  /\ objects \in 0 .. MaxParts
  /\ faults \in 0 .. MaxFaults
  /\ losses \in 0 .. MaxLosses

\* Sequence numbers tell the calls apart: they have not wrapped yet, or no call
\* has failed and left an answer behind.
ToldApart == call < SeqMod \/ faults = 0

\* nl_dispatch never takes another call's message for the answer, whatever
\* earlier calls left in the queue, before the sequence number wraps; and
\* across the wrap as long as nothing fails.
OwnReply == pc = "done" /\ ToldApart => answeredBy = call

\* What a call returns when nl_dispatch finishes is what the kernel decided
\* of that very request; only a dump cut short passes for a success.
OwnVerdict == pc = "done" /\ ToldApart =>
  IF ret < 0 THEN verdict[call] = "fail" ELSE verdict[call] \in {"ok", "cut"}

\* When a call for an object succeeds, the family structure the caller reads
\* next (vport_no, dp_ifindex, family_id) was filled from its own answer,
\* although older answers are parsed into the same structure on the way.
FreshParse == pc = "done" /\ ToldApart /\ kind = "get" /\ ret = 0 =>
                parsed = call

\* Unless an answer was lost or the kernel cut the dump short, a dump that
\* finishes has handled each of its objects once and in order, whatever parts
\* of an abandoned dump came in between.
OwnParts == {i \in DOMAIN listed : listed[i][1] = call}
DumpComplete ==
  pc = "done" /\ ToldApart /\ kind = "dump" /\ verdict[call] = "ok" /\ losses = 0 =>
    /\ {listed[i][2] : i \in OwnParts} = 1 .. objects
    /\ \A i, j \in OwnParts : i < j => listed[i][2] < listed[j][2]

\* As long as send() and recv() do not fail, a call that returns leaves
\* nothing behind: no message in the queue and no dump running, so the next
\* call's answer is the first thing it reads.
CleanReturn == pc \in {"idle", "send"} /\ faults = 0 => rxq = <<>> /\ ~ Dumping

\* A call returns unless an answer is lost, also after failures: the answers
\* and the abandoned dump of earlier calls only delay it.
CallReturns == (pc = "send") ~> (pc = "idle" \/ losses > 0)
=============================================================================

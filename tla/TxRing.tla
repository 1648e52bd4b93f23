------------------------------- MODULE TxRing -------------------------------
(***************************************************************************)
(* The transmit ring of one netlink socket of libdpif (nl.c), used with    *)
(* option -M of hub: what every *_exec and *_run function does to send a   *)
(* request.  It takes the next frame, waits until the kernel has left it,  *)
(* builds the request there, marks it VALID and calls send() with no data. *)
(* The return value of the *_build functions is not looked at.             *)
(*                                                                         *)
(* The kernel is external.  In send() it consumes the VALID frames at its  *)
(* own head, and returns their length, 0 if there is none; it may keep a   *)
(* consumed frame RESERVED for a while.                                    *)
(***************************************************************************)
EXTENDS Integers, Sequences, FiniteSets

CONSTANTS FrameNr,      \* nm_frame_nr: frames of the ring
          MaxCalls,     \* bound: requests made on the socket
          MaxFaults     \* bound: failures of poll() and send()

ASSUME FrameNrAssumption   == FrameNr \in Nat \ {0}
ASSUME MaxCallsAssumption  == MaxCalls \in Nat
ASSUME MaxFaultsAssumption == MaxFaults \in Nat

VARIABLES status,       \* nm_status of each frame
          content,      \* the request in each frame's data, 0 if none yet
          offset,       \* nl->tx_ring.offset, counted in frames
          cur,          \* the frame of the current request
          call,         \* the number of the current, or last, request
          pc,           \* where the caller is
          head,         \* the kernel's next frame
          executed,     \* history: requests in the order they were consumed
          built,        \* history: requests whose frame was marked VALID
          outcome,      \* history: what nl_send returned for each request
          faults        \* failures so far

vars == <<status, content, offset, cur, call, pc, head, executed, built, outcome,
          faults>>

Frames == 0 .. FrameNr - 1
Calls  == 1 .. MaxCalls

Ahead(f, i) == (f + i) % FrameNr

NextFrameSkips(f) == Ahead(f, 2)                       \* mutant of NextFrame
NextFrame(f) == Ahead(f, 1)

Init ==
  /\ status   = [f \in Frames |-> "unused"]
  /\ content  = [f \in Frames |-> 0]
  /\ offset   = 0
  /\ cur      = 0
  /\ call     = 0
  /\ pc       = "init"
  /\ head     = 0
  /\ executed = <<>>
  /\ built    = {}
  /\ outcome  = [c \in Calls |-> "none"]
  /\ faults   = 0

-----------------------------------------------------------------------------
(* The caller *)

\* nl_frame_init: the next frame is taken, and the offset advanced, before
\* anything can fail.
FrameInit ==
  /\ pc = "init"
  /\ call < MaxCalls
  /\ call'   = call + 1
  /\ cur'    = offset
  /\ offset' = NextFrame(offset)
  /\ pc'     = "build"
  /\ UNCHANGED <<status, content, head, executed, built, outcome, faults>>

\* nl_pollout in nlmsg_begin, the builder and nl_frame_build: once the frame
\* is UNUSED the request is written and the frame marked VALID.
BuildIf(ready) ==
  /\ pc = "build"
  /\ ready
  /\ content' = [content EXCEPT ![cur] = call]
  /\ built'   = built \cup {call}
  /\ status'  = [status EXCEPT ![cur] = "valid"]
  /\ pc'      = "send"
  /\ UNCHANGED <<offset, cur, call, head, executed, outcome, faults>>

BuildNoWait == BuildIf(status[cur] # "reserved")           \* mutant of Build
Build == BuildIf(status[cur] = "unused")

\* nl_pollout: the frame is still the kernel's, and poll() fails, reports
\* POLLERR or returns without POLLOUT. The builder returns -1, the frame is
\* not marked, and the caller goes on to send all the same.
SkipFrame(marked) ==
  /\ pc = "build"
  /\ status[cur] # "unused"
  /\ faults < MaxFaults
  /\ faults' = faults + 1
  /\ status' = [status EXCEPT ![cur] = marked]
  /\ pc'     = "send"
  /\ UNCHANGED <<content, offset, cur, call, head, executed, built, outcome>>

BuildFailMarks == SkipFrame("valid")                   \* mutant of BuildFail
BuildFail == SkipFrame(status[cur])

Return(o) ==
  /\ pc' = "init"
  /\ outcome' = [outcome EXCEPT ![call] = o]

\* The frames send() consumes: the VALID ones from the head on.
Run == {i \in 0 .. FrameNr - 1 :
          \A j \in 0 .. i : status[Ahead(head, j)] = "valid"}

\* nl_send: the kernel consumes what it finds; with nothing there send()
\* returns 0, which the callers take for a success.
Send ==
  /\ pc = "send"
  /\ LET n == Cardinality(Run) IN
     /\ executed' = executed \o [i \in 1 .. n |-> content[Ahead(head, i - 1)]]
     /\ head' = Ahead(head, n)
     /\ \E kept \in SUBSET {Ahead(head, i) : i \in Run} :
          status' = [f \in Frames |->
                       IF f \in kept THEN "reserved"
                       ELSE IF \E i \in Run : f = Ahead(head, i) THEN "unused"
                       ELSE status[f]]
     /\ Return(IF n = 0 THEN "empty" ELSE "sent")
  /\ UNCHANGED <<content, offset, cur, call, built, faults>>

\* nl_send: send() fails before it looks at the ring.
SendFail ==
  /\ pc = "send"
  /\ faults < MaxFaults
  /\ faults' = faults + 1
  /\ Return("fail")
  /\ UNCHANGED <<status, content, offset, cur, call, head, executed, built>>

-----------------------------------------------------------------------------
(* The kernel *)

\* The kernel is done with a frame it kept.
KRelease(f) ==
  /\ status[f] = "reserved"
  /\ status' = [status EXCEPT ![f] = "unused"]
  /\ UNCHANGED <<content, offset, cur, call, pc, head, executed, built, outcome,
                 faults>>

Next == \/ FrameInit \/ Build \/ BuildFail \/ Send \/ SendFail
        \/ \E f \in Frames : KRelease(f)

Spec == Init /\ [][Next]_vars

-----------------------------------------------------------------------------
(* Properties *)

Executed == {executed[i] : i \in DOMAIN executed}

\* No request is executed twice, however far the caller's offset and the
\* kernel's head have drifted apart after failures.
AtMostOnce == \A i, j \in DOMAIN executed :
                 executed[i] = executed[j] => i = j

\* A frame the kernel has not consumed is never built over: every request
\* marked VALID is either executed or still in its frame.
NoOverwrite ==
  LET waiting == {content[f] : f \in {g \in Frames : status[g] = "valid"}}
  IN  built = Executed \cup waiting /\ Executed \cap waiting = {}

\* After two failures at most, a request left behind in the ring, by a failed
\* send or because an earlier frame was skipped, is executed before the ring
\* comes round to it again, however long the ring (a third failure can make it
\* wait for another round); and without failures each send() executes the
\* request of its own call and no other, in order.
Timely == pc = "init" =>
  /\ faults < 3 =>
       \A f \in Frames : status[f] = "valid" => call - content[f] < FrameNr
  /\ faults = 0 => executed = [i \in 1 .. call |-> i]
=============================================================================

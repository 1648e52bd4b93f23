-------------------------------- MODULE Exec --------------------------------
(***************************************************************************)
(* A call in ring mode: dp_exec, vport_exec, flow_exec and rtnl_exec, the  *)
(* transmit ring of TxRing composed with the answers nl_dispatch waits     *)
(* for.  A call whose frame was skipped sends what others left in the      *)
(* ring, or nothing; in the first case it waits for answers, in the second *)
(* it returns 0, which odp_new and flood take for a success.               *)
(*                                                                         *)
(* The kernel answers each request it executes, in that order.  Numbers do *)
(* not wrap here: Dispatch is about that.                                  *)
(***************************************************************************)
EXTENDS TxRing, SequencesExt

VARIABLES seq,          \* nl->seq
          number,       \* nlmsg_seq of the request of each call
          rxq,          \* calls whose answers wait to be received
          waiting,      \* the caller is in nl_dispatch
          parsed,       \* the call whose answer the family structure holds
          result        \* history: what each call returned

callVars == <<seq, number, rxq, waiting, parsed, result>>
execVars == <<vars, callVars>>

ExecInit ==
  /\ Init
  /\ seq     = 0
  /\ number  = [c \in Calls |-> 0]
  /\ rxq     = <<>>
  /\ waiting = FALSE
  /\ parsed  = 0
  /\ result  = [c \in Calls |-> "none"]

-----------------------------------------------------------------------------
(* The caller *)

ExecStart ==
  /\ ~ waiting
  /\ FrameInit
  /\ UNCHANGED callVars

ExecBuild ==
  /\ Build
  /\ seq'    = seq + 1
  /\ number' = [number EXCEPT ![call] = seq']
  /\ UNCHANGED <<rxq, waiting, parsed, result>>

\* genl_builder has taken a number before nlmsg_begin finds that the frame is
\* not to be had.
SkipCall(s) ==
  /\ BuildFail
  /\ seq' = s
  /\ UNCHANGED <<number, rxq, waiting, parsed, result>>

ExecBuildFailKeeps == SkipCall(seq)                   \* mutant of ExecBuildFail
ExecBuildFail == SkipCall(seq + 1)

\* send() of no bytes ends the call with 0; otherwise nl_dispatch follows.
ExecSend ==
  /\ Send
  /\ rxq'     = rxq \o SubSeq(executed', Len(executed) + 1, Len(executed'))
  /\ waiting' = (outcome'[call] = "sent")
  /\ result'  = [result EXCEPT ![call] = IF waiting' THEN @ ELSE "zero"]
  /\ UNCHANGED <<seq, number, parsed>>

ExecSendFail ==
  /\ SendFail
  /\ result' = [result EXCEPT ![call] = "fail"]
  /\ UNCHANGED <<seq, number, rxq, waiting, parsed>>

\* One round of nl_dispatch: the answer is parsed, whosever it is; an older
\* one is dropped then, and the first other ends the call.
AnswerUnless(stale) ==
  /\ waiting
  /\ rxq # <<>>
  /\ rxq'     = Tail(rxq)
  /\ parsed'  = Head(rxq)
  /\ waiting' = stale
  /\ result'  = [result EXCEPT ![call] = IF stale THEN @ ELSE "done"]
  /\ UNCHANGED <<vars, seq, number>>

Answer == AnswerUnless(number[Head(rxq)] < seq)

\* nl_recv fails, the answer stays in the queue.
AnswerFail ==
  /\ waiting
  /\ faults < MaxFaults
  /\ faults'  = faults + 1
  /\ waiting' = FALSE
  /\ result'  = [result EXCEPT ![call] = "fail"]
  /\ UNCHANGED <<status, content, offset, cur, call, pc, head, executed, built,
                 outcome, seq, number, rxq, parsed>>

ExecRelease == \E f \in Frames : KRelease(f) /\ UNCHANGED callVars

ExecNext == \/ ExecStart \/ ExecBuild \/ ExecBuildFail \/ ExecSend
            \/ ExecSendFail \/ Answer \/ AnswerFail \/ ExecRelease

ExecSpec == ExecInit /\ [][ExecNext]_execVars

\* The caller is a sequential program; the kernel gives frames back.
ExecFairness ==
  /\ WF_execVars(ExecStart) /\ WF_execVars(ExecBuild) /\ WF_execVars(ExecSend)
  /\ WF_execVars(Answer)
  /\ \A f \in Frames : WF_execVars(KRelease(f) /\ UNCHANGED callVars)

ExecFairSpec == ExecSpec /\ ExecFairness

-----------------------------------------------------------------------------
(* Properties *)

Returned == pc = "init" /\ ~ waiting

\* Whatever failed before, and however far the ring's two sides have drifted
\* apart, a call that returns from nl_dispatch with success was executed, and
\* the structure its caller reads next was filled from its own answer.
OwnAnswer == Returned /\ call > 0 /\ result[call] = "done" =>
  call \in Executed /\ parsed = call

\* The 0 of a call that sent nothing passes for a success only after some
\* frame was skipped: failures of send() and recv() alone never bring it about.
RealSuccess == built = 1 .. call /\ Returned =>
  \A c \in 1 .. call : result[c] # "zero"

=============================================================================

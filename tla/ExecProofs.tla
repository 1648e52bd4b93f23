----------------------------- MODULE ExecProofs -----------------------------
(***************************************************************************)
(* What holds of the transmit ring, and of the calls that use it, for      *)
(* every size of ring and any number of calls and failures.                *)
(***************************************************************************)
EXTENDS Exec, FiniteSetTheorems, SequenceTheorems, TLAPS

-----------------------------------------------------------------------------
(* Going round the ring *)

\* How many frames f is ahead of h, and the frame that is i ahead.
Rel(f, h)  == IF f >= h THEN f - h ELSE f - h + FrameNr
Plus(h, i) == IF h + i < FrameNr THEN h + i ELSE h + i - FrameNr

\* Ahead without the modulo.
LEMMA AheadIs ==
  ASSUME NEW h \in Frames, NEW i \in 0 .. FrameNr
  PROVE  Ahead(h, i) = Plus(h, i) /\ Ahead(h, i) \in Frames
  BY FrameNrAssumption DEF Frames, Ahead, Plus

\* The frames that are less than once round ahead are all frames, each once.
LEMMA Round ==
  ASSUME NEW h \in Frames
  PROVE  /\ \A f \in Frames : Rel(f, h) \in 0 .. FrameNr - 1 /\ Ahead(h, Rel(f, h)) = f
         /\ \A i \in 0 .. FrameNr - 1 : Rel(Ahead(h, i), h) = i /\ Ahead(h, i) \in Frames
<1>1. ASSUME NEW f \in Frames
      PROVE  Rel(f, h) \in 0 .. FrameNr - 1 /\ Ahead(h, Rel(f, h)) = f
  <2>1. Rel(f, h) \in 0 .. FrameNr - 1 /\ Plus(h, Rel(f, h)) = f
    BY FrameNrAssumption DEF Frames, Rel, Plus
  <2> QED
    BY <2>1, AheadIs, FrameNrAssumption
<1>2. ASSUME NEW i \in 0 .. FrameNr - 1
      PROVE  Rel(Ahead(h, i), h) = i /\ Ahead(h, i) \in Frames
  <2>1. i \in 0 .. FrameNr /\ Rel(Plus(h, i), h) = i
    BY FrameNrAssumption DEF Frames, Rel, Plus
  <2> QED
    BY <2>1, AheadIs
<1> QED
  BY <1>1, <1>2

-----------------------------------------------------------------------------
(* Types, and the requests in the ring *)

\* Every variable of the ring keeps its range.
TxTypeOK ==
  /\ status   \in [Frames -> {"unused", "valid", "reserved"}]
  /\ content  \in [Frames -> 0 .. MaxCalls]
  /\ offset   \in Frames
  /\ cur      \in Frames
  /\ call     \in 0 .. MaxCalls
  /\ pc       \in {"init", "build", "send"}
  /\ head     \in Frames
  /\ executed \in Seq(Calls)
  /\ outcome  \in [Calls -> {"none", "empty", "sent", "fail"}]
  /\ faults   \in 0 .. MaxFaults
  /\ pc # "init" => call \in Calls /\ offset = NextFrame(cur)

\* The calls whose frame could have been built by now.
Tried == IF pc = "build" THEN call - 1 ELSE call

Valid == {f \in Frames : status[f] = "valid"}

\* A request is built once, and then it is in one place: executed or in its
\* own frame.
Once ==
  /\ built \subseteq 1 .. Tried
  /\ \A f \in Valid : content[f] \in built
  /\ \A f, g \in Valid : content[f] = content[g] => f = g
  /\ AtMostOnce
  /\ NoOverwrite

-----------------------------------------------------------------------------
(* The ring without skipped frames *)

\* As long as no frame was skipped, the requests not executed yet are in the
\* frames from the kernel's head up to the caller's, in the order of calls; at
\* most one for each failed send() when a new call starts.
Lag == Tried - Len(executed)
NoSkip == built = 1 .. Tried =>
  /\ Lag \in 0 .. FrameNr
  /\ pc = "send" => Lag > 0 /\ Lag <= faults + 1
  /\ pc # "send" => Lag <= faults
  /\ pc = "init"  => offset = Plus(head, Lag)
  /\ pc = "build" => cur = Plus(head, Lag)
  /\ pc = "send"  => cur = Plus(head, Lag - 1)
  /\ \A f \in Frames : status[f] = "valid" <=> Rel(f, head) < Lag
  /\ \A f \in Valid : content[f] = Len(executed) + Rel(f, head) + 1
  /\ \A i \in DOMAIN executed : executed[i] = i

-----------------------------------------------------------------------------
(* The ring after one failure, or two *)

\* Without failures no frame is skipped.
Unfailed == faults = 0 => built = 1 .. Tried

\* The first failure was a skipped frame: the kernel's head stays on it until
\* the caller has come round, and the frames in between are valid.
OneSkip == faults <= 1 /\ built # 1 .. Tried =>
  LET pos == IF pc = "init" THEN offset ELSE cur
  IN  \/ /\ pc # "send"
         /\ \A f \in Frames : status[f] = "valid" <=>
              f # head /\ (pos = head \/ Rel(f, head) < Rel(pos, head))
      \/ /\ pc = "send" /\ cur # head
         /\ \A f \in Frames : status[f] = "valid" <=>
              f # head /\ Rel(f, head) <= Rel(cur, head)
      \/ /\ pc = "send" /\ cur = head
         /\ Valid = {} \/ (Valid = Frames /\ content[cur] = call)

\* After two failures at most, a valid frame holds the request built when the
\* caller was there last. The exception is over when the call ends.
Gap(f, p) == IF f < p THEN p - f ELSE p - f + FrameNr
Aged == faults < 3 => \A f \in Valid :
  /\ pc = "init" => content[f] = call + 1 - Gap(f, offset)
  /\ pc = "build" => content[f] = call - Gap(f, cur)
  /\ pc = "send" => \/ content[f] = call - Gap(f, cur) /\ (f = cur => cur = head)
                    \/ content[f] = call /\ f = cur

RingInv == TxTypeOK /\ Once /\ NoSkip /\ Unfailed /\ OneSkip /\ Aged

-----------------------------------------------------------------------------
(* The answers *)

\* Every variable of a call keeps its range; the builders and nl_dispatch
\* count alike, so that the number of a request built is that of its call.
CallTypeOK ==
  /\ seq = IF pc = "build" THEN call - 1 ELSE call
  /\ number \in [Calls -> Nat]
  /\ \A c \in built : number[c] = c
  /\ rxq \in Seq(Executed)
  /\ waiting \in BOOLEAN
  /\ waiting => pc = "init" /\ call \in Calls
  /\ result \in [Calls -> {"none", "zero", "fail", "done"}]

\* What each call came to, or is not settled yet.
Settled ==
  /\ \A c \in Calls : c > call \/ (c = call /\ ~ Returned) => result[c] = "none"
  /\ OwnAnswer
  /\ built = 1 .. Tried => \A c \in 1 .. call : result[c] # "zero"

ExecInv == RingInv /\ CallTypeOK /\ Settled

-----------------------------------------------------------------------------
(* What send() does *)

\* The frames consumed are the first so many from the kernel's head on.
LEMMA RunIs == Run = 0 .. Cardinality(Run) - 1 /\ Cardinality(Run) \in 0 .. FrameNr
<1>1. Run \in SUBSET (0 .. FrameNr - 1) /\ IsFiniteSet(0 .. FrameNr - 1)
  BY FS_Interval, FrameNrAssumption DEF Run
<1>2. IsFiniteSet(Run) /\ Cardinality(Run) \in Nat
  BY <1>1, FS_Subset, FS_CardinalityType
<1>3. \A i \in Run : 0 .. i \subseteq Run
  BY FrameNrAssumption DEF Run
<1>4. ASSUME NEW i \in Run PROVE i \in 0 .. Cardinality(Run) - 1
  <2>1. i \in 0 .. FrameNr - 1 /\ 0 .. i \in SUBSET Run
    BY <1>1, <1>3, <1>4
  <2>2. Cardinality(0 .. i) = i + 1 /\ Cardinality(0 .. i) <= Cardinality(Run)
    BY <1>2, <2>1, FS_Interval, FS_Subset
  <2> QED
    BY <1>2, <2>1, <2>2
<1>5. /\ IsFiniteSet(0 .. Cardinality(Run) - 1)
      /\ Cardinality(0 .. Cardinality(Run) - 1) = Cardinality(Run)
  BY <1>2, FS_Interval
<1>6. Run = 0 .. Cardinality(Run) - 1
  BY <1>4, <1>5, FS_Subset
<1>7. Cardinality(Run) <= FrameNr
  <2>1. Cardinality(0 .. FrameNr - 1) = FrameNr
    BY FS_Interval, FrameNrAssumption
  <2> QED
    BY <1>1, <2>1, FS_Subset
<1> QED
  BY <1>2, <1>6, <1>7, FrameNrAssumption

\* How many frames send() finds, and the requests in them.
Found == Cardinality(Run)
Batch == [i \in 1 .. Found |-> content[Ahead(head, i - 1)]]

\* send() consumes the valid frames that are less than Found ahead.
LEMMA FoundIs ==
  ASSUME TxTypeOK
  PROVE  /\ Found \in 0 .. FrameNr
         /\ \A f \in Frames : Rel(f, head) < Found => status[f] = "valid"
         /\ Found < FrameNr => status[Ahead(head, Found)] # "valid"
         /\ \A f \in Frames : (\E i \in Run : f = Ahead(head, i)) <=> Rel(f, head) < Found
<1>1. Found \in 0 .. FrameNr /\ Run = 0 .. Found - 1 /\ head \in Frames
  BY RunIs DEF Found, TxTypeOK
<1>2. \A i \in 0 .. Found - 1 : status[Ahead(head, i)] = "valid"
  <2>1. \A i \in Run : i \in 0 .. i /\ status[Ahead(head, i)] = "valid"
    BY FrameNrAssumption DEF Run
  <2> QED
    BY <1>1, <2>1
<1>0. /\ \A f \in Frames : Rel(f, head) \in 0 .. FrameNr - 1 /\ Ahead(head, Rel(f, head)) = f
      /\ \A i \in 0 .. FrameNr - 1 : Rel(Ahead(head, i), head) = i
  BY <1>1, Round
<1>3. ASSUME NEW f \in Frames
      PROVE  (\E i \in Run : f = Ahead(head, i)) <=> Rel(f, head) < Found
  <2>1. ASSUME NEW i \in Run, f = Ahead(head, i) PROVE Rel(f, head) < Found
    <3>1. i \in 0 .. Found - 1 /\ i \in 0 .. FrameNr - 1
      BY <1>1, FrameNrAssumption
    <3> QED
      BY <1>0, <1>1, <2>1, <3>1
  <2>2. Rel(f, head) < Found => Rel(f, head) \in Run /\ f = Ahead(head, Rel(f, head))
    BY <1>0, <1>1, FrameNrAssumption
  <2> QED
    BY <2>1, <2>2
<1>4. ASSUME NEW f \in Frames, Rel(f, head) < Found PROVE status[f] = "valid"
  <2>1. Rel(f, head) \in 0 .. Found - 1 /\ f = Ahead(head, Rel(f, head))
    BY <1>0, <1>1, <1>4, FrameNrAssumption
  <2> QED
    BY <1>2, <2>1
<1>5. Found < FrameNr => status[Ahead(head, Found)] # "valid"
  <2> SUFFICES ASSUME Found < FrameNr, status[Ahead(head, Found)] = "valid" PROVE FALSE
    OBVIOUS
  <2>1. \A j \in 0 .. Found : status[Ahead(head, j)] = "valid"
    BY <1>1, <1>2
  <2>2. Found \in Run
    BY <1>1, <2>1, FrameNrAssumption DEF Run
  <2> QED
    BY <1>1, <2>2
<1> QED
  BY <1>1, <1>3, <1>4, <1>5

\* All that the invariants need of a send() that does not fail.
LEMMA SendIs ==
  ASSUME TxTypeOK, Once, Send
  PROVE  /\ pc = "send" /\ pc' = "init"
         /\ UNCHANGED <<content, offset, cur, call, built, faults>>
         /\ head' = Plus(head, Found) /\ head' \in Frames
         /\ Batch \in Seq(Calls) /\ Len(Batch) = Found
         /\ executed' = executed \o Batch
         /\ status' \in [Frames -> {"unused", "valid", "reserved"}]
         /\ \A f \in Frames : status'[f] = "valid" <=>
                                status[f] = "valid" /\ Rel(f, head) >= Found
         /\ outcome' = [outcome EXCEPT ![call] = IF Found = 0 THEN "empty" ELSE "sent"]
<1>1. PICK kept \in SUBSET {Ahead(head, i) : i \in Run} :
        status' = [f \in Frames |->
                     IF f \in kept THEN "reserved"
                     ELSE IF \E i \in Run : f = Ahead(head, i) THEN "unused"
                     ELSE status[f]]
  BY DEF Send
<1>2. /\ pc = "send" /\ pc' = "init"
      /\ UNCHANGED <<content, offset, cur, call, built, faults>>
      /\ executed' = executed \o Batch
      /\ outcome' = [outcome EXCEPT ![call] = IF Found = 0 THEN "empty" ELSE "sent"]
      /\ head' = Ahead(head, Found)
  BY DEF Send, Found, Batch, Return
<1>3. head' = Plus(head, Found) /\ head' \in Frames
  BY <1>2, FoundIs, AheadIs DEF TxTypeOK
<1>4. \A i \in 1 .. Found : content[Ahead(head, i - 1)] \in Calls
  <2> SUFFICES ASSUME NEW i \in 1 .. Found PROVE content[Ahead(head, i - 1)] \in Calls
    OBVIOUS
  <2>1. i - 1 \in 0 .. FrameNr - 1 /\ Found \in Nat
    BY FoundIs, FrameNrAssumption
  <2>2. Ahead(head, i - 1) \in Frames /\ Rel(Ahead(head, i - 1), head) = i - 1
    BY <2>1, Round DEF TxTypeOK
  <2>3. Ahead(head, i - 1) \in Valid
    BY <2>1, <2>2, FoundIs DEF Valid
  <2>4. built \subseteq Calls
    BY MaxCallsAssumption DEF Once, TxTypeOK, Tried, Calls
  <2> QED
    BY <2>3, <2>4 DEF Once
<1>5. Batch \in Seq(Calls) /\ Len(Batch) = Found
  <2>1. Found \in Nat
    BY FoundIs
  <2> QED
    BY <1>4, <2>1 DEF Batch
<1>6. \A f \in Frames : f \in kept => Rel(f, head) < Found
  BY <1>1, FoundIs
<1>7. \A f \in Frames : IF Rel(f, head) < Found THEN status'[f] \in {"unused", "reserved"}
                         ELSE status'[f] = status[f]
  BY <1>1, <1>6, FoundIs
<1>8. status' \in [Frames -> {"unused", "valid", "reserved"}]
  BY <1>1, <1>7 DEF TxTypeOK
<1>9. \A f \in Frames : Rel(f, head) >= Found <=> ~ (Rel(f, head) < Found)
  <2>1. \A f \in Frames : Rel(f, head) \in 0 .. FrameNr - 1
    BY Round DEF TxTypeOK
  <2> QED
    BY <2>1, FoundIs, FrameNrAssumption
<1> QED
  BY <1>2, <1>3, <1>5, <1>7, <1>8, <1>9, FoundIs

\* A step of the callers that leaves the ring alone; a failed recv() counts.
OutsideRing ==
  /\ faults' \in faults .. MaxFaults
  /\ UNCHANGED <<status, content, offset, cur, call, pc, head, executed, built,
                 outcome>>

\* Every step of a call is a step of its transmit ring, or none of its business.
LEMMA ExecIsRing ==
  ASSUME TxTypeOK, [ExecNext]_execVars
  PROVE  Next \/ OutsideRing
<1>1. faults \in 0 .. MaxFaults /\ MaxFaults \in Nat
  BY MaxFaultsAssumption DEF TxTypeOK
<1>2. CASE Answer \/ AnswerFail \/ UNCHANGED execVars
  BY <1>1, <1>2 DEF Answer, AnswerUnless, AnswerFail, execVars, vars, OutsideRing
<1>3. CASE ExecStart \/ ExecBuild \/ ExecBuildFail \/ ExecSend \/ ExecSendFail \/ ExecRelease
  BY <1>3 DEF ExecStart, ExecBuild, ExecBuildFail, SkipCall, ExecSend, ExecSendFail,
     ExecRelease, Next
<1> QED
  BY <1>2, <1>3 DEF ExecNext

\* The next frame, without the modulo.
LEMMA NextIs == ASSUME NEW f \in Frames
                PROVE  NextFrame(f) = Plus(f, 1) /\ NextFrame(f) \in Frames
  BY AheadIs, FrameNrAssumption DEF NextFrame

\* A step keeps the types.
LEMMA TxTypeStep ==
  ASSUME TxTypeOK, Once, Next \/ OutsideRing
  PROVE  TxTypeOK'
<1> USE MaxCallsAssumption, MaxFaultsAssumption DEF TxTypeOK
<1>1. CASE FrameInit
  BY <1>1, NextIs DEF FrameInit, Calls
<1>2. CASE Build
  BY <1>2 DEF Build, BuildIf, Calls
<1>3. CASE BuildFail
  BY <1>3 DEF BuildFail, SkipFrame
<1>4. CASE Send
  <2>1. executed' \in Seq(Calls)
    <3>1. /\ executed \in Seq(Calls) /\ Batch \in Seq(Calls)
          /\ executed' = executed \o Batch
      BY <1>4, SendIs
    <3> HIDE DEF TxTypeOK
    <3> QED
      BY <3>1, ConcatProperties
  <2>2. outcome' \in [Calls -> {"none", "empty", "sent", "fail"}]
    BY <1>4, SendIs
  <2> QED
    BY <1>4, <2>1, <2>2, SendIs
<1>5. CASE SendFail
  BY <1>5 DEF SendFail, Return
<1>6. ASSUME NEW f \in Frames, KRelease(f) PROVE TxTypeOK'
  BY <1>6 DEF KRelease
<1>7. CASE OutsideRing
  BY <1>7 DEF OutsideRing
<1> QED
  BY <1>1, <1>2, <1>3, <1>4, <1>5, <1>6, <1>7 DEF Next

-----------------------------------------------------------------------------
(* Each request once *)

\* A step that consumes nothing: the requests stay where they are.
LEMMA OnceKept ==
  ASSUME Once, UNCHANGED <<executed, built, content>>, Valid' = Valid,
         Tried' \in Int, Tried \in Int, Tried' >= Tried
  PROVE  Once'
  BY DEF Once, AtMostOnce, NoOverwrite, Executed, Valid

\* NoOverwrite, in terms of Valid.
LEMMA NoOverwriteIs ==
  NoOverwrite <=> /\ built = Executed \cup {content[f] : f \in Valid}
                  /\ Executed \cap {content[f] : f \in Valid} = {}
  BY DEF NoOverwrite, Valid

\* The same of the next state.
LEMMA NoOverwriteNext ==
  NoOverwrite' <=> /\ built' = Executed' \cup {content'[f] : f \in Valid'}
                   /\ Executed' \cap {content'[f] : f \in Valid'} = {}
  BY DEF NoOverwrite, Valid

\* A request is built in a frame that held none.
LEMMA OnceBuild == ASSUME TxTypeOK, Once, Build PROVE Once'
<1>1. /\ UNCHANGED <<executed, call>> /\ cur \in Frames /\ call \in Calls
      /\ pc = "build" /\ pc' = "send" /\ status[cur] = "unused"
      /\ built' = built \cup {call}
      /\ status \in [Frames -> {"unused", "valid", "reserved"}]
      /\ content \in [Frames -> 0 .. MaxCalls]
      /\ status' = [status EXCEPT ![cur] = "valid"]
      /\ content' = [content EXCEPT ![cur] = call]
      /\ Tried = call - 1 /\ Tried' = call
  BY DEF Build, BuildIf, TxTypeOK, Tried
<1>2. call \notin built /\ call \in Nat \ {0} /\ built \subseteq 1 .. call - 1
  BY <1>1, MaxCallsAssumption DEF Once, Calls
<1>3. /\ Valid' = Valid \cup {cur} /\ cur \notin Valid /\ Valid \subseteq Frames
      /\ \A f \in Valid : content'[f] = content[f]
      /\ content'[cur] = call
  BY <1>1 DEF Valid
<1>4. \A f \in Valid : content[f] # call
  BY <1>2 DEF Once
<1>5. Executed' = Executed /\ call \notin Executed
  BY <1>1, <1>2, NoOverwriteIs DEF Executed, Once
<1>6. {content'[f] : f \in Valid'} = {content[f] : f \in Valid} \cup {call}
  BY <1>3
<1>7. NoOverwrite'
  BY <1>1, <1>4, <1>5, <1>6, NoOverwriteIs, NoOverwriteNext DEF Once
<1>8. built' \subseteq 1 .. Tried' /\ AtMostOnce'
  BY <1>1, <1>2 DEF Once, AtMostOnce
<1> QED
  BY <1>1, <1>3, <1>4, <1>7, <1>8 DEF Once

\* The requests of one send() are distinct, and none was executed before.
LEMMA BatchFresh ==
  ASSUME TxTypeOK, Once
  PROVE  /\ \A i \in 1 .. Found :
              \E f \in Valid : Rel(f, head) = i - 1 /\ Batch[i] = content[f]
         /\ \A f \in Valid : Rel(f, head) < Found =>
              \E i \in 1 .. Found : Rel(f, head) = i - 1 /\ Batch[i] = content[f]
         /\ \A i, j \in 1 .. Found : Batch[i] = Batch[j] => i = j
<1>1. head \in Frames /\ Found \in 0 .. FrameNr
  BY FoundIs DEF TxTypeOK
<1>2. /\ \A f \in Frames : Rel(f, head) \in 0 .. FrameNr - 1 /\ Ahead(head, Rel(f, head)) = f
      /\ \A i \in 0 .. FrameNr - 1 : Rel(Ahead(head, i), head) = i /\ Ahead(head, i) \in Frames
  BY <1>1, Round
<1>3. ASSUME NEW i \in 1 .. Found
      PROVE  \E f \in Valid : Rel(f, head) = i - 1 /\ Batch[i] = content[f]
  <2>1. i - 1 \in 0 .. FrameNr - 1
    BY <1>1, FrameNrAssumption
  <2>2. Ahead(head, i - 1) \in Frames /\ Rel(Ahead(head, i - 1), head) = i - 1
    BY <1>2, <2>1
  <2>3. i - 1 < Found
    BY <1>1
  <2>4. Ahead(head, i - 1) \in Valid
    BY <2>2, <2>3, FoundIs DEF Valid
  <2> QED
    BY <2>2, <2>4 DEF Batch
<1>4. ASSUME NEW f \in Valid, Rel(f, head) < Found
      PROVE  \E i \in 1 .. Found : Rel(f, head) = i - 1 /\ Batch[i] = content[f]
  <2> DEFINE k == Rel(f, head) + 1
  <2>1. k \in 1 .. Found /\ Ahead(head, Rel(f, head)) = f /\ k - 1 = Rel(f, head)
    BY <1>1, <1>2, <1>4, FrameNrAssumption DEF Valid
  <2>2. Batch[k] = content[f]
    <3> HIDE DEF k
    <3> QED
      BY <2>1 DEF Batch
  <2> HIDE DEF k
  <2> QED
    BY <2>1, <2>2
<1>5. ASSUME NEW i \in 1 .. Found, NEW j \in 1 .. Found, Batch[i] = Batch[j]
      PROVE  i = j
  <2>1. PICK f \in Valid : Rel(f, head) = i - 1 /\ Batch[i] = content[f]
    BY <1>3
  <2>2. PICK g \in Valid : Rel(g, head) = j - 1 /\ Batch[j] = content[g]
    BY <1>3
  <2>3. f = g
    BY <1>5, <2>1, <2>2 DEF Once
  <2> QED
    BY <1>1, <2>1, <2>2, <2>3
<1> QED
  BY <1>3, <1>4, <1>5

\* send() moves requests from the ring to those executed.
LEMMA OnceSend == ASSUME TxTypeOK, Once, Send PROVE Once'
<1>1. /\ Batch \in Seq(Calls) /\ Len(Batch) = Found /\ Found \in Nat
      /\ executed \in Seq(Calls) /\ executed' = executed \o Batch
      /\ UNCHANGED <<content, call, built>>
      /\ \A f \in Frames : status'[f] = "valid" <=>
                             status[f] = "valid" /\ ~ (Rel(f, head) < Found)
      /\ Tried' = Tried
  <2>1. \A f \in Frames : Rel(f, head) >= Found <=> ~ (Rel(f, head) < Found)
    <3>1. \A f \in Frames : Rel(f, head) \in 0 .. FrameNr - 1
      BY Round DEF TxTypeOK
    <3> QED
      BY <3>1, FoundIs, FrameNrAssumption
  <2> QED
    BY <2>1, SendIs, FoundIs DEF TxTypeOK, Tried
<1> DEFINE L == Len(executed)
<1>2. /\ L \in Nat /\ DOMAIN executed = 1 .. L /\ DOMAIN executed' = 1 .. L + Found
      /\ \A i \in 1 .. L : executed'[i] = executed[i]
      /\ \A i \in 1 .. Found : executed'[L + i] = Batch[i]
  <2>1. /\ L \in Nat /\ DOMAIN executed = 1 .. L
    BY <1>1, LenProperties
  <2>2. /\ executed' \in Seq(Calls) /\ Len(executed') = L + Found
        /\ \A i \in 1 .. L + Found :
             executed'[i] = IF i <= L THEN executed[i] ELSE Batch[i - L]
    BY <1>1, ConcatProperties
  <2>3. DOMAIN executed' = 1 .. L + Found
    BY <2>2, LenProperties
  <2> HIDE DEF L
  <2>4. \A i \in 1 .. L : executed'[i] = executed[i]
    BY <1>1, <2>1, <2>2
  <2>5. \A i \in 1 .. Found : executed'[L + i] = Batch[i]
    <3> SUFFICES ASSUME NEW i \in 1 .. Found PROVE executed'[L + i] = Batch[i]
      OBVIOUS
    <3>1. L + i \in 1 .. L + Found /\ ~ (L + i <= L) /\ (L + i) - L = i
      BY <1>1, <2>1
    <3> QED
      BY <2>2, <3>1
  <2> QED
    BY <2>1, <2>3, <2>4, <2>5
<1>3. Valid' = {f \in Valid : ~ (Rel(f, head) < Found)}
  BY <1>1 DEF Valid
<1>4. Executed' = Executed \cup {content[f] : f \in Valid \ Valid'}
  <2>1. ASSUME NEW x \in Executed' PROVE x \in Executed \cup {content[f] : f \in Valid \ Valid'}
    <3>1. PICK k \in 1 .. L + Found : x = executed'[k]
      BY <1>2 DEF Executed
    <3>2. CASE k \in 1 .. L
      BY <1>2, <3>1, <3>2 DEF Executed
    <3>3. CASE k \notin 1 .. L
      <4>1. k - L \in 1 .. Found /\ x = Batch[k - L]
        BY <1>1, <1>2, <3>1, <3>3
      <4>2. PICK f \in Valid : Rel(f, head) = k - L - 1 /\ x = content[f]
        BY <4>1, BatchFresh
      <4>3. Rel(f, head) < Found
        BY <1>1, <1>2, <4>1, <4>2
      <4> QED
        BY <1>3, <4>2, <4>3
    <3> QED
      BY <3>2, <3>3
  <2>2. Executed \subseteq Executed'
    <3>1. \A i \in 1 .. L : i \in 1 .. L + Found
      BY <1>1, <1>2
    <3> QED
      BY <1>2, <3>1 DEF Executed
  <2>3. ASSUME NEW f \in Valid \ Valid' PROVE content[f] \in Executed'
    <3>1. PICK i \in 1 .. Found : Batch[i] = content[f]
      BY <1>3, BatchFresh
    <3>2. L + i \in 1 .. L + Found
      BY <1>1, <1>2
    <3> QED
      BY <1>2, <3>1, <3>2 DEF Executed
  <2> QED
    BY <2>1, <2>2, <2>3
<1>5. NoOverwrite'
  <2>1. /\ built = Executed \cup {content[f] : f \in Valid}
        /\ Executed \cap {content[f] : f \in Valid} = {}
    BY NoOverwriteIs DEF Once
  <2>2. Valid' \subseteq Valid
    BY <1>3
  <2>3. built' = Executed' \cup {content'[f] : f \in Valid'}
    BY <1>1, <1>4, <2>1, <2>2
  <2>4. \A f \in Valid', g \in Valid \ Valid' : content[f] # content[g]
    BY <2>2 DEF Once
  <2>5. Executed' \cap {content'[f] : f \in Valid'} = {}
    BY <1>1, <1>4, <2>1, <2>2, <2>4
  <2> QED
    BY <2>3, <2>5, NoOverwriteNext
<1>6. AtMostOnce'
  <2> SUFFICES ASSUME NEW k \in 1 .. L + Found, NEW l \in 1 .. L + Found,
                      executed'[k] = executed'[l]
               PROVE  k = l
    BY <1>2 DEF AtMostOnce
  <2>1. \A i \in 1 .. L, j \in 1 .. Found : executed[i] # Batch[j]
    <3>1. \A i \in 1 .. L : executed[i] \in Executed
      BY <1>2 DEF Executed
    <3>2. \A j \in 1 .. Found : Batch[j] \in {content[f] : f \in Valid}
      BY BatchFresh
    <3> QED
      BY <3>1, <3>2, NoOverwriteIs DEF Once
  <2>2. \A i, j \in 1 .. L : executed[i] = executed[j] => i = j
    BY <1>2 DEF Once, AtMostOnce
  <2>3. \A i, j \in 1 .. Found : Batch[i] = Batch[j] => i = j
    BY BatchFresh
  <2>4. \A m \in 1 .. L + Found : m \in 1 .. L \/ (m - L \in 1 .. Found /\ L + (m - L) = m)
    BY <1>1, <1>2
  <2> HIDE DEF L
  <2> QED
    BY <1>1, <1>2, <2>1, <2>2, <2>3, <2>4
<1> QED
  BY <1>1, <1>3, <1>5, <1>6 DEF Once

\* No step breaks Once.
LEMMA OnceStep ==
  ASSUME TxTypeOK, Once, Next \/ OutsideRing
  PROVE  Once'
<1>1. Tried \in Int /\ call \in Nat
  BY MaxCallsAssumption DEF Tried, TxTypeOK
<1>2. CASE FrameInit \/ BuildFail \/ SendFail \/ OutsideRing
  <2>1. /\ UNCHANGED <<executed, built, content>> /\ Tried' \in Int /\ Tried' >= Tried
        /\ status' = status
    BY <1>1, <1>2 DEF FrameInit, BuildFail, SkipFrame, SendFail, Return, OutsideRing, Tried,
       TxTypeOK
  <2>2. Valid' = Valid
    BY <2>1 DEF Valid
  <2> QED
    BY <1>1, <2>1, <2>2, OnceKept
<1>3. ASSUME NEW f \in Frames, KRelease(f) PROVE Once'
  <2>1. /\ UNCHANGED <<executed, built, content>> /\ Tried' = Tried
        /\ Valid' = Valid
    BY <1>3 DEF KRelease, Tried, Valid, TxTypeOK
  <2> QED
    BY <1>1, <2>1, OnceKept
<1> QED
  BY <1>2, <1>3, OnceBuild, OnceSend DEF Next

-----------------------------------------------------------------------------
(* Places in the ring *)

\* How Rel and Plus go together.
LEMMA RelIs ==
  ASSUME NEW h \in Frames
  PROVE  /\ \A f \in Frames : Rel(f, h) \in 0 .. FrameNr - 1 /\ f = Plus(h, Rel(f, h))
         /\ \A i \in 0 .. FrameNr - 1 : Plus(h, i) \in Frames /\ Rel(Plus(h, i), h) = i
         /\ Plus(h, FrameNr) = h /\ Plus(h, 0) = h /\ Rel(h, h) = 0
         /\ \A i \in 0 .. FrameNr - 1 : Plus(Plus(h, i), 1) = Plus(h, i + 1)
  BY FrameNrAssumption DEF Frames, Rel, Plus

\* How Gap grows when the caller takes the next frame.
LEMMA GapIs ==
  ASSUME NEW p \in Frames
  PROVE  /\ \A f \in Frames : Gap(f, p) \in 1 .. FrameNr
         /\ \A f \in Frames : f # p => Gap(f, Plus(p, 1)) = Gap(f, p) + 1
         /\ Gap(p, Plus(p, 1)) = 1 /\ Gap(p, p) = FrameNr
  BY FrameNrAssumption DEF Frames, Gap, Plus

\* The types, for the proofs below.
LEMMA Facts ==
  ASSUME TxTypeOK, Once
  PROVE  /\ call \in Int /\ faults \in Nat /\ Len(executed) \in Nat /\ Tried \in Int
         /\ DOMAIN executed = 1 .. Len(executed) /\ Lag \in Int
         /\ head \in Frames /\ cur \in Frames /\ offset \in Frames
         /\ status \in [Frames -> {"unused", "valid", "reserved"}]
         /\ content \in [Frames -> 0 .. MaxCalls] /\ MaxCalls \in Nat
         /\ \A f \in Frames : content[f] \in Int
         /\ FrameNr \in Nat \ {0}
         /\ pc # "init" => offset = Plus(cur, 1)
         /\ (pc = "init" => Tried = call) /\ (pc = "send" => Tried = call)
         /\ (pc = "build" => Tried = call - 1)
         /\ pc \in {"init", "build", "send"}
<1>1. /\ call \in Int /\ faults \in Nat /\ Len(executed) \in Nat
      /\ DOMAIN executed = 1 .. Len(executed)
      /\ \A f \in Frames : content[f] \in Int
  BY MaxCallsAssumption, MaxFaultsAssumption, LenProperties DEF TxTypeOK
<1>2. pc # "init" => offset = Plus(cur, 1)
  BY NextIs DEF TxTypeOK
<1> QED
  BY <1>1, <1>2, FrameNrAssumption, MaxCallsAssumption DEF TxTypeOK, Tried, Lag

\* What a step other than a send() that succeeds does, as the proofs below use it.
LEMMA SkipIs ==
  ASSUME TxTypeOK, Once, BuildFail
  PROVE  /\ pc = "build" /\ pc' = "send" /\ faults' = faults + 1 /\ status' = status
         /\ UNCHANGED <<content, offset, cur, call, head, executed, built>>
         /\ built' # 1 .. Tried'
<1>1. /\ pc = "build" /\ pc' = "send" /\ faults' = faults + 1 /\ status' = status
      /\ UNCHANGED <<content, offset, cur, call, head, executed, built>>
      /\ call \in Calls
  BY DEF BuildFail, SkipFrame, TxTypeOK
<1>2. built \subseteq 1 .. call - 1 /\ call \in Nat \ {0} /\ Tried' = call
  BY <1>1, MaxCallsAssumption DEF Once, Tried, Calls
<1>3. call \in 1 .. Tried' /\ call \notin built
  BY <1>2
<1> QED
  BY <1>1, <1>3

\* Building marks the frame, and tells whether any frame was skipped before.
LEMMA BuildIs ==
  ASSUME TxTypeOK, Once, Build
  PROVE  /\ pc = "build" /\ pc' = "send" /\ status[cur] = "unused"
         /\ UNCHANGED <<offset, cur, call, head, executed, faults>>
         /\ \A f \in Frames : status'[f] = "valid" <=> status[f] = "valid" \/ f = cur
         /\ \A f \in Frames : content'[f] = IF f = cur THEN call ELSE content[f]
         /\ built' = 1 .. Tried' <=> built = 1 .. Tried
<1>1. /\ pc = "build" /\ pc' = "send" /\ status[cur] = "unused"
      /\ UNCHANGED <<offset, cur, call, head, executed, faults>>
      /\ call \in Calls /\ cur \in Frames
      /\ status \in [Frames -> {"unused", "valid", "reserved"}]
      /\ content \in [Frames -> 0 .. MaxCalls]
      /\ status' = [status EXCEPT ![cur] = "valid"]
      /\ content' = [content EXCEPT ![cur] = call]
      /\ built' = built \cup {call}
  BY DEF Build, BuildIf, TxTypeOK
<1>2. built \subseteq 1 .. call - 1 /\ call \in Nat \ {0} /\ Tried' = call /\ Tried = call - 1
  BY <1>1, MaxCallsAssumption DEF Once, Tried, Calls
<1>3. 1 .. call = (1 .. call - 1) \cup {call} /\ call \notin 1 .. call - 1
  BY <1>2
<1>4. built' = 1 .. Tried' <=> built = 1 .. Tried
  BY <1>1, <1>2, <1>3
<1> QED
  BY <1>1, <1>4

\* The other steps leave the requests in the ring, and count alike.
LEMMA RestIs ==
  ASSUME TxTypeOK, Once,
         FrameInit \/ SendFail \/ OutsideRing \/ \E f \in Frames : KRelease(f)
  PROVE  /\ UNCHANGED <<content, head, executed, built>>
         /\ \A f \in Frames : status'[f] = "valid" <=> status[f] = "valid"
         /\ Tried' = Tried /\ Lag' = Lag /\ faults' \in Nat /\ faults' >= faults
         /\ \/ pc = "init" /\ pc' = "build" /\ call' = call + 1 /\ cur' = offset
               /\ faults' = faults
            \/ pc = "send" /\ pc' = "init" /\ UNCHANGED <<call, offset, cur>>
               /\ faults' = faults + 1
            \/ UNCHANGED <<pc, call, offset, cur>>
<1>1. CASE FrameInit
  BY <1>1, Facts DEF FrameInit, Tried, Lag
<1>2. CASE SendFail
  BY <1>2, Facts DEF SendFail, Return, Tried, Lag
<1>3. CASE OutsideRing
  BY <1>3, Facts, MaxFaultsAssumption DEF OutsideRing, Tried, Lag
<1>4. ASSUME NEW f \in Frames, KRelease(f)
      PROVE  /\ UNCHANGED <<content, head, executed, built>>
             /\ \A g \in Frames : status'[g] = "valid" <=> status[g] = "valid"
             /\ Tried' = Tried /\ Lag' = Lag /\ faults' = faults
             /\ UNCHANGED <<pc, call, offset, cur>>
  BY <1>4, Facts DEF KRelease, Tried, Lag
<1> QED
  BY <1>1, <1>2, <1>3, <1>4, Facts

-----------------------------------------------------------------------------
(* The ring without skipped frames *)

\* What send() finds then: everything between its head and the caller.
LEMMA FoundAll ==
  ASSUME TxTypeOK, Once, NoSkip, built = 1 .. Tried
  PROVE  Found = Lag
<1>1. /\ Lag \in 0 .. FrameNr /\ Found \in 0 .. FrameNr
      /\ \A f \in Frames : status[f] = "valid" <=> Rel(f, head) < Lag
      /\ \A f \in Frames : Rel(f, head) < Found => status[f] = "valid"
      /\ head \in Frames /\ FrameNr \in Nat \ {0}
  BY FoundIs, Facts DEF NoSkip
<1>2. Found <= Lag
  <2> SUFFICES ASSUME Found > Lag PROVE FALSE
    BY <1>1
  <2>1. Lag \in 0 .. FrameNr - 1
    BY <1>1
  <2>2. Plus(head, Lag) \in Frames /\ Rel(Plus(head, Lag), head) = Lag
    BY <1>1, <2>1, RelIs
  <2> QED
    BY <1>1, <2>1, <2>2
<1>3. Lag <= Found
  <2> SUFFICES ASSUME Found < Lag PROVE FALSE
    BY <1>1
  <2>1. Found \in 0 .. FrameNr - 1 /\ Found < FrameNr /\ Found \in 0 .. FrameNr
    BY <1>1
  <2>2. /\ Ahead(head, Found) = Plus(head, Found)
        /\ Plus(head, Found) \in Frames /\ Rel(Plus(head, Found), head) = Found
    BY <1>1, <2>1, RelIs, AheadIs
  <2> QED
    BY <1>1, <2>1, <2>2, FoundIs
<1> QED
  BY <1>1, <1>2, <1>3

LEMMA NoSkipBuild == ASSUME TxTypeOK, Once, NoSkip, Build PROVE NoSkip'
<1> SUFFICES ASSUME built' = 1 .. Tried' PROVE NoSkip'
  BY DEF NoSkip
<1> DEFINE E == Len(executed)
<1>1. /\ Lag \in 0 .. FrameNr /\ Lag <= faults
      /\ cur = Plus(head, Lag)
      /\ \A f \in Frames : status[f] = "valid" <=> Rel(f, head) < Lag
      /\ \A f \in Frames : status[f] = "valid" => content[f] = E + Rel(f, head) + 1
      /\ \A i \in DOMAIN executed : executed[i] = i
  <2>1. /\ pc = "build" /\ built = 1 .. Tried /\ faults \in Nat /\ Lag \in Int
    BY BuildIs, Facts
  <2>2. /\ Lag \in 0 .. FrameNr /\ Lag <= faults
        /\ cur = Plus(head, Lag)
        /\ \A f \in Frames : status[f] = "valid" <=> Rel(f, head) < Lag
        /\ \A f \in Valid : content[f] = Len(executed) + Rel(f, head) + 1
        /\ \A i \in DOMAIN executed : executed[i] = i
    BY <2>1 DEF NoSkip
  <2> QED
    BY <2>2 DEF Valid
<1>2. /\ E \in Nat /\ call \in Int /\ faults \in Nat /\ head \in Frames /\ cur \in Frames
      /\ FrameNr \in Nat \ {0}
      /\ Lag = call - 1 - E /\ Lag' = call - E
  BY BuildIs, Facts DEF Lag, Tried
<1>3. /\ \A f \in Frames : Rel(f, head) \in 0 .. FrameNr - 1
      /\ \A f, g \in Frames : Rel(f, head) = Rel(g, head) => f = g
  <2>1. \A f \in Frames : Rel(f, head) \in 0 .. FrameNr - 1 /\ f = Plus(head, Rel(f, head))
    BY <1>2, RelIs
  <2>2. \A f, g \in Frames : Rel(f, head) = Rel(g, head) => f = g
    BY <2>1, Zenon
  <2> QED
    BY <2>1, <2>2
<1> HIDE DEF E
<1>4. Lag < FrameNr /\ Rel(cur, head) = Lag
  <2>1. Lag # FrameNr
    BY <1>1, <1>2, <1>3, BuildIs
  <2> QED
    BY <1>1, <1>2, <2>1, RelIs
<1>5. Lag' = Lag + 1 /\ Lag' \in 1 .. FrameNr /\ Lag' <= faults' + 1 /\ Lag' - 1 = Lag
  BY <1>1, <1>2, <1>4, BuildIs
<1>6. \A f \in Frames : status'[f] = "valid" <=> Rel(f, head) < Lag'
  <2>1. \A f \in Frames : Rel(f, head) < Lag' <=> Rel(f, head) < Lag \/ Rel(f, head) = Lag
    BY <1>1, <1>3, <1>5
  <2> QED
    BY <1>1, <1>2, <1>3, <1>4, <2>1, BuildIs
<1>7. \A f \in Frames : status'[f] = "valid" => content'[f] = E + Rel(f, head) + 1
  <2>1. call = E + Rel(cur, head) + 1
    BY <1>2, <1>4
  <2> QED
    BY <1>1, <2>1, BuildIs
<1>8. UNCHANGED <<executed, head, cur>> /\ pc' = "send" /\ E = Len(executed)
  BY BuildIs DEF E
<1>9. cur' = Plus(head', Lag' - 1) /\ Lag' \in 0 .. FrameNr /\ Lag' > 0
  BY <1>1, <1>5, <1>8
<1> QED
  BY <1>1, <1>5, <1>6, <1>7, <1>8, <1>9 DEF NoSkip, Valid

LEMMA NoSkipSend == ASSUME TxTypeOK, Once, NoSkip, Send PROVE NoSkip'
<1> SUFFICES ASSUME built' = 1 .. Tried' PROVE NoSkip'
  BY DEF NoSkip
<1> DEFINE E == Len(executed)
<1>1. /\ pc = "send" /\ pc' = "init" /\ UNCHANGED <<content, offset, cur, call, built, faults>>
      /\ head' = Plus(head, Found) /\ head' \in Frames /\ Len(Batch) = Found
      /\ Batch \in Seq(Calls) /\ executed \in Seq(Calls) /\ executed' = executed \o Batch
      /\ \A f \in Frames : status'[f] = "valid" <=>
                             status[f] = "valid" /\ Rel(f, head) >= Found
  BY SendIs DEF TxTypeOK
<1>2. Tried' = Tried /\ built = 1 .. Tried
  BY <1>1 DEF Tried
<1>3. /\ Lag \in 1 .. FrameNr /\ Found = Lag /\ cur = Plus(head, Lag - 1)
      /\ \A f \in Frames : status[f] = "valid" <=> Rel(f, head) < Lag
      /\ \A f \in Frames : status[f] = "valid" => content[f] = E + Rel(f, head) + 1
      /\ \A i \in DOMAIN executed : executed[i] = i
  BY <1>1, <1>2, FoundAll DEF NoSkip, Valid
<1>4. /\ E \in Nat /\ call \in Int /\ faults' \in Nat /\ head \in Frames /\ cur \in Frames
      /\ FrameNr \in Nat \ {0} /\ Lag = Tried - E /\ Tried \in Int
      /\ DOMAIN executed = 1 .. E /\ offset = Plus(cur, 1)
  BY <1>1, Facts DEF Lag
<1>5. /\ Len(executed') = E + Lag /\ DOMAIN executed' = 1 .. E + Lag
      /\ \A i \in 1 .. E + Lag : executed'[i] = IF i <= E THEN executed[i] ELSE Batch[i - E]
  <2>1. /\ executed' \in Seq(Calls) /\ Len(executed') = E + Lag
        /\ \A i \in 1 .. E + Lag :
             executed'[i] = IF i <= E THEN executed[i] ELSE Batch[i - E]
    <3>1. /\ executed' \in Seq(Calls) /\ Len(executed') = Len(executed) + Len(Batch)
          /\ \A i \in 1 .. Len(executed) + Len(Batch) : executed'[i] =
               IF i <= Len(executed) THEN executed[i] ELSE Batch[i - Len(executed)]
      BY <1>1, ConcatProperties
    <3> QED
      BY <1>1, <1>3, <3>1
  <2> QED
    BY <2>1, LenProperties
<1> HIDE DEF E
<1>6. \A i \in 1 .. Lag : Batch[i] = E + i
  <2> SUFFICES ASSUME NEW i \in 1 .. Lag PROVE Batch[i] = E + i
    OBVIOUS
  <2>1. PICK f \in Valid : Rel(f, head) = i - 1 /\ Batch[i] = content[f]
    BY <1>3, BatchFresh
  <2>2. Batch[i] = E + Rel(f, head) + 1 /\ i \in Nat
    BY <1>3, <2>1 DEF Valid
  <2>3. E + (i - 1) + 1 = E + i
    BY <1>4, <2>2
  <2> QED
    BY <2>1, <2>2, <2>3
<1>7. \A i \in DOMAIN executed' : executed'[i] = i
  <2> SUFFICES ASSUME NEW i \in 1 .. E + Lag PROVE executed'[i] = i
    BY <1>5
  <2>1. CASE i <= E
    BY <1>3, <1>4, <1>5, <2>1
  <2>2. CASE ~ (i <= E)
    <3>1. i - E \in 1 .. Lag /\ E + (i - E) = i
      BY <1>3, <1>4, <2>2
    <3> QED
      BY <1>5, <1>6, <2>2, <3>1
  <2> QED
    BY <2>1, <2>2
<1>8. Lag' = 0
  BY <1>2, <1>3, <1>4, <1>5 DEF Lag
<1>9. /\ \A f \in Frames : Rel(f, head) \in 0 .. FrameNr - 1 /\ Rel(f, head') \in 0 .. FrameNr - 1
      /\ Plus(head', 0) = head'
  BY <1>1, <1>4, RelIs
<1>10. \A f \in Frames : status'[f] # "valid" /\ ~ (Rel(f, head') < 0)
  BY <1>1, <1>3, <1>4, <1>9
<1>11. offset' = Plus(head', Lag')
  <2>1. Lag - 1 \in 0 .. FrameNr - 1 /\ Lag - 1 + 1 = Lag
    BY <1>3, <1>4
  <2>2. Plus(Plus(head, Lag - 1), 1) = Plus(head, Lag)
    BY <1>4, <2>1, RelIs
  <2> QED
    BY <1>1, <1>3, <1>4, <1>8, <1>9, <2>2
<1>12. Lag' \in 0 .. FrameNr /\ Lag' <= faults'
  BY <1>4, <1>8
<1>13. Valid' = {} /\ \A f \in Frames : status'[f] = "valid" <=> Rel(f, head') < Lag'
  BY <1>8, <1>10 DEF Valid
<1> QED
  BY <1>1, <1>7, <1>11, <1>12, <1>13 DEF NoSkip

LEMMA NoSkipStep ==
  ASSUME TxTypeOK, Once, NoSkip, Next \/ OutsideRing
  PROVE  NoSkip'
<1>1. CASE BuildFail
  BY <1>1, SkipIs DEF NoSkip
<1>2. CASE FrameInit \/ SendFail \/ OutsideRing \/ \E f \in Frames : KRelease(f)
  <2> SUFFICES ASSUME built' = 1 .. Tried' PROVE NoSkip'
    BY DEF NoSkip
  <2>1. built = 1 .. Tried
    BY <1>2, RestIs
  <2>2. Lag' \in 0 .. FrameNr /\ UNCHANGED <<content, head, executed>>
    BY <1>2, <2>1, RestIs DEF NoSkip
  <2>3. /\ \A f \in Frames : status'[f] = "valid" <=> Rel(f, head') < Lag'
        /\ \A f \in Valid' : content'[f] = Len(executed') + Rel(f, head') + 1
        /\ \A i \in DOMAIN executed' : executed'[i] = i
    BY <1>2, <2>1, <2>2, RestIs DEF NoSkip, Valid
  <2>4. /\ pc' = "send" => Lag' > 0 /\ Lag' <= faults' + 1
        /\ pc' # "send" => Lag' <= faults'
    <3>1. /\ pc = "send" => Lag > 0 /\ Lag <= faults + 1
          /\ pc # "send" => Lag <= faults
      BY <2>1 DEF NoSkip
    <3>2. Lag \in Int /\ faults \in Nat
      BY Facts
    <3> QED
      BY <1>2, <3>1, <3>2, RestIs
  <2>5. /\ pc' = "init" => offset' = Plus(head', Lag')
        /\ pc' = "build" => cur' = Plus(head', Lag')
        /\ pc' = "send" => cur' = Plus(head', Lag' - 1)
    <3>1. pc = "send" => offset = Plus(head, Lag)
      <4> SUFFICES ASSUME pc = "send" PROVE offset = Plus(head, Lag)
        OBVIOUS
      <4>1. cur = Plus(head, Lag - 1) /\ Lag \in 1 .. FrameNr
        BY <2>1 DEF NoSkip
      <4>2. Lag - 1 \in 0 .. FrameNr - 1 /\ Lag - 1 + 1 = Lag
        BY <4>1, FrameNrAssumption
      <4> QED
        BY <4>1, <4>2, RelIs, Facts
    <3>2. /\ pc = "init"  => offset = Plus(head, Lag)
          /\ pc = "build" => cur = Plus(head, Lag)
          /\ pc = "send"  => cur = Plus(head, Lag - 1)
      BY <2>1 DEF NoSkip
    <3>3. UNCHANGED <<head, Lag>>
      BY <1>2, RestIs
    <3>4. pc' = "send" => pc = "send" /\ cur' = cur
      BY <1>2, RestIs
    <3>5. pc' = "build" => (pc = "build" /\ cur' = cur) \/ (pc = "init" /\ cur' = offset)
      BY <1>2, RestIs
    <3>6. pc' = "init" => offset' = offset /\ pc \in {"init", "send"}
      BY <1>2, RestIs
    <3> QED
      BY <3>1, <3>2, <3>3, <3>4, <3>5, <3>6
  <2> QED
    BY <2>2, <2>3, <2>4, <2>5 DEF NoSkip
<1> QED
  BY <1>1, <1>2, NoSkipBuild, NoSkipSend DEF Next

-----------------------------------------------------------------------------
(* The ring after a failure *)

LEMMA UnfailedStep ==
  ASSUME TxTypeOK, Once, Unfailed, Next \/ OutsideRing
  PROVE  Unfailed'
<1>1. CASE BuildFail
  BY <1>1, SkipIs, Facts DEF Unfailed
<1>2. CASE Build
  BY <1>2, BuildIs DEF Unfailed
<1>3. CASE Send
  BY <1>3, SendIs DEF Unfailed, Tried
<1>4. CASE FrameInit \/ SendFail \/ OutsideRing \/ \E f \in Frames : KRelease(f)
  <2>1. faults' = 0 => faults = 0
    BY <1>4, RestIs, Facts
  <2> QED
    BY <1>4, <2>1, RestIs DEF Unfailed
<1> QED
  BY <1>1, <1>2, <1>3, <1>4 DEF Next

\* The first failure leaves nothing in the ring but what it was about.
LEMMA OneSkipBuildFail ==
  ASSUME TxTypeOK, Once, NoSkip, Unfailed, OneSkip, BuildFail
  PROVE  OneSkip'
<1> SUFFICES ASSUME faults' <= 1 PROVE OneSkip'
  BY DEF OneSkip
<1>1. faults = 0 /\ built = 1 .. Tried /\ pc = "build"
  BY SkipIs, Facts DEF Unfailed
<1>2. Lag = 0
  BY <1>1, Facts DEF NoSkip
<1>3. cur = head /\ \A f \in Frames : status[f] # "valid"
  BY <1>1, <1>2, RelIs, Facts DEF NoSkip
<1>4. Valid' = {} /\ pc' = "send" /\ cur' = head'
  BY <1>3, SkipIs DEF Valid
<1> QED
  BY <1>4 DEF OneSkip

LEMMA OneSkipBuild ==
  ASSUME TxTypeOK, Once, OneSkip, Build
  PROVE  OneSkip'
<1> SUFFICES ASSUME faults' <= 1, built' # 1 .. Tried' PROVE OneSkip'
  BY DEF OneSkip
<1>1. /\ pc = "build" /\ faults <= 1 /\ built # 1 .. Tried
      /\ head \in Frames /\ cur \in Frames
  BY BuildIs, Facts
<1>2. \A f \in Frames : status[f] = "valid" <=>
          f # head /\ (cur = head \/ Rel(f, head) < Rel(cur, head))
  BY <1>1 DEF OneSkip
<1>3. /\ pc' = "send" /\ UNCHANGED <<head, cur, call>>
      /\ \A f \in Frames : status'[f] = "valid" <=> status[f] = "valid" \/ f = cur
      /\ content'[cur] = call
  BY <1>1, BuildIs
<1>4. CASE cur = head
  <2>1. Valid' = Frames
    BY <1>2, <1>3, <1>4 DEF Valid
  <2> QED
    BY <1>3, <1>4, <2>1 DEF OneSkip
<1>5. CASE cur # head
  <2>1. \A f \in Frames : Rel(f, head) \in 0 .. FrameNr - 1 /\ f = Plus(head, Rel(f, head))
    BY <1>1, RelIs
  <2>2. \A f \in Frames : f = cur <=> Rel(f, head) = Rel(cur, head)
    BY <1>1, <2>1, Zenon
  <2>3. \A f \in Frames : Rel(f, head) <= Rel(cur, head) <=>
                            Rel(f, head) < Rel(cur, head) \/ Rel(f, head) = Rel(cur, head)
    BY <1>1, <2>1, FrameNrAssumption
  <2>4. \A f \in Frames : status'[f] = "valid" <=> f # head /\ Rel(f, head) <= Rel(cur, head)
    BY <1>2, <1>3, <1>5, <2>2, <2>3
  <2> QED
    BY <1>3, <1>5, <2>4 DEF OneSkip
<1> QED
  BY <1>4, <1>5

\* A send() that finds its frame empty consumes nothing; the one after the
\* caller has come round consumes the whole ring.
LEMMA OneSkipSend ==
  ASSUME TxTypeOK, Once, OneSkip, Send
  PROVE  OneSkip'
<1> SUFFICES ASSUME faults' <= 1, built' # 1 .. Tried' PROVE OneSkip'
  BY DEF OneSkip
<1>1. /\ pc = "send" /\ pc' = "init" /\ UNCHANGED <<offset, cur>>
      /\ faults <= 1 /\ built # 1 .. Tried
      /\ head' = Plus(head, Found)
      /\ \A f \in Frames : status'[f] = "valid" <=>
                             status[f] = "valid" /\ Rel(f, head) >= Found
  BY SendIs DEF Tried
<1>2. /\ head \in Frames /\ cur \in Frames /\ FrameNr \in Nat \ {0} /\ Found \in 0 .. FrameNr
      /\ offset = Plus(cur, 1)
      /\ \A f \in Frames : Rel(f, head) \in 0 .. FrameNr - 1
      /\ Rel(head, head) = 0 /\ Plus(head, 0) = head /\ Plus(head, FrameNr) = head
  BY <1>1, FoundIs, Facts, RelIs
<1>3. cur = Plus(head, Rel(cur, head)) /\ Plus(Plus(head, Rel(cur, head)), 1) = Plus(head, Rel(cur, head) + 1)
  BY <1>2, RelIs
<1>4. \/ Rel(cur, head) = FrameNr - 1 /\ offset = head
      \/ offset # head /\ Rel(offset, head) = Rel(cur, head) + 1
  <2>1. CASE Rel(cur, head) = FrameNr - 1
    BY <1>2, <1>3, <2>1
  <2>2. CASE Rel(cur, head) # FrameNr - 1
    <3>1. Rel(cur, head) + 1 \in 1 .. FrameNr - 1
      BY <1>2, <2>2
    <3>2. offset = Plus(head, Rel(cur, head) + 1) /\ Rel(offset, head) = Rel(cur, head) + 1
      BY <1>2, <1>3, <3>1, RelIs
    <3> QED
      BY <1>2, <3>1, <3>2
  <2> QED
    BY <2>1, <2>2
<1>5. status[head] # "valid" => Found = 0
  BY <1>2, FoundIs
<1>6. CASE /\ cur # head
           /\ \A f \in Frames : status[f] = "valid" <=>
                f # head /\ Rel(f, head) <= Rel(cur, head)
  <2>1. Found = 0 /\ head' = head
    BY <1>1, <1>2, <1>5, <1>6
  <2>2. \A f \in Frames : status'[f] = "valid" <=> status[f] = "valid"
    BY <1>1, <1>2, <2>1
  <2>3. \A f \in Frames : Rel(f, head) <= Rel(cur, head) <=>
                            (offset = head \/ Rel(f, head) < Rel(offset, head))
    BY <1>2, <1>4
  <2>4. \A f \in Frames : status'[f] = "valid" <=>
                f # head /\ (offset = head \/ Rel(f, head) < Rel(offset, head))
    BY <1>6, <2>2, <2>3
  <2> QED
    BY <1>1, <2>1, <2>4 DEF OneSkip
<1>7. CASE cur = head /\ (Valid = {} \/ Valid = Frames)
  <2>1. head' = head /\ \A f \in Frames : status'[f] # "valid"
    <3>1. CASE Valid = {}
      <4>1. \A f \in Frames : status[f] # "valid"
        BY <3>1 DEF Valid
      <4> QED
        BY <1>1, <1>2, <1>5, <4>1
    <3>2. CASE Valid = Frames
      <4>1. \A f \in Frames : status[f] = "valid"
        BY <3>2 DEF Valid
      <4>2. Found = FrameNr
        <5> SUFFICES ASSUME Found # FrameNr PROVE FALSE
          OBVIOUS
        <5>1. Found < FrameNr /\ Found \in 0 .. FrameNr - 1
          BY <1>2
        <5>2. Ahead(head, Found) \in Frames
          BY <1>2, <5>1, AheadIs
        <5> QED
          BY <4>1, <5>1, <5>2, FoundIs
      <4>3. \A f \in Frames : ~ (Rel(f, head) >= Found)
        BY <1>2, <4>2
      <4> QED
        BY <1>1, <1>2, <4>2, <4>3
    <3> QED
      BY <1>7, <3>1, <3>2
  <2>2. \A f \in Frames : f # head => ~ (offset = head \/ Rel(f, head) < Rel(offset, head))
    <3>1. CASE offset = head
      <4>1. FrameNr = 1
        BY <1>2, <1>4, <1>7, <3>1
      <4> QED
        BY <4>1, <1>2 DEF Frames
    <3>2. CASE offset # head
      <4>1. Rel(offset, head) = 1
        BY <1>2, <1>4, <1>7, <3>2
      <4>2. \A f \in Frames : f = Plus(head, Rel(f, head))
        BY <1>2, RelIs
      <4>3. \A f \in Frames : f # head => Rel(f, head) # 0
        BY <1>2, <4>2
      <4> QED
        BY <1>2, <3>2, <4>1, <4>3
    <3> QED
      BY <3>1, <3>2
  <2>3. \A f \in Frames : status'[f] = "valid" <=>
                f # head /\ (offset = head \/ Rel(f, head) < Rel(offset, head))
    BY <2>1, <2>2
  <2> QED
    BY <1>1, <2>1, <2>3 DEF OneSkip
<1> QED
  BY <1>1, <1>6, <1>7 DEF OneSkip

LEMMA OneSkipStep ==
  ASSUME TxTypeOK, Once, NoSkip, Unfailed, OneSkip, Next \/ OutsideRing
  PROVE  OneSkip'
<1>1. CASE FrameInit \/ SendFail \/ OutsideRing \/ \E f \in Frames : KRelease(f)
  <2> SUFFICES ASSUME faults' <= 1, built' # 1 .. Tried' PROVE OneSkip'
    BY DEF OneSkip
  <2>1. /\ faults \in Nat /\ faults' \in Nat /\ built # 1 .. Tried
        /\ faults # 0 /\ faults <= 1 /\ UNCHANGED <<head, content>>
        /\ \A f \in Frames : status'[f] = "valid" <=> status[f] = "valid"
    BY <1>1, RestIs, Facts DEF Unfailed
  <2>2. \/ pc = "init" /\ pc' = "build" /\ cur' = offset
        \/ UNCHANGED <<pc, call, offset, cur>>
    BY <1>1, <2>1, RestIs
  <2>3. Valid' = Valid
    BY <2>1 DEF Valid
  <2>4. CASE pc = "init" /\ pc' = "build" /\ cur' = offset
    BY <2>1, <2>4 DEF OneSkip
  <2>5. CASE UNCHANGED <<pc, call, offset, cur>>
    BY <2>1, <2>3, <2>5 DEF OneSkip
  <2> QED
    BY <2>2, <2>4, <2>5
<1> QED
  BY <1>1, OneSkipBuildFail, OneSkipBuild, OneSkipSend DEF Next

\* A frame is skipped, after one failure at most, with its old request in it
\* only where the kernel waits as well; and a request that was built is in the
\* frame of its call until send() has looked at it.
LEMMA AtHead ==
  ASSUME TxTypeOK, Once, NoSkip, OneSkip, faults <= 1, cur \in Valid
  PROVE  /\ pc = "build" => cur = head
         /\ pc = "send" /\ cur = head => content[cur] = call
<1>1. /\ cur \in Frames /\ status[cur] = "valid" /\ head \in Frames /\ FrameNr \in Nat \ {0}
      /\ Lag \in Int /\ Len(executed) \in Nat /\ call \in Int /\ faults \in Nat
      /\ \A f \in Frames : Rel(f, head) \in 0 .. FrameNr - 1 /\ f = Plus(head, Rel(f, head))
      /\ Plus(head, 0) = head /\ Rel(head, head) = 0
  BY Facts, RelIs DEF Valid
<1>2. CASE built = 1 .. Tried
  <2>1. pc = "build" => cur = head
    <3> SUFFICES ASSUME pc = "build" PROVE cur = head
      OBVIOUS
    <3>1. Lag \in 0 .. 1 /\ Rel(cur, head) < Lag
      BY <1>1, <1>2 DEF NoSkip
    <3>2. Rel(cur, head) = 0
      BY <1>1, <3>1
    <3> QED
      BY <1>1, <3>2
  <2>2. ASSUME pc = "send", cur = head PROVE content[cur] = call
    <3>1. /\ Lag \in 1 .. FrameNr /\ cur = Plus(head, Lag - 1) /\ Lag = call - Len(executed)
          /\ content[cur] = Len(executed) + Rel(cur, head) + 1
      BY <1>1, <1>2, <2>2, Facts DEF NoSkip, Lag
    <3>2. Lag - 1 \in 0 .. FrameNr - 1
      BY <3>1, <1>1
    <3>3. Rel(cur, head) = Lag - 1
      BY <1>1, <3>1, <3>2, RelIs
    <3> QED
      BY <1>1, <3>1, <3>3
  <2> QED
    BY <2>1, <2>2
<1>3. CASE built # 1 .. Tried
  <2>1. pc = "build" => cur = head
    <3>1. ~ (Rel(cur, head) < Rel(cur, head))
      BY <1>1
    <3> QED
      BY <1>1, <1>3, <3>1 DEF OneSkip
  <2>2. pc = "send" /\ cur = head => content[cur] = call
    BY <1>1, <1>3 DEF OneSkip
  <2> QED
    BY <2>1, <2>2
<1> QED
  BY <1>2, <1>3

LEMMA AgedStep ==
  ASSUME TxTypeOK, Once, NoSkip, OneSkip, Aged, Next \/ OutsideRing
  PROVE  Aged'
<1> SUFFICES ASSUME faults' < 3, NEW f \in Frames, status'[f] = "valid"
             PROVE  /\ pc' = "init" => content'[f] = call' + 1 - Gap(f, offset')
                    /\ pc' = "build" => content'[f] = call' - Gap(f, cur')
                    /\ pc' = "send" => \/ /\ content'[f] = call' - Gap(f, cur')
                                          /\ f = cur' => cur' = head'
                                       \/ content'[f] = call' /\ f = cur'
  BY DEF Aged, Valid
<1>1. /\ call \in Int /\ faults \in Nat /\ content[f] \in Int /\ cur \in Frames
      /\ offset \in Frames /\ FrameNr \in Nat \ {0}
      /\ (pc # "init" => offset = Plus(cur, 1))
      /\ Gap(f, cur) \in Int /\ Gap(f, offset) \in Int
      /\ f # cur => Gap(f, Plus(cur, 1)) = Gap(f, cur) + 1
      /\ Gap(cur, Plus(cur, 1)) = 1
  <2>1. /\ call \in Int /\ faults \in Nat /\ content[f] \in Int /\ cur \in Frames
        /\ offset \in Frames /\ FrameNr \in Nat \ {0}
        /\ (pc # "init" => offset = Plus(cur, 1))
    BY Facts
  <2>2. Gap(f, cur) \in 1 .. FrameNr /\ Gap(f, offset) \in 1 .. FrameNr
    BY <2>1, GapIs
  <2> QED
    BY <2>1, <2>2, GapIs
<1>2. ASSUME faults < 3, status[f] = "valid"
      PROVE  /\ pc = "init" => content[f] = call + 1 - Gap(f, offset)
             /\ pc = "build" => content[f] = call - Gap(f, cur)
             /\ pc = "send" => \/ /\ content[f] = call - Gap(f, cur)
                                  /\ f = cur => cur = head
                               \/ content[f] = call /\ f = cur
  BY <1>2 DEF Aged, Valid
<1>3. CASE Build
  BY <1>1, <1>2, <1>3, BuildIs
<1>4. CASE BuildFail
  <2>1. faults <= 1 /\ status[f] = "valid" /\ pc = "build"
    BY <1>1, <1>4, SkipIs
  <2>2. f = cur => cur = head
    BY <2>1, AtHead DEF Valid
  <2> QED
    BY <1>1, <1>2, <1>4, <2>1, <2>2, SkipIs
<1>5. CASE Send
  <2>1. /\ pc = "send" /\ pc' = "init" /\ UNCHANGED <<content, offset, cur, call, faults>>
        /\ status[f] = "valid" /\ Rel(f, head) >= Found
    BY <1>5, SendIs
  <2>2. f = cur => content[f] = call
    <3> SUFFICES ASSUME f = cur, cur = head PROVE FALSE
      BY <1>1, <1>2, <2>1
    <3>1. Rel(f, head) = 0 /\ Found \in 0 .. FrameNr /\ Ahead(head, 0) = head
      BY <1>1, FoundIs, RelIs, AheadIs
    <3>2. Found = 0
      BY <2>1, <3>1
    <3> QED
      BY <1>1, <2>1, <3>1, <3>2, FoundIs
  <2>3. content[f] = call + 1 - Gap(f, Plus(cur, 1))
    BY <1>1, <1>2, <2>1, <2>2
  <2> QED
    BY <1>1, <2>1, <2>3
<1>6. CASE FrameInit \/ SendFail \/ OutsideRing \/ \E g \in Frames : KRelease(g)
  <2>1. faults < 3 /\ status[f] = "valid" /\ UNCHANGED <<content, head>>
    BY <1>1, <1>6, RestIs
  <2>2. CASE pc = "init" /\ pc' = "build" /\ call' = call + 1 /\ cur' = offset
    BY <1>1, <1>2, <2>1, <2>2
  <2>3. CASE /\ pc = "send" /\ pc' = "init" /\ UNCHANGED <<call, offset, cur>>
             /\ faults' = faults + 1
    <3>1. f = cur => content[f] = call
      <4>1. faults <= 1
        BY <1>1, <2>3
      <4> QED
        BY <1>2, <2>1, <2>3, <4>1, AtHead DEF Valid
    <3>2. content[f] = call + 1 - Gap(f, Plus(cur, 1))
      BY <1>1, <1>2, <2>1, <2>3, <3>1
    <3> QED
      BY <1>1, <2>1, <2>3, <3>2
  <2>4. CASE UNCHANGED <<pc, call, offset, cur>>
    BY <1>2, <2>1, <2>4
  <2> QED
    BY <1>6, <2>2, <2>3, <2>4, RestIs
<1> QED
  BY <1>3, <1>4, <1>5, <1>6 DEF Next

-----------------------------------------------------------------------------
(* The ring *)

LEMMA RingInit == ASSUME Init PROVE RingInv
<1>1. TxTypeOK
  BY FrameNrAssumption, MaxCallsAssumption, MaxFaultsAssumption DEF Init, TxTypeOK, Frames
<1>2. /\ Valid = {} /\ Tried = 0 /\ executed = <<>> /\ built = {} /\ faults = 0
      /\ pc = "init" /\ offset = head /\ head \in Frames /\ Len(executed) = 0
      /\ DOMAIN executed = {} /\ Lag = 0
      /\ \A f \in Frames : status[f] # "valid"
  <2>1. /\ executed = <<>> /\ built = {} /\ faults = 0 /\ call = 0
        /\ pc = "init" /\ offset = head /\ head \in Frames
        /\ \A f \in Frames : status[f] # "valid"
    BY FrameNrAssumption DEF Init, Frames
  <2>2. Tried = 0 /\ Valid = {}
    BY <2>1 DEF Tried, Valid
  <2>3. Len(executed) = 0 /\ DOMAIN executed = {}
    BY <2>1
  <2>4. Lag = 0
    BY <2>2, <2>3 DEF Lag
  <2> QED
    BY <2>1, <2>2, <2>3, <2>4
<1>3. Once
  BY <1>2 DEF Once, AtMostOnce, NoOverwrite, Executed, Valid
<1>4. NoSkip
  <2>1. Plus(head, 0) = head /\ \A f \in Frames : ~ (Rel(f, head) < 0)
    <3>1. \A f \in Frames : Rel(f, head) \in 0 .. FrameNr - 1
      BY <1>2, RelIs
    <3> QED
      BY <1>2, <3>1, RelIs, FrameNrAssumption
  <2> QED
    BY <1>2, <2>1, FrameNrAssumption DEF NoSkip
<1>5. Unfailed /\ OneSkip /\ Aged
  <2>1. 1 .. Tried = {}
    BY <1>2
  <2> QED
    BY <1>2, <2>1 DEF Unfailed, OneSkip, Aged
<1> QED
  BY <1>1, <1>3, <1>4, <1>5 DEF RingInv

LEMMA RingStep == ASSUME RingInv, [ExecNext]_execVars PROVE RingInv'
<1>1. Next \/ OutsideRing
  BY ExecIsRing DEF RingInv
<1> QED
  BY <1>1, TxTypeStep, OnceStep, NoSkipStep, UnfailedStep, OneSkipStep, AgedStep DEF RingInv

\* What the callers rely on holds of the ring under every call.
THEOREM RingInvariance == ExecSpec => []RingInv
<1>1. ExecInit => RingInv
  BY RingInit DEF ExecInit
<1> QED
  BY <1>1, RingStep, PTL DEF ExecSpec

\* No request is executed twice: the caller takes frames in turn without
\* looking at what became of them (nl_frame_init), yet nothing is built over.
THEOREM ExecutedOnce == ExecSpec => []AtMostOnce
<1>1. RingInv => AtMostOnce
  BY DEF RingInv, Once
<1> QED
  BY <1>1, RingInvariance, PTL

\* No request is lost: whatever was marked VALID is executed or still there.
THEOREM NothingBuiltOver == ExecSpec => []NoOverwrite
<1>1. RingInv => NoOverwrite
  BY DEF RingInv, Once
<1> QED
  BY <1>1, RingInvariance, PTL

\* A request left behind is executed within one round, whatever the size of the
\* ring, as long as no more than two system calls have failed.
THEOREM ExecutedInTime == ExecSpec => []Timely
<1>1. ASSUME RingInv PROVE Timely
  <2> SUFFICES ASSUME pc = "init"
               PROVE  /\ faults < 3 =>
                           \A f \in Frames : status[f] = "valid" => call - content[f] < FrameNr
                      /\ faults = 0 => executed = [i \in 1 .. call |-> i]
    BY DEF Timely
  <2>1. TxTypeOK /\ Once /\ NoSkip /\ Unfailed /\ Aged
    BY <1>1 DEF RingInv
  <2>2. /\ call \in Int /\ FrameNr \in Nat \ {0} /\ offset \in Frames /\ faults \in Nat
        /\ Len(executed) \in Nat /\ Tried = call /\ executed \in Seq(Calls)
        /\ DOMAIN executed = 1 .. Len(executed)
    BY <2>1, Facts DEF TxTypeOK
  <2>3. ASSUME faults < 3, NEW f \in Frames, status[f] = "valid"
        PROVE  call - content[f] < FrameNr
    <3>1. content[f] = call + 1 - Gap(f, offset) /\ Gap(f, offset) \in 1 .. FrameNr
      BY <2>1, <2>2, <2>3, GapIs DEF Aged, Valid
    <3> QED
      BY <2>2, <3>1
  <2>4. ASSUME faults = 0 PROVE executed = [i \in 1 .. call |-> i]
    <3>1. /\ Lag = 0 /\ \A i \in DOMAIN executed : executed[i] = i
      BY <2>1, <2>2, <2>4 DEF NoSkip, Unfailed
    <3>2. Len(executed) = call
      <4>1. call - Len(executed) = 0
        BY <2>2, <3>1 DEF Lag
      <4>2. call \in Int /\ Len(executed) \in Int
        BY <2>2
      <4> QED
        BY <4>1, <4>2
    <3> QED
      BY <2>2, <3>1, <3>2
  <2> QED
    BY <2>3, <2>4
<1> QED
  BY <1>1, RingInvariance, PTL

-----------------------------------------------------------------------------
(* The answers *)

\* The queue of answers holds requests that were executed, and so built.
LEMMA QueueStep ==
  ASSUME TxTypeOK, Once, CallTypeOK, ExecSend
  PROVE  rxq' \in Seq(Executed')
<1>1. /\ Batch \in Seq(Calls) /\ executed \in Seq(Calls) /\ executed' = executed \o Batch
      /\ rxq' = rxq \o SubSeq(executed', Len(executed) + 1, Len(executed'))
      /\ rxq \in Seq(Executed)
  BY SendIs DEF ExecSend, TxTypeOK, CallTypeOK
<1>2. /\ executed' \in Seq(Calls)
      /\ Len(executed) \in Nat /\ Len(executed') \in Nat /\ Len(executed') >= Len(executed)
      /\ DOMAIN executed = 1 .. Len(executed) /\ DOMAIN executed' = 1 .. Len(executed')
      /\ \A i \in 1 .. Len(executed) : executed'[i] = executed[i]
  <2>1. /\ executed' \in Seq(Calls) /\ Len(executed') = Len(executed) + Len(Batch)
        /\ Len(executed) \in Nat /\ Len(Batch) \in Nat
        /\ \A i \in 1 .. Len(executed) + Len(Batch) : executed'[i] =
             IF i <= Len(executed) THEN executed[i] ELSE Batch[i - Len(executed)]
    BY <1>1, ConcatProperties, LenProperties
  <2>2. \A i \in 1 .. Len(executed) : i \in 1 .. Len(executed) + Len(Batch) /\ i <= Len(executed)
    BY <2>1
  <2> QED
    BY <1>1, <2>1, <2>2, LenProperties
<1>3. Executed \subseteq Executed'
  <2>1. \A i \in 1 .. Len(executed) : i \in 1 .. Len(executed')
    BY <1>2
  <2> QED
    BY <1>2, <2>1 DEF Executed
<1>4. executed' \in Seq(Executed')
  <2>1. \A i \in 1 .. Len(executed') : executed'[i] \in Executed'
    BY <1>2 DEF Executed
  <2> QED
    BY <1>2, <2>1
<1>5. SubSeq(executed', Len(executed) + 1, Len(executed')) \in Seq(Executed')
  BY <1>2, <1>4, SubSeqProperties
<1>6. rxq \in Seq(Executed')
  BY <1>1, <1>3
<1> QED
  BY <1>1, <1>5, <1>6, ConcatProperties

\* The steps of a call on its own variables keep the counts and the types.
LEMMA CallTypeStep ==
  ASSUME RingInv, CallTypeOK, [ExecNext]_execVars
  PROVE  CallTypeOK'
<1>1. /\ TxTypeOK /\ Once /\ call \in 0 .. MaxCalls /\ MaxCalls \in Nat
      /\ pc \in {"init", "build", "send"} /\ (pc # "init" => call \in Calls)
      /\ Calls = 1 .. MaxCalls
  BY MaxCallsAssumption DEF RingInv, TxTypeOK, Calls
<1>2. /\ seq = IF pc = "build" THEN call - 1 ELSE call
      /\ number \in [Calls -> Nat] /\ \A c \in built : number[c] = c
      /\ rxq \in Seq(Executed) /\ waiting \in BOOLEAN
      /\ waiting => pc = "init" /\ call \in Calls
      /\ result \in [Calls -> {"none", "zero", "fail", "done"}]
  BY DEF CallTypeOK
<1>3. CASE ExecStart
  <2>1. /\ pc = "init" /\ pc' = "build" /\ call' = call + 1 /\ ~ waiting
        /\ UNCHANGED <<seq, number, rxq, waiting, result, built, executed>>
    BY <1>3 DEF ExecStart, FrameInit, callVars
  <2>2. seq' = call' - 1 /\ Executed' = Executed
    BY <1>1, <1>2, <2>1 DEF Executed
  <2> QED
    BY <1>2, <2>1, <2>2 DEF CallTypeOK
<1>4. CASE ExecBuild
  <2>1. /\ pc = "build" /\ pc' = "send" /\ call' = call /\ call \in Calls
        /\ built' = built \cup {call} /\ executed' = executed /\ seq' = seq + 1
        /\ number' = [number EXCEPT ![call] = seq']
        /\ UNCHANGED <<rxq, waiting, result>>
    BY <1>1, <1>4 DEF ExecBuild, Build, BuildIf
  <2>2. seq' = call /\ seq' \in Nat /\ Executed' = Executed
    BY <1>1, <1>2, <2>1 DEF Executed
  <2>3. built \subseteq Calls
    BY <1>1 DEF Once, Tried
  <2>4. number' \in [Calls -> Nat] /\ \A c \in built' : number'[c] = c
    BY <1>2, <2>1, <2>2, <2>3
  <2> QED
    BY <1>2, <2>1, <2>2, <2>4 DEF CallTypeOK
<1>5. CASE ExecBuildFail
  <2>1. /\ pc = "build" /\ pc' = "send" /\ seq' = seq + 1
        /\ UNCHANGED <<call, built, executed, number, rxq, waiting, result>>
    BY <1>5 DEF ExecBuildFail, SkipCall, BuildFail, SkipFrame
  <2>2. seq' = call' /\ Executed' = Executed
    BY <1>1, <1>2, <2>1 DEF Executed
  <2> QED
    BY <1>2, <2>1, <2>2 DEF CallTypeOK
<1>6. CASE ExecSend
  <2>1. /\ pc = "send" /\ pc' = "init" /\ call \in Calls
        /\ UNCHANGED <<call, built, seq, number>>
        /\ waiting' = (outcome'[call] = "sent")
        /\ result' = [result EXCEPT ![call] = IF waiting' THEN @ ELSE "zero"]
    BY <1>1, <1>6, SendIs DEF ExecSend
  <2>2. waiting' \in BOOLEAN /\ result' \in [Calls -> {"none", "zero", "fail", "done"}]
    BY <1>2, <2>1
  <2>3. rxq' \in Seq(Executed')
    BY <1>1, <1>6, QueueStep
  <2> QED
    BY <1>2, <2>1, <2>2, <2>3 DEF CallTypeOK
<1>7. CASE ExecSendFail
  <2>1. /\ pc = "send" /\ pc' = "init" /\ call \in Calls
        /\ UNCHANGED <<call, built, executed, seq, number, rxq, waiting>>
        /\ result' = [result EXCEPT ![call] = "fail"]
    BY <1>1, <1>7 DEF ExecSendFail, SendFail, Return
  <2>2. Executed' = Executed /\ result' \in [Calls -> {"none", "zero", "fail", "done"}]
    BY <1>2, <2>1 DEF Executed
  <2> QED
    BY <1>2, <2>1, <2>2 DEF CallTypeOK
<1>8. CASE Answer
  <2>1. /\ waiting /\ rxq # <<>> /\ rxq' = Tail(rxq)
        /\ UNCHANGED <<pc, call, built, executed, seq, number>>
        /\ waiting' = (number[Head(rxq)] < seq)
        /\ result' = [result EXCEPT ![call] =
                        IF number[Head(rxq)] < seq THEN @ ELSE "done"]
    BY <1>8 DEF Answer, AnswerUnless, vars
  <2>2. Executed' = Executed /\ result' \in [Calls -> {"none", "zero", "fail", "done"}]
    BY <1>2, <2>1 DEF Executed
  <2>3. rxq' \in Seq(Executed')
    BY <1>2, <2>1, <2>2, HeadTailProperties
  <2> QED
    BY <1>2, <2>1, <2>2, <2>3 DEF CallTypeOK
<1>9. CASE AnswerFail
  <2>1. /\ waiting /\ UNCHANGED <<pc, call, built, executed, seq, number, rxq>>
        /\ waiting' = FALSE /\ result' = [result EXCEPT ![call] = "fail"]
    BY <1>9 DEF AnswerFail
  <2>2. Executed' = Executed /\ result' \in [Calls -> {"none", "zero", "fail", "done"}]
    BY <1>2, <2>1 DEF Executed
  <2> QED
    BY <1>2, <2>1, <2>2 DEF CallTypeOK
<1>10. CASE ExecRelease \/ UNCHANGED execVars
  <2>1. UNCHANGED <<pc, call, built, executed, seq, number, rxq, waiting, result>>
    BY <1>10 DEF ExecRelease, KRelease, callVars, execVars, vars
  <2>2. Executed' = Executed
    BY <2>1 DEF Executed
  <2> QED
    BY <1>2, <2>1, <2>2 DEF CallTypeOK
<1> QED
  BY <1>3, <1>4, <1>5, <1>6, <1>7, <1>8, <1>9, <1>10 DEF ExecNext

\* An answer that is not older than the call is its own.
LEMMA AnswerIs ==
  ASSUME RingInv, CallTypeOK, rxq # <<>>, waiting, ~ (number[Head(rxq)] < seq)
  PROVE  Head(rxq) = call /\ call \in Executed
<1>1. rxq \in Seq(Executed) /\ seq = call /\ call \in Calls /\ \A c \in built : number[c] = c
  BY DEF CallTypeOK
<1>2. Head(rxq) \in Executed
  BY <1>1, HeadTailProperties
<1>3. Executed \subseteq built /\ built \subseteq 1 .. call
  <2>1. Tried = call
    BY DEF CallTypeOK, Tried
  <2> QED
    BY <2>1, NoOverwriteIs DEF RingInv, Once
<1>4. number[Head(rxq)] = Head(rxq) /\ Head(rxq) \in 1 .. call
  BY <1>1, <1>2, <1>3
<1>5. call \in Nat
  BY <1>1, MaxCallsAssumption DEF Calls
<1> QED
  BY <1>1, <1>2, <1>4, <1>5

\* What a call returns stays so, and is as the callers take it.
LEMMA SettledStep ==
  ASSUME RingInv, CallTypeOK, Settled, [ExecNext]_execVars
  PROVE  Settled'
<1>1. /\ TxTypeOK /\ Once /\ NoSkip /\ call \in 0 .. MaxCalls /\ MaxCalls \in Nat
      /\ pc \in {"init", "build", "send"} /\ (pc # "init" => call \in Calls)
      /\ Calls = 1 .. MaxCalls
  BY MaxCallsAssumption DEF RingInv, TxTypeOK, Calls
<1>2. /\ waiting \in BOOLEAN /\ (waiting => pc = "init" /\ call \in Calls)
      /\ result \in [Calls -> {"none", "zero", "fail", "done"}]
  BY DEF CallTypeOK
<1>3. /\ \A c \in Calls : c > call => result[c] = "none"
      /\ call \in Calls /\ ~ Returned => result[call] = "none"
      /\ Returned /\ call > 0 /\ result[call] = "done" => call \in Executed /\ parsed = call
      /\ built = 1 .. Tried => \A c \in 1 .. call : result[c] # "zero"
  BY DEF Settled, OwnAnswer
<1> DEFINE Aim ==
      /\ \A c \in Calls : c > call' => result'[c] = "none"
      /\ ~ Returned' => \A c \in Calls : c = call' => result'[c] = "none"
      /\ Returned' /\ call' > 0 /\ result'[call'] = "done" =>
           call' \in Executed' /\ parsed' = call'
      /\ built' = 1 .. Tried' => \A c \in 1 .. call' : result'[c] # "zero"
<1>4. Aim => Settled'
  BY DEF Settled, OwnAnswer
<1>5. CASE ExecStart
  <2>1. /\ pc = "init" /\ pc' = "build" /\ call' = call + 1 /\ ~ waiting
        /\ UNCHANGED <<waiting, result, built, parsed>> /\ call < MaxCalls
    BY <1>5 DEF ExecStart, FrameInit, callVars
  <2>2. ~ Returned' /\ Tried' = Tried /\ call' \in Calls
    BY <1>1, <2>1 DEF Returned, Tried
  <2>3. \A c \in Calls : c > call' \/ c = call' => c > call
    BY <1>1, <2>1
  <2>4. \A c \in 1 .. call' : c \in 1 .. call \/ (c = call' /\ c \in Calls)
    BY <1>1, <2>1, <2>2
  <2>5. Aim
    BY <1>3, <2>1, <2>2, <2>3, <2>4
  <2> QED
    BY <1>4, <2>5
<1>6. CASE ExecBuild \/ ExecBuildFail
  <2>1. /\ pc = "build" /\ pc' = "send" /\ call' = call /\ call \in Calls
        /\ UNCHANGED <<waiting, result, parsed>>
    BY <1>1, <1>6 DEF ExecBuild, Build, BuildIf, ExecBuildFail, SkipCall, BuildFail, SkipFrame
  <2>2. ~ Returned' /\ ~ Returned
    BY <2>1 DEF Returned
  <2>3. built' = 1 .. Tried' => built = 1 .. Tried
    BY <1>1, <1>6, BuildIs, SkipIs DEF ExecBuild, ExecBuildFail, SkipCall
  <2>4. Aim
    BY <1>3, <2>1, <2>2, <2>3
  <2> QED
    BY <1>4, <2>4
<1>7. CASE ExecSend
  <2>1. /\ pc = "send" /\ pc' = "init" /\ call \in Calls
        /\ UNCHANGED <<call, built, parsed>> /\ Tried' = Tried
        /\ waiting' = (outcome'[call] = "sent")
        /\ result' = [result EXCEPT ![call] = IF waiting' THEN @ ELSE "zero"]
        /\ outcome' = [outcome EXCEPT ![call] = IF Found = 0 THEN "empty" ELSE "sent"]
    BY <1>1, <1>7, SendIs DEF ExecSend, Tried
  <2>2. ~ Returned /\ result[call] = "none" /\ outcome \in [Calls -> {"none", "empty", "sent", "fail"}]
    BY <1>1, <1>3, <2>1 DEF Returned, TxTypeOK
  <2>3. waiting' <=> Found # 0
    BY <2>1, <2>2
  <2>4. built = 1 .. Tried => waiting'
    <3>1. built = 1 .. Tried => Found > 0
      <4>1. built = 1 .. Tried => Found = Lag /\ Lag > 0
        BY <1>1, <2>1, FoundAll DEF NoSkip
      <4> QED
        BY <4>1
    <3> QED
      BY <2>3, <3>1
  <2>5. result'[call] = IF waiting' THEN "none" ELSE "zero"
    BY <1>2, <2>1, <2>2
  <2>6. \A c \in Calls : c # call => result'[c] = result[c]
    BY <1>2, <2>1
  <2>7. (\A c \in Calls : c > call => c # call) /\ 1 .. call \subseteq Calls
    BY <1>1
  <2>8. ~ Returned' <=> waiting'
    BY <2>1 DEF Returned
  <2>9. Aim
    <3>1. built' = 1 .. Tried' => \A c \in 1 .. call' : result'[c] # "zero"
      BY <1>3, <2>1, <2>4, <2>5, <2>6, <2>7
    <3> QED
      BY <1>3, <2>1, <2>5, <2>6, <2>7, <2>8, <3>1
  <2> QED
    BY <1>4, <2>9
<1>8. CASE ExecSendFail \/ AnswerFail
  <2>1. /\ call \in Calls /\ UNCHANGED <<call, built, parsed>> /\ Tried' = Tried
        /\ result' = [result EXCEPT ![call] = "fail"] /\ Returned'
    BY <1>1, <1>2, <1>8 DEF ExecSendFail, SendFail, Return, AnswerFail, Tried, Returned
  <2>2. \A c \in Calls : result'[c] = IF c = call THEN "fail" ELSE result[c]
    BY <1>2, <2>1
  <2>3. (\A c \in Calls : c > call => c # call) /\ 1 .. call \subseteq Calls
    BY <1>1
  <2>4. Aim
    BY <1>3, <2>1, <2>2, <2>3
  <2> QED
    BY <1>4, <2>4
<1>9. CASE Answer
  <2>1. /\ waiting /\ rxq # <<>> /\ parsed' = Head(rxq) /\ call \in Calls /\ pc = "init"
        /\ UNCHANGED <<pc, call, built, executed>> /\ Tried' = Tried
        /\ waiting' = (number[Head(rxq)] < seq)
        /\ result' = [result EXCEPT ![call] =
                        IF number[Head(rxq)] < seq THEN @ ELSE "done"]
    BY <1>2, <1>9 DEF Answer, AnswerUnless, vars, Tried
  <2>2. \A c \in Calls : result'[c] =
          IF c = call /\ ~ (number[Head(rxq)] < seq) THEN "done" ELSE result[c]
    BY <1>2, <2>1
  <2>3. (\A c \in Calls : c > call => c # call) /\ 1 .. call \subseteq Calls
    BY <1>1
  <2>4. (~ Returned' <=> number[Head(rxq)] < seq) /\ ~ Returned
    BY <2>1 DEF Returned
  <2>5. Returned' => parsed' = call /\ call \in Executed'
    BY <2>1, <2>4, AnswerIs DEF Executed
  <2>6. Aim
    BY <1>3, <2>1, <2>2, <2>3, <2>4, <2>5
  <2> QED
    BY <1>4, <2>6
<1>10. CASE ExecRelease \/ UNCHANGED execVars
  <2>1. UNCHANGED <<pc, call, built, executed, waiting, result, parsed>>
    BY <1>10 DEF ExecRelease, KRelease, callVars, execVars, vars
  <2>2. Executed' = Executed /\ Tried' = Tried /\ Returned' = Returned
    BY <2>1 DEF Executed, Tried, Returned
  <2>3. Aim
    BY <1>3, <2>1, <2>2
  <2> QED
    BY <1>4, <2>3
<1> QED
  BY <1>5, <1>6, <1>7, <1>8, <1>9, <1>10 DEF ExecNext

\* What every call relies on holds always.
THEOREM ExecInvariance == ExecSpec => []ExecInv
<1>1. ASSUME ExecInit PROVE ExecInv
  <2>1. RingInv
    BY <1>1, RingInit DEF ExecInit
  <2>2. /\ call = 0 /\ pc = "init" /\ seq = 0 /\ built = {} /\ rxq = <<>> /\ waiting = FALSE
        /\ number = [c \in Calls |-> 0] /\ result = [c \in Calls |-> "none"]
    BY <1>1 DEF ExecInit, Init
  <2>3. CallTypeOK
    <3>1. number \in [Calls -> Nat] /\ result \in [Calls -> {"none", "zero", "fail", "done"}]
      BY <2>2
    <3>2. rxq \in Seq(Executed)
      BY <2>2, EmptySeq
    <3>3. seq = IF pc = "build" THEN call - 1 ELSE call
      BY <2>2
    <3> QED
      BY <2>2, <3>1, <3>2, <3>3 DEF CallTypeOK
  <2>4. Settled
    <3>1. OwnAnswer /\ 1 .. call = {}
      BY <2>2 DEF OwnAnswer
    <3> QED
      BY <2>2, <3>1 DEF Settled
  <2> QED
    BY <2>1, <2>3, <2>4 DEF ExecInv
<1>2. ExecInv /\ [ExecNext]_execVars => ExecInv'
  BY RingStep, CallTypeStep, SettledStep DEF ExecInv
<1> QED
  BY <1>1, <1>2, PTL DEF ExecSpec

\* A call that returns from nl_dispatch with success was executed, and its
\* caller reads its own answer, however many calls failed or were skipped.
THEOREM AnswerIsOwn == ExecSpec => []OwnAnswer
<1>1. ExecInv => OwnAnswer
  BY DEF ExecInv, Settled
<1> QED
  BY <1>1, ExecInvariance, PTL

\* Only a skipped frame makes a call succeed that sent nothing.
THEOREM SuccessIsReal == ExecSpec => []RealSuccess
<1>1. ExecInv => RealSuccess
  BY DEF ExecInv, Settled, RealSuccess, Returned, Tried
<1> QED
  BY <1>1, ExecInvariance, PTL
=============================================================================

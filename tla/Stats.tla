------------------------------- MODULE Stats --------------------------------
(***************************************************************************)
(* hub's statistics (option -t): nl.c counts what goes through a socket,   *)
(* and every interval the SIGALRM handler of hub.c (timer.c) prints the    *)
(* difference to what it saw last, divided by the time since.  The signal  *)
(* comes between any two steps of the loop and wakes its poll(), which is  *)
(* not restarted.                                                          *)
(*                                                                         *)
(* rx counts on the dp socket, tx on the packet socket.  The wall clock of *)
(* gettimeofday may be set, forward or back, and is external.              *)
(***************************************************************************)
EXTENDS Integers, Sequences

CONSTANTS Wrap,         \* the counters are unsigned longs: they count modulo Wrap
          Sizes,        \* what recv() and send() return: 0 and more bytes
          MaxMessages,  \* bound: messages
          MaxPolls,     \* bound: calls of nl_poll
          MaxTicks,     \* bound: signals
          Shifts,       \* by how much the clock is set
          MaxShifts     \* bound: settings of the clock

Directions == {"rx", "tx"}
Counters   == {"polls", "packets", "bytes"}

ASSUME CountersAssumption == Wrap \in Nat \ {0} /\ Sizes \subseteq Nat /\ Shifts \subseteq Int
ASSUME BoundsAssumption == \A n \in {MaxMessages, MaxPolls, MaxTicks, MaxShifts} : n \in Nat

VARIABLES stats,        \* rx_stats and tx_stats of the two sockets
          prev,         \* the handler's static rx_stats and tx_stats
          last,         \* the handler's static last
          clock,        \* the wall clock
          pc,           \* the loop: "run", "poll", "woken", "count", "bytes"
          dir, size,    \* the socket in hand, and the bytes still to count
          sent,         \* history: the bytes in all with each message counted, or
                        \* being counted, by socket
          polled,       \* history: calls of nl_poll, by socket
          total,        \* history: the sum of the deltas printed, by counter
          elapsed,      \* history: the time that really passed since the last report
          reports,      \* history: reports so far
          wrong,        \* history: reports but the first with another interval
          shifts,       \* history: settings of the clock
          ticks

loopVars    == <<stats, pc, dir, size, sent, polled>>
handlerVars == <<prev, last, total, elapsed, reports, wrong, ticks>>
vars == <<loopVars, handlerVars, clock, shifts>>

Zero == [c \in Counters |-> 0]

\* The bytes of the first n messages, of such a history.
BytesAfter(s, n) == IF n > 0 THEN s[n] ELSE 0

\* The statics are cleared, and the clock shows the time since 1970: long.
Init ==
  /\ stats   = [d \in Directions |-> Zero]
  /\ prev    = [d \in Directions |-> Zero]
  /\ last    = 0
  /\ clock   = 100
  /\ pc      = "run"
  /\ dir     = "rx"
  /\ size    = 0
  /\ sent    = [d \in Directions |-> <<>>]
  /\ polled  = [d \in Directions |-> 0]
  /\ total   = [d \in Directions |-> Zero]
  /\ elapsed = 0
  /\ reports = 0
  /\ wrong   = 0
  /\ shifts  = 0
  /\ ticks   = 0

-----------------------------------------------------------------------------
(* The loop *)

Delta(d, c) == (stats[d][c] - prev[d][c]) % Wrap

\* Between two reports no counter goes all the way round.
CountUp(d, c, n) == /\ Delta(d, c) + n < Wrap
                    /\ stats' = [stats EXCEPT ![d][c] = (@ + n) % Wrap]

\* nl_poll counts the call, not the times poll() is interrupted.
Poll(d) ==
  /\ pc = "run"
  /\ polled["rx"] + polled["tx"] < MaxPolls
  /\ CountUp(d, "polls", 1)
  /\ polled' = [polled EXCEPT ![d] = @ + 1]
  /\ dir'    = d
  /\ pc'     = "poll"
  /\ UNCHANGED <<size, sent, handlerVars, clock, shifts>>

Again(counted) ==
  /\ pc = "woken"
  /\ pc' = "poll"
  /\ counted
  /\ UNCHANGED <<dir, size, sent, polled, handlerVars, clock, shifts>>

PollAgainCounts == Again(CountUp(dir, "polls", 1))        \* mutant of PollAgain
PollAgain == Again(UNCHANGED stats)

PollReturns ==
  /\ pc = "poll"
  /\ pc' = "run"
  /\ UNCHANGED <<stats, dir, size, sent, polled, handlerVars, clock, shifts>>

\* nl_recv and nl_send, once recv() or send() has returned, or a frame is found
\* VALID: first the packet, then its bytes.
Count(d) ==
  /\ pc = "run"
  /\ Len(sent["rx"]) + Len(sent["tx"]) < MaxMessages
  /\ CountUp(d, "packets", 1)
  /\ \E n \in Sizes :
       /\ size' = n
       /\ sent' = [sent EXCEPT ![d] = Append(@, BytesAfter(@, Len(@)) + n)]
  /\ dir' = d
  /\ pc'  = "bytes"
  /\ UNCHANGED <<polled, handlerVars, clock, shifts>>

CountBytes ==
  /\ pc = "bytes"
  /\ CountUp(dir, "bytes", size)
  /\ size' = 0
  /\ pc'   = "run"
  /\ UNCHANGED <<dir, sent, polled, handlerVars, clock, shifts>>

-----------------------------------------------------------------------------
(* The handler *)

\* nl_stats_delta, for both sockets, and the line that is printed.
Report ==
  /\ total' = [d \in Directions |-> [c \in Counters |-> total[d][c] + Delta(d, c)]]
  /\ prev'  = stats

\* timer_handler, after a while since the last signal: with a clock that does
\* not show a later time it returns at once.
Tick(remembers) ==
  /\ ticks < MaxTicks
  /\ ticks' = ticks + 1
  /\ \E while \in 0 .. 1 :
       LET now      == clock + while
           interval == now - last
       IN  /\ clock' = now
           /\ last'  = IF remembers THEN now ELSE last
           /\ \/ /\ interval <= 0
                 /\ elapsed' = elapsed + while
                 /\ UNCHANGED <<prev, total, reports, wrong>>
              \/ /\ interval > 0
                 /\ Report
                 /\ elapsed' = 0
                 /\ reports' = reports + 1
                 /\ wrong'   = IF reports > 0 /\ interval # elapsed + while
                               THEN wrong + 1 ELSE wrong
  /\ pc' = IF pc = "poll" THEN "woken" ELSE pc
  /\ UNCHANGED <<stats, dir, size, sent, polled, shifts>>

TimerHandlerLast == Tick(last = 0)                  \* mutant of TimerHandler
TimerHandler == Tick(TRUE)

\* The clock is set.
SetClock ==
  /\ shifts < MaxShifts
  /\ shifts' = shifts + 1
  /\ \E s \in Shifts : clock' = clock + s
  /\ UNCHANGED <<loopVars, handlerVars>>

Next == \/ \E d \in Directions : Poll(d) \/ Count(d)
        \/ PollAgain \/ PollReturns \/ CountBytes
        \/ TimerHandler \/ SetClock

Spec == Init /\ [][Next]_vars

-----------------------------------------------------------------------------
(* Properties *)

\* What was printed and what the next report would add is just what happened:
\* nothing is left out or counted twice, though the counters go round and the
\* signal finds them between two steps. A report is torn by one message at most,
\* whose bytes the next one has.
ReportsAdd == \A d \in Directions :
  LET reached(c) == total[d][c] + Delta(d, c)
      inHand == IF pc = "bytes" /\ dir = d THEN size ELSE 0
      n      == total[d].packets
  IN  /\ reached("polls")   = polled[d]
      /\ reached("packets") = Len(sent[d])
      /\ reached("bytes")   = BytesAfter(sent[d], Len(sent[d])) - inHand
      /\ n <= Len(sent[d])
      /\ total[d].bytes \in {BytesAfter(sent[d], n), BytesAfter(sent[d], n - 1)}

\* Every report but the first, which divides by the time since 1970, divides by
\* the time in which its messages were counted; each setting of the clock spoils
\* one report at most, however many signals come before the clock moves on.
IntervalsRight == wrong <= shifts
=============================================================================

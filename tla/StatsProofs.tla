---------------------------- MODULE StatsProofs -----------------------------
(***************************************************************************)
(* What hub's statistics add up to, for counters of any width and any      *)
(* number of messages, calls, signals and settings of the clock.           *)
(***************************************************************************)
EXTENDS Stats, SequenceTheorems, TLAPS

\* Counters are counted modulo Wrap; histories are not.
TypeInv ==
  /\ stats \in [Directions -> [Counters -> Int]]
  /\ prev  \in [Directions -> [Counters -> Int]]
  /\ total \in [Directions -> [Counters -> Nat]]
  /\ pc \in {"run", "poll", "woken", "count", "bytes"}
  /\ dir \in Directions /\ size \in Nat
  /\ sent \in [Directions -> Seq(Nat)]
  /\ polled \in [Directions -> Nat]

InHand(d)    == IF pc = "bytes" /\ dir = d THEN size ELSE 0
Counted(d)   == BytesAfter(sent[d], Len(sent[d])) - InHand(d)
Happened(d)  == [polls |-> polled[d], packets |-> Len(sent[d]), bytes |-> Counted(d)]

\* What was printed and what was not is what happened.
SumInv == \A d \in Directions, c \in Counters : total[d][c] + Delta(d, c) = Happened(d)[c]

\* Only the last message counted can be without its bytes.
LastInv == pc = "bytes" =>
  Len(sent[dir]) > 0 /\ Counted(dir) = BytesAfter(sent[dir], Len(sent[dir]) - 1)

\* A report is torn by one message at most.
TornInv == \A d \in Directions :
  LET n == total[d].packets IN
    /\ n <= Len(sent[d])
    /\ total[d].bytes \in {BytesAfter(sent[d], n), BytesAfter(sent[d], n - 1)}

CountInv == TypeInv /\ SumInv /\ LastInv /\ TornInv

\* The handler's interval is not the time that passed only if the clock was set
\* since it last ran, and each such interval is reported once at most.
Spoilt == IF clock - last # elapsed THEN 1 ELSE 0
ClockInv ==
  /\ clock \in Int /\ last \in Int /\ elapsed \in Nat
  /\ reports \in Nat /\ wrong \in Nat /\ shifts \in Nat
  /\ reports = 0 => wrong = 0
  /\ reports > 0 => wrong + Spoilt <= shifts

-----------------------------------------------------------------------------
(* Counting modulo Wrap *)

\* A number is a multiple of Wrap and its remainder.
LEMMA Division ==
  ASSUME NEW a \in Int
  PROVE  /\ a % Wrap \in 0 .. Wrap - 1
         /\ \E q \in Int : a = Wrap * q + (a % Wrap)
<1>1. a % Wrap \in 0 .. Wrap - 1
  BY CountersAssumption
<1>2. a \div Wrap \in Int /\ a = Wrap * (a \div Wrap) + (a % Wrap)
  BY CountersAssumption
<1>. QED  BY <1>1, <1>2

LEMMA Distributes == \A a, b, c \in Int : a * (b - c) = a * b - a * c /\ a * b \in Int
  OBVIOUS

\* The remainder is the only one in that range.
LEMMA Remainder ==
  ASSUME NEW a \in Int, NEW q \in Int, NEW r \in 0 .. Wrap - 1, a = Wrap * q + r
  PROVE  a % Wrap = r
<1> DEFINE s == a % Wrap
<1>1. PICK p \in Int : a = Wrap * p + (a % Wrap)
  BY Division
<1>2. s \in 0 .. Wrap - 1
  BY Division
<1>. HIDE DEF s
<1>3. Wrap * (p - q) = r - s
  <2>1. Wrap * (p - q) = Wrap * p - Wrap * q
    BY Distributes, CountersAssumption
  <2>2. Wrap * p \in Int /\ Wrap * q \in Int
    BY Distributes, CountersAssumption
  <2>. QED  BY <1>1, <1>2, <2>1, <2>2 DEF s
<1>4. r - s < Wrap /\ s - r < Wrap
  BY <1>2, CountersAssumption
<1>5. ~ p - q >= 1
  <2>. SUFFICES ASSUME p - q >= 1 PROVE FALSE
    OBVIOUS
  <2>1. Wrap * (p - q) >= Wrap
    BY CountersAssumption
  <2>. QED  BY <2>1, <1>3, <1>4, <1>2, CountersAssumption
<1>6. ~ q - p >= 1
  <2>. SUFFICES ASSUME q - p >= 1 PROVE FALSE
    OBVIOUS
  <2>1. Wrap * (q - p) >= Wrap
    BY CountersAssumption
  <2>2. Wrap * (q - p) = s - r
    BY <1>3, <1>2, CountersAssumption
  <2>. QED  BY <2>1, <2>2, <1>4, <1>2, CountersAssumption
<1>7. p = q
  BY <1>5, <1>6
<1>. QED  BY <1>1, <1>2, <1>7, CountersAssumption DEF s

\* Counting on, and taking the remainder, counts the difference on, as long as
\* that does not go round.
LEMMA CountOn ==
  ASSUME NEW s \in Int, NEW p \in Int, NEW n \in Nat, ((s - p) % Wrap) + n < Wrap
  PROVE  /\ (s + n) % Wrap \in Int
         /\ (((s + n) % Wrap) - p) % Wrap = ((s - p) % Wrap) + n
<1> DEFINE t == (s + n) % Wrap
           u == (s - p) % Wrap
<1>1. t \in 0 .. Wrap - 1 /\ u \in 0 .. Wrap - 1
  BY Division
<1>2. PICK k \in Int : s + n = Wrap * k + ((s + n) % Wrap)
  BY Division
<1>3. PICK m \in Int : s - p = Wrap * m + ((s - p) % Wrap)
  BY Division
<1>. HIDE DEF t, u
<1>4. t - p = Wrap * (m - k) + (u + n)
  <2>1. Wrap * (m - k) = Wrap * m - Wrap * k
    BY Distributes, CountersAssumption
  <2>2. Wrap * m \in Int /\ Wrap * k \in Int
    BY Distributes, CountersAssumption
  <2>3. s + n = Wrap * k + t /\ s - p = Wrap * m + u
    BY <1>2, <1>3 DEF t, u
  <2> DEFINE x == Wrap * m
             y == Wrap * k
  <2>4. x \in Int /\ y \in Int /\ Wrap * (m - k) = x - y /\ s + n = y + t /\ s - p = x + u
    BY <2>1, <2>2, <2>3
  <2>. HIDE DEF x, y
  <2>. QED  BY <1>1, <2>4
<1>5. u + n \in 0 .. Wrap - 1
  BY <1>1, CountersAssumption DEF u
<1>6. (t - p) % Wrap = u + n
  BY <1>1, <1>4, <1>5, Remainder, CountersAssumption
<1>. QED  BY <1>1, <1>6, CountersAssumption DEF t, u

\* Of what was just reported nothing is left.
LEMMA NothingNew ==
  ASSUME NEW s \in Int
  PROVE  (s - s) % Wrap = 0
<1>1. s - s = Wrap * 0 + 0
  BY CountersAssumption
<1>. QED  BY <1>1, Remainder, CountersAssumption

-----------------------------------------------------------------------------
(* What is counted *)

LEMMA DeltaType ==
  ASSUME TypeInv, NEW d \in Directions, NEW c \in Counters
  PROVE  Delta(d, c) \in Nat /\ stats[d][c] \in Int /\ prev[d][c] \in Int
<1>1. stats[d][c] \in Int /\ prev[d][c] \in Int
  BY DEF TypeInv
<1>2. stats[d][c] - prev[d][c] \in Int
  BY <1>1
<1>3. PICK x \in Int : x = stats[d][c] - prev[d][c]
  BY <1>2
<1>4. x % Wrap \in Nat
  BY Division, CountersAssumption
<1>. QED  BY <1>1, <1>3, <1>4 DEF Delta

\* A counter that counts up adds just that to the next report.
LEMMA CountedUp ==
  ASSUME TypeInv, NEW d \in Directions, NEW c \in Counters, NEW n \in Nat,
         CountUp(d, c, n), UNCHANGED prev
  PROVE  /\ stats' \in [Directions -> [Counters -> Int]]
         /\ \A e \in Directions, x \in Counters :
              Delta(e, x)' = IF e = d /\ x = c THEN Delta(d, c) + n ELSE Delta(e, x)
<1>1. stats[d][c] \in Int /\ prev[d][c] \in Int
  BY DeltaType
<1>2. Delta(d, c) + n < Wrap /\ stats' = [stats EXCEPT ![d][c] = (@ + n) % Wrap]
  BY DEF CountUp
<1>3. /\ (stats[d][c] + n) % Wrap \in Int
      /\ (((stats[d][c] + n) % Wrap) - prev[d][c]) % Wrap = Delta(d, c) + n
  BY <1>1, <1>2, CountOn DEF Delta
<1> DEFINE v == (stats[d][c] + n) % Wrap
<1>4. stats' = [stats EXCEPT ![d][c] = v]
  BY <1>2
<1>5. v \in Int /\ (v - prev[d][c]) % Wrap = Delta(d, c) + n
  BY <1>3
<1>. HIDE DEF v
<1>6. stats' \in [Directions -> [Counters -> Int]]
  BY <1>4, <1>5 DEF TypeInv
<1>7. ASSUME NEW e \in Directions, NEW x \in Counters
      PROVE  Delta(e, x)' = IF e = d /\ x = c THEN Delta(d, c) + n ELSE Delta(e, x)
  <2>1. stats'[e][x] = IF e = d /\ x = c THEN v ELSE stats[e][x]
    BY <1>4 DEF TypeInv
  <2>2. Delta(e, x)' = (stats'[e][x] - prev[e][x]) % Wrap
    BY DEF Delta
  <2>3. CASE e = d /\ x = c
    BY <2>1, <2>2, <2>3, <1>5
  <2>4. CASE ~ (e = d /\ x = c)
    BY <2>1, <2>2, <2>4 DEF Delta
  <2>. QED  BY <2>3, <2>4
<1>. QED  BY <1>6, <1>7

\* The bytes of the messages counted are numbers.
LEMMA BytesType ==
  ASSUME TypeInv, NEW d \in Directions, NEW n \in Int, n <= Len(sent[d])
  PROVE  BytesAfter(sent[d], n) \in Nat
  BY DEF TypeInv, BytesAfter

\* Nothing is counted at first.
LEMMA CountInit == Init => CountInv
<1>. SUFFICES ASSUME Init PROVE CountInv
  OBVIOUS
<1>1. \A S : <<>> \in Seq(S) /\ Len(<<>>) = 0
  OBVIOUS
<1>2. TypeInv
  BY <1>1 DEF Init, TypeInv, Zero, Directions
<1>3. ASSUME NEW d \in Directions, NEW c \in Counters
      PROVE  total[d][c] + Delta(d, c) = Happened(d)[c]
  <2>1. Delta(d, c) = 0
    BY NothingNew DEF Init, Delta, Zero
  <2>2. total[d][c] = 0
    BY DEF Init, Zero
  <2>3. Happened(d)[c] = 0
    BY <1>1 DEF Init, Happened, Counted, InHand, BytesAfter, Counters
  <2>. QED  BY <2>1, <2>2, <2>3
<1>4. LastInv
  BY DEF Init, LastInv
<1>5. TornInv
  BY <1>1 DEF Init, TornInv, Zero, BytesAfter, Counters
<1>. QED  BY <1>2, <1>3, <1>4, <1>5 DEF CountInv, SumInv

LEMMA CountPoll ==
  ASSUME CountInv, NEW d \in Directions, Poll(d)
  PROVE  CountInv'
<1>. USE DEF CountInv
<1>1. CountUp(d, "polls", 1) /\ UNCHANGED prev
  BY DEF Poll, handlerVars
<1>2. stats' \in [Directions -> [Counters -> Int]]
  BY <1>1, CountedUp DEF Counters
<1>3. \A e \in Directions, x \in Counters :
        Delta(e, x)' = IF e = d /\ x = "polls" THEN Delta(d, "polls") + 1 ELSE Delta(e, x)
  BY <1>1, CountedUp DEF Counters
<1>4. TypeInv'
  <2>1. polled' \in [Directions -> Nat]
    BY DEF Poll, TypeInv
  <2>. QED  BY <1>2, <2>1 DEF Poll, handlerVars, TypeInv
<1>5. ASSUME NEW e \in Directions, NEW x \in Counters
      PROVE  (total[e][x] + Delta(e, x) = Happened(e)[x])'
  <2>1. Happened(e)'[x] = IF e = d /\ x = "polls" THEN Happened(e)[x] + 1 ELSE Happened(e)[x]
    <3>1. Counted(e)' = Counted(e)
      BY DEF Poll, Counted, InHand
    <3>2. polled'[e] = IF e = d THEN polled[e] + 1 ELSE polled[e]
      BY DEF Poll, TypeInv
    <3>3. sent' = sent
      BY DEF Poll
    <3>. QED  BY <3>1, <3>2, <3>3 DEF Happened, Counters
  <2>2. total' = total /\ total[e][x] \in Nat /\ Delta(e, x) \in Nat
    BY DeltaType DEF Poll, handlerVars, TypeInv
  <2>3. total[e][x] + Delta(e, x) = Happened(e)[x]
    BY DEF SumInv
  <2>. QED  BY <2>1, <2>2, <2>3, <1>3
<1>6. LastInv'
  BY DEF Poll, LastInv
<1>7. TornInv'
  BY DEF Poll, handlerVars, TornInv, BytesAfter
<1>. QED  BY <1>4, <1>5, <1>6, <1>7 DEF SumInv

\* PollAgain and PollReturns count nothing.
LEMMA CountAgain ==
  ASSUME CountInv, PollAgain \/ PollReturns
  PROVE  CountInv'
<1>. USE DEF CountInv
<1>1. /\ UNCHANGED <<stats, dir, size, sent, polled, handlerVars>>
      /\ pc' \in {"poll", "run"} /\ pc # "bytes"
  BY DEF PollAgain, PollReturns, Again
<1>2. TypeInv'
  BY <1>1 DEF handlerVars, TypeInv
<1>3. SumInv'
  BY <1>1 DEF handlerVars, SumInv, Delta, Happened, Counted, InHand, BytesAfter
<1>4. LastInv'
  BY <1>1 DEF LastInv
<1>5. TornInv'
  BY <1>1 DEF handlerVars, TornInv, BytesAfter
<1>. QED  BY <1>2, <1>3, <1>4, <1>5

\* nl_send and nl_recv count the packet, and have its bytes in hand.
LEMMA CountCount ==
  ASSUME CountInv, NEW d \in Directions, Count(d)
  PROVE  CountInv'
<1>. USE DEF CountInv
<1>1. CountUp(d, "packets", 1) /\ UNCHANGED <<prev, total, polled>> /\ pc # "bytes"
  BY DEF Count, handlerVars
<1>2. stats' \in [Directions -> [Counters -> Int]]
  BY <1>1, CountedUp DEF Counters
<1>3. \A e \in Directions, x \in Counters :
        Delta(e, x)' = IF e = d /\ x = "packets" THEN Delta(d, "packets") + 1 ELSE Delta(e, x)
  BY <1>1, CountedUp DEF Counters
<1>4. PICK s \in Seq(Nat) : s = sent[d]
  BY DEF TypeInv
<1>5. PICK k \in Nat : k = Len(s)
  OBVIOUS
<1>. PICK b \in Nat : b = BytesAfter(s, k)
  BY <1>5 DEF BytesAfter
<1>. PICK n \in Nat : size' = n /\ sent' = [sent EXCEPT ![d] = Append(s, b + n)]
  BY <1>4, <1>5, CountersAssumption DEF Count
<1>6. PICK t \in Seq(Nat) :
        /\ t = Append(s, b + n) /\ Len(t) = k + 1 /\ t[k + 1] = b + n
        /\ \A m \in 1 .. k : t[m] = s[m]
  <2>1. PICK v \in Nat : v = b + n
    OBVIOUS
  <2>2. /\ Append(s, v) \in Seq(Nat) /\ Len(Append(s, v)) = k + 1
        /\ Append(s, v)[k + 1] = v
        /\ \A m \in 1 .. k : Append(s, v)[m] = s[m]
    BY <1>5
  <2>. QED  BY <2>1, <2>2
<1>7. /\ sent' \in [Directions -> Seq(Nat)]
      /\ \A e \in Directions : sent'[e] = IF e = d THEN t ELSE sent[e]
  BY <1>4, <1>6 DEF TypeInv
<1>8. TypeInv'
  BY <1>1, <1>2, <1>7 DEF Count, TypeInv
<1>9. \A e \in Directions, m \in Int :
        m <= Len(sent[e]) => BytesAfter(sent'[e], m) = BytesAfter(sent[e], m)
  BY <1>4, <1>5, <1>6, <1>7 DEF BytesAfter, TypeInv
<1>10. BytesAfter(sent'[d], k + 1) = b + n /\ Len(sent'[d]) = k + 1
  BY <1>4, <1>5, <1>6, <1>7 DEF BytesAfter, TypeInv
<1>11. Counted(d)' = b /\ Counted(d) = b
  <2>1. Counted(d)' = BytesAfter(sent'[d], k + 1) - n
    BY <1>10 DEF Counted, InHand, Count
  <2>2. Counted(d) = b - 0
    BY <1>1, <1>4, <1>5 DEF Counted, InHand
  <2>. QED  BY <2>1, <2>2, <1>10
<1>12. ASSUME NEW e \in Directions, e # d
       PROVE  Counted(e)' = Counted(e) /\ Len(sent'[e]) = Len(sent[e])
  BY <1>1, <1>7, <1>9, <1>12 DEF Counted, InHand, Count, BytesAfter
<1>13. ASSUME NEW e \in Directions, NEW x \in Counters
       PROVE  (total[e][x] + Delta(e, x) = Happened(e)[x])'
  <2>1. Happened(e)'[x] = IF e = d /\ x = "packets" THEN Happened(e)[x] + 1 ELSE Happened(e)[x]
    <3>1. CASE e = d
      <4>1. Len(sent[e]) = k /\ Len(sent'[e]) = k + 1 /\ Counted(e)' = Counted(e) /\ polled' = polled
        BY <3>1, <1>1, <1>4, <1>5, <1>10, <1>11
      <4>. QED  BY <3>1, <4>1 DEF Happened, Counters
    <3>2. CASE e # d
      <4>1. Len(sent'[e]) = Len(sent[e]) /\ Counted(e)' = Counted(e) /\ polled' = polled
        BY <3>2, <1>1, <1>12
      <4>. QED  BY <3>2, <4>1 DEF Happened, Counters
    <3>. QED  BY <3>1, <3>2
  <2>2. total' = total /\ total[e][x] \in Nat /\ Delta(e, x) \in Nat
    BY <1>1, DeltaType DEF TypeInv
  <2>3. total[e][x] + Delta(e, x) = Happened(e)[x]
    BY DEF SumInv
  <2>4. Delta(e, x)' = IF e = d /\ x = "packets" THEN Delta(e, x) + 1 ELSE Delta(e, x)
    BY <1>3
  <2>5. total'[e][x] + Delta(e, x)' =
          IF e = d /\ x = "packets" THEN (total[e][x] + Delta(e, x)) + 1
          ELSE total[e][x] + Delta(e, x)
    BY <2>2, <2>4
  <2>6. total'[e][x] + Delta(e, x)' = Happened(e)'[x]
    BY <2>1, <2>3, <2>5
  <2>. QED  BY <2>6
<1>14. LastInv'
  <2>1. dir' = d
    BY DEF Count
  <2>2. BytesAfter(sent'[d], k) = b
    BY <1>9, <1>4, <1>5
  <2>3. Len(sent'[dir']) = k + 1 /\ Len(sent'[dir']) - 1 = k
    BY <2>1, <1>10
  <2>. QED  BY <2>1, <2>2, <2>3, <1>11 DEF LastInv
<1>15. ASSUME NEW e \in Directions
       PROVE  /\ total'[e].packets <= Len(sent'[e])
              /\ total'[e].bytes \in {BytesAfter(sent'[e], total[e].packets),
                                      BytesAfter(sent'[e], total[e].packets - 1)}
  <2>1. total[e].packets \in Nat /\ total' = total /\ Len(sent[e]) \in Nat
    <3>1. sent[e] \in Seq(Nat) /\ total[e].packets \in Nat
      BY DEF TypeInv, Counters
    <3>. QED  BY <1>1, <3>1
  <2>2. total[e].packets <= Len(sent[e])
    BY DEF TornInv
  <2>3. Len(sent[e]) <= Len(sent'[e])
    BY <1>4, <1>5, <1>10, <1>12, <2>1
  <2>4. /\ BytesAfter(sent'[e], total[e].packets) = BytesAfter(sent[e], total[e].packets)
        /\ BytesAfter(sent'[e], total[e].packets - 1) = BytesAfter(sent[e], total[e].packets - 1)
    <3>1. /\ sent'[e] = sent[e] \/ (e = d /\ sent'[e] = t)
          /\ total' = total
      BY <1>7, <2>1
    <3>2. \A m \in 1 .. Len(sent[e]) : sent'[e][m] = sent[e][m]
      BY <3>1, <1>4, <1>5, <1>6
    <3>3. /\ total[e].packets > 0 => total[e].packets \in 1 .. Len(sent[e])
          /\ total[e].packets - 1 > 0 => total[e].packets - 1 \in 1 .. Len(sent[e])
      BY <2>1, <2>2
    <3>. QED  BY <3>2, <3>3 DEF BytesAfter
  <2>5. total[e].bytes \in {BytesAfter(sent[e], total[e].packets), BytesAfter(sent[e], total[e].packets - 1)}
    BY DEF TornInv
  <2>6. Len(sent'[e]) \in Nat
    <3>1. sent'[e] \in Seq(Nat)
      BY <1>7
    <3>. QED  BY <3>1
  <2>. QED  BY <2>1, <2>2, <2>3, <2>4, <2>5, <2>6
<1>16. TornInv'
  BY <1>15, <1>1 DEF TornInv
<1>. QED  BY <1>8, <1>13, <1>14, <1>16 DEF SumInv

\* Then the bytes, and none are in hand.
LEMMA CountCountBytes ==
  ASSUME CountInv, CountBytes
  PROVE  CountInv'
<1>. USE DEF CountInv
<1>1. /\ CountUp(dir, "bytes", size)
      /\ UNCHANGED <<prev, total, polled, sent, dir>>
      /\ pc = "bytes" /\ pc' = "run" /\ size' = 0
  BY DEF CountBytes, handlerVars
<1>2. dir \in Directions /\ size \in Nat /\ "bytes" \in Counters
  BY DEF TypeInv, Counters
<1>3. stats' \in [Directions -> [Counters -> Int]]
  BY <1>1, <1>2, CountedUp
<1>4. \A e \in Directions, x \in Counters :
        Delta(e, x)' = IF e = dir /\ x = "bytes" THEN Delta(dir, "bytes") + size ELSE Delta(e, x)
  BY <1>1, <1>2, CountedUp
<1>5. TypeInv'
  BY <1>1, <1>3 DEF TypeInv
<1>6. ASSUME NEW e \in Directions
      PROVE  /\ Counted(e) \in Int
             /\ Counted(e)' = IF e = dir THEN Counted(e) + size ELSE Counted(e)
  <2>1. PICK s \in Seq(Nat) : s = sent[e]
    BY DEF TypeInv
  <2>2. PICK b \in Nat : b = BytesAfter(s, Len(s))
    BY DEF BytesAfter
  <2>3. Counted(e)' = b - 0
    BY <1>1, <2>1, <2>2 DEF Counted, InHand
  <2>4. Counted(e) = b - (IF e = dir THEN size ELSE 0)
    BY <1>1, <2>1, <2>2 DEF Counted, InHand
  <2>. QED  BY <1>2, <2>3, <2>4
<1>7. ASSUME NEW e \in Directions, NEW x \in Counters
      PROVE  (total[e][x] + Delta(e, x) = Happened(e)[x])'
  <2>1. Happened(e)'[x] = IF e = dir /\ x = "bytes" THEN Happened(e)[x] + size ELSE Happened(e)[x]
    BY <1>1, <1>6 DEF Happened, Counters
  <2>2. total' = total /\ total[e][x] \in Nat /\ Delta(e, x) \in Nat
    BY <1>1, DeltaType DEF TypeInv
  <2>3. total[e][x] + Delta(e, x) = Happened(e)[x]
    BY DEF SumInv
  <2>4. Delta(e, x)' = IF e = dir /\ x = "bytes" THEN Delta(e, x) + size ELSE Delta(e, x)
    BY <1>4
  <2>5. total'[e][x] + Delta(e, x)' =
          IF e = dir /\ x = "bytes" THEN (total[e][x] + Delta(e, x)) + size
          ELSE total[e][x] + Delta(e, x)
    BY <1>2, <2>2, <2>4
  <2>6. total'[e][x] + Delta(e, x)' = Happened(e)'[x]
    BY <2>1, <2>3, <2>5
  <2>. QED  BY <2>6
<1>8. LastInv'
  BY <1>1 DEF LastInv
<1>9. TornInv'
  BY <1>1 DEF TornInv
<1>. QED  BY <1>5, <1>7, <1>8, <1>9 DEF SumInv

\* A report has what was counted, and leaves nothing for the next; it may come
\* between a packet and its bytes.
LEMMA CountTimer ==
  ASSUME CountInv, TimerHandler
  PROVE  CountInv'
<1>. USE DEF CountInv
<1>1. /\ UNCHANGED <<stats, dir, size, sent, polled>>
      /\ pc' = IF pc = "poll" THEN "woken" ELSE pc
      /\ Report \/ UNCHANGED <<prev, total>>
  BY DEF TimerHandler, Tick
<1>2. \A d \in Directions : Counted(d)' = Counted(d) /\ Happened(d)' = Happened(d)
  BY <1>1 DEF Happened, Counted, InHand
<1>3. LastInv'
  BY <1>1 DEF LastInv, Counted, InHand
<1>4. CASE UNCHANGED <<prev, total>>
  <2>1. TypeInv'
    BY <1>1, <1>4 DEF TypeInv
  <2>2. SumInv'
    BY <1>1, <1>2, <1>4 DEF SumInv, Delta
  <2>3. TornInv'
    BY <1>1, <1>4 DEF TornInv
  <2>. QED  BY <1>3, <2>1, <2>2, <2>3
<1>5. CASE Report
  <2>1. ASSUME NEW d \in Directions, NEW c \in Counters
        PROVE  total'[d][c] = Happened(d)[c] /\ total'[d][c] \in Nat
    <3>1. total'[d][c] = total[d][c] + Delta(d, c)
      BY <1>5 DEF Report
    <3>2. total[d][c] \in Nat /\ Delta(d, c) \in Nat
      BY DeltaType DEF TypeInv
    <3>. QED  BY <3>1, <3>2 DEF SumInv
  <2>2. TypeInv'
    <3>1. total' \in [Directions -> [Counters -> Nat]]
      <4>1. \A d \in Directions, c \in Counters : total[d][c] + Delta(d, c) \in Nat
        BY <1>5, <2>1 DEF Report
      <4>. QED  BY <1>5, <4>1 DEF Report
    <3>. QED  BY <1>1, <1>5, <3>1 DEF TypeInv, Report
  <2>3. ASSUME NEW d \in Directions, NEW c \in Counters
        PROVE  (total[d][c] + Delta(d, c) = Happened(d)[c])'
    <3>1. Delta(d, c)' = 0
      <4>1. stats[d][c] \in Int
        BY DEF TypeInv
      <4>2. Delta(d, c)' = (stats[d][c] - stats[d][c]) % Wrap
        BY <1>1, <1>5 DEF Delta, Report
      <4>3. PICK x \in Int : x = stats[d][c]
        BY <4>1
      <4>4. (x - x) % Wrap = 0
        BY NothingNew
      <4>. QED  BY <4>2, <4>3, <4>4
    <3>2. total'[d][c] = Happened(d)'[c] /\ total'[d][c] \in Nat
      BY <1>2, <2>1
    <3>3. total'[d][c] + Delta(d, c)' = Happened(d)'[c]
      BY <3>1, <3>2
    <3>. QED  BY <3>3
  <2>4. ASSUME NEW d \in Directions
        PROVE  (LET n == total[d].packets IN
                  /\ n <= Len(sent[d])
                  /\ total[d].bytes \in {BytesAfter(sent[d], n), BytesAfter(sent[d], n - 1)})'
    <3>1. total'[d].packets = Len(sent[d]) /\ total'[d].bytes = Counted(d)
      BY <2>1 DEF Happened, Counters
    <3>2. PICK s \in Seq(Nat) : s = sent[d]
      BY DEF TypeInv
    <3>3. Counted(d) \in {BytesAfter(s, Len(s)), BytesAfter(s, Len(s) - 1)}
      <4>1. CASE pc = "bytes" /\ dir = d
        BY <4>1, <3>2 DEF LastInv
      <4>2. CASE ~ (pc = "bytes" /\ dir = d)
        <5>1. PICK b \in Nat : b = BytesAfter(s, Len(s))
          BY DEF BytesAfter
        <5>2. Counted(d) = b - 0
          BY <4>2, <3>2, <5>1 DEF Counted, InHand
        <5>. QED  BY <5>1, <5>2
      <4>. QED  BY <4>1, <4>2
    <3>4. sent' = sent /\ Len(s) \in Nat
      BY <1>1
    <3>. QED  BY <3>1, <3>2, <3>3, <3>4
  <2>. QED  BY <1>3, <2>2, <2>3, <2>4 DEF SumInv, TornInv
<1>. QED  BY <1>1, <1>4, <1>5

\* The clock counts nothing.
LEMMA CountStutter ==
  ASSUME CountInv, SetClock \/ UNCHANGED vars
  PROVE  CountInv'
<1>1. UNCHANGED <<loopVars, prev, total>>
  BY DEF SetClock, vars, handlerVars
<1>. QED  BY <1>1 DEF loopVars, CountInv, TypeInv, SumInv, LastInv, TornInv, Delta,
                      Happened, Counted, InHand

\* CountInv holds in every state.
THEOREM CountInvariance == Spec => []CountInv
<1>1. Init => CountInv
  BY CountInit
<1>2. CountInv /\ [Next]_vars => CountInv'
  <2>. SUFFICES ASSUME CountInv, [Next]_vars PROVE CountInv'
    OBVIOUS
  <2>1. ASSUME NEW d \in Directions, Poll(d) PROVE CountInv'
    BY <2>1, CountPoll
  <2>2. ASSUME NEW d \in Directions, Count(d) PROVE CountInv'
    BY <2>2, CountCount
  <2>3. CASE PollAgain \/ PollReturns
    BY <2>3, CountAgain
  <2>4. CASE CountBytes
    BY <2>4, CountCountBytes
  <2>5. CASE TimerHandler
    BY <2>5, CountTimer
  <2>6. CASE SetClock \/ UNCHANGED vars
    BY <2>6, CountStutter
  <2>. QED  BY <2>1, <2>2, <2>3, <2>4, <2>5, <2>6 DEF Next
<1>. QED  BY <1>1, <1>2, PTL DEF Spec

\* Whatever the width of the counters and wherever the signals come, the reports
\* and what the next one would add are just the calls of nl_poll, the messages
\* and their bytes; a report is torn by one message at most.
THEOREM ReportsAddUp == Spec => []ReportsAdd
<1>1. CountInv => ReportsAdd
  <2>. SUFFICES ASSUME CountInv, NEW d \in Directions
                PROVE  /\ total[d]["polls"] + Delta(d, "polls") = polled[d]
                       /\ total[d]["packets"] + Delta(d, "packets") = Len(sent[d])
                       /\ total[d]["bytes"] + Delta(d, "bytes") = Counted(d)
                       /\ total[d].packets <= Len(sent[d])
                       /\ total[d].bytes \in {BytesAfter(sent[d], total[d].packets),
                                              BytesAfter(sent[d], total[d].packets - 1)}
    BY DEF ReportsAdd, Counted, InHand
  <2>. QED  BY DEF CountInv, SumInv, TornInv, Happened, Counters
<1>. QED  BY <1>1, CountInvariance, PTL

-----------------------------------------------------------------------------
(* The time *)

\* ClockInv holds in every state.
THEOREM ClockInvariance == Spec => []ClockInv
<1>1. Init => ClockInv
  BY DEF Init, ClockInv
<1>2. ClockInv /\ [Next]_vars => ClockInv'
  <2>. SUFFICES ASSUME ClockInv, [Next]_vars PROVE ClockInv'
    OBVIOUS
  <2>1. ASSUME UNCHANGED <<handlerVars, clock, shifts>> PROVE ClockInv'
    BY <2>1 DEF handlerVars, ClockInv, Spoilt
  <2>2. ASSUME NEW d \in Directions, Poll(d) \/ Count(d) PROVE ClockInv'
    BY <2>1, <2>2 DEF Poll, Count
  <2>3. CASE PollAgain \/ PollReturns \/ CountBytes \/ UNCHANGED vars
    BY <2>1, <2>3 DEF PollAgain, Again, PollReturns, CountBytes, vars
  <2>4. CASE TimerHandler
    <3>1. PICK while \in 0 .. 1 :
            LET now      == clock + while
                interval == now - last
            IN  /\ clock' = now /\ last' = now
                /\ \/ /\ interval <= 0
                      /\ elapsed' = elapsed + while
                      /\ UNCHANGED <<prev, total, reports, wrong>>
                   \/ /\ interval > 0
                      /\ elapsed' = 0
                      /\ reports' = reports + 1
                      /\ wrong' = IF reports > 0 /\ interval # elapsed + while
                                  THEN wrong + 1 ELSE wrong
      BY <2>4, Zenon DEF TimerHandler, Tick
    <3>2. shifts' = shifts
      BY <2>4 DEF TimerHandler, Tick
    <3>3. clock' \in Int /\ last' = clock' /\ clock' - last' = 0
      BY <3>1 DEF ClockInv
    <3>4. CASE clock + while - last <= 0
      <4>1. elapsed' = elapsed + while /\ UNCHANGED <<reports, wrong>>
        BY <3>1, <3>4 DEF ClockInv
      <4>2. elapsed' # 0 => Spoilt = 1
        BY <3>4, <4>1 DEF ClockInv, Spoilt
      <4>3. Spoilt' = IF elapsed' # 0 THEN 1 ELSE 0
        BY <3>3, <4>1 DEF ClockInv, Spoilt
      <4>4. Spoilt \in {0, 1} /\ Spoilt' <= Spoilt
        BY <4>2, <4>3 DEF Spoilt
      <4>. QED  BY <3>2, <3>3, <4>1, <4>3, <4>4 DEF ClockInv
    <3>5. CASE clock + while - last > 0
      <4>1. /\ elapsed' = 0 /\ reports' = reports + 1
            /\ wrong' = IF reports > 0 /\ (clock + while) - last # elapsed + while
                        THEN wrong + 1 ELSE wrong
        BY <3>1, <3>5 DEF ClockInv
      <4>2. Spoilt' = 0
        BY <3>3, <4>1 DEF Spoilt
      <4>3. reports > 0 => wrong' = wrong + Spoilt
        BY <4>1 DEF ClockInv, Spoilt
      <4>4. reports = 0 => wrong' = 0
        BY <4>1 DEF ClockInv
      <4>5. Spoilt \in {0, 1}
        BY DEF Spoilt
      <4>. QED  BY <3>2, <3>3, <4>1, <4>2, <4>3, <4>4, <4>5 DEF ClockInv
    <3>. QED  BY <3>4, <3>5 DEF ClockInv
  <2>5. CASE SetClock
    <3>1. PICK s \in Int : clock' = clock + s
      BY <2>5, CountersAssumption DEF SetClock
    <3>2. UNCHANGED <<last, elapsed, reports, wrong>> /\ shifts' = shifts + 1
      BY <2>5 DEF SetClock, handlerVars
    <3>. QED  BY <3>1, <3>2 DEF ClockInv, Spoilt
  <2>. QED  BY <2>2, <2>3, <2>4, <2>5 DEF Next
<1>. QED  BY <1>1, <1>2, PTL DEF Spec

\* Each setting of the clock spoils one report at most, however far it goes and
\* however many signals find the clock behind the last one.
THEOREM FewReportsSpoilt == Spec => []IntervalsRight
<1>1. ClockInv => IntervalsRight
  BY DEF ClockInv, Spoilt, IntervalsRight
<1>. QED  BY <1>1, ClockInvariance, PTL
=============================================================================

------------------------------ MODULE HubProofs ------------------------------
(***************************************************************************)
(* What holds of forwarded packets for any lists of ports and any number   *)
(* of packets, upcalls that wait and failures.                             *)
(***************************************************************************)
EXTENDS Hub, FiniteSetTheorems, SequenceTheorems, TLAPS

-----------------------------------------------------------------------------
(* Types *)

Keyed(k) == /\ k.in_port \in Nat /\ k.id \in Nat \cup {Absent}
            /\ k.ethertype \in {"arp", "other", Absent}

\* Every variable's range. Outputs and upcalls name packets that have arrived,
\* flood holds one when it is not waiting, and flows are finitely many.
TypeInv ==
  /\ flood_mode \in 0 .. 4
  /\ arrived \in Seq(Keys)
  /\ upcalls \in Seq(Packets)
  /\ outputs \in Seq(ToSet(outputs))
  /\ \A i \in DOMAIN outputs :
       outputs[i].packet \in Packets /\ outputs[i].by \in {"flow", "hub"}
  /\ IsFiniteSet(DOMAIN flows)
  /\ pc \in {"recv", "packet", "add", "del"}
  /\ cur \in Packets \cup {None} /\ (pc = "recv" <=> cur = None)
  /\ key.ethertype \in {"arp", "other", Absent}
  /\ lost \subseteq Packets /\ given \subseteq Packets
  /\ faults \in Nat

\* The packets are numbered as they arrive.
LEMMA PacketsAre ==
  ASSUME TypeInv
  PROVE  /\ Packets = 1 .. Len(arrived) /\ Len(arrived) \in Nat
         /\ \A n \in Packets : arrived[n] \in Keys /\ n \in Nat
         /\ None \notin Packets /\ IsFiniteSet(Packets)
<1>1. Packets = 1 .. Len(arrived) /\ Len(arrived) \in Nat
  BY DEF TypeInv, Packets
<1>2. \A n \in Packets : arrived[n] \in Keys /\ n \in Nat
  BY <1>1 DEF TypeInv
<1>3. IsFiniteSet(Packets)
  BY <1>1, FS_Interval
<1> QED
  BY <1>1, <1>2, <1>3, NoneAssumption

\* A sequence over a set is one over a larger set.
LEMMA SeqGrows ==
  ASSUME NEW S, NEW T, S \subseteq T, NEW s \in Seq(S)
  PROVE  s \in Seq(T)
  OBVIOUS

\* What Execute appends.
LEMMA Executed ==
  ASSUME TypeInv, NEW n, NEW actions, NEW who, Execute(n, actions, who)
  PROVE  /\ outputs' \in Seq(ToSet(outputs'))
         /\ Len(outputs') = Len(outputs) + 1 /\ Len(outputs) \in Nat
         /\ DOMAIN outputs' = 1 .. Len(outputs') /\ DOMAIN outputs = 1 .. Len(outputs)
         /\ \A i \in DOMAIN outputs : i \in DOMAIN outputs' /\ outputs'[i] = outputs[i]
         /\ outputs'[Len(outputs')].packet = n /\ outputs'[Len(outputs')].by = who
         /\ outputs'[Len(outputs')].ports = actions
<1> DEFINE o == [packet |-> n, ports |-> actions, by |-> who]
           S == ToSet(outputs) \cup {o}
<1>1. outputs \in Seq(S) /\ o \in S
  <2>1. outputs \in Seq(ToSet(outputs))
    BY DEF TypeInv
  <2>2. Len(outputs) \in Nat /\ outputs = [i \in 1 .. Len(outputs) |-> outputs[i]]
    BY <2>1
  <2>3. \A i \in 1 .. Len(outputs) : outputs[i] \in S
    BY <2>1
  <2> QED
    BY <2>2, <2>3
<1>2. outputs' = Append(outputs, o)
  BY DEF Execute
<1>3. o.packet = n /\ o.by = who /\ o.ports = actions
  OBVIOUS
<1> HIDE DEF o, S
<1>4. /\ outputs' \in Seq(S)
      /\ Len(outputs') = Len(outputs) + 1 /\ Len(outputs) \in Nat
      /\ DOMAIN outputs' = 1 .. Len(outputs') /\ DOMAIN outputs = 1 .. Len(outputs)
      /\ outputs'[Len(outputs')] = o
      /\ \A i \in 1 .. Len(outputs) : outputs'[i] = outputs[i]
  BY <1>1, <1>2
<1>5. outputs' \in Seq(ToSet(outputs'))
  <2>1. outputs' = [i \in 1 .. Len(outputs') |-> outputs'[i]] /\ Len(outputs') \in Nat
    BY <1>4
  <2>2. \A i \in 1 .. Len(outputs') : outputs'[i] \in ToSet(outputs')
    BY <1>4 DEF ToSet
  <2> QED
    BY <2>1, <2>2
<1> QED
  BY <1>3, <1>4, <1>5

\* One more key among those that have arrived.
LEMMA ArrivedKeeps ==
  ASSUME TypeInv, NEW k \in Keys, Arrive(k)
  PROVE  /\ arrived' \in Seq(Keys) /\ Packets' = 1 .. Len(arrived) + 1
         /\ Len(arrived') = Len(arrived) + 1 /\ Len(arrived) \in Nat
         /\ arrived'[Len(arrived) + 1] = k
         /\ \A n \in Packets : arrived'[n] = arrived[n] /\ n \in Packets'
         /\ Packets' = Packets \cup {Len(arrived) + 1} /\ Packets = 1 .. Len(arrived)
         /\ Len(arrived) + 1 \notin Packets
<1>1. /\ arrived' \in Seq(Keys) /\ Len(arrived') = Len(arrived) + 1
      /\ Len(arrived) \in Nat /\ DOMAIN arrived = 1 .. Len(arrived)
      /\ DOMAIN arrived' = 1 .. Len(arrived')
      /\ arrived'[Len(arrived) + 1] = k
      /\ \A n \in 1 .. Len(arrived) : arrived'[n] = arrived[n]
  BY DEF Arrive, TypeInv
<1> QED
  BY <1>1 DEF Packets

\* What is known of the next upcall.
LEMMA NextUpcall ==
  ASSUME TypeInv, Recv
  PROVE  /\ Head(upcalls) \in Packets /\ Head(upcalls) = upcalls[1]
         /\ upcalls' \in Seq(Packets) /\ Len(upcalls) \in Nat \ {0}
         /\ DOMAIN upcalls = 1 .. Len(upcalls) /\ DOMAIN upcalls' = 1 .. Len(upcalls) - 1
         /\ \A i \in DOMAIN upcalls' : i + 1 \in DOMAIN upcalls /\ upcalls'[i] = upcalls[i + 1]
  BY DEF Recv, TypeInv

\* TypeInv holds at the start.
LEMMA TypeInit == Init => TypeInv
<1> SUFFICES ASSUME Init PROVE TypeInv
  OBVIOUS
<1>1. \A S : <<>> \in Seq(S)
  OBVIOUS
<1>2. DOMAIN flows = {} /\ DOMAIN outputs = {}
  BY DEF Init
<1>3. key.ethertype = Absent
  BY DEF Init
<1>4. pc = "recv" /\ cur = None /\ arrived = <<>> /\ upcalls = <<>> /\ outputs = <<>>
      /\ lost = {} /\ given = {} /\ faults = 0 /\ flood_mode \in 0 .. 4
  BY DEF Init
<1> QED
  BY <1>1, <1>2, <1>3, <1>4, FS_EmptySet DEF TypeInv

\* A key that has been parsed is in range.
LEMMA ParsedKey ==
  ASSUME TypeInv, NEW k \in Keys
  PROVE  /\ ParseKey(k).ethertype = IF k.ethertype = Absent THEN key.ethertype
                                                            ELSE k.ethertype
         /\ ParseKey(k).ethertype \in {"arp", "other", Absent}
  BY KeysAssumption DEF ParseKey, TypeInv

\* The flows after one is added or deleted.
LEMMA FlowChanges ==
  ASSUME IsFiniteSet(DOMAIN flows), NEW k, NEW actions
  PROVE  /\ Install(k, actions) =>
              DOMAIN flows' = DOMAIN flows \cup {k} /\ IsFiniteSet(DOMAIN flows')
         /\ Uninstall(k) =>
              DOMAIN flows' = DOMAIN flows \ {k} /\ IsFiniteSet(DOMAIN flows')
  BY FS_AddElement, FS_RemoveElement DEF Install, Uninstall

\* No step takes a variable out of its range.
LEMMA TypeStep == TypeInv /\ [Next]_vars => TypeInv'
<1> SUFFICES ASSUME TypeInv, [Next]_vars PROVE TypeInv'
  OBVIOUS
<1>1. ASSUME NEW k \in Keys, Arrive(k) PROVE TypeInv'
  <2>1. /\ arrived' \in Seq(Keys) /\ Packets \subseteq Packets'
        /\ Len(arrived) + 1 \in Packets' /\ None \notin Packets'
    BY <1>1, ArrivedKeeps, NoneAssumption
  <2>2. /\ UNCHANGED <<flood_mode, flows, pc, cur, key, given, faults>>
        /\ lost' \in {lost, lost \cup {Len(arrived) + 1}}
    BY <1>1 DEF Arrive
  <2>3. upcalls' \in Seq(Packets')
    <3>1. upcalls \in Seq(Packets')
      <4>1. upcalls \in Seq(Packets)
        BY DEF TypeInv
      <4> QED
        BY <2>1, <4>1, SeqGrows
    <3>2. upcalls' \in {upcalls, Append(upcalls, Len(arrived) + 1)}
      BY <1>1 DEF Arrive
    <3> DEFINE n == Len(arrived) + 1
               S == Packets'
    <3>3. n \in S
      BY <2>1
    <3> HIDE DEF n, S
    <3>4. Append(upcalls, n) \in Seq(S)
      BY <3>1, <3>3 DEF S
    <3> QED
      BY <3>1, <3>2, <3>4 DEF n, S
  <2>4. /\ outputs' \in Seq(ToSet(outputs'))
        /\ \A i \in DOMAIN outputs' :
             outputs'[i].packet \in Packets' /\ outputs'[i].by \in {"flow", "hub"}
    <3>1. CASE UNCHANGED outputs
      BY <2>1, <3>1 DEF TypeInv
    <3>2. CASE Execute(Len(arrived) + 1, flows[k], "flow")
      <4>1. /\ outputs' \in Seq(ToSet(outputs'))
            /\ DOMAIN outputs' = 1 .. Len(outputs) + 1 /\ DOMAIN outputs = 1 .. Len(outputs)
            /\ \A i \in DOMAIN outputs : outputs'[i] = outputs[i]
            /\ outputs'[Len(outputs) + 1].packet = Len(arrived) + 1
            /\ outputs'[Len(outputs) + 1].by = "flow" /\ Len(outputs) \in Nat
        BY <3>2, Executed
      <4>2. ASSUME NEW i \in DOMAIN outputs'
            PROVE  outputs'[i].packet \in Packets' /\ outputs'[i].by \in {"flow", "hub"}
        <5>1. i \in DOMAIN outputs \/ i = Len(outputs) + 1
          BY <4>1
        <5> QED
          BY <2>1, <4>1, <5>1 DEF TypeInv
      <4> QED
        BY <4>1, <4>2
    <3> QED
      BY <1>1, <3>1, <3>2 DEF Arrive
  <2> QED
    BY <2>1, <2>2, <2>3, <2>4 DEF TypeInv
<1>2. CASE Recv
  <2>1. /\ Head(upcalls) \in Packets /\ upcalls' \in Seq(Packets)
        /\ arrived[Head(upcalls)] \in Keys /\ None \notin Packets
    BY <1>2, NextUpcall, PacketsAre
  <2>2. key'.ethertype \in {"arp", "other", Absent}
    <3>1. key' = ParseKey(arrived[Head(upcalls)])
      BY <1>2 DEF Recv
    <3> QED
      BY <2>1, <3>1, ParsedKey
  <2>3. /\ UNCHANGED <<flood_mode, arrived, flows, outputs, lost, faults>>
        /\ Packets' = Packets
        /\ \/ pc' = "packet" /\ cur' = Head(upcalls) /\ UNCHANGED given
           \/ pc' = "recv" /\ cur' = None /\ given' = given \cup {Head(upcalls)}
    BY <1>2 DEF Recv, Return, Packets
  <2> QED
    BY <2>1, <2>2, <2>3 DEF TypeInv
<1>3. CASE PacketRun
  <2>1. /\ UNCHANGED <<flood_mode, arrived, upcalls, flows, key, lost, given, faults>>
        /\ pc = "packet" /\ Packets' = Packets
        /\ (pc' = "add" /\ cur' = cur) \/ (pc' = "recv" /\ cur' = None)
        /\ Execute(cur, Flood(key), "hub") /\ cur \in Packets
    BY <1>3, PacketsAre DEF PacketRun, PacketRunFor, Return, Goto, Packets, TypeInv
  <2>2. /\ outputs' \in Seq(ToSet(outputs'))
        /\ \A i \in DOMAIN outputs' :
             outputs'[i].packet \in Packets' /\ outputs'[i].by \in {"flow", "hub"}
    BY <2>1, Executed DEF TypeInv
  <2> QED
    BY <2>1, <2>2 DEF TypeInv
<1>4. CASE FlowAdd
  <2>1. /\ UNCHANGED <<flood_mode, arrived, upcalls, outputs, key, lost, given, faults>>
        /\ pc = "add" /\ Packets' = Packets
        /\ (pc' = "del" /\ cur' = cur) \/ (pc' = "recv" /\ cur' = None)
        /\ Install(arrived[cur], Flood(key))
    BY <1>4 DEF FlowAdd, FlowAddFor, Return, Goto, Packets
  <2>2. IsFiniteSet(DOMAIN flows')
    BY <2>1, FlowChanges DEF TypeInv
  <2> QED
    BY <2>1, <2>2 DEF TypeInv
<1>5. CASE FlowDel
  <2>1. /\ UNCHANGED <<flood_mode, arrived, upcalls, outputs, key, lost, given, faults>>
        /\ pc' = "recv" /\ cur' = None /\ Packets' = Packets
        /\ Uninstall(arrived[cur])
    BY <1>5 DEF FlowDel, Return, Packets
  <2>2. IsFiniteSet(DOMAIN flows')
    BY <2>1, FlowChanges DEF TypeInv
  <2> QED
    BY <2>1, <2>2 DEF TypeInv
<1>6. CASE Fail
  <2>1. /\ UNCHANGED <<flood_mode, arrived, upcalls, outputs, key, lost>>
        /\ pc' = "recv" /\ cur' = None /\ Packets' = Packets /\ faults' = faults + 1
        /\ given' = given \/ (pc = "packet" /\ given' = given \cup {cur})
        /\ \/ flows' = flows
           \/ Install(arrived[cur], Flood(key)) \/ Uninstall(arrived[cur])
    BY <1>6 DEF Fail, FailThen, Fault, Return, Packets
  <2>2. IsFiniteSet(DOMAIN flows')
    BY <2>1, FlowChanges DEF TypeInv
  <2>3. given' \subseteq Packets
    BY <2>1 DEF TypeInv
  <2> QED
    BY <2>1, <2>2, <2>3 DEF TypeInv
<1>7. CASE UNCHANGED vars
  BY <1>7 DEF TypeInv, Packets, vars
<1> QED
  BY <1>1, <1>2, <1>3, <1>4, <1>5, <1>6, <1>7 DEF Next, HubStep

\* TypeInv is an invariant.
THEOREM TypeInvariance == Spec => []TypeInv
  BY TypeInit, TypeStep, PTL DEF Spec

-----------------------------------------------------------------------------
(* Flows *)

\* Flows are added in flood_mode 3 and 4 only.
FlowInv ==
  /\ flood_mode < 3 => flows = <<>> /\ pc \notin {"add", "del"}
  /\ flood_mode = 4 => Cardinality(DOMAIN flows \ InHand) <= faults

\* What one set holds beyond another is finite and bounded by it.
LEMMA FewerLeft ==
  ASSUME NEW S, IsFiniteSet(S), NEW T, T \subseteq S
  PROVE  Cardinality(T) <= Cardinality(S) /\ Cardinality(T) \in Nat
  BY FS_Subset, FS_CardinalityType

\* FlowsGone is inductive: a flow that is not in hand is left by a failure.
LEMMA FlowStep == TypeInv /\ FlowInv /\ [Next]_vars => FlowInv'
<1> SUFFICES ASSUME TypeInv, FlowInv, [Next]_vars PROVE FlowInv'
  OBVIOUS
<1>1. /\ flood_mode \in 0 .. 4 /\ flood_mode' = flood_mode
      /\ IsFiniteSet(DOMAIN flows) /\ faults \in Nat
      /\ IsFiniteSet(DOMAIN flows \ InHand)
      /\ Cardinality(DOMAIN flows \ InHand) \in Nat
  <2>1. flood_mode' = flood_mode
    BY DEF Next, HubStep, Arrive, Recv, PacketRun, PacketRunFor, FlowAdd,
           FlowAddFor, FlowDel, Fail, FailThen, vars
  <2>2. IsFiniteSet(DOMAIN flows) /\ faults \in Nat /\ flood_mode \in 0 .. 4
    BY DEF TypeInv
  <2> QED
    BY <2>1, <2>2, FS_Difference, FS_CardinalityType
<1>2. ASSUME faults' = faults, DOMAIN flows' \ InHand' \subseteq DOMAIN flows \ InHand,
             flood_mode < 3 => flows' = <<>> /\ pc' \notin {"add", "del"}
      PROVE  FlowInv'
  BY <1>1, <1>2, FewerLeft DEF FlowInv
<1>3. ASSUME NEW k \in Keys, Arrive(k) PROVE FlowInv'
  <2>1. UNCHANGED <<flows, pc, cur, faults>>
    BY <1>3 DEF Arrive
  <2>2. cur # None => arrived'[cur] = arrived[cur]
    BY <1>3, ArrivedKeeps DEF TypeInv
  <2>3. InHand' = InHand
    BY <2>1, <2>2 DEF InHand
  <2> QED
    BY <1>2, <2>1, <2>3 DEF FlowInv
<1>4. CASE Recv
  <2>1. /\ UNCHANGED <<flows, faults>> /\ InHand = {}
        /\ pc' \in {"recv", "packet"}
    BY <1>4 DEF Recv, Return, TypeInv, InHand
  <2> QED
    BY <1>2, <2>1 DEF FlowInv
<1>5. CASE PacketRun
  <2>1. /\ UNCHANGED <<flows, faults, arrived>> /\ pc = "packet"
        /\ (flood_mode >= 3 /\ pc' = "add" /\ cur' = cur)
             \/ (~ (flood_mode >= 3) /\ pc' = "recv" /\ cur' = None)
    BY <1>5 DEF PacketRun, PacketRunFor, Return, Goto
  <2>2. CASE flood_mode >= 3
    BY <1>1, <1>2, <2>1, <2>2 DEF InHand
  <2>3. CASE flood_mode < 3
    BY <1>1, <1>2, <2>1, <2>3 DEF FlowInv
  <2> QED
    BY <1>1, <2>2, <2>3
<1>6. CASE FlowAdd
  <2>1. /\ UNCHANGED <<faults, arrived>> /\ pc = "add" /\ cur # None
        /\ Install(arrived[cur], Flood(key))
        /\ (flood_mode >= 4 /\ pc' = "del" /\ cur' = cur)
             \/ (~ (flood_mode >= 4) /\ pc' = "recv" /\ cur' = None)
    BY <1>6 DEF FlowAdd, FlowAddFor, Return, Goto, TypeInv
  <2>2. DOMAIN flows' = DOMAIN flows \cup {arrived[cur]}
    BY <1>1, <2>1, FlowChanges
  <2>3. flood_mode >= 3
    BY <1>1, <2>1 DEF FlowInv
  <2>4. CASE flood_mode = 4
    <3>1. InHand' = InHand /\ InHand = {arrived[cur]}
      BY <2>1, <2>4 DEF InHand
    <3> QED
      BY <1>2, <2>1, <2>2, <2>4, <3>1
  <2>5. CASE flood_mode = 3
    BY <1>1, <2>1, <2>5 DEF FlowInv
  <2> QED
    BY <1>1, <2>3, <2>4, <2>5
<1>7. CASE FlowDel
  <2>1. /\ UNCHANGED <<faults, arrived>> /\ pc = "del" /\ cur # None
        /\ Uninstall(arrived[cur]) /\ pc' = "recv" /\ cur' = None
    BY <1>7 DEF FlowDel, Return, TypeInv
  <2>2. DOMAIN flows' = DOMAIN flows \ {arrived[cur]}
    BY <1>1, <2>1, FlowChanges
  <2>3. InHand = {arrived[cur]} /\ InHand' = {}
    BY <2>1 DEF InHand
  <2>4. flood_mode >= 3
    BY <1>1, <2>1 DEF FlowInv
  <2> QED
    BY <1>1, <1>2, <2>1, <2>2, <2>3, <2>4
<1>8. CASE Fail
  <2>1. /\ faults' = faults + 1 /\ UNCHANGED arrived /\ pc' = "recv" /\ cur' = None
        /\ cur # None
        /\ \/ pc \in {"packet", "add", "del"} /\ flows' = flows
           \/ pc \in {"add", "del"} /\ (\/ Install(arrived[cur], Flood(key))
                                       \/ Uninstall(arrived[cur]))
    BY <1>8 DEF Fail, FailThen, Fault, Return, TypeInv
  <2>2. DOMAIN flows' \in {DOMAIN flows, DOMAIN flows \cup {arrived[cur]},
                          DOMAIN flows \ {arrived[cur]}}
    BY <1>1, <2>1, FlowChanges
  <2> DEFINE old == DOMAIN flows \ InHand
             k == arrived[cur]
  <2>3. DOMAIN flows' \ InHand' \subseteq old \cup {k}
    BY <2>1, <2>2 DEF InHand
  <2>4. IsFiniteSet(old \cup {k}) /\ Cardinality(old \cup {k}) <= Cardinality(old) + 1
    <3> HIDE DEF old, k
    <3>1. IsFiniteSet(old) /\ Cardinality(old) \in Nat
      BY <1>1 DEF old
    <3> QED
      BY <3>1, FS_AddElement
  <2>5. Cardinality(DOMAIN flows' \ InHand') <= Cardinality(old) + 1
    <3>1. Cardinality(old \cup {k}) \in Nat
      BY <2>4, FS_CardinalityType
    <3> DEFINE new == DOMAIN flows' \ InHand'
    <3> HIDE DEF new, old, k
    <3>2. new \subseteq old \cup {k}
      BY <2>3 DEF new
    <3>3. Cardinality(new) <= Cardinality(old \cup {k}) /\ Cardinality(new) \in Nat
      BY <2>4, <3>2, FewerLeft
    <3>4. Cardinality(old) \in Nat
      BY <1>1 DEF old
    <3>5. Cardinality(new) <= Cardinality(old) + 1
      BY <2>4, <3>1, <3>3, <3>4
    <3> QED
      BY <3>5 DEF new
  <2>6. flood_mode = 4 => Cardinality(DOMAIN flows' \ InHand') <= faults'
    <3>1. Cardinality(DOMAIN flows' \ InHand') \in Nat
      BY <2>3, <2>4, FewerLeft
    <3> QED
      BY <1>1, <2>1, <2>5, <3>1 DEF FlowInv
  <2>7. flood_mode < 3 => flows' = <<>>
    BY <1>1, <2>1 DEF FlowInv
  <2> QED
    BY <1>1, <2>1, <2>6, <2>7 DEF FlowInv
<1>9. CASE UNCHANGED vars
  BY <1>1, <1>2, <1>9 DEF FlowInv, InHand, vars
<1> QED
  BY <1>3, <1>4, <1>5, <1>6, <1>7, <1>8, <1>9 DEF Next, HubStep

\* There are none at the start.
LEMMA FlowInit == Init => FlowInv
<1>1. Init => flows = <<>> /\ DOMAIN flows = {} /\ pc = "recv" /\ faults = 0
  BY DEF Init
<1>2. Init => Cardinality(DOMAIN flows \ InHand) = 0
  BY <1>1, FS_EmptySet
<1> QED
  BY <1>1, <1>2 DEF FlowInv

\* FlowInv is an invariant.
LEMMA FlowInvariance == Spec => []FlowInv
  BY TypeInvariance, FlowInit, FlowStep, PTL DEF Spec

\* Flows are for flood_mode 3 and 4; in 4 each flow left behind is due to a
\* failure of its own.
THEOREM FlowsLeftByFaults == Spec => []FlowsGone
<1>1. FlowInv => FlowsGone
  BY DEF FlowInv, FlowsGone
<1> QED
  BY <1>1, FlowInvariance, PTL

-----------------------------------------------------------------------------
(* The order of packets *)

\* The upcalls wait in the order of their packets, behind the one hub holds;
\* what hub has had executed came before them all.
OrderInv ==
  /\ \A i, j \in DOMAIN upcalls : i < j => upcalls[i] < upcalls[j]
  /\ pc = "packet" => \A i \in DOMAIN upcalls : cur < upcalls[i]
  /\ \A o \in DOMAIN outputs :
       /\ outputs[o].by = "hub" =>
            /\ \A i \in DOMAIN upcalls : outputs[o].packet < upcalls[i]
            /\ pc = "packet" => outputs[o].packet < cur
       /\ outputs[o].by = "flow" => flood_mode >= 3
  /\ InOrder

\* One more upcall waits.
LEMMA UpcallAdded ==
  ASSUME TypeInv, NEW n, upcalls' = Append(upcalls, n)
  PROVE  /\ Len(upcalls) \in Nat /\ DOMAIN upcalls = 1 .. Len(upcalls)
         /\ DOMAIN upcalls' = 1 .. Len(upcalls) + 1
         /\ upcalls'[Len(upcalls) + 1] = n
         /\ \A i \in DOMAIN upcalls : upcalls'[i] = upcalls[i]
<1> DEFINE S == Packets \cup {n}
<1>1. upcalls \in Seq(S) /\ n \in S
  BY SeqGrows DEF TypeInv
<1> HIDE DEF S
<1> QED
  BY <1>1

\* Upcalls and outputs name packets, which are numbers.
LEMMA Numbers ==
  ASSUME TypeInv
  PROVE  /\ \A i \in DOMAIN upcalls : upcalls[i] \in Packets /\ upcalls[i] \in Nat
         /\ \A o \in DOMAIN outputs : /\ outputs[o].packet \in Packets
                                      /\ outputs[o].packet \in Nat
                                      /\ outputs[o].by \in {"flow", "hub"}
         /\ cur # None => cur \in Packets /\ cur \in Nat
         /\ Len(upcalls) \in Nat /\ DOMAIN upcalls = 1 .. Len(upcalls)
         /\ Len(outputs) \in Nat /\ DOMAIN outputs = 1 .. Len(outputs)
<1>1. /\ upcalls \in Seq(Packets) /\ outputs \in Seq(ToSet(outputs))
      /\ cur # None => cur \in Packets
      /\ \A o \in DOMAIN outputs :
           outputs[o].packet \in Packets /\ outputs[o].by \in {"flow", "hub"}
  BY DEF TypeInv
<1>2. \A i \in DOMAIN upcalls : upcalls[i] \in Packets
  BY <1>1
<1> QED
  BY <1>1, <1>2, PacketsAre

\* A packet that arrives comes after all others, one that hub has executed
\* comes before those that wait.
LEMMA OrderStep ==
  ASSUME TypeInv, FlowInv, OrderInv, [Next]_vars
  PROVE  OrderInv'
<1>1. ASSUME NEW k \in Keys, Arrive(k) PROVE OrderInv'
  <2> DEFINE n == Len(arrived) + 1
  <2>1. UNCHANGED <<pc, cur, flood_mode>> /\ n \in Nat /\ \A x \in Packets : x < n
    BY <1>1, ArrivedKeeps, PacketsAre DEF Arrive
  <2> HIDE DEF n
  <2>2. CASE k \in DOMAIN flows /\ Execute(n, flows[k], "flow") /\ UNCHANGED upcalls
    <3>1. flood_mode >= 3
      <4>1. flows # <<>> /\ flood_mode \in Nat
        BY <2>2 DEF TypeInv
      <4> QED
        BY <4>1 DEF FlowInv
    <3>2. /\ DOMAIN outputs' = 1 .. Len(outputs) + 1
          /\ outputs'[Len(outputs) + 1].packet = n /\ outputs'[Len(outputs) + 1].by = "flow"
          /\ \A i \in DOMAIN outputs : outputs'[i] = outputs[i]
      BY <2>2, Executed
    <3>3. \A i \in DOMAIN outputs' : i \in DOMAIN outputs \/ i = Len(outputs) + 1
      BY <3>2, Numbers
    <3>4. ASSUME NEW o \in DOMAIN outputs'
          PROVE  /\ outputs'[o].by = "hub" =>
                      /\ \A i \in DOMAIN upcalls' : outputs'[o].packet < upcalls'[i]
                      /\ pc' = "packet" => outputs'[o].packet < cur'
                 /\ outputs'[o].by = "flow" => flood_mode' >= 3
      BY <2>1, <2>2, <3>1, <3>2, <3>3 DEF OrderInv
    <3>5. InOrder'
      <4> SUFFICES ASSUME NEW i \in DOMAIN outputs', NEW j \in DOMAIN outputs', i < j,
                          outputs'[i].packet > outputs'[j].packet
                   PROVE  flood_mode >= 3 /\ outputs'[i].by = "flow" /\ outputs'[j].by = "hub"
        BY <2>1 DEF InOrder
      <4>1. i \in DOMAIN outputs
        BY <3>2, <3>3, Numbers
      <4>2. j # Len(outputs) + 1
        BY <2>1, <3>2, <4>1, Numbers
      <4> QED
        BY <3>2, <3>3, <4>1, <4>2 DEF OrderInv, InOrder
    <3> QED
      BY <2>1, <2>2, <3>4, <3>5 DEF OrderInv
  <2>3. CASE upcalls' = Append(upcalls, n) /\ UNCHANGED outputs
    <3>1. /\ DOMAIN upcalls' = 1 .. Len(upcalls) + 1
          /\ upcalls'[Len(upcalls) + 1] = n
          /\ \A i \in DOMAIN upcalls : upcalls'[i] = upcalls[i]
      BY <2>3, UpcallAdded
    <3>2. \A i \in DOMAIN upcalls' : i \in DOMAIN upcalls \/ i = Len(upcalls) + 1
      BY <3>1, Numbers
    <3>3. \A i, j \in DOMAIN upcalls' : i < j => upcalls'[i] < upcalls'[j]
      <4> SUFFICES ASSUME NEW i \in DOMAIN upcalls', NEW j \in DOMAIN upcalls', i < j
                   PROVE  upcalls'[i] < upcalls'[j]
        OBVIOUS
      <4>1. i \in DOMAIN upcalls
        BY <3>1, <3>2, Numbers
      <4> QED
        BY <2>1, <3>1, <3>2, <4>1, Numbers DEF OrderInv
    <3>4. pc' = "packet" => \A i \in DOMAIN upcalls' : cur' < upcalls'[i]
      <4> SUFFICES ASSUME pc = "packet", NEW i \in DOMAIN upcalls' PROVE cur < upcalls'[i]
        BY <2>1
      <4>1. cur < n
        BY <2>1, Numbers DEF TypeInv
      <4> QED
        BY <3>1, <3>2, <4>1 DEF OrderInv
    <3>5. ASSUME NEW o \in DOMAIN outputs, outputs[o].by = "hub", NEW i \in DOMAIN upcalls'
          PROVE  outputs[o].packet < upcalls'[i]
      BY <2>1, <3>1, <3>2, <3>5, Numbers DEF OrderInv
    <3> QED
      BY <2>1, <2>3, <3>3, <3>4, <3>5 DEF OrderInv, InOrder
  <2>4. CASE UNCHANGED <<upcalls, outputs>>
    BY <2>1, <2>4 DEF OrderInv, InOrder
  <2> QED
    BY <1>1, <2>2, <2>3, <2>4 DEF Arrive, n
<1>2. CASE Recv
  <2>1. /\ UNCHANGED <<outputs, flood_mode>> /\ pc' \in {"recv", "packet"}
        /\ pc' = "packet" => cur' = upcalls[1]
    BY <1>2, NextUpcall DEF Recv, Return
  <2>2. /\ Len(upcalls) \in Nat \ {0} /\ DOMAIN upcalls = 1 .. Len(upcalls)
        /\ DOMAIN upcalls' = 1 .. Len(upcalls) - 1
        /\ \A i \in DOMAIN upcalls' : i + 1 \in DOMAIN upcalls /\ upcalls'[i] = upcalls[i + 1]
    BY <1>2, NextUpcall
  <2>3. 1 \in DOMAIN upcalls /\ \A i \in DOMAIN upcalls' : 1 < i + 1
    BY <2>2
  <2>4. \A i, j \in DOMAIN upcalls' : i < j => upcalls'[i] < upcalls'[j]
    <3>1. \A i, j \in DOMAIN upcalls' : i < j => i + 1 < j + 1
      BY <2>2
    <3> QED
      BY <2>2, <3>1 DEF OrderInv
  <2>5. pc' = "packet" => \A i \in DOMAIN upcalls' : cur' < upcalls'[i]
    BY <2>1, <2>2, <2>3 DEF OrderInv
  <2>6. \A o \in DOMAIN outputs : outputs[o].by = "hub" =>
          /\ \A i \in DOMAIN upcalls' : outputs[o].packet < upcalls'[i]
          /\ pc' = "packet" => outputs[o].packet < cur'
    BY <2>1, <2>2, <2>3 DEF OrderInv
  <2> QED
    BY <2>1, <2>4, <2>5, <2>6 DEF OrderInv, InOrder
<1>3. CASE PacketRun
  <2>1. /\ UNCHANGED <<upcalls, flood_mode>> /\ pc = "packet" /\ pc' # "packet"
        /\ Execute(cur, Flood(key), "hub") /\ cur # None
    BY <1>3 DEF PacketRun, PacketRunFor, Return, Goto, TypeInv
  <2>2. /\ DOMAIN outputs' = 1 .. Len(outputs) + 1
        /\ outputs'[Len(outputs) + 1].packet = cur /\ outputs'[Len(outputs) + 1].by = "hub"
        /\ \A i \in DOMAIN outputs : outputs'[i] = outputs[i]
    BY <2>1, Executed
  <2>3. \A i \in DOMAIN outputs' : i \in DOMAIN outputs \/ i = Len(outputs) + 1
    BY <2>2, Numbers
  <2>4. ASSUME NEW o \in DOMAIN outputs'
        PROVE  /\ outputs'[o].by = "hub" =>
                    \A i \in DOMAIN upcalls' : outputs'[o].packet < upcalls'[i]
               /\ outputs'[o].by = "flow" => flood_mode' >= 3
    BY <2>1, <2>2, <2>3 DEF OrderInv
  <2>5. InOrder'
    <3> SUFFICES ASSUME NEW i \in DOMAIN outputs', NEW j \in DOMAIN outputs', i < j,
                        outputs'[i].packet > outputs'[j].packet
                 PROVE  flood_mode >= 3 /\ outputs'[i].by = "flow" /\ outputs'[j].by = "hub"
      BY <2>1 DEF InOrder
    <3>1. i \in DOMAIN outputs
      BY <2>2, <2>3, Numbers
    <3>2. CASE j \in DOMAIN outputs
      BY <2>2, <3>1, <3>2 DEF OrderInv, InOrder
    <3>3. CASE j = Len(outputs) + 1
      <4>1. ~ (outputs[i].packet < cur)
        BY <2>1, <2>2, <3>1, <3>3, Numbers
      <4>2. outputs[i].by = "flow"
        BY <2>1, <3>1, <4>1, Numbers DEF OrderInv
      <4> QED
        BY <2>1, <2>2, <3>1, <3>3, <4>2 DEF OrderInv
    <3> QED
      BY <2>3, <3>2, <3>3
  <2> QED
    BY <2>1, <2>4, <2>5 DEF OrderInv
<1>4. CASE FlowAdd \/ FlowDel \/ Fail \/ UNCHANGED vars
  <2>1. /\ UNCHANGED <<upcalls, outputs, flood_mode>>
        /\ pc' # "packet" \/ UNCHANGED <<pc, cur>>
    BY <1>4 DEF FlowAdd, FlowAddFor, FlowDel, Fail, FailThen, Return, Goto, vars
  <2> QED
    BY <2>1 DEF OrderInv, InOrder
<1> QED
  BY <1>1, <1>2, <1>3, <1>4 DEF Next, HubStep

\* Nothing has been forwarded at the start.
LEMMA OrderInit == Init => OrderInv
<1>1. Init => DOMAIN upcalls = {} /\ DOMAIN outputs = {}
  BY DEF Init
<1> QED
  BY <1>1 DEF OrderInv, InOrder

\* A packet overtakes another only by a flow, and only one that went up to hub.
THEOREM OvertakesByFlow == Spec => []InOrder
<1>1. TypeInv /\ FlowInv /\ OrderInv /\ [Next]_vars => OrderInv'
  BY OrderStep
<1>2. OrderInv => InOrder
  BY DEF OrderInv
<1> QED
  BY <1>1, <1>2, OrderInit, TypeInvariance, FlowInvariance, PTL DEF Spec

-----------------------------------------------------------------------------
(* Where a packet is *)

Waits(n) == \E i \in DOMAIN upcalls : upcalls[i] = n
Sent(n)  == \E i \in DOMAIN outputs : outputs[i].packet = n
Held(n)  == pc = "packet" /\ cur = n

OnePlace(n) ==
  /\ Waits(n) \/ Sent(n) \/ Held(n) \/ n \in lost \/ n \in given
  /\ Waits(n) => ~ Sent(n) /\ ~ Held(n) /\ n \notin lost /\ n \notin given
  /\ Sent(n)  => ~ Held(n) /\ n \notin lost /\ n \notin given
  /\ Held(n)  => n \notin lost /\ n \notin given
  /\ n \in lost => n \notin given

\* Each packet is in one place, and executed once.
PlaceInv ==
  /\ \A n \in Packets : OnePlace(n)
  /\ \A i, j \in DOMAIN outputs : outputs[i].packet = outputs[j].packet => i = j

\* What is waiting, executed, lost or given up has arrived.
LEMMA OnlyArrived ==
  ASSUME TypeInv, NEW n, n \notin Packets
  PROVE  ~ Waits(n) /\ ~ Sent(n) /\ ~ Held(n) /\ n \notin lost /\ n \notin given
<1>1. ~ Waits(n) /\ ~ Sent(n)
  BY Numbers DEF Waits, Sent
<1>2. ~ Held(n) /\ n \notin lost /\ n \notin given
  BY DEF Held, TypeInv
<1> QED
  BY <1>1, <1>2

\* One more output.
LEMMA SentAfter ==
  ASSUME TypeInv, NEW n, NEW actions, NEW who, Execute(n, actions, who),
         ~ Sent(n), \A i, j \in DOMAIN outputs : outputs[i].packet = outputs[j].packet => i = j
  PROVE  /\ \A x : Sent(x)' <=> Sent(x) \/ x = n
         /\ \A i, j \in DOMAIN outputs' : outputs'[i].packet = outputs'[j].packet => i = j
<1>1. /\ DOMAIN outputs' = 1 .. Len(outputs) + 1 /\ DOMAIN outputs = 1 .. Len(outputs)
      /\ outputs'[Len(outputs) + 1].packet = n /\ Len(outputs) \in Nat
      /\ \A i \in DOMAIN outputs : outputs'[i] = outputs[i]
  BY Executed
<1>2. /\ \A i \in DOMAIN outputs' : i \in DOMAIN outputs \/ i = Len(outputs) + 1
      /\ Len(outputs) + 1 \in DOMAIN outputs' /\ DOMAIN outputs \subseteq DOMAIN outputs'
  BY <1>1
<1>3. \A x : Sent(x)' <=> Sent(x) \/ x = n
  BY <1>1, <1>2 DEF Sent
<1>4. \A i, j \in DOMAIN outputs' : outputs'[i].packet = outputs'[j].packet => i = j
  BY <1>1, <1>2 DEF Sent
<1> QED
  BY <1>3, <1>4

\* A packet is in one place at a time.
LEMMA PlaceStep ==
  ASSUME TypeInv, OrderInv, PlaceInv, [Next]_vars
  PROVE  PlaceInv'
<1> USE DEF PlaceInv
<1>1. ASSUME NEW k \in Keys, Arrive(k) PROVE PlaceInv'
  <2> DEFINE n == Len(arrived) + 1
  <2>1. /\ UNCHANGED <<pc, cur, given>> /\ Packets' = Packets \cup {n} /\ n \notin Packets
        /\ \A x : Held(x)' <=> Held(x)
    BY <1>1, ArrivedKeeps DEF Arrive, Held
  <2> HIDE DEF n
  <2>2. ~ Waits(n) /\ ~ Sent(n) /\ ~ Held(n) /\ n \notin lost /\ n \notin given
    BY <2>1, OnlyArrived
  <2>3. CASE Execute(n, flows[k], "flow") /\ UNCHANGED <<upcalls, lost>>
    <3>1. /\ \A x : Sent(x)' <=> Sent(x) \/ x = n
          /\ \A i, j \in DOMAIN outputs' : outputs'[i].packet = outputs'[j].packet => i = j
      BY <2>2, <2>3, SentAfter
    <3>2. \A x : Waits(x)' <=> Waits(x)
      BY <2>3 DEF Waits
    <3>3. \A x \in Packets' : OnePlace(x)'
      BY <2>1, <2>2, <2>3, <3>1, <3>2 DEF OnePlace
    <3> QED
      BY <3>1, <3>3
  <2>4. CASE upcalls' = Append(upcalls, n) /\ UNCHANGED <<outputs, lost>>
    <3>1. /\ DOMAIN upcalls' = 1 .. Len(upcalls) + 1 /\ DOMAIN upcalls = 1 .. Len(upcalls)
          /\ upcalls'[Len(upcalls) + 1] = n /\ Len(upcalls) \in Nat
          /\ \A i \in DOMAIN upcalls : upcalls'[i] = upcalls[i]
      BY <2>4, UpcallAdded
    <3>2. /\ \A i \in DOMAIN upcalls' : i \in DOMAIN upcalls \/ i = Len(upcalls) + 1
          /\ Len(upcalls) + 1 \in DOMAIN upcalls' /\ DOMAIN upcalls \subseteq DOMAIN upcalls'
      BY <3>1
    <3>3. \A x : Waits(x)' <=> Waits(x) \/ x = n
      BY <3>1, <3>2 DEF Waits
    <3>4. \A x : Sent(x)' <=> Sent(x)
      BY <2>4 DEF Sent
    <3>5. \A x \in Packets' : OnePlace(x)'
      BY <2>1, <2>2, <2>4, <3>3, <3>4 DEF OnePlace
    <3> QED
      BY <2>4, <3>5
  <2>5. CASE lost' = lost \cup {n} /\ UNCHANGED <<upcalls, outputs>>
    <3>1. \A x : (Waits(x)' <=> Waits(x)) /\ (Sent(x)' <=> Sent(x))
      BY <2>5 DEF Waits, Sent
    <3>2. \A x \in Packets' : OnePlace(x)'
      BY <2>1, <2>2, <2>5, <3>1 DEF OnePlace
    <3> QED
      BY <2>5, <3>2
  <2> QED
    BY <1>1, <2>3, <2>4, <2>5 DEF Arrive, n
<1>2. CASE Recv
  <2> DEFINE n == upcalls[1]
  <2>1. /\ UNCHANGED <<arrived, outputs, lost>> /\ pc = "recv"
        /\ \/ pc' = "packet" /\ cur' = n /\ UNCHANGED given
           \/ pc' = "recv" /\ given' = given \cup {n}
    BY <1>2, NextUpcall DEF Recv, Return
  <2>2. /\ Len(upcalls) \in Nat \ {0} /\ DOMAIN upcalls = 1 .. Len(upcalls)
        /\ DOMAIN upcalls' = 1 .. Len(upcalls) - 1
        /\ \A i \in DOMAIN upcalls' : i + 1 \in DOMAIN upcalls /\ upcalls'[i] = upcalls[i + 1]
        /\ n \in Packets
    BY <1>2, NextUpcall
  <2>3. /\ 1 \in DOMAIN upcalls /\ \A i \in DOMAIN upcalls' : 1 < i + 1
        /\ \A i \in DOMAIN upcalls : i = 1 \/ (i - 1 \in DOMAIN upcalls' /\ i - 1 + 1 = i)
    BY <2>2
  <2>4. ASSUME NEW x PROVE Waits(x)' <=> Waits(x) /\ x # n
    <3>1. ASSUME NEW i \in DOMAIN upcalls' PROVE Waits(upcalls'[i]) /\ upcalls'[i] # n
      <4>1. n < upcalls[i + 1] /\ n \in Nat
        BY <2>2, <2>3, Numbers DEF OrderInv
      <4> QED
        BY <2>2, <4>1 DEF Waits
    <3>2. ASSUME NEW i \in DOMAIN upcalls, upcalls[i] # n
          PROVE  \E j \in DOMAIN upcalls' : upcalls'[j] = upcalls[i]
      BY <2>2, <2>3, <3>2
    <3> QED
      BY <3>1, <3>2 DEF Waits
  <2>5. Waits(n) /\ ~ Held(n)
    BY <2>1, <2>3 DEF Waits, Held
  <2>6. \A x : (Sent(x)' <=> Sent(x)) /\ ~ Held(x)
    BY <2>1 DEF Sent, Held
  <2> HIDE DEF n
  <2>7. \A x : Held(x)' <=> pc' = "packet" /\ x = n
    BY <2>1 DEF Held
  <2>8. \A x \in Packets : OnePlace(x)'
    BY <2>1, <2>2, <2>4, <2>5, <2>6, <2>7 DEF OnePlace
  <2> QED
    BY <2>1, <2>8 DEF Packets
<1>3. CASE PacketRun
  <2>1. /\ UNCHANGED <<arrived, upcalls, lost, given>> /\ pc = "packet" /\ pc' # "packet"
        /\ Execute(cur, Flood(key), "hub") /\ cur \in Packets
    BY <1>3, Numbers DEF PacketRun, PacketRunFor, Return, Goto, TypeInv
  <2>2. Held(cur)
    BY <2>1 DEF Held
  <2>3. /\ \A x : Sent(x)' <=> Sent(x) \/ x = cur
        /\ \A i, j \in DOMAIN outputs' : outputs'[i].packet = outputs'[j].packet => i = j
    <3>1. ~ Sent(cur)
      BY <2>1, <2>2 DEF OnePlace
    <3> QED
      BY <2>1, <3>1, SentAfter
  <2>4. \A x : (Waits(x)' <=> Waits(x)) /\ ~ Held(x)' /\ (Held(x) <=> x = cur)
    BY <2>1 DEF Waits, Held
  <2>5. \A x \in Packets : OnePlace(x)'
    BY <2>1, <2>2, <2>3, <2>4 DEF OnePlace
  <2> QED
    BY <2>1, <2>3, <2>5 DEF Packets
<1>4. CASE Fail /\ pc = "packet"
  <2>1. /\ UNCHANGED <<arrived, upcalls, outputs, lost>> /\ pc' = "recv"
        /\ given' = given \cup {cur} /\ cur \in Packets
    BY <1>4, Numbers DEF Fail, FailThen, Return, TypeInv
  <2>2. \A x : /\ Waits(x)' <=> Waits(x)
               /\ Sent(x)' <=> Sent(x)
               /\ ~ Held(x)' /\ (Held(x) <=> x = cur)
    BY <1>4, <2>1 DEF Waits, Sent, Held
  <2>3. \A x \in Packets : OnePlace(x)'
    BY <2>1, <2>2 DEF OnePlace
  <2> QED
    BY <2>1, <2>3 DEF Packets
<1>5. CASE FlowAdd \/ FlowDel \/ (Fail /\ pc # "packet") \/ UNCHANGED vars
  <2>1. /\ UNCHANGED <<arrived, upcalls, outputs, lost, given>>
        /\ (pc # "packet" /\ pc' # "packet") \/ UNCHANGED <<pc, cur>>
    BY <1>5 DEF FlowAdd, FlowAddFor, FlowDel, Fail, FailThen, Return, Goto, vars
  <2>2. \A x : /\ Waits(x)' <=> Waits(x)
               /\ Sent(x)' <=> Sent(x)
               /\ Held(x)' <=> Held(x)
    BY <2>1 DEF Waits, Sent, Held
  <2>3. \A x \in Packets : OnePlace(x)'
    BY <2>1, <2>2 DEF OnePlace
  <2> QED
    BY <2>1, <2>3 DEF Packets
<1> QED
  BY <1>1, <1>2, <1>3, <1>4, <1>5 DEF Next, HubStep

\* Before the first packet.
LEMMA PlaceInit == Init => PlaceInv
<1>1. Init => Packets = {} /\ DOMAIN outputs = {}
  BY DEF Init, Packets
<1> QED
  BY <1>1 DEF PlaceInv

\* PlaceInv is an invariant.
LEMMA PlaceInvariance == Spec => [](OrderInv /\ PlaceInv)
<1>1. TypeInv /\ FlowInv /\ OrderInv /\ [Next]_vars => OrderInv'
  BY OrderStep
<1>2. TypeInv /\ OrderInv /\ PlaceInv /\ [Next]_vars => PlaceInv'
  BY PlaceStep
<1> QED
  BY <1>1, <1>2, OrderInit, PlaceInit, TypeInvariance, FlowInvariance, PTL DEF Spec

\* What Places counts.
LEMMA CountedOnce ==
  ASSUME TypeInv, OrderInv, PlaceInv, NEW n \in Packets
  PROVE  Places(n) = 1
<1> DEFINE U == {i \in DOMAIN upcalls : upcalls[i] = n}
           F == Forwarded(n)
           S == {s \in {"held", "lost", "given"} :
                   \/ s = "held"  /\ pc = "packet" /\ cur = n
                   \/ s = "lost"  /\ n \in lost
                   \/ s = "given" /\ n \in given}
<1>1. OnePlace(n)
  BY DEF PlaceInv
<1>2. Cardinality(U) = IF Waits(n) THEN 1 ELSE 0
  <2>1. CASE Waits(n)
    <3>1. PICK i \in DOMAIN upcalls : upcalls[i] = n
      BY <2>1 DEF Waits
    <3>2. \A j \in DOMAIN upcalls : upcalls[j] = n => j = i
      BY <3>1, Numbers DEF OrderInv
    <3>3. U = {i}
      BY <3>1, <3>2
    <3> QED
      BY <2>1, <3>3, FS_Singleton
  <2>2. CASE ~ Waits(n)
    <3>1. U = {}
      BY <2>2 DEF Waits
    <3> QED
      BY <2>2, <3>1, FS_EmptySet
  <2> QED
    BY <2>1, <2>2
<1>3. Cardinality(F) = IF Sent(n) THEN 1 ELSE 0
  <2>1. CASE Sent(n)
    <3>1. PICK i \in DOMAIN outputs : outputs[i].packet = n
      BY <2>1 DEF Sent
    <3>2. F = {i}
      BY <3>1 DEF Forwarded, PlaceInv
    <3> QED
      BY <2>1, <3>2, FS_Singleton
  <2>2. CASE ~ Sent(n)
    <3>1. F = {}
      BY <2>2 DEF Sent, Forwarded
    <3> QED
      BY <2>2, <3>1, FS_EmptySet
  <2> QED
    BY <2>1, <2>2
<1>4. Cardinality(S) = IF Held(n) \/ n \in lost \/ n \in given THEN 1 ELSE 0
  <2>1. S = {} \/ S = {"held"} \/ S = {"lost"} \/ S = {"given"}
    BY <1>1 DEF OnePlace, Held
  <2>2. S = {} <=> ~ (Held(n) \/ n \in lost \/ n \in given)
    BY DEF Held
  <2> HIDE DEF S
  <2>3. S # {} => Cardinality(S) = 1
    BY <2>1, FS_Singleton
  <2> QED
    BY <2>2, <2>3, FS_EmptySet
<1>5. Places(n) = Cardinality(U) + Cardinality(F) + Cardinality(S)
  BY DEF Places
<1> HIDE DEF U, F, S
<1> QED
  BY <1>1, <1>2, <1>3, <1>4, <1>5 DEF OnePlace

-----------------------------------------------------------------------------
(* What is flooded and what is given up *)

\* flood_mode says that the packet is forwarded, as far as its key tells.
Allows(k)  == k.ethertype # Absent => Meant(k)
Demands(k) == k.ethertype # Absent /\ Meant(k)
Missed     == {n \in given : Demands(arrived[n])}

MeantInv ==
  /\ cur # None => Allows(arrived[cur])
  /\ \A o \in DOMAIN outputs : Allows(arrived[outputs[o].packet])
  /\ Cardinality(Missed) <= faults

\* MeantInv after a step: flood_mode is an option.
LEMMA MeantAfter ==
  ASSUME [Next]_vars
  PROVE  /\ flood_mode' = flood_mode
         /\ Missed' = {n \in given' : Demands(arrived'[n])}
         /\ MeantInv' <=>
              /\ cur' # None => Allows(arrived'[cur'])
              /\ \A o \in DOMAIN outputs' : Allows(arrived'[outputs'[o].packet])
              /\ Cardinality({n \in given' : Demands(arrived'[n])}) <= faults'
<1>1. flood_mode' = flood_mode
  BY DEF Next, HubStep, Arrive, Recv, PacketRun, PacketRunFor, FlowAdd,
         FlowAddFor, FlowDel, Fail, FailThen, vars
<1>2. \A x : (x \in DOMAIN outputs)' <=> x \in DOMAIN outputs'
  OBVIOUS
<1>3. Missed' = {n \in given' : Demands(arrived'[n])}
  BY <1>1 DEF Missed, Demands, Meant
<1>4. cur' # None => (Allows(arrived[cur])' <=> Allows(arrived'[cur']))
  BY <1>1 DEF Allows, Meant
<1>5. \A o : Allows(arrived[outputs[o].packet])' <=> Allows(arrived'[outputs'[o].packet])
  BY <1>1 DEF Allows, Meant
<1> QED
  BY <1>1, <1>3, <1>4, <1>5 DEF MeantInv

\* The mode lets hub forward every packet in hand or forwarded, and each
\* failure costs one packet at most.
LEMMA MeantStep ==
  ASSUME TypeInv, FlowInv, MeantInv, [Next]_vars
  PROVE  MeantInv'
<1>1. /\ IsFiniteSet(Missed) /\ Cardinality(Missed) \in Nat /\ faults \in Nat
      /\ flood_mode \in 0 .. 4 /\ None \notin Packets
      /\ given \subseteq Packets /\ cur \in Packets \cup {None}
      /\ \A o \in DOMAIN outputs : outputs[o].packet \in Packets
  <2>1. Missed \subseteq Packets
    BY DEF Missed, TypeInv
  <2> QED
    BY <2>1, PacketsAre, FS_Subset, FS_CardinalityType DEF TypeInv
<1>2. SUFFICES
        /\ cur' # None => Allows(arrived'[cur'])
        /\ \A o \in DOMAIN outputs' : Allows(arrived'[outputs'[o].packet])
        /\ Cardinality({n \in given' : Demands(arrived'[n])}) <= faults'
  BY MeantAfter
<1>3. ASSUME NEW k \in Keys, Arrive(k)
      PROVE  /\ cur' # None => Allows(arrived'[cur'])
             /\ \A o \in DOMAIN outputs' : Allows(arrived'[outputs'[o].packet])
             /\ Cardinality({n \in given' : Demands(arrived'[n])}) <= faults'
  <2> DEFINE n == Len(arrived) + 1
  <2>1. /\ UNCHANGED <<flood_mode, cur, given, faults>>
        /\ \A x \in Packets : arrived'[x] = arrived[x]
        /\ arrived'[n] = k
    BY <1>3, ArrivedKeeps DEF Arrive
  <2>2. {x \in given' : Demands(arrived'[x])} = Missed
    BY <1>1, <2>1 DEF Missed
  <2>3. CASE UNCHANGED outputs
    BY <1>1, <2>1, <2>2, <2>3 DEF MeantInv
  <2>4. CASE k \in DOMAIN flows /\ Execute(n, flows[k], "flow")
    <3>1. flood_mode >= 3
      BY <1>1, <2>4 DEF FlowInv
    <3>2. Allows(k)
      BY <1>1, <3>1 DEF Meant, Allows
    <3>3. /\ DOMAIN outputs' = 1 .. Len(outputs) + 1 /\ DOMAIN outputs = 1 .. Len(outputs)
          /\ outputs'[Len(outputs) + 1].packet = n /\ Len(outputs) \in Nat
          /\ \A i \in DOMAIN outputs : outputs'[i] = outputs[i]
      BY <2>4, Executed
    <3>4. \A i \in DOMAIN outputs' : i \in DOMAIN outputs \/ i = Len(outputs) + 1
      BY <3>3
    <3> HIDE DEF n
    <3>5. \A o \in DOMAIN outputs' : Allows(arrived'[outputs'[o].packet])
      BY <1>1, <2>1, <3>2, <3>3, <3>4 DEF MeantInv
    <3> QED
      BY <1>1, <2>1, <2>2, <3>5 DEF MeantInv
  <2> QED
    BY <1>3, <2>3, <2>4 DEF Arrive
<1>4. CASE Recv
  <2> DEFINE n == Head(upcalls)
  <2>1. /\ UNCHANGED <<arrived, outputs, faults>> /\ key' = ParseKey(arrived[n])
        /\ n \in Packets /\ arrived[n] \in Keys
        /\ \/ Floods(key') /\ cur' = n /\ UNCHANGED given
           \/ ~ Floods(key') /\ cur' = None /\ given' = given \cup {n}
    BY <1>4, NextUpcall, PacketsAre DEF Recv, Return
  <2>2. arrived[n].ethertype # Absent => (Floods(key') <=> Meant(arrived[n]))
    <3>1. ParseKey(arrived[n]).ethertype =
            IF arrived[n].ethertype = Absent THEN key.ethertype ELSE arrived[n].ethertype
      BY <2>1, ParsedKey
    <3> QED
      BY <2>1, <3>1 DEF Floods, Meant
  <2>3. Floods(key') => Allows(arrived[n])
    BY <2>2 DEF Allows
  <2>4. ~ Floods(key') => ~ Demands(arrived[n])
    BY <2>2 DEF Demands
  <2> HIDE DEF n
  <2>5. {x \in given' : Demands(arrived'[x])} = Missed
    BY <2>1, <2>4 DEF Missed
  <2> QED
    BY <2>1, <2>3, <2>5 DEF MeantInv
<1>5. CASE PacketRun
  <2>1. /\ UNCHANGED <<arrived, given, faults>> /\ pc = "packet"
        /\ cur' \in {cur, None} /\ cur # None /\ Execute(cur, Flood(key), "hub")
    BY <1>5 DEF PacketRun, PacketRunFor, Return, Goto, TypeInv
  <2>2. /\ DOMAIN outputs' = 1 .. Len(outputs) + 1 /\ DOMAIN outputs = 1 .. Len(outputs)
        /\ outputs'[Len(outputs) + 1].packet = cur /\ Len(outputs) \in Nat
        /\ \A i \in DOMAIN outputs : outputs'[i] = outputs[i]
    BY <2>1, Executed
  <2>3. \A i \in DOMAIN outputs' : i \in DOMAIN outputs \/ i = Len(outputs) + 1
    BY <2>2
  <2> QED
    BY <2>1, <2>2, <2>3 DEF MeantInv, Missed
<1>6. CASE FlowAdd \/ FlowDel \/ UNCHANGED vars
  <2>1. UNCHANGED <<arrived, outputs, given, faults>> /\ cur' \in {cur, None}
    BY <1>6 DEF FlowAdd, FlowAddFor, FlowDel, Return, Goto, vars
  <2> QED
    BY <2>1 DEF MeantInv, Missed
<1>7. CASE Fail
  <2>1. /\ UNCHANGED <<arrived, outputs>> /\ cur' = None /\ faults' = faults + 1
        /\ given' \in {given, given \cup {cur}}
    BY <1>7 DEF Fail, FailThen, Fault, Return
  <2> DEFINE M == {x \in given' : Demands(arrived'[x])}
  <2>2. M \in {Missed, Missed \cup {cur}}
    BY <2>1 DEF Missed
  <2> HIDE DEF M
  <2>3. Cardinality(M) <= Cardinality(Missed) + 1
    <3>1. Cardinality(Missed \cup {cur}) \in {Cardinality(Missed), Cardinality(Missed) + 1}
      BY <1>1, FS_AddElement
    <3> DEFINE c == Cardinality(Missed)
    <3>2. c \in Nat /\ Cardinality(M) \in {c, c + 1}
      BY <1>1, <2>2, <3>1
    <3> HIDE DEF c
    <3>3. Cardinality(M) <= c + 1
      BY <3>2
    <3> QED
      BY <3>3 DEF c
  <2>4. Cardinality(M) \in Nat
    BY <1>1, <2>2, FS_AddElement, FS_CardinalityType
  <2>5. Cardinality(M) <= faults'
    BY <1>1, <2>1, <2>3, <2>4 DEF MeantInv
  <2> QED
    BY <2>1, <2>5 DEF MeantInv, M
<1> QED
  BY <1>3, <1>4, <1>5, <1>6, <1>7 DEF Next, HubStep

\* Nothing has been forwarded or given up at the start.
LEMMA MeantInit == Init => MeantInv
<1> SUFFICES ASSUME Init PROVE MeantInv
  OBVIOUS
<1>1. cur = None /\ DOMAIN outputs = {} /\ faults = 0 /\ Missed = {}
  BY DEF Init, Missed
<1> QED
  BY <1>1, FS_EmptySet DEF MeantInv

\* However packets, failures and flows interleave, no packet is lost track of
\* or executed twice, and hub drops no more of those that flood_mode demands
\* than there were failures.
THEOREM PacketsAccounted == Spec => []Accounted
<1>1. TypeInv /\ FlowInv /\ MeantInv /\ [Next]_vars => MeantInv'
  BY MeantStep
<1>2. TypeInv /\ OrderInv /\ PlaceInv /\ MeantInv => Accounted
  <2> SUFFICES ASSUME TypeInv, OrderInv, PlaceInv, MeantInv PROVE Accounted
    OBVIOUS
  <2>1. \A n \in Packets : Places(n) = 1
    BY CountedOnce
  <2>2. \A n \in Packets : arrived[n].ethertype # Absent /\ Forwarded(n) # {}
                              => Meant(arrived[n])
    BY DEF MeantInv, Allows, Forwarded
  <2>3. Missed = {n \in given : arrived[n].ethertype # Absent /\ Meant(arrived[n])}
    BY DEF Missed, Demands
  <2> QED
    BY <2>1, <2>2, <2>3 DEF Accounted, MeantInv
<1> QED
  BY <1>1, <1>2, MeantInit, PlaceInvariance, TypeInvariance, FlowInvariance, PTL DEF Spec
-----------------------------------------------------------------------------
(* Flattened sequences *)

\* Induction up to n, over the set of the numbers a claim holds of.
LEMMA UpTo ==
  ASSUME NEW n \in Nat, NEW P, 1 \in P, \A m \in 1 .. n - 1 : m \in P => m + 1 \in P
  PROVE  1 .. n \subseteq P
<1> DEFINE Bad == {m \in Nat : m \in 1 .. n /\ m \notin P}
<1> SUFFICES ASSUME Bad # {} PROVE FALSE
  OBVIOUS
<1>1. \E m \in Bad : \A l \in Bad : ~ (<<l, m>> \in OpToRel(<, Nat))
  BY WFMin, NatLessThanWellFounded
<1>2. \A l, m \in Nat : l < m => <<l, m>> \in OpToRel(<, Nat)
  BY DEF OpToRel
<1>3. PICK m \in Bad : \A l \in Bad : ~ (l < m)
  BY <1>1, <1>2
<1>4. m \in 2 .. n
  BY <1>3
<1>5. m - 1 \in 1 .. n - 1 /\ m - 1 \in P /\ (m - 1) + 1 = m
  BY <1>3, <1>4
<1> QED
  BY <1>3, <1>5

\* FlattenSeq concatenates one sequence after the other.
LEMMA Flattening ==
  ASSUME NEW S, NEW seqs \in Seq(Seq(S)), seqs # <<>>
  PROVE  \E f \in [1 .. Len(seqs) -> Seq(S)] :
           /\ f[1] = seqs[1] /\ FlattenSeq(seqs) = f[Len(seqs)]
           /\ \A i \in 2 .. Len(seqs) : f[i] = f[i - 1] \o seqs[i]
<1> DEFINE n == Len(seqs)
           Next1(f, m) == [i \in 1 .. m |-> IF i = 1 THEN seqs[i] ELSE f[i - 1] \o seqs[i]]
           P == {m \in 1 .. n : \E f \in [1 .. m -> Seq(S)] : f = Next1(f, m)}
           Flat == CHOOSE f : f = Next1(f, n)
<1>1. n \in Nat \ {0} /\ \A i \in 1 .. n : seqs[i] \in Seq(S)
  OBVIOUS
<1>2. 1 \in P
  <2> DEFINE g == [i \in 1 .. 1 |-> seqs[1]]
  <2>1. g \in [1 .. 1 -> Seq(S)]
    BY <1>1
  <2>2. g = Next1(g, 1)
    OBVIOUS
  <2> HIDE DEF g, Next1
  <2> QED
    BY <1>1, <2>1, <2>2
<1>3. ASSUME NEW m \in 1 .. n - 1, m \in P PROVE m + 1 \in P
  <2>1. PICK f \in [1 .. m -> Seq(S)] : f = Next1(f, m)
    BY <1>3
  <2> DEFINE g == [i \in 1 .. m + 1 |-> IF i <= m THEN f[i] ELSE f[m] \o seqs[m + 1]]
  <2>2. g \in [1 .. m + 1 -> Seq(S)]
    BY <1>1, <2>1
  <2>3. \A i \in 1 .. m : g[i] = f[i] /\ f[i] = IF i = 1 THEN seqs[i] ELSE f[i - 1] \o seqs[i]
    <3> DEFINE h == Next1(f, m)
    <3>1. \A i \in 1 .. m : h[i] = IF i = 1 THEN seqs[i] ELSE f[i - 1] \o seqs[i]
      OBVIOUS
    <3>2. f = h
      BY <2>1
    <3>3. \A i \in 1 .. m : g[i] = f[i]
      OBVIOUS
    <3> HIDE DEF h, g
    <3> QED
      BY <3>1, <3>2, <3>3
  <2>4. g[m + 1] = g[m] \o seqs[m + 1] /\ m + 1 # 1 /\ (m + 1) - 1 = m
    <3>1. m \in 1 .. m /\ m + 1 \in 1 .. m + 1 /\ ~ (m + 1 <= m)
      OBVIOUS
    <3>2. g[m + 1] = f[m] \o seqs[m + 1]
      BY <3>1
    <3>3. g[m] = f[m]
      BY <2>3, <3>1
    <3> HIDE DEF g
    <3> QED
      BY <3>2, <3>3
  <2>5. \A i \in 1 .. m + 1 : g[i] = IF i = 1 THEN seqs[i] ELSE g[i - 1] \o seqs[i]
    <3> TAKE i \in 1 .. m + 1
    <3> HIDE DEF g
    <3>1. CASE i <= m
      <4>1. i \in 1 .. m /\ (i = 1 \/ (i - 1 \in 1 .. m /\ i # 1))
        BY <3>1
      <4> QED
        BY <2>3, <4>1
    <3>2. CASE i = m + 1
      BY <2>4, <3>2
    <3> QED
      BY <3>1, <3>2
  <2>6. g = Next1(g, m + 1)
    BY <2>5
  <2>7. m + 1 \in 1 .. n
    BY <1>1
  <2> HIDE DEF g, Next1, n
  <2> QED
    BY <2>2, <2>6, <2>7
<1>4. n \in P
  <2> HIDE DEF P, n
  <2>1. 1 .. n \subseteq P
    BY <1>1, <1>2, <1>3, UpTo
  <2> QED
    BY <1>1, <2>1
<1>5. Flat = Next1(Flat, n)
  BY <1>4
<1>6. FlattenSeq(seqs) = Flat[n]
  BY <1>1 DEF FlattenSeq
<1> HIDE DEF Flat
<1>7. /\ DOMAIN Flat = 1 .. n /\ Flat[1] = seqs[1]
      /\ \A i \in 2 .. n : Flat[i] = Flat[i - 1] \o seqs[i]
  <2> DEFINE h == Next1(Flat, n)
  <2>1. /\ DOMAIN h = 1 .. n /\ h[1] = seqs[1]
        /\ \A i \in 2 .. n : h[i] = Flat[i - 1] \o seqs[i]
    <3>1. 1 \in 1 .. n /\ \A i \in 2 .. n : i \in 1 .. n /\ i # 1
      BY <1>1
    <3>2. \A i \in 1 .. n : h[i] = IF i = 1 THEN seqs[i] ELSE Flat[i - 1] \o seqs[i]
      OBVIOUS
    <3>3. DOMAIN h = 1 .. n
      OBVIOUS
    <3> HIDE DEF h, n
    <3> QED
      BY <3>1, <3>2, <3>3
  <2>2. Flat = h
    BY <1>5
  <2> HIDE DEF h
  <2> QED
    BY <2>1, <2>2
<1>8. 1 .. n \subseteq {m \in 1 .. n : Flat[m] \in Seq(S)}
  <2> DEFINE Q == {m \in 1 .. n : Flat[m] \in Seq(S)}
  <2>1. 1 \in Q
    BY <1>1, <1>7
  <2>2. ASSUME NEW m \in 1 .. n - 1, m \in Q PROVE m + 1 \in Q
    <3>1. m + 1 \in 2 .. n /\ (m + 1) - 1 = m
      OBVIOUS
    <3>2. Flat[m + 1] = Flat[m] \o seqs[m + 1]
      BY <1>7, <3>1
    <3>3. Flat[m] \o seqs[m + 1] \in Seq(S)
      BY <1>1, <2>2, <3>1
    <3>4. m + 1 \in 1 .. n
      BY <1>1
    <3> QED
      BY <3>2, <3>3, <3>4
  <2> HIDE DEF Q
  <2>3. 1 .. n \subseteq Q
    BY <1>1, <2>1, <2>2, UpTo
  <2> QED
    BY <2>3 DEF Q
<1>9. Flat \in [1 .. n -> Seq(S)]
  <2>1. Flat = [i \in 1 .. n |-> Flat[i]]
    BY <1>5
  <2> QED
    BY <1>8, <2>1
<1> QED
  BY <1>6, <1>7, <1>9
\* What a concatenation holds, and when it holds nothing twice.
LEMMA Concatenated ==
  ASSUME NEW S, NEW s \in Seq(S), NEW t \in Seq(S), IsInjective(s), IsInjective(t),
         ToSet(s) \cap ToSet(t) = {}
  PROVE  IsInjective(s \o t) /\ ToSet(s \o t) = ToSet(s) \cup ToSet(t)
<1>1. /\ Len(s) \in Nat /\ Len(t) \in Nat /\ DOMAIN s = 1 .. Len(s) /\ DOMAIN t = 1 .. Len(t)
      /\ DOMAIN (s \o t) = 1 .. Len(s) + Len(t)
      /\ \A i \in 1 .. Len(s) + Len(t) :
           (s \o t)[i] = IF i <= Len(s) THEN s[i] ELSE t[i - Len(s)]
  OBVIOUS
<1>2. \A i \in 1 .. Len(s) + Len(t) : IF i <= Len(s) THEN i \in DOMAIN s
                                                     ELSE i - Len(s) \in DOMAIN t
  BY <1>1
<1>3. \A i \in DOMAIN s : i \in DOMAIN (s \o t) /\ (s \o t)[i] = s[i]
  BY <1>1
<1>4. \A i \in DOMAIN t : i + Len(s) \in DOMAIN (s \o t) /\ (s \o t)[i + Len(s)] = t[i]
  <2> TAKE i \in DOMAIN t
  <2>1. i + Len(s) \in 1 .. Len(s) + Len(t) /\ ~ (i + Len(s) <= Len(s)) /\ (i + Len(s)) - Len(s) = i
    BY <1>1
  <2> QED
    BY <1>1, <2>1
<1>5. ToSet(s \o t) = ToSet(s) \cup ToSet(t)
  <2>1. ToSet(s \o t) \subseteq ToSet(s) \cup ToSet(t)
    BY <1>1, <1>2 DEF ToSet
  <2>2. ToSet(s) \subseteq ToSet(s \o t)
    BY <1>3 DEF ToSet
  <2>3. ToSet(t) \subseteq ToSet(s \o t)
    BY <1>4 DEF ToSet
  <2> QED
    BY <2>1, <2>2, <2>3
<1>6. ASSUME NEW i \in DOMAIN (s \o t), NEW j \in DOMAIN (s \o t), (s \o t)[i] = (s \o t)[j]
      PROVE  i = j
  <2>1. CASE i <= Len(s) /\ j <= Len(s)
    BY <1>1, <1>2, <1>6, <2>1 DEF IsInjective
  <2>2. CASE ~ (i <= Len(s)) /\ ~ (j <= Len(s))
    <3>1. i - Len(s) = j - Len(s)
      BY <1>1, <1>2, <1>6, <2>2 DEF IsInjective
    <3> QED
      BY <1>1, <3>1
  <2>3. CASE (i <= Len(s)) # (j <= Len(s))
    <3>1. \A k \in DOMAIN (s \o t) : IF k <= Len(s) THEN (s \o t)[k] \in ToSet(s)
                                                     ELSE (s \o t)[k] \in ToSet(t)
      BY <1>1, <1>2 DEF ToSet
    <3> QED
      BY <1>6, <2>3, <3>1
  <2> QED
    BY <2>1, <2>2, <2>3
<1> QED
  BY <1>5, <1>6 DEF IsInjective

\* What sequences hold that are joined, and when it holds nothing twice.
LEMMA Flattened ==
  ASSUME NEW S, NEW seqs \in Seq(Seq(S)),
         \A i \in DOMAIN seqs : IsInjective(seqs[i]),
         \A i, j \in DOMAIN seqs : i # j => ToSet(seqs[i]) \cap ToSet(seqs[j]) = {}
  PROVE  /\ FlattenSeq(seqs) \in Seq(S) /\ IsInjective(FlattenSeq(seqs))
         /\ ToSet(FlattenSeq(seqs)) = UNION {ToSet(seqs[i]) : i \in DOMAIN seqs}
<1>1. CASE seqs = <<>>
  <2>1. FlattenSeq(seqs) = <<>> /\ DOMAIN seqs = {}
    BY <1>1 DEF FlattenSeq
  <2> QED
    BY <2>1 DEF ToSet, IsInjective
<1>2. CASE seqs # <<>>
  <2> DEFINE n == Len(seqs)
             Part(m) == UNION {ToSet(seqs[i]) : i \in 1 .. m}
  <2>1. n \in Nat \ {0} /\ DOMAIN seqs = 1 .. n /\ \A i \in 1 .. n : seqs[i] \in Seq(S)
    BY <1>2
  <2>2. PICK f \in [1 .. n -> Seq(S)] :
          /\ f[1] = seqs[1] /\ FlattenSeq(seqs) = f[n]
          /\ \A i \in 2 .. n : f[i] = f[i - 1] \o seqs[i]
    BY <1>2, Flattening
  <2> DEFINE Q == {m \in 1 .. n : IsInjective(f[m]) /\ ToSet(f[m]) = Part(m)}
  <2>3. 1 \in Q
    BY <2>1, <2>2
  <2>4. ASSUME NEW m \in 1 .. n - 1, m \in Q PROVE m + 1 \in Q
    <3>1. m + 1 \in 2 .. n /\ (m + 1) - 1 = m /\ m \in 1 .. n /\ m + 1 \in 1 .. n
      BY <2>1
    <3>2. f[m + 1] = f[m] \o seqs[m + 1] /\ f[m] \in Seq(S) /\ seqs[m + 1] \in Seq(S)
      BY <2>1, <2>2, <3>1
    <3>3. \A i \in 1 .. m : i \in 1 .. n /\ i # m + 1
      BY <2>1
    <3>4. ToSet(f[m]) \cap ToSet(seqs[m + 1]) = {}
      BY <2>1, <2>4, <3>1, <3>3
    <3>5. IsInjective(f[m + 1]) /\ ToSet(f[m + 1]) = Part(m) \cup ToSet(seqs[m + 1])
      BY <2>1, <2>4, <3>1, <3>2, <3>4, Concatenated
    <3>6. 1 .. m + 1 = (1 .. m) \cup {m + 1}
      BY <2>1
    <3>7. Part(m + 1) = Part(m) \cup ToSet(seqs[m + 1])
      BY <3>6
    <3> QED
      BY <3>1, <3>5, <3>7
  <2> HIDE DEF Q, n
  <2>5. 1 .. n \subseteq Q
    BY <2>1, <2>3, <2>4, UpTo
  <2>6. n \in Q /\ FlattenSeq(seqs) \in Seq(S)
    BY <2>1, <2>2, <2>5
  <2> QED
    BY <2>1, <2>2, <2>6 DEF Q
<1> QED
  BY <1>1, <1>2

-----------------------------------------------------------------------------
(* What a flood outputs *)

Port == [no : Nat, id : Nat, noflood : BOOLEAN]

\* No list holds a port twice.
LEMMA ListsAre ==
  /\ Lists \in Seq([tunnel : BOOLEAN, ports : Seq(Port)])
  /\ \A i \in DOMAIN Lists : Lists[i] \in ListSet
  /\ \A list \in ListSet : /\ list.tunnel \in BOOLEAN /\ list.ports \in Seq(Port)
                           /\ PortsOf(list) \subseteq Port /\ IsInjective(list.ports)
<1>1. Lists \in Seq([tunnel : BOOLEAN, ports : Seq(Port)])
  BY PortsAssumption DEF Port
<1>2. \A i \in DOMAIN Lists : Lists[i] \in ListSet
  BY DEF ListSet, ToSet
<1>3. ListSet \subseteq [tunnel : BOOLEAN, ports : Seq(Port)]
  <2> DEFINE T == [tunnel : BOOLEAN, ports : Seq(Port)]
  <2> HIDE DEF T
  <2>1. Lists \in Seq(T)
    BY <1>1 DEF T
  <2>2. \A i \in DOMAIN Lists : Lists[i] \in T
    BY <2>1
  <2> QED
    BY <2>2 DEF T, ListSet, ToSet
<1>4. ASSUME NEW list \in ListSet
      PROVE  PortsOf(list) \subseteq Port /\ IsInjective(list.ports)
  <2> DEFINE f == list.ports
  <2>1. f \in Seq(Port) /\ Len(f) \in Nat /\ DOMAIN f = 1 .. Len(f)
    BY <1>3
  <2>2. PortsOf(list) \subseteq Port
    BY <2>1 DEF PortsOf, ToSet
  <2>3. f \in Surjection(1 .. Len(f), PortsOf(list))
    BY <2>1 DEF Surjection, PortsOf, ToSet
  <2>4. IsFiniteSet(1 .. Len(f)) /\ Cardinality(1 .. Len(f)) = Len(f)
    BY <2>1, FS_Interval
  <2>5. Cardinality(PortsOf(list)) = Len(f)
    BY PortsAssumption
  <2> HIDE DEF f
  <2>6. f \in Injection(1 .. Len(f), PortsOf(list))
    BY <2>3, <2>4, <2>5, FS_SurjSameCardinalityImpliesInj
  <2> QED
    BY <2>2, <2>6 DEF Injection, f
<1> QED
  BY <1>1, <1>2, <1>3, <1>4

\* Ports of different lists are different, and a tunnel is in lists of tunnels.
LEMMA ListsApart ==
  /\ \A i, j \in DOMAIN Lists : i # j => PortsOf(Lists[i]) \cap PortsOf(Lists[j]) = {}
  /\ \A list \in ListSet : \A p \in PortsOf(list) : p \in Ports /\ (p \in Tunnels <=> list.tunnel)
<1>1. \A i, j \in DOMAIN Lists : i # j => PortsOf(Lists[i]) \cap PortsOf(Lists[j]) = {}
  BY PortsAssumption
<1>2. \A a, b \in ListSet : a = b \/ PortsOf(a) \cap PortsOf(b) = {}
  BY <1>1 DEF ListSet, ToSet
<1>3. ASSUME NEW list \in ListSet, NEW p \in PortsOf(list)
      PROVE  p \in Tunnels <=> list.tunnel
  <2>1. p \in Tunnels <=> \E l \in ListSet : l.tunnel /\ p \in PortsOf(l)
    BY DEF Tunnels
  <2>2. \A l \in ListSet : p \in PortsOf(l) => l = list
    BY <1>2
  <2> QED
    BY <2>1, <2>2
<1> QED
  BY <1>1, <1>3 DEF Ports

\* The ports of a list that is no list of tunnels.
LEMMA EmittedEach ==
  ASSUME NEW list \in ListSet, NEW k
  PROVE  /\ EmitEach(list, k) \in Seq(Port) /\ IsInjective(EmitEach(list, k))
         /\ ToSet(EmitEach(list, k)) = {p \in PortsOf(list) : ~p.noflood /\ p.no # k.in_port}
<1> DEFINE out(p) == ~p.noflood /\ p.no # k.in_port
           seqs == [i \in DOMAIN list.ports |->
                      IF out(list.ports[i]) THEN <<list.ports[i]>> ELSE <<>>]
<1>1. list.ports \in Seq(Port) /\ IsInjective(list.ports)
  BY ListsAre
<1>2. EmitEach(list, k) = FlattenSeq(seqs)
  <2>1. seqs = [i \in DOMAIN list.ports |->
                  LET p == list.ports[i]
                  IN  IF p.noflood \/ p.no = k.in_port THEN <<>> ELSE <<p>>]
    OBVIOUS
  <2> HIDE DEF seqs
  <2> QED
    BY <2>1 DEF EmitEach
<1>3. \A i \in DOMAIN list.ports : list.ports[i] \in Port /\ list.ports[i] \in PortsOf(list)
  BY <1>1 DEF PortsOf, ToSet
<1>4. /\ DOMAIN seqs = DOMAIN list.ports /\ seqs \in Seq(Seq(Port))
      /\ \A i \in DOMAIN list.ports :
           seqs[i] = IF out(list.ports[i]) THEN <<list.ports[i]>> ELSE <<>>
  <2>1. DOMAIN list.ports = 1 .. Len(list.ports) /\ Len(list.ports) \in Nat
    BY <1>1
  <2>2. \A i \in DOMAIN list.ports : seqs[i] \in Seq(Port)
    BY <1>3
  <2>3. seqs \in [1 .. Len(list.ports) -> Seq(Port)]
    BY <2>1, <2>2
  <2> QED
    BY <2>1, <2>3
<1>5. \A p : ToSet(<<p>>) = {p} /\ IsInjective(<<p>>)
  BY DEF ToSet, IsInjective
<1>6. ToSet(<<>>) = {} /\ IsInjective(<<>>)
  BY DEF ToSet, IsInjective
<1>7. \A i \in DOMAIN seqs :
        ToSet(seqs[i]) = (IF out(list.ports[i]) THEN {list.ports[i]} ELSE {})
        /\ IsInjective(seqs[i])
  BY <1>4, <1>5, <1>6
<1>8. \A i, j \in DOMAIN seqs : i # j => ToSet(seqs[i]) \cap ToSet(seqs[j]) = {}
  <2> TAKE i, j \in DOMAIN seqs
  <2>1. i # j => list.ports[i] # list.ports[j]
    BY <1>1, <1>4 DEF IsInjective
  <2> HIDE DEF seqs, out
  <2>2. ToSet(seqs[i]) \subseteq {list.ports[i]} /\ ToSet(seqs[j]) \subseteq {list.ports[j]}
    BY <1>7
  <2> QED
    BY <2>1, <2>2
<1> HIDE DEF seqs
<1>9. /\ FlattenSeq(seqs) \in Seq(Port) /\ IsInjective(FlattenSeq(seqs))
      /\ ToSet(FlattenSeq(seqs)) = UNION {ToSet(seqs[i]) : i \in DOMAIN seqs}
  BY <1>4, <1>7, <1>8, Flattened
<1>10. UNION {ToSet(seqs[i]) : i \in DOMAIN seqs} = {p \in PortsOf(list) : out(p)}
  <2>1. \A p : p \in PortsOf(list) <=> \E i \in DOMAIN list.ports : p = list.ports[i]
    BY DEF PortsOf, ToSet
  <2> HIDE DEF out
  <2>2. \A i \in DOMAIN seqs :
          \A p : p \in ToSet(seqs[i]) <=> p = list.ports[i] /\ out(list.ports[i])
    BY <1>7
  <2>3. \A p : p \in UNION {ToSet(seqs[i]) : i \in DOMAIN seqs}
                <=> \E i \in DOMAIN list.ports : p = list.ports[i] /\ out(list.ports[i])
    BY <1>4, <2>2
  <2>4. \A p : p \in {q \in PortsOf(list) : out(q)}
                <=> \E i \in DOMAIN list.ports : p = list.ports[i] /\ out(list.ports[i])
    BY <2>1
  <2> HIDE DEF seqs
  <2> QED
    BY <2>3, <2>4
<1> QED
  BY <1>2, <1>9, <1>10

Emits(list, k) ==
  IF list.tunnel
  THEN IF \E p \in PortsOf(list) : ~p.noflood /\ ~IsIngress(p, k) THEN PortsOf(list) ELSE {}
  ELSE {p \in PortsOf(list) : ~p.noflood /\ p.no # k.in_port}

LEMMA Emitted ==
  ASSUME NEW list \in ListSet, NEW k
  PROVE  /\ Emit(list, k) \in Seq(Port) /\ IsInjective(Emit(list, k))
         /\ ToSet(Emit(list, k)) = Emits(list, k)
<1>1. list.ports \in Seq(Port) /\ IsInjective(list.ports) /\ ToSet(list.ports) = PortsOf(list)
  BY ListsAre DEF PortsOf
<1>2. <<>> \in Seq(Port) /\ IsInjective(<<>>) /\ ToSet(<<>>) = {}
  BY DEF ToSet, IsInjective
<1>3. CASE list.tunnel
  BY <1>1, <1>2, <1>3 DEF Emit, Emits
<1>4. CASE ~ list.tunnel
  BY <1>4, EmittedEach DEF Emit, Emits
<1> QED
  BY <1>3, <1>4

\* A flood outputs no port twice, and what is output of each list.
LEMMA FloodHolds ==
  ASSUME NEW k
  PROVE  /\ Flood(k) \in Seq(Port) /\ IsInjective(Flood(k))
         /\ ToSet(Flood(k)) = UNION {Emits(list, k) : list \in ListSet}
<1> DEFINE seqs == [i \in DOMAIN Lists |-> Emit(Lists[i], k)]
<1>1. /\ DOMAIN seqs = DOMAIN Lists
      /\ \A i \in DOMAIN Lists : seqs[i] = Emit(Lists[i], k) /\ Lists[i] \in ListSet
  BY ListsAre
<1>2. \A i \in DOMAIN Lists : /\ seqs[i] \in Seq(Port) /\ IsInjective(seqs[i])
                              /\ ToSet(seqs[i]) = Emits(Lists[i], k)
  BY <1>1, Emitted
<1>3. seqs \in Seq(Seq(Port))
  <2>1. DOMAIN Lists = 1 .. Len(Lists) /\ Len(Lists) \in Nat
    BY ListsAre
  <2>2. seqs = [i \in 1 .. Len(Lists) |-> seqs[i]]
    BY <2>1
  <2> HIDE DEF seqs
  <2> QED
    BY <1>2, <2>1, <2>2
<1>4. \A list \in ListSet : Emits(list, k) \subseteq PortsOf(list)
  BY DEF Emits
<1>5. \A i, j \in DOMAIN Lists : i # j => ToSet(seqs[i]) \cap ToSet(seqs[j]) = {}
  <2> TAKE i, j \in DOMAIN Lists
  <2>1. ToSet(seqs[i]) \subseteq PortsOf(Lists[i]) /\ ToSet(seqs[j]) \subseteq PortsOf(Lists[j])
    BY <1>1, <1>2, <1>4
  <2> QED
    BY <2>1, ListsApart
<1>6. Flood(k) = FlattenSeq(seqs)
  BY DEF Flood
<1> HIDE DEF seqs
<1>7. /\ FlattenSeq(seqs) \in Seq(Port) /\ IsInjective(FlattenSeq(seqs))
      /\ ToSet(FlattenSeq(seqs)) = UNION {ToSet(seqs[i]) : i \in DOMAIN seqs}
  BY <1>1, <1>2, <1>3, <1>5, Flattened
<1>8. UNION {ToSet(seqs[i]) : i \in DOMAIN seqs} = UNION {Emits(list, k) : list \in ListSet}
  BY <1>1, <1>2 DEF ListSet, ToSet
<1> QED
  BY <1>6, <1>7, <1>8

\* Where nothing is held twice there is one copy of what is held.
LEMMA CopiesOnce ==
  ASSUME NEW S, NEW s \in Seq(S), IsInjective(s), NEW p \in ToSet(s)
  PROVE  Copies(p, s) = 1
<1>1. PICK i \in DOMAIN s : s[i] = p
  BY DEF ToSet
<1>2. {l \in DOMAIN s : s[l] = p} = {i}
  BY <1>1 DEF IsInjective
<1> QED
  BY <1>2, FS_Singleton DEF Copies

\* What Reaches says of one output.
Right(k, ports) == Certain(k) =>
  /\ \A p \in FloodSet(k) \cup ToSet(ports) : Copies(p, ports) = 1
  /\ \A p \in ToSet(ports) \ FloodSet(k) : \E list \in ListSet :
       list.tunnel /\ p \in PortsOf(list) /\ PortsOf(list) \cap FloodSet(k) # {}

\* A parsed key has the port of the packet's, and its tunnel's id if there is one.
Tells(parsed, k) == parsed.in_port = k.in_port /\ (k.id # Absent => parsed.id = k.id)

\* A flood by a key that tells where a packet came from is right for the packet.
LEMMA FloodRight ==
  ASSUME NEW k, NEW parsed, Tells(parsed, k)
  PROVE  Right(k, Flood(parsed))
<1> SUFFICES ASSUME Certain(k) PROVE Right(k, Flood(parsed))
  BY DEF Right
<1> DEFINE out == Flood(parsed)
<1>1. out \in Seq(Port) /\ IsInjective(out)
      /\ \A p : p \in ToSet(out) <=> \E list \in ListSet : p \in Emits(list, parsed)
  BY FloodHolds
<1>2. ASSUME NEW list \in ListSet, list.tunnel, NEW p \in PortsOf(list)
      PROVE  p \in FloodSet(k) <=> ~p.noflood /\ ~IsIngress(p, parsed)
  <2>1. p \in Tunnels /\ p \in Ports
    BY <1>2, ListsApart
  <2>2. k.id = Absent => p.no # k.in_port
    BY <2>1 DEF Certain
  <2> QED
    BY <2>1, <2>2 DEF FloodSet, CameBy, IsIngress, Tells
<1>3. ASSUME NEW list \in ListSet, ~ list.tunnel, NEW p \in PortsOf(list)
      PROVE  p \in FloodSet(k) <=> p \in Emits(list, parsed)
  <2>1. p \notin Tunnels /\ p \in Ports
    BY <1>3, ListsApart
  <2> QED
    BY <1>3, <2>1 DEF FloodSet, CameBy, Emits, Tells
<1>4. ASSUME NEW list \in ListSet, list.tunnel
      PROVE  Emits(list, parsed)
               = IF PortsOf(list) \cap FloodSet(k) # {} THEN PortsOf(list) ELSE {}
  BY <1>2, <1>4 DEF Emits
<1>5. FloodSet(k) \subseteq ToSet(out)
  <2> SUFFICES ASSUME NEW p \in FloodSet(k) PROVE p \in ToSet(out)
    OBVIOUS
  <2>1. PICK list \in ListSet : p \in PortsOf(list)
    BY DEF FloodSet, Ports
  <2>2. p \in Emits(list, parsed)
    BY <1>3, <1>4, <2>1
  <2> QED
    BY <1>1, <2>2
<1>6. ASSUME NEW p \in ToSet(out) \ FloodSet(k)
      PROVE  \E list \in ListSet :
               list.tunnel /\ p \in PortsOf(list) /\ PortsOf(list) \cap FloodSet(k) # {}
  <2>1. PICK list \in ListSet : p \in Emits(list, parsed)
    BY <1>1
  <2>2. p \in PortsOf(list)
    BY <2>1 DEF Emits
  <2> QED
    BY <1>3, <1>4, <1>6, <2>1, <2>2
<1> HIDE DEF out
<1>7. \A p \in ToSet(out) : Copies(p, out) = 1
  BY <1>1, CopiesOnce
<1> QED
  BY <1>5, <1>6, <1>7 DEF Right, out

-----------------------------------------------------------------------------
(* Where packets go *)

\* What hub has executed, what the kernel's flows do, and what hub is about to
\* ask for is right for the packets it is done to.
ReachInv ==
  /\ \A i \in DOMAIN outputs : Right(arrived[outputs[i].packet], outputs[i].ports)
  /\ \A k \in DOMAIN flows : Right(k, flows[k])
  /\ pc # "recv" => Tells(key, arrived[cur])

\* One more output that is right leaves them all right.
LEMMA OutputAdded ==
  ASSUME TypeInv, ReachInv, NEW n, NEW actions, NEW who, Execute(n, actions, who),
         \A m \in Packets : arrived'[m] = arrived[m], Right(arrived'[n], actions)
  PROVE  \A i \in DOMAIN outputs' : Right(arrived'[outputs'[i].packet], outputs'[i].ports)
<1> TAKE i \in DOMAIN outputs'
<1>1. CASE i \in DOMAIN outputs
  <2>1. outputs'[i] = outputs[i]
    BY <1>1, Executed
  <2>2. arrived'[outputs[i].packet] = arrived[outputs[i].packet]
    BY <1>1 DEF TypeInv
  <2> QED
    BY <1>1, <2>1, <2>2 DEF ReachInv
<1>2. CASE i = Len(outputs')
  BY <1>2, Executed
<1> QED
  BY <1>1, <1>2, Executed

\* A flow that is installed or deleted leaves the others right.
LEMMA FlowAdded ==
  ASSUME ReachInv, NEW k, NEW actions, Right(k, actions), Install(k, actions)
  PROVE  \A l \in DOMAIN flows' : Right(l, flows'[l])
  BY DEF Install, ReachInv
LEMMA FlowDropped ==
  ASSUME ReachInv, NEW k, Uninstall(k)
  PROVE  \A l \in DOMAIN flows' : Right(l, flows'[l])
  BY DEF Uninstall, ReachInv

\* ReachInv is inductive.
LEMMA ReachStep == TypeInv /\ ReachInv /\ [Next]_vars => ReachInv'
<1> SUFFICES ASSUME TypeInv, ReachInv, [Next]_vars PROVE ReachInv'
  OBVIOUS
<1>1. ASSUME UNCHANGED <<arrived, outputs>>,
             \A k \in DOMAIN flows' : Right(k, flows'[k]),
             (pc # "recv")' => Tells(key', arrived[cur'])
      PROVE  ReachInv'
  BY <1>1 DEF ReachInv
<1>2. ASSUME NEW k \in Keys, Arrive(k) PROVE ReachInv'
  <2> DEFINE n == Len(arrived) + 1
  <2>1. /\ UNCHANGED <<flows, pc, cur, key>> /\ arrived'[n] = k
        /\ \A m \in Packets : arrived'[m] = arrived[m]
    BY <1>2, ArrivedKeeps DEF Arrive
  <2>2. \/ k \in DOMAIN flows /\ Execute(n, flows[k], "flow")
        \/ outputs' = outputs
    BY <1>2 DEF Arrive
  <2>3. \A i \in DOMAIN outputs' : Right(arrived'[outputs'[i].packet], outputs'[i].ports)
    <3>1. CASE k \in DOMAIN flows /\ Execute(n, flows[k], "flow")
      <4>1. Right(arrived'[n], flows[k])
        BY <2>1, <3>1 DEF ReachInv
      <4> HIDE DEF n
      <4> QED
        BY <2>1, <3>1, <4>1, OutputAdded
    <3>2. CASE outputs' = outputs
      BY <2>1, <3>2 DEF ReachInv, TypeInv
    <3> QED
      BY <2>2, <3>1, <3>2
  <2>4. pc # "recv" => arrived'[cur] = arrived[cur]
    BY <2>1 DEF TypeInv
  <2> QED
    BY <2>1, <2>3, <2>4 DEF ReachInv
<1>3. CASE Recv
  <2>1. /\ UNCHANGED <<arrived, outputs, flows>>
        /\ key' = ParseKey(arrived[Head(upcalls)])
        /\ (pc' = "packet" /\ cur' = Head(upcalls)) \/ pc' = "recv"
    BY <1>3 DEF Recv, Return
  <2>2. Tells(ParseKey(arrived[Head(upcalls)]), arrived[Head(upcalls)])
    BY DEF Tells, ParseKey
  <2> QED
    BY <1>1, <2>1, <2>2 DEF ReachInv
<1>4. CASE PacketRun
  <2>1. /\ UNCHANGED <<arrived, flows, key>> /\ pc = "packet"
        /\ Execute(cur, Flood(key), "hub")
        /\ (pc' = "add" /\ cur' = cur) \/ pc' = "recv"
    BY <1>4 DEF PacketRun, PacketRunFor, Return, Goto
  <2>2. Tells(key, arrived[cur])
    BY <2>1 DEF ReachInv
  <2>3. Right(arrived'[cur], Flood(key))
    BY <2>1, <2>2, FloodRight
  <2>4. \A i \in DOMAIN outputs' : Right(arrived'[outputs'[i].packet], outputs'[i].ports)
    BY <2>1, <2>3, OutputAdded
  <2> QED
    BY <2>1, <2>2, <2>4 DEF ReachInv
<1>5. CASE FlowAdd
  <2>1. /\ UNCHANGED <<arrived, outputs, key>> /\ pc = "add"
        /\ Install(arrived[cur], Flood(key))
        /\ (pc' = "del" /\ cur' = cur) \/ pc' = "recv"
    BY <1>5 DEF FlowAdd, FlowAddFor, Return, Goto
  <2>2. Tells(key, arrived[cur])
    BY <2>1 DEF ReachInv
  <2>3. Right(arrived[cur], Flood(key))
    BY <2>2, FloodRight
  <2> QED
    BY <1>1, <2>1, <2>2, <2>3, FlowAdded
<1>6. CASE FlowDel
  <2>1. /\ UNCHANGED <<arrived, outputs>> /\ Uninstall(arrived[cur]) /\ pc' = "recv"
    BY <1>6 DEF FlowDel, Return
  <2> QED
    BY <1>1, <2>1, FlowDropped
<1>7. CASE Fail
  <2>1. /\ UNCHANGED <<arrived, outputs, key>> /\ pc' = "recv"
        /\ \/ flows' = flows
           \/ pc = "add" /\ Install(arrived[cur], Flood(key))
           \/ Uninstall(arrived[cur])
    BY <1>7 DEF Fail, FailThen, Return
  <2>2. pc = "add" => Right(arrived[cur], Flood(key))
    BY FloodRight DEF ReachInv
  <2>3. \A k \in DOMAIN flows' : Right(k, flows'[k])
    BY <2>1, <2>2, FlowAdded, FlowDropped DEF ReachInv
  <2> QED
    BY <1>1, <2>1, <2>3
<1>8. CASE UNCHANGED vars
  BY <1>8 DEF vars, ReachInv
<1> QED
  BY <1>2, <1>3, <1>4, <1>5, <1>6, <1>7, <1>8 DEF Next, HubStep

LEMMA ReachInit == Init => ReachInv
<1> SUFFICES ASSUME Init PROVE ReachInv
  OBVIOUS
<1>1. DOMAIN outputs = {} /\ DOMAIN flows = {} /\ pc = "recv"
  BY DEF Init
<1> QED
  BY <1>1 DEF ReachInv

\* For any ports in any lists: whoever forwards a packet that tells where it
\* came from, by whatever flow, it leaves just once by each port of its flood,
\* and by no other but those of a list of tunnels with one in the flood.
THEOREM FloodReaches == Spec => []Reaches
<1>1. TypeInv /\ ReachInv => Reaches
  <2> SUFFICES ASSUME TypeInv, ReachInv, NEW o \in ToSet(outputs)
               PROVE  Right(arrived[o.packet], o.ports)
    BY DEF Reaches, Right
  <2>1. PICK i \in DOMAIN outputs : outputs[i] = o
    BY DEF ToSet
  <2> QED
    BY <2>1 DEF ReachInv
<1> QED
  BY <1>1, ReachInit, ReachStep, TypeInvariance, PTL DEF Spec
=============================================================================

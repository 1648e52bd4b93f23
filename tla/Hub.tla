--------------------------------- MODULE Hub ---------------------------------
(***************************************************************************)
(* What hub does with packets (hub.c: dispatch and flood; the builders     *)
(* flood and delete of packet.c and flow.c; action_output_tunnel of        *)
(* action.c).  The kernel forwards a packet by the flow for its key, and   *)
(* sends it up if there is none.  hub has each upcall executed with the    *)
(* actions of a flood; in flood_mode 3 it then installs a flow with these  *)
(* actions, and in flood_mode 4 deletes it again.  Packets go on arriving  *)
(* between these steps.                                                    *)
(*                                                                         *)
(* A step of hub is a packet_run or flow_exec with the outcomes Dispatch   *)
(* admits.  How an upcall's bytes become a struct key is Parse: here       *)
(* an upcall sets the fields it carries and leaves the others as they      *)
(* are.  Upcalls are taken in order (LossyChannel).  Left out: requests    *)
(* executed late after a failed poll() (TxRing), calls that never return,  *)
(* and the failures the kernel answers to packet_run, whose answers are    *)
(* never read and in the end fill its socket's queue.                      *)
(***************************************************************************)
EXTENDS Naturals, Sequences, FiniteSets, SequencesExt

CONSTANTS Lists,        \* ports[]: lists of ports of one type, as records
                        \* [tunnel, ports]; a port is [no, id, noflood]
          Keys,         \* flow keys: [in_port, id, ethertype]
          Absent,       \* a field the kernel has not put into a key
          None,         \* no packet
          QueueSize,    \* bound: upcalls in the dp socket
          MaxPackets,   \* bound: packets that arrive
          MaxFaults     \* bound: failures of hub's calls

PortsOf(list) == ToSet(list.ports)
ListSet   == ToSet(Lists)
Ports     == UNION {PortsOf(list) : list \in ListSet}
Tunnels   == UNION {PortsOf(list) : list \in {l \in ListSet : l.tunnel}}

ASSUME PortsAssumption ==
  /\ Lists \in Seq([tunnel : BOOLEAN,
                    ports  : Seq([no : Nat, id : Nat, noflood : BOOLEAN])])
  /\ \A list \in ListSet : Cardinality(PortsOf(list)) = Len(list.ports)
  /\ \A i, j \in DOMAIN Lists : i # j =>
       \A p \in PortsOf(Lists[i]), q \in PortsOf(Lists[j]) : p.no # q.no
ASSUME KeysAssumption ==
  \A k \in Keys : /\ k.in_port \in {p.no : p \in Ports}
                  /\ k.id \in Nat \cup {Absent}
                  /\ k.ethertype \in {"arp", "other", Absent}
ASSUME BoundsAssumption == {QueueSize, MaxPackets, MaxFaults} \subseteq Nat
ASSUME NoneAssumption   == None \notin Nat /\ Absent \notin Nat \cup {"arp", "other"}

VARIABLES flood_mode,   \* option -F
          arrived,      \* the keys of the packets that have arrived
          upcalls,      \* the numbers of those that wait in the dp socket
          flows,        \* the kernel's flows: key to actions
          outputs,      \* executions, in order: packet, its ports, who asked
          pc,           \* where hub is in flood
          cur,          \* the packet in hand
          key,          \* struct key of the packet socket
          lost,         \* history: upcalls dropped, the queue being full
          given,        \* history: packets hub has not had executed
          faults

vars == <<flood_mode, arrived, upcalls, flows, outputs, pc, cur, key, lost, given, faults>>

Init ==
  /\ flood_mode \in 0 .. 4
  /\ arrived = <<>>
  /\ upcalls = <<>>
  /\ flows   = <<>>
  /\ outputs = <<>>
  /\ pc      = "recv"
  /\ cur     = None
  /\ key     = [in_port |-> 0, id |-> 0, ethertype |-> Absent]
  /\ lost    = {}
  /\ given   = {}
  /\ faults  = 0

-----------------------------------------------------------------------------
(* The actions of a flood *)

\* The tunnels share a vport and are told apart by their ids.
IsIngress(p, k) == p.no = k.in_port /\ p.id = k.id

\* A plain port is output to but for the one the packet came in by.
EmitEach(list, k) == FlattenSeq([i \in DOMAIN list.ports |->
  LET p == list.ports[i] IN IF p.noflood \/ p.no = k.in_port THEN <<>> ELSE <<p>>])

\* The tunnel that is not the packet's own has the whole list set and output,
\* and ends the walk through the list.
EmitNoBreak(list, k) ==                                 \* mutant of Emit
  IF list.tunnel
  THEN FlattenSeq([i \in DOMAIN list.ports |->
         IF list.ports[i].noflood \/ IsIngress(list.ports[i], k) THEN <<>> ELSE list.ports])
  ELSE EmitEach(list, k)
Emit(list, k) ==
  IF list.tunnel
  THEN IF \E p \in PortsOf(list) : ~p.noflood /\ ~IsIngress(p, k) THEN list.ports ELSE <<>>
  ELSE EmitEach(list, k)

Flood(k) == FlattenSeq([i \in DOMAIN Lists |-> Emit(Lists[i], k)])

-----------------------------------------------------------------------------
(* The kernel *)

Execute(n, actions, who) ==
  outputs' = Append(outputs, [packet |-> n, ports |-> actions, by |-> who])

\* A packet arrives on a port.
Arrive(k) ==
  /\ Len(arrived) < MaxPackets
  /\ arrived' = Append(arrived, k)
  /\ LET n == Len(arrived) + 1
     IN  \/ /\ k \in DOMAIN flows
            /\ Execute(n, flows[k], "flow")
            /\ UNCHANGED <<upcalls, lost>>
         \/ /\ k \notin DOMAIN flows
            /\ Len(upcalls) < QueueSize
            /\ upcalls' = Append(upcalls, n)
            /\ UNCHANGED <<outputs, lost>>
         \/ /\ k \notin DOMAIN flows
            /\ Len(upcalls) = QueueSize
            /\ lost' = lost \cup {n}
            /\ UNCHANGED <<upcalls, outputs>>
  /\ UNCHANGED <<flood_mode, flows, pc, cur, key, given, faults>>

Install(k, actions) ==
  flows' = [j \in DOMAIN flows \cup {k} |-> IF j = k THEN actions ELSE flows[j]]
Uninstall(k) == flows' = [j \in DOMAIN flows \ {k} |-> flows[j]]

-----------------------------------------------------------------------------
(* hub *)

\* packet_parse sets what the key carries.
ParseKey(k) == [in_port   |-> k.in_port,
                id        |-> IF k.id = Absent THEN key.id ELSE k.id,
                ethertype |-> IF k.ethertype = Absent THEN key.ethertype ELSE k.ethertype]

FloodsLate(k) == flood_mode >= IF k.ethertype = "arp" THEN 2 ELSE 3
Floods(k) == flood_mode >= IF k.ethertype = "arp" THEN 1 ELSE 2   \* after its mutant

\* flood returns, to odp_loop.
Return == pc' = "recv" /\ cur' = None
Goto(label) == pc' = label /\ UNCHANGED cur

Fault == faults < MaxFaults /\ faults' = faults + 1

\* odp_loop, dispatch and packet_parse take an upcall; flood looks at its
\* ethertype.
Recv ==
  /\ pc = "recv"
  /\ upcalls # <<>>
  /\ upcalls' = Tail(upcalls)
  /\ LET n == Head(upcalls)
     IN  /\ key' = ParseKey(arrived[n])
         /\ \/ /\ Floods(key')
               /\ pc'  = "packet"
               /\ cur' = n
               /\ UNCHANGED given
            \/ /\ ~Floods(key')
               /\ Return
               /\ given' = given \cup {n}
  /\ UNCHANGED <<flood_mode, arrived, flows, outputs, lost, faults>>

\* packet_run(packet_flood), and the test for flood_mode 3.
PacketRunFor(mode) ==
  /\ pc = "packet"
  /\ Execute(cur, Flood(key), "hub")
  /\ IF flood_mode >= mode THEN Goto("add") ELSE Return
  /\ UNCHANGED <<flood_mode, arrived, upcalls, flows, key, lost, given, faults>>
PacketRunAdds == PacketRunFor(2)                        \* mutant of PacketRun
PacketRun == PacketRunFor(3)

\* flow_exec(flow_flood), and the test for flood_mode 4.
FlowAddFor(mode) ==
  /\ pc = "add"
  /\ Install(arrived[cur], Flood(key))
  /\ IF flood_mode >= mode THEN Goto("del") ELSE Return
  /\ UNCHANGED <<flood_mode, arrived, upcalls, outputs, key, lost, given, faults>>
FlowAddKeeps == FlowAddFor(5)                           \* mutant of FlowAdd
FlowAdd == FlowAddFor(4)

\* flow_exec(flow_delete).
FlowDel ==
  /\ pc = "del"
  /\ Uninstall(arrived[cur])
  /\ Return
  /\ UNCHANGED <<flood_mode, arrived, upcalls, outputs, key, lost, given, faults>>

\* A call fails: the kernel may have executed a flow_exec, and has not
\* executed a packet_run. flood returns -1 and odp_loop takes the next upcall.
FailThen(next) ==
  /\ Fault
  /\ \/ /\ pc = "packet"
        /\ given' = given \cup {cur}
        /\ UNCHANGED flows
     \/ /\ pc = "add"
        /\ Install(arrived[cur], Flood(key)) \/ UNCHANGED flows
        /\ UNCHANGED given
     \/ /\ pc = "del"
        /\ Uninstall(arrived[cur]) \/ UNCHANGED flows
        /\ UNCHANGED given
  /\ next
  /\ UNCHANGED <<flood_mode, arrived, upcalls, outputs, key, lost>>
FailStops == FailThen(pc' = "stopped" /\ cur' = None)   \* mutant of Fail
Fail == FailThen(Return)

HubStep == Recv \/ PacketRun \/ FlowAdd \/ FlowDel
Next == HubStep \/ Fail \/ \E k \in Keys : Arrive(k)

Spec == Init /\ [][Next]_vars

\* hub's loop is not stopped.
FairSpec == Spec /\ WF_vars(HubStep)

-----------------------------------------------------------------------------
(* Properties *)

Packets == DOMAIN arrived

\* The port a packet came in by, and the ports it is to be flooded to. A key
\* that leaves out a tunnel's id does not tell.
Certain(k)  == k.id # Absent \/ \A p \in Tunnels : p.no # k.in_port
CameBy(p, k) == p.no = k.in_port /\ (p \in Tunnels => p.id = k.id)
FloodSet(k) == {p \in Ports : ~p.noflood /\ ~CameBy(p, k)}
Copies(p, ports) == Cardinality({i \in DOMAIN ports : ports[i] = p})

\* Whoever forwards a packet, hub or a flow it installed for an earlier one,
\* it leaves by every port of the flood just once. It leaves by no other port,
\* and never by the one it came in by; but for a tunnel of a list of which
\* another tunnel is in the flood: the code hands such a list to
\* action_output_tunnel as a whole.
Reaches == \A o \in ToSet(outputs) :
  LET k == arrived[o.packet]
  IN  Certain(k) =>
        /\ \A p \in FloodSet(k) \cup ToSet(o.ports) : Copies(p, o.ports) = 1
        /\ \A p \in ToSet(o.ports) \ FloodSet(k) : \E list \in ListSet :
             list.tunnel /\ p \in PortsOf(list) /\ PortsOf(list) \cap FloodSet(k) # {}

\* A packet is forwarded later than one that arrived after it only if a flow
\* forwarded that one: packets sent up stay in order, and without flows
\* (flood_mode < 3) all do.
InOrder == \A i, j \in DOMAIN outputs :
  i < j /\ outputs[i].packet > outputs[j].packet =>
    flood_mode >= 3 /\ outputs[i].by = "flow" /\ outputs[j].by = "hub"

\* Every packet is in exactly one place: waiting, in hand, forwarded (once),
\* dropped by the kernel, or given up by hub; and hub gives up only what
\* flood_mode says, except after failures, and for frames without ethertype,
\* which it takes for what came before them.
Forwarded(n) == {i \in DOMAIN outputs : outputs[i].packet = n}
Places(n) == Cardinality({i \in DOMAIN upcalls : upcalls[i] = n})
             + Cardinality(Forwarded(n))
             + Cardinality({s \in {"held", "lost", "given"} :
                              \/ s = "held"  /\ pc = "packet" /\ cur = n
                              \/ s = "lost"  /\ n \in lost
                              \/ s = "given" /\ n \in given})
Meant(k) == flood_mode >= IF k.ethertype = "arp" THEN 1 ELSE 2
Accounted ==
  /\ \A n \in Packets : Places(n) = 1
  /\ \A n \in Packets : arrived[n].ethertype # Absent /\ Forwarded(n) # {} => Meant(arrived[n])
  /\ Cardinality({n \in given : arrived[n].ethertype # Absent /\ Meant(arrived[n])}) <= faults

\* Flows are for flood_mode 3 and 4; in 4 a flow that stays behind when its
\* upcall has been handled is due to a failure, and each failure leaves one
\* at most.
InHand == IF cur = None THEN {} ELSE {arrived[cur]}
FlowsGone ==
  /\ flood_mode < 3 => flows = <<>>
  /\ flood_mode = 4 => Cardinality(DOMAIN flows \ InHand) <= faults

\* Every upcall is handled, whatever failed before it.
Handled == \A n \in 1 .. MaxPackets :
  n \in ToSet(upcalls) ~> (n \in given \/ \E o \in ToSet(outputs) : o.packet = n)
=============================================================================

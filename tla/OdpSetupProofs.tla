--------------------------- MODULE OdpSetupProofs ---------------------------
(***************************************************************************)
(* What odp_new leaves in the kernel, for any lists of ports, any number   *)
(* of failures and crashes, and whatever earlier hubs have left.           *)
(***************************************************************************)
EXTENDS OdpSetup, SequenceTheorems, TLAPS

-----------------------------------------------------------------------------
(* Where odp_new is *)

Building == pc \in {"check", "group", "port", "list", "addr", "up", "loop"}

\* The k-th port of the i-th list, and its vport.
PortAt(i, k)  == Groups[i].ports[k]
VportAt(i, k) == VportOf(Groups[i], PortAt(i, k))

\* The lists before the one in hand, and the one in hand.
PlaceInv ==
  /\ gi \in 1 .. Len(Groups) + 1 /\ pi \in Nat \ {0}
  /\ pc \in {"down", "get", "del", "new"} \/ Building
  /\ pc \in {"port", "list", "addr", "up"} => gi <= Len(Groups)
  /\ pc \in {"list", "addr", "up"} => Group.type = "internal"
  /\ pc = "port" => /\ pi <= Len(Group.ports)
                    /\ Group.type = "internal" => pi >= 2
                    /\ IsTunnel(Group) => pi = 1
  /\ pc = "addr" => pi <= Len(Group.ports) + 1
  /\ pc = "up"   => pi <= Len(Group.ports) /\ Port \in Addressed
  /\ pc \in {"get", "del", "new", "check"} => gi = 1
  /\ pc = "loop" => gi = Len(Groups) + 1

-----------------------------------------------------------------------------
(* What has been built *)

\* The k-th port of the i-th list has its vport and its number.
PortDone(i, k) ==
  \/ i < gi
  \/ i = gi /\ pc \in {"list", "addr", "up"}
  \/ i = gi /\ pc = "port" /\ k < pi

\* The vports are the datapath's own and those of the ports done; all are this
\* hub's, and their numbers differ and have been recorded.
BuiltInv == Building =>
  /\ DpExists /\ vports[DpName].no = 0
  /\ \A i \in DOMAIN Groups : \A k \in DOMAIN Groups[i].ports : PortDone(i, k) =>
       VportAt(i, k) \in DOMAIN vports /\ portNo[PortAt(i, k)] = vports[VportAt(i, k)].no
  /\ \A v \in DOMAIN vports : v = DpName \/
       \E i \in DOMAIN Groups : \E k \in DOMAIN Groups[i].ports :
         PortDone(i, k) /\ v = VportAt(i, k)
  /\ \A v \in DOMAIN vports : vports[v].pid = hub
  /\ \A v, w \in DOMAIN vports : vports[v].no = vports[w].no => v = w

\* The k-th port of the i-th list has its address, and is up.
AddrDone(i, k) == i < gi \/ (i = gi /\ pc \in {"addr", "up"} /\ k < pi)
                         \/ (i = gi /\ k = pi /\ pc = "up")
LinkDone(i, k) == i < gi \/ (i = gi /\ pc \in {"addr", "up"} /\ k < pi)

\* The links listed have their numbers, and those of the ports done their
\* address.
LinkInv == Building =>
  /\ pc \in {"addr", "up"} => \A p \in Addressed \ missed : ifindex[p] = p
  /\ \A i \in DOMAIN Groups : \A k \in DOMAIN Groups[i].ports :
       PortAt(i, k) \in Addressed \ missed =>
         /\ AddrDone(i, k) => <<PortAt(i, k), PortAt(i, k)>> \in addrs
         /\ LinkDone(i, k) => PortAt(i, k) \in up

-----------------------------------------------------------------------------
(* What a hub without failures finds *)

\* Without a datapath there are no vports, and the devices of internal ports
\* have gone with their addresses; a hub that met no failure deletes a datapath
\* if there is one, and finds no address at a port before its own.
CleanInv ==
  /\ ~ DpExists => DOMAIN vports = {} /\ \A a \in addrs : a[1] \in Others
  /\ Building => \A a \in addrs :
       a[1] \in Others \/ \E i \in DOMAIN Groups : \E k \in DOMAIN Groups[i].ports :
                            AddrDone(i, k) /\ a[2] = PortAt(i, k)
  /\ clean => /\ pc = "del" => DpExists
              /\ pc = "new" => ~ DpExists
              /\ missed = {}
              /\ pc = "down" => ~ (hub > 0)

-----------------------------------------------------------------------------
(* The lists of ports *)

LEMMA ListsAre ==
  /\ DOMAIN Groups = 1 .. Len(Groups) /\ Len(Groups) \in Nat
  /\ \A i \in DOMAIN Groups :
       /\ Groups[i] \in GroupSet
       /\ DOMAIN Groups[i].ports = 1 .. Len(Groups[i].ports)
       /\ Len(Groups[i].ports) \in Nat \ {0}
       /\ Groups[i].type \in Tunnels \cup {"internal", "netdev"}
       /\ \A k \in DOMAIN Groups[i].ports :
            PortAt(i, k) \in Ports /\ PortAt(i, k) \in PortsOf(Groups[i])
<1>1. DOMAIN Groups = 1 .. Len(Groups) /\ Len(Groups) \in Nat
  BY GroupsAssumption
<1>2. \A i \in DOMAIN Groups : Groups[i] \in GroupSet
  BY DEF GroupSet
<1>3. ASSUME NEW i \in DOMAIN Groups
      PROVE  /\ DOMAIN Groups[i].ports = 1 .. Len(Groups[i].ports)
             /\ Len(Groups[i].ports) \in Nat \ {0}
             /\ Groups[i].type \in Tunnels \cup {"internal", "netdev"}
  BY <1>2, GroupsAssumption
<1>4. ASSUME NEW i \in DOMAIN Groups, NEW k \in DOMAIN Groups[i].ports
      PROVE  PortAt(i, k) \in Ports /\ PortAt(i, k) \in PortsOf(Groups[i])
  BY <1>2 DEF PortAt, Ports, PortsOf
<1> QED
  BY <1>1, <1>2, <1>3, <1>4

\* No two ports have one name.
LEMMA PortsDistinct ==
  ASSUME NEW i \in DOMAIN Groups, NEW k \in DOMAIN Groups[i].ports,
         NEW j \in DOMAIN Groups, NEW l \in DOMAIN Groups[j].ports,
         PortAt(i, k) = PortAt(j, l)
  PROVE  i = j /\ k = l
<1>1. i = j
  BY ListsAre, GroupsAssumption
<1> QED
  BY <1>1, ListsAre, GroupsAssumption DEF PortAt

\* Two ports share a vport if they are tunnels of one type.
LEMMA VportsDistinct ==
  ASSUME NEW i \in DOMAIN Groups, NEW k \in DOMAIN Groups[i].ports,
         NEW j \in DOMAIN Groups, NEW l \in DOMAIN Groups[j].ports,
         VportAt(i, k) = VportAt(j, l)
  PROVE  i = j /\ (IsTunnel(Groups[i]) \/ k = l)
<1>1. PortAt(i, k) \notin Tunnels /\ PortAt(j, l) \notin Tunnels
  BY ListsAre, GroupsAssumption
<1>2. CASE IsTunnel(Groups[i]) /\ IsTunnel(Groups[j])
  BY <1>2, GroupsAssumption DEF VportAt, VportOf
<1>3. CASE ~ IsTunnel(Groups[i]) /\ ~ IsTunnel(Groups[j])
  BY <1>3, PortsDistinct DEF VportAt, VportOf
<1> QED
  BY <1>1, <1>2, <1>3 DEF VportAt, VportOf, IsTunnel

\* The datapath's own port heads the list of internal ports.
LEMMA OwnPort ==
  /\ Internal \in GroupSet /\ Internal.type = "internal"
  /\ \A i \in DOMAIN Groups : Groups[i].type = "internal" => Groups[i] = Internal
  /\ \E i \in DOMAIN Groups : Groups[i] = Internal
  /\ \A i \in DOMAIN Groups : \A k \in DOMAIN Groups[i].ports :
       VportAt(i, k) = DpName <=> Groups[i].type = "internal" /\ k = 1
<1>1. Internal \in GroupSet /\ Internal.type = "internal"
  BY GroupsAssumption DEF Internal
<1>2. PICK i \in DOMAIN Groups : Groups[i] = Internal
  BY <1>1 DEF GroupSet
<1>3. \A j \in DOMAIN Groups : Groups[j].type = "internal" => j = i
  BY <1>1, <1>2, GroupsAssumption
<1>4. 1 \in DOMAIN Groups[i].ports /\ VportAt(i, 1) = DpName
  BY <1>1, <1>2, ListsAre DEF VportAt, VportOf, PortAt, DpName, IsTunnel, Tunnels
<1>5. ~ IsTunnel(Groups[i])
  BY <1>1, <1>2 DEF IsTunnel, Tunnels
<1>6. \A j \in DOMAIN Groups : \A k \in DOMAIN Groups[j].ports :
        VportAt(j, k) = DpName <=> Groups[j].type = "internal" /\ k = 1
  BY <1>1, <1>2, <1>3, <1>4, <1>5, VportsDistinct
<1> QED
  BY <1>1, <1>2, <1>3, <1>6

\* A port with an address is an internal one, and stands for itself.
LEMMA AddressedAre ==
  ASSUME NEW i \in DOMAIN Groups, NEW k \in DOMAIN Groups[i].ports,
         PortAt(i, k) \in Addressed
  PROVE  Groups[i].type = "internal" /\ VportAt(i, k) = PortAt(i, k)
<1>1. PICK j \in DOMAIN Groups : Groups[j] = Internal
  BY OwnPort
<1>2. PortAt(i, k) \in PortsOf(Groups[i]) \cap PortsOf(Groups[j])
  BY <1>1, ListsAre, AddressedAssumption
<1>3. i = j
  BY <1>2, GroupsAssumption
<1> QED
  BY <1>1, <1>3, OwnPort DEF VportAt, VportOf, IsTunnel, Tunnels

-----------------------------------------------------------------------------
(* Steps *)

\* odp_new goes on, to another command or out.
Passes(label) == pc' = label /\ UNCHANGED <<hub, gi, pi, portNo, ifindex, missed>>

LEMMA GetOldStep ==
  ASSUME GetOld
  PROVE  /\ pc = "get" /\ UNCHANGED kernelVars
         /\ Passes("del") \/ Passes("new")
         /\ clean' => clean /\ (pc' = "del" <=> DpExists)
  BY DEF GetOld, GetOldAs, Command, Goto, Fault, kernelVars, localVars, Passes

LEMMA DelOldStep ==
  ASSUME DelOld
  PROVE  /\ pc = "del"
         /\ \/ UNCHANGED kernelVars
            \/ /\ vports' = <<>> /\ addrs' = {a \in addrs : a[1] \in Others}
               /\ up' = up \cap Others
         /\ Passes("new") \/ Passes("down")
         /\ clean' => clean
         /\ clean' /\ DpExists => pc' = "new" /\ vports' = <<>>
  BY DEF DelOld, Command, Goto, Exit, Fault, kernelVars, localVars, Passes

LEMMA NewDpStep ==
  ASSUME NewDp
  PROVE  /\ pc = "new"
         /\ \/ UNCHANGED kernelVars
            \/ /\ ~ DpExists /\ vports' = [v \in {DpName} |-> [no |-> 0, pid |-> hub]]
               /\ UNCHANGED <<addrs, up>>
         /\ \/ Passes("check") /\ ~ UNCHANGED kernelVars
            \/ Passes("down")
         /\ clean' => clean
         /\ clean' /\ ~ DpExists => pc' = "check"
<1>1. ~ DpExists => vports # [v \in {DpName} |-> [no |-> 0, pid |-> hub]]
  BY DEF DpExists
<1> QED
  BY <1>1 DEF NewDp, Command, Goto, Exit, Fault, kernelVars, localVars, Passes

LEMMA GetNewStep ==
  ASSUME GetNew
  PROVE  /\ pc = "check" /\ UNCHANGED kernelVars
         /\ Passes("group") \/ Passes("down")
         /\ clean' => clean
         /\ clean' /\ DpExists => pc' = "group"
  BY DEF GetNew, Command, Goto, Exit, Fault, kernelVars, localVars, Passes

LEMMA AddPortStep ==
  ASSUME AddPort
  PROVE  /\ pc = "port"
         /\ LET v == VportAt(gi, pi)
                ports == IF IsTunnel(Group) THEN PortsOf(Group) ELSE {Port}
            IN  /\ \/ UNCHANGED kernelVars
                   \/ DpExists /\ v \notin DOMAIN vports /\ AddVport(v)
                /\ \/ /\ DpExists /\ v \notin DOMAIN vports /\ AddVport(v)
                      /\ NumberFor(ports) /\ UNCHANGED hub
                   \/ Passes("down")
                /\ clean' => clean
                /\ clean' /\ DpExists /\ v \notin DOMAIN vports => pc' # "down"
<1>1. VportAt(gi, pi) = VportOf(Group, Port)
  BY DEF VportAt, PortAt, Group, Port
<1>2. ASSUME NEW ports, NumberFor(ports), pc = "port"
      PROVE  pc' # "down"
  BY <1>2 DEF NumberFor
<1> QED
  BY <1>1, <1>2 DEF AddPort, AddPortFor, Command, Goto, Exit, Fault, kernelVars, localVars,
                    Passes

LEMMA LinkAddrStep ==
  ASSUME LinkAddr
  PROVE  /\ pc = "addr" /\ pi <= Len(Group.ports) /\ Port \in Addressed
         /\ LET d == ifindex[Port]
            IN  /\ UNCHANGED <<vports, up>>
                /\ addrs' = addrs
                     \/ (Exists(d) /\ <<d, Port>> \notin addrs /\ addrs' = addrs \cup {<<d, Port>>})
                /\ \/ Passes("up") /\ addrs' = addrs \cup {<<d, Port>>}
                   \/ Passes("down")
                /\ clean' => clean
                /\ clean' /\ Exists(d) /\ <<d, Port>> \notin addrs => pc' = "up"
  BY DEF LinkAddr, Command, Goto, Exit, Fault, kernelVars, localVars, Passes

LEMMA LinkUpStep ==
  ASSUME LinkUp
  PROVE  /\ pc = "up" /\ UNCHANGED <<vports, addrs>>
         /\ LET d == ifindex[Port]
            IN  /\ up' \in {up, up \cup {d}}
                /\ \/ NextPort /\ up' = up \cup {d} /\ UNCHANGED hub
                   \/ Passes("down")
                /\ clean' => clean
                /\ clean' /\ Exists(d) => pc' = "addr"
  BY DEF LinkUp, Command, Goto, Exit, Fault, kernelVars, localVars, Passes, NextPort

\* The steps by which a hub ends otherwise.
LEMMA EndStep ==
  ASSUME ListFail \/ LoopEnd \/ Crash
  PROVE  UNCHANGED kernelVars /\ Passes("down") /\ pc # "down" /\ ~ clean'
  BY DEF ListFail, LoopEnd, Crash, Exit, Goto, Fault, kernelVars, localVars, Passes

LEMMA ListStep ==
  ASSUME List \/ ListCut
  PROVE  \E unseen \in SUBSET Addressed :
           ListLinks(unseen) /\ (clean' => clean /\ unseen = {})
<1>1. ASSUME List PROVE ListLinks({}) /\ clean' = clean
  BY <1>1 DEF List
<1>2. ASSUME ListCut PROVE \E unseen \in SUBSET Addressed : ListLinks(unseen) /\ ~ clean'
  BY <1>2 DEF ListCut, Fault
<1> QED
  BY <1>1, <1>2

-----------------------------------------------------------------------------
(* odp_new keeps its place *)

LEMMA PlaceStep == PlaceInv /\ [Next]_vars => PlaceInv'
<1> SUFFICES ASSUME PlaceInv, [Next]_vars PROVE PlaceInv'
  OBVIOUS
<1> USE DEF PlaceInv, Building
<1>0. ASSUME Passes("down") PROVE PlaceInv'
  BY <1>0 DEF Passes
<1>1. CASE GetOld
  BY <1>1, GetOldStep DEF Passes
<1>2. CASE DelOld
  BY <1>2, DelOldStep, <1>0 DEF Passes
<1>3. CASE NewDp
  BY <1>3, NewDpStep, <1>0 DEF Passes
<1>4. CASE GetNew
  BY <1>4, GetNewStep, <1>0 DEF Passes
<1>5. CASE EnterGroup
  <2>1. /\ pc = "group" /\ gi <= Len(Groups) /\ gi' = gi
        /\ \/ Group.type = "internal" /\ pi' = 2
              /\ pc' = IF Len(Group.ports) < 2 THEN "list" ELSE "port"
           \/ Group.type # "internal" /\ pi' = 1 /\ pc' = "port"
    BY <1>5 DEF EnterGroup, EnterGroupAt
  <2>2. Len(Group.ports) \in Nat \ {0} /\ ~ (Group.type = "internal" /\ IsTunnel(Group))
    BY <2>1, ListsAre DEF Group, IsTunnel, Tunnels
  <2> QED
    BY <2>1, <2>2 DEF Group
<1>6. CASE LastGroup
  BY <1>6, ListsAre DEF LastGroup, Goto, localVars
<1>7. CASE AddPort
  <2>1. ASSUME NEW ports, NumberFor(ports), pc = "port" PROVE PlaceInv'
    <3>1. \/ /\ ~IsTunnel(Group) /\ pi < Len(Group.ports)
             /\ pi' = pi + 1 /\ UNCHANGED <<pc, gi>>
          \/ pc' = "list" /\ Group.type = "internal" /\ UNCHANGED <<pi, gi>>
          \/ pc' = "group" /\ gi' = gi + 1 /\ UNCHANGED pi
      BY <2>1 DEF NumberFor
    <3>2. Len(Group.ports) \in Nat /\ Len(Groups) \in Nat
      BY <2>1, ListsAre DEF Group
    <3> QED
      BY <2>1, <3>1, <3>2 DEF Group
  <2> QED
    BY <1>7, AddPortStep, <1>0, <2>1
<1>8. CASE List \/ ListCut
  <2>1. pc = "list" /\ pc' = "addr" /\ pi' = 1 /\ gi' = gi
    BY <1>8, ListStep DEF ListLinks
  <2>2. Len(Group.ports) \in Nat \ {0}
    BY <2>1, ListsAre DEF Group
  <2> QED
    BY <2>1, <2>2 DEF Group
<1>9. CASE NoAddr
  <2>1. /\ pc = "addr"
        /\ \/ pi <= Len(Group.ports) /\ pc' = "addr" /\ pi' = pi + 1 /\ gi' = gi
           \/ pc' = "group" /\ gi' = gi + 1 /\ pi' = pi
    BY <1>9 DEF NoAddr, NextPort
  <2>2. Len(Group.ports) \in Nat \ {0} /\ Len(Groups) \in Nat
    BY <2>1, ListsAre DEF Group
  <2> QED
    BY <2>1, <2>2 DEF Group
<1>10. CASE LinkAddr
  BY <1>10, LinkAddrStep, <1>0 DEF Passes, Group, Port
<1>11. CASE LinkUp
  <2>1. /\ pc = "up"
        /\ Passes("down") \/ (pc' = "addr" /\ pi' = pi + 1 /\ gi' = gi)
    BY <1>11, LinkUpStep DEF NextPort
  <2>2. Len(Group.ports) \in Nat \ {0}
    BY <2>1, ListsAre DEF Group
  <2> QED
    BY <2>1, <2>2, <1>0 DEF Group
<1>12. CASE ListFail \/ LoopEnd \/ Crash
  BY <1>12, EndStep, <1>0
<1>13. CASE Start
  BY <1>13, ListsAre DEF Start
<1>14. CASE UNCHANGED vars
  BY <1>14 DEF vars, localVars, Group, Port
<1> QED
  BY <1>1, <1>2, <1>3, <1>4, <1>5, <1>6, <1>7, <1>8, <1>9, <1>10, <1>11, <1>12, <1>13,
     <1>14 DEF Next, Setup

LEMMA PlaceInit == Init => PlaceInv
  BY ListsAre DEF Init, PlaceInv

-----------------------------------------------------------------------------
(* What a hub builds *)

\* A hub knows the number of each port.
NumbersInv == DOMAIN portNo = Ports

LEMMA NumbersStep == NumbersInv /\ [Next]_vars => NumbersInv'
<1> SUFFICES ASSUME NumbersInv, [Next]_vars PROVE NumbersInv'
  OBVIOUS
<1> USE DEF NumbersInv
<1>1. CASE GetOld \/ DelOld \/ NewDp \/ GetNew
  BY <1>1, GetOldStep, DelOldStep, NewDpStep, GetNewStep DEF Passes
<1>2. CASE EnterGroup \/ LastGroup
  BY <1>2 DEF EnterGroup, EnterGroupAt, LastGroup, Goto, localVars
<1>3. CASE AddPort
  BY <1>3, AddPortStep DEF NumberFor, Passes
<1>4. CASE List \/ ListCut
  BY <1>4, ListStep DEF ListLinks
<1>5. CASE NoAddr
  BY <1>5 DEF NoAddr, NextPort
<1>6. CASE LinkAddr \/ LinkUp
  BY <1>6, LinkAddrStep, LinkUpStep DEF Passes, NextPort
<1>7. CASE ListFail \/ LoopEnd \/ Crash
  BY <1>7, EndStep DEF Passes
<1>8. CASE Start \/ UNCHANGED vars
  BY <1>8 DEF Start, vars, localVars
<1> QED
  BY <1>1, <1>2, <1>3, <1>4, <1>5, <1>6, <1>7, <1>8 DEF Next, Setup

\* A step that makes no vport, and after which the same ports are done.
LEMMA BuiltKept ==
  ASSUME BuiltInv, Building, UNCHANGED <<vports, hub>>,
         \A i \in DOMAIN Groups : \A k \in DOMAIN Groups[i].ports :
           /\ PortDone(i, k)' <=> PortDone(i, k)
           /\ PortDone(i, k) => portNo'[PortAt(i, k)] = portNo[PortAt(i, k)]
  PROVE  BuiltInv'
BY DEF BuiltInv, DpExists, PortAt, VportAt

\* The next list of ports: the datapath's own port is there.
LEMMA EnterGroupBuilds ==
  ASSUME PlaceInv, NumbersInv, BuiltInv, EnterGroup
  PROVE  BuiltInv'
<1>1. /\ pc = "group" /\ gi \in DOMAIN Groups /\ UNCHANGED <<vports, hub, gi>>
      /\ \/ Group.type = "internal" /\ pi' = 2
            /\ portNo' = [portNo EXCEPT ![DpName] = 0]
            /\ pc' = IF Len(Group.ports) < 2 THEN "list" ELSE "port"
         \/ Group.type # "internal" /\ pi' = 1 /\ pc' = "port" /\ UNCHANGED portNo
  BY ListsAre DEF EnterGroup, EnterGroupAt, kernelVars, PlaceInv
<1>2. CASE Group.type # "internal"
  <2>1. \A i \in DOMAIN Groups : \A k \in DOMAIN Groups[i].ports :
          PortDone(i, k)' <=> PortDone(i, k)
    BY <1>1, <1>2, ListsAre DEF PortDone
  <2> QED
    BY <1>1, <1>2, <2>1, BuiltKept DEF Building
<1>3. CASE Group.type = "internal"
  <2>1. \A i \in DOMAIN Groups : \A k \in DOMAIN Groups[i].ports :
          PortDone(i, k)' <=> PortDone(i, k) \/ (i = gi /\ k = 1)
    BY <1>1, <1>3, ListsAre DEF PortDone, Group
  <2>2. /\ Groups[gi] = Internal /\ 1 \in DOMAIN Groups[gi].ports
        /\ PortAt(gi, 1) = DpName /\ VportAt(gi, 1) = DpName
    BY <1>1, <1>3, ListsAre, OwnPort DEF Group, PortAt, DpName
  <2>3. \A i \in DOMAIN Groups : \A k \in DOMAIN Groups[i].ports :
          portNo'[PortAt(i, k)] = IF i = gi /\ k = 1 THEN 0 ELSE portNo[PortAt(i, k)]
    <3>1. ASSUME NEW i \in DOMAIN Groups, NEW k \in DOMAIN Groups[i].ports
          PROVE  /\ PortAt(i, k) \in DOMAIN portNo
                 /\ PortAt(i, k) = DpName <=> i = gi /\ k = 1
      BY <1>1, <2>2, ListsAre, PortsDistinct DEF NumbersInv
    <3> QED
      BY <1>1, <1>3, <3>1
  <2>4. /\ DpExists' /\ vports'[DpName].no = 0
        /\ \A i \in DOMAIN Groups : \A k \in DOMAIN Groups[i].ports : PortDone(i, k)' =>
             /\ VportAt(i, k) \in DOMAIN vports'
             /\ portNo'[PortAt(i, k)] = vports'[VportAt(i, k)].no
    BY <1>1, <2>1, <2>2, <2>3 DEF BuiltInv, Building, DpExists
  <2>5. \A v \in DOMAIN vports' : v = DpName \/
          \E i \in DOMAIN Groups : \E k \in DOMAIN Groups[i].ports :
            PortDone(i, k)' /\ v = VportAt(i, k)
    BY <1>1, <2>1 DEF BuiltInv, Building
  <2> QED
    BY <1>1, <2>4, <2>5 DEF BuiltInv, Building, PortAt, VportAt
<1> QED
  BY <1>2, <1>3

\* One more vport, for one port or for all the tunnels of a type.
LEMMA AddPortBuilds ==
  ASSUME PlaceInv, NumbersInv, BuiltInv, AddPort
  PROVE  BuiltInv'
<1> DEFINE v == VportAt(gi, pi)
           ports == IF IsTunnel(Group) THEN PortsOf(Group) ELSE {Port}
<1>1. CASE pc' = "down"
  BY <1>1 DEF BuiltInv, Building
<1>2. CASE pc' # "down"
  <2>1. /\ pc = "port" /\ DpExists /\ v \notin DOMAIN vports /\ AddVport(v)
        /\ NumberFor(ports) /\ hub' = hub
    BY <1>2, AddPortStep DEF Passes
  <2>2. /\ gi \in DOMAIN Groups /\ pi \in DOMAIN Group.ports /\ Building
        /\ Group = Groups[gi] /\ Port = PortAt(gi, pi) /\ (IsTunnel(Group) => pi = 1)
    BY <2>1, ListsAre DEF PlaceInv, Building, Group, Port, PortAt
  <2>3. PICK n \in FreeNumbers :
          vports' = [w \in DOMAIN vports \cup {v} |->
                       IF w = v THEN [no |-> n, pid |-> hub] ELSE vports[w]]
    BY <2>1 DEF AddVport
  <2> DEFINE Mine(i, k) == i = gi /\ (IsTunnel(Group) \/ k = pi)
  <2>4. ASSUME NEW i \in DOMAIN Groups, NEW k \in DOMAIN Groups[i].ports
        PROVE  /\ PortDone(i, k)' <=> PortDone(i, k) \/ Mine(i, k)
               /\ VportAt(i, k) = v <=> Mine(i, k)
               /\ PortAt(i, k) \in ports <=> Mine(i, k)
               /\ PortAt(i, k) \in Ports /\ (Mine(i, k) => VportOf(Group, PortAt(i, k)) = v)
    <3>1. VportAt(i, k) = v <=> Mine(i, k)
      <4>1. VportAt(i, k) = v => Mine(i, k)
        BY <2>2, VportsDistinct
      <4>2. Mine(i, k) => VportAt(i, k) = v
        BY <2>2 DEF VportAt, VportOf
      <4> QED
        BY <4>1, <4>2
    <3>2. PortAt(i, k) \in ports <=> Mine(i, k)
      <4>1. CASE IsTunnel(Group)
        <5>1. PortAt(i, k) \in PortsOf(Groups[gi]) => i = gi
          <6>1. PortAt(i, k) \in PortsOf(Groups[i])
            BY ListsAre
          <6> QED
            BY <2>2, <6>1, GroupsAssumption
        <5> QED
          BY <2>2, <4>1, <5>1, ListsAre
      <4>2. CASE ~ IsTunnel(Group)
        BY <2>2, <4>2, PortsDistinct
      <4> QED
        BY <4>1, <4>2
    <3>3. PortDone(i, k)' <=> PortDone(i, k) \/ Mine(i, k)
      <4>1. \/ /\ ~IsTunnel(Group) /\ pi < Len(Group.ports)
               /\ pi' = pi + 1 /\ pc' = "port" /\ gi' = gi
            \/ /\ IsTunnel(Group) \/ pi = Len(Group.ports)
               /\ (pc' = "list" /\ gi' = gi) \/ (pc' = "group" /\ gi' = gi + 1)
        BY <2>1 DEF NumberFor
      <4>2. /\ i \in Nat /\ gi \in Nat /\ k \in Nat /\ pi \in Nat
            /\ i = gi => k \in 1 .. Len(Group.ports)
            /\ Len(Group.ports) \in Nat
        BY <2>2, ListsAre DEF PlaceInv
      <4> QED
        BY <2>1, <4>1, <4>2 DEF PortDone
    <3>4. Mine(i, k) => VportOf(Group, PortAt(i, k)) = v
      BY <2>2, <3>1 DEF VportAt
    <3> QED
      BY <3>1, <3>2, <3>3, <3>4, ListsAre
  <2>5. \A p \in Ports : portNo'[p] = IF p \in ports THEN vports'[VportOf(Group, p)].no
                                                     ELSE portNo[p]
    BY <2>1 DEF NumberFor
  <2> HIDE DEF v, ports, Mine
  <2>6. /\ DOMAIN vports' = DOMAIN vports \cup {v}
        /\ vports'[v].no = n /\ vports'[v].pid = hub
        /\ \A w \in DOMAIN vports : w # v /\ vports'[w] = vports[w] /\ vports[w].no # n
    BY <2>1, <2>3 DEF FreeNumbers
  <2>7. DpExists' /\ vports'[DpName].no = 0
    BY <2>2, <2>6 DEF BuiltInv, DpExists
  <2>8. \A i \in DOMAIN Groups : \A k \in DOMAIN Groups[i].ports : PortDone(i, k)' =>
          VportAt(i, k) \in DOMAIN vports' /\ portNo'[PortAt(i, k)] = vports'[VportAt(i, k)].no
    <3> SUFFICES ASSUME NEW i \in DOMAIN Groups, NEW k \in DOMAIN Groups[i].ports,
                        PortDone(i, k)'
                 PROVE  /\ VportAt(i, k) \in DOMAIN vports'
                        /\ portNo'[PortAt(i, k)] = vports'[VportAt(i, k)].no
      OBVIOUS
    <3>1. CASE Mine(i, k)
      BY <2>4, <2>5, <2>6, <3>1
    <3>2. CASE ~ Mine(i, k)
      <4>1. PortDone(i, k)
        BY <2>4, <3>2
      <4>2. VportAt(i, k) \in DOMAIN vports /\ portNo[PortAt(i, k)] = vports[VportAt(i, k)].no
        BY <2>2, <4>1 DEF BuiltInv
      <4> QED
        BY <2>4, <2>5, <2>6, <3>2, <4>2
    <3> QED
      BY <3>1, <3>2
  <2>9. \A w \in DOMAIN vports' : w = DpName \/
          \E i \in DOMAIN Groups : \E k \in DOMAIN Groups[i].ports :
            PortDone(i, k)' /\ w = VportAt(i, k)
    <3>1. Mine(gi, pi)
      BY DEF Mine
    <3> QED
      BY <2>2, <2>4, <2>6, <3>1 DEF BuiltInv, v
  <2>10. \A w \in DOMAIN vports' : vports'[w].pid = hub'
    BY <2>1, <2>2, <2>6 DEF BuiltInv
  <2>11. \A w, x \in DOMAIN vports' : vports'[w].no = vports'[x].no => w = x
    BY <2>2, <2>6 DEF BuiltInv
  <2> QED
    BY <2>7, <2>8, <2>9, <2>10, <2>11 DEF BuiltInv, PortAt, VportAt
<1> QED
  BY <1>1, <1>2

\* What a hub has built stays, and is built as it is recorded.
LEMMA BuiltStep ==
  ASSUME PlaceInv, NumbersInv, BuiltInv, [Next]_vars
  PROVE  BuiltInv'
<1>1. ASSUME pc' \in {"down", "get", "del", "new"} PROVE BuiltInv'
  BY <1>1 DEF BuiltInv, Building
<1>2. CASE GetOld \/ DelOld \/ Start \/ ListFail \/ LoopEnd \/ Crash
  BY <1>1, <1>2, GetOldStep, DelOldStep, EndStep DEF Start, Passes
<1>3. CASE NewDp
  <2>1. CASE pc' # "down"
    <3>1. /\ vports' = [v \in {DpName} |-> [no |-> 0, pid |-> hub]] /\ hub' = hub
          /\ pc' = "check" /\ gi' = 1
      BY <1>3, <2>1, NewDpStep DEF Passes, PlaceInv, kernelVars
    <3>2. \A i \in DOMAIN Groups : \A k : ~ PortDone(i, k)'
      BY <3>1, ListsAre DEF PortDone
    <3> QED
      BY <3>1, <3>2 DEF BuiltInv, DpExists
  <2> QED
    BY <1>1, <2>1
<1>4. CASE GetNew
  <2>1. CASE pc' # "down"
    <3>1. pc = "check" /\ UNCHANGED <<vports, hub, portNo, gi>> /\ pc' = "group"
      BY <1>4, <2>1, GetNewStep DEF Passes, kernelVars
    <3> QED
      BY <3>1, BuiltKept DEF Building, PortDone
  <2> QED
    BY <1>1, <2>1
<1>5. CASE LastGroup
  <2>1. pc = "group" /\ UNCHANGED <<vports, hub, portNo, gi>> /\ pc' = "loop"
    BY <1>5 DEF LastGroup, Goto, localVars, kernelVars
  <2> QED
    BY <2>1, BuiltKept DEF Building, PortDone
<1>6. CASE List \/ ListCut
  <2>1. pc = "list" /\ UNCHANGED <<vports, hub, portNo, gi>> /\ pc' = "addr"
    BY <1>6, ListStep DEF ListLinks, kernelVars
  <2> QED
    BY <2>1, BuiltKept DEF Building, PortDone
<1>7. CASE NoAddr
  <2>1. /\ pc = "addr" /\ UNCHANGED <<vports, hub, portNo>>
        /\ (pc' = "addr" /\ gi' = gi) \/ (pc' = "group" /\ gi' = gi + 1)
    BY <1>7 DEF NoAddr, NextPort, kernelVars
  <2>2. \A i \in DOMAIN Groups : \A k : PortDone(i, k)' <=> PortDone(i, k)
    BY <2>1, ListsAre DEF PortDone, PlaceInv
  <2> QED
    BY <2>1, <2>2, BuiltKept DEF Building
<1>8. CASE LinkAddr
  <2>1. CASE pc' # "down"
    <3>1. pc = "addr" /\ UNCHANGED <<vports, hub, portNo, gi>> /\ pc' = "up"
      BY <1>8, <2>1, LinkAddrStep DEF Passes
    <3> QED
      BY <3>1, BuiltKept DEF Building, PortDone
  <2> QED
    BY <1>1, <2>1
<1>9. CASE LinkUp
  <2>1. CASE pc' # "down"
    <3>1. pc = "up" /\ UNCHANGED <<vports, hub, portNo, gi>> /\ pc' = "addr"
      BY <1>9, <2>1, LinkUpStep DEF Passes, NextPort
    <3> QED
      BY <3>1, BuiltKept DEF Building, PortDone
  <2> QED
    BY <1>1, <2>1
<1>10. CASE UNCHANGED vars
  <2>1. UNCHANGED <<vports, hub, pc, gi, pi, portNo>>
    BY <1>10 DEF vars, kernelVars, localVars
  <2> QED
    BY <2>1 DEF BuiltInv, Building, DpExists, PortDone, PortAt, VportAt
<1> QED
  BY <1>2, <1>3, <1>4, <1>5, <1>6, <1>7, <1>8, <1>9, <1>10, EnterGroupBuilds, AddPortBuilds
     DEF Next, Setup

LEMMA BuiltInit == Init => NumbersInv /\ BuiltInv
  BY DEF Init, NumbersInv, BuiltInv, Building

-----------------------------------------------------------------------------
(* Addresses and flags *)

\* A step after which no other port has its address, or is up.
LEMMA LinkKept ==
  ASSUME LinkInv, Building, addrs \subseteq addrs', up \subseteq up', missed' = missed,
         pc' \in {"addr", "up"} => pc \in {"addr", "up"} /\ ifindex' = ifindex,
         \A i \in DOMAIN Groups : \A k \in DOMAIN Groups[i].ports :
           PortAt(i, k) \in Addressed =>
             (AddrDone(i, k)' => AddrDone(i, k)) /\ (LinkDone(i, k)' => LinkDone(i, k))
  PROVE  LinkInv'
BY DEF LinkInv, PortAt

\* The internal ports are listed when all have their vports.
LEMMA ListedExist ==
  ASSUME PlaceInv, BuiltInv, pc \in {"list", "addr", "up"}, NEW p \in Addressed
  PROVE  Exists(p) /\ \E k \in DOMAIN Group.ports : p = PortAt(gi, k)
<1>1. gi \in DOMAIN Groups /\ Groups[gi] = Internal /\ Group = Internal
  BY ListsAre, OwnPort DEF PlaceInv, Group
<1>2. PICK k \in DOMAIN Groups[gi].ports : p = PortAt(gi, k)
  BY <1>1, AddressedAssumption DEF PortsOf, PortAt
<1>3. PortDone(gi, k) /\ VportAt(gi, k) = p
  BY <1>1, <1>2, AddressedAre DEF PortDone
<1>4. p \in DOMAIN vports
  BY <1>1, <1>3 DEF BuiltInv, Building
<1> QED
  BY <1>1, <1>2, <1>4, AddressedAssumption DEF Exists

\* The ports with addresses are all in one list.
LEMMA OneList ==
  ASSUME NEW i \in DOMAIN Groups, NEW k \in DOMAIN Groups[i].ports,
         PortAt(i, k) \in Addressed, NEW j \in DOMAIN Groups, Groups[j].type = "internal"
  PROVE  i = j
BY AddressedAre, GroupsAssumption

\* Every port listed has its own address, and is up, once it is passed.
LEMMA LinkStep ==
  ASSUME PlaceInv, BuiltInv, LinkInv, [Next]_vars
  PROVE  LinkInv'
<1>1. ASSUME pc' \in {"down", "get", "del", "new"} PROVE LinkInv'
  BY <1>1 DEF LinkInv, Building
<1>2. CASE GetOld \/ DelOld \/ Start \/ ListFail \/ LoopEnd \/ Crash
  BY <1>1, <1>2, GetOldStep, DelOldStep, EndStep DEF Start, Passes
<1>3. CASE NewDp
  <2>1. CASE pc' # "down"
    <3>1. pc' = "check" /\ gi' = 1
      BY <1>3, <2>1, NewDpStep DEF Passes, PlaceInv
    <3>2. \A i \in DOMAIN Groups : \A k : ~ AddrDone(i, k)' /\ ~ LinkDone(i, k)'
      BY <3>1, ListsAre DEF AddrDone, LinkDone
    <3> QED
      BY <3>1, <3>2 DEF LinkInv
  <2> QED
    BY <1>1, <2>1
<1>4. CASE GetNew \/ LastGroup \/ EnterGroup
  <2>1. CASE pc' # "down"
    <3>1. /\ pc \in {"check", "group"} /\ UNCHANGED <<addrs, up, missed, gi>>
          /\ pc' \in {"group", "loop", "list", "port"}
      BY <1>4, <2>1, GetNewStep DEF LastGroup, EnterGroup, EnterGroupAt, Goto, Passes,
                                    localVars, kernelVars
    <3> QED
      BY <3>1, LinkKept DEF Building, AddrDone, LinkDone
  <2> QED
    BY <1>1, <2>1
<1>5. CASE AddPort
  <2>1. CASE pc' # "down"
    <3>1. /\ pc = "port" /\ UNCHANGED <<addrs, up, missed>>
          /\ \/ pc' \in {"port", "list"} /\ gi' = gi
             \/ pc' = "group" /\ gi' = gi + 1 /\ Group.type # "internal"
      BY <1>5, <2>1, AddPortStep DEF NumberFor, AddVport, Passes
    <3>2. ASSUME NEW i \in DOMAIN Groups, NEW k \in DOMAIN Groups[i].ports,
                 PortAt(i, k) \in Addressed
          PROVE  /\ AddrDone(i, k)' => AddrDone(i, k)
                 /\ LinkDone(i, k)' => LinkDone(i, k)
      <4>1. gi' = gi + 1 => i # gi
        BY <3>1, <3>2, AddressedAre, ListsAre DEF PlaceInv, Group
      <4> QED
        BY <3>1, <4>1, ListsAre DEF AddrDone, LinkDone, PlaceInv
    <3> QED
      BY <3>1, <3>2, LinkKept DEF Building
  <2> QED
    BY <1>1, <2>1
<1>6. CASE List \/ ListCut
  <2>1. PICK unseen \in SUBSET Addressed : ListLinks(unseen)
    BY <1>6, ListStep
  <2>2. /\ pc = "list" /\ pc' = "addr" /\ pi' = 1 /\ gi' = gi /\ missed' = unseen
        /\ \A p \in Ports \ unseen : Exists(p) => ifindex'[p] = p
    BY <2>1 DEF ListLinks
  <2>3. \A p \in Addressed \ missed' : ifindex'[p] = p
    <3>1. Addressed \subseteq Ports
      BY AddressedAssumption, OwnPort DEF Ports
    <3> QED
      BY <2>2, <3>1, ListedExist
  <2>4. ASSUME NEW i \in DOMAIN Groups, NEW k \in DOMAIN Groups[i].ports,
               PortAt(i, k) \in Addressed
        PROVE  ~ AddrDone(i, k)' /\ ~ LinkDone(i, k)'
    <3>1. i = gi
      BY <2>2, <2>4, OneList, ListsAre DEF PlaceInv, Group
    <3> QED
      BY <2>2, <3>1, ListsAre DEF AddrDone, LinkDone
  <2> QED
    BY <2>2, <2>3, <2>4 DEF LinkInv, PortAt
<1>7. CASE NoAddr
  <2>1. /\ pc = "addr" /\ UNCHANGED <<addrs, up, missed, ifindex>>
        /\ \/ /\ pi <= Len(Group.ports) /\ Port \notin Addressed
              /\ pc' = "addr" /\ gi' = gi /\ pi' = pi + 1
           \/ pi > Len(Group.ports) /\ pc' = "group" /\ gi' = gi + 1
    BY <1>7 DEF NoAddr, NextPort, kernelVars
  <2>2. gi \in DOMAIN Groups /\ Group = Groups[gi] /\ pi \in Nat /\ Port = PortAt(gi, pi)
    BY <2>1, ListsAre DEF PlaceInv, Group, Port, PortAt
  <2>3. ASSUME NEW i \in DOMAIN Groups, NEW k \in DOMAIN Groups[i].ports,
               PortAt(i, k) \in Addressed
        PROVE  /\ AddrDone(i, k)' => AddrDone(i, k)
               /\ LinkDone(i, k)' => LinkDone(i, k)
    <3>1. i \in Nat /\ k \in Nat /\ gi \in Nat /\ (i = gi => k <= Len(Group.ports))
      BY <2>2, ListsAre
    <3>2. i = gi /\ k = pi => pc' = "group"
      BY <2>1, <2>2, <2>3
    <3> QED
      BY <2>1, <2>2, <3>1, <3>2, ListsAre DEF AddrDone, LinkDone
  <2> QED
    BY <2>1, <2>3, LinkKept DEF Building
<1>8. CASE LinkAddr
  <2>1. CASE pc' # "down"
    <3>1. /\ pc = "addr" /\ Port \in Addressed /\ pc' = "up"
          /\ UNCHANGED <<up, missed, gi, pi, ifindex>>
          /\ addrs' = addrs \cup {<<ifindex[Port], Port>>}
      BY <1>8, <2>1, LinkAddrStep DEF Passes
    <3>2. Port \in missed \/ ifindex[Port] = Port
      BY <3>1 DEF LinkInv, Building
    <3>3. Port = PortAt(gi, pi) /\ pi \in Nat
      BY DEF Port, PortAt, Group, PlaceInv
    <3>4. ASSUME NEW i \in DOMAIN Groups, NEW k \in DOMAIN Groups[i].ports,
                 PortAt(i, k) \in Addressed \ missed'
          PROVE  /\ AddrDone(i, k)' => <<PortAt(i, k), PortAt(i, k)>> \in addrs'
                 /\ LinkDone(i, k)' => PortAt(i, k) \in up'
      <4>1. /\ AddrDone(i, k)' => AddrDone(i, k) \/ (i = gi /\ k = pi)
            /\ LinkDone(i, k)' => LinkDone(i, k)
        BY <3>1 DEF AddrDone, LinkDone
      <4> QED
        BY <3>1, <3>2, <3>3, <3>4, <4>1 DEF LinkInv, Building
    <3> QED
      BY <3>1, <3>4 DEF LinkInv, Building, PortAt
  <2> QED
    BY <1>1, <2>1
<1>9. CASE LinkUp
  <2>1. CASE pc' # "down"
    <3>1. /\ pc = "up" /\ pc' = "addr" /\ pi' = pi + 1
          /\ UNCHANGED <<addrs, missed, gi, ifindex>> /\ up' = up \cup {ifindex[Port]}
      BY <1>9, <2>1, LinkUpStep DEF Passes, NextPort
    <3>2. Port = PortAt(gi, pi) /\ pi \in Nat /\ Port \in Addressed
      BY <3>1 DEF Port, PortAt, Group, PlaceInv
    <3>3. Port \in missed \/ ifindex[Port] = Port
      BY <3>1, <3>2 DEF LinkInv, Building
    <3>4. ASSUME NEW i \in DOMAIN Groups, NEW k \in DOMAIN Groups[i].ports,
                 PortAt(i, k) \in Addressed \ missed'
          PROVE  /\ AddrDone(i, k)' => <<PortAt(i, k), PortAt(i, k)>> \in addrs'
                 /\ LinkDone(i, k)' => PortAt(i, k) \in up'
      <4>1. /\ AddrDone(i, k)' => AddrDone(i, k)
            /\ LinkDone(i, k)' => LinkDone(i, k) \/ (i = gi /\ k = pi)
        BY <3>1, <3>2, ListsAre DEF AddrDone, LinkDone
      <4> QED
        BY <3>1, <3>2, <3>3, <3>4, <4>1 DEF LinkInv, Building
    <3> QED
      BY <3>1, <3>4 DEF LinkInv, Building, PortAt
  <2> QED
    BY <1>1, <2>1
<1>10. CASE UNCHANGED vars
  <2>1. UNCHANGED <<addrs, up, missed, pc, gi, pi, ifindex>>
    BY <1>10 DEF vars, kernelVars, localVars
  <2> QED
    BY <2>1 DEF LinkInv, Building, AddrDone, LinkDone, PortAt
<1> QED
  BY <1>2, <1>3, <1>4, <1>5, <1>6, <1>7, <1>8, <1>9, <1>10 DEF Next, Setup

LEMMA LinkInit == Init => LinkInv
  BY DEF Init, LinkInv, Building

\* PlaceInv, BuiltInv and LinkInv together are inductive.
LEMMA SetupInvariance == Spec => [](PlaceInv /\ NumbersInv /\ BuiltInv /\ LinkInv)
<1>1. PlaceInv /\ NumbersInv /\ BuiltInv /\ LinkInv /\ [Next]_vars =>
        (PlaceInv /\ NumbersInv /\ BuiltInv /\ LinkInv)'
  BY PlaceStep, NumbersStep, BuiltStep, LinkStep
<1> QED
  BY <1>1, PlaceInit, BuiltInit, LinkInit, PTL DEF Spec

\* Whatever hubs before it left in the kernel, a hub that reaches its loop has
\* the datapath it was asked for: all the vports and no others, addressed to
\* it, under the numbers it knows, and the addresses of the links listed.
THEOREM SetupComplete == Spec => []Ready
<1>1. PlaceInv /\ NumbersInv /\ BuiltInv /\ LinkInv => Ready
  <2> SUFFICES ASSUME PlaceInv, BuiltInv, LinkInv, pc = "loop"
               PROVE  /\ DOMAIN vports = Vports
                      /\ \A v \in Vports : vports[v].pid = hub
                      /\ \A g \in GroupSet : \A p \in PortsOf(g) :
                           portNo[p] = vports[VportOf(g, p)].no
                      /\ \A v, w \in Vports : vports[v].no = vports[w].no => v = w
                      /\ \A p \in Addressed \ missed : <<p, p>> \in addrs /\ p \in up
    BY DEF Ready
  <2>1. \A i \in DOMAIN Groups : i < gi
    BY ListsAre DEF PlaceInv
  <2>2. \A i \in DOMAIN Groups : \A k \in DOMAIN Groups[i].ports :
          /\ VportAt(i, k) \in DOMAIN vports
          /\ portNo[PortAt(i, k)] = vports[VportAt(i, k)].no
    BY <2>1 DEF BuiltInv, Building, PortDone
  <2>3. \A g \in GroupSet : \A p \in PortsOf(g) :
          \E i \in DOMAIN Groups : \E k \in DOMAIN Groups[i].ports :
            g = Groups[i] /\ p = PortAt(i, k) /\ VportOf(g, p) = VportAt(i, k)
    BY DEF GroupSet, PortsOf, PortAt, VportAt
  <2>4. \A g \in GroupSet : \A p \in PortsOf(g) :
          VportOf(g, p) \in DOMAIN vports /\ portNo[p] = vports[VportOf(g, p)].no
    BY <2>2, <2>3
  <2>5. Vports \subseteq DOMAIN vports
    BY <2>4 DEF Vports
  <2>6. \A i \in DOMAIN Groups : \A k \in DOMAIN Groups[i].ports : VportAt(i, k) \in Vports
    <3> SUFFICES ASSUME NEW i \in DOMAIN Groups, NEW k \in DOMAIN Groups[i].ports
                 PROVE  VportAt(i, k) \in Vports
      OBVIOUS
    <3>1. Groups[i] \in GroupSet /\ PortAt(i, k) \in PortsOf(Groups[i])
      BY ListsAre
    <3> QED
      BY <3>1 DEF Vports, VportAt
  <2>7. DpName \in Vports
    <3>1. PICK i \in DOMAIN Groups : Groups[i] = Internal
      BY OwnPort
    <3>2. 1 \in DOMAIN Groups[i].ports /\ VportAt(i, 1) = DpName
      BY <3>1, ListsAre, OwnPort
    <3> QED
      BY <2>6, <3>2
  <2>8. DOMAIN vports = Vports
    BY <2>5, <2>6, <2>7 DEF BuiltInv, Building
  <2>9. \A p \in Addressed \ missed : <<p, p>> \in addrs /\ p \in up
    <3> SUFFICES ASSUME NEW p \in Addressed \ missed PROVE <<p, p>> \in addrs /\ p \in up
      OBVIOUS
    <3>1. PICK i \in DOMAIN Groups : \E k \in DOMAIN Groups[i].ports : p = PortAt(i, k)
      BY <2>3, AddressedAssumption, OwnPort
    <3> QED
      BY <2>1, <3>1 DEF LinkInv, Building, AddrDone, LinkDone
  <2> QED
    BY <2>4, <2>8, <2>9 DEF BuiltInv, Building
<1> QED
  BY <1>1, SetupInvariance, PTL

-----------------------------------------------------------------------------
(* A hub that meets no failure *)

\* The next port's vport is not there, its device has no address.
LEMMA Unhindered ==
  ASSUME PlaceInv, BuiltInv, LinkInv, CleanInv
  PROVE  /\ Building => DpExists
         /\ pc = "port" => VportAt(gi, pi) \notin DOMAIN vports
         /\ pc = "addr" /\ missed = {} /\ pi <= Len(Group.ports) /\ Port \in Addressed =>
              Exists(ifindex[Port]) /\ <<ifindex[Port], Port>> \notin addrs
         /\ pc = "up" /\ missed = {} => Exists(ifindex[Port])
<1>1. Building => DpExists
  BY DEF BuiltInv
<1>2. ASSUME pc = "port" PROVE VportAt(gi, pi) \notin DOMAIN vports
  <2>1. /\ gi \in DOMAIN Groups /\ pi \in DOMAIN Groups[gi].ports
        /\ Groups[gi].type = "internal" => pi >= 2
        /\ IsTunnel(Groups[gi]) => pi = 1
    BY <1>2, ListsAre DEF PlaceInv, Group
  <2>2. VportAt(gi, pi) # DpName
    BY <2>1, OwnPort
  <2>3. ASSUME NEW i \in DOMAIN Groups, NEW k \in DOMAIN Groups[i].ports, PortDone(i, k)
        PROVE  VportAt(gi, pi) # VportAt(i, k)
    <3>1. CASE i # gi
      BY <2>1, <3>1, VportsDistinct
    <3>2. CASE i = gi
      <4>1. k < pi /\ k \in Nat \ {0} /\ pi \in Nat
        BY <1>2, <2>1, <2>3, <3>2, ListsAre DEF PortDone
      <4> QED
        BY <2>1, <3>2, <4>1, VportsDistinct
    <3> QED
      BY <3>1, <3>2
  <2> QED
    BY <1>2, <2>2, <2>3 DEF BuiltInv, Building
<1>3. ASSUME pc \in {"addr", "up"}, missed = {}, Port \in Addressed
      PROVE  ifindex[Port] = Port /\ Exists(Port)
  BY <1>3, ListedExist DEF LinkInv, Building
<1>4. ASSUME pc = "addr", pi <= Len(Group.ports), Port \in Addressed
      PROVE  <<Port, Port>> \notin addrs
  <2>1. /\ gi \in DOMAIN Groups /\ pi \in DOMAIN Groups[gi].ports /\ Port = PortAt(gi, pi)
    BY <1>4, ListsAre DEF PlaceInv, Group, Port, PortAt
  <2>2. Port \notin Others
    BY <1>4, AddressedAssumption, GroupsAssumption
  <2>3. ~ AddrDone(gi, pi)
    BY <1>4, <2>1, ListsAre DEF AddrDone
  <2>4. \A i \in DOMAIN Groups : \A k \in DOMAIN Groups[i].ports :
          Port = PortAt(i, k) => ~ AddrDone(i, k)
    BY <2>1, <2>3, PortsDistinct
  <2>5. <<Port, Port>>[1] = Port /\ <<Port, Port>>[2] = Port
    OBVIOUS
  <2> QED
    BY <1>4, <2>2, <2>4, <2>5 DEF CleanInv, Building
<1> QED
  BY <1>1, <1>2, <1>3, <1>4 DEF PlaceInv

\* A hub that meets no failure finds every command possible.
LEMMA CleanStep ==
  ASSUME PlaceInv, BuiltInv, LinkInv, CleanInv, [Next]_vars
  PROVE  CleanInv'
<1> DEFINE Bare == ~ DpExists => DOMAIN vports = {} /\ \A a \in addrs : a[1] \in Others
           Own  == Building => \A a \in addrs :
                     a[1] \in Others \/ \E i \in DOMAIN Groups : \E k \in DOMAIN Groups[i].ports :
                                          AddrDone(i, k) /\ a[2] = PortAt(i, k)
           Free == clean => /\ pc = "del" => DpExists
                            /\ pc = "new" => ~ DpExists
                            /\ missed = {}
                            /\ pc = "down" => ~ (hub > 0)
<1>0. CleanInv <=> Bare /\ Own /\ Free
  BY DEF CleanInv
<1>1. CleanInv' <=> Bare' /\ Own' /\ Free'
  BY DEF CleanInv
<1>2. /\ UNCHANGED <<vports, addrs>> => Bare'
      /\ ~ Building' => Own'
  BY <1>0 DEF DpExists
<1>3. ASSUME Building, addrs' = addrs,
             \A i \in DOMAIN Groups : \A k \in DOMAIN Groups[i].ports :
               AddrDone(i, k) => AddrDone(i, k)'
      PROVE  Own'
  BY <1>0, <1>3 DEF PortAt
<1>4. CASE GetOld
  <2>1. UNCHANGED <<vports, addrs>> /\ ~ Building'
    BY <1>4, GetOldStep DEF Passes, Building, kernelVars
  <2>2. Free'
    BY <1>0, <1>4, <2>1, GetOldStep DEF Passes, DpExists
  <2> QED
    BY <1>1, <1>2, <2>1, <2>2
<1>5. CASE DelOld
  <2>1. ~ Building'
    BY <1>5, DelOldStep DEF Passes, Building
  <2>2. Bare'
    BY <1>2, <1>5, DelOldStep DEF kernelVars
  <2>3. Free'
    BY <1>0, <1>5, DelOldStep DEF Passes, DpExists
  <2> QED
    BY <1>1, <1>2, <2>1, <2>2, <2>3
<1>6. CASE NewDp
  <2>1. Bare'
    BY <1>0, <1>2, <1>6, NewDpStep DEF kernelVars, DpExists
  <2>2. Own'
    <3>1. Building' => ~ DpExists /\ addrs' = addrs
      BY <1>6, NewDpStep DEF Passes, Building, kernelVars
    <3> QED
      BY <1>0, <3>1
  <2>3. Free'
    BY <1>0, <1>6, NewDpStep DEF Passes
  <2> QED
    BY <1>1, <2>1, <2>2, <2>3
<1>7. CASE GetNew
  <2>1. UNCHANGED <<vports, addrs, gi>> /\ pc = "check" /\ pc' \in {"group", "down"}
    BY <1>7, GetNewStep DEF Passes, kernelVars
  <2>2. Own'
    BY <1>2, <1>3, <2>1 DEF Building, AddrDone
  <2>3. Free'
    BY <1>0, <1>7, <2>1, GetNewStep, Unhindered DEF Passes, Building
  <2> QED
    BY <1>1, <1>2, <2>1, <2>2, <2>3
<1>8. CASE EnterGroup \/ LastGroup
  <2>1. /\ UNCHANGED <<vports, addrs, gi, clean, missed>> /\ pc = "group"
        /\ pc' \in {"port", "list", "loop"}
    BY <1>8 DEF EnterGroup, EnterGroupAt, LastGroup, Goto, kernelVars, localVars
  <2>2. Own'
    BY <1>3, <2>1 DEF Building, AddrDone
  <2> QED
    BY <1>0, <1>1, <1>2, <2>1, <2>2
<1>9. CASE AddPort
  <2>1. /\ pc = "port" /\ addrs' = addrs
        /\ \/ pc' \in {"port", "list"} /\ gi' = gi /\ missed' = missed
           \/ pc' = "group" /\ gi' = gi + 1 /\ missed' = missed
           \/ pc' = "down"
        /\ clean' => clean /\ pc' # "down"
        /\ DpExists'
    BY <1>9, AddPortStep, Unhindered
       DEF NumberFor, AddVport, Passes, kernelVars, Building, DpExists
  <2>2. pc' # "down" => Own'
    BY <1>3, <2>1, ListsAre DEF Building, AddrDone, PlaceInv
  <2>3. pc' = "down" => Own'
    BY DEF Building
  <2> QED
    BY <1>0, <1>1, <2>1, <2>2, <2>3
<1>10. CASE List \/ ListCut
  <2>1. /\ pc = "list" /\ pc' = "addr" /\ UNCHANGED <<vports, addrs, gi>>
        /\ clean' => clean /\ missed' = {}
    BY <1>10, ListStep DEF ListLinks, kernelVars
  <2>2. Own'
    BY <1>3, <2>1 DEF Building, AddrDone
  <2> QED
    BY <1>0, <1>1, <1>2, <2>1, <2>2
<1>11. CASE NoAddr
  <2>1. /\ pc = "addr" /\ UNCHANGED <<vports, addrs, clean, missed>>
        /\ \/ pc' = "addr" /\ gi' = gi /\ pi' = pi + 1
           \/ pc' = "group" /\ gi' = gi + 1
    BY <1>11 DEF NoAddr, NextPort, kernelVars
  <2>2. Own'
    BY <1>3, <2>1, ListsAre DEF Building, AddrDone, PlaceInv
  <2> QED
    BY <1>0, <1>1, <1>2, <2>1, <2>2
<1>12. CASE LinkAddr
  <2>1. /\ pc = "addr" /\ pi <= Len(Group.ports) /\ Port \in Addressed
        /\ UNCHANGED vports
        /\ clean' => clean
        /\ addrs' \in {addrs, addrs \cup {<<ifindex[Port], Port>>}}
        /\ missed' = missed
        /\ (pc' = "up" /\ UNCHANGED <<gi, pi>>) \/ pc' = "down"
        /\ clean' /\ missed = {} => pc' = "up"
    BY <1>12, LinkAddrStep, Unhindered DEF Passes
  <2>2. DpExists'
    <3>1. DpExists
      BY <2>1, Unhindered DEF Building
    <3> QED
      BY <2>1, <3>1 DEF DpExists
  <2>3. Own'
    <3>1. CASE pc' = "down"
      BY <3>1 DEF Building
    <3>2. CASE pc' = "up"
      <4>1. /\ gi \in DOMAIN Groups /\ pi \in DOMAIN Groups[gi].ports /\ Port = PortAt(gi, pi)
        BY <2>1, ListsAre DEF PlaceInv, Group, Port, PortAt
      <4>2. /\ \A i, k : AddrDone(i, k) => AddrDone(i, k)'
            /\ \A i, k : i = gi /\ k = pi => AddrDone(i, k)'
        BY <2>1, <3>2 DEF AddrDone
      <4>3. <<ifindex[Port], Port>>[2] = PortAt(gi, pi)
        BY <4>1
      <4>4. \A a \in addrs' : a \in addrs \/ a[2] = PortAt(gi, pi)
        BY <2>1, <4>3
      <4>5. \A a \in addrs : a[1] \in Others \/
              \E i \in DOMAIN Groups : \E k \in DOMAIN Groups[i].ports :
                AddrDone(i, k) /\ a[2] = PortAt(i, k)
        BY <1>0, <2>1 DEF Building
      <4>6. \A a \in addrs' : a[1] \in Others \/
              \E i \in DOMAIN Groups : \E k \in DOMAIN Groups[i].ports :
                AddrDone(i, k)' /\ a[2] = PortAt(i, k)
        <5> SUFFICES ASSUME NEW a \in addrs', a[1] \notin Others
                     PROVE  \E i \in DOMAIN Groups : \E k \in DOMAIN Groups[i].ports :
                              AddrDone(i, k)' /\ a[2] = PortAt(i, k)
          OBVIOUS
        <5>1. CASE a \in addrs
          BY <4>2, <4>5, <5>1
        <5>2. CASE a[2] = PortAt(gi, pi)
          BY <4>1, <4>2, <5>2
        <5> QED
          BY <4>4, <5>1, <5>2
      <4> QED
        BY <4>6 DEF PortAt
    <3> QED
      BY <2>1, <3>1, <3>2
  <2>4. Free'
    BY <1>0, <2>1
  <2>5. Bare'
    BY <2>2
  <2> QED
    BY <1>1, <2>3, <2>4, <2>5
<1>13. CASE LinkUp
  <2>1. /\ pc = "up" /\ UNCHANGED <<vports, addrs, missed>>
        /\ clean' => clean
        /\ (pc' = "addr" /\ gi' = gi /\ pi' = pi + 1) \/ pc' = "down"
        /\ clean' /\ missed = {} => pc' = "addr"
    BY <1>13, LinkUpStep, Unhindered DEF Passes, NextPort
  <2>2. CASE pc' # "down"
    <3>1. ASSUME NEW i \in DOMAIN Groups, NEW k \in DOMAIN Groups[i].ports, AddrDone(i, k)
          PROVE  AddrDone(i, k)'
      <4>1. i \in Nat /\ k \in Nat /\ pi \in Nat /\ gi \in Nat
        BY ListsAre DEF PlaceInv
      <4> QED
        BY <2>1, <2>2, <3>1, <4>1 DEF AddrDone
    <3>2. Own'
      BY <1>3, <2>1, <3>1 DEF Building
    <3>3. Free'
      BY <1>0, <2>1, <2>2
    <3> QED
      BY <1>1, <1>2, <2>1, <3>2, <3>3
  <2>3. CASE pc' = "down"
    <3>1. Own'
      BY <2>3 DEF Building
    <3>2. Free'
      BY <1>0, <2>1, <2>3
    <3> QED
      BY <1>1, <1>2, <2>1, <3>1, <3>2
  <2> QED
    BY <2>2, <2>3
<1>14. CASE ListFail \/ LoopEnd \/ Crash
  BY <1>1, <1>2, <1>14, EndStep DEF Passes, Building, kernelVars
<1>15. CASE Start
  <2>1. UNCHANGED <<vports, addrs>> /\ pc' = "get" /\ missed' = {}
    BY <1>15 DEF Start, kernelVars
  <2> QED
    BY <1>1, <1>2, <2>1 DEF Building
<1>16. CASE UNCHANGED vars
  <2>1. UNCHANGED <<vports, addrs, hub, pc, gi, pi, clean, missed>>
    BY <1>16 DEF vars, kernelVars, localVars
  <2> QED
    BY <2>1 DEF CleanInv, DpExists, Building, AddrDone, PortAt
<1> QED
  BY <1>4, <1>5, <1>6, <1>7, <1>8, <1>9, <1>10, <1>11, <1>12, <1>13, <1>14, <1>15, <1>16
     DEF Next, Setup

LEMMA CleanInit == Init => CleanInv
  BY DEF Init, CleanInv, DpExists, Building

\* A hub gives up only after a failure or a crash of its own: nothing an
\* earlier one can have left makes the kernel refuse a command.
THEOREM StartsClean == Spec => []CleanStart
<1>1. PlaceInv /\ NumbersInv /\ BuiltInv /\ LinkInv /\ CleanInv /\ [Next]_vars => CleanInv'
  BY CleanStep
<1>2. CleanInv => CleanStart
  BY DEF CleanInv, CleanStart
<1> QED
  BY <1>1, <1>2, CleanInit, SetupInvariance, PTL DEF Spec
=============================================================================

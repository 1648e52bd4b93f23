------------------------------ MODULE OdpSetup ------------------------------
(***************************************************************************)
(* odp_new (odp.c): hub builds its datapath, one command after another,    *)
(* and forwards packets until it is stopped.  The datapath lives in the    *)
(* kernel and outlives the process: a hub that failed or crashed leaves    *)
(* some of it behind, addressed to a socket that is gone, and the next one *)
(* must find it, delete it and build it anew.                              *)
(*                                                                         *)
(* A command is one dp_exec, vport_exec or rtnl_exec, with the outcomes    *)
(* Dispatch admits: the kernel executes or refuses it and the caller       *)
(* learns that; or send() or recv() fails, and the kernel may or may not   *)
(* have executed it.  Left out: the send() of 0 bytes after a failed       *)
(* poll() (TxRing), and upcalls that arrive while odp_new still talks to   *)
(* the dp socket.                                                          *)
(***************************************************************************)
EXTENDS Naturals, Sequences, FiniteSets

CONSTANTS Groups,       \* ports[]: the port lists after compact_ports, in
                        \* order, as records [type, ports]
          Addressed,    \* internal ports given an address (addr=)
          Others,       \* network devices that are none of hub's
          Unset,        \* the value of what has not been assigned
          MaxFaults,    \* bound: failures and refusals of commands
          MaxCrashes    \* bound: hub killed

Tunnels   == {"gre", "gre64", "lisp", "vxlan"}
PortsOf(g) == {g.ports[i] : i \in DOMAIN g.ports}
GroupSet  == {Groups[i] : i \in DOMAIN Groups}
Ports     == UNION {PortsOf(g) : g \in GroupSet}
Internal  == CHOOSE g \in GroupSet : g.type = "internal"

\* main adds the datapath's own port at the head of the internal ports, so
\* there is one; names are distinct, or the kernel refuses a command.
ASSUME GroupsAssumption ==
  /\ Groups \in Seq(GroupSet)
  /\ \A g \in GroupSet :
       /\ g.type \in Tunnels \cup {"internal", "netdev"}
       /\ g.ports \in Seq(PortsOf(g)) /\ g.ports # <<>>
       /\ \A k, l \in DOMAIN g.ports : g.ports[k] = g.ports[l] => k = l
  /\ \E g \in GroupSet : g.type = "internal"
  /\ \A i, j \in DOMAIN Groups : i # j =>
       Groups[i].type # Groups[j].type /\ PortsOf(Groups[i]) \cap PortsOf(Groups[j]) = {}
  /\ Ports \cap Tunnels = {} /\ PortsOf(Internal) \cap Others = {}
ASSUME AddressedAssumption == Addressed \subseteq PortsOf(Internal)
ASSUME BoundsAssumption == MaxFaults \in Nat /\ MaxCrashes \in Nat

VARIABLES vports,       \* the kernel's datapath: its vports by name, each with
                        \* its number and the hub its upcalls go to; empty if
                        \* there is none
          addrs,        \* the kernel's addresses: <<device, port>> if the
                        \* device has the address asked for the port
          up,           \* devices set up, in the kernel
          hub,          \* which hub runs, or ran: its number stands for nl_pid
          pc,           \* where odp_new is, "down" if no hub runs
          gi, pi,       \* the group and the port in hand
          portNo,       \* port_no of each struct port
          ifindex,      \* opt.link.ifindex, as the device it names
          clean,        \* history: this hub has met no failure and no crash
          missed,       \* history: ports missing in this hub's list of links
          faults, crashes

kernelVars == <<vports, addrs, up>>
localVars  == <<gi, pi, portNo, ifindex>>
vars == <<kernelVars, hub, pc, localVars, clean, missed, faults, crashes>>

DpName   == Internal.ports[1]
Group    == Groups[gi]
Port     == Group.ports[pi]
Devices  == PortsOf(Internal) \cup Others

\* The vport that stands for a port: a tunnel type has one for all its ports,
\* called after the type.
IsTunnel(g) == g.type \in Tunnels
VportOf(g, p) == IF IsTunnel(g) THEN g.type ELSE p
Vports == UNION {{VportOf(g, p) : p \in PortsOf(g)} : g \in GroupSet}

DpExists  == DpName \in DOMAIN vports
Exists(d) == d \in Others \/ d \in DOMAIN vports \cap PortsOf(Internal)

\* The numbers the kernel may give the next vport; 0 is the datapath's own.
FreeNumbers == (1 .. Cardinality(Ports)) \ {vports[v].no : v \in DOMAIN vports}

Init ==
  /\ vports  = <<>>
  /\ addrs   = {}
  /\ up      = {}
  /\ hub     = 0
  /\ pc      = "down"
  /\ gi      = 1
  /\ pi      = 1
  /\ portNo  = [p \in Ports |-> Unset]
  /\ ifindex = [p \in Ports |-> Unset]
  /\ clean   = FALSE
  /\ missed  = {}
  /\ faults  = 0
  /\ crashes = 0

-----------------------------------------------------------------------------
(* Commands *)

Fault == faults < MaxFaults /\ faults' = faults + 1 /\ clean' = FALSE

\* A command the kernel can execute, or not, with an effect; done and fail
\* say what odp_new does next. A fault is a failed send(), a failed recv()
\* or a refusal for reasons outside this model.
Command(can, effect, done, fail) ==
  /\ \/ can /\ effect /\ done /\ UNCHANGED <<clean, faults>>
     \/ ~can /\ fail /\ UNCHANGED <<kernelVars, clean, faults>>
     \/ Fault /\ fail /\ ((can /\ effect) \/ UNCHANGED kernelVars)
  /\ UNCHANGED <<hub, crashes>>

Goto(label) == pc' = label /\ UNCHANGED <<localVars, missed>>

\* err: odp_free, and main exits.
Exit == Goto("down")

-----------------------------------------------------------------------------
(* odp_new: an old datapath is deleted, a new one made *)

\* main, odp_init: a hub is started, its struct ports are new.
Start ==
  /\ pc = "down"
  /\ hub <= MaxFaults + MaxCrashes
  /\ hub'     = hub + 1
  /\ pc'      = "get"
  /\ gi'      = 1
  /\ pi'      = 1
  /\ portNo'  = [p \in Ports |-> Unset]
  /\ ifindex' = [p \in Ports |-> Unset]
  /\ clean'   = TRUE
  /\ missed'  = {}
  /\ UNCHANGED <<kernelVars, faults, crashes>>

\* dp_cmd_get: a failure is taken for "there is none".
GetOldAs(found) ==
  /\ pc = "get"
  /\ Command(DpExists, UNCHANGED kernelVars, Goto(found), Goto("new"))
GetOldKeeps == GetOldAs("new")                         \* mutant of GetOld
GetOld == GetOldAs("del")

\* dp_cmd_del: the kernel drops the vports, and the devices of the internal
\* ones with their addresses.
DelOld ==
  /\ pc = "del"
  /\ Command(DpExists,
             /\ vports' = <<>>
             /\ addrs'  = {a \in addrs : a[1] \in Others}
             /\ up'     = up \cap Others,
             Goto("new"), Exit)

\* dp_cmd_new.
NewDp ==
  /\ pc = "new"
  /\ Command(~DpExists,
             /\ vports' = [v \in {DpName} |-> [no |-> 0, pid |-> hub]]
             /\ UNCHANGED <<addrs, up>>,
             Goto("check"), Exit)

\* dp_cmd_get, for dp_ifindex.
GetNew ==
  /\ pc = "check"
  /\ Command(DpExists, UNCHANGED kernelVars, Goto("group"), Exit)

-----------------------------------------------------------------------------
(* odp_new's loop: internal_port, netdev_port and tunnel_port *)

\* The next list of ports. The first internal port is the datapath's own: it
\* exists already.
EnterGroupAt(internal, other) ==
  /\ pc = "group"
  /\ gi <= Len(Groups)
  /\ \/ /\ Group.type = "internal"
        /\ portNo' = [portNo EXCEPT ![DpName] = 0]
        /\ pi'     = internal
        /\ pc'     = IF Len(Group.ports) < internal THEN "list" ELSE "port"
     \/ /\ Group.type # "internal"
        /\ pi' = other
        /\ pc' = "port"
        /\ UNCHANGED portNo
  /\ UNCHANGED <<kernelVars, hub, gi, ifindex, clean, missed, faults, crashes>>

EnterGroupAll == EnterGroupAt(1, 1)                    \* mutant of EnterGroup
EnterGroup == EnterGroupAt(2, 1)

LastGroup ==
  /\ pc = "group"
  /\ gi > Len(Groups)
  /\ Goto("loop")
  /\ UNCHANGED <<kernelVars, hub, clean, faults, crashes>>

\* vport_cmd_new, and port_no from the answer, for one port or for all those
\* of a tunnel type.
AddVport(v) ==
  /\ \E n \in FreeNumbers :
       vports' = [w \in DOMAIN vports \cup {v} |->
                    IF w = v THEN [no |-> n, pid |-> hub] ELSE vports[w]]
  /\ UNCHANGED <<addrs, up>>

NumberFor(ports) ==
  /\ portNo' = [p \in Ports |->
                  IF p \in ports THEN vports'[VportOf(Group, p)].no ELSE portNo[p]]
  /\ \/ /\ ~IsTunnel(Group) /\ pi < Len(Group.ports)
        /\ pi' = pi + 1
        /\ UNCHANGED <<pc, gi>>
     \/ /\ IsTunnel(Group) \/ pi = Len(Group.ports)
        /\ pc' = IF Group.type = "internal" THEN "list" ELSE "group"
        /\ gi' = IF Group.type = "internal" THEN gi ELSE gi + 1
        /\ UNCHANGED pi
  /\ UNCHANGED <<ifindex, missed>>

AddPortFor(ports) ==
  /\ pc = "port"
  /\ LET v == VportOf(Group, Port)
     IN  Command(DpExists /\ v \notin DOMAIN vports, AddVport(v), NumberFor(ports), Exit)

AddPortOne == AddPortFor({Port})                       \* mutant of AddPort
AddPort == AddPortFor(IF IsTunnel(Group) THEN PortsOf(Group) ELSE {Port})

-----------------------------------------------------------------------------
(* odp_link: the links' numbers, then address and flags of each *)

\* rtnl_link_list and port_parse. A dump that breaks off is taken for a whole
\* one: a port not found keeps what malloc() left in ifindex, the number of
\* some device or of none.
ListLinks(unseen) ==
  /\ pc = "list"
  /\ \E garbage \in [unseen -> Devices \cup {Unset}] :
       ifindex' = [p \in Ports |-> IF p \in unseen THEN garbage[p]
                                  ELSE IF Exists(p) THEN p ELSE ifindex[p]]
  /\ missed' = unseen
  /\ pi' = 1
  /\ pc' = "addr"
  /\ UNCHANGED <<kernelVars, hub, gi, portNo, crashes>>

List    == ListLinks({}) /\ UNCHANGED <<clean, faults>>
ListCut == Fault /\ \E unseen \in SUBSET Addressed \ {{}} : ListLinks(unseen)

ListFail ==
  /\ pc = "list"
  /\ Fault
  /\ Exit
  /\ UNCHANGED <<kernelVars, hub, crashes>>

NextPort ==
  /\ pc' = "addr"
  /\ pi' = pi + 1
  /\ UNCHANGED <<gi, portNo, ifindex, missed>>

\* A port without address is passed over; after the last the group is done.
NoAddr ==
  /\ pc = "addr"
  /\ \/ /\ pi <= Len(Group.ports) /\ Port \notin Addressed
        /\ NextPort
     \/ /\ pi > Len(Group.ports)
        /\ pc' = "group"
        /\ gi' = gi + 1
        /\ UNCHANGED <<pi, portNo, ifindex, missed>>
  /\ UNCHANGED <<kernelVars, hub, clean, faults, crashes>>

\* link_addr: rtnl_addr_add, which the kernel refuses if the address is there.
LinkAddr ==
  /\ pc = "addr"
  /\ pi <= Len(Group.ports) /\ Port \in Addressed
  /\ LET d == ifindex[Port]
     IN  Command(Exists(d) /\ <<d, Port>> \notin addrs,
                 addrs' = addrs \cup {<<d, Port>>} /\ UNCHANGED <<vports, up>>,
                 Goto("up"), Exit)

\* link_up: rtnl_link_set.
LinkUp ==
  /\ pc = "up"
  /\ LET d == ifindex[Port]
     IN  Command(Exists(d),
                 up' = up \cup {d} /\ UNCHANGED <<vports, addrs>>,
                 NextPort, Exit)

-----------------------------------------------------------------------------
(* The end of a hub *)

\* odp_loop returns after a failed recv().
LoopEnd ==
  /\ pc = "loop"
  /\ Fault
  /\ Exit
  /\ UNCHANGED <<kernelVars, hub, crashes>>

\* The process is killed, anywhere.
Crash ==
  /\ pc # "down"
  /\ crashes < MaxCrashes
  /\ crashes' = crashes + 1
  /\ clean'   = FALSE
  /\ Exit
  /\ UNCHANGED <<kernelVars, hub, faults>>

Setup == \/ GetOld \/ DelOld \/ NewDp \/ GetNew \/ EnterGroup \/ LastGroup \/ AddPort
         \/ List \/ NoAddr \/ LinkAddr \/ LinkUp
Next == Setup \/ Start \/ ListCut \/ ListFail \/ LoopEnd \/ Crash

Spec == Init /\ [][Next]_vars

\* odp_new is not stopped but by a crash, and hub is started again.
FairSpec == Spec /\ WF_vars(Setup) /\ WF_vars(Start)

-----------------------------------------------------------------------------
(* Properties *)

\* When odp_new has succeeded the kernel holds the ports asked for and no
\* others, all sending their upcalls to this very hub, under the numbers hub
\* has recorded for them, whatever an earlier hub had left behind; and the
\* internal ports the kernel listed have their own addresses and are up.
Ready == pc = "loop" =>
  /\ DOMAIN vports = Vports
  /\ \A v \in Vports : vports[v].pid = hub
  /\ \A g \in GroupSet : \A p \in PortsOf(g) : portNo[p] = vports[VportOf(g, p)].no
  /\ \A v, w \in Vports : vports[v].no = vports[w].no => v = w
  /\ \A p \in Addressed \ missed : <<p, p>> \in addrs /\ p \in up

\* A hub that meets no failure itself never gives up, wherever the one before
\* it failed or was killed: what is left in the kernel is no obstacle.
CleanStart == pc = "down" /\ hub > 0 => ~clean

\* Once the failures and crashes are over, a started hub gets its datapath.
Recovers == []<>(pc = "loop")
=============================================================================

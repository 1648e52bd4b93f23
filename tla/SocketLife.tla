----------------------------- MODULE SocketLife -----------------------------
(***************************************************************************)
(* The descriptors and mappings of hub, from odp_init to odp_free.         *)
(* odp_init opens five netlink sockets one after another; for each but the *)
(* last, ovs_init first opens a control socket, asks it for the numbers of *)
(* the four families and frees it.  Any step may fail, and what was opened *)
(* until then is to be given back.  ovs_init frees its control socket a    *)
(* second time when the socket itself cannot be opened.                    *)
(*                                                                         *)
(* The operating system is external: a descriptor is the lowest free       *)
(* number, a mapping goes to any free address; close() and munmap() free   *)
(* what they are given, whoever opened it, and do nothing to what is free. *)
(* What get_family does on its socket is Dispatch; here it succeeds or     *)
(* fails.  A multicast group's number is looked up too, but never used.    *)
(***************************************************************************)
EXTENDS Naturals, Sequences

CONSTANTS MaxFds,       \* descriptors the process may have (RLIMIT_NOFILE)
          Addrs,        \* where mmap() may put a socket's two rings
          None          \* no owner

Sockets  == <<"dp", "vport", "flow", "packet", "rtnl">>
Families == <<"ovs_datapath", "ovs_vport", "ovs_flow", "ovs_packet">>
Rings    == {"rx", "tx"}
Fds      == 0 .. MaxFds - 1

\* A struct nl: that of the k-th socket of struct odp, or the control socket
\* on the stack of the ovs_init that opens it.
Nls == (1 .. Len(Sockets)) \X {"own", "ctrl"}

ASSUME MaxFdsAssumption == MaxFds \in Nat
ASSUME NoneAssumption   == None \notin Nls \cup Addrs

VARIABLES fds,          \* who opened each descriptor, None if closed
          maps,         \* who mapped each half of an address, None if free
          nl,           \* fd and rx_ring.addr of each struct nl
          k,            \* the socket of odp_init in hand
          role,         \* its own struct nl, or the control socket's
          pc,           \* where odp_init is
          fam           \* i of ovs_init

vars == <<fds, maps, nl, k, role, pc, fam>>

HasCtrl(j)  == Sockets[j] # "rtnl"
RoleOf(j)   == IF HasCtrl(j) THEN "ctrl" ELSE "own"
Self        == <<k, role>>

Init ==
  /\ fds   = [f \in Fds |-> None]
  /\ maps  = [p \in Addrs \X Rings |-> None]
  /\ nl    = [x \in Nls |-> [fd |-> 0, addr |-> None]]
  /\ k     = 1
  /\ role  = RoleOf(1)
  /\ pc    = "socket"
  /\ fam   = 1

-----------------------------------------------------------------------------
(* The system calls *)

Close(f) == fds' = [fds EXCEPT ![f] = None]

Unmap(a, rings) ==
  maps' = [p \in DOMAIN maps |-> IF p[1] = a /\ p[2] \in rings THEN None ELSE maps[p]]

-----------------------------------------------------------------------------
(* nl_init, on the control socket or on the socket itself *)

\* What its caller does when nl_init has failed: odp_init frees the sockets
\* it has; ovs_init, if the control socket is gone already, frees it again.
GiveUp ==
  /\ pc' = IF role = "own" /\ HasCtrl(k) THEN "err" ELSE "unwind"
  /\ UNCHANGED <<nl, k, role, fam>>

\* When it has succeeded: ovs_init goes on with the families, odp_init with
\* the next socket.
GoOn ==
  \/ /\ role = "ctrl"
     /\ pc'  = "family"
     /\ fam' = 1
     /\ UNCHANGED <<k, role>>
  \/ /\ role = "own"
     /\ k < Len(Sockets)
     /\ k'    = k + 1
     /\ role' = RoleOf(k + 1)
     /\ pc'   = "socket"
     /\ UNCHANGED fam
  \/ /\ role = "own"
     /\ k = Len(Sockets)
     /\ k'  = k + 1
     /\ pc' = "ready"
     /\ UNCHANGED <<role, fam>>

Socket ==
  /\ pc = "socket"
  /\ \E f \in Fds :
       /\ fds[f] = None
       /\ \A g \in 0 .. f - 1 : fds[g] # None
       /\ fds' = [fds EXCEPT ![f] = Self]
       /\ nl'  = [nl EXCEPT ![Self].fd = f]
  /\ pc' = "mmap"
  /\ UNCHANGED <<maps, k, role, fam>>

SocketFail ==
  /\ pc = "socket"
  /\ GiveUp
  /\ UNCHANGED <<fds, maps>>

Mmap ==
  /\ pc = "mmap"
  /\ \E a \in Addrs :
       /\ \A r \in Rings : maps[<<a, r>>] = None
       /\ maps' = [p \in DOMAIN maps |-> IF p[1] = a THEN Self ELSE maps[p]]
       /\ nl'   = [nl EXCEPT ![Self].addr = a]
  /\ GoOn
  /\ UNCHANGED fds

\* bind(), getsockname(), a setsockopt() or mmap() has failed.
InitFails(closing) ==
  /\ pc = "mmap"
  /\ IF closing THEN Close(nl[Self].fd) ELSE UNCHANGED fds
  /\ GiveUp
  /\ UNCHANGED maps

InitFailLeaves == InitFails(FALSE)                      \* mutant of InitFail
InitFail == InitFails(TRUE)

-----------------------------------------------------------------------------
(* ovs_init *)

\* get_family has found the number of the family, or has failed.
Family ==
  /\ pc = "family"
  /\ IF fam < Len(Families) THEN fam' = fam + 1 /\ UNCHANGED pc
                            ELSE pc' = "freectrl" /\ UNCHANGED fam
  /\ UNCHANGED <<fds, maps, nl, k, role>>

FamilyFail ==
  /\ pc = "family"
  /\ pc' = "err"
  /\ UNCHANGED <<fds, maps, nl, k, role, fam>>

\* nl_free: both halves of the mapping, then the descriptor.
NlFree(x) == Unmap(nl[x].addr, Rings) /\ Close(nl[x].fd)

\* nlctrl_free, before the socket itself is opened; and under err.
FreeCtrl ==
  /\ pc = "freectrl"
  /\ NlFree(<<k, "ctrl">>)
  /\ role' = "own"
  /\ pc'   = "socket"
  /\ UNCHANGED <<nl, k, fam>>

Err ==
  /\ pc = "err"
  /\ NlFree(<<k, "ctrl">>)
  /\ pc' = "unwind"
  /\ UNCHANGED <<nl, k, role, fam>>

-----------------------------------------------------------------------------
(* odp_init's error labels and odp_free: the sockets in reverse order *)

UnwindAt(j) ==
  /\ pc = "unwind"
  /\ k > 1
  /\ NlFree(<<j, "own">>)
  /\ k' = k - 1
  /\ UNCHANGED <<nl, role, pc, fam>>

UnwindLabel == k <= Len(Sockets) /\ UnwindAt(k)         \* mutant of Unwind
Unwind == UnwindAt(k - 1)

UnwindDone ==
  /\ pc = "unwind"
  /\ k = 1
  /\ pc' = "off"
  /\ UNCHANGED <<fds, maps, nl, k, role, fam>>

\* odp_new has met an error, or odp_loop has returned.
OdpFree ==
  /\ pc = "ready"
  /\ pc' = "unwind"
  /\ UNCHANGED <<fds, maps, nl, k, role, fam>>

Next == \/ Socket \/ SocketFail \/ Mmap \/ InitFail
        \/ Family \/ FamilyFail \/ FreeCtrl \/ Err
        \/ Unwind \/ UnwindDone \/ OdpFree

Spec == Init /\ [][Next]_vars

-----------------------------------------------------------------------------
(* Properties *)

\* Every variable keeps its range.
TypeOK ==
  /\ fds   \in [Fds -> Nls \cup {None}]
  /\ maps  \in [Addrs \X Rings -> Nls \cup {None}]
  /\ nl    \in [Nls -> [fd : Fds \cup {0}, addr : Addrs \cup {None}]]
  /\ k     \in 1 .. Len(Sockets) + 1
  /\ role  \in {"own", "ctrl"}
  /\ pc    \in {"socket", "mmap", "family", "freectrl", "err", "ready", "unwind", "off"}
  /\ pc \in {"socket", "mmap", "family", "freectrl", "err"} => k <= Len(Sockets)
  /\ fam   \in DOMAIN Families

\* The structs nl that have been initialised and not been freed.
Live == {<<j, "own">> : j \in 1 .. k - 1}
        \cup (IF role = "ctrl" /\ pc \in {"family", "freectrl", "err"} THEN {Self} ELSE {})

Holds(x) == /\ fds[nl[x].fd] = x
            /\ \A r \in Rings : maps[<<nl[x].addr, r>>] = x

\* Whatever fails, no close() or munmap() of one socket takes away what
\* another one, initialised and not freed, lives on: although ovs_init frees
\* its control socket twice, by numbers that may have been given out anew.
Held == \A x \in Live : Holds(x)

\* Nothing is lost track of: every open descriptor and every mapping is that
\* of a socket still to be freed, or of the one nl_init is at work on. So
\* when odp_init has failed, or odp_free returned, nothing is left open.
NothingLost ==
  /\ \A f \in Fds : fds[f] \in Live \cup {None} \/ (pc = "mmap" /\ fds[f] = Self)
  /\ \A p \in DOMAIN maps : maps[p] \in Live \cup {None}
  /\ pc = "off" => Live = {}
=============================================================================

-------------------------- MODULE SocketLifeProofs --------------------------
(***************************************************************************)
(* Held and NothingLost of SocketLife, for every limit on descriptors and  *)
(* every set of addresses.                                                 *)
(***************************************************************************)
EXTENDS SocketLife, TLAPS

\* What a live socket holds is a real descriptor and a real mapping.
InRange == \A x \in Live : nl[x].fd \in Fds /\ nl[x].addr \in Addrs

\* nl_init has a descriptor of its own once socket() has succeeded.
AtWork == pc = "mmap" => nl[Self].fd \in Fds /\ fds[nl[Self].fd] = Self

\* The control socket that ovs_init has freed, and will free again if the
\* socket itself cannot be opened, names no descriptor or mapping of the
\* sockets that are open then.
Apart == pc \in {"socket", "mmap", "err"} /\ role = "own" /\ HasCtrl(k) =>
  \A j \in 1 .. k - 1 : /\ nl[<<j, "own">>].fd   # nl[<<k, "ctrl">>].fd
                        /\ nl[<<j, "own">>].addr # nl[<<k, "ctrl">>].addr

\* Control sockets are for the sockets that need one.
Roles == /\ pc \in {"socket", "mmap"} /\ role = "ctrl" => HasCtrl(k)
         /\ pc \in {"family", "freectrl"} => role = "ctrl"
         /\ pc \in {"family", "freectrl", "err"} => HasCtrl(k)

\* A descriptor or mapping is the one its owner's struct nl names.
Named == /\ \A f \in Fds : fds[f] # None => nl[fds[f]].fd = f
         /\ \A p \in DOMAIN maps : maps[p] # None => nl[maps[p]].addr = p[1]

IInv == TypeOK /\ Held /\ NothingLost /\ InRange /\ AtWork /\ Apart /\ Roles /\ Named

-----------------------------------------------------------------------------

\* odp_init opens five sockets.
LEMMA FiveSockets == Len(Sockets) = 5 /\ DOMAIN Sockets = 1 .. 5
  BY DEF Sockets

\* Which structs nl there are.
LEMMA NlsOf == /\ \A j \in 1 .. 5 : <<j, "own">> \in Nls /\ <<j, "ctrl">> \in Nls
             /\ \A x \in Nls : x[1] \in 1 .. 5 /\ x[2] \in {"own", "ctrl"} /\ x = <<x[1], x[2]>>
  BY FiveSockets DEF Nls

\* The sockets that are live, place by place.
LEMMA LiveSockets == ASSUME TypeOK
                     PROVE  /\ Live \subseteq Nls
                            /\ \A j \in 1 .. k - 1 : <<j, "own">> \in Live
                            /\ None \notin Live
<1>1. k \in 1 .. 6 /\ role \in {"own", "ctrl"}
      /\ (pc \in {"family", "freectrl", "err"} => k <= 5)
  BY FiveSockets DEF TypeOK
<1>2. \A j \in 1 .. k - 1 : <<j, "own">> \in Nls
  BY <1>1, NlsOf
<1>3. role = "ctrl" /\ pc \in {"family", "freectrl", "err"} => Self \in Nls
  BY <1>1, NlsOf DEF Self
<1>4. Live \subseteq Nls
  BY <1>2, <1>3 DEF Live
<1> QED
  BY <1>4, NoneAssumption DEF Live

\* Nothing is open at the start.
LEMMA InvInit == Init => IInv
<1> SUFFICES ASSUME Init PROVE IInv
  OBVIOUS
<1> USE FiveSockets, NoneAssumption, MaxFdsAssumption DEF Init
<1>1. HasCtrl(1)
  BY DEF HasCtrl, Sockets
<1>2. TypeOK
  <2>1. fds \in [Fds -> Nls \cup {None}] /\ maps \in [Addrs \X Rings -> Nls \cup {None}]
    OBVIOUS
  <2>2. nl \in [Nls -> [fd : Fds \cup {0}, addr : Addrs \cup {None}]]
    OBVIOUS
  <2>3. role \in {"own", "ctrl"}
    BY DEF RoleOf
  <2>4. fam \in DOMAIN Families
    BY DEF Families
  <2> QED
    BY <2>1, <2>2, <2>3, <2>4 DEF TypeOK
<1>3. Live = {}
  BY DEF Live
<1>4. Held /\ NothingLost /\ InRange /\ Named
  BY <1>3 DEF Held, NothingLost, InRange, Named
<1>5. AtWork /\ Apart /\ Roles
  BY <1>1, <1>3 DEF AtWork, Apart, Roles, RoleOf
<1> QED
  BY <1>2, <1>4, <1>5 DEF IInv

\* A socket that nl_init is at work on is not live.
LEMMA SelfNotLive == ASSUME TypeOK, pc \in {"socket", "mmap"}
                     PROVE  Self \in Nls /\ Self \notin Live
<1>1. k \in 1 .. 5 /\ role \in {"own", "ctrl"}
  BY FiveSockets DEF TypeOK
<1>2. Self \in Nls
  BY <1>1, NlsOf DEF Self
<1>3. \A j \in 1 .. k - 1 : <<j, "own">> # Self
  BY <1>1 DEF Self
<1> QED
  BY <1>2, <1>3 DEF Live

\* socket() gives out a descriptor that no live socket holds.
LEMMA SocketStep == ASSUME IInv, Socket PROVE IInv'
<1> USE DEF IInv
<1>1. PICK f \in Fds : /\ fds[f] = None
                       /\ fds' = [fds EXCEPT ![f] = Self]
                       /\ nl'  = [nl EXCEPT ![Self].fd = f]
  BY DEF Socket
<1>2. /\ pc = "socket" /\ pc' = "mmap"
      /\ UNCHANGED <<maps, k, role, fam>>
  BY DEF Socket
<1>3. Self \in Nls /\ Self \notin Live /\ Live \subseteq Nls /\ None \notin Live /\ None # Self
  BY <1>2, SelfNotLive, LiveSockets, NoneAssumption
<1>4. Live' = Live /\ Self' = Self
  BY <1>2 DEF Live, Self
<1>5. /\ fds' \in [Fds -> Nls \cup {None}]
      /\ nl' \in [Nls -> [fd : Fds \cup {0}, addr : Addrs \cup {None}]]
  BY <1>1, <1>3 DEF TypeOK
<1>6. TypeOK'
  BY <1>2, <1>5 DEF TypeOK
<1>7. /\ \A x \in Nls : x # Self => nl'[x] = nl[x]
      /\ nl'[Self].fd = f /\ nl'[Self].addr = nl[Self].addr
      /\ fds'[f] = Self /\ \A g \in Fds : g # f => fds'[g] = fds[g]
  BY <1>1, <1>3 DEF TypeOK
<1>8. \A x \in Live : x # Self /\ x # None /\ x \in Nls /\ nl'[x] = nl[x]
                      /\ nl[x].fd # f /\ fds'[nl[x].fd] = x
  BY <1>1, <1>3, <1>7 DEF Held, Holds, InRange
<1>9. Held' /\ InRange'
  BY <1>2, <1>4, <1>8 DEF Held, Holds, InRange
<1>10. NothingLost' /\ AtWork' /\ Roles'
  BY <1>1, <1>2, <1>4, <1>7 DEF NothingLost, AtWork, Roles, HasCtrl
<1>11. Apart'
  <2> SUFFICES ASSUME role = "own", HasCtrl(k), NEW j \in 1 .. k - 1
               PROVE  /\ nl'[<<j, "own">>].fd   # nl'[<<k, "ctrl">>].fd
                      /\ nl'[<<j, "own">>].addr # nl'[<<k, "ctrl">>].addr
    BY <1>2 DEF Apart, HasCtrl
  <2>1. <<j, "own">> \in Live
    BY LiveSockets
  <2>2. <<k, "ctrl">> \in Nls
    <3>1. k \in 1 .. 5
      BY <1>2, FiveSockets DEF TypeOK
    <3> QED
      BY <3>1, NlsOf
  <2>3. <<k, "ctrl">> # Self
    BY DEF Self
  <2> QED
    BY <1>2, <1>7, <1>8, <2>1, <2>2, <2>3 DEF Apart
<1>12. Named'
  <2>1. \A g \in Fds : fds'[g] # None => nl'[fds'[g]].fd = g
    <3>1. \A g \in Fds : fds[g] \in Live \cup {None}
      BY <1>2 DEF NothingLost
    <3> QED
      BY <1>3, <1>7, <3>1 DEF Named
  <2>2. \A p \in DOMAIN maps : maps[p] # None => nl'[maps[p]].addr = p[1]
    BY <1>7 DEF Named, TypeOK
  <2> QED
    BY <1>2, <2>1, <2>2 DEF Named
<1> QED
  BY <1>6, <1>9, <1>10, <1>11, <1>12

\* mmap() completes nl_init: the socket is live.
LEMMA MmapStep == ASSUME IInv, Mmap PROVE IInv'
<1> USE DEF IInv
<1>1. PICK a \in Addrs :
        /\ \A r \in Rings : maps[<<a, r>>] = None
        /\ maps' = [p \in DOMAIN maps |-> IF p[1] = a THEN Self ELSE maps[p]]
        /\ nl'   = [nl EXCEPT ![Self].addr = a]
  BY DEF Mmap
<1>2. pc = "mmap" /\ GoOn /\ UNCHANGED fds
  BY DEF Mmap
<1>3. Self \in Nls /\ Self \notin Live /\ Live \subseteq Nls /\ None \notin Live /\ None # Self
  BY <1>2, SelfNotLive, LiveSockets, NoneAssumption
<1>4. Live' = Live \cup {Self}
  <2>1. k \in 1 .. 5 /\ role \in {"own", "ctrl"}
    BY <1>2, FiveSockets DEF TypeOK
  <2>2. CASE role = "ctrl"
    BY <1>2, <2>2 DEF GoOn, Live, Self
  <2>3. CASE role = "own"
    <3>1. k' = k + 1 /\ pc' \in {"socket", "ready"}
      BY <1>2, <2>3 DEF GoOn
    <3>2. 1 .. k' - 1 = (1 .. k - 1) \cup {k}
      BY <2>1, <3>1
    <3> QED
      BY <1>2, <2>3, <3>1, <3>2 DEF Live, Self
  <2> QED
    BY <2>1, <2>2, <2>3
<1>5. /\ maps' \in [Addrs \X Rings -> Nls \cup {None}]
      /\ nl' \in [Nls -> [fd : Fds \cup {0}, addr : Addrs \cup {None}]]
  BY <1>1, <1>3 DEF TypeOK
<1>6. TypeOK'
  BY <1>2, <1>5, FiveSockets DEF TypeOK, GoOn, RoleOf, Families
<1>7. /\ \A x \in Nls : x # Self => nl'[x] = nl[x]
      /\ nl'[Self].fd = nl[Self].fd /\ nl'[Self].addr = a
      /\ \A p \in Addrs \X Rings : maps'[p] = IF p[1] = a THEN Self ELSE maps[p]
  BY <1>1, <1>3 DEF TypeOK
<1>8. \A x \in Live : x # Self /\ nl'[x] = nl[x] /\ nl[x].addr # a
  BY <1>1, <1>3, <1>7 DEF Held, Holds, InRange, Rings
<1>9. InRange'
  BY <1>1, <1>2, <1>4, <1>7, <1>8 DEF InRange, AtWork
<1>10. Held'
  <2>1. \A x \in Live : \A r \in Rings : maps'[<<nl[x].addr, r>>] = x
    BY <1>7, <1>8 DEF Held, Holds, InRange
  <2>2. \A r \in Rings : maps'[<<a, r>>] = Self
    BY <1>1, <1>7
  <2> QED
    BY <1>2, <1>4, <1>7, <1>8, <2>1, <2>2 DEF Held, Holds, AtWork
<1>11. NothingLost'
  BY <1>2, <1>4, <1>5, <1>7 DEF NothingLost, GoOn, TypeOK
<1>12. AtWork' /\ Roles'
  BY <1>2 DEF AtWork, Roles, GoOn, RoleOf
<1>13. Apart'
  BY <1>2 DEF Apart, GoOn, RoleOf, HasCtrl
<1>14. Named'
  <2>1. \A g \in Fds : fds[g] # None => nl'[fds[g]].fd = g
    BY <1>7 DEF Named, TypeOK
  <2>2. \A p \in Addrs \X Rings : maps'[p] # None => nl'[maps'[p]].addr = p[1]
    <3> SUFFICES ASSUME NEW p \in Addrs \X Rings, maps'[p] # None
                 PROVE  nl'[maps'[p]].addr = p[1]
      OBVIOUS
    <3>1. CASE p[1] = a
      BY <3>1, <1>7
    <3>2. CASE p[1] # a
      BY <3>2, <1>3, <1>7 DEF Named, NothingLost, TypeOK
    <3> QED
      BY <3>1, <3>2
  <2> QED
    BY <1>2, <1>5, <2>1, <2>2 DEF Named
<1> QED
  BY <1>6, <1>9, <1>10, <1>11, <1>12, <1>13, <1>14

\* nl_init gives up: its own descriptor, if it had one, is closed.
LEMMA InitFailStep == ASSUME IInv, InitFail PROVE IInv'
<1> USE DEF IInv
<1>1. /\ pc = "mmap" /\ GiveUp /\ UNCHANGED maps
      /\ fds' = [fds EXCEPT ![nl[Self].fd] = None]
  BY DEF InitFail, InitFails, Close
<1>2. Live' = Live /\ Self \notin Live /\ Live \subseteq Nls /\ None \notin Live /\ Self \in Nls
  BY <1>1, SelfNotLive, LiveSockets DEF GiveUp, Live, Self
<1>3. TypeOK'
  BY <1>1, FiveSockets DEF TypeOK, GiveUp
<1>4. \A x \in Live : fds'[nl[x].fd] = x
  BY <1>1, <1>2 DEF Held, Holds, InRange, AtWork, TypeOK
<1>5. Held' /\ InRange'
  BY <1>1, <1>2, <1>4 DEF Held, Holds, InRange, GiveUp
<1>6. NothingLost'
  BY <1>1, <1>2 DEF NothingLost, GiveUp, TypeOK, Named, AtWork
<1>7. AtWork' /\ Apart' /\ Roles'
  BY <1>1 DEF AtWork, Apart, Roles, GiveUp, HasCtrl
<1>8. Named'
  BY <1>1 DEF Named, GiveUp, TypeOK
<1> QED
  BY <1>3, <1>5, <1>6, <1>7, <1>8

\* Steps that change neither descriptors nor mappings.
LEMMA QuietStep ==
  ASSUME IInv, SocketFail \/ Family \/ FamilyFail \/ UnwindDone \/ OdpFree \/ UNCHANGED vars
  PROVE  IInv'
<1> USE DEF IInv
<1>1. UNCHANGED <<fds, maps, nl>>
  BY DEF SocketFail, GiveUp, Family, FamilyFail, UnwindDone, OdpFree, vars
<1>2. Live' = Live /\ (pc' = "mmap" <=> pc = "mmap") /\ Self' = Self
  BY DEF SocketFail, GiveUp, Family, FamilyFail, UnwindDone, OdpFree, vars, Live, Self, Roles
<1>3. TypeOK'
  <2>1. fam' \in DOMAIN Families
    BY DEF SocketFail, GiveUp, Family, FamilyFail, UnwindDone, OdpFree, vars, TypeOK, Families
  <2> QED
    BY <1>1, <2>1, FiveSockets
       DEF SocketFail, GiveUp, Family, FamilyFail, UnwindDone, OdpFree, vars, TypeOK
<1>4. pc' = "off" => Live = {}
  BY DEF UnwindDone, SocketFail, GiveUp, Family, FamilyFail, OdpFree, vars, Live, NothingLost
<1>5. Held' /\ NothingLost' /\ InRange' /\ Named'
  BY <1>1, <1>2, <1>4 DEF Held, Holds, NothingLost, InRange, Named
<1>6. AtWork' /\ Apart' /\ Roles'
  BY <1>1, <1>2 DEF AtWork, Apart, Roles, HasCtrl,
     SocketFail, GiveUp, Family, FamilyFail, UnwindDone, OdpFree, vars
<1> QED
  BY <1>3, <1>5, <1>6

\* nl_free of a live socket takes away what is its own and nothing else.
LEMMA FreeLive ==
  ASSUME IInv, NEW x \in Live, NlFree(x), Live' = Live \ {x}, UNCHANGED nl,
         pc # "mmap", pc' # "off"
  PROVE  /\ Held' /\ NothingLost' /\ InRange' /\ Named'
         /\ fds' \in [Fds -> Nls \cup {None}] /\ maps' \in [Addrs \X Rings -> Nls \cup {None}]
<1> USE DEF IInv
<1>1. Live \subseteq Nls /\ None \notin Live
  BY LiveSockets
<1>2. /\ fds' = [fds EXCEPT ![nl[x].fd] = None]
      /\ maps' = [p \in DOMAIN maps |->
                    IF p[1] = nl[x].addr /\ p[2] \in Rings THEN None ELSE maps[p]]
  BY DEF NlFree, Close, Unmap
<1>3. fds' \in [Fds -> Nls \cup {None}] /\ maps' \in [Addrs \X Rings -> Nls \cup {None}]
  BY <1>2 DEF TypeOK
<1>4. /\ \A f \in Fds : fds'[f] = IF f = nl[x].fd THEN None ELSE fds[f]
      /\ \A p \in Addrs \X Rings : maps'[p] = IF p[1] = nl[x].addr THEN None ELSE maps[p]
  BY <1>2 DEF TypeOK
<1>5. \A y \in Live \ {x} : nl[y].fd # nl[x].fd /\ nl[y].addr # nl[x].addr
  BY DEF Held, Holds, Rings
<1>6. InRange'
  BY DEF InRange
<1>7. Held'
  BY <1>4, <1>5 DEF Held, Holds, InRange
<1>8. \A f \in Fds : fds'[f] \in (Live \ {x}) \cup {None}
  BY <1>4 DEF NothingLost, Named
<1>9. \A p \in Addrs \X Rings : maps'[p] \in (Live \ {x}) \cup {None}
  <2> SUFFICES ASSUME NEW p \in Addrs \X Rings PROVE maps'[p] \in (Live \ {x}) \cup {None}
    OBVIOUS
  <2>1. maps[p] \in Live \cup {None} /\ (maps[p] # None => nl[maps[p]].addr = p[1])
    BY DEF NothingLost, Named, TypeOK
  <2> QED
    BY <1>1, <1>4, <2>1
<1>10. NothingLost'
  BY <1>3, <1>8, <1>9 DEF NothingLost
<1>11. Named'
  BY <1>3, <1>4 DEF Named, TypeOK
<1> QED
  BY <1>3, <1>6, <1>7, <1>10, <1>11

\* ovs_init frees the control socket it has freed before: there is nothing
\* left for close() and munmap() to take away.
LEMMA FreeTwice ==
  ASSUME IInv, pc = "err", role = "own", NlFree(<<k, "ctrl">>)
  PROVE  fds' = fds /\ maps' = maps
<1> USE DEF IInv
<1> DEFINE x == <<k, "ctrl">>
<1>1. HasCtrl(k) /\ \A y \in Live : nl[y].fd # nl[x].fd /\ nl[y].addr # nl[x].addr
  BY DEF Roles, Apart, Live
<1>2. /\ fds' = [fds EXCEPT ![nl[x].fd] = None]
      /\ maps' = [p \in DOMAIN maps |->
                    IF p[1] = nl[x].addr /\ p[2] \in Rings THEN None ELSE maps[p]]
  BY DEF NlFree, Close, Unmap
<1>3. \A f \in Fds : fds[f] \in Live \cup {None}
  BY DEF NothingLost
<1>4. \A f \in Fds : f = nl[x].fd => fds[f] = None
  BY <1>1, <1>3 DEF Named
<1>5. \A p \in DOMAIN maps : p[1] = nl[x].addr => maps[p] = None
  BY <1>1 DEF Named, NothingLost
<1>6. fds' = fds
  BY <1>2, <1>4 DEF TypeOK
<1>7. maps' = maps
  BY <1>2, <1>5 DEF TypeOK
<1> QED
  BY <1>6, <1>7

\* ovs_init frees its control socket before the socket itself is opened.
LEMMA FreeCtrlStep == ASSUME IInv, FreeCtrl PROVE IInv'
<1> USE DEF IInv
<1>1. /\ pc = "freectrl" /\ role = "ctrl" /\ HasCtrl(k) /\ k \in 1 .. 5
      /\ NlFree(<<k, "ctrl">>)
      /\ role' = "own" /\ pc' = "socket" /\ UNCHANGED <<nl, k, fam>>
  BY FiveSockets DEF FreeCtrl, Roles, TypeOK
<1> DEFINE x == <<k, "ctrl">>
<1>2. x \in Live /\ Live' = Live \ {x}
  BY <1>1 DEF Live, Self
<1>3. /\ Held' /\ NothingLost' /\ InRange' /\ Named'
      /\ fds' \in [Fds -> Nls \cup {None}] /\ maps' \in [Addrs \X Rings -> Nls \cup {None}]
  BY <1>1, <1>2, FreeLive
<1>4. TypeOK'
  BY <1>1, <1>3, FiveSockets DEF TypeOK
<1>5. \A j \in 1 .. k - 1 : nl[<<j, "own">>].fd # nl[x].fd /\ nl[<<j, "own">>].addr # nl[x].addr
  <2>1. \A j \in 1 .. k - 1 : <<j, "own">> \in Live /\ <<j, "own">> # x
    BY LiveSockets
  <2>2. \A y \in Live : y # x => nl[y].fd # nl[x].fd /\ nl[y].addr # nl[x].addr
    BY <1>2 DEF Held, Holds, Rings
  <2> QED
    BY <2>1, <2>2
<1>6. AtWork' /\ Apart' /\ Roles'
  BY <1>1, <1>5 DEF AtWork, Apart, Roles, HasCtrl
<1> QED
  BY <1>3, <1>4, <1>6

\* ovs_init's err label.
LEMMA ErrStep == ASSUME IInv, Err PROVE IInv'
<1> USE DEF IInv
<1>1. /\ pc = "err" /\ pc' = "unwind" /\ NlFree(<<k, "ctrl">>)
      /\ UNCHANGED <<nl, k, role, fam>>
  BY DEF Err
<1> DEFINE x == <<k, "ctrl">>
<1>2. AtWork' /\ Apart' /\ Roles'
  BY <1>1 DEF AtWork, Apart, Roles
<1>3. CASE role = "ctrl"
  <2>1. x \in Live /\ Live' = Live \ {x}
    BY <1>1, <1>3 DEF Live, Self
  <2>2. /\ Held' /\ NothingLost' /\ InRange' /\ Named'
        /\ fds' \in [Fds -> Nls \cup {None}] /\ maps' \in [Addrs \X Rings -> Nls \cup {None}]
    BY <1>1, <2>1, FreeLive
  <2>3. TypeOK'
    BY <1>1, <2>2, FiveSockets DEF TypeOK
  <2> QED
    BY <1>2, <2>2, <2>3
<1>4. CASE role = "own"
  <2>1. UNCHANGED <<fds, maps>> /\ Live' = Live
    BY <1>1, <1>4, FreeTwice DEF Live
  <2>2. TypeOK'
    BY <1>1, <2>1, FiveSockets DEF TypeOK
  <2>3. Held' /\ NothingLost' /\ InRange' /\ Named'
    BY <1>1, <2>1 DEF Held, Holds, NothingLost, InRange, Named
  <2> QED
    BY <1>2, <2>2, <2>3
<1> QED
  BY <1>3, <1>4 DEF TypeOK

\* odp_init's labels, and odp_free.
LEMMA UnwindStep == ASSUME IInv, Unwind PROVE IInv'
<1> USE DEF IInv
<1>1. /\ pc = "unwind" /\ k > 1 /\ k' = k - 1 /\ k \in 1 .. 6
      /\ NlFree(<<k - 1, "own">>) /\ UNCHANGED <<nl, role, pc, fam>>
  BY FiveSockets DEF Unwind, UnwindAt, TypeOK
<1> DEFINE x == <<k - 1, "own">>
<1>2. x \in Live /\ Live' = Live \ {x}
  BY <1>1 DEF Live
<1>3. /\ Held' /\ NothingLost' /\ InRange' /\ Named'
      /\ fds' \in [Fds -> Nls \cup {None}] /\ maps' \in [Addrs \X Rings -> Nls \cup {None}]
  BY <1>1, <1>2, FreeLive
<1>4. TypeOK'
  BY <1>1, <1>3, FiveSockets DEF TypeOK
<1>5. AtWork' /\ Apart' /\ Roles'
  BY <1>1 DEF AtWork, Apart, Roles
<1> QED
  BY <1>3, <1>4, <1>5

\* No step breaks IInv.
LEMMA InvStep == IInv /\ [Next]_vars => IInv'
  BY SocketStep, MmapStep, InitFailStep, QuietStep, FreeCtrlStep, ErrStep, UnwindStep DEF Next

\* IInv is an invariant.
THEOREM Invariance == Spec => []IInv
  BY InvInit, InvStep, PTL DEF Spec

\* Every variable keeps its range.
THEOREM TypeCorrect == Spec => []TypeOK
<1>1. IInv => TypeOK
  BY DEF IInv
<1> QED
  BY <1>1, Invariance, PTL

\* Whatever fails, no close() or munmap() of one socket takes away what another
\* one lives on.
THEOREM HeldAlways == Spec => []Held
<1>1. IInv => Held
  BY DEF IInv
<1> QED
  BY <1>1, Invariance, PTL

\* Every open descriptor and every mapping is that of a socket still to be
\* freed: odp_init's error paths and odp_free leave nothing open.
THEOREM NothingLostEver == Spec => []NothingLost
<1>1. IInv => NothingLost
  BY DEF IInv
<1> QED
  BY <1>1, Invariance, PTL
=============================================================================

------------------------------- MODULE Build --------------------------------
(***************************************************************************)
(* How libdpif writes its requests: genl_builder and rtnl_builder, the     *)
(* builders of dp.c, vport.c, rtnl.c, nlctrl.c, packet.c and flow.c, over  *)
(* nla.c's put functions and buffer.c's buffers.  None of the builders     *)
(* looks at the result of a put: an attribute that does not fit leaves its *)
(* header, with no length, or nothing, and the message is sent all the     *)
(* same.  Only a flood can be that long: its actions grow with the ports,  *)
(* beside a key and a packet that came in a frame of the same size.        *)
(*                                                                         *)
(* The message is a sequence of words of four bytes, from the family's own *)
(* header on.  What the kernel reads of it is external: its walk ends at   *)
(* the first attribute without length, it ignores what follows at the top  *)
(* level, and refuses it among the actions.                                *)
(***************************************************************************)
EXTENDS Integers, SequencesExt

CONSTANTS Slack,        \* room beside a flood's headers, key and packet, in words
          Outputs,      \* lists of ports a flood puts out to: "port" or "tunnel"
          KeyBytes,     \* length of a flow key
          PacketBytes   \* length of a packet

ASSUME SizesAssumption == KeyBytes \in Nat \ {0} /\ PacketBytes \in Nat \ {0}
ASSUME SlackAssumption == Slack \subseteq Nat
ASSUME OutputsAssumption == Outputs \subseteq Seq({"port", "tunnel"})

VARIABLES request,      \* what is asked for
          room,         \* words the frame has behind the message's headers
          todo,         \* the builder's calls still to come
          out,          \* the words written
          nests,        \* the nests begun, the innermost last: the place of the
                        \* header, 0 for a null pointer
          state         \* "building", "built", or "crashed": a write through 0

vars == <<request, room, todo, out, nests, state>>

Words(bytes) == (bytes + 3) \div 4

-----------------------------------------------------------------------------
(* The builders: which calls they make *)

Reserve(bytes)   == [op |-> "reserve", type |-> "none", bytes |-> bytes]
Put(type, bytes) == [op |-> "put", type |-> type, bytes |-> bytes]
Begin(type)      == [op |-> "begin", type |-> type, bytes |-> 0]
End              == [op |-> "end", type |-> "none", bytes |-> 0]

Concat(seqs) == FlattenSeq(seqs)

\* action_output and action_output_tunnel, of a list with one tunnel.
ActionOutput == <<Put("output", 4)>>
ActionOutputTunnel ==
  <<Begin("set"), Begin("tunnel"), Put("id", 8), Put("src", 4), Put("dst", 4),
    Put("ttl", 1), End, End>> \o ActionOutput

Actions(outputs) ==
  <<Begin("actions")>>
  \o Concat([i \in DOMAIN outputs |->
               IF outputs[i] = "tunnel" THEN ActionOutputTunnel ELSE ActionOutput])
  \o <<End>>

OvsHeader == Reserve(4)
Name      == Put("name", 5)
Pid       == Put("upcall_pid", 4)

\* vport.c: only LISP and VXLAN have options.
VportOptions(type) == IF type \in {"lisp", "vxlan"}
                      THEN <<Begin("options"), Put("dst_port", 2), End>> ELSE <<>>

FlowKey == Put("key", KeyBytes)

PacketFlood(outputs) ==
  <<OvsHeader, FlowKey>> \o Actions(outputs) \o <<Put("packet", PacketBytes)>>
FlowFlood(outputs) == <<OvsHeader, FlowKey>> \o Actions(outputs)
FlowRequests == [flow_del |-> <<OvsHeader, FlowKey>>]

DpRequests ==
  [dp_new  |-> <<OvsHeader, Name, Pid>>,
   dp_del  |-> <<OvsHeader, Name>>,
   dp_get  |-> <<OvsHeader, Name>>,
   dp_list |-> <<OvsHeader>>]

VportNew(type) == <<OvsHeader, Name, Put("type", 4)>> \o VportOptions(type) \o <<Pid>>
VportRequests ==
  [vport_new  |-> VportNew("internal"),
   vxlan_new  |-> VportNew("vxlan"),
   vport_del  |-> <<OvsHeader, Name>>,
   vport_list |-> <<OvsHeader>>]

FamilyRequest == [get_family |-> <<Put("name", 5)>>]

RtnlRequests ==
  [link_list |-> <<Reserve(16)>>,
   link_set  |-> <<Reserve(16), Put("address", 6)>>,
   addr_add  |-> <<Reserve(8), Put("local", 4)>>,
   route_add |-> <<Reserve(12), Put("dst", 4), Put("gateway", 4), Put("oif", 4)>>]

Small == DpRequests @@ VportRequests @@ FlowRequests @@ FamilyRequest @@ RtnlRequests

Floods == {"packet_flood", "flow_flood"}
Requests == [kind : Floods, outputs : Outputs]
            \cup [kind : DOMAIN Small, outputs : {<<>>}]

CallsOf(r) == CASE r.kind = "packet_flood" -> PacketFlood(r.outputs)
                [] r.kind = "flow_flood" -> FlowFlood(r.outputs)
                [] OTHER -> Small[r.kind]

\* The upcall the flood answers came in a frame of this size: its header, key and
\* packet fit.
Upcall == 1 + 1 + Words(KeyBytes) + 1 + Words(PacketBytes)
Init ==
  /\ request \in Requests
  /\ room \in IF request.kind \in Floods THEN {Upcall + s : s \in Slack} ELSE {1000}
  /\ todo  = CallsOf(request)
  /\ out   = <<>>
  /\ nests = <<>>
  /\ state = "building"

-----------------------------------------------------------------------------
(* nla.c and buffer.c *)

Left   == room - Len(out)
Data(n) == [i \in 1 .. n |-> [len |-> 0, type |-> "data"]]
Header(type, len) == <<[len |-> len, type |-> type]>>

Call(op) == /\ state = "building" /\ todo # <<>> /\ Head(todo).op = op
            /\ todo' = Tail(todo)

\* buffer_reserve: all or nothing.
ReserveWords ==
  /\ Call("reserve")
  /\ LET n == Words(Head(todo).bytes) IN
     out' = IF Left < n THEN out ELSE out \o Data(n)
  /\ UNCHANGED <<request, room, nests, state>>

\* nla_begin, then the payload if it fits, and only then its length.
PutAttr(begin) ==
  /\ Call("put")
  /\ LET c == Head(todo)
         n == Words(c.bytes)
     IN  out' = IF Left < 1 THEN out
                ELSE IF Left - 1 < n THEN out \o begin
                ELSE out \o Header(c.type, 4 + c.bytes) \o Data(n)
  /\ UNCHANGED <<request, room, nests, state>>

NlaPutUndo == PutAttr(<<>>)                              \* mutant of NlaPut
NlaPut == PutAttr(Header(Head(todo).type, 0))

\* nla_nest_begin: 0 if there is no room for the header.
NestBegin ==
  /\ Call("begin")
  /\ nests' = Append(nests, IF Left < 1 THEN 0 ELSE Len(out) + 1)
  /\ out'   = IF Left < 1 THEN out ELSE out \o Header(Head(todo).type, 0)
  /\ UNCHANGED <<request, room, state>>

\* nla_nest_end: the length is what was written since.
EndNest(length) ==
  /\ Call("end")
  /\ LET nla == Last(nests) IN
       \/ /\ nla = 0
          /\ state' = "crashed"
          /\ UNCHANGED <<out, nests>>
       \/ /\ nla # 0
          /\ out'   = [out EXCEPT ![nla].len = length]
          /\ nests' = Front(nests)
          /\ UNCHANGED state
  /\ UNCHANGED <<request, room>>

NestEndPayload == EndNest(4 * (Len(out) - Last(nests)))       \* mutant of NestEnd
NestEnd == EndNest(4 * (Len(out) - Last(nests) + 1))

\* genlmsg_end, nlmsg_end, buffer_flip: the message is as long as the position.
MsgEnd ==
  /\ state = "building" /\ todo = <<>>
  /\ state' = "built"
  /\ UNCHANGED <<request, room, todo, out, nests>>

Next == \/ ReserveWords \/ NlaPut \/ NestBegin \/ NestEnd \/ MsgEnd

Spec == Init /\ [][Next]_vars

-----------------------------------------------------------------------------
(* What the kernel reads *)

\* Where the walk over the words from i to last ends.
Fits(i, last)  == i <= last /\ out[i].len >= 4 /\ i + Words(out[i].len) - 1 <= last
WalkEnd(i0, last) ==
  LET end[i \in i0 .. Len(out) + 1] ==
        IF Fits(i, last) THEN end[i + Words(out[i].len)] ELSE i
  IN  end[i0]

\* The places of the attributes the walk meets, in order.
Attrs(i0, last) ==
  LET met[i \in i0 .. Len(out) + 1] ==
        IF Fits(i, last) THEN <<i>> \o met[i + Words(out[i].len)] ELSE <<>>
  IN  met[i0]

LastOf(i) == i + Words(out[i].len) - 1
Exact(i)  == WalkEnd(i + 1, LastOf(i)) = LastOf(i) + 1
Inside(i) == Attrs(i + 1, LastOf(i))
TypesOf(places) == [k \in DOMAIN places |-> out[places[k]].type]

HeaderWords == IF request.kind = "get_family" THEN 0
               ELSE Words(CallsOf(request)[1].bytes)
Top == Attrs(HeaderWords + 1, Len(out))

\* The attributes without which the kernel refuses a request.
Needed ==
  [packet_flood |-> {"key", "actions", "packet"}, flow_flood |-> {"key", "actions"},
   dp_new |-> {"name", "upcall_pid"}, dp_del |-> {"name"}, dp_get |-> {"name"},
   dp_list |-> {}, vport_new |-> {"name", "type", "upcall_pid"},
   vxlan_new |-> {"name", "type", "options", "upcall_pid"}, vport_del |-> {"name"},
   vport_list |-> {}, flow_del |-> {"key"}, get_family |-> {"name"},
   link_list |-> {}, link_set |-> {"address"}, addr_add |-> {"local"},
   route_add |-> {"dst", "gateway", "oif"}]

\* The actions of a flood, each whole, with nothing left over, and a tunnel's key
\* with all it needs.
ActionsAt == CHOOSE i \in ToSet(Top) : out[i].type = "actions"
SoundActions ==
  /\ Exact(ActionsAt)
  /\ \A i \in ToSet(Inside(ActionsAt)) : out[i].type = "set" =>
       /\ Exact(i) /\ Len(Inside(i)) = 1
       /\ LET tunnel == Inside(i)[1] IN
          /\ Exact(tunnel)
          /\ {"dst", "ttl"} \subseteq ToSet(TypesOf(Inside(tunnel)))

Accepted == /\ Len(out) >= HeaderWords
            /\ Needed[request.kind] \subseteq ToSet(TypesOf(Top))
            /\ request.kind \in Floods => SoundActions

ActionsRead  == TypesOf(Inside(ActionsAt))
ActionsAsked == Concat([i \in DOMAIN request.outputs |->
                  IF request.outputs[i] = "tunnel" THEN <<"set", "output">>
                                                   ELSE <<"output">>])

-----------------------------------------------------------------------------
(* Properties *)

\* The words all the calls of the request take.
Wanted == LET words(c) == CASE c.op = "reserve" -> Words(c.bytes)
                            [] c.op = "put" -> 1 + Words(c.bytes)
                            [] c.op = "begin" -> 1
                            [] OTHER -> 0
          IN  FoldSeq(LAMBDA c, n : n + words(c), 0, CallsOf(request))

\* A request with room enough is built, the kernel accepts it, and reads just
\* the actions that were asked for; its nests are closed.
WholeWhenFits == Wanted <= room =>
  /\ state # "crashed"
  /\ state = "built" =>
       /\ nests = <<>> /\ Accepted
       /\ request.kind \in Floods => ActionsRead = ActionsAsked

\* Without room enough nobody is told, but what the kernel accepts all the same
\* is what was asked for, with one exception: a flow whose list of actions is
\* cut off just behind one of them. Such a flow forwards to the first ports only;
\* of a packet, which comes behind the actions, nothing is put out then.
NothingElse == state = "built" /\ Accepted /\ request.kind \in Floods =>
  \/ ActionsRead = ActionsAsked
  \/ /\ request.kind = "flow_flood"
     /\ Len(out) = room
     /\ IsStrictPrefix(ActionsRead, ActionsAsked)
=============================================================================

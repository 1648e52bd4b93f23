------------------------------- MODULE Parse --------------------------------
(***************************************************************************)
(* How libdpif reads what the kernel sends: nl_parse (nl.c, nlmsg.c), the  *)
(* handlers it calls (dp_parse, vport_parse, nlctrl_parse, packet_parse,   *)
(* rtnl_parse with odp.c's port_parse, and action.c's key_parse), all over *)
(* the primitives of nla.c.  Each walks a slice of the datagram attribute  *)
(* by attribute: nla_parse takes a header, a getter or nla_discard takes   *)
(* the payload, a nested slice is walked by the next handler, and the      *)
(* outer walk goes on where that one stopped.  The positions alone keep    *)
(* the walks on the message's own attributes.                              *)
(*                                                                         *)
(* A datagram is a sequence of words of four bytes, headers and data; a    *)
(* walk that has lost its place reads data as a header.  Strings are one   *)
(* word.  What the kernel sends is external: the order and the sizes of    *)
(* its attributes.  There is one receive frame, as in copy mode, and a     *)
(* datagram leaves the end of a longer one before it in there.             *)
(***************************************************************************)
EXTENDS Integers, SequencesExt

CONSTANTS InPorts,      \* port numbers
          EtherTypes,   \* ethertypes, numbers
          TunIds,       \* tunnel ids, numbers
          Priorities,   \* values of a packet's priority
          Absent,       \* the value of an attribute that is not sent
          Stale         \* what a field holds before it is read

ASSUME ValuesAssumption ==
  /\ InPorts \cup EtherTypes \cup TunIds \cup Priorities \subseteq Nat
  /\ {Absent, Stale} \cap (InPorts \cup EtherTypes \cup TunIds) = {}

VARIABLES chain,        \* which chain of handlers reads the socket
          sent,         \* what the kernel means to say
          coming,       \* its datagrams that have not been received
          frame,        \* the words of the receive frame
          walks,        \* the walks in progress, the innermost last: handler,
                        \* buffer_position and buffer_limit of its slice, and
                        \* whether ret is 0
          field,        \* the fields handlers have set; a pointer is a position
          aborted       \* assert(buffer_remaining(&buf) == 0) failed

vars == <<chain, sent, coming, frame, walks, field, aborted>>

-----------------------------------------------------------------------------
(* What the kernel sends *)

Word(is, len, type, val) == [is |-> is, len |-> len, type |-> type, val |-> val]
Data(v)  == Word("data", v % 65536, v \div 65536, v)
Text(s)  == Word("data", 30319, 29279, s)
Zero     == Data(0)
Zeros(n) == [i \in 1 .. n |-> Zero]

\* An attribute of n bytes; a nested one.
Attr(type, n, words) == <<Word("attr", 4 + n, type, 65536 * type + 4 + n)>> \o words
Nest(type, words)    == Attr(type, 4 * Len(words), words)
U32(type, v)  == Attr(type, 4, <<Data(v)>>)
Str(type, s)  == Attr(type, 3, <<Text(s)>>)
If(b, words)  == IF b THEN words ELSE <<>>

NLMSG_ERROR == 2
NLMSG_DONE  == 3
Object      == 20     \* any type of the kernel's that is not nl_parse's own

\* A message, of the current request or none (seq 0), and a datagram of which
\* the last word is not complete.
Message(type, seq, words) ==
  <<Word("message", 16 + 4 * Len(words), type, seq)>> \o Zeros(3) \o words
Genl(seq, attrs) == Message(Object, seq, Zeros(2) \o attrs)
Datagram(words)  == [words |-> words, bytes |-> 4 * Len(words)]
Unpadded(words)  == [words |-> [words EXCEPT ![1].len = @ - 2],
                     bytes |-> 4 * Len(words) - 2]

TunnelOptions == 1 .. 6 \ {4}        \* IPV4_SRC, IPV4_DST, TOS, DF, CSUM
Keys == [in_port   : InPorts,
         ethertype : EtherTypes \cup {Absent},   \* Absent: an 802.2 frame
         vlan      : BOOLEAN,
         tunnel    : BOOLEAN,
         id        : TunIds \cup {Absent},       \* Absent: a tunnel without key
         options   : SUBSET TunnelOptions]
KeysSent == {k \in Keys : ~k.tunnel => k.id = Absent /\ k.options = {}}

Option(k, type, n) == If(type \in k.options, Attr(type, n, Zeros((n + 3) \div 4)))
TunnelWords(k) ==
  If(k.id # Absent, Attr(0, 8, <<Zero, Data(k.id)>>))
  \o Option(k, 1, 4) \o Option(k, 2, 4) \o Option(k, 3, 1) \o Attr(4, 1, <<Zero>>)
  \o Option(k, 5, 0) \o Option(k, 6, 0)

FrameWords(k) == If(k.ethertype # Absent,
  Attr(6, 2, <<Data(k.ethertype)>>) \o Attr(7, 12, Zeros(3)))      \* and IPV4

KeyWords(k, priority) ==
  U32(2, priority) \o If(k.tunnel, Nest(16, TunnelWords(k)))
  \o U32(3, k.in_port) \o U32(15, 0) \o Attr(4, 12, Zeros(3))
  \o IF k.vlan
     THEN Attr(6, 2, <<Data(33024)>>) \o Attr(5, 2, <<Data(1)>>) \o Nest(1, FrameWords(k))
     ELSE FrameWords(k)

\* queue_userspace_packet: the packet's data comes last, not padded.
Upcall(k, priority) == Unpadded(Genl(0, Nest(2, KeyWords(k, priority))
                                        \o Attr(1, 6, <<Text("packet"), Zero>>)))

\* ctrl_fill_info. The packet family has no multicast group.
Families == <<"ovs_datapath", "ovs_vport", "ovs_flow", "ovs_packet">>
Ops(n) == Nest(6, [i \in 1 .. 5 * n |->
                     IF i % 5 = 1 THEN Word("attr", 20, i, 0) ELSE Zero])
Family(n) == Datagram(Message(Object, 1, <<Zero>> \o Str(2, Families[n]) \o U32(1, 20 + n)
  \o U32(3, 1) \o U32(4, 4) \o U32(5, 4) \o Ops(IF n < 4 THEN 4 ELSE 1)
  \o If(n < 4, Nest(7, Nest(1, U32(2, 30 + n) \o Str(1, Families[n]))))))

DpAnswer == Datagram(Genl(1, Str(1, "dp0") \o Attr(3, 32, Zeros(8)) \o Attr(4, 16, Zeros(4))))
VportAnswer(tunnel) == Datagram(Genl(1, U32(1, 5) \o U32(2, 4) \o Str(3, "port5")
  \o Attr(6, 64, Zeros(16)) \o U32(5, 99)
  \o If(tunnel, Nest(4, Attr(4, 2, <<Data(4789)>>)))))

\* netlink_ack: an error brings the refused request back, of n words; an
\* acknowledgment its header only.
Request(n) == Word("message", 16 + 4 * n, Object, 1)
Refusal(n) == Message(NLMSG_ERROR, 1, <<Data(-1), Request(n)>> \o Zeros(3 + n))
Ack(n)     == Message(NLMSG_ERROR, 1, <<Data(0), Request(n)>> \o Zeros(3))
DumpEnd == Message(NLMSG_DONE, 1, <<Zero>>)
Link(n, ifname) == Message(Object, 1, <<Zero, Data(n)>> \o Zeros(2)
                     \o Str(3, ifname) \o U32(4, 1500) \o Nest(18, Str(1, "kind")))

Says(c, s, datagrams) == [chain |-> c, sent |-> s, coming |-> datagrams]
Nothing == [x \in {} |-> Absent]

Conversations ==
  {Says("packet", k, <<Upcall(k, 0)>>) : k \in KeysSent}
  \cup {Says("dp", [priority |-> p], <<Upcall(k, p), DpAnswer>>) :
          p \in Priorities, k \in {j \in KeysSent : ~ j.tunnel /\ ~ j.vlan}}
  \cup {Says("nlctrl", Nothing, [n \in 1 .. 4 |-> Family(n)])}
  \cup {Says("vport", Nothing, <<Datagram(Refusal(7)), VportAnswer(t)>>) :
          t \in BOOLEAN}
  \cup {Says("rtnl", [port8 |-> n],
             <<Datagram(Link(1, "lo") \o Link(7, "port7")),
               Datagram(If(n # Absent, Link(n, "port8")) \o DumpEnd),
               Datagram(Ack(9))>>) : n \in {8, Absent}}

-----------------------------------------------------------------------------
(* nla.c and nlmsg.c *)

\* NLA_ALIGN and NLMSG_ALIGN, of negative numbers too.
Align(bytes) == 4 * ((bytes + 3) \div 4)
Payload(h)   == Align(h.len - 4)

At(pos)      == frame[pos \div 4 + 1]
Walk         == walks[Len(walks)]
Remaining(w) == w.limit - w.pos

\* nla_parse finds an attribute: its header and its payload are inside.
FindsAttr(w) == Remaining(w) >= 4 /\ Remaining(w) >= Align(At(w.pos).len)

\* nlmsg_parse finds a message; if only its padding is missing, the limit is
\* moved.
FindsMsg(w) == Remaining(w) >= 16 /\ Remaining(w) >= At(w.pos).len
LimitKept(w, h) == w.limit                               \* mutant of Limit
Limit(w, h) == Max({w.limit, w.pos + Align(h.len)})

\* nla_discard, nla_get_data, the getters: so many bytes, if they are there.
Take(w, n) == IF Remaining(w) >= n THEN [w EXCEPT !.pos = @ + n, !.ok = TRUE]
                                   ELSE [w EXCEPT !.ok = FALSE]

\* nla_slice, nlmsg_slice: the payload, to be walked by a handler whose ret
\* starts as -1 in nlctrl.c.
SliceWhole(w, handler, bytes) ==                               \* mutant of Slice
  [handler |-> handler, pos |-> w.pos, limit |-> w.limit, ok |-> TRUE]
Slice(w, handler, bytes) ==
  [handler |-> handler, pos |-> w.pos, limit |-> w.pos + bytes,
   ok |-> handler \notin {"nlctrl", "groups", "group"}]

\* nla_slice_end and nlmsg_slice_end, and ret is the nested handler's;
\* parse_options returns 0.
SliceEnd(w, inner) ==
  [w EXCEPT !.pos = inner.pos, !.ok = inner.ok \/ inner.handler = "options"]

-----------------------------------------------------------------------------
(* The handlers *)

\* What a handler does with an attribute of type 0, 1, ...: discard it, read
\* so many bytes into a field, note where it is, or hand it to another.
Discard       == [does |-> "discard"]
Read(n, f)    == [does |-> "read", bytes |-> n, name |-> f]
Point(f)      == [does |-> "point", name |-> f]
Give(handler) == [does |-> "give", to |-> handler]

DpParse == [dp |-> <<Discard, Point("dp_name"), Read(4, "dp_upcall_pid"), Point("dp_stats")>>]
VportParse ==
  [vport   |-> <<Discard, Read(4, "vport_no"), Read(4, "vport_type"), Point("vport_name"),
                 Give("options"), Read(4, "vport_upcall_pid"), Point("vport_stats")>>,
   options |-> <<>>]
ParseNewFamily ==
  [nlctrl |-> <<Discard, Read(4, "family_id"), Point("family_name"), Discard, Discard,
                Discard, Discard, Give("groups")>>,
   groups |-> <<Give("group"), Give("group"), Give("group"), Give("group")>>,
   group  |-> <<Discard, Point("mcgroup_name"), Read(4, "mcgroup_id")>>]
RtnlParse   == [rtnl |-> <<Discard, Discard, Discard, Point("ifname")>>]
PacketParse == [packet |-> <<Discard, Point("packet_frame"), Give("key")>>]
KeyParse ==
  [key |-> <<Discard, Give("key"), Discard, Read(4, "in_port"), Point("key_ethernet"),
             Read(4, "key_vlan"), Read(4, "ethertype"), Point("key_ipv4"), Discard,
             Discard, Discard, Discard, Discard, Discard, Discard,
             Read(4, "key_skb_mark"), Give("tunnel")>>]
TunnelParse == [tunnel |-> <<Read(8, "id")>>]

Handlers == DpParse @@ VportParse @@ ParseNewFamily @@ RtnlParse @@ PacketParse
            @@ KeyParse @@ TunnelParse

Does(w, h) == LET known == Handlers[w.handler] IN
              IF h.type < Len(known) THEN known[h.type + 1] ELSE Discard

\* What is taken of an attribute. The case of the tunnel's id falls through to
\* nla_discard; nlctrl.c's default leaves ret alone.
TakenNoDiscard(w, h, a) ==                                  \* mutant of Taken
  CASE a.does = "read" -> Take(w, a.bytes)
    [] w.handler = "key" /\ h.type = 2 -> w
    [] OTHER -> Take(w, Payload(h))
Taken(w, h, a) ==
  CASE w.handler = "tunnel" /\ a.does = "read" -> Take(Take(w, a.bytes), Payload(h))
    [] a.does = "read" -> Take(w, a.bytes)
    [] w.handler = "nlctrl" /\ a.does = "discard" -> [Take(w, Payload(h)) EXCEPT !.ok = w.ok]
    [] OTHER -> Take(w, Payload(h))

\* The field that is set: a pointer, or the last word that is read.
Set(w, a) ==
  CASE a.does = "point" -> [field EXCEPT ![a.name] = w.pos]
    [] a.does = "read" /\ Remaining(w) >= a.bytes ->
         [field EXCEPT ![a.name] = At(w.pos + a.bytes - 4).val]
    [] OTHER -> field

\* dp_parse, vport_parse, packet_parse and rtnl_parse give up on the first error,
\* the others go on.
Continues(w) == /\ FindsAttr(w)
                /\ w.handler \in {"dp", "vport", "packet", "rtnl"} => w.ok

\* The headers between the message's and the attributes: genlmsghdr and
\* ovs_header, or ifinfomsg.
HeaderBytes == [dp |-> 8, vport |-> 8, packet |-> 8, nlctrl |-> 4, rtnl |-> 16]

Fields == UNION {{Handlers[h][i].name : i \in {j \in DOMAIN Handlers[h] :
                    Handlers[h][j].does \in {"read", "point"}}} : h \in DOMAIN Handlers}
          \cup {"nlh", "ifm", "port7", "port8"}
Numbers == [families |-> [n \in {Families[i] : i \in 1 .. 4} |-> Stale],
            groups   |-> [n \in {Families[i] : i \in 1 .. 3} |-> Stale]]

Init ==
  /\ \E c \in Conversations : chain = c.chain /\ sent = c.sent /\ coming = c.coming
  /\ frame   = <<>>
  /\ walks   = <<>>
  /\ field   = [f \in Fields \cup DOMAIN Numbers |->
                  IF f \in Fields THEN Stale ELSE Numbers[f]]
  /\ aborted = FALSE

Outer == SubSeq(walks, 1, Len(walks) - 1)

\* nl_recv into the frame.
Recv ==
  /\ walks = <<>> /\ coming # <<>> /\ ~ aborted
  /\ LET d == Head(coming) IN
     /\ frame' = d.words \o SubSeq(frame, Len(d.words) + 1, Len(frame))
     /\ walks' = <<[handler |-> "nl", pos |-> 0, limit |-> d.bytes, ok |-> TRUE]>>
  /\ coming' = Tail(coming)
  /\ UNCHANGED <<chain, sent, field, aborted>>

InDatagram == Len(walks) = 1
NextMsg    == Walk.ok /\ FindsMsg(Walk)

\* nlmsg_err: with an error the whole refused request comes back.
ErrBytes(w) == 20 + IF At(w.pos).val < 0 THEN Align(At(w.pos + 4).len - 16) ELSE 0

\* nl_parse: a message for nl_parse itself, or the first handler of a chain,
\* behind its headers. rtnl_parse clears attrs.
ParseMsg ==
  /\ InDatagram /\ NextMsg
  /\ LET h    == At(Walk.pos)
         w    == [Walk EXCEPT !.pos = @ + 16, !.limit = Limit(Walk, h)]
         body == Slice(w, chain, Align(h.len - 16))
         rest == Take(body, IF h.type = NLMSG_ERROR THEN ErrBytes(w) ELSE Remaining(body))
     IN  \/ /\ h.type # Object
            /\ walks' = <<SliceEnd(w, rest)>>
            /\ field' = [field EXCEPT !.nlh = Walk.pos]
         \/ /\ h.type = Object
            /\ walks' = <<w, [body EXCEPT !.pos = @ + HeaderBytes[chain]]>>
            /\ field' = [field EXCEPT !.nlh = Walk.pos, !.ifm = w.pos, !.ifname = Stale]
  /\ UNCHANGED <<chain, sent, coming, frame, aborted>>

\* One round of a handler's loop.
ParseAttr ==
  /\ Len(walks) > 1
  /\ Continues(Walk)
  /\ LET h == At(Walk.pos)
         w == [Walk EXCEPT !.pos = @ + 4]
         a == Does(w, h)
     IN  \/ /\ a.does = "give"
            /\ walks' = Outer \o <<w, Slice(w, a.to, Payload(h))>>
            /\ UNCHANGED field
         \/ /\ a.does # "give"
            /\ walks' = Outer \o <<Taken(w, h, a)>>
            /\ field' = Set(w, a)
  /\ UNCHANGED <<chain, sent, coming, frame, aborted>>

\* A nested handler returns.
EndSlice ==
  /\ Len(walks) > 2
  /\ ~ Continues(Walk)
  /\ walks' = [Outer EXCEPT ![Len(Outer)] = SliceEnd(@, Walk)]
  /\ UNCHANGED <<chain, sent, coming, frame, field, aborted>>

\* port_parse, after rtnl_parse: the link's number goes to the port of its name.
PortParse ==
  LET ifindex == At(field.ifm + 4).val
      ifname  == At(field.ifname).val
  IN  IF ifindex # 0 /\ ifname \in {"port7", "port8"}
      THEN [field EXCEPT ![ifname] = ifindex] ELSE field

\* The first handler returns; nl_dispatch leaves the datagram when the message
\* is older than the call, odp_loop does not look.
EndMsg ==
  /\ Len(walks) = 2
  /\ ~ Continues(Walk)
  /\ walks' = IF Walk.ok /\ chain # "packet" /\ At(field.nlh).val = 0 THEN <<>>
              ELSE <<SliceEnd(walks[1], Walk)>>
  /\ field' = IF chain = "rtnl" /\ Walk.ok THEN PortParse ELSE field
  /\ UNCHANGED <<chain, sent, coming, frame, aborted>>

\* ovs_init, after each get_family: numbers go to the family and the group whose
\* names the control socket's structure points to.
Assigned ==
  LET name  == At(field.family_name).val
      group == At(field.mcgroup_name).val
  IN  [field EXCEPT !.families[name] = field.family_id,
                    !.groups[group] = field.mcgroup_id]

\* nl_parse fails or finds nothing more. Both loops assert that all is read.
EndDatagram ==
  /\ InDatagram /\ ~ NextMsg
  /\ walks'   = <<>>
  /\ aborted' = (Remaining(Walk) # 0)
  /\ field'   = IF chain = "nlctrl" /\ ~ aborted' THEN Assigned ELSE field
  /\ UNCHANGED <<chain, sent, coming, frame>>

Next == \/ Recv \/ ParseMsg \/ ParseAttr \/ EndSlice \/ EndMsg \/ EndDatagram

Spec == Init /\ [][Next]_vars
FairSpec == Spec /\ WF_vars(Next)

-----------------------------------------------------------------------------
(* Properties *)

\* An upcall that comes between a command and its answer on the dp socket is
\* read by dp_parse, its key as the upcall pid.
Misread == chain = "dp" /\ Len(coming) = 1

\* A walk never takes data for a header, nor leaves the slice around it, but in
\* an upcall that is misread: not even after the tunnel's id, of which the same
\* bytes are taken twice, because in every key the kernel sends just one whole
\* attribute of that size follows.
OnHeader == ~ Misread =>
  \A i \in 2 .. Len(walks) :
    /\ walks[i].pos <= walks[i].limit
    /\ walks[i].limit <= walks[i - 1].limit
    /\ walks[i].pos < walks[i].limit => At(walks[i].pos).is = "attr"

\* A datagram that is parsed is read to its end, as both loops assert: whatever
\* attributes an upcall has, padded or not, whichever messages share a datagram,
\* and also when an upcall is misread, if that ends.
DatagramRead == ~ aborted

\* When all is read, each field has what the kernel sent, and a pointer points
\* to it: the inner ethertype of a frame with a VLAN tag; of an optional part of
\* the key that is not sent, the value of the upcall before; the families by
\* their names and the groups too, although the packet family has none and
\* mcgroup_name then points into the answer before; the numbers of the links;
\* and the answer of a command, also after an upcall was misread.
Sent(f) == IF sent[f] = Absent THEN Stale ELSE sent[f]
ReadsAll == walks = <<>> /\ coming = <<>> /\ ~ aborted =>
  CASE chain = "packet" ->
         /\ field.in_port = sent.in_port /\ field.id = Sent("id")
         /\ field.ethertype = IF sent.ethertype = Absent /\ sent.vlan THEN 33024
                              ELSE Sent("ethertype")
         /\ At(field.packet_frame).val = "packet"
    [] chain = "dp" -> At(field.dp_name).val = "dp0"
    [] chain = "vport" ->
         /\ field.vport_no = 5 /\ field.vport_type = 4 /\ field.vport_upcall_pid = 99
         /\ At(field.vport_name).val = "port5"
    [] chain = "nlctrl" ->
         /\ \A n \in 1 .. 4 : field.families[Families[n]] = 20 + n
         /\ \A n \in 1 .. 3 : field.groups[Families[n]] = 30 + n
    [] chain = "rtnl" -> field.port7 = 7 /\ field.port8 = Sent("port8")

\* Parsing ends; of a misread upcall it does if the packet's priority is 1 to 4.
\* With priority 0 dp_parse takes that for the header of an attribute of no
\* bytes, steps back over it, and does so for ever.
ParseEnds == (chain = "dp" => sent.priority \in 1 .. 4) ~>
             (walks = <<>> /\ coming = <<>>)
=============================================================================

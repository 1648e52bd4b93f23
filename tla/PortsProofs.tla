---------------------------- MODULE PortsProofs -----------------------------
(***************************************************************************)
(* What becomes of hub's ports, for any command lines and types.           *)
(***************************************************************************)
EXTENDS Ports, SequenceTheorems, WellFoundedInduction, TLAPS

Types == 0 .. TypeMax

\* The options still to come, the ports made, and the lists of them.
ShapeInv ==
  /\ line \in Seq(ToSet(line))
  /\ \A k \in DOMAIN line : line[k].type \in 1 .. TypeMax - 1
  /\ mem \in Seq(ToSet(mem)) /\ freed \in Seq({0, 1}) /\ Len(freed) = Len(mem)
  /\ DOMAIN heads = Types
  /\ i \in Types /\ j \in Nat
  /\ pc \in {"options", "compact", "run", "exit", "done"}
  /\ pc \in {"options", "compact", "run"} => refused = <<>>
  /\ \A q \in Made : "next" \in DOMAIN mem[q]

\* Every port made is pointed at by one list or by one port made after it, and
\* by nothing else.
LinksInv ==
  /\ \A t \in Types : heads[t] \in Made \cup {0}
  /\ \A q \in Made : mem[q].next \in Made \cup {0} /\ mem[q].next < q
  /\ \A s, t \in Types : heads[s] = heads[t] /\ heads[s] # 0 => s = t
  /\ \A q, r \in Made : mem[q].next = mem[r].next /\ mem[q].next # 0 => q = r
  /\ \A t \in Types, q \in Made : heads[t] = mem[q].next => heads[t] = 0
  /\ \A p \in Made : (\E t \in Types : heads[t] = p) \/ (\E q \in Made : mem[q].next = p)

\* The lists are moved down, to places that are empty.
MovedInv ==
  /\ heads[TypeMax] = 0
  /\ pc = "options" => heads[0] = 0
  /\ pc = "compact" => j < i /\ \A t \in j .. i - 1 : heads[t] = 0

\* hub_exit has come to just the ports it has freed and the one in hand: from
\* the lists so far, and from the ports freed.
Reached(p) == \/ \E t \in 0 .. i : heads[t] = p
              \/ \E q \in Made : freed[q] = 1 /\ mem[q].next = p

FreedInv ==
  /\ pc \notin {"exit", "done"} => \A p \in DOMAIN mem : freed[p] = 0
  /\ \A p \in DOMAIN mem \ Made : freed[p] = 0
  /\ pc \in {"exit", "done"} =>
       /\ cur \in Made \cup {0} /\ (cur # 0 => freed[cur] = 0)
       /\ \A p \in Made : (freed[p] = 1 \/ cur = p) <=> Reached(p)
  /\ pc = "exit" => i < TypeMax
  /\ pc = "done" => i = TypeMax /\ cur = 0

-----------------------------------------------------------------------------
(* Sequences *)

\* A function on 1 .. n is a sequence of its own values.
LEMMA FunctionSeq ==
  ASSUME NEW n \in Nat, NEW f, f = [k \in 1 .. n |-> f[k]]
  PROVE  f \in Seq(ToSet(f)) /\ Len(f) = n /\ DOMAIN f = 1 .. n
<1>1. DOMAIN f = 1 .. n
  OBVIOUS
<1>2. \A k \in 1 .. n : f[k] \in ToSet(f)
  BY <1>1 DEF ToSet
<1>3. f \in Seq(ToSet(f))
  BY <1>2
<1> QED
  BY <1>1, <1>3

\* A sequence is one of its own values.
LEMMA OwnSeq ==
  ASSUME NEW S, NEW s \in Seq(S)
  PROVE  s \in Seq(ToSet(s)) /\ DOMAIN s = 1 .. Len(s) /\ Len(s) \in Nat
<1>1. Len(s) \in Nat /\ s = [k \in 1 .. Len(s) |-> s[k]]
  OBVIOUS
<1> QED
  BY <1>1, FunctionSeq

\* Of finitely many numbers one is the greatest.
LEMMA Highest ==
  ASSUME NEW n \in Nat, NEW S, S \subseteq 1 .. n, S # {}
  PROVE  \E x \in S : \A y \in S : y <= x
<1> DEFINE T == {d \in Nat : \E x \in S : d = n - x}
<1>1. T \subseteq Nat /\ T # {}
  <2>1. PICK y \in S : TRUE
    OBVIOUS
  <2>2. n - y \in Nat
    BY <2>1
  <2> QED
    BY <2>1, <2>2
<1>2. \E d \in T : \A e \in T : ~ (<<e, d>> \in OpToRel(<, Nat))
  BY <1>1, WFMin, NatLessThanWellFounded
<1>3. PICK d \in T : \A e \in T : ~ (e < d)
  <2>1. \A e, d \in Nat : e < d => <<e, d>> \in OpToRel(<, Nat)
    BY DEF OpToRel
  <2> QED
    BY <1>1, <1>2, <2>1
<1>4. PICK x \in S : d = n - x
  OBVIOUS
<1>5. ASSUME NEW y \in S PROVE y <= x
  <2>1. n - y \in T
    OBVIOUS
  <2> QED
    BY <1>3, <1>4, <2>1
<1> QED
  BY <1>5

-----------------------------------------------------------------------------
(* Steps *)

LEMMA MadeAre ==
  ASSUME ShapeInv
  PROVE  /\ DOMAIN mem = 1 .. Len(mem) /\ Len(mem) \in Nat
         /\ Made = IF refused = <<>> THEN 1 .. Len(mem) ELSE 1 .. Len(mem) - 1
         /\ Made \subseteq DOMAIN mem /\ Made \subseteq Nat \ {0}
         /\ DOMAIN freed = DOMAIN mem
         /\ TypeMax \in Nat /\ TypeMax > 1 /\ i \in Types
<1>1. DOMAIN mem = 1 .. Len(mem) /\ Len(mem) \in Nat
  BY DEF ShapeInv
<1>2. DOMAIN freed = DOMAIN mem
  BY <1>1 DEF ShapeInv
<1>3. Made = IF refused = <<>> THEN 1 .. Len(mem) ELSE 1 .. Len(mem) - 1
  BY <1>1 DEF Made
<1> QED
  BY <1>1, <1>2, <1>3, TypesAssumption DEF ShapeInv

\* alloc_port makes a port and heads a list with it, or refuses its option.
LEMMA AllocStep ==
  ASSUME ShapeInv, AllocPort
  PROVE  /\ pc = "options" /\ refused = <<>> /\ j' = j
         /\ line' \in Seq(ToSet(line'))
         /\ \A k \in DOMAIN line' : line'[k].type \in 1 .. TypeMax - 1
         /\ mem' \in Seq(ToSet(mem')) /\ Len(mem') = Len(mem) + 1
         /\ freed' = Append(freed, 0)
         /\ \/ /\ UNCHANGED <<refused, i, cur, pc>>
               /\ \E t \in 1 .. TypeMax - 1 :
                    /\ heads' = [heads EXCEPT ![t] = Len(mem) + 1]
                    /\ mem'[Len(mem) + 1].next = heads[t]
               /\ "next" \in DOMAIN mem'[Len(mem) + 1]
               /\ \A q \in Made : /\ "next" \in DOMAIN mem'[q]
                                  /\ mem'[q].next = mem[q].next
            \/ /\ heads' = heads /\ refused' # <<>>
               /\ \A q \in Made : mem'[q] = mem[q]
               /\ pc' = "exit" /\ i' = 0 /\ cur' = heads[0]
<1>1. /\ pc = "options" /\ line # <<>> /\ refused = <<>> /\ j' = j
      /\ line' = Tail(line) /\ freed' = Append(freed, 0)
      /\ Made = 1 .. Len(mem) /\ Len(mem) \in Nat
  BY MadeAre DEF AllocPort, ShapeInv
<1> DEFINE o == Head(line)
           p == Len(mem) + 1
<1>2. /\ line' \in Seq(ToSet(line'))
      /\ \A k \in DOMAIN line' : line'[k].type \in 1 .. TypeMax - 1
      /\ o.type \in 1 .. TypeMax - 1
  <2>1. /\ line' \in Seq(ToSet(line)) /\ 1 \in DOMAIN line /\ o = line[1]
        /\ \A k \in DOMAIN line' : k + 1 \in DOMAIN line /\ line'[k] = line[k + 1]
    BY <1>1 DEF ShapeInv
  <2> QED
    BY <2>1, OwnSeq DEF ShapeInv
<1>3. \E s : \/ InsertHead(s.port, p, o.type) /\ UNCHANGED <<refused, i, cur, pc>>
             \/ /\ mem' = Append(mem, s.port) /\ refused' = <<o.text>>
                /\ UNCHANGED heads /\ HubExit
  BY DEF AllocPort
<1>4. PICK s : \/ InsertHead(s.port, p, o.type) /\ UNCHANGED <<refused, i, cur, pc>>
               \/ /\ mem' = Append(mem, s.port) /\ refused' = <<o.text>>
                  /\ UNCHANGED heads /\ HubExit
  BY <1>3
<1> HIDE DEF o
<1>5. CASE InsertHead(s.port, p, o.type) /\ UNCHANGED <<refused, i, cur, pc>>
  <2>1. /\ heads' = [heads EXCEPT ![o.type] = p]
        /\ mem' = [q \in 1 .. p |->
                     IF q = p
                     THEN [name |-> s.port.name, opt |-> s.port.opt,
                           noflood |-> s.port.noflood, type |-> o.type,
                           next |-> heads[o.type], prev |-> <<"head", o.type>>]
                     ELSE IF q = heads[o.type] THEN [mem[q] EXCEPT !.prev = <<"next", p>>]
                     ELSE mem[q]]
    BY <1>5 DEF InsertHead
  <2>2. p \in 1 .. p /\ p \in Nat
    BY <1>1
  <2>3. mem'[p].next = heads[o.type] /\ "next" \in DOMAIN mem'[p]
    BY <2>1, <2>2
  <2>4. ASSUME NEW q \in Made
        PROVE  "next" \in DOMAIN mem'[q] /\ mem'[q].next = mem[q].next
    <3>1. q \in 1 .. p /\ q # p /\ "next" \in DOMAIN mem[q]
      BY <1>1 DEF ShapeInv
    <3>2. mem'[q] = mem[q] \/ mem'[q] = [mem[q] EXCEPT !.prev = <<"next", p>>]
      BY <2>1, <3>1
    <3> QED
      BY <3>1, <3>2
  <2>5. mem' \in Seq(ToSet(mem')) /\ Len(mem') = p
    <3>1. mem' = [q \in 1 .. p |-> mem'[q]]
      BY <2>1
    <3> QED
      BY <2>2, <3>1, FunctionSeq
  <2> QED
    BY <1>1, <1>2, <1>5, <2>1, <2>3, <2>4, <2>5
<1>6. CASE /\ mem' = Append(mem, s.port) /\ refused' = <<o.text>>
           /\ UNCHANGED heads /\ HubExit
  <2> DEFINE S == ToSet(mem) \cup {s.port}
  <2>1. mem \in Seq(S) /\ s.port \in S
    <3>1. Len(mem) \in Nat /\ mem = [k \in 1 .. Len(mem) |-> mem[k]]
            /\ \A k \in 1 .. Len(mem) : mem[k] \in ToSet(mem)
      BY DEF ShapeInv
    <3> QED
      BY <3>1
  <2> HIDE DEF S
  <2>2. /\ mem' \in Seq(S) /\ Len(mem') = Len(mem) + 1
        /\ \A q \in 1 .. Len(mem) : mem'[q] = mem[q]
    BY <1>6, <2>1
  <2>3. pc' = "exit" /\ i' = 0 /\ cur' = heads[0] /\ heads' = heads /\ refused' # <<>>
    BY <1>6 DEF HubExit
  <2> QED
    BY <1>1, <1>2, <2>2, <2>3, OwnSeq
<1> QED
  BY <1>4, <1>5, <1>6

\* compact_ports moves a list, if there is one.
LEMMA CompactStep ==
  ASSUME ShapeInv, LinksInv, MovedInv, CompactPorts
  PROVE  /\ pc = "compact" /\ i < TypeMax /\ i' = i + 1 /\ i \in Types /\ j \in Types
         /\ UNCHANGED <<line, freed, refused, cur, pc>> /\ Made' = Made
         /\ mem' \in Seq(ToSet(mem')) /\ Len(mem') = Len(mem)
         /\ \A q \in Made : "next" \in DOMAIN mem'[q] /\ mem'[q].next = mem[q].next
         /\ \/ heads[i] = 0 /\ heads' = heads /\ j' = j
            \/ /\ heads[i] # 0 /\ j' = j + 1
               /\ heads' = [heads EXCEPT ![j] = heads[i], ![i] = 0]
<1>1. /\ pc = "compact" /\ i < TypeMax /\ i' = i + 1
      /\ UNCHANGED <<line, freed, refused, cur, pc>>
      /\ \/ heads[i] = 0 /\ heads' = heads /\ j' = j /\ mem' = mem
         \/ /\ heads[i] # 0 /\ j' = j + 1
            /\ heads' = [heads EXCEPT ![j] = heads[i], ![i] = 0]
            /\ mem' = [mem EXCEPT ![heads[i]].prev = <<"head", j>>]
  BY DEF CompactPorts, Move
<1>2. i \in Types /\ j \in Types /\ Types = 0 .. TypeMax /\ TypeMax \in Nat
  BY <1>1, TypesAssumption DEF ShapeInv, MovedInv, Types
<1>3. CASE mem' = mem
  BY <1>1, <1>2, <1>3 DEF ShapeInv, Made
<1>4. CASE heads[i] # 0 /\ mem' = [mem EXCEPT ![heads[i]].prev = <<"head", j>>]
  <2>1. DOMAIN mem = 1 .. Len(mem) /\ Len(mem) \in Nat
    BY MadeAre
  <2>2. DOMAIN mem' = DOMAIN mem /\ mem' = [q \in 1 .. Len(mem) |-> mem'[q]]
    BY <1>4, <2>1
  <2>3. mem' \in Seq(ToSet(mem')) /\ Len(mem') = Len(mem)
    BY <2>1, <2>2, FunctionSeq
  <2>4. ASSUME NEW q \in Made
        PROVE  "next" \in DOMAIN mem'[q] /\ mem'[q].next = mem[q].next
    <3>1. q \in DOMAIN mem /\ "next" \in DOMAIN mem[q]
      BY MadeAre DEF ShapeInv
    <3>2. mem'[q] = mem[q] \/ mem'[q] = [mem[q] EXCEPT !.prev = <<"head", j>>]
      BY <1>4, <3>1
    <3> QED
      BY <3>1, <3>2
  <2>5. Made' = Made
    BY <1>1, <2>2, <2>3 DEF Made
  <2> QED
    BY <1>1, <1>2, <1>4, <2>3, <2>4, <2>5
<1> QED
  BY <1>1, <1>3, <1>4

LEMMA ShapeStep ==
  ASSUME ShapeInv, LinksInv, MovedInv, FreedInv, [Next]_vars
  PROVE  ShapeInv'
<1>1. CASE AllocPort
  <2>1. /\ freed' \in Seq({0, 1}) /\ Len(freed') = Len(mem')
    <3>1. freed' = Append(freed, 0) /\ Len(mem') = Len(mem) + 1
      BY <1>1, AllocStep
    <3>2. freed \in Seq({0, 1}) /\ Len(freed) = Len(mem) /\ 0 \in {0, 1}
      BY DEF ShapeInv
    <3> QED
      BY <3>1, <3>2
  <2>2. DOMAIN heads' = Types /\ i' \in Types
    BY <1>1, AllocStep, TypesAssumption DEF ShapeInv, Types
  <2>3. \A q \in Made' : "next" \in DOMAIN mem'[q]
    <3>1. CASE refused' = <<>>
      <4>1. Made' = 1 .. Len(mem) + 1 /\ Made = 1 .. Len(mem) /\ Len(mem) \in Nat
        <5>1. DOMAIN mem' = 1 .. Len(mem')
          BY <1>1, AllocStep
        <5> QED
          BY <1>1, <3>1, <5>1, AllocStep, MadeAre DEF Made
      <4>2. \A q \in Made' : q \in Made \/ q = Len(mem) + 1
        BY <4>1
      <4> QED
        BY <1>1, <3>1, <4>2, AllocStep
    <3>2. CASE refused' # <<>>
      <4>1. Made' = Made
        <5>1. DOMAIN mem' = 1 .. Len(mem')
          BY <1>1, AllocStep
        <5> QED
          BY <1>1, <3>2, <5>1, AllocStep, MadeAre DEF Made
      <4> QED
        BY <1>1, <3>2, <4>1, AllocStep DEF ShapeInv
    <3> QED
      BY <3>1, <3>2
  <2> QED
    BY <1>1, <2>1, <2>2, <2>3, AllocStep DEF ShapeInv
<1>2. CASE CompactPorts
  <2>1. DOMAIN heads' = Types /\ i' \in Types /\ j' \in Nat
    BY <1>2, CompactStep, TypesAssumption DEF ShapeInv, Types
  <2> QED
    BY <1>2, <2>1, CompactStep DEF ShapeInv
<1>3. CASE FreePort
  <2>1. /\ UNCHANGED <<line, heads, mem, refused, i, j, pc>>
        /\ cur \in Made /\ freed[cur] = 0 /\ freed' = [freed EXCEPT ![cur] = @ + 1]
    BY <1>3 DEF FreePort, FreedInv
  <2>2. freed' \in Seq({0, 1}) /\ Len(freed') = Len(freed)
    <3>1. freed \in [1 .. Len(freed) -> {0, 1}] /\ Len(freed) \in Nat
      BY DEF ShapeInv
    <3>2. freed' = [k \in 1 .. Len(freed) |-> IF k = cur THEN 1 ELSE freed[k]]
      <4>1. DOMAIN freed = 1 .. Len(freed)
        BY <3>1
      <4>2. freed[cur] + 1 = 1
        BY <2>1
      <4> QED
        BY <2>1, <4>1, <4>2
    <3>3. freed' \in [1 .. Len(freed) -> {0, 1}]
      BY <3>1, <3>2
    <3> QED
      BY <3>1, <3>3
  <2> QED
    BY <2>1, <2>2 DEF ShapeInv, Made
<1>4. CASE NextList
  <2>1. /\ UNCHANGED <<line, heads, mem, freed, refused, j>> /\ i' = i + 1
        /\ pc = "exit" /\ pc' \in {"exit", "done"}
    BY <1>4 DEF NextList
  <2>2. i' \in Types
    BY <2>1, TypesAssumption DEF FreedInv, ShapeInv, Types
  <2> QED
    BY <2>1, <2>2 DEF ShapeInv, Made
<1>5. CASE Help \/ Compact \/ Run \/ Stop \/ UNCHANGED vars
  <2>1. /\ UNCHANGED <<line, heads, mem, freed, refused>>
        /\ i' \in {i, 0, 1} /\ j' \in {j, 0}
        /\ pc' \in {"compact", "run", "exit", pc}
        /\ pc' \in {"options", "compact", "run"} => pc \in {"options", "compact", "run"}
    BY <1>5 DEF Help, Compact, Run, Stop, HubExit, vars
  <2>2. i' \in Types /\ j' \in Nat
    BY <2>1, TypesAssumption DEF ShapeInv, Types
  <2> QED
    BY <2>1, <2>2 DEF ShapeInv, Made
<1> QED
  BY <1>1, <1>2, <1>3, <1>4, <1>5 DEF Next

\* What a refused or a made option leaves of Made.
LEMMA AllocMade ==
  ASSUME ShapeInv, AllocPort
  PROVE  /\ Made = 1 .. Len(mem) /\ Len(mem) \in Nat
         /\ Made' = IF refused' = <<>> THEN Made \cup {Len(mem) + 1} ELSE Made
         /\ Len(mem) + 1 \notin Made
         /\ DOMAIN mem' = DOMAIN mem \cup {Len(mem) + 1}
<1>1. DOMAIN mem' = 1 .. Len(mem')
  BY AllocStep
<1> QED
  BY <1>1, AllocStep, MadeAre DEF Made

\* Every step keeps a single pointer to each port.
LEMMA LinksStep ==
  ASSUME ShapeInv, LinksInv, MovedInv, FreedInv, [Next]_vars
  PROVE  LinksInv'
<1>1. ASSUME UNCHANGED heads, Made' = Made, \A q \in Made : mem'[q].next = mem[q].next
      PROVE  LinksInv'
  BY <1>1 DEF LinksInv
<1>2. CASE AllocPort
  <2> DEFINE p == Len(mem) + 1
  <2>1. CASE refused' # <<>>
    BY <1>1, <1>2, <2>1, AllocStep, AllocMade
  <2>2. CASE refused' = <<>>
    <3>1. PICK t \in 1 .. TypeMax - 1 :
            /\ heads' = [heads EXCEPT ![t] = p]
            /\ mem'[p].next = heads[t]
      BY <1>2, <2>2, AllocStep
    <3>2. \A q \in Made : mem'[q].next = mem[q].next
      BY <1>2, <2>2, AllocStep
    <3>3. /\ Made' = Made \cup {p} /\ p \notin Made /\ p # 0 /\ p \in Nat
          /\ \A q \in Made : q < p /\ q # 0
      BY <1>2, <2>2, AllocMade
    <3>4. t \in Types /\ DOMAIN heads = Types
      BY <3>1, TypesAssumption DEF ShapeInv, Types
    <3>5. heads'[t] = p /\ \A s \in Types : s # t => heads'[s] = heads[s]
      BY <3>1, <3>4
    <3> HIDE DEF p
    <3>6. heads[t] # p /\ (\A s \in Types : heads[s] # p) /\ \A q \in Made : mem[q].next # p
      BY <3>3, <3>4 DEF LinksInv
    <3>7. \A s \in Types : heads'[s] \in Made' \cup {0}
      BY <3>3, <3>5 DEF LinksInv
    <3>8. \A q \in Made' : mem'[q].next \in Made' \cup {0} /\ mem'[q].next < q
      BY <3>1, <3>2, <3>3, <3>4 DEF LinksInv
    <3>9. \A s, r \in Types : heads'[s] = heads'[r] /\ heads'[s] # 0 => s = r
      BY <3>5, <3>6 DEF LinksInv
    <3>10. \A q, r \in Made' : mem'[q].next = mem'[r].next /\ mem'[q].next # 0 => q = r
      BY <3>1, <3>2, <3>3, <3>4 DEF LinksInv
    <3>11. \A s \in Types, q \in Made' : heads'[s] = mem'[q].next => heads'[s] = 0
      BY <3>1, <3>2, <3>3, <3>4, <3>5, <3>6 DEF LinksInv
    <3>12. \A q \in Made' : (\E s \in Types : heads'[s] = q) \/ (\E r \in Made' : mem'[r].next = q)
      BY <3>1, <3>2, <3>3, <3>4, <3>5 DEF LinksInv
    <3> QED
      BY <3>7, <3>8, <3>9, <3>10, <3>11, <3>12 DEF LinksInv
  <2> QED
    BY <2>1, <2>2
<1>3. CASE CompactPorts
  <2>1. CASE heads' = heads
    BY <1>1, <1>3, <2>1, CompactStep
  <2>2. CASE heads[i] # 0 /\ heads' = [heads EXCEPT ![j] = heads[i], ![i] = 0]
    <3>1. /\ i \in Types /\ j \in Types /\ i # j /\ heads[j] = 0 /\ Made' = Made
          /\ \A q \in Made : mem'[q].next = mem[q].next
      <4>1. j < i /\ heads[j] = 0
        BY <1>3, CompactStep DEF MovedInv, Types
      <4> QED
        BY <1>3, <4>1, CompactStep, TypesAssumption DEF Types
    <3>2. \A s \in Types : heads'[s] = IF s = i THEN 0 ELSE IF s = j THEN heads[i] ELSE heads[s]
      BY <2>2, <3>1 DEF ShapeInv
    <3>3. /\ \A s \in Types : heads'[s] \in Made \cup {0}
          /\ \A s, r \in Types : heads'[s] = heads'[r] /\ heads'[s] # 0 => s = r
          /\ \A s \in Types : heads'[s] # 0 => \E r \in Types : heads[r] = heads'[s]
      BY <3>1, <3>2 DEF LinksInv
    <3>4. \A s \in Types : heads[s] # 0 => \E r \in Types : heads'[r] = heads[s]
      BY <3>1, <3>2
    <3>5. \A s \in Types, q \in Made : heads'[s] = mem'[q].next => heads'[s] = 0
      BY <3>1, <3>3 DEF LinksInv
    <3>6. \A p \in Made : (\E s \in Types : heads'[s] = p) \/ (\E q \in Made : mem'[q].next = p)
      <4>1. \A p \in Made : p # 0
        BY MadeAre
      <4> QED
        BY <3>1, <3>4, <4>1 DEF LinksInv
    <3> QED
      BY <3>1, <3>3, <3>5, <3>6 DEF LinksInv
  <2> QED
    BY <1>3, <2>1, <2>2, CompactStep
<1>4. CASE Help \/ Compact \/ Run \/ Stop \/ FreePort \/ NextList \/ UNCHANGED vars
  <2>1. UNCHANGED <<heads, mem, refused>>
    BY <1>4 DEF Help, Compact, Run, Stop, FreePort, NextList, vars
  <2> QED
    BY <1>1, <2>1 DEF Made
<1> QED
  BY <1>2, <1>3, <1>4 DEF Next

\* The lists stay below the last type; while they are moved, what is not yet
\* reached from below is empty.
LEMMA MovedStep ==
  ASSUME ShapeInv, LinksInv, MovedInv, FreedInv, [Next]_vars
  PROVE  MovedInv'
<1>0. TypeMax \in Types /\ 0 \in Types /\ DOMAIN heads = Types /\ TypeMax \in Nat
  BY TypesAssumption DEF ShapeInv, Types
<1>1. CASE AllocPort
  <2>1. \A t \in 1 .. TypeMax - 1 : t # TypeMax /\ t # 0
    BY <1>0
  <2> QED
    BY <1>0, <1>1, <2>1, AllocStep DEF MovedInv
<1>2. CASE CompactPorts
  <2>1. /\ pc = "compact" /\ i < TypeMax /\ i' = i + 1 /\ pc' = "compact"
        /\ i \in Nat /\ j \in Nat /\ i \in Types /\ j \in Types /\ j < i
        /\ \A t \in j .. i - 1 : heads[t] = 0
        /\ \/ heads[i] = 0 /\ heads' = heads /\ j' = j
           \/ /\ heads[i] # 0 /\ j' = j + 1
              /\ heads' = [heads EXCEPT ![j] = heads[i], ![i] = 0]
    BY <1>2, CompactStep, TypesAssumption DEF MovedInv, Types
  <2>2. \A t \in j' .. i' - 1 : heads'[t] = 0
    <3>1. CASE heads[i] = 0 /\ heads' = heads /\ j' = j
      BY <2>1, <3>1
    <3>2. CASE /\ heads[i] # 0 /\ j' = j + 1
               /\ heads' = [heads EXCEPT ![j] = heads[i], ![i] = 0]
      <4>0. j' = j + 1 /\ i' - 1 = i
        BY <2>1, <3>2
      <4> SUFFICES ASSUME NEW t \in j + 1 .. i PROVE heads'[t] = 0
        BY <4>0
      <4>1. t \in Types /\ t # j /\ (t # i => t \in j .. i - 1)
        BY <1>0, <2>1 DEF Types
      <4> QED
        BY <1>0, <2>1, <3>2, <4>1
    <3> QED
      BY <2>1, <3>1, <3>2
  <2>3. heads'[TypeMax] = 0
    BY <1>0, <2>1 DEF MovedInv
  <2>4. j' < i'
    BY <2>1
  <2> QED
    BY <2>1, <2>2, <2>3, <2>4 DEF MovedInv
<1>3. CASE Compact
  <2>1. /\ pc = "options" /\ pc' = "compact" /\ i' = 1 /\ j' = 0 /\ heads' = heads
    BY <1>3 DEF Compact
  <2>2. \A t \in 0 .. 0 : t = 0
    OBVIOUS
  <2> QED
    BY <2>1, <2>2 DEF MovedInv
<1>4. CASE Help \/ Run \/ Stop \/ FreePort \/ NextList
  <2>1. heads' = heads /\ pc' \notin {"options", "compact"}
    BY <1>4 DEF Help, Run, Stop, FreePort, NextList, HubExit
  <2> QED
    BY <2>1 DEF MovedInv
<1>5. CASE UNCHANGED vars
  BY <1>5 DEF vars, MovedInv
<1> QED
  BY <1>1, <1>2, <1>3, <1>4, <1>5 DEF Next

\* hub_exit comes to a port by the one pointer to it.
LEMMA FreedStep ==
  ASSUME ShapeInv, LinksInv, MovedInv, FreedInv, [Next]_vars
  PROVE  FreedInv'
<1>0. /\ Made \subseteq DOMAIN mem /\ (\A p \in Made : p \in Nat /\ p # 0) /\ Types = 0 .. TypeMax
      /\ TypeMax \in Nat /\ TypeMax > 1 /\ i \in Nat /\ i <= TypeMax
      /\ DOMAIN freed = DOMAIN mem /\ 0 \in Types
      /\ \A t \in 0 .. i : t \in Types
  BY MadeAre DEF Types
\* hub_exit begins with the first list.
<1>1. ASSUME heads' = heads, Made' = Made, \A q \in Made : mem'[q].next = mem[q].next,
             \A p \in DOMAIN mem' : freed'[p] = 0,
             pc' = "exit", i' = 0, cur' = heads[0]
      PROVE  FreedInv'
  <2>1. heads[0] \in Made \cup {0} /\ Made \subseteq DOMAIN mem'
    BY <1>0, <1>1 DEF LinksInv, Made
  <2>2. ASSUME NEW p \in Made PROVE (freed'[p] = 1 \/ cur' = p) <=> Reached(p)'
    <3>1. freed'[p] = 0
      BY <1>1, <2>1
    <3>2. Reached(p)' <=> heads'[0] = p
      <4>1. \A q \in Made' : freed'[q] = 0
        BY <1>1, <2>1
      <4>2. \A t : t \in 0 .. i' <=> t = 0
        BY <1>1
      <4> QED
        BY <4>1, <4>2 DEF Reached
    <3> QED
      BY <1>1, <3>1, <3>2
  <2>3. 0 < TypeMax
    BY <1>0
  <2>4. cur' # 0 => freed'[cur'] = 0
    BY <1>1, <2>1
  <2> QED
    BY <1>1, <2>1, <2>2, <2>3, <2>4 DEF FreedInv
\* Nothing is freed before.
<1>2. ASSUME pc' \notin {"exit", "done"}, \A p \in DOMAIN mem' : freed'[p] = 0
      PROVE  FreedInv'
  BY <1>2 DEF FreedInv
<1>3. CASE AllocPort
  <2>1. \A p \in DOMAIN mem' : freed'[p] = 0
    <3>1. /\ freed' = Append(freed, 0) /\ DOMAIN freed = 1 .. Len(mem) /\ Len(freed) = Len(mem)
          /\ \A p \in DOMAIN mem : freed[p] = 0
          /\ DOMAIN mem' = DOMAIN mem \cup {Len(mem) + 1} /\ DOMAIN mem = 1 .. Len(mem)
      BY <1>3, AllocStep, AllocMade, MadeAre DEF FreedInv, ShapeInv
    <3>2. freed \in Seq({0, 1})
      BY DEF ShapeInv
    <3> QED
      BY <3>1, <3>2
  <2>2. CASE refused' = <<>>
    <3>1. pc' = "options"
      BY <1>3, <2>2, AllocStep
    <3> QED
      BY <1>2, <2>1, <3>1
  <2>3. CASE refused' # <<>>
    BY <1>1, <1>3, <2>1, <2>3, AllocStep, AllocMade
  <2> QED
    BY <2>2, <2>3
<1>4. CASE CompactPorts
  <2>1. pc' = "compact" /\ pc = "compact" /\ freed' = freed /\ DOMAIN mem' = DOMAIN mem
    <3>1. DOMAIN mem' = 1 .. Len(mem')
      BY <1>4, CompactStep
    <3> QED
      BY <1>4, <3>1, CompactStep, MadeAre
  <2> QED
    BY <1>2, <2>1 DEF FreedInv
<1>5. CASE Help \/ Stop
  <2>1. /\ UNCHANGED <<heads, mem, freed, refused>> /\ pc \notin {"exit", "done"}
        /\ pc' = "exit" /\ i' = 0 /\ cur' = heads[0]
    BY <1>5 DEF Help, Stop, HubExit
  <2> QED
    BY <1>1, <2>1 DEF FreedInv, Made
<1>6. CASE Compact \/ Run
  <2>1. UNCHANGED <<mem, freed>> /\ pc \in {"options", "compact"} /\ pc' \in {"compact", "run"}
    BY <1>6 DEF Compact, Run
  <2> QED
    BY <1>2, <2>1 DEF FreedInv
<1>7. CASE FreePort
  <2>1. /\ UNCHANGED <<heads, mem, refused, i, pc>> /\ pc = "exit"
        /\ cur \in Made /\ cur # 0 /\ freed[cur] = 0
        /\ freed' = [freed EXCEPT ![cur] = @ + 1] /\ cur' = mem[cur].next /\ Made' = Made
    BY <1>7 DEF FreePort, FreedInv, Made
  <2> DEFINE next == mem[cur].next
  <2>2. /\ freed'[cur] = 1 /\ \A p \in DOMAIN mem : p # cur => freed'[p] = freed[p]
    BY <1>0, <2>1
  <2>3. next \in Made \cup {0} /\ next # cur
    BY <1>0, <2>1 DEF LinksInv
  <2>4. next # 0 => freed[next] = 0
    <3> SUFFICES ASSUME next # 0, freed[next] # 0 PROVE FALSE
      OBVIOUS
    <3>1. next \in Made /\ freed[next] = 1
      BY <1>0, <2>3 DEF ShapeInv
    <3>2. Reached(next)
      BY <2>1, <3>1 DEF FreedInv
    <3>3. \A t \in 0 .. i : heads[t] # next
      BY <1>0, <2>1 DEF LinksInv
    <3>4. \A q \in Made : mem[q].next = next => q = cur
      BY <2>1 DEF LinksInv
    <3> QED
      BY <2>1, <3>2, <3>3, <3>4 DEF Reached
  <2>5. ASSUME NEW p \in Made PROVE (freed'[p] = 1 \/ cur' = p) <=> Reached(p)'
    <3>1. (freed[p] = 1 \/ cur = p) <=> Reached(p)
      BY <2>1 DEF FreedInv
    <3>2. Reached(p)' <=> Reached(p) \/ next = p
      <4>1. \A q \in Made : freed'[q] = 1 <=> freed[q] = 1 \/ q = cur
        BY <1>0, <2>1, <2>2
      <4> QED
        BY <2>1, <4>1 DEF Reached
    <3>3. freed'[p] = 1 <=> freed[p] = 1 \/ p = cur
      BY <1>0, <2>1, <2>2
    <3> QED
      BY <2>1, <3>1, <3>2, <3>3
  <2>6. cur' # 0 => freed'[cur'] = 0
    BY <1>0, <2>1, <2>2, <2>3, <2>4
  <2>7. \A p \in DOMAIN mem' \ Made' : freed'[p] = 0
    BY <2>1, <2>2 DEF FreedInv
  <2> QED
    BY <2>1, <2>3, <2>5, <2>6, <2>7 DEF FreedInv
<1>8. CASE NextList
  <2>1. /\ UNCHANGED <<heads, mem, freed, refused>> /\ pc = "exit" /\ cur = 0 /\ i' = i + 1
        /\ cur' = heads[i + 1] /\ Made' = Made /\ i < TypeMax
        /\ pc' = IF i + 1 < TypeMax THEN "exit" ELSE "done"
    BY <1>8 DEF NextList, FreedInv, Made
  <2>2. i + 1 \in Types /\ \A t : t \in 0 .. i' <=> t \in 0 .. i \/ t = i + 1
    BY <1>0, <2>1
  <2>3. heads[i + 1] \in Made \cup {0}
    BY <2>2 DEF LinksInv
  <2>4. heads[i + 1] # 0 => freed[heads[i + 1]] = 0
    <3> SUFFICES ASSUME heads[i + 1] # 0, freed[heads[i + 1]] # 0 PROVE FALSE
      OBVIOUS
    <3>1. heads[i + 1] \in Made /\ freed[heads[i + 1]] = 1
      BY <1>0, <2>3 DEF ShapeInv
    <3>2. Reached(heads[i + 1])
      BY <2>1, <3>1 DEF FreedInv
    <3>3. \A t \in 0 .. i : heads[t] # heads[i + 1]
      <4>1. \A t \in 0 .. i : t # i + 1
        BY <1>0
      <4> QED
        BY <1>0, <2>2, <4>1 DEF LinksInv
    <3>4. \A q \in Made : mem[q].next # heads[i + 1]
      BY <2>2 DEF LinksInv
    <3> QED
      BY <3>2, <3>3, <3>4 DEF Reached
  <2>5. ASSUME NEW p \in Made PROVE (freed'[p] = 1 \/ cur' = p) <=> Reached(p)'
    <3>1. freed[p] = 1 <=> Reached(p)
      BY <1>0, <2>1 DEF FreedInv
    <3>2. Reached(p)' <=> Reached(p) \/ heads[i + 1] = p
      BY <2>1, <2>2 DEF Reached
    <3> QED
      BY <2>1, <3>1, <3>2
  <2>6. pc' = "done" => i' = TypeMax /\ cur' = 0
    BY <1>0, <2>1 DEF MovedInv
  <2>7. pc' = "exit" => i' < TypeMax
    BY <1>0, <2>1
  <2> QED
    BY <2>1, <2>3, <2>4, <2>5, <2>6, <2>7 DEF FreedInv
<1>9. CASE UNCHANGED vars
  BY <1>9 DEF vars, FreedInv, Reached, Made
<1> QED
  BY <1>3, <1>4, <1>5, <1>6, <1>7, <1>8, <1>9 DEF Next

\* All four hold before the first option.
LEMMA PortsInit == Init => ShapeInv /\ LinksInv /\ MovedInv /\ FreedInv
<1> SUFFICES ASSUME Init PROVE ShapeInv /\ LinksInv /\ MovedInv /\ FreedInv
  OBVIOUS
<1>1. /\ line \in Lines /\ heads = [t \in 0 .. TypeMax |-> 0] /\ mem = <<>> /\ freed = <<>>
      /\ refused = <<>> /\ i = 0 /\ j = 0 /\ pc = "options"
  BY DEF Init
<1>2. TypeMax \in Nat /\ 0 \in Types /\ TypeMax \in Types /\ Types = 0 .. TypeMax
  BY TypesAssumption DEF Types
<1>3. DOMAIN mem = {} /\ Made = {} /\ \A t \in Types : heads[t] = 0
  BY <1>1, <1>2 DEF Made
<1>4. line \in Seq(ToSet(line)) /\ \A k \in DOMAIN line : line[k].type \in 1 .. TypeMax - 1
  <2>1. \A k \in DOMAIN line : line[k] \in ToSet(line)
    BY DEF ToSet
  <2> QED
    BY <1>1, <2>1, LinesAssumption
<1>5. \A S : <<>> \in Seq(S)
  OBVIOUS
<1>6. ShapeInv
  BY <1>1, <1>2, <1>3, <1>4, <1>5 DEF ShapeInv
<1>7. LinksInv
  BY <1>3 DEF LinksInv
<1>8. MovedInv
  BY <1>1, <1>2, <1>3 DEF MovedInv
<1>9. FreedInv
  BY <1>1, <1>3 DEF FreedInv
<1> QED
  BY <1>6, <1>7, <1>8, <1>9

\* When hub_exit is through, a port not freed would have a last one like it,
\* which a list or a port that was freed points at.
LEMMA AllFreed ==
  ASSUME ShapeInv, LinksInv, FreedInv, pc = "done", NEW p \in Made
  PROVE  freed[p] = 1
<1> DEFINE S == {q \in Made : freed[q] # 1}
<1> SUFFICES ASSUME S # {} PROVE FALSE
  OBVIOUS
<1>1. S \subseteq 1 .. Len(mem) /\ Len(mem) \in Nat
  BY MadeAre
<1>2. PICK x \in S : \A y \in S : y <= x
  BY <1>1, Highest
<1>3. i = TypeMax /\ cur = 0 /\ x # 0 /\ x \in Nat /\ ~ Reached(x)
  BY <1>1, <1>2, MadeAre DEF FreedInv
<1>4. ~ \E t \in Types : heads[t] = x
  BY <1>3 DEF Reached, Types
<1>5. PICK q \in Made : mem[q].next = x
  BY <1>2, <1>4 DEF LinksInv
<1>6. x < q /\ q \in Nat
  BY <1>5, MadeAre DEF LinksInv
<1>7. q \notin S
  BY <1>2, <1>3, <1>6
<1> QED
  BY <1>3, <1>5, <1>7 DEF Reached

\* Wherever the program ends, on a refused option, on an option it does not
\* know or after its loop, hub_exit frees each port made just once.
THEOREM EachFreedOnce == Spec => []FreedOnce
<1> DEFINE PortsInv == ShapeInv /\ LinksInv /\ MovedInv /\ FreedInv
<1>1. PortsInv /\ [Next]_vars => PortsInv'
  BY ShapeStep, LinksStep, MovedStep, FreedStep
<1>2. PortsInv => FreedOnce
  <2> SUFFICES ASSUME PortsInv PROVE FreedOnce
    OBVIOUS
  <2>1. \A p \in DOMAIN mem : freed[p] \in {0, 1}
    BY MadeAre DEF ShapeInv
  <2>2. \A p \in DOMAIN mem : freed[p] <= 1
    BY <2>1
  <2>3. pc = "done" => {p \in DOMAIN mem : freed[p] = 1} = Made
    BY AllFreed, MadeAre DEF FreedInv
  <2> QED
    BY <2>2, <2>3 DEF FreedOnce
<1> QED
  BY <1>1, <1>2, PortsInit, PTL DEF Spec

-----------------------------------------------------------------------------
(* The lists odp_new finds *)

TypeOf(t) == mem[heads[t]].type

\* Each list starts with the newest port of its type, whose link back leads to
\* the list's head, and each port is of the type of one of the lists.
HeadsInv ==
  /\ \A q \in DOMAIN mem : /\ {"type", "next", "prev"} \subseteq DOMAIN mem[q]
                           /\ mem[q].type \in 1 .. TypeMax - 1
  /\ \A t \in Types : heads[t] # 0 =>
       /\ \A q \in DOMAIN mem : mem[q].type = TypeOf(t) => q <= heads[t]
       /\ mem[heads[t]].prev = <<"head", t>>
  /\ \A q \in DOMAIN mem : \E t \in Types : heads[t] # 0 /\ TypeOf(t) = mem[q].type

\* Behind a port there is the next older one of its type, and it links back.
OlderInv == \A q \in DOMAIN mem :
  /\ \A r \in DOMAIN mem : r < q /\ mem[r].type = mem[q].type => r <= mem[q].next
  /\ mem[q].next # 0 => /\ mem[mem[q].next].type = mem[q].type
                        /\ mem[mem[q].next].prev = <<"next", q>>

\* The lists that are not yet moved have their types for their places; those
\* that are, are in the order of their types.
OrderInv ==
  /\ pc = "options" => \A t \in Types : heads[t] # 0 => TypeOf(t) = t
  /\ pc = "compact" => \A t \in i .. TypeMax : heads[t] # 0 => TypeOf(t) = t
  /\ pc \in {"compact", "run"} =>
       /\ \A t \in 0 .. j - 1 : t \in Types /\ heads[t] # 0 /\ TypeOf(t) < i
       /\ \A s, t \in 0 .. j - 1 : s < t => TypeOf(s) < TypeOf(t)
  /\ pc = "run" => \A t \in j .. TypeMax : heads[t] = 0

\* The datapath's option is the last one, so its port is the newest.
DatapathInv ==
  /\ line # <<>> => Last(line).type = InternalType
  /\ line = <<>> => mem # <<>> /\ mem[Len(mem)].type = InternalType
  /\ pc \in {"compact", "run"} => line = <<>>

ListsInv == pc \in {"options", "compact", "run"} =>
              HeadsInv /\ OlderInv /\ OrderInv /\ DatapathInv

\* alloc_port with an option it does not refuse.
LEMMA AllocRecord ==
  ASSUME ShapeInv, AllocPort, refused' = <<>>
  PROVE  LET p == Len(mem) + 1
             t == Head(line).type
         IN  /\ t \in 1 .. TypeMax - 1
             /\ heads' = [heads EXCEPT ![t] = p]
             /\ {"type", "next", "prev"} \subseteq DOMAIN mem'[p]
             /\ mem'[p].type = t /\ mem'[p].next = heads[t] /\ mem'[p].prev = <<"head", t>>
             /\ \A q \in 1 .. Len(mem) :
                  mem'[q] = IF q = heads[t] THEN [mem[q] EXCEPT !.prev = <<"next", p>>]
                            ELSE mem[q]
             /\ pc' = pc
<1> DEFINE p == Len(mem) + 1
           t == Head(line).type
<1>1. \E s : \/ InsertHead(s.port, p, t) /\ UNCHANGED <<refused, i, cur, pc>>
             \/ refused' = <<Head(line).text>>
  BY DEF AllocPort
<1>2. PICK s : InsertHead(s.port, p, t) /\ pc' = pc
  BY <1>1
<1>3. t \in 1 .. TypeMax - 1
  <2>1. line # <<>> /\ line \in Seq(ToSet(line))
    BY DEF AllocPort, ShapeInv
  <2>2. 1 \in DOMAIN line /\ Head(line) = line[1]
    BY <2>1
  <2> QED
    BY <2>2 DEF ShapeInv
<1> HIDE DEF t
<1>4. /\ heads' = [heads EXCEPT ![t] = p]
      /\ mem' = [q \in 1 .. p |->
                   IF q = p
                   THEN [name |-> s.port.name, opt |-> s.port.opt,
                         noflood |-> s.port.noflood, type |-> t,
                         next |-> heads[t], prev |-> <<"head", t>>]
                   ELSE IF q = heads[t] THEN [mem[q] EXCEPT !.prev = <<"next", p>>]
                   ELSE mem[q]]
  BY <1>2 DEF InsertHead
<1>5. p \in 1 .. p /\ Len(mem) \in Nat
  BY MadeAre
<1>6. /\ mem'[p] = [name |-> s.port.name, opt |-> s.port.opt,
                    noflood |-> s.port.noflood, type |-> t,
                    next |-> heads[t], prev |-> <<"head", t>>]
      /\ \A q \in 1 .. Len(mem) : q \in 1 .. p /\ q # p
  BY <1>4, <1>5
<1>7. \A q \in 1 .. Len(mem) :
        mem'[q] = IF q = heads[t] THEN [mem[q] EXCEPT !.prev = <<"next", p>>] ELSE mem[q]
  BY <1>4, <1>6
<1>8. /\ {"type", "next", "prev"} \subseteq DOMAIN mem'[p]
      /\ mem'[p].type = t /\ mem'[p].next = heads[t] /\ mem'[p].prev = <<"head", t>>
  BY <1>6
<1> QED
  BY <1>2, <1>3, <1>4, <1>7, <1>8 DEF t

\* A new port is the first of its type's list, before the one that was.
LEMMA AllocLists ==
  ASSUME ShapeInv, LinksInv, MovedInv, ListsInv, AllocPort
  PROVE  ListsInv'
<1> SUFFICES ASSUME refused' = <<>> PROVE ListsInv'
  <2>1. CASE refused' # <<>>
    <3>1. pc' = "exit"
      BY <2>1, AllocStep
    <3> QED
      BY <3>1 DEF ListsInv
  <2> QED
    BY <2>1
<1>1. PICK p \in Nat : p = Len(mem) + 1
  BY MadeAre
<1>2. PICK t \in 1 .. TypeMax - 1 : t = Head(line).type
  BY AllocRecord
<1>3. PICK h : h = heads[t]
  OBVIOUS
<1>4. /\ t \in Types /\ DOMAIN heads = Types /\ TypeMax \in Nat
      /\ DOMAIN mem = 1 .. Len(mem) /\ Len(mem) \in Nat /\ Made = DOMAIN mem
      /\ DOMAIN mem' = DOMAIN mem \cup {p} /\ p \notin DOMAIN mem /\ p # 0
      /\ \A q \in DOMAIN mem : q < p /\ q \in Nat /\ q # 0
  <2>1. Made = 1 .. Len(mem) /\ DOMAIN mem' = DOMAIN mem \cup {Len(mem) + 1}
    BY AllocMade
  <2> QED
    BY <1>1, <2>1, MadeAre, TypesAssumption DEF ShapeInv, Types
<1>5. /\ pc = "options" /\ pc' = "options" /\ HeadsInv /\ OlderInv /\ OrderInv /\ DatapathInv
  BY AllocStep, AllocRecord DEF ListsInv
<1>6. /\ heads'[t] = p /\ \A s \in Types : s # t => heads'[s] = heads[s]
  BY <1>1, <1>2, <1>4, AllocRecord
<1>7. /\ {"type", "next", "prev"} \subseteq DOMAIN mem'[p]
      /\ mem'[p].type = t /\ mem'[p].next = h /\ mem'[p].prev = <<"head", t>>
  BY <1>1, <1>2, <1>3, AllocRecord
<1>8. ASSUME NEW q \in DOMAIN mem
      PROVE  /\ {"type", "next", "prev"} \subseteq DOMAIN mem'[q]
             /\ mem'[q].type = mem[q].type /\ mem'[q].next = mem[q].next
             /\ mem'[q].prev = IF q = h THEN <<"next", p>> ELSE mem[q].prev
             /\ mem[q].type \in 1 .. TypeMax - 1
  <2>1. mem'[q] = IF q = h THEN [mem[q] EXCEPT !.prev = <<"next", p>>] ELSE mem[q]
    BY <1>1, <1>2, <1>3, <1>4, AllocRecord
  <2>2. {"type", "next", "prev"} \subseteq DOMAIN mem[q] /\ mem[q].type \in 1 .. TypeMax - 1
    BY <1>5 DEF HeadsInv
  <2>3. CASE q = h
    BY <2>1, <2>2, <2>3
  <2>4. CASE q # h
    BY <2>1, <2>2, <2>4
  <2> QED
    BY <2>2, <2>3, <2>4
<1>9. /\ \A s \in Types : heads[s] # 0 => heads[s] \in DOMAIN mem /\ TypeOf(s) = s
      /\ h # 0 => h \in DOMAIN mem /\ mem[h].type = t
  BY <1>3, <1>4, <1>5 DEF LinksInv, OrderInv, TypeOf
<1>10. \A s \in Types : heads'[s] # 0 => heads'[s] \in DOMAIN mem' /\ TypeOf(s)' = s
  BY <1>4, <1>6, <1>7, <1>8, <1>9 DEF TypeOf
<1>11. \A q \in DOMAIN mem : mem[q].type = t => h # 0 /\ q <= h
  <2> SUFFICES ASSUME NEW q \in DOMAIN mem, mem[q].type = t PROVE h # 0 /\ q <= h
    OBVIOUS
  <2>1. PICK s \in Types : heads[s] # 0 /\ TypeOf(s) = t
    BY <1>5 DEF HeadsInv
  <2>2. s = t
    BY <1>9, <2>1
  <2> QED
    BY <1>3, <1>5, <2>1, <2>2 DEF HeadsInv
<1>12. HeadsInv'
  <2>1. \A q \in DOMAIN mem' : /\ {"type", "next", "prev"} \subseteq DOMAIN mem'[q]
                               /\ mem'[q].type \in 1 .. TypeMax - 1
    BY <1>4, <1>7, <1>8
  <2>2. ASSUME NEW s \in Types, heads'[s] # 0, NEW q \in DOMAIN mem', mem'[q].type = TypeOf(s)'
        PROVE  q <= heads'[s]
    <3>1. TypeOf(s)' = s
      BY <1>10, <2>2
    <3>2. CASE s = t
      BY <1>4, <1>6, <3>2
    <3>3. CASE s # t
      <4>1. q # p /\ q \in DOMAIN mem /\ mem[q].type = s /\ heads[s] # 0 /\ TypeOf(s) = s
        BY <1>4, <1>6, <1>7, <1>8, <1>9, <2>2, <3>1, <3>3
      <4> QED
        BY <1>5, <1>6, <3>3, <4>1 DEF HeadsInv
    <3> QED
      BY <3>2, <3>3
  <2>3. ASSUME NEW s \in Types, heads'[s] # 0
        PROVE  mem'[heads'[s]].prev = <<"head", s>>
    <3>1. CASE s = t
      BY <1>6, <1>7, <3>1
    <3>2. CASE s # t
      <4>1. heads'[s] = heads[s] /\ heads[s] # 0 /\ heads[s] \in DOMAIN mem /\ heads[s] # h
        BY <1>3, <1>4, <1>6, <1>9, <2>3, <3>2 DEF LinksInv
      <4> QED
        BY <1>5, <1>8, <4>1 DEF HeadsInv
    <3> QED
      BY <3>1, <3>2
  <2>4. ASSUME NEW q \in DOMAIN mem'
        PROVE  \E s \in Types : heads'[s] # 0 /\ TypeOf(s)' = mem'[q].type
    <3>1. CASE mem'[q].type = t
      BY <1>4, <1>6, <1>10, <3>1
    <3>2. CASE mem'[q].type # t
      <4>1. q \in DOMAIN mem /\ mem'[q].type = mem[q].type
        BY <1>4, <1>7, <1>8, <3>2
      <4>2. PICK s \in Types : heads[s] # 0 /\ TypeOf(s) = mem[q].type
        BY <1>5, <4>1 DEF HeadsInv
      <4>3. s = mem[q].type /\ s # t
        BY <1>9, <3>2, <4>1, <4>2
      <4> QED
        BY <1>6, <1>10, <4>1, <4>2, <4>3
    <3> QED
      BY <3>1, <3>2
  <2>5. \A s \in Types : heads'[s] # 0 =>
          /\ \A q \in DOMAIN mem' : mem'[q].type = TypeOf(s)' => q <= heads'[s]
          /\ mem'[heads'[s]].prev = <<"head", s>>
    BY <2>2, <2>3
  <2> QED
    BY <2>1, <2>4, <2>5 DEF HeadsInv
<1>13. OlderInv'
  <2> SUFFICES ASSUME NEW q \in DOMAIN mem'
               PROVE  /\ \A r \in DOMAIN mem' : r < q /\ mem'[r].type = mem'[q].type
                                                  => r <= mem'[q].next
                      /\ mem'[q].next # 0 =>
                           /\ mem'[mem'[q].next].type = mem'[q].type
                           /\ mem'[mem'[q].next].prev = <<"next", q>>
    BY DEF OlderInv
  <2>1. CASE q = p
    <3>1. \A r \in DOMAIN mem' : r < q /\ mem'[r].type = mem'[q].type => r <= mem'[q].next
      BY <1>4, <1>7, <1>8, <1>11, <2>1
    <3> QED
      BY <1>7, <1>8, <1>9, <2>1, <3>1
  <2>2. CASE q # p
    <3>1. q \in DOMAIN mem /\ mem'[q].type = mem[q].type /\ mem'[q].next = mem[q].next
      BY <1>4, <1>8, <2>2
    <3>2. ASSUME NEW r \in DOMAIN mem', r < q, mem'[r].type = mem'[q].type
          PROVE  r <= mem'[q].next
      <4>1. r \in DOMAIN mem
        BY <1>4, <3>1, <3>2
      <4> QED
        BY <1>5, <1>8, <3>1, <3>2, <4>1 DEF OlderInv
    <3>3. mem[q].next # 0 => mem[q].next \in DOMAIN mem /\ mem[q].next # h
      BY <1>3, <1>4, <3>1 DEF LinksInv
    <3>4. mem'[q].next # 0 => /\ mem'[mem'[q].next].type = mem'[q].type
                              /\ mem'[mem'[q].next].prev = <<"next", q>>
      BY <1>5, <1>8, <3>1, <3>3 DEF OlderInv
    <3> QED
      BY <3>2, <3>4
  <2> QED
    BY <2>1, <2>2
<1>14. OrderInv'
  BY <1>5, <1>10 DEF OrderInv
<1>15. DatapathInv'
  <2>1. /\ line # <<>> /\ line \in Seq(ToSet(line)) /\ line' = Tail(line)
        /\ Last(line).type = InternalType
    BY <1>5 DEF AllocPort, ShapeInv, DatapathInv
  <2>2. /\ Len(line) \in Nat /\ Len(line) > 0 /\ Head(line) = line[1]
        /\ Len(line') = Len(line) - 1
        /\ \A k \in 1 .. Len(line') : line'[k] = line[k + 1]
    BY <2>1
  <2>3. CASE line' # <<>>
    <3>1. Len(line') \in 1 .. Len(line') /\ Len(line') + 1 = Len(line)
      <4>1. line' \in Seq(ToSet(line'))
        BY AllocStep
      <4> QED
        BY <2>2, <2>3, <4>1
    <3>2. Last(line') = Last(line)
      BY <2>2, <3>1 DEF Last
    <3> QED
      BY <1>5, <2>1, <2>3, <3>2 DEF DatapathInv
  <2>4. CASE line' = <<>>
    <3>0. Len(line') = 0
      BY <2>4
    <3>1. Len(line) = 1 /\ Last(line) = line[1]
      <4>1. PICK n \in Nat : n = Len(line)
        BY <2>2
      <4>2. n - 1 = 0
        BY <2>2, <3>0, <4>1
      <4>3. n = 1
        BY <4>2
      <4> QED
        BY <4>1, <4>3 DEF Last
    <3>2. t = InternalType
      BY <1>2, <2>1, <2>2, <3>1
    <3>3. Len(mem') = p /\ mem' # <<>>
      BY <1>1, <1>4, AllocStep
    <3> QED
      BY <1>5, <1>7, <2>4, <3>2, <3>3 DEF DatapathInv
  <2> QED
    BY <2>3, <2>4
<1> QED
  BY <1>12, <1>13, <1>14, <1>15 DEF ListsInv

\* A list that is moved has the greatest type so far, and its first port links
\* back to the new place.
LEMMA CompactLists ==
  ASSUME ShapeInv, LinksInv, MovedInv, ListsInv, CompactPorts
  PROVE  ListsInv'
<1>1. /\ pc = "compact" /\ pc' = "compact" /\ i < TypeMax /\ i' = i + 1 /\ line' = line
      /\ i \in Types /\ j \in Types /\ TypeMax \in Nat /\ Types = 0 .. TypeMax
      /\ DOMAIN heads = Types /\ j < i /\ i \in Nat /\ j \in Nat
      /\ \A s \in j .. i - 1 : heads[s] = 0
      /\ Made = DOMAIN mem /\ Len(mem') = Len(mem) /\ DOMAIN mem' = DOMAIN mem
      /\ HeadsInv /\ OlderInv /\ OrderInv /\ DatapathInv
  <2>1. DOMAIN mem' = 1 .. Len(mem') /\ refused = <<>>
    BY CompactStep DEF ShapeInv
  <2> QED
    BY <2>1, CompactStep, MadeAre, TypesAssumption DEF ShapeInv, MovedInv, ListsInv, Types
<1>2. /\ \A s \in Types : heads[s] # 0 => heads[s] \in DOMAIN mem
      /\ \A s \in i .. TypeMax : s \in Types /\ (heads[s] # 0 => TypeOf(s) = s)
      /\ \A s \in 0 .. j - 1 : s \in Types /\ heads[s] # 0 /\ TypeOf(s) < i
  BY <1>1 DEF LinksInv, OrderInv
<1>3. CASE heads[i] = 0
  <2>1. UNCHANGED <<heads, mem, j>>
    BY <1>3 DEF CompactPorts, Move
  <2>2. HeadsInv' /\ OlderInv' /\ DatapathInv'
    BY <1>1, <2>1 DEF HeadsInv, OlderInv, DatapathInv, TypeOf
  <2>3. ASSUME NEW s \in 0 .. j - 1
        PROVE  s \in Types /\ heads[s] # 0 /\ TypeOf(s) < i + 1
    <3>0. heads[s] \in DOMAIN mem
      BY <1>2
    <3>1. mem[heads[s]].type \in Nat
      BY <1>1, <3>0, TypesAssumption DEF HeadsInv
    <3> QED
      BY <1>1, <1>2, <3>1 DEF TypeOf
  <2>4. \A s \in i + 1 .. TypeMax : heads[s] # 0 => TypeOf(s) = s
    BY <1>1, <1>2
  <2>5. \A s, r \in 0 .. j - 1 : s < r => TypeOf(s) < TypeOf(r)
    BY <1>1 DEF OrderInv
  <2>6. OrderInv'
    BY <1>1, <2>1, <2>3, <2>4, <2>5 DEF OrderInv, TypeOf
  <2> QED
    BY <2>2, <2>6 DEF ListsInv
<1>4. CASE heads[i] # 0
  <2>0. PICK d \in Types : d = j
    BY <1>1
  <2>1. PICK h \in DOMAIN mem : h = heads[i] /\ mem[h].type = i /\ h # 0
    BY <1>1, <1>2, <1>4 DEF TypeOf
  <2>2. /\ heads' = [heads EXCEPT ![j] = h, ![i] = 0] /\ j' = j + 1
        /\ mem' = [mem EXCEPT ![h].prev = <<"head", j>>]
    BY <1>4, <2>1 DEF CompactPorts, Move
  <2>3. /\ heads'[j] = h /\ heads'[i] = 0 /\ j # i
        /\ \A s \in Types : s # j /\ s # i => heads'[s] = heads[s]
    BY <1>1, <2>2
  <2>4. ASSUME NEW q \in DOMAIN mem
        PROVE  /\ {"type", "next", "prev"} \subseteq DOMAIN mem'[q]
               /\ mem'[q].type = mem[q].type /\ mem'[q].next = mem[q].next
               /\ mem'[q].prev = IF q = h THEN <<"head", j>> ELSE mem[q].prev
               /\ mem[q].type \in 1 .. TypeMax - 1
    <3>1. {"type", "next", "prev"} \subseteq DOMAIN mem[q] /\ mem[q].type \in 1 .. TypeMax - 1
      BY <1>1 DEF HeadsInv
    <3>2. CASE q = h
      BY <2>2, <3>1, <3>2
    <3>3. CASE q # h
      BY <2>2, <3>1, <3>3
    <3> QED
      BY <3>1, <3>2, <3>3
  <2>5. ASSUME NEW s \in Types, heads'[s] # 0
        PROVE  \/ s = j /\ TypeOf(s)' = i
               \/ /\ s # j /\ s # i /\ heads'[s] = heads[s] /\ heads[s] \in DOMAIN mem
                  /\ heads[s] # h /\ TypeOf(s)' = TypeOf(s)
    <3>1. CASE s = j
      BY <2>1, <2>3, <2>4, <3>1 DEF TypeOf
    <3>2. CASE s # j
      <4>1. s # i /\ heads'[s] = heads[s] /\ heads[s] \in DOMAIN mem
        BY <1>2, <2>3, <2>5, <3>2
      <4>2. heads[s] # h
        BY <1>1, <2>1, <2>5, <4>1 DEF LinksInv
      <4> QED
        BY <2>4, <3>2, <4>1, <4>2 DEF TypeOf
    <3> QED
      BY <3>1, <3>2
  <2>6. HeadsInv'
    <3>1. ASSUME NEW s \in Types, heads'[s] # 0
          PROVE  /\ \A q \in DOMAIN mem' : mem'[q].type = TypeOf(s)' => q <= heads'[s]
                 /\ mem'[heads'[s]].prev = <<"head", s>>
      <4>1. CASE s = j /\ TypeOf(s)' = i
        <5>1. TypeOf(i) = i /\ \A q \in DOMAIN mem : mem[q].type = TypeOf(i) => q <= heads[i]
          BY <1>1, <2>1 DEF HeadsInv, TypeOf
        <5> QED
          BY <1>1, <2>1, <2>3, <2>4, <4>1, <5>1
      <4>2. CASE /\ s # j /\ s # i /\ heads'[s] = heads[s] /\ heads[s] \in DOMAIN mem
                 /\ heads[s] # h /\ TypeOf(s)' = TypeOf(s)
        BY <1>1, <2>4, <3>1, <4>2 DEF HeadsInv
      <4> QED
        BY <2>5, <3>1, <4>1, <4>2
    <3>2. ASSUME NEW q \in DOMAIN mem
          PROVE  \E s \in Types : heads'[s] # 0 /\ TypeOf(s)' = mem'[q].type
      <4>1. PICK s \in Types : heads[s] # 0 /\ TypeOf(s) = mem[q].type
        BY <1>1 DEF HeadsInv
      <4>2. CASE s = i
        <5>1. TypeOf(d)' = i /\ mem[q].type = i
          BY <2>0, <2>1, <2>3, <2>4, <4>1, <4>2 DEF TypeOf
        <5> QED
          BY <2>0, <2>1, <2>3, <2>4, <5>1
      <4>3. CASE s # i
        <5>1. s # j
          BY <1>1, <4>1
        <5>2. heads'[s] = heads[s] /\ heads[s] \in DOMAIN mem
          BY <1>2, <2>3, <4>1, <4>3, <5>1
        <5>3. TypeOf(s)' = TypeOf(s)
          BY <2>4, <5>2 DEF TypeOf
        <5> QED
          BY <2>4, <4>1, <5>2, <5>3
      <4> QED
        BY <4>2, <4>3
    <3>3. \A q \in DOMAIN mem' : /\ {"type", "next", "prev"} \subseteq DOMAIN mem'[q]
                                 /\ mem'[q].type \in 1 .. TypeMax - 1
      BY <1>1, <2>4
    <3>4. \A q \in DOMAIN mem' : \E s \in Types : heads'[s] # 0 /\ TypeOf(s)' = mem'[q].type
      BY <1>1, <3>2
    <3> QED
      BY <3>1, <3>3, <3>4 DEF HeadsInv
  <2>7. OlderInv'
    <3> SUFFICES ASSUME NEW q \in DOMAIN mem
                 PROVE  /\ \A r \in DOMAIN mem : r < q /\ mem'[r].type = mem'[q].type
                                                   => r <= mem'[q].next
                        /\ mem'[q].next # 0 =>
                             /\ mem'[mem'[q].next].type = mem'[q].type
                             /\ mem'[mem'[q].next].prev = <<"next", q>>
      BY <1>1 DEF OlderInv
    <3>1. mem[q].next # 0 => mem[q].next \in DOMAIN mem /\ mem[q].next # h
      BY <1>1, <2>1 DEF LinksInv
    <3>2. \A r \in DOMAIN mem : r < q /\ mem'[r].type = mem'[q].type => r <= mem'[q].next
      BY <1>1, <2>4 DEF OlderInv
    <3>3. mem'[q].next # 0 => /\ mem'[mem'[q].next].type = mem'[q].type
                              /\ mem'[mem'[q].next].prev = <<"next", q>>
      BY <1>1, <2>4, <3>1 DEF OlderInv
    <3> QED
      BY <3>2, <3>3
  <2>8. OrderInv'
    <3>1. \A s \in i + 1 .. TypeMax : heads'[s] # 0 => TypeOf(s)' = s
      <4> SUFFICES ASSUME NEW s \in i + 1 .. TypeMax, heads'[s] # 0 PROVE TypeOf(s)' = s
        OBVIOUS
      <4>1. s \in Types /\ s # j /\ s # i /\ s \in i .. TypeMax
        BY <1>1
      <4>2. heads'[s] = heads[s] /\ TypeOf(s)' = TypeOf(s) /\ heads[s] # 0
        BY <2>3, <2>5, <4>1
      <4> QED
        BY <1>2, <4>1, <4>2
    <3>2. ASSUME NEW s \in 0 .. j - 1
          PROVE  /\ s \in Types /\ heads'[s] # 0 /\ TypeOf(s)' = TypeOf(s)
                 /\ TypeOf(s) \in Nat /\ TypeOf(s) < i
      <4>1. s \in Types /\ s # j /\ s # i /\ heads[s] # 0 /\ TypeOf(s) < i
        BY <1>1, <1>2
      <4>2. heads'[s] = heads[s] /\ heads[s] \in DOMAIN mem
        BY <1>2, <2>3, <4>1
      <4>3. mem[heads[s]].type \in Nat
        BY <1>1, <4>2, TypesAssumption DEF HeadsInv
      <4> QED
        BY <2>4, <4>1, <4>2, <4>3 DEF TypeOf
    <3>3. heads'[d] # 0 /\ TypeOf(d)' = i /\ d \in Types
      BY <2>0, <2>1, <2>3, <2>4 DEF TypeOf
    <3>4. \A s \in 0 .. j' - 1 : s \in 0 .. j - 1 \/ s = d
      BY <1>1, <2>0, <2>2
    <3>5. \A s \in 0 .. j' - 1 : s \in Types /\ heads'[s] # 0 /\ TypeOf(s)' < i'
      BY <1>1, <3>2, <3>3, <3>4
    <3>6. ASSUME NEW s \in 0 .. j' - 1, NEW r \in 0 .. j' - 1, s < r
          PROVE  TypeOf(s)' < TypeOf(r)'
      <4>1. s \in 0 .. j - 1
        BY <1>1, <2>0, <2>2, <3>6
      <4>2. CASE r = d
        BY <3>2, <3>3, <4>1, <4>2
      <4>3. CASE r \in 0 .. j - 1
        <5>1. TypeOf(s) < TypeOf(r)
          BY <1>1, <3>6, <4>1, <4>3 DEF OrderInv
        <5> QED
          BY <3>2, <4>1, <4>3, <5>1
      <4> QED
        BY <3>4, <4>2, <4>3
    <3> QED
      BY <1>1, <3>1, <3>5, <3>6 DEF OrderInv
  <2>9. DatapathInv'
    <3>1. line = <<>> => mem' # <<>> /\ mem'[Len(mem')].type = InternalType
      <4> SUFFICES ASSUME line = <<>>
                   PROVE  mem' # <<>> /\ mem'[Len(mem')].type = InternalType
        OBVIOUS
      <4>1. mem # <<>> /\ mem[Len(mem)].type = InternalType
        BY <1>1 DEF DatapathInv
      <4>2. Len(mem) \in DOMAIN mem
        <5>1. mem \in Seq(ToSet(mem))
          BY DEF ShapeInv
        <5> QED
          BY <4>1, <5>1
      <4>3. mem' # <<>>
        BY <1>1, <4>2
      <4> QED
        BY <1>1, <2>4, <4>1, <4>2, <4>3
    <3> QED
      BY <1>1, <3>1 DEF DatapathInv
  <2> QED
    BY <2>6, <2>7, <2>8, <2>9 DEF ListsInv
<1> QED
  BY <1>3, <1>4

LEMMA ListsStep ==
  ASSUME ShapeInv, LinksInv, MovedInv, ListsInv, [Next]_vars
  PROVE  ListsInv'
<1>1. CASE AllocPort
  BY <1>1, AllocLists
<1>2. CASE CompactPorts
  BY <1>2, CompactLists
<1>3. CASE Compact
  <2>1. /\ pc = "options" /\ pc' = "compact" /\ line = <<>>
        /\ i' = 1 /\ j' = 0 /\ UNCHANGED <<line, heads, mem>>
    BY <1>3 DEF Compact
  <2>2. HeadsInv' /\ OlderInv' /\ DatapathInv'
    BY <2>1 DEF ListsInv, HeadsInv, OlderInv, DatapathInv, TypeOf
  <2>3. \A t \in 1 .. TypeMax : t \in Types
    BY TypesAssumption DEF Types
  <2>4. \A t \in 0 .. j' - 1 : FALSE
    BY <2>1
  <2>5. \A t \in 1 .. TypeMax : heads[t] # 0 => TypeOf(t) = t
    BY <2>1, <2>3 DEF ListsInv, OrderInv
  <2>6. OrderInv'
    BY <2>1, <2>4, <2>5 DEF OrderInv, TypeOf
  <2> QED
    BY <2>2, <2>6 DEF ListsInv
<1>4. CASE Run
  <2>1. /\ pc = "compact" /\ i = TypeMax /\ pc' = "run" /\ UNCHANGED <<line, heads, mem, i, j>>
    BY <1>4 DEF Run
  <2>2. HeadsInv' /\ OlderInv' /\ DatapathInv'
    BY <2>1 DEF ListsInv, HeadsInv, OlderInv, DatapathInv, TypeOf
  <2>3. \A t \in j .. TypeMax : heads[t] = 0
    <3>1. \A t \in j .. TypeMax : t \in j .. i - 1 \/ t = TypeMax
      BY <2>1, TypesAssumption DEF ShapeInv
    <3> QED
      BY <2>1, <3>1 DEF MovedInv
  <2>4. OrderInv'
    BY <2>1, <2>3 DEF ListsInv, OrderInv, TypeOf
  <2> QED
    BY <2>2, <2>4 DEF ListsInv
<1>5. CASE Help \/ Stop \/ FreePort \/ NextList
  <2>1. pc' \in {"exit", "done"}
    BY <1>5 DEF Help, Stop, HubExit, FreePort, NextList
  <2> QED
    BY <2>1 DEF ListsInv
<1>6. CASE UNCHANGED vars
  BY <1>6 DEF vars, ListsInv, HeadsInv, OlderInv, OrderInv, DatapathInv, TypeOf
<1> QED
  BY <1>1, <1>2, <1>3, <1>4, <1>5, <1>6 DEF Next

LEMMA ListsInit == Init => ListsInv
<1> SUFFICES ASSUME Init PROVE ListsInv
  OBVIOUS
<1>1. /\ line \in Lines /\ heads = [t \in 0 .. TypeMax |-> 0] /\ mem = <<>> /\ pc = "options"
  BY DEF Init
<1>2. DOMAIN mem = {} /\ \A t \in Types : heads[t] = 0
  BY <1>1 DEF Types
<1>3. line # <<>> /\ Last(line).type = InternalType
  BY <1>1, LinesAssumption
<1> QED
  BY <1>1, <1>2, <1>3 DEF ListsInv, HeadsInv, OlderInv, OrderInv, DatapathInv

\* The newest of some ports is one that no other is newer than.
LEMMA NewestIs ==
  ASSUME NEW S \in SUBSET Nat, NEW x \in S, \A y \in S : y <= x
  PROVE  Newest(S) = x
<1>1. \E k \in S : \A l \in S : l <= k
  OBVIOUS
<1>2. LastIn(S) \in S /\ \A l \in S : l <= LastIn(S)
  BY <1>1 DEF LastIn
<1>3. PICK k \in S : k = LastIn(S) /\ x <= k
  BY <1>2
<1>4. k \in Nat /\ x \in Nat /\ k <= x
  OBVIOUS
<1>5. LastIn(S) = x
  BY <1>3, <1>4
<1> QED
  BY <1>5 DEF Newest

\* After compact_ports, odp_new finds each port once, for any command line.
THEOREM EachFoundOnce == Spec => []Compacted
<1> DEFINE Inv == ShapeInv /\ LinksInv /\ MovedInv /\ FreedInv /\ ListsInv
<1>1. Inv /\ [Next]_vars => Inv'
  BY ShapeStep, LinksStep, MovedStep, FreedStep, ListsStep
<1>2. Inv => Compacted
  <2> SUFFICES ASSUME Inv, pc = "run" PROVE Compacted
    BY DEF Compacted
  <2>1. /\ HeadsInv /\ OlderInv /\ OrderInv /\ DatapathInv /\ line \in Seq(ToSet(line))
        /\ DOMAIN mem = 1 .. Len(mem) /\ Len(mem) \in Nat /\ Made = DOMAIN mem
        /\ TypeMax \in Nat /\ Types = 0 .. TypeMax /\ j \in Nat
    BY MadeAre, TypesAssumption DEF ListsInv, ShapeInv, Types
  <2> DEFINE full == {t \in 0 .. TypeMax : heads[t] # 0}
  <2>2. full = 0 .. j - 1
    <3>1. \A t \in 0 .. j - 1 : t \in full
      BY <2>1 DEF OrderInv
    <3>2. \A t \in 0 .. TypeMax : t \in 0 .. j - 1 \/ t \in j .. TypeMax
      BY <2>1
    <3>3. \A t \in full : t \in 0 .. j - 1
      BY <2>1, <3>2 DEF OrderInv
    <3> QED
      BY <3>1, <3>3
  <2>3. \A s, t \in full : s < t => TypeOf(s) < TypeOf(t)
    BY <2>1, <2>2 DEF OrderInv
  <2>4. \A p \in DOMAIN mem : \E t \in full : TypeOf(t) = mem[p].type
    BY <2>1 DEF HeadsInv
  <2>5. ASSUME NEW t \in full
        PROVE  /\ heads[t] = Newest({p \in DOMAIN mem : mem[p].type = TypeOf(t)})
               /\ mem[heads[t]].prev = <<"head", t>>
    <3>1. heads[t] \in DOMAIN mem
      BY <2>1 DEF LinksInv
    <3> DEFINE S == {p \in DOMAIN mem : mem[p].type = TypeOf(t)}
    <3>2. S \in SUBSET Nat /\ heads[t] \in S /\ \A y \in S : y <= heads[t]
      BY <2>1, <3>1 DEF HeadsInv, TypeOf
    <3>3. Newest(S) = heads[t]
      BY <3>2, NewestIs
    <3> QED
      BY <2>1, <3>3 DEF HeadsInv
  <2>6. ASSUME NEW p \in DOMAIN mem
        PROVE  /\ mem[p].next = Newest({q \in 1 .. p - 1 : mem[q].type = mem[p].type})
               /\ mem[p].next # 0 => mem[mem[p].next].prev = <<"next", p>>
    <3> DEFINE S == {q \in 1 .. p - 1 : mem[q].type = mem[p].type}
               n == mem[p].next
    <3>1. n \in DOMAIN mem \cup {0} /\ n < p
      BY <2>1 DEF LinksInv
    <3>2. \A q \in S : q \in DOMAIN mem /\ q < p /\ q <= n /\ q # 0
      BY <2>1 DEF OlderInv
    <3>3. CASE n = 0
      <4>1. S = {}
        BY <3>2, <3>3
      <4> QED
        BY <3>3, <4>1 DEF Newest
    <3>4. CASE n # 0
      <4>1. n \in S
        BY <2>1, <3>1, <3>4 DEF OlderInv
      <4>2. S \in SUBSET Nat
        OBVIOUS
      <4>3. Newest(S) = n
        BY <3>2, <4>1, <4>2, NewestIs
      <4> QED
        BY <2>1, <4>3 DEF OlderInv
    <3> QED
      BY <3>3, <3>4
  <2>7. \E t \in full : heads[t] = Len(mem) /\ TypeOf(t) = InternalType
    <3>1. line = <<>>
      BY <2>1 DEF DatapathInv
    <3>2. Len(mem) \in DOMAIN mem /\ mem[Len(mem)].type = InternalType
      <4>1. mem # <<>> /\ mem[Len(mem)].type = InternalType
        BY <2>1, <3>1 DEF DatapathInv
      <4>2. mem \in Seq(ToSet(mem))
        BY DEF ShapeInv
      <4> QED
        BY <2>1, <4>1, <4>2
    <3>3. PICK t \in full : TypeOf(t) = InternalType
      BY <2>4, <3>2
    <3>4. heads[t] \in DOMAIN mem /\ Len(mem) <= heads[t]
      BY <2>1, <3>2, <3>3 DEF HeadsInv, LinksInv
    <3> QED
      BY <2>1, <3>3, <3>4
  <2> QED
    BY <2>2, <2>3, <2>4, <2>5, <2>6, <2>7 DEF Compacted, TypeOf
<1>3. Init => Inv
  BY PortsInit, ListsInit
<1> QED
  BY <1>1, <1>2, <1>3, PTL DEF Spec

-----------------------------------------------------------------------------
(* The rounds of port_options *)

\* Induction up to n, over the set of the numbers a claim holds of.
LEMMA UpTo ==
  ASSUME NEW n \in Nat, NEW P, 0 \in P, \A m \in 0 .. n - 1 : m \in P => m + 1 \in P
  PROVE  0 .. n \subseteq P
<1> DEFINE Bad == {m \in Nat : m \in 0 .. n /\ m \notin P}
<1> SUFFICES ASSUME Bad # {} PROVE FALSE
  OBVIOUS
<1>1. \E m \in Bad : \A l \in Bad : ~ (<<l, m>> \in OpToRel(<, Nat))
  BY WFMin, NatLessThanWellFounded
<1>2. \A l, m \in Nat : l < m => <<l, m>> \in OpToRel(<, Nat)
  BY DEF OpToRel
<1>3. PICK m \in Bad : \A l \in Bad : ~ (l < m)
  BY <1>1, <1>2
<1>4. m \in 1 .. n
  BY <1>3
<1>5. m - 1 \in 0 .. n - 1 /\ m - 1 \in P /\ (m - 1) + 1 = m
  BY <1>3, <1>4
<1> QED
  BY <1>3, <1>5

Start(port) == [state |-> "key_wait", key |-> Null, value |-> Null, port |-> port]

\* port_options takes one token after the other.
LEMMA Rounds ==
  ASSUME NEW port, NEW text, Len(text) \in Nat
  PROVE  \E r : /\ r[0] = Start(port) /\ PortOptions(port, text) = ParsePair(r[Len(text)])
                /\ \A k \in 1 .. Len(text) : r[k] = Take(r[k - 1], text[k])
<1> DEFINE n == Len(text)
           Go(r, m) == [k \in 0 .. m |-> IF k = 0 THEN Start(port) ELSE Take(r[k - 1], text[k])]
           P == {m \in 0 .. n : \E r : r = Go(r, m)}
           round == CHOOSE r : r = Go(r, n)
<1>1. 0 \in P
  <2> DEFINE g == [k \in 0 .. 0 |-> Start(port)]
  <2>1. g = Go(g, 0)
    OBVIOUS
  <2> HIDE DEF g, Go
  <2> QED
    BY <2>1
<1>2. ASSUME NEW m \in 0 .. n - 1, m \in P PROVE m + 1 \in P
  <2>1. PICK r : r = Go(r, m)
    BY <1>2
  <2> DEFINE g == [k \in 0 .. m + 1 |-> IF k <= m THEN r[k] ELSE Take(r[m], text[m + 1])]
  <2>2. \A k \in 0 .. m :
          g[k] = r[k] /\ r[k] = IF k = 0 THEN Start(port) ELSE Take(r[k - 1], text[k])
    <3> DEFINE h == Go(r, m)
    <3>1. \A k \in 0 .. m : h[k] = IF k = 0 THEN Start(port) ELSE Take(r[k - 1], text[k])
      OBVIOUS
    <3>2. r = h
      BY <2>1
    <3>3. \A k \in 0 .. m : g[k] = r[k]
      OBVIOUS
    <3> HIDE DEF h, g
    <3> QED
      BY <3>1, <3>2, <3>3
  <2>3. g[m + 1] = Take(g[m], text[m + 1]) /\ m + 1 # 0 /\ (m + 1) - 1 = m
    <3>1. m \in 0 .. m /\ m + 1 \in 0 .. m + 1 /\ ~ (m + 1 <= m)
      OBVIOUS
    <3>2. g[m + 1] = Take(r[m], text[m + 1])
      BY <3>1
    <3>3. g[m] = r[m]
      BY <2>2, <3>1
    <3> HIDE DEF g
    <3> QED
      BY <3>2, <3>3
  <2>4. \A k \in 0 .. m + 1 : g[k] = IF k = 0 THEN Start(port) ELSE Take(g[k - 1], text[k])
    <3> TAKE k \in 0 .. m + 1
    <3> HIDE DEF g
    <3>1. CASE k <= m
      <4>1. k \in 0 .. m /\ (k = 0 \/ (k - 1 \in 0 .. m /\ k # 0))
        BY <3>1
      <4> QED
        BY <2>2, <4>1
    <3>2. CASE k = m + 1
      BY <2>3, <3>2
    <3> QED
      BY <3>1, <3>2
  <2>5. g = Go(g, m + 1)
    BY <2>4
  <2>6. m + 1 \in 0 .. n
    OBVIOUS
  <2> HIDE DEF g, Go, n
  <2> QED
    BY <2>5, <2>6
<1>3. n \in P
  <2> HIDE DEF P
  <2>1. 0 .. n \subseteq P
    BY <1>1, <1>2, UpTo
  <2> QED
    BY <2>1
<1>4. round = Go(round, n)
  BY <1>3
<1>5. PortOptions(port, text) = ParsePair(round[n])
  BY DEF PortOptions, Start
<1> HIDE DEF round
<1>6. round[0] = Start(port) /\ \A k \in 1 .. n : round[k] = Take(round[k - 1], text[k])
  <2> DEFINE h == Go(round, n)
  <2>1. \A k \in 0 .. n : h[k] = IF k = 0 THEN Start(port) ELSE Take(round[k - 1], text[k])
    OBVIOUS
  <2>2. round = h
    BY <1>4
  <2>3. 0 \in 0 .. n /\ \A k \in 1 .. n : k \in 0 .. n /\ k # 0
    OBVIOUS
  <2> HIDE DEF h, n
  <2> QED
    BY <2>1, <2>2, <2>3
<1> QED
  BY <1>5, <1>6

-----------------------------------------------------------------------------
(* The tokens of a text *)

\* What LinesAssumption says of a text.
IsText(text) ==
  /\ text \in Seq(ToSet(text)) /\ Null \notin ToSet(text)
  /\ \A k \in 1 .. Len(text) - 1 : {text[k], text[k + 1]} \cap Punctuation # {}

LEMMA TextIs ==
  ASSUME NEW text, IsText(text)
  PROVE  /\ Len(text) \in Nat /\ DOMAIN text = 1 .. Len(text)
         /\ \A k \in 1 .. Len(text) : text[k] # Null
         /\ \A k \in 1 .. Len(text) - 1 : ~ (IsWord(text, k) /\ IsWord(text, k + 1))
<1>1. Len(text) \in Nat /\ DOMAIN text = 1 .. Len(text)
  BY DEF IsText
<1>2. \A k \in 1 .. Len(text) : text[k] # Null
  BY <1>1 DEF IsText, ToSet
<1> QED
  BY <1>1, <1>2 DEF IsText, IsWord

LEMMA LastIs ==
  ASSUME NEW S, S \subseteq Nat, NEW k \in S, \A l \in S : l <= k
  PROVE  LastIn(S) = k
<1>1. \A m \in S : (\A l \in S : l <= m) => m = k
  OBVIOUS
<1> QED
  BY <1>1 DEF LastIn

\* The last token before a place that is not a blank.
LEMMA BeforeIs ==
  ASSUME NEW text, NEW k \in Nat \ {0}
  PROVE  /\ Before(text, k) \in 0 .. k - 1
         /\ Before(text, k) = 0 \/ text[Before(text, k)] # Space
         /\ \A l \in 1 .. k - 1 : l <= Before(text, k) \/ text[l] = Space
<1> DEFINE S == {l \in 1 .. k - 1 : text[l] # Space}
<1>1. Before(text, k) = LastIn({0} \cup S) /\ {0} \cup S \subseteq Nat
  BY DEF Before
<1>2. CASE S = {}
  <2>1. LastIn({0} \cup S) = 0
    BY <1>2, LastIs
  <2> QED
    BY <1>1, <1>2, <2>1
<1>3. CASE S # {}
  <2>1. PICK x \in S : \A y \in S : y <= x
    <3> HIDE DEF S
    <3>1. S \subseteq 1 .. k - 1 /\ k - 1 \in Nat
      BY DEF S
    <3> QED
      BY <1>3, <3>1, Highest
  <2>2. x \in 1 .. k - 1 /\ text[x] # Space /\ 0 <= x
    OBVIOUS
  <2>3. LastIn({0} \cup S) = x
    <3> HIDE DEF S
    <3>1. x \in {0} \cup S /\ \A y \in {0} \cup S : y <= x
      BY <2>1, <2>2
    <3> QED
      BY <1>1, <3>1, LastIs
  <2>4. \A l \in 1 .. k - 1 : l <= x \/ text[l] = Space
    BY <2>1
  <2> HIDE DEF S
  <2> QED
    BY <1>1, <2>2, <2>3, <2>4
<1> QED
  BY <1>2, <1>3

\* It changes with every token but blanks.
LEMMA BeforeNext ==
  ASSUME NEW text, NEW k \in Nat
  PROVE  /\ Before(text, 1) = 0
         /\ k # 0 /\ text[k] # Space => Before(text, k + 1) = k
         /\ k # 0 /\ text[k] = Space => Before(text, k + 1) = Before(text, k)
<1>1. Before(text, 1) = 0
  BY BeforeIs
<1>2. ASSUME k # 0 /\ text[k] # Space PROVE Before(text, k + 1) = k
  <2>1. Before(text, k + 1) \in 0 .. k /\ k \in 1 .. (k + 1) - 1
    BY <1>2, BeforeIs
  <2> QED
    BY <1>2, <2>1, BeforeIs
<1>3. ASSUME k # 0 /\ text[k] = Space PROVE Before(text, k + 1) = Before(text, k)
  <2> DEFINE a == Before(text, k)
             b == Before(text, k + 1)
  <2>1. a \in 0 .. k - 1 /\ (a = 0 \/ text[a] # Space)
        /\ \A l \in 1 .. k - 1 : l <= a \/ text[l] = Space
    BY <1>3, BeforeIs
  <2>2. b \in 0 .. k /\ (b = 0 \/ text[b] # Space)
        /\ \A l \in 1 .. k : l <= b \/ text[l] = Space
    BY <1>3, BeforeIs
  <2> HIDE DEF a, b
  <2>3. b # k
    BY <1>3, <2>2
  <2>4. a <= b
    BY <2>1, <2>2
  <2>5. b <= a
    BY <2>1, <2>2, <2>3
  <2> QED
    BY <2>1, <2>2, <2>4, <2>5 DEF a, b
<1> QED
  BY <1>1, <1>2, <1>3

\* The keys of the first k tokens, and those a comma has ended there.
KeysTo(text, k) == {l \in 1 .. k : IsKey(text, l)}
Ended(text, k)  == {l \in 1 .. k : IsKey(text, l) /\ \E m \in l + 1 .. k : text[m] = Comma}

LEMMA KeysNext ==
  ASSUME NEW text, NEW k \in Nat
  PROVE  /\ KeysTo(text, 0) = {} /\ Ended(text, 0) = {}
         /\ KeysTo(text, k + 1) = KeysTo(text, k) \cup (IF IsKey(text, k + 1) THEN {k + 1} ELSE {})
         /\ Ended(text, k + 1) = IF text[k + 1] = Comma THEN KeysTo(text, k) ELSE Ended(text, k)
<1>1. KeysTo(text, 0) = {} /\ Ended(text, 0) = {}
  BY DEF KeysTo, Ended
<1>2. KeysTo(text, k + 1) = KeysTo(text, k) \cup (IF IsKey(text, k + 1) THEN {k + 1} ELSE {})
  <2>1. \A l : l \in 1 .. k + 1 <=> l \in 1 .. k \/ l = k + 1
    OBVIOUS
  <2> QED
    BY <2>1 DEF KeysTo
<1>3. CASE text[k + 1] = Comma
  <2>1. ~ IsKey(text, k + 1)
    BY <1>3 DEF IsKey, IsWord, Punctuation
  <2>2. \A l \in 1 .. k : k + 1 \in l + 1 .. k + 1
    OBVIOUS
  <2>3. \A l \in 1 .. k + 1 : l \in 1 .. k \/ l = k + 1
    OBVIOUS
  <2> QED
    BY <1>3, <2>1, <2>2, <2>3 DEF KeysTo, Ended
<1>4. CASE text[k + 1] # Comma
  <2>1. \A l \in 1 .. k + 1 : \A m \in l + 1 .. k + 1 :
          text[m] = Comma => l \in 1 .. k /\ m \in l + 1 .. k
    BY <1>4
  <2>2. \A l \in 1 .. k : l \in 1 .. k + 1 /\ \A m \in l + 1 .. k : m \in l + 1 .. k + 1
    OBVIOUS
  <2>3. Ended(text, k + 1) \subseteq Ended(text, k)
    BY <2>1 DEF Ended
  <2>4. Ended(text, k) \subseteq Ended(text, k + 1)
    BY <2>2 DEF Ended
  <2> QED
    BY <1>4, <2>3, <2>4
<1> QED
  BY <1>1, <1>2, <1>3, <1>4

\* Where port_options is in the pair of the key at c after k tokens.
Pending(text, k, c, s) ==
  /\ c \in 1 .. k /\ IsKey(text, c) /\ s.key = text[c]
  /\ \/ s.state = "key" /\ c = k /\ s.value = Null
     \/ /\ s.state = "value_wait" /\ s.value = Null
        /\ text[c + 1] = Equal /\ Before(text, k + 1) = c + 1
     \/ /\ s.state = "value" /\ s.value = text[k] /\ IsValue(text, k)
        /\ text[c + 1] = Equal /\ Before(text, k) = c + 1

\* At the end of the pair the value has been found, if there is one.
LEMMA ValueFound ==
  ASSUME NEW text, NEW n \in Nat, DOMAIN text = 1 .. n,
         NEW k \in Nat \ {0}, k <= n, k = n \/ text[k + 1] = Comma,
         NEW c \in Nat, NEW s, Pending(text, k, c, s)
  PROVE  ValueOf(text, c) = s.value
<1> DEFINE V == {l \in DOMAIN text : IsValue(text, l) /\ Before(text, l) = c + 1}
<1>1. c # 0 /\ c <= k
  BY DEF Pending
<1>2. ValueOf(text, c) = IF V = {} THEN Null ELSE text[CHOOSE l \in V : TRUE]
  BY DEF ValueOf
<1>3. \A l \in V : /\ l \in 1 .. n /\ c + 1 \in 0 .. l - 1 /\ text[c + 1] = Equal
                   /\ text[l] \notin Punctuation
                   /\ \A m \in 1 .. l - 1 : m <= c + 1 \/ text[m] = Space
  <2> TAKE l \in V
  <2>1. l \in 1 .. n /\ IsValue(text, l) /\ Before(text, l) = c + 1 /\ l \in Nat \ {0}
    BY <1>1
  <2>2. text[l] \notin Punctuation /\ text[c + 1] = Equal
    BY <2>1 DEF IsValue, IsWord
  <2> HIDE DEF V
  <2>3. /\ Before(text, l) \in 0 .. l - 1
        /\ \A m \in 1 .. l - 1 : m <= Before(text, l) \/ text[m] = Space
    BY <2>1, BeforeIs
  <2> QED
    BY <2>1, <2>2, <2>3
<1>9. \A l : l \in V <=> l \in DOMAIN text /\ IsValue(text, l) /\ Before(text, l) = c + 1
  OBVIOUS
<1> HIDE DEF V
<1>4. \A l \in V : l <= k
  <2> SUFFICES ASSUME NEW l \in V, k < l PROVE FALSE
    BY <1>1, <1>3
  <2>1. text[k + 1] = Comma /\ k + 1 \in 1 .. l
    BY <1>1, <1>3
  <2>2. k + 1 # l
    BY <1>3, <2>1 DEF Punctuation
  <2>3. k + 1 \in 1 .. l - 1
    <3>1. l \in Nat
      BY <1>3
    <3> QED
      BY <2>1, <2>2, <3>1
  <2>4. k + 1 <= c + 1
    BY <1>3, <2>1, <2>3 DEF Comma, Space
  <2>5. k + 1 = c + 1
    BY <1>1, <2>4
  <2> QED
    BY <1>3, <2>1, <2>5 DEF Comma, Equal
<1>5. CASE s.state = "key"
  <2>1. c = k /\ s.value = Null
    BY <1>5 DEF Pending
  <2>2. V = {}
    BY <1>1, <1>3, <1>4, <2>1
  <2> QED
    BY <1>2, <2>1, <2>2
<1>6. CASE s.state = "value_wait"
  <2>1. s.value = Null /\ Before(text, k + 1) = c + 1
    BY <1>6 DEF Pending
  <2>2. \A l \in 1 .. k : l <= c + 1 \/ text[l] = Space
    BY <1>1, <2>1, BeforeIs
  <2>3. \A l \in V : l \in 1 .. k /\ ~ (l <= c + 1)
    BY <1>1, <1>3, <1>4
  <2>4. V = {}
    BY <1>3, <2>2, <2>3 DEF Punctuation
  <2> QED
    BY <1>2, <2>1, <2>4
<1>7. CASE s.state = "value"
  <2>1. s.value = text[k] /\ IsValue(text, k) /\ Before(text, k) = c + 1
    BY <1>7 DEF Pending
  <2>2. k \in V
    BY <1>1, <1>9, <2>1
  <2>3. \A l \in 1 .. k - 1 : l <= c + 1 \/ text[l] = Space
    BY <1>1, <2>1, BeforeIs
  <2>4. \A l \in V : l \in 1 .. k /\ ~ (l <= c + 1)
    BY <1>1, <1>3, <1>4
  <2>5. \A l \in V : l = k
    BY <1>3, <2>3, <2>4 DEF Punctuation
  <2>6. V = {k}
    BY <2>2, <2>5
  <2> QED
    BY <1>2, <2>1, <2>6
<1> QED
  BY <1>5, <1>6, <1>7 DEF Pending

-----------------------------------------------------------------------------
(* The pairs of a text *)

\* What the keys in K say of each member.
SaidBy(text, K, junk) ==
  LET named == {l \in K : text[l] \notin Keys \ {"name"}}
      opt   == {l \in K : text[l] \in {"addr", "id"}}
      flood == {l \in K : text[l] \in {"noflood"}}
      value(T) == ValueOf(text, LastIn(T))
  IN  [name    |-> IF named = {} THEN junk
                   ELSE IF text[LastIn(named)] = "name" THEN value(named)
                   ELSE text[LastIn(named)],
       opt     |-> IF opt = {} THEN junk
                   ELSE IF text[LastIn(opt)] = "id" THEN Number(value(opt)) ELSE value(opt),
       noflood |-> IF flood = {} THEN junk
                   ELSE IF value(flood) = Null THEN "#1" ELSE Number(value(flood))]

\* The keys in L are those in K and c, which comes after them.
After(K, c, L) == K \subseteq Nat /\ (\A l \in K : l < c) /\ L = K \cup {c}

\* What the last key at c adds to what is said.
Adds(text, c, said, more) ==
  LET v == ValueOf(text, c)
  IN  /\ more.name = IF text[c] \in Keys \ {"name"} THEN said.name
                     ELSE IF text[c] = "name" THEN v ELSE text[c]
      /\ more.opt = IF text[c] \notin {"addr", "id"} THEN said.opt
                    ELSE IF text[c] = "id" THEN Number(v) ELSE v
      /\ more.noflood = IF text[c] # "noflood" THEN said.noflood
                        ELSE IF v = Null THEN "#1" ELSE Number(v)

LEMMA SaidMore ==
  ASSUME NEW text, NEW K, NEW c \in Nat, NEW L, After(K, c, L), NEW junk
  PROVE  Adds(text, c, SaidBy(text, K, junk), SaidBy(text, L, junk))
<1> DEFINE N(w) == {l \in w : text[l] \notin Keys \ {"name"}}
           O(w) == {l \in w : text[l] \in {"addr", "id"}}
           F(w) == {l \in w : text[l] \in {"noflood"}}
           v == ValueOf(text, c)
<1>8. L \subseteq Nat /\ c \in L /\ \A l \in L : l <= c
  <2>1. \A l \in K : l \in Nat /\ l <= c
    BY DEF After
  <2> QED
    BY <2>1 DEF After
<1>1. /\ text[c] \notin Keys \ {"name"} => LastIn(N(L)) = c /\ N(L) # {}
      /\ ~ (text[c] \notin Keys \ {"name"}) => N(L) = N(K)
  <2>1. text[c] \notin Keys \ {"name"} => N(L) \subseteq Nat /\ c \in N(L) /\ \A l \in N(L) : l <= c
    <3>1. N(L) \subseteq L
      OBVIOUS
    <3>2. c \in L => (c \in N(L) <=> text[c] \notin Keys \ {"name"})
      OBVIOUS
    <3> HIDE DEF N
    <3> QED
      BY <1>8, <3>1, <3>2
  <2>2. ~ (text[c] \notin Keys \ {"name"}) => N(L) = N(K)
    BY DEF After
  <2> HIDE DEF N
  <2>3. text[c] \notin Keys \ {"name"} => LastIn(N(L)) = c
    BY <2>1, LastIs
  <2> QED
    BY <2>1, <2>2, <2>3
<1>2. /\ text[c] \in {"addr", "id"} => LastIn(O(L)) = c /\ O(L) # {}
      /\ ~ (text[c] \in {"addr", "id"}) => O(L) = O(K)
  <2>1. text[c] \in {"addr", "id"} => O(L) \subseteq Nat /\ c \in O(L) /\ \A l \in O(L) : l <= c
    <3>1. O(L) \subseteq L
      OBVIOUS
    <3>2. c \in L => (c \in O(L) <=> text[c] \in {"addr", "id"})
      OBVIOUS
    <3> HIDE DEF O
    <3> QED
      BY <1>8, <3>1, <3>2
  <2>2. ~ (text[c] \in {"addr", "id"}) => O(L) = O(K)
    BY DEF After
  <2> HIDE DEF O
  <2>3. text[c] \in {"addr", "id"} => LastIn(O(L)) = c
    BY <2>1, LastIs
  <2> QED
    BY <2>1, <2>2, <2>3
<1>3. /\ text[c] \in {"noflood"} => LastIn(F(L)) = c /\ F(L) # {}
      /\ ~ (text[c] \in {"noflood"}) => F(L) = F(K)
  <2>1. text[c] \in {"noflood"} => F(L) \subseteq Nat /\ c \in F(L) /\ \A l \in F(L) : l <= c
    <3>1. F(L) \subseteq L
      OBVIOUS
    <3>2. c \in L => (c \in F(L) <=> text[c] \in {"noflood"})
      OBVIOUS
    <3> HIDE DEF F
    <3> QED
      BY <1>8, <3>1, <3>2
  <2>2. ~ (text[c] \in {"noflood"}) => F(L) = F(K)
    BY DEF After
  <2> HIDE DEF F
  <2>3. text[c] \in {"noflood"} => LastIn(F(L)) = c
    BY <2>1, LastIs
  <2> QED
    BY <2>1, <2>2, <2>3
<1> DEFINE name(S)  == IF S = {} THEN junk
                       ELSE IF text[LastIn(S)] = "name" THEN ValueOf(text, LastIn(S))
                       ELSE text[LastIn(S)]
           opt(S)   == IF S = {} THEN junk
                       ELSE IF text[LastIn(S)] = "id" THEN Number(ValueOf(text, LastIn(S)))
                       ELSE ValueOf(text, LastIn(S))
           flood(S) == IF S = {} THEN junk
                       ELSE IF ValueOf(text, LastIn(S)) = Null THEN "#1"
                       ELSE Number(ValueOf(text, LastIn(S)))
<1>4. \A w : SaidBy(text, w, junk)
               = [name |-> name(N(w)), opt |-> opt(O(w)), noflood |-> flood(F(w))]
  BY DEF SaidBy
<1>5. name(N(L)) = IF text[c] \in Keys \ {"name"} THEN name(N(K))
                   ELSE IF text[c] = "name" THEN v ELSE text[c]
  <2> HIDE DEF N
  <2> QED
    BY <1>1
<1>6. opt(O(L)) = IF text[c] \notin {"addr", "id"} THEN opt(O(K))
                  ELSE IF text[c] = "id" THEN Number(v) ELSE v
  <2> HIDE DEF O
  <2> QED
    BY <1>2
<1>7. flood(F(L)) = IF text[c] # "noflood" THEN flood(F(K))
                    ELSE IF v = Null THEN "#1" ELSE Number(v)
  <2> HIDE DEF F
  <2> QED
    BY <1>3
<1> HIDE DEF name, opt, flood, N, O, F
<1> QED
  BY <1>4, <1>5, <1>6, <1>7 DEF Adds

\* Whether a key has the value it needs.
HasValue(text, l) == text[l] \in Keys \ {"noflood"} => ValueOf(text, l) # Null

\* The state of the loop, as far as it is used.
Shaped(s) == /\ DOMAIN s = {"state", "key", "value", "port"}
             /\ {"name", "opt", "noflood"} \subseteq DOMAIN s.port

Holds(text, K, junk, port) ==
  /\ port.name    = SaidBy(text, K, junk).name
  /\ port.opt     = SaidBy(text, K, junk).opt
  /\ port.noflood = SaidBy(text, K, junk).noflood

\* parse_pair, field by field.
LEMMA PairParsed ==
  ASSUME NEW s, Shaped(s), s.key # Null
  PROVE  LET t == ParsePair(s)
         IN  /\ Shaped(t) /\ t.key = s.key /\ t.value = s.value
             /\ s.key \in Keys \ {"noflood"} /\ s.value = Null => t.state = "error"
             /\ ~ (s.key \in Keys \ {"noflood"} /\ s.value = Null) =>
                  /\ t.state = s.state
                  /\ t.port.name = IF s.key \in Keys \ {"name"} THEN s.port.name
                                   ELSE IF s.key = "name" THEN s.value ELSE s.key
                  /\ t.port.opt = IF s.key \notin {"addr", "id"} THEN s.port.opt
                                  ELSE IF s.key = "id" THEN Number(s.value) ELSE s.value
                  /\ t.port.noflood = IF s.key # "noflood" THEN s.port.noflood
                                      ELSE IF s.value = Null THEN "#1" ELSE Number(s.value)
<1> DEFINE t == ParsePair(s)
<1>1. CASE s.key \in Keys \ {"noflood"} /\ s.value = Null
  <2>1. t = [s EXCEPT !.state = "error"]
    BY <1>1 DEF ParsePair
  <2> HIDE DEF t
  <2> QED
    BY <1>1, <2>1 DEF Shaped, t
<1>2. CASE ~ (s.key \in Keys \ {"noflood"} /\ s.value = Null)
  <2> DEFINE flood == IF s.value = Null THEN "#1" ELSE Number(s.value)
  <2>1. CASE s.key = "name"
    <3>1. t = [s EXCEPT !.port.name = s.value]
      BY <1>2, <2>1 DEF ParsePair, Keys
    <3> HIDE DEF t
    <3> QED
      BY <1>2, <2>1, <3>1 DEF Shaped, Keys, t
  <2>2. CASE s.key = "addr"
    <3>1. t = [s EXCEPT !.port.opt = s.value]
      BY <1>2, <2>2 DEF ParsePair, Keys
    <3> HIDE DEF t
    <3> QED
      BY <1>2, <2>2, <3>1 DEF Shaped, Keys, t
  <2>3. CASE s.key = "id"
    <3>1. t = [s EXCEPT !.port.opt = Number(s.value)]
      BY <1>2, <2>3 DEF ParsePair, Keys
    <3> HIDE DEF t
    <3> QED
      BY <1>2, <2>3, <3>1 DEF Shaped, Keys, t
  <2>4. CASE s.key = "noflood"
    <3>1. t = [s EXCEPT !.port.noflood = flood]
      BY <1>2, <2>4 DEF ParsePair, Keys
    <3> HIDE DEF t
    <3> QED
      BY <1>2, <2>4, <3>1 DEF Shaped, Keys, t
  <2>5. CASE s.key \notin Keys
    <3>1. t = [s EXCEPT !.port.name = s.key]
      BY <1>2, <2>5 DEF ParsePair, Keys
    <3> HIDE DEF t
    <3> QED
      BY <1>2, <2>5, <3>1 DEF Shaped, Keys, t
  <2> QED
    BY <2>1, <2>2, <2>3, <2>4, <2>5 DEF Keys
<1> QED
  BY <1>1, <1>2

\* The end of a pair, at a comma or at the end of the text: it is refused, or
\* the port holds what the keys so far say.
Parsed(text, c, s, L, junk, t) ==
  /\ Shaped(t)
  /\ ~HasValue(text, c) => t.state = "error"
  /\ HasValue(text, c) => t.state = s.state /\ Holds(text, L, junk, t.port)

LEMMA PairEnds ==
  ASSUME NEW text, IsText(text),
         NEW k \in Nat \ {0}, k <= Len(text), k = Len(text) \/ text[k + 1] = Comma,
         NEW c \in Nat, NEW s, Pending(text, k, c, s), Shaped(s),
         NEW K, NEW L, After(K, c, L),
         NEW junk, Holds(text, K, junk, s.port)
  PROVE  Parsed(text, c, s, L, junk, ParsePair(s))
<1> DEFINE n == Len(text)
<1>1. n \in Nat /\ DOMAIN text = 1 .. n /\ \A m \in 1 .. n : text[m] # Null
  BY TextIs
<1>2. k <= n /\ (k = n \/ text[k + 1] = Comma)
  OBVIOUS
<1> HIDE DEF n
<1>3. c \in 1 .. n /\ s.key = text[c] /\ s.key # Null
  BY <1>1, <1>2 DEF Pending
<1>4. ValueOf(text, c) = s.value
  BY <1>1, <1>2, ValueFound
<1>5. HasValue(text, c) <=> ~ (s.key \in Keys \ {"noflood"} /\ s.value = Null)
  BY <1>3, <1>4 DEF HasValue
<1>6. Shaped(ParsePair(s)) /\ (~HasValue(text, c) => ParsePair(s).state = "error")
  BY <1>3, <1>5, PairParsed
<1>7. ASSUME HasValue(text, c)
      PROVE  /\ ParsePair(s).state = s.state
             /\ Holds(text, L, junk, ParsePair(s).port)
  <2> DEFINE t    == ParsePair(s)
             v    == ValueOf(text, c)
             said == SaidBy(text, K, junk)
             more == SaidBy(text, L, junk)
  <2>1. /\ t.state = s.state
        /\ t.port.name = IF text[c] \in Keys \ {"name"} THEN s.port.name
                         ELSE IF text[c] = "name" THEN v ELSE text[c]
        /\ t.port.opt = IF text[c] \notin {"addr", "id"} THEN s.port.opt
                        ELSE IF text[c] = "id" THEN Number(v) ELSE v
        /\ t.port.noflood = IF text[c] # "noflood" THEN s.port.noflood
                            ELSE IF v = Null THEN "#1" ELSE Number(v)
    BY <1>3, <1>4, <1>5, <1>7, PairParsed
  <2>2. Adds(text, c, said, more)
    BY SaidMore
  <2>3. /\ s.port.name = said.name /\ s.port.opt = said.opt
        /\ s.port.noflood = said.noflood
    BY DEF Holds
  <2> HIDE DEF t, v, said, more
  <2>4. t.port.name = more.name
    BY <2>1, <2>2, <2>3 DEF Adds, v
  <2>5. t.port.opt = more.opt
    BY <2>1, <2>2, <2>3 DEF Adds, v
  <2>6. t.port.noflood = more.noflood
    BY <2>1, <2>2, <2>3 DEF Adds, v
  <2> QED
    BY <2>1, <2>4, <2>5, <2>6 DEF Holds, t, more
<1> QED
  BY <1>6, <1>7 DEF Parsed

\* What is asked of a token by those before it.
Fits(text, k) ==
  /\ text[k] = Space => Before(text, k) = 0 \/ text[Before(text, k)] \in {Comma, Equal}
  /\ text[k] = Equal => IsKey(text, k - 1)

\* The first k tokens are part of a list of pairs.
FitsTo(text, k) ==
  (\A l \in 1 .. k : Fits(text, l)) /\ \A l \in Ended(text, k) : HasValue(text, l)

LEMMA FitsNext ==
  ASSUME NEW text, NEW k \in Nat
  PROVE  FitsTo(text, k + 1) <=>
           /\ FitsTo(text, k) /\ Fits(text, k + 1)
           /\ text[k + 1] = Comma => \A l \in KeysTo(text, k) : HasValue(text, l)
<1>1. \A l : l \in 1 .. k + 1 <=> l \in 1 .. k \/ l = k + 1
  OBVIOUS
<1>2. Ended(text, k) \subseteq KeysTo(text, k)
  BY DEF Ended, KeysTo
<1>3. Ended(text, k + 1) = IF text[k + 1] = Comma THEN KeysTo(text, k) ELSE Ended(text, k)
  BY KeysNext
<1> QED
  BY <1>1, <1>2, <1>3 DEF FitsTo

\* port_options after k tokens: it has refused what is not part of a list of
\* pairs, or its port holds what the pairs that have ended say.
Waiting(text, k, s) ==
  /\ s.state = "key_wait" /\ s.key = Null /\ s.value = Null
  /\ Before(text, k + 1) = 0 \/ text[Before(text, k + 1)] = Comma
  /\ KeysTo(text, k) = Ended(text, k)
InPair(text, k, c, s) ==
  /\ Pending(text, k, c, s)
  /\ KeysTo(text, k) = Ended(text, k) \cup {c} /\ \A l \in Ended(text, k) : l < c
Read(text, k, s, junk) ==
  /\ Shaped(s)
  /\ s.state = "error" => ~FitsTo(text, k)
  /\ s.state # "error" => /\ FitsTo(text, k) /\ Holds(text, Ended(text, k), junk, s.port)
                          /\ Waiting(text, k, s) \/ \E c \in 1 .. k : InPair(text, k, c, s)

LEMMA ReadWaiting ==
  ASSUME NEW text, IsText(text), NEW k \in 0 .. Len(text) - 1, NEW s, NEW junk,
         Read(text, k, s, junk), Waiting(text, k, s)
  PROVE  Read(text, k + 1, Take(s, text[k + 1]), junk)
<1> DEFINE t == Take(s, text[k + 1])
<1>1. k \in Nat /\ k + 1 \in DOMAIN text /\ text[k + 1] # Null /\ (k + 1) - 1 = k
  BY TextIs
<1>2. /\ Shaped(s) /\ s.state = "key_wait" /\ s.key = Null /\ s.value = Null
      /\ FitsTo(text, k) /\ Holds(text, Ended(text, k), junk, s.port)
      /\ KeysTo(text, k) = Ended(text, k) /\ ~ IsKey(text, k)
  <2>1. s.state = "key_wait" /\ s.state # "error"
    BY DEF Waiting
  <2>2. ~ IsKey(text, k)
    <3> SUFFICES ASSUME IsKey(text, k) PROVE FALSE
      OBVIOUS
    <3>1. k # 0 /\ text[k] \notin Punctuation
      <4>1. DOMAIN text = 1 .. Len(text)
        BY TextIs
      <4> QED
        BY <4>1 DEF IsKey, IsWord
    <3>2. Before(text, k + 1) = k
      BY <1>1, <3>1, BeforeNext DEF Punctuation
    <3> QED
      BY <3>1, <3>2 DEF Waiting, Punctuation
  <2> QED
    BY <2>1, <2>2 DEF Read, Waiting
<1>3. /\ KeysTo(text, k + 1) = KeysTo(text, k) \cup (IF IsKey(text, k + 1) THEN {k + 1} ELSE {})
      /\ Ended(text, k + 1) = IF text[k + 1] = Comma THEN KeysTo(text, k) ELSE Ended(text, k)
  BY <1>1, KeysNext
<1>4. /\ text[k + 1] # Space => Before(text, k + 2) = k + 1
      /\ text[k + 1] = Space => Before(text, k + 2) = Before(text, k + 1)
  <2>1. k + 1 \in Nat /\ k + 1 # 0 /\ (k + 1) + 1 = k + 2
    BY <1>1
  <2> QED
    BY <2>1, BeforeNext
<1>5. CASE text[k + 1] \in {Comma, Space}
  <2>1. t = s
    BY <1>2, <1>5 DEF Take, Punctuation, Comma, Equal, Space
  <2>2. ~ IsKey(text, k + 1)
    BY <1>5 DEF IsKey, IsWord, Punctuation
  <2>3. Fits(text, k + 1)
    BY <1>5 DEF Fits, Waiting, Comma, Equal, Space
  <2>4. FitsTo(text, k + 1)
    BY <1>1, <1>2, <2>3, FitsNext DEF FitsTo
  <2>5. Ended(text, k + 1) = Ended(text, k) /\ KeysTo(text, k + 1) = KeysTo(text, k)
    BY <1>2, <1>3, <2>2
  <2>6. Before(text, k + 2) = 0 \/ text[Before(text, k + 2)] = Comma
    BY <1>4, <1>5 DEF Waiting, Comma, Space
  <2>7. (k + 1) + 1 = k + 2
    BY <1>1
  <2>8. Waiting(text, k + 1, s)
    BY <1>2, <2>5, <2>6, <2>7 DEF Waiting
  <2> QED
    BY <1>2, <2>1, <2>4, <2>5, <2>8 DEF Read
<1>6. CASE text[k + 1] = Equal
  <2>1. t = [s EXCEPT !.state = "error"]
    BY <1>2, <1>6 DEF Take, Punctuation, Comma, Equal, Space
  <2>2. ~ Fits(text, k + 1)
    BY <1>1, <1>2, <1>6 DEF Fits
  <2>3. ~ FitsTo(text, k + 1)
    BY <1>1, <2>2, FitsNext
  <2>4. Shaped(t) /\ t.state = "error"
    BY <1>2, <2>1 DEF Shaped
  <2> HIDE DEF t
  <2> QED
    BY <2>3, <2>4 DEF Read, t
<1>7. CASE text[k + 1] \notin Punctuation
  <2>1. t = [s EXCEPT !.state = "key", !.key = text[k + 1]]
    BY <1>2, <1>7 DEF Take, Punctuation, Comma, Equal, Space
  <2>2. /\ Shaped(t) /\ t.state = "key" /\ t.key = text[k + 1] /\ t.value = Null
        /\ t.port = s.port
    BY <1>2, <2>1 DEF Shaped
  <2> HIDE DEF t
  <2>3. IsKey(text, k + 1)
    BY <1>1, <1>7 DEF IsKey, IsWord, IsValue, Waiting, Comma, Equal
  <2>4. FitsTo(text, k + 1)
    <3>1. Fits(text, k + 1) /\ text[k + 1] # Comma
      BY <1>7 DEF Fits, Punctuation
    <3> QED
      BY <1>1, <1>2, <3>1, FitsNext
  <2>5. Pending(text, k + 1, k + 1, t)
    BY <1>1, <2>2, <2>3 DEF Pending
  <2>6. Ended(text, k + 1) = Ended(text, k) /\ \A l \in Ended(text, k) : l < k + 1
    <3>1. text[k + 1] # Comma
      BY <1>7 DEF Punctuation
    <3>2. \A l \in 1 .. k : l < k + 1
      BY <1>1
    <3> QED
      BY <1>3, <3>1, <3>2 DEF Ended
  <2>7. InPair(text, k + 1, k + 1, t) /\ k + 1 \in 1 .. k + 1
    BY <1>1, <1>2, <1>3, <2>3, <2>5, <2>6 DEF InPair
  <2> QED
    BY <1>2, <2>2, <2>4, <2>6, <2>7 DEF Read, t
<1> QED
  BY <1>5, <1>6, <1>7 DEF Punctuation

LEMMA ReadInPair ==
  ASSUME NEW text, IsText(text), NEW k \in 0 .. Len(text) - 1, NEW s, NEW junk,
         Read(text, k, s, junk), s.state # "error", NEW c \in 1 .. k, InPair(text, k, c, s)
  PROVE  Read(text, k + 1, Take(s, text[k + 1]), junk)
<1> DEFINE t == Take(s, text[k + 1])
           n == Len(text)
<1>1. /\ n \in Nat /\ DOMAIN text = 1 .. n /\ k \in Nat \ {0} /\ k <= n /\ k + 1 \in 1 .. n
      /\ (k + 1) - 1 = k /\ c \in Nat /\ c <= k /\ \A m \in 1 .. n : text[m] # Null
  BY TextIs
<1> HIDE DEF n
<1>2. /\ Shaped(s) /\ s.state \in {"key", "value_wait", "value"} /\ Pending(text, k, c, s)
      /\ FitsTo(text, k) /\ Holds(text, Ended(text, k), junk, s.port)
      /\ KeysTo(text, k) = Ended(text, k) \cup {c} /\ \A l \in Ended(text, k) : l < c
  BY DEF Read, InPair, Pending
<1>3. /\ KeysTo(text, k + 1) = KeysTo(text, k) \cup (IF IsKey(text, k + 1) THEN {k + 1} ELSE {})
      /\ Ended(text, k + 1) = IF text[k + 1] = Comma THEN KeysTo(text, k) ELSE Ended(text, k)
  BY <1>1, KeysNext
<1>4. /\ text[k + 1] # Space => Before(text, k + 2) = k + 1
      /\ text[k + 1] = Space => Before(text, k + 2) = Before(text, k + 1)
      /\ (k + 1) + 1 = k + 2
  <2>1. k + 1 \in Nat /\ k + 1 # 0 /\ (k + 1) + 1 = k + 2
    BY <1>1
  <2> QED
    BY <2>1, BeforeNext
<1>5. s.state \in {"key", "value"} => IsWord(text, k) /\ Before(text, k + 1) = k
  <2>1. s.state \in {"key", "value"} => IsWord(text, k)
    BY <1>2 DEF Pending, IsKey, IsValue
  <2>2. IsWord(text, k) => Before(text, k + 1) = k
    BY <1>1, BeforeNext DEF IsWord, Punctuation
  <2> QED
    BY <2>1, <2>2
<1>6. ASSUME Shaped(t), t.state = "error", ~ FitsTo(text, k + 1)
      PROVE  Read(text, k + 1, t, junk)
  <2> HIDE DEF t
  <2> QED
    BY <1>6 DEF Read
<1>7. CASE text[k + 1] = Comma
  <2> DEFINE u == ParsePair(s)
  <2>1. /\ Shaped(u) /\ (~HasValue(text, c) => u.state = "error")
        /\ HasValue(text, c) => u.state = s.state /\ Holds(text, KeysTo(text, k), junk, u.port)
    <3>1. After(Ended(text, k), c, KeysTo(text, k))
      BY <1>2 DEF After, Ended
    <3> QED
      <4> DEFINE K == Ended(text, k)
                 L == KeysTo(text, k)
      <4>1. Pending(text, k, c, s) /\ Shaped(s) /\ Holds(text, K, junk, s.port)
        BY <1>2
      <4>2. k \in Nat \ {0} /\ k <= Len(text) /\ c \in Nat
        BY <1>1 DEF n
      <4>3. After(K, c, L)
        BY <3>1
      <4> HIDE DEF K, L
      <4>4. Parsed(text, c, s, L, junk, ParsePair(s))
        BY <1>7, <4>1, <4>2, <4>3, PairEnds
      <4> QED
        BY <4>4 DEF L, Parsed
  <2>2. t = IF u.state = "error" THEN u
            ELSE [u EXCEPT !.state = "key_wait", !.key = Null, !.value = Null]
    BY <1>2, <1>7 DEF Take, PairDone, Punctuation, Comma, Equal, Space
  <2>3. Fits(text, k + 1)
    BY <1>7 DEF Fits, Comma, Equal, Space
  <2>4. FitsTo(text, k + 1) <=> HasValue(text, c)
    BY <1>1, <1>2, <1>7, <2>3, FitsNext DEF FitsTo
  <2> HIDE DEF u, t
  <2>5. CASE ~ HasValue(text, c)
    BY <1>6, <2>1, <2>2, <2>4, <2>5 DEF t
  <2>6. CASE HasValue(text, c)
    <3>1. u.state # "error"
      BY <1>2, <2>1, <2>6
    <3>2. /\ Shaped(t) /\ t.state = "key_wait" /\ t.key = Null /\ t.value = Null
          /\ t.port = u.port
      BY <2>1, <2>2, <3>1 DEF Shaped
    <3>3. Ended(text, k + 1) = KeysTo(text, k) /\ KeysTo(text, k + 1) = Ended(text, k + 1)
      <4>1. ~ IsKey(text, k + 1)
        BY <1>7 DEF IsKey, IsWord, Punctuation
      <4> QED
        BY <1>2, <1>3, <1>7, <4>1
    <3>4. text[Before(text, k + 2)] = Comma
      BY <1>4, <1>7 DEF Comma, Space
    <3>5. Waiting(text, k + 1, t)
      BY <1>4, <3>2, <3>3, <3>4 DEF Waiting
    <3> QED
      BY <2>1, <2>4, <2>6, <3>2, <3>3, <3>5 DEF Read, t
  <2> QED
    BY <2>5, <2>6 DEF t
<1>8. CASE text[k + 1] = Equal
  <2>1. text[k + 1] \notin {Comma, Space} /\ t = [s EXCEPT !.state = IF @ = "key" THEN "value_wait" ELSE "error"]
    BY <1>2, <1>8 DEF Take, Punctuation, Comma, Equal, Space
  <2>2. ~ IsKey(text, k + 1) /\ Ended(text, k + 1) = Ended(text, k) /\ KeysTo(text, k + 1) = KeysTo(text, k)
    BY <1>3, <1>8, <2>1 DEF IsKey, IsWord, Punctuation
  <2> HIDE DEF t
  <2>3. CASE s.state = "key"
    <3>1. c = k /\ IsKey(text, k) /\ s.key = text[c] /\ s.value = Null
      BY <1>2, <2>3 DEF Pending
    <3>2. /\ Shaped(t) /\ t.state = "value_wait" /\ t.key = s.key /\ t.value = s.value
          /\ t.port = s.port
      BY <1>2, <2>1, <2>3 DEF Shaped
    <3>3. FitsTo(text, k + 1)
      BY <1>1, <1>2, <2>1, <3>1, FitsNext DEF Fits
    <3>4. Pending(text, k + 1, c, t) /\ c \in 1 .. k + 1
      BY <1>1, <1>4, <1>8, <2>1, <3>1, <3>2 DEF Pending
    <3>5. InPair(text, k + 1, c, t)
      BY <1>2, <2>2, <3>4 DEF InPair
    <3> QED
      BY <1>2, <2>2, <3>2, <3>3, <3>4, <3>5 DEF Read, t
  <2>4. CASE s.state # "key"
    <3>1. Shaped(t) /\ t.state = "error"
      BY <1>2, <2>1, <2>4 DEF Shaped
    <3>2. ~ IsKey(text, k)
      <4>1. CASE s.state = "value"
        BY <1>2, <4>1 DEF Pending, IsKey
      <4>2. CASE s.state = "value_wait"
        <5>1. text[Before(text, k + 1)] = Equal
          BY <1>2, <4>2 DEF Pending
        <5>2. IsWord(text, k) => Before(text, k + 1) = k
          BY <1>1, BeforeNext DEF IsWord, Punctuation
        <5> QED
          BY <5>1, <5>2 DEF IsKey, IsWord, Punctuation
      <4> QED
        BY <1>2, <2>4, <4>1, <4>2
    <3>3. ~ FitsTo(text, k + 1)
      BY <1>1, <1>8, <3>2, FitsNext DEF Fits
    <3> QED
      BY <1>6, <3>1, <3>3 DEF t
  <2> QED
    BY <2>3, <2>4
<1>9. CASE text[k + 1] = Space
  <2>1. text[k + 1] \notin {Comma, Equal} /\ t = IF s.state = "value_wait" THEN s ELSE [s EXCEPT !.state = "error"]
    BY <1>2, <1>9 DEF Take, Punctuation, Comma, Equal, Space
  <2>2. ~ IsKey(text, k + 1) /\ Ended(text, k + 1) = Ended(text, k) /\ KeysTo(text, k + 1) = KeysTo(text, k)
    BY <1>3, <1>9, <2>1 DEF IsKey, IsWord, Punctuation
  <2> HIDE DEF t
  <2>3. CASE s.state = "value_wait"
    <3>1. /\ IsKey(text, c) /\ s.key = text[c] /\ s.value = Null
          /\ text[c + 1] = Equal /\ Before(text, k + 1) = c + 1
      BY <1>2, <2>3 DEF Pending
    <3>2. FitsTo(text, k + 1)
      BY <1>1, <1>2, <2>1, <3>1, FitsNext DEF Fits
    <3>3. Pending(text, k + 1, c, s) /\ c \in 1 .. k + 1
      BY <1>1, <1>4, <1>9, <2>3, <3>1 DEF Pending
    <3>4. InPair(text, k + 1, c, s)
      BY <1>2, <2>2, <3>3 DEF InPair
    <3> QED
      BY <1>2, <2>1, <2>2, <2>3, <3>2, <3>3, <3>4 DEF Read, t
  <2>4. CASE s.state # "value_wait"
    <3>1. Shaped(t) /\ t.state = "error"
      BY <1>2, <2>1, <2>4 DEF Shaped
    <3>2. Before(text, k + 1) = k /\ k # 0 /\ text[k] \notin Punctuation
      BY <1>1, <1>2, <1>5, <2>4 DEF IsWord
    <3>3. ~ FitsTo(text, k + 1)
      BY <1>1, <1>9, <3>2, FitsNext DEF Fits, Punctuation
    <3> QED
      BY <1>6, <3>1, <3>3 DEF t
  <2> QED
    BY <2>3, <2>4
<1>10. CASE text[k + 1] \notin Punctuation
  <2>1. IsWord(text, k + 1) /\ k \in 1 .. n - 1
    BY <1>1, <1>10 DEF IsWord
  <2>2. s.state = "value_wait"
    <3>1. ~ IsWord(text, k)
      BY <2>1, TextIs DEF n
    <3> QED
      BY <1>2, <1>5, <3>1
  <2>3. t = [s EXCEPT !.state = "value", !.value = text[k + 1]]
    BY <1>2, <1>10, <2>2 DEF Take, Punctuation, Comma, Equal, Space
  <2>4. /\ Shaped(t) /\ t.state = "value" /\ t.key = s.key /\ t.value = text[k + 1]
        /\ t.port = s.port
    BY <1>2, <2>3 DEF Shaped
  <2> HIDE DEF t
  <2>5. /\ IsKey(text, c) /\ s.key = text[c]
        /\ text[c + 1] = Equal /\ Before(text, k + 1) = c + 1
    BY <1>2, <2>2 DEF Pending
  <2>6. IsValue(text, k + 1)
    BY <1>1, <2>1, <2>5 DEF IsValue
  <2>7. Ended(text, k + 1) = Ended(text, k) /\ KeysTo(text, k + 1) = KeysTo(text, k)
    BY <1>3, <1>10, <2>6 DEF IsKey, Punctuation
  <2>8. FitsTo(text, k + 1)
    <3>1. Fits(text, k + 1) /\ text[k + 1] # Comma
      BY <1>10 DEF Fits, Punctuation
    <3> QED
      BY <1>1, <1>2, <3>1, FitsNext
  <2>9. Pending(text, k + 1, c, t) /\ c \in 1 .. k + 1
    BY <1>1, <2>4, <2>5, <2>6 DEF Pending
  <2>10. InPair(text, k + 1, c, t)
    BY <1>2, <2>7, <2>9 DEF InPair
  <2> QED
    BY <1>2, <2>4, <2>7, <2>8, <2>9, <2>10 DEF Read, t
<1> QED
  BY <1>7, <1>8, <1>9, <1>10 DEF Punctuation

LEMMA ReadStart ==
  ASSUME NEW text, NEW junk, NEW port, {"name", "opt", "noflood"} \subseteq DOMAIN port,
         port.name = junk, port.opt = junk, port.noflood = junk
  PROVE  Read(text, 0, Start(port), junk)
<1> DEFINE s == Start(port)
<1>1. /\ DOMAIN s = {"state", "key", "value", "port"} /\ s.state = "key_wait"
      /\ s.key = Null /\ s.value = Null /\ s.port = port
  BY DEF Start
<1> HIDE DEF s
<1>2. KeysTo(text, 0) = {} /\ Ended(text, 0) = {} /\ Before(text, 1) = 0 /\ 0 + 1 = 1
  BY KeysNext, BeforeNext
<1>3. Shaped(s)
  BY <1>1 DEF Shaped
<1>4. FitsTo(text, 0)
  BY <1>2 DEF FitsTo
<1>5. SaidBy(text, {}, junk) = [name |-> junk, opt |-> junk, noflood |-> junk]
  <2>1. \A P : {l \in {} : text[l] \notin Keys \ {"name"}} = {}
               /\ {l \in {} : text[l] \in {"addr", "id"}} = {}
               /\ {l \in {} : text[l] \in {"noflood"}} = {}
    OBVIOUS
  <2> QED
    BY <2>1 DEF SaidBy
<1>6. Holds(text, {}, junk, s.port)
  BY <1>1, <1>5 DEF Holds
<1>7. Waiting(text, 0, s)
  BY <1>1, <1>2 DEF Waiting
<1> QED
  BY <1>1, <1>2, <1>3, <1>4, <1>6, <1>7 DEF Read, s

\* A refused text stays refused.
LEMMA ReadError ==
  ASSUME NEW text, NEW k \in Nat, NEW s, NEW junk, Read(text, k, s, junk), s.state = "error"
  PROVE  Read(text, k + 1, Take(s, text[k + 1]), junk)
<1>1. Take(s, text[k + 1]) = s
  BY DEF Take
<1>2. Shaped(s) /\ ~ FitsTo(text, k + 1)
  BY FitsNext DEF Read
<1> QED
  BY <1>1, <1>2 DEF Read

LEMMA ReadStep ==
  ASSUME NEW text, IsText(text), NEW k \in 0 .. Len(text) - 1, NEW s, NEW junk,
         Read(text, k, s, junk)
  PROVE  Read(text, k + 1, Take(s, text[k + 1]), junk)
<1>1. k \in Nat
  BY TextIs
<1>2. CASE s.state = "error"
  BY <1>1, <1>2, ReadError
<1>3. CASE s.state # "error" /\ Waiting(text, k, s)
  BY <1>3, ReadWaiting
<1>4. CASE s.state # "error" /\ \E c \in 1 .. k : InPair(text, k, c, s)
  BY <1>4, ReadInPair
<1> QED
  BY <1>2, <1>3, <1>4 DEF Read

\* A text that is a list of pairs, in other words.
LEMMA WellformedIs ==
  ASSUME NEW text, IsText(text)
  PROVE  LET n == Len(text) IN
         Wellformed(text) <=> /\ FitsTo(text, n)
                              /\ \A l \in KeysTo(text, n) : HasValue(text, l)
                              /\ Before(text, n + 1) # 0 /\ text[Before(text, n + 1)] # Comma
<1> DEFINE n == Len(text)
<1>1. DOMAIN text = 1 .. n
  BY TextIs
<1>2. Ended(text, n) \subseteq KeysTo(text, n)
  BY DEF Ended, KeysTo
<1>3. Wellformed(text) <=> /\ \A k \in 1 .. n : Fits(text, k)
                           /\ \A k \in 1 .. n : IsKey(text, k) => HasValue(text, k)
                           /\ Before(text, n + 1) # 0 /\ text[Before(text, n + 1)] # Comma
  BY <1>1 DEF Wellformed, Fits, HasValue
<1>4. (\A k \in 1 .. n : IsKey(text, k) => HasValue(text, k))
      <=> \A l \in KeysTo(text, n) : HasValue(text, l)
  BY DEF KeysTo
<1> HIDE DEF n
<1> QED
  BY <1>2, <1>3, <1>4 DEF FitsTo, n

\* What a text says is what all its keys say.
LEMMA SaysIs ==
  ASSUME NEW text, IsText(text), NEW junk
  PROVE  Says(text, junk) = SaidBy(text, KeysTo(text, Len(text)), junk)
<1> DEFINE K == KeysTo(text, Len(text))
<1>1. DOMAIN text = 1 .. Len(text)
  BY TextIs
<1>2. NameKeys(text) = {l \in K : text[l] \notin Keys \ {"name"}}
  BY <1>1 DEF NameKeys, KeysTo
<1>3. /\ KeysOf(text, {"addr", "id"}) = {l \in K : text[l] \in {"addr", "id"}}
      /\ KeysOf(text, {"noflood"}) = {l \in K : text[l] \in {"noflood"}}
  BY <1>1 DEF KeysOf, KeysTo
<1> HIDE DEF K
<1> QED
  BY <1>2, <1>3 DEF Says, SaidBy, K

\* port_options makes a port of just the texts that are lists of pairs, and
\* gives it what the text says.
TextHolds(text, junk, s) ==
  /\ Shaped(s)
  /\ s.state = "error" <=> ~Wellformed(text)
  /\ s.state # "error" => Says(text, junk) = [name |-> s.port.name, opt |-> s.port.opt,
                                              noflood |-> s.port.noflood]

LEMMA ReadEnd ==
  ASSUME NEW text, IsText(text), NEW s, NEW junk, Read(text, Len(text), s, junk)
  PROVE  TextHolds(text, junk, ParsePair(s))
<1> DEFINE n == Len(text)
           t == ParsePair(s)
<1>1. n \in Nat /\ DOMAIN text = 1 .. n
  BY TextIs
<1>2. Wellformed(text) <=> /\ FitsTo(text, n)
                           /\ \A l \in KeysTo(text, n) : HasValue(text, l)
                           /\ Before(text, n + 1) # 0 /\ text[Before(text, n + 1)] # Comma
  BY WellformedIs
<1>3. s.key = Null => Shaped(t) /\ t.state = "error"
  <2> SUFFICES ASSUME s.key = Null PROVE Shaped(t) /\ t.state = "error"
    OBVIOUS
  <2>1. t = [s EXCEPT !.state = "error"] /\ Shaped(s)
    BY DEF ParsePair, Read
  <2> HIDE DEF t
  <2> QED
    BY <2>1 DEF Shaped
<1>4. s.key # Null => Shaped(t) /\ (t.state = "error" \/ t.state = s.state)
  BY PairParsed DEF Read
<1>5. CASE s.state = "error"
  <2>1. Shaped(t) /\ t.state = "error"
    BY <1>3, <1>4, <1>5
  <2>2. ~ Wellformed(text)
    BY <1>2, <1>5 DEF Read
  <2> HIDE DEF t
  <2> QED
    BY <2>1, <2>2 DEF TextHolds, t
<1>6. CASE Waiting(text, n, s)
  <2>1. s.key = Null /\ ~ Wellformed(text)
    BY <1>2, <1>6 DEF Waiting
  <2> HIDE DEF t
  <2> QED
    BY <1>3, <2>1 DEF TextHolds, t
<1>7. ASSUME s.state # "error", NEW c \in 1 .. n, InPair(text, n, c, s)
      PROVE  TextHolds(text, junk, t)
  <2> DEFINE K == Ended(text, n)
             L == KeysTo(text, n)
  <2>1. /\ Shaped(s) /\ FitsTo(text, n) /\ Holds(text, K, junk, s.port)
        /\ Pending(text, n, c, s) /\ n \in Nat \ {0} /\ n <= Len(text) /\ c \in Nat
    BY <1>1, <1>7 DEF Read, InPair
  <2>2. After(K, c, L)
    BY <1>7 DEF After, InPair, Ended
  <2>3. c \in L /\ \A l \in L : l \in K \/ l = c
    BY <2>2 DEF After
  <2>4. Before(text, n + 1) # 0 /\ text[Before(text, n + 1)] # Comma
    <3>1. CASE s.state \in {"key", "value"}
      <4>1. IsWord(text, n)
        BY <2>1, <3>1 DEF Pending, IsKey, IsValue
      <4>2. Before(text, n + 1) = n
        BY <2>1, <4>1, BeforeNext DEF IsWord, Punctuation
      <4> QED
        BY <2>1, <4>1, <4>2 DEF IsWord, Punctuation
    <3>2. CASE s.state = "value_wait"
      <4>1. Before(text, n + 1) = c + 1 /\ text[c + 1] = Equal
        BY <2>1, <3>2 DEF Pending
      <4>2. c + 1 # 0
        BY <2>1
      <4> QED
        BY <4>1, <4>2 DEF Comma, Equal
    <3> QED
      BY <2>1, <3>1, <3>2 DEF Pending
  <2>5. \A l \in K : HasValue(text, l)
    BY <2>1 DEF FitsTo
  <2> HIDE DEF K, L, t, n
  <2>6. /\ Shaped(t) /\ (~HasValue(text, c) => t.state = "error")
        /\ HasValue(text, c) => t.state = s.state /\ Holds(text, L, junk, t.port)
    <3>1. Parsed(text, c, s, L, junk, ParsePair(s))
      <4>1. n = Len(text)
        BY DEF n
      <4> QED
        BY <2>1, <2>2, <4>1, PairEnds
    <3> QED
      BY <3>1 DEF t, Parsed
  <2>7. Wellformed(text) <=> HasValue(text, c)
    BY <1>2, <2>1, <2>3, <2>4, <2>5 DEF L
  <2>8. Says(text, junk) = SaidBy(text, L, junk)
    BY SaysIs DEF L, n
  <2>9. SaidBy(text, L, junk) = [name    |-> SaidBy(text, L, junk).name,
                                 opt     |-> SaidBy(text, L, junk).opt,
                                 noflood |-> SaidBy(text, L, junk).noflood]
    BY DEF SaidBy
  <2> QED
    BY <1>7, <2>6, <2>7, <2>8, <2>9 DEF TextHolds, Holds, t
<1> HIDE DEF t
<1> QED
  BY <1>5, <1>6, <1>7 DEF Read, t

LEMMA TextRead ==
  ASSUME NEW text, IsText(text), NEW junk, NEW port,
         {"name", "opt", "noflood"} \subseteq DOMAIN port,
         port.name = junk, port.opt = junk, port.noflood = junk
  PROVE  TextHolds(text, junk, PortOptions(port, text))
<1> DEFINE n == Len(text)
<1>1. n \in Nat
  BY TextIs
<1>2. PICK r : /\ r[0] = Start(port) /\ PortOptions(port, text) = ParsePair(r[n])
               /\ \A k \in 1 .. n : r[k] = Take(r[k - 1], text[k])
  BY <1>1, Rounds
<1> DEFINE P == {k \in 0 .. n : Read(text, k, r[k], junk)}
<1>3. 0 \in P
  BY <1>1, <1>2, ReadStart
<1>4. ASSUME NEW k \in 0 .. n - 1, k \in P PROVE k + 1 \in P
  <2>1. Read(text, k, r[k], junk) /\ k \in 0 .. Len(text) - 1
    BY <1>4
  <2>2. Read(text, k + 1, Take(r[k], text[k + 1]), junk)
    BY <2>1, ReadStep
  <2>3. k + 1 \in 1 .. n /\ k + 1 \in 0 .. n /\ (k + 1) - 1 = k
    BY <1>1
  <2>4. r[k + 1] = Take(r[k], text[k + 1])
    BY <1>2, <2>3
  <2> HIDE DEF n
  <2> QED
    BY <2>2, <2>3, <2>4
<1>5. n \in P
  <2> HIDE DEF P
  <2>1. 0 .. n \subseteq P
    BY <1>1, <1>3, <1>4, UpTo
  <2> QED
    BY <1>1, <2>1
<1>6. TextHolds(text, junk, ParsePair(r[n]))
  BY <1>5, ReadEnd
<1> QED
  BY <1>2, <1>6

-----------------------------------------------------------------------------
(* What the ports hold *)

\* The options still to come have texts, and each port made has kept what its
\* text says.
ReadInv ==
  /\ \A k \in DOMAIN line : IsText(line[k].text)
  /\ \A p \in Made : {"name", "opt", "noflood"} \subseteq DOMAIN mem[p]
  /\ texts \in Seq(ToSet(texts)) /\ Len(texts) = Len(mem)
  /\ OptionsRead

\* A link back is no part of that.
LEMMA LinkedBack ==
  ASSUME NEW old, NEW new, NEW link, new = old \/ new = [old EXCEPT !.prev = link],
         {"name", "opt", "noflood"} \subseteq DOMAIN old
  PROVE  /\ {"name", "opt", "noflood"} \subseteq DOMAIN new
         /\ new.name = old.name /\ new.opt = old.opt /\ new.noflood = old.noflood
<1>1. CASE new = old
  BY <1>1
<1>2. CASE new = [old EXCEPT !.prev = link]
  BY <1>2
<1> QED
  BY <1>1, <1>2

\* alloc_port: the new port holds what its text says, or the text is refused.
LEMMA AllocRead ==
  ASSUME ShapeInv, ReadInv, AllocPort
  PROVE  ReadInv'
<1>1. /\ line # <<>> /\ refused = <<>> /\ line' = Tail(line)
      /\ line \in Seq(ToSet(line))
      /\ Made = 1 .. Len(mem) /\ Len(mem) \in Nat /\ DOMAIN mem = 1 .. Len(mem)
  BY MadeAre DEF AllocPort, ShapeInv
<1> DEFINE o == Head(line)
           p == Len(mem) + 1
           fresh(x) == [name |-> x, opt |-> x, noflood |-> x, type |-> x,
                        next |-> x, prev |-> x]
<1>2. IsText(o.text) /\ \A k \in DOMAIN line' : IsText(line'[k].text)
  <2>1. /\ 1 \in DOMAIN line /\ o = line[1]
        /\ \A k \in DOMAIN line' : k + 1 \in DOMAIN line /\ line'[k] = line[k + 1]
    BY <1>1
  <2> QED
    BY <2>1 DEF ReadInv
<1>3. PICK junk \in Junk : LET s == PortOptions(fresh(junk), o.text) IN
        /\ texts' = Append(texts, [text |-> o.text, junk |-> junk])
        /\ \/ s.state # "error" /\ InsertHead(s.port, p, o.type) /\ UNCHANGED refused
           \/ s.state = "error" /\ mem' = Append(mem, s.port) /\ refused' = <<o.text>>
  BY DEF AllocPort
<1> DEFINE s == PortOptions(fresh(junk), o.text)
           e == [text |-> o.text, junk |-> junk]
<1>4. TextHolds(o.text, junk, s)
  <2> DEFINE f == fresh(junk)
  <2>1. /\ {"name", "opt", "noflood"} \subseteq DOMAIN f
        /\ f.name = junk /\ f.opt = junk /\ f.noflood = junk
    OBVIOUS
  <2> HIDE DEF f, o
  <2> QED
    BY <1>2, <2>1, TextRead DEF f
<1>5. /\ texts' \in Seq(ToSet(texts')) /\ Len(texts') = p
      /\ texts'[p] = e /\ \A q \in Made : texts'[q] = texts[q]
  <2> HIDE DEF e
  <2> DEFINE S == ToSet(texts) \cup {e}
  <2>1. texts \in Seq(S) /\ e \in S /\ Len(texts) = Len(mem)
    <3>1. Len(texts) \in Nat /\ texts = [k \in 1 .. Len(texts) |-> texts[k]]
            /\ \A k \in 1 .. Len(texts) : texts[k] \in ToSet(texts)
      BY DEF ReadInv
    <3> QED
      BY <3>1 DEF ReadInv
  <2>2. texts' = Append(texts, e)
    BY <1>3 DEF e
  <2> HIDE DEF S
  <2>3. texts' \in Seq(S) /\ Len(texts') = p /\ texts'[p] = e
        /\ \A q \in 1 .. Len(mem) : texts'[q] = texts[q]
    BY <1>1, <2>1, <2>2
  <2> QED
    BY <1>1, <2>3, OwnSeq
<1>6. e.text = o.text /\ e.junk = junk
  OBVIOUS
<1> HIDE DEF o, fresh, s, e
<1>7. CASE s.state # "error" /\ InsertHead(s.port, p, o.type) /\ UNCHANGED refused
  <2>1. mem' = [q \in 1 .. p |->
                  IF q = p
                  THEN [name |-> s.port.name, opt |-> s.port.opt,
                        noflood |-> s.port.noflood, type |-> o.type,
                        next |-> heads[o.type], prev |-> <<"head", o.type>>]
                  ELSE IF q = heads[o.type] THEN [mem[q] EXCEPT !.prev = <<"next", p>>]
                  ELSE mem[q]]
    BY <1>7 DEF InsertHead
  <2>2. DOMAIN mem' = 1 .. p /\ p \in 1 .. p /\ p \in Nat /\ \A q \in 1 .. p : q \in Made \/ q = p
    BY <1>1, <2>1
  <2>3. Len(mem') = p /\ Made' = 1 .. p
    <3>1. mem' = [q \in 1 .. p |-> mem'[q]]
      BY <2>1
    <3>2. Len(mem') = p
      BY <2>2, <3>1, FunctionSeq
    <3> QED
      BY <1>1, <1>7, <2>2, <3>2 DEF Made
  <2>4. /\ {"name", "opt", "noflood"} \subseteq DOMAIN mem'[p] /\ mem'[p].name = s.port.name
        /\ mem'[p].opt = s.port.opt /\ mem'[p].noflood = s.port.noflood
    BY <2>1, <2>2
  <2>5. ASSUME NEW q \in Made
        PROVE  /\ {"name", "opt", "noflood"} \subseteq DOMAIN mem'[q]
               /\ mem'[q].name = mem[q].name /\ mem'[q].opt = mem[q].opt
               /\ mem'[q].noflood = mem[q].noflood
    <3>1. q \in 1 .. p /\ q # p
      BY <1>1
    <3>2. mem'[q] = mem[q] \/ mem'[q] = [mem[q] EXCEPT !.prev = <<"next", p>>]
      BY <2>1, <3>1
    <3>3. {"name", "opt", "noflood"} \subseteq DOMAIN mem[q]
      BY DEF ReadInv
    <3> QED
      BY <3>2, <3>3, LinkedBack
  <2>6. /\ Wellformed(o.text)
        /\ Says(o.text, junk) = [name |-> s.port.name, opt |-> s.port.opt,
                                 noflood |-> s.port.noflood]
    BY <1>4, <1>7 DEF TextHolds
  <2>7. ASSUME NEW q \in Made'
        PROVE  /\ {"name", "opt", "noflood"} \subseteq DOMAIN mem'[q]
               /\ Wellformed(texts'[q].text)
               /\ Says(texts'[q].text, texts'[q].junk)
                    = [name |-> mem'[q].name, opt |-> mem'[q].opt, noflood |-> mem'[q].noflood]
    <3>1. CASE q = p
      BY <1>5, <1>6, <2>4, <2>6, <3>1
    <3>2. CASE q \in Made
      <4>1. /\ Wellformed(texts[q].text)
            /\ Says(texts[q].text, texts[q].junk)
                 = [name |-> mem[q].name, opt |-> mem[q].opt, noflood |-> mem[q].noflood]
        BY <3>2 DEF ReadInv, OptionsRead
      <4> QED
        BY <1>5, <2>5, <3>2, <4>1
    <3> QED
      BY <2>2, <2>3, <3>1, <3>2
  <2>8. ToSet(refused') = {}
    BY <1>1, <1>7 DEF ToSet
  <2> QED
    BY <1>2, <1>5, <2>3, <2>7, <2>8 DEF ReadInv, OptionsRead
<1>8. CASE s.state = "error" /\ mem' = Append(mem, s.port) /\ refused' = <<o.text>>
  <2> DEFINE S == ToSet(mem) \cup {s.port}
  <2>1. mem \in Seq(S) /\ s.port \in S
    <3>1. Len(mem) \in Nat /\ mem = [k \in 1 .. Len(mem) |-> mem[k]]
            /\ \A k \in 1 .. Len(mem) : mem[k] \in ToSet(mem)
      BY DEF ShapeInv
    <3> QED
      BY <3>1
  <2> HIDE DEF S
  <2>2. /\ Len(mem') = p /\ DOMAIN mem' = 1 .. p
        /\ \A q \in Made : mem'[q] = mem[q]
    BY <1>1, <1>8, <2>1
  <2>3. Made' = Made
    BY <1>1, <1>8, <2>2 DEF Made
  <2>4. ToSet(refused') = {o.text} /\ ~ Wellformed(o.text)
    BY <1>4, <1>8 DEF ToSet, TextHolds
  <2>5. ASSUME NEW q \in Made'
        PROVE  /\ {"name", "opt", "noflood"} \subseteq DOMAIN mem'[q]
               /\ Wellformed(texts'[q].text)
               /\ Says(texts'[q].text, texts'[q].junk)
                    = [name |-> mem'[q].name, opt |-> mem'[q].opt, noflood |-> mem'[q].noflood]
    BY <1>5, <2>2, <2>3 DEF ReadInv, OptionsRead
  <2> QED
    BY <1>2, <1>5, <2>2, <2>4, <2>5 DEF ReadInv, OptionsRead
<1> QED
  BY <1>3, <1>7, <1>8 DEF s

LEMMA ReadKept ==
  ASSUME ShapeInv, LinksInv, MovedInv, ReadInv, CompactPorts
  PROVE  ReadInv'
<1>1. /\ UNCHANGED <<line, texts, refused>>
      /\ \/ mem' = mem
         \/ heads[i] # 0 /\ mem' = [mem EXCEPT ![heads[i]].prev = <<"head", j>>]
  BY DEF CompactPorts, Move
<1>2. Made' = Made /\ Len(mem') = Len(mem)
  BY CompactStep
<1>3. ASSUME NEW q \in Made
      PROVE  /\ {"name", "opt", "noflood"} \subseteq DOMAIN mem'[q]
             /\ mem'[q].name = mem[q].name /\ mem'[q].opt = mem[q].opt
             /\ mem'[q].noflood = mem[q].noflood
  <2>1. q \in DOMAIN mem
    BY MadeAre
  <2>2. mem'[q] = mem[q] \/ mem'[q] = [mem[q] EXCEPT !.prev = <<"head", j>>]
    BY <1>1, <2>1
  <2>3. {"name", "opt", "noflood"} \subseteq DOMAIN mem[q]
    BY DEF ReadInv
  <2> QED
    BY <2>2, <2>3, LinkedBack
<1> QED
  BY <1>1, <1>2, <1>3 DEF ReadInv, OptionsRead

LEMMA ReadInvStep ==
  ASSUME ShapeInv, LinksInv, MovedInv, ReadInv, [Next]_vars
  PROVE  ReadInv'
<1>1. CASE AllocPort
  BY <1>1, AllocRead
<1>2. CASE CompactPorts
  BY <1>2, ReadKept
<1>3. CASE Help \/ Compact \/ Run \/ Stop \/ FreePort \/ NextList \/ UNCHANGED vars
  <2>1. UNCHANGED <<line, mem, texts, refused>>
    BY <1>3 DEF Help, Compact, Run, Stop, FreePort, NextList, vars
  <2> QED
    BY <2>1 DEF ReadInv, OptionsRead, Made
<1> QED
  BY <1>1, <1>2, <1>3 DEF Next

LEMMA ReadInvInit == Init => ReadInv
<1> SUFFICES ASSUME Init PROVE ReadInv
  OBVIOUS
<1>1. line \in Lines /\ mem = <<>> /\ texts = <<>> /\ refused = <<>>
  BY DEF Init
<1>2. \A k \in DOMAIN line : IsText(line[k].text)
  <2>1. \A k \in DOMAIN line : line[k] \in ToSet(line)
    BY DEF ToSet
  <2> QED
    BY <1>1, <2>1, LinesAssumption DEF IsText
<1>3. Made = {} /\ ToSet(refused) = {} /\ Len(texts) = Len(mem)
  BY <1>1 DEF Made, ToSet
<1>4. \A S : <<>> \in Seq(S)
  OBVIOUS
<1> QED
  BY <1>1, <1>2, <1>3, <1>4 DEF ReadInv, OptionsRead

\* For texts of any length: port_options refuses just the texts that are no
\* lists of pairs, and every port made holds what its text says, the last pair
\* for a member deciding, for as long as the port is there.
THEOREM OptionsAreRead == Spec => []OptionsRead
<1> DEFINE HeldInv == ShapeInv /\ LinksInv /\ MovedInv /\ FreedInv /\ ReadInv
<1>1. HeldInv /\ [Next]_vars => HeldInv'
  BY ShapeStep, LinksStep, MovedStep, FreedStep, ReadInvStep
<1>2. HeldInv => OptionsRead
  BY DEF ReadInv
<1>3. Init => HeldInv
  BY PortsInit, ReadInvInit
<1> QED
  BY <1>1, <1>2, <1>3, PTL DEF Spec
=============================================================================

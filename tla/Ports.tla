------------------------------- MODULE Ports --------------------------------
(***************************************************************************)
(* hub's ports (port.c, hub.c): main makes a struct port of each option,   *)
(* port_options reads its text in place, the ports are kept in a list for  *)
(* each type, compact_ports moves the lists together for odp_new, and      *)
(* hub_exit frees them, whenever the program ends.                         *)
(*                                                                         *)
(* A text is a sequence of tokens: the three characters port_options       *)
(* tells apart, and words; "" is the null string, "#0" and "#1" numbers.   *)
(* A port is its place in the order of malloc(), 0 the null pointer; a     *)
(* pointer to a list's head or a port's next is <<"head", i>> or           *)
(* <<"next", p>>.                                                          *)
(***************************************************************************)
EXTENDS Integers, SequencesExt

CONSTANTS TypeMax,      \* __OVS_VPORT_TYPE_MAX; the types are 1 .. TypeMax - 1
          InternalType, \* OVS_VPORT_TYPE_INTERNAL
          Lines,        \* command lines: sequences of options [type, text], the
                        \* one of the datapath last, where main comes to it
          Junk          \* what malloc() leaves where nothing is written

Null  == ""
Comma == ","
Equal == "="
Space == " "
Punctuation == {Comma, Equal, Space}
\* The words that are keys; the others, mac, src, dst and port, are like addr.
Keys == {"name", "addr", "id", "noflood"}

ASSUME TypesAssumption == TypeMax \in Nat /\ InternalType \in 1 .. TypeMax - 1
ASSUME LinesAssumption == \A line \in Lines :
  /\ line # <<>> /\ Last(line).type = InternalType
  /\ line \in Seq(ToSet(line))
  /\ \A o \in ToSet(line) :
       /\ o.type \in 1 .. TypeMax - 1
       /\ o.text \in Seq(ToSet(o.text)) /\ Null \notin ToSet(o.text)
       /\ \A k \in 1 .. Len(o.text) - 1 : {o.text[k], o.text[k + 1]} \cap Punctuation # {}

VARIABLES line,         \* options still to come
          heads,        \* ports[]: the first port of each list
          mem,          \* the struct ports malloc() gave, in that order
          freed,        \* how often each was freed
          texts,        \* history: the options they were made of
          refused,      \* history: the options help(1) was called for
          i, j, cur,    \* the loop variables of compact_ports and hub_exit
          pc

vars == <<line, heads, mem, freed, texts, refused, i, j, cur, pc>>

-----------------------------------------------------------------------------
(* port_options *)

\* atol and atoi, of words.
Number(w) == IF w = "1" THEN "#1" ELSE "#0"

\* parse_pair: a key that is no keyword is the port's name. id and addr are
\* members of a union.
ParsePair(s) ==
  IF s.key = Null \/ (s.key \in Keys \ {"noflood"} /\ s.value = Null)
  THEN [s EXCEPT !.state = "error"]
  ELSE CASE s.key = "name"    -> [s EXCEPT !.port.name = s.value]
         [] s.key = "addr"    -> [s EXCEPT !.port.opt = s.value]
         [] s.key = "id"      -> [s EXCEPT !.port.opt = Number(s.value)]
         [] s.key = "noflood" -> [s EXCEPT !.port.noflood = IF s.value = Null THEN "#1"
                                                            ELSE Number(s.value)]
         [] s.key \notin Keys -> [s EXCEPT !.port.name = s.key]

PairDoneKeeps(s) == LET t == ParsePair(s)                  \* mutant of PairDone
                    IN  IF t.state = "error" THEN t
                        ELSE [t EXCEPT !.state = "key_wait", !.key = Null]
PairDone(s) == LET t == ParsePair(s)
               IN  IF t.state = "error" THEN t
                   ELSE [t EXCEPT !.state = "key_wait", !.key = Null, !.value = Null]

\* One round of the loop.
Take(s, token) ==
  IF s.state = "error" THEN s
  ELSE CASE token = Comma -> IF s.state = "key_wait" THEN s ELSE PairDone(s)
         [] token = Equal -> [s EXCEPT !.state = IF @ = "key" THEN "value_wait" ELSE "error"]
         [] token = Space -> IF s.state \in {"key_wait", "value_wait"} THEN s
                             ELSE [s EXCEPT !.state = "error"]
         [] token \notin Punctuation ->
              CASE s.state = "key_wait"   -> [s EXCEPT !.state = "key", !.key = token]
                [] s.state = "value_wait" -> [s EXCEPT !.state = "value", !.value = token]
                [] s.state \in {"key", "value"} -> s

PortOptions(port, text) ==
  LET round[k \in 0 .. Len(text)] ==
        IF k = 0 THEN [state |-> "key_wait", key |-> Null, value |-> Null, port |-> port]
        ELSE Take(round[k - 1], text[k])
  IN  ParsePair(round[Len(text)])

-----------------------------------------------------------------------------
(* main *)

Init ==
  /\ line \in Lines
  /\ heads   = [t \in 0 .. TypeMax |-> 0]
  /\ mem     = <<>>
  /\ freed   = <<>>
  /\ texts   = <<>>
  /\ refused = <<>>
  /\ i   = 0
  /\ j   = 0
  /\ cur = 0
  /\ pc  = "options"

HubExit == pc' = "exit" /\ i' = 0 /\ cur' = heads'[0]

\* LIST_INSERT_HEAD of a port that port_options has filled and given its type.
InsertHead(port, p, type) ==
  /\ heads' = [heads EXCEPT ![type] = p]
  /\ mem'   = [q \in 1 .. p |->
                 IF q = p
                 THEN [name |-> port.name, opt |-> port.opt, noflood |-> port.noflood,
                       type |-> type, next |-> heads[type], prev |-> <<"head", type>>]
                 ELSE IF q = heads[type] THEN [mem[q] EXCEPT !.prev = <<"next", p>>]
                 ELSE mem[q]]

\* alloc_port. With an option it refuses, help(1) ends the program; the new
\* port is in no list then.
AllocPort ==
  /\ pc = "options" /\ line # <<>>
  /\ line'  = Tail(line)
  /\ freed' = Append(freed, 0)
  /\ \E junk \in Junk :
       LET o     == Head(line)
           fresh == [name |-> junk, opt |-> junk, noflood |-> junk, type |-> junk,
                     next |-> junk, prev |-> junk]
           s     == PortOptions(fresh, o.text)
           p     == Len(mem) + 1
       IN  /\ texts' = Append(texts, [text |-> o.text, junk |-> junk])
           /\ \/ /\ s.state # "error"
                 /\ InsertHead(s.port, p, o.type)
                 /\ UNCHANGED <<refused, i, cur, pc>>
              \/ /\ s.state = "error"
                 /\ mem'     = Append(mem, s.port)
                 /\ refused' = <<o.text>>
                 /\ UNCHANGED heads
                 /\ HubExit
  /\ UNCHANGED j

\* help(): an option hub does not have, -h, or an argument too many.
Help ==
  /\ pc = "options" /\ line # <<>>
  /\ UNCHANGED <<line, heads, mem, freed, texts, refused, j>>
  /\ HubExit

Compact ==
  /\ pc = "options" /\ line = <<>>
  /\ pc' = "compact"
  /\ i'  = 1
  /\ j'  = 0
  /\ UNCHANGED <<line, heads, mem, freed, texts, refused, cur>>

\* compact_ports, one round: the list moves, and its first port's link back.
Move(from, prev) ==
  /\ pc = "compact" /\ i < TypeMax
  /\ i' = i + 1
  /\ \/ heads[i] = 0 /\ UNCHANGED <<heads, mem, j>>
     \/ /\ heads[i] # 0
        /\ heads' = [heads EXCEPT ![j] = heads[i], ![i] = from]
        /\ mem'   = [mem EXCEPT ![heads[i]].prev = prev]
        /\ j'     = j + 1
  /\ UNCHANGED <<line, freed, texts, refused, cur, pc>>

MoveKeeps  == Move(heads[i], <<"head", j>>)             \* mutants
MoveNoLink == Move(0, <<"head", i>>)                    \* of CompactPorts
CompactPorts == Move(0, <<"head", j>>)

\* odp_new fails, or odp_loop returns; before that, hub runs.
Run ==
  /\ pc = "compact" /\ i = TypeMax
  /\ pc' = "run"
  /\ UNCHANGED <<line, heads, mem, freed, texts, refused, i, j, cur>>

Stop ==
  /\ pc = "run"
  /\ UNCHANGED <<line, heads, mem, freed, texts, refused, j>>
  /\ HubExit

\* hub_exit, one round: next is read from a port already freed, where free()
\* leaves it as it was.
FreePort ==
  /\ pc = "exit" /\ cur # 0
  /\ freed' = [freed EXCEPT ![cur] = @ + 1]
  /\ cur'   = mem[cur].next
  /\ UNCHANGED <<line, heads, mem, texts, refused, i, j, pc>>

NextList ==
  /\ pc = "exit" /\ cur = 0
  /\ i' = i + 1
  /\ cur' = heads[i + 1]
  /\ pc' = IF i + 1 < TypeMax THEN "exit" ELSE "done"
  /\ UNCHANGED <<line, heads, mem, freed, texts, refused, j>>

Next == \/ AllocPort \/ Help \/ Compact \/ CompactPorts \/ Run \/ Stop
        \/ FreePort \/ NextList

Spec == Init /\ [][Next]_vars

-----------------------------------------------------------------------------
(* What a text says *)

IsWord(text, k) == k \in DOMAIN text /\ text[k] \notin Punctuation
LastIn(S) == CHOOSE k \in S : \A l \in S : l <= k

\* The last token but spaces before k, 0 if there is none.
Before(text, k) == LastIn({0} \cup {l \in 1 .. k - 1 : text[l] # Space})
IsValue(text, k) == IsWord(text, k) /\ Before(text, k) # 0 /\ text[Before(text, k)] = Equal
IsKey(text, k)   == IsWord(text, k) /\ ~IsValue(text, k)
ValueOf(text, k) == LET v == {l \in DOMAIN text : IsValue(text, l)
                                 /\ Before(text, l) = k + 1}
                    IN  IF v = {} THEN Null ELSE text[CHOOSE l \in v : TRUE]

\* key[=value],...: blanks only before a word, an equals sign only behind a
\* key, a value where the key needs one, and a pair at the end.
Wellformed(text) ==
  /\ \A k \in DOMAIN text :
       /\ text[k] = Space => Before(text, k) = 0 \/ text[Before(text, k)] \in {Comma, Equal}
       /\ text[k] = Equal => IsKey(text, k - 1)
       /\ IsKey(text, k) /\ text[k] \in Keys \ {"noflood"} => ValueOf(text, k) # Null
  /\ LET end == Before(text, Len(text) + 1) IN end # 0 /\ text[end] # Comma

\* The places of the keys that set a member.
NameKeys(text) == {k \in DOMAIN text : IsKey(text, k) /\ text[k] \notin Keys \ {"name"}}
KeysOf(text, keys) == {k \in DOMAIN text : IsKey(text, k) /\ text[k] \in keys}

Says(text, junk) ==
  LET named == NameKeys(text)
      opt   == KeysOf(text, {"addr", "id"})
      flood == KeysOf(text, {"noflood"})
      value(S) == ValueOf(text, LastIn(S))
  IN  [name    |-> IF named = {} THEN junk
                   ELSE IF text[LastIn(named)] = "name" THEN value(named)
                   ELSE text[LastIn(named)],
       opt     |-> IF opt = {} THEN junk
                   ELSE IF text[LastIn(opt)] = "id" THEN Number(value(opt)) ELSE value(opt),
       noflood |-> IF flood = {} THEN junk
                   ELSE IF value(flood) = Null THEN "#1" ELSE Number(value(flood))]

-----------------------------------------------------------------------------
(* Properties *)

Made == {p \in DOMAIN mem : ~(p = Len(mem) /\ refused # <<>>)}

\* A port is made of just the texts that are lists of pairs, and it holds what
\* its text says: of several pairs for one member the last, and of none what
\* malloc() left.
OptionsRead ==
  /\ \A t \in ToSet(refused) : ~Wellformed(t)
  /\ \A p \in Made :
       /\ Wellformed(texts[p].text)
       /\ Says(texts[p].text, texts[p].junk)
            = [name |-> mem[p].name, opt |-> mem[p].opt, noflood |-> mem[p].noflood]

\* The newest of some ports, the null pointer if there is none.
Newest(S) == IF S = {} THEN 0 ELSE LastIn(S)

\* odp_new finds every port just once: there is a list of each type, one behind
\* the other from ports[0] on until an empty one, in the order of the types; each
\* has the newest port of its type first, and behind a port the next older one;
\* the datapath's own is the first of the internal ones; and every link back
\* leads to what points at the port.
Compacted == pc = "run" =>
  LET full == {t \in 0 .. TypeMax : heads[t] # 0}
      typeOf(t) == mem[heads[t]].type
  IN  /\ full = 0 .. j - 1
      /\ \A s, t \in full : s < t => typeOf(s) < typeOf(t)
      /\ \A p \in DOMAIN mem : \E t \in full : typeOf(t) = mem[p].type
      /\ \A t \in full : /\ heads[t] = Newest({p \in DOMAIN mem : mem[p].type = typeOf(t)})
                         /\ mem[heads[t]].prev = <<"head", t>>
      /\ \A p \in DOMAIN mem :
           LET next == mem[p].next IN
           /\ next = Newest({q \in 1 .. p - 1 : mem[q].type = mem[p].type})
           /\ next # 0 => mem[next].prev = <<"next", p>>
      /\ \E t \in full : heads[t] = Len(mem) /\ typeOf(t) = InternalType

\* Wherever the program ends, hub_exit frees no port twice, and in the end
\* every port that was made: the one whose option was refused is left alone.
FreedOnce ==
  /\ \A p \in DOMAIN mem : freed[p] <= 1
  /\ pc = "done" => {p \in DOMAIN mem : freed[p] = 1} = Made

\* What the usage line says of -d and -i: addr may be left out. A port that
\* leaves it out would be one without address, as odp_link's test expects.
AddrOptional == pc = "run" => \A p \in Made :
  mem[p].type = InternalType /\ KeysOf(texts[p].text, {"addr", "id"}) = {} =>
    mem[p].opt = "#0"
=============================================================================

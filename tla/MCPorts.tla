------------------------------ MODULE MCPorts -------------------------------
EXTENDS Ports

\* All texts of up to n of the tokens, no word next to another.
TextsUpTo(tokens, n) ==
  LET of[k \in 0 .. n] == IF k = 0 THEN {<<>>} ELSE
        {Append(t, x) : <<t, x>> \in {p \in of[k - 1] \X tokens :
           p[1] # <<>> => {Last(p[1]), p[2]} \cap Punctuation # {}}}
  IN  UNION {of[k] : k \in 0 .. n}

Option(type, text) == [type |-> type, text |-> text]
Datapath == Option(InternalType, <<"dp0">>)

\* Every short text as the only option, and up to four ports of three types.
ShortTexts == TextsUpTo(Punctuation \cup Keys \cup {"1"}, 4)
LongTexts  == TextsUpTo({Comma, Equal, "noflood", "1"}, 7)
SomePorts  == {Option(1, <<"eth1">>), Option(2, <<"in1", ",", "addr", "=", "cidr">>),
               Option(4, <<"gre1", ",", "id", "=", "1">>)}
UsageLines == {Append(s, Datapath) : s \in UNION {[1 .. k -> SomePorts] : k \in 0 .. 4}}
MCLines == {<<Option(InternalType, t)>> : t \in ShortTexts \cup LongTexts}
           \cup UsageLines
           \cup {<<o, Option(2, <<"in2", Comma>>), Datapath>> : o \in SomePorts}
=============================================================================

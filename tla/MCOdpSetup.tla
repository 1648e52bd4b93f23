---------------------------- MODULE MCOdpSetup ----------------------------
EXTENDS OdpSetup

CONSTANTS dp0, in1, eth1, gre1, gre2

\* hub -n eth1 -i in1,addr=.. -d dp0,addr=.. -g gre1,.. -g gre2,..
AllTypes == << [type |-> "netdev",   ports |-> <<eth1>>],
               [type |-> "internal", ports |-> <<dp0, in1>>],
               [type |-> "gre",      ports |-> <<gre1, gre2>>] >>
=============================================================================

-------------------------------- MODULE MCHub --------------------------------
EXTENDS Hub

CONSTANTS MCAbsent

\* hub -n eth1 -n eth2,noflood -d dp0 -g gre1,id=5 -g gre2,id=6,noflood -V vx1,id=5
Plain(n)  == [no |-> n, id |-> 0, noflood |-> FALSE]
Tun(n, i) == [no |-> n, id |-> i, noflood |-> FALSE]

MCLists == << [tunnel |-> FALSE, ports |-> <<Plain(1), [Plain(2) EXCEPT !.noflood = TRUE]>>],
              [tunnel |-> FALSE, ports |-> <<Plain(0)>>],
              [tunnel |-> TRUE,  ports |-> <<Tun(3, 5), [Tun(3, 6) EXCEPT !.noflood = TRUE]>>],
              [tunnel |-> TRUE,  ports |-> <<Tun(4, 5), Tun(4, 6)>>] >>

FlowKey(n, i, e) == [in_port |-> n, id |-> i, ethertype |-> e]

MCKeys == {FlowKey(1, MCAbsent, "arp"), FlowKey(1, MCAbsent, "other"),
           FlowKey(2, MCAbsent, MCAbsent), FlowKey(3, 5, "other"), FlowKey(3, 6, "arp"),
           FlowKey(3, MCAbsent, "other"), FlowKey(4, 5, "other")}
=============================================================================

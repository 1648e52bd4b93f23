------------------------------ MODULE MCBuild -------------------------------
EXTENDS Build

\* Up to three ports, in the order of the lists: tunnels behind the others.
PortLists == {<<>>, <<"port">>, <<"tunnel">>, <<"port", "port">>, <<"port", "tunnel">>,
              <<"port", "port", "port">>, <<"port", "tunnel", "tunnel">>}
AnySlack == 0 .. 40
=============================================================================

------------------------------ MODULE MCRawScan ------------------------------
(* Instances of RawScan for TLC.                                           *)
EXTENDS RawScan, TLC

CONSTANTS h1, h2, h3

TcpPort == <<"tcp", 80>>
UdpPort == <<"udp", 53>>
Ping    == <<"icmp", 0>>

TwoTargets  == {h1, h2}
ThreeHosts  == {h1, h2, h3}
MixedPorts  == {TcpPort, UdpPort}
Pings       == {Ping, TcpPort}

\* The first target serves TCP, the second UDP; the third host is no target.
MixedOpen == {<<h1, TcpPort>>, <<h2, UdpPort>>, <<h3, TcpPort>>}
=============================================================================

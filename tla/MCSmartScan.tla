---------------------------- MODULE MCSmartScan ----------------------------
(* An instance of SmartScan for TLC.                                       *)
EXTENDS SmartScan

\* Two IPv4 addresses, the second one excluded, and an excluded IPv6 address.
SmallBlocks == <<[family |-> "v4", base |-> 10, count |-> 2],
                 [family |-> "v6", base |-> 7, count |-> 1]>>
V4(n) == Address("v4", n)
V6(n) == Address("v6", n)
TwoExcluded    == {V4(11), V6(7)}
NoCdn          == {V4(20)}
ExplicitTarget == <<<<V4(20), 8080>>, <<V4(11), 22>>>>
Web            == {80, 443}

\* Two permutations of three indexes.
Permutations3 == << [i \in 0 .. 2 |-> i], [i \in 0 .. 2 |-> (2 * i + 1) % 3] >>

\* How the two lists begin (ports.go:19-20).  They are in numeric order: a
\* port's rank says how small its number is among them.
FirstOf100  == <<7, 9, 13, 21>>
FirstOf1000 ==
  <<1, 3, 4, 6, 7, 9, 13, 17, 19, 20, 21, 22, 23, 24, 25, 26, 30, 32, 33,
    37, 42, 43, 49, 53, 70, 79, 80, 81, 82, 83, 84, 85, 88, 89, 90, 99, 100,
    106, 109, 110, 111, 113, 119, 125, 135, 139, 143, 144, 146, 161, 163, 179,
    199, 211, 212, 222, 254, 255, 256, 259, 264, 280, 301, 306, 311, 340, 366,
    389, 406, 407, 416, 417, 425, 427, 443, 444, 445>>

Ask(file, cli, exclude, top) ==
  [file |-> file, ports |-> cli, exclude |-> exclude, top |-> top]

\* A tcp and a udp port of one number, from two sources; a list whose order
\* a finding changes; one that exclusion empties; lists at the limit and in
\* error.
SomePortOptions == {
  Ask(<<UdpNumber(443)>>, <<Number(443), Number(22)>>, <<>>, "none"),
  Ask(<<>>, <<Number(8443), PortRange(442, 443)>>, <<Number(442)>>, "none"),
  Ask(<<>>, <<Number(21)>>, <<Number(21)>>, "none"),
  Ask(<<>>, <<PortRange(65534, 65536)>>, <<>>, "none"),
  Ask(<<>>, <<PortRange(81, 80)>>, <<>>, "none"),
  Ask(<<>>, <<BadSegment>>, <<>>, "none") }

SomeOpen == {<<V4(10), Port(443, "tcp")>>, <<V4(10), Port(443, "udp")>>,
             <<V4(10), Port(22, "tcp")>>}
AllModes == {"connect", "verify", "raw"}
=============================================================================

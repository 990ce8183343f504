------------------------------ MODULE MCReport ------------------------------
(* An instance of Report for TLC.                                          *)
EXTENDS Report, TLC

CONSTANTS d1, d2, d3, d4, i1, i2, i6

TcpPort(n) == [num |-> n, proto |-> "tcp"]
UdpPort(n) == [num |-> n, proto |-> "udp"]

\* The same port of two hosts, the same number for UDP, and one of the ports once
\* more, which in a connect scan is the target web:53; and a host of the version
\* not asked for.
Four    == {d1, d2, d3, d4}
Finds   == d1 :> <<i1, TcpPort(53)>> @@ d2 :> <<i2, TcpPort(53)>>
             @@ d3 :> <<i1, UdpPort(53)>> @@ d4 :> <<i2, TcpPort(53)>>
Hosts   == i1 :> {"i1", "name"} @@ i2 :> {"i2"} @@ i6 :> {"i6"}
NameOfPort == <<i2, 53>> :> "web"
Names   == {"name", "web"}
Targets == {d4}
IPv4    == {i1, i2}
Heard   == {i1, i6}

Remote(speaks, tls, greeting, product, version) ==
  [speaks |-> speaks, tls |-> tls, refuses |-> FALSE, greeting |-> greeting,
   product |-> product, version |-> version]
Services ==
  <<i1, TcpPort(53)>> :> Remote("greets", FALSE, {"SSH-"}, {"openssh"}, 2)
    @@ <<i1, UdpPort(53)>> :> Remote("answers", FALSE, {}, {}, 0)
    @@ <<i2, TcpPort(53)>> :> Remote("greets", FALSE, {"220 "}, {}, 0)

Sig(cve, product, service, min, max) ==
  [cve |-> cve, title |-> cve, port |-> 0, service |-> service, product |-> product,
   banner |-> "", min |-> min, max |-> max]
Signatures ==
  {Sig("old", "openssh", "", 0, 1), Sig("new", "openssh", "", 2, 3),
   Sig("any", "", "dns", 1, 1)}

Base == [format |-> "text", nmapCli |-> FALSE, banner |-> FALSE,
         disableStdout |-> FALSE, file |-> "good", raw |-> FALSE, sn |-> FALSE,
         verify |-> FALSE, upload |-> FALSE, signal |-> FALSE]
Some ==
  {[Base EXCEPT !.banner = TRUE], [Base EXCEPT !.banner = TRUE, !.raw = TRUE],
   [Base EXCEPT !.signal = TRUE, !.file = "none"],
   [Base EXCEPT !.verify = TRUE], [Base EXCEPT !.verify = TRUE, !.raw = TRUE],
   [Base EXCEPT !.format = "json", !.nmapCli = TRUE, !.file = "none"],
   [Base EXCEPT !.format = "csv", !.file = "bad"],
   [Base EXCEPT !.disableStdout = TRUE, !.raw = TRUE, !.upload = TRUE],
   [Base EXCEPT !.sn = TRUE, !.format = "json"]}
=============================================================================

----------------------------- MODULE MCTargets -----------------------------
(* An instance of Targets for TLC: runs that differ in one or two options. *)
EXTENDS Targets, TLC

CONSTANTS a1, a2, a3, a4, b1

AllAddrs    == {a1, a2, a3, a4, b1}
OneIPv6     == {b1}
OneExcluded == {a4}
BothVersions == {4, 6}

\* An address in a network and again on its own, names with addresses of both
\* versions, one of them excluded; a name and an address with a port.
Net       == Network({a1, a2})
WebName   == Name(<<a4, a1, a3>>, <<b1>>)
Ported    == WithPortOf(Name(<<a3>>, <<>>), 8080)
PortedIp  == WithPortOf(IpV6(b1), 22)

NoFile == [lines |-> <<>>, newline |-> TRUE, opens |-> TRUE]
File(lns, newline, opens) == [lines |-> lns, newline |-> newline, opens |-> opens]

Base ==
  [hosts |-> <<>>, hostLines |-> <<>>, file |-> NoFile, args |-> <<>>,
   ports |-> <<>>, portsFile |-> <<>>, scanType |-> "connect", wn |-> FALSE,
   sn |-> FALSE, probes |-> FALSE, verbose |-> FALSE, silent |-> FALSE,
   json |-> FALSE, csv |-> FALSE, rate |-> 1000, retries |-> 3,
   resume |-> FALSE, stats |-> FALSE, nmap |-> FALSE, stream |-> FALSE,
   passive |-> FALSE, verify |-> FALSE, iface |-> "none", sourceIp |-> "none",
   sourcePort |-> "none", ipVersion |-> BothVersions, threshold |-> 0,
   proxy |-> FALSE, payload |-> FALSE, dnsOrder |-> "l", service |-> FALSE,
   warmUp |-> 2, smart |-> FALSE, prediction |-> 20, excludeParses |-> TRUE,
   scanAll |-> FALSE, ping |-> FALSE, privileged |-> TRUE, router |-> TRUE]

\* Where targets come from.
FromHosts == [Base EXCEPT !.hosts =
  << HostArg("url", WebName, "https", 0), HostArg("plain", IpV4(a1), "", 0),
     HostArg("url", WebName, "https", 443), HostArg("bad", Blank, "", 0) >>]
FromFile  == [Base EXCEPT
  !.file = File(<<Net, IpV4(a1), Ported>>, TRUE, TRUE), !.args = <<PortedIp, Blank>>]
FromBoth  == [Base EXCEPT
  !.hosts = <<HostArg("hostport", IpV6(b1), "", 99), HostArg("cidr", Net, "", 0)>>,
  !.file = File(<<Asn(<<{a3}, {a4, a2}>>), IpV4(a4)>>, FALSE, TRUE),
  !.args = <<Unresolvable, WebName>>]
Broken    == [FromFile EXCEPT !.file.opens = FALSE]
AllBad    == [Base EXCEPT !.hosts = <<HostArg("bad", Unresolvable, "", 0)>>]
CutShort  == [Base EXCEPT
  !.file = File(<<Net, TooLongLine>>, FALSE, TRUE), !.args = <<IpV4(a3), PortedIp>>]
Sources   == {FromHosts, FromFile, FromBoth, Broken, AllBad, CutShort}

\* Options that change how they are taken.
Ways(o) ==
  {o, [o EXCEPT !.stream = TRUE], [o EXCEPT !.passive = TRUE],
   [o EXCEPT !.ports = <<PortRange(21, 22)>>],
   [o EXCEPT !.ports = <<Number(80)>>, !.stream = TRUE],
   [o EXCEPT !.wn = TRUE, !.ports = <<PortRange(20, 22)>>],
   [o EXCEPT !.sn = TRUE], [o EXCEPT !.sn = TRUE, !.proxy = TRUE],
   [o EXCEPT !.scanAll = TRUE, !.ipVersion = {4}], [o EXCEPT !.ping = TRUE]}

\* All ports, with one behind that a target was given with.
Dashes == {[FromHosts EXCEPT !.ports = <<AllPorts>>]}

\* A threshold of two ports, which a target with its own port may reach too.
Thresholds ==
  {[o EXCEPT !.threshold = 2, !.stream = s, !.ports = <<PortRange(21, 23)>>] :
     o \in {FromFile, [FromHosts EXCEPT !.hosts = Tail(@)]}, s \in BOOLEAN}

\* Options that are refused, or switch another one.
Odd(o) ==
  UNION {{[o EXCEPT !.stream = s, !.passive = p, !.smart = TRUE],
          [o EXCEPT !.stream = s, !.passive = p, !.verify = TRUE],
          [o EXCEPT !.stream = s, !.passive = p, !.resume = TRUE],
          [o EXCEPT !.scanType = "syn", !.proxy = s, !.payload = p],
          [o EXCEPT !.sn = s, !.proxy = p, !.payload = TRUE],
          [o EXCEPT !.scanType = "syn", !.sourceIp = "ip:port", !.stream = s,
                    !.wn = p],
          [o EXCEPT !.dnsOrder = "p", !.proxy = s, !.sourcePort = "bad"],
          [o EXCEPT !.scanType = "syn", !.sourcePort = "bad", !.passive = p],
          [o EXCEPT !.verbose = s, !.silent = p],
          [o EXCEPT !.json = s, !.csv = p]} : <<s, p>> \in BOOLEAN \X BOOLEAN}
  \union
  {[o EXCEPT !.rate = 0], [o EXCEPT !.rate = 1, !.proxy = TRUE],
   [o EXCEPT !.threshold = 65536], [o EXCEPT !.prediction = 101],
   [o EXCEPT !.ports = <<Number(65536)>>], [o EXCEPT !.excludeParses = FALSE],
   [o EXCEPT !.iface = "unknown"], [o EXCEPT !.scanType = "syn", !.iface = "eth0"],
   [o EXCEPT !.scanType = "syn", !.sourceIp = "bad:port"],
   [o EXCEPT !.probes = TRUE, !.sn = TRUE],
   [o EXCEPT !.service = TRUE], [o EXCEPT !.ipVersion = {5}],
   [o EXCEPT !.warmUp = 0, !.retries = 0, !.ipVersion = {}],
   [o EXCEPT !.hosts = <<>>, !.file = NoFile, !.args = <<>>]}

\* On systems without the privilege or without a route.
Systems(o) ==
  {o, [o EXCEPT !.privileged = FALSE], [o EXCEPT !.router = FALSE]}

SomeCommands ==
  UNION {Systems(c) :
           c \in UNION {Ways(o) : o \in Sources} \union Odd(FromHosts)
                  \union Thresholds \union Dashes}

FirstOf100 == <<22, 443, 80>>
=============================================================================

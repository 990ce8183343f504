------------------------------ MODULE Startup ------------------------------
(***************************************************************************)
(* What happens to the command line before anything is scanned:            *)
(* Options.ValidateOptions, the target parser of pkg/target that main      *)
(* applies to -host, and the changes NewRunner makes to the options.       *)
(*                                                                         *)
(* A target line stands for what it means to the program: the networks or  *)
(* the addresses it names, and the port it carries (0 for none).           *)
(***************************************************************************)
EXTENDS PortSpec

CONSTANT Versions       \* {4, 6}

\* A command o is the options and the system they are given on:
\* privileges.IsPrivileged, and whether scan.PkgRouter is there.
OptionNames ==
  {"hosts", "hostLines", "file", "args", "ports", "portsFile", "scanType", "wn", "sn",
   "probes", "verbose", "silent", "json", "csv", "rate", "retries", "resume", "stats",
   "nmap", "stream", "passive", "verify", "iface", "sourceIp", "sourcePort", "ipVersion",
   "threshold", "proxy", "payload", "dnsOrder", "service", "warmUp", "smart",
   "prediction", "excludeParses", "scanAll", "ping", "privileged", "router"}
Privileged(o) == o.privileged
HasRouter(o)  == o.router

Line(kind, nets, v4, v6, port) ==
  [kind |-> kind, nets |-> nets, v4 |-> v4, v6 |-> v6, port |-> port]
Blank            == Line("blank", <<>>, <<>>, <<>>, 0)
Unresolvable     == Line("name", <<>>, <<>>, <<>>, 0)
TooLongLine      == Line("long", <<>>, <<>>, <<>>, 0)
Network(addrs)   == Line("cidr", <<addrs>>, <<>>, <<>>, 0)
Asn(nets)        == Line("asn", nets, <<>>, <<>>, 0)
IpV4(a)          == Line("ip", <<>>, <<a>>, <<>>, 0)
IpV6(a)          == Line("ip", <<>>, <<>>, <<a>>, 0)
Name(v4, v6)     == Line("name", <<>>, v4, v6, 0)
\* getPort: host:port with a valid port, and a name or an address for host.
WithPortOf(line, port) == [line EXCEPT !.port = port]

-----------------------------------------------------------------------------
(* pkg/target: one -host argument is a line in some form.                  *)

HostArg(form, line, scheme, port) ==
  [form |-> form, line |-> line, scheme |-> scheme, port |-> port]

defaultPortForScheme(scheme) ==
  CASE scheme = "https" -> 443 [] scheme = "http" -> 80
    [] scheme = "ftp" -> 21 [] scheme = "ftps" -> 990
    [] scheme = "ssh" -> 22 [] scheme = "smtp" -> 25
    [] scheme = "smtps" -> 465 [] OTHER -> 0

\* The error cases: empty, an invalid URL, a port that is no number.
Parses(h) == h.form # "bad"

\* Parse: the host, and its port, 0 when there is none.
Parse(h) ==
  [host |-> h.line,
   port |-> CASE h.form \in {"cidr", "plain"} -> 0
              [] h.form = "hostport" -> h.port
              [] h.form = "url" -> IF h.port # 0 THEN h.port
                                   ELSE defaultPortForScheme(h.scheme)]

\* ParseAll: the targets in order, each host:port once.
ParseAll(raws) ==
  LET parsed == [i \in DOMAIN SelectSeq(raws, Parses) |->
                   Parse(SelectSeq(raws, Parses)[i])]
  IN  FoldLeft(LAMBDA seen, t : IF Contains(seen, t) THEN seen
                                ELSE Append(seen, t), <<>>, parsed)

\* main: the hosts without their ports, and the ports behind those of -p.
PreProcessHosts(o) ==
  LET targets == ParseAll(o.hosts)
      ported  == SelectSeq(targets, LAMBDA t : t.port > 0)
  IN  [o EXCEPT
        !.hostLines = IF targets = <<>> THEN [i \in DOMAIN o.hosts |-> o.hosts[i].line]
                      ELSE [i \in DOMAIN targets |-> targets[i].host],
        !.ports = @ \o [i \in DOMAIN ported |-> Number(ported[i].port)]]

-----------------------------------------------------------------------------
(* ValidateOptions.                                                        *)

DefaultRateSynScan == 1000
DefaultRateConnectScan == 1500

\* Host discovery switches to a SYN scan; passive mode is a stream.
\* An unprivileged default rate is that of a connect scan.  A source with a
\* port is split in two, and what stands before the port is not looked at.
PassiveAlone(o) == o.stream
Streams(o) == o.stream \/ o.passive

Discovers(o) == o.wn \/ o.sn

AfterProxy(o) ==
  [o EXCEPT
    !.scanType = IF (Discovers(o) \/ @ = "syn") /\ ~o.proxy THEN "syn"
                 ELSE "connect",
    !.rate = IF ~Privileged(o) /\ @ = DefaultRateSynScan
             THEN DefaultRateConnectScan ELSE @,
    !.stream = Streams(o),
    !.sourcePort = IF o.sourceIp \in {"ip:port", "bad:port"} THEN "given" ELSE @]

\* Without a router the scan is a connect scan; the warm-up is 2 at least.
Validated(o) ==
  [AfterProxy(o) EXCEPT !.scanType = IF HasRouter(o) THEN @ ELSE "connect",
                        !.warmUp = IF @ <= 0 THEN 2 ELSE @]

NoInput(o) == o.hosts = <<>> /\ o.file.lines = <<>> /\ o.args = <<>>

\* The early returns of ValidateOptions.
Refused(o) ==
  \/ NoInput(o)
  \/ o.verbose /\ o.silent
  \/ o.json /\ o.csv
  \/ o.rate = 0
  \/ o.iface = "unknown"
  \/ Streams(o) /\ (o.resume \/ o.stats \/ o.nmap)
  \/ o.verify /\ Streams(o) /\ ~o.passive
  \/ o.sourceIp = "bad"
  \/ ~(o.ipVersion \subseteq Versions)
  \/ ~o.wn /\ o.probes
  \/ o.sn /\ ~Privileged(o)
  \/ o.threshold < 0 \/ o.threshold > MaxPort
  \/ o.payload /\ AfterProxy(o).scanType # "connect"
  \/ o.dnsOrder \notin {"p", "l", "lp", "pl"}
  \/ o.dnsOrder = "p" /\ ~o.proxy
  \/ o.service
  \/ o.smart /\ Streams(o)
  \/ o.prediction < 0 \/ o.prediction > 100

-----------------------------------------------------------------------------
(* NewRunner.                                                              *)

PortOptionsOf(o) ==
  [file |-> o.portsFile, ports |-> o.ports, exclude |-> <<>>, top |-> "none"]

\* configureHostDiscovery, the defaults of an empty IP version and of no
\* retries, and the connect scan Acquire falls back to without a free handler.
Configured(o, ports, acquired) ==
  [o EXCEPT !.wn = @ /\ Len(ports) > 2,
            !.ipVersion = IF @ = {} THEN Versions ELSE @,
            !.retries = IF @ = 0 THEN 3 ELSE @,
            !.scanType = IF acquired THEN @ ELSE "connect"]

shouldDiscoverHosts(o) == Discovers(o) /\ ~o.passive /\ HasRouter(o)
shouldUseRawPackets(o) == Privileged(o) /\ o.scanType = "syn" /\ HasRouter(o)

\* limits.RateLimitWithProxy.
Limited(o) == [o EXCEPT !.rate = IF o.proxy THEN @ \div 2 ELSE @]
=============================================================================

------------------------------- MODULE Banner -------------------------------
(***************************************************************************)
(* What is told from a port: the banner of pkg/runner/banner_grab.go, the  *)
(* service of pkg/banner and the findings of pkg/vuln.                     *)
(*                                                                         *)
(* A name of a service or product is the set of the words it contains when *)
(* it is read in lower case; a version is its place in the order of        *)
(* strings, 0 when it is empty.  A remote service is a record of           *)
(*   speaks    "http", "greets" (on its own), "answers" (a probe), "silent"*)
(*   tls       whether it does so inside TLS only                          *)
(*   refuses   whether it answers 400 to HTTP without TLS all the same     *)
(*   greeting  the marks in its first lines: "SSH-", "220 ", "redis", ...  *)
(*   product, version   the product it names and its version               *)
(***************************************************************************)
EXTENDS Integers, Sequences, FiniteSets

None == {}
Plain(s, how) == s.speaks = how /\ (~s.tls \/ (how = "http" /\ s.refuses))
Reply220(says) == {"220 ", "220-"} \cap says # {}

\* A switch: the value of the first case that holds.
FirstCase(cases, otherwise) ==
  LET hits == SelectSeq(cases, LAMBDA c : c[1])
  IN  IF hits = <<>> THEN otherwise ELSE hits[1][2]

-----------------------------------------------------------------------------
(* pkg/runner/banner_grab.go: the label of the banner, "" for no banner.   *)

ProbePorts == {25, 587, 110, 143, 21, 6379, 11211, 9200}

\* detectTCPService: by what was said, then by the port.
detectTCPService(says, port) ==
  FirstCase(<< <<"SSH-" \in says, "SSH">>,
               <<Reply220(says) /\ "ftp" \in says, "FTP">>,
               <<Reply220(says) /\ "smtp" \in says, "SMTP">>,
               <<"+OK" \in says, "POP3">>, <<"imap" \in says, "IMAP">>,
               <<"redis" \in says, "Redis">>, <<"mysql" \in says, "MySQL">>,
               <<"RFB " \in says, "VNC">>,
               <<port = 21, "FTP">>, <<port = 22, "SSH">>, <<port = 23, "Telnet">>,
               <<port = 25, "SMTP">>, <<port = 110, "POP3">>, <<port = 143, "IMAP">>,
               <<port = 3306, "MySQL">>, <<port = 5432, "PostgreSQL">>,
               <<port = 6379, "Redis">> >>, "TCP")

\* A service that says nothing by itself is sent the probe of the port, and at
\* last an HTTP request; some ports are sent that first.
grabTCPBanner(s, port) ==
  CASE Plain(s, "http") -> "HTTP"
    [] Plain(s, "greets") \/ (Plain(s, "answers") /\ port \in ProbePorts) ->
         detectTCPService(s.greeting, port)
    [] OTHER -> ""

grabUDPBanner(s, port) ==
  CASE s.speaks = "silent" -> ""
    [] s.speaks # "silent" -> CASE port = 53 -> "DNS" [] port = 123 -> "NTP"
                                [] port = 161 -> "SNMP"
                                [] port = 5060 /\ "SIP/2.0" \in s.greeting -> "SIP"
                                [] OTHER -> "UDP"

grabProtocolBanner(s, port, proto) ==
  CASE proto = "tcp" ->
         IF port \in {443, 8443} /\ s.speaks = "http" /\ s.tls THEN "HTTP"
         ELSE grabTCPBanner(s, port)
    [] proto = "udp" -> grabUDPBanner(s, port)

-----------------------------------------------------------------------------
(* pkg/banner.                                                             *)

TlsPorts == {443, 8443, 465, 993, 995, 2376, 6443}
WebPorts == {80, 443, 8080, 8443, 8888}

\* wellKnown, and guessServiceName.
guessServiceName(port) ==
  CASE port = 21 -> {"ftp"} [] port = 22 -> {"ssh"} [] port = 23 -> {"telnet"}
    [] port \in {25, 587} -> {"smtp"} [] port = 465 -> {"smtp", "smtps"}
    [] port = 53 -> {"dns"} [] port \in {80, 8080, 8888} -> {"http"}
    [] port = 110 -> {"pop3"} [] port = 995 -> {"pop3", "pop3s"}
    [] port = 143 -> {"imap"} [] port = 993 -> {"imap", "imaps"}
    [] port \in {443, 8443} -> {"http", "https"} [] port = 1433 -> {"mssql"}
    [] port = 1521 -> {"oracle"} [] port = 2375 -> {"docker", "http"}
    [] port = 2376 -> {"docker", "http", "https"} [] port = 3306 -> {"mysql"}
    [] port = 3389 -> {"rdp"} [] port = 5432 -> {"postgresql"} [] port = 5900 -> {"vnc"}
    [] port = 5984 -> {"couchdb"} [] port = 6379 -> {"redis"}
    [] port = 6443 -> {"k8s"} [] port \in {9200, 9300} -> {"elasticsearch"}
    [] port = 27017 -> {"mongodb"} [] OTHER -> {"unknown"}

\* read is RawBanner: the marks in what was read.
Info(service, product, version, confidence, read) ==
  [service |-> service, product |-> product, version |-> version,
   confidence |-> confidence, read |-> read]

\* grabHTTP speaks TLS only if it is told to; any response will do.
grabHTTP(s, useTLS) == IF useTLS THEN s.speaks = "http" /\ s.tls ELSE Plain(s, "http")

\* grabTCP reads lines and sends nothing.
grabTCP(s, useTLS) == s.speaks = "greets" /\ s.tls = useTLS

\* parseRawBanner: the first case that fits; "220 " comes before any SMTP.
parseRawBanner(s, port) ==
  LET says == s.greeting
      Named(service, confidence) == Info(service, service, 0, confidence, says)
      Told(service, version, confidence) ==
        Info(service, IF s.product = None THEN service ELSE s.product, version, confidence,
             says)
  IN  FirstCase(
        << <<"SSH-" \in says, Told({"ssh"}, s.version, 95)>>,
           <<{"220 ", "ftp"} \subseteq says, Told({"ftp"}, 0, 85)>>,
           <<Reply220(says), Told({"ftp", "smtp"}, 0, 60)>>,
           <<"smtp" \in says, Told({"smtp"}, 0, 90)>>,
           <<{"-ERR", "redis"} \cap says # {}, Named({"redis"}, 80)>>,
           <<"mongodb" \in says, Named({"mongodb"}, 75)>>,
           <<"mysql" \in says, Named({"mysql", "mariadb"}, 80)>>,
           <<"postgresql" \in says, Named({"postgresql"}, 75)>>,
           <<"elasticsearch" \in says, Named({"elasticsearch"}, 85)>>,
           <<"RFB " \in says, Info({"vnc"}, {"vnc"}, s.version, 95, says)>>,
           <<port = 23, Named({"telnet"}, 50)>> >>,
        Named(guessServiceName(port), 30))

\* Grab: over UDP and when nothing was read, the service is a guess.
Grab(s, port, proto, isTLS) ==
  LET useTLS == isTLS \/ port \in TlsPorts
  IN  CASE proto = "udp" -> Info(guessServiceName(port), None, 0, 30, {})
        [] proto # "udp" /\ port \in WebPorts /\ grabHTTP(s, useTLS) ->
             Info(IF useTLS THEN {"http", "https"} ELSE {"http"}, s.product, s.version, 85,
                  s.greeting)
        [] proto # "udp" /\ grabTCP(s, useTLS) -> parseRawBanner(s, port)
        [] OTHER -> Info(guessServiceName(port), None, 0, 20, {})

-----------------------------------------------------------------------------
(* pkg/vuln.                                                               *)

Finding(cve, title, port, host) ==
  [cve |-> cve, title |-> title, port |-> port, host |-> host]

\* An empty criterion fits everything, and no version fits every range.
Fits(criterion, words) == criterion = "" \/ criterion \in words

matchSig(sig, info, port) ==
  /\ sig.port \in {0, port}
  /\ Fits(sig.service, info.service)
  /\ Fits(sig.product, info.product)
  /\ Fits(sig.banner, info.read)
  /\ info.version # 0 => /\ sig.min # 0 => info.version >= sig.min
                         /\ sig.max # 0 => info.version <= sig.max

\* exposureChecks: by the service alone, one at most.
exposureChecks(info, port) ==
  LET Has(word) == word \in info.service
  IN  FirstCase(
        << <<Has("redis"), {"redis"}>>, <<Has("mongodb"), {"mongodb"}>>,
           <<Has("elasticsearch"), {"elasticsearch"}>>, <<Has("couchdb"), {"couchdb"}>>,
           <<Has("vnc"), {"vnc"}>>, <<Has("telnet"), {"telnet"}>>, <<Has("ftp"), {"ftp"}>>,
           <<port = 2375 /\ (Has("docker") \/ Has("http")), {"docker"}>>,
           <<port = 6443 /\ (Has("k8s") \/ Has("http")), {"k8s"}>>,
           <<Has("smtp"), {"smtp"}>> >>, {})

\* Scan: each CVE and title of a port once.
Scan(sigDB, info, port, host) ==
  {Finding(sig.cve, sig.title, port, host) :
     sig \in {g \in sigDB : matchSig(g, info, port)}}
  \union {Finding("", title, port, host) : title \in exposureChecks(info, port)}
=============================================================================

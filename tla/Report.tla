------------------------------- MODULE Report -------------------------------
(***************************************************************************)
(* From an open port to what the user reads: Runner.onReceive, which       *)
(* prints a port as soon as it is found, and at the end of the scan        *)
(* handleOutput, which writes the file and calls OnResult, the callback    *)
(* of enhance.go that grabs banners and collects findings, and the summary *)
(* that main or the signal handler prints.                                 *)
(*                                                                         *)
(* In a connect scan each probe goroutine records its port and then calls  *)
(* onReceive; in a SYN scan one TCP worker calls it and then records, and  *)
(* the UDP worker only records.  Nmap's part is in Results, and what a raw *)
(* worker does with late answers in RawScan.                               *)
(***************************************************************************)
EXTENDS Banner

CONSTANTS
  Deliveries,    \* the probes that find a port open
  PortOf,        \* what each finds: <<ip, [num, proto]>>
  NamesOf,       \* IPRanger.GetHostsByIP of each ip
  PortNames,     \* the host of a target host:port, for some <<ip, number>>
  IsName,        \* the names that are no addresses
  WithPort,      \* the deliveries of targets host:port
  Wanted,        \* the ips of the IP versions asked for
  Alive,         \* the hosts a host discovery heard of
  ServiceOf,     \* the remote service of each <<ip, port>>
  SigDB,         \* sigDB of pkg/vuln
  Commands,      \* the options that matter here
  CacheSize,     \* the entries of Runner.unique: 1500
  Rate,          \* -rate: the probes of a connect scan at a time
  main, handler  \* who finishes the scan

Finishers == {main, handler}
Receivers == Deliveries \union Finishers
Pairs     == {PortOf[d] : d \in Deliveries}
Key(pair) == <<pair[1], pair[2].num>>

\* An address of the ranger has a name: "ip", when it was given none.
ASSUME ReportAssumption ==
  /\ main # handler /\ Finishers \cap Deliveries = {} /\ WithPort \subseteq Deliveries
  /\ \A d \in Deliveries :
       PortOf[d] \in (DOMAIN NamesOf) \X [num : Nat, proto : {"tcp", "udp"}]
  /\ \A ip \in DOMAIN NamesOf : NamesOf[ip] # {}

VARIABLES
  options,
  at,         \* where each goroutine is
  job,        \* the HostResult each of them is in onReceive with
  unique,     \* Runner.unique, a cache: <<ip, number>> that are printed
  evicted,    \* a history: what the cache has dropped
  found,      \* ScanResults, and the Port it has for a pair
  objects,
  banners,    \* <<Port, pair>>: the Port has the Banner of the pair's service
  stdout,     \* the lines printed, and by whom
  file,       \* the lines of the output file
  snapshot,   \* the ports and Ports that a range loop of handleOutput goes over
  todo,       \* the hosts, or hosts by name, still to come in it
  grabs,      \* the goroutines of the OnResult callback at work
  told,       \* the ports of a host that OnResult has printed or uploaded
  findings,   \* allFindings
  summary     \* the findings that main printed

cache  == <<unique, evicted>>
result == <<found, objects, banners>>
output == <<stdout, file, snapshot, todo, grabs, told, findings, summary>>
vars   == <<options, at, job, cache, result, output>>

\* A Port is that of the list of ports, which the probes of a connect scan have
\* pointers to whatever their host is, or one of its own: that of a target
\* host:port, or of an answer of a raw scan.
SharedAlways(d) == <<PortOf[d][2], {}>>
PortObject(d) ==
  <<PortOf[d][2], IF options.raw \/ d \in WithPort THEN {d} ELSE {}>>

\* Before a pair is found, its Port has no meaning.
AnyObjects == [pair \in Pairs |-> PortObject(CHOOSE d \in Deliveries : PortOf[d] = pair)]

\* began is a history: what had been marked when onReceive was called.
NoJob == [ports |-> {}, left |-> {}, began |-> {}]

Init ==
  /\ options \in Commands
  /\ at = [g \in Receivers |-> CASE g = main -> "scan" [] g = handler -> "off"
                                 [] OTHER -> "idle"]
  /\ job = [g \in Receivers |-> NoJob]
  /\ unique = {} /\ evicted = {} /\ found = {} /\ objects = AnyObjects /\ banners = {}
  /\ stdout = {} /\ file = {}
  /\ snapshot = [f \in Finishers |-> [ports |-> {}, objects |-> AnyObjects]]
  /\ todo = [f \in Finishers |-> {}] /\ grabs = [f \in Finishers |-> {}]
  /\ told = {} /\ findings = {} /\ summary = {}

Ended   == at[main] = "done" \/ at[handler] = "done"
Goes(g, stage) == ~Ended /\ at' = [at EXCEPT ![g] = stage]

Structured == options.format \in {"json", "csv"}
Interrupted == at[handler] # "off"

-----------------------------------------------------------------------------
(* Port.Banner.                                                            *)

\* The Ports that a goroutine has: the one of its probe or answer, or those of
\* its range loop.
Held(g) == IF g \in Finishers THEN snapshot[g].objects
           ELSE [pair \in {PortOf[g]} |-> PortObject(g)]

\* What a service says, "" if it says nothing.
Said(pair) ==
  grabProtocolBanner(ServiceOf[pair], pair[2].num, pair[2].proto)

HasBanner(object) == \E b \in banners : b[1] = object

\* The answers for these pairs, empty ones too, are assigned to their Ports.
SetBanners(held, pairs) ==
  {b \in banners : \A pair \in pairs : b[1] # held[pair]}
    \union {<<held[pair], pair>> : pair \in {p \in pairs : Said(p) # ""}}

-----------------------------------------------------------------------------
(* onReceive.                                                              *)

\* Called with the ports of one host: another IP version is passed over.
Receives(g, pairs) ==
  /\ Goes(g, IF \E pair \in pairs : pair[1] \notin Wanted THEN "received" ELSE "has")
  /\ job' = [job EXCEPT ![g] = [ports |-> pairs, left |-> pairs,
                                began |-> unique \union evicted]]

NeverSeen(pair) == FALSE
Seen(pair) == Key(pair) \in unique

\* unique.Has, one port at a time: the first that is there ends the call.
Has(g) ==
  /\ at[g] = "has"
  /\ \E pair \in job[g].left :
       LET left == job[g].left \ {pair}
       IN  \/ Seen(pair) /\ Goes(g, "received") /\ UNCHANGED job
           \/ ~Seen(pair) /\ left # {} /\ Goes(g, "has")
                /\ job' = [job EXCEPT ![g].left = left]
           \/ ~Seen(pair) /\ left = {} /\ Goes(g, "set")
                /\ job' = [job EXCEPT ![g].left = job[g].ports]
  /\ UNCHANGED <<options, cache, result, output>>

\* With -nmap-cli and JSON or CSV nothing is printed yet.
AfterSet ==
  CASE options.nmapCli /\ Structured -> "received"
    [] ~(options.nmapCli /\ Structured) ->
         IF options.banner THEN "grab" ELSE "print"

\* A new entry takes the place of any other when the cache is full.
Evictions(key) ==
  IF key \in unique \/ Cardinality(unique) < CacheSize THEN {{}} ELSE {{k} : k \in unique}

Set(g) ==
  /\ at[g] = "set"
  /\ \E pair \in job[g].left : \E out \in Evictions(Key(pair)) :
       LET left == job[g].left \ {pair}
       IN  /\ unique' = (unique \ out) \union {Key(pair)}
           /\ evicted' = evicted \union out
           /\ job' = [job EXCEPT ![g].left = left]
           /\ Goes(g, IF left = {} THEN AfterSet ELSE "set")
  /\ UNCHANGED <<options, result, output>>

\* A port that has a banner is not asked again.
Silent(held, pairs) == {pair \in pairs : ~HasBanner(held[pair])}

GrabBanner(g) ==
  /\ at[g] = "grab"
  /\ job' = [job EXCEPT ![g].left = Silent(Held(g), job[g].ports)]
  /\ Goes(g, "banner")
  /\ UNCHANGED <<options, cache, result, output>>

\* The answer is assigned whoever has assigned one in between.
SetBanner(g) ==
  /\ at[g] = "banner"
  /\ banners' = SetBanners(Held(g), job[g].left)
  /\ Goes(g, "print")
  /\ UNCHANGED <<options, job, cache, found, objects, output>>

\* The names of a host; those that are bare addresses are replaced by the name
\* of a target host:port that has this address and one of these ports.
NamesFor(ip, pairs) ==
  LET others == {PortNames[Key(pair)] : pair \in
                   {p \in pairs : p[1] = ip /\ Key(p) \in DOMAIN PortNames}}
  IN  IF others = {} THEN NamesOf[ip]
      ELSE (NamesOf[ip] \cap IsName) \union
             (IF NamesOf[ip] \subseteq IsName THEN {} ELSE {CHOOSE o \in others : TRUE})

\* A line, with the pair whose service the banner is from, if there is one.
Line(g, host, pair) ==
  [by |-> g, host |-> host, pair |-> pair,
   banner |-> {b[2] : b \in {c \in banners : c[1] = Held(g)[pair]}}]
Lines(g, pairs) ==
  UNION {{Line(g, host, pair) : host \in NamesFor(pair[1], pairs)} : pair \in pairs}

PrintLines(g) ==
  /\ at[g] = "print"
  /\ stdout' = IF options.disableStdout THEN stdout
               ELSE stdout \union Lines(g, job[g].ports)
  /\ Goes(g, "received")
  /\ UNCHANGED <<options, job, cache, result, file, snapshot, todo, grabs, told,
                 findings, summary>>

OnReceive(g) ==
  Has(g) \/ Set(g) \/ GrabBanner(g) \/ SetBanner(g) \/ PrintLines(g)

-----------------------------------------------------------------------------
(* The scan.                                                               *)

Probing == {d \in Deliveries : at[d] \notin {"idle", "done"}}

\* handleHostPort: not after a cancellation, not for a port already known.
Begin(d) ==
  /\ at[d] = "idle" /\ ~options.raw /\ ~options.sn /\ at[main] = "scan"
  /\ Cardinality(Probing) < Rate
  /\ Goes(d, IF Interrupted \/ PortOf[d] \in found THEN "done" ELSE "dial")
  /\ UNCHANGED <<options, job, cache, result, output>>

\* The Port of an earlier answer is replaced.
AddPort(d) ==
  /\ found' = found \union {PortOf[d]}
  /\ objects' = [objects EXCEPT ![PortOf[d]] = PortObject(d)]

\* With -verify nothing is printed yet.
Connected(d) ==
  /\ at[d] = "dial"
  /\ AddPort(d)
  /\ IF options.verify THEN Goes(d, "done") /\ UNCHANGED job
     ELSE Receives(d, {PortOf[d]})
  /\ UNCHANGED <<options, cache, banners, output>>

Tcp(d) == PortOf[d][2].proto = "tcp"
InWorker == {"has", "set", "grab", "banner", "print", "received"}

AnyTime    == TRUE
WorkerFree == \A d \in Deliveries : Tcp(d) => at[d] \notin InWorker

\* A worker takes the next answer, whatever -verify and the phase.
Answer(d) ==
  /\ at[d] = "idle" /\ options.raw /\ ~options.sn
  /\ IF Tcp(d)
     THEN /\ WorkerFree
          /\ Receives(d, {PortOf[d]})
     ELSE Goes(d, "add") /\ UNCHANGED job
  /\ UNCHANGED <<options, cache, result, output>>

\* The phase is Scan: to the end of the scan, and again from ConnectVerification
\* on.  What a worker adds before that has verified all may get lost, as if it
\* was not kept.
InScan == at[main] = "scan" \/ options.verify

\* AddPort of the worker, unless the phase is Done.
Record(d) ==
  /\ at[d] = "add" \/ (at[d] = "received" /\ options.raw)
  /\ IF InScan THEN AddPort(d) ELSE UNCHANGED <<found, objects>>
  /\ Goes(d, "done")
  /\ UNCHANGED <<options, job, cache, banners, output>>

Return(d) ==
  /\ at[d] = "received" /\ ~options.raw
  /\ Goes(d, "done")
  /\ UNCHANGED <<options, job, cache, result, output>>

-----------------------------------------------------------------------------
(* The end of RunEnumeration.                                              *)

ProbesDone == options.raw \/ options.sn \/ \A d \in Deliveries : at[d] = "done"

EndScan ==
  /\ at[main] = "scan" /\ ProbesDone
  /\ Goes(main, IF options.sn THEN "file" ELSE "verify")
  /\ UNCHANGED <<options, job, cache, result, output>>

\* One host after the other: of the pairs with one Port only one is asked.
OnePerPort(pairs) == \A p, q \in pairs : objects[p] = objects[q] => p = q
Talks(pairs) == {pair \in Silent(objects, pairs) : Said(pair) # ""}
Asked(pairs) ==
  CHOOSE some \in SUBSET Talks(pairs) :
    /\ OnePerPort(some)
    /\ {objects[p] : p \in some} = {objects[p] : p \in Talks(pairs)}

\* ConnectVerification keeps the ports that answer once more, and
\* grabBannersForScanResults asks those that have no banner.
Verify ==
  /\ at[main] = "verify"
  /\ \E kept \in SUBSET found :
       /\ ~options.verify => kept = found
       /\ found' = kept
       /\ banners' = IF options.banner THEN SetBanners(objects, Asked(kept)) ELSE banners
  /\ Goes(main, "results")
  /\ UNCHANGED <<options, job, cache, objects, output>>

\* The signal handler cancels the scan and prints a summary of its own, before
\* it calls handleOutput as main does.
Signal ==
  /\ at[handler] = "off" /\ options.signal
  /\ Goes(handler, "results")
  /\ UNCHANGED <<options, job, cache, result, output>>

-----------------------------------------------------------------------------
(* handleOutput.                                                           *)

HostsOf(pairs)     == {pair[1] : pair \in pairs}
PortsOn(pairs, ip) == {pair \in pairs : pair[1] = ip}

\* The producer of GetIPsPorts keeps the read lock while it ranges (see Results).
Ranges(f) == snapshot' = [snapshot EXCEPT ![f] = [ports |-> found, objects |-> objects]]
Ranged(f, ip) == PortsOn(snapshot[f].ports, ip)

\* With -verify every host goes to onReceive first, with all of its ports.
ListHosts(f) ==
  /\ at[f] = "results"
  /\ Ranges(f)
  /\ todo' = [todo EXCEPT ![f] = IF options.verify THEN HostsOf(found) ELSE {}]
  /\ Goes(f, "received")
  /\ UNCHANGED <<options, job, cache, result, stdout, file, grabs, told, findings,
                 summary>>

NextReceived(f) ==
  /\ at[f] = "received"
  /\ IF todo[f] = {}
     THEN Goes(f, "file") /\ UNCHANGED <<job, todo>>
     ELSE \E ip \in todo[f] :
            /\ Receives(f, Ranged(f, ip))
            /\ todo' = [todo EXCEPT ![f] = @ \ {ip}]
  /\ UNCHANGED <<options, cache, result, stdout, file, snapshot, grabs, told, findings,
                 summary>>

AfterOutput(f) == IF f = main THEN "summary" ELSE "done"

\* The hosts with ports, or for main those that are alive, under each of their
\* names; the handler looks at ScanResults only.
Named(f) ==
  IF found # {}
  THEN UNION {{ip} \X NamesFor(ip, PortsOn(found, ip)) : ip \in HostsOf(found) \cap Wanted}
  ELSE IF options.sn /\ f = main
       THEN UNION {{ip} \X NamesOf[ip] : ip \in Alive \cap Wanted} ELSE {}

\* Without its file handleOutput gives up.
Create(f) ==
  /\ at[f] = "file"
  /\ IF options.file = "bad" THEN Goes(f, AfterOutput(f)) /\ UNCHANGED <<file, snapshot, todo>>
     ELSE /\ Goes(f, "output")
          /\ file' = {}
          /\ Ranges(f)
          /\ todo' = [todo EXCEPT ![f] = Named(f)]
  /\ UNCHANGED <<options, job, cache, result, stdout, grabs, told, findings, summary>>

\* What handleOutput prints itself: JSON once more, text only with
\* -disable-stdout; the rows of a CSV writer are never flushed.
Repeats ==
  \/ options.format = "json" /\ ~options.disableStdout
  \/ options.disableStdout

\* Upload replaced the callback of enhance.go (see UploadWriter), which has one
\* goroutine for each port and waits for them.
Enhanced == ~options.upload

NoWait(f)     == TRUE
AllGrabbed(f) == grabs[f] = {}

\* A host under a name, once the callback for the one before has returned.
OutputHost(f) ==
  /\ at[f] = "output" /\ AllGrabbed(f)
  /\ \E entry \in todo[f] :
       LET ip    == entry[1]
           host  == entry[2]
           alive == {[by |-> f, host |-> host, pair |-> <<ip>>, banner |-> {}]}
           ports == Ranged(f, ip)
           calls == {<<host, pair>> : pair \in ports}
           lines == IF ports = {} THEN alive ELSE {Line(f, host, pair) : pair \in ports}
       IN  /\ todo' = [todo EXCEPT ![f] = @ \ {entry}]
           /\ stdout' = IF Repeats \/ ports = {} THEN stdout \union lines ELSE stdout
           /\ file' = IF options.file = "good" THEN file \union lines ELSE file
           /\ grabs' = [grabs EXCEPT ![f] = IF Enhanced THEN calls ELSE {}]
           /\ told' = IF Enhanced THEN told ELSE told \union calls
  /\ UNCHANGED <<options, at, job, cache, result, snapshot, findings, summary>>
  /\ ~Ended

\* Grab, Print, Scan and AddFindings of one goroutine.
FindingsOf(host, pair) ==
  LET num == pair[2].num
  IN  Scan(SigDB, Grab(ServiceOf[pair], num, pair[2].proto, FALSE), num, host)

GrabService(f) ==
  /\ ~Ended
  /\ \E grab \in grabs[f] :
       /\ told' = told \union {grab}
       /\ findings' = findings \union FindingsOf(grab[1], grab[2])
       /\ grabs' = [grabs EXCEPT ![f] = @ \ {grab}]
  /\ UNCHANGED <<options, at, job, cache, result, stdout, file, snapshot, todo, summary>>

EndOutput(f) ==
  /\ at[f] = "output" /\ todo[f] = {}
  /\ AllGrabbed(f)
  /\ Goes(f, AfterOutput(f))
  /\ UNCHANGED <<options, job, cache, result, output>>

\* printFinalSummaries; then the process ends.
Summarise ==
  /\ at[main] = "summary"
  /\ summary' = findings
  /\ Goes(main, "done")
  /\ UNCHANGED <<options, job, cache, result, stdout, file, snapshot, todo, grabs, told,
                 findings>>

-----------------------------------------------------------------------------
Probe(d)  == Begin(d) \/ Connected(d) \/ Answer(d) \/ Record(d) \/ Return(d)
Finish(f) ==
  \/ ListHosts(f) \/ NextReceived(f) \/ Create(f) \/ OutputHost(f)
  \/ GrabService(f) \/ EndOutput(f)

Over == Ended /\ UNCHANGED vars

Next ==
  \/ EndScan \/ Verify \/ Signal \/ Summarise \/ Over
  \/ \E d \in Deliveries : Probe(d)
  \/ \E g \in Receivers : OnReceive(g)
  \/ \E f \in Finishers : Finish(f)

Spec == Init /\ [][Next]_vars

-----------------------------------------------------------------------------
(* Properties.                                                             *)

\* The variables keep their types, a Port has one banner, and a raw scan has one
\* TCP worker only.
Objects == {PortObject(d) : d \in Deliveries}
TypeOK ==
  /\ at \in [Receivers -> {"scan", "off", "idle", "dial", "has", "set", "grab",
                           "banner", "print", "received", "add", "done", "verify",
                           "results", "file", "output", "summary"}]
  /\ unique \union evicted \subseteq {Key(pair) : pair \in Pairs}
  /\ found \subseteq Pairs /\ objects \in [Pairs -> Objects]
  /\ snapshot \in [Finishers -> [ports : SUBSET Pairs, objects : [Pairs -> Objects]]]
  /\ banners \subseteq Objects \X Pairs
  /\ \A b, c \in banners : b[1] = c[1] => b = c
  /\ \A f \in Finishers : \A grab \in grabs[f] : at[f] = "output" /\ grab[2] \in Pairs
  /\ summary \subseteq findings
  /\ options.raw => \A d, e \in Deliveries :
       Tcp(d) /\ Tcp(e) /\ at[d] \in InWorker /\ at[e] \in InWorker => d = e

\* onReceive prints no port of a host that had been marked as printed before it
\* was called, unless the cache has dropped the mark: otherwise a line comes
\* twice only if two goroutines were in onReceive with the same host and number
\* at once (runner.go:167, 224-247).
PrintedOncePerTurn ==
  \A g \in Receivers :
    at[g] = "print" =>
      \A pair \in job[g].ports : Key(pair) \in job[g].began => Key(pair) \in evicted

\* What has a line on the standard output.  The others show in the blocks that
\* the callback prints, or on the dashboard only: UDP answers of a raw scan,
\* which no worker gives to onReceive, and the CSV rows that wait for nmap and
\* are then left in a writer which nobody flushes (runner.go:247, 1145-1160).
HasLine(pair) ==
  \/ Repeats
  \/ /\ ~(options.raw /\ pair[2].proto = "udp")
     /\ ~(options.nmapCli /\ options.format = "csv")
Printed(pair) == \E line \in stdout : line.pair[1] = pair[1] /\ Key(line.pair) = Key(pair)

\* When main ends by itself, nothing it found is lost on the way to the user,
\* whatever was passed over because another goroutine had printed it: each
\* port is given to the callback under each name of its host and is in the
\* file, each number with a line is on the standard output, and the findings
\* about each are in the summary.  Only answers that a raw scan with -verify
\* records after main has begun its output are in none of these
\* (runner.go:213-327, 859, 1053-1226, enhance.go:57-102, main.go:232-249).
FoundIsReported ==
  (at[main] = "done" /\ ~Interrupted /\ options.file # "bad") =>
    /\ (options.raw /\ options.verify) \/ snapshot[main].ports = found
    /\ \A pair \in {p \in snapshot[main].ports : p[1] \in Wanted} :
         /\ HasLine(pair) => Printed(pair)
         /\ options.file = "good" => \E line \in file : line.pair = pair
         /\ \A host \in NamesFor(pair[1], Ranged(main, pair[1])) :
              /\ <<host, pair>> \in told
              /\ Enhanced => FindingsOf(host, pair) \subseteq summary

\* The banner of a line is what the service of that host and port said, unless
\* both this port and the one of another host are in the range of a connect
\* scan: their probes share a Port, and the first banner is printed for both.
\* The probe of a target host:port never prints another's
\* (runner.go:654-664, 679-682, 261-263).
InRange(pair) == \E d \in Deliveries \ WithPort : PortOf[d] = pair
BannersMixOnlyIfShared ==
  \A line \in stdout \union file : \A pair \in line.banner :
    \/ pair = line.pair
    \/ /\ ~options.raw /\ pair[2] = line.pair[2] /\ line.by \notin WithPort
       /\ InRange(pair) /\ InRange(line.pair)
=============================================================================

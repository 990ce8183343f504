------------------------------ MODULE Targets ------------------------------
(***************************************************************************)
(* From the command line to the pairs that are scanned: the options, the   *)
(* goroutines of Runner.PreProcessTargets that add the targets to the      *)
(* IPRanger or stream them, and the ends of RunEnumeration that take them: *)
(* host discovery, the streams, and the scan of all targets.               *)
(*                                                                         *)
(* How pairs are gone through is in Enumeration and SmartScan: here a      *)
(* target is launched in one step.                                         *)
(***************************************************************************)
EXTENDS Startup, FiniteSets

CONSTANTS
  Commands,      \* the command lines
  MaxLines,      \* bound of the model: lines of the merged file
  Addrs,         \* the addresses
  IPv6Addrs,     \* the addresses of version 6
  Excluded,      \* addresses the deny lists reject
  Threads        \* -c

VARIABLES
  pc,         \* main: RunEnumeration
  options,    \* the options
  ports,      \* r.scanner.Ports
  loader,     \* the goroutine of Load: main itself when there is no stream
  lines,      \* the merged target file
  next,       \* the next line to read
  worker,     \* AddTarget of each line: where it is, what it still does
  closed,     \* streamChannel is closed
  hosts,      \* IPRanger.Hosts: <<network, port>>, port 0 for none
  tracked,    \* the networks of the IPRanger
  alive,      \* HostDiscoveryResults
  launched,   \* the pairs given to the scan
  skipped,    \* addresses at the port threshold
  queried     \* addresses looked up in the passive source

loading == <<loader, lines, next, worker, closed, hosts, tracked>>
scanned == <<alive, launched, skipped, queried>>
vars == <<pc, options, ports, loading, scanned>>

Waiting == [at |-> "waiting", todo |-> <<>>]
Working(todo) == [at |-> IF todo = <<>> THEN "done" ELSE "run", todo |-> todo]
Busy(i) == worker[i].at \in {"start", "run"}

Init ==
  /\ pc = "options" /\ options \in Commands
  /\ ports = <<>>
  /\ loader = "off" /\ lines = <<>> /\ next = 1
  /\ worker = [i \in 1 .. MaxLines |-> Waiting]
  /\ closed = FALSE /\ hosts = {} /\ tracked = {}
  /\ alive = {} /\ launched = {} /\ skipped = {} /\ queried = {}

-----------------------------------------------------------------------------
(* main and NewRunner.                                                     *)

ParseOptions ==
  /\ pc = "options"
  /\ IF Refused(options)
     THEN pc' = "fatal" /\ UNCHANGED options
     ELSE pc' = "runner" /\ options' = PreProcessHosts(Validated(options))
  /\ UNCHANGED <<ports, loading, scanned>>

NewRunner ==
  /\ pc = "runner"
  /\ LET parsed == ParsePorts(PortOptionsOf(options))
     IN  IF parsed.ok /\ options.excludeParses
         THEN /\ \E acquired \in BOOLEAN :
                   options' = Configured(options, parsed.ports, acquired)
              /\ ports' = parsed.ports
              /\ pc' = "start"
         ELSE pc' = "fatal" /\ UNCHANGED <<options, ports>>
  /\ UNCHANGED <<loading, scanned>>

\* SetSourceIP, SetInterface and SetSourcePort of a SYN scan: no address, an
\* interface that is gone since it was validated, no port.
SourceFails ==
  {bad \in BOOLEAN :
     IF ~(Privileged(options) /\ options.scanType = "syn") THEN ~bad
     ELSE IF options.sourceIp = "bad:port" \/ options.sourcePort = "bad" THEN bad
     ELSE bad => options.iface # "none"}

\* RunEnumeration: Load is called, or with -stream is another goroutine; a
\* proxy halves the rate.
Start ==
  /\ pc = "start"
  /\ \E bad \in SourceFails :
       IF bad THEN pc' = "fatal" /\ UNCHANGED <<options, loader>>
       ELSE /\ loader' = "merge"
            /\ pc' = IF options.stream THEN "discover" ELSE "load"
            /\ options' = Limited(options)
  /\ UNCHANGED <<ports, lines, next, worker, closed, hosts, tracked, scanned>>

\* A file that cannot be merged is an error, one that cannot be read again is
\* a warning.
Loaded ==
  /\ pc = "load" /\ loader \in {"ended", "unread", "failed"}
  /\ pc' = IF loader = "failed" THEN "fatal" ELSE "discover"
  /\ UNCHANGED <<options, ports, loading, scanned>>

-----------------------------------------------------------------------------
(* Load.                                                                   *)

\* The Scanner stops at a line of 64 KB or more.
TooLong(line) == line.kind = "long"

\* Nothing ends the last line of a file or of the standard input but its own
\* newline: what follows is the same line, which stands for no target.
Glued(o) == ~o.file.newline /\ o.file.lines # <<>> /\ o.args # <<>>
GluedLine(o) ==
  IF TooLong(Last(o.file.lines)) \/ TooLong(Head(o.args)) THEN TooLongLine
  ELSE Unresolvable

Merged(o) ==
  o.hostLines \o
    IF Glued(o) THEN Front(o.file.lines) \o <<GluedLine(o)>> \o Tail(o.args)
    ELSE o.file.lines \o o.args

\* The lines there may be: networks, or an address or the addresses of a name,
\* which may have a port.
TargetLines ==
  {line \in [kind : {"blank", "cidr", "asn", "ip", "name", "long"}, nets : Seq(SUBSET Addrs),
             v4 : Seq(Addrs \ IPv6Addrs), v6 : Seq(IPv6Addrs), port : Nat] :
     /\ line.kind \notin {"cidr", "asn"} => line.nets = <<>>
     /\ line.kind \notin {"ip", "name"} => line.port = 0
     /\ line.kind = "ip" => Len(line.v4) + Len(line.v6) = 1}

ASSUME TargetsAssumption ==
  /\ Threads \in Nat \ {0} /\ MaxLines \in Nat
  /\ IPv6Addrs \subseteq Addrs
  /\ \A o \in Commands :
       /\ o = [name \in OptionNames |-> o[name]]
       /\ LET given == PreProcessHosts(Validated(o))
          IN  /\ {given.hostLines, given.file.lines, given.args} \subseteq Seq(TargetLines)
              /\ Len(Merged(given)) <= MaxLines

MergeToFile ==
  /\ loader = "merge" /\ pc # "fatal"
  /\ IF options.file.opens
     THEN lines' = Merged(options) /\ loader' = "read"
     ELSE loader' = "failed" /\ UNCHANGED lines
  /\ UNCHANGED <<pc, options, ports, next, worker, closed, hosts, tracked, scanned>>

\* The channel is left open.
LeaveOpen == FALSE
Closes == options.stream

\* PreProcessTargets cannot open the merged file: only the channel is closed.
OpenFails ==
  /\ loader = "read" /\ next = 1 /\ pc # "fatal"
  /\ loader' = "unread" /\ closed' = Closes
  /\ UNCHANGED <<pc, options, ports, lines, next, worker, hosts, tracked, scanned>>

\* s.Scan() is false; an error of the Scanner is not asked for.
AtEnd == next \in DOMAIN lines => TooLong(lines[next])

NoThreadLimit == TRUE
HasThread == Cardinality({i \in DOMAIN worker : Busy(i)}) < Threads

\* One goroutine for each line, no more than the threads at a time.
ReadLine ==
  /\ loader = "read" /\ ~AtEnd /\ pc # "fatal"
  /\ HasThread
  /\ worker' = [worker EXCEPT ![next].at = "start"]
  /\ next' = next + 1
  /\ UNCHANGED <<pc, options, ports, loader, lines, closed, hosts, tracked, scanned>>

NoWait   == TRUE
AllAdded == \A i \in DOMAIN worker : ~Busy(i)

\* wg.Wait(), and the deferred close of the channel.
EndLoad ==
  /\ loader = "read" /\ AtEnd /\ pc # "fatal"
  /\ AllAdded
  /\ loader' = "ended" /\ closed' = Closes
  /\ UNCHANGED <<pc, options, ports, lines, next, worker, hosts, tracked, scanned>>

-----------------------------------------------------------------------------
(* AddTarget, for one line.                                                *)

Target(net, ip, port) == [net |-> net, ip |-> ip, port |-> port]
NoIp == "none"
Send(target)   == [to |-> "stream", target |-> target]
Add(net, port) == [to |-> "ranger", target |-> Target(net, NoIp, port)]

PortsGiven == options.ports # <<>>

\* A network: to the stream, or to the ranger.
Whole(net) == <<IF options.stream THEN Send(Target(net, NoIp, 0)) ELSE Add(net, 0)>>

\* An address that a name stands for, with or without a port of its own.
ForAddress(a, port) ==
  CASE options.stream /\ port = 0 -> Whole({a}) \o <<Add({a}, 0)>>
    [] options.stream /\ port # 0 ->
         <<Send(Target({}, a, port))>> \o
           (IF PortsGiven THEN Whole({a}) \o <<Add({a}, 0)>> ELSE <<>>)
    [] ~options.stream -> <<Add({a}, IF PortsGiven THEN 0 ELSE port)>>

\* host2ips and the deny list: the addresses of a version that are left.  The
\* IP version is asked of a name only, not of an address.
Left(line, version) ==
  {a \in ToSet(IF version = 4 THEN line.v4 ELSE line.v6) \ Excluded :
     line.kind = "name" => version \in options.ipVersion}

FirstOf(list, left) ==
  {list[k] : k \in {k \in DOMAIN list : /\ list[k] \in left
                                       /\ \A j \in 1 .. (k - 1) : list[j] \notin left}}

\* resolveFQDN: the fastest address that answers a ping, if one does, all
\* addresses, or the first of each version.
ResolutionsOf(line) ==
  LET v4 == Left(line, 4)
      v6 == Left(line, 6)
  IN  CASE Privileged(options) /\ options.ping /\ Cardinality(v4) > 1 ->
             {{a} : a \in v4} \union {{}}
        [] OTHER -> {IF options.scanAll THEN v4 \union v6
                     ELSE FirstOf(line.v4, v4) \union FirstOf(line.v6, v6)}

InRanger(a) == a \in UNION tracked

\* An address that is not in the ranger yet; otherwise it is resolved.
AddrsOf(line) == line.v4 \o line.v6
AsAddress(line) == line.kind = "ip" /\ line.port = 0 /\ ~InRanger(AddrsOf(line)[1])

\* What AddTarget does for a line, one thing after the other.
ForNets(line) == FlattenSeq([k \in DOMAIN line.nets |-> Whole(line.nets[k])])
ForName(line, chosen) ==
  FlattenSeq([k \in DOMAIN AddrsOf(line) |->
                IF AddrsOf(line)[k] \in chosen
                THEN ForAddress(AddrsOf(line)[k], line.port) ELSE <<>>])

AddTarget(i) ==
  /\ worker[i].at = "start"
  /\ \E todo \in
       LET line == lines[i]
       IN  CASE line.kind \in {"blank", "cidr", "asn"} -> {ForNets(line)}
             [] AsAddress(line) -> {Whole({AddrsOf(line)[1]})}
             [] OTHER -> {ForName(line, chosen) : chosen \in ResolutionsOf(line)} :
       worker' = [worker EXCEPT ![i] = Working(todo)]
  /\ UNCHANGED <<pc, options, ports, loader, lines, next, closed, hosts, tracked,
                 scanned>>

Does(i, to) == worker[i].at = "run" /\ Head(worker[i].todo).to = to
Done(i) == worker' = [worker EXCEPT ![i] = Working(Tail(@.todo))]

\* AddHostWithMetadata.
AddHost(i) ==
  /\ Does(i, "ranger")
  /\ LET target == Head(worker[i].todo).target
     IN  /\ hosts' = hosts \union {<<target.net, target.port>>}
         /\ tracked' = IF target.port = 0 THEN tracked \union {target.net}
                       ELSE tracked
  /\ Done(i)
  /\ UNCHANGED <<pc, options, ports, loader, lines, next, closed, scanned>>

-----------------------------------------------------------------------------
(* The streams.                                                            *)

Tracked(net) == IF net = {} THEN tracked ELSE tracked \union {net}

\* A network on all ports; an address on its own port.
PairsOf(target) ==
  IF target.net # {} THEN target.net \X ToSet(ports)
  ELSE {<<target.ip, Port(target.port, "tcp")>>}

\* The pairs that are launched of those there are.  An address that as many
\* ports were found on as -port-threshold says is passed over from then on;
\* what was found on it was launched before.
OfAddress(pairs, a) == {pair \in pairs : pair[1] = a}
Launches(pairs) ==
  IF options.threshold = 0 THEN {pairs}
  ELSE {some \in SUBSET pairs :
          /\ \A pair \in some : pair[1] \notin skipped
          /\ \A pair \in pairs \ some :
               \/ pair[1] \in skipped
               \/ Cardinality(OfAddress(launched \union some, pair[1]))
                    >= options.threshold}
Launch(pairs, others) ==
  \E some \in Launches(pairs) :
    /\ launched' = launched \union some \union others
    /\ skipped' = skipped \union {pair[1] : pair \in pairs \ some}

\* Nothing is buffered: the goroutine hands its target to the loop that takes
\* it.  Neither the deny list nor the IP version is looked at here.
StreamActive(i) ==
  /\ pc = "stream" /\ ~options.passive
  /\ Does(i, "stream") /\ ~closed
  /\ LET target == Head(worker[i].todo).target
     IN  tracked' = Tracked(target.net) /\ Launch(PairsOf(target), {})
  /\ Done(i)
  /\ UNCHANGED <<pc, options, ports, loader, lines, next, closed, hosts, alive,
                 queried>>

\* A target that is no network has no stream of addresses: the error is
\* dropped, and the loop ranges over a nil channel.
StreamPassive(i) ==
  /\ pc = "stream" /\ options.passive
  /\ Does(i, "stream") /\ ~closed
  /\ LET target == Head(worker[i].todo).target
     IN  /\ pc' = IF target.net = {} THEN "stuck" ELSE pc
         /\ tracked' = Tracked(target.net)
         /\ queried' = queried \union target.net
  /\ Done(i)
  /\ UNCHANGED <<options, ports, loader, lines, next, closed, hosts, alive, launched,
                 skipped>>

EndStream ==
  /\ pc = "stream" /\ closed
  /\ pc' = "done"
  /\ UNCHANGED <<options, ports, loading, scanned>>

-----------------------------------------------------------------------------
(* Host discovery and the scan of all targets.                             *)

Family(a) == IF a \in IPv6Addrs THEN 6 ELSE 4
OfVersion(addrs) == {a \in addrs : Family(a) \in options.ipVersion}

\* GetTargetIps: the networks without a port.
Listed == UNION {h[1] : h \in {g \in hosts : g[2] = 0}}

RawDiscovery == shouldDiscoverHosts(options) /\ shouldUseRawPackets(options)

\* Without a target in the ranger the run is over; with -sn nothing more is
\* done.  Any of the hosts probed may answer.
DiscoverHosts ==
  /\ pc = "discover" /\ RawDiscovery
  /\ IF hosts = {} THEN pc' = "fatal" /\ UNCHANGED alive
     ELSE /\ alive' \in SUBSET (OfVersion(Listed) \ Excluded)
          /\ pc' = CASE options.sn -> "done"
                     [] ~options.sn -> IF options.stream THEN "stream" ELSE "scan"
  /\ UNCHANGED <<options, ports, loading, launched, skipped, queried>>

SkipDiscovery ==
  /\ pc = "discover" /\ ~RawDiscovery
  /\ pc' = IF options.stream THEN "stream" ELSE "scan"
  /\ UNCHANGED <<options, ports, loading, scanned>>

\* The hosts heard of, or everything; and the targets with a port, which no
\* threshold holds back.
Scan ==
  /\ pc = "scan"
  /\ LET scope == IF alive # {} THEN alive ELSE Listed
         pairs == (OfVersion(scope) \ Excluded) \X ToSet(ports)
         own   == {h \in hosts : h[2] # 0}
     IN  IF hosts = {} THEN pc' = "fatal" /\ UNCHANGED <<launched, skipped>>
         ELSE /\ Launch(pairs, UNION {h[1] \X {Port(h[2], "tcp")} : h \in own})
              /\ pc' = "done"
  /\ UNCHANGED <<options, ports, loading, alive, queried>>

\* The process has ended, or nothing will ever happen again.
Over ==
  /\ \/ pc \in {"done", "fatal", "stuck"}
     \/ options.stream /\ loader = "failed"
  /\ UNCHANGED vars

Main ==
  \/ ParseOptions \/ NewRunner \/ Start \/ Loaded \/ DiscoverHosts
  \/ SkipDiscovery \/ Scan \/ EndStream

Load == MergeToFile \/ OpenFails \/ ReadLine \/ EndLoad

Work(i) == AddTarget(i) \/ AddHost(i) \/ StreamActive(i) \/ StreamPassive(i)

Next == Main \/ Load \/ Over \/ \E i \in DOMAIN worker : Work(i)

\* Every goroutine that can run does.
Fairness ==
  /\ WF_vars(Main) /\ WF_vars(Load)
  /\ \A i \in 1 .. MaxLines : WF_vars(Work(i))

Spec == Init /\ [][Next]_vars /\ Fairness

-----------------------------------------------------------------------------
(* Properties.                                                             *)

\* The variables keep their types, and no more goroutines than -c resolve
\* targets at a time.
TypeOK ==
  /\ pc \in {"options", "runner", "start", "load", "discover", "stream", "scan",
             "done", "fatal", "stuck"}
  /\ loader \in {"off", "merge", "read", "ended", "unread", "failed"}
  /\ next \in 1 .. (MaxLines + 1)
  /\ \A i \in DOMAIN worker : worker[i].at \in {"waiting", "start", "run", "done"}
  /\ Cardinality({i \in DOMAIN worker : Busy(i)}) <= Threads
  /\ closed \in BOOLEAN

\* The lines the user gave, but for two that were glued together.
GivenLines ==
  ToSet(options.hostLines) \union
    IF Glued(options) THEN ToSet(Front(options.file.lines)) \union ToSet(Tail(options.args))
    ELSE ToSet(options.file.lines) \union ToSet(options.args)

\* The lines before one that is too long.
Before(list) ==
  {list[i] : i \in {j \in DOMAIN list : \A k \in 1 .. j : ~TooLong(list[k])}}
CutOff(line) ==
  (\E i \in DOMAIN lines : TooLong(lines[i])) /\ line \notin Before(lines)

\* An address at the threshold is owed no more.
Passed(a) == options.threshold # 0 /\ a \in skipped
Taken(pairs) == \A pair \in pairs : pair \in launched \/ Passed(pair[1])

\* What a line is owed: its own port, and the ports of the options unless it
\* has one and no list was given or, without -stream, a list took its place.
OwedTo(a, line) ==
  IF options.passive THEN IF line.port = 0 THEN a \in queried ELSE TRUE
  ELSE /\ line.port # 0 /\ (options.stream \/ ~PortsGiven)
            => \/ <<a, Port(line.port, "tcp")>> \in launched
               \/ options.stream /\ Passed(a)
       /\ line.port = 0 \/ PortsGiven => Taken({a} \X ToSet(ports))

\* When a run that is no discovery is done, every target of the command line
\* was scanned or looked up, unless the file of the targets could not be read
\* again or had a line too long before it: no goroutine was still adding one,
\* the check for an address already in the ranger dropped none, and the stream
\* was read to its end (targets.go:93-219).
EveryTargetScanned ==
  (pc = "done" /\ ~RawDiscovery /\ loader # "unread") =>
    \A line \in {given \in GivenLines : ~CutOff(given)} :
      /\ \A a \in OfVersion(UNION ToSet(line.nets)) \ Excluded : OwedTo(a, line)
      /\ line.kind = "ip" =>
           \A a \in OfVersion(ToSet(AddrsOf(line))) \ Excluded : OwedTo(a, line)
      /\ line.kind = "name" =>
           \E chosen \in ResolutionsOf(line) : \A a \in chosen : OwedTo(a, line)

\* Options that exclude each other never meet in a run, however they were
\* combined, switched on by one another or fallen back from: what sends raw
\* packets has the privilege and a route and uses no proxy; a passive run is
\* a stream; a stream has no resume, statistics, predictive scan or, unless it
\* is passive, verification; a payload goes with a connect scan only
\* (validate.go:34-182).
ModesExclude ==
  pc \notin {"options", "fatal"} =>
    /\ shouldUseRawPackets(options) => Privileged(options) /\ HasRouter(options) /\ ~options.proxy
    /\ options.passive => options.stream
    /\ options.stream => ~(options.resume \/ options.stats \/ options.smart)
    /\ options.stream /\ options.verify => options.passive
    /\ options.payload => options.scanType = "connect"

\* A run ends, unless its targets cannot be merged into a file while they are
\* streamed, or a passive stream meets a target with a port: then it hangs.
EndsUnlessStuck ==
  <>(\/ pc \in {"done", "fatal", "stuck"}
     \/ options.stream /\ loader = "failed")
=============================================================================

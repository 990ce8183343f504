--------------------------- MODULE TargetsProofs ---------------------------
(***************************************************************************)
(* Proofs about Targets: options that exclude each other never meet, and   *)
(* every target of the command line reaches the scan, whether it is loaded *)
(* first or streamed while others are still resolved.                      *)
(***************************************************************************)
EXTENDS Targets, SequenceLemmas

-----------------------------------------------------------------------------
(* The options.                                                            *)

IsCommand(o) == o = [name \in OptionNames |-> o[name]]

\* What the options keep to once they are validated.
Modes(o) ==
  /\ o.stream \in BOOLEAN
  /\ o.scanType = "syn" => ~o.proxy
  /\ o.passive => o.stream
  /\ o.stream => ~(o.resume \/ o.stats \/ o.smart)
  /\ o.stream /\ o.verify => o.passive
  /\ o.payload => o.scanType = "connect"

\* The target lines of the command o are still in the options.
SameInput(o) ==
  LET given == PreProcessHosts(Validated(o))
  IN  /\ options.hostLines = given.hostLines
      /\ options.file = given.file /\ options.args = given.args

OptionsInv ==
  /\ IsCommand(options)
  /\ pc = "options" => options \in Commands
  /\ pc \notin {"options", "fatal"} =>
       Modes(options) /\ \E o \in Commands : SameInput(o)

\* What ValidateOptions and the parser of -host make of a command.
LEMMA ValidatedModes ==
  ASSUME NEW o \in Commands, ~Refused(o)
  PROVE  /\ IsCommand(PreProcessHosts(Validated(o)))
         /\ Modes(PreProcessHosts(Validated(o)))
<1>1. /\ IsCommand(o)
      /\ {"scanType", "rate", "stream", "sourcePort", "warmUp", "hostLines", "ports"}
           \subseteq OptionNames
  BY TargetsAssumption DEF IsCommand, OptionNames
<1>. DEFINE a == AfterProxy(o)
            v == Validated(o)
            p == PreProcessHosts(v)
<1>2. /\ IsCommand(a)
      /\ \A name \in OptionNames \ {"scanType", "rate", "stream", "sourcePort"} :
           a[name] = o[name]
      /\ a.stream = Streams(o)
      /\ a.scanType = IF (Discovers(o) \/ o.scanType = "syn") /\ ~o.proxy THEN "syn"
                      ELSE "connect"
  BY <1>1 DEF IsCommand, AfterProxy
<1>. HIDE DEF a
<1>3. /\ IsCommand(v)
      /\ \A name \in OptionNames \ {"scanType", "warmUp"} : v[name] = a[name]
      /\ v.scanType = IF HasRouter(o) THEN a.scanType ELSE "connect"
  BY <1>1, <1>2 DEF IsCommand, Validated, a
<1>. HIDE DEF v
<1>4. /\ IsCommand(p)
      /\ \A name \in OptionNames \ {"hostLines", "ports"} : p[name] = v[name]
  BY <1>1, <1>3 DEF IsCommand, PreProcessHosts
<1>. HIDE DEF p
<1>5. /\ p.scanType = v.scanType /\ p.proxy = o.proxy /\ p.passive = o.passive
      /\ p.stream = Streams(o) /\ p.resume = o.resume /\ p.stats = o.stats
      /\ p.smart = o.smart /\ p.verify = o.verify /\ p.payload = o.payload
  BY <1>2, <1>3, <1>4 DEF OptionNames
<1>6. /\ ~(Streams(o) /\ (o.resume \/ o.stats \/ o.nmap))
      /\ ~(o.verify /\ Streams(o) /\ ~o.passive)
      /\ ~(o.payload /\ a.scanType # "connect")
      /\ ~(o.smart /\ Streams(o))
  BY DEF Refused, a
<1>7. Modes(p)
  BY <1>2, <1>3, <1>5, <1>6 DEF Modes, Streams
<1>. QED
  BY <1>4, <1>7 DEF p, v

\* What NewRunner and RunEnumeration change of them.
LEMMA ConfiguredModes ==
  ASSUME IsCommand(options), NEW list, NEW acquired \in BOOLEAN,
         NEW new \in {Configured(options, list, acquired), Limited(options)}
  PROVE  /\ IsCommand(new)
         /\ \A name \in OptionNames \ {"wn", "ipVersion", "retries", "scanType", "rate"} :
              new[name] = options[name]
         /\ new.scanType \in {options.scanType, "connect"}
         /\ Modes(options) => Modes(new)
<1>1. {"wn", "ipVersion", "retries", "scanType", "rate"} \subseteq OptionNames
  BY DEF OptionNames
<1>2. /\ IsCommand(new)
      /\ \A name \in OptionNames \ {"wn", "ipVersion", "retries", "scanType", "rate"} :
           new[name] = options[name]
      /\ new.scanType \in {options.scanType, "connect"}
  BY <1>1 DEF IsCommand, Configured, Limited
<1>3. Modes(options) => Modes(new)
  BY <1>2 DEF Modes, OptionNames
<1>. QED
  BY <1>2, <1>3

\* The options change in three steps, before anything is loaded.
LEMMA OptionSteps ==
  ASSUME Next
  PROVE  ParseOptions \/ NewRunner \/ Start \/ UNCHANGED <<options, ports>>
  BY DEF Next, Main, Load, Work, Over, ParseOptions, NewRunner, Start, Loaded,
     DiscoverHosts, SkipDiscovery, Scan, EndStream, MergeToFile, ReadLine, OpenFails, EndLoad,
     AddTarget, AddHost, StreamActive, StreamPassive, vars

LEMMA OptionsStep ==
  ASSUME OptionsInv, Next
  PROVE  OptionsInv'
<1>1. CASE ParseOptions
  <2>1. CASE Refused(options)
    BY <1>1, <2>1 DEF ParseOptions, OptionsInv
  <2>2. CASE ~Refused(options)
    <3>1. options \in Commands /\ pc' = "runner"
          /\ options' = PreProcessHosts(Validated(options))
      BY <1>1, <2>2 DEF ParseOptions, OptionsInv
    <3>2. IsCommand(options') /\ Modes(options')
      BY <2>2, <3>1, ValidatedModes
    <3>3. \E o \in Commands : SameInput(o)'
      <4>1. PICK o \in Commands : o = options
        BY <3>1
      <4>2. SameInput(o)'
        BY <3>1, <4>1 DEF SameInput
      <4>. QED
        BY <4>2
    <3>. QED
      BY <3>1, <3>2, <3>3 DEF OptionsInv
  <2>. QED
    BY <2>1, <2>2
<1>2. CASE NewRunner \/ Start
  <2>1. pc \in {"runner", "start"} /\ pc' \notin {"options"}
    BY <1>2 DEF NewRunner, Start
  <2>2. CASE UNCHANGED options
    BY <2>1, <2>2 DEF OptionsInv, SameInput
  <2>3. CASE \E list : \E acquired \in BOOLEAN :
               options' \in {Configured(options, list, acquired), Limited(options)}
    <3>1. IsCommand(options') /\ Modes(options')
          /\ \A name \in {"hostLines", "file", "args"} : options'[name] = options[name]
      BY <2>1, <2>3, ConfiguredModes DEF OptionsInv, OptionNames
    <3>. QED
      BY <2>1, <3>1 DEF OptionsInv, SameInput
  <2>. QED
    BY <1>2, <2>2, <2>3 DEF NewRunner, Start
<1>3. CASE UNCHANGED options /\ ~ParseOptions
  <2>1. pc = "options" => pc' = "options"
    BY <1>3 DEF Next, Main, Load, Work, Over, NewRunner, Start, Loaded,
       DiscoverHosts, SkipDiscovery, Scan, EndStream, MergeToFile, ReadLine, OpenFails, EndLoad,
       AddTarget, AddHost, StreamActive, StreamPassive, vars
  <2>2. pc' = "options" => pc = "options"
    BY <1>3 DEF Next, Main, Load, Work, Over, NewRunner, Start, Loaded,
       DiscoverHosts, SkipDiscovery, Scan, EndStream, MergeToFile, ReadLine, OpenFails, EndLoad,
       AddTarget, AddHost, StreamActive, StreamPassive, vars
  <2>3. pc = "fatal" => pc' = "fatal"
    BY DEF Next, Main, Load, Work, Over, ParseOptions, NewRunner, Start, Loaded,
       DiscoverHosts, SkipDiscovery, Scan, EndStream, MergeToFile, ReadLine, OpenFails, EndLoad,
       AddTarget, AddHost, StreamActive, StreamPassive, vars
  <2>. QED
    BY <1>3, <2>1, <2>2, <2>3 DEF OptionsInv, SameInput
<1>. QED
  BY <1>1, <1>2, <1>3, OptionSteps
-----------------------------------------------------------------------------
(* What is loaded.                                                         *)

Targeted == [net : SUBSET Addrs, ip : Addrs \cup {NoIp}, port : Nat]
Items    == [to : {"stream", "ranger"}, target : Targeted]
Workers  == [at : {"waiting", "start", "run", "done"}, todo : Seq(Items)]

\* The lines are read in order, a goroutine for each; the file is that of the
\* options; and the end of the goroutines is awaited.
LoadInv ==
  /\ worker \in [1 .. MaxLines -> Workers]
  /\ next \in 1 .. (MaxLines + 1) /\ next <= Len(lines) + 1
  /\ lines \in Seq(TargetLines) /\ Len(lines) <= MaxLines
  /\ \A i \in 1 .. MaxLines :
       /\ worker[i].at = "waiting" <=> i >= next
       /\ worker[i].at = "run" <=> worker[i].todo # <<>>
  /\ \A i \in 1 .. (next - 1) : ~TooLong(lines[i])
  /\ loader \in {"off", "merge", "read", "ended", "unread", "failed"}
  /\ loader \in {"off", "merge", "failed"} => next = 1 /\ lines = <<>>
  /\ loader \in {"read", "ended"} => lines = Merged(options)
  /\ loader = "ended" => AtEnd
  /\ loader \in {"ended", "unread"} => AllAdded
  /\ closed \in BOOLEAN /\ (closed => loader \in {"ended", "unread"})

\* What Scan leaves is all that was loaded.
ScannedAll ==
  /\ Taken((OfVersion(Listed) \ Excluded) \X ToSet(ports))
  /\ \A h \in hosts : h[2] # 0 => h[1] \X {Port(h[2], "tcp")} \subseteq launched

\* What main has done when it is where it is.
MainInv ==
  /\ pc \in {"options", "runner", "start", "load", "discover", "stream", "scan",
             "done", "fatal", "stuck"}
  /\ pc \in {"options", "runner", "start"} => loader = "off" /\ alive = {}
  /\ loader = "off" => pc \in {"options", "runner", "start", "fatal"}
  /\ pc \in {"load", "scan"} => ~options.stream
  /\ pc \in {"stream", "stuck"} => options.stream
  /\ pc \in {"discover", "scan", "done"} /\ ~options.stream =>
       loader \in {"ended", "unread"}
  /\ pc # "fatal" /\ alive # {} => RawDiscovery
  /\ pc = "done" /\ ~RawDiscovery => IF options.stream THEN closed ELSE ScannedAll

\* What is launched or at the threshold stays so.
LEMMA KeepsTaken ==
  ASSUME NEW pairs, Taken(pairs), UNCHANGED options,
         launched \subseteq launched', skipped \subseteq skipped'
  PROVE  Taken(pairs)'
  BY DEF Taken, Passed

\* A pair is launched, or its address is at the threshold.
LEMMA LaunchTakes ==
  ASSUME NEW pairs, NEW others, Launch(pairs, others), UNCHANGED options
  PROVE  /\ launched \subseteq launched' /\ others \subseteq launched'
         /\ skipped \subseteq skipped' /\ Taken(pairs)'
<1>1. PICK some \in Launches(pairs) :
        /\ launched' = launched \union some \union others
        /\ skipped' = skipped \union {pair[1] : pair \in pairs \ some}
  BY DEF Launch
<1>2. some # pairs => options.threshold # 0
  BY DEF Launches
<1>3. ASSUME NEW pair \in pairs PROVE pair \in launched' \/ Passed(pair[1])'
  BY <1>1, <1>2 DEF Passed
<1>. QED
  BY <1>1, <1>3 DEF Taken

LEMMA Workings ==
  ASSUME NEW todo \in Seq(Items)
  PROVE  /\ Working(todo) \in Workers /\ Working(todo).todo = todo
         /\ Working(todo).at \in {"run", "done"}
         /\ Working(todo).at = "run" <=> todo # <<>>
  BY DEF Working, Workers

LEMMA ItemsTyped ==
  /\ \A net \in SUBSET Addrs : Whole(net) \in Seq(Items)
  /\ \A a \in Addrs, port \in Nat : ForAddress(a, port) \in Seq(Items)
<1>1. ASSUME NEW net \in SUBSET Addrs, NEW port \in Nat
      PROVE  /\ Add(net, port) \in Items
             /\ \A a \in Addrs : Send(Target(net, a, port)) \in Items
             /\ Send(Target(net, NoIp, port)) \in Items
  BY DEF Add, Send, Target, Items, Targeted
<1>2. ASSUME NEW net \in SUBSET Addrs PROVE Whole(net) \in Seq(Items)
  <2>1. Add(net, 0) \in Items /\ Send(Target(net, NoIp, 0)) \in Items
    BY <1>1
  <2>. QED
    BY <2>1 DEF Whole
<1>3. ASSUME NEW a \in Addrs, NEW port \in Nat PROVE ForAddress(a, port) \in Seq(Items)
  <2>1. /\ Add({a}, 0) \in Items /\ Add({a}, port) \in Items
        /\ Send(Target({}, a, port)) \in Items /\ Whole({a}) \in Seq(Items)
    BY <1>1, <1>2
  <2>2. \A item \in Items : <<item>> \in Seq(Items)
    OBVIOUS
  <2>3. \A s, t \in Seq(Items) : s \o t \in Seq(Items)
    OBVIOUS
  <2>4. <<>> \in Seq(Items)
    OBVIOUS
  <2>5. CASE options.stream /\ port = 0
    <3>1. ForAddress(a, port) = Whole({a}) \o <<Add({a}, 0)>>
      BY <2>5 DEF ForAddress
    <3>. QED
      BY <2>1, <2>2, <2>3, <3>1
  <2>6. CASE options.stream /\ port # 0
    <3>1. ForAddress(a, port) = <<Send(Target({}, a, port))>> \o
            (IF PortsGiven THEN Whole({a}) \o <<Add({a}, 0)>> ELSE <<>>)
      BY <2>6 DEF ForAddress
    <3>. QED
      BY <2>1, <2>2, <2>3, <2>4, <3>1
  <2>7. CASE ~options.stream
    <3>1. ForAddress(a, port) = <<Add({a}, IF PortsGiven THEN 0 ELSE port)>>
      BY <2>7 DEF ForAddress
    <3>. QED
      BY <2>1, <2>2, <3>1
  <2>. QED
    BY <2>5, <2>6, <2>7
<1>. QED
  BY <1>2, <1>3

\* The addresses of a line, in a sequence.
LEMMA LineAddrs ==
  ASSUME NEW line \in TargetLines
  PROVE  /\ AddrsOf(line) \in Seq(Addrs)
         /\ ToSet(AddrsOf(line)) = ToSet(line.v4) \cup ToSet(line.v6)
<1>1. line.v4 \in Seq(Addrs) /\ line.v6 \in Seq(Addrs)
  <2>1. line.v4 \in Seq(Addrs \ IPv6Addrs) /\ line.v6 \in Seq(IPv6Addrs)
    BY DEF TargetLines
  <2>. QED
    BY <2>1, TargetsAssumption
<1>. QED
  BY <1>1, ElementsOf DEF AddrsOf

\* What a line makes AddTarget do.
LEMMA NetItems ==
  ASSUME NEW line \in TargetLines
  PROVE  /\ ForNets(line) \in Seq(Items)
         /\ \A k \in DOMAIN line.nets :
              ToSet(Whole(line.nets[k])) \subseteq ToSet(ForNets(line))
<1>. DEFINE parts == [k \in DOMAIN line.nets |-> Whole(line.nets[k])]
<1>1. line.nets \in Seq(SUBSET Addrs)
  BY DEF TargetLines
<1>2. parts \in Seq(Seq(Items)) /\ DOMAIN parts = DOMAIN line.nets
  <2>1. DOMAIN line.nets = 1 .. Len(line.nets) /\ Len(line.nets) \in Nat
    BY <1>1
  <2>2. \A k \in 1 .. Len(line.nets) : Whole(line.nets[k]) \in Seq(Items)
    BY <1>1, ItemsTyped
  <2>. QED
    BY <2>1, <2>2
<1>3. ForNets(line) = FlattenSeq(parts)
  BY DEF ForNets
<1>4. \A k \in DOMAIN line.nets : parts[k] = Whole(line.nets[k])
  OBVIOUS
<1>. HIDE DEF parts
<1>5. /\ FlattenSeq(parts) \in Seq(Items)
      /\ ToSet(FlattenSeq(parts)) = UNION {ToSet(parts[k]) : k \in DOMAIN parts}
  BY <1>2, Flattened
<1>. QED
  BY <1>2, <1>3, <1>4, <1>5

LEMMA NameItems ==
  ASSUME NEW line \in TargetLines, NEW chosen
  PROVE  /\ ForName(line, chosen) \in Seq(Items)
         /\ \A a \in ToSet(AddrsOf(line)) \cap chosen :
              ToSet(ForAddress(a, line.port)) \subseteq ToSet(ForName(line, chosen))
<1>. DEFINE addrs == AddrsOf(line)
            parts == [k \in DOMAIN addrs |->
                        IF addrs[k] \in chosen
                        THEN ForAddress(addrs[k], line.port) ELSE <<>>]
<1>1. addrs \in Seq(Addrs) /\ line.port \in Nat
  BY LineAddrs DEF TargetLines
<1>2. ForName(line, chosen) = FlattenSeq(parts)
  BY DEF ForName
<1>. HIDE DEF addrs
<1>3. parts \in Seq(Seq(Items)) /\ DOMAIN parts = DOMAIN addrs
  <2>1. DOMAIN addrs = 1 .. Len(addrs) /\ Len(addrs) \in Nat
    BY <1>1
  <2>2. \A k \in 1 .. Len(addrs) : ForAddress(addrs[k], line.port) \in Seq(Items)
    BY <1>1, ItemsTyped
  <2>3. <<>> \in Seq(Items)
    OBVIOUS
  <2>. QED
    BY <2>1, <2>2, <2>3
<1>4. \A k \in DOMAIN addrs : addrs[k] \in chosen => parts[k] = ForAddress(addrs[k], line.port)
  OBVIOUS
<1>. HIDE DEF parts
<1>5. /\ FlattenSeq(parts) \in Seq(Items)
      /\ ToSet(FlattenSeq(parts)) = UNION {ToSet(parts[k]) : k \in DOMAIN parts}
  BY <1>3, Flattened
<1>6. \A a \in ToSet(addrs) : \E k \in DOMAIN addrs : a = addrs[k]
  BY DEF ToSet
<1>7. ASSUME NEW a \in ToSet(addrs) \cap chosen
      PROVE  ToSet(ForAddress(a, line.port)) \subseteq ToSet(FlattenSeq(parts))
  <2>1. PICK k \in DOMAIN addrs : a = addrs[k]
    BY <1>6
  <2>2. parts[k] = ForAddress(a, line.port)
    BY <1>4, <2>1
  <2>. QED
    BY <1>3, <1>5, <2>2
<1>. QED
  BY <1>2, <1>5, <1>7 DEF addrs
\* What AddTarget may put on the list of a goroutine.
LEMMA Added ==
  ASSUME LoadInv, NEW i \in 1 .. MaxLines, AddTarget(i)
  PROVE  /\ i < next /\ lines[i] \in TargetLines
         /\ \E todo \in Seq(Items) :
              /\ worker' = [worker EXCEPT ![i] = Working(todo)]
              /\ LET line == lines[i]
                 IN  \/ line.kind \in {"blank", "cidr", "asn"} /\ todo = ForNets(line)
                     \/ AsAddress(line) /\ todo = Whole({AddrsOf(line)[1]})
                     \/ /\ line.kind \notin {"blank", "cidr", "asn"}
                        /\ \E chosen \in ResolutionsOf(line) : todo = ForName(line, chosen)
<1>. DEFINE line == lines[i]
<1>1. i < next /\ i \in 1 .. Len(lines)
  BY DEF LoadInv, AddTarget
<1>2. line \in TargetLines
  BY <1>1 DEF LoadInv
<1>3. PICK todo \in
        CASE line.kind \in {"blank", "cidr", "asn"} -> {ForNets(line)}
          [] AsAddress(line) -> {Whole({AddrsOf(line)[1]})}
          [] OTHER -> {ForName(line, chosen) : chosen \in ResolutionsOf(line)} :
        worker' = [worker EXCEPT ![i] = Working(todo)]
  BY DEF AddTarget
<1>. HIDE DEF line
<1>4. CASE line.kind \in {"blank", "cidr", "asn"}
  <2>1. todo = ForNets(line)
    BY <1>3, <1>4 DEF AsAddress
  <2>2. todo \in Seq(Items)
    BY <1>2, <2>1, NetItems
  <2>. QED
    BY <1>1, <1>2, <1>3, <1>4, <2>1, <2>2 DEF line
<1>5. CASE AsAddress(line)
  <2>1. todo = Whole({AddrsOf(line)[1]})
    BY <1>3, <1>5 DEF AsAddress
  <2>2. AddrsOf(line)[1] \in Addrs
    <3>1. Len(line.v4) + Len(line.v6) = 1
      BY <1>2, <1>5 DEF TargetLines, AsAddress
    <3>2. line.v4 \in Seq(Addrs \ IPv6Addrs) /\ line.v6 \in Seq(IPv6Addrs)
      BY <1>2 DEF TargetLines
    <3>3. line.v4 \in Seq(Addrs) /\ line.v6 \in Seq(Addrs)
      BY <3>2, TargetsAssumption
    <3>4. Len(AddrsOf(line)) = 1
      <4>1. \A s, t \in Seq(Addrs) : Len(s \o t) = Len(s) + Len(t)
        OBVIOUS
      <4>. QED
        BY <3>1, <3>3, <4>1 DEF AddrsOf
    <3>5. AddrsOf(line) \in Seq(Addrs)
      BY <1>2, LineAddrs
    <3>. QED
      BY <3>4, <3>5
  <2>3. todo \in Seq(Items)
    BY <2>1, <2>2, ItemsTyped
  <2>. QED
    BY <1>1, <1>2, <1>3, <1>5, <2>1, <2>3 DEF line
<1>6. CASE ~(line.kind \in {"blank", "cidr", "asn"} \/ AsAddress(line))
  <2>1. PICK chosen \in ResolutionsOf(line) : todo = ForName(line, chosen)
    BY <1>3, <1>6
  <2>2. todo \in Seq(Items)
    BY <1>2, <2>1, NameItems
  <2>. QED
    BY <1>1, <1>2, <1>3, <1>6, <2>1, <2>2 DEF line
<1>. QED
  BY <1>4, <1>5, <1>6

\* An item that is done leaves the list, and the others stay.
LEMMA ItemTaken ==
  ASSUME LoadInv, NEW i \in 1 .. MaxLines, worker[i].at = "run", Done(i)
  PROVE  /\ i < next
         /\ Head(worker[i].todo) \in Items /\ Tail(worker[i].todo) \in Seq(Items)
         /\ worker' = [worker EXCEPT ![i] = Working(Tail(worker[i].todo))]
         /\ ToSet(worker[i].todo)
              = {Head(worker[i].todo)} \cup ToSet(Tail(worker[i].todo))
<1>1. i < next /\ worker[i].todo # <<>> /\ worker[i].todo \in Seq(Items)
  BY DEF LoadInv, Workers
<1>2. Head(worker[i].todo) \in Items /\ Tail(worker[i].todo) \in Seq(Items)
  BY <1>1
<1>3. worker' = [worker EXCEPT ![i] = Working(Tail(worker[i].todo))]
  BY DEF Done
<1>. DEFINE s == worker[i].todo
<1>4. s \in Seq(Items) /\ s # <<>>
  BY <1>1
<1>. HIDE DEF s
<1>5. s = <<Head(s)>> \o Tail(s) /\ <<Head(s)>> \in Seq(Items) /\ Tail(s) \in Seq(Items)
  BY <1>4
<1>6. ToSet(<<Head(s)>>) = {Head(s)}
  BY DEF ToSet
<1>7. ToSet(<<Head(s)>> \o Tail(s)) = ToSet(<<Head(s)>>) \cup ToSet(Tail(s))
  BY <1>5, ElementsOf
<1>8. ToSet(s) = {Head(s)} \cup ToSet(Tail(s))
  BY <1>5, <1>6, <1>7
<1>. QED
  BY <1>1, <1>2, <1>3, <1>8 DEF s

\* The lines of the merged file.
LEMMA MergedLines ==
  ASSUME OptionsInv, pc \notin {"options", "fatal"}
  PROVE  /\ Merged(options) \in Seq(TargetLines) /\ Len(Merged(options)) <= MaxLines
         /\ GivenLines \subseteq ToSet(Merged(options))
<1>1. PICK o \in Commands : SameInput(o)
  BY DEF OptionsInv
<1>2. /\ options.hostLines \in Seq(TargetLines) /\ options.args \in Seq(TargetLines)
      /\ options.file.lines \in Seq(TargetLines)
  BY <1>1, TargetsAssumption DEF SameInput
<1>3. Len(Merged(options)) <= MaxLines
  <2>1. LET given == PreProcessHosts(Validated(o))
        IN  Merged(options) = Merged(given)
    BY <1>1 DEF SameInput, Merged, Glued, GluedLine
  <2>. QED
    BY <2>1, TargetsAssumption
<1>4. GluedLine(options) \in TargetLines
  BY DEF GluedLine, TooLongLine, Unresolvable, Line, TargetLines
<1>. DEFINE H == options.hostLines
            F == options.file.lines
            A == options.args
<1>5. \A s, t \in Seq(TargetLines) :
        s \o t \in Seq(TargetLines) /\ ToSet(s \o t) = ToSet(s) \cup ToSet(t)
  BY ElementsOf
<1>6. CASE Glued(options)
  <2>1. F # <<>> /\ A # <<>> /\ F \in Seq(TargetLines) /\ A \in Seq(TargetLines)
    BY <1>2, <1>6 DEF Glued
  <2>. DEFINE M == <<GluedLine(options)>>
              X == Front(F)
              Y == Tail(A)
  <2>2. X \in Seq(TargetLines) /\ Y \in Seq(TargetLines) /\ M \in Seq(TargetLines)
    BY <1>4, <2>1 DEF Front
  <2>3. Merged(options) = H \o (X \o M \o Y)
    BY <1>6 DEF Merged
  <2>4. GivenLines = ToSet(H) \cup (ToSet(X) \cup ToSet(Y))
    BY <1>6 DEF GivenLines
  <2>. HIDE DEF M, X, Y
  <2>5. X \o M \in Seq(TargetLines) /\ ToSet(X \o M) = ToSet(X) \cup ToSet(M)
    BY <1>5, <2>2
  <2>6. /\ (X \o M) \o Y \in Seq(TargetLines)
        /\ ToSet((X \o M) \o Y) = ToSet(X \o M) \cup ToSet(Y)
    BY <1>5, <2>2, <2>5
  <2>7. /\ H \o ((X \o M) \o Y) \in Seq(TargetLines)
        /\ ToSet(H \o ((X \o M) \o Y)) = ToSet(H) \cup ToSet((X \o M) \o Y)
    BY <1>2, <1>5, <2>6
  <2>. QED
    BY <1>3, <2>3, <2>4, <2>5, <2>6, <2>7
<1>7. CASE ~Glued(options)
  <2>1. Merged(options) = H \o (F \o A)
    BY <1>7 DEF Merged
  <2>2. GivenLines = ToSet(H) \cup (ToSet(F) \cup ToSet(A))
    BY <1>7 DEF GivenLines
  <2>3. F \o A \in Seq(TargetLines) /\ ToSet(F \o A) = ToSet(F) \cup ToSet(A)
    BY <1>2, <1>5
  <2>4. /\ H \o (F \o A) \in Seq(TargetLines)
        /\ ToSet(H \o (F \o A)) = ToSet(H) \cup ToSet(F \o A)
    BY <1>2, <1>5, <2>3
  <2>. QED
    BY <1>3, <2>1, <2>2, <2>3, <2>4
<1>. QED
  BY <1>6, <1>7

\* Once the targets are loaded, the options and the ports are settled.
LEMMA Settled ==
  ASSUME MainInv, Next, loader # "off"
  PROVE  UNCHANGED <<options, ports>>
  BY OptionSteps DEF MainInv, ParseOptions, NewRunner, Start

\* The goroutine of a line goes on.
LEMMA WorkLoads ==
  ASSUME LoadInv, NEW i \in 1 .. MaxLines, Work(i), UNCHANGED options
  PROVE  LoadInv'
<1>1. UNCHANGED <<loader, lines, next, closed>>
  BY DEF Work, AddTarget, AddHost, StreamActive, StreamPassive
<1>2. PICK todo \in Seq(Items) :
        i < next /\ worker[i].at \in {"start", "run"}
        /\ worker' = [worker EXCEPT ![i] = Working(todo)]
  <2>1. CASE AddTarget(i)
    BY <2>1, Added DEF AddTarget
  <2>2. CASE worker[i].at = "run" /\ Done(i)
    BY <2>2, ItemTaken
  <2>. QED
    BY <2>1, <2>2 DEF Work, AddHost, StreamActive, StreamPassive, Does
<1>3. Working(todo) \in Workers /\ (Working(todo).at = "run" <=> Working(todo).todo # <<>>)
      /\ Working(todo).at \in {"run", "done"}
  BY Workings
<1>4. worker \in [1 .. MaxLines -> Workers]
  BY DEF LoadInv
<1>5. /\ worker' \in [1 .. MaxLines -> Workers]
      /\ \A j \in 1 .. MaxLines : worker'[j] = IF j = i THEN Working(todo) ELSE worker[j]
  BY <1>2, <1>3, <1>4
<1>6. loader \notin {"ended", "unread"}
  BY <1>2, <1>4 DEF LoadInv, AllAdded, Busy
<1>7. \A j \in 1 .. MaxLines :
        /\ worker'[j].at = "waiting" <=> j >= next
        /\ worker'[j].at = "run" <=> worker'[j].todo # <<>>
  BY <1>2, <1>3, <1>5 DEF LoadInv
<1>. QED
  BY <1>1, <1>5, <1>6, <1>7 DEF LoadInv

LEMMA LoadStep ==
  ASSUME OptionsInv, MainInv, LoadInv, Next
  PROVE  LoadInv'
<1>1. MaxLines \in Nat
  BY TargetsAssumption
<1>2. CASE loader = "off"
  <2>1. \A i \in 1 .. MaxLines : worker[i].at = "waiting"
    BY <1>2 DEF LoadInv
  <2>2. UNCHANGED <<lines, next, worker, closed>> /\ loader' \in {"off", "merge"}
    BY <1>2, <2>1 DEF LoadInv, MainInv, Next, Main, Load, Work, Over, ParseOptions, NewRunner,
       Start, Loaded, DiscoverHosts, SkipDiscovery, Scan, EndStream, MergeToFile,
       ReadLine, OpenFails, EndLoad, AddTarget, AddHost, StreamActive, StreamPassive, Does, vars,
       loading
  <2>. QED
    BY <1>2, <2>2 DEF LoadInv
<1>3. CASE loader # "off"
  <2>1. UNCHANGED options
    BY <1>3, Settled
  <2>2. CASE UNCHANGED loading
    BY <2>1, <2>2 DEF LoadInv, loading, AllAdded, Busy, AtEnd
  <2>3. CASE MergeToFile
    <3>1. pc \notin {"options", "fatal"} /\ next = 1 /\ lines = <<>>
      BY <1>3, <2>3 DEF MergeToFile, MainInv, LoadInv
    <3>2. CASE options.file.opens
      <4>1. lines' = Merged(options) /\ loader' = "read" /\ UNCHANGED <<worker, next, closed>>
        BY <2>3, <3>2 DEF MergeToFile
      <4>2. lines' \in Seq(TargetLines) /\ Len(lines') <= MaxLines
        BY <3>1, <4>1, MergedLines
      <4>3. Len(lines') \in Nat
        BY <4>2
      <4>4. ~closed
        BY <2>3 DEF MergeToFile, LoadInv
      <4>. QED
        BY <2>1, <3>1, <4>1, <4>2, <4>3, <4>4 DEF LoadInv
    <3>3. CASE ~options.file.opens
      BY <2>3, <3>3, <2>1 DEF MergeToFile, LoadInv
    <3>. QED
      BY <3>2, <3>3
  <2>4. CASE ReadLine
    <3>1. /\ loader = "read" /\ next <= Len(lines) /\ next' = next + 1
          /\ worker' = [worker EXCEPT ![next].at = "start"]
          /\ UNCHANGED <<loader, lines, closed>> /\ ~TooLong(lines[next])
      <4>1. DOMAIN lines = 1 .. Len(lines) /\ Len(lines) \in Nat
        BY DEF LoadInv
      <4>. QED
        BY <2>4, <4>1 DEF ReadLine, AtEnd
    <3>2. next \in 1 .. MaxLines /\ worker[next].at = "waiting"
          /\ worker \in [1 .. MaxLines -> Workers] /\ next + 1 <= Len(lines) + 1
      BY <1>1, <3>1 DEF LoadInv
    <3>3. worker[next].todo = <<>> /\ next + 1 \in 1 .. (MaxLines + 1)
      BY <1>1, <3>2 DEF LoadInv
    <3>4. \A j \in 1 .. MaxLines :
            worker'[j] = IF j = next THEN [at |-> "start", todo |-> <<>>] ELSE worker[j]
      BY <3>1, <3>2, <3>3 DEF Workers
    <3>5. [at |-> "start", todo |-> <<>>] \in Workers
      BY DEF Workers
    <3>6. worker' \in [1 .. MaxLines -> Workers]
      BY <3>1, <3>2, <3>4, <3>5
    <3>7. \A j \in 1 .. MaxLines :
            /\ worker'[j].at = "waiting" <=> j >= next'
            /\ worker'[j].at = "run" <=> worker'[j].todo # <<>>
      BY <3>1, <3>2, <3>4 DEF LoadInv
    <3>8. \A j \in 1 .. (next' - 1) : ~TooLong(lines'[j])
      BY <1>1, <3>1, <3>2 DEF LoadInv
    <3>. QED
      BY <2>1, <3>1, <3>2, <3>3, <3>6, <3>7, <3>8 DEF LoadInv
  <2>5. CASE OpenFails \/ EndLoad
    <3>1. Closes \in BOOLEAN
      BY <1>3, <2>5 DEF Closes, OpenFails, EndLoad, OptionsInv, MainInv, Modes
    <3>2. AllAdded /\ (EndLoad => AtEnd)
      BY <2>5 DEF OpenFails, EndLoad, LoadInv, AllAdded, Busy
    <3>. QED
      BY <2>1, <2>5, <3>1, <3>2 DEF OpenFails, EndLoad, LoadInv, AllAdded, Busy, AtEnd
  <2>6. ASSUME NEW i \in DOMAIN worker, Work(i) PROVE LoadInv'
    <3>1. i \in 1 .. MaxLines
      BY DEF LoadInv
    <3>. QED
      BY <2>1, <2>6, <3>1, WorkLoads
  <2>7. CASE Main \/ Over
    <3>1. UNCHANGED loading
      BY <1>3, <2>7 DEF MainInv, Main, Over, ParseOptions, NewRunner,
       Start, Loaded, DiscoverHosts, SkipDiscovery, Scan, EndStream, vars
    <3>. QED
      BY <2>2, <3>1
  <2>. QED
    BY <2>3, <2>4, <2>5, <2>6, <2>7 DEF Next, Load
<1>. QED
  BY <1>2, <1>3
-----------------------------------------------------------------------------
(* Where main is.                                                          *)

\* Nothing is added to the ranger once the end of all lines was awaited.
LEMMA EndedIsStill ==
  ASSUME MainInv, LoadInv, Next, loader \in {"ended", "unread"}
  PROVE  UNCHANGED <<loading, options, ports>>
<1>1. \A i \in 1 .. MaxLines : worker[i].at \notin {"start", "run"}
  BY DEF LoadInv, AllAdded, Busy
<1>2. UNCHANGED <<options, ports>>
  BY Settled
<1>3. \A i \in DOMAIN worker : ~Work(i)
  BY <1>1 DEF LoadInv, Work, AddTarget, AddHost, StreamActive, StreamPassive, Does
<1>. QED
  BY <1>2, <1>3 DEF MainInv, Next, Main, Load, Over, ParseOptions, NewRunner,
     Start, Loaded, DiscoverHosts, SkipDiscovery, Scan, EndStream, MergeToFile,
     ReadLine, OpenFails, EndLoad, vars

\* What the options say is the same after a step that leaves them.
LEMMA SameOptions ==
  ASSUME UNCHANGED <<options, ports>>
  PROVE  /\ RawDiscovery' = RawDiscovery /\ PortsGiven' = PortsGiven
         /\ \A addrs : OfVersion(addrs)' = OfVersion(addrs)
         /\ \A net : Whole(net)' = Whole(net)
         /\ \A a, port : ForAddress(a, port)' = ForAddress(a, port)
         /\ \A line : ResolutionsOf(line)' = ResolutionsOf(line)
         /\ \A target : PairsOf(target)' = PairsOf(target)
<1>1. RawDiscovery' = RawDiscovery /\ PortsGiven' = PortsGiven
  BY DEF RawDiscovery, PortsGiven
<1>2. \A addrs : OfVersion(addrs)' = OfVersion(addrs)
  BY DEF OfVersion
<1>3. \A net : Whole(net)' = Whole(net)
  BY DEF Whole
<1>4. \A a, port : ForAddress(a, port)' = ForAddress(a, port)
  BY <1>1, <1>3 DEF ForAddress
<1>5. \A line, version : Left(line, version)' = Left(line, version)
  BY DEF Left
<1>6. \A line : ResolutionsOf(line)' = ResolutionsOf(line)
  BY <1>5 DEF ResolutionsOf, Privileged
<1>7. \A target : PairsOf(target)' = PairsOf(target)
  BY DEF PairsOf
<1>. QED
  BY <1>1, <1>2, <1>3, <1>4, <1>6, <1>7

LEMMA MainStep ==
  ASSUME OptionsInv, MainInv, LoadInv, Next
  PROVE  MainInv'
<1>1. CASE ParseOptions \/ NewRunner \/ Start
  <2>1. pc \in {"options", "runner", "start"} /\ loader = "off" /\ alive = {}
    BY <1>1 DEF ParseOptions, NewRunner, Start, MainInv
  <2>2. /\ UNCHANGED alive
        /\ \/ pc' \in {"runner", "start", "fatal"} /\ UNCHANGED loader
           \/ pc' = "discover" /\ options'.stream /\ loader' = "merge"
           \/ pc' = "load" /\ ~options'.stream /\ loader' = "merge"
    <3>1. CASE ParseOptions \/ NewRunner
      BY <3>1 DEF ParseOptions, NewRunner, loading, scanned
    <3>2. CASE Start
      <4>1. Limited(options).stream = options.stream
        BY DEF Limited, OptionsInv, IsCommand, OptionNames
      <4>. QED
        BY <3>2, <4>1 DEF Start, scanned
    <3>. QED
      BY <1>1, <3>1, <3>2
  <2>. QED
    BY <2>1, <2>2 DEF MainInv
<1>2. CASE UNCHANGED <<options, ports>> /\ loader # "off" /\ ~Over
  <2>1. RawDiscovery' = RawDiscovery /\ \A addrs : OfVersion(addrs)' = OfVersion(addrs)
    BY <1>2, SameOptions
  <2>2. CASE Loaded \/ SkipDiscovery
    <3>1. UNCHANGED <<options, alive, closed, loader>>
      BY <2>2 DEF Loaded, SkipDiscovery, loading, scanned
    <3>. QED
      BY <1>2, <2>1, <2>2, <3>1 DEF Loaded, SkipDiscovery, MainInv
  <2>3. CASE DiscoverHosts
    <3>1. UNCHANGED <<options, closed, loader>> /\ RawDiscovery
          /\ pc' \in {"fatal", "done", "stream", "scan"}
          /\ (pc' = "stream" => options.stream) /\ (pc' = "scan" => ~options.stream)
          /\ pc = "discover"
      BY <2>3 DEF DiscoverHosts, loading
    <3>. QED
      BY <1>2, <2>1, <3>1 DEF MainInv
  <2>4. CASE Scan
    <3>1. pc = "scan" /\ ~options.stream /\ UNCHANGED <<loading, options, alive>>
          /\ pc' \in {"fatal", "done"}
      BY <2>4 DEF Scan, MainInv
    <3>2. ASSUME pc' = "done", ~RawDiscovery PROVE ScannedAll'
      <4>1. alive = {}
        BY <3>1, <3>2 DEF MainInv
      <4>. DEFINE pairs == (OfVersion(Listed) \ Excluded) \X ToSet(ports)
                  own == UNION {h[1] \X {Port(h[2], "tcp")} :
                                  h \in {g \in hosts : g[2] # 0}}
      <4>2. Launch(pairs, own)
        BY <2>4, <3>2, <4>1 DEF Scan
      <4>3. UNCHANGED <<hosts, ports, options>> /\ Listed' = Listed
        BY <2>4 DEF Scan, loading, Listed
      <4>. HIDE DEF pairs, own
      <4>4. PICK asked, given : asked = pairs /\ given = own
        OBVIOUS
      <4>5. Taken(asked)' /\ given \subseteq launched'
        BY <4>2, <4>3, <4>4, LaunchTakes
      <4>6. ((OfVersion(Listed) \ Excluded) \X ToSet(ports))' = asked
        BY <2>1, <4>3, <4>4 DEF pairs
      <4>7. \A h \in hosts : h[2] # 0 => h[1] \X {Port(h[2], "tcp")} \subseteq given
        BY <4>4 DEF own
      <4>8. \A h \in hosts' : h[2] # 0 => h[1] \X {Port(h[2], "tcp")} \subseteq launched'
        BY <4>3, <4>5, <4>7
      <4>9. Taken((OfVersion(Listed) \ Excluded) \X ToSet(ports))'
        BY <4>5, <4>6 DEF Taken, Passed
      <4>. QED
        BY <4>8, <4>9 DEF ScannedAll
    <3>. QED
      BY <1>2, <2>1, <3>1, <3>2 DEF MainInv, ScannedAll, loading
  <2>5. CASE EndStream
    BY <1>2, <2>1, <2>5 DEF EndStream, MainInv, loading, scanned
  <2>6. CASE Load
    <3>1. UNCHANGED <<pc, options, alive, launched, skipped, ports, hosts>>
          /\ loader' \in {"read", "ended", "unread", "failed"}
          /\ loader \notin {"ended", "unread"} /\ ~closed
      BY <2>6 DEF Load, MergeToFile, ReadLine, OpenFails, EndLoad, scanned, LoadInv
    <3>. QED
      BY <1>2, <2>1, <3>1 DEF MainInv
  <2>7. ASSUME NEW i \in DOMAIN worker, Work(i) PROVE MainInv'
    <3>1. loader \notin {"ended", "unread"} /\ ~closed
      <4>1. i \in 1 .. MaxLines /\ worker[i].at \in {"start", "run"}
        BY <2>7 DEF LoadInv, Work, AddTarget, AddHost, StreamActive, StreamPassive, Does
      <4>. QED
        BY <4>1 DEF LoadInv, AllAdded, Busy
    <3>2. UNCHANGED <<options, alive, loader, closed>>
          /\ (pc' = pc \/ (pc = "stream" /\ pc' = "stuck"))
      BY <2>7 DEF Work, AddTarget, AddHost, StreamActive, StreamPassive, scanned
    <3>. QED
      BY <1>2, <2>1, <3>1, <3>2 DEF MainInv
  <2>. QED
    BY <1>2, <2>2, <2>3, <2>4, <2>5, <2>6, <2>7 DEF Next, Main, MainInv, ParseOptions,
       NewRunner, Start
<1>3. CASE UNCHANGED vars
  BY <1>3 DEF vars, loading, scanned, MainInv, RawDiscovery, OfVersion, Listed,
     ScannedAll, Taken, Passed
<1>4. CASE loader = "off" /\ ~(ParseOptions \/ NewRunner \/ Start)
  <2>1. \A i \in 1 .. MaxLines : worker[i].at = "waiting"
    BY <1>4 DEF LoadInv
  <2>2. \A i \in DOMAIN worker : ~Work(i)
    BY <2>1 DEF LoadInv, Work, AddTarget, AddHost, StreamActive, StreamPassive, Does
  <2>3. ~Load /\ ~(Main /\ ~UNCHANGED vars)
    BY <1>4 DEF MainInv, Load, Main, Loaded, DiscoverHosts, SkipDiscovery, Scan,
       EndStream, MergeToFile, ReadLine, OpenFails, EndLoad
  <2>4. UNCHANGED vars
    BY <2>2, <2>3 DEF Next, Over
  <2>. QED
    BY <1>3, <2>4
<1>. QED
  BY <1>1, <1>2, <1>3, <1>4, Settled DEF Over
-----------------------------------------------------------------------------
(* The targets of a line.                                                  *)

\* An item of a line was added to the ranger, or taken from the stream.
ItemDone(item) ==
  IF item.to = "ranger" THEN <<item.target.net, item.target.port>> \in hosts
  ELSE IF options.passive THEN item.target.net \subseteq queried
  ELSE Taken(PairsOf(item.target))

Handled(i, item) ==
  /\ item.to = "ranger" \/ options.stream
  /\ item \in ToSet(worker[i].todo) \/ ItemDone(item)

AllHandled(i, items) == \A item \in ToSet(items) : Handled(i, item)

\* Every target of a line is on the list of its goroutine, or was dealt with.
LineHandled(i, line) ==
  /\ \A k \in DOMAIN line.nets : AllHandled(i, Whole(line.nets[k]))
  /\ line.kind = "ip" =>
       \A a \in OfVersion(ToSet(AddrsOf(line))) \ Excluded :
         AllHandled(i, IF line.port = 0 THEN Whole({a}) ELSE ForAddress(a, line.port))
  /\ line.kind = "name" =>
       \E chosen \in ResolutionsOf(line) : \A a \in chosen :
         AllHandled(i, ForAddress(a, line.port))

\* A goroutine that got as far as its targets drops none of them.
WorkInv ==
  \A i \in 1 .. MaxLines :
    worker[i].at \in {"run", "done"} => LineHandled(i, lines[i])

\* What is sent is sent because there is a stream.
LEMMA SentToStream ==
  /\ \A net : \A item \in ToSet(Whole(net)) : item.to = "ranger" \/ options.stream
  /\ \A a, port : \A item \in ToSet(ForAddress(a, port)) :
       item.to = "ranger" \/ options.stream
<1>1. ASSUME ~options.stream, NEW net
      PROVE  \A item \in ToSet(Whole(net)) : item.to = "ranger"
  <2>1. Whole(net) = <<Add(net, 0)>>
    BY <1>1 DEF Whole
  <2>2. \A item \in ToSet(<<Add(net, 0)>>) : item = Add(net, 0)
    BY DEF ToSet
  <2>. QED
    BY <2>1, <2>2 DEF Add
<1>2. ASSUME ~options.stream, NEW a, NEW port
      PROVE  \A item \in ToSet(ForAddress(a, port)) : item.to = "ranger"
  <2>. DEFINE p == IF PortsGiven THEN 0 ELSE port
  <2>1. ForAddress(a, port) = <<Add({a}, p)>>
    BY <1>2 DEF ForAddress
  <2>2. \A item \in ToSet(<<Add({a}, p)>>) : item = Add({a}, p)
    BY DEF ToSet
  <2>. QED
    BY <2>1, <2>2 DEF Add
<1>. QED
  BY <1>1, <1>2

\* The addresses that are chosen are those of the line, of a version that is
\* asked for, and none that the deny list rejects.
LEMMA Chosen ==
  ASSUME NEW line \in TargetLines, line.kind = "name",
         NEW chosen \in ResolutionsOf(line), NEW a \in chosen
  PROVE  a \in OfVersion(ToSet(AddrsOf(line))) \ Excluded
<1>1. a \in Left(line, 4) \cup Left(line, 6)
  <2>1. \A list, left : FirstOf(list, left) \subseteq left
    BY DEF FirstOf
  <2>. QED
    BY <2>1 DEF ResolutionsOf
<1>2. a \notin Excluded /\ \/ a \in ToSet(line.v4) /\ 4 \in options.ipVersion
                           \/ a \in ToSet(line.v6) /\ 6 \in options.ipVersion
  BY <1>1 DEF Left
<1>3. /\ \A x \in ToSet(line.v4) : x \notin IPv6Addrs
      /\ \A x \in ToSet(line.v6) : x \in IPv6Addrs
  <2>1. line.v4 \in Seq(Addrs \ IPv6Addrs) /\ line.v6 \in Seq(IPv6Addrs)
    BY DEF TargetLines
  <2>. QED
    BY <2>1, ElementsOf
<1>4. a \in ToSet(AddrsOf(line)) /\ Family(a) \in options.ipVersion
  BY <1>2, <1>3, LineAddrs DEF Family
<1>. QED
  BY <1>2, <1>4 DEF OfVersion

\* An address that stands for itself is resolved to itself.
LEMMA IpResolves ==
  ASSUME NEW line \in TargetLines, line.kind = "ip",
         NEW a \in ToSet(AddrsOf(line)), a \notin Excluded
  PROVE  /\ a = AddrsOf(line)[1]
         /\ \A chosen \in ResolutionsOf(line) : a \in chosen
<1>. DEFINE v4 == line.v4
            v6 == line.v6
            left4 == Left(line, 4)
            left6 == Left(line, 6)
<1>1. /\ v4 \in Seq(Addrs \ IPv6Addrs) /\ v6 \in Seq(IPv6Addrs)
      /\ Len(v4) + Len(v6) = 1
  BY DEF TargetLines
<1>2. v4 \in Seq(Addrs) /\ v6 \in Seq(Addrs)
  BY <1>1, TargetsAssumption
<1>3. a \in ToSet(v4) \cup ToSet(v6)
      /\ left4 = ToSet(v4) \ Excluded /\ left6 = ToSet(v6) \ Excluded
  BY LineAddrs DEF Left
<1>4. /\ \A x : x \in ToSet(v4) <=> \E k \in 1 .. Len(v4) : x = v4[k]
      /\ \A x : x \in ToSet(v6) <=> \E k \in 1 .. Len(v6) : x = v6[k]
  BY <1>2, ElementsOf
<1>5. CASE Len(v4) = 1 /\ Len(v6) = 0
  <2>1. a = v4[1] /\ ToSet(v4) = {a} /\ ToSet(v6) = {}
    BY <1>3, <1>4, <1>5
  <2>2. left4 = {a} /\ left6 = {}
    BY <1>3, <2>1
  <2>3. a = AddrsOf(line)[1]
    <3>1. (v4 \o v6)[1] = v4[1]
      BY <1>2, <1>5, HeadOfBoth
    <3>. QED
      BY <2>1, <3>1 DEF AddrsOf
  <2>4. a \in FirstOf(v4, left4)
    <3>1. 1 \in DOMAIN v4
      BY <1>2, <1>5
    <3>. QED
      BY <2>1, <2>2, <3>1 DEF FirstOf
  <2>5. Cardinality(left4) = 1
    BY <2>2, FS_Singleton
  <2>6. \A chosen \in ResolutionsOf(line) : a \in chosen
    <3>1. ResolutionsOf(line) = {IF options.scanAll THEN left4 \cup left6
                                 ELSE FirstOf(v4, left4) \cup FirstOf(v6, left6)}
      BY <2>5 DEF ResolutionsOf
    <3>. QED
      BY <2>2, <2>4, <3>1
  <2>. QED
    BY <2>3, <2>6
<1>6. CASE Len(v4) = 0 /\ Len(v6) = 1
  <2>1. a = v6[1] /\ ToSet(v6) = {a} /\ ToSet(v4) = {}
    BY <1>3, <1>4, <1>6
  <2>2. left6 = {a} /\ left4 = {}
    BY <1>3, <2>1
  <2>3. a = AddrsOf(line)[1]
    <3>1. (v4 \o v6)[1] = v6[1]
      BY <1>2, <1>6, HeadOfBoth
    <3>. QED
      BY <2>1, <3>1 DEF AddrsOf
  <2>4. a \in FirstOf(v6, left6)
    <3>1. 1 \in DOMAIN v6
      BY <1>2, <1>6
    <3>. QED
      BY <2>1, <2>2, <3>1 DEF FirstOf
  <2>5. Cardinality(left4) = 0
    BY <2>2, FS_EmptySet
  <2>6. \A chosen \in ResolutionsOf(line) : a \in chosen
    <3>1. ResolutionsOf(line) = {IF options.scanAll THEN left4 \cup left6
                                 ELSE FirstOf(v4, left4) \cup FirstOf(v6, left6)}
      BY <2>5 DEF ResolutionsOf
    <3>. QED
      BY <2>2, <2>4, <3>1
  <2>. QED
    BY <2>3, <2>6
<1>7. Len(v4) \in Nat /\ Len(v6) \in Nat
  BY <1>2
<1>8. (Len(v4) = 1 /\ Len(v6) = 0) \/ (Len(v4) = 0 /\ Len(v6) = 1)
  <2>1. \A m, n \in Nat : m + n = 1 => (m = 1 /\ n = 0) \/ (m = 0 /\ n = 1)
    OBVIOUS
  <2>. QED
    BY <1>1, <1>7, <2>1
<1>. QED
  BY <1>5, <1>6, <1>8

\* What is added for an address without a port is, at least, the address.
LEMMA WholeIsAdded ==
  ASSUME NEW a \in Addrs
  PROVE  ToSet(Whole({a})) \subseteq ToSet(ForAddress(a, 0))
<1>1. CASE options.stream
  <2>1. ForAddress(a, 0) = Whole({a}) \o <<Add({a}, 0)>>
    BY <1>1 DEF ForAddress
  <2>2. Whole({a}) \in Seq(Items) /\ <<Add({a}, 0)>> \in Seq(Items)
    <3>1. {a} \in SUBSET Addrs
      OBVIOUS
    <3>2. Add({a}, 0) \in Items
      BY DEF Add, Target, Items, Targeted
    <3>. QED
      BY <3>1, <3>2, ItemsTyped
  <2>3. \A s, t \in Seq(Items) : ToSet(s \o t) = ToSet(s) \cup ToSet(t)
    BY ElementsOf
  <2>. QED
    BY <2>1, <2>2, <2>3
<1>2. CASE ~options.stream
  <2>1. ForAddress(a, 0) = Whole({a})
    BY <1>2 DEF ForAddress, Whole
  <2>. QED
    BY <2>1
<1>. QED
  BY <1>1, <1>2
-----------------------------------------------------------------------------
(* A step keeps what was dealt with.                                       *)

\* What is done stays done, as the ranger, the queries and, while there is a
\* stream, the pairs launched only grow.
LEMMA KeepsDone ==
  ASSUME UNCHANGED <<options, ports>>, hosts \subseteq hosts', queried \subseteq queried',
         options.stream => launched \subseteq launched' /\ skipped \subseteq skipped',
         NEW item, item.to = "ranger" \/ options.stream, ItemDone(item)
  PROVE  ItemDone(item)'
<1>1. PairsOf(item.target)' = PairsOf(item.target)
  BY SameOptions
<1>2. PICK pairs : pairs = PairsOf(item.target)
  OBVIOUS
<1>3. options.stream => (Taken(pairs) => Taken(pairs)')
  BY KeepsTaken
<1>4. Taken(pairs)' <=> Taken(PairsOf(item.target))'
  BY <1>1, <1>2 DEF Taken, Passed
<1>. QED
  BY <1>1, <1>2, <1>3, <1>4 DEF ItemDone

LEMMA KeepsLine ==
  ASSUME UNCHANGED <<options, ports>>, NEW i, NEW line, LineHandled(i, line),
         \A item : Handled(i, item) => Handled(i, item)'
  PROVE  LineHandled(i, line)'
<1>1. /\ \A addrs : OfVersion(addrs)' = OfVersion(addrs)
      /\ \A net : Whole(net)' = Whole(net)
      /\ \A a, port : ForAddress(a, port)' = ForAddress(a, port)
      /\ ResolutionsOf(line)' = ResolutionsOf(line)
  BY SameOptions
<1>2. \A items : AllHandled(i, items) => AllHandled(i, items)'
  BY DEF AllHandled
<1>3. AddrsOf(line)' = AddrsOf(line)
  BY DEF AddrsOf
<1>. QED
  BY <1>1, <1>2, <1>3 DEF LineHandled

\* What AddTarget puts on the list deals with the line.
LEMMA AddTargetHandles ==
  ASSUME LoadInv, NEW i \in 1 .. MaxLines, AddTarget(i), UNCHANGED <<options, ports>>
  PROVE  LineHandled(i, lines[i])'
<1>1. PICK line : line = lines[i]
  OBVIOUS
<1>2. line \in TargetLines
  BY <1>1, Added
<1>3. PICK todo \in Seq(Items) :
        /\ worker' = [worker EXCEPT ![i] = Working(todo)]
        /\ \/ line.kind \in {"blank", "cidr", "asn"} /\ todo = ForNets(line)
           \/ AsAddress(line) /\ todo = Whole({AddrsOf(line)[1]})
           \/ /\ line.kind \notin {"blank", "cidr", "asn"}
              /\ \E chosen \in ResolutionsOf(line) : todo = ForName(line, chosen)
  BY <1>1, Added
<1>4. UNCHANGED lines
  BY DEF AddTarget
<1>5. worker'[i].todo = todo
  BY <1>3, Workings DEF LoadInv
<1>6. \A items :
        (/\ ToSet(items) \subseteq ToSet(todo)
         /\ \A item \in ToSet(items) : item.to = "ranger" \/ options.stream)
        => AllHandled(i, items)'
  BY <1>5 DEF AllHandled, Handled
<1>7. \A net \in SUBSET Addrs :
        ToSet(Whole(net)) \subseteq ToSet(todo) => AllHandled(i, Whole(net))'
  <2>1. \A net : Whole(net)' = Whole(net)
    BY SameOptions
  <2>. QED
    BY <1>6, <2>1, ItemsTyped, SentToStream
<1>8. \A a \in Addrs :
        ToSet(ForAddress(a, line.port)) \subseteq ToSet(todo) =>
          AllHandled(i, ForAddress(a, line.port))'
  <2>1. \A a : ForAddress(a, line.port)' = ForAddress(a, line.port)
    BY SameOptions
  <2>2. line.port \in Nat
    BY <1>2 DEF TargetLines
  <2>. QED
    BY <1>6, <2>1, <2>2, ItemsTyped, SentToStream
<1>9. /\ \A addrs : OfVersion(addrs)' = OfVersion(addrs)
      /\ ResolutionsOf(line)' = ResolutionsOf(line)
  BY SameOptions
<1>10. ToSet(AddrsOf(line)) \subseteq Addrs
  BY <1>2, LineAddrs, ElementsOf
<1>11. \A k \in DOMAIN line.nets : AllHandled(i, Whole(line.nets[k]))'
  <2>1. line.nets \in Seq(SUBSET Addrs)
        /\ (line.kind \notin {"cidr", "asn"} => line.nets = <<>>)
    BY <1>2 DEF TargetLines
  <2>2. CASE line.kind \in {"cidr", "asn"}
    <3>1. todo = ForNets(line)
      BY <1>3, <2>2 DEF AsAddress
    <3>. QED
      BY <1>2, <1>7, <2>1, <3>1, NetItems
  <2>3. CASE line.kind \notin {"cidr", "asn"}
    BY <2>1, <2>3
  <2>. QED
    BY <2>2, <2>3
<1>12. ASSUME line.kind = "ip", NEW a \in OfVersion(ToSet(AddrsOf(line))) \ Excluded
       PROVE  AllHandled(i, IF line.port = 0 THEN Whole({a})
                            ELSE ForAddress(a, line.port))'
  <2>1. a \in ToSet(AddrsOf(line)) /\ a \in Addrs
    BY <1>10 DEF OfVersion
  <2>2. a = AddrsOf(line)[1] /\ \A chosen \in ResolutionsOf(line) : a \in chosen
    BY <1>2, <1>12, <2>1, IpResolves
  <2>3. CASE AsAddress(line) /\ todo = Whole({AddrsOf(line)[1]})
    BY <1>7, <2>1, <2>2, <2>3 DEF AsAddress
  <2>4. CASE \E chosen \in ResolutionsOf(line) : todo = ForName(line, chosen)
    <3>1. PICK chosen \in ResolutionsOf(line) : todo = ForName(line, chosen)
      BY <2>4
    <3>2. ToSet(ForAddress(a, line.port)) \subseteq ToSet(todo)
      BY <1>2, <2>1, <2>2, <3>1, NameItems
    <3>3. CASE line.port = 0
      <4>1. ToSet(Whole({a})) \subseteq ToSet(todo)
        BY <2>1, <3>2, <3>3, WholeIsAdded
      <4>. QED
        BY <1>7, <2>1, <3>3, <4>1
    <3>4. CASE line.port # 0
      BY <1>8, <2>1, <3>2, <3>4
    <3>. QED
      BY <3>3, <3>4
  <2>. QED
    BY <1>3, <1>12, <2>3, <2>4
<1>13. ASSUME line.kind = "name"
       PROVE  \E chosen \in ResolutionsOf(line) : \A a \in chosen :
                AllHandled(i, ForAddress(a, line.port))'
  <2>1. PICK chosen \in ResolutionsOf(line) : todo = ForName(line, chosen)
    BY <1>3, <1>13 DEF AsAddress
  <2>2. \A a \in chosen : a \in ToSet(AddrsOf(line)) /\ a \in Addrs
    BY <1>2, <1>10, <1>13, Chosen DEF OfVersion
  <2>3. \A a \in chosen : AllHandled(i, ForAddress(a, line.port))'
    BY <1>2, <1>8, <2>1, <2>2, NameItems
  <2>. QED
    BY <2>3
<1>14. LineHandled(i, line)'
  <2>1. AddrsOf(line)' = AddrsOf(line)
    BY DEF AddrsOf
  <2>. QED
    BY <1>9, <1>11, <1>12, <1>13, <2>1 DEF LineHandled
<1>15. lines'[i] = line
  BY <1>1, <1>4
<1>. QED
  BY <1>14, <1>15
LEMMA WorkStep ==
  ASSUME OptionsInv, MainInv, LoadInv, WorkInv, Next
  PROVE  WorkInv'
<1>1. CASE loader = "off"
  <2>1. \A i \in 1 .. MaxLines : worker[i].at = "waiting"
    BY <1>1 DEF LoadInv
  <2>2. UNCHANGED worker
    BY <1>1, <2>1 DEF LoadInv, MainInv, Next, Main, Load, Work, Over, ParseOptions, NewRunner,
       Start, Loaded, DiscoverHosts, SkipDiscovery, Scan, EndStream, MergeToFile,
       ReadLine, OpenFails, EndLoad, AddTarget, AddHost, StreamActive, StreamPassive, Does, vars,
       loading
  <2>. QED
    BY <2>1, <2>2 DEF WorkInv
<1>2. CASE loader # "off"
  <2>1. UNCHANGED <<options, ports>>
    BY <1>2, Settled
  <2>2. hosts \subseteq hosts' /\ queried \subseteq queried'
    BY <1>2 DEF MainInv, Next, Main, Load, Work, Over, ParseOptions, NewRunner,
       Start, Loaded, DiscoverHosts, SkipDiscovery, Scan, EndStream, MergeToFile,
       ReadLine, OpenFails, EndLoad, AddTarget, AddHost, StreamActive, StreamPassive, vars,
       loading, scanned
  <2>3. options.stream => launched \subseteq launched' /\ skipped \subseteq skipped'
    <3>1. ASSUME NEW j \in DOMAIN worker, StreamActive(j)
          PROVE  launched \subseteq launched' /\ skipped \subseteq skipped'
      BY <2>1, <3>1, LaunchTakes DEF StreamActive
    <3>. QED
      BY <1>2, <3>1 DEF MainInv, Next, Main, Load, Work, Over, ParseOptions, NewRunner,
       Start, Loaded, DiscoverHosts, SkipDiscovery, Scan, EndStream, MergeToFile,
       ReadLine, OpenFails, EndLoad, AddTarget, AddHost, StreamActive, StreamPassive, vars,
       loading, scanned
  <2>4. \A item : (item.to = "ranger" \/ options.stream) /\ ItemDone(item)
                    => ItemDone(item)'
    BY <2>1, <2>2, <2>3, KeepsDone
  <2>5. SUFFICES ASSUME NEW i \in 1 .. MaxLines, worker'[i].at \in {"run", "done"}
                 PROVE  LineHandled(i, lines[i])'
    BY DEF WorkInv
  <2>6. CASE AddTarget(i)
    BY <2>1, <2>6, AddTargetHandles
  <2>7. CASE worker'[i] = worker[i]
    <3>1. i < next /\ UNCHANGED lines
      <4>1. i < next /\ loader \notin {"off", "merge", "failed"}
        BY <2>5, <2>7 DEF LoadInv
      <4>. QED
        BY <4>1 DEF MainInv, Next, Main, Load, Work, Over, ParseOptions, NewRunner,
           Start, Loaded, DiscoverHosts, SkipDiscovery, Scan, EndStream, MergeToFile,
           ReadLine, OpenFails, EndLoad, AddTarget, AddHost, StreamActive, StreamPassive, vars,
           loading
    <3>2. LineHandled(i, lines[i])
      BY <2>5, <2>7 DEF WorkInv
    <3>3. \A item : Handled(i, item) => Handled(i, item)'
      BY <2>1, <2>4, <2>7 DEF Handled
    <3>4. PICK line : line = lines[i]
      OBVIOUS
    <3>5. LineHandled(i, line)'
      BY <2>1, <3>2, <3>3, <3>4, KeepsLine
    <3>6. lines'[i] = line
      BY <3>1, <3>4
    <3>. QED
      BY <3>5, <3>6
  <2>8. CASE AddHost(i) \/ StreamActive(i) \/ StreamPassive(i)
    <3>1. worker[i].at = "run" /\ Done(i) /\ UNCHANGED lines
      BY <2>8 DEF AddHost, StreamActive, StreamPassive, Does
    <3>. DEFINE head == Head(worker[i].todo)
    <3>2. /\ worker' = [worker EXCEPT ![i] = Working(Tail(worker[i].todo))]
          /\ Tail(worker[i].todo) \in Seq(Items)
          /\ ToSet(worker[i].todo) = {head} \cup ToSet(Tail(worker[i].todo))
      BY <3>1, ItemTaken
    <3>3. worker'[i].todo = Tail(worker[i].todo)
      BY <3>2, Workings DEF LoadInv
    <3>4. PICK taken : taken = head
      OBVIOUS
    <3>5. ItemDone(taken)'
      <4>1. PairsOf(taken.target)' = PairsOf(taken.target)
        BY <2>1, SameOptions
      <4>2. CASE AddHost(i)
        BY <3>4, <4>2 DEF AddHost, Does, ItemDone
      <4>3. CASE StreamActive(i)
        <5>1. Launch(PairsOf(taken.target), {}) /\ taken.to = "stream" /\ ~options.passive
          BY <3>4, <4>3 DEF StreamActive, Does
        <5>2. PICK pairs : pairs = PairsOf(taken.target)
          OBVIOUS
        <5>3. Taken(pairs)'
          BY <2>1, <5>1, <5>2, LaunchTakes
        <5>4. Taken(PairsOf(taken.target))'
          BY <4>1, <5>2, <5>3 DEF Taken, Passed
        <5>. QED
          BY <2>1, <5>1, <5>4 DEF ItemDone
      <4>4. CASE StreamPassive(i)
        BY <2>1, <3>4, <4>4 DEF StreamPassive, Does, ItemDone
      <4>. QED
        BY <2>8, <4>2, <4>3, <4>4
    <3>6. \A item : Handled(i, item) => Handled(i, item)'
      BY <2>1, <2>4, <3>2, <3>3, <3>4, <3>5 DEF Handled
    <3>7. PICK line : line = lines[i]
      OBVIOUS
    <3>8. LineHandled(i, line)
      BY <3>1, <3>7 DEF WorkInv
    <3>9. LineHandled(i, line)'
      BY <2>1, <3>6, <3>8, KeepsLine
    <3>10. lines'[i] = line
      BY <3>1, <3>7
    <3>. QED
      BY <3>9, <3>10
  <2>9. worker'[i] = worker[i] \/ Work(i)
    <3>1. CASE Main \/ Over \/ MergeToFile \/ OpenFails \/ EndLoad
      BY <1>2, <3>1 DEF MainInv, Main, Over, ParseOptions, NewRunner, Start, Loaded,
         DiscoverHosts, SkipDiscovery, Scan, EndStream, MergeToFile, OpenFails, EndLoad, vars, loading
    <3>2. CASE ReadLine
      <4>1. worker \in [1 .. MaxLines -> Workers] /\ next \in 1 .. MaxLines
            /\ worker' = [worker EXCEPT ![next].at = "start"]
        <5>1. next \in 1 .. Len(lines)
          <6>1. DOMAIN lines = 1 .. Len(lines)
            BY DEF LoadInv
          <6>. QED
            BY <3>2, <6>1 DEF ReadLine, AtEnd
        <5>. QED
          BY <3>2, <5>1, TargetsAssumption DEF LoadInv, ReadLine
      <4>2. i # next
        BY <2>5, <4>1 DEF Workers
      <4>. QED
        BY <4>1, <4>2
    <3>3. ASSUME NEW j \in DOMAIN worker, Work(j), j # i
          PROVE  worker'[i] = worker[i]
      BY <3>3 DEF LoadInv, Work, AddTarget, AddHost, StreamActive, StreamPassive, Done
    <3>. QED
      BY <3>1, <3>2, <3>3 DEF Next, Load
  <2>. QED
    BY <2>6, <2>7, <2>8, <2>9 DEF Work
<1>. QED
  BY <1>1, <1>2

-----------------------------------------------------------------------------
(* What the user is owed.                                                  *)

\* An address without a port was looked up, or launched on all ports.
WholeScanned(a) ==
  IF options.passive THEN a \in queried ELSE Taken({a} \X ToSet(ports))

Dealt(items) == \A item \in ToSet(items) : ItemDone(item)

LEMMA WholeIsScanned ==
  ASSUME OptionsInv, MainInv, pc = "done", ~RawDiscovery, NEW net, Dealt(Whole(net)),
         NEW a \in OfVersion(net) \ Excluded
  PROVE  WholeScanned(a)
<1>1. a \in net /\ a \in OfVersion(net) /\ a \notin Excluded /\ Modes(options)
  BY DEF OfVersion, OptionsInv
<1>2. CASE options.stream
  <2>. DEFINE item == Send(Target(net, NoIp, 0))
  <2>1. item \in ToSet(Whole(net))
    BY <1>2 DEF Whole, ToSet
  <2>2. ItemDone(item) /\ item.to = "stream" /\ item.target.net = net
    BY <2>1 DEF Dealt, Send, Target
  <2>. HIDE DEF item
  <2>3. CASE options.passive
    BY <1>1, <2>2, <2>3 DEF ItemDone, WholeScanned
  <2>4. CASE ~options.passive
    <3>1. Taken(net \X ToSet(ports))
      BY <1>1, <2>2, <2>4 DEF ItemDone, PairsOf
    <3>. QED
      BY <1>1, <2>4, <3>1 DEF WholeScanned, Taken
  <2>. QED
    BY <2>3, <2>4
<1>3. CASE ~options.stream
  <2>. DEFINE item == Add(net, 0)
  <2>1. item \in ToSet(Whole(net))
    BY <1>3 DEF Whole, ToSet
  <2>2. <<net, 0>> \in hosts
    BY <2>1 DEF Dealt, ItemDone, Add, Target
  <2>3. a \in Listed
    <3>1. <<net, 0>>[1] = net /\ <<net, 0>>[2] = 0
      OBVIOUS
    <3>. QED
      BY <1>1, <2>2, <3>1 DEF Listed
  <2>4. a \in OfVersion(Listed) \ Excluded
    BY <1>1, <2>3 DEF OfVersion
  <2>5. Taken({a} \X ToSet(ports))
    BY <1>3, <2>4 DEF MainInv, ScannedAll, Taken
  <2>. QED
    BY <1>1, <1>3, <2>5 DEF WholeScanned, Modes
<1>. QED
  BY <1>2, <1>3

LEMMA AddressIsScanned ==
  ASSUME OptionsInv, MainInv, pc = "done", ~RawDiscovery,
         NEW line \in TargetLines, NEW a \in OfVersion(Addrs) \ Excluded,
         Dealt(ForAddress(a, line.port))
  PROVE  OwedTo(a, line)
<1>1. a \in Addrs /\ a \in OfVersion({a}) \ Excluded /\ Modes(options) /\ line.port \in Nat
  BY DEF OfVersion, OptionsInv, TargetLines
<1>2. ToSet(Whole({a})) \subseteq ToSet(ForAddress(a, line.port)) => WholeScanned(a)
  <2>1. ToSet(Whole({a})) \subseteq ToSet(ForAddress(a, line.port)) => Dealt(Whole({a}))
    BY DEF Dealt
  <2>. QED
    BY <1>1, <2>1, WholeIsScanned
<1>3. CASE line.port = 0
  BY <1>1, <1>2, <1>3, WholeIsAdded DEF WholeScanned, OwedTo
<1>4. CASE line.port # 0 /\ options.passive
  BY <1>4 DEF OwedTo
<1>5. CASE line.port # 0 /\ ~options.passive /\ options.stream
  <2>. DEFINE item == Send(Target({}, a, line.port))
              rest == IF PortsGiven THEN Whole({a}) \o <<Add({a}, 0)>> ELSE <<>>
  <2>1. ForAddress(a, line.port) = <<item>> \o rest
    BY <1>5 DEF ForAddress
  <2>2. /\ item \in Items /\ Whole({a}) \in Seq(Items) /\ <<Add({a}, 0)>> \in Seq(Items)
        /\ <<item>> \in Seq(Items) /\ rest \in Seq(Items)
    <3>1. {a} \in SUBSET Addrs /\ {} \in SUBSET Addrs
      BY <1>1
    <3>2. item \in Items /\ Add({a}, 0) \in Items
      BY <1>1, <3>1 DEF Send, Add, Target, Items, Targeted
    <3>3. Whole({a}) \in Seq(Items)
      BY <3>1, ItemsTyped
    <3>. HIDE DEF item
    <3>. QED
      BY <3>2, <3>3
  <2>3. \A s, t \in Seq(Items) : ToSet(s \o t) = ToSet(s) \cup ToSet(t)
    BY ElementsOf
  <2>4. item \in ToSet(<<item>>)
    BY DEF ToSet
  <2>5. ToSet(<<item>> \o rest) = ToSet(<<item>>) \cup ToSet(rest)
    BY <2>2, <2>3
  <2>6. ItemDone(item)
    BY <2>1, <2>4, <2>5 DEF Dealt
  <2>7. <<a, Port(line.port, "tcp")>> \in launched \/ Passed(a)
    <3>1. Taken(PairsOf(item.target)) /\ PairsOf(item.target) = {<<a, Port(line.port, "tcp")>>}
      BY <1>5, <2>6 DEF ItemDone, PairsOf, Send, Target
    <3>2. PICK pair : pair = <<a, Port(line.port, "tcp")>>
      OBVIOUS
    <3>3. pair[1] = a
      BY <3>2
    <3>. QED
      BY <3>1, <3>2, <3>3 DEF Taken
  <2>8. ASSUME PortsGiven PROVE WholeScanned(a)
    <3>1. ToSet(rest) = ToSet(Whole({a})) \cup ToSet(<<Add({a}, 0)>>)
      BY <2>2, <2>3, <2>8
    <3>. HIDE DEF item, rest
    <3>. QED
      BY <1>2, <2>1, <2>5, <3>1
  <2>. QED
    BY <1>5, <2>7, <2>8 DEF OwedTo, WholeScanned
<1>6. CASE line.port # 0 /\ ~options.passive /\ ~options.stream
  <2>1. CASE PortsGiven
    <3>1. ForAddress(a, line.port) = Whole({a})
      BY <1>6, <2>1 DEF ForAddress, Whole
    <3>. QED
      BY <1>2, <1>6, <2>1, <3>1 DEF OwedTo, WholeScanned
  <2>2. CASE ~PortsGiven
    <3>. DEFINE item == Add({a}, line.port)
    <3>1. ForAddress(a, line.port) = <<item>>
      BY <1>6, <2>2 DEF ForAddress
    <3>2. item \in ToSet(<<item>>)
      BY DEF ToSet
    <3>3. ItemDone(item)
      BY <3>1, <3>2 DEF Dealt
    <3>4. <<{a}, line.port>> \in hosts
      BY <3>3 DEF ItemDone, Add, Target
    <3>5. <<{a}, line.port>>[1] = {a} /\ <<{a}, line.port>>[2] = line.port
      OBVIOUS
    <3>6. {a} \X {Port(line.port, "tcp")} \subseteq launched
      BY <1>6, <3>4, <3>5 DEF MainInv, ScannedAll
    <3>. QED
      BY <1>6, <2>2, <3>6 DEF OwedTo
  <2>. QED
    BY <2>1, <2>2
<1>. QED
  BY <1>3, <1>4, <1>5, <1>6

LEMMA AllAreScanned ==
  ASSUME OptionsInv, MainInv, LoadInv, WorkInv
  PROVE  EveryTargetScanned
<1>. SUFFICES ASSUME pc = "done", ~RawDiscovery, loader # "unread",
                    NEW line \in GivenLines, ~CutOff(line)
     PROVE
      /\ \A a \in OfVersion(UNION ToSet(line.nets)) \ Excluded : OwedTo(a, line)
      /\ line.kind = "ip" =>
           \A a \in OfVersion(ToSet(AddrsOf(line))) \ Excluded : OwedTo(a, line)
      /\ line.kind = "name" =>
           \E chosen \in ResolutionsOf(line) : \A a \in chosen : OwedTo(a, line)
  BY DEF EveryTargetScanned
<1>1. loader = "ended"
  BY DEF MainInv, LoadInv, OptionsInv, Modes
<1>2. line \in ToSet(lines)
  BY <1>1, MergedLines DEF LoadInv
<1>3. PICK i \in 1 .. Len(lines) : lines[i] = line /\ i < next
  <2>1. DOMAIN lines = 1 .. Len(lines) /\ Len(lines) \in Nat /\ next \in Nat
    BY TargetsAssumption DEF LoadInv
  <2>2. CASE next > Len(lines)
    BY <1>2, <2>1, <2>2, ElementsOf DEF LoadInv
  <2>3. CASE next <= Len(lines)
    <3>1. TooLong(lines[next]) /\ next \in DOMAIN lines
      BY <1>1, <2>1, <2>3 DEF LoadInv, AtEnd
    <3>2. PICK i \in DOMAIN lines : lines[i] = line /\ \A k \in 1 .. i : ~TooLong(lines[k])
      BY <3>1 DEF CutOff, Before
    <3>3. ~(next <= i)
      BY <2>1, <3>1, <3>2
    <3>. QED
      BY <2>1, <3>2, <3>3
  <2>. QED
    BY <2>1, <2>2, <2>3
<1>4. i \in 1 .. MaxLines /\ worker[i].at = "done" /\ worker[i].todo = <<>>
      /\ line \in TargetLines
  <2>1. i \in 1 .. MaxLines /\ line \in TargetLines
    BY <1>3, TargetsAssumption DEF LoadInv
  <2>2. worker[i].at \notin {"waiting", "start", "run"} /\ worker[i] \in Workers
    BY <1>1, <1>3, <2>1 DEF LoadInv, AllAdded, Busy
  <2>. QED
    BY <2>1, <2>2 DEF LoadInv, Workers
<1>5. LineHandled(i, line)
  BY <1>3, <1>4 DEF WorkInv
<1>6. \A items : AllHandled(i, items) => Dealt(items)
  <2>1. ToSet(<<>>) = {}
    BY DEF ToSet
  <2>. QED
    BY <1>4, <2>1 DEF AllHandled, Handled, Dealt
<1>7. \A a : WholeScanned(a) /\ line.port = 0 => OwedTo(a, line)
  BY DEF WholeScanned, OwedTo
<1>8. ASSUME NEW a \in OfVersion(UNION ToSet(line.nets)) \ Excluded
      PROVE  OwedTo(a, line)
  <2>1. PICK k \in DOMAIN line.nets : a \in line.nets[k]
    BY DEF OfVersion, ToSet
  <2>2. Dealt(Whole(line.nets[k])) /\ a \in OfVersion(line.nets[k]) \ Excluded
    BY <1>5, <1>6, <2>1 DEF LineHandled, OfVersion
  <2>3. line.port = 0
    BY <1>4, <2>1 DEF TargetLines
  <2>. QED
    BY <1>7, <2>2, <2>3, WholeIsScanned
<1>9. ASSUME line.kind = "ip", NEW a \in OfVersion(ToSet(AddrsOf(line))) \ Excluded
      PROVE  OwedTo(a, line)
  <2>1. a \in OfVersion({a}) \ Excluded /\ a \in OfVersion(Addrs) \ Excluded
    <3>1. ToSet(AddrsOf(line)) \subseteq Addrs
      BY <1>4, LineAddrs, ElementsOf
    <3>. QED
      BY <3>1 DEF OfVersion
  <2>2. CASE line.port = 0
    <3>1. Dealt(Whole({a}))
      BY <1>5, <1>6, <1>9, <2>2 DEF LineHandled
    <3>. QED
      BY <1>7, <2>1, <2>2, <3>1, WholeIsScanned
  <2>3. CASE line.port # 0
    <3>1. Dealt(ForAddress(a, line.port))
      BY <1>5, <1>6, <1>9, <2>3 DEF LineHandled
    <3>. QED
      BY <1>4, <2>1, <3>1, AddressIsScanned
  <2>. QED
    BY <2>2, <2>3
<1>10. ASSUME line.kind = "name"
       PROVE  \E chosen \in ResolutionsOf(line) : \A a \in chosen : OwedTo(a, line)
  <2>1. PICK chosen \in ResolutionsOf(line) :
          \A a \in chosen : AllHandled(i, ForAddress(a, line.port))
    BY <1>5, <1>10 DEF LineHandled
  <2>2. ASSUME NEW a \in chosen PROVE OwedTo(a, line)
    <3>1. Dealt(ForAddress(a, line.port))
      BY <1>6, <2>1
    <3>2. a \in OfVersion(ToSet(AddrsOf(line))) \ Excluded
      BY <1>4, <1>10, Chosen
    <3>3. ToSet(AddrsOf(line)) \subseteq Addrs
      BY <1>4, LineAddrs, ElementsOf
    <3>4. a \in OfVersion(Addrs) \ Excluded
      BY <3>2, <3>3 DEF OfVersion
    <3>. QED
      BY <1>4, <3>1, <3>4, AddressIsScanned
  <2>. QED
    BY <2>2
<1>. QED
  BY <1>8, <1>9, <1>10
-----------------------------------------------------------------------------
(* The goroutines at work.                                                 *)

BusyInv == Cardinality({i \in DOMAIN worker : Busy(i)}) <= Threads

LEMMA BusyStep ==
  ASSUME MainInv, LoadInv, LoadInv', BusyInv, Next
  PROVE  BusyInv'
<1>. DEFINE B == {i \in DOMAIN worker : Busy(i)}
            All == 1 .. MaxLines
<1>1. MaxLines \in Nat /\ Threads \in Nat
  BY TargetsAssumption
<1>2. IsFiniteSet(All)
  BY <1>1, FS_Interval
<1>3. B = {i \in All : Busy(i)} /\ B' = {i \in All : Busy(i)'}
  BY DEF LoadInv
<1>4. B \subseteq All /\ IsFiniteSet(B) /\ Cardinality(B) \in Nat
  BY <1>2, <1>3, FS_Subset, FS_CardinalityType
<1>5. CASE B' \subseteq B
  <2>1. \A S : S \subseteq B => Cardinality(S) <= Cardinality(B) /\ Cardinality(S) \in Nat
    BY <1>4, FS_Subset, FS_CardinalityType
  <2>2. Cardinality(B') <= Cardinality(B) /\ Cardinality(B') \in Nat
    BY <1>5, <2>1
  <2>. QED
    BY <1>1, <1>4, <2>2 DEF BusyInv
<1>6. CASE ReadLine
  <2>1. next \in All /\ Cardinality(B) < Threads /\ worker[next].at = "waiting"
    BY <1>1, <1>6 DEF ReadLine, HasThread, LoadInv
  <2>2. B' \subseteq B \cup {next}
    BY <1>3, <1>6, <2>1 DEF ReadLine, LoadInv, Busy
  <2>3. IsFiniteSet(B \cup {next}) /\ Cardinality(B \cup {next}) <= Cardinality(B) + 1
        /\ Cardinality(B \cup {next}) \in Nat
    BY <1>4, FS_AddElement, FS_CardinalityType
  <2>4. \A S : S \subseteq B \cup {next} =>
          Cardinality(S) <= Cardinality(B \cup {next}) /\ Cardinality(S) \in Nat
    BY <2>3, FS_Subset, FS_CardinalityType
  <2>5. Cardinality(B') <= Cardinality(B \cup {next}) /\ Cardinality(B') \in Nat
    BY <2>2, <2>4
  <2>. QED
    BY <1>1, <1>4, <2>1, <2>3, <2>5 DEF BusyInv
<1>7. CASE ~ReadLine
  <2>1. CASE UNCHANGED worker
    BY <1>3, <1>5, <2>1 DEF Busy
  <2>2. ASSUME NEW j \in DOMAIN worker, Work(j) PROVE B' \subseteq B
    <3>1. j \in All /\ Busy(j)
      BY <2>2 DEF LoadInv, Busy, Work, AddTarget, AddHost, StreamActive, StreamPassive, Does
    <3>2. \A i \in All : i # j => worker'[i] = worker[i]
      BY <2>2 DEF LoadInv, Work, AddTarget, AddHost, StreamActive, StreamPassive, Done
    <3>3. ASSUME NEW i \in All, Busy(i)' PROVE Busy(i)
      BY <3>1, <3>2, <3>3 DEF Busy
    <3>. QED
      BY <1>3, <3>3
  <2>3. UNCHANGED worker \/ \E j \in DOMAIN worker : Work(j)
    BY <1>7 DEF Next, Main, Load, Over, ParseOptions, NewRunner,
       Start, Loaded, DiscoverHosts, SkipDiscovery, Scan, EndStream, MergeToFile,
       OpenFails, EndLoad, vars, loading
  <2>. QED
    BY <1>5, <2>1, <2>2, <2>3
<1>. QED
  BY <1>6, <1>7

-----------------------------------------------------------------------------
(* The theorems.                                                           *)

TargetsInv == OptionsInv /\ MainInv /\ LoadInv /\ WorkInv /\ BusyInv

LEMMA InitInv ==
  ASSUME Init
  PROVE  TargetsInv
<1>1. MaxLines \in Nat /\ Threads \in Nat
  BY TargetsAssumption
<1>2. OptionsInv
  BY TargetsAssumption DEF Init, OptionsInv, IsCommand
<1>3. MainInv
  BY DEF Init, MainInv
<1>4. LoadInv
  <2>1. Waiting \in Workers /\ Waiting.at = "waiting" /\ Waiting.todo = <<>>
    BY DEF Waiting, Workers
  <2>2. <<>> \in Seq(TargetLines) /\ Len(<<>>) = 0
    OBVIOUS
  <2>3. /\ worker \in [1 .. MaxLines -> Workers]
        /\ \A i \in 1 .. MaxLines : worker[i].at = "waiting" /\ worker[i].todo = <<>>
    BY <2>1 DEF Init
  <2>4. next = 1 /\ lines = <<>> /\ loader = "off" /\ closed = FALSE
    BY DEF Init
  <2>5. /\ next \in 1 .. (MaxLines + 1) /\ next <= Len(lines) + 1
        /\ lines \in Seq(TargetLines) /\ Len(lines) <= MaxLines
    BY <1>1, <2>2, <2>4
  <2>6. \A i \in 1 .. MaxLines :
          /\ worker[i].at = "waiting" <=> i >= next
          /\ worker[i].at = "run" <=> worker[i].todo # <<>>
    BY <2>3, <2>4
  <2>7. 1 .. (next - 1) = {}
    BY <2>4
  <2>. QED
    BY <2>3, <2>4, <2>5, <2>6, <2>7 DEF LoadInv
<1>5. WorkInv
  BY DEF Init, Waiting, WorkInv
<1>6. BusyInv
  <2>1. {i \in DOMAIN worker : Busy(i)} = {}
    BY DEF Init, Waiting, Busy
  <2>. QED
    BY <1>1, <2>1, FS_EmptySet DEF BusyInv
<1>. QED
  BY <1>2, <1>3, <1>4, <1>5, <1>6 DEF TargetsInv

LEMMA StutterInv ==
  ASSUME TargetsInv, UNCHANGED vars
  PROVE  TargetsInv'
<1>1. UNCHANGED <<options, ports>> /\ UNCHANGED <<pc, loading, scanned>>
  BY DEF vars
<1>2. OptionsInv'
  BY <1>1 DEF TargetsInv, OptionsInv, SameInput
<1>3. MainInv'
  BY <1>1 DEF TargetsInv, MainInv, RawDiscovery, ScannedAll, OfVersion, Listed, loading,
     scanned, Taken, Passed
<1>4. LoadInv'
  BY <1>1 DEF TargetsInv, LoadInv, loading, AllAdded, Busy, AtEnd
<1>5. WorkInv'
  <2>1. UNCHANGED <<hosts, queried, launched, skipped, worker, lines>>
    BY <1>1 DEF loading, scanned
  <2>2. \A i, item : Handled(i, item) => Handled(i, item)'
    BY <1>1, <2>1, KeepsDone DEF Handled
  <2>3. ASSUME NEW i \in 1 .. MaxLines, worker'[i].at \in {"run", "done"}
        PROVE  LineHandled(i, lines[i])'
    <3>1. PICK line : line = lines[i]
      OBVIOUS
    <3>2. LineHandled(i, line)
      BY <2>1, <2>3, <3>1 DEF TargetsInv, WorkInv
    <3>3. LineHandled(i, line)'
      BY <1>1, <2>2, <3>2, KeepsLine
    <3>. QED
      BY <2>1, <3>1, <3>3
  <2>. QED
    BY <2>3 DEF WorkInv
<1>6. BusyInv'
  BY <1>1 DEF TargetsInv, BusyInv, Busy, loading
<1>. QED
  BY <1>2, <1>3, <1>4, <1>5, <1>6 DEF TargetsInv

\* The invariant that the theorems below follow from.
THEOREM TargetsInvariant == Spec => []TargetsInv
<1>1. Init => TargetsInv
  BY InitInv
<1>2. TargetsInv /\ [Next]_vars => TargetsInv'
  BY OptionsStep, MainStep, LoadStep, WorkStep, BusyStep, StutterInv DEF TargetsInv
<1>. QED
  BY <1>1, <1>2, PTL DEF Spec

\* The variables keep their types, no goroutine is started for a line that is
\* not there, and no more of them resolve targets at a time than -c
\* (targets.go:45-90).
THEOREM TargetsTypeCorrect == Spec => []TypeOK
<1>1. TargetsInv => TypeOK
  <2>. SUFFICES ASSUME TargetsInv PROVE TypeOK
    OBVIOUS
  <2>1. \A i \in DOMAIN worker : worker[i].at \in {"waiting", "start", "run", "done"}
    BY DEF TargetsInv, LoadInv, Workers
  <2>. QED
    BY <2>1 DEF TargetsInv, MainInv, LoadInv, BusyInv, TypeOK
<1>. QED
  BY <1>1, TargetsInvariant, PTL

\* Whatever the command, the system and the ports NewRunner makes of it, a run
\* that starts has no two options that exclude each other (validate.go:34-182,
\* runner.go NewRunner).
THEOREM ModesNeverMeet == Spec => []ModesExclude
<1>1. TargetsInv => ModesExclude
  BY DEF TargetsInv, OptionsInv, Modes, ModesExclude, shouldUseRawPackets
<1>. QED
  BY <1>1, TargetsInvariant, PTL

\* Whatever the lines, the addresses their names have, the number of threads,
\* the port threshold and the order the goroutines run in, a run that is done
\* and read its targets again has scanned or looked up every target of its
\* command line but what is behind a line too long (targets.go:93-219).
THEOREM TargetsAreScanned == Spec => []EveryTargetScanned
<1>1. TargetsInv => EveryTargetScanned
  BY AllAreScanned DEF TargetsInv
<1>. QED
  BY <1>1, TargetsInvariant, PTL
=============================================================================

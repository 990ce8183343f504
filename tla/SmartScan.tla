------------------------------ MODULE SmartScan ------------------------------
(***************************************************************************)
(* The predictive scan: Runner.runPredictiveScan in place of the           *)
(* enumeration loop, the fast SYN sender, and the goroutines that report   *)
(* open ports while it runs and thereby reorder its queue of ports.        *)
(*                                                                         *)
(* The main goroutine is pc.  An agent is a goroutine that may call        *)
(* OnReceive: agent 0 is the TCPResultWorker of a raw scan, the others are *)
(* the Rate slots of wgscan, each with the probe it holds.  The signal     *)
(* handler ranges over the results it outputs, and holds their read lock   *)
(* while it does: who writes then waits in Lock(), and is in waiting.      *)
(***************************************************************************)
EXTENDS PortQueue

CONSTANTS
  Blocks,         \* targets: [family |-> "v4" or "v6", base |-> , count |-> ]
  AddrSpace,      \* 2^32: pickIPv4 adds modulo this
  Shuffles,       \* permutations of the addresses: blackrock, by seed
  CancelStride,   \* 1024: how often the context is looked at
  BatchSize,      \* 32: packets the fast sender collects
  WithPort,       \* targetsWithPort: <<address, number>> given as ip:port
  Excluded,       \* addresses that excludedIpsNP rejects
  CdnHosts,       \* addresses of a CDN, when -exclude-cdn is given
  WebPorts,       \* the numbers still scanned on these: 80 and 443
  OpenPairs,      \* <<address, port>> that may be found open
  PortOptions,    \* the port options a user may give
  Modes,          \* of "connect", "verify" (connect with -verify) and "raw"
  Retries,        \* -retries
  Rate,           \* -rate
  PortThreshold   \* -port-threshold, 0 when it is off

Slots  == 1 .. Rate
Worker == 0
Agents == {Worker} \union Slots
MainId == -1
UdpId  == -2    \* the UDPResultWorker
Writers == Agents \union {MainId, UdpId}

\* Addresses that the blocks before b hold.
Before[b \in 1 .. (Len(Blocks) + 1)] ==
  IF b = 1 THEN 0 ELSE Before[b - 1] + Blocks[b - 1].count

Count == Before[Len(Blocks) + 1]

BlockOf(index) ==
  CHOOSE b \in DOMAIN Blocks : Before[b] <= index /\ index < Before[b + 1]

Offset(index) == index - Before[BlockOf(index)]

Address(family, n) == [family |-> family, n |-> n]

\* Runner.PickIP and PickSubnetIP.
PickIP(index) ==
  LET block == Blocks[BlockOf(index)]
  IN  Address(block.family, block.base + Offset(index))

\* targetIndex.pickIPv4, in 32 bits.
PickIPv4(index) ==
  Address("v4", (Blocks[BlockOf(index)].base + Offset(index)) % AddrSpace)

IsV4(index) == Blocks[BlockOf(index)].family = "v4"

Targets == {PickIP(index) : index \in 0 .. (Count - 1)}

Addresses == [family : {"v4", "v6"}, n : Nat]
OptionType == [file : Seq(Segments), ports : Seq(Segments), exclude : Seq(Segments),
               top : {"none", "full", "100", "1000", "other"}]

\* Blocks of addresses, those of IPv4 below the end of its space; and
\* permutations of all indexes.
ASSUME SmartScanAssumption ==
  /\ Blocks \in Seq([family : {"v4", "v6"}, base : Nat, count : Nat])
  /\ \A b \in DOMAIN Blocks :
       Blocks[b].family = "v4" => Blocks[b].base + Blocks[b].count <= AddrSpace
  /\ Shuffles # <<>> /\ Shuffles \in Seq([0 .. (Count - 1) -> 0 .. (Count - 1)])
  /\ \A k \in DOMAIN Shuffles : \A i \in 0 .. (Count - 1) : \E j \in 0 .. (Count - 1) : Shuffles[k][j] = i
  /\ WithPort \in Seq(Addresses \X (0 .. MaxPort))
  /\ PortOptions \subseteq OptionType /\ Modes \subseteq {"connect", "verify", "raw"}
  /\ {AddrSpace, CancelStride, BatchSize} \subseteq Nat \ {0}
  /\ {Retries, Rate, PortThreshold} \subseteq Nat

VARIABLES
  pc,          \* where the main goroutine is
  options,     \* the port options
  mode,        \* the kind of scan
  sender,      \* the fast SYN sender exists
  ports,       \* r.scanner.Ports
  retry,       \* retry
  knownOpen,   \* the numbers collected for this retry
  queue,       \* the queue of this retry
  queuePtr,    \* queuePtr: 0 is nil, otherwise the retry it belongs to, plus 1
  receive,     \* r.scanner.OnReceive: "orig" or "wrapped"
  brSeed,      \* brSeed
  port,        \* the port being scanned
  index,       \* the loop over addresses, then over targetsWithPort
  batch,       \* packets of the fast sender not yet given to the kernel
  agent,       \* the goroutines that may report an open port
  found,       \* ScanResults.ipPorts: open numbers by address
  skipped,     \* ScanResults.skipped
  cancelled,   \* the context is done
  output,      \* the handler's output: "before", "ranging" or "after"
  toShow,        \* hosts its GetIPsPorts has yet to look up
  waiting,     \* the goroutines that wait in Lock()
  popped,      \* history: the ports taken from the queue in this retry
  boosted,     \* history: numbers that raised priorities in this queue
  tried,       \* history: pairs sent or launched in this retry
  probed       \* history: pairs ever sent or launched

given     == <<options, mode>>
setup     == <<sender, ports, receive>>
round     == <<retry, knownOpen, queuePtr, brSeed>>
place     == <<port, index>>
queueVars == <<queue, boosted, popped>>
sendVars  == <<batch, tried, probed>>
mainVars  == <<pc, given, setup, round, place, popped, batch, skipped>>
handler   == <<cancelled, output, toShow>>
shared    == <<agent, found, handler, waiting>>
vars      == <<mainVars, queue, boosted, tried, probed, shared>>

-----------------------------------------------------------------------------
NoPort  == Port(0, "none")
NoAddr  == Address("none", 0)
Idle    == [at |-> "idle", ip |-> NoAddr, port |-> NoPort, ptr |-> 0]
At(what, ip, p, ptr) == [at |-> what, ip |-> ip, port |-> p, ptr |-> ptr]

AddrsKnown == Targets \union {w[1] : w \in ToSet(WithPort)}
OpenNumbers == UNION {found[a] : a \in AddrsKnown}
FreeSlots == {k \in Slots : agent[k] = Idle}
Raw == mode = "raw"

\* sync.RWMutex: a reader keeps writers out, a writer that waits keeps new
\* readers out, and goes first when the reader is done.
NoReader == output # "ranging"
CanRLock == NoReader \/ waiting = {}
Written(g) == NoReader /\ waiting' = waiting \ {g}

CdnBlocked(ip, number) == ip \in CdnHosts /\ number \notin WebPorts

Init ==
  /\ pc = "parse"
  /\ options \in PortOptions /\ mode \in Modes
  /\ sender = FALSE /\ ports = <<>> /\ retry = 0 /\ knownOpen = {}
  /\ queue = EmptyQueue /\ queuePtr = 0 /\ receive = "orig"
  /\ brSeed = 0 /\ port = NoPort /\ index = 0 /\ batch = {}
  /\ agent = [a \in Agents |-> Idle]
  /\ found = [a \in AddrsKnown |-> {}]
  /\ skipped = {} /\ cancelled = FALSE
  /\ output = "before" /\ toShow = {} /\ waiting = {}
  /\ popped = <<>> /\ boosted = {} /\ tried = {} /\ probed = {}

-----------------------------------------------------------------------------
(* Start: NewRunner parses the ports; a list in error is fatal.            *)

ParsePortOptions ==
  /\ pc = "parse"
  /\ LET parsed == ParsePorts(options)
     IN  /\ ports' = parsed.ports
         /\ pc' = IF parsed.ok THEN "begin" ELSE "fatal"
  /\ UNCHANGED <<given, sender, receive, round, place, queueVars, sendVars,
                 skipped, shared>>

\* newSYNSender fails without a raw connection, with Ethernet framing or
\* without a source address; then OnReceive is wrapped.
BeginScan ==
  /\ pc = "begin"
  /\ \E ok \in BOOLEAN : sender' = (Raw /\ ok)
  /\ receive' = "wrapped"
  /\ pc' = "collect"
  /\ UNCHANGED <<given, ports, round, place, queueVars, sendVars, skipped,
                 shared>>

-----------------------------------------------------------------------------
(* One retry: collect what is open, build the queue, drain it.             *)

CollectOpen ==
  /\ pc = "collect" /\ retry < Retries /\ CanRLock
  /\ knownOpen' = OpenNumbers
  /\ pc' = "store"
  /\ UNCHANGED <<given, setup, retry, queuePtr, brSeed, place, queueVars,
                 sendVars, skipped, shared>>

StoreQueue ==
  /\ pc = "store"
  /\ queue' = newPortQueue(ports, knownOpen)
  /\ queuePtr' = retry + 1
  /\ popped' = <<>> /\ boosted' = {} /\ tried' = {}
  /\ pc' = "pop"
  /\ UNCHANGED <<given, setup, retry, knownOpen, brSeed, place, batch, probed,
                 skipped, shared>>

PopPort ==
  /\ pc = "pop" /\ queue.items # <<>>
  /\ port' = queue.items[1].port
  /\ queue' = PopBest(queue)
  /\ popped' = Append(popped, port')
  /\ brSeed' = brSeed + 1
  /\ index' = 0
  /\ pc' = "deal"
  /\ UNCHANGED <<given, setup, retry, knownOpen, queuePtr, boosted, sendVars,
                 skipped, shared>>

\* The wait group is left alone.
NoWait == TRUE
\* A connect scan waits for its probes; a raw scan only sleeps.
RetryWait == Raw \/ FreeSlots = Slots

EndRetry ==
  /\ pc = "pop" /\ queue.items = <<>>
  /\ RetryWait
  /\ retry' = retry + 1
  /\ pc' = "collect"
  /\ UNCHANGED <<given, setup, knownOpen, queuePtr, brSeed, place, queueVars,
                 sendVars, skipped, shared>>

Detach ==
  /\ pc = "collect" /\ retry = Retries
  /\ queuePtr' = 0
  /\ index' = 0
  /\ pc' = "withPort"
  /\ UNCHANGED <<given, setup, retry, knownOpen, brSeed, port, queueVars,
                 sendVars, skipped, shared>>

-----------------------------------------------------------------------------
(* scanSinglePortOnTargets: one port on every address.                     *)

Permuted == Shuffles[1 + (brSeed % Len(Shuffles))][index]

FastPath == sender /\ port.proto = "tcp"

\* An IPv6 target of the fast path goes to the standard sender as it is.
Unchecked == FastPath /\ ~IsV4(Permuted)

Ip == IF FastPath /\ IsV4(Permuted) THEN PickIPv4(Permuted) ELSE PickIP(Permuted)

LooksAtContext == index % CancelStride = 0

Dealing == pc = "deal" /\ index < Count /\ ~(LooksAtContext /\ cancelled)

NextAddress == index' = index + 1 /\ UNCHANGED port

Send(pairs) == tried' = tried \union pairs /\ probed' = probed \union pairs

OverThreshold(ip) ==
  PortThreshold > 0 /\ Cardinality(found[ip]) >= PortThreshold

NoExclusion(ip) == FALSE
IsExcluded(ip)  == ip \in Excluded

\* Excluded addresses, skipped hosts, known ports and CDN ports are passed.
NotWanted(ip) ==
  \/ IsExcluded(ip)
  \/ ip \in skipped
  \/ ~OverThreshold(ip) /\ (\/ port.number \in found[ip]
                            \/ CdnBlocked(ip, port.number))

Wanted == CanRLock /\ ~NotWanted(Ip) /\ ~OverThreshold(Ip)

PassOver ==
  /\ Dealing
  /\ ~Unchecked /\ NotWanted(Ip)
  /\ CanRLock \/ IsExcluded(Ip)
  /\ NextAddress
  /\ UNCHANGED <<pc, given, setup, round, queueVars, sendVars, skipped, shared>>

\* "Threshold reached"
TooManyPorts == Dealing /\ ~Unchecked /\ ~NotWanted(Ip) /\ OverThreshold(Ip)

SkipHost ==
  /\ TooManyPorts /\ Written(MainId)
  /\ skipped' = skipped \union {Ip}
  /\ NextAddress
  /\ UNCHANGED <<pc, given, setup, round, queueVars, sendVars, agent, found,
                 handler>>

\* The fast sender: into the batch, which goes out when it is full.
SendFast ==
  /\ Dealing
  /\ FastPath /\ ~Unchecked /\ Wanted
  /\ LET full == batch \union {<<Ip, port>>}
     IN  IF Cardinality(full) < BatchSize
         THEN batch' = full /\ UNCHANGED <<tried, probed>>
         ELSE batch' = {} /\ Send(full)
  /\ NextAddress
  /\ UNCHANGED <<pc, given, setup, round, queueVars, skipped, shared>>

\* EnqueueTCP or EnqueueUDP.
SendStandard ==
  /\ Dealing /\ Raw
  /\ Unchecked \/ (~FastPath /\ Wanted)
  /\ Send({<<Ip, port>>})
  /\ NextAddress
  /\ UNCHANGED <<pc, given, setup, round, queueVars, batch, skipped, shared>>

\* A connect scan launches the pair once wgscan has a slot.
Admit ==
  /\ Dealing /\ ~Raw /\ Wanted
  /\ pc' = "spawn"
  /\ UNCHANGED <<given, setup, round, place, queueVars, sendVars, skipped,
                 shared>>

Launch(ip, p) ==
  /\ FreeSlots # {}
  /\ agent' = [agent EXCEPT ![Min(FreeSlots)] = At("started", ip, p, 0)]
  /\ Send({<<ip, p>>})
  /\ UNCHANGED <<batch, found, handler, waiting>>

Spawn ==
  /\ pc = "spawn"
  /\ Launch(Ip, port)
  /\ NextAddress
  /\ pc' = "deal"
  /\ UNCHANGED <<given, setup, round, queueVars, skipped>>

\* The last batch of a port goes out with the next one.
KeepBatch == UNCHANGED sendVars
Flush     == batch' = {} /\ Send(batch)

\* All addresses, or the context is done: sender.flush().
EndPort ==
  /\ pc = "deal"
  /\ index = Count \/ (LooksAtContext /\ cancelled)
  /\ Flush
  /\ pc' = "pop"
  /\ UNCHANGED <<given, setup, round, place, queueVars, skipped, shared>>

-----------------------------------------------------------------------------
(* scanTargetsWithPort: ip:port targets, without exclusion or threshold.   *)

Explicit == WithPort[index + 1]

RawWithPort ==
  /\ pc = "withPort" /\ index < Len(WithPort) /\ Raw
  /\ LET ip == Explicit[1] number == Explicit[2]
     IN  IF cancelled \/ CdnBlocked(ip, number) \/ number \in found[ip]
         THEN UNCHANGED <<tried, probed>>
         ELSE Send({<<ip, Port(number, "tcp")>>})
  /\ NextAddress
  /\ UNCHANGED <<pc, given, setup, round, queueVars, batch, skipped, shared>>

SpawnWithPort ==
  /\ pc = "withPort" /\ index < Len(WithPort) /\ ~Raw
  /\ Launch(Explicit[1], Port(Explicit[2], "tcp"))
  /\ NextAddress
  /\ UNCHANGED <<pc, given, setup, round, queueVars, skipped>>

\* wgscan.Wait(), and OnReceive is put back.
EndScan ==
  /\ pc = "withPort" /\ index = Len(WithPort)
  /\ FreeSlots = Slots
  /\ receive' = "orig"
  /\ pc' = "done"
  /\ UNCHANGED <<given, sender, ports, round, place, queueVars, sendVars,
                 skipped, shared>>

-----------------------------------------------------------------------------
(* The agents.                                                             *)

Frame == UNCHANGED <<mainVars, tried, probed, handler>>

\* handleHostPort, its early returns.
Unneeded(a) ==
  \/ cancelled
  \/ CdnBlocked(a.ip, a.port.number)
  \/ a.port.number \in found[a.ip]

ProbeReturns(k) ==
  /\ agent[k].at = "started" /\ Unneeded(agent[k])
  /\ agent' = [agent EXCEPT ![k] = Idle]
  /\ Frame /\ UNCHANGED <<queue, boosted, found, waiting>>

ProbeDials(k) ==
  /\ agent[k].at = "started" /\ ~Unneeded(agent[k])
  /\ agent' = [agent EXCEPT ![k].at = "dialing"]
  /\ Frame /\ UNCHANGED <<queue, boosted, found, waiting>>

\* A probe that fails does not give its slot back.
KeepSlot(k) == [agent EXCEPT ![k].at = "held"]
GiveBack(k) == [agent EXCEPT ![k] = Idle]

ProbeClosed(k) ==
  /\ agent[k].at = "dialing" /\ k \notin waiting
  /\ agent' = GiveBack(k)
  /\ Frame /\ UNCHANGED <<queue, boosted, found, waiting>>

\* AddPort, then OnReceive unless the scan verifies: the wrapper loads the
\* queue.
Connected(k) ==
  agent[k].at = "dialing" /\ <<agent[k].ip, agent[k].port>> \in OpenPairs

ProbeOpen(k) ==
  /\ Connected(k) /\ Written(k)
  /\ found' = [found EXCEPT ![agent[k].ip] = @ \union {agent[k].port.number}]
  /\ agent' = [agent EXCEPT ![k] =
       IF mode = "verify" THEN Idle
       ELSE [@ EXCEPT !.at = "loaded", !.ptr = queuePtr]]
  /\ Frame /\ UNCHANGED <<queue, boosted>>

\* An answer to a TCP packet that was sent, at any later time, and again:
\* TCPResultWorker calls whatever OnReceive is by now.
ReceiveTcp ==
  /\ Raw /\ agent[Worker] = Idle
  /\ \E pair \in probed \intersect OpenPairs :
       /\ pair[2].proto = "tcp"
       /\ agent' = [agent EXCEPT ![Worker] =
            At("loaded", pair[1], pair[2],
               IF receive = "wrapped" THEN queuePtr ELSE 0)]
  /\ Frame /\ UNCHANGED <<queue, boosted, found, waiting>>

\* UDPResultWorker records and calls nobody.
UdpAnswers == {pair \in probed \intersect OpenPairs : pair[2].proto = "udp"}

ReceiveUdp ==
  /\ Raw /\ Written(UdpId)
  /\ \E pair \in UdpAnswers :
       found' = [found EXCEPT ![pair[1]] = @ \union {pair[2].number}]
  /\ Frame /\ UNCHANGED <<queue, boosted, agent>>

\* boostCorrelated on the queue that was loaded.  A queue of an earlier retry
\* is empty by now.
Boost(a) ==
  /\ agent[a].at = "loaded"
  /\ IF agent[a].ptr # 0 /\ agent[a].ptr = queuePtr
     THEN /\ \E targets \in Walks(queue, agent[a].port.number) :
               queue' = boostCorrelated(queue, agent[a].port.number, targets)
          /\ boosted' = boosted \union {agent[a].port.number}
     ELSE UNCHANGED <<queue, boosted>>
  /\ agent' = [agent EXCEPT ![a] =
                 IF a = Worker THEN [@ EXCEPT !.at = "record"] ELSE Idle]
  /\ Frame /\ UNCHANGED <<found, waiting>>

\* The worker adds the port after OnReceive has returned.
Record ==
  /\ agent[Worker].at = "record" /\ Written(Worker)
  /\ LET w == agent[Worker]
     IN  found' = [found EXCEPT ![w.ip] = @ \union {w.port.number}]
  /\ agent' = [agent EXCEPT ![Worker] = Idle]
  /\ Frame /\ UNCHANGED <<queue, boosted>>

\* A goroutine that has something to write, and a reader that is not done.
HasToWrite(g) ==
  \/ g \in Slots /\ Connected(g)
  \/ g = Worker /\ agent[Worker].at = "record"
  \/ g = MainId /\ TooManyPorts /\ CanRLock
  \/ g = UdpId /\ Raw /\ UdpAnswers # {}

WaitInLock(g) ==
  /\ ~NoReader /\ g \notin waiting /\ HasToWrite(g)
  /\ waiting' = waiting \union {g}
  /\ Frame /\ UNCHANGED <<queue, boosted, agent, found>>

-----------------------------------------------------------------------------
(* The signal handler: cancel(), then ShowScanResultOnExit.                *)

HandlerFrame ==
  UNCHANGED <<mainVars, queue, boosted, tried, probed, agent, found, waiting>>

Interrupt ==
  /\ ~cancelled /\ pc \notin {"parse", "done", "fatal"}
  /\ cancelled' = TRUE
  /\ HandlerFrame /\ UNCHANGED <<output, toShow>>

\* GetIPsPorts takes the read lock for as long as it is ranged over ...
GetIPsPorts ==
  /\ cancelled /\ output = "before"
  /\ output' = "ranging" /\ toShow' = {a \in AddrsKnown : found[a] # {}}
  /\ HandlerFrame /\ UNCHANGED cancelled

\* ... and HasSkipped takes it once more for every host.
NextHost ==
  /\ output = "ranging" /\ CanRLock
  /\ \E a \in toShow : toShow' = toShow \ {a}
  /\ HandlerFrame /\ UNCHANGED <<cancelled, output>>

EndOutput ==
  /\ output = "ranging" /\ toShow = {}
  /\ output' = "after"
  /\ HandlerFrame /\ UNCHANGED <<cancelled, toShow>>

Handler == Interrupt \/ GetIPsPorts \/ NextHost \/ EndOutput

\* The producer waits for a writer, and the writer for the producer.
Stuck == output = "ranging" /\ toShow # {} /\ waiting # {}

Terminated == (Stuck \/ pc \in {"done", "fatal"}) /\ UNCHANGED vars

Sends == PassOver \/ SkipHost \/ SendFast \/ SendStandard \/ Admit \/ Spawn

Control ==
  \/ BeginScan \/ CollectOpen \/ EndRetry \/ Detach \/ Sends \/ EndPort
  \/ RawWithPort \/ SpawnWithPort \/ EndScan

Main == ParsePortOptions \/ StoreQueue \/ PopPort \/ Control

Probe(k) == ProbeReturns(k) \/ ProbeDials(k) \/ ProbeClosed(k) \/ ProbeOpen(k)

Next ==
  \/ Main \/ ReceiveTcp \/ ReceiveUdp \/ Record \/ Handler \/ Terminated
  \/ \E g \in Writers : WaitInLock(g)
  \/ \E k \in Slots : Probe(k)
  \/ \E a \in Agents : Boost(a)

\* Steps that are recognised by what they do to pc or to the agent alone:
\* ParsePortOptions, StoreQueue, PopPort and a slot's Boost.  TLC would find
\* out whether these are enabled by running the heap.
Goes(from, to) == pc = from /\ pc' \in to
Applied(k) == agent[k].at = "loaded" /\ agent' = [agent EXCEPT ![k] = Idle]

\* Goroutines that can run do, and a dial is bounded by its timeout; that a
\* packet is ever answered is not promised.
Fairness ==
  /\ WF_vars(Control) /\ WF_vars(NextHost) /\ WF_vars(EndOutput)
  /\ WF_pc(Goes("parse", {"begin", "fatal"})) /\ WF_pc(Goes("store", {"pop"}))
  /\ WF_pc(queue.items # <<>> /\ Goes("pop", {"deal"}))
  /\ \A k \in Slots : WF_vars(Probe(k)) /\ WF_agent(Applied(k))

Spec == Init /\ [][Next]_vars /\ Fairness

-----------------------------------------------------------------------------
(* Properties.                                                             *)

PortType == [number : 0 .. MaxPort, proto : {"tcp", "udp", "none"}]
AgentType ==
  [at : {"idle", "started", "dialing", "loaded", "record"},
   ip : AddrsKnown \union {NoAddr}, port : PortType, ptr : 0 .. Retries]

\* The variables keep their types: no port is above 65535, the batch of the
\* fast sender is smaller than the array that holds it.
TypeOK ==
  /\ pc \in {"parse", "begin", "collect", "store", "pop", "deal", "spawn",
             "withPort", "done", "fatal"}
  /\ ToSet(ports) \subseteq PortType
  /\ {item.port : item \in ToSet(queue.items)} \subseteq PortType
  /\ retry \in 0 .. Retries /\ queuePtr \in 0 .. Retries
  /\ agent \in [Agents -> AgentType]
  /\ Cardinality(batch) < BatchSize
  /\ output \in {"before", "ranging", "after"} /\ toShow \subseteq AddrsKnown
  /\ waiting \subseteq Writers

Draining == pc \in {"pop", "deal", "spawn"}
NumberOf(item) == item.port.number
Queued == {NumberOf(item) : item \in ToSet(queue.items)}
Times(p, list) == Cardinality({i \in DOMAIN list : list[i] = p})
Once(n) == Cardinality({i \in DOMAIN ports : ports[i].number = n}) = 1

\* boostCorrelated finds an item by its number: the position the map holds is
\* in the heap and is that number's, whatever was pushed, popped and fixed
\* before, and a number that the list holds once is never missing while it
\* waits (smartscan.go:305-341, 396-399).
MapLeadsToItem ==
  /\ \A n \in DOMAIN queue.index :
       /\ queue.index[n] \in DOMAIN queue.items
       /\ NumberOf(queue.items[queue.index[n]]) = n
  /\ \A n \in Queued : Once(n) => n \in DOMAIN queue.index

\* "The user's port list is never modified, only the scan order changes"
\* (smartscan.go:27): in every retry, what was taken and what waits are the
\* ports of the list, each as often as it is there.
OnlyOrderChanges ==
  Draining =>
    \A p \in ToSet(ports) \union ToSet(popped)
              \union {item.port : item \in ToSet(queue.items)} :
      Times(p, ports) = Times(p, popped)
                          + Times(p, [i \in DOMAIN queue.items |->
                                        queue.items[i].port])

\* The priority of a waiting port is the best evidence there is for it: its
\* popularity, the correlations with the ports known when the queue was built,
\* and with those reported to this queue since; a report that came while
\* another was being applied has not been lost (smartscan.go:343-405).
PriorityIsBestEvidence ==
  Draining =>
    \A item \in ToSet(queue.items) :
      Once(NumberOf(item)) =>
        item.priority = Max({Popularity(NumberOf(item)),
                             Score(Model, knownOpen \union boosted,
                                   NumberOf(item))})

\* "Ports are dequeued in priority order (most-likely-open first)"
\* (smartscan.go:25), also right after a boost.
PopsMostLikely ==
  [][(pc = "pop" /\ pc' = "deal") =>
       \E taken \in ToSet(queue.items) :
         /\ taken.port = port'
         /\ \A item \in ToSet(queue.items) :
              \/ item.priority < taken.priority
              \/ /\ item.priority = taken.priority
                 /\ NumberOf(item) >= NumberOf(taken)]_vars

\* In a connect scan every port recorded as open has its say in the order of
\* the retry that runs: it was known when the queue was built, or it has been
\* or is about to be reported to this queue and not to an older one.  Raw
\* scans promise less: an answer may be recorded between the two.
OpenPortsOrderTheQueue ==
  (Draining /\ mode = "connect") =>
    OpenNumbers \subseteq
      knownOpen \union boosted
        \union {agent[a].port.number :
                  a \in {k \in Slots : /\ agent[k].at = "loaded"
                                       /\ agent[k].ptr = queuePtr}}

\* A retry that was not interrupted leaves out no pair: once its queue is
\* drained each port was sent to or launched for each target, unless the
\* target is excluded, has reached the threshold or has this port open, or a
\* CDN forbids it; nothing is left in the fast sender (smartscan.go:92-125).
EveryPairTried ==
  (pc = "pop" /\ queue.items = <<>> /\ ~cancelled) =>
    \A ip \in Targets, p \in ToSet(ports) :
      \/ <<ip, p>> \in tried
      \/ ip \in Excluded \/ ip \in skipped
      \/ p.number \in found[ip] \/ CdnBlocked(ip, p.number)

\* What looks at the exclusion list is never passed by: an excluded address
\* is probed only where the code does not look, that is when it was given as
\* ip:port (smartscan.go:262-288), or is of IPv6 and the fast sender hands a
\* TCP port of it to the standard one (smartscan.go:170-181).  For these two
\* the code breaks the promise of options.go:160, "hosts to exclude from the
\* scan".
UncheckedPathsAside ==
  \A pair \in probed :
    pair[1] \in Excluded =>
      \/ <<pair[1], pair[2].number>> \in ToSet(WithPort) /\ pair[2].proto = "tcp"
      \/ sender /\ pair[1].family = "v6" /\ pair[2].proto = "tcp"

\* The list holds what was asked for: every number of a source is there
\* unless a protocol of it is excluded, nothing else is, and nothing that was
\* excluded; the top 100 stand in for an empty list (ports.go:24-109).
RequestedPorts ==
  pc \notin {"parse", "fatal"} =>
    LET numbers  == {p.number : p \in ToSet(ports)}
        excluded == Asked(options.exclude)
        wanted   == AskedNumbers(options) \ excluded
        barred   == ToSet(parsePortsSlice(options.exclude).ports)
    IN  /\ ToSet(ports) \intersect barred = {}
        /\ wanted \subseteq numbers
        /\ \/ numbers \subseteq AskedNumbers(options)
           \/ wanted = {} /\ numbers \subseteq ToSet(Top100)

\* Every scan ends, by itself or after the signal: no probe keeps its slot and
\* no wait waits for ever, unless the handler's producer and a writer wait for
\* each other (results.go:82-92, 121).
ScanEndsUnlessStuck == <>(Stuck \/ pc \in {"done", "fatal"})
=============================================================================

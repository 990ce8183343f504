------------------------------- MODULE RawScan -------------------------------
(***************************************************************************)
(* The raw-packet scan: RunEnumeration with host discovery and a SYN scan, *)
(* the phases it sets, the writer that sends the probes, the packet reader *)
(* of pkg/scan/scan_raw.go, the bounded channels of the listen handler and *)
(* the three result workers of pkg/scan/scan.go, ConnectVerification, and  *)
(* Scanner.Close, which waits for the workers.                             *)
(*                                                                         *)
(* The enumeration loop itself, with its retries, threshold and checkpoint, *)
(* is in Enumeration: here the probes go out in any order.  ScanResults is *)
(* behind an RWMutex: a worker waits in AddPort's Lock() while main ranges *)
(* over GetIPsPorts, whose producer takes a read lock once more per host.  *)
(***************************************************************************)
EXTENDS Naturals, Sequences, FiniteSets

CONSTANTS
  Hosts,           \* the addresses packets may come from
  Targets,         \* the addresses in the IPRanger
  Excluded,        \* the addresses that excludedIpsNP rejects
  ScanPorts,       \* <<protocol, number>> pairs to scan
  DiscoveryPorts,  \* the probes of host discovery, <<"icmp", 0>> among them
  OpenPairs,       \* <<address, port>> pairs that answer as open
  Discovery,       \* the values of -wn
  Verify,          \* the values of -verify
  ChanSize,        \* capacity of TcpChan, UdpChan and HostDiscoveryChan
  None,            \* no packet
  MaxPackets       \* bound of the model: packets that arrive

Workers == {"icmp", "tcp", "udp"}
Probes  == Hosts \X (ScanPorts \union DiscoveryPorts)
Packets ==
  [host : Hosts, port : ScanPorts \union DiscoveryPorts,
   flag : {"synack", "rst", "reply", "payload"}]

ASSUME RawScanAssumption ==
  /\ Targets \subseteq Hosts /\ Excluded \subseteq Hosts
  /\ OpenPairs \subseteq Hosts \X (ScanPorts \union DiscoveryPorts)
  /\ \A port \in ScanPorts : port[1] \in {"tcp", "udp"}
  /\ \A port \in DiscoveryPorts : port[1] \in {"tcp", "icmp"}
  /\ Discovery \subseteq BOOLEAN /\ Verify \subseteq BOOLEAN
  /\ ChanSize \in Nat \ {0} /\ MaxPackets \in Nat
  /\ None \notin Packets

VARIABLES
  discovery,  \* -wn
  verify,     \* -verify
  pc,         \* where the main goroutine is
  phase,      \* ListenHandler.Phase
  todo,       \* the probes it still enqueues
  sent,       \* the probes handed to the write workers
  packets,    \* packets that arrived so far
  layers,     \* the tcp and udp structs into which the reader decodes
  reader,     \* what the reader hands to a worker
  chan,       \* the channel of each worker
  worker,     \* the result workers
  alive,      \* HostDiscoveryResults.ips
  results,    \* ScanResults, as <<address, port>> pairs
  left,       \* hosts that the producer of main's GetIPsPorts has yet to check
  printed,    \* what OnReceive was given
  checking,   \* what ConnectVerification has still to dial
  confirmed,  \* verifiedResult
  reported,   \* what handleOutput was given
  atDone      \* history: ScanResults when the phase became Done, and what the
              \* workers were adding then

options  == <<discovery, verify>>
network  == <<sent, packets, layers, reader>>
handling == <<chan, worker, alive, printed>>
ending   == <<left, checking, confirmed, reported, atDone>>
vars == <<options, pc, phase, todo, network, handling, results, ending>>

\* RunEnumeration has returned and its deferred cancel() has run.
Cancelled == pc \in {"closing", "closed"}

Idle    == [to |-> None, item |-> None]
Resting == [at |-> "idle", item |-> None]

\* sync.RWMutex of ScanResults: a worker that waits in Lock() keeps new readers
\* and other writers out, and waits for the read lock of main's producer, which
\* is given back when its last host was checked.
WriterWaits == \E w \in Workers : worker[w].at = "adding"
CanRLock    == ~WriterWaits
NoReader    == left = {}
HostsOf(set) == {pair[1] : pair \in set}

Init ==
  /\ discovery \in Discovery /\ verify \in Verify
  /\ pc = "start" /\ phase = "Init"
  /\ todo = {} /\ sent = {} /\ packets = 0
  /\ layers = [tcp |-> None, udp |-> None] /\ reader = Idle
  /\ chan = [w \in Workers |-> <<>>]
  /\ worker = [w \in Workers |-> Resting]
  /\ alive = {} /\ results = {} /\ printed = {}
  /\ left = {} /\ checking = {} /\ confirmed = {} /\ reported = {}
  /\ atDone = {}

-----------------------------------------------------------------------------
(* The main goroutine.                                                     *)

\* Phase.Set(HostDiscovery), and the probes of every target.
StartDiscovery ==
  /\ pc = "start" /\ discovery
  /\ phase' = "HostDiscovery"
  /\ todo' = (Targets \ Excluded) \X DiscoveryPorts
  /\ pc' = "discover"
  /\ UNCHANGED <<options, network, handling, results, ending>>

\* EnqueueICMP, EnqueueTCP, EnqueueUDP.  The write workers never stop, so a
\* full channel only takes time, and from here on the probe may be answered or
\* not (without a route it is dropped).  A port known to be open is skipped.
Enqueue ==
  /\ pc \in {"discover", "enumerate"}
  /\ pc = "enumerate" => CanRLock
  /\ \E probe \in todo :
       /\ todo' = todo \ {probe}
       /\ sent' = IF pc = "enumerate" /\ probe \in results
                  THEN sent ELSE sent \union {probe}
  /\ UNCHANGED <<options, pc, phase, packets, layers, reader, handling,
                 results, ending>>

\* Every host heard of is scanned, or every target when there is none.  The
\* workers still count answers as discovery: the phase changes afterwards.
PickTargets ==
  /\ \/ pc = "start" /\ ~discovery
     \/ pc = "discover" /\ todo = {}
  /\ LET scope == IF alive # {} THEN alive ELSE Targets
     IN  todo' = (scope \ Excluded) \X ScanPorts
  /\ pc' = "phase"
  /\ UNCHANGED <<options, phase, network, handling, results, ending>>

StartScan ==
  /\ pc = "phase"
  /\ phase' = "Scan" /\ pc' = "enumerate"
  /\ UNCHANGED <<options, todo, network, handling, results, ending>>

\* After the warm-up time: Phase.Set(Done).
EndScan ==
  /\ pc = "enumerate" /\ todo = {}
  /\ phase' = "Done" /\ pc' = "done"
  /\ atDone' = results \union
       {worker[w].item :
          w \in {v \in Workers : worker[v].at \in {"add", "adding"}}}
  /\ UNCHANGED <<options, todo, network, handling, results, left, checking,
                 confirmed, reported>>

\* ConnectVerification sets the phase back to Scan ...
StartVerification ==
  /\ pc = "done" /\ verify
  /\ phase' = "Scan"
  /\ pc' = "collect"
  /\ UNCHANGED <<options, todo, network, handling, results, ending>>

\* ... and ranges over the results: GetIPsPorts takes a read lock.
GetIPsPorts ==
  /\ pc = "collect" /\ CanRLock
  /\ left' = HostsOf(results) /\ checking' = results
  /\ pc' = "verify"
  /\ UNCHANGED <<options, phase, todo, network, handling, results, confirmed,
                 reported, atDone>>

\* The producer takes it once more (HasSkipped), then sends the host, which
\* goes to the verification or to the output.
NextHost ==
  /\ left # {} /\ CanRLock
  /\ \E host \in left :
       /\ left' = left \ {host}
       /\ reported' = IF pc = "print"
            THEN reported \union {pair \in results : pair[1] = host}
            ELSE reported
  /\ UNCHANGED <<options, pc, phase, todo, network, handling, results,
                 checking, confirmed, atDone>>

\* ConnectVerify dials a port; a udp dial sends nothing and always succeeds.
ConnectVerify ==
  /\ pc = "verify"
  /\ \E pair \in checking :
       /\ pair[1] \notin left
       /\ checking' = checking \ {pair}
       /\ \/ /\ pair \in OpenPairs \/ pair[2][1] = "udp"
             /\ confirmed' = confirmed \union {pair}
          \/ /\ pair[2][1] # "udp"
             /\ UNCHANGED confirmed
  /\ UNCHANGED <<options, pc, phase, todo, network, handling, results, left,
                 reported, atDone>>

\* The verified results replace ScanResults; the phase stays at Scan.  A worker
\* that waits in the Lock() of the old store writes where nobody looks.
EndVerification ==
  /\ pc = "verify" /\ left = {} /\ checking = {}
  /\ results' = confirmed
  /\ worker' = [w \in Workers |->
       IF worker[w].at = "adding" THEN Resting ELSE worker[w]]
  /\ pc' = "output"
  /\ UNCHANGED <<options, phase, todo, network, chan, alive, printed, ending>>

SkipVerification ==
  /\ pc = "done" /\ ~verify
  /\ pc' = "output"
  /\ UNCHANGED <<options, phase, todo, network, handling, results, ending>>

\* handleOutput ranges over GetIPsPorts.
HandleOutput ==
  /\ pc = "output" /\ CanRLock
  /\ left' = HostsOf(results) /\ reported' = {}
  /\ pc' = "print"
  /\ UNCHANGED <<options, phase, todo, network, handling, results, checking,
                 confirmed, reported, atDone>>

\* RunEnumeration returns and cancels its context.
EndOutput ==
  /\ pc = "print" /\ left = {}
  /\ pc' = "closing"
  /\ UNCHANGED <<options, phase, todo, network, handling, results, ending>>

\* Scanner.Close: workersWg.Wait().
Close ==
  /\ pc = "closing"
  /\ \A w \in Workers : worker[w].at = "stopped"
  /\ pc' = "closed"
  /\ UNCHANGED <<options, phase, todo, network, handling, results, ending>>

-----------------------------------------------------------------------------
(* The network and the packet reader.                                      *)

\* What may come back for a probe, any time later and more than once.
Answers(probe) ==
  LET Packet(flag) == [host |-> probe[1], port |-> probe[2], flag |-> flag]
  IN  CASE probe[2][1] = "icmp" -> {}
        [] probe[2][1] = "tcp" ->
             {Packet("rst")} \union
             IF probe \in OpenPairs THEN {Packet("synack")} ELSE {}
        [] probe[2][1] = "udp" ->
             IF probe \in OpenPairs
             THEN {Packet("reply"), Packet("payload")} ELSE {}

\* DecodeLayers fills the struct of the layer it finds and leaves the other as
\* the packet before it left it, even when it then fails on a payload.
Decoded(packet) ==
  IF packet.port[1] = "tcp" THEN [layers EXCEPT !.tcp = packet]
                            ELSE [layers EXCEPT !.udp = packet]

SynOrRst(l) == l.tcp # None
\* tcpPortMatches && tcp.SYN && tcp.ACK, of whatever the struct holds.
SynAck(l) == l.tcp # None /\ l.tcp.flag = "synack"

\* transportReaderCallback: what goes to which worker.
Handover(host, l) ==
  CASE phase = "HostDiscovery" -> [to |-> "icmp", item |-> <<host, None>>]
    [] phase # "HostDiscovery" /\ SynAck(l) ->
         [to |-> "tcp", item |-> <<host, l.tcp.port>>]
    [] phase # "HostDiscovery" /\ ~SynAck(l) /\ l.udp # None ->
         [to |-> "udp", item |-> <<host, l.udp.port>>]
    [] OTHER -> Idle

\* A TCP or UDP packet for the port of the listen handler.
Arrives ==
  /\ reader = Idle /\ packets < MaxPackets
  /\ \E probe \in sent : \E packet \in Answers(probe) :
       /\ layers' = Decoded(packet)
       /\ reader' = IF packet.flag = "payload" THEN Idle
                    ELSE Handover(packet.host, layers')
  /\ packets' = packets + 1
  /\ UNCHANGED <<options, pc, phase, todo, sent, handling, results,
                 ending>>

\* A send into the channel of a worker blocks while it is full.
NoLimit(w) == TRUE
HasRoom(w) == Len(chan[w]) < ChanSize

ReaderSends ==
  /\ reader # Idle
  /\ HasRoom(reader.to)
  /\ chan' = [chan EXCEPT ![reader.to] = Append(@, reader.item)]
  /\ reader' = Idle
  /\ UNCHANGED <<options, pc, phase, todo, sent, packets, layers,
                 worker, alive, printed, results, ending>>

\* ICMPReadWorker4 and 6, and the ARP reader: an echo reply or an ARP reply of
\* any host, asked for by this scan or not, in any phase.
HostAnswers ==
  /\ packets < MaxPackets
  /\ HasRoom("icmp")
  /\ \E host \in Hosts :
       chan' = [chan EXCEPT !["icmp"] = Append(@, <<host, None>>)]
  /\ packets' = packets + 1
  /\ UNCHANGED <<options, pc, phase, todo, sent, layers, reader, worker,
                 alive, printed, results, ending>>

-----------------------------------------------------------------------------
(* ICMPResultWorker, TCPResultWorker, UDPResultWorker.                     *)

\* IPRanger.ContainsAny; ICMPResultWorker does not ask.
InRange(w, host) == w = "icmp" \/ host \in Targets

\* What a worker does first with what it receives: the next packet, if this one
\* is none of its own; OnReceive, or the phase.
FirstStep(w, host) ==
  CASE ~InRange(w, host) -> "idle"
    [] InRange(w, host) -> IF w = "tcp" THEN "print" ELSE "check"

Receive(w) ==
  /\ worker[w].at = "idle" /\ chan[w] # <<>>
  /\ LET item == Head(chan[w])
         at   == FirstStep(w, item[1])
     IN  worker' = [worker EXCEPT ![w] =
           IF at = "idle" THEN Resting ELSE [at |-> at, item |-> item]]
  /\ chan' = [chan EXCEPT ![w] = Tail(@)]
  /\ UNCHANGED <<options, pc, phase, todo, network, alive, printed, results,
                 ending>>

\* OnReceive, whatever the phase and whatever -verify says.
OnReceive ==
  /\ worker["tcp"].at = "print"
  /\ printed' = printed \union {worker["tcp"].item}
  /\ worker' = [worker EXCEPT !["tcp"].at = "check"]
  /\ UNCHANGED <<options, pc, phase, todo, network, chan, alive, results,
                 ending>>

\* Phase.Is(Scan) || s.stream, with s.stream set or not.
AsInStream == phase # "HostDiscovery"
InScan == phase = "Scan"

\* The phase is read, and released, before the store is written.
CheckPhase(w) ==
  /\ worker[w].at = "check"
  /\ worker' = [worker EXCEPT ![w] =
       CASE phase = "HostDiscovery" -> [@ EXCEPT !.at = "alive"]
         [] InScan /\ w # "icmp" -> [@ EXCEPT !.at = "add"]
         [] OTHER -> Resting]
  /\ UNCHANGED <<options, pc, phase, todo, network, chan, alive, printed,
                 results, ending>>

AddIp(w) ==
  /\ worker[w].at = "alive"
  /\ alive' = alive \union {worker[w].item[1]}
  /\ worker' = [worker EXCEPT ![w] = Resting]
  /\ UNCHANGED <<options, pc, phase, todo, network, chan, printed, results,
                 ending>>

\* s.ScanResults is read here, so it may be the verified one by now; then
\* AddPort calls Lock(), one writer at a time ...
AddPortWaits(w) ==
  /\ worker[w].at = "add" /\ ~WriterWaits
  /\ worker' = [worker EXCEPT ![w].at = "adding"]
  /\ UNCHANGED <<options, pc, phase, todo, network, chan, alive, printed,
                 results, ending>>

\* ... and writes when no reader is left.
AddPort(w) ==
  /\ worker[w].at = "adding" /\ NoReader
  /\ results' = results \union {worker[w].item}
  /\ worker' = [worker EXCEPT ![w] = Resting]
  /\ UNCHANGED <<options, pc, phase, todo, network, chan, alive, printed,
                 ending>>

\* ctx.Done(), and nothing else, ends a worker.
OnNextPacket(w) == Cancelled /\ chan[w] # <<>>
MayStop(w) == Cancelled

Stop(w) ==
  /\ worker[w].at = "idle" /\ MayStop(w)
  /\ worker' = [worker EXCEPT ![w].at = "stopped"]
  /\ UNCHANGED <<options, pc, phase, todo, network, chan, alive, printed,
                 results, ending>>

-----------------------------------------------------------------------------
Main ==
  \/ StartDiscovery \/ Enqueue \/ PickTargets \/ StartScan \/ EndScan
  \/ StartVerification \/ GetIPsPorts \/ NextHost \/ ConnectVerify
  \/ EndVerification \/ SkipVerification
  \/ HandleOutput \/ EndOutput \/ Close

Worker(w) ==
  \/ Receive(w) \/ (w = "tcp" /\ OnReceive) \/ CheckPhase(w)
  \/ AddIp(w) \/ AddPortWaits(w) \/ AddPort(w) \/ Stop(w)

\* Main's producer still has hosts to check, but a worker waits in AddPort for
\* the read lock it holds and keeps it from taking another (results.go:82, 92,
\* 121).
Stuck == left # {} /\ WriterWaits

\* The scan is over, or hangs; packets may still come in.
Over == (pc = "closed" \/ Stuck) /\ UNCHANGED vars

Next ==
  \/ Main \/ Arrives \/ ReaderSends \/ HostAnswers \/ Over
  \/ \E w \in Workers : Worker(w)

\* Main and the workers are goroutines that the scheduler runs; no packet is
\* promised.  A worker whose context is done while its channel has an item
\* chooses at random, so that stopping needs strong fairness.
Fairness ==
  /\ WF_vars(Main)
  /\ \A w \in Workers : WF_vars(Worker(w)) /\ SF_vars(Stop(w))

Spec == Init /\ [][Next]_vars
FairSpec == Spec /\ Fairness

-----------------------------------------------------------------------------
(* Properties.                                                             *)

Items == Hosts \X (ScanPorts \union DiscoveryPorts \union {None})

TypeOK ==
  /\ discovery \in BOOLEAN /\ verify \in BOOLEAN
  /\ pc \in {"start", "discover", "phase", "enumerate", "done", "collect",
             "verify", "output", "print", "closing", "closed"}
  /\ phase \in {"Init", "HostDiscovery", "Scan", "Done"}
  /\ todo \subseteq Probes /\ sent \subseteq Probes
  /\ packets \in 0 .. MaxPackets
  /\ layers \in [tcp : Packets \union {None}, udp : Packets \union {None}]
  /\ reader \in {Idle} \union [to : Workers, item : Items]
  /\ \A w \in Workers :
       /\ chan[w] \in Seq(Items) /\ Len(chan[w]) <= ChanSize
       /\ worker[w] \in [at : {"idle", "print", "check", "alive", "add",
                               "adding", "stopped"},
                         item : Items \union {None}]
  /\ alive \subseteq Hosts /\ left \subseteq Hosts
  /\ \A set \in {results, printed, checking, confirmed, reported, atDone} :
       set \subseteq Probes

\* As long as answers of one protocol only came in, whatever is recorded or
\* printed is open on just that host: no late, repeated or discovery answer,
\* and no RST, is taken for an open port (scan_raw.go:639-660).
OneProtocolFindsOpen ==
  (layers.tcp = None \/ layers.udp = None) =>
    results \union printed \subseteq OpenPairs

\* Once the phase is Done the results are settled, however many answers are
\* still in the channels: what is reported later was in the store by then, or
\* in the hands of a worker that had read the phase before (runner.go:721).
DoneSettlesResults ==
  (~verify /\ Cancelled) => reported \subseteq atDone

\* Whatever arrives, Close returns or the deadlock of Stuck is met: no other wait,
\* for room in a channel, for a packet, for the phase or for a store that is
\* replaced meanwhile, holds main up for ever.
CloseReturnsUnlessStuck == (pc = "start") ~> (pc = "closed" \/ Stuck)

\* README.md:129, "-verify: validate the ports again with TCP verification":
\* with -verify every reported port was dialled again and answered.
VerifiedOutputIsConfirmed ==
  (verify /\ Cancelled) => reported \subseteq confirmed

=============================================================================

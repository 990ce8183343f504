----------------------------- MODULE RawScanProofs -----------------------------
(***************************************************************************)
(* Proofs about RawScan: what the raw scan takes for an open port, and when*)
(* its results are settled.  The argument follows an answer from the reader*)
(* over the channel and the worker into the store, where the phase is read *)
(* before the store is written.                                            *)
(***************************************************************************)
EXTENDS RawScan, SequenceTheorems, TLAPS

-----------------------------------------------------------------------------
(* The inductive invariant.                                                *)

Adding  == {"add", "adding"}
Holding == {"print", "check", "alive"} \cup Adding
States  == [at : {"idle", "stopped"} \cup Holding, item : Items \cup {None}]

\* Channels and workers are functions of the worker, and the worker of host
\* discovery never records or prints a port.
FrameInv ==
  /\ chan \in [Workers -> Seq(Items)] /\ worker \in [Workers -> States]
  /\ worker["icmp"].at \notin {"print"} \cup Adding
  /\ \A w \in Workers : worker[w].at \in Holding => worker[w].item \in Items

\* Everything on the way to the result store, and everything in it, is in S.
Carried(S) ==
  /\ reader # Idle /\ reader.to # "icmp" => reader.item \in S
  /\ \A w \in {"tcp", "udp"} :
       /\ chan[w] \in Seq(S)
       /\ worker[w].at \in Holding => worker[w].item \in S
  /\ results \subseteq S /\ printed \subseteq S
  /\ checking \subseteq S /\ confirmed \subseteq S

\* Only answers of one protocol came in so far.
OneProtocol == layers.tcp = None \/ layers.udp = None

\* Without verification the phase stays Done, so that only what a worker had
\* in hand when it became Done is still added.
Settled ==
  /\ pc \in {"collect", "verify"} => verify
  /\ ~verify /\ pc \in {"done", "output", "print", "closing", "closed"} =>
       /\ phase = "Done" /\ results \subseteq atDone
       /\ \A w \in Workers : worker[w].at \in Adding => worker[w].item \in atDone
  /\ ~verify /\ pc \in {"print", "closing", "closed"} =>
       reported \subseteq atDone

RawScanInv ==
  /\ TypeOK /\ FrameInv
  /\ Carried(Probes) /\ (OneProtocol => Carried(OpenPairs))
  /\ Settled

-----------------------------------------------------------------------------
(* The workers.                                                            *)

\* The worker w gets this state and this item, the others stay.
WorkerTo(w, at, item) ==
  /\ worker' \in [Workers -> States]
  /\ worker'[w].at = at /\ worker'[w].item = item
  /\ \A v \in Workers : v # w => worker'[v] = worker[v]

\* What the steps of a worker do to it.
LEMMA WorkerSteps ==
  ASSUME FrameInv, NEW w \in Workers
  PROVE  /\ worker' = [worker EXCEPT ![w] = Resting] => WorkerTo(w, "idle", None)
         /\ \A at \in {"idle", "stopped"} \cup Holding :
              worker' = [worker EXCEPT ![w].at = at] => WorkerTo(w, at, worker[w].item)
         /\ \A at \in Holding, item \in Items :
              worker' = [worker EXCEPT ![w] = [at |-> at, item |-> item]] =>
                WorkerTo(w, at, item)
         /\ CheckPhase(w) =>
              \/ WorkerTo(w, "idle", None)
              \/ phase = "HostDiscovery" /\ WorkerTo(w, "alive", worker[w].item)
              \/ phase = "Scan" /\ w # "icmp" /\ WorkerTo(w, "add", worker[w].item)
<1>. USE DEF WorkerTo
<1>1. worker \in [Workers -> States] /\ worker[w] \in States
  BY DEF FrameInv
<1>2. ASSUME NEW r \in States, worker' = [worker EXCEPT ![w] = r]
      PROVE  WorkerTo(w, r.at, r.item)
  BY <1>1, <1>2
<1>3. ASSUME NEW st \in {"idle", "stopped"} \cup Holding
      PROVE  /\ [worker[w] EXCEPT !.at = st] \in States
             /\ [worker[w] EXCEPT !.at = st].at = st
             /\ [worker[w] EXCEPT !.at = st].item = worker[w].item
  BY <1>1 DEF States
<1>4. Resting \in States /\ Resting.at = "idle" /\ Resting.item = None
  BY DEF Resting, States
<1>5. worker' = [worker EXCEPT ![w] = Resting] => WorkerTo(w, "idle", None)
  BY <1>2, <1>4
<1>6. ASSUME NEW st \in {"idle", "stopped"} \cup Holding,
             worker' = [worker EXCEPT ![w].at = st]
      PROVE  WorkerTo(w, st, worker[w].item)
  <2>1. worker' = [worker EXCEPT ![w] = [worker[w] EXCEPT !.at = st]]
    BY <1>1, <1>6
  <2>. DEFINE r == [worker[w] EXCEPT !.at = st]
  <2>2. r \in States /\ r.at = st /\ r.item = worker[w].item
    BY <1>3
  <2>. HIDE DEF r
  <2>. QED
    BY <1>2, <2>1, <2>2 DEF r
<1>7. ASSUME NEW at \in Holding, NEW item \in Items,
             worker' = [worker EXCEPT ![w] = [at |-> at, item |-> item]]
      PROVE  WorkerTo(w, at, item)
  <2>. DEFINE r == [at |-> at, item |-> item]
  <2>1. r \in States /\ r.at = at /\ r.item = item
    BY DEF States
  <2>. HIDE DEF r
  <2>. QED
    BY <1>2, <1>7, <2>1 DEF r
<1>8. ASSUME CheckPhase(w)
      PROVE  \/ WorkerTo(w, "idle", None)
             \/ phase = "HostDiscovery" /\ WorkerTo(w, "alive", worker[w].item)
             \/ phase = "Scan" /\ w # "icmp" /\ WorkerTo(w, "add", worker[w].item)
  <2>1. CASE phase = "HostDiscovery"
    <3>1. worker' = [worker EXCEPT ![w] = [worker[w] EXCEPT !.at = "alive"]]
      BY <1>8, <2>1 DEF CheckPhase, InScan
    <3>. DEFINE r == [worker[w] EXCEPT !.at = "alive"]
    <3>2. r \in States /\ r.at = "alive" /\ r.item = worker[w].item
      BY <1>3 DEF Holding, Adding
    <3>. HIDE DEF r
    <3>. QED
      BY <1>2, <2>1, <3>1, <3>2 DEF r
  <2>2. CASE InScan /\ w # "icmp"
    <3>1. worker' = [worker EXCEPT ![w] = [worker[w] EXCEPT !.at = "add"]]
      BY <1>8, <2>2 DEF CheckPhase, InScan
    <3>. DEFINE r == [worker[w] EXCEPT !.at = "add"]
    <3>2. r \in States /\ r.at = "add" /\ r.item = worker[w].item
      BY <1>3 DEF Holding, Adding
    <3>. HIDE DEF r
    <3>. QED
      BY <1>2, <2>2, <3>1, <3>2 DEF r, InScan
  <2>3. CASE phase # "HostDiscovery" /\ ~(InScan /\ w # "icmp")
    <3>1. worker' = [worker EXCEPT ![w] = Resting]
      BY <1>8, <2>3 DEF CheckPhase, InScan
    <3>. QED
      BY <1>5, <3>1
  <2>. QED
    BY <2>1, <2>2, <2>3
<1>. QED
  BY <1>5, <1>6, <1>7, <1>8

-----------------------------------------------------------------------------
(* The packet reader.                                                      *)

\* The address and the port of a packet are those of the probe it answers, and
\* only an open port answers with a SYN-ACK or over UDP.
LEMMA PacketOfProbe ==
  ASSUME NEW probe \in Probes, NEW packet \in Answers(probe)
  PROVE  /\ packet \in Packets /\ probe = <<packet.host, packet.port>>
         /\ packet.port[1] \in {"tcp", "udp"}
         /\ packet.port[1] = "tcp" /\ packet.flag = "synack" => probe \in OpenPairs
         /\ packet.port[1] = "udp" => probe \in OpenPairs
         /\ packet.flag = "payload" => packet.port[1] = "udp"
<1>1. /\ probe[1] \in Hosts /\ probe[2] \in ScanPorts \cup DiscoveryPorts
      /\ probe = <<probe[1], probe[2]>>
  BY DEF Probes
<1>2. probe[2][1] \in {"tcp", "udp", "icmp"}
  BY <1>1, RawScanAssumption
<1>. DEFINE Flagged(f) == [host |-> probe[1], port |-> probe[2], flag |-> f]
<1>3. \/ probe[2][1] = "tcp" /\ packet = Flagged("rst")
      \/ probe[2][1] = "tcp" /\ probe \in OpenPairs /\ packet = Flagged("synack")
      \/ /\ probe[2][1] = "udp" /\ probe \in OpenPairs
         /\ packet = Flagged("reply") \/ packet = Flagged("payload")
  <2>1. CASE probe[2][1] = "icmp"
    BY <2>1 DEF Answers
  <2>2. CASE probe[2][1] = "tcp"
    BY <2>2 DEF Answers
  <2>3. CASE probe[2][1] = "udp"
    BY <2>3 DEF Answers
  <2>. QED
    BY <1>2, <2>1, <2>2, <2>3
<1>4. \A f : /\ Flagged(f).host = probe[1] /\ Flagged(f).port = probe[2]
             /\ Flagged(f).flag = f
  OBVIOUS
<1>5. \A f \in {"synack", "rst", "reply", "payload"} : Flagged(f) \in Packets
  BY <1>1 DEF Packets
<1>. HIDE DEF Flagged
<1>. QED
  BY <1>1, <1>3, <1>4, <1>5

\* The reader hands on a well-formed item, of a scanned or discovery port unless
\* it goes to the worker of host discovery, and of an open port as long as the
\* answers are of one protocol.
LEMMA ArrivesHandsOver ==
  ASSUME TypeOK, Arrives
  PROVE  /\ layers' \in [tcp : Packets \cup {None}, udp : Packets \cup {None}]
         /\ reader' \in {Idle} \cup [to : Workers, item : Items]
         /\ OneProtocol' => OneProtocol
         /\ reader' # Idle /\ reader'.to # "icmp" => reader'.item \in Probes
         /\ OneProtocol' /\ reader' # Idle /\ reader'.to # "icmp" =>
              reader'.item \in OpenPairs
<1>1. PICK probe \in sent : \E packet \in Answers(probe) :
        /\ layers' = Decoded(packet)
        /\ reader' = IF packet.flag = "payload" THEN Idle
                     ELSE Handover(packet.host, layers')
  BY DEF Arrives
<1>2. PICK packet \in Answers(probe) :
        /\ layers' = Decoded(packet)
        /\ reader' = IF packet.flag = "payload" THEN Idle
                     ELSE Handover(packet.host, layers')
  BY <1>1
<1>3. probe \in Probes
  BY DEF TypeOK
<1>4. /\ packet \in Packets /\ probe = <<packet.host, packet.port>>
      /\ packet.port[1] \in {"tcp", "udp"}
      /\ packet.port[1] = "tcp" /\ packet.flag = "synack" => probe \in OpenPairs
      /\ packet.port[1] = "udp" => probe \in OpenPairs
  BY <1>3, PacketOfProbe
<1>5. /\ layers.tcp \in Packets \cup {None} /\ layers.udp \in Packets \cup {None}
      /\ layers = [tcp |-> layers.tcp, udp |-> layers.udp]
  BY DEF TypeOK
<1>6. IF packet.port[1] = "tcp"
      THEN layers' = [tcp |-> packet, udp |-> layers.udp]
      ELSE layers' = [tcp |-> layers.tcp, udp |-> packet]
  BY <1>2, <1>5 DEF Decoded
<1>7. /\ layers' \in [tcp : Packets \cup {None}, udp : Packets \cup {None}]
      /\ layers'.tcp \in Packets \cup {None} /\ layers'.udp \in Packets \cup {None}
      /\ packet.port[1] = "tcp" => layers'.tcp = packet /\ layers'.udp = layers.udp
      /\ packet.port[1] = "udp" => layers'.udp = packet /\ layers'.tcp = layers.tcp
  BY <1>4, <1>5, <1>6
<1>8. OneProtocol' => OneProtocol
  BY <1>4, <1>7, RawScanAssumption DEF OneProtocol
<1>9. /\ packet.host \in Hosts /\ packet.port \in ScanPorts \cup DiscoveryPorts
      /\ \A p \in Packets : p.port \in ScanPorts \cup DiscoveryPorts
  BY <1>4 DEF Packets
<1>10. \/ reader' = Idle
       \/ reader' = [to |-> "icmp", item |-> <<packet.host, None>>]
       \/ /\ layers'.tcp # None /\ layers'.tcp.flag = "synack"
          /\ reader' = [to |-> "tcp", item |-> <<packet.host, layers'.tcp.port>>]
       \/ /\ layers'.udp # None /\ ~SynAck(layers')
          /\ reader' = [to |-> "udp", item |-> <<packet.host, layers'.udp.port>>]
  <2>. DEFINE l == layers'
  <2>1. \/ Handover(packet.host, l) = Idle
        \/ Handover(packet.host, l) = [to |-> "icmp", item |-> <<packet.host, None>>]
        \/ /\ l.tcp # None /\ l.tcp.flag = "synack"
           /\ Handover(packet.host, l) = [to |-> "tcp", item |-> <<packet.host, l.tcp.port>>]
        \/ /\ l.udp # None /\ ~SynAck(l)
           /\ Handover(packet.host, l) = [to |-> "udp", item |-> <<packet.host, l.udp.port>>]
    <3>. HIDE DEF l
    <3>1. CASE phase = "HostDiscovery"
      BY <3>1 DEF Handover
    <3>2. CASE phase # "HostDiscovery" /\ SynAck(l)
      BY <3>2 DEF Handover, SynAck
    <3>3. CASE phase # "HostDiscovery" /\ ~SynAck(l) /\ l.udp # None
      BY <3>3 DEF Handover
    <3>4. CASE phase # "HostDiscovery" /\ ~SynAck(l) /\ l.udp = None
      BY <3>4 DEF Handover
    <3>. QED
      BY <3>1, <3>2, <3>3, <3>4
  <2>. QED
    BY <1>2, <2>1
<1>11. reader' \in {Idle} \cup [to : Workers, item : Items]
  BY <1>7, <1>9, <1>10 DEF Workers, Items
<1>12. reader' # Idle /\ reader'.to # "icmp" => reader'.item \in Probes
  BY <1>7, <1>9, <1>10 DEF Probes
<1>13. ASSUME OneProtocol', reader' # Idle, reader'.to # "icmp"
       PROVE  reader'.item \in OpenPairs
  <2>1. CASE packet.port[1] = "tcp"
    <3>1. layers'.tcp = packet /\ layers'.udp = None
      BY <1>4, <1>7, <1>13, <2>1, RawScanAssumption DEF OneProtocol
    <3>2. packet.flag = "synack" /\ reader'.item = <<packet.host, packet.port>>
      BY <1>10, <1>13, <3>1
    <3>. QED
      BY <1>4, <2>1, <3>2
  <2>2. CASE packet.port[1] = "udp"
    <3>1. layers'.udp = packet /\ layers'.tcp = None
      BY <1>4, <1>7, <1>13, <2>2, RawScanAssumption DEF OneProtocol
    <3>2. reader'.item = <<packet.host, packet.port>>
      BY <1>10, <1>13, <3>1
    <3>. QED
      BY <1>4, <2>2, <3>2
  <2>. QED
    BY <1>4, <2>1, <2>2
<1>. QED
  BY <1>7, <1>8, <1>11, <1>12, <1>13

-----------------------------------------------------------------------------
(* What a step does to the channels and the workers.                       *)

\* What a step does to the channel of w: nothing, its worker takes the first
\* item, or it gets one more while it has room, which for the tcp and the udp
\* worker is the one that the reader hands over.
ChannelMove(w) ==
  \/ chan'[w] = chan[w]
  \/ chan[w] # <<>> /\ chan'[w] = Tail(chan[w])
  \/ /\ HasRoom(w)
     /\ \E item \in Items :
          /\ chan'[w] = Append(chan[w], item)
          /\ w # "icmp" => reader # Idle /\ reader.to = w /\ reader.item = item

\* Every step does to every channel one of these things.
LEMMA ChannelMoves ==
  ASSUME TypeOK, FrameInv, Next
  PROVE  chan' \in [Workers -> Seq(Items)] /\ \A w \in Workers : ChannelMove(w)
<1>. DEFINE Done == chan' \in [Workers -> Seq(Items)]
                      /\ \A w \in Workers : ChannelMove(w)
<1>1. chan \in [Workers -> Seq(Items)]
  BY DEF FrameInv
<1>2. ASSUME UNCHANGED chan PROVE Done
  BY <1>1, <1>2 DEF ChannelMove
<1>3. ASSUME NEW w \in Workers, NEW q \in Seq(Items),
             chan' = [chan EXCEPT ![w] = q], chan'[w] = q => ChannelMove(w)
      PROVE  Done
  BY <1>1, <1>3 DEF ChannelMove
<1>. HIDE DEF Done
<1>4. ASSUME Main \/ Arrives \/ Over PROVE Done
  BY <1>2, <1>4 DEF Main, Arrives, Over, StartDiscovery, Enqueue, PickTargets,
     StartScan, EndScan, StartVerification, GetIPsPorts, NextHost, ConnectVerify, EndVerification,
     SkipVerification, HandleOutput, EndOutput, Close, handling, vars
<1>5. ASSUME NEW w \in Workers, NEW item \in Items, HasRoom(w),
             chan' = [chan EXCEPT ![w] = Append(@, item)],
             w # "icmp" => reader # Idle /\ reader.to = w /\ reader.item = item
      PROVE  Done
  <2>. DEFINE q == Append(chan[w], item)
  <2>1. q \in Seq(Items)
    BY <1>1, AppendProperties
  <2>2. chan'[w] = q => ChannelMove(w)
    BY <1>5 DEF ChannelMove
  <2>. HIDE DEF q
  <2>3. chan' = [chan EXCEPT ![w] = q]
    BY <1>5 DEF q
  <2>. QED
    BY <1>3, <2>1, <2>2, <2>3
<1>6. ASSUME ReaderSends PROVE Done
  <2>1. reader.to \in Workers /\ reader.item \in Items
    BY <1>6 DEF ReaderSends, TypeOK
  <2>. QED
    BY <1>5, <1>6, <2>1 DEF ReaderSends
<1>7. ASSUME HostAnswers PROVE Done
  <2>1. PICK host \in Hosts :
          chan' = [chan EXCEPT !["icmp"] = Append(@, <<host, None>>)]
    BY <1>7 DEF HostAnswers
  <2>2. <<host, None>> \in Items /\ "icmp" \in Workers
    BY DEF Items, Workers
  <2>. QED
    BY <1>5, <1>7, <2>1, <2>2 DEF HostAnswers
<1>8. ASSUME NEW w \in Workers, Worker(w) PROVE Done
  <2>1. CASE Receive(w)
    <3>. DEFINE q == Tail(chan[w])
    <3>1. q \in Seq(Items)
      BY <1>1, <2>1, HeadTailProperties DEF Receive
    <3>2. chan'[w] = q => ChannelMove(w)
      BY <2>1 DEF ChannelMove, Receive
    <3>. HIDE DEF q
    <3>3. chan' = [chan EXCEPT ![w] = q]
      BY <2>1 DEF Receive, q
    <3>. QED
      BY <1>3, <3>1, <3>2, <3>3
  <2>. QED
    BY <1>2, <1>8, <2>1 DEF Worker, OnReceive, CheckPhase, AddIp, AddPortWaits, AddPort, Stop
<1>9. Done
  BY <1>4, <1>6, <1>7, <1>8 DEF Next
<1>. QED
  BY <1>9 DEF Done

\* A channel that only had items of T, and gets no other, has them still, and
\* the item that its worker takes is one.
LEMMA ChannelKeeps ==
  ASSUME FrameInv, NEW w \in Workers, NEW T, chan[w] \in Seq(T), ChannelMove(w),
         \A item \in Items :
           (w # "icmp" => reader # Idle /\ reader.to = w /\ reader.item = item)
             => item \in T
  PROVE  /\ chan'[w] \in Seq(T)
         /\ chan[w] # <<>> => Head(chan[w]) \in T
         /\ Len(chan[w]) <= ChanSize => Len(chan'[w]) <= ChanSize
<1>1. ChanSize \in Nat /\ Len(chan[w]) \in Nat
  BY RawScanAssumption, LenProperties
<1>2. CASE chan'[w] = chan[w]
  BY <1>2, HeadTailProperties
<1>3. CASE chan[w] # <<>> /\ chan'[w] = Tail(chan[w])
  BY <1>1, <1>3, HeadTailProperties
<1>4. ASSUME HasRoom(w), NEW item \in T, chan'[w] = Append(chan[w], item)
      PROVE  chan'[w] \in Seq(T) /\ Len(chan'[w]) <= ChanSize
  BY <1>1, <1>4, AppendProperties DEF HasRoom
<1>. QED
  BY <1>2, <1>3, <1>4, HeadTailProperties DEF ChannelMove

\* What a step does to the worker w: nothing, or it takes an item from its
\* channel, lets it go, or keeps it; only a tcp worker prints, and only a tcp or
\* udp worker adds, and begins to in phase Scan only.
WorkerMove(w) ==
  \/ worker'[w] = worker[w]
  \/ worker'[w].at \notin Holding
  \/ /\ chan[w] # <<>> /\ worker'[w].item = Head(chan[w])
     /\ worker'[w].at = IF w = "tcp" THEN "print" ELSE "check"
  \/ /\ worker[w].at \in Holding /\ worker'[w].item = worker[w].item
     /\ worker'[w].at \in {"check", "alive"}
  \/ /\ worker[w].at = "check" /\ worker'[w].item = worker[w].item
     /\ worker'[w].at = "add" /\ w # "icmp" /\ phase = "Scan"
  \/ /\ worker[w].at = "add" /\ worker'[w].item = worker[w].item
     /\ worker'[w].at = "adding"

\* Every step does to every worker one of these things.
LEMMA WorkerMoves ==
  ASSUME FrameInv, Next
  PROVE  worker' \in [Workers -> States] /\ \A w \in Workers : WorkerMove(w)
<1>. DEFINE Done == worker' \in [Workers -> States]
                      /\ \A w \in Workers : WorkerMove(w)
<1>1. ASSUME UNCHANGED worker PROVE Done
  BY <1>1 DEF FrameInv, WorkerMove
<1>2. ASSUME NEW w \in Workers, worker' \in [Workers -> States], WorkerMove(w),
             \A v \in Workers : v # w => worker'[v] = worker[v]
      PROVE  Done
  BY <1>2 DEF WorkerMove
<1>. HIDE DEF Done
<1>3. ASSUME EndVerification PROVE Done
  <2>1. worker' = [w \in Workers |->
          IF worker[w].at = "adding" THEN Resting ELSE worker[w]]
    BY <1>3 DEF EndVerification
  <2>2. Resting \in States /\ Resting.at = "idle"
    BY DEF Resting, States
  <2>. QED
    BY <2>1, <2>2 DEF Done, FrameInv, WorkerMove, Holding, Adding
<1>4. ASSUME (Main /\ ~EndVerification) \/ Arrives \/ ReaderSends \/ HostAnswers \/ Over
      PROVE  Done
  BY <1>1, <1>4 DEF Main, Arrives, ReaderSends, HostAnswers, Over, StartDiscovery,
     Enqueue, PickTargets, StartScan, EndScan, StartVerification, GetIPsPorts, NextHost, ConnectVerify,
     SkipVerification, HandleOutput, EndOutput, Close, handling, vars
<1>5. ASSUME NEW w \in Workers, Worker(w) PROVE Done
  <2>1. ASSUME NEW st, NEW item, WorkerTo(w, st, item),
               WorkerTo(w, st, item) => WorkerMove(w)
        PROVE  Done
    BY <1>2, <2>1 DEF WorkerTo
  <2>2. CASE Receive(w)
    <3>. DEFINE item == Head(chan[w])  st == FirstStep(w, item[1])
    <3>1. /\ chan[w] # <<>>
          /\ worker' = [worker EXCEPT ![w] =
               IF st = "idle" THEN Resting ELSE [at |-> st, item |-> item]]
      BY <2>2 DEF Receive
    <3>2. item \in Items
      BY <3>1, HeadTailProperties DEF FrameInv
    <3>3. st = "idle" \/ st = IF w = "tcp" THEN "print" ELSE "check"
      BY DEF FirstStep
    <3>. HIDE DEF item, st
    <3>4. CASE st = "idle"
      <4>1. WorkerTo(w, "idle", None)
        BY <3>1, <3>4, WorkerSteps
      <4>2. WorkerTo(w, "idle", None) => WorkerMove(w)
        BY DEF WorkerTo, WorkerMove, Holding, Adding
      <4>. QED
        BY <2>1, <4>1, <4>2
    <3>5. CASE st # "idle"
      <4>1. st = (IF w = "tcp" THEN "print" ELSE "check") /\ st \in Holding
        BY <3>3, <3>5 DEF Holding, Adding
      <4>2. WorkerTo(w, st, item)
        BY <3>1, <3>2, <3>5, <4>1, WorkerSteps
      <4>3. WorkerTo(w, st, item) => WorkerMove(w)
        BY <3>1, <4>1 DEF WorkerTo, WorkerMove, item
      <4>. QED
        BY <2>1, <4>2, <4>3
    <3>. QED
      BY <3>4, <3>5
  <2>3. CASE w = "tcp" /\ OnReceive
    <3>1. worker' = [worker EXCEPT ![w].at = "check"] /\ worker[w].at = "print"
      BY <2>3 DEF OnReceive
    <3>2. WorkerTo(w, "check", worker[w].item)
      BY <3>1, WorkerSteps DEF Holding, Adding
    <3>3. WorkerTo(w, "check", worker[w].item) => WorkerMove(w)
      BY <3>1 DEF WorkerTo, WorkerMove, Holding, Adding
    <3>. QED
      BY <2>1, <3>2, <3>3
  <2>4. CASE CheckPhase(w)
    <3>1. worker[w].at = "check"
      BY <2>4 DEF CheckPhase
    <3>2. \/ WorkerTo(w, "idle", None)
          \/ WorkerTo(w, "alive", worker[w].item)
          \/ phase = "Scan" /\ w # "icmp" /\ WorkerTo(w, "add", worker[w].item)
      BY <2>4, WorkerSteps
    <3>3. /\ WorkerTo(w, "idle", None) => WorkerMove(w)
          /\ WorkerTo(w, "alive", worker[w].item) => WorkerMove(w)
          /\ phase = "Scan" /\ w # "icmp" /\ WorkerTo(w, "add", worker[w].item)
               => WorkerMove(w)
      BY <3>1 DEF WorkerTo, WorkerMove, Holding, Adding
    <3>. QED
      BY <2>1, <3>2, <3>3
  <2>5. CASE AddIp(w) \/ AddPort(w)
    <3>1. WorkerTo(w, "idle", None)
      BY <2>5, WorkerSteps DEF AddIp, AddPort
    <3>2. WorkerTo(w, "idle", None) => WorkerMove(w)
      BY DEF WorkerTo, WorkerMove, Holding, Adding
    <3>. QED
      BY <2>1, <3>1, <3>2
  <2>6. CASE AddPortWaits(w)
    <3>1. worker' = [worker EXCEPT ![w].at = "adding"] /\ worker[w].at = "add"
      BY <2>6 DEF AddPortWaits
    <3>2. WorkerTo(w, "adding", worker[w].item)
      BY <3>1, WorkerSteps DEF Holding, Adding
    <3>3. WorkerTo(w, "adding", worker[w].item) => WorkerMove(w)
      BY <3>1 DEF WorkerTo, WorkerMove
    <3>. QED
      BY <2>1, <3>2, <3>3
  <2>7. CASE Stop(w)
    <3>1. WorkerTo(w, "stopped", worker[w].item)
      BY <2>7, WorkerSteps DEF Stop
    <3>2. WorkerTo(w, "stopped", worker[w].item) => WorkerMove(w)
      BY DEF WorkerTo, WorkerMove, Holding, Adding
    <3>. QED
      BY <2>1, <3>1, <3>2
  <2>. QED
    BY <1>5, <2>2, <2>3, <2>4, <2>5, <2>7, <2>6 DEF Worker
<1>6. Done
  BY <1>4, <1>5, <1>3 DEF Next
<1>. QED
  BY <1>6 DEF Done

\* The frame is kept.
LEMMA FrameStep ==
  ASSUME TypeOK, FrameInv, Next
  PROVE  FrameInv'
<1>1. chan' \in [Workers -> Seq(Items)]
  BY ChannelMoves
<1>2. worker' \in [Workers -> States] /\ \A w \in Workers : WorkerMove(w)
  BY WorkerMoves
<1>3. worker'["icmp"].at \notin {"print"} \cup Adding
  BY <1>2 DEF WorkerMove, FrameInv, Workers, Holding, Adding
<1>4. ASSUME NEW w \in Workers, worker'[w].at \in Holding
      PROVE  worker'[w].item \in Items
  <2>1. chan[w] # <<>> => Head(chan[w]) \in Items
    BY HeadTailProperties DEF FrameInv
  <2>2. worker[w].at \in {"check", "add"} => worker[w].at \in Holding
    BY DEF Holding, Adding
  <2>. QED
    BY <1>2, <1>4, <2>1, <2>2 DEF WorkerMove, FrameInv
<1>. QED
  BY <1>1, <1>2, <1>3, <1>4 DEF FrameInv

\* Whatever the reader hands over, it reaches the store or OnReceive unchanged.
LEMMA CarriedStep ==
  ASSUME TypeOK, FrameInv, Next, NEW S, Carried(S),
         Arrives /\ reader' # Idle /\ reader'.to # "icmp" => reader'.item \in S
  PROVE  Carried(S)'
<1>1. (reader' # Idle /\ reader'.to # "icmp" => reader'.item \in S)
  <2>1. CASE Arrives
    BY <2>1
  <2>2. CASE reader' = Idle
    BY <2>2
  <2>3. CASE UNCHANGED reader
    BY <2>3 DEF Carried
  <2>. QED
    BY <2>1, <2>2, <2>3 DEF Next, Main, Worker, ReaderSends, HostAnswers, Over,
       StartDiscovery, Enqueue, PickTargets, StartScan, EndScan, StartVerification,
       GetIPsPorts, NextHost, ConnectVerify, EndVerification, SkipVerification, HandleOutput, EndOutput, Close,
       Receive, OnReceive, CheckPhase, AddIp, AddPortWaits, AddPort, Stop, network, vars
<1>2. ASSUME NEW w \in {"tcp", "udp"}
      PROVE  /\ chan'[w] \in Seq(S)
             /\ worker'[w].at \in Holding => worker'[w].item \in S
  <2>1. w \in Workers /\ w # "icmp"
    BY DEF Workers
  <2>2. chan[w] \in Seq(S) /\ (worker[w].at \in Holding => worker[w].item \in S)
    BY DEF Carried
  <2>3. chan'[w] \in Seq(S) /\ (chan[w] # <<>> => Head(chan[w]) \in S)
    BY <2>1, <2>2, ChannelMoves, ChannelKeeps DEF Carried
  <2>4. WorkerMove(w)
    BY <2>1, WorkerMoves
  <2>5. worker[w].at \in {"check", "add"} => worker[w].at \in Holding
    BY DEF Holding, Adding
  <2>. QED
    BY <2>2, <2>3, <2>4, <2>5 DEF WorkerMove
<1>3. /\ results' \subseteq S /\ printed' \subseteq S
      /\ checking' \subseteq S /\ confirmed' \subseteq S
  <2>1. CASE UNCHANGED <<results, printed, checking, confirmed>>
    BY <2>1 DEF Carried
  <2>2. CASE GetIPsPorts
    BY <2>2 DEF GetIPsPorts, Carried, handling
  <2>3. CASE ConnectVerify
    BY <2>3 DEF ConnectVerify, Carried, handling
  <2>4. CASE EndVerification
    BY <2>4 DEF EndVerification, Carried, handling, ending
  <2>5. CASE OnReceive
    <3>1. worker["tcp"].item \in S
      BY <2>5 DEF OnReceive, Carried, Holding, Adding
    <3>. QED
      BY <2>5, <3>1 DEF OnReceive, Carried, ending
  <2>6. ASSUME NEW w \in Workers, AddPort(w)
        PROVE  /\ results' \subseteq S /\ printed' \subseteq S
               /\ checking' \subseteq S /\ confirmed' \subseteq S
    <3>1. w \in {"tcp", "udp"}
      BY <2>6 DEF AddPort, FrameInv, Workers, Adding
    <3>2. worker[w].item \in S
      BY <2>6, <3>1 DEF AddPort, Carried, Holding, Adding
    <3>. QED
      BY <2>6, <3>2 DEF AddPort, Carried, ending
  <2>. QED
    BY <2>1, <2>2, <2>3, <2>4, <2>5, <2>6 DEF Next, Main, Worker, Arrives, ReaderSends,
       HostAnswers, Over, StartDiscovery, Enqueue, PickTargets, StartScan, EndScan,
       StartVerification, NextHost,
       SkipVerification, HandleOutput, EndOutput, Close, Receive, CheckPhase, AddIp, AddPortWaits, Stop,
       handling, ending, vars
<1>. QED
  BY <1>1, <1>2, <1>3 DEF Carried

-----------------------------------------------------------------------------
(* The invariant is inductive.                                             *)

\* It holds at the start.
LEMMA RawScanInit == Init => RawScanInv
<1>. SUFFICES ASSUME Init PROVE RawScanInv
  OBVIOUS
<1>1. \A S : <<>> \in Seq(S) /\ Len(<<>>) = 0
  BY EmptySeq
<1>2. Resting \in States /\ Resting.at = "idle" /\ Resting.item = None
  BY DEF Resting, States
<1>3. FrameInv
  BY <1>1, <1>2 DEF Init, FrameInv, Workers, Holding, Adding
<1>4. \A S : Carried(S)
  BY <1>1, <1>2 DEF Init, Carried, Workers, Holding, Adding
<1>5. layers \in [tcp : Packets \cup {None}, udp : Packets \cup {None}]
  BY DEF Init
<1>6. \A w \in Workers :
        /\ chan[w] \in Seq(Items) /\ Len(chan[w]) <= ChanSize
        /\ worker[w] \in [at : {"idle", "print", "check", "alive", "add",
                                "adding", "stopped"}, item : Items \cup {None}]
  BY <1>1, RawScanAssumption DEF Init, Resting
<1>7. TypeOK
  BY <1>5, <1>6, RawScanAssumption DEF Init, TypeOK
<1>8. Settled
  BY DEF Init, Settled, Cancelled
<1>. QED
  BY <1>3, <1>4, <1>7, <1>8 DEF RawScanInv

\* The types are kept.
LEMMA TypeStep ==
  ASSUME TypeOK, FrameInv, Carried(Probes), Next, FrameInv', Carried(Probes)'
  PROVE  TypeOK'
<1>. USE DEF network, handling, ending, options, vars
<1>1. /\ discovery' \in BOOLEAN /\ verify' \in BOOLEAN
      /\ pc' \in {"start", "discover", "phase", "enumerate", "done", "collect",
                  "verify", "output", "print", "closing", "closed"}
      /\ phase' \in {"Init", "HostDiscovery", "Scan", "Done"}
  BY DEF TypeOK, Next, Main, Worker, Arrives, ReaderSends, HostAnswers, Over,
     StartDiscovery, Enqueue, PickTargets, StartScan, EndScan, StartVerification,
     GetIPsPorts, NextHost, ConnectVerify, EndVerification, SkipVerification, HandleOutput, EndOutput, Close,
     Receive, OnReceive, CheckPhase, AddIp, AddPortWaits, AddPort, Stop
<1>2. alive' \subseteq Hosts
  <2>1. CASE UNCHANGED alive
    BY <2>1 DEF TypeOK
  <2>2. ASSUME NEW w \in Workers, AddIp(w) PROVE alive' \subseteq Hosts
    <3>1. worker[w].item \in Items
      BY <2>2 DEF AddIp, FrameInv, Holding, Adding
    <3>2. worker[w].item[1] \in Hosts
      BY <3>1 DEF Items
    <3>. QED
      BY <2>2, <3>2 DEF AddIp, TypeOK
  <2>. QED
    BY <2>1, <2>2 DEF Next, Main, Worker, Arrives, ReaderSends, HostAnswers, Over,
       StartDiscovery, Enqueue, PickTargets, StartScan, EndScan, StartVerification,
       GetIPsPorts, NextHost, ConnectVerify, EndVerification, SkipVerification, HandleOutput, EndOutput, Close,
       Receive, OnReceive, CheckPhase, AddPortWaits, AddPort, Stop
<1>3. todo' \subseteq Probes /\ sent' \subseteq Probes
  <2>1. CASE UNCHANGED <<todo, sent>>
    BY <2>1 DEF TypeOK
  <2>2. CASE StartDiscovery
    BY <2>2, RawScanAssumption DEF StartDiscovery, TypeOK, Probes
  <2>3. CASE Enqueue
    BY <2>3 DEF Enqueue, TypeOK
  <2>4. CASE PickTargets
    <3>1. todo' \subseteq Hosts \X ScanPorts
      BY <2>4, RawScanAssumption DEF PickTargets, TypeOK
    <3>. QED
      BY <2>4, <3>1 DEF PickTargets, TypeOK, Probes
  <2>. QED
    BY <2>1, <2>2, <2>3, <2>4 DEF Next, Main, Worker, Arrives, ReaderSends, HostAnswers,
       Over, StartScan, EndScan, StartVerification, GetIPsPorts, NextHost, ConnectVerify, EndVerification,
       SkipVerification, HandleOutput, EndOutput, Close, Receive, OnReceive, CheckPhase, AddIp,
       AddPortWaits, AddPort, Stop
<1>4. packets' \in 0 .. MaxPackets
  <2>1. CASE UNCHANGED packets
    BY <2>1 DEF TypeOK
  <2>2. CASE packets < MaxPackets /\ packets' = packets + 1
    BY <2>2, RawScanAssumption DEF TypeOK
  <2>. QED
    BY <2>1, <2>2 DEF Next, Main, Worker, Arrives, ReaderSends, HostAnswers, Over,
       StartDiscovery, Enqueue, PickTargets, StartScan, EndScan, StartVerification,
       GetIPsPorts, NextHost, ConnectVerify, EndVerification, SkipVerification, HandleOutput, EndOutput, Close,
       Receive, OnReceive, CheckPhase, AddIp, AddPortWaits, AddPort, Stop
<1>5. /\ layers' \in [tcp : Packets \cup {None}, udp : Packets \cup {None}]
      /\ reader' \in {Idle} \cup [to : Workers, item : Items]
  <2>1. CASE Arrives
    BY <2>1, ArrivesHandsOver
  <2>2. CASE UNCHANGED layers /\ (UNCHANGED reader \/ reader' = Idle)
    BY <2>2 DEF TypeOK
  <2>. QED
    BY <2>1, <2>2 DEF Next, Main, Worker, ReaderSends, HostAnswers, Over,
       StartDiscovery, Enqueue, PickTargets, StartScan, EndScan, StartVerification,
       GetIPsPorts, NextHost, ConnectVerify, EndVerification, SkipVerification, HandleOutput, EndOutput, Close,
       Receive, OnReceive, CheckPhase, AddIp, AddPortWaits, AddPort, Stop
<1>6. ASSUME NEW w \in Workers
      PROVE  /\ chan'[w] \in Seq(Items) /\ Len(chan'[w]) <= ChanSize
             /\ worker'[w] \in [at : {"idle", "print", "check", "alive", "add",
                                      "adding", "stopped"}, item : Items \cup {None}]
  <2>1. chan'[w] \in Seq(Items) /\ worker'[w] \in States
    BY DEF FrameInv
  <2>2. Len(chan'[w]) <= ChanSize
    BY ChannelMoves, ChannelKeeps DEF TypeOK
  <2>. QED
    BY <2>1, <2>2 DEF States, Holding, Adding
<1>7. /\ results' \subseteq Probes /\ printed' \subseteq Probes
      /\ checking' \subseteq Probes /\ confirmed' \subseteq Probes
  BY DEF Carried
<1>8. reported' \subseteq Probes
  <2>1. reported' \subseteq reported \cup results
    BY DEF Next, Main, Worker, Arrives, ReaderSends, HostAnswers, Over,
       StartDiscovery, Enqueue, PickTargets, StartScan, EndScan, StartVerification,
       GetIPsPorts, NextHost, ConnectVerify, EndVerification, SkipVerification, HandleOutput, EndOutput, Close,
       Receive, OnReceive, CheckPhase, AddIp, AddPortWaits, AddPort, Stop
  <2>. QED
    BY <2>1 DEF TypeOK
<1>9. left' \subseteq Hosts
  <2>1. HostsOf(results) \subseteq Hosts
    BY DEF HostsOf, TypeOK, Probes
  <2>2. left' \subseteq left \/ left' = HostsOf(results)
    BY DEF Next, Main, Worker, Arrives, ReaderSends, HostAnswers, Over,
       StartDiscovery, Enqueue, PickTargets, StartScan, EndScan, StartVerification,
       GetIPsPorts, NextHost, ConnectVerify, EndVerification, SkipVerification,
       HandleOutput, EndOutput, Close, Receive, OnReceive, CheckPhase, AddIp,
       AddPortWaits, AddPort, Stop
  <2>. QED
    BY <2>1, <2>2 DEF TypeOK
<1>10. atDone' \subseteq Probes
  <2>1. CASE UNCHANGED atDone
    BY <2>1 DEF TypeOK
  <2>2. CASE EndScan
    <3>1. \A w \in Workers : worker[w].at \in Adding => worker[w].item \in Probes
      BY DEF FrameInv, Carried, Workers, Holding, Adding
    <3>. QED
      BY <2>2, <3>1 DEF EndScan, TypeOK, Adding
  <2>. QED
    BY <2>1, <2>2 DEF Next, Main, Worker, Arrives, ReaderSends, HostAnswers, Over,
       StartDiscovery, Enqueue, PickTargets, StartScan, StartVerification,
       GetIPsPorts, NextHost, ConnectVerify, EndVerification, SkipVerification, HandleOutput, EndOutput, Close,
       Receive, OnReceive, CheckPhase, AddIp, AddPortWaits, AddPort, Stop
<1>. QED
  BY <1>1, <1>2, <1>3, <1>4, <1>5, <1>6, <1>7, <1>8, <1>10, <1>9 DEF TypeOK

\* Once the phase is Done, and there is no verification, it stays so, and no
\* worker begins to add.
LEMMA SettledStep ==
  ASSUME TypeOK, FrameInv, Settled, Next
  PROVE  Settled'
<1>. USE DEF network, handling, ending, options, vars
<1>1. (pc' \in {"collect", "verify"} => verify') /\ verify' = verify
  BY DEF Settled, Next, Main, Worker, Arrives, ReaderSends, HostAnswers, Over,
     StartDiscovery, Enqueue, PickTargets, StartScan, EndScan, StartVerification,
     GetIPsPorts, NextHost, ConnectVerify, EndVerification, SkipVerification, HandleOutput, EndOutput, Close,
     Receive, OnReceive, CheckPhase, AddIp, AddPortWaits, AddPort, Stop
<1>. DEFINE Late == {"done", "output", "print", "closing", "closed"}
<1>. DEFINE Kept == /\ results \subseteq atDone
                    /\ \A w \in Workers :
                         worker[w].at \in Adding => worker[w].item \in atDone
<1>2. ASSUME ~verify, pc \in Late
      PROVE  /\ phase = "Done" /\ phase' = "Done" /\ UNCHANGED atDone
             /\ results \subseteq atDone
             /\ \A w \in Workers : worker[w].at \in Adding => worker[w].item \in atDone
  BY <1>2 DEF Settled, Next, Main, Worker, Arrives, ReaderSends, HostAnswers, Over,
     StartDiscovery, Enqueue, PickTargets, StartScan, EndScan, StartVerification,
     GetIPsPorts, NextHost, ConnectVerify, EndVerification, SkipVerification, HandleOutput, EndOutput, Close,
     Receive, OnReceive, CheckPhase, AddIp, AddPortWaits, AddPort, Stop
<1>3. ASSUME ~verify, pc \in Late
      PROVE  phase' = "Done" /\ Kept'
  <2>1. results' \subseteq atDone
    <3>1. CASE UNCHANGED results
      BY <1>2, <1>3, <3>1
    <3>2. ASSUME NEW w \in Workers, AddPort(w) PROVE results' \subseteq atDone
      BY <1>2, <1>3, <3>2 DEF AddPort, Adding
    <3>. QED
      BY <1>3, <3>1, <3>2 DEF Next, Main, Worker, Arrives, ReaderSends, HostAnswers,
         Over, StartDiscovery, Enqueue, PickTargets, StartScan, EndScan,
         StartVerification, GetIPsPorts, NextHost, ConnectVerify, EndVerification, SkipVerification,
         HandleOutput, EndOutput, Close, Receive, OnReceive, CheckPhase, AddIp, AddPortWaits, Stop
  <2>2. ASSUME NEW w \in Workers, worker'[w].at \in Adding
        PROVE  worker'[w].item \in atDone
    <3>1. WorkerMove(w)
      BY WorkerMoves
    <3>2. worker[w].at \in Adding /\ worker'[w].item = worker[w].item
      BY <1>2, <1>3, <2>2, <3>1 DEF WorkerMove, Holding, Adding
    <3>. QED
      BY <1>2, <1>3, <2>2, <3>2
  <2>. QED
    BY <1>2, <1>3, <2>1, <2>2
<1>4. ASSUME ~verify, EndScan
      PROVE  phase' = "Done" /\ Kept'
  BY <1>4 DEF EndScan, Adding
<1>5. ASSUME ~verify', pc' \in Late
      PROVE  phase' = "Done" /\ Kept'
  <2>1. pc \in Late \/ EndScan \/ pc = "verify"
    BY <1>5 DEF Next, Main, Worker, Arrives, ReaderSends, HostAnswers, Over,
       StartDiscovery, Enqueue, PickTargets, StartScan, StartVerification,
       GetIPsPorts, NextHost, ConnectVerify, EndVerification, SkipVerification, HandleOutput, EndOutput, Close,
       Receive, OnReceive, CheckPhase, AddIp, AddPortWaits, AddPort, Stop
  <2>. QED
    BY <1>1, <1>3, <1>4, <1>5, <2>1 DEF Settled
<1>6. ASSUME ~verify', pc' \in {"print", "closing", "closed"}
      PROVE  reported' \subseteq atDone'
  <2>1. CASE HandleOutput
    BY <2>1 DEF HandleOutput
  <2>2. CASE NextHost
    BY <1>1, <1>2, <1>6, <2>2 DEF NextHost, Settled
  <2>3. CASE ~HandleOutput /\ ~NextHost
    <3>1. pc \in {"print", "closing", "closed"} /\ UNCHANGED reported
      BY <1>6, <2>3 DEF Next, Main, Worker, Arrives, ReaderSends,
         HostAnswers, Over, StartDiscovery, Enqueue, PickTargets, StartScan, EndScan,
         StartVerification, GetIPsPorts, ConnectVerify, EndVerification,
         SkipVerification, EndOutput, Close,
         Receive, OnReceive, CheckPhase, AddIp, AddPortWaits, AddPort, Stop
    <3>. QED
      BY <1>1, <1>2, <1>6, <3>1 DEF Settled
  <2>. QED
    BY <2>1, <2>2, <2>3
<1>. QED
  BY <1>1, <1>5, <1>6 DEF Settled

\* Every step keeps the invariant.
LEMMA RawScanStep == RawScanInv /\ [Next]_vars => RawScanInv'
<1>. SUFFICES ASSUME RawScanInv, [Next]_vars PROVE RawScanInv'
  OBVIOUS
<1>1. CASE UNCHANGED vars
  BY <1>1 DEF RawScanInv, TypeOK, FrameInv, Carried, OneProtocol, Settled, Cancelled,
     vars, options, network, handling, ending, HasRoom
<1>2. CASE Next
  <2>. USE <1>2
  <2>1. FrameInv'
    BY FrameStep DEF RawScanInv
  <2>2. Carried(Probes)'
    BY CarriedStep, ArrivesHandsOver DEF RawScanInv
  <2>3. TypeOK'
    BY <2>1, <2>2, TypeStep DEF RawScanInv
  <2>4. ASSUME OneProtocol' PROVE Carried(OpenPairs)'
    <3>1. OneProtocol
      <4>1. CASE Arrives
        BY <2>4, <4>1, ArrivesHandsOver DEF RawScanInv
      <4>2. CASE UNCHANGED layers
        BY <2>4, <4>2 DEF OneProtocol
      <4>. QED
        BY <4>1, <4>2 DEF Next, Main, Worker, ReaderSends, HostAnswers, Over,
           StartDiscovery, Enqueue, PickTargets, StartScan, EndScan,
           StartVerification, GetIPsPorts, NextHost, ConnectVerify, EndVerification, SkipVerification,
           HandleOutput, EndOutput, Close, Receive, OnReceive, CheckPhase, AddIp, AddPortWaits, AddPort, Stop,
           network, vars
    <3>. QED
      BY <2>4, <3>1, CarriedStep, ArrivesHandsOver DEF RawScanInv
  <2>5. Settled'
    BY SettledStep DEF RawScanInv
  <2>. QED
    BY <2>1, <2>2, <2>3, <2>4, <2>5 DEF RawScanInv
<1>. QED
  BY <1>1, <1>2

\* The invariant of the raw scan.
LEMMA RawScanInvariant == Spec => []RawScanInv
  BY RawScanInit, RawScanStep, PTL DEF Spec

-----------------------------------------------------------------------------
(* Theorems.                                                               *)

\* Every variable keeps its type; in particular no channel of the listen
\* handler holds more than its capacity, with any number of packets
\* (scan_raw.go:96-98).
THEOREM RawScanTypeCorrect == Spec => []TypeOK
<1>1. RawScanInv => TypeOK
  BY DEF RawScanInv
<1>. QED
  BY <1>1, RawScanInvariant, PTL

\* While the answers that came in are of one protocol, only ports that are open
\* on just that host are recorded or printed, whatever is late, repeated or left
\* from host discovery (scan_raw.go:639-660).
THEOREM OneProtocolIsExact == Spec => []OneProtocolFindsOpen
<1>1. RawScanInv => OneProtocolFindsOpen
  BY DEF RawScanInv, OneProtocol, Carried, OneProtocolFindsOpen
<1>. QED
  BY <1>1, RawScanInvariant, PTL

\* Without -verify, what is put out was in the store when the phase became Done
\* or in the hand of a worker that had read the phase before, however many
\* answers are still in the channels (runner.go:721).
THEOREM DoneIsSettled == Spec => []DoneSettlesResults
<1>1. RawScanInv => DoneSettlesResults
  BY DEF RawScanInv, Settled, Cancelled, DoneSettlesResults
<1>. QED
  BY <1>1, RawScanInvariant, PTL

=============================================================================

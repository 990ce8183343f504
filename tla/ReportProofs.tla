---------------------------- MODULE ReportProofs ----------------------------
(***************************************************************************)
(* Proofs about Report: that nothing found is lost between the goroutine   *)
(* that finds it and what the user reads, though several print, mark ports *)
(* as printed and pass over what another has marked.                       *)
(***************************************************************************)
EXTENDS Report, TLAPS

-----------------------------------------------------------------------------
(* The inductive invariant.                                                *)

Keys  == {Key(pair) : pair \in Pairs}
Jobs  == [ports : SUBSET Pairs, left : SUBSET Pairs, began : SUBSET Keys]

\* In onReceive, with the numbers of the job all marked or being marked; and
\* behind unique.Set.
Turn   == {"set", "grab", "banner", "print"}
InCall == {"has"} \cup Turn

\* The numbers marked so far.
Known == unique \cup evicted

\* Each goroutine is in one of its own stages, and in onReceive with ports of
\* one host: a probe or worker with the port it found.
FrameInv ==
  /\ job \in [Receivers -> Jobs]
  /\ DOMAIN todo = Finishers /\ DOMAIN grabs = Finishers
  /\ \A d \in Deliveries : at[d] \in {"idle", "dial", "add", "done"} \cup InWorker
  /\ at[main] \in {"scan", "verify", "results", "file", "output", "summary",
                   "done"} \cup InWorker
  /\ at[handler] \in {"off", "results", "file", "output", "done"} \cup InWorker
  /\ \A g \in Receivers :
       /\ job[g].left \subseteq job[g].ports
       /\ \A p, q \in job[g].ports : p[1] = q[1]
  /\ \A d \in Deliveries : at[d] \in InWorker => job[d].ports = {PortOf[d]}

\* What the goroutine g asked for, and goes on to print, was not marked before
\* its call, or has been dropped by the cache.
Fresh(g, pair) == Key(pair) \in job[g].began => Key(pair) \in evicted
FreshInv ==
  \A g \in Receivers :
    /\ job[g].began \subseteq Known
    /\ at[g] = "has" => \A pair \in job[g].ports \ job[g].left : Fresh(g, pair)
    /\ at[g] \in Turn => \A pair \in job[g].ports : Fresh(g, pair)

\* The probes of a connect scan, all through when it has ended; the workers of
\* a raw scan; neither with -sn.
ScanInv ==
  /\ \A d \in Deliveries :
       /\ at[d] = "dial" => ~options.raw
       /\ at[d] = "add" => options.raw /\ ~Tcp(d)
       /\ at[d] \in InWorker => IF options.raw THEN Tcp(d) ELSE ~options.verify
       /\ options.sn => at[d] = "idle"
       /\ at[main] # "scan" /\ ~options.raw /\ ~options.sn => at[d] = "done"
  /\ options.sn => found = {} /\ at[main] # "verify"

\* onReceive is where text is printed, and JSON and CSV but for -nmap-cli.
Direct == ~options.disableStdout /\ ~(options.nmapCli /\ Structured)
Shown(key) == \E line \in stdout : Key(line.pair) = key
InTurn(g, key) == at[g] \in Turn /\ \E pair \in job[g].ports : Key(pair) = key

\* A number that is marked is printed, or will be by a goroutine in its turn.
MarkedInv ==
  Direct =>
    \A key \in Known :
      \/ Shown(key)
      \/ \E g \in Receivers : InTurn(g, key)

\* What a probe or worker has found it has marked, unless it is about to.
KeyedInv ==
  /\ \A d \in Deliveries :
       at[d] \in {"grab", "banner", "print", "received"} /\ PortOf[d][1] \in Wanted
         => Key(PortOf[d]) \in Known
  /\ ~options.raw /\ ~options.verify =>
       \A pair \in found : pair[1] \in Wanted =>
         \/ Key(pair) \in Known
         \/ \E d \in Deliveries : PortOf[d] = pair /\ at[d] \in {"has", "set"}

\* The ports recorded so far that will not be given to onReceive any more are
\* printed: in a raw scan what the TCP worker recorded, unless main had marked
\* it and is about to print it, ...
RawShown ==
  (options.raw /\ ~Interrupted /\ Direct) =>
    \A pair \in found :
      pair[1] \in Wanted /\ pair[2].proto = "tcp" =>
        Shown(Key(pair)) \/ InTurn(main, Key(pair))

\* ... in a connect scan all when it has ended, ...
ConnectShown ==
  (~options.raw /\ ~options.verify /\ ~Interrupted /\ Direct /\ at[main] # "scan") =>
    \A pair \in found : pair[1] \in Wanted => Shown(Key(pair))

\* ... and with -verify the hosts that main has gone through: it alone marks
\* numbers, and none of a host that is still to come.
VerifyUnique ==
  (~options.raw /\ options.verify /\ ~Interrupted) =>
    /\ at[main] \in {"scan", "verify", "results"} => Known = {}
    /\ at[main] \in InWorker =>
         /\ \A key \in Known : key[1] \notin todo[main]
         /\ at[main] = "has" =>
              \A key \in Known : \A pair \in job[main].ports : key[1] # pair[1]
         /\ at[main] \in InCall => \A pair \in job[main].ports : pair[1] \notin todo[main]
VerifyShown ==
  (~options.raw /\ options.verify /\ ~Interrupted /\ Direct
     /\ at[main] \notin {"scan", "verify", "results"}) =>
    \A pair \in found : pair[1] \in Wanted =>
      \/ at[main] \in InWorker /\ pair[1] \in todo[main]
      \/ at[main] \in InCall /\ pair \in job[main].ports
      \/ Shown(Key(pair))

\* Main goes over what is found when the scan has ended; nothing comes after, but
\* for a raw scan with -verify.
SnapshotInv ==
  IF at[main] \in {"scan", "verify", "results"} THEN snapshot[main].ports = {}
  ELSE /\ snapshot[main].ports \subseteq found
       /\ (options.raw /\ options.verify) \/ snapshot[main].ports = found

\* A Port that is kept for a pair, or has a banner of it, is one that its probe
\* or answer came with.
OfPair(object, pair) ==
  \E d \in Deliveries : PortOf[d] = pair /\ object = PortObject(d)
ObjectsInv ==
  /\ \A pair \in Pairs : OfPair(objects[pair], pair)
  /\ \A f \in Finishers : \A pair \in Pairs : OfPair(snapshot[f].objects[pair], pair)
  /\ \A b \in banners : OfPair(b[1], b[2])

\* What handleOutput does with a pair under a name of its host.
Written(host, pair) ==
  /\ Repeats => Shown(Key(pair))
  /\ options.file = "good" => \E line \in file : line.pair = pair
  /\ \/ Enhanced /\ <<host, pair>> \in grabs[main]
     \/ /\ <<host, pair>> \in told
        /\ Enhanced => FindingsOf(host, pair) \subseteq findings
OutputInv ==
  /\ at[main] = "done" => summary = findings
  /\ (~Interrupted /\ options.file # "bad"
        /\ at[main] \in {"output", "summary", "done"}) =>
       \A pair \in snapshot[main].ports : pair[1] \in Wanted =>
         \A host \in NamesFor(pair[1], Ranged(main, pair[1])) :
           \/ at[main] = "output" /\ <<pair[1], host>> \in todo[main]
           \/ Written(host, pair)

ReportInv ==
  /\ TypeOK /\ FrameInv /\ FreshInv /\ ObjectsInv /\ BannersMixOnlyIfShared
  /\ ScanInv /\ MarkedInv /\ KeyedInv
  /\ RawShown /\ ConnectShown /\ VerifyUnique /\ VerifyShown
  /\ SnapshotInv /\ OutputInv

-----------------------------------------------------------------------------
(* The calls of onReceive.                                                 *)

\* What is assumed of the constants, in the terms used here.
LEMMA PairFacts ==
  /\ main \in Receivers /\ handler \in Receivers
  /\ main # handler /\ main \notin Deliveries /\ handler \notin Deliveries
  /\ Finishers = {main, handler} /\ Deliveries \subseteq Receivers
  /\ WithPort \subseteq Deliveries
  /\ \A pair \in Pairs : /\ pair = <<pair[1], pair[2]>> /\ Key(pair) \in Keys
                         /\ pair[2].proto \in {"tcp", "udp"}
                         /\ Key(pair)[1] = pair[1]
  /\ \A d \in Deliveries : PortOf[d] \in Pairs
  BY ReportAssumption DEF Finishers, Receivers, Pairs, Keys, Key

\* The goroutine g gets this job, the others keep theirs.
JobTo(g, ports, left, began) ==
  /\ job' \in [Receivers -> Jobs]
  /\ job'[g].ports = ports /\ job'[g].left = left /\ job'[g].began = began
  /\ \A r \in Receivers : r # g => job'[r] = job[r]

\* The two ways in which a job changes.
LEMMA JobSteps ==
  ASSUME FrameInv, NEW g \in Receivers
  PROVE  /\ \A left \in SUBSET Pairs :
              job' = [job EXCEPT ![g].left = left] =>
                JobTo(g, job[g].ports, left, job[g].began)
         /\ \A ports \in SUBSET Pairs, began \in SUBSET Keys :
              job' = [job EXCEPT ![g] = [ports |-> ports, left |-> ports,
                                         began |-> began]] =>
                JobTo(g, ports, ports, began)
<1>. USE DEF JobTo
<1>1. job \in [Receivers -> Jobs] /\ job[g] \in Jobs
  BY DEF FrameInv
<1>2. ASSUME NEW r \in Jobs, job' = [job EXCEPT ![g] = r]
      PROVE  JobTo(g, r.ports, r.left, r.began)
  BY <1>1, <1>2
<1>3. ASSUME NEW left \in SUBSET Pairs, job' = [job EXCEPT ![g].left = left]
      PROVE  JobTo(g, job[g].ports, left, job[g].began)
  <2>. DEFINE r == [job[g] EXCEPT !.left = left]
  <2>1. r \in Jobs /\ r.ports = job[g].ports /\ r.left = left /\ r.began = job[g].began
    BY <1>1 DEF Jobs
  <2>2. job' = [job EXCEPT ![g] = r]
    BY <1>1, <1>3
  <2>. HIDE DEF r
  <2>. QED
    BY <1>2, <2>1, <2>2
<1>4. ASSUME NEW ports \in SUBSET Pairs, NEW began \in SUBSET Keys,
             job' = [job EXCEPT ![g] = [ports |-> ports, left |-> ports, began |-> began]]
      PROVE  JobTo(g, ports, ports, began)
  <2>. DEFINE r == [ports |-> ports, left |-> ports, began |-> began]
  <2>1. r \in Jobs /\ r.ports = ports /\ r.left = ports /\ r.began = began
    BY DEF Jobs
  <2>2. job' = [job EXCEPT ![g] = r]
    BY <1>4
  <2>. HIDE DEF r
  <2>. QED
    BY <1>2, <2>1, <2>2
<1>. QED
  BY <1>3, <1>4

\* A call: the job is the ports of one host, all of them to be asked for.
LEMMA ReceivesStep ==
  ASSUME TypeOK, FrameInv, NEW g \in Receivers, NEW pairs \in SUBSET Pairs,
         Receives(g, pairs)
  PROVE  /\ JobTo(g, pairs, pairs, Known)
         /\ at' = [at EXCEPT ![g] = IF \E pair \in pairs : pair[1] \notin Wanted
                                    THEN "received" ELSE "has"]
<1>1. Known \in SUBSET Keys
  BY DEF TypeOK, Keys, Known
<1>2. job' = [job EXCEPT ![g] = [ports |-> pairs, left |-> pairs, began |-> Known]]
  BY DEF Receives, Known
<1>. QED
  BY <1>1, <1>2, JobSteps DEF Receives, Goes

\* unique.Has for one port.
LEMMA HasStep ==
  ASSUME TypeOK, FrameInv, NEW g \in Receivers, Has(g)
  PROVE  \E pair \in job[g].left :
           \/ /\ Key(pair) \in unique /\ UNCHANGED job
              /\ at' = [at EXCEPT ![g] = "received"]
           \/ /\ Key(pair) \notin unique /\ at' = [at EXCEPT ![g] = "has"]
              /\ JobTo(g, job[g].ports, job[g].left \ {pair}, job[g].began)
           \/ /\ Key(pair) \notin unique /\ job[g].left \subseteq {pair}
              /\ at' = [at EXCEPT ![g] = "set"]
              /\ JobTo(g, job[g].ports, job[g].ports, job[g].began)
<1>1. job[g] \in Jobs
  BY DEF FrameInv
<1>2. job[g].ports \in SUBSET Pairs /\ \A pair : job[g].left \ {pair} \in SUBSET Pairs
  BY <1>1 DEF Jobs
<1>3. PICK pair \in job[g].left :
        \/ Seen(pair) /\ Goes(g, "received") /\ UNCHANGED job
        \/ ~Seen(pair) /\ job[g].left \ {pair} # {} /\ Goes(g, "has")
             /\ job' = [job EXCEPT ![g].left = job[g].left \ {pair}]
        \/ ~Seen(pair) /\ job[g].left \ {pair} = {} /\ Goes(g, "set")
             /\ job' = [job EXCEPT ![g].left = job[g].ports]
  BY DEF Has
<1>4. /\ job' = [job EXCEPT ![g].left = job[g].left \ {pair}] =>
           JobTo(g, job[g].ports, job[g].left \ {pair}, job[g].began)
      /\ job' = [job EXCEPT ![g].left = job[g].ports] =>
           JobTo(g, job[g].ports, job[g].ports, job[g].began)
  BY <1>2, JobSteps
<1>. QED
  BY <1>3, <1>4 DEF Seen, Goes

\* unique.Set for one port.
LEMMA SetStep ==
  ASSUME TypeOK, FrameInv, NEW g \in Receivers, Set(g)
  PROVE  \E pair \in job[g].left :
           /\ Key(pair) \in unique' /\ unique' \subseteq unique \cup {Key(pair)}
           /\ evicted \subseteq evicted' /\ Known' = Known \cup {Key(pair)}
           /\ JobTo(g, job[g].ports, job[g].left \ {pair}, job[g].began)
           /\ \/ job[g].left \subseteq {pair} /\ at' = [at EXCEPT ![g] = AfterSet]
              \/ at' = [at EXCEPT ![g] = "set"]
<1>1. job[g] \in Jobs
  BY DEF FrameInv
<1>2. \A pair : job[g].left \ {pair} \in SUBSET Pairs
  BY <1>1 DEF Jobs
<1>3. PICK pair \in job[g].left : \E out \in Evictions(Key(pair)) :
        /\ unique' = (unique \ out) \cup {Key(pair)}
        /\ evicted' = evicted \cup out
        /\ job' = [job EXCEPT ![g].left = job[g].left \ {pair}]
        /\ Goes(g, IF job[g].left \ {pair} = {} THEN AfterSet ELSE "set")
  BY DEF Set
<1>4. Evictions(Key(pair)) \subseteq SUBSET unique
  BY DEF Evictions
<1>5. JobTo(g, job[g].ports, job[g].left \ {pair}, job[g].began)
  BY <1>2, <1>3, JobSteps
<1>. QED
  BY <1>3, <1>5, <1>4 DEF Goes, Known

\* The ports that are asked for a banner.
LEMMA GrabStep ==
  ASSUME TypeOK, FrameInv, NEW g \in Receivers, GrabBanner(g)
  PROVE  /\ JobTo(g, job[g].ports, Silent(Held(g), job[g].ports), job[g].began)
         /\ Silent(Held(g), job[g].ports) \subseteq job[g].ports
         /\ at' = [at EXCEPT ![g] = "banner"]
<1>1. job[g].ports \in SUBSET Pairs
  BY DEF FrameInv, Jobs
<1>2. Silent(Held(g), job[g].ports) \subseteq job[g].ports
  BY DEF Silent
<1>. QED
  BY <1>1, <1>2, JobSteps DEF GrabBanner, Goes

\* The steps that call onReceive, ...
ProbeCalls(d) ==
  /\ (Connected(d) /\ ~options.verify) \/ (Answer(d) /\ Tcp(d))
  /\ Receives(d, {PortOf[d]})
FinisherCalls(f) ==
  /\ NextReceived(f)
  /\ \E ip \in todo[f] : /\ Receives(f, Ranged(f, ip))
                         /\ todo' = [todo EXCEPT ![f] = @ \ {ip}]

\* ... and those that leave the jobs and what is marked alone.
QuietProbe(d) ==
  \/ Begin(d) \/ Record(d) \/ Return(d)
  \/ Connected(d) /\ options.verify /\ Goes(d, "done")
  \/ Answer(d) /\ ~Tcp(d) /\ Goes(d, "add")
QuietFinish(f) ==
  \/ ListHosts(f) \/ Create(f) \/ OutputHost(f) \/ GrabService(f) \/ EndOutput(f)
  \/ NextReceived(f) /\ todo[f] = {} /\ Goes(f, "file") /\ UNCHANGED todo
Quiet ==
  /\ UNCHANGED <<job, cache>>
  /\ \/ EndScan \/ Verify \/ Signal \/ Summarise \/ Over
     \/ \E d \in Deliveries : QuietProbe(d)
     \/ \E f \in Finishers : QuietFinish(f)
     \/ \E g \in Receivers : SetBanner(g) \/ PrintLines(g)

\* These are all the steps.
LEMMA StepKinds ==
  ASSUME Next
  PROVE  \/ \E g \in Receivers : Has(g) \/ Set(g) \/ GrabBanner(g)
         \/ \E d \in Deliveries : ProbeCalls(d)
         \/ \E f \in Finishers : FinisherCalls(f)
         \/ Quiet
<1>1. CASE EndScan \/ Verify \/ Signal \/ Summarise \/ Over
  BY <1>1 DEF Quiet, EndScan, Verify, Signal, Summarise, Over, vars
<1>2. ASSUME NEW d \in Deliveries, Probe(d)
      PROVE  ProbeCalls(d) \/ Quiet
  <2>1. CASE Begin(d) \/ Record(d) \/ Return(d)
    BY <2>1 DEF Quiet, QuietProbe, Begin, Record, Return
  <2>2. CASE Connected(d)
    BY <2>2 DEF ProbeCalls, Quiet, QuietProbe, Connected
  <2>3. CASE Answer(d)
    BY <2>3 DEF ProbeCalls, Quiet, QuietProbe, Answer
  <2>. QED
    BY <1>2, <2>1, <2>2, <2>3 DEF Probe
<1>3. ASSUME NEW g \in Receivers, OnReceive(g)
      PROVE  Has(g) \/ Set(g) \/ GrabBanner(g) \/ Quiet
  BY <1>3 DEF OnReceive, Quiet, SetBanner, PrintLines
<1>4. ASSUME NEW f \in Finishers, Finish(f)
      PROVE  FinisherCalls(f) \/ Quiet
  BY <1>4 DEF Finish, FinisherCalls, Quiet, QuietFinish, ListHosts, NextReceived, Create,
     OutputHost, GrabService, EndOutput
<1>. QED
  BY <1>1, <1>2, <1>3, <1>4 DEF Next

\* The stages of each goroutine are its own, and the records keep their form.
LEMMA FrameStep ==
  ASSUME TypeOK, FrameInv, Next
  PROVE  FrameInv'
<1>. USE PairFacts
<1>1. DOMAIN todo' = Finishers /\ DOMAIN grabs' = Finishers
  BY DEF FrameInv, Next, Probe, OnReceive, Finish, EndScan, Verify, Signal, Summarise, Over,
     Begin, Connected, Answer, Record, Return, Has, Set, GrabBanner, SetBanner, PrintLines,
     ListHosts, NextReceived, Create, OutputHost, GrabService, EndOutput, output, vars
<1>. DEFINE Stages == {"scan", "off", "idle", "dial", "has", "set", "grab", "banner",
                       "print", "received", "add", "done", "verify", "results", "file",
                       "output", "summary"}
<1>2. at \in [Receivers -> Stages]
  BY DEF TypeOK
<1>. HIDE DEF Stages
<1>. DEFINE OneHost(pairs) == \A p, q \in pairs : p[1] = q[1]
<1>. DEFINE Formed ==
       /\ job \in [Receivers -> Jobs]
       /\ \A g \in Receivers : job[g].left \subseteq job[g].ports /\ OneHost(job[g].ports)
       /\ \A d \in Deliveries : at[d] \in {"idle", "dial", "add", "done"} \cup InWorker
       /\ at[main] \in {"scan", "verify", "results", "file", "output", "summary",
                        "done"} \cup InWorker
       /\ at[handler] \in {"off", "results", "file", "output", "done"} \cup InWorker
       /\ \A d \in Deliveries : at[d] \in InWorker => job[d].ports = {PortOf[d]}
<1>3. Formed
  BY DEF FrameInv
<1>4. ASSUME NEW g \in Receivers, NEW left \in SUBSET job[g].ports,
             UNCHANGED job \/ JobTo(g, job[g].ports, left, job[g].began),
             NEW st \in InWorker, at[g] \in InWorker, at' = [at EXCEPT ![g] = st]
      PROVE  Formed'
  BY <1>2, <1>3, <1>4 DEF JobTo
<1>5. ASSUME NEW g \in Receivers, NEW pairs \in SUBSET Pairs, OneHost(pairs),
             g \in Deliveries => pairs = {PortOf[g]},
             Receives(g, pairs)
      PROVE  Formed'
  <2>1. /\ JobTo(g, pairs, pairs, Known)
        /\ \E st \in {"has", "received"} : at' = [at EXCEPT ![g] = st]
    BY <1>5, ReceivesStep
  <2>. QED
    BY <1>2, <1>3, <1>5, <2>1 DEF JobTo, InWorker
<1>. HIDE DEF Formed
<1>6. ASSUME NEW g \in Receivers, Has(g) PROVE Formed'
  <2>1. at[g] \in InWorker
    BY <1>6 DEF Has, InWorker
  <2>2. job[g].left \subseteq job[g].ports
    BY DEF FrameInv
  <2>3. \E left \in SUBSET job[g].ports, st \in InWorker :
          /\ UNCHANGED job \/ JobTo(g, job[g].ports, left, job[g].began)
          /\ at' = [at EXCEPT ![g] = st]
    BY <1>6, <2>2, HasStep DEF InWorker
  <2>. QED
    BY <1>4, <2>1, <2>3
<1>7. ASSUME NEW g \in Receivers, Set(g) PROVE Formed'
  <2>1. at[g] \in InWorker /\ AfterSet \in InWorker
    BY <1>7 DEF Set, InWorker, AfterSet
  <2>2. job[g].left \subseteq job[g].ports
    BY DEF FrameInv
  <2>3. \E left \in SUBSET job[g].ports, st \in InWorker :
          /\ JobTo(g, job[g].ports, left, job[g].began)
          /\ at' = [at EXCEPT ![g] = st]
    BY <1>7, <2>1, <2>2, SetStep DEF InWorker
  <2>. QED
    BY <1>4, <2>1, <2>3
<1>8. ASSUME NEW g \in Receivers, GrabBanner(g) PROVE Formed'
  <2>1. at[g] \in InWorker /\ "banner" \in InWorker
    BY <1>8 DEF GrabBanner, InWorker
  <2>. QED
    BY <1>4, <1>8, <2>1, GrabStep
<1>9. ASSUME NEW d \in Deliveries, ProbeCalls(d) PROVE Formed'
  BY <1>5, <1>9 DEF ProbeCalls
<1>10. ASSUME NEW f \in Finishers, FinisherCalls(f) PROVE Formed'
  <2>1. PICK ip \in todo[f] : Receives(f, Ranged(f, ip))
    BY <1>10 DEF FinisherCalls
  <2>2. Ranged(f, ip) \in SUBSET Pairs /\ OneHost(Ranged(f, ip)) /\ f \in Receivers
    BY DEF Ranged, PortsOn, TypeOK
  <2>3. f \notin Deliveries
    OBVIOUS
  <2>. HIDE DEF OneHost
  <2>. QED
    BY <1>5, <2>1, <2>2, <2>3
<1>11. ASSUME UNCHANGED job, NEW g \in Receivers, NEW st,
              at' = [at EXCEPT ![g] = st],
              g \in Deliveries => at[g] \in InWorker /\ st \in InWorker,
              g = main => st \in {"scan", "verify", "results", "file", "output", "summary",
                                  "done"} \cup InWorker,
              g = handler => st \in {"off", "results", "file", "output", "done"}
                                      \cup InWorker
       PROVE  Formed'
  BY <1>2, <1>3, <1>11 DEF Formed, InWorker
<1>12. ASSUME Quiet, UNCHANGED at PROVE Formed'
  BY <1>3, <1>12 DEF Quiet, Formed
<1>13. ASSUME Quiet, ~UNCHANGED at PROVE Formed'
  <2>1. CASE EndScan \/ Verify \/ Summarise
    BY <1>11, <1>13, <2>1 DEF Quiet, EndScan, Verify, Summarise, Goes
  <2>2. CASE Signal
    BY <1>11, <1>13, <2>2 DEF Quiet, Signal, Goes
  <2>3. ASSUME NEW d \in Deliveries, QuietProbe(d) PROVE Formed'
    <3>1. \E st \in {"idle", "dial", "add", "done"} : at' = [at EXCEPT ![d] = st]
      BY <2>3 DEF QuietProbe, Begin, Record, Return, Goes
    <3>2. ASSUME NEW st \in {"idle", "dial", "add", "done"}, at' = [at EXCEPT ![d] = st]
          PROVE  Formed'
      BY <1>2, <1>3, <1>13, <3>2 DEF Formed, InWorker, Quiet
    <3>. QED
      BY <3>1, <3>2
  <2>4. ASSUME NEW f \in Finishers, QuietFinish(f) PROVE Formed'
    BY <1>11, <1>13, <2>4 DEF Quiet, QuietFinish, ListHosts, Create, OutputHost,
       GrabService, EndOutput, AfterOutput, Goes, InWorker
  <2>5. ASSUME NEW g \in Receivers, SetBanner(g) \/ PrintLines(g) PROVE Formed'
    BY <1>11, <1>13, <2>5 DEF Quiet, SetBanner, PrintLines, Goes, InWorker
  <2>6. CASE Over
    BY <1>13, <2>6 DEF Over, vars
  <2>. QED
    BY <1>13, <2>1, <2>2, <2>3, <2>4, <2>5, <2>6 DEF Quiet
<1>14. Formed'
  BY <1>6, <1>7, <1>8, <1>9, <1>10, <1>12, <1>13, StepKinds
<1>. QED
  BY <1>1, <1>14 DEF FrameInv, Formed

-----------------------------------------------------------------------------
(* Banners and types.                                                      *)

\* A Port is that of one probe or answer, but for those of the list of ports.
LEMMA PortObjects ==
  ASSUME NEW d \in Deliveries, NEW e \in Deliveries, PortObject(d) = PortObject(e)
  PROVE  /\ PortOf[d][2] = PortOf[e][2]
         /\ options.raw \/ d \in WithPort \/ e \in WithPort => d = e
<1>. DEFINE own(c) == IF options.raw \/ c \in WithPort THEN {c} ELSE {}
<1>1. \A c \in Deliveries : PortObject(c) = <<PortOf[c][2], own(c)>>
  BY DEF PortObject
<1>2. PortOf[d][2] = PortOf[e][2] /\ own(d) = own(e)
  <2>. HIDE DEF own
  <2>. QED
    BY <1>1
<1>. QED
  BY <1>2

\* Two ports of one host do not have the same Port.
LEMMA PortOfPair ==
  ASSUME NEW p \in Pairs, NEW q \in Pairs, NEW object, OfPair(object, p), OfPair(object, q)
  PROVE  p[2] = q[2] /\ (p[1] = q[1] => p = q)
<1>1. p = <<p[1], p[2]>> /\ q = <<q[1], q[2]>>
  BY PairFacts
<1>2. PICK d \in Deliveries : PortOf[d] = p /\ object = PortObject(d)
  BY DEF OfPair
<1>3. PICK e \in Deliveries : PortOf[e] = q /\ object = PortObject(e)
  BY DEF OfPair
<1>4. p[2] = q[2]
  BY <1>2, <1>3, PortObjects
<1>. QED
  BY <1>1, <1>4

\* What a goroutine has for a port is the Port of a probe or answer of it.
LEMMA HeldOfPair ==
  ASSUME TypeOK, FrameInv, ObjectsInv, NEW g \in Receivers, NEW pair \in Pairs,
         g \in Deliveries => pair = PortOf[g]
  PROVE  /\ OfPair(Held(g)[pair], pair)
         /\ g \in Deliveries => Held(g)[pair] = PortObject(g)
<1>. USE PairFacts
<1>1. CASE g \in Finishers
  BY <1>1 DEF Held, ObjectsInv
<1>2. CASE g \in Deliveries
  <2>1. Held(g) = [p \in {PortOf[g]} |-> PortObject(g)]
    BY <1>2 DEF Held
  <2>. QED
    BY <1>2, <2>1 DEF OfPair
<1>. QED
  BY <1>1, <1>2 DEF Receivers

\* Each banner is of a pair that its Port stands for, and a Port has one.
BannersOf(set) ==
  /\ \A b \in set : b[1] \in Objects /\ b[2] \in Pairs /\ b = <<b[1], b[2]>>
  /\ \A b \in set : OfPair(b[1], b[2])
  /\ \A b, c \in set : b[1] = c[1] => b = c

\* Assigning banners to different Ports keeps it so.
LEMMA BannerSteps ==
  ASSUME BannersOf(banners), NEW pairs \in SUBSET Pairs, NEW held,
         \A p \in pairs : OfPair(held[p], p),
         \A p, q \in pairs : held[p] = held[q] => p = q
  PROVE  BannersOf(SetBanners(held, pairs))
<1>1. ASSUME NEW b \in SetBanners(held, pairs)
      PROVE  \/ b \in banners /\ \A p \in pairs : b[1] # held[p]
             \/ \E p \in pairs : b = <<held[p], p>>
  BY DEF SetBanners
<1>2. ASSUME NEW b \in SetBanners(held, pairs)
      PROVE  /\ b[1] \in Objects /\ b[2] \in Pairs /\ b = <<b[1], b[2]>>
             /\ OfPair(b[1], b[2])
  <2>1. CASE b \in banners
    BY <2>1 DEF BannersOf
  <2>2. ASSUME NEW p \in pairs, b = <<held[p], p>>
        PROVE  /\ b[1] \in Objects /\ b[2] \in Pairs /\ b = <<b[1], b[2]>>
               /\ OfPair(b[1], b[2])
    <3>1. b[1] = held[p] /\ b[2] = p
      BY <2>2
    <3>2. held[p] \in Objects
      BY DEF OfPair, Objects
    <3>. QED
      BY <2>2, <3>1, <3>2
  <2>. QED
    BY <1>1, <2>1, <2>2
<1>3. ASSUME NEW b \in SetBanners(held, pairs), NEW c \in SetBanners(held, pairs),
             b[1] = c[1]
      PROVE  b = c
  <2>1. CASE b \in banners /\ c \in banners
    BY <1>3, <2>1 DEF BannersOf
  <2>2. ASSUME NEW p \in pairs, b = <<held[p], p>> PROVE b = c
    <3>1. b[1] = held[p]
      BY <2>2
    <3>2. PICK q \in pairs : c = <<held[q], q>>
      BY <1>1, <1>3, <3>1
    <3>3. c[1] = held[q]
      BY <3>2
    <3>. QED
      BY <1>3, <2>2, <3>1, <3>2, <3>3
  <2>3. ASSUME NEW q \in pairs, c = <<held[q], q>> PROVE b = c
    <3>1. c[1] = held[q]
      BY <2>3
    <3>2. PICK p \in pairs : b = <<held[p], p>>
      BY <1>1, <1>3, <3>1
    <3>. QED
      BY <2>2, <3>2
  <2>. QED
    BY <1>1, <2>1, <2>2, <2>3
<1>. QED
  BY <1>2, <1>3 DEF BannersOf

\* Of the pairs that share a Port one is asked.
LEMMA AskedOnePerPort ==
  ASSUME NEW kept \in SUBSET Pairs
  PROVE  Asked(kept) \in SUBSET Pairs /\ OnePerPort(Asked(kept))
<1>. DEFINE talks == Talks(kept)
<1>. DEFINE First(p) == CHOOSE q \in talks : objects[q] = objects[p]
<1>. DEFINE some == {First(p) : p \in talks}
<1>1. talks \subseteq Pairs
  BY DEF Talks, Silent
<1>2. ASSUME NEW p \in talks
      PROVE  First(p) \in talks /\ objects[First(p)] = objects[p]
  OBVIOUS
<1>3. ASSUME NEW p \in talks, NEW q \in talks, objects[p] = objects[q]
      PROVE  First(p) = First(q)
  BY <1>3
<1>. HIDE DEF talks, First
<1>4. some \in SUBSET talks /\ OnePerPort(some)
  BY <1>2, <1>3 DEF OnePerPort
<1>5. {objects[p] : p \in some} = {objects[p] : p \in talks}
  BY <1>2
<1>. HIDE DEF some
<1>6. \E set \in SUBSET talks :
        /\ OnePerPort(set)
        /\ {objects[p] : p \in set} = {objects[p] : p \in talks}
  BY <1>4, <1>5
<1>7. Asked(kept) \in SUBSET talks /\ OnePerPort(Asked(kept))
  BY <1>6 DEF Asked, talks
<1>. QED
  BY <1>1, <1>7

\* The options are read only.
LEMMA OptionsStay == Next => UNCHANGED options
  BY DEF Next, Probe, OnReceive, Finish, EndScan, Verify, Signal, Summarise, Over,
     Begin, Connected, Answer, Record, Return, Has, Set, GrabBanner, SetBanner, PrintLines,
     ListHosts, NextReceived, Create, OutputHost, GrabService, EndOutput, vars

\* The banners stay on the Ports of their pairs.
LEMMA BannersOfStep ==
  ASSUME TypeOK, FrameInv, ObjectsInv, Next
  PROVE  BannersOf(banners')
<1>. USE PairFacts
<1>1. BannersOf(banners)
  BY DEF TypeOK, BannersOf, ObjectsInv
<1>2. ASSUME NEW g \in Receivers, SetBanner(g) PROVE BannersOf(banners')
  <2>1. job[g].left \in SUBSET Pairs /\ \A p, q \in job[g].left : p[1] = q[1]
    BY DEF FrameInv, Jobs
  <2>2. g \in Deliveries => job[g].left \subseteq {PortOf[g]}
    BY <1>2 DEF SetBanner, FrameInv, InWorker
  <2>3. \A p \in job[g].left : OfPair(Held(g)[p], p)
    BY <2>1, <2>2, HeldOfPair
  <2>4. \A p, q \in job[g].left : Held(g)[p] = Held(g)[q] => p = q
    BY <2>1, <2>3, PortOfPair
  <2>. QED
    BY <1>1, <1>2, <2>1, <2>3, <2>4, BannerSteps DEF SetBanner
<1>3. CASE Verify
  <2>1. PICK kept \in SUBSET found :
          banners' = IF options.banner THEN SetBanners(objects, Asked(kept)) ELSE banners
    BY <1>3 DEF Verify
  <2>2. Asked(kept) \in SUBSET Pairs /\ OnePerPort(Asked(kept))
    BY AskedOnePerPort DEF TypeOK
  <2>3. /\ \A p \in Asked(kept) : OfPair(objects[p], p)
        /\ \A p, q \in Asked(kept) : objects[p] = objects[q] => p = q
    BY <2>2 DEF ObjectsInv, OnePerPort
  <2>4. BannersOf(SetBanners(objects, Asked(kept)))
    BY <1>1, <2>2, <2>3, BannerSteps
  <2>. QED
    BY <1>1, <2>1, <2>4
<1>4. CASE UNCHANGED banners
  BY <1>1, <1>4
<1>. QED
  BY <1>2, <1>3, <1>4 DEF Next, Probe, OnReceive, Finish, EndScan, Signal, Summarise, Over,
     Begin, Connected, Answer, Record, Return, Has, Set, GrabBanner, PrintLines, ListHosts,
     NextReceived, Create, OutputHost, GrabService, EndOutput, result, vars

\* The Ports that are kept: AddPort replaces one, a range loop copies them.
LEMMA PortsKept ==
  ASSUME TypeOK, FrameInv, Next
  PROVE  /\ \/ UNCHANGED objects
            \/ \E d \in Deliveries :
                 objects' = [objects EXCEPT ![PortOf[d]] = PortObject(d)]
         /\ \/ UNCHANGED snapshot
            \/ \E f \in Finishers : /\ ListHosts(f) \/ Create(f)
                                   /\ Ranges(f) /\ UNCHANGED <<found, objects>>
  BY DEF Next, Probe, OnReceive, Finish, EndScan, Verify, Signal, Summarise, Over, Begin,
     Connected, Answer, Record, Return, Has, Set, GrabBanner, SetBanner, PrintLines,
     ListHosts, NextReceived, Create, OutputHost, GrabService, EndOutput, AddPort, result,
     output, vars

\* They are the Ports of probes and answers.
LEMMA ObjectsStep ==
  ASSUME TypeOK, FrameInv, ObjectsInv, Next
  PROVE  /\ objects' \in [Pairs -> Objects]
         /\ snapshot' \in [Finishers -> [ports : SUBSET Pairs, objects : [Pairs -> Objects]]]
         /\ ObjectsInv'
<1>. USE PairFacts
<1>1. objects' \in [Pairs -> Objects] /\ \A pair \in Pairs : OfPair(objects'[pair], pair)
  <2>1. CASE UNCHANGED objects
    BY <2>1 DEF TypeOK, ObjectsInv
  <2>2. ASSUME NEW d \in Deliveries,
               objects' = [objects EXCEPT ![PortOf[d]] = PortObject(d)]
        PROVE  /\ objects' \in [Pairs -> Objects]
               /\ \A pair \in Pairs : OfPair(objects'[pair], pair)
    <3>1. PortObject(d) \in Objects /\ OfPair(PortObject(d), PortOf[d])
      BY DEF Objects, OfPair
    <3>. QED
      BY <2>2, <3>1 DEF TypeOK, ObjectsInv
  <2>. QED
    BY <2>1, <2>2, PortsKept
<1>2. /\ snapshot' \in [Finishers -> [ports : SUBSET Pairs, objects : [Pairs -> Objects]]]
      /\ \A f \in Finishers : \A pair \in Pairs : OfPair(snapshot'[f].objects[pair], pair)
  <2>1. CASE UNCHANGED snapshot
    BY <2>1 DEF TypeOK, ObjectsInv
  <2>2. ASSUME NEW e \in Finishers, Ranges(e)
        PROVE  /\ snapshot' \in [Finishers ->
                                  [ports : SUBSET Pairs, objects : [Pairs -> Objects]]]
               /\ \A f \in Finishers : \A pair \in Pairs :
                    OfPair(snapshot'[f].objects[pair], pair)
    <3>. DEFINE new == [ports |-> found, objects |-> objects]
    <3>1. /\ new \in [ports : SUBSET Pairs, objects : [Pairs -> Objects]]
          /\ new.objects = objects
      BY DEF TypeOK
    <3>2. snapshot' = [snapshot EXCEPT ![e] = new]
      BY <2>2 DEF Ranges
    <3>. HIDE DEF new
    <3>. QED
      BY <3>1, <3>2 DEF TypeOK, ObjectsInv
  <2>. QED
    BY <2>1, <2>2, PortsKept
<1>3. \A object, pair : OfPair(object, pair)' <=> OfPair(object, pair)
  BY OptionsStay DEF OfPair, PortObject
<1>. QED
  BY <1>1, <1>2, <1>3, BannersOfStep DEF ObjectsInv, BannersOf

\* The types are kept, and a raw scan has one TCP worker.
LEMMA TypeStep ==
  ASSUME TypeOK, FrameInv, ScanInv, ObjectsInv, Next, FrameInv'
  PROVE  TypeOK'
<1>. USE PairFacts
<1>. USE DEF result, output, vars
<1>1. UNCHANGED options
  BY DEF Next, Probe, OnReceive, Finish, EndScan, Verify, Signal, Summarise, Over,
     Begin, Connected, Answer, Record, Return, Has, Set, GrabBanner, SetBanner, PrintLines,
     ListHosts, NextReceived, Create, OutputHost, GrabService, EndOutput
<1>2. at' \in [Receivers -> {"scan", "off", "idle", "dial", "has", "set", "grab",
                  "banner", "print", "received", "add", "done", "verify",
                  "results", "file", "output", "summary"}]
  <2>1. UNCHANGED at \/ \E g \in Receivers : \E st : at' = [at EXCEPT ![g] = st]
    BY DEF Next, Probe, OnReceive, Finish, EndScan, Verify, Signal, Summarise, Over,
       Begin, Connected, Answer, Record, Return, Has, Set, GrabBanner, SetBanner,
       PrintLines, ListHosts, NextReceived, Create, OutputHost, GrabService, EndOutput,
       Goes, Receives
  <2>2. at' = [g \in Receivers |-> at'[g]]
    BY <2>1 DEF TypeOK
  <2>. QED
    BY <2>2 DEF FrameInv, InWorker, Receivers
<1>3. Known' \subseteq Keys
  <2>1. CASE UNCHANGED cache
    BY <2>1 DEF TypeOK, Known, cache, Keys
  <2>2. ASSUME NEW g \in Receivers, Set(g) PROVE Known' \subseteq Keys
    <3>1. job[g].left \subseteq Pairs
      BY DEF FrameInv, Jobs
    <3>2. \E pair \in job[g].left : Known' = Known \cup {Key(pair)}
      BY <2>2, SetStep
    <3>. QED
      BY <3>1, <3>2 DEF TypeOK, Keys, Known
  <2>. QED
    BY <2>1, <2>2, StepKinds DEF Has, GrabBanner, ProbeCalls, FinisherCalls, Connected,
       Answer, NextReceived, Quiet
<1>4. found' \subseteq Pairs
  <2>1. CASE UNCHANGED found
    BY <2>1 DEF TypeOK
  <2>2. ASSUME NEW d \in Deliveries, Connected(d) \/ Record(d) PROVE found' \subseteq Pairs
    BY <2>2 DEF Connected, Record, AddPort, TypeOK
  <2>3. CASE Verify
    BY <2>3 DEF Verify, TypeOK
  <2>. QED
    BY <2>1, <2>2, <2>3 DEF Next, Probe, OnReceive, Finish, EndScan, Signal, Summarise,
       Over, Begin, Answer, Return, Has, Set, GrabBanner, SetBanner, PrintLines,
       ListHosts, NextReceived, Create, OutputHost, GrabService, EndOutput
<1>5. /\ banners' \subseteq Objects \X Pairs
      /\ \A b, c \in banners' : b[1] = c[1] => b = c
  BY BannersOfStep DEF BannersOf
<1>6. /\ Objects' = Objects
      /\ objects' \in [Pairs -> Objects]
      /\ snapshot' \in [Finishers -> [ports : SUBSET Pairs, objects : [Pairs -> Objects]]]
  BY <1>1, ObjectsStep DEF Objects, PortObject
<1>7. ASSUME NEW f \in Finishers, NEW grab \in grabs'[f]
      PROVE  at'[f] = "output" /\ grab[2] \in Pairs
  <2>1. f \in Receivers /\ DOMAIN grabs = Finishers /\ DOMAIN at = Receivers
    BY DEF FrameInv, TypeOK
  <2>2. ASSUME NEW e \in Finishers, OutputHost(e)
        PROVE  at'[f] = "output" /\ grab[2] \in Pairs
    <3>1. /\ UNCHANGED at /\ at[e] = "output"
          /\ \E entry \in todo[e] : grabs' = [grabs EXCEPT ![e] =
               IF Enhanced THEN {<<entry[2], pair>> : pair \in Ranged(e, entry[1])} ELSE {}]
      BY <2>2 DEF OutputHost
    <3>2. PICK entry \in todo[e] : grabs' = [grabs EXCEPT ![e] =
               IF Enhanced THEN {<<entry[2], pair>> : pair \in Ranged(e, entry[1])} ELSE {}]
      BY <3>1
    <3>3. CASE e = f
      <4>1. PICK pair \in Ranged(e, entry[1]) : grab = <<entry[2], pair>>
        BY <1>7, <2>1, <3>2, <3>3
      <4>2. pair \in Pairs
        BY DEF Ranged, PortsOn, TypeOK
      <4>. QED
        BY <3>1, <3>3, <4>1, <4>2
    <3>4. CASE e # f
      BY <1>7, <2>1, <3>1, <3>2, <3>4 DEF TypeOK
    <3>. QED
      BY <3>3, <3>4
  <2>3. ASSUME NEW e \in Finishers, GrabService(e)
        PROVE  at'[f] = "output" /\ grab[2] \in Pairs
    <3>1. UNCHANGED at /\ grabs'[f] \subseteq grabs[f]
      BY <2>1, <2>3 DEF GrabService
    <3>. QED
      BY <1>7, <3>1 DEF TypeOK
  <2>4. ASSUME ~\E e \in Finishers : OutputHost(e) \/ GrabService(e)
        PROVE  at'[f] = "output" /\ grab[2] \in Pairs
    <3>1. UNCHANGED grabs
      BY <2>4 DEF Next, Probe, OnReceive, Finish, EndScan, Verify, Signal, Summarise, Over,
         Begin, Connected, Answer, Record, Return, Has, Set, GrabBanner, SetBanner,
         PrintLines, ListHosts, NextReceived, Create, EndOutput
    <3>2. at[f] = "output" /\ grab \in grabs[f] /\ grab[2] \in Pairs
      BY <1>7, <3>1 DEF TypeOK
    <3>3. ~EndOutput(f)
      BY <3>2 DEF EndOutput, AllGrabbed
    <3>4. at'[f] = "output"
      BY <2>1, <2>4, <3>2, <3>3 DEF Next, Probe, OnReceive, Finish, EndScan, Verify, Signal,
         Summarise, Over, Begin, Connected, Answer, Record, Return, Has, Set, GrabBanner,
         SetBanner, PrintLines, ListHosts, NextReceived, Create, EndOutput, Goes, Receives
    <3>. QED
      BY <3>2, <3>4
  <2>. QED
    BY <2>2, <2>3, <2>4
<1>8. summary' \subseteq findings'
  BY DEF TypeOK, Next, Probe, OnReceive, Finish, EndScan, Verify, Signal, Summarise, Over,
     Begin, Connected, Answer, Record, Return, Has, Set, GrabBanner, SetBanner, PrintLines,
     ListHosts, NextReceived, Create, OutputHost, GrabService, EndOutput
<1>9. ASSUME options.raw, NEW d \in Deliveries, NEW e \in Deliveries,
             Tcp(d), Tcp(e), at'[d] \in InWorker, at'[e] \in InWorker
      PROVE  d = e
  <2>1. DOMAIN at = Receivers /\ d \in Receivers /\ e \in Receivers
    BY DEF TypeOK
  <2>2. CASE \E c \in Deliveries : ProbeCalls(c)
    <3>1. PICK c \in Deliveries : ProbeCalls(c)
      BY <2>2
    <3>2. at[c] # "dial"
      BY <1>9 DEF ScanInv
    <3>3. WorkerFree /\ \E st : at' = [at EXCEPT ![c] = st]
      BY <3>1, <3>2 DEF ProbeCalls, Connected, Answer, Receives, Goes
    <3>. QED
      BY <1>9, <2>1, <3>3 DEF WorkerFree
  <2>3. CASE ~\E c \in Deliveries : ProbeCalls(c)
    <3>1. \A c \in Deliveries : at'[c] \in InWorker => at[c] \in InWorker
      <4>1. CASE Quiet
        <5>1. ASSUME NEW c \in Deliveries, QuietProbe(c)
              PROVE  \E st \in {"dial", "add", "done"} : at' = [at EXCEPT ![c] = st]
          BY <5>1 DEF QuietProbe, Begin, Connected, Answer, Record, Return, Goes
        <5>2. ASSUME NEW f \in Finishers, QuietFinish(f)
              PROVE  UNCHANGED at \/ \E st : at' = [at EXCEPT ![f] = st]
          BY <5>2 DEF QuietFinish, ListHosts, NextReceived, Create, OutputHost, GrabService,
             EndOutput, Goes
        <5>3. ASSUME NEW g \in Receivers, SetBanner(g) \/ PrintLines(g)
              PROVE  at[g] \in InWorker /\ \E st : at' = [at EXCEPT ![g] = st]
          BY <5>3 DEF SetBanner, PrintLines, Goes, InWorker
        <5>4. ASSUME EndScan \/ Verify \/ Signal \/ Summarise \/ Over
              PROVE  UNCHANGED at \/ \E f \in Finishers : \E st : at' = [at EXCEPT ![f] = st]
          BY <5>4 DEF EndScan, Verify, Signal, Summarise, Over, Goes
        <5>. QED
          BY <2>1, <4>1, <5>1, <5>2, <5>3, <5>4 DEF Quiet, InWorker
      <4>2. ASSUME NEW g \in Receivers, Has(g) \/ Set(g) \/ GrabBanner(g)
            PROVE  \A c \in Deliveries : at'[c] \in InWorker => at[c] \in InWorker
        <5>1. at[g] \in InWorker /\ \E st : at' = [at EXCEPT ![g] = st]
          BY <4>2 DEF Has, Set, GrabBanner, Goes, InWorker
        <5>. QED
          BY <2>1, <5>1
      <4>3. ASSUME NEW f \in Finishers, FinisherCalls(f)
            PROVE  \A c \in Deliveries : at'[c] \in InWorker => at[c] \in InWorker
        BY <2>1, <4>3 DEF FinisherCalls, Receives, Goes
      <4>. QED
        BY <2>3, <4>1, <4>2, <4>3, StepKinds
    <3>. QED
      BY <1>9, <3>1 DEF TypeOK
  <2>. QED
    BY <2>2, <2>3
<1>. QED
  BY <1>1, <1>2, <1>3, <1>4, <1>5, <1>6, <1>7, <1>8, <1>9 DEF TypeOK, Known, Keys

-----------------------------------------------------------------------------
(* What a step does to a goroutine in onReceive.                           *)

\* The steps of a call: it begins, asks for one port, marks one, goes on to the
\* banners and to print, and prints what it was called with.
Called(g) ==
  /\ at[g] \notin InCall
  /\ job'[g].left = job'[g].ports /\ job'[g].began = Known
  /\ at'[g] = IF \E pair \in job'[g].ports : pair[1] \notin Wanted
              THEN "received" ELSE "has"
SameCall(g) == job'[g].ports = job[g].ports /\ job'[g].began = job[g].began
Asks(g) ==
  /\ at[g] = "has" /\ SameCall(g)
  /\ \E pair \in job[g].left :
       \/ Key(pair) \in unique /\ at'[g] = "received" /\ job'[g] = job[g]
       \/ /\ Key(pair) \notin unique /\ at'[g] = "has"
          /\ job'[g].left = job[g].left \ {pair}
       \/ /\ Key(pair) \notin unique /\ job[g].left \subseteq {pair}
          /\ at'[g] = "set" /\ job'[g].left = job[g].ports
Marks(g) ==
  /\ at[g] = "set" /\ SameCall(g)
  /\ \E pair \in job[g].left :
       /\ Key(pair) \in unique' /\ job'[g].left = job[g].left \ {pair}
       /\ \/ at'[g] = "set"
          \/ job[g].left \subseteq {pair} /\ at'[g] = AfterSet
GoesOn(g) ==
  /\ SameCall(g)
  /\ \/ at[g] = "grab" /\ at'[g] = "banner"
     \/ at[g] = "banner" /\ at'[g] = "print"
Prints(g) ==
  /\ at[g] = "print" /\ at'[g] = "received" /\ job'[g] = job[g]
  /\ ~options.disableStdout => Lines(g, job[g].ports) \subseteq stdout'

\* Or the goroutine is outside, and stays there.
Outside(g) ==
  /\ at[g] \notin InCall /\ at'[g] \notin InCall /\ job'[g] = job[g]
  /\ g \in Deliveries => at'[g] \notin InWorker

Move(g) ==
  \/ at'[g] = at[g] /\ job'[g] = job[g]
  \/ Called(g) \/ Asks(g) \/ Marks(g) \/ GoesOn(g) \/ Prints(g) \/ Outside(g)

\* Every step does one of these to every goroutine, and what is marked is of a
\* goroutine that marks.
LEMMA Moves ==
  ASSUME TypeOK, FrameInv, Next
  PROVE  /\ \A g \in Receivers : Move(g)
         /\ Known \subseteq Known' /\ evicted \subseteq evicted'
         /\ \A key \in Known' \ Known :
              \E g \in Receivers : /\ at[g] = "set"
                                   /\ \E pair \in job[g].left : key = Key(pair)
<1>. USE PairFacts
<1>1. DOMAIN at = Receivers /\ job \in [Receivers -> Jobs]
  BY DEF TypeOK, FrameInv
<1>. DEFINE Marked == /\ Known \subseteq Known' /\ evicted \subseteq evicted'
                      /\ \A key \in Known' \ Known :
                           \E g \in Receivers :
                             /\ at[g] = "set"
                             /\ \E pair \in job[g].left : key = Key(pair)
<1>. DEFINE Others(g) == \A r \in Receivers : r # g => at'[r] = at[r] /\ job'[r] = job[r]
<1>2. ASSUME NEW g \in Receivers, Others(g), Move(g)
      PROVE  \A r \in Receivers : Move(r)
  BY <1>2 DEF Move
<1>3. \A g \in Receivers : \A st :
        at' = [at EXCEPT ![g] = st] =>
          /\ at'[g] = st
          /\ UNCHANGED job \/ (\E ports, left, began : JobTo(g, ports, left, began))
               => Others(g)
  BY <1>1 DEF JobTo
<1>. HIDE DEF Others
<1>4. ASSUME NEW g \in Receivers, NEW pairs \in SUBSET Pairs, Receives(g, pairs),
             at[g] \in {"dial", "idle", "received"}
      PROVE  \A r \in Receivers : Move(r)
  <2>. DEFINE st == IF \E pair \in pairs : pair[1] \notin Wanted
                    THEN "received" ELSE "has"
  <2>1. JobTo(g, pairs, pairs, Known) /\ at' = [at EXCEPT ![g] = st]
    BY <1>4, ReceivesStep
  <2>2. at'[g] = st /\ Others(g)
    <3>. HIDE DEF st
    <3>. QED
      BY <1>3, <2>1
  <2>3. Called(g)
    BY <1>4, <2>1, <2>2 DEF Called, JobTo, InCall, Turn
  <2>. QED
    BY <1>2, <2>2, <2>3 DEF Move
<1>5. ASSUME NEW g \in Receivers, Has(g)
      PROVE  (\A r \in Receivers : Move(r)) /\ Marked
  <2>1. PICK pair \in job[g].left :
          \/ /\ Key(pair) \in unique /\ UNCHANGED job
             /\ at' = [at EXCEPT ![g] = "received"]
          \/ /\ Key(pair) \notin unique /\ at' = [at EXCEPT ![g] = "has"]
             /\ JobTo(g, job[g].ports, job[g].left \ {pair}, job[g].began)
          \/ /\ Key(pair) \notin unique /\ job[g].left \subseteq {pair}
             /\ at' = [at EXCEPT ![g] = "set"]
             /\ JobTo(g, job[g].ports, job[g].ports, job[g].began)
    BY <1>5, HasStep
  <2>2. at[g] = "has" /\ evicted' = evicted /\ Known' = Known
    BY <1>5 DEF Has, cache, Known
  <2>3. Others(g)
    BY <1>3, <2>1
  <2>4. Asks(g)
    BY <1>3, <2>1, <2>2 DEF Asks, SameCall, JobTo
  <2>. QED
    BY <1>2, <2>2, <2>3, <2>4 DEF Move
<1>6. ASSUME NEW g \in Receivers, Set(g)
      PROVE  (\A r \in Receivers : Move(r)) /\ Marked
  <2>1. PICK pair \in job[g].left :
          /\ Key(pair) \in unique' /\ evicted \subseteq evicted'
          /\ Known' = Known \cup {Key(pair)}
          /\ JobTo(g, job[g].ports, job[g].left \ {pair}, job[g].began)
          /\ \/ job[g].left \subseteq {pair} /\ at' = [at EXCEPT ![g] = AfterSet]
             \/ at' = [at EXCEPT ![g] = "set"]
    BY <1>6, SetStep
  <2>2. at[g] = "set"
    BY <1>6 DEF Set
  <2>3. Others(g)
    BY <1>3, <2>1
  <2>4. Marks(g)
    BY <1>3, <2>1, <2>2 DEF Marks, SameCall, JobTo
  <2>. QED
    BY <1>2, <2>1, <2>2, <2>3, <2>4 DEF Move
<1>7. ASSUME NEW g \in Receivers, GrabBanner(g)
      PROVE  (\A r \in Receivers : Move(r)) /\ Marked
  <2>1. at[g] = "grab" /\ evicted' = evicted /\ Known' = Known
    BY <1>7 DEF GrabBanner, cache, Known
  <2>2. Others(g)
    BY <1>3, <1>7, GrabStep
  <2>3. GoesOn(g)
    BY <1>3, <1>7, <2>1, GrabStep DEF GoesOn, SameCall, JobTo
  <2>. QED
    BY <1>2, <2>1, <2>2, <2>3 DEF Move
<1>8. ASSUME NEW d \in Deliveries, ProbeCalls(d)
      PROVE  (\A r \in Receivers : Move(r)) /\ Marked
  BY <1>4, <1>8 DEF ProbeCalls, Connected, Answer, cache, Known
<1>9. ASSUME NEW f \in Finishers, FinisherCalls(f)
      PROVE  (\A r \in Receivers : Move(r)) /\ Marked
  <2>1. PICK ip \in todo[f] : Receives(f, Ranged(f, ip))
    BY <1>9 DEF FinisherCalls
  <2>2. Ranged(f, ip) \in SUBSET Pairs
    BY DEF Ranged, PortsOn, TypeOK
  <2>3. at[f] = "received" /\ evicted' = evicted /\ Known' = Known
    BY <1>9 DEF FinisherCalls, NextReceived, cache, Known
  <2>. QED
    BY <1>4, <2>1, <2>2, <2>3
<1>10. ASSUME UNCHANGED <<at, job>> PROVE \A r \in Receivers : Move(r)
  BY <1>10 DEF Move
<1>11. ASSUME UNCHANGED job, NEW g \in Receivers, NEW st, at' = [at EXCEPT ![g] = st],
              st \notin InCall, at[g] \notin InCall, g \in Deliveries => st \notin InWorker
       PROVE  \A r \in Receivers : Move(r)
  BY <1>2, <1>3, <1>11 DEF Move, Outside
<1>12. ASSUME Quiet PROVE (\A r \in Receivers : Move(r)) /\ Marked
  <2>. USE DEF InCall, Turn, Goes
  <2>1. UNCHANGED job /\ evicted' = evicted /\ Known' = Known
    BY <1>12 DEF Quiet, cache, Known
  <2>2. CASE EndScan \/ Verify \/ Summarise
    BY <1>11, <2>1, <2>2 DEF EndScan, Verify, Summarise
  <2>3. CASE Signal
    BY <1>11, <2>1, <2>3 DEF Signal
  <2>4. ASSUME NEW d \in Deliveries, QuietProbe(d) PROVE \A r \in Receivers : Move(r)
    <3>1. \E st \in {"dial", "add", "done"} : at' = [at EXCEPT ![d] = st]
      BY <2>4 DEF QuietProbe, Begin, Record, Return
    <3>2. at[d] \notin InCall
      BY <2>4 DEF QuietProbe, Begin, Connected, Answer, Record, Return
    <3>3. ASSUME NEW st \in {"dial", "add", "done"}, at' = [at EXCEPT ![d] = st]
          PROVE  \A r \in Receivers : Move(r)
      BY <1>11, <2>1, <3>2, <3>3 DEF InWorker
    <3>. QED
      BY <3>1, <3>3
  <2>5. ASSUME NEW f \in Finishers, QuietFinish(f) PROVE \A r \in Receivers : Move(r)
    <3>1. CASE OutputHost(f) \/ GrabService(f)
      BY <1>10, <2>1, <3>1 DEF OutputHost, GrabService
    <3>2. CASE ListHosts(f) \/ (NextReceived(f) /\ Goes(f, "file"))
      BY <1>11, <2>1, <3>2 DEF ListHosts, NextReceived
    <3>3. CASE Create(f) \/ EndOutput(f)
      BY <1>11, <2>1, <3>3 DEF Create, EndOutput, AfterOutput
    <3>. QED
      BY <2>5, <3>1, <3>2, <3>3 DEF QuietFinish
  <2>6. ASSUME NEW g \in Receivers, SetBanner(g) PROVE \A r \in Receivers : Move(r)
    <3>1. Others(g) /\ GoesOn(g)
      BY <1>3, <2>1, <2>6 DEF SetBanner, GoesOn, SameCall
    <3>. QED
      BY <1>2, <3>1 DEF Move
  <2>7. ASSUME NEW g \in Receivers, PrintLines(g) PROVE \A r \in Receivers : Move(r)
    <3>1. Others(g) /\ Prints(g)
      BY <1>3, <2>1, <2>7 DEF PrintLines, Prints
    <3>. QED
      BY <1>2, <3>1 DEF Move
  <2>8. CASE Over
    BY <1>10, <2>1, <2>8 DEF Over, vars
  <2>9. \A r \in Receivers : Move(r)
    BY <1>12, <2>2, <2>3, <2>4, <2>5, <2>6, <2>7, <2>8 DEF Quiet
  <2>. QED
    BY <2>1, <2>9
<1>13. (\A r \in Receivers : Move(r)) /\ Marked
  BY <1>5, <1>6, <1>7, <1>8, <1>9, <1>12, StepKinds
<1>. QED
  BY <1>13

\* What is printed stays, and of each pair of a call that prints there is a line.
LEMMA LinesShown ==
  ASSUME TypeOK, FrameInv, Next
  PROVE  /\ \A key : Shown(key) => Shown(key)'
         /\ \A g \in Receivers :
              Prints(g) /\ ~options.disableStdout =>
                \A pair \in job[g].ports : Shown(Key(pair))'
<1>1. stdout \subseteq stdout'
  BY DEF Next, Probe, OnReceive, Finish, EndScan, Verify, Signal, Summarise, Over,
     Begin, Connected, Answer, Record, Return, Has, Set, GrabBanner, SetBanner, PrintLines,
     ListHosts, NextReceived, Create, OutputHost, GrabService, EndOutput, output, vars
<1>2. ASSUME NEW g \in Receivers, Prints(g), ~options.disableStdout,
             NEW pair \in job[g].ports
      PROVE  Shown(Key(pair))'
  <2>1. pair \in Pairs
    BY DEF FrameInv, Jobs
  <2>2. NamesOf[pair[1]] # {}
    BY <2>1, ReportAssumption DEF Pairs
  <2>3. PICK host \in NamesFor(pair[1], job[g].ports) : TRUE
    BY <2>2 DEF NamesFor
  <2>4. Line(g, host, pair) \in stdout'
    BY <1>2, <2>3 DEF Prints, Lines
  <2>5. Line(g, host, pair).pair = pair
    BY DEF Line
  <2>. QED
    BY <2>4, <2>5 DEF Shown
<1>. QED
  BY <1>1, <1>2 DEF Shown

-----------------------------------------------------------------------------
(* The invariant is inductive: what is marked, and what is found.          *)

\* A goroutine never goes on with a number that was marked before its call.
LEMMA FreshStep ==
  ASSUME TypeOK, FrameInv, FreshInv, Next
  PROVE  FreshInv'
<1>. SUFFICES ASSUME NEW g \in Receivers
     PROVE  /\ job'[g].began \subseteq Known'
            /\ at'[g] = "has" =>
                 \A pair \in job'[g].ports \ job'[g].left : Fresh(g, pair)'
            /\ at'[g] \in Turn => \A pair \in job'[g].ports : Fresh(g, pair)'
  BY DEF FreshInv
<1>1. Move(g) /\ Known \subseteq Known' /\ evicted \subseteq evicted'
  BY Moves
<1>2. CASE Called(g)
  BY <1>1, <1>2 DEF Called, Turn
<1>3. CASE Asks(g)
  <2>1. \A pair : Key(pair) \notin unique => Fresh(g, pair)
    BY DEF FreshInv, Fresh, Known
  <2>2. SameCall(g) /\ \A pair : Fresh(g, pair) => Fresh(g, pair)'
    BY <1>1, <1>3 DEF Asks, SameCall, Fresh
  <2>. QED
    BY <1>1, <1>3, <2>1, <2>2 DEF Asks, SameCall, FreshInv, Turn
<1>4. CASE Marks(g) \/ GoesOn(g)
  BY <1>1, <1>4 DEF Marks, GoesOn, SameCall, FreshInv, Fresh, Turn, AfterSet
<1>5. CASE Prints(g) \/ Outside(g) \/ (at'[g] = at[g] /\ job'[g] = job[g])
  BY <1>1, <1>5 DEF Prints, Outside, InCall, FreshInv, Fresh, Turn
<1>. QED
  BY <1>1, <1>2, <1>3, <1>4, <1>5 DEF Move

\* Who marks a number prints it.
LEMMA MarkedStep ==
  ASSUME TypeOK, FrameInv, MarkedInv, Next
  PROVE  MarkedInv'
<1>. SUFFICES ASSUME Direct', NEW key \in Known', ~Shown(key)'
     PROVE  \E g \in Receivers : InTurn(g, key)'
  BY DEF MarkedInv
<1>1. UNCHANGED options /\ Direct
  BY OptionsStay DEF Direct, Structured
<1>2. ~Shown(key)
  BY LinesShown
<1>3. PICK g \in Receivers : at[g] \in Turn /\ \E pair \in job[g].ports : Key(pair) = key
  <2>1. CASE key \in Known
    BY <1>1, <1>2, <2>1 DEF MarkedInv, InTurn
  <2>2. CASE key \notin Known
    BY <2>2, Moves DEF FrameInv, Turn
  <2>. QED
    BY <2>1, <2>2
<1>4. Move(g)
  BY Moves
<1>5. ~Prints(g)
  BY <1>1, <1>3, LinesShown DEF Direct
<1>6. at'[g] \in Turn /\ job'[g].ports = job[g].ports
  BY <1>1, <1>3, <1>4, <1>5 DEF Move, Called, Asks, Marks, GoesOn, Outside, SameCall,
     InCall, Turn, AfterSet, Direct
<1>. QED
  BY <1>3, <1>6 DEF InTurn

\* The stages of the probes and workers follow the scan.
LEMMA ScanStep ==
  ASSUME TypeOK, FrameInv, ScanInv, Next
  PROVE  ScanInv'
<1>. USE PairFacts
<1>1. DOMAIN at = Receivers /\ UNCHANGED options
  BY OptionsStay DEF TypeOK
<1>2. ASSUME options.sn PROVE found' = {} /\ at'[main] # "verify"
  <2>1. \A d \in Deliveries : at[d] = "idle"
    BY <1>2 DEF ScanInv
  <2>2. found' = {}
    BY <1>2, <2>1 DEF ScanInv, Next, Probe, OnReceive, Finish, EndScan, Verify, Signal,
       Summarise, Over, Begin, Connected, Answer, Record, Return, Has, Set, GrabBanner,
       SetBanner, PrintLines, ListHosts, NextReceived, Create, OutputHost, GrabService,
       EndOutput, AddPort, result, vars
  <2>3. at'[main] # "verify"
    BY <1>1, <1>2 DEF ScanInv, Next, Probe, OnReceive, Finish, EndScan, Verify, Signal,
       Summarise, Over, Begin, Connected, Answer, Record, Return, Has, Set, GrabBanner,
       SetBanner, PrintLines, ListHosts, NextReceived, Create, OutputHost, GrabService,
       EndOutput, Goes, Receives, AfterSet, AfterOutput, vars
  <2>. QED
    BY <2>2, <2>3
<1>3. ASSUME NEW d \in Deliveries
      PROVE  /\ at'[d] = "dial" => ~options.raw
             /\ at'[d] = "add" => options.raw /\ ~Tcp(d)
             /\ at'[d] \in InWorker => IF options.raw THEN Tcp(d) ELSE ~options.verify
             /\ options.sn => at'[d] = "idle"
             /\ at'[main] # "scan" /\ ~options.raw /\ ~options.sn => at'[d] = "done"
  <2>1. d \in Receivers
    OBVIOUS
  <2>2. CASE at'[d] = at[d]
    <3>1. at'[main] # "scan" => at[main] # "scan" \/ ProbesDone
      BY <1>1 DEF Next, Probe, OnReceive, Finish, EndScan, Verify, Signal, Summarise, Over,
         Begin, Connected, Answer, Record, Return, Has, Set, GrabBanner, SetBanner,
         PrintLines, ListHosts, NextReceived, Create, OutputHost, GrabService, EndOutput,
         Goes, Receives, vars
    <3>. QED
      BY <2>2, <3>1 DEF ScanInv, ProbesDone
  <2>3. CASE at'[d] # at[d]
    <3>1. (OnReceive(d) \/ Probe(d)) /\ at'[main] = at[main]
      BY <1>1, <2>1, <2>3 DEF Next, Probe, OnReceive, Finish, EndScan, Verify, Signal,
         Summarise, Over, Begin, Connected, Answer, Record, Return, Has, Set, GrabBanner,
         SetBanner, PrintLines, ListHosts, NextReceived, Create, OutputHost, GrabService,
         EndOutput, Goes, Receives, vars
    <3>2. CASE Begin(d)
      BY <1>1, <2>1, <3>1, <3>2 DEF ScanInv, Begin, Goes, InWorker
    <3>3. CASE Connected(d)
      BY <1>1, <2>1, <3>1, <3>3 DEF ScanInv, Connected, Goes, Receives, InWorker
    <3>4. CASE Answer(d)
      BY <1>1, <2>1, <3>1, <3>4 DEF ScanInv, Answer, Goes, Receives, InWorker
    <3>5. CASE Record(d) \/ Return(d)
      BY <1>1, <2>1, <3>1, <3>5 DEF ScanInv, Record, Return, Goes, InWorker
    <3>6. CASE OnReceive(d)
      BY <1>1, <2>1, <3>1, <3>6 DEF ScanInv, OnReceive, Has, Set, GrabBanner, SetBanner,
         PrintLines, Goes, InWorker, AfterSet
    <3>. QED
      BY <3>1, <3>2, <3>3, <3>4, <3>5, <3>6 DEF Probe
  <2>. QED
    BY <2>2, <2>3
<1>. QED
  BY <1>1, <1>2, <1>3 DEF ScanInv

\* Who adds to what is found: when the scan is over only the workers of a raw
\* scan with -verify; and only Verify takes away.
LEMMA FoundSteps ==
  ASSUME TypeOK, FrameInv, ScanInv, Next
  PROVE  /\ \A pair \in found' : pair \in found \/
              \E d \in Deliveries : PortOf[d] = pair /\ (Connected(d) \/ Record(d))
         /\ \A d \in Deliveries : Record(d) => options.raw
         /\ at[main] = "scan" \/ (options.raw /\ options.verify) \/ found' \subseteq found
         /\ at[main] # "verify" => found \subseteq found'
<1>1. \/ UNCHANGED found \/ Verify
      \/ \E d \in Deliveries : /\ Connected(d) \/ (Record(d) /\ InScan)
                               /\ found' = found \cup {PortOf[d]}
  BY DEF Next, Probe, OnReceive, Finish, EndScan, Signal, Summarise, Over, Begin, Connected,
     Answer, Record, Return, Has, Set, GrabBanner, SetBanner, PrintLines, ListHosts,
     NextReceived, Create, OutputHost, GrabService, EndOutput, AddPort, result, vars
<1>2. Verify => at[main] = "verify" /\ found' \subseteq found
  BY DEF Verify
<1>3. ASSUME NEW d \in Deliveries, Connected(d) PROVE at[main] = "scan"
  BY <1>3 DEF Connected, ScanInv
<1>4. ASSUME NEW d \in Deliveries, Record(d) PROVE options.raw
  BY <1>4 DEF Record, ScanInv
<1>5. CASE UNCHANGED found \/ Verify
  BY <1>2, <1>4, <1>5
<1>6. ASSUME NEW d \in Deliveries, Connected(d) \/ (Record(d) /\ InScan),
             found' = found \cup {PortOf[d]}
      PROVE  at[main] = "scan" \/ (options.raw /\ options.verify)
  BY <1>3, <1>4, <1>6 DEF InScan
<1>. QED
  BY <1>1, <1>4, <1>5, <1>6

\* What a probe or worker hands on it has marked, or is about to.
LEMMA KeyedStep ==
  ASSUME TypeOK, FrameInv, ScanInv, KeyedInv, Next, FrameInv'
  PROVE  KeyedInv'
<1>. USE PairFacts
<1>1. DOMAIN at = Receivers /\ UNCHANGED options /\ Known \subseteq Known'
  BY OptionsStay, Moves DEF TypeOK
<1>2. ASSUME NEW d \in Deliveries, at'[d] \in {"grab", "banner", "print", "received"},
             PortOf[d][1] \in Wanted
      PROVE  Key(PortOf[d]) \in Known'
  <2>1. Move(d)
    BY Moves
  <2>2. at[d] \in InCall => job[d].ports = {PortOf[d]} /\ job[d].left \subseteq {PortOf[d]}
    BY DEF FrameInv, InWorker, InCall, Turn
  <2>3. CASE Called(d)
    BY <1>2, <2>3 DEF Called, FrameInv, InWorker
  <2>4. CASE Asks(d)
    BY <1>1, <1>2, <2>2, <2>4 DEF Asks, InCall, Known
  <2>5. CASE Marks(d)
    BY <1>2, <2>2, <2>5 DEF Marks, InCall, Turn, Known
  <2>6. CASE GoesOn(d) \/ Prints(d) \/ at'[d] = at[d]
    BY <1>1, <1>2, <2>6 DEF GoesOn, Prints, KeyedInv
  <2>7. CASE Outside(d)
    BY <1>2, <2>7 DEF Outside, InWorker
  <2>. QED
    BY <2>1, <2>3, <2>4, <2>5, <2>6, <2>7 DEF Move
<1>3. ASSUME ~options.raw, ~options.verify, NEW pair \in found', pair[1] \in Wanted,
             Key(pair) \notin Known'
      PROVE  \E d \in Deliveries : PortOf[d] = pair /\ at'[d] \in {"has", "set"}
  <2>1. CASE pair \in found
    <3>1. PICK d \in Deliveries : PortOf[d] = pair /\ at[d] \in {"has", "set"}
      BY <1>1, <1>3, <2>1 DEF KeyedInv
    <3>2. job[d].left \subseteq {pair}
      BY <3>1 DEF FrameInv, InWorker
    <3>3. Move(d)
      BY Moves
    <3>4. at'[d] \in {"has", "set"}
      BY <1>1, <1>3, <3>1, <3>2, <3>3 DEF Move, Called, Asks, Marks, GoesOn, Prints,
         Outside, InCall, Turn, Known
    <3>. QED
      BY <3>1, <3>4
  <2>2. CASE pair \notin found
    <3>1. PICK d \in Deliveries : /\ PortOf[d] = pair
                                  /\ Connected(d) \/ Record(d)
      BY <2>2, FoundSteps
    <3>2. ~Record(d)
      BY <1>3 DEF Record, ScanInv
    <3>3. Receives(d, {pair})
      BY <1>3, <3>1, <3>2 DEF Connected
    <3>4. at'[d] = "has"
      BY <1>1, <1>3, <3>3 DEF Receives, Goes
    <3>. QED
      BY <3>1, <3>4
  <2>. QED
    BY <2>1, <2>2
<1>. QED
  BY <1>1, <1>2, <1>3 DEF KeyedInv

\* How main and the handler get on.
LEMMA MainSteps ==
  ASSUME TypeOK, FrameInv, ScanInv, Next
  PROVE  /\ ~Interrupted' => ~Interrupted
         /\ at'[main] # "scan" /\ at[main] = "scan" => ProbesDone /\ EndScan
         /\ at'[main] = "scan" => at[main] = "scan"
<1>. USE PairFacts
<1>1. DOMAIN at = Receivers
  BY DEF TypeOK
<1>2. ~Interrupted' => ~Interrupted
  BY <1>1 DEF Interrupted, Next, Probe, OnReceive, Finish, EndScan, Verify, Signal,
     Summarise, Over, Begin, Connected, Answer, Record, Return, Has, Set, GrabBanner,
     SetBanner, PrintLines, ListHosts, NextReceived, Create, OutputHost, GrabService,
     EndOutput, Goes, Receives, AfterSet, AfterOutput, vars
<1>3. at'[main] # "scan" /\ at[main] = "scan" => ProbesDone /\ EndScan
  BY <1>1 DEF Next, Probe, OnReceive, Finish, EndScan, Verify, Signal,
     Summarise, Over, Begin, Connected, Answer, Record, Return, Has, Set, GrabBanner,
     SetBanner, PrintLines, ListHosts, NextReceived, Create, OutputHost, GrabService,
     EndOutput, Goes, Receives, vars
<1>4. at'[main] = "scan" => at[main] = "scan"
  BY <1>1 DEF Next, Probe, OnReceive, Finish, EndScan, Verify, Signal,
     Summarise, Over, Begin, Connected, Answer, Record, Return, Has, Set, GrabBanner,
     SetBanner, PrintLines, ListHosts, NextReceived, Create, OutputHost, GrabService,
     EndOutput, Goes, Receives, AfterSet, AfterOutput, vars
<1>. QED
  BY <1>2, <1>3, <1>4

\* In a raw scan a port is recorded when the worker has returned from its call,
\* and nobody but main may still be to print the number.
LEMMA RawShownStep ==
  ASSUME TypeOK, FrameInv, ScanInv, MarkedInv, KeyedInv, RawShown, Next
  PROVE  RawShown'
<1>. USE PairFacts
<1>. SUFFICES ASSUME options'.raw, ~Interrupted', Direct', NEW pair \in found',
                     pair[1] \in Wanted, pair[2].proto = "tcp"
              PROVE  Shown(Key(pair))' \/ InTurn(main, Key(pair))'
  BY DEF RawShown
<1>1. options.raw /\ Direct /\ ~Interrupted
  BY OptionsStay, MainSteps DEF Direct, Structured
<1>2. Shown(Key(pair)) \/ InTurn(main, Key(pair))
  <2>1. CASE pair \in found
    BY <1>1, <2>1 DEF RawShown
  <2>2. CASE pair \notin found
    <3>1. PICK d \in Deliveries : PortOf[d] = pair /\ Record(d)
      BY <1>1, <2>2, FoundSteps DEF Connected, ScanInv
    <3>2. Tcp(d) /\ at[d] = "received"
      BY <1>1, <3>1 DEF Record, Tcp, ScanInv
    <3>3. Key(pair) \in Known
      BY <3>1, <3>2 DEF KeyedInv
    <3>4. ASSUME NEW g \in Receivers, InTurn(g, Key(pair)) PROVE g = main
      <4>1. g \notin Deliveries
        BY <1>1, <3>2, <3>4 DEF TypeOK, ScanInv, InWorker, Turn, InTurn
      <4>2. g # handler
        BY <1>1, <3>4 DEF Interrupted, Turn, InTurn
      <4>. QED
        BY <4>1, <4>2 DEF Receivers
    <3>. QED
      BY <1>1, <3>3, <3>4 DEF MarkedInv
  <2>. QED
    BY <2>1, <2>2
<1>3. ASSUME InTurn(main, Key(pair)) PROVE Shown(Key(pair))' \/ InTurn(main, Key(pair))'
  <2>1. Move(main)
    BY Moves
  <2>2. CASE Prints(main)
    BY <1>1, <1>3, <2>2, LinesShown DEF Direct, InTurn
  <2>3. CASE ~Prints(main)
    BY <1>1, <1>3, <2>1, <2>3 DEF Move, Called, Asks, Marks, GoesOn, Outside, SameCall,
       InCall, Turn, AfterSet, Direct, InTurn
  <2>. QED
    BY <2>2, <2>3
<1>. QED
  BY <1>2, <1>3, LinesShown

\* In a connect scan every probe has returned when the scan ends.
LEMMA ConnectShownStep ==
  ASSUME TypeOK, FrameInv, ScanInv, MarkedInv, KeyedInv, ConnectShown, Next
  PROVE  ConnectShown'
<1>. USE PairFacts
<1>. SUFFICES ASSUME ~options'.raw, ~options'.verify, ~Interrupted', Direct',
                     at'[main] # "scan", NEW pair \in found', pair[1] \in Wanted
              PROVE  Shown(Key(pair))'
  BY DEF ConnectShown
<1>1. ~options.raw /\ ~options.verify /\ Direct /\ ~Interrupted
  BY OptionsStay, MainSteps DEF Direct, Structured
<1>2. CASE at[main] # "scan"
  BY <1>1, <1>2, FoundSteps, LinesShown DEF ConnectShown
<1>3. CASE at[main] = "scan"
  <2>1. ProbesDone /\ found' = found
    BY <1>3, MainSteps DEF EndScan, result
  <2>2. ~options.sn /\ \A d \in Deliveries : at[d] = "done"
    BY <1>1, <2>1 DEF ProbesDone, ScanInv
  <2>3. Key(pair) \in Known
    BY <1>1, <2>1, <2>2 DEF KeyedInv
  <2>4. ASSUME NEW g \in Receivers, at[g] \in Turn PROVE FALSE
    BY <1>1, <1>3, <2>2, <2>4 DEF Interrupted, Turn, Receivers
  <2>5. Shown(Key(pair))
    BY <1>1, <2>3, <2>4 DEF MarkedInv, InTurn
  <2>. QED
    BY <2>5, LinesShown
<1>. QED
  BY <1>2, <1>3

-----------------------------------------------------------------------------
(* The invariant is inductive: a connect scan with -verify.                *)

\* How main gets to onReceive with the hosts, and out of it.
BeforeHosts == {"scan", "verify", "results"}
LEMMA MainHosts ==
  ASSUME TypeOK, FrameInv, Next
  PROVE  /\ at'[main] \in BeforeHosts => at[main] \in BeforeHosts
         /\ at[main] \in BeforeHosts =>
              at'[main] \in BeforeHosts \/ ListHosts(main) \/ options.sn
         /\ at[main] \in InWorker => at'[main] \in InWorker \/ todo[main] = {}
         /\ at'[main] \in InWorker =>
              \/ ListHosts(main) \/ FinisherCalls(main)
              \/ /\ at[main] \in InWorker /\ todo'[main] = todo[main]
                 /\ at'[main] \in InCall =>
                      at[main] \in InCall /\ job'[main].ports = job[main].ports
<1>. USE PairFacts
<1>1. DOMAIN at = Receivers /\ DOMAIN todo = Finishers
  BY DEF TypeOK, FrameInv
<1>. DEFINE Stays == at'[main] = at[main] /\ job'[main] = job[main] /\ todo'[main] = todo[main]
<1>. DEFINE Calls == /\ at[main] \in InCall /\ at'[main] \in InWorker
                     /\ todo'[main] = todo[main] /\ job'[main].ports = job[main].ports
<1>2. ASSUME NEW g \in Receivers, Has(g) \/ Set(g) \/ GrabBanner(g)
      PROVE  Stays \/ Calls
  <2>1. UNCHANGED todo /\ at[g] \in InCall
    BY <1>2 DEF Has, Set, GrabBanner, output, InCall, Turn
  <2>2. CASE g = main
    <3>1. at'[main] \in InWorker
      BY <1>1, <1>2, <2>2 DEF Has, Set, GrabBanner, Goes, AfterSet, InWorker
    <3>2. job'[main].ports = job[main].ports
      BY <1>2, <2>2, HasStep, SetStep, GrabStep DEF JobTo
    <3>. QED
      BY <2>1, <2>2, <3>1, <3>2
  <2>3. CASE g # main
    <3>1. at'[main] = at[main]
      BY <1>1, <1>2, <2>3 DEF Has, Set, GrabBanner, Goes
    <3>2. job'[main] = job[main]
      BY <1>2, <2>3, HasStep, SetStep, GrabStep DEF JobTo
    <3>. QED
      BY <2>1, <3>1, <3>2
  <2>. QED
    BY <2>2, <2>3
<1>3. ASSUME NEW d \in Deliveries, ProbeCalls(d) PROVE Stays
  <2>1. UNCHANGED todo
    BY <1>3 DEF ProbeCalls, Connected, Answer, output
  <2>2. at'[main] = at[main] /\ job'[main] = job[main]
    BY <1>1, <1>3, ReceivesStep DEF ProbeCalls, JobTo
  <2>. QED
    BY <2>1, <2>2
<1>4. ASSUME FinisherCalls(handler) PROVE Stays
  <2>1. PICK ip \in todo[handler] : /\ Receives(handler, Ranged(handler, ip))
                                    /\ todo' = [todo EXCEPT ![handler] = @ \ {ip}]
    BY <1>4 DEF FinisherCalls
  <2>2. Ranged(handler, ip) \in SUBSET Pairs
    BY DEF Ranged, PortsOn, TypeOK
  <2>3. at'[main] = at[main] /\ job'[main] = job[main]
    BY <1>1, <2>1, <2>2, ReceivesStep DEF JobTo
  <2>. QED
    BY <1>1, <2>1, <2>3
<1>5. ASSUME FinisherCalls(main)
      PROVE  at[main] = "received" /\ at'[main] \in InWorker
  BY <1>1, <1>5 DEF FinisherCalls, NextReceived, Receives, Goes, InWorker
<1>. DEFINE Passes ==
       \/ Stays \/ Calls
       \/ at[main] \in BeforeHosts /\ at'[main] \in BeforeHosts
       \/ at[main] = "scan" /\ options.sn /\ at'[main] = "file"
       \/ ListHosts(main) /\ at'[main] = "received"
       \/ at[main] = "received" /\ todo[main] = {} /\ at'[main] = "file"
       \/ /\ at[main] \in {"file", "output", "summary"}
          /\ at'[main] \in {"output", "summary", "done"}
<1>6. ASSUME Quiet PROVE Passes
  <2>1. UNCHANGED job
    BY <1>6 DEF Quiet
  <2>2. CASE EndScan \/ Verify \/ Summarise
    BY <1>1, <2>2 DEF EndScan, Verify, Summarise, Goes, BeforeHosts
  <2>3. CASE Signal \/ Over
    BY <1>1, <2>1, <2>3 DEF Signal, Over, Goes, output, vars
  <2>4. ASSUME NEW d \in Deliveries, QuietProbe(d) PROVE Stays
    BY <1>1, <2>1, <2>4 DEF QuietProbe, Begin, Connected, Answer, Record, Return, Goes,
       output
  <2>5. ASSUME NEW f \in Finishers, QuietFinish(f) PROVE Passes
    <3>1. CASE f = main
      <4>1. CASE ListHosts(f) \/ (NextReceived(f) /\ todo[f] = {} /\ Goes(f, "file"))
        BY <1>1, <3>1, <4>1 DEF ListHosts, NextReceived, Goes
      <4>2. CASE Create(f) \/ OutputHost(f) \/ EndOutput(f)
        BY <1>1, <3>1, <4>2 DEF Create, OutputHost, EndOutput, Goes, AfterOutput
      <4>3. CASE GrabService(f)
        BY <2>1, <4>3 DEF GrabService
      <4>. HIDE DEF Passes
      <4>. QED
        BY <2>5, <4>1, <4>2, <4>3 DEF QuietFinish
    <3>2. CASE f # main
      <4>1. UNCHANGED at \/ \E st : at' = [at EXCEPT ![f] = st]
        BY <2>5 DEF QuietFinish, ListHosts, NextReceived, Create, OutputHost, GrabService,
           EndOutput, Goes
      <4>2. UNCHANGED todo \/ \E hosts : todo' = [todo EXCEPT ![f] = hosts]
        BY <2>5 DEF QuietFinish, ListHosts, NextReceived, Create, OutputHost, GrabService,
           EndOutput, output
      <4>3. Stays
        BY <1>1, <2>1, <3>2, <4>1, <4>2
      <4>. QED
        BY <4>3
    <3>. QED
      BY <3>1, <3>2
  <2>6. ASSUME NEW g \in Receivers, SetBanner(g) \/ PrintLines(g) PROVE Stays \/ Calls
    BY <1>1, <2>1, <2>6 DEF SetBanner, PrintLines, Goes, output, InCall, Turn, InWorker
  <2>. QED
    BY <1>6, <2>2, <2>3, <2>4, <2>5, <2>6 DEF Quiet
<1>7. Passes \/ FinisherCalls(main)
  BY <1>2, <1>3, <1>4, <1>6, StepKinds
<1>8. CASE Stays \/ Calls
  BY <1>8 DEF InCall, Turn, InWorker, BeforeHosts
<1>9. CASE Passes /\ ~Stays /\ ~Calls
  <2>. HIDE DEF Stays, Calls
  <2>. QED
    BY <1>9 DEF InCall, Turn, InWorker, BeforeHosts, ListHosts
<1>10. CASE FinisherCalls(main)
  BY <1>5, <1>10 DEF InWorker, BeforeHosts
<1>. QED
  BY <1>7, <1>8, <1>9, <1>10

\* Nobody but main marks a number then.
LEMMA MainMarks ==
  ASSUME TypeOK, FrameInv, ScanInv, Next,
         ~options.raw, options.verify, ~Interrupted
  PROVE  \A key \in Known' \ Known :
           at[main] = "set" /\ \E pair \in job[main].left : key = Key(pair)
<1>. SUFFICES ASSUME NEW key \in Known' \ Known
     PROVE  at[main] = "set" /\ \E pair \in job[main].left : key = Key(pair)
  OBVIOUS
<1>1. PICK g \in Receivers : at[g] = "set" /\ \E pair \in job[g].left : key = Key(pair)
  BY Moves
<1>2. g \notin Deliveries /\ g # handler
  BY <1>1 DEF ScanInv, InWorker, Interrupted
<1>. QED
  BY <1>1, <1>2 DEF Receivers, Finishers

\* Each host is gone through once, so none of its numbers is marked before.
LEMMA VerifyUniqueStep ==
  ASSUME TypeOK, FrameInv, ScanInv, VerifyUnique, Next
  PROVE  VerifyUnique'
<1>. USE PairFacts
<1>. SUFFICES ASSUME ~options'.raw, options'.verify, ~Interrupted'
     PROVE  /\ at'[main] \in BeforeHosts => Known' = {}
            /\ at'[main] \in InWorker =>
                 /\ \A key \in Known' : key[1] \notin todo'[main]
                 /\ at'[main] = "has" =>
                      \A key \in Known' : \A pair \in job'[main].ports : key[1] # pair[1]
                 /\ at'[main] \in InCall =>
                      \A pair \in job'[main].ports : pair[1] \notin todo'[main]
  BY DEF VerifyUnique, BeforeHosts
<1>1. ~options.raw /\ options.verify /\ ~Interrupted
  BY OptionsStay, MainSteps
<1>2. /\ at[main] \in BeforeHosts => Known = {}
      /\ at[main] \in InWorker =>
           /\ \A key \in Known : key[1] \notin todo[main]
           /\ at[main] = "has" =>
                \A key \in Known : \A pair \in job[main].ports : key[1] # pair[1]
           /\ at[main] \in InCall => \A pair \in job[main].ports : pair[1] \notin todo[main]
  BY <1>1 DEF VerifyUnique, BeforeHosts
<1>3. ASSUME at[main] # "set" PROVE Known' = Known
  BY <1>1, <1>3, MainMarks, Moves
<1>4. at'[main] \in BeforeHosts => Known' = {}
  BY <1>2, <1>3, MainHosts DEF BeforeHosts
<1>5. CASE ListHosts(main)
  <2>1. Known' = {} /\ at'[main] = "received"
    BY <1>2, <1>3, <1>5 DEF ListHosts, Goes, TypeOK, BeforeHosts
  <2>. QED
    BY <2>1 DEF InCall, Turn, BeforeHosts
<1>6. CASE FinisherCalls(main)
  <2>1. PICK ip \in todo[main] : /\ Receives(main, Ranged(main, ip))
                                 /\ todo' = [todo EXCEPT ![main] = @ \ {ip}]
    BY <1>6 DEF FinisherCalls
  <2>2. Ranged(main, ip) \in SUBSET Pairs /\ \A pair \in Ranged(main, ip) : pair[1] = ip
    BY DEF Ranged, PortsOn, TypeOK
  <2>3. job'[main].ports = Ranged(main, ip)
    BY <2>1, <2>2, ReceivesStep DEF JobTo
  <2>4. at[main] = "received" /\ Known' = Known
    BY <1>6 DEF FinisherCalls, NextReceived, cache, Known
  <2>5. todo'[main] = todo[main] \ {ip}
    BY <2>1 DEF FrameInv
  <2>. QED
    BY <1>2, <1>4, <2>2, <2>3, <2>4, <2>5 DEF InWorker
<1>7. CASE /\ at[main] \in InWorker /\ todo'[main] = todo[main]
           /\ at'[main] \in InCall =>
                at[main] \in InCall /\ job'[main].ports = job[main].ports
  <2>1. ASSUME NEW key \in Known' PROVE key[1] \notin todo'[main]
    <3>1. CASE key \in Known
      BY <1>2, <1>7, <3>1
    <3>2. CASE key \notin Known
      <4>1. PICK pair \in job[main].left : at[main] = "set" /\ key = Key(pair)
        BY <1>1, <3>2, MainMarks
      <4>2. pair \in job[main].ports /\ pair \in Pairs
        BY DEF FrameInv, Jobs
      <4>. QED
        BY <1>2, <1>7, <4>1, <4>2 DEF InCall, Turn
    <3>. QED
      BY <3>1, <3>2
  <2>2. at'[main] \in InCall => \A pair \in job'[main].ports : pair[1] \notin todo'[main]
    BY <1>2, <1>7
  <2>3. ASSUME at'[main] = "has"
        PROVE  \A key \in Known' : \A pair \in job'[main].ports : key[1] # pair[1]
    <3>1. at[main] \in InCall /\ job'[main].ports = job[main].ports
      BY <1>7, <2>3 DEF InCall
    <3>2. at[main] = "has"
      BY <2>3, <3>1, Moves DEF Move, Called, Asks, Marks, GoesOn, Prints, Outside, AfterSet
    <3>. QED
      BY <1>2, <1>3, <1>7, <3>1, <3>2
  <2>. QED
    BY <1>4, <2>1, <2>2, <2>3
<1>. QED
  BY <1>4, <1>5, <1>6, <1>7, MainHosts

\* So the ports of every host are printed when main comes to them.
LEMMA VerifyShownStep ==
  ASSUME TypeOK, FrameInv, ScanInv, SnapshotInv, VerifyUnique, VerifyShown, Next, ScanInv'
  PROVE  VerifyShown'
<1>. USE PairFacts
<1>. SUFFICES ASSUME ~options'.raw, options'.verify, ~Interrupted', Direct',
                     at'[main] \notin BeforeHosts, NEW pair \in found', pair[1] \in Wanted
     PROVE  \/ at'[main] \in InWorker /\ pair[1] \in todo'[main]
            \/ at'[main] \in InCall /\ pair \in job'[main].ports
            \/ Shown(Key(pair))'
  BY DEF VerifyShown, BeforeHosts
<1>1. ~options.raw /\ options.verify /\ Direct /\ ~Interrupted /\ UNCHANGED options
  BY OptionsStay, MainSteps DEF Direct, Structured
<1>2. CASE at[main] \in BeforeHosts
  <2>1. ~options.sn
    BY <1>1 DEF ScanInv
  <2>2. ListHosts(main)
    BY <1>2, <2>1, MainHosts
  <2>3. at'[main] = "received" /\ todo'[main] = HostsOf(found) /\ found' = found
    BY <1>1, <2>2 DEF ListHosts, Goes, TypeOK, FrameInv, result
  <2>. QED
    BY <2>3 DEF HostsOf, InWorker
<1>3. CASE at[main] \notin BeforeHosts
  <2>1. found' = found
    BY <1>1, <1>3, FoundSteps DEF BeforeHosts
  <2>2. \/ at[main] \in InWorker /\ pair[1] \in todo[main]
        \/ at[main] \in InCall /\ pair \in job[main].ports
        \/ Shown(Key(pair))
    BY <1>1, <1>3, <2>1 DEF VerifyShown, BeforeHosts
  <2>3. CASE at[main] \in InWorker /\ pair[1] \in todo[main]
    <3>1. at'[main] \in InWorker
      BY <2>3, MainHosts
    <3>2. snapshot[main].ports = found
      BY <1>1, <1>3 DEF SnapshotInv, BeforeHosts
    <3>3. CASE FinisherCalls(main)
      <4>1. PICK ip \in todo[main] : /\ Receives(main, Ranged(main, ip))
                                     /\ todo' = [todo EXCEPT ![main] = @ \ {ip}]
        BY <3>3 DEF FinisherCalls
      <4>2. Ranged(main, ip) \in SUBSET Pairs /\ \A p \in Ranged(main, ip) : p[1] = ip
        BY DEF Ranged, PortsOn, TypeOK
      <4>3. /\ job'[main].ports = Ranged(main, ip)
            /\ at' = [at EXCEPT ![main] = IF \E p \in Ranged(main, ip) : p[1] \notin Wanted
                                          THEN "received" ELSE "has"]
        BY <4>1, <4>2, ReceivesStep DEF JobTo
      <4>4. CASE ip = pair[1]
        BY <2>1, <3>2, <4>2, <4>3, <4>4 DEF Ranged, PortsOn, InCall, TypeOK
      <4>5. CASE ip # pair[1]
        BY <2>3, <3>1, <4>1, <4>5 DEF FrameInv
      <4>. QED
        BY <4>4, <4>5
    <3>4. CASE ListHosts(main)
      BY <2>3, <3>4 DEF ListHosts, InWorker
    <3>. QED
      BY <2>3, <3>1, <3>3, <3>4, MainHosts
  <2>4. CASE at[main] \in InCall /\ pair \in job[main].ports
    <3>1. Move(main)
      BY Moves
    <3>2. CASE Asks(main)
      <4>1. \A p \in job[main].left : p \in Pairs /\ p \in job[main].ports
        BY DEF FrameInv, Jobs
      <4>2. \A p \in job[main].left : Key(p) \notin Known
        BY <1>1, <3>2, <4>1 DEF Asks, VerifyUnique, InWorker
      <4>. QED
        BY <2>4, <3>2, <4>2 DEF Asks, SameCall, InCall, Turn, Known
    <3>3. CASE Marks(main)
      BY <1>1, <2>4, <3>3 DEF Marks, SameCall, InCall, Turn, AfterSet, Direct
    <3>4. CASE Prints(main)
      BY <1>1, <2>4, <3>4, LinesShown DEF Direct
    <3>5. CASE GoesOn(main) \/ (at'[main] = at[main] /\ job'[main] = job[main])
      BY <2>4, <3>5 DEF GoesOn, SameCall, InCall, Turn
    <3>. QED
      BY <2>4, <3>1, <3>2, <3>3, <3>4, <3>5 DEF Move, Called, Outside
  <2>5. CASE Shown(Key(pair))
    BY <2>5, LinesShown
  <2>. QED
    BY <2>2, <2>3, <2>4, <2>5
<1>. QED
  BY <1>2, <1>3

\* Main goes over what it has found then, in both of its range loops.
LEMMA SnapshotStep ==
  ASSUME TypeOK, FrameInv, ScanInv, SnapshotInv, Next, ScanInv'
  PROVE  SnapshotInv'
<1>. USE PairFacts
<1>1. DOMAIN snapshot = Finishers /\ DOMAIN at = Receivers /\ UNCHANGED options
  BY OptionsStay DEF TypeOK
<1>2. ASSUME NEW f \in Finishers, Ranges(f)
      PROVE  snapshot'[f].ports = found /\ (f # main => snapshot'[main] = snapshot[main])
  BY <1>1, <1>2 DEF Ranges
<1>3. CASE /\ ListHosts(main) \/ Create(main)
           /\ Ranges(main) /\ UNCHANGED <<found, objects>>
  <2>1. at'[main] \notin BeforeHosts
    BY <1>1, <1>3 DEF ListHosts, Create, Goes, BeforeHosts, AfterOutput
  <2>. QED
    BY <1>2, <1>3, <2>1 DEF SnapshotInv, BeforeHosts
<1>4. CASE snapshot'[main] = snapshot[main] /\ ~ListHosts(main)
  <2>1. CASE at[main] \in BeforeHosts /\ at'[main] \in BeforeHosts
    BY <1>4, <2>1 DEF SnapshotInv, BeforeHosts
  <2>2. CASE at[main] \in BeforeHosts /\ at'[main] \notin BeforeHosts
    <3>1. found' = {}
      BY <1>1, <1>4, <2>2, MainHosts DEF ScanInv
    <3>. QED
      BY <1>4, <2>2, <3>1 DEF SnapshotInv, BeforeHosts
  <2>3. CASE at[main] \notin BeforeHosts
    <3>1. at'[main] \notin BeforeHosts
      BY <2>3, MainHosts
    <3>2. found \subseteq found' /\ ((options.raw /\ options.verify) \/ found' = found)
      BY <2>3, FoundSteps DEF BeforeHosts
    <3>. QED
      BY <1>1, <1>4, <2>3, <3>1, <3>2 DEF SnapshotInv, BeforeHosts
  <2>. QED
    BY <2>1, <2>2, <2>3
<1>5. ListHosts(main) => Ranges(main) /\ UNCHANGED <<found, objects>>
  BY DEF ListHosts, result
<1>. QED
  BY <1>2, <1>3, <1>4, <1>5, PortsKept

-----------------------------------------------------------------------------
(* The invariant is inductive: the output, and the banners in it.          *)

\* What the steps of handleOutput leave alone, as long as main runs it alone.
Writing == {"output", "summary", "done"}
LEMMA OutputSteps ==
  ASSUME TypeOK, FrameInv, Next, ~Interrupted
  PROVE  /\ findings \subseteq findings' /\ told \subseteq told'
         /\ at[main] # "file" => file \subseteq file'
         /\ at'[main] \in Writing => at[main] \in Writing \/ Create(main)
         /\ at[main] = "output" => at'[main] = "output" \/ todo[main] = {}
         /\ at[main] = "output" => OutputHost(main) \/ todo'[main] = todo[main]
         /\ OutputHost(main) \/ GrabService(main) \/ grabs'[main] = grabs[main]
         /\ at[main] \in Writing => UNCHANGED snapshot
<1>. USE PairFacts
<1>. USE DEF output, vars
<1>1. /\ DOMAIN at = Receivers /\ DOMAIN todo = Finishers /\ DOMAIN grabs = Finishers
      /\ at[handler] = "off"
  BY DEF TypeOK, FrameInv, Interrupted
<1>2. ASSUME NEW f \in Finishers, OutputHost(f) PROVE OutputHost(main)
  <2>1. f = main
    BY <1>1, <1>2 DEF OutputHost
  <2>. QED
    BY <1>2, <2>1, Zenon
<1>3. findings \subseteq findings' /\ told \subseteq told'
  BY DEF Next, Probe, OnReceive, Finish, EndScan, Verify, Signal, Summarise, Over, Begin,
     Connected, Answer, Record, Return, Has, Set, GrabBanner, SetBanner, PrintLines,
     ListHosts, NextReceived, Create, OutputHost, GrabService, EndOutput
<1>4. ASSUME at[main] # "file" PROVE file \subseteq file'
  <2>1. ~\E f \in Finishers : Create(f)
    BY <1>1, <1>4 DEF Create
  <2>. QED
    BY <2>1 DEF Next, Probe, OnReceive, Finish, EndScan, Verify, Signal, Summarise, Over,
       Begin, Connected, Answer, Record, Return, Has, Set, GrabBanner, SetBanner,
       PrintLines, ListHosts, NextReceived, OutputHost, GrabService, EndOutput
<1>5. ASSUME at'[main] \in Writing, at[main] \notin Writing PROVE Create(main)
  <2>1. ~\E f \in Finishers : OutputHost(f) \/ EndOutput(f)
    BY <1>1, <1>5 DEF OutputHost, EndOutput, Writing
  <2>2. \E f \in Finishers : Create(f)
    BY <1>1, <1>5, <2>1 DEF Writing, Next, Probe, OnReceive, Finish, EndScan, Verify,
       Signal, Summarise, Over, Begin, Connected, Answer, Record, Return, Has, Set,
       GrabBanner, SetBanner, PrintLines, ListHosts, NextReceived, GrabService,
       Goes, Receives, AfterSet
  <2>. QED
    BY <1>1, <2>2 DEF Create
<1>6. ASSUME at[main] = "output" PROVE at'[main] = "output" \/ todo[main] = {}
  <2>1. CASE \E f \in Finishers : EndOutput(f)
    BY <1>1, <2>1 DEF EndOutput
  <2>. QED
    BY <1>1, <1>6, <2>1 DEF Next, Probe, OnReceive, Finish, EndScan, Verify,
       Signal, Summarise, Over, Begin, Connected, Answer, Record, Return, Has, Set,
       GrabBanner, SetBanner, PrintLines, ListHosts, NextReceived, Create, OutputHost,
       GrabService, Goes, Receives, AfterSet
<1>7. ASSUME at[main] = "output" PROVE OutputHost(main) \/ todo'[main] = todo[main]
  <2>1. CASE UNCHANGED todo
    BY <2>1
  <2>2. CASE ~UNCHANGED todo
    <3>1. \E f \in Finishers : OutputHost(f)
      BY <1>1, <1>7, <2>2 DEF Next, Probe, OnReceive, Finish, EndScan, Verify,
         Signal, Summarise, Over, Begin, Connected, Answer, Record, Return, Has, Set,
         GrabBanner, SetBanner, PrintLines, ListHosts, NextReceived, Create, GrabService,
         EndOutput
    <3>. QED
      BY <1>2, <3>1
  <2>. QED
    BY <2>1, <2>2
<1>8. OutputHost(main) \/ GrabService(main) \/ grabs'[main] = grabs[main]
  <2>1. CASE UNCHANGED grabs
    BY <2>1
  <2>2. ASSUME NEW f \in Finishers, OutputHost(f)
        PROVE  OutputHost(main)
    BY <1>2, <2>2
  <2>3. ASSUME NEW f \in Finishers, GrabService(f)
        PROVE  GrabService(main) \/ grabs'[main] = grabs[main]
    BY <1>1, <2>3 DEF GrabService
  <2>. QED
    BY <2>1, <2>2, <2>3 DEF Next, Probe, OnReceive, Finish, EndScan, Verify, Signal,
       Summarise, Over, Begin, Connected, Answer, Record, Return, Has, Set, GrabBanner,
       SetBanner, PrintLines, ListHosts, NextReceived, Create, EndOutput
<1>9. ASSUME at[main] \in Writing PROVE UNCHANGED snapshot
  <2>1. ~\E f \in Finishers : ListHosts(f) \/ Create(f)
    BY <1>1, <1>9 DEF ListHosts, Create, Writing
  <2>. QED
    BY <2>1, PortsKept
<1>. QED
  BY <1>3, <1>4, <1>5, <1>6, <1>7, <1>8, <1>9

\* A name of a host is worked on with every port of it, and its callback is
\* waited for.
LEMMA OutputStep ==
  ASSUME TypeOK, FrameInv, ScanInv, OutputInv, Next
  PROVE  OutputInv'
<1>. USE PairFacts
<1>1. DOMAIN at = Receivers /\ DOMAIN todo = Finishers /\ DOMAIN grabs = Finishers
      /\ UNCHANGED options
  BY OptionsStay DEF TypeOK, FrameInv
<1>2. ASSUME at'[main] = "done" PROVE summary' = findings'
  <2>1. CASE Summarise
    BY <2>1 DEF Summarise
  <2>2. CASE ~Summarise
    <3>1. at[main] = "done"
      BY <1>1, <1>2, <2>2 DEF Next, Probe, OnReceive, Finish, EndScan, Verify, Signal,
         Over, Begin, Connected, Answer, Record, Return, Has, Set, GrabBanner, SetBanner,
         PrintLines, ListHosts, NextReceived, Create, OutputHost, GrabService, EndOutput,
         Goes, Receives, AfterSet, AfterOutput, vars
    <3>2. UNCHANGED <<summary, findings>>
      BY <3>1 DEF Ended, Next, Probe, OnReceive, Finish, EndScan, Verify, Signal, Summarise,
         Over, Begin, Connected, Answer, Record, Return, Has, Set, GrabBanner, SetBanner,
         PrintLines, ListHosts, NextReceived, Create, OutputHost, GrabService, EndOutput,
         Goes, vars, output
    <3>. QED
      BY <3>1, <3>2 DEF OutputInv
  <2>. QED
    BY <2>1, <2>2
<1>3. ASSUME ~Interrupted', options.file # "bad", at'[main] \in Writing,
             NEW pair \in snapshot'[main].ports, pair[1] \in Wanted,
             NEW host \in NamesFor(pair[1], Ranged(main, pair[1])')
      PROVE  \/ at'[main] = "output" /\ <<pair[1], host>> \in todo'[main]
             \/ Written(host, pair)'
  <2>1. ~Interrupted
    BY <1>3, MainSteps
  <2>2. CASE at[main] \in Writing
    <3>1. snapshot' = snapshot
      BY <2>1, <2>2, OutputSteps
    <3>2. host \in NamesFor(pair[1], Ranged(main, pair[1]))
      BY <3>1 DEF Ranged, PortsOn
    <3>3. \/ at[main] = "output" /\ <<pair[1], host>> \in todo[main]
          \/ Written(host, pair)
      BY <1>3, <2>1, <2>2, <3>1, <3>2 DEF OutputInv, Writing
    <3>4. CASE OutputHost(main)
      <4>1. AllGrabbed(main) /\ UNCHANGED <<at, findings>>
        BY <3>4 DEF OutputHost
      <4>2. PICK entry \in todo[main] :
              /\ todo' = [todo EXCEPT ![main] = @ \ {entry}]
              /\ Ranged(main, entry[1]) # {} => LET
                   lines == {Line(main, entry[2], p) : p \in Ranged(main, entry[1])}
                   IN  /\ Repeats => lines \subseteq stdout'
                       /\ options.file = "good" => lines \subseteq file'
              /\ grabs' = [grabs EXCEPT ![main] = IF Enhanced
                   THEN {<<entry[2], p>> : p \in Ranged(main, entry[1])} ELSE {}]
              /\ told' = IF Enhanced THEN told
                         ELSE told \cup {<<entry[2], p>> : p \in Ranged(main, entry[1])}
        BY <3>4 DEF OutputHost
      <4>3. CASE entry = <<pair[1], host>>
        <5>1. entry[1] = pair[1] /\ entry[2] = host /\ pair \in Ranged(main, entry[1])
          BY <3>1, <4>3 DEF Ranged, PortsOn
        <5>2. Line(main, host, pair).pair = pair
          BY DEF Line
        <5>3. Repeats' => Shown(Key(pair))'
          BY <1>1, <4>2, <5>1, <5>2 DEF Shown, Repeats
        <5>4. options'.file = "good" => \E line \in file' : line.pair = pair
          BY <1>1, <4>2, <5>1, <5>2
        <5>5. IF Enhanced' THEN <<host, pair>> \in grabs'[main] ELSE <<host, pair>> \in told'
          BY <1>1, <4>2, <5>1 DEF Enhanced
        <5>. QED
          BY <5>3, <5>4, <5>5 DEF Written
      <4>4. CASE entry # <<pair[1], host>> /\ at[main] = "output"
                   /\ <<pair[1], host>> \in todo[main]
        BY <1>1, <4>1, <4>2, <4>4
      <4>5. CASE Written(host, pair)
        <5>1. file \subseteq file' /\ told \subseteq told' /\ grabs[main] = {}
          BY <2>1, <2>2, <4>1, OutputSteps DEF Writing, AllGrabbed
        <5>. QED
          BY <1>1, <4>1, <4>5, <5>1, LinesShown DEF Written, Repeats, Enhanced
      <4>. QED
        BY <3>3, <4>3, <4>4, <4>5
    <3>5. CASE ~OutputHost(main)
      <4>1. CASE at[main] = "output" /\ <<pair[1], host>> \in todo[main]
        BY <2>1, <3>5, <4>1, OutputSteps
      <4>2. CASE Written(host, pair)
        <5>1. file \subseteq file' /\ findings \subseteq findings' /\ told \subseteq told'
          BY <2>1, <2>2, OutputSteps DEF Writing
        <5>2. ASSUME <<host, pair>> \in grabs[main]
              PROVE  \/ <<host, pair>> \in grabs'[main]
                     \/ <<host, pair>> \in told' /\ FindingsOf(host, pair) \subseteq findings'
          <6>1. CASE GrabService(main)
            <7>1. PICK grab \in grabs[main] :
                    /\ told' = told \cup {grab}
                    /\ findings' = findings \cup FindingsOf(grab[1], grab[2])
                    /\ grabs' = [grabs EXCEPT ![main] = @ \ {grab}]
              BY <6>1 DEF GrabService
            <7>. QED
              BY <1>1, <5>2, <7>1
          <6>. QED
            BY <2>1, <3>5, <5>2, <6>1, OutputSteps
        <5>. QED
          BY <1>1, <4>2, <5>1, <5>2, LinesShown DEF Written, Repeats, Enhanced
      <4>. QED
        BY <3>3, <4>1, <4>2
    <3>. QED
      BY <3>4, <3>5
  <2>3. CASE at[main] \notin Writing
    <3>1. Create(main)
      BY <1>3, <2>1, <2>3, OutputSteps
    <3>2. at'[main] = "output" /\ todo'[main] = Named(main) /\ snapshot'[main].ports = found
      BY <1>1, <1>3, <3>1 DEF Create, Ranges, Goes, TypeOK
    <3>3. /\ host \in NamesFor(pair[1], PortsOn(found, pair[1]))
          /\ pair[1] \in HostsOf(found) \cap Wanted /\ found # {}
      BY <1>3, <3>2 DEF Ranged, PortsOn, HostsOf
    <3>4. <<pair[1], host>> \in Named(main)
      BY <3>2, <3>3 DEF Named
    <3>. QED
      BY <3>2, <3>4
  <2>. QED
    BY <2>2, <2>3
<1>. QED
  BY <1>1, <1>2, <1>3 DEF OutputInv, Writing

\* What a banner may be of, next to that of the pair itself.
Shares(line, said) ==
  /\ ~options.raw /\ said[2] = line.pair[2] /\ line.by \notin WithPort
  /\ InRange(said) /\ InRange(line.pair)

\* A Port has the banner of the pair that is written, or of one that shares it.
LEMMA LineBanners ==
  ASSUME TypeOK, FrameInv, ObjectsInv, NEW g \in Receivers, NEW host, NEW pair \in Pairs,
         g \in Deliveries => pair = PortOf[g],
         NEW said \in Line(g, host, pair).banner
  PROVE  said = pair \/ Shares(Line(g, host, pair), said)
<1>. USE PairFacts
<1>1. Line(g, host, pair).by = g /\ Line(g, host, pair).pair = pair
  BY DEF Line
<1>2. PICK b \in banners : b[1] = Held(g)[pair] /\ said = b[2]
  BY DEF Line
<1>3. PICK d \in Deliveries : PortOf[d] = said /\ b[1] = PortObject(d)
  BY <1>2 DEF ObjectsInv, OfPair
<1>4. PICK e \in Deliveries : PortOf[e] = pair /\ b[1] = PortObject(e)
  BY <1>2, HeldOfPair DEF OfPair
<1>5. said[2] = pair[2] /\ (options.raw \/ d \in WithPort \/ e \in WithPort => d = e)
  BY <1>3, <1>4, PortObjects
<1>6. ASSUME g \in WithPort PROVE said = pair
  <2>1. PortObject(d) = PortObject(g)
    BY <1>2, <1>3, <1>6, HeldOfPair
  <2>. QED
    BY <1>3, <1>6, <2>1, PortObjects
<1>7. CASE d = e
  BY <1>3, <1>4, <1>7
<1>8. CASE d # e
  <2>1. InRange(said) /\ InRange(pair) /\ ~options.raw
    BY <1>3, <1>4, <1>5, <1>8 DEF InRange
  <2>. QED
    BY <1>1, <1>5, <1>6, <2>1 DEF Shares
<1>. QED
  BY <1>7, <1>8

\* So a line has no banner of another service but one with the same Port.
LEMMA BannersStep ==
  ASSUME TypeOK, FrameInv, ObjectsInv, BannersMixOnlyIfShared, Next
  PROVE  BannersMixOnlyIfShared'
<1>. USE PairFacts
<1>. DEFINE Fine(line) ==
       \A pair \in line.banner : pair = line.pair \/ Shares(line, pair)
<1>1. \A line \in stdout \cup file : Fine(line)
  BY DEF BannersMixOnlyIfShared, Shares
<1>2. ASSUME NEW g \in Receivers, NEW host, NEW pair \in Pairs,
             g \in Deliveries => pair = PortOf[g]
      PROVE  Fine(Line(g, host, pair))
  <2>1. Line(g, host, pair).pair = pair
    BY DEF Line
  <2>. QED
    BY <1>2, <2>1, LineBanners
<1>3. ASSUME NEW line \in stdout' \cup file' PROVE Fine(line)
  <2>. HIDE DEF Fine
  <2>1. CASE line \in stdout \cup file
    BY <1>1, <2>1
  <2>2. CASE line \notin stdout \cup file
    <3>1. ASSUME NEW g \in Receivers, PrintLines(g) PROVE Fine(line)
      <4>1. /\ line \in Lines(g, job[g].ports) /\ job[g].ports \in SUBSET Pairs
            /\ g \in Deliveries => job[g].ports = {PortOf[g]}
        BY <2>2, <3>1 DEF PrintLines, FrameInv, Jobs, InWorker
      <4>2. PICK pair \in job[g].ports : \E host : line = Line(g, host, pair)
        BY <4>1 DEF Lines
      <4>3. pair \in Pairs /\ (g \in Deliveries => pair = PortOf[g])
        BY <4>1
      <4>. QED
        BY <1>2, <4>2, <4>3
    <3>2. ASSUME NEW f \in Finishers, OutputHost(f) PROVE Fine(line)
      <4>1. PICK entry \in todo[f] :
              \/ line = [by |-> f, host |-> entry[2], pair |-> <<entry[1]>>, banner |-> {}]
              \/ line \in {Line(f, entry[2], pair) : pair \in Ranged(f, entry[1])}
        BY <2>2, <3>2 DEF OutputHost
      <4>2. Ranged(f, entry[1]) \subseteq Pairs /\ f \in Receivers /\ f \notin Deliveries
        BY DEF Ranged, PortsOn, TypeOK
      <4>3. CASE line \in {Line(f, entry[2], pair) : pair \in Ranged(f, entry[1])}
        <5>1. \E pair \in Pairs : line = Line(f, entry[2], pair)
          BY <4>2, <4>3
        <5>. QED
          BY <1>2, <4>2, <5>1
      <4>4. CASE line = [by |-> f, host |-> entry[2], pair |-> <<entry[1]>>, banner |-> {}]
        BY <4>4 DEF Fine
      <4>. QED
        BY <4>1, <4>3, <4>4
    <3>. QED
      BY <2>2, <3>1, <3>2 DEF Next, Probe, OnReceive, Finish, EndScan, Verify, Signal,
         Summarise, Over, Begin, Connected, Answer, Record, Return, Has, Set, GrabBanner,
         SetBanner, ListHosts, NextReceived, Create, GrabService, EndOutput, output, vars
  <2>. QED
    BY <2>1, <2>2
<1>. QED
  BY <1>3, OptionsStay DEF BannersMixOnlyIfShared, Shares, InRange

-----------------------------------------------------------------------------
(* The theorems.                                                           *)

\* A run begins in the invariant ...
LEMMA ReportInit == Init => ReportInv
<1>. SUFFICES ASSUME Init PROVE ReportInv
  OBVIOUS
<1>. USE PairFacts DEF Init
<1>1. /\ at \in [Receivers -> {"scan", "off", "idle"}]
      /\ at[main] = "scan" /\ at[handler] = "off" /\ \A d \in Deliveries : at[d] = "idle"
  OBVIOUS
<1>2. /\ AnyObjects \in [Pairs -> Objects]
      /\ \A pair \in Pairs : OfPair(AnyObjects[pair], pair)
  <2>1. ASSUME NEW pair \in Pairs
        PROVE  AnyObjects[pair] \in Objects /\ OfPair(AnyObjects[pair], pair)
    <3>. DEFINE first == CHOOSE d \in Deliveries : PortOf[d] = pair
    <3>1. first \in Deliveries /\ PortOf[first] = pair
      BY DEF Pairs
    <3>2. AnyObjects[pair] = PortObject(first)
      BY DEF AnyObjects
    <3>. HIDE DEF first
    <3>. QED
      BY <3>1, <3>2 DEF Objects, OfPair
  <2>. QED
    BY <2>1 DEF AnyObjects
<1>. HIDE DEF AnyObjects
<1>3. TypeOK
  BY <1>2, <1>1 DEF TypeOK, InWorker
<1>4. FrameInv
  <2>1. NoJob \in Jobs /\ NoJob.ports = {} /\ NoJob.left = {}
    BY DEF NoJob, Jobs
  <2>. QED
    BY <1>1, <2>1 DEF FrameInv, InWorker
<1>5. FreshInv
  BY <1>1 DEF FreshInv, Turn, NoJob
<1>6. ObjectsInv /\ SnapshotInv
  BY <1>2, <1>1 DEF ObjectsInv, SnapshotInv
<1>7. ScanInv /\ MarkedInv /\ KeyedInv
  BY <1>1 DEF ScanInv, MarkedInv, KeyedInv, InWorker, Known
<1>8. RawShown /\ ConnectShown /\ VerifyUnique /\ VerifyShown
  BY <1>1 DEF RawShown, ConnectShown, VerifyUnique, VerifyShown, InWorker, Known
<1>9. OutputInv /\ BannersMixOnlyIfShared
  BY <1>1 DEF OutputInv, BannersMixOnlyIfShared
<1>. QED
  BY <1>3, <1>4, <1>5, <1>7, <1>8, <1>9, <1>6 DEF ReportInv

\* ... and stays in it.
LEMMA ReportStep == ReportInv /\ [Next]_vars => ReportInv'
<1>1. ASSUME ReportInv, Next PROVE ReportInv'
  <2>1. FrameInv' /\ FreshInv' /\ ScanInv' /\ MarkedInv'
    BY <1>1, FrameStep, FreshStep, ScanStep, MarkedStep DEF ReportInv
  <2>2. ObjectsInv' /\ SnapshotInv'
    BY <1>1, <2>1, ObjectsStep, SnapshotStep DEF ReportInv
  <2>3. TypeOK' /\ KeyedInv' /\ RawShown' /\ ConnectShown'
    BY <1>1, <2>1, TypeStep, KeyedStep, RawShownStep, ConnectShownStep DEF ReportInv
  <2>4. VerifyUnique' /\ VerifyShown'
    BY <1>1, <2>1, VerifyUniqueStep, VerifyShownStep DEF ReportInv
  <2>5. OutputInv' /\ BannersMixOnlyIfShared'
    BY <1>1, OutputStep, BannersStep DEF ReportInv
  <2>. QED
    BY <2>1, <2>3, <2>4, <2>5, <2>2 DEF ReportInv
<1>2. ASSUME ReportInv, UNCHANGED vars PROVE ReportInv'
  <2>. USE <1>2 DEF ReportInv, vars, cache, result, output, Known
  <2>1. Objects' = Objects /\ \A object, pair : OfPair(object, pair)' <=> OfPair(object, pair)
    BY DEF Objects, OfPair, PortObject
  <2>2. TypeOK'
    BY <2>1 DEF TypeOK
  <2>3. FrameInv' /\ FreshInv'
    BY DEF FrameInv, FreshInv, Fresh
  <2>4. BannersMixOnlyIfShared' /\ SnapshotInv'
    BY DEF BannersMixOnlyIfShared, SnapshotInv
  <2>5. ObjectsInv'
    BY <2>1 DEF ObjectsInv
  <2>6. ScanInv' /\ MarkedInv' /\ KeyedInv' /\ RawShown' /\ ConnectShown'
    BY DEF ScanInv, MarkedInv, KeyedInv, RawShown, ConnectShown, Direct, Shown, Structured,
       Interrupted, InTurn
  <2>7. VerifyUnique' /\ VerifyShown'
    BY DEF VerifyUnique, VerifyShown, Direct, Shown, Structured, Interrupted
  <2>8. OutputInv'
    BY DEF OutputInv, Written, Repeats, Enhanced, Shown, Interrupted, Ranged
  <2>. QED
    BY <2>4, <2>6, <2>7, <2>8, <2>5, <2>2, <2>3
<1>. QED
  BY <1>1, <1>2

\* So it holds all through.
LEMMA ReportInvariant == Spec => []ReportInv
  BY ReportInit, ReportStep, PTL DEF Spec

\* The variables keep their types, and a raw scan has one TCP worker at a time,
\* which calls onReceive before it records (scan_raw.go TCPResultWorker).
THEOREM ReportTypeCorrect == Spec => []TypeOK
<1>1. ReportInv => TypeOK
  BY DEF ReportInv
<1>. QED
  BY <1>1, ReportInvariant, PTL

\* onReceive prints no port that was marked as printed before it was called and
\* is still in the cache: what one call looks up and marks step by step is no
\* set of its own, and whatever the cache drops when it is full, only calls at
\* the same time can print a number twice as long as it has the mark
\* (runner.go:167, 224-247).
THEOREM PrintedOnce == Spec => []PrintedOncePerTurn
<1>1. ReportInv => PrintedOncePerTurn
  BY DEF ReportInv, FreshInv, Fresh, Turn, PrintedOncePerTurn
<1>. QED
  BY <1>1, ReportInvariant, PTL

\* The banner of a line is of its service, or of one with the same Port, which
\* only the probes of the range of a connect scan share, whatever target
\* host:port names the same pair (runner.go:654-695, 261-263).
THEOREM BannersMix == Spec => []BannersMixOnlyIfShared
<1>1. ReportInv => BannersMixOnlyIfShared
  BY DEF ReportInv
<1>. QED
  BY <1>1, ReportInvariant, PTL

\* At the end of main.
LEMMA DoneIsReported == ReportInv => FoundIsReported
<1>. SUFFICES ASSUME ReportInv, at[main] = "done", ~Interrupted, options.file # "bad"
     PROVE  /\ (options.raw /\ options.verify) \/ snapshot[main].ports = found
            /\ \A pair \in {p \in snapshot[main].ports : p[1] \in Wanted} :
                 /\ HasLine(pair) => Printed(pair)
                 /\ options.file = "good" => \E line \in file : line.pair = pair
                 /\ \A host \in NamesFor(pair[1], Ranged(main, pair[1])) :
                      /\ <<host, pair>> \in told
                      /\ Enhanced => FindingsOf(host, pair) \subseteq summary
  BY DEF FoundIsReported
<1>. USE PairFacts
<1>1. /\ snapshot[main].ports \subseteq found
      /\ (options.raw /\ options.verify) \/ snapshot[main].ports = found
  BY DEF ReportInv, SnapshotInv
<1>2. ASSUME NEW pair \in snapshot[main].ports, pair[1] \in Wanted
      PROVE  /\ HasLine(pair) => Printed(pair)
             /\ options.file = "good" => \E line \in file : line.pair = pair
             /\ \A host \in NamesFor(pair[1], Ranged(main, pair[1])) :
                  /\ <<host, pair>> \in told
                  /\ Enhanced => FindingsOf(host, pair) \subseteq summary
  <2>1. pair \in Pairs /\ pair \in found /\ main \in Finishers
    BY <1>1 DEF ReportInv, TypeOK
  <2>2. \A host \in NamesFor(pair[1], Ranged(main, pair[1])) : Written(host, pair)
    BY <1>2 DEF ReportInv, OutputInv
  <2>3. PICK host \in NamesFor(pair[1], Ranged(main, pair[1])) : Written(host, pair)
    <3>1. NamesOf[pair[1]] # {}
      BY <2>1, ReportAssumption DEF Pairs
    <3>2. \E host : host \in NamesFor(pair[1], Ranged(main, pair[1]))
      BY <3>1 DEF NamesFor
    <3>. QED
      BY <2>2, <3>2
  <2>4. options.file = "good" => \E line \in file : line.pair = pair
    BY <2>3 DEF Written
  <2>5. ASSUME NEW name \in NamesFor(pair[1], Ranged(main, pair[1]))
        PROVE  /\ <<name, pair>> \in told
               /\ Enhanced => FindingsOf(name, pair) \subseteq summary
    <3>1. <<name, pair>> \notin grabs[main]
      BY <2>1 DEF ReportInv, TypeOK
    <3>2. summary = findings
      BY DEF ReportInv, OutputInv
    <3>. QED
      BY <2>2, <3>1, <3>2 DEF Written
  <2>6. ASSUME HasLine(pair) PROVE Printed(pair)
    <3>1. Shown(Key(pair)) => Printed(pair)
      BY DEF Shown, Printed, Key
    <3>2. CASE Repeats
      BY <2>3, <3>1, <3>2 DEF Written
    <3>3. CASE ~Repeats
      <4>1. Direct
        BY <2>6, <3>3 DEF Direct, Structured, HasLine, Repeats
      <4>2. CASE options.raw
        <5>1. pair[2].proto = "tcp"
          BY <2>1, <2>6, <3>3, <4>2 DEF HasLine
        <5>. QED
          BY <1>2, <2>1, <3>1, <4>1, <4>2, <5>1 DEF ReportInv, RawShown, InTurn, Turn
      <4>3. CASE ~options.raw /\ ~options.verify
        BY <1>2, <2>1, <3>1, <4>1, <4>3 DEF ReportInv, ConnectShown
      <4>4. CASE ~options.raw /\ options.verify
        BY <1>2, <2>1, <3>1, <4>1, <4>4 DEF ReportInv, VerifyShown, InCall, Turn, InWorker
      <4>. QED
        BY <4>2, <4>3, <4>4
    <3>. QED
      BY <3>2, <3>3
  <2>. QED
    BY <2>4, <2>5, <2>6
<1>. QED
  BY <1>1, <1>2

\* At the end of main nothing it found is lost on the way to the user, in
\* whatever order the probes, the worker and main went through onReceive, and
\* whatever each passed over because another had marked it: each number with a
\* line is printed, each port in the file and given to the callback, and the
\* findings about each in the summary
\* (runner.go:213-327, 859, 1053-1226, enhance.go:57-102).
THEOREM FoundReachesUser == Spec => []FoundIsReported
  BY DoneIsReported, ReportInvariant, PTL
=============================================================================

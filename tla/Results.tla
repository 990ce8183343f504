------------------------------- MODULE Results -------------------------------
(***************************************************************************)
(* pkg/result.Result, the map of open ports behind one RWMutex, and those  *)
(* who use it when a connect scan ends: the probe goroutines that still    *)
(* AddPort, the main goroutine that skips hosts and then runs handleNmap   *)
(* and handleOutput, and the signal handler that runs the same two.        *)
(*                                                                         *)
(* GetIPsPorts takes a read lock that its producer goroutine gives back    *)
(* when the last host was received.  The producer takes the read lock once *)
(* more for each host (HasSkipped), and a consumer that returns early      *)
(* leaves it blocked in a send, lock held.                                 *)
(***************************************************************************)
EXTENDS Integers, FiniteSets

CONSTANTS
  Hosts, Ports,
  OpenPairs,      \* the <<host, port>> pairs the probes may find open
  Nmap,           \* -nmap-cli is given
  main, handler,  \* the goroutines that finish a scan
  None,           \* no goroutine, no host, no port
  Interrupts,     \* a SIGINT may come
  PortThreshold,  \* -port-threshold, 0 when it is off
  GroupLimits,    \* the port counts at which handleNmap begins another group
  MaxReport       \* bound of the model: open ports that one run of nmap reports

ASSUME ResultsAssumption ==
  /\ OpenPairs \subseteq Hosts \X Ports
  /\ main # handler /\ None \notin OpenPairs \union Hosts \union {main, handler}
  /\ {main, handler} \cap OpenPairs = {}
  /\ Nmap \in BOOLEAN /\ Interrupts \in BOOLEAN /\ PortThreshold \in Nat
  /\ GroupLimits \subseteq Nat /\ MaxReport \in Nat

Finishers == {main, handler}

VARIABLES
  ports,      \* ipPorts, as <<host, port>> pairs
  own,        \* the pairs whose entry is a Port that nmap's integration added
  services,   \* the Ports of the list of ports that carry service information
  skipped,    \* skipped
  readers,    \* read locks held
  writer,     \* the goroutine in Lock() that keeps new readers out
  probe,      \* the probe goroutine of each pair
  at,         \* where each finisher is
  iter,       \* the producer goroutine of the GetIPsPorts it ranges over
  nmap,       \* what handleNmap of each finisher works through
  emitted,    \* what handleOutput of each finisher was given
  began,      \* what handleNmap collected and has not run nmap for; when the
              \* output has begun, history: ports at that moment
  report      \* history: what nmap reported to the main goroutine

lockVars == <<readers, writer>>
held == <<ports, own, services>>
vars == <<held, skipped, readers, writer, probe, at, iter, nmap,
          emitted, began, report>>

-----------------------------------------------------------------------------
(* sync.RWMutex: a goroutine that waits in Lock() keeps new readers out.   *)

CanRLock == writer = None
RLock    == CanRLock /\ readers' = readers + 1
Announce(t) == writer = None /\ writer' = t /\ UNCHANGED readers

\* Lock() returns while no reader is left; the write and Unlock() follow.
SharedLock(t)   == writer = t /\ writer' = None /\ UNCHANGED readers
NeverUnlocks(t) == writer = t /\ readers = 0 /\ UNCHANGED <<readers, writer>>
Locked(t) == writer = t /\ readers = 0 /\ writer' = None /\ UNCHANGED readers

\* A probe adds the Port of the list that PickPort gave it, which every host
\* shares; nmap's integration adds one of its own.
Carries(pair) == pair \in own \/ (pair \in ports /\ pair[2] \in services)

Recorded(h) == {p \in Ports : <<h, p>> \in ports}
NoIter == [state |-> "off", todo |-> {}, cur |-> None]
NoWork == [hosts |-> {}, pending |-> {}, host |-> None, entry |-> None]

\* main has returned or the handler has called os.Exit.
Exited  == \E c \in Finishers : at[c] = "done"
Running == ~Exited

Init ==
  /\ ports = {} /\ own = {} /\ services = {} /\ skipped = {}
  /\ readers = 0 /\ writer = None
  /\ probe = [p \in OpenPairs |-> "dialing"]
  /\ at = [c \in Finishers |-> IF c = main THEN "scan" ELSE "off"]
  /\ iter = [c \in Finishers |-> NoIter]
  /\ nmap = [c \in Finishers |-> NoWork]
  /\ emitted = [c \in Finishers |-> {}]
  /\ began = [c \in Finishers |-> {}] /\ report = {}

-----------------------------------------------------------------------------
(* The probe goroutines and the loop of the main goroutine.                *)

ProbeAnswers(p) ==
  /\ Running /\ probe[p] = "dialing"
  /\ \E s \in {"open", "done"} : probe' = [probe EXCEPT ![p] = s]
  /\ UNCHANGED <<held, skipped, lockVars, at, iter, nmap, emitted,
                 began, report>>

AddPortWaits(p) ==
  /\ Running /\ probe[p] = "open"
  /\ Announce(p)
  /\ probe' = [probe EXCEPT ![p] = "adding"]
  /\ UNCHANGED <<held, skipped, at, iter, nmap, emitted, began, report>>

\* The map entry is replaced, with whatever service nmap's own Port carried.
AddPort(p) ==
  /\ Running /\ probe[p] = "adding"
  /\ Locked(p)
  /\ ports' = ports \union {p} /\ own' = own \ {p}
  /\ probe' = [probe EXCEPT ![p] = "done"]
  /\ UNCHANGED <<services, skipped, at, iter, nmap, emitted, began, report>>

\* The scan loop finds a host over the threshold, if it can read at all.
AddSkippedWaits ==
  /\ Running /\ at[main] = "scan" /\ PortThreshold > 0
  /\ \E h \in Hosts \ skipped : Cardinality(Recorded(h)) >= PortThreshold
  /\ Announce(main)
  /\ at' = [at EXCEPT ![main] = "skipping"]
  /\ UNCHANGED <<held, skipped, probe, iter, nmap, emitted, began, report>>

AddSkipped ==
  /\ Running /\ at[main] = "skipping"
  /\ Locked(main)
  /\ \E h \in Hosts \ skipped :
       /\ Cardinality(Recorded(h)) >= PortThreshold
       /\ skipped' = skipped \union {h}
  /\ at' = [at EXCEPT ![main] = "scan"]
  /\ UNCHANGED <<held, probe, iter, nmap, emitted, began, report>>

FirstStage == IF Nmap THEN "collect" ELSE "ask"

\* wgscan.Wait() returns; handleNmap and handleOutput follow.
ScanEnds ==
  /\ Running /\ at[main] = "scan"
  /\ \A p \in OpenPairs : probe[p] = "done"
  /\ at' = [at EXCEPT ![main] = FirstStage]
  /\ UNCHANGED <<held, skipped, lockVars, probe, iter, nmap,
                 emitted, began, report>>

\* The signal handler reaches ShowScanResultOnExit.
Interrupt ==
  /\ Running /\ Interrupts /\ at[handler] = "off"
  /\ at' = [at EXCEPT ![handler] = FirstStage]
  /\ UNCHANGED <<held, skipped, lockVars, probe, iter, nmap,
                 emitted, began, report>>

-----------------------------------------------------------------------------
(* for hostResult := range GetIPsPorts().                                  *)

Ranging == {"collect", "update", "os", "output"}

GetIPsPorts(c) ==
  /\ Running /\ at[c] \in Ranging /\ iter[c].state = "off"
  /\ RLock
  /\ iter' = [iter EXCEPT ![c] = [state |-> "check",
                todo |-> {h \in Hosts : Recorded(h) # {}}, cur |-> None]]
  /\ began' = IF at[c] \in {"collect", "output"}
              THEN [began EXCEPT ![c] = ports] ELSE began
  /\ UNCHANGED <<held, skipped, writer, probe, at, nmap, emitted, report>>

\* The producer's HasSkipped for its next host, then the blocking send.
HasSkipped(c) ==
  /\ Running /\ iter[c].state = "check"
  /\ CanRLock
  /\ \E h \in iter[c].todo :
       iter' = [iter EXCEPT ![c] = [state |-> "send", todo |-> @.todo \ {h},
                                    cur |-> h]]
  /\ UNCHANGED <<held, skipped, lockVars, probe, at, nmap, emitted,
                 began, report>>

\* A consumer that wants more: the producer goes on.
Continues(c) ==
  /\ iter' = [iter EXCEPT ![c].state = "check", ![c].cur = None]
  /\ UNCHANGED <<readers, at>>

\* A consumer that returns: the producer ends only if it has no more to send;
\* otherwise it stays in the next send and keeps its read lock.
Returns(c, stage) ==
  /\ readers' = IF iter[c].todo = {} THEN readers - 1 ELSE readers
  /\ iter' = [iter EXCEPT ![c] = NoIter]
  /\ at' = [at EXCEPT ![c] = stage]

\* The producer has sent its last host: RUnlock, close(out).
RUnlocksTwice(c) == readers' = readers - 2
RUnlocks(c) == readers' = readers - 1

RangeEnds(c) ==
  /\ Running /\ iter[c].state = "check" /\ iter[c].todo = {}
  /\ RUnlocks(c)
  /\ iter' = [iter EXCEPT ![c] = NoIter]
  /\ at' = [at EXCEPT ![c] =
       CASE @ = "collect" -> "nmap"
         [] @ = "update"  -> "entry"
         [] @ = "os"      -> "entry"
         [] @ = "output"  -> "done"]
  /\ nmap' = IF at[c] = "os"
             THEN [nmap EXCEPT ![c].host = None, ![c].entry = None] ELSE nmap
  /\ UNCHANGED <<held, skipped, writer, probe, emitted, began, report>>

\* handleNmap collects every host first.
Collect(c) ==
  /\ Running /\ at[c] = "collect" /\ iter[c].state = "send"
  /\ Continues(c)
  /\ UNCHANGED <<held, skipped, writer, probe, nmap, emitted,
                 began, report>>

HandleOutput(c) ==
  /\ Running /\ at[c] = "output" /\ iter[c].state = "send"
  /\ emitted' = [emitted EXCEPT ![c] =
       @ \union {pair \in ports : pair[1] = iter[c].cur}]
  /\ Continues(c)
  /\ UNCHANGED <<held, skipped, writer, probe, nmap, began, report>>

\* handleOutput asks first for ports, then for hosts, on a read lock each.
HasIPsPorts(c) ==
  /\ Running /\ at[c] = "ask"
  /\ CanRLock
  /\ at' = [at EXCEPT ![c] = IF ports # {} THEN "output" ELSE "askips"]
  /\ UNCHANGED <<held, skipped, lockVars, probe, iter, nmap, emitted,
                 began, report>>

\* In a connect scan ips holds the hosts of ipPorts: they may have come since.
HasIPS(c) ==
  /\ Running /\ at[c] = "askips"
  /\ CanRLock
  /\ at' = [at EXCEPT ![c] = IF ports # {} THEN "list" ELSE "done"]
  /\ UNCHANGED <<held, skipped, lockVars, probe, iter, nmap, emitted,
                 began, report>>

\* GetIPs takes the write lock, and its consumer names the hosts as alive.
GetIPsWaits(c) ==
  /\ Running /\ at[c] = "list"
  /\ Announce(c)
  /\ at' = [at EXCEPT ![c] = "listing"]
  /\ UNCHANGED <<held, skipped, probe, iter, nmap, emitted, began, report>>

GetIPs(c) ==
  /\ Running /\ at[c] = "listing"
  /\ Locked(c)
  /\ at' = [at EXCEPT ![c] = "done"]
  /\ UNCHANGED <<held, skipped, probe, iter, nmap, emitted, began, report>>

-----------------------------------------------------------------------------
(* handleNmap and integrateNmapResults.                                    *)

\* The hosts with about as many ports as h has.
Collected(c, h) == {pair \in began[c] : pair[1] = h}
Group(c, h) == Cardinality({n \in GroupLimits : n <= Cardinality(Collected(c, h))})

\* nmap is run for one group after the other, in any order, with all the ports
\* seen on any host of the group.  It reports hosts, with open ports or without;
\* when it fails nothing is integrated and the next group follows.
RunNmap(c) ==
  /\ Running /\ at[c] = "nmap"
  /\ \E one \in began[c] :
       LET group == {pair \in began[c] : Group(c, pair[1]) = Group(c, one[1])}
       IN  \E up \in SUBSET {pair[1] : pair \in group} :
           \E rep \in SUBSET (up \X {pair[2] : pair \in group}) :
             /\ Cardinality(rep) <= MaxReport
             /\ nmap' = [nmap EXCEPT ![c].hosts = up, ![c].pending = rep]
             /\ report' = IF c = main THEN report \union rep ELSE report
             /\ began' = [began EXCEPT ![c] = @ \ group]
  /\ at' = [at EXCEPT ![c] = "entry"]
  /\ UNCHANGED <<held, skipped, lockVars, probe, iter, emitted>>

\* There is no other group, or nothing was collected at all.
NmapThrough(c) ==
  /\ Running /\ at[c] = "nmap" /\ began[c] = {}
  /\ at' = [at EXCEPT ![c] = "ask"]
  /\ UNCHANGED <<held, skipped, lockVars, probe, iter, nmap, emitted,
                 began, report>>

\* The next host of the report.
NextHost(c) ==
  /\ Running /\ at[c] = "entry" /\ nmap[c].host = None
  /\ \E h \in nmap[c].hosts :
       nmap' = [nmap EXCEPT ![c].host = h, ![c].hosts = @ \ {h}]
  /\ UNCHANGED <<held, skipped, lockVars, probe, at, iter, emitted,
                 began, report>>

\* The next open port of the host at hand.
NextPort(c) ==
  /\ Running /\ at[c] = "entry"
  /\ \E pair \in nmap[c].pending :
       /\ nmap[c].host = pair[1]
       /\ nmap' = [nmap EXCEPT ![c].entry = pair, ![c].pending = @ \ {pair}]
  /\ at' = [at EXCEPT ![c] = "lookup"]
  /\ UNCHANGED <<held, skipped, lockVars, probe, iter, emitted,
                 began, report>>

\* IPHasPort, on its own read lock.
IPHasPort(c) ==
  /\ Running /\ at[c] = "lookup"
  /\ CanRLock
  /\ at' = [at EXCEPT ![c] =
       IF nmap[c].entry \in ports THEN "update" ELSE "add"]
  /\ UNCHANGED <<held, skipped, lockVars, probe, iter, nmap,
                 emitted, began, report>>

\* Whether a host's entry is the one to update.
NeverMatches(c) == FALSE
Matches(c) == iter[c].cur = nmap[c].entry[1] /\ nmap[c].entry \in ports

\* The matching Port gets its service, for whoever shares it, and the function
\* returns from inside the range loop.
UpdatePort(c) ==
  /\ Running /\ at[c] = "update" /\ iter[c].state = "send"
  /\ IF Matches(c)
     THEN /\ services' = IF nmap[c].entry \in own THEN services
                         ELSE services \union {nmap[c].entry[2]}
          /\ Returns(c, "entry")
     ELSE Continues(c) /\ UNCHANGED services
  /\ UNCHANGED <<ports, own, skipped, writer, probe, nmap, emitted, began, report>>

NmapAddPortWaits(c) ==
  /\ Running /\ at[c] = "add"
  /\ Announce(c)
  /\ at' = [at EXCEPT ![c] = "adding"]
  /\ UNCHANGED <<held, skipped, probe, iter, nmap, emitted, began, report>>

NmapAddPort(c) ==
  /\ Running /\ at[c] = "adding"
  /\ Locked(c)
  /\ ports' = ports \union {nmap[c].entry}
  /\ own' = own \union {nmap[c].entry}
  /\ at' = [at EXCEPT ![c] = "entry"]
  /\ UNCHANGED <<services, skipped, probe, iter, nmap, emitted, began, report>>

\* The ports of the host are done, or it had none: UpdateHostOS.
HostDone(c) ==
  /\ Running /\ at[c] = "entry" /\ nmap[c].host # None
  /\ \A pair \in nmap[c].pending : pair[1] # nmap[c].host
  /\ at' = [at EXCEPT ![c] = "os"]
  /\ UNCHANGED <<held, skipped, lockVars, probe, iter, nmap,
                 emitted, began, report>>

\* UpdateHostOS sets the OS of a HostResult nobody else sees, and returns.
UpdateHostOS(c) ==
  /\ Running /\ at[c] = "os" /\ iter[c].state = "send"
  /\ IF iter[c].cur = nmap[c].host
     THEN /\ Returns(c, "entry")
          /\ nmap' = [nmap EXCEPT ![c].host = None, ![c].entry = None]
     ELSE Continues(c) /\ UNCHANGED nmap
  /\ UNCHANGED <<held, skipped, writer, probe, emitted, began, report>>

\* The report is worked through.
Integrated(c) ==
  /\ Running /\ at[c] = "entry" /\ nmap[c].host = None
  /\ nmap[c].hosts = {} /\ nmap[c].pending = {}
  /\ at' = [at EXCEPT ![c] = "nmap"]
  /\ UNCHANGED <<held, skipped, lockVars, probe, iter, nmap,
                 emitted, began, report>>

-----------------------------------------------------------------------------
Probe(p) == ProbeAnswers(p) \/ AddPortWaits(p) \/ AddPort(p)

ScanLoop == AddSkippedWaits \/ AddSkipped \/ ScanEnds

Range(c) ==
  \/ GetIPsPorts(c) \/ HasSkipped(c) \/ RangeEnds(c)
  \/ Collect(c) \/ HandleOutput(c)

Choose(c) == HasIPsPorts(c) \/ HasIPS(c) \/ GetIPsWaits(c) \/ GetIPs(c)

HandleNmap(c) ==
  \/ RunNmap(c) \/ NmapThrough(c) \/ NextHost(c) \/ NextPort(c) \/ IPHasPort(c)
  \/ UpdatePort(c) \/ NmapAddPortWaits(c) \/ NmapAddPort(c)
  \/ HostDone(c) \/ UpdateHostOS(c) \/ Integrated(c)

Finisher(c) == Range(c) \/ Choose(c) \/ HandleNmap(c)

\* The process is gone.
Gone == Exited /\ UNCHANGED vars

Next ==
  \/ ScanLoop \/ Interrupt \/ Gone
  \/ \E p \in OpenPairs : Probe(p)
  \/ \E c \in Finishers : Finisher(c)

\* Every goroutine that can run does; a signal is not promised.
Fairness ==
  /\ WF_vars(ScanLoop)
  /\ \A p \in OpenPairs : WF_vars(Probe(p))
  /\ \A c \in Finishers : WF_vars(Finisher(c))

Spec == Init /\ [][Next]_vars
FairSpec == Spec /\ Fairness

-----------------------------------------------------------------------------
(* Properties.                                                             *)

Pairs  == Hosts \X Ports
Stages == {"off", "scan", "skipping", "collect", "nmap", "entry", "lookup",
           "update", "add", "adding", "os", "ask", "askips", "list", "listing",
           "output", "done"}

\* What follows handleNmap.
Output == {"ask", "askips", "list", "listing", "output", "done"}

TypeOK ==
  /\ ports \subseteq Pairs /\ own \subseteq ports /\ services \subseteq Ports
  /\ skipped \subseteq Hosts
  /\ readers \in Nat /\ writer \in {None} \union OpenPairs \union Finishers
  /\ probe \in [OpenPairs -> {"dialing", "open", "adding", "done"}]
  /\ at \in [Finishers -> Stages]
  /\ iter \in [Finishers -> [state : {"off", "check", "send"},
                             todo : SUBSET Hosts, cur : Hosts \union {None}]]
  /\ nmap \in [Finishers -> [hosts : SUBSET Hosts, pending : SUBSET Pairs,
                             host : Hosts \union {None}, entry : Pairs \union {None}]]
  /\ emitted \in [Finishers -> SUBSET Pairs]
  /\ began \in [Finishers -> SUBSET Pairs] /\ report \subseteq Pairs

\* Whoever finishes, however many probes still report and whoever else
\* finishes at the same time, its output is the content of the map at one
\* moment: no host is missed, none shows a port that came later; when the map
\* was empty, no port is shown (results.go:81-110, runner.go:1095).
OutputIsSnapshot ==
  \A c \in Finishers : at[c] = "done" => emitted[c] = began[c]

\* Once the main goroutine has gone through nmap's report, every port of it is
\* recorded and carries its service, though the signal handler integrates a
\* report of its own in between (nmap.go:180-248).
ReportIntegrated ==
  at[main] \in Output => \A pair \in report : Carries(pair)

\* A goroutine in Lock() waits for a read lock that nobody will give back: the
\* producer of an abandoned range loop holds one, or a producer that still has
\* hosts to check waits for that Lock().
Abandoned ==
  readers > Cardinality({c \in Finishers : iter[c].state # "off"})
Stuck ==
  /\ writer # None
  /\ \/ Abandoned
     \/ \E c \in Finishers : iter[c].state = "check" /\ iter[c].todo # {}

\* Whoever begins to finish ends the process, unless a writer meets a read
\* lock that is never given back; there is no other way to hang.
EndsUnlessStuck ==
  \A c \in Finishers : (at[c] # "off") ~> (Exited \/ Stuck)

\* main.go:206: "Received signal: %s, exiting gracefully...".
GracefulExit == (at[handler] # "off") ~> Exited

\* nmap.go:245, "Port doesn't exist, add it": AddPort comes back.
NewPortIsAdded == (at[main] = "add") ~> (at[main] = "entry" \/ Exited)

=============================================================================

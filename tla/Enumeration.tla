----------------------------- MODULE Enumeration -----------------------------
(***************************************************************************)
(* The enumeration loop of Runner.RunEnumeration (default branch, connect  *)
(* scan), its probe goroutines, the resume checkpoint it keeps, and the    *)
(* signal handler of cmd/naabu/main.go that saves that checkpoint.         *)
(*                                                                         *)
(* Three kinds of goroutine share the state: the main loop (pc), one probe *)
(* goroutine per launched ip:port (probe), at most Rate of them at once,   *)
(* and the signal handler (sig).  A process ends normally, through the     *)
(* handler's os.Exit, through a panic or because it is killed; a later     *)
(* process started with -resume reads resume.cfg back (Restart).           *)
(*                                                                         *)
(* The open ports are behind the RWMutex of result.Result: AddPort and     *)
(* AddSkipped wait in Lock() while the handler ranges over GetIPsPorts,    *)
(* whose producer cannot take its read lock of the next host meanwhile.    *)
(***************************************************************************)
EXTENDS Integers, Sequences, FiniteSets

CONSTANTS
  Hosts,          \* every address, the excluded ones included
  Ports,          \* every port
  Ips,            \* the scanned addresses in the order PickIP numbers them
  PortList,       \* r.scanner.Ports, in order
  WithPort,       \* targetsWithPort: <<address, port>> pairs given as ip:port
  Excluded,       \* addresses that excludedIpsNP rejects
  CdnHosts,       \* addresses of a CDN, when -exclude-cdn is given
  WebPorts,       \* the ports still scanned on these: 80 and 443
  OpenPairs,      \* <<address, port>> pairs a connect may find open
  Seeds,          \* the values time.Now().UnixNano() may take
  Shuffle,        \* blackrock: Shuffle[seed] permutes 0 .. ScanRange - 1
  Retries,        \* -retries
  Rate,           \* -rate: the size of wgscan
  PortThreshold,  \* -port-threshold, 0 when it is off
  MaxRuns         \* bound of the model: processes started

ScanRange == Len(Ips) * Len(PortList)
ProbeIds  == 0 .. (ScanRange + Len(WithPort) - 1)

ASSUME ConstantsAssumption ==
  /\ Ips \in Seq(Hosts) /\ PortList \in Seq(Ports)
  /\ WithPort \in Seq(Hosts \X Ports)
  /\ OpenPairs \subseteq Hosts \X Ports
  /\ Seeds \subseteq Nat \ {0} /\ Seeds # {}
  /\ Retries \in Nat /\ Rate \in Nat \ {0} /\ PortThreshold \in Nat
  /\ MaxRuns \in Nat \ {0}

\* blackrock.Shuffle(seed) is a permutation of the scanned range.
ASSUME ShuffleAssumption ==
  /\ Shuffle \in [Seeds -> [0 .. (ScanRange - 1) -> 0 .. (ScanRange - 1)]]
  /\ \A s \in Seeds : \A x \in 0 .. (ScanRange - 1) :
       \E i \in 0 .. (ScanRange - 1) : Shuffle[s][i] = x

VARIABLES
  pc,         \* where the main goroutine is
  retry,      \* currentRetry
  seed,       \* currentSeed
  index,      \* the loop variable over the range, then over targetsWithPort
  cfg,        \* r.options.ResumeCfg
  probe,      \* the probe goroutines of this pass, by index
  found,      \* ScanResults.ipPorts
  skipped,    \* ScanResults.skipped
  reported,   \* what handleOutput was given by this process
  closed,     \* scanner.ListenHandler is nil: Runner.Close has run
  sig,        \* the signal handler
  left,       \* hosts that the producer of its GetIPsPorts has yet to check
  file,       \* resume.cfg on disk
  runs,       \* processes started so far
  settled     \* history: <<retry, seed, index>> launched, or of a skipped host

mainVars == <<pc, retry, seed, index, cfg, skipped>>
sigVars  == <<sig, left>>
vars == <<pc, retry, seed, index, cfg, probe, found, skipped, reported,
          closed, sig, left, file, runs, settled>>

-----------------------------------------------------------------------------
(* Helpers.                                                                *)

\* b.Shuffle, PickIP and PickPort: the address and the port of an index.
PairAt(s, i) ==
  LET x == Shuffle[s][i]
  IN  <<Ips[(x \div Len(PortList)) + 1], PortList[(x % Len(PortList)) + 1]>>

\* The pair a probe goroutine was started with.
TargetOf(s, i) ==
  IF i < ScanRange THEN PairAt(s, i) ELSE WithPort[i - ScanRange + 1]

\* The goroutines that hold a slot of wgscan.
Active == {i \in ProbeIds : probe[i] # "idle"}

\* sync.RWMutex of ScanResults: whoever waits in Lock(), a probe in AddPort or
\* the loop in AddSkipped, keeps new readers and other writers out, and waits
\* for the read lock that the handler's GetIPsPorts holds.
WriterWaits == pc = "skip" \/ \E i \in ProbeIds : probe[i] = "adding"
CanRLock    == ~WriterWaits
NoReader    == sig # "showing"

\* The negation of canIScanIfCDN.
CdnBlocked(pair) == pair[1] \in CdnHosts /\ pair[2] \notin WebPorts

\* The context given to RunEnumeration is done once the handler ran cancel().
Cancelled == sig # "idle"

\* SaveResumeConfig holds the read lock while it writes; a Lock() waits.
CfgUnlocked == sig # "writing"

NewResumeCfg == [retry |-> 0, seed |-> 0, index |-> 0]

\* resume.cfg on disk: absent, truncated and not yet written, or whole.
NoFile     == [state |-> "absent", cfg |-> NewResumeCfg]
Torn       == [state |-> "torn", cfg |-> NewResumeCfg]
Written(c) == [state |-> "whole", cfg |-> c]

\* The memory of a process that is not running; everything but the disk and
\* the histories is lost.
Dead ==
  /\ pc' = "dead" /\ retry' = 0 /\ seed' = 0 /\ index' = 0
  /\ cfg' = NewResumeCfg
  /\ probe' = [i \in ProbeIds |-> "idle"]
  /\ found' = [h \in Hosts |-> {}]
  /\ skipped' = {} /\ reported' = {} /\ closed' = FALSE
  /\ sig' = "idle" /\ left' = {}

FoundPairs == {p \in Hosts \X Ports : p[2] \in found[p[1]]}

-----------------------------------------------------------------------------
Init ==
  /\ pc = "retry" /\ retry = 0 /\ seed = 0 /\ index = 0
  /\ cfg = NewResumeCfg
  /\ probe = [i \in ProbeIds |-> "idle"]
  /\ found = [h \in Hosts |-> {}]
  /\ skipped = {} /\ reported = {} /\ closed = FALSE
  /\ sig = "idle" /\ left = {} /\ file = NoFile /\ runs = 1
  /\ settled = {}

-----------------------------------------------------------------------------
(* The retry loop.                                                         *)

\* A resumed process passes over the retries its checkpoint is beyond.
SkipRetry ==
  /\ pc = "retry" /\ retry < Retries /\ retry < cfg.retry
  /\ retry' = retry + 1
  /\ UNCHANGED <<pc, seed, index, cfg, probe, found, skipped, reported,
                 closed, sigVars, file, runs, settled>>

\* A resumed process that draws a seed of its own all the same.
FreshSeeds == Seeds

\* The seed of the checkpoint, or the time of day.
PassSeeds == IF cfg.seed > 0 THEN {cfg.seed} ELSE Seeds

\* Choose or restore the seed, record retry and seed, build the permutation.
BeginPass ==
  /\ pc = "retry" /\ retry < Retries /\ retry >= cfg.retry
  /\ CfgUnlocked
  /\ \E s \in PassSeeds :
       /\ seed' = s
       /\ cfg' = [cfg EXCEPT !.retry = retry, !.seed = s]
  /\ index' = 0
  /\ pc' = "next"
  /\ UNCHANGED <<retry, probe, found, skipped, reported, closed, sigVars,
                 file, runs, settled>>

EndRetries ==
  /\ pc = "retry" /\ retry >= Retries
  /\ pc' = "output"
  /\ UNCHANGED <<retry, seed, index, cfg, probe, found, skipped, reported,
                 closed, sigVars, file, runs, settled>>

-----------------------------------------------------------------------------
(* The body of the loop over the permuted range.                           *)

Ip == PairAt(seed, index)[1]

Advance == index' = index + 1 /\ pc' = "next"

SkipExcluded ==
  /\ pc = "next" /\ index < ScanRange
  /\ Ip \in Excluded
  /\ Advance
  /\ UNCHANGED <<retry, seed, cfg, probe, found, skipped, reported, closed,
                 sigVars, file, runs, settled>>

\* A resumed process is not yet at the position of its checkpoint.
NeverResumed == FALSE
Resumed == index < cfg.index

\* "Skipping ...: Resume - Port scan already completed"
SkipResumed ==
  /\ pc = "next" /\ index < ScanRange
  /\ Ip \notin Excluded /\ Resumed
  /\ Advance
  /\ UNCHANGED <<retry, seed, cfg, probe, found, skipped, reported, closed,
                 sigVars, file, runs, settled>>

\* The index is recorded before the pair is dealt with, so that a resumed
\* scan deals with it again.
NextPosition == index + 1
Position == index

Checkpoint ==
  /\ pc = "next" /\ index < ScanRange
  /\ Ip \notin Excluded /\ ~Resumed
  /\ CfgUnlocked
  /\ cfg' = [cfg EXCEPT !.index = Position]
  /\ pc' = "admit"
  /\ UNCHANGED <<retry, seed, index, probe, found, skipped, reported, closed,
                 sigVars, file, runs, settled>>

AboveThreshold(h) ==
  PortThreshold > 0 /\ Cardinality(found[h]) > PortThreshold

OverThreshold(h) ==
  PortThreshold > 0 /\ Cardinality(found[h]) >= PortThreshold

\* The host was skipped before.
SkipHost ==
  /\ pc = "admit" /\ CanRLock
  /\ Ip \in skipped
  /\ settled' = settled \union {<<retry, seed, index>>}
  /\ Advance
  /\ UNCHANGED <<retry, seed, cfg, probe, found, skipped, reported, closed,
                 sigVars, file, runs>>

\* The host has reached the threshold by now: AddSkipped calls Lock() ...
AddSkippedWaits ==
  /\ pc = "admit" /\ CanRLock
  /\ Ip \notin skipped /\ OverThreshold(Ip)
  /\ pc' = "skip"
  /\ UNCHANGED <<retry, seed, index, cfg, probe, found, skipped, reported,
                 closed, sigVars, file, runs, settled>>

\* ... and writes when no reader is left.
AddSkipped ==
  /\ pc = "skip" /\ NoReader
  /\ skipped' = skipped \union {Ip}
  /\ settled' = settled \union {<<retry, seed, index>>}
  /\ Advance
  /\ UNCHANGED <<retry, seed, cfg, probe, found, reported, closed, sigVars,
                 file, runs>>

Admit ==
  /\ pc = "admit" /\ CanRLock
  /\ Ip \notin skipped /\ ~OverThreshold(Ip)
  /\ pc' = "spawn"
  /\ UNCHANGED <<retry, seed, index, cfg, probe, found, skipped, reported,
                 closed, sigVars, file, runs, settled>>

\* wgscan.Add() blocks while Rate goroutines are active; then go handleHostPort.
Spawn ==
  /\ pc = "spawn"
  /\ Cardinality(Active) < Rate
  /\ probe' = [probe EXCEPT ![index] = "started"]
  /\ settled' = settled \union {<<retry, seed, index>>}
  /\ Advance
  /\ UNCHANGED <<retry, seed, cfg, found, skipped, reported, closed, sigVars,
                 file, runs>>

\* The loop over targetsWithPort: no exclusion, threshold or resume check.
SpawnWithPort ==
  /\ pc = "next" /\ index \in ScanRange .. (ScanRange + Len(WithPort) - 1)
  /\ Cardinality(Active) < Rate
  /\ probe' = [probe EXCEPT ![index] = "started"]
  /\ Advance
  /\ UNCHANGED <<retry, seed, cfg, found, skipped, reported, closed, sigVars,
                 file, runs, settled>>

\* What is left of the checkpoint between two retries.
SeedCleared   == [cfg EXCEPT !.seed = 0]
PositionUnset == [cfg EXCEPT !.seed = 0, !.index = -1]
Cleared       == [cfg EXCEPT !.seed = 0, !.index = 0]

\* wgscan.Wait() returns when no slot is held.
NoWait == TRUE
ProbesDone == Active = {}

\* wgscan.Wait(), then the checkpoint is cleared for the next retry.
EndPass ==
  /\ pc = "next" /\ index >= ScanRange + Len(WithPort)
  /\ ProbesDone
  /\ CfgUnlocked
  /\ cfg' = Cleared
  /\ retry' = retry + 1
  /\ pc' = "retry"
  /\ UNCHANGED <<seed, index, probe, found, skipped, reported, closed,
                 sigVars, file, runs, settled>>

-----------------------------------------------------------------------------
(* A probe goroutine: handleHostPort.                                      *)

\* IPHasPort is on a read lock of its own.
NotNeeded(i) ==
  LET pair == TargetOf(seed, i)
  IN  CdnBlocked(pair) \/ (CanRLock /\ pair[2] \in found[pair[1]])

\* The deferred wgscan.Done() forgotten on the early returns.
ProbeReturnsKeepingSlot(i) ==
  /\ probe[i] = "started"
  /\ Cancelled \/ NotNeeded(i)
  /\ UNCHANGED <<mainVars, probe, found, reported, closed, sigVars, file,
                 runs, settled>>

\* It returns at once when the context is done, the CDN rule excludes the
\* port, or the port is known to be open.
ProbeReturns(i) ==
  /\ probe[i] = "started"
  /\ Cancelled \/ NotNeeded(i)
  /\ probe' = [probe EXCEPT ![i] = "idle"]
  /\ UNCHANGED <<mainVars, found, reported, closed, sigVars, file, runs,
                 settled>>

ProbeDials(i) ==
  /\ probe[i] = "started"
  /\ ~Cancelled /\ CanRLock /\ ~NotNeeded(i)
  /\ probe' = [probe EXCEPT ![i] = "dialing"]
  /\ UNCHANGED <<mainVars, found, reported, closed, sigVars, file, runs,
                 settled>>

\* ConnectPort answers closed, or times out, which may happen to any pair.
ProbeClosed(i) ==
  /\ probe[i] = "dialing"
  /\ probe' = [probe EXCEPT ![i] = "idle"]
  /\ UNCHANGED <<mainVars, found, reported, closed, sigVars, file, runs,
                 settled>>

\* ConnectPort answers open: AddPort calls Lock(), one writer at a time ...
ProbeOpen(i) ==
  /\ probe[i] = "dialing" /\ ~WriterWaits
  /\ TargetOf(seed, i) \in OpenPairs
  /\ probe' = [probe EXCEPT ![i] = "adding"]
  /\ UNCHANGED <<mainVars, found, reported, closed, sigVars, file, runs,
                 settled>>

\* ... and writes when no reader is left; the slot is given back.
AddPort(i) ==
  /\ probe[i] = "adding" /\ NoReader
  /\ LET pair == TargetOf(seed, i)
     IN  found' = [found EXCEPT ![pair[1]] = @ \union {pair[2]}]
  /\ probe' = [probe EXCEPT ![i] = "idle"]
  /\ UNCHANGED <<mainVars, reported, closed, sigVars, file, runs, settled>>

-----------------------------------------------------------------------------
(* The end of the main goroutine: output, Close, CleanupResumeConfig.      *)

\* No probe is left that could wait in Lock() while main ranges over the
\* results, or change them: one step.
HandleOutput ==
  /\ pc = "output"
  /\ reported' = reported \union FoundPairs
  /\ pc' = "close"
  /\ UNCHANGED <<retry, seed, index, cfg, probe, found, skipped, closed,
                 sigVars, file, runs, settled>>

Close ==
  /\ pc = "close"
  /\ closed' = TRUE
  /\ pc' = "cleanup"
  /\ UNCHANGED <<retry, seed, index, cfg, probe, found, skipped, reported,
                 sigVars, file, runs, settled>>

\* CleanupResumeConfig removes the file.
Cleanup ==
  /\ pc = "cleanup"
  /\ file' = NoFile
  /\ pc' = "return"
  /\ UNCHANGED <<retry, seed, index, cfg, probe, found, skipped, reported,
                 closed, sigVars, runs, settled>>

\* main returns, whatever the signal handler is doing.
Return ==
  /\ pc = "return"
  /\ Dead
  /\ UNCHANGED <<file, runs, settled>>

-----------------------------------------------------------------------------
(* The signal handler.                                                     *)

\* The first signal: cancel().
Interrupt ==
  /\ pc # "dead" /\ sig = "idle"
  /\ sig' = "cancelled"
  /\ UNCHANGED <<mainVars, probe, found, reported, closed, left, file, runs,
                 settled>>

\* SaveResumeConfig takes the read lock; os.WriteFile truncates ...
SaveTruncates ==
  /\ sig = "cancelled"
  /\ file' = Torn
  /\ sig' = "writing"
  /\ UNCHANGED <<mainVars, probe, found, reported, closed, left, runs,
                 settled>>

\* ... then writes the marshalled checkpoint.
SaveWrites ==
  /\ sig = "writing"
  /\ file' = Written(cfg)
  /\ sig' = "saved"
  /\ UNCHANGED <<mainVars, probe, found, reported, closed, left, runs,
                 settled>>

\* ShowScanResultOnExit, while the scan may go on: GetIPsPorts takes a read
\* lock that its producer keeps ...
ShowScanResultOnExit ==
  /\ sig = "saved" /\ CanRLock
  /\ left' = {h \in Hosts : found[h] # {}}
  /\ sig' = "showing"
  /\ UNCHANGED <<mainVars, probe, found, reported, closed, file, runs,
                 settled>>

\* ... and takes the read lock once more for each host it sends (HasSkipped).
ShowHost ==
  /\ sig = "showing" /\ CanRLock
  /\ \E h \in left :
       /\ left' = left \ {h}
       /\ reported' = reported \union ({h} \X found[h])
  /\ UNCHANGED <<mainVars, probe, found, closed, sig, file, runs, settled>>

AllShown ==
  /\ sig = "showing" /\ left = {}
  /\ sig' = "shown"
  /\ UNCHANGED <<mainVars, probe, found, reported, closed, left, file, runs,
                 settled>>

CloseOnSignal ==
  /\ sig = "shown"
  /\ closed' = TRUE
  /\ sig' = "closed"
  /\ UNCHANGED <<mainVars, probe, found, reported, left, file, runs, settled>>

\* os.Exit(1)
Exit ==
  /\ sig = "closed"
  /\ Dead
  /\ UNCHANGED <<file, runs, settled>>

\* Runner.Close a second time: ListenHandler is nil and s.ListenHandler.Busy
\* panics, unless an earlier step of Close reports an error and returns.
DoubleClosePanics ==
  /\ closed
  /\ pc = "close" \/ sig = "shown"
  /\ Dead
  /\ UNCHANGED <<file, runs, settled>>

-----------------------------------------------------------------------------
(* The environment: SIGKILL or a power cut, and a new process.             *)

Kill ==
  /\ pc # "dead"
  /\ Dead
  /\ UNCHANGED <<file, runs, settled>>

\* naabu -resume: ParseOptions reads the file when it exists; a torn one is
\* a JSON error and fatal.
Restart ==
  /\ pc = "dead" /\ runs < MaxRuns
  /\ file.state # "torn"
  /\ cfg' = IF file.state = "whole" THEN file.cfg ELSE NewResumeCfg
  /\ pc' = "retry"
  /\ runs' = runs + 1
  /\ UNCHANGED <<retry, seed, index, probe, found, skipped, reported, closed,
                 sigVars, file, settled>>

\* No further process is started.
Stopped == pc = "dead" /\ UNCHANGED vars

-----------------------------------------------------------------------------
Main ==
  \/ SkipRetry \/ BeginPass \/ EndRetries
  \/ SkipExcluded \/ SkipResumed \/ Checkpoint
  \/ SkipHost \/ AddSkippedWaits \/ AddSkipped \/ Admit
  \/ Spawn \/ SpawnWithPort \/ EndPass
  \/ HandleOutput \/ Close \/ Cleanup \/ Return

Probe(i) ==
  \/ ProbeReturns(i) \/ ProbeDials(i) \/ ProbeClosed(i) \/ ProbeOpen(i)
  \/ AddPort(i)

SignalHandler ==
  \/ SaveTruncates \/ SaveWrites
  \/ ShowScanResultOnExit \/ ShowHost \/ AllShown
  \/ CloseOnSignal \/ Exit

Environment == Interrupt \/ DoubleClosePanics \/ Kill \/ Restart \/ Stopped

Next == Main \/ SignalHandler \/ Environment \/ \E i \in ProbeIds : Probe(i)

\* The Go scheduler runs every goroutine that can run, and a connect is
\* bounded by its timeout; signals, kills and restarts are not promised.
Fairness ==
  /\ WF_vars(Main)
  /\ WF_vars(SignalHandler)
  /\ \A i \in ProbeIds : WF_vars(Probe(i))

Spec == Init /\ [][Next]_vars
FairSpec == Spec /\ Fairness

-----------------------------------------------------------------------------
(* Properties.                                                             *)

MainSteps == {"retry", "next", "admit", "skip", "spawn", "output", "close",
              "cleanup", "return", "dead"}
ResumeCfg == [retry : Nat, seed : Seeds \union {0}, index : Nat]

\* The type invariant.
TypeOK ==
  /\ pc \in MainSteps
  /\ retry \in Nat /\ seed \in Seeds \union {0} /\ index \in Nat
  /\ cfg \in ResumeCfg
  /\ probe \in [ProbeIds -> {"idle", "started", "dialing", "adding"}]
  /\ found \in [Hosts -> SUBSET Ports]
  /\ skipped \subseteq Hosts
  /\ reported \subseteq Hosts \X Ports
  /\ closed \in BOOLEAN
  /\ sig \in {"idle", "cancelled", "writing", "saved", "showing", "shown",
              "closed"}
  /\ left \subseteq Hosts
  /\ file \in [state : {"absent", "torn", "whole"}, cfg : ResumeCfg]
  /\ runs \in Nat
  /\ settled \subseteq Nat \X Seeds \X Nat

\* Pair i of the pass (r, s) needs nothing more from a resumed process: its
\* address is excluded, its probe was launched or its host was over threshold.
Settled(r, s, i) ==
  PairAt(s, i)[1] \in Excluded \/ <<r, s, i>> \in settled

\* Retry r went over the whole range with one permutation.
PassDone(r) ==
  \E s \in Seeds : \A i \in 0 .. (ScanRange - 1) : Settled(r, s, i)

\* What a checkpoint claims: everything before it in its permutation and all
\* earlier retries are settled; with no seed there is no position either.
Sound(c) ==
  /\ c.seed = 0 => c.index = 0
  /\ c.seed # 0 => \A i \in 0 .. (ScanRange - 1) :
                     i < c.index => Settled(c.retry, c.seed, i)
  /\ \A r \in 0 .. (c.retry - 1) : PassDone(r)

\* The checkpoint in memory, and the one on disk, never run ahead of the
\* probes that were launched, over any number of interrupts, kills and
\* resumes: no pair is passed over as done that nobody ever launched
\* (runner.go:598-707, resume.go, main.go:204-225).
CheckpointSound ==
  Sound(cfg) /\ Sound(file.cfg)

\* A scan that reaches its output has settled every pair in every retry, by
\* this process or by the interrupted ones it resumes.
FinishedScanCoversAll ==
  pc \in {"output", "close", "cleanup", "return"} =>
    \A r \in 0 .. (Retries - 1) : PassDone(r)

\* Within one pass of one process the checkpoint only moves forward, so the
\* file a later signal saves is never behind one an earlier signal could save.
CheckpointMovesForward ==
  [][(pc \in {"next", "admit", "skip", "spawn"} /\ cfg'.seed = cfg.seed) =>
       (cfg'.retry = cfg.retry /\ cfg'.index >= cfg.index)]_vars

\* The threshold is checked before wgscan.Add() blocks and long before the
\* probes in flight report, so a host may overshoot it, but by no more than
\* the probes that can be in flight (runner.go:647, 658, 961).
ThresholdOvershoot ==
  PortThreshold > 0 =>
    \A h \in Hosts :
      (\A j \in 1 .. Len(WithPort) : WithPort[j][1] # h) =>
        Cardinality(found[h]) <= PortThreshold + Rate

\* When main returns undisturbed, no probe goroutine is left running and all
\* the open ports that were recorded have been handed to handleOutput.
NormalExitReportsAll ==
  pc \in {"close", "cleanup", "return"} =>
    Active = {} /\ FoundPairs \subseteq reported

\* The handler's producer still has hosts to check, but a writer waits for the
\* read lock it holds and keeps it from taking another (results.go:82, 92, 121).
Stuck == sig = "showing" /\ left # {} /\ WriterWaits

\* Every process ends or meets that deadlock, signal or not: nothing else, the
\* slots of wgscan, wgscan.Wait, the locks of the checkpoint and of the results,
\* holds the main loop or the handler up for ever.
EndsUnlessStuck == (pc # "dead") ~> (pc = "dead" \/ Stuck)

\* What the log line of runner.go:635 says of the pairs a resumed process
\* passes over, "Port scan already completed": when the handler ends the
\* process, no probe is still under way at a position before the saved one.
ExitLeavesNoProbeBehind ==
  [][(sig = "closed" /\ sig' = "idle" /\ file.cfg.seed = seed) =>
       \A i \in Active : i >= file.cfg.index]_vars

-----------------------------------------------------------------------------
(* The refinement of ResumableScan.                                        *)

\* The pairs of an excluded address, in either order.
ExemptUnits ==
  {u \in Seeds \X (0 .. (ScanRange - 1)) : PairAt(u[1], u[2])[1] \in Excluded}

StatusOf ==
  CASE pc = "dead" -> "down"
    [] pc \in {"output", "close", "cleanup", "return"} -> "finished"
    [] OTHER -> "scanning"

\* What a checkpoint tells the process that reads it.
ClaimOf(c) ==
  [retries |-> c.retry,
   units   |-> IF c.seed = 0 THEN {}
               ELSE {<<c.retry, c.seed, i>> :
                       i \in {j \in 0 .. (ScanRange - 1) : j < c.index}}]

Abstract == INSTANCE ResumableScan WITH
  Orders <- Seeds,
  Units  <- 0 .. (ScanRange - 1),
  Exempt <- ExemptUnits,
  status <- StatusOf,
  done   <- settled,
  saved  <- ClaimOf(file.cfg)

\* The loop, its probes, the handler and resume.cfg together are a resumable
\* scan: only what was dealt with is ever saved, in the order it was dealt
\* with, and the output is reached by covering the range in each retry
\* (runner.go:598-707, resume.go, main.go:204-225).
ImplementsResumableScan == Abstract!Spec

-----------------------------------------------------------------------------
(* The inductive invariant behind the safety properties; it is proved in   *)
(* EnumerationProofs.                                                      *)

Looping  == pc \in {"next", "admit", "skip", "spawn"}
Finished == pc \in {"output", "close", "cleanup", "return"}

\* Inside a pass the checkpoint is the one of this pass, and everything the
\* loop has gone past is settled.
PassInv ==
  Looping =>
    /\ seed \in Seeds /\ cfg.retry = retry /\ cfg.seed = seed
    /\ \A i \in 0 .. (ScanRange - 1) : i < index => Settled(retry, seed, i)
    /\ pc # "next" => index < ScanRange

\* Between passes the retries before this one are done, and a checkpoint of
\* an earlier retry holds no seed any more.
RetryInv ==
  /\ pc = "retry" =>
       /\ retry > cfg.retry => cfg.seed = 0
       /\ \A r \in 0 .. (retry - 1) : PassDone(r)
  /\ pc = "dead" => retry = 0

\* Probes run inside a pass only, and the output is complete once given.
OutputInv ==
  /\ ~Looping => Active = {}
  /\ pc \in {"close", "cleanup", "return"} => FoundPairs \subseteq reported

IInv ==
  /\ TypeOK
  /\ CheckpointSound
  /\ PassInv
  /\ RetryInv
  /\ OutputInv
  /\ FinishedScanCoversAll

\* The probes under way at a host, and the one about to be launched there.
InFlight(h) == {i \in Active : TargetOf(seed, i)[1] = h}
Pending(h)  == IF pc = "spawn" /\ Ip = h THEN 1 ELSE 0

\* A host that is no ip:port target was below the threshold when its last
\* probe was admitted, with fewer than Rate others under way.
ThresholdInv ==
  /\ Cardinality(Active) <= Rate
  /\ \A h \in Hosts : IsFiniteSet(found[h])
  /\ PortThreshold > 0 =>
       \A h \in Hosts :
         (\A j \in 1 .. Len(WithPort) : WithPort[j][1] # h) =>
           Cardinality(found[h]) + Cardinality(InFlight(h)) + Pending(h)
             <= PortThreshold + Rate

=============================================================================

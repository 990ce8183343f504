# A TLA+ model of Naabu

Naabu is a port scanner: it walks over *addresses x ports* in a pseudo-random
order, probes each pair with a TCP connect or a raw packet, collects the open
ports, optionally refines them (verification, nmap, banners) and reports them
to stdout, to a file and to a dashboard. An interrupted scan leaves a
checkpoint, `resume.cfg`, from which `-resume` continues.

This directory models what is hard to test in it: the goroutines that share the
result store, the checkpoint against kills and signals, the two goroutines that
may finish a scan at once, the packets that arrive in the wrong phase, the
queue of ports that findings reorder while it is drained, the targets that are
streamed while they are resolved, the way from an open port to the user, and
the retry behaviour of the uploader.

## Inventory

| Component | State it keeps | Operations | Who calls whom |
|---|---|---|---|
| Enumeration loop, `pkg/runner/runner.go` `RunEnumeration` | retry, seed and index of the loop, `ResumeCfg`, the slots of `wgscan` | one retry over the permuted range, `handleHostPort` per pair | started by `main`; its goroutines write the result store |
| Resume checkpoint, `pkg/runner/resume.go` | `{retry, seed, index}` in memory and in `resume.cfg` | save, configure, cleanup | written by the loop, saved by the signal handler, read by the next process |
| Result store, `pkg/result/results.go` | `ipPorts`, `ips`, `skipped` behind one `RWMutex` | `AddPort`, `SetPorts`, `AddSkipped`, `HasSkipped`, `GetIPsPorts`, ... | probes, workers, loop, nmap, output |
| Signal handler and end of the process, `cmd/naabu/main.go` | a context, a channel of one signal | cancel, save, show, close, exit | runs concurrently with everything |
| nmap integration, `pkg/runner/nmap.go` | none of its own | collect, run, integrate | main or handler, before the output |
| Asset upload, `internal/pdcp/writer.go` | channel of 8, buffer, group id, closed flag | callback, autoCommit, upload, Close | `handleOutput` through `OnResult`, `Runner.Close` through `OnClose` |
| Raw packet engine, `pkg/scan/` | handler pool, phases, send and result channels | Acquire, Release, Enqueue*, read, result workers | loop, host discovery, predictive scan |
| Predictive scan, `pkg/runner/smartscan.go`, `pkg/prediction` | the priority queue and its index by port number, `queuePtr`, the batch of the fast SYN sender (`fastsend.go`) | one queue per retry, pop a port, scan it on every target, boost what correlates with a finding | instead of the plain loop; called back through `OnReceive` by probes and workers |
| Targets, `pkg/runner/targets.go`, `ips.go` | the target file, `IPRanger`, `streamChannel` | Load, merge, resolve, AddTarget, a goroutine per line | before the loop, or beside it with `-stream` |
| Port specification, `pkg/runner/ports.go` | the list of ports | ParsePorts | at start-up |
| Options, `pkg/runner/options.go`, `validate.go`, `target/parser.go` | the options | parse, validate, fall back | `main` and `NewRunner` |
| Output, `onReceive` and `handleOutput` of `runner.go` | `unique`, the output file | print a finding at once, write everything at the end | probes and workers; main or handler |
| Enhancement, `pkg/runner/enhance.go` | `allFindings` | a goroutine per port: grab a banner, look for findings | `handleOutput` through `OnResult`; the summary reads it |
| Banners and findings, `banner_grab.go`, `pkg/banner`, `pkg/vuln` | none | choose a probe, classify the answer, match signatures | `onReceive`, enhancement |
| Routing, privileges, limits, tests | see PROJECT.json | | |

What makes each of them correct:

- Loop and checkpoint: no pair is passed over that nobody launched, over any
  number of kills and resumes; a scan that ends has gone over everything; the
  port threshold is overshot by a bounded amount; only the deadlock of finding
  2 keeps a process from its end.
- Result store: a reader sees one consistent state, and nobody waits for ever.
- End of the process: main's undisturbed exit reports everything recorded; a
  signal ends the process.
- nmap: what it reported is in the store, with its service, before the output.
- Upload: nothing that reached the buffer is lost to a failing server, nothing
  is stored twice without cause, Close waits for everything and returns.
- Raw engine: answers count for the phase they belong to, no worker and no
  reader blocks the others, a handler has one owner.
- Predictive scan: only the order of the ports changes; the most likely port is
  taken; every pair is tried once per retry; the map into the heap never lies.
- Targets: whatever is loaded reaches the scan, streamed or not, and the run
  ends; options that exclude each other never meet.
- Output: what is found is printed, written and examined, and said of the host
  it belongs to.

## Modules

| Module | Models | Composes |
|---|---|---|
| `Enumeration` | the loop, its probes, the checkpoint, the handler, kill and restart | |
| `ResumableScan` | abstract: a scan that is stopped and resumed, and what its checkpoint may claim | |
| `EnumerationProofs` | the checkpoint, coverage, output and threshold of the loop; it implements `ResumableScan` | `Enumeration`, TLAPS |
| `SequenceLemmas` | induction, recursive functions, joining, counting and swapping in sequences: what several proofs share | TLAPS |
| `Results` | the locked result store, main and handler finishing over it, nmap | |
| `ResultsProofs` | the output is one state of the store, nmap's report is in it | `Results`, TLAPS |
| `UploadWriter` | the asset uploader | |
| `UploadWriterProofs` | nothing is lost or stored twice, what Close leaves, how large a chunk is | `UploadWriter`, `SequenceLemmas` |
| `RawScan` | host discovery, raw scan, readers, channels, result workers, verification, Close | |
| `RawScanProofs` | what is taken for an open port, when results are settled | `RawScan`, TLAPS |
| `PortSpec` | port lists: ranges, protocols, exclusion, top ports | |
| `Prediction` | the default correlation model | |
| `PortQueue` | the heap of ports with its index by number | `Prediction`, `PortSpec` |
| `SmartScan` | the predictive scan, the fast SYN sender, those who report to it | `PortQueue` |
| `SmartScanProofs` | the queue is a heap that keeps the ports, its index and the best evidence, every pair is tried, only two paths pass exclusions by, the list of ports holds | `SmartScan`, `SequenceLemmas` |
| `Startup` | options, their validation, the forms of a target | `PortSpec` |
| `Targets` | merging, resolving, streaming, the ends that take the targets | `Startup` |
| `TargetsProofs` | modes never meet, every target is scanned | `Targets`, `SequenceLemmas` |
| `Banner` | which probe a port gets, what a service is taken for, the findings about it | |
| `Report` | `onReceive`, `handleOutput`, enhancement, summaries | `Banner` |
| `ReportProofs` | what is found reaches the user, once, and said of its host | `Report`, TLAPS |
| `MC*` | instances for TLC | the module they are named for |

### Enumeration

`pc` is where the main goroutine is: `retry` (top of the retry loop), `next`
(top of the loop over the range, then over `targetsWithPort`), `admit` (the
checkpoint is recorded, the host checks come), `skip` (waiting in
`AddSkipped`), `spawn` (waiting in `wgscan.Add`), then `output`, `close`,
`cleanup`, `return`. Each is a point between two accesses to shared state, so
every interleaving with probes and handler that the code allows is there.
`probe[i]` is the goroutine launched for index `i`; `sig` is the handler;
`file` is `resume.cfg`, which may be torn between the truncation and the write
of `os.WriteFile`. A process ends by returning, by `os.Exit`, by the panic of a
second `scanner.Close`, or by a kill at any moment; `Restart` is a new process
with `-resume`. The permutation `b.Shuffle` is a constant, any family of
permutations. `settled` is a history: the positions that were launched, or
dropped because their host is over the threshold.

A host over the threshold counts as settled when its pair is dropped, and a
launched probe counts when it is launched: this is what the checkpoint can
promise. That it does *not* promise completed probes is the finding of the
`skip` run.

The results are behind a read-write lock. A probe that found its port open
waits in `AddPort`, the loop in `AddSkipped`, until the handler's range over
`GetIPsPorts` is through (`NoReader`); and that range, which takes its read
lock once more for each host, does not go on while one of them waits
(`CanRLock`). `Stuck` is this deadlock, and `EndsUnlessStuck` says that nothing
else holds a process up. Main's own output comes after `wgscan.Wait`, when
nobody writes any more, so it is one step.

Not in this module: raw packets, host discovery and verification, which are in
`RawScan`, and the predictive scan, which is in `SmartScan`. The progress bar,
the rate limiter and the warm-up only take time.

### ResumableScan

The abstract scan knows nothing of loops, locks or files. It deals with units
of work in some order, retry by retry; at any time a process may be told all
that is done, or less, or nothing (`Save`, `Forget`); it finishes only when
every retry went over everything in one order. `Enumeration` maps to it by
`StatusOf` (from `pc`), `settled` as what is done, and `ClaimOf` (what the file
says: the retries below its retry, the positions below its index in the order
of its seed). Excluded pairs are exempt. `ImplementsResumableScan` is checked
in `resume` and proved: a checkpoint that names the wrong permutation, is ahead
of the loop or survives its retry is a `Save` the abstract scan refuses.

### Results

`readers` and `writer` are the `RWMutex`: `Lock()` first keeps new readers out
(`writer`), then waits for the readers to leave, as Go documents. The producer
goroutine of `GetIPsPorts` is `iter[c]`: it checks `HasSkipped` for the next
host (a second read lock), then blocks in its send. A consumer that returns
early leaves the producer in its next send with the lock held (`Returns`). The
finishers are main, after `wgscan.Wait`, and the signal handler, which may
start at any time; each runs `handleNmap` and then `handleOutput`. nmap is
external: it runs once for each group of hosts with a like number of ports, and
each run reports any subset of the hosts and ports it was given, or fails,
which reports nothing. Its hosts are integrated in any order, `UpdateHostOS`
for each of them, also one without an open port. `handleOutput` then asks
`HasIPsPorts`, and without ports `HasIPS` and `GetIPs`, which keeps the *write*
lock until its consumer is through. The further range of `handleOutput` with
`-verify` (`runner.go:1061`) is not repeated here: it is one more reader, at
the same place. All hosts share the `Port` objects of the option list
(`PickPort`), so the service that nmap puts into one is held by all of them
(`own` names the hosts whose entry is an object of their own); what a host
loses is an object replaced by `AddPort`.

### UploadWriter

Clients (main and the handler) call the callback once per host and then
`Close`; `commit` is where `autoCommit` is: at its select, or in one of its
three uploads (`tick`, `full`, `final`). The server stores a chunk or not,
answers or not, and a successful answer names a group or not, as `asset_id` may
be empty (`AnswerNames`). `ClientResends` is the HTTP client that sends a
request again whose answer it did not get, so that the server stores it twice
for one success. `stored`, `created`, `unanswered` and `unnamed` are histories
of what happened there. Lines have lengths, and `SizeOf` counts newlines as the
buffer does, because the size check does not.

### RawScan

`pc` is the main goroutine from host discovery to `Scanner.Close`, `phase` the
`Phase` that every reader and worker consults. `sent` holds the probes handed
to the write workers: any of them may be answered at any later moment, more
than once, or never. `layers` are the two structs into which a reader decodes
every packet; a packet fills one and leaves the other as it was, and this is
what the reader then looks at. `chan` are the three channels of the listen
handler, and a reader that finds one full waits in `reader`. A worker receives,
prints (TCP only), reads the phase and then writes the store in separate steps,
so the phase and even the store may change in between. The reads of the phase
in one switch are one step: no order of phase changes tells them apart.
`atDone` is a history of what was recorded, or being recorded, when the phase
became Done. `AddPort` waits in `Lock()` while main ranges over the results, in
the verification or in the output, and the range does not go on while it waits:
`Stuck` is that deadlock again, and Close is promised only without it. When the
verification puts its own results in place of the others, a writer that waits
for the old ones is through (`EndVerification`).

An ICMP or ARP reply counts in discovery whatever host sent it, so a host that
is no target may be probed; its answers are then discarded. What the model also
shows, and no text of the repository denies: a UDP answer after a SYN-ACK is
handed to the TCP worker as an open port of the host that sent UDP
(`scan_raw.go:652`), which is why `OneProtocolFindsOpen` says what it says.

The loop's retries, threshold and checkpoint are in `Enumeration`, the locks of
the store in `Results`; IPv6, the pool of handlers and source addresses are not
modelled.

### SmartScan

`pc` is `runPredictiveScan`: `collect` and `store` (the queue is built from the
open ports it read before it is published), `pop`, `deal` and `spawn` (one port
on every address), `withPort`, `done`. The heap of `PortQueue` is the one of
`container/heap`, position by position, because the hazard is in the map that
follows its swaps. An agent is a goroutine that may call `OnReceive`: the
single TCP worker of a raw scan, or the probe in a slot of `wgscan`; it loads
`queuePtr` in one step and boosts in another, so a finding can reach a queue
that has just been replaced. The mutex of the queue makes one boost atomic; it
walks over the correlations of the port in the order in which Go ranges over a
map, which is any order (`Walks`). The model of correlations is a constant,
`Model`; the run gives it `DefaultModel`, the proofs hold for any. The loops of
the heap, of the queue's construction and of the parser are recursive
functions, so that they can be proved about. The fast path, the standard raw
path and the connect path are separate actions with the guards each of them
has: the IPv6 fallback of the fast path has none. What records a port or a
skipped host waits while the handler's output ranges over the results
(`WaitInLock`, `Written`), holding its slot, and the range waits for it in turn
(`Stuck`): a scan that is interrupted may so never end, and
`ScanEndsUnlessStuck` says that it ends otherwise. Addresses are indexes into
blocks, added modulo the address space as in `pickIPv4`; shuffles are any
permutations. `popped`, `boosted`, `tried` and `probed` are histories.

The two top lists are in numeric order (`ports.go:19-20`), and
`buildPopularityRank` takes the place in the list for popularity. So the "most
likely" port of `smartscan.go:24-25` is, before the first finding, the one with
the lowest number: `PopsMostLikely` speaks of the priorities, which are
computed as intended, and not of the ports that are in truth likely.

A TCP and a UDP port of one number share one entry of the index, the code keeps
it pointing at the last one moved, and the properties promise the exact
priority only for numbers that the list holds once.

### Startup and Targets

`Startup` holds the pure part: what `ValidateOptions` switches and refuses, in
its order, what `NewRunner` falls back to, and the forms of a target. A command
is a record of the options that matter; a line is what its text stands for (a
network, an address, a name with its resolutions, with a port or not, or
nothing that resolves), and resolutions are sets of addresses. Only what a name
resolves to is asked for its IP version: an address that is given with a port
is taken as it is. `Targets` runs it: `mergeToFile` glues the last line of a
file without a final newline to the line that follows; a goroutine per line
behind a pool of `-c` runs `AddTarget`, each send and each access to the ranger
a step of its own; the scan takes its targets from the ranger, or streams them
while the lines are still being resolved. How pairs are gone through is in
`Enumeration` and `SmartScan`, so here a target is launched in one step; with a
threshold the active stream launches any part of it that reaches the threshold
(`Launches`), or none when the host is skipped already. A line longer than the
buffer of `bufio.Scanner` ends the reading without an error:
`EveryTargetScanned` owes only what comes before it. The merged file may also
fail to open, after which the channel is closed and nothing scanned
(`OpenFails`), and a source address, an interface or a source port may be
refused (`SourceFails`).

### Banner and Report

`Banner` gives, for a remote service that greets, answers or stays silent, with
or without TLS, what the two grabbers make of it, and the findings of
`vuln.Scan`. `Report` follows an open port: `onReceive` looks into `unique`,
marks, grabs and prints in separate steps; main and the signal handler both run
`handleOutput`; `OnResult` starts a goroutine per port and waits for all.
`unique` is a cache of `CacheSize` entries that drops one, here any, when it is
full (`Evictions`); `evicted` is a history. A `Port` object is the answer's own
in a raw scan and for a target `host:port`, and shared by all hosts in the
range of a connect scan, and a banner is a field of it (`PortObject`); the
object in the results is the one recorded last (`AddPort`), and an empty answer
erases a banner as any other does (`SetBanners`). Between its look at the ports
without a banner and the assignment `onReceive` is one step for all ports of a
host (`GrabBanner`), which only `-verify` hands it several of. With `-verify` a
raw scan goes on recording after the phase is Scan again (`InScan`).

## Runs

| Run | Shows | Bounds |
|---|---|---|
| `resume` | checkpoint, coverage, output, threshold, termination and the abstract scan, over interrupts, kills and resumes | 2 processes, 2 scanned hosts (one excluded), an `ip:port` target behind a CDN, 3 ports, 2 retries, 2 seeds, rate 1, threshold 1 |
| `skip` (violated) | a resumed process passes over pairs that were never scanned | 3 addresses, one port, an `ip:port` target, 2 processes |
| `finish` | output is a snapshot, nmap's report is integrated, only a lost read lock hangs | 2 hosts, 2 ports, threshold 2, a report of 1, a group per number of ports |
| `signal` (violated) | the handler hangs in the recursive read lock | no nmap |
| `nmap` (violated) | AddPort after an early return out of a range never comes back | a report of 2, no signal |
| `server` | nothing buffered is lost, nothing stored twice and no second group without cause, Close drains and returns | 2 clients with 2 hosts, channel of 1, 2 failures, one line longer than a chunk |
| `full` (violated) | the line that does not fit is dropped | 1 client, 3 hosts |
| `phases` | answers count for their phase and host, Done settles the results, Close returns unless the read lock is taken twice | 3 hosts (one no target), a TCP and a UDP port, channels of 1, 2 packets |
| `predictive` | order, priorities, coverage, the list of ports, where exclusions are not looked at, and what can hang a predictive scan | 6 port options, 3 modes, 2 IPv4 addresses (one excluded) and an excluded IPv6 address, 2 retries, 2 slots, batches of 2, threshold 2, 2 permutations |
| `load` | every target is scanned, modes exclude each other, only an open or a nil channel hangs | 339 commands, up to 6 lines (one too long for the reader), threshold 2 in some, 3 goroutines, 4 IPv4 addresses (one excluded) and an IPv6 address |
| `report` | what is found is printed, written, examined, and said of its own host | 9 commands, 4 deliveries (one of UDP, one of another host, one of a target `host:port` that the range has too), 2 hosts and one of another version, a cache of 1, 3 signatures, rate 2, a signal in one command |
| `verified` (violated) | a late answer is reported after a verification though nobody dialled it | as `phases`, with `-verify` and no discovery |

One interrupted and one resumed process meet every way a checkpoint can be
written and read (the proofs cover any number of them); two retries are needed
for a checkpoint that is cleared in between; two seeds for a checkpoint that
must name the permutation it counts in. With threshold 1 and rate 1 the bound
of the overshoot is reached. Two hosts are needed for a producer that still has
something to send after a match. A channel of one and a chunk of two lines are
full at once. Two packets fill a channel and its reader, overtake each other
between two workers, and leave one layer struct stale for the other. Two
findings at once race for one queue; three ports make a heap in which a raised
one moves; a batch of two is left half full by three addresses. Three
goroutines for up to six lines make the reader wait. Four deliveries meet in
pairs on one key, on one port object and on one host; a cache of one entry
evicts at the second key, as the cache of 1500 does at the 1501st. A group of
one port and one of two are two runs of nmap. A plain `-p -` in `load` would
make TLC expand 65535 ports for every step whose fairness it looks at; the run
has the `-p -` that a derived port turns into an error, and the proofs cover
the other.

`finish`, `signal` and `nmap` turn deadlock checking off: the system really
stops there, and the liveness properties say when.

## Fairness

`Report` and `RawScan`'s environment promise nothing: what `Report` states are
safety properties. Elsewhere goroutines that can run do run (weak fairness of
the main loop, of the handler, of every probe, of the finishers, of autoCommit
and of the result workers): that is what the Go scheduler gives. A connect ends
within its timeout and an upload within that of its HTTP client. Signals,
kills, restarts, ticks, packets and answers of a particular kind are never
promised. A result worker whose context is done while its channel has an item
takes either case of its `select` at random, so that `Stop` is strongly fair.

The fairness of `SmartScan` is that of the main goroutine and of each probe;
the steps that build, pop and fix the heap are named in it by the change of
`pc` or `agent` they make (`Goes`, `Applied`), which no other step makes,
because TLC cannot decide whether a step that recomputes a heap is enabled.

## What is proved

With TLAPS, for every value of the constants:

- `InductiveInvariant`: `Spec => []IInv`. `CheckpointSound` alone is not
  inductive: that the saved index is sound needs to know that *inside a pass*
  the checkpoint carries the retry and seed of this pass and that everything
  below the loop's index is settled (`PassInv`); that a retry may start at a
  restored seed needs the retries before it done, and no seed left of an
  earlier one (`RetryInv`); the output needs that no probe outlives its pass
  (`OutputInv`).
- `TypeCorrect`, `CheckpointSoundness`, `ScanCoverage`, `OutputComplete`,
  `CheckpointForward` follow from it.
- `Refinement`: `Spec => ImplementsResumableScan`. A sound checkpoint is a
  claim the abstract scan may save (`SoundMaps`), a retry whose pass is done is
  complete there (`PassDoneMaps`), a file that is absent or torn claims
  nothing, and nobody saves once the process is down (`DownIsQuiet`, proved on
  its own); `MainMaps`, `SignalMaps`, `EnvironmentMaps` and `ProbeMaps` then go
  over the actions.
- `ThresholdBound`: `ThresholdInv` counts, for a host, the recorded ports, the
  probes under way and the one admitted; their sum stays within threshold plus
  rate, because a pair is admitted only below the threshold and launched only
  below the rate.

- `UploadWriterProofs`: `UploadTypeCorrect`, `StoredOnce`, `CloseDrains`,
  `ChunkIsBounded`, `BufferKeepsLines`. That a line is stored once needs to
  know that it enters the buffer once: `SentOnce` says that a line is still to
  be reported, or once in the channel, and that only one which is neither can
  be in the buffer or stored. `CountedOnce` then counts: a line in the buffer
  was stored by uploads whose answer was lost and by no others, one that left
  it once more. The number of groups is counted by the answers that were lost
  or named none. `Drained` says what `autoCommit` leaves its loop with.
  `SizeOf` is recursive: `SizeOfAppend` shows, by induction on the length, that
  one more line adds its length and a newline, which is all that the bound on a
  chunk needs.
- `ResultsProofs`: `ResultsTypeCorrect`, `SnapshotIsPutOut`,
  `ReportIsIntegrated`. `OutputIsSnapshot` speaks of the end only; `OutputInv`
  says that in the middle of the loop the map is what it was when the loop
  began and that what is out are the entries of the hosts that are not left. It
  holds because a range loop in progress holds a read lock (`RangeInv`) and
  whoever changes the map has waited for all readers (`MapChangesLocked`).
  `ReportInv` follows an entry of nmap's report from the report through the
  loop to the map; it needs that no probe records any more once main is past
  the scan (`ProbesThrough`).
- `RawScanProofs`: `RawScanTypeCorrect`, `OneProtocolIsExact`, `DoneIsSettled`.
  `Carried(S)` says that everything between a reader and the store is in `S`;
  it is invariant for `S` the probes, and for `S` the open pairs as long as one
  of the two layer structs was never filled. `Settled` holds without
  verification only, because with it the phase goes back to Scan.
- `ReportProofs`: `ReportTypeCorrect`, `PrintedOnce`, `BannersMix`,
  `FoundReachesUser`. Marking a port in `unique` and printing it are separate
  steps of several goroutines, so the invariant says of each port that is
  marked, or was until the cache dropped it, who has printed it or will
  (`MarkedInv`, `KeyedInv`), for a raw scan (`RawShown`), a connect scan
  (`ConnectShown`) and one with verification (`VerifyUnique`, `VerifyShown`),
  and what each finisher has written and examined so far (`OutputInv`).
- `TargetsProofs`: `TargetsTypeCorrect`, `ModesNeverMeet`, `TargetsAreScanned`.
  `OptionsInv` says that the options are those of a command that went through
  the validation, so that what it excludes stays excluded. `LoadInv` ties the
  goroutines of the pool to the lines read, `WorkInv` says that one that has
  its targets drops none: each is still in its hand, or in the ranger, or
  scanned from the stream; `MainInv` says what the main goroutine has done by
  where it is, and that it scans only what was loaded to the end. `BusyInv`
  bounds the pool.

- `SmartScanProofs`: `SmartScanInvariant` and, from it, `SmartScanTyped`,
  `SmartScanMap`, `SmartScanKeepsPorts`, `SmartScanPriorities`,
  `SmartScanPops`, `SmartScanOrder`, `SmartScanTriesAll`,
  `SmartScanExclusions`, `SmartScanPorts`. The heap comes first: a queue is
  `Alike` another if it holds the same ports, each as often, and its map still
  has every number; it is `Moved` if the priorities went with them; `Queues`
  are those whose map leads to the right items, and `Heaps` those that are
  ordered besides. `SwapKeeps`, and from it `ClimbKeeps`, `SinkKeeps`,
  `UpKeeps`, `DownKeeps`, `RaiseKeeps`, `BoostKeeps`, `PushKeeps`, `PopKeeps`,
  `NewQueue` say that every heap operation keeps both, for a heap of any size
  and any order of a walk. `Leads`, an entry leads to an item of its own
  number, is what keeps the map right when two items of one number change
  places, and when the pop takes the last item off: no entry of another number
  can lead there. While an item climbs the queue is `Rising`, ordered but for
  the item at hand, and what is below that is not before its parent; while one
  sinks it is `Sinking`, which is the same turned round. `RisingSwap` and
  `SinkingSwap` keep that, and as the position only falls, or only grows, the
  rounds come to one that moves nothing and leaves the queue ordered
  (`ClimbRises`, `SinkSinks`). `Fix` first sinks a raised item, which moves
  nothing because a higher priority is still before those below it. So the
  first item is before every other (`FirstIsBest`). `EvidenceInv` says what the
  priorities are: `BoostKeeps` shows that a boost takes each port that is the
  only one of its number to the larger of its priority and the correlation,
  wherever the targets before it have moved it and whatever the walk, and
  `PriorityFacts` that the maximum of the scores does the same when one more
  port is open. `QueueInv` then counts: popped and queued ports are the list.
  The port options are recursions of their own (`DedupKeepsNumbers`,
  `WithoutKeepsOthers`, `SegmentFacts`, `ParsedAsRequested`). That every pair
  is tried rests on `BlockFacts` and `AddressFacts` (each index has one block,
  and `pickIPv4` and `PickIP` agree, without a carry out of the address space),
  on the permutation being onto (`OrderFacts`), and on `TriedInv`: what the
  loop passed by is tried, in the batch, in a slot, or was not wanted. What is
  settled stays so because results, skips and what is sent or in the batch only
  grow (`Grows`).

The assumptions on the constants are `ConstantsAssumption` (types) and
`ShuffleAssumption` (`Shuffle` maps the range to itself and is onto) for the
loop; `UploadAssumption` (a line has a length, a channel a place),
`ResultsAssumption` (main and the handler are two, `None` is no host),
`RawScanAssumption` (the ports of the scan are TCP or UDP, those of discovery
TCP or ICMP, `None` is no packet), `ReportAssumption` (an answer is of a host
that has a name), `TargetsAssumption` (a command is a record of the options and
its lines are targets), `PortSpecAssumption` (the top ports are ports),
`PortQueueAssumption` (a correlation is a percentage, which also bounds the
maximum of the scores) and `SmartScanAssumption` (types; a block of IPv4
addresses ends within the address space, as a CIDR does; each shuffle is onto,
as `blackrock` is). They are types and distinctness, no behaviour; TLC
evaluates each of them in the runs of its module.

Induction over data is done where a proof needs it, on sets of numbers
(`SetInduction`, from the well-foundedness of `<`): for `SizeOf`, for
`FlattenSeq`, and, in `RepeatsExists` and `RepeatsWithin`, for a recursive
function that repeats a step, which is the form of every loop of `PortQueue`
and `PortSpec`.

Only model-checked: the liveness properties (`EndsUnlessStuck` of three
modules, `ClientsGetThrough`, `CloseReturnsUnlessStuck`,
`ScanEndsUnlessStuck`), which need fairness and ENABLED, out of reach of the
provers.

## Findings

1. `skip`: `runner.go:635` calls the pairs a resumed scan passes over
   *completed*; they were only launched. After `cancel()` the loop even goes on
   recording positions whose probes return at once.
2. `signal`: `GetIPsPorts` takes its read lock recursively (`results.go:92`).
   With a writer in between, the handler that announced "exiting gracefully"
   hangs, and the next signals are swallowed.
3. `nmap`: a `return` inside a range over `GetIPsPorts` (`nmap.go:239`,
   `results.go:256`) leaks the producer and its read lock.
4. `full`: `autoCommit` drops the line that does not fit (`writer.go:168`).
5. `verified`: `ConnectVerification` leaves the phase at Scan
   (`runner.go:859`), so a late answer enters the verified results undialled.

The same deadlock is met by a probe of the loop, a result worker and a slot of
the predictive scan; it is the only thing that `EndsUnlessStuck` of
`Enumeration`, `CloseReturnsUnlessStuck` and `ScanEndsUnlessStuck` set aside.

## What the properties set aside

Here a text of the repository promises more than the code does; the properties
name the case, so that everything else is claimed, and no run is spent on it.

- Excluded hosts: `src/README.md:64` and `options.go:160` speak of "hosts to
  exclude from the scan". The IPv6 fallback of the fast path looks at neither
  exclusion, threshold, known ports nor CDN (`smartscan.go:170-181`), and a
  target given as `ip:port` at neither exclusion nor threshold
  (`scanTargetsWithPort`, `smartscan.go:262-288`). `UncheckedPathsAside` says
  that these two are the only ways to an excluded host; the run has an excluded
  address for each.
- All ports that reply: `src/README.md:26` says that the scanner lists them.
  UDP answers of a raw scan never reach `onReceive`, so that in text they show
  in the block of the callback only, and with an upload nowhere but on the
  dashboard; with CSV and nmap the rows that `runner.go:247` postpones are left
  in a writer that nobody flushes (`runner.go:1171`, `1184`). `HasLine` names
  both; the file and the callback are claimed for them. A file that cannot be
  created ends `handleOutput` with nothing in it (`runner.go:1081`).
- With `-verify` a raw scan goes on recording (finding 5): what is recorded
  after main began its output is in neither file nor summary. `FoundIsReported`
  claims there what the output ranged over.
- Priorities: see `SmartScan` on what "most likely" rests on.

## Observations

Behaviour the models show that no text of the repository denies; the properties
name these exceptions too.

- A `Port` is shared by the hosts in the range of a connect scan: a banner, or
  a service that nmap reports, is shown for every host with that port, and
  `p.Banner` is written while others read it (`runner.go:256`,
  `BannersMixOnlyIfShared`).
- `unique` is keyed by `ip:port` without the protocol, forgets a port when more
  than 1500 others came, and `onReceive` returns for the whole host at the
  first port it knows: with `-verify`, `handleOutput` hands it hosts with
  several ports (`runner.go:1060`).
- The signal handler prints its summaries before it runs `handleOutput`
  (`main.go:216`), so its own findings are not in them. Its own run of nmap may
  lose a service to a probe that records late: `ReportIntegrated` is about
  main.
- What one of main and the handler has not put out yet is cut off when the
  other ends the process (`main.go:224`).
- A TCP and a UDP port of one number share an entry of the queue's index, and a
  list that names one number for both keeps the first (`ports.go:190`).
- A port derived from a target turns `-p -` into `-,443`, which is an error
  (`main.go:108-132`, `ports.go:78`).
- `-passive` with a line `host:port` ranges over a nil channel for ever
  (`runner.go:471`); with `-stream` a failing merge leaves the channel open
  (`targets.go:41`): `EndsUnlessStuck` of `Targets` says so.
- A file without a final newline glues its last line to the next source
  (`targets.go:71`); what comes after a line of 64 KiB is not read
  (`targets.go:108`); a line `host:port` loses its own port when `-p` is given
  without `-stream` (`targets.go:204`); the active stream looks at neither the
  deny list nor the IP version (`runner.go:439`).
- `-rate 1` with a proxy becomes a rate of 0 (`limits/rate.go`).
- A torn or deleted `resume.cfg` claims nothing: the next process starts anew.

## Not modelled

- `Train`, `Merge`, `Predict` and `Prioritize` of `pkg/prediction` and
  `parseIPv4Fast` have no caller outside tests; `ScanMap` is never filled.
- The bytes of packets, TLS and HTTP, the layout of output, the flags and the
  text of messages: no property depends on them. The signature table of
  `pkg/vuln` and the top port lists are constants.
- Routing (`pkg/routing`) parses tables of the operating system; privileges,
  limits and build flags are constants that `Startup` takes as given; the test
  programs are not part of the scanner.
- The pool of listen handlers across several scanners of one process: the
  command has one.
- A resumed scan whose host discovery finds other hosts than before.

## Plan

Done: `Enumeration` with its abstract specification, `Results`, `UploadWriter`,
`RawScan`, `SmartScan` with `PortSpec`, `Prediction` and `PortQueue`, `Targets`
with `Startup`, `Report` with `Banner`, each with its proofs.

1. A range of `Enumeration` that differs between two processes.

-------------------------- MODULE EnumerationProofs --------------------------
(***************************************************************************)
(* Proofs about Enumeration: its inductive invariant IInv, and from it the *)
(* soundness of the resume checkpoint, the coverage of a finished scan and *)
(* the completeness of the output of a process that ends undisturbed; the  *)
(* bound on the port threshold; and that it implements ResumableScan.      *)
(***************************************************************************)
EXTENDS Enumeration, FiniteSetTheorems, TLAPS

USE DEF sigVars

-----------------------------------------------------------------------------
(* The arithmetic of the permuted range.                                   *)

\* ScanRange is a natural number, so that the loop bounds make sense.
LEMMA ScanRangeType == ScanRange \in Nat /\ Len(WithPort) \in Nat
  BY ConstantsAssumption DEF ScanRange

\* An index below a * b splits into a quotient below a and a remainder
\* below b: what PickIP and PickPort rely on.
LEMMA DivModRange ==
  ASSUME NEW a \in Nat, NEW b \in Nat, NEW x \in 0 .. (a * b - 1)
  PROVE  /\ b > 0
         /\ x \div b \in 0 .. (a - 1)
         /\ x % b \in 0 .. (b - 1)
<1>1. b > 0
  <2>1. SUFFICES ASSUME b = 0 PROVE FALSE
    OBVIOUS
  <2>2. a * b = 0
    BY <2>1
  <2>. QED
    BY <2>2
<1>2. x % b \in 0 .. (b - 1)
  BY <1>1
<1>3. PICK q \in Int : q = x \div b
  BY <1>1
<1>4. x = (b * q) + (x % b)
  BY <1>1, <1>3
<1>5. q >= 0
  BY <1>1, <1>3
<1>6. q < a
  <2>1. SUFFICES ASSUME q >= a PROVE FALSE
    BY <1>3
  <2>2. b * q >= b * a
    BY <2>1, <1>1, <1>5
  <2>3. x >= b * q
    BY <1>4, <1>2, <1>1, <1>5
  <2>4. x >= a * b
    BY <2>2, <2>3, <1>5
  <2>. QED
    BY <2>4
<1>. QED
  BY <1>1, <1>2, <1>3, <1>5, <1>6

\* Every position of the loop names a target address and a port.
LEMMA PairAtType ==
  ASSUME NEW s \in Seeds, NEW i \in 0 .. (ScanRange - 1)
  PROVE  PairAt(s, i) \in Hosts \X Ports
<1>. DEFINE x == Shuffle[s][i]
<1>1. x \in 0 .. (Len(Ips) * Len(PortList) - 1)
  BY ShuffleAssumption DEF ScanRange
<1>2. Len(Ips) \in Nat /\ Len(PortList) \in Nat
  BY ConstantsAssumption
<1>3. /\ x \div Len(PortList) \in 0 .. (Len(Ips) - 1)
      /\ x % Len(PortList) \in 0 .. (Len(PortList) - 1)
  BY <1>1, <1>2, DivModRange
<1>4. /\ (x \div Len(PortList)) + 1 \in 1 .. Len(Ips)
      /\ (x % Len(PortList)) + 1 \in 1 .. Len(PortList)
  BY <1>2, <1>3
<1>5. /\ Ips[(x \div Len(PortList)) + 1] \in Hosts
      /\ PortList[(x % Len(PortList)) + 1] \in Ports
  BY <1>4, ConstantsAssumption
<1>. QED
  BY <1>5 DEF PairAt

\* So does every probe, those of the ip:port targets included.
LEMMA TargetType ==
  ASSUME NEW s \in Seeds, NEW i \in ProbeIds
  PROVE  TargetOf(s, i) \in Hosts \X Ports
<1>. USE ScanRangeType
<1>1. CASE i < ScanRange
  <2>1. i \in 0 .. (ScanRange - 1)
    BY <1>1 DEF ProbeIds
  <2>. QED
    BY <1>1, <2>1, PairAtType DEF TargetOf
<1>2. CASE ~(i < ScanRange)
  <2>1. i - ScanRange + 1 \in 1 .. Len(WithPort)
    BY <1>2 DEF ProbeIds
  <2>. QED
    BY <1>2, <2>1, ConstantsAssumption DEF TargetOf
<1>. QED
  BY <1>1, <1>2

-----------------------------------------------------------------------------
(* The histories only grow, so what was settled stays settled.             *)

\* No step forgets that a pair was launched or its host skipped.
LEMMA SettledGrows == [Next]_vars => settled \subseteq settled'
<1>. SUFFICES ASSUME [Next]_vars PROVE settled \subseteq settled'
  OBVIOUS
<1>1. CASE Main
  BY <1>1 DEF Main, SkipRetry, BeginPass, EndRetries, SkipExcluded,
     SkipResumed, Checkpoint, SkipHost, AddSkippedWaits,
     AddSkipped, Admit, Spawn, SpawnWithPort, EndPass,
     HandleOutput, Close, Cleanup, Return
<1>2. CASE SignalHandler
  BY <1>2 DEF SignalHandler, SaveTruncates, SaveWrites, ShowScanResultOnExit, ShowHost, AllShown,
     CloseOnSignal, Exit
<1>3. CASE Environment
  BY <1>3 DEF Environment, Interrupt, DoubleClosePanics, Kill, Restart,
     Stopped, vars
<1>4. ASSUME NEW i \in ProbeIds, Probe(i) PROVE settled \subseteq settled'
  BY <1>4 DEF Probe, ProbeReturns, ProbeDials, ProbeClosed, ProbeOpen, AddPort
<1>5. CASE UNCHANGED vars
  BY <1>5 DEF vars
<1>. QED
  BY <1>1, <1>2, <1>3, <1>4, <1>5 DEF Next

\* A sound checkpoint stays sound, and a finished retry stays finished, while
\* the history grows.
LEMMA SoundStays ==
  ASSUME settled \subseteq settled'
  PROVE  /\ \A r, s, i : Settled(r, s, i) => Settled(r, s, i)'
         /\ \A r : PassDone(r) => PassDone(r)'
         /\ \A c \in ResumeCfg : Sound(c) =>
              /\ c.seed = 0 => c.index = 0
              /\ c.seed # 0 => \A i \in 0 .. (ScanRange - 1) :
                     i < c.index => Settled(c.retry, c.seed, i)'
              /\ \A r \in 0 .. (c.retry - 1) : PassDone(r)'
<1>1. ASSUME NEW r, NEW s, NEW i, Settled(r, s, i) PROVE Settled(r, s, i)'
  BY <1>1 DEF Settled
<1>2. ASSUME NEW r, PassDone(r) PROVE PassDone(r)'
  BY <1>1, <1>2 DEF PassDone
<1>. QED
  BY <1>1, <1>2 DEF Sound

\* The checkpoint of a fresh process claims nothing.
LEMMA NewCfgSound == NewResumeCfg \in ResumeCfg /\ Sound(NewResumeCfg)
  BY ConstantsAssumption DEF NewResumeCfg, ResumeCfg, Sound

-----------------------------------------------------------------------------
(* The inductive invariant.                                                *)

\* It holds when the first process starts.
LEMMA InitIInv == Init => IInv
<1>. SUFFICES ASSUME Init PROVE IInv
  OBVIOUS
<1>1. NewResumeCfg \in ResumeCfg /\ Sound(NewResumeCfg)
  BY NewCfgSound
<1>2. TypeOK
  BY <1>1 DEF Init, TypeOK, MainSteps, NoFile
<1>3. CheckpointSound
  BY <1>1 DEF Init, CheckpointSound, NoFile
<1>4. PassInv /\ RetryInv /\ OutputInv /\ FinishedScanCoversAll
  BY DEF Init, PassInv, RetryInv, OutputInv, FinishedScanCoversAll, Looping,
     Active, NewResumeCfg
<1>. QED
  BY <1>2, <1>3, <1>4 DEF IInv

\* A step that leaves checkpoint, file and passes alone keeps what they claim.
LEMMA ClaimsStay ==
  ASSUME IInv, settled \subseteq settled', UNCHANGED <<cfg, file>>
  PROVE  CheckpointSound'
<1>1. /\ cfg \in ResumeCfg /\ file.cfg \in ResumeCfg
      /\ Sound(cfg) /\ Sound(file.cfg)
  BY DEF IInv, TypeOK, CheckpointSound
<1>. QED
  BY <1>1, SoundStays DEF CheckpointSound, Sound

\* A process that ends, in whatever way, leaves a state of the invariant.
LEMMA DeadStep ==
  ASSUME IInv, Dead, UNCHANGED <<file, runs, settled>>
  PROVE  IInv'
<1>1. NewResumeCfg \in ResumeCfg /\ Sound(NewResumeCfg)
  BY NewCfgSound
<1>2. TypeOK'
  BY <1>1 DEF IInv, TypeOK, Dead, MainSteps
<1>3. CheckpointSound'
  <2>1. file.cfg \in ResumeCfg /\ Sound(file.cfg)
    BY DEF IInv, TypeOK, CheckpointSound
  <2>. QED
    BY <1>1, <2>1, SoundStays DEF CheckpointSound, Sound, Dead
<1>4. PassInv' /\ RetryInv' /\ OutputInv' /\ FinishedScanCoversAll'
  BY DEF Dead, PassInv, RetryInv, OutputInv, FinishedScanCoversAll, Looping,
     Active
<1>. QED
  BY <1>2, <1>3, <1>4 DEF IInv

\* The steps of the retry loop.
LEMMA RetryStep ==
  ASSUME IInv, SkipRetry \/ BeginPass \/ EndRetries
  PROVE  IInv'
<1>. USE ConstantsAssumption, ScanRangeType
<1>1. settled \subseteq settled'
  BY DEF SkipRetry, BeginPass, EndRetries
<1>2. CASE SkipRetry
  <2>1. TypeOK'
    BY <1>2 DEF IInv, TypeOK, SkipRetry
  <2>2. CheckpointSound'
    BY <1>1, <1>2, ClaimsStay DEF SkipRetry
  <2>3. \A r \in 0 .. retry : PassDone(r)'
    BY <1>1, <1>2, SoundStays
       DEF IInv, TypeOK, ResumeCfg, CheckpointSound, Sound, SkipRetry
  <2>4. PassInv' /\ RetryInv' /\ OutputInv' /\ FinishedScanCoversAll'
    BY <1>2, <2>3 DEF IInv, TypeOK, ResumeCfg, SkipRetry, PassInv, RetryInv,
       OutputInv, FinishedScanCoversAll, Looping, Active
  <2>. QED
    BY <2>1, <2>2, <2>4 DEF IInv
<1>3. CASE BeginPass
  <2>1. PICK s \in PassSeeds :
          seed' = s /\ cfg' = [cfg EXCEPT !.retry = retry, !.seed = s]
    BY <1>3 DEF BeginPass
  <2>2. s \in Seeds /\ (cfg.seed # 0 => s = cfg.seed)
    BY <2>1 DEF IInv, TypeOK, ResumeCfg, PassSeeds
  <2>3. cfg' \in ResumeCfg
    BY <2>1, <2>2 DEF IInv, TypeOK, ResumeCfg
  <2>4. TypeOK'
    BY <1>3, <2>1, <2>2, <2>3 DEF IInv, TypeOK, BeginPass, MainSteps
  <2>5. cfg'.retry = retry /\ cfg'.seed = s /\ cfg'.index = cfg.index
    BY <2>1 DEF IInv, TypeOK, ResumeCfg
  <2>6. cfg.seed # 0 => cfg.retry = retry
    <3>1. pc = "retry" /\ retry >= cfg.retry
      BY <1>3 DEF BeginPass
    <3>2. retry > cfg.retry => cfg.seed = 0
      BY <3>1 DEF IInv, RetryInv
    <3>3. retry \in Nat /\ cfg.retry \in Nat
      BY DEF IInv, TypeOK, ResumeCfg
    <3>. QED
      BY <3>1, <3>2, <3>3
  <2>7. \A i \in 0 .. (ScanRange - 1) : i < cfg.index => Settled(retry, s, i)
    <3>1. CASE cfg.seed = 0
      BY <3>1 DEF IInv, TypeOK, ResumeCfg, CheckpointSound, Sound
    <3>2. CASE cfg.seed # 0
      BY <3>2, <2>2, <2>6 DEF IInv, CheckpointSound, Sound
    <3>. QED
      BY <3>1, <3>2
  <2>8. \A r \in 0 .. (retry - 1) : PassDone(r)
    BY <1>3 DEF IInv, RetryInv, BeginPass
  <2>9. Sound(cfg)'
    BY <2>2, <2>3, <2>5, <2>7, <2>8, <1>1, SoundStays DEF Sound
  <2>10. CheckpointSound'
    <3>1. file.cfg \in ResumeCfg /\ Sound(file.cfg) /\ file' = file
      BY <1>3 DEF IInv, TypeOK, CheckpointSound, BeginPass
    <3>. QED
      BY <3>1, <2>9, <1>1, SoundStays DEF CheckpointSound, Sound
  <2>11. PassInv' /\ RetryInv' /\ OutputInv' /\ FinishedScanCoversAll'
    <3>1. pc' = "next" /\ index' = 0 /\ retry' = retry /\ probe' = probe
      BY <1>3 DEF BeginPass
    <3>2. seed' = s
      BY <2>1
    <3>. QED
      BY <3>1, <3>2, <2>2, <2>5 DEF PassInv, RetryInv, OutputInv,
         FinishedScanCoversAll, Looping
  <2>. QED
    BY <2>4, <2>10, <2>11 DEF IInv
<1>4. CASE EndRetries
  <2>1. TypeOK'
    BY <1>4 DEF IInv, TypeOK, EndRetries, MainSteps
  <2>2. CheckpointSound'
    BY <1>1, <1>4, ClaimsStay DEF EndRetries
  <2>3. \A r \in 0 .. (Retries - 1) : PassDone(r)'
    BY <1>4, <1>1, SoundStays DEF IInv, TypeOK, RetryInv, EndRetries
  <2>4. PassInv' /\ RetryInv' /\ OutputInv' /\ FinishedScanCoversAll'
    BY <1>4, <2>3 DEF IInv, EndRetries, PassInv, RetryInv, OutputInv,
       FinishedScanCoversAll, Looping, Active
  <2>. QED
    BY <2>1, <2>2, <2>4 DEF IInv
<1>. QED
  BY <1>2, <1>3, <1>4

\* What the loop over the range knows at its current position.
LEMMA LoopFacts ==
  ASSUME IInv, Looping
  PROVE  /\ seed \in Seeds /\ cfg.retry = retry /\ cfg.seed = seed
         /\ retry \in Nat /\ index \in Nat /\ cfg.index \in Nat
         /\ \A i \in 0 .. (ScanRange - 1) :
              i < index => Settled(retry, seed, i)
         /\ \A i \in 0 .. (ScanRange - 1) :
              i < cfg.index => Settled(retry, seed, i)
         /\ \A r \in 0 .. (retry - 1) : PassDone(r)
         /\ pc # "next" => index \in 0 .. (ScanRange - 1)
<1>. USE ConstantsAssumption, ScanRangeType
<1>1. /\ seed \in Seeds /\ cfg.retry = retry /\ cfg.seed = seed
      /\ \A i \in 0 .. (ScanRange - 1) : i < index => Settled(retry, seed, i)
      /\ pc # "next" => index < ScanRange
  BY DEF IInv, PassInv
<1>2. retry \in Nat /\ index \in Nat /\ cfg.index \in Nat
  BY DEF IInv, TypeOK, ResumeCfg
<1>3. seed # 0
  BY <1>1
<1>. QED
  BY <1>1, <1>2, <1>3 DEF IInv, CheckpointSound, Sound

\* Going past a settled position inside a pass keeps the invariant.
LEMMA AdvanceStep ==
  ASSUME IInv, Looping, TypeOK', settled \subseteq settled', Advance,
         UNCHANGED <<retry, seed, cfg, file>>,
         index < ScanRange =>
           PairAt(seed, index)[1] \in Excluded \/ <<retry, seed, index>> \in settled'
  PROVE  IInv'
<1>. USE ConstantsAssumption, ScanRangeType
<1>1. CheckpointSound'
  BY ClaimsStay
<1>2. ASSUME NEW i \in 0 .. (ScanRange - 1), i < index'
      PROVE  PairAt(seed, i)[1] \in Excluded \/ <<retry, seed, i>> \in settled'
  <2>1. i < index \/ i = index
    BY <1>2, LoopFacts DEF Advance
  <2>2. CASE i < index
    BY <2>2, LoopFacts DEF Settled
  <2>3. CASE i = index
    BY <2>3
  <2>. QED
    BY <2>1, <2>2, <2>3
<1>3. PassInv'
  BY <1>2, LoopFacts DEF PassInv, Advance, Settled
<1>4. RetryInv' /\ OutputInv' /\ FinishedScanCoversAll'
  BY DEF Advance, RetryInv, OutputInv, FinishedScanCoversAll, Looping
<1>. QED
  BY <1>1, <1>3, <1>4 DEF IInv

\* The steps of the loop over the range and over targetsWithPort.
LEMMA LoopStep ==
  ASSUME IInv,
         SkipExcluded \/ SkipResumed \/ Checkpoint \/ SkipHost
           \/ AddSkippedWaits \/ AddSkipped \/ Admit
           \/ Spawn \/ SpawnWithPort
  PROVE  IInv'
<1>. USE ConstantsAssumption, ScanRangeType
<1>1. Looping
  BY DEF SkipExcluded, SkipResumed, Checkpoint, SkipHost, AddSkippedWaits,
     AddSkipped, Admit, Spawn,
     SpawnWithPort, Looping
<1>2. settled \subseteq settled'
  BY DEF SkipExcluded, SkipResumed, Checkpoint, SkipHost, AddSkippedWaits,
     AddSkipped, Admit, Spawn,
     SpawnWithPort
<1>3. CASE SkipExcluded
  <2>1. TypeOK'
    BY <1>3 DEF IInv, TypeOK, SkipExcluded, Advance, MainSteps
  <2>2. PairAt(seed, index)[1] \in Excluded \/ <<retry, seed, index>> \in settled'
    BY <1>3 DEF SkipExcluded, Ip
  <2>. QED
    BY <1>1, <1>2, <1>3, <2>1, <2>2, AdvanceStep DEF SkipExcluded
<1>4. CASE SkipResumed
  <2>1. TypeOK'
    BY <1>4 DEF IInv, TypeOK, SkipResumed, Advance, MainSteps
  <2>2. index \in 0 .. (ScanRange - 1) /\ index < cfg.index
    BY <1>4, <1>1, LoopFacts DEF SkipResumed, Resumed
  <2>3. PairAt(seed, index)[1] \in Excluded \/ <<retry, seed, index>> \in settled'
    <3>1. Settled(retry, seed, index)
      BY <2>2, <1>1, LoopFacts
    <3>. QED
      BY <3>1, <1>4 DEF SkipResumed, Settled
  <2>. QED
    BY <1>1, <1>2, <1>4, <2>1, <2>3, AdvanceStep DEF SkipResumed
<1>5. CASE Checkpoint
  <2>1. /\ pc = "next" /\ pc' = "admit" /\ index < ScanRange
        /\ UNCHANGED <<retry, seed, index, probe, found, skipped, reported,
                       closed, sig, left, file, runs, settled>>
    BY <1>5 DEF Checkpoint
  <2>2. cfg' = [cfg EXCEPT !.index = index]
    BY <1>5 DEF Checkpoint, Position
  <2>3. /\ cfg' \in ResumeCfg /\ cfg'.index = index
        /\ cfg'.retry = retry /\ cfg'.seed = seed
    BY <2>2, <1>1, LoopFacts DEF IInv, TypeOK, ResumeCfg
  <2>4. TypeOK'
    BY <2>1, <2>3 DEF IInv, TypeOK, MainSteps
  <2>5. Sound(cfg)'
    <3>1. seed # 0
      BY <1>1, LoopFacts
    <3>2. \A i \in 0 .. (ScanRange - 1) : i < index =>
           PairAt(seed, i)[1] \in Excluded \/ <<retry, seed, i>> \in settled'
      BY <1>1, <1>2, LoopFacts DEF Settled
    <3>3. \A r \in 0 .. (retry - 1) : PassDone(r)'
      BY <1>1, <1>2, LoopFacts, SoundStays
    <3>. QED
      BY <2>1, <2>3, <3>1, <3>2, <3>3 DEF Sound, Settled
  <2>6. Sound(file.cfg)'
    <3>1. file.cfg \in ResumeCfg /\ Sound(file.cfg) /\ file' = file
      BY <2>1 DEF IInv, TypeOK, CheckpointSound
    <3>. QED
      BY <3>1, <1>2, SoundStays DEF Sound
  <2>7. PassInv'
    <3>1. \A i \in 0 .. (ScanRange - 1) : i < index =>
           PairAt(seed, i)[1] \in Excluded \/ <<retry, seed, i>> \in settled'
      BY <1>1, <1>2, LoopFacts DEF Settled
    <3>. QED
      BY <1>1, <2>1, <2>3, <3>1, LoopFacts DEF PassInv, Settled
  <2>8. RetryInv' /\ OutputInv' /\ FinishedScanCoversAll'
    BY <2>1 DEF RetryInv, OutputInv, FinishedScanCoversAll, Looping
  <2>. QED
    BY <2>4, <2>5, <2>6, <2>7, <2>8 DEF IInv, CheckpointSound
<1>6. CASE SkipHost \/ AddSkipped
  <2>1. index \in 0 .. (ScanRange - 1) /\ Ip \in Hosts
    BY <1>6, <1>1, LoopFacts, PairAtType DEF SkipHost, AddSkipped, Ip
  <2>2. TypeOK'
    <3>1. <<retry, seed, index>> \in Nat \X Seeds \X Nat
      BY <1>1, LoopFacts
    <3>. QED
      BY <1>6, <2>1, <3>1 DEF IInv, TypeOK, SkipHost, AddSkipped, Advance,
         MainSteps
  <2>3. PairAt(seed, index)[1] \in Excluded \/ <<retry, seed, index>> \in settled'
    BY <1>6 DEF SkipHost, AddSkipped
  <2>. QED
    BY <1>1, <1>2, <1>6, <2>2, <2>3, AdvanceStep DEF SkipHost, AddSkipped
<1>7. CASE AddSkippedWaits \/ Admit
  <2>1. TypeOK'
    BY <1>7 DEF IInv, TypeOK, AddSkippedWaits, Admit, MainSteps
  <2>2. CheckpointSound'
    BY <1>2, <1>7, ClaimsStay DEF AddSkippedWaits, Admit
  <2>3. PassInv'
    BY <1>1, <1>7, LoopFacts DEF AddSkippedWaits, Admit, PassInv, Settled
  <2>4. RetryInv' /\ OutputInv' /\ FinishedScanCoversAll'
    BY <1>7 DEF AddSkippedWaits, Admit, RetryInv, OutputInv, FinishedScanCoversAll, Looping
  <2>. QED
    BY <2>1, <2>2, <2>3, <2>4 DEF IInv
<1>8. CASE Spawn
  <2>1. TypeOK'
    <3>1. <<retry, seed, index>> \in Nat \X Seeds \X Nat
      BY <1>1, LoopFacts
    <3>2. probe' \in [ProbeIds -> {"idle", "started", "dialing", "adding"}]
      BY <1>8 DEF IInv, TypeOK, Spawn
    <3>. QED
      BY <1>8, <3>1, <3>2 DEF IInv, TypeOK, Spawn, Advance, MainSteps
  <2>2. PairAt(seed, index)[1] \in Excluded \/ <<retry, seed, index>> \in settled'
    BY <1>8 DEF Spawn
  <2>. QED
    BY <1>1, <1>2, <1>8, <2>1, <2>2, AdvanceStep DEF Spawn
<1>9. CASE SpawnWithPort
  <2>1. TypeOK'
    <3>1. probe' \in [ProbeIds -> {"idle", "started", "dialing", "adding"}]
      BY <1>9 DEF IInv, TypeOK, SpawnWithPort
    <3>. QED
      BY <1>9, <3>1 DEF IInv, TypeOK, SpawnWithPort, Advance, MainSteps
  <2>2. ~(index < ScanRange)
    BY <1>9, <1>1, LoopFacts DEF SpawnWithPort
  <2>. QED
    BY <1>1, <1>2, <1>9, <2>1, <2>2, AdvanceStep DEF SpawnWithPort
<1>. QED
  BY <1>3, <1>4, <1>5, <1>6, <1>7, <1>8, <1>9

\* The end of a pass: the retry is done and the checkpoint is cleared.
LEMMA EndPassStep ==
  ASSUME IInv, EndPass
  PROVE  IInv'
<1>. USE ConstantsAssumption, ScanRangeType
<1>1. /\ pc = "next" /\ index >= ScanRange /\ Active = {}
      /\ pc' = "retry" /\ retry' = retry + 1
      /\ cfg' = [cfg EXCEPT !.seed = 0, !.index = 0]
      /\ UNCHANGED <<seed, index, probe, found, skipped, reported, closed,
                     sig, left, file, runs, settled>>
  <2>1. index \in Nat
    BY DEF IInv, TypeOK
  <2>. QED
    BY <2>1 DEF EndPass, ProbesDone, Cleared
<1>2. Looping
  BY <1>1 DEF Looping
<1>3. /\ cfg' \in ResumeCfg /\ cfg'.retry = retry
      /\ cfg'.seed = 0 /\ cfg'.index = 0
  BY <1>1, <1>2, LoopFacts DEF IInv, TypeOK, ResumeCfg
<1>4. TypeOK'
  <2>1. retry' \in Nat
    BY <1>1, <1>2, LoopFacts
  <2>. QED
    BY <1>1, <1>3, <2>1 DEF IInv, TypeOK, MainSteps
<1>5. PassDone(retry)
  <2>1. \A i \in 0 .. (ScanRange - 1) : Settled(retry, seed, i)
    BY <1>1, <1>2, LoopFacts
  <2>. QED
    BY <2>1, <1>2, LoopFacts DEF PassDone
<1>6. \A r \in 0 .. retry : PassDone(r)'
  <2>1. \A r \in 0 .. retry : r = retry \/ r \in 0 .. (retry - 1)
    BY <1>2, LoopFacts
  <2>2. \A r \in 0 .. retry : PassDone(r)
    BY <2>1, <1>5, <1>2, LoopFacts
  <2>. QED
    BY <2>2, <1>1, SoundStays
<1>7. CheckpointSound'
  <2>1. Sound(cfg)'
    BY <1>2, <1>3, <1>6, LoopFacts DEF Sound
  <2>2. Sound(file.cfg)'
    <3>1. file.cfg \in ResumeCfg /\ Sound(file.cfg) /\ file' = file
      BY <1>1 DEF IInv, TypeOK, CheckpointSound
    <3>. QED
      BY <3>1, <1>1, SoundStays DEF Sound
  <2>. QED
    BY <2>1, <2>2 DEF CheckpointSound
<1>8. PassInv' /\ RetryInv' /\ OutputInv' /\ FinishedScanCoversAll'
  <2>1. retry \in Nat
    BY <1>2, LoopFacts
  <2>. QED
    BY <1>1, <1>3, <1>6, <2>1 DEF PassInv, RetryInv, OutputInv,
       FinishedScanCoversAll, Looping, Active
<1>. QED
  BY <1>4, <1>7, <1>8 DEF IInv

\* The end of the main goroutine.
LEMMA FinishStep ==
  ASSUME IInv, HandleOutput \/ Close \/ Cleanup \/ Return
  PROVE  IInv'
<1>1. CASE HandleOutput
  <2>1. TypeOK'
    BY <1>1 DEF IInv, TypeOK, HandleOutput, FoundPairs, MainSteps
  <2>2. CheckpointSound'
    BY <1>1, ClaimsStay DEF HandleOutput
  <2>3. PassInv' /\ RetryInv' /\ OutputInv' /\ FinishedScanCoversAll'
    BY <1>1, SoundStays DEF IInv, HandleOutput, PassInv, RetryInv, OutputInv,
       FinishedScanCoversAll, Looping, Active, FoundPairs
  <2>. QED
    BY <2>1, <2>2, <2>3 DEF IInv
<1>2. CASE Close
  <2>1. TypeOK'
    BY <1>2 DEF IInv, TypeOK, Close, MainSteps
  <2>2. CheckpointSound'
    BY <1>2, ClaimsStay DEF Close
  <2>3. PassInv' /\ RetryInv' /\ OutputInv' /\ FinishedScanCoversAll'
    BY <1>2, SoundStays DEF IInv, Close, PassInv, RetryInv, OutputInv,
       FinishedScanCoversAll, Looping, Active, FoundPairs
  <2>. QED
    BY <2>1, <2>2, <2>3 DEF IInv
<1>3. CASE Cleanup
  <2>1. /\ file' = NoFile /\ pc = "cleanup" /\ pc' = "return"
        /\ UNCHANGED <<retry, seed, index, cfg, probe, found, skipped,
                       reported, closed, sig, left, runs, settled>>
    BY <1>3 DEF Cleanup
  <2>2. NewResumeCfg \in ResumeCfg /\ Sound(NewResumeCfg)
    BY NewCfgSound
  <2>3. TypeOK'
    BY <2>1, <2>2 DEF IInv, TypeOK, NoFile, MainSteps
  <2>4. CheckpointSound'
    <3>1. cfg \in ResumeCfg /\ Sound(cfg) /\ file'.cfg = NewResumeCfg
      BY <2>1 DEF IInv, TypeOK, CheckpointSound, NoFile
    <3>. QED
      BY <2>1, <2>2, <3>1, SoundStays DEF CheckpointSound, Sound
  <2>5. PassInv' /\ RetryInv' /\ OutputInv' /\ FinishedScanCoversAll'
    BY <2>1, SoundStays DEF IInv, PassInv, RetryInv, OutputInv,
       FinishedScanCoversAll, Looping, Active, FoundPairs
  <2>. QED
    BY <2>3, <2>4, <2>5 DEF IInv
<1>4. CASE Return
  BY <1>4, DeadStep DEF Return
<1>. QED
  BY <1>1, <1>2, <1>3, <1>4

\* A probe under way has a target.
LEMMA ProbeTarget ==
  ASSUME IInv, NEW i \in ProbeIds, probe[i] # "idle"
  PROVE  TargetOf(seed, i) \in Hosts \X Ports
<1>1. Active # {}
  BY DEF Active
<1>2. Looping
  BY <1>1 DEF IInv, OutputInv
<1>. QED
  BY <1>2, LoopFacts, TargetType

\* The probe goroutines touch the results and their own slot only.
LEMMA ProbeStep ==
  ASSUME IInv, NEW i \in ProbeIds, Probe(i)
  PROVE  IInv'
<1>1. /\ UNCHANGED <<mainVars, reported, closed, sig, left, file, runs, settled>>
      /\ probe[i] # "idle"
  BY DEF Probe, ProbeReturns, ProbeDials, ProbeClosed, ProbeOpen, AddPort
<1>2. UNCHANGED <<pc, retry, seed, index, cfg, skipped>>
  BY <1>1 DEF mainVars
<1>3. probe' \in [ProbeIds -> {"idle", "started", "dialing", "adding"}]
  BY DEF Probe, ProbeReturns, ProbeDials, ProbeClosed, ProbeOpen, AddPort, IInv, TypeOK
<1>4. TargetOf(seed, i) \in Hosts \X Ports
  BY <1>1, ProbeTarget
<1>5. found' \in [Hosts -> SUBSET Ports]
  <2>1. CASE AddPort(i)
    <3>1. PICK h \in Hosts, p \in Ports : TargetOf(seed, i) = <<h, p>>
      BY <1>4
    <3>2. found' = [found EXCEPT ![h] = @ \union {p}]
      BY <2>1, <3>1 DEF AddPort
    <3>. QED
      BY <3>2 DEF IInv, TypeOK
  <2>2. CASE ProbeReturns(i) \/ ProbeDials(i) \/ ProbeClosed(i) \/ ProbeOpen(i)
    BY <2>2 DEF ProbeReturns, ProbeDials, ProbeClosed, ProbeOpen, IInv, TypeOK
  <2>. QED
    BY <2>1, <2>2 DEF Probe
<1>6. TypeOK'
  BY <1>1, <1>2, <1>3, <1>5 DEF IInv, TypeOK
<1>7. CheckpointSound'
  BY <1>1, <1>2, ClaimsStay
<1>8. Active # {}
  BY <1>1 DEF Active
<1>9. Looping
  BY <1>8 DEF IInv, OutputInv
<1>10. PassInv' /\ RetryInv' /\ OutputInv' /\ FinishedScanCoversAll'
  BY <1>1, <1>2, <1>9 DEF IInv, PassInv, RetryInv, OutputInv,
     FinishedScanCoversAll, Looping, Settled
<1>. QED
  BY <1>6, <1>7, <1>10 DEF IInv

\* The signal handler: the file gets the checkpoint held in memory.
LEMMA SignalStep ==
  ASSUME IInv, SignalHandler
  PROVE  IInv'
<1>. USE NewCfgSound
<1>1. CASE SaveTruncates \/ SaveWrites
  <2>1. /\ UNCHANGED <<mainVars, probe, found, reported, closed, left, runs,
                       settled>>
        /\ sig' \in {"writing", "saved"}
        /\ file' = Torn \/ file' = Written(cfg)
    BY <1>1 DEF SaveTruncates, SaveWrites
  <2>2. UNCHANGED <<pc, retry, seed, index, cfg, skipped>>
    BY <2>1 DEF mainVars
  <2>3. cfg \in ResumeCfg /\ Sound(cfg)
    BY DEF IInv, TypeOK, CheckpointSound
  <2>4. /\ file' \in [state : {"absent", "torn", "whole"}, cfg : ResumeCfg]
        /\ file'.cfg = cfg \/ file'.cfg = NewResumeCfg
    BY <2>1, <2>3 DEF Torn, Written
  <2>5. TypeOK'
    BY <2>1, <2>2, <2>4 DEF IInv, TypeOK
  <2>6. CheckpointSound'
    BY <2>1, <2>2, <2>3, <2>4, SoundStays DEF CheckpointSound, Sound
  <2>7. PassInv' /\ RetryInv' /\ OutputInv' /\ FinishedScanCoversAll'
    BY <2>1, <2>2, SoundStays DEF IInv, PassInv, RetryInv, OutputInv,
       FinishedScanCoversAll, Looping, Active, FoundPairs
  <2>. QED
    BY <2>5, <2>6, <2>7 DEF IInv
<1>2. CASE ShowScanResultOnExit \/ ShowHost \/ AllShown \/ CloseOnSignal
  <2>1. /\ UNCHANGED <<mainVars, probe, found, file, runs, settled>>
        /\ sig' \in {"showing", "shown", "closed"} /\ closed' \in BOOLEAN
        /\ left' \subseteq Hosts
        /\ reported \subseteq reported' /\ reported' \subseteq Hosts \X Ports
    BY <1>2 DEF ShowScanResultOnExit, ShowHost, AllShown, CloseOnSignal,
       IInv, TypeOK
  <2>2. UNCHANGED <<pc, retry, seed, index, cfg, skipped>>
    BY <2>1 DEF mainVars
  <2>3. TypeOK'
    BY <2>1, <2>2 DEF IInv, TypeOK
  <2>4. CheckpointSound'
    BY <2>1, <2>2, ClaimsStay
  <2>5. PassInv' /\ RetryInv' /\ OutputInv' /\ FinishedScanCoversAll'
    BY <2>1, <2>2, SoundStays DEF IInv, PassInv, RetryInv, OutputInv,
       FinishedScanCoversAll, Looping, Active, FoundPairs
  <2>. QED
    BY <2>3, <2>4, <2>5 DEF IInv
<1>3. CASE Exit
  BY <1>3, DeadStep DEF Exit
<1>. QED
  BY <1>1, <1>2, <1>3 DEF SignalHandler

\* A step that changes nothing.
LEMMA StutterStep ==
  ASSUME IInv, UNCHANGED vars
  PROVE  IInv'
  BY DEF vars, IInv, TypeOK, CheckpointSound, Sound, PassInv, RetryInv,
     OutputInv, FinishedScanCoversAll, Looping, Active, FoundPairs, PassDone,
     Settled

\* A signal, a panic, a kill, a restart with the file that is on disk.
LEMMA EnvironmentStep ==
  ASSUME IInv, Environment
  PROVE  IInv'
<1>1. CASE Interrupt
  <2>1. /\ UNCHANGED <<mainVars, probe, found, reported, closed, left, file,
                       runs, settled>>
        /\ sig' = "cancelled"
    BY <1>1 DEF Interrupt
  <2>2. UNCHANGED <<pc, retry, seed, index, cfg, skipped>>
    BY <2>1 DEF mainVars
  <2>3. TypeOK'
    BY <2>1, <2>2 DEF IInv, TypeOK
  <2>4. CheckpointSound'
    BY <2>1, <2>2, ClaimsStay
  <2>5. PassInv' /\ RetryInv' /\ OutputInv' /\ FinishedScanCoversAll'
    BY <2>1, <2>2, SoundStays DEF IInv, PassInv, RetryInv, OutputInv,
       FinishedScanCoversAll, Looping, Active, FoundPairs
  <2>. QED
    BY <2>3, <2>4, <2>5 DEF IInv
<1>2. CASE DoubleClosePanics \/ Kill
  BY <1>2, DeadStep DEF DoubleClosePanics, Kill
<1>3. CASE Restart
  <2>1. /\ pc = "dead" /\ pc' = "retry" /\ runs' = runs + 1
        /\ cfg' = file.cfg \/ cfg' = NewResumeCfg
        /\ UNCHANGED <<retry, seed, index, probe, found, skipped, reported,
                       closed, sig, left, file, settled>>
    BY <1>3 DEF Restart
  <2>2. NewResumeCfg \in ResumeCfg /\ Sound(NewResumeCfg)
    BY NewCfgSound
  <2>3. file.cfg \in ResumeCfg /\ Sound(file.cfg)
    BY DEF IInv, TypeOK, CheckpointSound
  <2>4. cfg' \in ResumeCfg
    BY <2>1, <2>2, <2>3
  <2>5. TypeOK'
    BY <2>1, <2>4 DEF IInv, TypeOK, MainSteps
  <2>6. CheckpointSound'
    BY <2>1, <2>2, <2>3, SoundStays DEF CheckpointSound, Sound
  <2>7. retry' = 0 /\ cfg'.retry \in Nat
    BY <2>1, <2>4 DEF IInv, RetryInv, ResumeCfg
  <2>8. PassInv' /\ RetryInv' /\ OutputInv' /\ FinishedScanCoversAll'
    BY <2>1, <2>7 DEF IInv, PassInv, RetryInv, OutputInv,
       FinishedScanCoversAll, Looping, Active
  <2>. QED
    BY <2>5, <2>6, <2>8 DEF IInv
<1>4. CASE Stopped
  BY <1>4, StutterStep DEF Stopped
<1>. QED
  BY <1>1, <1>2, <1>3, <1>4 DEF Environment

\* Every step keeps the inductive invariant.
LEMMA NextIInv == IInv /\ [Next]_vars => IInv'
<1>. SUFFICES ASSUME IInv, [Next]_vars PROVE IInv'
  OBVIOUS
<1>1. CASE Main
  BY <1>1, RetryStep, LoopStep, EndPassStep, FinishStep DEF Main
<1>2. CASE SignalHandler
  BY <1>2, SignalStep
<1>3. CASE Environment
  BY <1>3, EnvironmentStep
<1>4. ASSUME NEW i \in ProbeIds, Probe(i) PROVE IInv'
  BY <1>4, ProbeStep
<1>5. CASE UNCHANGED vars
  BY <1>5, StutterStep
<1>. QED
  BY <1>1, <1>2, <1>3, <1>4, <1>5 DEF Next

\* One step of the claim that the checkpoint only moves forward in a pass.
LEMMA ForwardStep ==
  ASSUME IInv, [Next]_vars, Looping, cfg'.seed = cfg.seed
  PROVE  cfg'.retry = cfg.retry /\ cfg'.index >= cfg.index
<1>. USE ConstantsAssumption, ScanRangeType
<1>1. cfg.seed # 0 /\ cfg \in ResumeCfg /\ cfg.index \in Nat /\ index \in Nat
  BY LoopFacts DEF IInv, TypeOK
<1>2. cfg' # NewResumeCfg
  BY <1>1 DEF NewResumeCfg
<1>3. CASE cfg' = cfg
  BY <1>1, <1>3
<1>4. CASE Checkpoint
  <2>1. cfg' = [cfg EXCEPT !.index = index] /\ index >= cfg.index
    BY <1>1, <1>4 DEF Checkpoint, Position, Resumed
  <2>. QED
    BY <1>1, <2>1 DEF ResumeCfg
<1>5. CASE EndPass
  <2>1. cfg' = [cfg EXCEPT !.seed = 0, !.index = 0]
    BY <1>5 DEF EndPass, Cleared
  <2>2. cfg'.seed = 0
    BY <1>1, <2>1 DEF ResumeCfg
  <2>. QED
    BY <1>1, <2>2
<1>6. cfg' = cfg \/ Checkpoint \/ EndPass
  <2>1. CASE Main
    BY <2>1, <1>2 DEF Main, Looping, SkipRetry, BeginPass, EndRetries,
       SkipExcluded, SkipResumed, SkipHost, AddSkippedWaits,
     AddSkipped, Admit, Spawn, SpawnWithPort,
       HandleOutput, Close, Cleanup, Return
  <2>2. CASE SignalHandler
    BY <2>2, <1>2 DEF SignalHandler, SaveTruncates, SaveWrites, mainVars,
       ShowScanResultOnExit, ShowHost, AllShown, CloseOnSignal, Exit, Dead
  <2>3. CASE Environment
    BY <2>3, <1>2 DEF Environment, Interrupt, DoubleClosePanics, Kill, Dead,
       Restart, Stopped, vars, mainVars, Looping
  <2>4. ASSUME NEW i \in ProbeIds, Probe(i) PROVE cfg' = cfg
    BY <2>4 DEF Probe, ProbeReturns, ProbeDials, ProbeClosed, ProbeOpen, AddPort,
       mainVars
  <2>5. CASE UNCHANGED vars
    BY <2>5 DEF vars
  <2>. QED
    BY <2>1, <2>2, <2>3, <2>4, <2>5 DEF Next
<1>. QED
  BY <1>3, <1>4, <1>5, <1>6

-----------------------------------------------------------------------------
(* The theorems.                                                           *)

\* In every reachable state of every scan the inductive invariant holds.
THEOREM InductiveInvariant == Spec => []IInv
  BY InitIInv, NextIInv, PTL DEF Spec

\* The state of the loop, the probes, the handler and the file keep their
\* types.
THEOREM TypeCorrect == Spec => []TypeOK
<1>1. IInv => TypeOK
  BY DEF IInv
<1>. QED
  BY <1>1, InductiveInvariant, PTL

\* However often a scan is interrupted, killed and resumed, neither the
\* checkpoint in memory (runner.go:598-707) nor resume.cfg passes over a pair
\* that no process launched.
THEOREM CheckpointSoundness == Spec => []CheckpointSound
<1>1. IInv => CheckpointSound
  BY DEF IInv
<1>. QED
  BY <1>1, InductiveInvariant, PTL

\* A scan that reaches its output has gone over its whole range in every
\* retry, over all the processes it took (runner.go:598-718).
THEOREM ScanCoverage == Spec => []FinishedScanCoversAll
<1>1. IInv => FinishedScanCoversAll
  BY DEF IInv
<1>. QED
  BY <1>1, InductiveInvariant, PTL

\* A main goroutine that is past its output left no probe running and no open
\* port unreported (runner.go:697, 711-734).
THEOREM OutputComplete == Spec => []NormalExitReportsAll
<1>1. IInv => NormalExitReportsAll
  BY DEF IInv, OutputInv, Looping, NormalExitReportsAll
<1>. QED
  BY <1>1, InductiveInvariant, PTL

\* Within a pass the checkpoint never moves back (runner.go:631-642).
THEOREM CheckpointForward == Spec => CheckpointMovesForward
<1>1. IInv /\ [Next]_vars =>
        [(pc \in {"next", "admit", "skip", "spawn"} /\ cfg'.seed = cfg.seed) =>
           (cfg'.retry = cfg.retry /\ cfg'.index >= cfg.index)]_vars
  BY ForwardStep DEF Looping
<1>. QED
  BY <1>1, InductiveInvariant, PTL DEF Spec, CheckpointMovesForward

-----------------------------------------------------------------------------
(* By how much -port-threshold may be overshot.  The invariant behind it   *)
(* counts, for a host, the open ports recorded and the probes that may     *)
(* still record one.                                                       *)

\* One more element adds at most one to the size of a finite set.
LEMMA PlusOne ==
  ASSUME NEW S, IsFiniteSet(S), NEW x
  PROVE  /\ IsFiniteSet(S \cup {x}) /\ Cardinality(S \cup {x}) \in Nat
         /\ Cardinality(S \cup {x}) <= Cardinality(S) + 1
<1>1. Cardinality(S) \in Nat
  BY FS_CardinalityType
<1>2. IsFiniteSet(S \cup {x})
  BY FS_AddElement
<1>3. Cardinality(S \cup {x}) = IF x \in S THEN Cardinality(S) ELSE Cardinality(S) + 1
  BY FS_AddElement
<1>. QED
  BY <1>1, <1>2, <1>3

\* One element less takes one from the size of a finite set.
LEMMA MinusOne ==
  ASSUME NEW S, IsFiniteSet(S), NEW x \in S
  PROVE  /\ IsFiniteSet(S \ {x}) /\ Cardinality(S \ {x}) \in Nat
         /\ Cardinality(S) \in Nat
         /\ Cardinality(S \ {x}) = Cardinality(S) - 1
<1>1. Cardinality(S) \in Nat
  BY FS_CardinalityType
<1>2. IsFiniteSet(S \ {x})
  BY FS_RemoveElement
<1>3. Cardinality(S \ {x}) = Cardinality(S) - 1
  BY FS_RemoveElement
<1>4. Cardinality(S \ {x}) \in Nat
  BY <1>2, FS_CardinalityType
<1>. QED
  BY <1>1, <1>2, <1>3, <1>4

\* The probes under way, and those under way at one host, are finite sets.
LEMMA Finite ==
  /\ IsFiniteSet(Active) /\ Cardinality(Active) \in Nat
  /\ \A h : IsFiniteSet(InFlight(h)) /\ Cardinality(InFlight(h)) \in Nat
            /\ Cardinality(InFlight(h)) <= Cardinality(Active)
<1>1. IsFiniteSet(ProbeIds)
  BY ScanRangeType, FS_Interval DEF ProbeIds
<1>2. IsFiniteSet(Active) /\ Cardinality(Active) \in Nat
  BY <1>1, FS_Subset, FS_CardinalityType DEF Active
<1>3. ASSUME NEW h
      PROVE  IsFiniteSet(InFlight(h)) /\ Cardinality(InFlight(h)) \in Nat
             /\ Cardinality(InFlight(h)) <= Cardinality(Active)
  <2>1. InFlight(h) \in SUBSET Active
    BY DEF InFlight
  <2>. QED
    BY <1>2, <2>1, FS_Subset, FS_CardinalityType
<1>. QED
  BY <1>2, <1>3

\* What the bound says of one host.
Bounded(h) ==
  (\A j \in 1 .. Len(WithPort) : WithPort[j][1] # h) =>
    Cardinality(found[h]) + Cardinality(InFlight(h)) + Pending(h)
      <= PortThreshold + Rate

\* ThresholdInv says of every host what Bounded says of one.
LEMMA ThresholdInvIsBounded ==
  ThresholdInv <=>
    /\ Cardinality(Active) <= Rate
    /\ \A h \in Hosts : IsFiniteSet(found[h])
    /\ PortThreshold > 0 => \A h \in Hosts : Bounded(h)
  BY DEF ThresholdInv, Bounded

\* With no probe under way and none admitted only the recorded ports count.
LEMMA Quiet ==
  ASSUME NEW h, Active = {}, pc # "spawn"
  PROVE  Cardinality(InFlight(h)) = 0 /\ Pending(h) = 0
<1>1. InFlight(h) = {}
  BY DEF InFlight
<1>. QED
  BY <1>1, FS_EmptySet DEF Pending

\* It holds when the first process starts.
LEMMA InitThreshold == Init => ThresholdInv
<1>. SUFFICES ASSUME Init PROVE ThresholdInv
  OBVIOUS
<1>1. Active = {} /\ pc # "spawn" /\ \A h \in Hosts : found[h] = {}
  BY DEF Init, Active
<1>2. \A h \in Hosts : Cardinality(found[h]) = 0 /\ IsFiniteSet(found[h])
  BY <1>1, FS_EmptySet
<1>3. \A h \in Hosts : Bounded(h)
  BY <1>1, <1>2, Quiet, ConstantsAssumption DEF Bounded
<1>4. Cardinality(Active) <= Rate
  BY <1>1, FS_EmptySet, ConstantsAssumption
<1>. QED
  BY <1>2, <1>3, <1>4, ThresholdInvIsBounded

\* The end of a process, in whatever way, forgets ports and probes.
LEMMA DeadThreshold ==
  ASSUME Dead
  PROVE  ThresholdInv'
<1>1. Active' = {} /\ pc' # "spawn" /\ \A h \in Hosts : found'[h] = {}
  BY DEF Dead, Active
<1>2. \A h \in Hosts : Cardinality(found'[h]) = 0 /\ IsFiniteSet(found'[h])
  BY <1>1, FS_EmptySet
<1>3. \A h \in Hosts : Cardinality(InFlight(h)') = 0 /\ Pending(h)' = 0
  <2>1. \A h \in Hosts : InFlight(h)' = {}
    BY <1>1 DEF InFlight
  <2>. QED
    BY <1>1, <2>1, FS_EmptySet DEF Pending
<1>4. Cardinality(Active') <= Rate
  BY <1>1, FS_EmptySet, ConstantsAssumption
<1>5. ASSUME NEW h \in Hosts
      PROVE  Cardinality(found'[h]) + Cardinality(InFlight(h)') + Pending(h)'
               <= PortThreshold + Rate
  BY <1>2, <1>3, ConstantsAssumption
<1>. QED
  BY <1>2, <1>4, <1>5 DEF ThresholdInv

\* A step that neither admits, launches nor records keeps the bound.
LEMMA IdleThreshold ==
  ASSUME IInv, ThresholdInv, UNCHANGED <<probe, found>>, pc' # "spawn",
         seed' = seed \/ Active = {}
  PROVE  ThresholdInv'
<1>1. Active' = Active
  BY DEF Active
<1>2. \A h \in Hosts : InFlight(h)' = InFlight(h)
  BY <1>1 DEF InFlight, TargetOf, PairAt
<1>3. \A h \in Hosts : Pending(h)' = 0 /\ Pending(h) \in {0, 1}
  BY DEF Pending
<1>4. \A h \in Hosts : Cardinality(found[h]) \in Nat
  BY FS_CardinalityType DEF ThresholdInv
<1>5. \A h \in Hosts : Cardinality(InFlight(h)) \in Nat
  BY Finite
<1>6. ASSUME PortThreshold > 0, NEW h \in Hosts, Bounded(h)
      PROVE  Bounded(h)'
  <2>1. /\ Cardinality(found[h]) \in Nat /\ Cardinality(InFlight(h)) \in Nat
        /\ Pending(h) \in Nat /\ Pending(h)' = 0
    BY <1>3, <1>4, <1>5
  <2>2. found'[h] = found[h] /\ InFlight(h)' = InFlight(h)
    BY <1>2
  <2>3. PortThreshold + Rate \in Nat
    BY ConstantsAssumption
  <2>. QED
    BY <1>6, <2>1, <2>2, <2>3 DEF Bounded
<1>. QED
  BY <1>1, <1>6 DEF ThresholdInv, Bounded

\* Admitting a probe: the host is below the threshold.
LEMMA AdmitThreshold ==
  ASSUME IInv, ThresholdInv, Admit
  PROVE  ThresholdInv'
<1>1. /\ pc' = "spawn" /\ UNCHANGED <<seed, index, probe, found>>
      /\ ~OverThreshold(Ip) /\ pc = "admit"
  BY DEF Admit
<1>2. Active' = Active
  BY <1>1 DEF Active
<1>3. ASSUME PortThreshold > 0, NEW h \in Hosts, Bounded(h)
      PROVE  Bounded(h)'
  <2>1. Cardinality(InFlight(h)') = Cardinality(InFlight(h)) /\ found'[h] = found[h]
    BY <1>1, <1>2 DEF InFlight, TargetOf, PairAt
  <2>2. Cardinality(found[h]) \in Nat
    BY FS_CardinalityType DEF ThresholdInv
  <2>3. Pending(h) = 0
    BY <1>1 DEF Pending
  <2>4. CASE Ip = h
    <3>1. Pending(h)' = 1
      BY <1>1, <2>4 DEF Pending, Ip, PairAt
    <3>2. Cardinality(found[h]) < PortThreshold
      BY <1>1, <1>3, <2>2, <2>4, ConstantsAssumption DEF OverThreshold
    <3>3. Cardinality(InFlight(h)) <= Rate
      BY Finite, ConstantsAssumption DEF ThresholdInv
    <3>. QED
      BY <2>1, <2>2, <3>1, <3>2, <3>3, Finite, ConstantsAssumption DEF Bounded
  <2>5. CASE Ip # h
    <3>1. Pending(h)' = 0
      BY <1>1, <2>5 DEF Pending, Ip, PairAt
    <3>. QED
      BY <1>3, <2>1, <2>3, <3>1 DEF Bounded
  <2>. QED
    BY <2>4, <2>5
<1>. QED
  BY <1>1, <1>2, <1>3 DEF ThresholdInv, Bounded

\* Launching a probe takes one of the Rate slots, and turns the admitted probe
\* into one under way.
LEMMA SpawnThreshold ==
  ASSUME IInv, ThresholdInv, Spawn \/ SpawnWithPort
  PROVE  ThresholdInv'
<1>1. /\ pc' = "next" /\ UNCHANGED <<seed, found>> /\ index \in ProbeIds
      /\ Cardinality(Active) < Rate
      /\ probe' = [probe EXCEPT ![index] = "started"]
  <2>1. index \in Nat /\ (pc = "spawn" => index < ScanRange)
    BY DEF IInv, TypeOK, PassInv, Looping
  <2>. QED
    BY <2>1, ScanRangeType DEF Spawn, SpawnWithPort, Advance, ProbeIds
<1>2. Active' = Active \cup {index}
  BY <1>1 DEF Active, IInv, TypeOK
<1>3. Cardinality(Active') <= Rate
  <2>1. IsFiniteSet(Active) /\ Cardinality(Active) \in Nat
    BY Finite
  <2>2. /\ Cardinality(Active \cup {index}) \in Nat
        /\ Cardinality(Active \cup {index}) <= Cardinality(Active) + 1
    BY <2>1, PlusOne
  <2>. QED
    BY <1>1, <1>2, <2>1, <2>2, ConstantsAssumption
<1>4. ASSUME PortThreshold > 0, NEW h \in Hosts, Bounded(h)
      PROVE  Bounded(h)'
  <2>1. SUFFICES ASSUME \A j \in 1 .. Len(WithPort) : WithPort[j][1] # h
        PROVE Cardinality(found'[h]) + Cardinality(InFlight(h)') + Pending(h)'
                <= PortThreshold + Rate
    BY DEF Bounded
  <2>2. Pending(h)' = 0
    BY <1>1 DEF Pending
  <2>3. Cardinality(found[h]) \in Nat
    BY FS_CardinalityType DEF ThresholdInv
  <2>4. CASE TargetOf(seed, index)[1] = h
    <3>1. InFlight(h)' = InFlight(h) \cup {index}
      BY <1>1, <1>2, <2>4 DEF InFlight, TargetOf, PairAt
    <3>2. /\ Cardinality(InFlight(h)') \in Nat
          /\ Cardinality(InFlight(h)') <= Cardinality(InFlight(h)) + 1
      <4>1. IsFiniteSet(InFlight(h))
        BY Finite
      <4>. QED
        BY <3>1, <4>1, PlusOne
    <3>3. index < ScanRange
      <4>1. SUFFICES ASSUME index >= ScanRange PROVE FALSE
        BY <1>1, ScanRangeType DEF ProbeIds
      <4>2. index - ScanRange + 1 \in 1 .. Len(WithPort)
        BY <1>1, <4>1, ScanRangeType DEF ProbeIds
      <4>3. TargetOf(seed, index) = WithPort[index - ScanRange + 1]
        BY <1>1, <4>1, ScanRangeType DEF ProbeIds, TargetOf
      <4>. QED
        BY <2>1, <2>4, <4>2, <4>3
    <3>4. pc = "spawn" /\ Ip = h
      <4>1. ~SpawnWithPort
        BY <1>1, <3>3, ScanRangeType DEF SpawnWithPort, ProbeIds
      <4>. QED
        BY <2>4, <3>3, <4>1 DEF Spawn, TargetOf, Ip
    <3>5. Pending(h) = 1
      BY <3>4 DEF Pending
    <3>6. Cardinality(InFlight(h)) \in Nat
      BY Finite
    <3>7. Cardinality(found[h]) + Cardinality(InFlight(h)) + 1
            <= PortThreshold + Rate
      BY <1>4, <2>1, <3>5 DEF Bounded
    <3>. QED
      BY <1>1, <2>2, <2>3, <3>2, <3>6, <3>7, ConstantsAssumption
  <2>5. CASE TargetOf(seed, index)[1] # h
    <3>1. InFlight(h)' = InFlight(h)
      BY <1>1, <1>2, <2>5 DEF InFlight, TargetOf, PairAt
    <3>2. Pending(h) \in {0, 1}
      BY DEF Pending
    <3>3. Cardinality(InFlight(h)) \in Nat
      BY Finite
    <3>4. Cardinality(found[h]) + Cardinality(InFlight(h)) + Pending(h)
            <= PortThreshold + Rate
      BY <1>4, <2>1 DEF Bounded
    <3>. QED
      BY <1>1, <2>2, <2>3, <3>1, <3>2, <3>3, <3>4, ConstantsAssumption
  <2>. QED
    BY <2>4, <2>5
<1>. QED
  BY <1>1, <1>3, <1>4 DEF ThresholdInv, Bounded

\* A probe that ends gives up its slot and records one port at most.
LEMMA ProbeThreshold ==
  ASSUME IInv, ThresholdInv, NEW i \in ProbeIds, Probe(i)
  PROVE  ThresholdInv'
<1>1. UNCHANGED <<pc, seed, index>> /\ probe[i] # "idle"
  BY DEF Probe, ProbeReturns, ProbeDials, ProbeClosed, ProbeOpen, AddPort, mainVars
<1>2. \A h \in Hosts : Pending(h)' = Pending(h) /\ Pending(h) \in {0, 1}
  BY <1>1 DEF Pending, Ip, PairAt
<1>3. \A h \in Hosts : Cardinality(found[h]) \in Nat
  BY FS_CardinalityType DEF ThresholdInv
<1>4. CASE ProbeDials(i) \/ ProbeOpen(i)
  <2>1. Active' = Active /\ found' = found
    BY <1>4 DEF ProbeDials, ProbeOpen, Active, IInv, TypeOK
  <2>2. \A h \in Hosts : InFlight(h)' = InFlight(h)
    BY <1>1, <2>1 DEF InFlight, TargetOf, PairAt
  <2>. QED
    BY <1>2, <2>1, <2>2 DEF ThresholdInv
<1>5. CASE ProbeReturns(i) \/ ProbeClosed(i) \/ AddPort(i)
  <2>1. Active' = Active \ {i} /\ i \in Active
    BY <1>5 DEF ProbeReturns, ProbeClosed, AddPort, Active, IInv, TypeOK
  <2>2. Cardinality(Active') <= Rate
    <3>1. IsFiniteSet(Active)
      BY Finite
    <3>2. /\ Cardinality(Active \ {i}) = Cardinality(Active) - 1
          /\ Cardinality(Active) \in Nat
      BY <2>1, <3>1, MinusOne
    <3>. QED
      BY <2>1, <3>2, ConstantsAssumption DEF ThresholdInv
  <2>3. \A h \in Hosts : InFlight(h)' = InFlight(h) \ {i}
    BY <1>1, <2>1 DEF InFlight, TargetOf, PairAt
  <2>4. CASE ProbeReturns(i) \/ ProbeClosed(i)
    <3>1. found' = found
      BY <2>4 DEF ProbeReturns, ProbeClosed
    <3>2. \A h \in Hosts : Cardinality(InFlight(h)') \in Nat
            /\ Cardinality(InFlight(h)') <= Cardinality(InFlight(h))
      <4>1. ASSUME NEW h \in Hosts
            PROVE  /\ Cardinality(InFlight(h) \ {i}) \in Nat
                   /\ Cardinality(InFlight(h) \ {i}) <= Cardinality(InFlight(h))
        <5>1. IsFiniteSet(InFlight(h))
          BY Finite
        <5>2. InFlight(h) \ {i} \in SUBSET InFlight(h)
          OBVIOUS
        <5>. QED
          BY <5>1, <5>2, FS_Subset, FS_CardinalityType
      <4>. QED
        BY <2>3, <4>1
    <3>3. ASSUME NEW h \in Hosts, Bounded(h) PROVE Bounded(h)'
      <4>1. /\ Cardinality(found[h]) \in Nat /\ Pending(h) \in {0, 1}
            /\ Pending(h)' = Pending(h) /\ found'[h] = found[h]
        BY <1>2, <1>3, <3>1
      <4>2. /\ Cardinality(InFlight(h)') <= Cardinality(InFlight(h))
            /\ Cardinality(InFlight(h)') \in Nat
        BY <3>2
      <4>3. Cardinality(InFlight(h)) \in Nat
        BY Finite, FS_CardinalityType
      <4>. QED
        BY <3>3, <4>1, <4>2, <4>3, ConstantsAssumption DEF Bounded
    <3>. QED
      BY <2>2, <3>1, <3>3 DEF ThresholdInv, Bounded
  <2>5. CASE AddPort(i)
    <3>1. TargetOf(seed, i) \in Hosts \X Ports
      BY <1>1, ProbeTarget
    <3>2. PICK k \in Hosts, p \in Ports : TargetOf(seed, i) = <<k, p>>
      BY <3>1
    <3>3. found' = [found EXCEPT ![k] = @ \cup {p}]
      BY <2>5, <3>2 DEF AddPort
    <3>4. found'[k] = found[k] \cup {p} /\ \A h \in Hosts \ {k} : found'[h] = found[h]
      BY <3>3 DEF IInv, TypeOK
    <3>5. /\ IsFiniteSet(found'[k]) /\ Cardinality(found'[k]) \in Nat
          /\ Cardinality(found'[k]) <= Cardinality(found[k]) + 1
      <4>1. IsFiniteSet(found[k])
        BY DEF ThresholdInv
      <4>. QED
        BY <3>4, <4>1, PlusOne
    <3>6. /\ Cardinality(InFlight(k)') = Cardinality(InFlight(k)) - 1
          /\ Cardinality(InFlight(k)) \in Nat
      <4>1. i \in InFlight(k) /\ IsFiniteSet(InFlight(k))
        BY <2>1, <3>2, Finite DEF InFlight
      <4>. QED
        BY <2>3, <4>1, MinusOne
    <3>7. \A h \in Hosts \ {k} : InFlight(h)' = InFlight(h)
      BY <2>3, <3>2 DEF InFlight
    <3>8. ASSUME NEW h \in Hosts, Bounded(h) PROVE Bounded(h)'
      <4>1. CASE h = k
        <5>1. Cardinality(found[k]) \in Nat /\ Pending(k) \in {0, 1}
              /\ Pending(k)' = Pending(k)
          BY <1>2, <1>3
        <5>. QED
          BY <3>5, <3>6, <3>8, <4>1, <5>1, ConstantsAssumption DEF Bounded
      <4>2. CASE h # k
        BY <1>2, <3>4, <3>7, <3>8, <4>2 DEF Bounded
      <4>. QED
        BY <4>1, <4>2
    <3>9. \A h \in Hosts : IsFiniteSet(found'[h])
      BY <3>4, <3>5 DEF ThresholdInv
    <3>. QED
      BY <2>2, <3>8, <3>9 DEF ThresholdInv, Bounded
  <2>. QED
    BY <1>5, <2>4, <2>5
<1>. QED
  BY <1>4, <1>5 DEF Probe

\* Every step keeps the bound.
LEMMA NextThreshold == IInv /\ ThresholdInv /\ [Next]_vars => ThresholdInv'
<1>. SUFFICES ASSUME IInv, ThresholdInv, [Next]_vars PROVE ThresholdInv'
  OBVIOUS
<1>1. CASE SkipRetry \/ EndRetries \/ SkipExcluded \/ SkipResumed
             \/ Checkpoint \/ SkipHost \/ AddSkippedWaits \/ AddSkipped
             \/ EndPass \/ HandleOutput \/ Close \/ Cleanup
  BY <1>1, IdleThreshold DEF SkipRetry, EndRetries, SkipExcluded, SkipResumed,
     Checkpoint, SkipHost, AddSkippedWaits, AddSkipped, EndPass, HandleOutput, Close, Cleanup, Advance
<1>2. CASE BeginPass
  <2>1. Active = {}
    BY <1>2 DEF IInv, OutputInv, Looping, BeginPass
  <2>. QED
    BY <1>2, <2>1, IdleThreshold DEF BeginPass
<1>3. CASE Admit
  BY <1>3, AdmitThreshold
<1>4. CASE Spawn \/ SpawnWithPort
  BY <1>4, SpawnThreshold
<1>5. CASE Return \/ Exit \/ DoubleClosePanics \/ Kill
  BY <1>5, DeadThreshold DEF Return, Exit, DoubleClosePanics, Kill
<1>6. CASE Restart
  BY <1>6, IdleThreshold DEF Restart
<1>7. ASSUME UNCHANGED <<pc, seed, index, probe, found>> PROVE ThresholdInv'
  BY <1>7 DEF ThresholdInv, Active, InFlight, TargetOf, PairAt, Pending, Ip
<1>8. CASE SaveTruncates \/ SaveWrites \/ ShowScanResultOnExit
             \/ ShowHost \/ AllShown \/ CloseOnSignal \/ Interrupt
  BY <1>7, <1>8 DEF SaveTruncates, SaveWrites, ShowScanResultOnExit, ShowHost, AllShown,
     CloseOnSignal, Interrupt, mainVars
<1>9. CASE UNCHANGED vars
  BY <1>7, <1>9 DEF vars
<1>10. ASSUME NEW i \in ProbeIds, Probe(i) PROVE ThresholdInv'
  BY <1>10, ProbeThreshold
<1>. QED
  BY <1>1, <1>2, <1>3, <1>4, <1>5, <1>6, <1>8, <1>9, <1>10
     DEF Next, Main, SignalHandler, Environment, Stopped

\* A host that is not also an ip:port target never has more than the threshold
\* plus the size of wgscan open ports: the check of runner.go:647 comes before
\* wgscan.Add() and long before the answers of the probes under way.
THEOREM ThresholdBound == Spec => []ThresholdOvershoot
<1>1. ThresholdInv => ThresholdOvershoot
  <2>1. \A h \in Hosts : Pending(h) \in {0, 1}
    BY DEF Pending
  <2>2. ThresholdInv => \A h \in Hosts : Cardinality(found[h]) \in Nat
    BY FS_CardinalityType DEF ThresholdInv
  <2>3. \A h \in Hosts : Cardinality(InFlight(h)) \in Nat
    BY Finite
  <2>4. ASSUME ThresholdInv, PortThreshold > 0, NEW h \in Hosts,
               \A j \in 1 .. Len(WithPort) : WithPort[j][1] # h
        PROVE  Cardinality(found[h]) <= PortThreshold + Rate
    <3>1. Cardinality(found[h]) + Cardinality(InFlight(h)) + Pending(h)
            <= PortThreshold + Rate
      BY <2>4 DEF ThresholdInv
    <3>2. /\ Cardinality(found[h]) \in Nat /\ Cardinality(InFlight(h)) \in Nat
          /\ Pending(h) \in Nat
      BY <2>1, <2>2, <2>3, <2>4
    <3>3. PortThreshold + Rate \in Nat
      BY ConstantsAssumption
    <3>. QED
      BY <3>1, <3>2, <3>3
  <2>. QED
    BY <2>4 DEF ThresholdOvershoot
<1>2. Spec => []ThresholdInv
  BY InitThreshold, NextThreshold, InductiveInvariant, PTL DEF Spec
<1>. QED
  BY <1>1, <1>2, PTL

-----------------------------------------------------------------------------
(* Enumeration implements ResumableScan: every step of the loop, of its    *)
(* probes, of the handler and of the environment is a step of a resumable  *)
(* scan or leaves it as it is.                                             *)

\* What is settled here is settled there.
LEMMA SettledMaps ==
  ASSUME NEW r, NEW s \in Seeds, NEW i \in 0 .. (ScanRange - 1),
         Settled(r, s, i)
  PROVE  Abstract!Settled(r, s, i)
BY DEF Settled, Abstract!Settled, ExemptUnits

\* A retry that went over the range is complete.
LEMMA PassDoneMaps ==
  ASSUME NEW r, PassDone(r)
  PROVE  Abstract!Complete(r)
<1>1. PICK s \in Seeds : \A i \in 0 .. (ScanRange - 1) : Settled(r, s, i)
  BY DEF PassDone
<1>2. \A i \in 0 .. (ScanRange - 1) : Abstract!Settled(r, s, i)
  BY <1>1, SettledMaps
<1>. QED
  BY <1>2 DEF Abstract!Complete

\* A sound checkpoint is a claim the abstract scan may save.
LEMMA SoundMaps ==
  ASSUME NEW c \in ResumeCfg, Sound(c)
  PROVE  /\ \A u \in ClaimOf(c).units : Abstract!Settled(u[1], u[2], u[3])
         /\ \A r \in 0 .. (ClaimOf(c).retries - 1) : Abstract!Complete(r)
<1>1. ASSUME NEW u \in ClaimOf(c).units
      PROVE  Abstract!Settled(u[1], u[2], u[3])
  <2>1. c.seed # 0 /\ c.seed \in Seeds
    BY <1>1 DEF ClaimOf, ResumeCfg
  <2>2. PICK i \in 0 .. (ScanRange - 1) :
          i < c.index /\ u = <<c.retry, c.seed, i>>
    BY <1>1, <2>1 DEF ClaimOf
  <2>3. Settled(c.retry, c.seed, i)
    BY <2>1, <2>2 DEF Sound
  <2>. QED
    BY <2>1, <2>2, <2>3, SettledMaps
<1>2. ASSUME NEW r \in 0 .. (ClaimOf(c).retries - 1)
      PROVE  Abstract!Complete(r)
  <2>1. PassDone(r)
    BY DEF ClaimOf, Sound
  <2>. QED
    BY <2>1, PassDoneMaps
<1>. QED
  BY <1>1, <1>2

\* A new checkpoint, and a file that is absent or torn, claim nothing.
LEMMA NothingMaps == ClaimOf(NewResumeCfg) = Abstract!Nothing
BY DEF ClaimOf, NewResumeCfg, Abstract!Nothing

\* A process that is down runs no handler, so that nothing is saved then.
QuietWhenDown == pc = "dead" => sig = "idle"

LEMMA DownIsQuiet == Spec => []QuietWhenDown
<1>1. Init => QuietWhenDown
  BY DEF Init, QuietWhenDown
<1>2. QuietWhenDown /\ [Next]_vars => QuietWhenDown'
  <2>. SUFFICES ASSUME QuietWhenDown, [Next]_vars PROVE QuietWhenDown'
    OBVIOUS
  <2>1. CASE Main
    BY <2>1 DEF Main, SkipRetry, BeginPass, EndRetries, SkipExcluded,
       SkipResumed, Checkpoint, SkipHost, AddSkippedWaits,
     AddSkipped, Admit, Spawn, SpawnWithPort,
       EndPass, HandleOutput, Close, Cleanup, Return, Dead, Advance,
       QuietWhenDown
  <2>2. CASE SignalHandler
    BY <2>2 DEF SignalHandler, SaveTruncates, SaveWrites,
       ShowScanResultOnExit, ShowHost, AllShown, CloseOnSignal, Exit, Dead, mainVars,
       QuietWhenDown
  <2>3. CASE Environment
    BY <2>3 DEF Environment, Interrupt, DoubleClosePanics, Kill, Restart,
       Stopped, Dead, mainVars, vars, QuietWhenDown
  <2>4. ASSUME NEW i \in ProbeIds, Probe(i) PROVE QuietWhenDown'
    BY <2>4 DEF Probe, ProbeReturns, ProbeDials, ProbeClosed, ProbeOpen, AddPort,
       mainVars, QuietWhenDown
  <2>5. CASE UNCHANGED vars
    BY <2>5 DEF vars, QuietWhenDown
  <2>. QED
    BY <2>1, <2>2, <2>3, <2>4, <2>5 DEF Next
<1>. QED
  BY <1>1, <1>2, PTL DEF Spec

\* The first process starts a resumable scan.
LEMMA InitMaps == Init => Abstract!Init
BY NothingMaps DEF Init, Abstract!Init, StatusOf, NoFile

\* A process that ends stops the scan.
LEMMA DeadMaps ==
  ASSUME Dead, UNCHANGED <<file, settled>>
  PROVE  Abstract!Stop
BY DEF Dead, Abstract!Stop, StatusOf

\* A step that changes neither file nor history nor the phase of the scan.
LEMMA StutterMaps ==
  ASSUME UNCHANGED <<file, settled>>, StatusOf' = StatusOf
  PROVE  UNCHANGED Abstract!vars
BY DEF Abstract!vars

\* A step that launches a probe or drops a pair is progress.
LEMMA ProgressMaps ==
  ASSUME UNCHANGED file, settled \subseteq settled',
         StatusOf = "scanning", StatusOf' = "scanning"
  PROVE  Abstract!Progress
BY DEF Abstract!Progress

\* The steps of the main goroutine.
LEMMA MainMaps ==
  ASSUME IInv, Main
  PROVE  Abstract!Next \/ UNCHANGED Abstract!vars
<1>1. CASE SkipRetry \/ BeginPass \/ SkipExcluded \/ SkipResumed
             \/ Checkpoint \/ AddSkippedWaits \/ Admit \/ SpawnWithPort
             \/ EndPass
  <2>1. UNCHANGED <<file, settled>> /\ StatusOf' = StatusOf
    BY <1>1 DEF SkipRetry, BeginPass, SkipExcluded, SkipResumed, Checkpoint,
       AddSkippedWaits, Admit, SpawnWithPort, EndPass, Advance, StatusOf
  <2>. QED
    BY <2>1, StutterMaps
<1>2. CASE SkipHost \/ AddSkipped \/ Spawn
  <2>1. /\ UNCHANGED file /\ settled \subseteq settled'
        /\ StatusOf = "scanning" /\ StatusOf' = "scanning"
    BY <1>2 DEF SkipHost, AddSkipped, Spawn, Advance, StatusOf
  <2>. QED
    BY <2>1, ProgressMaps DEF Abstract!Next
<1>3. CASE EndRetries
  <2>1. /\ pc = "retry" /\ retry >= Retries /\ pc' = "output"
        /\ UNCHANGED <<file, settled>>
    BY <1>3 DEF EndRetries
  <2>2. \A r \in 0 .. (retry - 1) : PassDone(r)
    BY <2>1 DEF IInv, RetryInv
  <2>3. retry \in Nat /\ Retries \in Nat
    BY ConstantsAssumption DEF IInv, TypeOK
  <2>4. \A r \in 0 .. (Retries - 1) : Abstract!Complete(r)
    BY <2>1, <2>2, <2>3, PassDoneMaps
  <2>5. StatusOf = "scanning" /\ StatusOf' = "finished"
    BY <2>1 DEF StatusOf
  <2>. QED
    BY <2>1, <2>4, <2>5 DEF Abstract!Next, Abstract!Finish
<1>4. CASE HandleOutput \/ Close
  <2>1. UNCHANGED <<file, settled>> /\ StatusOf' = StatusOf
    BY <1>4 DEF HandleOutput, Close, StatusOf
  <2>. QED
    BY <2>1, StutterMaps
<1>5. CASE Cleanup
  <2>1. /\ ClaimOf(file'.cfg) = Abstract!Nothing /\ UNCHANGED settled
        /\ StatusOf' = StatusOf
    BY <1>5, NothingMaps DEF Cleanup, NoFile, StatusOf
  <2>. QED
    BY <2>1 DEF Abstract!Next, Abstract!Forget, ClaimOf
<1>6. CASE Return
  BY <1>6, DeadMaps DEF Return, Abstract!Next
<1>. QED
  BY <1>1, <1>2, <1>3, <1>4, <1>5, <1>6 DEF Main

\* The steps of the signal handler: only the write to the file shows.
LEMMA SignalMaps ==
  ASSUME IInv, QuietWhenDown, SignalHandler
  PROVE  Abstract!Next \/ UNCHANGED Abstract!vars
<1>1. CASE SaveTruncates
  <2>1. /\ ClaimOf(file'.cfg) = Abstract!Nothing /\ UNCHANGED settled
        /\ StatusOf' = StatusOf
    BY <1>1, NothingMaps DEF SaveTruncates, Torn, mainVars, StatusOf
  <2>. QED
    BY <2>1 DEF Abstract!Next, Abstract!Forget, ClaimOf
<1>2. CASE SaveWrites
  <2>1. /\ file'.cfg = cfg /\ UNCHANGED settled /\ StatusOf' = StatusOf
    BY <1>2 DEF SaveWrites, Written, mainVars, StatusOf
  <2>2. cfg \in ResumeCfg /\ Sound(cfg)
    BY DEF IInv, TypeOK, CheckpointSound
  <2>3. /\ \A u \in ClaimOf(cfg).units : Abstract!Settled(u[1], u[2], u[3])
        /\ \A r \in 0 .. (ClaimOf(cfg).retries - 1) : Abstract!Complete(r)
    BY <2>2, SoundMaps
  <2>4. pc # "dead"
    BY <1>2 DEF SaveWrites, QuietWhenDown
  <2>5. StatusOf # "down"
    BY <2>4 DEF StatusOf
  <2>. QED
    BY <2>1, <2>3, <2>5 DEF Abstract!Next, Abstract!Save, ClaimOf
<1>3. CASE ShowScanResultOnExit \/ ShowHost \/ AllShown \/ CloseOnSignal
  <2>1. UNCHANGED <<file, settled>> /\ StatusOf' = StatusOf
    BY <1>3 DEF ShowScanResultOnExit, ShowHost, AllShown, CloseOnSignal, mainVars, StatusOf
  <2>. QED
    BY <2>1, StutterMaps
<1>4. CASE Exit
  BY <1>4, DeadMaps DEF Exit, Abstract!Next
<1>. QED
  BY <1>1, <1>2, <1>3, <1>4 DEF SignalHandler

\* Signals, panics, kills and restarts.
LEMMA EnvironmentMaps ==
  ASSUME IInv, Environment
  PROVE  Abstract!Next \/ UNCHANGED Abstract!vars
<1>1. CASE Interrupt \/ Stopped
  <2>1. UNCHANGED <<file, settled>> /\ StatusOf' = StatusOf
    BY <1>1 DEF Interrupt, Stopped, vars, mainVars, StatusOf
  <2>. QED
    BY <2>1, StutterMaps
<1>2. CASE DoubleClosePanics \/ Kill
  BY <1>2, DeadMaps DEF DoubleClosePanics, Kill, Abstract!Next
<1>3. CASE Restart
  BY <1>3 DEF Restart, StatusOf, Abstract!Next, Abstract!Resume
<1>. QED
  BY <1>1, <1>2, <1>3 DEF Environment

\* The probes change neither the file nor the history.
LEMMA ProbeMaps ==
  ASSUME NEW i \in ProbeIds, Probe(i)
  PROVE  UNCHANGED Abstract!vars
<1>1. UNCHANGED <<file, settled>> /\ StatusOf' = StatusOf
  BY DEF Probe, ProbeReturns, ProbeDials, ProbeClosed, ProbeOpen, AddPort, mainVars,
     StatusOf
<1>. QED
  BY <1>1, StutterMaps

\* Every step of the scan is one of a resumable scan, or a stutter.
LEMMA NextMaps ==
  ASSUME IInv, QuietWhenDown, [Next]_vars
  PROVE  [Abstract!Next]_(Abstract!vars)
<1>1. CASE UNCHANGED vars
  <2>1. UNCHANGED <<file, settled>> /\ StatusOf' = StatusOf
    BY <1>1 DEF vars, StatusOf
  <2>. QED
    BY <2>1, StutterMaps
<1>. QED
  BY <1>1, MainMaps, SignalMaps, EnvironmentMaps, ProbeMaps DEF Next

\* The scan, its checkpoint and its handler implement a resumable scan, over
\* any number of processes, whatever the permutations, rate and retries.
THEOREM Refinement == Spec => ImplementsResumableScan
<1>1. Init => Abstract!Init
  BY InitMaps
<1>2. IInv /\ QuietWhenDown /\ [Next]_vars => [Abstract!Next]_(Abstract!vars)
  BY NextMaps
<1>. QED
  BY <1>1, <1>2, InductiveInvariant, DownIsQuiet, PTL
     DEF Spec, ImplementsResumableScan, Abstract!Spec
=============================================================================

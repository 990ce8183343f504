----------------------------- MODULE ResultsProofs -----------------------------
(***************************************************************************)
(* Proofs about Results: what a finisher puts out is the map at one moment,*)
(* and the report of nmap is integrated when the main goroutine puts out.  *)
(* Both rest on the read locks: the map does not change while a range loop *)
(* is under way.                                                           *)
(***************************************************************************)
EXTENDS Results, TLAPS

-----------------------------------------------------------------------------
(* The inductive invariant.                                                *)

\* The read lock of the range loop that c is in.
Holds(c) == IF iter[c].state = "off" THEN 0 ELSE 1

\* A range loop is under way only in a stage that has one, it holds a read
\* lock, and its producer has no host between two sends.
RangeInv ==
  /\ \A c \in Finishers : iter[c].state # "off" => at[c] \in Ranging
  /\ \A c \in Finishers : iter[c].state = "send" => iter[c].cur \in Hosts
  /\ readers >= Holds(main) + Holds(handler)

\* The stages in which an entry of nmap's report is in work.
AtWork == {"lookup", "update", "add", "adding"}
WorkInv == \A c \in Finishers : at[c] \in AtWork => nmap[c].entry \in Pairs

\* The hosts the range loop of c has still to hand out, the one in the send
\* included.
Left(c) == iter[c].todo \cup IF iter[c].state = "send" THEN {iter[c].cur} ELSE {}

\* Where nothing is collected: not yet, or no longer.
Empty == {"off", "scan", "skipping", "ask", "askips", "list", "listing"}

\* While c puts out, the map is what it was when it began, and what it was
\* given are the entries of all hosts that are not left.
OutputOf(c) ==
  /\ at[c] = "output" /\ iter[c].state # "off" =>
       /\ began[c] = ports
       /\ emitted[c] = {pair \in ports : pair[1] \notin Left(c)}
       /\ iter[c].state = "send" => iter[c].cur \notin iter[c].todo
  /\ at[c] = "output" /\ iter[c].state = "off" => emitted[c] = {}
  /\ at[c] \notin {"output", "done"} => emitted[c] = {}
  /\ at[c] \in Empty => began[c] = {}
  /\ at[c] = "done" => emitted[c] = began[c]
OutputInv == \A c \in Finishers : OutputOf(c)

\* The stages of main before nmap's report is there.
Before == {"scan", "skipping", "collect"}

\* The probes are through when main finishes, so that no entry is replaced.
ProbesThrough ==
  at[main] \notin {"scan", "skipping"} => \A p \in OpenPairs : probe[p] = "done"

\* Every entry of main's report is pending, in work or integrated; the one that
\* the range loop of updatePort looks for is in the map and still to come.
ReportInv ==
  /\ at[main] # "off"
  /\ at[main] \in Before => report = {} /\ nmap[main].pending = {}
  /\ at[main] \in Output \cup {"nmap"} => nmap[main].pending = {}
  /\ at[main] = "update" =>
       /\ nmap[main].entry \in ports
       /\ iter[main].state # "off" => nmap[main].entry[1] \in Left(main)
  /\ \A pair \in report :
       \/ pair \in nmap[main].pending
       \/ at[main] \in AtWork /\ pair = nmap[main].entry
       \/ Carries(pair)

ResultsInv ==
  TypeOK /\ RangeInv /\ WorkInv /\ OutputInv /\ ProbesThrough /\ ReportInv

-----------------------------------------------------------------------------
(* Type correctness and the read locks.                                    *)

\* An abandoned or finished range loop gives back at most the lock it holds.
LEMMA HoldsType ==
  /\ \A c \in Finishers : Holds(c) \in {0, 1}
  /\ RangeInv /\ readers \in Nat =>
       \A c \in Finishers : iter[c].state # "off" => readers - 1 \in Nat
<1>1. \A c \in Finishers : Holds(c) \in {0, 1}
  BY DEF Holds
<1>2. ASSUME RangeInv, readers \in Nat, NEW c \in Finishers, iter[c].state # "off"
      PROVE  readers - 1 \in Nat
  <2>1. Holds(c) = 1 /\ Holds(main) \in {0, 1} /\ Holds(handler) \in {0, 1}
    BY <1>1, <1>2 DEF Holds, Finishers
  <2>2. c = main \/ c = handler
    BY DEF Finishers
  <2>. QED
    BY <1>2, <2>1, <2>2 DEF RangeInv
<1>. QED
  BY <1>1, <1>2

\* The records of a range loop and of handleNmap.
Iters == [state : {"off", "check", "send"}, todo : SUBSET Hosts,
          cur : Hosts \union {None}]
Works == [hosts : SUBSET Hosts, pending : SUBSET Pairs,
          host : Hosts \union {None}, entry : Pairs \union {None}]

\* One field of a record replaced.
LEMMA OneField ==
  /\ \A r \in Iters :
       /\ [r EXCEPT !.cur = None] = [state |-> r.state, todo |-> r.todo, cur |-> None]
       /\ [r EXCEPT !.state = "check"] = [state |-> "check", todo |-> r.todo, cur |-> r.cur]
  /\ \A r \in Works :
       /\ \A new \in Pairs \cup {None} :
            [r EXCEPT !.entry = new] = [hosts |-> r.hosts, pending |-> r.pending,
                                        host |-> r.host, entry |-> new]
       /\ \A new \in Hosts \cup {None} :
            [r EXCEPT !.host = new] = [hosts |-> r.hosts, pending |-> r.pending,
                                       host |-> new, entry |-> r.entry]
       /\ \A new \in SUBSET Pairs :
            [r EXCEPT !.pending = new] = [hosts |-> r.hosts, pending |-> new,
                                          host |-> r.host, entry |-> r.entry]
       /\ \A new \in SUBSET Hosts :
            [r EXCEPT !.hosts = new] = [hosts |-> new, pending |-> r.pending,
                                        host |-> r.host, entry |-> r.entry]
  BY DEF Iters, Works

\* Two fields replaced at once.
LEMMA TwoFields ==
  /\ \A r \in Iters : [r EXCEPT !.state = "check", !.cur = None]
                        = [state |-> "check", todo |-> r.todo, cur |-> None]
  /\ \A r \in Works :
       /\ [r EXCEPT !.host = None, !.entry = None]
            = [hosts |-> r.hosts, pending |-> r.pending, host |-> None, entry |-> None]
       /\ \A up \in SUBSET Hosts, rep \in SUBSET Pairs :
            [r EXCEPT !.hosts = up, !.pending = rep]
              = [hosts |-> up, pending |-> rep, host |-> r.host, entry |-> r.entry]
       /\ \A pair \in Pairs, left \in SUBSET Pairs :
            [r EXCEPT !.entry = pair, !.pending = left]
              = [hosts |-> r.hosts, pending |-> left, host |-> r.host, entry |-> pair]
<1>1. ASSUME NEW r \in Iters
      PROVE  [r EXCEPT !.state = "check", !.cur = None]
               = [state |-> "check", todo |-> r.todo, cur |-> None]
  <2>. DEFINE s == [r EXCEPT !.state = "check"]
  <2>1. s = [state |-> "check", todo |-> r.todo, cur |-> r.cur]
    BY OneField
  <2>2. s \in Iters /\ s.state = "check" /\ s.todo = r.todo
    BY <2>1 DEF Iters
  <2>3. [r EXCEPT !.state = "check", !.cur = None] = [s EXCEPT !.cur = None]
    OBVIOUS
  <2>. HIDE DEF s
  <2>. QED
    BY <2>2, <2>3, OneField
<1>2. ASSUME NEW r \in Works
      PROVE  [r EXCEPT !.host = None, !.entry = None]
               = [hosts |-> r.hosts, pending |-> r.pending, host |-> None, entry |-> None]
  <2>. DEFINE s == [r EXCEPT !.host = None]
  <2>1. s = [hosts |-> r.hosts, pending |-> r.pending, host |-> None, entry |-> r.entry]
    BY OneField
  <2>2. s \in Works /\ s.host = None /\ s.pending = r.pending /\ s.hosts = r.hosts
    BY <2>1 DEF Works
  <2>3. [r EXCEPT !.host = None, !.entry = None] = [s EXCEPT !.entry = None]
    OBVIOUS
  <2>. HIDE DEF s
  <2>. QED
    BY <2>2, <2>3, OneField
<1>3. ASSUME NEW r \in Works, NEW up \in SUBSET Hosts, NEW rep \in SUBSET Pairs
      PROVE  [r EXCEPT !.hosts = up, !.pending = rep]
               = [hosts |-> up, pending |-> rep, host |-> r.host, entry |-> r.entry]
  <2>. DEFINE s == [r EXCEPT !.hosts = up]
  <2>1. s = [hosts |-> up, pending |-> r.pending, host |-> r.host, entry |-> r.entry]
    BY OneField
  <2>2. s \in Works /\ s.hosts = up /\ s.host = r.host /\ s.entry = r.entry
    BY <2>1 DEF Works
  <2>3. [r EXCEPT !.hosts = up, !.pending = rep] = [s EXCEPT !.pending = rep]
    OBVIOUS
  <2>. HIDE DEF s
  <2>. QED
    BY <2>2, <2>3, OneField
<1>4. ASSUME NEW r \in Works, NEW pair \in Pairs, NEW left \in SUBSET Pairs
      PROVE  [r EXCEPT !.entry = pair, !.pending = left]
               = [hosts |-> r.hosts, pending |-> left, host |-> r.host, entry |-> pair]
  <2>. DEFINE s == [r EXCEPT !.entry = pair]
  <2>1. s = [hosts |-> r.hosts, pending |-> r.pending, host |-> r.host, entry |-> pair]
    BY OneField
  <2>2. s \in Works /\ s.hosts = r.hosts /\ s.host = r.host /\ s.entry = pair
    BY <2>1 DEF Works
  <2>3. [r EXCEPT !.entry = pair, !.pending = left] = [s EXCEPT !.pending = left]
    OBVIOUS
  <2>. HIDE DEF s
  <2>. QED
    BY <2>2, <2>3, OneField
<1>. QED
  BY <1>1, <1>2, <1>3, <1>4

\* f with r at c: the record of c is r, that of the other finisher stays.
Sets(f, new, c, r) == /\ new[c] = r
                      /\ \A d \in Finishers : d # c => new[d] = f[d]

\* What setting some fields of the record of one finisher gives.
LEMMA FieldsSet ==
  ASSUME NEW c \in Finishers,
         iter \in [Finishers -> Iters], nmap \in [Finishers -> Works]
  PROVE  /\ [iter EXCEPT ![c].state = "check", ![c].cur = None] \in [Finishers -> Iters]
         /\ Sets(iter, [iter EXCEPT ![c].state = "check", ![c].cur = None], c,
                 [state |-> "check", todo |-> iter[c].todo, cur |-> None])
         /\ \A up \in SUBSET Hosts, rep \in SUBSET Pairs :
              /\ [nmap EXCEPT ![c].hosts = up, ![c].pending = rep] \in [Finishers -> Works]
              /\ Sets(nmap, [nmap EXCEPT ![c].hosts = up, ![c].pending = rep], c,
                      [hosts |-> up, pending |-> rep, host |-> nmap[c].host,
                       entry |-> nmap[c].entry])
         /\ \A h \in Hosts, left \in SUBSET Hosts :
              /\ [nmap EXCEPT ![c].host = h, ![c].hosts = left] \in [Finishers -> Works]
              /\ Sets(nmap, [nmap EXCEPT ![c].host = h, ![c].hosts = left], c,
                      [hosts |-> left, pending |-> nmap[c].pending, host |-> h,
                       entry |-> nmap[c].entry])
         /\ \A pair \in Pairs, left \in SUBSET Pairs :
              /\ [nmap EXCEPT ![c].entry = pair, ![c].pending = left] \in [Finishers -> Works]
              /\ Sets(nmap, [nmap EXCEPT ![c].entry = pair, ![c].pending = left], c,
                      [hosts |-> nmap[c].hosts, pending |-> left, host |-> nmap[c].host,
                       entry |-> pair])
         /\ [nmap EXCEPT ![c].host = None, ![c].entry = None] \in [Finishers -> Works]
         /\ Sets(nmap, [nmap EXCEPT ![c].host = None, ![c].entry = None], c,
                 [hosts |-> nmap[c].hosts, pending |-> nmap[c].pending, host |-> None,
                  entry |-> None])
<1>1. ASSUME NEW r \in Iters
      PROVE  [iter EXCEPT ![c] = r] \in [Finishers -> Iters]
             /\ Sets(iter, [iter EXCEPT ![c] = r], c, r)
  BY DEF Sets
<1>2. ASSUME NEW r \in Works
      PROVE  [nmap EXCEPT ![c] = r] \in [Finishers -> Works]
             /\ Sets(nmap, [nmap EXCEPT ![c] = r], c, r)
  BY DEF Sets
<1>3. iter[c] \in Iters /\ nmap[c] \in Works
  OBVIOUS
<1>4. /\ [iter EXCEPT ![c].state = "check", ![c].cur = None] \in [Finishers -> Iters]
      /\ Sets(iter, [iter EXCEPT ![c].state = "check", ![c].cur = None], c,
              [state |-> "check", todo |-> iter[c].todo, cur |-> None])
  <2>. DEFINE r == [state |-> "check", todo |-> iter[c].todo, cur |-> None]
  <2>1. [iter EXCEPT ![c].state = "check", ![c].cur = None]
          = [iter EXCEPT ![c] = [iter[c] EXCEPT !.state = "check", !.cur = None]]
    OBVIOUS
  <2>2. [iter[c] EXCEPT !.state = "check", !.cur = None] = r
    BY <1>3, TwoFields
  <2>3. r \in Iters
    BY <1>3 DEF Iters
  <2>. QED
    BY <1>1, <2>1, <2>2, <2>3
<1>5. ASSUME NEW up \in SUBSET Hosts, NEW rep \in SUBSET Pairs
      PROVE  /\ [nmap EXCEPT ![c].hosts = up, ![c].pending = rep] \in [Finishers -> Works]
             /\ Sets(nmap, [nmap EXCEPT ![c].hosts = up, ![c].pending = rep], c,
                     [hosts |-> up, pending |-> rep, host |-> nmap[c].host,
                      entry |-> nmap[c].entry])
  <2>. DEFINE r == [hosts |-> up, pending |-> rep, host |-> nmap[c].host,
                    entry |-> nmap[c].entry]
  <2>1. [nmap EXCEPT ![c].hosts = up, ![c].pending = rep]
          = [nmap EXCEPT ![c] = [nmap[c] EXCEPT !.hosts = up, !.pending = rep]]
    OBVIOUS
  <2>2. [nmap[c] EXCEPT !.hosts = up, !.pending = rep] = r
    BY <1>3, TwoFields
  <2>3. r \in Works
    BY <1>3 DEF Works
  <2>. QED
    BY <1>2, <2>1, <2>2, <2>3
<1>6. ASSUME NEW h \in Hosts, NEW left \in SUBSET Hosts
      PROVE  /\ [nmap EXCEPT ![c].host = h, ![c].hosts = left] \in [Finishers -> Works]
             /\ Sets(nmap, [nmap EXCEPT ![c].host = h, ![c].hosts = left], c,
                     [hosts |-> left, pending |-> nmap[c].pending, host |-> h,
                      entry |-> nmap[c].entry])
  <2>. DEFINE r == [hosts |-> left, pending |-> nmap[c].pending, host |-> h,
                    entry |-> nmap[c].entry]
  <2>1. [nmap EXCEPT ![c].host = h, ![c].hosts = left]
          = [nmap EXCEPT ![c] = [nmap[c] EXCEPT !.host = h, !.hosts = left]]
    OBVIOUS
  <2>2. [nmap[c] EXCEPT !.host = h, !.hosts = left] = r
    <3>. DEFINE w == [nmap[c] EXCEPT !.host = h]
    <3>1. w = [hosts |-> nmap[c].hosts, pending |-> nmap[c].pending, host |-> h,
               entry |-> nmap[c].entry]
      BY <1>3, OneField
    <3>2. w \in Works
      BY <1>3, <3>1 DEF Works
    <3>3. [nmap[c] EXCEPT !.host = h, !.hosts = left] = [w EXCEPT !.hosts = left]
      OBVIOUS
    <3>4. [w EXCEPT !.hosts = left] = [hosts |-> left, pending |-> w.pending,
                                       host |-> w.host, entry |-> w.entry]
      <4>. HIDE DEF w
      <4>. QED
        BY <3>2, OneField
    <3>. QED
      BY <3>1, <3>3, <3>4
  <2>3. r \in Works
    BY <1>3 DEF Works
  <2>. QED
    BY <1>2, <2>1, <2>2, <2>3
<1>7. ASSUME NEW pair \in Pairs, NEW left \in SUBSET Pairs
      PROVE  /\ [nmap EXCEPT ![c].entry = pair, ![c].pending = left] \in [Finishers -> Works]
             /\ Sets(nmap, [nmap EXCEPT ![c].entry = pair, ![c].pending = left], c,
                     [hosts |-> nmap[c].hosts, pending |-> left, host |-> nmap[c].host,
                      entry |-> pair])
  <2>. DEFINE r == [hosts |-> nmap[c].hosts, pending |-> left, host |-> nmap[c].host,
                    entry |-> pair]
  <2>1. [nmap EXCEPT ![c].entry = pair, ![c].pending = left]
          = [nmap EXCEPT ![c] = [nmap[c] EXCEPT !.entry = pair, !.pending = left]]
    OBVIOUS
  <2>2. [nmap[c] EXCEPT !.entry = pair, !.pending = left] = r
    BY <1>3, TwoFields
  <2>3. r \in Works
    BY <1>3 DEF Works
  <2>. QED
    BY <1>2, <2>1, <2>2, <2>3
<1>8. /\ [nmap EXCEPT ![c].host = None, ![c].entry = None] \in [Finishers -> Works]
      /\ Sets(nmap, [nmap EXCEPT ![c].host = None, ![c].entry = None], c,
              [hosts |-> nmap[c].hosts, pending |-> nmap[c].pending, host |-> None,
               entry |-> None])
  <2>. DEFINE r == [hosts |-> nmap[c].hosts, pending |-> nmap[c].pending, host |-> None,
                    entry |-> None]
  <2>1. [nmap EXCEPT ![c].host = None, ![c].entry = None]
          = [nmap EXCEPT ![c] = [nmap[c] EXCEPT !.host = None, !.entry = None]]
    OBVIOUS
  <2>2. [nmap[c] EXCEPT !.host = None, !.entry = None] = r
    BY <1>3, TwoFields
  <2>3. r \in Works
    BY <1>3 DEF Works
  <2>. QED
    BY <1>2, <2>1, <2>2, <2>3
<1>. QED
  BY <1>4, <1>5, <1>6, <1>7, <1>8

\* The record of the range loop of c, or of its handleNmap, gets these fields.
IterTo(c, state, todo, cur) ==
  /\ iter' \in [Finishers -> Iters]
  /\ iter'[c].state = state /\ iter'[c].todo = todo /\ iter'[c].cur = cur
  /\ \A d \in Finishers : d # c => iter'[d] = iter[d]
WorkTo(c, pending, host, entry) ==
  /\ nmap' \in [Finishers -> Works]
  /\ nmap'[c].pending = pending /\ nmap'[c].host = host /\ nmap'[c].entry = entry
  /\ \A d \in Finishers : d # c => nmap'[d] = nmap[d]

\* The two records in these terms.
LEMMA RecordTypes ==
  TypeOK => /\ iter \in [Finishers -> Iters] /\ nmap \in [Finishers -> Works]
            /\ at \in [Finishers -> Stages]
  BY DEF TypeOK, Iters, Works

\* What the steps do to the range loops.
LEMMA IterSteps ==
  ASSUME TypeOK, NEW c \in Finishers
  PROVE  /\ Continues(c) => IterTo(c, "check", iter[c].todo, None)
         /\ \A stage : Returns(c, stage) => IterTo(c, "off", {}, None)
         /\ GetIPsPorts(c) => IterTo(c, "check", {h \in Hosts : Recorded(h) # {}}, None)
         /\ HasSkipped(c) => \E h \in iter[c].todo :
                               IterTo(c, "send", iter[c].todo \ {h}, h)
         /\ RangeEnds(c) => IterTo(c, "off", {}, None)
<1>. USE DEF IterTo
<1>1. iter \in [Finishers -> Iters]
  BY RecordTypes
<1>2. ASSUME Continues(c)
      PROVE  IterTo(c, "check", iter[c].todo, None)
  <2>1. /\ iter' \in [Finishers -> Iters]
        /\ Sets(iter, iter', c, [state |-> "check", todo |-> iter[c].todo, cur |-> None])
    BY <1>1, <1>2, RecordTypes, FieldsSet DEF Continues
  <2>. QED
    BY <2>1 DEF Sets
<1>3. NoIter \in Iters /\ NoIter.state = "off" /\ NoIter.todo = {} /\ NoIter.cur = None
  BY DEF NoIter, Iters
<1>4. ASSUME iter' = [iter EXCEPT ![c] = NoIter]
      PROVE  IterTo(c, "off", {}, None)
  BY <1>1, <1>3, <1>4
<1>5. ASSUME GetIPsPorts(c)
      PROVE  IterTo(c, "check", {h \in Hosts : Recorded(h) # {}}, None)
  <2>. DEFINE hosts == {h \in Hosts : Recorded(h) # {}}
              r == [state |-> "check", todo |-> hosts, cur |-> None]
  <2>1. iter' = [iter EXCEPT ![c] = r]
    BY <1>5 DEF GetIPsPorts
  <2>2. hosts \in SUBSET Hosts
    OBVIOUS
  <2>. HIDE DEF hosts
  <2>3. r \in Iters /\ r.state = "check" /\ r.todo = hosts /\ r.cur = None
    BY <2>2 DEF Iters
  <2>. HIDE DEF r
  <2>4. IterTo(c, "check", hosts, None)
    BY <1>1, <2>1, <2>3
  <2>. QED
    BY <2>4 DEF hosts
<1>6. ASSUME HasSkipped(c)
      PROVE  \E h \in iter[c].todo : IterTo(c, "send", iter[c].todo \ {h}, h)
  <2>1. PICK h \in iter[c].todo :
          iter' = [iter EXCEPT ![c] = [state |-> "send", todo |-> iter[c].todo \ {h},
                                       cur |-> h]]
    BY <1>6 DEF HasSkipped
  <2>. DEFINE r == [state |-> "send", todo |-> iter[c].todo \ {h}, cur |-> h]
  <2>2. iter[c].todo \in SUBSET Hosts
    BY <1>1 DEF Iters
  <2>3. r \in Iters /\ r.state = "send" /\ r.todo = iter[c].todo \ {h} /\ r.cur = h
    BY <2>2 DEF Iters
  <2>. HIDE DEF r
  <2>. QED
    BY <1>1, <2>1, <2>3 DEF r
<1>7. \A stage : Returns(c, stage) => iter' = [iter EXCEPT ![c] = NoIter]
  BY DEF Returns
<1>8. RangeEnds(c) => iter' = [iter EXCEPT ![c] = NoIter]
  BY DEF RangeEnds
<1>. QED
  BY <1>2, <1>4, <1>5, <1>6, <1>7, <1>8

\* What they do to the work of handleNmap.
LEMMA WorkSteps ==
  ASSUME TypeOK, NEW c \in Finishers
  PROVE  /\ RunNmap(c) => \E rep \in SUBSET Pairs :
              /\ WorkTo(c, rep, nmap[c].host, nmap[c].entry)
              /\ report' = IF c = main THEN report \cup rep ELSE report
              /\ began' \in [Finishers -> SUBSET Pairs]
         /\ NextHost(c) => \E h \in Hosts :
              WorkTo(c, nmap[c].pending, h, nmap[c].entry)
         /\ NextPort(c) => \E pair \in nmap[c].pending :
              WorkTo(c, nmap[c].pending \ {pair}, nmap[c].host, pair)
         /\ RangeEnds(c) =>
              IF at[c] = "os" THEN WorkTo(c, nmap[c].pending, None, None)
                              ELSE nmap' = nmap
         /\ UpdateHostOS(c) =>
              IF iter[c].cur = nmap[c].host
              THEN WorkTo(c, nmap[c].pending, None, None) ELSE nmap' = nmap
<1>. USE DEF WorkTo
<1>1. nmap \in [Finishers -> Works] /\ iter \in [Finishers -> Iters]
  BY RecordTypes
<1>2. ASSUME RunNmap(c)
      PROVE  \E rep \in SUBSET Pairs :
               /\ WorkTo(c, rep, nmap[c].host, nmap[c].entry)
               /\ report' = IF c = main THEN report \cup rep ELSE report
               /\ began' \in [Finishers -> SUBSET Pairs]
  <2>1. PICK one \in began[c] :
       LET group == {pair \in began[c] : Group(c, pair[1]) = Group(c, one[1])}
       IN  \E up \in SUBSET {pair[1] : pair \in group} :
           \E rep \in SUBSET (up \X {pair[2] : pair \in group}) :
             /\ nmap' = [nmap EXCEPT ![c].hosts = up, ![c].pending = rep]
             /\ report' = IF c = main THEN report \union rep ELSE report
             /\ began' = [began EXCEPT ![c] = @ \ group]
    BY <1>2 DEF RunNmap
  <2>. DEFINE group == {pair \in began[c] : Group(c, pair[1]) = Group(c, one[1])}
              hosts == {pair[1] : pair \in group}
              nums  == {pair[2] : pair \in group}
  <2>2. group \subseteq Pairs /\ hosts \subseteq Hosts /\ nums \subseteq Ports
    BY DEF Pairs, TypeOK
  <2>3. PICK up \in SUBSET hosts :
          \E rep \in SUBSET (up \X nums) :
             /\ nmap' = [nmap EXCEPT ![c].hosts = up, ![c].pending = rep]
             /\ report' = IF c = main THEN report \union rep ELSE report
             /\ began' = [began EXCEPT ![c] = began[c] \ group]
    BY <2>1
  <2>4. PICK rep \in SUBSET (up \X nums) :
             /\ nmap' = [nmap EXCEPT ![c].hosts = up, ![c].pending = rep]
             /\ report' = IF c = main THEN report \union rep ELSE report
             /\ began' = [began EXCEPT ![c] = began[c] \ group]
    BY <2>3
  <2>. HIDE DEF group, hosts, nums
  <2>5. up \in SUBSET Hosts /\ rep \in SUBSET Pairs
    BY <2>2 DEF Pairs
  <2>6. /\ nmap' \in [Finishers -> Works]
        /\ Sets(nmap, nmap', c, [hosts |-> up, pending |-> rep, host |-> nmap[c].host,
                                 entry |-> nmap[c].entry])
    BY <1>1, <2>4, <2>5, FieldsSet
  <2>7. WorkTo(c, rep, nmap[c].host, nmap[c].entry)
    BY <2>6 DEF Sets
  <2>8. began' \in [Finishers -> SUBSET Pairs]
    BY <2>4 DEF TypeOK
  <2>. QED
    BY <2>4, <2>5, <2>7, <2>8
<1>3. ASSUME NextPort(c)
      PROVE  \E pair \in nmap[c].pending :
               WorkTo(c, nmap[c].pending \ {pair}, nmap[c].host, pair)
  <2>1. PICK pair \in nmap[c].pending :
          nmap' = [nmap EXCEPT ![c].entry = pair, ![c].pending = nmap[c].pending \ {pair}]
    BY <1>3 DEF NextPort
  <2>2. nmap[c].pending \ {pair} \in SUBSET Pairs /\ pair \in Pairs
    BY <1>1 DEF Works
  <2>3. /\ nmap' \in [Finishers -> Works]
        /\ Sets(nmap, nmap', c, [hosts |-> nmap[c].hosts,
                                 pending |-> nmap[c].pending \ {pair},
                                 host |-> nmap[c].host, entry |-> pair])
    BY <1>1, <2>1, <2>2, FieldsSet
  <2>. QED
    BY <2>3 DEF Sets
<1>4. ASSUME nmap' = [nmap EXCEPT ![c].host = None, ![c].entry = None]
      PROVE  WorkTo(c, nmap[c].pending, None, None)
  <2>1. /\ nmap' \in [Finishers -> Works]
        /\ Sets(nmap, nmap', c, [hosts |-> nmap[c].hosts, pending |-> nmap[c].pending,
                                 host |-> None, entry |-> None])
    BY <1>1, <1>4, FieldsSet
  <2>. QED
    BY <2>1 DEF Sets
<1>5. RangeEnds(c) =>
        IF at[c] = "os" THEN nmap' = [nmap EXCEPT ![c].host = None, ![c].entry = None]
                        ELSE nmap' = nmap
  BY DEF RangeEnds
<1>6. UpdateHostOS(c) =>
        IF iter[c].cur = nmap[c].host
        THEN nmap' = [nmap EXCEPT ![c].host = None, ![c].entry = None] ELSE nmap' = nmap
  BY DEF UpdateHostOS
<1>7. ASSUME NextHost(c)
      PROVE  \E h \in Hosts : WorkTo(c, nmap[c].pending, h, nmap[c].entry)
  <2>1. PICK h \in nmap[c].hosts :
          nmap' = [nmap EXCEPT ![c].host = h, ![c].hosts = nmap[c].hosts \ {h}]
    BY <1>7 DEF NextHost
  <2>2. nmap[c].hosts \ {h} \in SUBSET Hosts /\ h \in Hosts
    BY <1>1 DEF Works
  <2>3. /\ nmap' \in [Finishers -> Works]
        /\ Sets(nmap, nmap', c, [hosts |-> nmap[c].hosts \ {h},
                                 pending |-> nmap[c].pending, host |-> h,
                                 entry |-> nmap[c].entry])
    BY <1>1, <2>1, <2>2, FieldsSet
  <2>. QED
    BY <2>2, <2>3 DEF Sets
<1>. QED
  BY <1>2, <1>3, <1>4, <1>5, <1>6, <1>7

\* The steps of a finisher take the records as they are.
LEMMA RecordSteps ==
  ASSUME TypeOK, NEW c \in Finishers, Finisher(c)
  PROVE  iter' \in [Finishers -> Iters] /\ nmap' \in [Finishers -> Works]
<1>1. iter \in [Finishers -> Iters] /\ nmap \in [Finishers -> Works]
  BY RecordTypes
<1>2. CASE Range(c)
  <2>1. CASE GetIPsPorts(c)
    BY <1>1, <2>1, IterSteps DEF IterTo, GetIPsPorts
  <2>2. CASE HasSkipped(c)
    BY <1>1, <2>2, IterSteps DEF IterTo, HasSkipped
  <2>3. CASE RangeEnds(c)
    <3>1. iter' \in [Finishers -> Iters]
      BY <2>3, IterSteps DEF IterTo
    <3>2. nmap' \in [Finishers -> Works]
      BY <1>1, <2>3, WorkSteps DEF WorkTo
    <3>. QED
      BY <3>1, <3>2
  <2>4. CASE Collect(c) \/ HandleOutput(c)
    <3>1. Continues(c) /\ nmap' = nmap
      BY <2>4 DEF Collect, HandleOutput
    <3>. QED
      BY <1>1, <3>1, IterSteps DEF IterTo
  <2>. QED
    BY <1>2, <2>1, <2>2, <2>3, <2>4 DEF Range
<1>3. CASE HandleNmap(c) \/ Choose(c)
  <2>1. CASE RunNmap(c)
    BY <1>1, <2>1, WorkSteps DEF WorkTo, RunNmap
  <2>2. CASE NextPort(c) \/ NextHost(c)
    BY <1>1, <2>2, WorkSteps DEF WorkTo, NextPort, NextHost
  <2>3. CASE IPHasPort(c) \/ NmapAddPortWaits(c) \/ NmapAddPort(c) \/ HostDone(c)
             \/ Integrated(c) \/ NmapThrough(c) \/ Choose(c)
    <3>1. iter' = iter /\ nmap' = nmap
      BY <2>3 DEF IPHasPort, NmapAddPortWaits, NmapAddPort, HostDone, Integrated,
                  NmapThrough, Choose, HasIPsPorts, HasIPS, GetIPsWaits, GetIPs
    <3>. QED
      BY <1>1, <3>1
  <2>4. CASE UpdatePort(c)
    <3>1. nmap' = nmap /\ (Continues(c) \/ Returns(c, "entry"))
      BY <2>4 DEF UpdatePort
    <3>. QED
      BY <1>1, <3>1, IterSteps DEF IterTo
  <2>5. CASE UpdateHostOS(c)
    <3>1. Continues(c) \/ Returns(c, "entry")
      BY <2>5 DEF UpdateHostOS
    <3>2. iter' \in [Finishers -> Iters]
      BY <3>1, IterSteps DEF IterTo
    <3>3. nmap' \in [Finishers -> Works]
      BY <1>1, <2>5, WorkSteps DEF WorkTo
    <3>. QED
      BY <3>2, <3>3
  <2>. QED
    BY <1>3, <2>1, <2>2, <2>3, <2>4, <2>5 DEF HandleNmap
<1>. QED
  BY <1>2, <1>3 DEF Finisher

\* TypeOK, the two records named.
LEMMA TypeParts ==
  TypeOK' = (/\ ports' \subseteq Pairs /\ own' \subseteq ports' /\ services' \subseteq Ports
             /\ skipped' \subseteq Hosts
             /\ readers' \in Nat /\ writer' \in {None} \union OpenPairs \union Finishers
             /\ probe' \in [OpenPairs -> {"dialing", "open", "adding", "done"}]
             /\ at' \in [Finishers -> Stages]
             /\ iter' \in [Finishers -> Iters] /\ nmap' \in [Finishers -> Works]
             /\ emitted' \in [Finishers -> SUBSET Pairs]
             /\ began' \in [Finishers -> SUBSET Pairs] /\ report' \subseteq Pairs)
  BY DEF TypeOK, Iters, Works

\* Every step keeps the types.
LEMMA ResultsTypeStep == TypeOK /\ RangeInv /\ WorkInv /\ [Next]_vars => TypeOK'
<1>. SUFFICES ASSUME TypeOK, RangeInv, WorkInv, [Next]_vars
              PROVE  TypeOK'
  OBVIOUS
<1>. USE DEF held, lockVars
<1>1. OpenPairs \subseteq Pairs /\ main \in Finishers
  BY ResultsAssumption DEF Pairs, Finishers
<1>2. ASSUME NEW p \in OpenPairs, Probe(p)
      PROVE  TypeOK'
  <2>1. CASE ProbeAnswers(p)
    BY <2>1 DEF ProbeAnswers, TypeOK
  <2>2. CASE AddPortWaits(p)
    BY <2>2 DEF AddPortWaits, Announce, TypeOK
  <2>3. CASE AddPort(p)
    BY <2>3, <1>1 DEF AddPort, Locked, TypeOK
  <2>. QED
    BY <1>2, <2>1, <2>2, <2>3 DEF Probe
<1>3. CASE ScanLoop
  BY <1>3, <1>1 DEF ScanLoop, AddSkippedWaits, AddSkipped, ScanEnds, Announce,
                    Locked, FirstStage, TypeOK, Stages
<1>4. CASE Interrupt
  BY <1>4 DEF Interrupt, FirstStage, TypeOK, Stages
<1>5. ASSUME NEW c \in Finishers, Finisher(c)
      PROVE  TypeOK'
  <2>1. iter' \in [Finishers -> Iters] /\ nmap' \in [Finishers -> Works]
    BY <1>5, RecordSteps
  <2>. SUFFICES /\ ports' \subseteq Pairs /\ own' \subseteq ports'
                /\ services' \subseteq Ports /\ skipped' \subseteq Hosts
                /\ readers' \in Nat
                /\ writer' \in {None} \union OpenPairs \union Finishers
                /\ probe' \in [OpenPairs -> {"dialing", "open", "adding", "done"}]
                /\ at' \in [Finishers -> Stages]
                /\ emitted' \in [Finishers -> SUBSET Pairs]
                /\ began' \in [Finishers -> SUBSET Pairs] /\ report' \subseteq Pairs
    BY <2>1, TypeParts
  <2>. USE DEF TypeOK
  <2>2. CASE GetIPsPorts(c)
    BY <2>2 DEF GetIPsPorts, RLock
  <2>3. CASE HasSkipped(c)
    BY <2>3 DEF HasSkipped
  <2>4. CASE RangeEnds(c)
    <3>1. readers' \in Nat
      BY <2>4, HoldsType DEF RangeEnds, RUnlocks
    <3>2. at[c] \in Ranging
      BY <2>4 DEF RangeEnds, RangeInv
    <3>3. at' \in [Finishers -> Stages]
      BY <2>4, <3>2 DEF RangeEnds, Ranging, Stages
    <3>. QED
      BY <2>4, <3>1, <3>3 DEF RangeEnds
  <2>5. CASE Collect(c)
    BY <2>5 DEF Collect, Continues
  <2>6. CASE HandleOutput(c)
    BY <2>6 DEF HandleOutput, Continues
  <2>7. CASE RunNmap(c)
    <3>1. report' \subseteq Pairs /\ began' \in [Finishers -> SUBSET Pairs]
      BY <2>7, WorkSteps
    <3>2. /\ at' = [at EXCEPT ![c] = "entry"]
          /\ UNCHANGED <<held, skipped, lockVars, probe, emitted>>
      BY <2>7 DEF RunNmap
    <3>. QED
      BY <3>1, <3>2 DEF Stages
  <2>8. CASE NextPort(c) \/ IPHasPort(c) \/ HostDone(c) \/ Integrated(c)
    BY <2>8 DEF NextPort, IPHasPort, HostDone, Integrated, Stages
  <2>9. CASE NextHost(c) \/ NmapThrough(c)
    BY <2>9 DEF NextHost, NmapThrough, Stages
  <2>10. CASE Choose(c)
    BY <2>10 DEF Choose, HasIPsPorts, HasIPS, GetIPsWaits, GetIPs, Announce, Locked,
                 Stages
  <2>11. CASE UpdatePort(c)
    <3>1. CASE Matches(c)
      <4>1. nmap[c].entry \in Pairs
        BY <3>1 DEF Matches
      <4>2. services' \subseteq Ports
        BY <2>11, <3>1, <4>1 DEF UpdatePort, Pairs
      <4>3. readers' \in Nat
        BY <2>11, <3>1, HoldsType DEF UpdatePort, Returns
      <4>. QED
        BY <2>11, <3>1, <4>2, <4>3 DEF UpdatePort, Returns, Stages
    <3>2. CASE ~Matches(c)
      BY <2>11, <3>2 DEF UpdatePort, Continues
    <3>. QED
      BY <3>1, <3>2
  <2>12. CASE NmapAddPortWaits(c)
    BY <2>12 DEF NmapAddPortWaits, Announce, Stages
  <2>13. CASE NmapAddPort(c)
    <3>1. at[c] = "adding" /\ Locked(c) /\ UNCHANGED <<services, skipped, probe,
            emitted, began, report>>
      BY <2>13 DEF NmapAddPort
    <3>2. nmap[c].entry \in Pairs
      BY <3>1 DEF WorkInv, AtWork
    <3>. QED
      BY <2>13, <3>1, <3>2 DEF NmapAddPort, Locked, Stages
  <2>14. CASE UpdateHostOS(c)
    <3>1. CASE iter[c].cur = nmap[c].host
      <4>1. readers' \in Nat
        BY <2>14, <3>1, HoldsType DEF UpdateHostOS, Returns
      <4>. QED
        BY <2>14, <3>1, <4>1 DEF UpdateHostOS, Returns, Stages
    <3>2. CASE iter[c].cur # nmap[c].host
      BY <2>14, <3>2 DEF UpdateHostOS, Continues
    <3>. QED
      BY <3>1, <3>2
  <2>. QED
    BY <1>5, <2>2, <2>3, <2>4, <2>5, <2>6, <2>7, <2>8, <2>11, <2>12, <2>13, <2>14,
       <2>9, <2>10 DEF Finisher, Range, HandleNmap
<1>6. CASE Gone \/ UNCHANGED vars
  BY <1>6 DEF Gone, vars, TypeOK
<1>. QED
  BY <1>2, <1>3, <1>4, <1>5, <1>6 DEF Next

\* A finisher's step leaves the probes and what belongs to the other finisher.
LEMMA OthersStay ==
  ASSUME TypeOK, NEW c \in Finishers, Finisher(c)
  PROVE  /\ probe' = probe
         /\ \A d \in Finishers : d # c =>
              /\ at'[d] = at[d] /\ iter'[d] = iter[d] /\ nmap'[d] = nmap[d]
              /\ emitted'[d] = emitted[d] /\ began'[d] = began[d]
<1>. DEFINE Stay == /\ probe' = probe
                    /\ \A d \in Finishers : d # c =>
                         /\ at'[d] = at[d] /\ iter'[d] = iter[d] /\ nmap'[d] = nmap[d]
                         /\ emitted'[d] = emitted[d] /\ began'[d] = began[d]
<1>. USE DEF TypeOK
<1>1. CASE GetIPsPorts(c) \/ HasSkipped(c) \/ RangeEnds(c)
  BY <1>1 DEF GetIPsPorts, HasSkipped, RangeEnds
<1>2. CASE Collect(c) \/ HandleOutput(c)
  BY <1>2 DEF Collect, HandleOutput, Continues
<1>3. CASE RunNmap(c)
  BY <1>3 DEF RunNmap
<1>4. CASE NextPort(c) \/ NextHost(c)
  BY <1>4 DEF NextPort, NextHost
<1>5. CASE IPHasPort(c) \/ NmapAddPortWaits(c) \/ NmapAddPort(c) \/ HostDone(c)
           \/ Integrated(c) \/ NmapThrough(c)
  BY <1>5 DEF IPHasPort, NmapAddPortWaits, NmapAddPort, HostDone, Integrated, NmapThrough
<1>6. CASE Choose(c)
  BY <1>6 DEF Choose, HasIPsPorts, HasIPS, GetIPsWaits, GetIPs
<1>7. CASE UpdatePort(c)
  BY <1>7 DEF UpdatePort, Returns, Continues
<1>8. CASE UpdateHostOS(c)
  BY <1>8 DEF UpdateHostOS, Returns, Continues
<1>. QED
  BY <1>1, <1>2, <1>3, <1>4, <1>5, <1>7, <1>8, <1>6 DEF Finisher, Range, HandleNmap

\* A range loop keeps its lock until it ends, and writers wait for that.
LEMMA RangeInvStep == TypeOK /\ RangeInv /\ [Next]_vars => RangeInv'
<1>. SUFFICES ASSUME TypeOK, RangeInv, [Next]_vars
              PROVE  RangeInv'
  OBVIOUS
<1>1. main \in Finishers /\ handler \in Finishers /\ main # handler
      /\ \A c \in Finishers : c = main \/ c = handler
  BY ResultsAssumption DEF Finishers
<1>2. ASSUME iter' = iter, readers' = readers,
             \A c \in Finishers : at'[c] = at[c] \/ at[c] \notin Ranging
      PROVE  RangeInv'
  BY <1>2 DEF RangeInv, Holds
<1>3. ASSUME NEW p \in OpenPairs, Probe(p)
      PROVE  RangeInv'
  <2>1. iter' = iter /\ readers' = readers /\ at' = at
    BY <1>3 DEF Probe, ProbeAnswers, AddPortWaits, AddPort, Announce, Locked, lockVars
  <2>. QED
    BY <1>2, <2>1
<1>4. CASE ScanLoop \/ Interrupt
  <2>1. iter' = iter /\ readers' = readers
    BY <1>4 DEF ScanLoop, Interrupt, AddSkippedWaits, AddSkipped, ScanEnds, Announce,
                Locked, lockVars
  <2>2. \A c \in Finishers : at'[c] = at[c] \/ at[c] \notin Ranging
    BY <1>4, <1>1 DEF ScanLoop, Interrupt, AddSkippedWaits, AddSkipped, ScanEnds,
                      TypeOK, Ranging
  <2>. QED
    BY <1>2, <2>1, <2>2
<1>5. ASSUME NEW c \in Finishers, Finisher(c)
      PROVE  RangeInv'
  <2>. DEFINE Mine ==
         /\ iter'[c].state # "off" => at'[c] \in Ranging
         /\ iter'[c].state = "send" => iter'[c].cur \in Hosts
         /\ readers' - Holds(c)' >= readers - Holds(c)
  <2>1. Holds(main) \in {0, 1} /\ Holds(handler) \in {0, 1} /\ readers \in Nat
    BY <1>1, HoldsType DEF TypeOK
  <2>2. ASSUME Mine, readers' \in Int
        PROVE  RangeInv'
    <3>1. PICK d \in Finishers : d # c /\ \A e \in Finishers : e = c \/ e = d
      BY <1>1
    <3>2. at'[d] = at[d] /\ iter'[d] = iter[d]
      BY <1>5, <3>1, OthersStay
    <3>3. Holds(d)' = Holds(d) /\ Holds(c)' \in {0, 1} /\ Holds(d) \in {0, 1}
          /\ Holds(c) \in {0, 1}
      BY <3>2, HoldsType DEF Holds
    <3>4. readers' >= Holds(c)' + Holds(d)'
      <4>1. readers >= Holds(c) + Holds(d)
        <5>1. CASE c = main /\ d = handler
          BY <5>1, <2>1 DEF RangeInv
        <5>2. CASE c = handler /\ d = main
          BY <5>2, <2>1 DEF RangeInv
        <5>. QED
          BY <1>1, <3>1, <5>1, <5>2
      <4>. QED
        BY <2>1, <2>2, <3>3, <4>1
    <3>5. readers' >= Holds(main)' + Holds(handler)'
      <4>1. CASE c = main /\ d = handler
        BY <4>1, <3>4
      <4>2. CASE c = handler /\ d = main
        BY <4>2, <3>3, <3>4
      <4>. QED
        BY <1>1, <3>1, <4>1, <4>2
    <3>6. \A e \in Finishers : /\ iter'[e].state # "off" => at'[e] \in Ranging
                               /\ iter'[e].state = "send" => iter'[e].cur \in Hosts
      BY <2>2, <3>1, <3>2 DEF RangeInv
    <3>. QED
      BY <3>5, <3>6 DEF RangeInv
  <2>3. CASE GetIPsPorts(c)
    <3>1. iter'[c].state = "check" /\ iter[c].state = "off" /\ readers' = readers + 1
          /\ at'[c] \in Ranging
      BY <2>3, IterSteps DEF IterTo, GetIPsPorts, RLock
    <3>. QED
      BY <2>1, <2>2, <3>1 DEF Holds
  <2>4. CASE HasSkipped(c)
    <3>1. iter'[c].state = "send" /\ iter[c].state = "check" /\ readers' = readers
          /\ at'[c] = at[c] /\ iter'[c].cur \in iter[c].todo
      BY <2>4, IterSteps DEF IterTo, HasSkipped, lockVars
    <3>2. iter[c].todo \subseteq Hosts /\ at[c] \in Ranging
      BY <3>1 DEF TypeOK, RangeInv
    <3>. QED
      BY <2>1, <2>2, <3>1, <3>2 DEF Holds
  <2>5. CASE RangeEnds(c)
    <3>1. iter'[c].state = "off" /\ iter[c].state = "check" /\ readers' = readers - 1
      BY <2>5, IterSteps DEF IterTo, RangeEnds, RUnlocks
    <3>. QED
      BY <2>1, <2>2, <3>1 DEF Holds
  <2>6. ASSUME Continues(c), iter[c].state = "send"
        PROVE  RangeInv'
    <3>1. iter'[c].state = "check" /\ readers' = readers /\ at'[c] = at[c]
      BY <2>6, IterSteps DEF IterTo, Continues
    <3>2. at[c] \in Ranging
      BY <2>6 DEF RangeInv
    <3>. QED
      BY <2>1, <2>2, <2>6, <3>1, <3>2 DEF Holds
  <2>7. ASSUME Returns(c, "entry"), iter[c].state = "send"
        PROVE  RangeInv'
    <3>1. iter'[c].state = "off" /\ (readers' = readers - 1 \/ readers' = readers)
      BY <2>7, IterSteps DEF IterTo, Returns
    <3>2. Holds(c)' = 0 /\ Holds(c) = 1
      BY <2>7, <3>1 DEF Holds
    <3>3. readers' \in Int /\ readers' - 0 >= readers - 1
      BY <2>1, <3>1
    <3>. QED
      BY <2>2, <3>1, <3>2, <3>3
  <2>8. CASE RunNmap(c) \/ NextPort(c) \/ IPHasPort(c) \/ NmapAddPortWaits(c)
             \/ NmapAddPort(c) \/ HostDone(c) \/ Integrated(c) \/ NextHost(c)
             \/ NmapThrough(c) \/ Choose(c)
    <3>1. iter' = iter /\ readers' = readers /\ at[c] \notin Ranging
      BY <2>8 DEF RunNmap, NextPort, IPHasPort, NmapAddPortWaits, NmapAddPort,
                  HostDone, Integrated, NextHost, NmapThrough, Choose, HasIPsPorts,
                  HasIPS, GetIPsWaits, GetIPs, Announce, Locked, lockVars, Ranging
    <3>2. \A d \in Finishers : at'[d] = at[d] \/ at[d] \notin Ranging
      BY <1>5, <3>1, OthersStay
    <3>. QED
      BY <1>2, <3>1, <3>2
  <2>9. CASE Collect(c) \/ HandleOutput(c)
    BY <2>6, <2>9 DEF Collect, HandleOutput
  <2>10. CASE UpdatePort(c) \/ UpdateHostOS(c)
    BY <2>6, <2>7, <2>10 DEF UpdatePort, UpdateHostOS
  <2>. QED
    BY <1>5, <2>3, <2>4, <2>5, <2>8, <2>9, <2>10 DEF Finisher, Range, HandleNmap
<1>6. CASE Gone \/ UNCHANGED vars
  BY <1>2, <1>6 DEF Gone, vars
<1>. QED
  BY <1>3, <1>4, <1>5, <1>6 DEF Next

\* An entry of nmap's report is in work from NextPort on.
LEMMA WorkInvStep == TypeOK /\ RangeInv /\ WorkInv /\ [Next]_vars => WorkInv'
<1>. SUFFICES ASSUME TypeOK, RangeInv, WorkInv, [Next]_vars
              PROVE  WorkInv'
  OBVIOUS
<1>1. ASSUME nmap' = nmap,
             \A c \in Finishers : at'[c] \in AtWork => at[c] \in AtWork
      PROVE  WorkInv'
  BY <1>1 DEF WorkInv
<1>2. ASSUME NEW p \in OpenPairs, Probe(p)
      PROVE  WorkInv'
  BY <1>1, <1>2 DEF Probe, ProbeAnswers, AddPortWaits, AddPort
<1>3. CASE ScanLoop \/ Interrupt
  <2>1. nmap' = nmap /\ \A c \in Finishers : at'[c] \in AtWork => at[c] \in AtWork
    BY <1>3 DEF ScanLoop, Interrupt, AddSkippedWaits, AddSkipped, ScanEnds, FirstStage,
                TypeOK, AtWork
  <2>. QED
    BY <1>1, <2>1
<1>4. ASSUME NEW c \in Finishers, Finisher(c)
      PROVE  WorkInv'
  <2>1. SUFFICES ASSUME at'[c] \in AtWork
                 PROVE  nmap'[c].entry \in Pairs
    BY <1>4, OthersStay DEF WorkInv
  <2>2. CASE NextPort(c)
    <3>1. PICK pair \in nmap[c].pending :
                 WorkTo(c, nmap[c].pending \ {pair}, nmap[c].host, pair)
      BY <2>2, WorkSteps
    <3>. QED
      BY <3>1 DEF TypeOK, WorkTo
  <2>3. ASSUME nmap' = nmap, at[c] \in AtWork
        PROVE  nmap'[c].entry \in Pairs
    BY <2>3 DEF WorkInv
  <2>4. CASE IPHasPort(c) \/ NmapAddPortWaits(c)
    BY <2>3, <2>4 DEF IPHasPort, NmapAddPortWaits, AtWork
  <2>5. CASE GetIPsPorts(c) \/ HasSkipped(c) \/ Collect(c) \/ HandleOutput(c)
    BY <2>1, <2>3, <2>5 DEF GetIPsPorts, HasSkipped, Collect, HandleOutput, Continues
  <2>6. CASE RangeEnds(c)
    <3>1. at[c] \in Ranging /\ at'[c] \in {"output", "nmap", "entry", "done"}
      BY <2>6 DEF RangeEnds, RangeInv, Ranging, TypeOK
    <3>. QED
      BY <2>1, <3>1 DEF AtWork
  <2>7. CASE RunNmap(c) \/ NmapAddPort(c) \/ HostDone(c) \/ Integrated(c)
    BY <2>1, <2>7 DEF RunNmap, NmapAddPort, HostDone, Integrated, TypeOK, AtWork
  <2>8. CASE UpdatePort(c)
    <3>1. nmap' = nmap /\ (at' = at \/ at' = [at EXCEPT ![c] = "entry"])
      BY <2>8 DEF UpdatePort, Returns, Continues
    <3>. QED
      BY <2>1, <2>3, <3>1 DEF TypeOK, AtWork
  <2>9. CASE UpdateHostOS(c)
    BY <2>1, <2>9 DEF UpdateHostOS, Returns, Continues, TypeOK, AtWork
  <2>10. CASE NextHost(c) \/ NmapThrough(c) \/ Choose(c)
    BY <2>1, <2>10 DEF NextHost, NmapThrough, Choose, HasIPsPorts, HasIPS, GetIPsWaits,
                       GetIPs, TypeOK, AtWork
  <2>. QED
    BY <1>4, <2>2, <2>4, <2>5, <2>6, <2>7, <2>8, <2>9, <2>10
       DEF Finisher, Range, HandleNmap
<1>5. CASE Gone \/ UNCHANGED vars
  BY <1>1, <1>5 DEF Gone, vars
<1>. QED
  BY <1>2, <1>3, <1>4, <1>5 DEF Next

-----------------------------------------------------------------------------
(* What is put out.                                                        *)

\* Who gets the write lock finds no range loop under way.
LEMMA NoRangeWhenLocked ==
  ASSUME TypeOK, RangeInv, readers = 0, NEW c \in Finishers
  PROVE  iter[c].state = "off"
<1>1. Holds(main) \in {0, 1} /\ Holds(handler) \in {0, 1} /\ readers \in Nat
  BY HoldsType DEF Finishers, TypeOK
<1>2. Holds(main) = 0 /\ Holds(handler) = 0
  BY <1>1 DEF RangeInv
<1>3. Holds(c) = 0
  BY <1>2 DEF Finishers
<1>. QED
  BY <1>3 DEF Holds

\* The map changes only under the write lock.
LEMMA MapChangesLocked ==
  ASSUME TypeOK, [Next]_vars
  PROVE  ports' = ports \/ readers = 0
<1>. USE DEF held
<1>1. ASSUME NEW p \in OpenPairs, Probe(p)
      PROVE  ports' = ports \/ readers = 0
  BY <1>1 DEF Probe, ProbeAnswers, AddPortWaits, AddPort, Locked
<1>2. CASE ScanLoop \/ Interrupt \/ Gone \/ UNCHANGED vars
  BY <1>2 DEF ScanLoop, AddSkippedWaits, AddSkipped, ScanEnds, Interrupt, Gone, vars
<1>3. ASSUME NEW c \in Finishers, Range(c)
      PROVE  ports' = ports
  BY <1>3 DEF Range, GetIPsPorts, HasSkipped, RangeEnds, Collect, HandleOutput
<1>4. ASSUME NEW c \in Finishers, HandleNmap(c) \/ Choose(c)
      PROVE  ports' = ports \/ readers = 0
  BY <1>4 DEF HandleNmap, RunNmap, NextPort, IPHasPort, UpdatePort, NextHost,
              NmapThrough, NmapAddPortWaits, NmapAddPort, HostDone, UpdateHostOS,
              Integrated, Locked, Choose, HasIPsPorts, HasIPS, GetIPsWaits, GetIPs
<1>. QED
  BY <1>1, <1>2, <1>3, <1>4 DEF Next, Finisher

\* What c puts out does not depend on what the others do.
LEMMA OutputKept ==
  ASSUME TypeOK, RangeInv, [Next]_vars, NEW c \in Finishers, OutputOf(c),
         at'[c] = at[c], iter'[c] = iter[c],
         emitted'[c] = emitted[c], began'[c] = began[c]
  PROVE  OutputOf(c)'
<1>1. CASE ports' = ports
  BY <1>1 DEF OutputOf, Left
<1>2. CASE readers = 0
  <2>1. iter[c].state = "off"
    BY <1>2, NoRangeWhenLocked
  <2>. QED
    BY <2>1 DEF OutputOf
<1>. QED
  BY <1>1, <1>2, MapChangesLocked

\* c is not putting out, and begins at most with nothing put out.
LEMMA OutputNotYet ==
  ASSUME NEW c \in Finishers, OutputOf(c), at[c] \notin {"output", "done"},
         emitted'[c] = emitted[c], at'[c] # "done",
         at'[c] = "output" => iter'[c].state = "off",
         at'[c] \in Empty => began'[c] = {}
  PROVE  OutputOf(c)'
  BY DEF OutputOf

\* Host by host the map is put out as it was when the range loop began.
LEMMA OutputInvStep == TypeOK /\ RangeInv /\ OutputInv /\ [Next]_vars => OutputInv'
<1>. SUFFICES ASSUME TypeOK, RangeInv, OutputInv, [Next]_vars, NEW d \in Finishers
              PROVE  OutputOf(d)'
  BY DEF OutputInv
<1>1. OutputOf(d) /\ (iter[d].state # "off" => at[d] \in Ranging)
  BY DEF OutputInv, RangeInv
<1>2. ASSUME at' = at, iter' = iter, emitted' = emitted, began' = began
      PROVE  OutputOf(d)'
  BY <1>1, <1>2, OutputKept
<1>3. ASSUME NEW p \in OpenPairs, Probe(p)
      PROVE  OutputOf(d)'
  BY <1>2, <1>3 DEF Probe, ProbeAnswers, AddPortWaits, AddPort
<1>4. CASE ScanLoop \/ Interrupt
  <2>1. iter' = iter /\ emitted' = emitted /\ began' = began
    BY <1>4 DEF ScanLoop, Interrupt, AddSkippedWaits, AddSkipped, ScanEnds
  <2>2. \/ at'[d] = at[d]
        \/ at[d] \in {"off", "scan", "skipping"}
           /\ at'[d] \in {"scan", "skipping", "collect", "ask"}
    BY <1>4 DEF ScanLoop, Interrupt, AddSkippedWaits, AddSkipped, ScanEnds,
                FirstStage, TypeOK
  <2>3. CASE at'[d] = at[d]
    BY <1>1, <2>1, <2>3, OutputKept
  <2>4. CASE at'[d] # at[d]
    <3>1. iter'[d].state = "off" /\ at[d] \notin {"output", "done"} /\ at'[d] # "done"
          /\ began'[d] = {}
      BY <1>1, <2>1, <2>2, <2>4 DEF Ranging, OutputOf, Empty
    <3>. QED
      BY <1>1, <2>1, <3>1, OutputNotYet
  <2>. QED
    BY <2>3, <2>4
<1>5. ASSUME NEW c \in Finishers, Finisher(c), c # d
      PROVE  OutputOf(d)'
  BY <1>1, <1>5, OthersStay, OutputKept
<1>6. CASE Range(d)
  <2>1. CASE GetIPsPorts(d)
    <3>1. /\ iter[d].state = "off" /\ iter'[d].state = "check"
          /\ iter'[d].todo = {h \in Hosts : Recorded(h) # {}}
          /\ at' = at /\ emitted' = emitted /\ ports' = ports
          /\ at[d] = "output" => began'[d] = ports
          /\ at[d] # "done" /\ at[d] \notin Empty
      BY <2>1, IterSteps DEF IterTo, GetIPsPorts, TypeOK, Ranging, held, Empty
    <3>2. CASE at[d] = "output"
      <4>1. ports \subseteq Pairs /\ \A pair \in Pairs : pair = <<pair[1], pair[2]>>
                                        /\ pair[1] \in Hosts /\ pair[2] \in Ports
        BY DEF TypeOK, Pairs
      <4>2. {pair \in ports' : pair[1] \notin Left(d)'} = {}
        BY <3>1, <4>1 DEF Left, Recorded
      <4>. QED
        BY <1>1, <3>1, <3>2, <4>2 DEF OutputOf
    <3>3. CASE at[d] # "output"
      BY <1>1, <3>1, <3>3 DEF OutputOf
    <3>. QED
      BY <3>2, <3>3
  <2>2. CASE HasSkipped(d)
    <3>1. PICK h \in iter[d].todo : IterTo(d, "send", iter[d].todo \ {h}, h)
      BY <2>2, IterSteps
    <3>2. /\ iter[d].state = "check" /\ ports' = ports /\ at' = at
          /\ emitted' = emitted /\ began' = began
      BY <2>2 DEF HasSkipped, held
    <3>3. Left(d)' = Left(d)
      BY <3>1, <3>2 DEF IterTo, Left
    <3>. QED
      BY <1>1, <3>1, <3>2, <3>3 DEF OutputOf, IterTo
  <2>3. CASE RangeEnds(d)
    <3>1. /\ iter[d].state = "check" /\ iter[d].todo = {} /\ iter'[d].state = "off"
          /\ emitted' = emitted /\ began' = began
      BY <2>3, IterSteps DEF IterTo, RangeEnds
    <3>2. CASE at[d] = "output"
      <4>1. at'[d] = "done" /\ Left(d) = {} /\ "done" \notin Empty
        BY <2>3, <3>1, <3>2 DEF RangeEnds, TypeOK, Left, Empty
      <4>2. emitted[d] = began[d]
        BY <1>1, <3>1, <3>2, <4>1 DEF OutputOf
      <4>. QED
        BY <3>1, <4>1, <4>2 DEF OutputOf
    <3>3. CASE at[d] # "output"
      <4>1. at[d] \notin {"output", "done"} /\ at'[d] # "done" /\ at'[d] \notin Empty
        BY <1>1, <2>3, <3>1, <3>3 DEF RangeEnds, Ranging, TypeOK, Empty
      <4>. QED
        BY <1>1, <3>1, <4>1, OutputNotYet
    <3>. QED
      BY <3>2, <3>3
  <2>4. CASE Collect(d)
    <3>1. at[d] = "collect" /\ at' = at /\ emitted' = emitted /\ began' = began
      BY <2>4 DEF Collect, Continues
    <3>. QED
      BY <1>1, <3>1, OutputNotYet DEF Empty
  <2>5. CASE HandleOutput(d)
    <3>1. /\ at[d] = "output" /\ at' = at /\ ports' = ports /\ began' = began
          /\ iter[d].state = "send" /\ iter'[d].state = "check"
          /\ iter'[d].todo = iter[d].todo
      BY <2>5, IterSteps DEF IterTo, HandleOutput, Continues, held
    <3>2. emitted'[d] = emitted[d] \cup {pair \in ports : pair[1] = iter[d].cur}
      BY <2>5 DEF HandleOutput, TypeOK
    <3>3. /\ Left(d) = iter[d].todo \cup {iter[d].cur}
          /\ Left(d)' = iter[d].todo /\ iter[d].cur \notin iter[d].todo
      BY <1>1, <3>1 DEF Left, OutputOf
    <3>4. emitted[d] = {pair \in ports : pair[1] \notin Left(d)} /\ began[d] = ports
      BY <1>1, <3>1 DEF OutputOf
    <3>5. emitted'[d] = {pair \in ports' : pair[1] \notin Left(d)'}
      BY <3>1, <3>2, <3>3, <3>4
    <3>. QED
      BY <3>1, <3>4, <3>5 DEF OutputOf, Empty
  <2>. QED
    BY <1>6, <2>1, <2>2, <2>3, <2>4, <2>5 DEF Range
<1>7. CASE HandleNmap(d)
  <2>1. /\ at[d] \notin {"output", "done"} \cup Empty /\ emitted' = emitted
        /\ at'[d] \notin {"output", "done"}
    BY <1>7 DEF HandleNmap, RunNmap, NextHost, NextPort, IPHasPort, UpdatePort,
                NmapThrough, NmapAddPortWaits, NmapAddPort, HostDone, UpdateHostOS,
                Integrated, Returns, Continues, TypeOK, Empty
  <2>2. at'[d] \in Empty => began'[d] = {}
    <3>1. CASE NmapThrough(d)
      BY <3>1 DEF NmapThrough
    <3>2. CASE ~NmapThrough(d)
      <4>1. at'[d] = at[d] \/ at'[d] \in {"entry", "lookup", "update", "add", "adding",
                                        "os", "nmap"}
        BY <1>7, <3>2 DEF HandleNmap, RunNmap, NextHost, NextPort, IPHasPort, UpdatePort,
                NmapAddPortWaits, NmapAddPort, HostDone, UpdateHostOS,
                Integrated, Returns, Continues, TypeOK
      <4>. QED
        BY <2>1, <4>1 DEF Empty
    <3>. QED
      BY <3>1, <3>2
  <2>. QED
    BY <1>1, <2>1, <2>2, OutputNotYet
<1>8. CASE Choose(d)
  <2>1. /\ at[d] \in Empty /\ iter' = iter /\ emitted' = emitted /\ began' = began
        /\ at'[d] \in Empty \cup {"output", "done"}
    BY <1>8 DEF Choose, HasIPsPorts, HasIPS, GetIPsWaits, GetIPs, Empty, TypeOK
  <2>2. began[d] = {} /\ emitted[d] = {} /\ iter[d].state = "off"
    BY <1>1, <2>1 DEF OutputOf, Empty, Ranging
  <2>. QED
    BY <2>1, <2>2 DEF OutputOf
<1>9. CASE Gone \/ UNCHANGED vars
  BY <1>2, <1>9 DEF Gone, vars
<1>. QED
  BY <1>3, <1>4, <1>5, <1>6, <1>7, <1>9, <1>8 DEF Next, Finisher

-----------------------------------------------------------------------------
(* What of nmap's report is integrated.                                    *)

\* The scan loop is left when every probe is done, and never entered again.
LEMMA ProbesThroughStep ==
  TypeOK /\ RangeInv /\ ProbesThrough /\ [Next]_vars => ProbesThrough'
<1>. SUFFICES ASSUME TypeOK, RangeInv, ProbesThrough, [Next]_vars
              PROVE  ProbesThrough'
  OBVIOUS
<1>1. main \in Finishers /\ handler \in Finishers /\ main # handler
  BY ResultsAssumption DEF Finishers
<1>2. ASSUME NEW p \in OpenPairs, Probe(p)
      PROVE  ProbesThrough'
  <2>1. at' = at /\ probe[p] # "done"
    BY <1>2 DEF Probe, ProbeAnswers, AddPortWaits, AddPort
  <2>. QED
    BY <2>1 DEF ProbesThrough
<1>3. CASE ScanLoop \/ Interrupt
  BY <1>1, <1>3 DEF ScanLoop, Interrupt, AddSkippedWaits, AddSkipped, ScanEnds,
                    TypeOK, ProbesThrough
<1>4. ASSUME NEW c \in Finishers, Finisher(c)
      PROVE  ProbesThrough'
  <2>1. probe' = probe
    BY <1>4, OthersStay
  <2>2. CASE c # main
    BY <1>1, <1>4, <2>1, <2>2, OthersStay DEF ProbesThrough
  <2>3. at'[c] = at[c] \/ at[c] \notin {"scan", "skipping"}
    BY <1>4 DEF Finisher, Range, HandleNmap, GetIPsPorts, HasSkipped, RangeEnds,
                Choose, HasIPsPorts, HasIPS, GetIPsWaits, GetIPs, NextHost, NmapThrough,
                Collect, HandleOutput, RunNmap, NextPort, IPHasPort, UpdatePort,
                NmapAddPortWaits, NmapAddPort, HostDone, UpdateHostOS, Integrated,
                Continues, Ranging, RangeInv
  <2>. QED
    BY <2>1, <2>2, <2>3 DEF ProbesThrough
<1>5. CASE Gone \/ UNCHANGED vars
  BY <1>5 DEF Gone, vars, ProbesThrough
<1>. QED
  BY <1>2, <1>3, <1>4, <1>5 DEF Next

\* When the probes are through, no entry loses its service and none goes.
LEMMA CarriesKept ==
  ASSUME TypeOK, ProbesThrough, [Next]_vars, at[main] \notin {"scan", "skipping"}
  PROVE  /\ ports \subseteq ports'
         /\ \A pair : Carries(pair) => Carries(pair)'
<1>. USE DEF held
<1>1. ports \subseteq ports' /\ own \subseteq own' /\ services \subseteq services'
  <2>1. ASSUME NEW p \in OpenPairs, Probe(p)
        PROVE  UNCHANGED <<ports, own, services>>
    BY <2>1 DEF Probe, ProbeAnswers, AddPortWaits, AddPort, ProbesThrough
  <2>2. CASE ScanLoop \/ Interrupt \/ Gone \/ UNCHANGED vars
    BY <2>2 DEF ScanLoop, AddSkippedWaits, AddSkipped, ScanEnds, Interrupt, Gone, vars
  <2>3. ASSUME NEW c \in Finishers, Range(c)
        PROVE  UNCHANGED <<ports, own, services>>
    BY <2>3 DEF Range, GetIPsPorts, HasSkipped, RangeEnds, Collect, HandleOutput
  <2>4. ASSUME NEW c \in Finishers, HandleNmap(c) \/ Choose(c)
        PROVE  ports \subseteq ports' /\ own \subseteq own' /\ services \subseteq services'
    BY <2>4 DEF HandleNmap, RunNmap, NextPort, IPHasPort, UpdatePort, NextHost,
                NmapThrough, Choose, HasIPsPorts, HasIPS, GetIPsWaits, GetIPs,
                NmapAddPortWaits, NmapAddPort, HostDone, UpdateHostOS, Integrated
  <2>. QED
    BY <2>1, <2>2, <2>3, <2>4 DEF Next, Finisher
<1>. QED
  BY <1>1 DEF Carries

\* What the steps of others leave of ReportInv.
LEMMA ReportKept ==
  ASSUME TypeOK, ProbesThrough, ReportInv, [Next]_vars, ports \subseteq ports',
         at'[main] = at[main], iter'[main] = iter[main], nmap'[main] = nmap[main],
         report' = report
  PROVE  ReportInv'
<1>1. Left(main)' = Left(main)
  BY DEF Left
<1>2. \A pair \in report' :
        \/ pair \in nmap'[main].pending
        \/ at'[main] \in AtWork /\ pair = nmap'[main].entry
        \/ Carries(pair)'
  <2>1. CASE at[main] \in {"scan", "skipping"}
    BY <2>1 DEF ReportInv, Before
  <2>2. CASE at[main] \notin {"scan", "skipping"}
    BY <2>2, CarriesKept DEF ReportInv
  <2>. QED
    BY <2>1, <2>2
<1>. QED
  BY <1>1, <1>2 DEF ReportInv

\* Entry by entry the report is worked off, the other goroutines notwithstanding.
LEMMA ReportInvStep ==
  TypeOK /\ RangeInv /\ WorkInv /\ ProbesThrough /\ ReportInv /\ [Next]_vars => ReportInv'
<1>. SUFFICES ASSUME TypeOK, RangeInv, WorkInv, ProbesThrough, ReportInv, [Next]_vars
              PROVE  ReportInv'
  OBVIOUS
<1>. USE DEF held
<1>1. main \in Finishers /\ handler \in Finishers /\ main # handler
  BY ResultsAssumption DEF Finishers
<1>2. ASSUME NEW p \in OpenPairs, Probe(p)
      PROVE  ReportInv'
  <2>1. ports \subseteq ports' /\ at' = at /\ iter' = iter /\ nmap' = nmap
        /\ report' = report
    BY <1>2 DEF Probe, ProbeAnswers, AddPortWaits, AddPort
  <2>. QED
    BY <2>1, ReportKept
<1>3. CASE Interrupt
  <2>1. ports' = ports /\ at'[main] = at[main] /\ iter' = iter /\ nmap' = nmap
        /\ report' = report
    BY <1>1, <1>3 DEF Interrupt, TypeOK
  <2>. QED
    BY <2>1, ReportKept
<1>4. CASE ScanLoop
  <2>1. /\ at[main] \in {"scan", "skipping"} /\ nmap' = nmap /\ report' = report
        /\ at'[main] \in {"scan", "skipping", "collect", "ask"}
    BY <1>1, <1>4 DEF ScanLoop, AddSkippedWaits, AddSkipped, ScanEnds, FirstStage, TypeOK
  <2>2. report' = {} /\ nmap'[main].pending = {}
    BY <2>1 DEF ReportInv, Before
  <2>. QED
    BY <2>1, <2>2 DEF ReportInv, Before, Output
<1>5. CASE Finisher(handler)
  <2>1. report' = report
    BY <1>1, <1>5 DEF Finisher, Range, HandleNmap, GetIPsPorts, HasSkipped, RangeEnds,
                Choose, HasIPsPorts, HasIPS, GetIPsWaits, GetIPs, NextHost, NmapThrough,
                Collect, HandleOutput, RunNmap, NextPort, IPHasPort, UpdatePort,
                NmapAddPortWaits, NmapAddPort, HostDone, UpdateHostOS, Integrated
  <2>2. ports \subseteq ports'
    BY <1>5 DEF Finisher, Range, HandleNmap, GetIPsPorts, HasSkipped, RangeEnds,
                Choose, HasIPsPorts, HasIPS, GetIPsWaits, GetIPs, NextHost, NmapThrough,
                Collect, HandleOutput, RunNmap, NextPort, IPHasPort, UpdatePort,
                NmapAddPortWaits, NmapAddPort, HostDone, UpdateHostOS, Integrated
  <2>. QED
    BY <1>1, <1>5, <2>1, <2>2, OthersStay, ReportKept
<1>6. CASE Finisher(main)
  <2>1. iter[main].state # "off" => at[main] \in Ranging
    BY <1>1 DEF RangeInv
  <2>2. CASE GetIPsPorts(main)
    <3>1. /\ at' = at /\ nmap' = nmap /\ report' = report /\ ports' = ports
          /\ at[main] \in Ranging /\ iter'[main].todo = {h \in Hosts : Recorded(h) # {}}
      BY <1>1, <2>2, IterSteps DEF GetIPsPorts, IterTo
    <3>2. ASSUME at[main] = "update"
          PROVE  nmap[main].entry[1] \in Left(main)'
      <4>1. nmap[main].entry \in ports /\ nmap[main].entry \in Pairs
        BY <1>1, <3>2 DEF ReportInv, TypeOK
      <4>2. nmap[main].entry[1] \in Hosts /\ nmap[main].entry[2] \in Ports
            /\ nmap[main].entry = <<nmap[main].entry[1], nmap[main].entry[2]>>
        BY <4>1 DEF Pairs
      <4>3. nmap[main].entry[2] \in Recorded(nmap[main].entry[1])
        BY <4>1, <4>2 DEF Recorded
      <4>. QED
        BY <3>1, <4>2, <4>3 DEF Left
    <3>3. \A pair : Carries(pair) => Carries(pair)'
      BY <3>1, CarriesKept DEF Ranging
    <3>. QED
      BY <3>1, <3>2, <3>3 DEF ReportInv
  <2>3. CASE HasSkipped(main)
    <3>1. PICK h \in iter[main].todo : IterTo(main, "send", iter[main].todo \ {h}, h)
      BY <1>1, <2>3, IterSteps
    <3>2. /\ iter[main].state = "check" /\ at' = at /\ nmap' = nmap
          /\ report' = report /\ ports' = ports
      BY <2>3 DEF HasSkipped
    <3>3. Left(main)' = Left(main) /\ at[main] \in Ranging
      BY <2>1, <3>1, <3>2 DEF IterTo, Left
    <3>4. \A pair : Carries(pair) => Carries(pair)'
      BY <3>3, CarriesKept DEF Ranging
    <3>. QED
      BY <3>2, <3>3, <3>4 DEF ReportInv
  <2>4. CASE RangeEnds(main)
    <3>1. /\ iter[main].state = "check" /\ iter[main].todo = {}
          /\ report' = report /\ ports' = ports
          /\ nmap'[main].pending = nmap[main].pending
      BY <1>1, <2>4, WorkSteps DEF RangeEnds, WorkTo
    <3>2. at[main] # "update"
      BY <3>1 DEF ReportInv, Left
    <3>3. CASE at[main] \in {"collect", "os"}
      <4>1. \/ at[main] = "collect" /\ at'[main] = "nmap"
            \/ at[main] = "os" /\ at'[main] = "entry"
        BY <1>1, <2>4, <3>3 DEF RangeEnds, TypeOK
      <4>2. \A pair : Carries(pair) => Carries(pair)'
        BY <3>3, CarriesKept
      <4>. QED
        BY <3>1, <4>1, <4>2 DEF ReportInv, Before, AtWork, Output
    <3>4. CASE at[main] = "output"
      <4>1. at'[main] = "done"
        BY <1>1, <2>4, <3>4 DEF RangeEnds, TypeOK
      <4>2. \A pair : Carries(pair) => Carries(pair)'
        BY <3>4, CarriesKept
      <4>. QED
        BY <3>1, <3>4, <4>1, <4>2 DEF ReportInv, Before, AtWork, Output
    <3>. QED
      BY <2>1, <3>1, <3>2, <3>3, <3>4 DEF Ranging
  <2>5. CASE Collect(main) \/ HandleOutput(main)
    <3>1. /\ at[main] \in {"collect", "output"} /\ at' = at /\ nmap' = nmap
          /\ report' = report
      BY <2>5 DEF Collect, HandleOutput, Continues
    <3>2. \A pair : Carries(pair) => Carries(pair)'
      BY <3>1, CarriesKept
    <3>. QED
      BY <3>1, <3>2 DEF ReportInv, AtWork, Before, Output
  <2>6. CASE RunNmap(main)
    <3>1. PICK rep \in SUBSET Pairs : WorkTo(main, rep, nmap[main].host, nmap[main].entry)
                                      /\ report' = report \cup rep
      BY <1>1, <2>6, WorkSteps
    <3>2. at[main] = "nmap" /\ at'[main] = "entry"
      BY <1>1, <2>6 DEF RunNmap, TypeOK
    <3>3. \A q : Carries(q) => Carries(q)'
      BY <3>2, CarriesKept
    <3>4. \A pair \in report : Carries(pair)
      BY <3>2 DEF ReportInv, AtWork, Output
    <3>. QED
      BY <3>1, <3>2, <3>3, <3>4 DEF ReportInv, WorkTo, Before, AtWork, Output
  <2>7. CASE NextHost(main)
    <3>1. PICK h \in Hosts : WorkTo(main, nmap[main].pending, h, nmap[main].entry)
      BY <1>1, <2>7, WorkSteps
    <3>2. at[main] = "entry" /\ at' = at /\ report' = report
      BY <2>7 DEF NextHost
    <3>3. \A q : Carries(q) => Carries(q)'
      BY <3>2, CarriesKept
    <3>. QED
      BY <3>1, <3>2, <3>3 DEF ReportInv, WorkTo, Before, AtWork, Output
  <2>8. CASE NmapThrough(main) \/ Choose(main)
    <3>1. /\ at[main] \in Output \cup {"nmap"} /\ at'[main] \in Output
          /\ nmap' = nmap /\ report' = report
      BY <1>1, <2>8 DEF NmapThrough, Choose, HasIPsPorts, HasIPS, GetIPsWaits, GetIPs,
                         Output, TypeOK
    <3>2. \A q : Carries(q) => Carries(q)'
      BY <3>1, CarriesKept DEF Output
    <3>. QED
      BY <3>1, <3>2 DEF ReportInv, Before, AtWork, Output
  <2>9. CASE NextPort(main)
    <3>1. PICK pair \in nmap[main].pending :
                 WorkTo(main, nmap[main].pending \ {pair}, nmap[main].host, pair)
      BY <1>1, <2>9, WorkSteps
    <3>2. at[main] = "entry" /\ at'[main] = "lookup" /\ report' = report
      BY <1>1, <2>9 DEF NextPort, TypeOK
    <3>3. \A q : Carries(q) => Carries(q)'
      BY <3>2, CarriesKept
    <3>. QED
      BY <3>1, <3>2, <3>3 DEF ReportInv, WorkTo, Before, AtWork, Output
  <2>10. CASE IPHasPort(main)
    <3>1. /\ at[main] = "lookup" /\ ports' = ports /\ nmap' = nmap /\ iter' = iter
          /\ report' = report
          /\ at'[main] = IF nmap[main].entry \in ports THEN "update" ELSE "add"
      BY <1>1, <2>10 DEF IPHasPort, TypeOK
    <3>2. \A q : Carries(q) => Carries(q)'
      BY <3>1, CarriesKept
    <3>3. iter'[main].state = "off"
      BY <2>1, <3>1 DEF Ranging
    <3>. QED
      BY <3>1, <3>2, <3>3 DEF ReportInv, Before, AtWork, Output
  <2>11. CASE UpdatePort(main)
    <3>1. /\ at[main] = "update" /\ iter[main].state = "send" /\ report' = report
          /\ nmap' = nmap /\ ports' = ports
      BY <2>11 DEF UpdatePort
    <3>2. \A q : Carries(q) => Carries(q)'
      BY <3>1, CarriesKept
    <3>3. nmap[main].entry \in ports /\ nmap[main].entry[1] \in Left(main)
      BY <3>1 DEF ReportInv
    <3>4. CASE Matches(main)
      <4>1. at'[main] = "entry"
        BY <1>1, <2>11, <3>4 DEF UpdatePort, Returns, TypeOK
      <4>2. Carries(nmap[main].entry)'
        BY <2>11, <3>3, <3>4 DEF UpdatePort, Carries
      <4>. QED
        BY <3>1, <3>2, <4>1, <4>2 DEF ReportInv, Before, AtWork, Output
    <3>5. CASE ~Matches(main)
      <4>1. Continues(main) /\ at' = at
        BY <2>11, <3>5 DEF UpdatePort, Continues
      <4>2. iter'[main].todo = iter[main].todo
        BY <1>1, <4>1, IterSteps DEF IterTo
      <4>3. nmap[main].entry[1] \in iter[main].todo
        BY <3>3, <3>5 DEF Matches, Left
      <4>4. nmap'[main].entry[1] \in Left(main)'
        BY <3>1, <4>2, <4>3 DEF Left
      <4>. QED
        BY <3>1, <3>2, <3>3, <4>1, <4>4 DEF ReportInv, Before, AtWork, Output
    <3>. QED
      BY <3>4, <3>5
  <2>12. CASE NmapAddPortWaits(main)
    <3>1. at[main] = "add" /\ at'[main] = "adding" /\ nmap' = nmap /\ report' = report
      BY <1>1, <2>12 DEF NmapAddPortWaits, TypeOK
    <3>2. \A q : Carries(q) => Carries(q)'
      BY <3>1, CarriesKept
    <3>. QED
      BY <3>1, <3>2 DEF ReportInv, Before, AtWork, Output
  <2>13. CASE NmapAddPort(main)
    <3>1. at[main] = "adding" /\ at'[main] = "entry" /\ nmap' = nmap /\ report' = report
      BY <1>1, <2>13 DEF NmapAddPort, TypeOK
    <3>2. \A q : Carries(q) => Carries(q)'
      BY <3>1, CarriesKept
    <3>3. Carries(nmap[main].entry)'
      BY <2>13 DEF NmapAddPort, Carries
    <3>. QED
      BY <3>1, <3>2, <3>3 DEF ReportInv, Before, AtWork, Output
  <2>14. CASE HostDone(main)
    <3>1. at[main] = "entry" /\ at'[main] = "os" /\ nmap' = nmap /\ report' = report
      BY <1>1, <2>14 DEF HostDone, TypeOK
    <3>2. \A q : Carries(q) => Carries(q)'
      BY <3>1, CarriesKept
    <3>. QED
      BY <3>1, <3>2 DEF ReportInv, Before, AtWork, Output
  <2>15. CASE UpdateHostOS(main)
    <3>1. /\ at[main] = "os" /\ at'[main] \in {"os", "entry"} /\ report' = report
          /\ nmap'[main].pending = nmap[main].pending
      BY <1>1, <2>15, WorkSteps DEF UpdateHostOS, WorkTo, Returns, Continues, TypeOK
    <3>2. \A q : Carries(q) => Carries(q)'
      BY <3>1, CarriesKept
    <3>. QED
      BY <3>1, <3>2 DEF ReportInv, Before, AtWork, Output
  <2>16. CASE Integrated(main)
    <3>1. /\ at[main] = "entry" /\ at'[main] = "nmap" /\ nmap' = nmap
          /\ report' = report /\ nmap[main].pending = {}
      BY <1>1, <2>16 DEF Integrated, TypeOK
    <3>2. \A q : Carries(q) => Carries(q)'
      BY <3>1, CarriesKept
    <3>. QED
      BY <3>1, <3>2 DEF ReportInv, Before, AtWork, Output
  <2>. QED
    BY <1>6, <2>2, <2>3, <2>4, <2>5, <2>6, <2>9, <2>10, <2>11, <2>12, <2>13, <2>14,
       <2>15, <2>16, <2>7, <2>8 DEF Finisher, Range, HandleNmap
<1>7. CASE Gone \/ UNCHANGED vars
  <2>1. ports' = ports /\ at' = at /\ iter' = iter /\ nmap' = nmap /\ report' = report
    BY <1>7 DEF Gone, vars
  <2>. QED
    BY <2>1, ReportKept
<1>. QED
  BY <1>2, <1>3, <1>4, <1>5, <1>6, <1>7 DEF Next, Finishers

-----------------------------------------------------------------------------
(* The invariant, and what follows from it.                                *)

\* Nothing is recorded and nobody finishes yet.
LEMMA ResultsInvInit == Init => ResultsInv
<1>. SUFFICES ASSUME Init
              PROVE  ResultsInv
  OBVIOUS
<1>1. main \in Finishers /\ handler \in Finishers /\ main # handler
  BY ResultsAssumption DEF Finishers
<1>2. \A c \in Finishers : /\ iter[c].state = "off" /\ at[c] \in {"scan", "off"}
                           /\ nmap[c].pending = {} /\ emitted[c] = {}
  BY DEF Init, NoIter, NoWork
<1>3. at[main] = "scan" /\ ports = {} /\ report = {} /\ readers = 0
  BY <1>1 DEF Init
<1>4. TypeOK
  <2>1. NoIter \in Iters /\ NoWork \in Works
    BY DEF NoIter, NoWork, Iters, Works
  <2>2. iter \in [Finishers -> Iters] /\ nmap \in [Finishers -> Works]
    BY <2>1 DEF Init
  <2>3. /\ ports \subseteq Pairs /\ own \subseteq ports /\ services \subseteq Ports
        /\ skipped \subseteq Hosts /\ readers \in Nat
        /\ writer \in {None} \union OpenPairs \union Finishers
        /\ at \in [Finishers -> Stages]
        /\ probe \in [OpenPairs -> {"dialing", "open", "adding", "done"}]
        /\ emitted \in [Finishers -> SUBSET Pairs]
        /\ began \in [Finishers -> SUBSET Pairs] /\ report \subseteq Pairs
    BY DEF Init, Stages
  <2>. QED
    BY <2>2, <2>3 DEF TypeOK, Iters, Works
<1>5. RangeInv
  BY <1>1, <1>2, <1>3 DEF RangeInv, Holds
<1>6. WorkInv /\ OutputInv
  <2>1. \A c \in Finishers : began[c] = {}
    BY DEF Init
  <2>. QED
    BY <1>2, <2>1 DEF WorkInv, AtWork, OutputInv, OutputOf
<1>7. ProbesThrough /\ ReportInv
  BY <1>1, <1>2, <1>3 DEF ProbesThrough, ReportInv, Before, AtWork, Output
<1>. QED
  BY <1>4, <1>5, <1>6, <1>7 DEF ResultsInv

\* Every step keeps the invariant.
LEMMA ResultsInvStep == ResultsInv /\ [Next]_vars => ResultsInv'
  BY ResultsTypeStep, RangeInvStep, WorkInvStep, OutputInvStep, ProbesThroughStep,
     ReportInvStep DEF ResultsInv

\* So it holds throughout.
LEMMA ResultsInvariant == Spec => []ResultsInv
  BY ResultsInvInit, ResultsInvStep, PTL DEF Spec

\* Every variable keeps its type; in particular no read lock of the result map
\* is given back that was not taken (results.go:81-110).
THEOREM ResultsTypeCorrect == Spec => []TypeOK
<1>1. ResultsInv => TypeOK
  BY DEF ResultsInv
<1>. QED
  BY <1>1, ResultsInvariant, PTL

\* What a finisher has put out when it is done is the map as it was when its
\* range loop began, for any number of hosts and probes and though another
\* finisher and nmap's integration run at the same time (results.go:81-110).
THEOREM SnapshotIsPutOut == Spec => []OutputIsSnapshot
<1>1. ResultsInv => OutputIsSnapshot
  BY DEF ResultsInv, OutputInv, OutputOf, OutputIsSnapshot
<1>. QED
  BY <1>1, ResultsInvariant, PTL

\* When the main goroutine puts out, every port that nmap reported to it is
\* recorded with its service: updatePort always finds the entry that IPHasPort
\* saw, and nothing takes a service away again (nmap.go:180-248).
THEOREM ReportIsIntegrated == Spec => []ReportIntegrated
<1>1. ResultsInv => ReportIntegrated
  <2>. SUFFICES ASSUME ResultsInv, at[main] \in Output, NEW pair \in report
                PROVE  Carries(pair)
    BY DEF ReportIntegrated
  <2>1. nmap[main].pending = {} /\ at[main] \notin AtWork
    BY DEF ResultsInv, ReportInv, AtWork, Output
  <2>. QED
    BY <2>1 DEF ResultsInv, ReportInv
<1>. QED
  BY <1>1, ResultsInvariant, PTL
=============================================================================

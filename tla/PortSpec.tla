------------------------------ MODULE PortSpec ------------------------------
(***************************************************************************)
(* The port options of pkg/runner/ports.go: what -p, -ports-file,          *)
(* -top-ports and -exclude-ports make the list r.scanner.Ports.            *)
(*                                                                         *)
(* A segment is one item of a comma separated list after strconv.Atoi:     *)
(* a "number" or a "range" from lo to hi, with protocol udp behind "u:",   *)
(* the "dash" that stands for all ports, or "bad" when it has no such form.*)
(***************************************************************************)
EXTENDS Integers, Sequences, SequencesExt

CONSTANTS
  MaxPort,   \* 65535
  Top100,    \* the numbers of NmapTop100, in its order
  Top1000    \* the numbers of NmapTop1000, in its order

ASSUME PortSpecAssumption ==
  MaxPort \in Nat /\ {Top100, Top1000} \subseteq Seq(0 .. MaxPort)

Port(n, proto) == [number |-> n, proto |-> proto]

Segment(form, proto, lo, hi) ==
  [form |-> form, proto |-> proto, lo |-> lo, hi |-> hi]
Number(n)    == Segment("number", "tcp", n, n)
UdpNumber(n) == Segment("number", "udp", n, n)
PortRange(lo, hi) == Segment("range", "tcp", lo, hi)
AllPorts     == Segment("dash", "tcp", 1, MaxPort)
Segments == {s \in [form : {"number", "range", "dash", "bad"}, proto : {"tcp", "udp"},
                     lo : Nat, hi : Nat] : s.form = "number" => s.lo = s.hi}
BadSegment   == Segment("bad", "tcp", 0, 0)

\* What a parser returns: a list, or an error.
Parsed(ports) == [ok |-> TRUE, ports |-> ports]
ParseError    == [ok |-> FALSE, ports |-> <<>>]

\* The bounds of a range are taken as they come.
ReversedOnly(s) ==
  \/ s.form \in {"dash", "bad"}
  \/ s.form = "number" /\ s.lo > MaxPort
  \/ s.form = "range" /\ s.lo > s.hi

\* No number, a number above the last port, or a range that is reversed: a
\* dash has no number on either side.
Rejected(s) ==
  \/ s.form \in {"dash", "bad"}
  \/ s.form = "number" /\ s.lo > MaxPort
  \/ s.form = "range" /\ (s.lo > s.hi \/ s.hi > MaxPort)

\* i < p2 in the loop over a range.
OpenEnded(s) ==
  [i \in 1 .. (IF s.form = "range" THEN s.hi - s.lo ELSE 1) |->
     Port(s.lo + i - 1, s.proto)]

SegmentPorts(s) ==
  [i \in 1 .. (s.hi - s.lo + 1) |-> Port(s.lo + i - 1, s.proto)]

\* The first port of each number stays: port.String() names the number only.
KeepNew(seen, p) ==
  IF \E i \in DOMAIN seen : seen[i].number = p.number THEN seen ELSE Append(seen, p)

DedupByNumber(ports) ==
  LET kept[k \in 0 .. Len(ports)] ==
        IF k = 0 THEN <<>> ELSE KeepNew(kept[k - 1], ports[k])
  IN  kept[Len(ports)]

parsePortsSlice(segments) ==
  IF \E i \in DOMAIN segments : Rejected(segments[i]) THEN ParseError
  ELSE Parsed(DedupByNumber(
         FlattenSeq([i \in DOMAIN segments |-> SegmentPorts(segments[i])])))

Numbers(list) == [i \in DOMAIN list |-> Number(list[i])]

\* A number is excluded for one protocol at a time.
ExcludedBy(excluded, p) == \E i \in DOMAIN excluded : excluded[i] = p

KeepUnless(excluded, left, p) == IF ExcludedBy(excluded, p) THEN left ELSE Append(left, p)

Without(excluded, ports) ==
  LET left[k \in 0 .. Len(ports)] ==
        IF k = 0 THEN <<>> ELSE KeepUnless(excluded, left[k - 1], ports[k])
  IN  left[Len(ports)]

excludePorts(options, ports) ==
  LET excluded == parsePortsSlice(options.exclude)
  IN  IF excluded.ok THEN Parsed(Without(excluded.ports, ports)) ELSE ParseError

\* One source of ports, filtered.
Source(options, segments) ==
  LET parsed == parsePortsSlice(segments)
  IN  IF parsed.ok THEN excludePorts(options, parsed.ports) ELSE ParseError

\* -top-ports: full, 100, 1000, or anything else, which is an error.
TopPorts(options) ==
  CASE options.top = "none" -> Parsed(<<>>)
    [] options.top = "full" -> Source(options, <<PortRange(1, MaxPort)>>)
    [] options.top = "100"  -> Source(options, Numbers(Top100))
    [] options.top = "1000" -> Source(options, Numbers(Top1000))
    [] OTHER                -> ParseError

\* "-" stands for all ports when it is all of -p.
Expanded(segments) ==
  IF segments = <<AllPorts>> THEN <<PortRange(1, MaxPort)>> ELSE segments

\* File, command line and top ports one after the other; when nothing is left
\* of them, the top 100.
ParsePorts(options) ==
  LET file == Source(options, options.file)
      cli  == Source(options, Expanded(options.ports))
      top  == TopPorts(options)
      all  == file.ports \o cli.ports \o top.ports
  IN  IF ~(file.ok /\ cli.ok /\ top.ok) THEN ParseError
      ELSE IF all = <<>> THEN Source(options, Numbers(Top100))
      ELSE Parsed(all)

-----------------------------------------------------------------------------
(* What the options ask for, as a set of numbers.                          *)

Asked(segments) ==
  UNION {segments[i].lo .. segments[i].hi : i \in DOMAIN segments}

AskedTop(top) ==
  CASE top = "full" -> 1 .. MaxPort
    [] top = "100"  -> ToSet(Top100)
    [] top = "1000" -> ToSet(Top1000)
    [] OTHER        -> {}

AskedNumbers(options) ==
  Asked(options.file) \union Asked(options.ports) \union AskedTop(options.top)
=============================================================================

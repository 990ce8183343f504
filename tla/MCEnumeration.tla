--------------------------- MODULE MCEnumeration ---------------------------
(* Instances of Enumeration for TLC.                                       *)
EXTENDS Enumeration, TLC

CONSTANTS h1, h2, h3, p1, p2, p3

\* Two scanned addresses, one of them on the exclusion list, three ports, and
\* an address of a CDN that an ip:port target names with another port than the
\* web port.  The first has enough open ports to pass threshold and rate.
ResumeHosts    == {h1, h2, h3}
ResumePorts    == {p1, p2, p3}
ResumeIps      == <<h1, h2>>
ResumePortList == <<p1, p2, p3>>
ResumeOpen     == {h1} \X ResumePorts

\* One port, and three addresses in the range, the CDN's included.
SkipPorts      == {p1, p2}
SkipIps        == <<h1, h2, h3>>
SkipPortList   == <<p1>>
SkipOpen       == {<<h1, p1>>, <<h3, p1>>}

CdnWithPort    == <<<<h3, p2>>>>
SecondExcluded == {h2}
ThirdIsCdn     == {h3}

\* Two permutations of a range of six and of three.
Permutations6 ==
  (1 :> [i \in 0 .. 5 |-> i]) @@ (2 :> [i \in 0 .. 5 |-> (5 * i + 4) % 6])
Permutations3 ==
  (1 :> [i \in 0 .. 2 |-> i]) @@ (2 :> [i \in 0 .. 2 |-> (2 * i + 1) % 3])
TwoSeeds == {1, 2}
=============================================================================

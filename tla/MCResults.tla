------------------------------ MODULE MCResults ------------------------------
(* Instances of Results for TLC.                                           *)
EXTENDS Results, TLC

CONSTANTS h1, h2, p1, p2

TwoHosts == {h1, h2}
TwoPorts == {p1, p2}

\* One port on each host, not the same one, so that nmap may find the other.
CrossedPairs == {<<h1, p1>>, <<h2, p2>>}
=============================================================================

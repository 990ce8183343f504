---------------------------- MODULE MCUploadWriter ----------------------------
(* Instances of UploadWriter for TLC.                                      *)
EXTENDS UploadWriter, TLC

CONSTANTS handler, h1, h2, h3

\* A chunk of seven holds one short line, and a second one only without its
\* newline; the line of h3 is longer than any chunk.
MixedHosts  == {h1, h3}
MixedLength == (h1 :> 3) @@ (h3 :> 8)
ShortHosts  == {h1, h2, h3}
ShortLength == [h \in ShortHosts |-> 3]
=============================================================================

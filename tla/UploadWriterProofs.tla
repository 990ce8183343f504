-------------------------- MODULE UploadWriterProofs --------------------------
(***************************************************************************)
(* Proofs about UploadWriter: how often a line reaches the server, what    *)
(* Close leaves behind, and how large a chunk becomes.  The size of the    *)
(* buffer is defined by recursion, so that the first part shows by         *)
(* induction what it is of a buffer with one more line.                    *)
(***************************************************************************)
EXTENDS UploadWriter, SequenceTheorems, SequenceLemmas

-----------------------------------------------------------------------------
(* The size of a buffer.                                                   *)

\* The equation that defines SizeOf, for a function g and a buffer b.
SizeStep(g, b) == IF b = <<>> THEN 0 ELSE Len1[Head(b)[2]] + 1 + g[Tail(b)]

\* The buffers of at most n lines, and the sizes of these.
UpTo(n) == {b \in Seq(Lines) : Len(b) <= n}
Sizes(g, n) == g = [b \in UpTo(n) |-> SizeStep(g, b)]

\* What is left of a buffer after its first line is a shorter buffer.
LEMMA TailUpTo ==
  ASSUME NEW n \in Nat, NEW b \in UpTo(n + 1), b # <<>>
  PROVE  Tail(b) \in UpTo(n)
<1>1. b \in Seq(Lines) /\ Len(b) \in Nat /\ Len(b) <= n + 1
  BY LenProperties DEF UpTo
<1>2. Tail(b) \in Seq(Lines) /\ Len(Tail(b)) = Len(b) - 1
  BY <1>1, HeadTailProperties
<1>. QED
  BY <1>1, <1>2 DEF UpTo

\* For every n there is one function that gives the sizes up to n, and only one.
LEMMA SizesUnique ==
  \A n \in Nat : /\ \E g : Sizes(g, n)
                 /\ \A g, k : Sizes(g, n) /\ Sizes(k, n) => g = k
<1>. DEFINE One(n) == /\ \E g : Sizes(g, n)
                      /\ \A g, k : Sizes(g, n) /\ Sizes(k, n) => g = k
            P == {n \in Nat : One(n)}
<1>1. 0 \in P
  <2>1. \A b \in UpTo(0) : b = <<>>
    BY EmptySeq, LenProperties DEF UpTo
  <2>2. \A g : Sizes(g, 0) <=> g = [b \in UpTo(0) |-> 0]
    BY <2>1 DEF Sizes, SizeStep
  <2>3. \E g : Sizes(g, 0)
    BY <2>2
  <2>4. \A g, k : Sizes(g, 0) /\ Sizes(k, 0) => g = k
    BY <2>2
  <2>. QED
    BY <2>3, <2>4
<1>2. ASSUME NEW n \in Nat, n \in P
      PROVE  n + 1 \in P
  <2>1. PICK g : Sizes(g, n)
    BY <1>2
  <2>. DEFINE next == [b \in UpTo(n + 1) |-> SizeStep(g, b)]
  <2>2. UpTo(n) \subseteq UpTo(n + 1)
    BY LenProperties DEF UpTo
  <2>3. ASSUME NEW b \in UpTo(n)
        PROVE  next[b] = g[b]
    BY <2>1, <2>2 DEF Sizes
  <2>4. Sizes(next, n + 1)
    <3>1. ASSUME NEW b \in UpTo(n + 1)
          PROVE  SizeStep(g, b) = SizeStep(next, b)
      <4>1. CASE b = <<>>
        BY <4>1 DEF SizeStep
      <4>2. CASE b # <<>>
        <5>1. next[Tail(b)] = g[Tail(b)]
          BY <4>2, <2>3, TailUpTo
        <5>. QED
          BY <4>2, <5>1 DEF SizeStep
      <4>. QED
        BY <4>1, <4>2
    <3>. QED
      BY <3>1 DEF Sizes
  <2>5. ASSUME NEW k, Sizes(k, n + 1)
        PROVE  k = next
    <3>. DEFINE short == [b \in UpTo(n) |-> k[b]]
    <3>1. ASSUME NEW b \in UpTo(n)
          PROVE  SizeStep(short, b) = k[b]
      <4>1. k[b] = SizeStep(k, b)
        BY <2>5, <2>2 DEF Sizes
      <4>2. CASE b = <<>>
        BY <4>1, <4>2 DEF SizeStep
      <4>3. CASE b # <<>>
        <5>1. Tail(b) \in UpTo(n)
          <6>1. b \in UpTo(n + 1)
            BY <2>2
          <6>. QED
            BY <6>1, <4>3, TailUpTo
        <5>. QED
          BY <4>1, <4>3, <5>1 DEF SizeStep
      <4>. QED
        BY <4>2, <4>3
    <3>2. Sizes(short, n)
      BY <3>1 DEF Sizes
    <3>3. short = g
      <4>. HIDE DEF short
      <4>. QED
        BY <3>2, <2>1, <1>2
    <3>4. ASSUME NEW b \in UpTo(n + 1)
          PROVE  SizeStep(k, b) = SizeStep(g, b)
      <4>1. CASE b = <<>>
        BY <4>1 DEF SizeStep
      <4>2. CASE b # <<>>
        <5>1. k[Tail(b)] = g[Tail(b)]
          BY <4>2, <3>3, TailUpTo
        <5>. QED
          BY <4>2, <5>1 DEF SizeStep
      <4>. QED
        BY <4>1, <4>2
    <3>. QED
      BY <2>5, <3>4 DEF Sizes
  <2>. HIDE DEF next
  <2>6. \A h, k : Sizes(h, n + 1) /\ Sizes(k, n + 1) => h = k
    BY <2>5
  <2>. QED
    BY <2>4, <2>6
<1>. HIDE DEF P
<1>3. Nat \subseteq P
  BY <1>1, <1>2, SetInduction
<1>. QED
  BY <1>3 DEF P

\* SizeOf satisfies the equation that defines it.
LEMMA SizeOfDefined ==
  \A b \in Seq(Lines) : SizeOf[b] = SizeStep(SizeOf, b)
<1>. DEFINE G(n) == CHOOSE g : Sizes(g, n)
            f == [b \in Seq(Lines) |-> G(Len(b))[b]]
<1>1. \A n \in Nat : Sizes(G(n), n)
  BY SizesUnique
<1>. HIDE DEF G
<1>2. ASSUME NEW n \in Nat, NEW b \in UpTo(n)
      PROVE  G(n + 1)[b] = G(n)[b]
  <2>. DEFINE short == [c \in UpTo(n) |-> G(n + 1)[c]]
  <2>1. UpTo(n) \subseteq UpTo(n + 1)
    BY LenProperties DEF UpTo
  <2>2. ASSUME NEW c \in UpTo(n)
        PROVE  SizeStep(short, c) = G(n + 1)[c]
    <3>1. G(n + 1)[c] = SizeStep(G(n + 1), c)
      BY <1>1, <2>1 DEF Sizes
    <3>2. CASE c = <<>>
      BY <3>1, <3>2 DEF SizeStep
    <3>3. CASE c # <<>>
      <4>1. Tail(c) \in UpTo(n)
        <5>1. c \in UpTo(n + 1)
          BY <2>1
        <5>. QED
          BY <5>1, <3>3, TailUpTo
      <4>. QED
        BY <3>1, <3>3, <4>1 DEF SizeStep
    <3>. QED
      BY <3>2, <3>3
  <2>3. Sizes(short, n)
    BY <2>2 DEF Sizes
  <2>4. short = G(n)
    <3>. HIDE DEF short
    <3>. QED
      BY <2>3, <1>1, SizesUnique
  <2>. QED
    BY <2>4
<1>3. ASSUME NEW b \in Seq(Lines)
      PROVE  f[b] = SizeStep(f, b)
  <2>1. Len(b) \in Nat /\ b \in UpTo(Len(b))
    BY LenProperties DEF UpTo
  <2>2. f[b] = SizeStep(G(Len(b)), b)
    BY <2>1, <1>1 DEF Sizes
  <2>3. CASE b = <<>>
    BY <2>2, <2>3 DEF SizeStep
  <2>4. CASE b # <<>>
    <3>1. Tail(b) \in Seq(Lines) /\ Len(Tail(b)) = Len(b) - 1
      BY <2>4, HeadTailProperties
    <3>2. Len(Tail(b)) \in Nat /\ Len(b) = Len(Tail(b)) + 1
      BY <3>1, <2>1, LenProperties
    <3>3. Tail(b) \in UpTo(Len(Tail(b)))
      BY <3>1, <3>2 DEF UpTo
    <3>4. G(Len(b))[Tail(b)] = G(Len(Tail(b)))[Tail(b)]
      BY <3>2, <3>3, <1>2
    <3>. QED
      BY <2>2, <2>4, <3>1, <3>4 DEF SizeStep
  <2>. QED
    BY <2>3, <2>4
<1>. HIDE DEF f
<1>4. f = [b \in Seq(Lines) |-> SizeStep(f, b)]
  BY <1>3 DEF f
<1>5. SizeOf = CHOOSE g : g = [b \in Seq(Lines) |-> SizeStep(g, b)]
  BY DEF SizeOf, SizeStep
<1>6. SizeOf = [b \in Seq(Lines) |-> SizeStep(SizeOf, b)]
  BY <1>4, <1>5
<1>. QED
  BY <1>6

\* What is left after the first line, when a line is added to a buffer.
LEMMA TailOfAppend ==
  ASSUME NEW b \in Seq(Lines), b # <<>>, NEW l \in Lines
  PROVE  /\ Append(b, l) \in Seq(Lines) /\ Append(b, l) # <<>>
         /\ Head(Append(b, l)) = Head(b)
         /\ Tail(Append(b, l)) = Append(Tail(b), l)
<1>1. Len(b) \in Nat /\ Len(b) > 0
  BY EmptySeq, LenProperties
<1>2. /\ Append(b, l) \in Seq(Lines) /\ Len(Append(b, l)) = Len(b) + 1
      /\ \A i \in 1 .. Len(b) : Append(b, l)[i] = b[i]
      /\ Append(b, l)[Len(b) + 1] = l
  BY <1>1, AppendProperties
<1>3. Append(b, l) # <<>>
  BY <1>1, <1>2, EmptySeq
<1>4. /\ Tail(b) \in Seq(Lines) /\ Len(Tail(b)) = Len(b) - 1
      /\ \A i \in 1 .. Len(Tail(b)) : Tail(b)[i] = b[i + 1]
  BY HeadTailProperties
<1>5. /\ Tail(Append(b, l)) \in Seq(Lines) /\ Len(Tail(Append(b, l))) = Len(b)
      /\ \A i \in 1 .. Len(b) : Tail(Append(b, l))[i] = Append(b, l)[i + 1]
  BY <1>1, <1>2, <1>3, HeadTailProperties
<1>6. /\ Append(Tail(b), l) \in Seq(Lines)
      /\ Len(Append(Tail(b), l)) = Len(b)
      /\ \A i \in 1 .. Len(b) - 1 : Append(Tail(b), l)[i] = Tail(b)[i]
      /\ Append(Tail(b), l)[Len(b)] = l
  BY <1>1, <1>4, AppendProperties
<1>7. ASSUME NEW i \in 1 .. Len(b)
      PROVE  Tail(Append(b, l))[i] = Append(Tail(b), l)[i]
  <2>1. CASE i = Len(b)
    BY <1>1, <1>2, <1>5, <1>6, <2>1
  <2>2. CASE i # Len(b)
    <3>1. i \in 1 .. Len(b) - 1 /\ i + 1 \in 1 .. Len(b)
      BY <1>1, <2>2
    <3>. QED
      BY <1>2, <1>4, <1>5, <1>6, <3>1
  <2>. QED
    BY <2>1, <2>2
<1>8. Tail(Append(b, l)) = Append(Tail(b), l)
  BY <1>5, <1>6, <1>7, SeqEqual
<1>9. Head(Append(b, l)) = Head(b)
  BY <1>1, <1>2
<1>. QED
  BY <1>2, <1>3, <1>8, <1>9

\* The length of the line of a host is a positive number.
LEMMA LineLength ==
  ASSUME NEW l \in Lines
  PROVE  l[2] \in Hosts /\ l[1] \in Clients /\ Len1[l[2]] \in Nat
<1>1. l[2] \in Hosts /\ l[1] \in Clients
  BY DEF Lines
<1>. QED
  BY <1>1, UploadAssumption

\* Sizes are natural numbers, and a line adds its length and its newline.
LEMMA SizeOfAppend ==
  \A b \in Seq(Lines) :
    /\ SizeOf[b] \in Nat
    /\ \A l \in Lines : SizeOf[Append(b, l)] = SizeOf[b] + Len1[l[2]] + 1
<1>. DEFINE Right(b) ==
              /\ SizeOf[b] \in Nat
              /\ \A l \in Lines :
                   SizeOf[Append(b, l)] = SizeOf[b] + Len1[l[2]] + 1
            P == {n \in Nat : \A b \in UpTo(n) : Right(b)}
<1>1. Right(<<>>)
  <2>1. <<>> \in Seq(Lines) /\ SizeOf[<<>>] = 0
    BY SizeOfDefined, EmptySeq DEF SizeStep
  <2>2. ASSUME NEW l \in Lines
        PROVE  SizeOf[Append(<<>>, l)] = Len1[l[2]] + 1
    <3>1. /\ <<l>> \in Seq(Lines) /\ <<l>> # <<>> /\ Head(<<l>>) = l
          /\ Append(<<>>, l) = <<l>> /\ Tail(<<l>>) = <<>>
      OBVIOUS
    <3>2. SizeOf[<<l>>] = SizeStep(SizeOf, <<l>>)
      BY <3>1, SizeOfDefined
    <3>3. SizeStep(SizeOf, <<l>>) = Len1[l[2]] + 1 + SizeOf[<<>>]
      BY <3>1 DEF SizeStep
    <3>. QED
      BY <2>1, <3>1, <3>2, <3>3, LineLength
  <2>. QED
    BY <2>1, <2>2, LineLength
<1>2. ASSUME NEW b \in Seq(Lines), b # <<>>, Right(Tail(b))
      PROVE  Right(b)
  <2>1. Head(b) \in Lines /\ Tail(b) \in Seq(Lines)
    BY <1>2, HeadTailProperties
  <2>2. SizeOf[b] = Len1[Head(b)[2]] + 1 + SizeOf[Tail(b)]
    BY <1>2, SizeOfDefined DEF SizeStep
  <2>3. SizeOf[b] \in Nat
    BY <1>2, <2>1, <2>2, LineLength
  <2>4. ASSUME NEW l \in Lines
        PROVE  SizeOf[Append(b, l)] = SizeOf[b] + Len1[l[2]] + 1
    <3>1. SizeOf[Append(b, l)]
            = Len1[Head(b)[2]] + 1 + SizeOf[Append(Tail(b), l)]
      <4>1. /\ Append(b, l) \in Seq(Lines) /\ Append(b, l) # <<>>
            /\ Head(Append(b, l)) = Head(b) /\ Tail(Append(b, l)) = Append(Tail(b), l)
        BY <1>2, TailOfAppend
      <4>2. SizeOf[Append(b, l)] = SizeStep(SizeOf, Append(b, l))
        BY <4>1, SizeOfDefined
      <4>. QED
        BY <4>1, <4>2 DEF SizeStep
    <3>2. SizeOf[Append(Tail(b), l)] = SizeOf[Tail(b)] + Len1[l[2]] + 1
      BY <1>2
    <3>. QED
      BY <1>2, <2>1, <2>2, <3>1, <3>2, LineLength
  <2>. QED
    BY <2>3, <2>4
<1>. HIDE DEF Right
<1>3. 0 \in P
  <2>1. \A b \in UpTo(0) : b = <<>>
    BY EmptySeq, LenProperties DEF UpTo
  <2>. QED
    BY <1>1, <2>1
<1>4. ASSUME NEW n \in Nat, n \in P
      PROVE  n + 1 \in P
  <2>1. ASSUME NEW b \in UpTo(n + 1)
        PROVE  Right(b)
    <3>1. CASE b = <<>>
      BY <1>1, <3>1
    <3>2. CASE b # <<>>
      <4>1. Tail(b) \in UpTo(n)
        BY <3>2, TailUpTo
      <4>. QED
        BY <1>2, <1>4, <3>2, <4>1 DEF UpTo
    <3>. QED
      BY <3>1, <3>2
  <2>. QED
    BY <2>1
<1>. HIDE DEF P
<1>5. Nat \subseteq P
  BY <1>3, <1>4, SetInduction
<1>6. ASSUME NEW b \in Seq(Lines)
      PROVE  Right(b)
  <2>1. Len(b) \in Nat /\ b \in UpTo(Len(b))
    BY LenProperties DEF UpTo
  <2>. QED
    BY <1>5, <2>1 DEF P
<1>. QED
  BY <1>6 DEF Right

-----------------------------------------------------------------------------
(* The inductive invariant.                                                *)

\* A line is still to be reported, or it is once in the channel, or autoCommit
\* has it: only then it can be in the buffer, or stored.
SentOnce ==
  /\ \A i, j \in 1 .. Len(data) : data[i] = data[j] => i = j
  /\ \A l \in Queued : l[2] \notin todo[l[1]] /\ l \notin InBuff /\ stored[l] = 0
  /\ \A l \in Lines : l[2] \in todo[l[1]] => l \notin InBuff /\ stored[l] = 0

\* A line in the buffer was stored only by uploads whose answer was lost, and
\* one that left it once more; a group was opened by an upload whose answer was
\* lost or named none, and by one more when the group is known.
CountedOnce ==
  /\ \A l \in Lines : stored[l] <= IF l \in InBuff THEN unanswered ELSE 1 + unanswered
  /\ AssetID => group /\ created = 0
  /\ ~AssetID => created <= (IF group THEN 1 ELSE 0) + unanswered + unnamed

\* autoCommit leaves its loop when the channel is closed and drained, and what
\* it then still has in the buffer was refused.
Drained ==
  /\ commit \in {"final", "done"} => data = <<>> /\ ~open
  /\ commit = "done" /\ buff # <<>> => failures > 0

UploadInv == TypeOK /\ SentOnce /\ CountedOnce /\ Drained /\ ChunkWithinLimit

\* The elements of a sequence, and those of one that is longer by one.
Elements(s) == {s[i] : i \in 1 .. Len(s)}
Distinct(s) == \A i, j \in 1 .. Len(s) : s[i] = s[j] => i = j

\* The elements of a sequence with one more at its end.
LEMMA ElementsOfAppend ==
  ASSUME NEW s \in Seq(Lines), NEW l \in Lines
  PROVE  /\ Append(s, l) \in Seq(Lines) /\ Len(Append(s, l)) = Len(s) + 1
         /\ Elements(Append(s, l)) = Elements(s) \cup {l}
         /\ Distinct(s) /\ l \notin Elements(s) => Distinct(Append(s, l))
<1>1. /\ Append(s, l) \in Seq(Lines) /\ Len(Append(s, l)) = Len(s) + 1
      /\ \A i \in 1 .. Len(s) : Append(s, l)[i] = s[i]
      /\ Append(s, l)[Len(s) + 1] = l
  BY AppendProperties
<1>2. Len(s) \in Nat /\ 1 .. Len(s) + 1 = (1 .. Len(s)) \cup {Len(s) + 1}
  BY LenProperties
<1>3. Elements(Append(s, l)) = Elements(s) \cup {l}
  BY <1>1, <1>2 DEF Elements
<1>4. Distinct(s) /\ l \notin Elements(s) => Distinct(Append(s, l))
  BY <1>1, <1>2 DEF Elements, Distinct
<1>. QED
  BY <1>1, <1>3, <1>4

\* The first of a sequence of different elements is not among the others.
LEMMA ElementsOfTail ==
  ASSUME NEW s \in Seq(Lines), s # <<>>
  PROVE  /\ Head(s) \in Elements(s) /\ Head(s) \in Lines
         /\ Tail(s) \in Seq(Lines) /\ Len(Tail(s)) = Len(s) - 1
         /\ Elements(Tail(s)) \subseteq Elements(s)
         /\ Distinct(s) => Distinct(Tail(s)) /\ Head(s) \notin Elements(Tail(s))
<1>1. Len(s) \in Nat /\ Len(s) > 0
  BY EmptySeq, LenProperties
<1>2. /\ Head(s) \in Lines /\ Head(s) = s[1]
      /\ Tail(s) \in Seq(Lines) /\ Len(Tail(s)) = Len(s) - 1
      /\ \A i \in 1 .. Len(Tail(s)) : Tail(s)[i] = s[i + 1]
  BY HeadTailProperties
<1>3. \A i \in 1 .. Len(Tail(s)) : i + 1 \in 1 .. Len(s) /\ i + 1 # 1
  BY <1>1, <1>2
<1>4. 1 \in 1 .. Len(s)
  BY <1>1
<1>5. Head(s) \in Elements(s) /\ Elements(Tail(s)) \subseteq Elements(s)
  BY <1>2, <1>3, <1>4 DEF Elements
<1>6. ASSUME Distinct(s)
      PROVE  Distinct(Tail(s)) /\ Head(s) \notin Elements(Tail(s))
  <2>1. Head(s) \notin Elements(Tail(s))
    BY <1>2, <1>3, <1>4, <1>6 DEF Elements, Distinct
  <2>2. ASSUME NEW i \in 1 .. Len(Tail(s)), NEW j \in 1 .. Len(Tail(s)),
               Tail(s)[i] = Tail(s)[j]
        PROVE  i = j
    <3>1. i + 1 = j + 1
      BY <1>2, <1>3, <1>6, <2>2 DEF Distinct
    <3>. QED
      BY <1>1, <1>2, <3>1
  <2>. QED
    BY <2>1, <2>2 DEF Distinct
<1>. QED
  BY <1>2, <1>5, <1>6

\* The lines in the channel and in the buffer, in these terms.
LEMMA ElementsNamed ==
  /\ InBuff = Elements(buff) /\ Queued = Elements(data)
  /\ InBuff' = Elements(buff') /\ Queued' = Elements(data')
  /\ SentOnce = ( /\ Distinct(data)
                  /\ \A l \in Queued : l[2] \notin todo[l[1]] /\ l \notin InBuff
                                       /\ stored[l] = 0
                  /\ \A l \in Lines : l[2] \in todo[l[1]] =>
                                        l \notin InBuff /\ stored[l] = 0 )
  BY DEF InBuff, Queued, Elements, SentOnce, Distinct

\* The empty buffer.
LEMMA EmptyBuffer ==
  <<>> \in Seq(Lines) /\ Len(<<>>) = 0 /\ Elements(<<>>) = {} /\ SizeOf[<<>>] = 0
<1>1. <<>> \in Seq(Lines) /\ Len(<<>>) = 0
  BY EmptySeq
<1>2. SizeOf[<<>>] = 0
  BY <1>1, SizeOfDefined DEF SizeStep
<1>. QED
  BY <1>1, <1>2 DEF Elements

-----------------------------------------------------------------------------
(* Type correctness.                                                       *)

\* A line takes room in the channel, and a line leaves it, as the type allows.
LEMMA UploadTypeStep == TypeOK /\ [Next]_vars => TypeOK'
<1>. SUFFICES ASSUME TypeOK, [Next]_vars
              PROVE  TypeOK'
  OBVIOUS
<1>. USE DEF TypeOK, clientVars, serverVars
<1>. USE UploadAssumption
<1>1. ASSUME NEW c \in Clients, Interrupt(c)
      PROVE  TypeOK'
  BY <1>1 DEF Interrupt
<1>2. ASSUME NEW c \in Clients, Callback(c)
      PROVE  TypeOK'
  <2>1. PICK h \in todo[c] : /\ data' = Append(data, <<c, h>>)
                             /\ todo' = [todo EXCEPT ![c] = @ \ {h}]
    BY <1>2 DEF Callback
  <2>2. <<c, h>> \in Lines /\ Len(data) \in Nat /\ Len(data) < ChanSize
    BY <1>2, <2>1, LenProperties DEF Lines, Callback, HasRoom
  <2>3. data' \in Seq(Lines) /\ Len(data') <= ChanSize
    <3>1. data' \in Seq(Lines) /\ Len(data') = Len(data) + 1
      BY <2>1, <2>2, ElementsOfAppend
    <3>. QED
      BY <2>2, <3>1
  <2>4. todo' \in [Clients -> SUBSET Hosts]
    BY <2>1
  <2>. QED
    BY <1>2, <2>3, <2>4 DEF Callback
<1>3. ASSUME NEW c \in Clients, SendPanics(c)
      PROVE  TypeOK'
  BY <1>3 DEF SendPanics
<1>4. ASSUME NEW c \in Clients, CloseLoads(c) \/ CloseFails(c)
      PROVE  TypeOK'
  BY <1>4 DEF CloseLoads, CloseFails
<1>5. ASSUME NEW c \in Clients, CloseChannel(c)
      PROVE  TypeOK'
  BY <1>5 DEF CloseChannel
<1>6. ASSUME NEW c \in Clients, CloseStores(c) \/ CloseReturns(c)
      PROVE  TypeOK'
  BY <1>6 DEF CloseStores, CloseReturns
<1>7. CASE Tick
  BY <1>7 DEF Tick
<1>8. CASE Receive
  <2>1. data # <<>> /\ data' = Tail(data)
    BY <1>8 DEF Receive
  <2>2. Head(data) \in Lines /\ data' \in Seq(Lines) /\ Len(data') <= ChanSize
    <3>1. /\ Head(data) \in Lines /\ data' \in Seq(Lines)
          /\ Len(data') = Len(data) - 1 /\ Len(data) \in Nat
      BY <2>1, ElementsOfTail, LenProperties
    <3>. QED
      BY <3>1
  <2>3. CASE Fits(Head(data))
    <3>1. buff' = Append(buff, Head(data)) /\ UNCHANGED <<commit, held>>
      BY <1>8, <2>3 DEF Receive
    <3>2. buff' \in Seq(Lines)
      BY <2>2, <3>1, ElementsOfAppend
    <3>. QED
      BY <1>8, <2>2, <3>1, <3>2 DEF Receive
  <2>4. CASE ~Fits(Head(data))
    <3>1. commit' = "full" /\ held' = Head(data) /\ buff' = buff
      BY <1>8, <2>4 DEF Receive
    <3>. QED
      BY <1>8, <2>2, <3>1 DEF Receive
  <2>. QED
    BY <2>3, <2>4
<1>9. CASE ChannelClosed
  BY <1>9 DEF ChannelClosed, AfterClose
<1>10. CASE UploadSucceeds
  <2>1. stored' \in [Lines -> Nat]
    BY <1>10 DEF UploadSucceeds, Store
  <2>2. created' \in Nat
    BY <1>10 DEF UploadSucceeds, Posts
  <2>3. group' \in BOOLEAN /\ unnamed' \in Nat
    BY <1>10 DEF UploadSucceeds, AnswerNames
  <2>. QED
    BY <1>10, <2>1, <2>2, <2>3, EmptyBuffer DEF UploadSucceeds, BuffAfter, AfterUpload
<1>11. CASE UploadFails
  BY <1>11 DEF UploadFails, BuffAfter, AfterUpload
<1>12. CASE AnswerIsLost
  <2>1. stored' \in [Lines -> Nat]
    BY <1>12 DEF AnswerIsLost, Store
  <2>2. created' \in Nat
    BY <1>12 DEF AnswerIsLost, Posts
  <2>. QED
    BY <1>12, <2>1, <2>2 DEF AnswerIsLost, BuffAfter, AfterUpload
<1>13. CASE Gone \/ UNCHANGED vars
  BY <1>13 DEF Gone, vars
<1>14. CASE ClientResends
  <2>1. stored' \in [Lines -> Nat]
    BY <1>14 DEF ClientResends, Store
  <2>2. created' \in Nat
    BY <1>14 DEF ClientResends, Posts
  <2>. QED
    BY <1>14, <2>1, <2>2 DEF ClientResends
<1>. QED
  BY <1>1, <1>2, <1>3, <1>4, <1>5, <1>6, <1>7, <1>8, <1>9, <1>10, <1>11,
     <1>12, <1>13, <1>14 DEF Next, AutoCommit, Upload, Client

\* The initial state is typed.
LEMMA UploadTypeInit == Init => TypeOK
<1>. SUFFICES ASSUME Init
              PROVE  TypeOK
  OBVIOUS
<1>1. todo \in [Clients -> SUBSET Hosts]
  BY DEF Init
<1>2. pc \in [Clients -> {"off", "report", "close", "store", "wait", "returned"}]
  BY DEF Init
<1>3. data \in Seq(Lines) /\ Len(data) <= ChanSize /\ buff \in Seq(Lines)
  BY EmptyBuffer, UploadAssumption DEF Init
<1>4. stored \in [Lines -> Nat]
  BY DEF Init
<1>. QED
  BY <1>1, <1>2, <1>3, <1>4, UploadAssumption DEF Init, TypeOK

\* Every variable of the upload writer keeps its type, and the data channel
\* never holds more than its capacity (writer.go:70, 96, 151).
THEOREM UploadTypeCorrect == Spec => []TypeOK
<1>. QED
  BY UploadTypeInit, UploadTypeStep, PTL DEF Spec

-----------------------------------------------------------------------------
(* What each step does to the lines.                                       *)

\* A step that is not the callback, a receive or an upload leaves the lines,
\* the buffer and the server alone.
Quiet == UNCHANGED <<todo, data, buff, stored, created, unanswered, unnamed, group,
                     failures>>

\* The steps that leave the buffer, the server and the lines alone.
LEMMA QuietSteps ==
  ASSUME TypeOK, [Next]_vars
  PROVE  \/ Quiet
         \/ \E c \in Clients : Callback(c)
         \/ Receive \/ Upload
<1>. USE DEF Quiet, serverVars, clientVars
<1>1. ASSUME NEW c \in Clients, Interrupt(c) \/ Client(c)
      PROVE  Quiet \/ Callback(c)
  BY <1>1 DEF Interrupt, Client, SendPanics, CloseLoads, CloseFails,
              CloseChannel, CloseStores, CloseReturns
<1>2. ASSUME Tick \/ ChannelClosed \/ Gone \/ UNCHANGED vars
      PROVE  Quiet
  BY <1>2 DEF Tick, ChannelClosed, Gone, vars
<1>. QED
  BY <1>1, <1>2 DEF Next, AutoCommit

\* A callback moves one line of the client from what is to report to the channel.
LEMMA CallbackMoves ==
  ASSUME TypeOK, NEW c \in Clients, Callback(c)
  PROVE  \E h \in todo[c] :
           /\ <<c, h>> \in Lines /\ data' = Append(data, <<c, h>>)
           /\ Queued' = Queued \cup {<<c, h>>}
           /\ \A l \in Lines : l[2] \in todo'[l[1]] <=>
                                 l[2] \in todo[l[1]] /\ l # <<c, h>>
           /\ UNCHANGED <<buff, stored, created, unanswered, unnamed, group>>
<1>1. PICK h \in todo[c] : /\ data' = Append(data, <<c, h>>)
                           /\ todo' = [todo EXCEPT ![c] = @ \ {h}]
  BY DEF Callback
<1>2. <<c, h>> \in Lines
  BY DEF TypeOK, Lines
<1>3. Queued' = Queued \cup {<<c, h>>}
  BY <1>1, <1>2, ElementsOfAppend, ElementsNamed DEF TypeOK
<1>4. ASSUME NEW l \in Lines
      PROVE  l[2] \in todo'[l[1]] <=> l[2] \in todo[l[1]] /\ l # <<c, h>>
  <2>1. l[1] \in Clients /\ l = <<l[1], l[2]>>
    BY DEF Lines
  <2>. QED
    BY <1>1, <2>1 DEF TypeOK
<1>. QED
  BY <1>1, <1>2, <1>3, <1>4 DEF Callback, serverVars

\* A receive takes the first line; the buffer stays or has it in addition.
LEMMA ReceiveMoves ==
  ASSUME TypeOK, Receive
  PROVE  /\ data # <<>> /\ Head(data) \in Lines /\ Head(data) \in Queued
         /\ data' = Tail(data) /\ Queued' \subseteq Queued
         /\ Distinct(data) => Distinct(data') /\ Head(data) \notin Queued'
         /\ \/ buff' = buff /\ InBuff' = InBuff
            \/ /\ Fits(Head(data)) /\ buff' = Append(buff, Head(data))
               /\ InBuff' = InBuff \cup {Head(data)}
         /\ UNCHANGED <<todo, stored, created, unanswered, unnamed, group>>
<1>1. data # <<>> /\ data' = Tail(data) /\ data \in Seq(Lines) /\ buff \in Seq(Lines)
  BY DEF Receive, TypeOK
<1>2. /\ Head(data) \in Lines /\ Head(data) \in Queued /\ Queued' \subseteq Queued
      /\ Distinct(data) => Distinct(data') /\ Head(data) \notin Queued'
  BY <1>1, ElementsOfTail, ElementsNamed
<1>3. \/ buff' = buff /\ InBuff' = InBuff
      \/ /\ Fits(Head(data)) /\ buff' = Append(buff, Head(data))
         /\ InBuff' = InBuff \cup {Head(data)}
  <2>1. CASE Fits(Head(data))
    <3>1. buff' = Append(buff, Head(data))
      BY <2>1 DEF Receive
    <3>. QED
      BY <1>1, <1>2, <2>1, <3>1, ElementsOfAppend, ElementsNamed
  <2>2. CASE ~Fits(Head(data))
    <3>1. buff' = buff
      BY <2>2 DEF Receive
    <3>. QED
      BY <3>1 DEF InBuff
  <2>. QED
    BY <2>1, <2>2
<1>. QED
  BY <1>1, <1>2, <1>3 DEF Receive, clientVars, serverVars

\* What an upload does: the lines of the buffer are stored once more or not at
\* all, and the buffer is empty when the answer was read.
LEMMA UploadMoves ==
  ASSUME TypeOK, Upload
  PROVE  /\ UNCHANGED <<todo, data>>
         /\ UploadSucceeds => buff' = <<>> /\ InBuff' = {} /\ unanswered' = unanswered
         /\ ~UploadSucceeds => buff' = buff /\ InBuff' = InBuff
         /\ UploadFails => UNCHANGED <<stored, created, unanswered, unnamed, group>>
         /\ UploadSucceeds \/ AnswerIsLost \/ ClientResends =>
              /\ stored' \in [Lines -> Nat]
              /\ \A l \in Lines : stored'[l] = IF l \in InBuff THEN stored[l] + 1
                                                               ELSE stored[l]
         /\ AnswerIsLost \/ ClientResends => unanswered' = unanswered + 1
<1>. USE DEF Upload
<1>1. UNCHANGED <<todo, data>>
  BY DEF UploadSucceeds, UploadFails, AnswerIsLost, ClientResends, clientVars
<1>2. ASSUME UploadSucceeds
      PROVE  buff' = <<>> /\ InBuff' = {} /\ unanswered' = unanswered
  BY <1>2, EmptyBuffer, ElementsNamed DEF UploadSucceeds, BuffAfter
<1>3. ASSUME ~UploadSucceeds
      PROVE  buff' = buff /\ InBuff' = InBuff
  BY <1>3 DEF UploadFails, AnswerIsLost, ClientResends, BuffAfter, InBuff
<1>4. UploadFails => UNCHANGED <<stored, created, unanswered, unnamed, group>>
  BY DEF UploadFails
<1>5. ASSUME UploadSucceeds \/ AnswerIsLost \/ ClientResends
      PROVE  /\ stored' \in [Lines -> Nat]
             /\ \A l \in Lines : stored'[l] = IF l \in InBuff THEN stored[l] + 1
                                                              ELSE stored[l]
  <2>1. Store
    BY <1>5 DEF UploadSucceeds, AnswerIsLost, ClientResends
  <2>. QED
    BY <2>1 DEF Store, TypeOK
<1>6. AnswerIsLost \/ ClientResends => unanswered' = unanswered + 1
  BY DEF AnswerIsLost, ClientResends
<1>. QED
  BY <1>1, <1>2, <1>3, <1>4, <1>5, <1>6

-----------------------------------------------------------------------------
(* The invariant is inductive.                                             *)

\* A line is sent once, by the one client whose line it is.
LEMMA SentOnceStep == TypeOK /\ SentOnce /\ [Next]_vars => SentOnce'
<1>. SUFFICES ASSUME TypeOK, SentOnce, [Next]_vars
              PROVE  SentOnce'
  OBVIOUS
<1>. DEFINE Goal == /\ Distinct(data')
                    /\ \A l \in Queued' : l[2] \notin todo'[l[1]] /\ l \notin InBuff'
                                          /\ stored'[l] = 0
                    /\ \A l \in Lines : l[2] \in todo'[l[1]] =>
                                          l \notin InBuff' /\ stored'[l] = 0
<1>1. SUFFICES Goal
  BY DEF SentOnce, Distinct, Queued, InBuff
<1>2. /\ Distinct(data)
      /\ \A l \in Queued : l[2] \notin todo[l[1]] /\ l \notin InBuff /\ stored[l] = 0
      /\ \A l \in Lines : l[2] \in todo[l[1]] => l \notin InBuff /\ stored[l] = 0
  BY ElementsNamed
<1>3. Queued \subseteq Lines
  BY DEF Queued, TypeOK
<1>4. CASE Quiet
  <2>1. InBuff' = InBuff /\ Queued' = Queued
    BY <1>4 DEF Quiet, InBuff, Queued
  <2>. QED
    BY <1>2, <1>4, <2>1 DEF Quiet
<1>5. ASSUME NEW c \in Clients, Callback(c)
      PROVE  Goal
  <2>1. PICK h \in todo[c] :
           /\ <<c, h>> \in Lines /\ data' = Append(data, <<c, h>>)
           /\ Queued' = Queued \cup {<<c, h>>}
           /\ \A l \in Lines : l[2] \in todo'[l[1]] <=>
                                 l[2] \in todo[l[1]] /\ l # <<c, h>>
           /\ UNCHANGED <<buff, stored, created, unanswered, unnamed, group>>
    BY <1>5, CallbackMoves
  <2>2. InBuff' = InBuff
    BY <2>1 DEF InBuff
  <2>3. <<c, h>> \notin Queued /\ <<c, h>> \notin InBuff /\ stored[<<c, h>>] = 0
    BY <1>2, <2>1
  <2>4. Distinct(data')
    BY <1>2, <2>1, <2>3, ElementsOfAppend, ElementsNamed DEF TypeOK
  <2>. QED
    BY <1>2, <1>3, <2>1, <2>2, <2>3, <2>4
<1>6. CASE Receive
  <2>1. /\ Head(data) \in Lines /\ Head(data) \in Queued /\ Queued' \subseteq Queued
        /\ Distinct(data') /\ Head(data) \notin Queued'
        /\ InBuff' \subseteq InBuff \cup {Head(data)}
        /\ UNCHANGED <<todo, stored>>
    BY <1>2, <1>6, ReceiveMoves
  <2>. QED
    BY <1>2, <1>3, <2>1
<1>7. CASE Upload
  <2>1. UNCHANGED <<todo, data>> /\ Queued' = Queued
    BY <1>7, UploadMoves DEF Queued
  <2>2. InBuff' \subseteq InBuff
    BY <1>7, UploadMoves
  <2>3. \A l \in Lines : l \notin InBuff => stored'[l] = stored[l]
    BY <1>7, UploadMoves DEF Upload
  <2>. QED
    BY <1>2, <1>3, <2>1, <2>2, <2>3
<1>. QED
  BY <1>4, <1>5, <1>6, <1>7, QuietSteps

\* An upload that stores a line again follows one whose answer was lost.
LEMMA CountedOnceStep ==
  TypeOK /\ SentOnce /\ CountedOnce /\ [Next]_vars => CountedOnce'
<1>. SUFFICES ASSUME TypeOK, SentOnce, CountedOnce, [Next]_vars
              PROVE  CountedOnce'
  OBVIOUS
<1>1. /\ stored \in [Lines -> Nat] /\ created \in Nat
      /\ unanswered \in Nat /\ unnamed \in Nat /\ group \in BOOLEAN
  BY DEF TypeOK
<1>2. /\ \A l \in Lines : stored[l] <= IF l \in InBuff THEN unanswered ELSE 1 + unanswered
      /\ AssetID => group /\ created = 0
      /\ ~AssetID => created <= (IF group THEN 1 ELSE 0) + unanswered + unnamed
  BY DEF CountedOnce
<1>3. CASE Quiet
  <2>1. InBuff' = InBuff
    BY <1>3 DEF Quiet, InBuff
  <2>. QED
    BY <1>3, <2>1 DEF Quiet, CountedOnce
<1>4. ASSUME NEW c \in Clients, Callback(c)
      PROVE  CountedOnce'
  <2>1. UNCHANGED <<buff, stored, created, unanswered, unnamed, group>>
    BY <1>4, CallbackMoves
  <2>2. InBuff' = InBuff
    BY <2>1 DEF InBuff
  <2>. QED
    BY <2>1, <2>2 DEF CountedOnce
<1>5. CASE Receive
  <2>1. /\ Head(data) \in Queued /\ InBuff' \subseteq InBuff \cup {Head(data)}
        /\ UNCHANGED <<stored, created, unanswered, unnamed, group>>
    BY <1>5, ReceiveMoves
  <2>2. stored[Head(data)] = 0
    BY <2>1, ElementsNamed
  <2>3. \A l \in Lines : stored[l] <= 1 + unanswered
    BY <1>1, <1>2
  <2>4. \A l \in Lines :
          stored'[l] <= IF l \in InBuff' THEN unanswered' ELSE 1 + unanswered'
    BY <1>1, <1>2, <2>1, <2>2, <2>3
  <2>. QED
    BY <1>2, <2>1, <2>4 DEF CountedOnce
<1>6. CASE UploadFails
  <2>1. UNCHANGED <<stored, created, unanswered, unnamed, group>> /\ InBuff' = InBuff
    BY <1>6, UploadMoves DEF Upload, UploadSucceeds, UploadFails, BuffAfter, InBuff
  <2>. QED
    BY <2>1 DEF CountedOnce
<1>7. CASE UploadSucceeds \/ AnswerIsLost \/ ClientResends
  <2>. Upload
    BY <1>7 DEF Upload
  <2>1. \A l \in Lines :
          stored'[l] <= IF l \in InBuff' THEN unanswered' ELSE 1 + unanswered'
    <3>. SUFFICES ASSUME NEW l \in Lines
                  PROVE  stored'[l] <= IF l \in InBuff' THEN unanswered'
                                                        ELSE 1 + unanswered'
      OBVIOUS
    <3>1. stored'[l] = IF l \in InBuff THEN stored[l] + 1 ELSE stored[l]
      BY <1>7, UploadMoves
    <3>2. stored'[l] <= 1 + unanswered /\ stored'[l] \in Nat
      BY <1>1, <1>2, <3>1
    <3>3. CASE UploadSucceeds
      <4>1. InBuff' = {} /\ unanswered' = unanswered
        BY <3>3, UploadMoves
      <4>. QED
        BY <3>2, <4>1
    <3>4. CASE ~UploadSucceeds
      <4>1. InBuff' = InBuff /\ unanswered' = unanswered + 1
        BY <1>7, <3>4, UploadMoves
      <4>. QED
        BY <1>1, <3>2, <4>1
    <3>. QED
      BY <1>7, <3>3, <3>4
  <2>2. Posts /\ \/ (\E id \in BOOLEAN : AnswerNames(id)) /\ unanswered' = unanswered
                 \/ UNCHANGED <<group, unnamed>> /\ unanswered' = unanswered + 1
    <3>1. UploadSucceeds => Posts /\ (\E id \in BOOLEAN : AnswerNames(id))
                                  /\ unanswered' = unanswered
      BY DEF UploadSucceeds
    <3>2. AnswerIsLost \/ ClientResends =>
            Posts /\ UNCHANGED <<group, unnamed>> /\ unanswered' = unanswered + 1
      BY DEF AnswerIsLost, ClientResends
    <3>. QED
      BY <1>7, <3>1, <3>2
  <2>3. AssetID => group' /\ created' = 0
    BY <1>2, <2>2 DEF Posts, AnswerNames
  <2>4. ~AssetID => created' <= (IF group' THEN 1 ELSE 0) + unanswered' + unnamed'
    BY <1>1, <1>2, <2>2 DEF Posts, AnswerNames
  <2>. QED
    BY <2>1, <2>3, <2>4 DEF CountedOnce
<1>. QED
  BY <1>3, <1>4, <1>5, <1>6, <1>7, QuietSteps DEF Upload

\* autoCommit ends on a closed and drained channel, to which nothing is added.
LEMMA DrainedStep == TypeOK /\ Drained /\ [Next]_vars => Drained'
<1>. SUFFICES ASSUME TypeOK, Drained, [Next]_vars
              PROVE  Drained'
  OBVIOUS
<1>. USE DEF Drained, clientVars, serverVars
<1>1. ASSUME NEW c \in Clients, Interrupt(c) \/ Client(c)
      PROVE  Drained'
  <2>1. CASE Callback(c)
    BY <2>1 DEF Callback
  <2>2. CASE Interrupt(c)
    BY <2>2 DEF Interrupt
  <2>3. CASE SendPanics(c) \/ CloseLoads(c) \/ CloseFails(c)
    BY <2>3 DEF SendPanics, CloseLoads, CloseFails
  <2>4. CASE CloseChannel(c)
    BY <2>4 DEF CloseChannel
  <2>5. CASE CloseStores(c) \/ CloseReturns(c)
    BY <2>5 DEF CloseStores, CloseReturns
  <2>. QED
    BY <1>1, <2>1, <2>2, <2>3, <2>4, <2>5 DEF Client
<1>2. CASE Tick \/ Gone \/ UNCHANGED vars
  BY <1>2 DEF Tick, Gone, vars
<1>3. CASE Receive
  <2>1. commit = "select" /\ (commit' = "select" \/ commit' = "full")
    BY <1>3 DEF Receive
  <2>. QED
    BY <2>1
<1>4. CASE ChannelClosed
  BY <1>4 DEF ChannelClosed, AfterClose
<1>5. CASE UploadSucceeds
  BY <1>5 DEF UploadSucceeds, AfterUpload, BuffAfter
<1>6. CASE UploadFails \/ AnswerIsLost
  <2>1. failures' > 0 /\ buff' = buff /\ data' = data /\ open' = open
    BY <1>6 DEF UploadFails, AnswerIsLost, BuffAfter, TypeOK
  <2>2. commit' = IF commit = "final" THEN "done" ELSE "select"
    BY <1>6 DEF UploadFails, AnswerIsLost, AfterUpload
  <2>. QED
    BY <2>1, <2>2
<1>7. CASE ClientResends
  BY <1>7 DEF ClientResends
<1>. QED
  BY <1>1, <1>2, <1>3, <1>4, <1>5, <1>6, <1>7 DEF Next, AutoCommit, Upload

\* A line enters the buffer only when it fits.
LEMMA ChunkStep == TypeOK /\ ChunkWithinLimit /\ [Next]_vars => ChunkWithinLimit'
<1>. SUFFICES ASSUME TypeOK, ChunkWithinLimit, [Next]_vars
              PROVE  ChunkWithinLimit'
  OBVIOUS
<1>1. CASE buff' = buff
  BY <1>1 DEF ChunkWithinLimit
<1>2. CASE Receive /\ buff' # buff
  <2>1. /\ Head(data) \in Lines /\ Fits(Head(data))
        /\ buff' = Append(buff, Head(data))
    BY <1>2, ReceiveMoves
  <2>2. /\ SizeOf[buff] \in Nat /\ Len1[Head(data)[2]] \in Nat
        /\ SizeOf[buff'] = SizeOf[buff] + Len1[Head(data)[2]] + 1
    BY <2>1, SizeOfAppend, LineLength DEF TypeOK
  <2>. QED
    BY <2>1, <2>2, UploadAssumption DEF Fits, ChunkWithinLimit
<1>3. CASE UploadSucceeds
  <2>1. SizeOf[buff'] = 0
    BY <1>3, UploadMoves, EmptyBuffer DEF Upload
  <2>. QED
    BY <2>1, UploadAssumption DEF ChunkWithinLimit
<1>4. ASSUME NEW c \in Clients, Callback(c)
      PROVE  buff' = buff
  BY <1>4, CallbackMoves
<1>. QED
  BY <1>1, <1>2, <1>3, <1>4, QuietSteps, UploadMoves DEF Quiet

\* The invariant holds at the start,
LEMMA UploadInvInit == Init => UploadInv
<1>. SUFFICES ASSUME Init
              PROVE  UploadInv
  OBVIOUS
<1>1. TypeOK
  BY UploadTypeInit
<1>2. Queued = {} /\ InBuff = {} /\ SizeOf[buff] = 0 /\ Len(data) = 0
  BY EmptyBuffer, ElementsNamed DEF Init
<1>3. SentOnce
  BY <1>2 DEF SentOnce, Init
<1>4. CountedOnce
  BY UploadAssumption DEF CountedOnce, Init
<1>5. Drained
  BY DEF Drained, Init
<1>6. ChunkWithinLimit
  BY <1>2, UploadAssumption DEF ChunkWithinLimit
<1>. QED
  BY <1>1, <1>3, <1>4, <1>5, <1>6 DEF UploadInv

\* every step keeps it,
LEMMA UploadInvStep == UploadInv /\ [Next]_vars => UploadInv'
  BY UploadTypeStep, SentOnceStep, CountedOnceStep, DrainedStep, ChunkStep
     DEF UploadInv

\* and so it holds throughout.
LEMMA UploadInvariant == Spec => []UploadInv
  BY UploadInvInit, UploadInvStep, PTL DEF Spec

-----------------------------------------------------------------------------
(* What follows from it.                                                   *)

\* However the retries, the ticker and both closing goroutines interleave, a
\* line is stored twice only when an answer was lost, and no second group is
\* opened unless the answer to an earlier POST was lost or named no group
\* (writer.go:217-218, 229-237).
THEOREM StoredOnce == Spec => []StoredOnceUnlessUnanswered
<1>1. UploadInv => StoredOnceUnlessUnanswered
  <2>. SUFFICES ASSUME UploadInv
                PROVE  StoredOnceUnlessUnanswered
    OBVIOUS
  <2>1. /\ stored \in [Lines -> Nat] /\ created \in Nat
        /\ unanswered \in Nat /\ unnamed \in Nat
    BY DEF UploadInv, TypeOK
  <2>2. CountedOnce
    BY DEF UploadInv
  <2>3. \A l \in Lines : stored[l] <= 1 + unanswered
    BY <2>1, <2>2 DEF CountedOnce
  <2>4. created <= IF AssetID THEN 0 ELSE 1 + unanswered + unnamed
    BY <2>1, <2>2, UploadAssumption DEF CountedOnce
  <2>. QED
    BY <2>3, <2>4 DEF StoredOnceUnlessUnanswered
<1>. QED
  BY <1>1, UploadInvariant, PTL

\* When a client has closed the writer, autoCommit has taken every line that
\* was sent, and only lines that the server refused are left in its buffer
\* (writer.go:151-158, 260-267).
THEOREM CloseDrains == Spec => []ClosedIsDrained
<1>1. UploadInv => ClosedIsDrained
  BY DEF UploadInv, Drained, ClosedIsDrained
<1>. QED
  BY <1>1, UploadInvariant, PTL

\* No chunk is larger than MaxChunkSize and the newline of its last line,
\* whatever the lengths of the lines are (writer.go:168-176).
THEOREM ChunkIsBounded == Spec => []ChunkWithinLimit
<1>1. UploadInv => ChunkWithinLimit
  BY DEF UploadInv
<1>. QED
  BY <1>1, UploadInvariant, PTL

\* No step takes a line out of the buffer that the server does not then have
\* (writer.go:161-191).
THEOREM BufferKeepsLines == Spec => BufferedUntilStored
<1>1. TypeOK /\ [Next]_vars =>
        [\A l \in Lines : l \in InBuff => l \in InBuff' \/ stored'[l] > 0]_vars
  <2>. SUFFICES ASSUME TypeOK, [Next]_vars, NEW l \in Lines, l \in InBuff
                PROVE  l \in InBuff' \/ stored'[l] > 0
    OBVIOUS
  <2>1. CASE buff' = buff
    BY <2>1 DEF InBuff
  <2>2. CASE Receive
    BY <2>2, ReceiveMoves
  <2>3. CASE UploadSucceeds
    <3>1. stored'[l] = stored[l] + 1 /\ stored[l] \in Nat
      BY <2>3, UploadMoves DEF TypeOK, Upload
    <3>. QED
      BY <3>1
  <2>4. ASSUME NEW c \in Clients, Callback(c)
        PROVE  buff' = buff
    BY <2>4, CallbackMoves
  <2>. QED
    BY <2>1, <2>2, <2>3, <2>4, QuietSteps, UploadMoves DEF Quiet
<1>. QED
  BY <1>1, UploadTypeCorrect, PTL DEF Spec, BufferedUntilStored
=============================================================================

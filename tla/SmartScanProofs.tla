--------------------------- MODULE SmartScanProofs ---------------------------
(***************************************************************************)
(* Proofs about SmartScan: that its queue is a heap that holds the ports   *)
(* of the list, each with the best evidence for it, whatever is popped and *)
(* boosted, and that the predictive scan tries what a plain scan would,    *)
(* and nothing else.                                                       *)
(***************************************************************************)
EXTENDS SmartScan, SequenceLemmas

-----------------------------------------------------------------------------
(* Priorities.                                                             *)

Numbered == 0 .. MaxPort
Items == [port : PortType, priority : Nat]

\* The larger of two priorities.
Higher(a, b) == IF b <= a THEN a ELSE b

\* The maximum of a set of numbers that has a bound.
LEMMA MaxFacts ==
  ASSUME NEW T \in SUBSET Nat, T # {}, NEW top \in Nat, \A x \in T : x <= top
  PROVE  /\ Max(T) \in T /\ \A x \in T : x <= Max(T)
         /\ \A y \in T : (\A x \in T : x <= y) => Max(T) = y
<1>. DEFINE B == {b \in Nat : \A x \in T : x <= b}
<1>1. PICK least \in B : \A b \in B : least <= b
  BY LeastNumber
<1>2. least \in T
  <2>. SUFFICES ASSUME least \notin T PROVE FALSE
    OBVIOUS
  <2>1. \A x \in T : x <= least /\ x # least /\ x \in Nat
    OBVIOUS
  <2>2. PICK x \in T : x <= least /\ x # least /\ x \in Nat
    BY <2>1
  <2>3. least \in Nat /\ least > 0
    BY <2>2
  <2>4. least - 1 \in B
    BY <2>1, <2>3
  <2>. QED
    BY <1>1, <2>3, <2>4
<1>3. \E y \in T : \A x \in T : y >= x
  BY <1>2
<1>4. Max(T) \in T /\ \A x \in T : Max(T) >= x
  BY <1>3 DEF Max
<1>. DEFINE most == Max(T)
<1>5. most \in T /\ most \in Nat /\ \A x \in T : x \in Nat /\ most >= x
  BY <1>4
<1>. HIDE DEF most
<1>6. most \in T /\ (\A x \in T : x <= most)
  BY <1>5
<1>7. ASSUME NEW y \in T, \A x \in T : x <= y
      PROVE  most = y
  <2>1. most <= y /\ most >= y /\ y \in Nat
    BY <1>5, <1>7
  <2>. QED
    BY <1>5, <2>1
<1>. QED
  BY <1>6, <1>7 DEF most

\* The maximum of two numbers.
LEMMA HigherIsMax ==
  ASSUME NEW a \in Nat, NEW b \in Nat
  PROVE  Max({a, b}) = Higher(a, b) /\ Higher(a, b) \in Nat
<1>. DEFINE T == {a, b}
<1>1. T \in SUBSET Nat /\ T # {} /\ Higher(a, b) \in T /\ Higher(a, b) \in Nat
      /\ \A x \in T : x <= Higher(a, b)
  BY DEF Higher
<1>. HIDE DEF T
<1>2. Max(T) = Higher(a, b)
  BY <1>1, MaxFacts
<1>. QED
  BY <1>1, <1>2 DEF T

\* A probability is at most Unit, and a popularity a fraction of it.
LEMMA ProbabilityType ==
  ASSUME NEW g, NEW t
  PROVE  Probability(Model, g, t) \in Nat /\ Probability(Model, g, t) <= Unit
<1>. DEFINE corr == GetCorrelations(Model, g)
            P == Probability(Model, g, t)
<1>1. P = IF t \in DOMAIN corr THEN Percent(corr[t]) ELSE 0
  BY DEF Probability
<1>2. corr = IF g \in DOMAIN Model THEN Model[g] ELSE <<>>
  BY DEF GetCorrelations
<1>3. DOMAIN <<>> = {}
  OBVIOUS
<1>4. ASSUME NEW c \in Nat, c <= 100
      PROVE  Percent(c) \in Nat /\ Percent(c) <= Unit
  BY <1>4, SMT DEF Percent, Unit
<1>5. Unit \in Nat /\ 0 <= Unit
  BY SMT DEF Unit
<1>. HIDE DEF corr, P
<1>6. CASE t \in DOMAIN corr
  <2>1. corr[t] \in 0 .. 100
    BY <1>2, <1>3, <1>6, PortQueueAssumption
  <2>2. P \in Nat /\ P <= Unit
    BY <1>1, <1>4, <1>6, <2>1
  <2>. QED
    BY <2>2 DEF P
<1>7. CASE t \notin DOMAIN corr
  <2>1. P \in Nat /\ P <= Unit
    BY <1>1, <1>5, <1>7
  <2>. QED
    BY <2>1 DEF P
<1>. QED
  BY <1>6, <1>7

\* A port has a rank, if only one far behind the list.
LEMMA PopularityType ==
  ASSUME NEW n \in Nat
  PROVE  Popularity(n) \in Nat
<1>1. Rank(n) \in Nat /\ Rank(n) >= 1
  <2>1. CASE Contains(Top1000, n)
    <3>1. Len(Top1000) \in Nat /\ Rank(n) = CHOOSE i \in 1 .. Len(Top1000) : Top1000[i] = n
      BY <2>1, PortSpecAssumption DEF Rank
    <3>2. \E i \in 1 .. Len(Top1000) : Top1000[i] = n
      BY <2>1 DEF Contains
    <3>3. Rank(n) \in 1 .. Len(Top1000)
      BY <3>1, <3>2
    <3>. QED
      BY <3>1, <3>3
  <2>2. CASE ~Contains(Top1000, n)
    BY <2>2 DEF Rank
  <2>. QED
    BY <2>1, <2>2
<1>2. ASSUME NEW r \in Nat, r >= 1 PROVE 1000000000 \div r \in Nat
  BY <1>2, SMT
<1>. QED
  BY <1>1, <1>2, SMT DEF Popularity, Unit

\* The score over a set of open ports, and over one more.
LEMMA ScoreFacts ==
  ASSUME NEW open, NEW o, NEW n
  PROVE  /\ Score(Model, open, n) \in Nat
         /\ Score(Model, open \cup {o}, n)
              = Higher(Score(Model, open, n), Probability(Model, o, n))
<1>. DEFINE P(g) == Probability(Model, g, n)
            T == {0} \cup {P(g) : g \in open}
            U == {0} \cup {P(g) : g \in open \cup {o}}
<1>1. Unit \in Nat /\ \A g : P(g) \in Nat /\ P(g) <= Unit
  <2>1. Unit \in Nat
    BY SMT DEF Unit
  <2>2. ASSUME NEW g PROVE P(g) \in Nat /\ P(g) <= Unit
    BY <2>1, ProbabilityType
  <2>. QED
    BY <2>1, <2>2
<1>2. Score(Model, open, n) = Max(T) /\ Score(Model, open \cup {o}, n) = Max(U)
  BY DEF Score
<1>. HIDE DEF P
<1>3. T \in SUBSET Nat /\ T # {} /\ \A x \in T : x <= Unit
  BY <1>1
<1>4. U \in SUBSET Nat /\ U # {} /\ \A x \in U : x <= Unit
  BY <1>1
<1>5. U = T \cup {P(o)}
  OBVIOUS
<1>. HIDE DEF T, U
<1>6. Max(T) \in T /\ Max(T) \in Nat /\ \A x \in T : x <= Max(T)
  BY <1>1, <1>3, MaxFacts
<1>7. Higher(Max(T), P(o)) \in U /\ \A x \in U : x <= Higher(Max(T), P(o))
  BY <1>1, <1>3, <1>5, <1>6 DEF Higher
<1>8. Max(U) = Higher(Max(T), P(o))
  BY <1>1, <1>4, <1>7, MaxFacts
<1>. QED
  BY <1>2, <1>6, <1>8 DEF P

\* The evidence for a port when one more port is known to be open.
LEMMA PriorityFacts ==
  ASSUME NEW open, NEW o, NEW n \in Nat
  PROVE  /\ InitialPriority(open, n) \in Nat
         /\ InitialPriority(open \cup {o}, n)
              = Higher(InitialPriority(open, n), Probability(Model, o, n))
<1>. DEFINE a == Popularity(n)
            b == Score(Model, open, n)
            c == Score(Model, open \cup {o}, n)
            p == Probability(Model, o, n)
<1>1. a \in Nat /\ b \in Nat /\ p \in Nat /\ c = Higher(b, p)
  BY PopularityType, ScoreFacts, ProbabilityType
<1>2. InitialPriority(open, n) = Max({a, b}) /\ InitialPriority(open \cup {o}, n) = Max({a, c})
  BY DEF InitialPriority
<1>. HIDE DEF a, b, c, p
<1>3. c \in Nat
  BY <1>1 DEF Higher
<1>4. Max({a, b}) = Higher(a, b) /\ Higher(a, b) \in Nat /\ Max({a, c}) = Higher(a, c)
  BY <1>1, <1>3, HigherIsMax
<1>5. Higher(a, c) = Higher(Higher(a, b), p)
  BY <1>1 DEF Higher
<1>. QED
  BY <1>2, <1>4, <1>5 DEF p

-----------------------------------------------------------------------------
(* The order of the heap.                                                  *)

\* Not before y: the negation of Less, on items.
AtMost(x, y) ==
  \/ x.priority < y.priority
  \/ x.priority = y.priority /\ NumberOf(x) >= NumberOf(y)

\* Each of the first m items is at most its parent.
Ordered(items, m) == \A k \in 2 .. m : AtMost(items[k], items[k \div 2])

\* As it is while an item moves up: it may be before its parent, and what is
\* below it is not before that parent.
Rising(items, m, at) ==
  /\ \A k \in 2 .. m : k # at => AtMost(items[k], items[k \div 2])
  /\ \A k \in 2 .. m : k \div 2 = at /\ at >= 2 => AtMost(items[k], items[at \div 2])

\* As it is while one moves down: those below it may be before it.
Sinking(items, m, at) ==
  /\ \A k \in 2 .. m : k \div 2 # at => AtMost(items[k], items[k \div 2])
  /\ \A k \in 2 .. m : k \div 2 = at /\ at >= 2 => AtMost(items[k], items[at \div 2])

\* It is an order of the items, and any two compare.
LEMMA AtMostFacts ==
  /\ \A x \in Items : NumberOf(x) \in Nat /\ x.priority \in Nat /\ AtMost(x, x)
  /\ \A x \in Items, y \in Items : AtMost(x, y) \/ AtMost(y, x)
  /\ \A x \in Items, y \in Items, z \in Items :
       AtMost(x, y) /\ AtMost(y, z) => AtMost(x, z)
<1>1. \A x \in Items : NumberOf(x) \in Nat /\ x.priority \in Nat
  BY PortSpecAssumption DEF Items, PortType, NumberOf
<1>. QED
  BY <1>1 DEF AtMost

\* What Less says of two positions.
LEMMA LessIsNotAtMost ==
  ASSUME NEW s \in Seq(Items), NEW i \in 1 .. Len(s), NEW j \in 1 .. Len(s)
  PROVE  /\ ~Less(s, i, j) <=> AtMost(s[i], s[j])
         /\ Less(s, i, j) => AtMost(s[j], s[i])
<1>1. s[i] \in Items /\ s[j] \in Items
  OBVIOUS
<1>2. /\ NumberOf(s[i]) \in Nat /\ s[i].priority \in Nat
      /\ NumberOf(s[j]) \in Nat /\ s[j].priority \in Nat
  BY <1>1, AtMostFacts
<1>. QED
  BY <1>2 DEF AtMost, Less, NumberOf

\* The first of an ordered heap is not after any other.
LEMMA FirstIsBest ==
  ASSUME NEW s \in Seq(Items), Ordered(s, Len(s)), NEW k \in 1 .. Len(s)
  PROVE  AtMost(s[k], s[1])
<1>. DEFINE T == {i \in 1 .. Len(s) : ~AtMost(s[i], s[1])}
<1>. SUFFICES ASSUME T # {} PROVE FALSE
  OBVIOUS
<1>1. Len(s) \in Nat /\ \A i \in 1 .. Len(s) : s[i] \in Items
  OBVIOUS
<1>2. PICK i \in T : \A j \in T : i <= j
  <2>1. T \in SUBSET Nat
    BY <1>1
  <2>. HIDE DEF T
  <2>. QED
    BY <2>1, LeastNumber
<1>3. i \in 2 .. Len(s)
  <2>1. i # 1
    BY <1>1, AtMostFacts
  <2>. QED
    BY <1>1, <2>1
<1>4. i \div 2 \in 1 .. Len(s) /\ i \div 2 < i
  BY <1>1, <1>3
<1>. DEFINE p == i \div 2
<1>5. p \in 1 .. Len(s) /\ ~(i <= p)
  BY <1>3, <1>4
<1>6. AtMost(s[i], s[p])
  BY <1>3 DEF Ordered
<1>. HIDE DEF p
<1>7. AtMost(s[p], s[1])
  BY <1>2, <1>5
<1>8. s[i] \in Items /\ s[p] \in Items /\ s[1] \in Items
  BY <1>1, <1>3, <1>5
<1>9. AtMost(s[i], s[1])
  BY <1>6, <1>7, <1>8, AtMostFacts
<1>. QED
  BY <1>9

\* Two items change places.
LEMMA SwappedItems ==
  ASSUME NEW s \in Seq(Items)
  PROVE  \A i \in 1 .. Len(s), j \in 1 .. Len(s) :
           /\ Swapped(s, i, j)[i] = s[j] /\ Swapped(s, i, j)[j] = s[i]
           /\ \A k \in (1 .. Len(s)) \ {i, j} : Swapped(s, i, j)[k] = s[k]
<1>. SUFFICES ASSUME NEW i \in 1 .. Len(s), NEW j \in 1 .. Len(s)
     PROVE  /\ Swapped(s, i, j)[i] = s[j] /\ Swapped(s, i, j)[j] = s[i]
            /\ \A k \in (1 .. Len(s)) \ {i, j} : Swapped(s, i, j)[k] = s[k]
  OBVIOUS
<1>. QED
  BY DEF Swapped

\* An item that is before its parent changes places with it.
LEMMA RisingSwap ==
  ASSUME NEW s \in Seq(Items), NEW at \in 2 .. Len(s), Rising(s, Len(s), at),
         Less(s, at, at \div 2)
  PROVE  Rising(Swapped(s, at \div 2, at), Len(s), at \div 2)
<1>. DEFINE m == Len(s)
            p == at \div 2
            t == Swapped(s, p, at)
<1>1. m \in Nat /\ at \in 1 .. m /\ p \in 1 .. m /\ p < at
  OBVIOUS
<1>2. \A k \in 2 .. m : k \div 2 \in 1 .. m /\ k \div 2 < k /\ k \in 1 .. m
  BY <1>1
<1>3. /\ t[p] = s[at] /\ t[at] = s[p]
      /\ \A k \in (1 .. m) \ {p, at} : t[k] = s[k]
      /\ \A k \in 1 .. m : s[k] \in Items
  <2>1. /\ Swapped(s, p, at)[p] = s[at] /\ Swapped(s, p, at)[at] = s[p]
        /\ \A k \in (1 .. Len(s)) \ {p, at} : Swapped(s, p, at)[k] = s[k]
    <3>. HIDE DEF p
    <3>. QED
      BY <1>1, SwappedItems
  <2>. QED
    BY <2>1
<1>4. AtMost(s[p], s[at])
  BY <1>1, LessIsNotAtMost
<1>5. /\ \A k \in 2 .. m : k # at => AtMost(s[k], s[k \div 2])
      /\ \A k \in 2 .. m : k \div 2 = at => AtMost(s[k], s[p])
  BY DEF Rising
<1>6. p = at \div 2
  OBVIOUS
<1>. HIDE DEF t, p, m
<1>7. ASSUME NEW k \in 2 .. m, k # p
      PROVE  AtMost(t[k], t[k \div 2])
  <2>1. CASE k = at
    BY <1>3, <1>4, <1>6, <2>1
  <2>2. CASE k # at /\ k \div 2 = at
    BY <1>2, <1>3, <1>5, <1>7, <2>2
  <2>3. CASE k # at /\ k \div 2 = p
    <3>1. AtMost(s[k], s[p])
      BY <1>5, <2>3
    <3>2. AtMost(s[k], s[at])
      BY <1>1, <1>2, <1>3, <1>4, <3>1, AtMostFacts
    <3>. QED
      BY <1>2, <1>3, <1>7, <2>3, <3>2
  <2>4. CASE k # at /\ k \div 2 \notin {p, at}
    BY <1>2, <1>3, <1>5, <1>7, <2>4
  <2>. QED
    BY <2>1, <2>2, <2>3, <2>4
<1>8. ASSUME NEW k \in 2 .. m, k \div 2 = p, p >= 2
      PROVE  AtMost(t[k], t[p \div 2])
  <2>. DEFINE g == p \div 2
  <2>1. p \in 2 .. m /\ g \in 1 .. m /\ g < p /\ g \notin {p, at} /\ k # p
    BY <1>1, <1>2, <1>8
  <2>2. AtMost(s[p], s[g]) /\ t[g] = s[g]
    BY <1>1, <1>3, <1>5, <2>1
  <2>. HIDE DEF g
  <2>3. CASE k = at
    BY <1>3, <2>2, <2>3 DEF g
  <2>4. CASE k # at
    <3>1. AtMost(s[k], s[p])
      BY <1>5, <1>8, <2>4
    <3>2. AtMost(s[k], s[g])
      BY <1>1, <1>2, <1>3, <2>1, <2>2, <3>1, AtMostFacts
    <3>. QED
      BY <1>2, <1>3, <2>1, <2>2, <2>4, <3>2 DEF g
  <2>. QED
    BY <2>3, <2>4
<1>9. Rising(t, m, p)
  BY <1>7, <1>8 DEF Rising
<1>. QED
  BY <1>9 DEF t, p, m

\* An item changes places with the best of those below it.
LEMMA SinkingSwap ==
  ASSUME NEW s \in Seq(Items), NEW m \in 0 .. Len(s), NEW at \in 1 .. m, NEW c \in 2 .. m,
         Sinking(s, m, at), c \div 2 = at, Less(s, c, at),
         \A k \in 2 .. m : k \div 2 = at => AtMost(s[k], s[c])
  PROVE  Sinking(Swapped(s, at, c), m, c)
<1>. DEFINE t == Swapped(s, at, c)
<1>1. /\ m \in Nat /\ at \in 1 .. m /\ c \in 1 .. m /\ at < c
      /\ at \in 1 .. Len(s) /\ c \in 1 .. Len(s)
  OBVIOUS
<1>2. \A k \in 2 .. m : k \div 2 \in 1 .. m /\ k \div 2 < k /\ k \in 1 .. m
  BY <1>1
<1>3. /\ t[at] = s[c] /\ t[c] = s[at]
      /\ \A k \in (1 .. m) \ {at, c} : t[k] = s[k]
      /\ \A k \in 1 .. m : s[k] \in Items
  <2>1. /\ Swapped(s, at, c)[at] = s[c] /\ Swapped(s, at, c)[c] = s[at]
        /\ \A k \in (1 .. Len(s)) \ {at, c} : Swapped(s, at, c)[k] = s[k]
    BY <1>1, SwappedItems
  <2>2. \A k \in 1 .. m : k \in 1 .. Len(s) /\ s[k] \in Items
    OBVIOUS
  <2>. QED
    BY <1>1, <2>1, <2>2
<1>4. AtMost(s[at], s[c])
  BY <1>1, LessIsNotAtMost
<1>5. /\ \A k \in 2 .. m : k \div 2 # at => AtMost(s[k], s[k \div 2])
      /\ \A k \in 2 .. m : k \div 2 = at /\ at >= 2 => AtMost(s[k], s[at \div 2])
  BY DEF Sinking
<1>. HIDE DEF t
<1>6. ASSUME NEW k \in 2 .. m, k \div 2 # c
      PROVE  AtMost(t[k], t[k \div 2])
  <2>1. CASE k = at
    <3>1. at >= 2 /\ at \div 2 \notin {at, c} /\ at \div 2 \in 1 .. m
      BY <1>1, <1>2, <1>6, <2>1
    <3>2. AtMost(s[c], s[at \div 2])
      BY <1>5, <3>1
    <3>. QED
      BY <1>3, <2>1, <3>1, <3>2
  <2>2. CASE k = c
    BY <1>3, <1>4, <2>2
  <2>3. CASE k \notin {at, c} /\ k \div 2 = at
    BY <1>2, <1>3, <2>3
  <2>4. CASE k \notin {at, c} /\ k \div 2 # at
    BY <1>2, <1>3, <1>5, <1>6, <2>4
  <2>. QED
    BY <2>1, <2>2, <2>3, <2>4
<1>7. ASSUME NEW k \in 2 .. m, k \div 2 = c
      PROVE  AtMost(t[k], t[c \div 2])
  <2>1. k \notin {at, c} /\ k \in 1 .. m /\ k \div 2 # at
    BY <1>1, <1>2, <1>7
  <2>2. AtMost(s[k], s[c])
    BY <1>5, <1>7, <2>1
  <2>. QED
    BY <1>3, <2>1, <2>2
<1>8. Sinking(t, m, c)
  BY <1>6, <1>7 DEF Sinking
<1>. QED
  BY <1>8 DEF t

-----------------------------------------------------------------------------
(* The queue of ports.                                                     *)

Maps  == UNION {[numbers -> Nat] : numbers \in SUBSET Numbered}

\* Where the map leads, there is an item of that number.
Leads(q) ==
  \A n \in DOMAIN q.index :
    q.index[n] \in 1 .. Len(q.items) /\ NumberOf(q.items[q.index[n]]) = n

Queues == {q \in [items : Seq(Items), index : Maps] : Leads(q)}

PortsOf(items) == [i \in 1 .. Len(items) |-> items[i].port]

\* The queue r is q with the first m items in another order.
Alike(q, r, m) ==
  /\ r \in Queues /\ Len(r.items) = Len(q.items)
  /\ \A k \in (m + 1) .. Len(q.items) : r.items[k] = q.items[k]
  /\ \A K : Counted(K, PortsOf(r.items)) = Counted(K, PortsOf(q.items))
  /\ DOMAIN q.index \subseteq DOMAIN r.index

\* The same with the very items, priorities included.
Moved(q, r, m) == Alike(q, r, m) /\ \A K : Counted(K, r.items) = Counted(K, q.items)

LEMMA QueueFacts ==
  ASSUME NEW q \in Queues
  PROVE  /\ q.items \in Seq(Items) /\ Len(q.items) \in Nat
         /\ PortsOf(q.items) \in Seq(PortType) /\ Len(PortsOf(q.items)) = Len(q.items)
         /\ \A i \in 1 .. Len(q.items) :
              /\ q.items[i] \in Items /\ PortsOf(q.items)[i] = q.items[i].port
              /\ q.items[i].port \in PortType /\ NumberOf(q.items[i]) \in Numbered
         /\ DOMAIN q.index \subseteq Numbered /\ q.index \in [DOMAIN q.index -> Nat]
         /\ Leads(q)
<1>1. q.items \in Seq(Items) /\ q.index \in Maps /\ Leads(q)
  BY DEF Queues
<1>2. Len(q.items) \in Nat /\ \A i \in 1 .. Len(q.items) : q.items[i] \in Items
  BY <1>1
<1>3. \A i \in 1 .. Len(q.items) :
        q.items[i].port \in PortType /\ NumberOf(q.items[i]) \in Numbered
  BY <1>2 DEF Items, PortType, NumberOf, Numbered
<1>4. PortsOf(q.items) \in Seq(PortType) /\ Len(PortsOf(q.items)) = Len(q.items)
      /\ \A i \in 1 .. Len(q.items) : PortsOf(q.items)[i] = q.items[i].port
  BY <1>2, <1>3 DEF PortsOf
<1>5. DOMAIN q.index \subseteq Numbered /\ q.index \in [DOMAIN q.index -> Nat]
  BY <1>1 DEF Maps
<1>. QED
  BY <1>1, <1>2, <1>3, <1>4, <1>5

\* A queue is like itself, and what is like one that is like it.
LEMMA AlikeChains ==
  ASSUME NEW q \in Queues, NEW m
  PROVE  /\ Alike(q, q, m) /\ Moved(q, q, m)
         /\ \A r, s : Alike(q, r, m) /\ Alike(r, s, m) => Alike(q, s, m)
         /\ \A r, s : Moved(q, r, m) /\ Moved(r, s, m) => Moved(q, s, m)
BY DEF Alike, Moved

\* portQueue.Swap.
LEMMA SwapKeeps ==
  ASSUME NEW q \in Queues, NEW i \in 1 .. Len(q.items), NEW j \in 1 .. Len(q.items),
         NEW m \in Nat, i <= m, j <= m
  PROVE  /\ Moved(q, Swap(q, i, j), m)
         /\ Swap(q, i, j).items = Swapped(q.items, i, j)
<1>. DEFINE r == Swap(q, i, j)
            a == NumberOf(q.items[j])
            b == NumberOf(q.items[i])
<1>1. /\ q.items \in Seq(Items) /\ Len(q.items) \in Nat
      /\ PortsOf(q.items) \in Seq(PortType) /\ Len(PortsOf(q.items)) = Len(q.items)
      /\ \A k \in 1 .. Len(q.items) : PortsOf(q.items)[k] = q.items[k].port
      /\ a \in Numbered /\ b \in Numbered
      /\ DOMAIN q.index \subseteq Numbered /\ q.index \in [DOMAIN q.index -> Nat]
      /\ Leads(q)
  BY QueueFacts
<1>2. /\ r.items = Swapped(q.items, i, j)
      /\ r = [items |-> r.items, index |-> r.index]
      /\ r.index = Placed(Placed(q.index, r.items[i].port.number, i),
                          r.items[j].port.number, j)
  BY DEF Swap, Swapped
<1>. HIDE DEF r
<1>3. /\ r.items \in Seq(Items) /\ Len(r.items) = Len(q.items)
      /\ r.items[i] = q.items[j] /\ r.items[j] = q.items[i]
      /\ \A k \in (1 .. Len(q.items)) \ {i, j} : r.items[k] = q.items[k]
  <2>. DEFINE s == q.items
  <2>1. s \in Seq(Items) /\ i \in 1 .. Len(s) /\ j \in 1 .. Len(s)
    BY <1>1
  <2>2. r.items = Swapped(s, i, j)
    BY <1>2
  <2>. HIDE DEF s
  <2>3. /\ Swapped(s, i, j) \in Seq(Items) /\ Len(Swapped(s, i, j)) = Len(s)
        /\ Swapped(s, i, j)[i] = s[j] /\ Swapped(s, i, j)[j] = s[i]
        /\ \A k \in (1 .. Len(s)) \ {i, j} : Swapped(s, i, j)[k] = s[k]
    BY <2>1, SwappedType
  <2>. QED
    BY <2>2, <2>3 DEF s
<1>4. r.items[j].port.number = b /\ r.items[i].port.number = a
  BY <1>3 DEF NumberOf
<1>. HIDE DEF a, b
<1>5. /\ DOMAIN r.index = DOMAIN q.index \cup {a, b}
      /\ r.index = [n \in DOMAIN q.index \cup {a, b} |-> r.index[n]]
      /\ r.index[b] = j
      /\ a # b => r.index[a] = i
      /\ \A n \in DOMAIN q.index \ {a, b} : r.index[n] = q.index[n]
  BY <1>2, <1>4 DEF Placed
<1>6. r.index \in Maps
  <2>1. \A n \in DOMAIN r.index : r.index[n] \in Nat
    <3>. SUFFICES ASSUME NEW n \in DOMAIN r.index PROVE r.index[n] \in Nat
      OBVIOUS
    <3>1. n \in DOMAIN q.index => q.index[n] \in Nat
      BY <1>1
    <3>2. i \in Nat /\ j \in Nat
      BY <1>1
    <3>3. n = b \/ (n = a /\ a # b) \/ n \in DOMAIN q.index \ {a, b}
      BY <1>5
    <3>. QED
      BY <1>5, <3>1, <3>2, <3>3
  <2>2. r.index \in [DOMAIN r.index -> Nat]
    BY <1>5, <2>1
  <2>. QED
    BY <1>1, <1>5, <2>2 DEF Maps
<1>7. Leads(r)
  <2>. SUFFICES ASSUME NEW n \in DOMAIN r.index
       PROVE  r.index[n] \in 1 .. Len(r.items) /\ NumberOf(r.items[r.index[n]]) = n
    BY DEF Leads
  <2>1. CASE n \in {a, b}
    BY <1>3, <1>4, <1>5, <2>1 DEF NumberOf
  <2>2. CASE n \notin {a, b}
    <3>1. n \in DOMAIN q.index /\ r.index[n] = q.index[n]
      BY <1>5, <2>2
    <3>2. q.index[n] \in 1 .. Len(q.items) /\ NumberOf(q.items[q.index[n]]) = n
      BY <1>1, <3>1 DEF Leads
    <3>3. q.index[n] \notin {i, j}
      BY <2>2, <3>2 DEF a, b
    <3>. QED
      BY <1>3, <3>1, <3>2, <3>3
  <2>. QED
    BY <2>1, <2>2
<1>8. r \in Queues
  BY <1>2, <1>3, <1>6, <1>7 DEF Queues
<1>9. PortsOf(r.items) = Swapped(PortsOf(q.items), i, j)
  BY <1>1, <1>3 DEF PortsOf, Swapped
<1>10. \A K : Counted(K, PortsOf(r.items)) = Counted(K, PortsOf(q.items))
  BY <1>1, <1>9, CountedSwapped
<1>11. \A k \in (m + 1) .. Len(q.items) : r.items[k] = q.items[k]
  BY <1>1, <1>3
<1>12. \A K : Counted(K, r.items) = Counted(K, q.items)
  BY <1>1, <1>2, CountedSwapped
<1>13. Moved(q, r, m)
  BY <1>3, <1>5, <1>8, <1>10, <1>11, <1>12 DEF Alike, Moved
<1>. QED
  BY <1>2, <1>13 DEF r

\* The states of a sift operation on the first m items of a queue like q, at
\* an item up to the l-th.
Sifts(q, m, l) == {s \in [queue : Queues, at : 1 .. l] : Moved(q, s.queue, m)}

LEMMA ClimbKeeps ==
  ASSUME NEW q \in Queues, NEW m \in Nat, m <= Len(q.items), NEW s \in Sifts(q, m, m)
  PROVE  Climb(s) \in Sifts(q, m, m)
<1>. DEFINE p == s.at \div 2
<1>1. /\ s.queue \in Queues /\ s.at \in 1 .. m /\ Moved(q, s.queue, m)
      /\ Len(s.queue.items) = Len(q.items) /\ Len(q.items) \in Nat
  BY QueueFacts DEF Sifts, Moved, Alike
<1>2. CASE Climb(s) = s
  BY <1>2
<1>3. CASE s.at # 1 /\ Climb(s) = Sift(Swap(s.queue, p, s.at), p)
  <2>1. p \in 1 .. m
    BY <1>1, <1>3
  <2>. HIDE DEF p
  <2>. DEFINE r == Swap(s.queue, p, s.at)
  <2>2. Moved(s.queue, r, m)
    <3>1. p \in 1 .. Len(s.queue.items) /\ s.at \in 1 .. Len(s.queue.items)
          /\ p <= m /\ s.at <= m
      BY <1>1, <2>1
    <3>. QED
      BY <1>1, <3>1, SwapKeeps
  <2>. HIDE DEF r
  <2>3. Moved(q, r, m) /\ r \in Queues
    BY <1>1, <2>2, AlikeChains DEF Moved, Alike
  <2>. QED
    BY <1>3, <2>1, <2>3 DEF Sifts, Sift, r
<1>. QED
  BY <1>2, <1>3 DEF Climb

LEMMA SinkKeeps ==
  ASSUME NEW q \in Queues, NEW m \in Nat, m <= Len(q.items), NEW s \in Sifts(q, m, m + 1)
  PROVE  Sink(s, m) \in Sifts(q, m, m + 1)
<1>1. /\ s.queue \in Queues /\ s.at \in 1 .. (m + 1) /\ Moved(q, s.queue, m)
      /\ Len(s.queue.items) = Len(q.items) /\ Len(q.items) \in Nat
  BY QueueFacts DEF Sifts, Moved, Alike
<1>2. CASE Sink(s, m) = s
  BY <1>2
<1>3. ASSUME NEW c \in 1 .. m, s.at <= m, Sink(s, m) = Sift(Swap(s.queue, s.at, c), c)
      PROVE  Sink(s, m) \in Sifts(q, m, m + 1)
  <2>. DEFINE r == Swap(s.queue, s.at, c)
  <2>1. Moved(s.queue, r, m)
    <3>1. c \in 1 .. Len(s.queue.items) /\ s.at \in 1 .. Len(s.queue.items)
          /\ c <= m /\ s.at <= m
      BY <1>1, <1>3
    <3>. QED
      BY <1>1, <3>1, SwapKeeps
  <2>. HIDE DEF r
  <2>2. Moved(q, r, m) /\ r \in Queues
    BY <1>1, <2>1, AlikeChains DEF Moved, Alike
  <2>. QED
    <3>1. c \in 1 .. (m + 1)
      OBVIOUS
    <3>. QED
      BY <1>3, <2>2, <3>1 DEF Sifts, Sift, r
<1>4. \/ Sink(s, m) = s
      \/ s.at <= m /\ \E c \in 1 .. m : Sink(s, m) = Sift(Swap(s.queue, s.at, c), c)
  <2>. DEFINE left  == 2 * s.at
              child == IF left + 1 <= m /\ Less(s.queue.items, left + 1, left)
                       THEN left + 1 ELSE left
  <2>1. left \in Nat /\ left >= 1 /\ (left <= m => s.at <= m)
    BY <1>1
  <2>2. left <= m => child \in 1 .. m
    BY <2>1
  <2>3. Sink(s, m) = IF left > m \/ ~Less(s.queue.items, child, s.at) THEN s
                     ELSE Sift(Swap(s.queue, s.at, child), child)
    BY DEF Sink
  <2>. HIDE DEF left, child
  <2>. QED
    BY <2>1, <2>2, <2>3
<1>. QED
  BY <1>2, <1>3, <1>4

\* The rounds of up and of down in container/heap.
LEMMA UpRounds ==
  ASSUME NEW q \in Queues, NEW j \in 1 .. Len(q.items)
  PROVE  \E f : /\ f[0] = Sift(q, j) /\ \A k \in 1 .. j : f[k] = Climb(f[k - 1])
                /\ \A k \in 0 .. j : f[k] \in Sifts(q, Len(q.items), Len(q.items))
                /\ Up(q, j) = f[j].queue
<1>. DEFINE m == Len(q.items)
            S == Sifts(q, m, m)
            all == [k \in 0 .. j |-> S]
            step == [k \in 1 .. j |-> [s \in S |-> Climb(s)]]
            Round(f) == [k \in 0 .. j |-> IF k = 0 THEN Sift(q, j) ELSE Climb(f[k - 1])]
            rounds == CHOOSE f : f = Round(f)
<1>1. m \in Nat /\ j \in Nat
  BY QueueFacts
<1>2. Sift(q, j) \in S
  BY <1>1, AlikeChains DEF Sifts, Sift
<1>3. \A s \in S : Climb(s) \in S
  BY <1>1, ClimbKeeps
<1>. HIDE DEF S
<1>4. /\ Sift(q, j) \in all[0]
      /\ \A k \in 1 .. j : k - 1 \in 0 .. j /\ k \in 0 .. j
      /\ \A k \in 1 .. j : \A s \in all[k - 1] : step[k][s] \in all[k]
  BY <1>1, <1>2, <1>3
<1>5. PICK f : Repeats(f, j, Sift(q, j), step) /\ \A k \in 0 .. j : f[k] \in all[k]
  <2>. HIDE DEF all, step
  <2>. QED
    BY <1>1, <1>4, RepeatsWithin
<1>6. f = Round(f)
  <2>1. \A k \in 0 .. j : f[k] \in S
    BY <1>5
  <2>2. \A k \in 1 .. j : step[k][f[k - 1]] = Climb(f[k - 1])
    BY <1>4, <2>1
  <2>3. f = [k \in 0 .. j |-> IF k = 0 THEN Sift(q, j) ELSE step[k][f[k - 1]]]
    BY <1>5 DEF Repeats
  <2>4. \A k \in 0 .. j : k # 0 => k \in 1 .. j
    BY <1>1
  <2>. HIDE DEF step
  <2>. QED
    BY <2>2, <2>3, <2>4
<1>7. rounds = Round(rounds)
  BY <1>6
<1>8. Up(q, j) = rounds[j].queue
  BY DEF Up
<1>. HIDE DEF rounds
<1>9. rounds[0] = Sift(q, j) /\ \A k \in 1 .. j : rounds[k] = Climb(rounds[k - 1])
  <2>. DEFINE g == Round(rounds)
  <2>1. g[0] = Sift(q, j) /\ \A k \in 1 .. j : g[k] = Climb(rounds[k - 1])
    BY <1>1
  <2>. HIDE DEF g
  <2>2. rounds = g
    BY <1>7 DEF g
  <2>. QED
    BY <2>1, <2>2
<1>10. \A k \in 0 .. j : rounds[k] \in all[k]
  <2>1. rounds[0] \in all[0]
    BY <1>4, <1>9
  <2>2. \A k \in 1 .. j : rounds[k - 1] \in all[k - 1] => rounds[k] \in all[k]
    BY <1>3, <1>4, <1>9
  <2>. HIDE DEF all
  <2>. QED
    BY <1>1, <2>1, <2>2, StaysWithin
<1>. QED
  BY <1>8, <1>9, <1>10 DEF S

LEMMA DownRounds ==
  ASSUME NEW q \in Queues, NEW m \in Nat, m <= Len(q.items), NEW j \in 1 .. (m + 1)
  PROVE  \E f : /\ f[0] = Sift(q, j) /\ \A k \in 1 .. m : f[k] = Sink(f[k - 1], m)
                /\ \A k \in 0 .. m : f[k] \in Sifts(q, m, m + 1)
                /\ Down(q, j, m) = f[m].queue
<1>. DEFINE S == Sifts(q, m, m + 1)
            all == [k \in 0 .. m |-> S]
            step == [k \in 1 .. m |-> [s \in S |-> Sink(s, m)]]
            Round(f) == [k \in 0 .. m |-> IF k = 0 THEN Sift(q, j) ELSE Sink(f[k - 1], m)]
            rounds == CHOOSE f : f = Round(f)
<1>1. m \in Nat /\ j \in Nat
  BY QueueFacts
<1>2. Sift(q, j) \in S
  BY <1>1, AlikeChains DEF Sifts, Sift
<1>3. \A s \in S : Sink(s, m) \in S
  BY <1>1, SinkKeeps
<1>. HIDE DEF S
<1>4. /\ Sift(q, j) \in all[0]
      /\ \A k \in 1 .. m : k - 1 \in 0 .. m /\ k \in 0 .. m
      /\ \A k \in 1 .. m : \A s \in all[k - 1] : step[k][s] \in all[k]
  BY <1>1, <1>2, <1>3
<1>5. PICK f : Repeats(f, m, Sift(q, j), step) /\ \A k \in 0 .. m : f[k] \in all[k]
  <2>. HIDE DEF all, step
  <2>. QED
    BY <1>1, <1>4, RepeatsWithin
<1>6. f = Round(f)
  <2>1. \A k \in 0 .. m : f[k] \in S
    BY <1>5
  <2>2. \A k \in 1 .. m : step[k][f[k - 1]] = Sink(f[k - 1], m)
    BY <1>4, <2>1
  <2>3. f = [k \in 0 .. m |-> IF k = 0 THEN Sift(q, j) ELSE step[k][f[k - 1]]]
    BY <1>5 DEF Repeats
  <2>4. \A k \in 0 .. m : k # 0 => k \in 1 .. m
    BY <1>1
  <2>. HIDE DEF step
  <2>. QED
    BY <2>2, <2>3, <2>4
<1>7. rounds = Round(rounds)
  BY <1>6
<1>8. Down(q, j, m) = rounds[m].queue
  BY DEF Down
<1>. HIDE DEF rounds
<1>9. rounds[0] = Sift(q, j) /\ \A k \in 1 .. m : rounds[k] = Sink(rounds[k - 1], m)
  <2>. DEFINE g == Round(rounds)
  <2>1. g[0] = Sift(q, j) /\ \A k \in 1 .. m : g[k] = Sink(rounds[k - 1], m)
    BY <1>1
  <2>. HIDE DEF g
  <2>2. rounds = g
    BY <1>7 DEF g
  <2>. QED
    BY <2>1, <2>2
<1>10. \A k \in 0 .. m : rounds[k] \in all[k]
  <2>1. rounds[0] \in all[0]
    BY <1>4, <1>9
  <2>2. \A k \in 1 .. m : rounds[k - 1] \in all[k - 1] => rounds[k] \in all[k]
    BY <1>3, <1>4, <1>9
  <2>. HIDE DEF all
  <2>. QED
    BY <1>1, <2>1, <2>2, StaysWithin
<1>. QED
  BY <1>8, <1>9, <1>10 DEF S

\* A round of up makes the queue ordered, or takes the item further up.
LEMMA ClimbRises ==
  ASSUME NEW q \in Queues, NEW s \in Sifts(q, Len(q.items), Len(q.items)),
         Rising(s.queue.items, Len(q.items), s.at)
  PROVE  /\ Rising(Climb(s).queue.items, Len(q.items), Climb(s).at)
         /\ Climb(s) = s => Ordered(s.queue.items, Len(q.items))
         /\ Climb(s) = s \/ Climb(s).at < s.at
<1>. DEFINE m == Len(q.items)
            t == s.queue.items
            p == s.at \div 2
<1>1. /\ s.queue \in Queues /\ s.at \in 1 .. m /\ m \in Nat
      /\ t \in Seq(Items) /\ Len(t) = m
  BY QueueFacts DEF Sifts, Moved, Alike
<1>2. CASE s.at = 1
  <2>1. Climb(s) = s
    BY <1>2 DEF Climb
  <2>2. \A k \in 2 .. m : k # 1
    OBVIOUS
  <2>. QED
    BY <1>2, <2>1, <2>2 DEF Rising, Ordered
<1>3. CASE s.at # 1 /\ ~Less(t, s.at, p)
  <2>1. Climb(s) = s
    BY <1>3 DEF Climb
  <2>2. s.at \in 1 .. Len(t) /\ p \in 1 .. Len(t)
    BY <1>1, <1>3
  <2>3. AtMost(t[s.at], t[p])
    <3>. HIDE DEF p
    <3>. QED
      BY <1>1, <1>3, <2>2, LessIsNotAtMost
  <2>. QED
    BY <2>1, <2>3 DEF Rising, Ordered
<1>4. CASE s.at # 1 /\ Less(t, s.at, p)
  <2>1. Climb(s) = Sift(Swap(s.queue, p, s.at), p)
    BY <1>4 DEF Climb
  <2>2. s.at \in 2 .. Len(t) /\ p \in 1 .. Len(t) /\ s.at \in 1 .. Len(t) /\ p < s.at
    BY <1>1, <1>4
  <2>3. Swap(s.queue, p, s.at).items = Swapped(t, p, s.at)
    BY DEF Swap, Swapped
  <2>4. Rising(Swapped(t, p, s.at), m, p)
    <3>. DEFINE at == s.at
    <3>1. /\ at \in 2 .. Len(t) /\ Rising(t, Len(t), at) /\ Less(t, at, at \div 2)
          /\ t \in Seq(Items) /\ Len(t) = m
      BY <1>1, <1>4, <2>2
    <3>. HIDE DEF at, t, m
    <3>2. Rising(Swapped(t, at \div 2, at), Len(t), at \div 2)
      BY <3>1, RisingSwap
    <3>. QED
      BY <3>1, <3>2 DEF at
  <2>. QED
    BY <2>1, <2>2, <2>3, <2>4 DEF Sift
<1>. QED
  BY <1>2, <1>3, <1>4

\* up, on its own, and where all is ordered but the item that it moves.
LEMMA UpKeeps ==
  ASSUME NEW q \in Queues, NEW j \in 1 .. Len(q.items)
  PROVE  /\ Moved(q, Up(q, j), Len(q.items))
         /\ Rising(q.items, Len(q.items), j) => Ordered(Up(q, j).items, Len(q.items))
<1>. DEFINE m == Len(q.items)
            S == Sifts(q, m, m)
            all == [k \in 0 .. j |->
                      {s \in S : /\ Rising(s.queue.items, m, s.at)
                                 /\ Climb(s) = s \/ s.at <= j - k}]
<1>1. m \in Nat /\ j \in Nat
  BY QueueFacts
<1>2. PICK f : /\ f[0] = Sift(q, j) /\ \A k \in 1 .. j : f[k] = Climb(f[k - 1])
               /\ \A k \in 0 .. j : f[k] \in S
               /\ Up(q, j) = f[j].queue
  BY UpRounds
<1>3. f[j] \in S
  BY <1>1, <1>2
<1>4. Moved(q, f[j].queue, m) /\ f[j].at \in 1 .. m
  BY <1>3 DEF Sifts
<1>5. ASSUME Rising(q.items, m, j)
      PROVE  Ordered(f[j].queue.items, m)
  <2>1. f[0] \in all[0]
    BY <1>1, <1>2, <1>5 DEF Sift
  <2>2. ASSUME NEW k \in 1 .. j, f[k - 1] \in all[k - 1]
        PROVE  f[k] \in all[k]
    <3>. DEFINE s == f[k - 1]
    <3>1. k - 1 \in 0 .. j /\ k \in 0 .. j
      BY <1>1
    <3>2. s \in S /\ Rising(s.queue.items, m, s.at) /\ (Climb(s) = s \/ s.at <= j - (k - 1))
      BY <2>2, <3>1
    <3>3. f[k] = Climb(s) /\ f[k] \in S
      BY <1>2, <3>1
    <3>4. /\ Rising(f[k].queue.items, m, f[k].at)
          /\ Climb(s) = s \/ f[k].at < s.at
      BY <3>2, <3>3, ClimbRises
    <3>5. s.at \in Nat /\ f[k].at \in Nat
      BY <1>1, <3>2, <3>3 DEF Sifts
    <3>6. Climb(f[k]) = f[k] \/ f[k].at <= j - k
      BY <1>1, <3>2, <3>3, <3>4, <3>5
    <3>. QED
      BY <3>1, <3>3, <3>4, <3>6
  <2>3. \A k \in 0 .. j : f[k] \in all[k]
    <3>. HIDE DEF all
    <3>. QED
      BY <1>1, <2>1, <2>2, StaysWithin
  <2>4. f[j] \in all[j] /\ j \in 0 .. j
    BY <1>1, <2>3
  <2>5. Climb(f[j]) = f[j] /\ Rising(f[j].queue.items, m, f[j].at)
    BY <1>1, <1>4, <2>4
  <2>. QED
    BY <1>3, <2>5, ClimbRises
<1>. QED
  BY <1>2, <1>4, <1>5

\* A round of down leaves the queue ordered, or takes the item further down.
LEMMA SinkSinks ==
  ASSUME NEW q \in Queues, NEW m \in Nat, m <= Len(q.items), NEW s \in Sifts(q, m, m + 1),
         Sinking(s.queue.items, m, s.at)
  PROVE  /\ Sinking(Sink(s, m).queue.items, m, Sink(s, m).at)
         /\ Sink(s, m) = s => Ordered(s.queue.items, m)
         /\ Sink(s, m) = s \/ (Sink(s, m).at > s.at /\ s.at <= m)
<1>. DEFINE t == s.queue.items
            at == s.at
            left  == 2 * at
            child == IF left + 1 <= m /\ Less(t, left + 1, left) THEN left + 1 ELSE left
<1>1. /\ s.queue \in Queues /\ at \in 1 .. (m + 1) /\ Len(q.items) \in Nat
      /\ t \in Seq(Items) /\ Len(t) = Len(q.items) /\ m \in 0 .. Len(t)
  BY QueueFacts DEF Sifts, Moved, Alike
<1>2. \A k \in 2 .. m : k \div 2 = at => k = left \/ k = left + 1
  <2>. SUFFICES ASSUME NEW k \in 2 .. m, k \div 2 = at
                PROVE  k = left \/ k = left + 1
    OBVIOUS
  <2>1. k \in Int /\ 2 * (k \div 2) <= k /\ k < 2 * (k \div 2) + 2 /\ at \in Int
    BY <1>1
  <2>. QED
    BY <2>1
<1>3. Sink(s, m) = IF left > m \/ ~Less(t, child, at) THEN s
                   ELSE Sift(Swap(s.queue, at, child), child)
  BY DEF Sink
<1>4. CASE left > m
  <2>1. \A k \in 2 .. m : k \div 2 # at
    BY <1>1, <1>2, <1>4
  <2>2. Ordered(t, m)
    BY <2>1 DEF Sinking, Ordered
  <2>. QED
    BY <1>3, <1>4, <2>2
<1>5. ASSUME left <= m
      PROVE  /\ at \in 1 .. m /\ child \in 2 .. m /\ child \div 2 = at
             /\ \A k \in 2 .. m : k \div 2 = at => AtMost(t[k], t[child])
  <2>1. at \in 1 .. m /\ child \in 2 .. m /\ child \div 2 = at
    <3>1. at \in Nat /\ at >= 1 /\ m \in Nat /\ 2 * at <= m
      BY <1>1, <1>5
    <3>2. child = 2 * at \/ (child = 2 * at + 1 /\ 2 * at + 1 <= m)
      OBVIOUS
    <3>3. (2 * at) \div 2 = at /\ (2 * at + 1) \div 2 = at
      BY <3>1
    <3>. HIDE DEF child, at, left
    <3>. QED
      BY <3>1, <3>2, <3>3
  <2>2. ASSUME NEW k \in 2 .. m, k \div 2 = at
        PROVE  AtMost(t[k], t[child])
    <3>1. left \in Nat /\ left >= 1
      BY <1>1
    <3>2. left \in 1 .. Len(t) /\ t[left] \in Items
      <4>. HIDE DEF left, t
      <4>. QED
        BY <1>1, <1>5, <3>1
    <3>3. left + 1 <= m => left + 1 \in 1 .. Len(t) /\ t[left + 1] \in Items
      <4>. HIDE DEF left, t
      <4>. QED
        BY <1>1, <1>5, <3>1
    <3>4. AtMost(t[left], t[left]) /\ (left + 1 <= m => AtMost(t[left + 1], t[left + 1]))
      BY <3>2, <3>3, AtMostFacts
    <3>5. left + 1 <= m => /\ Less(t, left + 1, left) => AtMost(t[left], t[left + 1])
                           /\ ~Less(t, left + 1, left) => AtMost(t[left + 1], t[left])
      <4>. HIDE DEF left
      <4>. QED
        BY <1>1, <3>2, <3>3, LessIsNotAtMost
    <3>6. k = left \/ (k = left + 1 /\ left + 1 <= m)
      BY <1>1, <1>2, <2>2
    <3>. QED
      BY <3>4, <3>5, <3>6
  <2>. QED
    BY <2>1, <2>2
<1>. HIDE DEF child, left, t, at
<1>6. CASE left <= m /\ ~Less(t, child, at)
  <2>1. child \in 1 .. Len(t) /\ at \in 1 .. Len(t)
    BY <1>1, <1>5, <1>6
  <2>2. AtMost(t[child], t[at])
    BY <1>1, <1>6, <2>1, LessIsNotAtMost
  <2>3. ASSUME NEW k \in 2 .. m, k \div 2 = at
        PROVE  AtMost(t[k], t[at])
    <3>1. AtMost(t[k], t[child])
      BY <1>5, <1>6, <2>3
    <3>2. t[k] \in Items /\ t[child] \in Items /\ t[at] \in Items
      BY <1>1, <2>1
    <3>. QED
      BY <2>2, <3>1, <3>2, AtMostFacts
  <2>4. Ordered(t, m)
    BY <2>3 DEF Sinking, Ordered, t, at
  <2>5. Sink(s, m) = s
    BY <1>3, <1>6
  <2>. QED
    BY <2>4, <2>5 DEF t
<1>7. CASE left <= m /\ Less(t, child, at)
  <2>1. Sink(s, m) = Sift(Swap(s.queue, at, child), child)
    <3>1. ~(left > m)
      BY <1>1, <1>7 DEF left
    <3>. QED
      BY <1>3, <1>7, <3>1
  <2>2. Swap(s.queue, at, child).items = Swapped(t, at, child)
    BY DEF Swap, Swapped, t
  <2>3. Sinking(t, m, at)
    BY DEF t, at
  <2>4. Sinking(Swapped(t, at, child), m, child)
    BY <1>1, <1>5, <1>7, <2>3, SinkingSwap
  <2>5. child > at /\ at <= m
    BY <1>1, <1>5, <1>7
  <2>6. /\ Sinking(Sink(s, m).queue.items, m, Sink(s, m).at)
        /\ Sink(s, m).at > s.at /\ s.at <= m /\ Sink(s, m).at = child
    BY <2>1, <2>2, <2>4, <2>5 DEF Sift, at
  <2>7. Sink(s, m) # s
    BY <1>1, <2>6 DEF at
  <2>. QED
    BY <2>6, <2>7
<1>8. left <= m \/ left > m
  BY <1>1 DEF left
<1>. QED
  BY <1>4, <1>6, <1>7, <1>8 DEF at

\* down, on its own, and where all is ordered but what is below the item.
LEMMA DownKeeps ==
  ASSUME NEW q \in Queues, NEW m \in Nat, m <= Len(q.items), NEW j \in 1 .. (m + 1)
  PROVE  /\ Moved(q, Down(q, j, m), m)
         /\ Sinking(q.items, m, j) => Ordered(Down(q, j, m).items, m)
         /\ Sink(Sift(q, j), m) = Sift(q, j) => Down(q, j, m) = q
<1>. DEFINE S == Sifts(q, m, m + 1)
            all == [k \in 0 .. m |->
                      {s \in S : /\ Sinking(s.queue.items, m, s.at)
                                 /\ Sink(s, m) = s \/ s.at >= j + k}]
            same == [k \in 0 .. m |-> {Sift(q, j)}]
<1>1. PICK f : /\ f[0] = Sift(q, j) /\ \A k \in 1 .. m : f[k] = Sink(f[k - 1], m)
               /\ \A k \in 0 .. m : f[k] \in S
               /\ Down(q, j, m) = f[m].queue
  BY DownRounds
<1>2. f[m] \in S
  BY <1>1
<1>3. Moved(q, f[m].queue, m) /\ f[m].at \in 1 .. (m + 1)
  BY <1>2 DEF Sifts
<1>4. ASSUME Sinking(q.items, m, j)
      PROVE  Ordered(f[m].queue.items, m)
  <2>1. f[0] \in all[0]
    BY <1>1, <1>4 DEF Sift
  <2>2. ASSUME NEW k \in 1 .. m, f[k - 1] \in all[k - 1]
        PROVE  f[k] \in all[k]
    <3>. DEFINE s == f[k - 1]
    <3>1. k - 1 \in 0 .. m /\ k \in 0 .. m
      OBVIOUS
    <3>2. s \in S /\ Sinking(s.queue.items, m, s.at)
          /\ (Sink(s, m) = s \/ s.at >= j + (k - 1))
      BY <2>2, <3>1
    <3>3. f[k] = Sink(s, m) /\ f[k] \in S
      BY <1>1, <3>1
    <3>4. /\ Sinking(f[k].queue.items, m, f[k].at)
          /\ Sink(s, m) = s \/ f[k].at > s.at
      BY <3>2, <3>3, SinkSinks
    <3>5. s.at \in Nat /\ f[k].at \in Nat
      BY <3>2, <3>3 DEF Sifts
    <3>6. Sink(f[k], m) = f[k] \/ f[k].at >= j + k
      BY <3>2, <3>3, <3>4, <3>5
    <3>. QED
      BY <3>1, <3>3, <3>4, <3>6
  <2>3. \A k \in 0 .. m : f[k] \in all[k]
    <3>. HIDE DEF all
    <3>. QED
      BY <2>1, <2>2, StaysWithin
  <2>4. f[m] \in all[m]
    BY <2>3
  <2>5. /\ Sinking(f[m].queue.items, m, f[m].at)
        /\ Sink(f[m], m) = f[m] \/ f[m].at >= j + m
    BY <2>4
  <2>6. /\ Sink(f[m], m) = f[m] => Ordered(f[m].queue.items, m)
        /\ Sink(f[m], m) = f[m] \/ f[m].at <= m
    BY <1>2, <2>5, SinkSinks
  <2>. QED
    BY <1>3, <2>5, <2>6
<1>5. ASSUME Sink(Sift(q, j), m) = Sift(q, j)
      PROVE  f[m].queue = q
  <2>1. f[0] \in same[0]
    BY <1>1
  <2>2. \A k \in 1 .. m : f[k - 1] \in same[k - 1] => f[k] \in same[k]
    <3>1. \A k \in 1 .. m : k - 1 \in 0 .. m /\ k \in 0 .. m
      OBVIOUS
    <3>. QED
      BY <1>1, <1>5, <3>1
  <2>3. \A k \in 0 .. m : f[k] \in same[k]
    <3>. HIDE DEF same
    <3>. QED
      BY <2>1, <2>2, StaysWithin
  <2>4. f[m] = Sift(q, j)
    BY <2>3
  <2>. QED
    BY <2>4 DEF Sift
<1>. QED
  BY <1>1, <1>3, <1>4, <1>5

-----------------------------------------------------------------------------
(* The operations of the queue.                                            *)

\* The queues that the scan sees.
Heaps == {q \in Queues : Ordered(q.items, Len(q.items))}

\* Every item of the number n has the priority v; and there is one at most.
Holds(q, n, v) ==
  \A k \in 1 .. Len(q.items) : NumberOf(q.items[k]) = n => q.items[k].priority = v
NumberIs(n) == {p \in PortType : p.number = n}
Single(q, n) == Counted(NumberIs(n), PortsOf(q.items)) <= 1

\* A heap is a queue that is ordered.
LEMMA HeapFacts ==
  ASSUME NEW q \in Heaps
  PROVE  q \in Queues /\ Ordered(q.items, Len(q.items))
BY DEF Heaps

\* Items that move take their priorities along.
LEMMA MovedHolds ==
  ASSUME NEW q \in Queues, NEW r, NEW m, Moved(q, r, m), NEW n, NEW v, Holds(q, n, v)
  PROVE  Holds(r, n, v)
<1>. DEFINE K == {x \in Items : NumberOf(x) = n /\ x.priority # v}
<1>1. /\ r \in Queues /\ q.items \in Seq(Items) /\ r.items \in Seq(Items)
      /\ Counted(K, r.items) = Counted(K, q.items)
      /\ \A k \in 1 .. Len(r.items) : r.items[k] \in Items
  BY QueueFacts DEF Moved, Alike
<1>2. \A k \in 1 .. Len(q.items) : q.items[k] \notin K
  BY DEF Holds
<1>. HIDE DEF K
<1>3. Counted(K, q.items) = 0
  BY <1>1, <1>2, CountedType
<1>4. \A k \in 1 .. Len(r.items) : r.items[k] \notin K
  BY <1>1, <1>3, CountedType
<1>. QED
  BY <1>1, <1>4 DEF Holds, K

\* A queue with the item of position i raised to the priority p, and fixed.
LEMMA RaiseKeeps ==
  ASSUME NEW q \in Heaps, NEW i \in 1 .. Len(q.items), NEW p \in Nat,
         q.items[i].priority < p
  PROVE  LET r == Raise(q, i, p)
             t == NumberOf(q.items[i])
         IN  /\ r \in Heaps /\ Alike(q, r, Len(q.items))
             /\ \A n, v : n # t /\ Holds(q, n, v) => Holds(r, n, v)
             /\ Single(q, t) => Holds(r, t, p)
<1>. DEFINE m == Len(q.items)
            r == [q EXCEPT !.items[i].priority = p]
<1>1. /\ q.items \in Seq(Items) /\ m \in Nat /\ q.index \in Maps /\ Leads(q)
      /\ q = [items |-> q.items, index |-> q.index]
      /\ \A k \in 1 .. m : q.items[k] \in Items
  BY HeapFacts, QueueFacts DEF Queues
<1>2. /\ r = [items |-> r.items, index |-> q.index]
      /\ r.items = [q.items EXCEPT ![i].priority = p]
  <2>1. q = [items |-> q.items, index |-> q.index]
    BY <1>1
  <2>2. \A a, b : LET q2 == [items |-> a, index |-> b]
                 IN  [q2 EXCEPT !.items[i].priority = p]
                       = [items |-> [a EXCEPT ![i].priority = p], index |-> b]
    OBVIOUS
  <2>3. r = [items |-> [q.items EXCEPT ![i].priority = p], index |-> q.index]
    BY <2>1, <2>2
  <2>. HIDE DEF r
  <2>. QED
    BY <2>3
<1>3. /\ r.items \in Seq(Items) /\ Len(r.items) = m
      /\ \A k \in 1 .. m : r.items[k].port = q.items[k].port
      /\ r.items[i].priority = p
      /\ \A k \in (1 .. m) \ {i} : r.items[k] = q.items[k]
  <2>. DEFINE s == q.items
              t == [s EXCEPT ![i].priority = p]
  <2>1. s \in Seq(Items) /\ Len(s) = m /\ i \in 1 .. Len(s)
    BY <1>1
  <2>2. [s[i] EXCEPT !.priority = p] \in Items /\ [s[i] EXCEPT !.priority = p].port = s[i].port
        /\ [s[i] EXCEPT !.priority = p].priority = p
    BY <1>1 DEF Items
  <2>3. r.items = t
    BY <1>2
  <2>. HIDE DEF s, r
  <2>4. /\ t \in Seq(Items) /\ Len(t) = Len(s) /\ \A k \in 1 .. Len(s) : t[k].port = s[k].port
        /\ t[i].priority = p /\ \A k \in (1 .. Len(s)) \ {i} : t[k] = s[k]
    BY <2>1, <2>2
  <2>. QED
    BY <2>1, <2>3, <2>4 DEF s
<1>. HIDE DEF r
<1>4. Leads(r)
  BY <1>1, <1>2, <1>3 DEF Leads, NumberOf
<1>5. r \in Queues
  <2>1. r.items \in Seq(Items) /\ q.index \in Maps
    BY <1>1, <1>3
  <2>2. [items |-> r.items, index |-> q.index] \in [items : Seq(Items), index : Maps]
    BY <2>1
  <2>3. r \in [items : Seq(Items), index : Maps]
    BY <1>2, <2>2
  <2>. QED
    BY <1>4, <2>3 DEF Queues
<1>6. PortsOf(r.items) = PortsOf(q.items)
  BY <1>3 DEF PortsOf
<1>7. Alike(q, r, m)
  BY <1>1, <1>2, <1>3, <1>5, <1>6 DEF Alike
<1>8. /\ i \in 1 .. (m + 1) /\ i \in 1 .. m /\ i \in 1 .. Len(r.items)
      /\ m <= Len(r.items) /\ Len(r.items) = m
      /\ \A k \in 2 .. m : k \in 1 .. m /\ k \div 2 \in 1 .. m /\ k \div 2 < k
  BY <1>1, <1>3
<1>9. /\ Ordered(q.items, m) /\ \A k \in 1 .. m : r.items[k] \in Items
      /\ NumberOf(r.items[i]) = NumberOf(q.items[i]) /\ NumberOf(q.items[i]) \in Nat
      /\ r.items[i].priority = p /\ q.items[i].priority \in Nat
  BY <1>1, <1>3, <1>8, HeapFacts, AtMostFacts DEF NumberOf
<1>10. AtMost(q.items[i], r.items[i])
  BY <1>9 DEF AtMost
<1>11. \A k \in 2 .. m : k \div 2 = i =>
         AtMost(q.items[k], q.items[i]) /\ AtMost(r.items[k], r.items[i])
  <2>. SUFFICES ASSUME NEW k \in 2 .. m, k \div 2 = i
       PROVE  AtMost(q.items[k], q.items[i]) /\ AtMost(r.items[k], r.items[i])
    OBVIOUS
  <2>1. k # i /\ r.items[k] = q.items[k] /\ k \in 1 .. m
    BY <1>3, <1>8
  <2>2. AtMost(q.items[k], q.items[i])
    BY <1>9 DEF Ordered
  <2>3. AtMost(q.items[k], r.items[i])
    BY <1>1, <1>8, <1>9, <1>10, <2>1, <2>2, AtMostFacts
  <2>. QED
    BY <2>1, <2>2, <2>3
<1>12. Rising(r.items, m, i)
  <2>1. ASSUME NEW k \in 2 .. m, k # i
        PROVE  AtMost(r.items[k], r.items[k \div 2])
    <3>1. CASE k \div 2 = i
      BY <1>11, <3>1
    <3>2. CASE k \div 2 # i
      BY <1>3, <1>8, <1>9, <2>1, <3>2 DEF Ordered
    <3>. QED
      BY <3>1, <3>2
  <2>2. ASSUME NEW k \in 2 .. m, k \div 2 = i, i >= 2
        PROVE  AtMost(r.items[k], r.items[i \div 2])
    <3>. DEFINE g == i \div 2
    <3>1. i \in 2 .. m /\ g \in 1 .. m /\ g # i /\ k # i /\ k \in 1 .. m
      BY <1>1, <1>8, <2>2
    <3>2. AtMost(q.items[k], q.items[i]) /\ AtMost(q.items[i], q.items[g])
      BY <1>9, <1>11, <2>2, <3>1 DEF Ordered
    <3>. HIDE DEF g
    <3>3. AtMost(q.items[k], q.items[g])
      <4>1. q.items[k] \in Items /\ q.items[i] \in Items /\ q.items[g] \in Items
        BY <1>1, <1>8, <3>1
      <4>. QED
        BY <3>2, <4>1, AtMostFacts
    <3>4. AtMost(r.items[k], r.items[g])
      BY <1>3, <3>1, <3>3
    <3>. QED
      BY <3>4 DEF g
  <2>. QED
    BY <2>1, <2>2 DEF Rising
<1>13. Down(r, i, m) = r
  <2>. DEFINE s == r.items
              left  == 2 * i
              child == IF left + 1 <= m /\ Less(s, left + 1, left) THEN left + 1 ELSE left
  <2>1. Sink(Sift(r, i), m) = IF left > m \/ ~Less(s, child, i) THEN Sift(r, i)
                              ELSE Sift(Swap(r, i, child), child)
    BY DEF Sink, Sift
  <2>2. left \in Nat /\ (~(left > m) => child \in 2 .. m /\ child \div 2 = i)
    <3>1. i \in Nat /\ i >= 1 /\ m \in Nat
      BY <1>1
    <3>2. left \in Nat /\ left >= 2 /\ left \div 2 = i /\ (left + 1) \div 2 = i
      BY <3>1
    <3>3. child = left \/ (child = left + 1 /\ left + 1 <= m)
      OBVIOUS
    <3>. HIDE DEF left, child
    <3>. QED
      BY <3>1, <3>2, <3>3
  <2>. HIDE DEF left, child
  <2>3. ~(left > m) => ~Less(s, child, i)
    <3>. SUFFICES ASSUME ~(left > m) PROVE ~Less(s, child, i)
      OBVIOUS
    <3>1. child \in 1 .. Len(s) /\ i \in 1 .. Len(s) /\ s \in Seq(Items)
          /\ AtMost(s[child], s[i])
      BY <1>3, <1>8, <1>11, <2>2
    <3>. HIDE DEF s
    <3>. QED
      BY <3>1, LessIsNotAtMost
  <2>4. Sink(Sift(r, i), m) = Sift(r, i)
    BY <2>1, <2>3
  <2>. QED
    BY <1>1, <1>5, <1>8, <2>4, DownKeeps
<1>14. Raise(q, i, p) = Up(r, i)
  <2>1. Raise(q, i, p) = Fix(r, i)
    BY DEF Raise, r
  <2>. QED
    BY <1>8, <1>13, <2>1 DEF Fix
<1>. DEFINE u == Up(r, i)
<1>15. Moved(r, u, m) /\ Ordered(u.items, m)
  BY <1>5, <1>8, <1>12, UpKeeps
<1>. HIDE DEF u
<1>16. Alike(q, u, m) /\ u \in Heaps
  <2>1. Alike(q, u, m)
    BY <1>7, <1>15, HeapFacts, AlikeChains DEF Moved
  <2>. QED
    BY <1>15, <2>1 DEF Alike, Heaps
<1>17. ASSUME NEW n, NEW v, n # NumberOf(q.items[i]), Holds(q, n, v)
       PROVE  Holds(u, n, v)
  <2>1. Holds(r, n, v)
    BY <1>3, <1>9, <1>17 DEF Holds
  <2>. QED
    BY <1>5, <1>15, <2>1, MovedHolds
<1>18. ASSUME Single(q, NumberOf(q.items[i]))
       PROVE  Holds(u, NumberOf(q.items[i]), p)
  <2>. DEFINE n == NumberOf(q.items[i])
              ps == PortsOf(q.items)
  <2>1. ASSUME NEW k \in 1 .. m, NumberOf(q.items[k]) = n
        PROVE  k = i
    <3>1. ps \in Seq(PortType) /\ Len(ps) = m
          /\ \A x \in 1 .. m : ps[x] = q.items[x].port /\ ps[x] \in PortType
      BY HeapFacts, QueueFacts
    <3>2. ps[k] \in NumberIs(n) /\ ps[i] \in NumberIs(n)
      BY <1>8, <2>1, <3>1 DEF NumberIs, NumberOf
    <3>3. Counted(NumberIs(n), ps) \in Nat /\ Counted(NumberIs(n), ps) <= 1
      BY <1>18, <3>1, CountedType DEF Single
    <3>. HIDE DEF n, ps
    <3>. QED
      BY <1>8, <3>1, <3>2, <3>3, CountedTwice
  <2>2. \A k \in 1 .. m : NumberOf(r.items[k]) = NumberOf(q.items[k])
    BY <1>3 DEF NumberOf
  <2>3. Holds(r, n, p)
    BY <1>3, <2>1, <2>2 DEF Holds
  <2>. QED
    BY <1>5, <1>15, <2>3, MovedHolds
<1>. QED
  BY <1>14, <1>16, <1>17, <1>18 DEF u

\* boostCorrelated, one entry: the port of that number, if it is the only one,
\* gets the priority p unless it has a higher one.
LEMMA BoostTargetKeeps ==
  ASSUME NEW q \in Heaps, NEW t, NEW p \in Nat
  PROVE  LET r == BoostTarget(q, t, p)
         IN  /\ r \in Heaps /\ Alike(q, r, Len(q.items))
             /\ \A n, v : n # t /\ Holds(q, n, v) => Holds(r, n, v)
             /\ t \in DOMAIN q.index /\ Single(q, t) =>
                  \A v \in Nat : Holds(q, t, v) => Holds(r, t, Higher(v, p))
<1>. DEFINE i == q.index[t]
            r == BoostTarget(q, t, p)
            old == q.items[i].priority
<1>1. q \in Queues /\ Alike(q, q, Len(q.items))
  BY HeapFacts, AlikeChains
<1>2. CASE t \notin DOMAIN q.index
  <2>1. r = q
    BY <1>2 DEF BoostTarget
  <2>. QED
    BY <1>1, <1>2, <2>1
<1>3. CASE t \in DOMAIN q.index
  <2>1. i \in 1 .. Len(q.items) /\ NumberOf(q.items[i]) = t /\ q.items[i] \in Items
    BY <1>1, <1>3, QueueFacts DEF Leads
  <2>2. old \in Nat
    BY <2>1, AtMostFacts
  <2>3. r = IF p <= old THEN q ELSE Raise(q, i, p)
    BY <1>3 DEF BoostTarget
  <2>. HIDE DEF r, old
  <2>4. ASSUME NEW v \in Nat, Holds(q, t, v)
        PROVE  old = v
    BY <2>1, <2>4 DEF Holds, old
  <2>5. CASE p <= old
    <3>1. r = q
      BY <2>3, <2>5
    <3>2. \A v \in Nat : Holds(q, t, v) => Higher(v, p) = v
      BY <2>4, <2>5 DEF Higher
    <3>. QED
      BY <1>1, <3>1, <3>2 DEF r
  <2>6. CASE ~(p <= old)
    <3>1. r = Raise(q, i, p) /\ old < p
      BY <2>2, <2>3, <2>6
    <3>2. \A v \in Nat : Holds(q, t, v) => Higher(v, p) = p
      BY <2>4, <2>6 DEF Higher
    <3>3. /\ Raise(q, i, p) \in Heaps /\ Alike(q, Raise(q, i, p), Len(q.items))
          /\ \A n, v : n # t /\ Holds(q, n, v) => Holds(Raise(q, i, p), n, v)
          /\ Single(q, t) => Holds(Raise(q, i, p), t, p)
      <4>. DEFINE at == i
      <4>1. at \in 1 .. Len(q.items) /\ q.items[at].priority < p /\ NumberOf(q.items[at]) = t
        BY <2>1, <3>1 DEF old
      <4>. HIDE DEF at
      <4>2. LET u == Raise(q, at, p)
                c == NumberOf(q.items[at])
            IN  /\ u \in Heaps /\ Alike(q, u, Len(q.items))
                /\ \A n, v : n # c /\ Holds(q, n, v) => Holds(u, n, v)
                /\ Single(q, c) => Holds(u, c, p)
        BY <4>1, RaiseKeeps
      <4>. QED
        BY <4>1, <4>2 DEF at
    <3>. QED
      BY <3>1, <3>2, <3>3 DEF r
  <2>. QED
    BY <2>5, <2>6
<1>. QED
  BY <1>2, <1>3

\* One item of a number stays one.
LEMMA AlikeSingle ==
  ASSUME NEW q, NEW r, NEW m, Alike(q, r, m), NEW n
  PROVE  Single(r, n) <=> Single(q, n)
BY DEF Alike, Single

\* In r every port of q that is the only one of its number is raised to what
\* open says of it.
RaisedFor(open, q, r) ==
  \A c \in DOMAIN q.index : \A v \in Nat :
    Single(q, c) /\ Holds(q, c, v) => Holds(r, c, Higher(v, Probability(Model, open, c)))

\* boostCorrelated, in any order: each port is raised to what is known of it.
LEMMA BoostKeeps ==
  ASSUME NEW q \in Heaps, NEW open \in Numbered, NEW targets \in Walks(q, open)
  PROVE  LET r == boostCorrelated(q, open, targets)
         IN  r \in Heaps /\ Alike(q, r, Len(q.items)) /\ RaisedFor(open, q, r)
<1>. DEFINE m == Len(q.items)
            n == Len(targets)
            Prob(k) == Probability(Model, open, targets[k])
            Now(k, c, v) == IF \E i \in 1 .. k : targets[i] = c
                            THEN Higher(v, Probability(Model, open, c)) ELSE v
            S(k) == {r \in Heaps :
                       /\ Alike(q, r, m)
                       /\ \A c \in DOMAIN q.index : \A v \in Nat :
                            Single(q, c) /\ Holds(q, c, v) => Holds(r, c, Now(k, c, v))}
            T == DOMAIN GetCorrelations(Model, open)
                   \cap {q.items[i].port.number : i \in DOMAIN q.items}
            all == [k \in 0 .. n |-> S(k)]
            step == [k \in 1 .. n |-> [r \in S(k - 1) |-> BoostTarget(r, targets[k], Prob(k))]]
            Round(f) == [k \in 0 .. n |-> IF k = 0 THEN q
                                          ELSE BoostTarget(f[k - 1], targets[k], Prob(k))]
            after == CHOOSE f : f = Round(f)
<1>1. q \in Queues /\ m \in Nat /\ DOMAIN q.items = 1 .. m
  BY HeapFacts, QueueFacts
<1>2. /\ n \in Nat /\ \A k \in 1 .. n : targets[k] \in Numbered
      /\ \A c \in T : \E k \in 1 .. n : targets[k] = c
      /\ \A j \in 1 .. n, k \in 1 .. n : targets[j] = targets[k] => j = k
  <2>1. T \subseteq Numbered
    BY <1>1, QueueFacts DEF NumberOf
  <2>. HIDE DEF T
  <2>2. IsFiniteSet(T)
    <3>1. IsFiniteSet(Numbered)
      BY PortSpecAssumption, FS_Interval DEF Numbered
    <3>. QED
      BY <2>1, <3>1, FS_Subset
  <2>3. /\ Cardinality(T) \in Nat /\ targets \in [1 .. Cardinality(T) -> T]
        /\ \A j \in 1 .. Cardinality(T), k \in 1 .. Cardinality(T) :
             j # k => targets[j] # targets[k]
    BY <2>2, FS_CardinalityType DEF Walks, SetToSeqs, T
  <2>4. targets \in Seq(T) /\ n = Cardinality(T)
    BY <2>3
  <2>5. \A j \in 1 .. n, k \in 1 .. n : targets[j] = targets[k] => j = k
    BY <2>3, <2>4
  <2>6. \A c \in T : \E k \in 1 .. n : targets[k] = c
    <3>. DEFINE D == 1 .. n
    <3>1. IsFiniteSet(D) /\ Cardinality(D) = Cardinality(T)
      BY <2>3, <2>4, FS_Interval
    <3>2. targets \in Injection(D, T)
      BY <2>3, <2>4, <2>5 DEF Injection, IsInjective
    <3>. HIDE DEF D
    <3>3. targets \in Surjection(D, T)
      BY <2>2, <3>1, <3>2, FS_Injection DEF Bijection
    <3>. QED
      BY <3>3 DEF Surjection, D
  <2>. QED
    BY <2>1, <2>4, <2>5, <2>6
<1>. HIDE DEF T
<1>3. \A k \in 1 .. n : Prob(k) \in Nat
  BY ProbabilityType
<1>4. \A k \in 1 .. n : \A r \in S(k - 1) : BoostTarget(r, targets[k], Prob(k)) \in S(k)
  <2>. SUFFICES ASSUME NEW k \in 1 .. n, NEW r \in S(k - 1)
       PROVE  BoostTarget(r, targets[k], Prob(k)) \in S(k)
    OBVIOUS
  <2>. DEFINE t == targets[k]
              p == Prob(k)
              u == BoostTarget(r, t, p)
  <2>1. /\ r \in Heaps /\ Alike(q, r, m) /\ Len(r.items) = m /\ p \in Nat
        /\ \A c \in DOMAIN q.index : \A v \in Nat :
             Single(q, c) /\ Holds(q, c, v) => Holds(r, c, Now(k - 1, c, v))
        /\ DOMAIN q.index \subseteq DOMAIN r.index
    BY <1>3 DEF Alike
  <2>2. p = Probability(Model, open, t)
    OBVIOUS
  <2>3. k \in Nat /\ k - 1 \in Nat /\ \A i \in 1 .. k : i \in {k} \cup 1 .. (k - 1)
    BY <1>2
  <2>4. /\ \A c, v : c # t => Now(k, c, v) = Now(k - 1, c, v)
        /\ \A v : Now(k, t, v) = Higher(v, p) /\ Now(k - 1, t, v) = v
    <3>1. \A i \in 1 .. (k - 1) : targets[i] # t
      BY <1>2, <2>3
    <3>2. 1 .. (k - 1) \subseteq 1 .. k /\ k \in 1 .. k
      BY <2>3
    <3>. QED
      BY <2>2, <2>3, <3>1, <3>2
  <2>. HIDE DEF t, p, Now
  <2>5. /\ u \in Heaps /\ Alike(r, u, m)
        /\ \A c, v : c # t /\ Holds(r, c, v) => Holds(u, c, v)
        /\ t \in DOMAIN r.index /\ Single(r, t) =>
             \A v \in Nat : Holds(r, t, v) => Holds(u, t, Higher(v, p))
    BY <2>1, BoostTargetKeeps
  <2>. HIDE DEF u
  <2>6. Alike(q, u, m)
    BY <1>1, <2>1, <2>5, AlikeChains
  <2>7. ASSUME NEW c \in DOMAIN q.index, NEW v \in Nat, Single(q, c), Holds(q, c, v)
        PROVE  Holds(u, c, Now(k, c, v))
    <3>1. Holds(r, c, Now(k - 1, c, v))
      BY <2>1, <2>7
    <3>2. CASE c # t
      BY <2>4, <2>5, <3>1, <3>2
    <3>3. CASE c = t
      <4>1. t \in DOMAIN r.index /\ Single(r, t) /\ Holds(r, t, v)
        BY <2>1, <2>4, <2>7, <3>1, <3>3, AlikeSingle
      <4>. QED
        BY <2>4, <2>5, <2>7, <3>3, <4>1
    <3>. QED
      BY <3>2, <3>3
  <2>8. u \in S(k)
    BY <2>5, <2>6, <2>7
  <2>. QED
    BY <2>8 DEF u, t, p
<1>5. q \in S(0)
  <2>1. \A c, v : Now(0, c, v) = v
    OBVIOUS
  <2>. HIDE DEF Now
  <2>. QED
    BY <1>1, <2>1, AlikeChains
<1>6. \A r \in S(n) : r \in Heaps /\ Alike(q, r, m) /\ RaisedFor(open, q, r)
  <2>. SUFFICES ASSUME NEW r \in S(n), NEW c \in DOMAIN q.index, NEW v \in Nat,
                       Single(q, c), Holds(q, c, v)
       PROVE  Holds(r, c, Higher(v, Probability(Model, open, c)))
    BY DEF RaisedFor
  <2>1. Holds(r, c, Now(n, c, v))
    OBVIOUS
  <2>2. CASE \E i \in 1 .. n : targets[i] = c
    BY <2>1, <2>2
  <2>3. CASE ~\E i \in 1 .. n : targets[i] = c
    <3>1. c \notin T
      BY <1>2, <2>3
    <3>2. q.index[c] \in 1 .. m /\ NumberOf(q.items[q.index[c]]) = c
      BY <1>1, QueueFacts DEF Leads
    <3>3. c \notin DOMAIN GetCorrelations(Model, open)
      BY <1>1, <3>1, <3>2 DEF T, NumberOf
    <3>4. Probability(Model, open, c) = 0
      BY <3>3 DEF Probability
    <3>5. Higher(v, Probability(Model, open, c)) = v
      BY <3>4 DEF Higher
    <3>. QED
      BY <2>1, <2>3, <3>5
  <2>. QED
    BY <2>2, <2>3
<1>. HIDE DEF S, n, Prob, Now
<1>7. /\ q \in all[0]
      /\ \A k \in 1 .. n : k - 1 \in 0 .. n /\ k \in 0 .. n
      /\ \A k \in 1 .. n : \A s \in all[k - 1] : step[k][s] \in all[k]
  BY <1>2, <1>4, <1>5
<1>8. PICK f : Repeats(f, n, q, step) /\ \A k \in 0 .. n : f[k] \in all[k]
  <2>1. n \in Nat
    BY <1>2
  <2>2. q \in all[0] /\ \A k \in 1 .. n : \A s \in all[k - 1] : step[k][s] \in all[k]
    BY <1>7
  <2>. HIDE DEF all, step, after, Round
  <2>. QED
    BY <2>1, <2>2, RepeatsWithin
<1>9. f = Round(f)
  <2>1. \A k \in 0 .. n : f[k] \in S(k)
    BY <1>8
  <2>2. \A k \in 1 .. n : step[k][f[k - 1]] = BoostTarget(f[k - 1], targets[k], Prob(k))
    BY <1>7, <2>1
  <2>3. f = [k \in 0 .. n |-> IF k = 0 THEN q ELSE step[k][f[k - 1]]]
    BY <1>8 DEF Repeats
  <2>4. \A k \in 0 .. n : k # 0 => k \in 1 .. n
    BY <1>2
  <2>. HIDE DEF step
  <2>. QED
    BY <2>2, <2>3, <2>4
<1>10. after = Round(after)
  BY <1>9
<1>11. boostCorrelated(q, open, targets) = after[n]
  BY DEF boostCorrelated, n, Prob
<1>. HIDE DEF after
<1>12. after[0] = q
       /\ \A k \in 1 .. n : after[k] = BoostTarget(after[k - 1], targets[k], Prob(k))
  <2>. DEFINE g == Round(after)
  <2>1. g[0] = q /\ \A k \in 1 .. n : g[k] = BoostTarget(after[k - 1], targets[k], Prob(k))
    BY <1>2
  <2>. HIDE DEF g
  <2>2. after = g
    BY <1>10 DEF g
  <2>. QED
    BY <2>1, <2>2
<1>13. \A k \in 0 .. n : after[k] \in all[k]
  <2>1. after[0] \in all[0]
    BY <1>7, <1>12
  <2>2. \A k \in 1 .. n : after[k - 1] \in all[k - 1] => after[k] \in all[k]
    BY <1>4, <1>7, <1>12
  <2>. HIDE DEF all
  <2>. QED
    BY <1>2, <2>1, <2>2, StaysWithin
<1>14. after[n] \in S(n)
  BY <1>2, <1>13
<1>. QED
  BY <1>6, <1>11, <1>14

\* heap.Push.
LEMMA PushKeeps ==
  ASSUME NEW q \in Heaps, NEW item \in Items
  PROVE  LET r == Push(q, item)
         IN  /\ r \in Heaps
             /\ \A K : Counted(K, PortsOf(r.items))
                         = Counted(K, PortsOf(q.items)) + IF item.port \in K THEN 1 ELSE 0
             /\ DOMAIN q.index \cup {item.port.number} \subseteq DOMAIN r.index
             /\ \A c, v : /\ Holds(q, c, v)
                          /\ c = item.port.number => item.priority = v
                          => Holds(r, c, v)
<1>. DEFINE last == Len(q.items) + 1
            n == item.port.number
            t == [items |-> Append(q.items, item), index |-> Placed(q.index, n, last)]
<1>1. /\ q.items \in Seq(Items) /\ Len(q.items) \in Nat
      /\ PortsOf(q.items) \in Seq(PortType) /\ Len(PortsOf(q.items)) = Len(q.items)
      /\ \A k \in 1 .. Len(q.items) : PortsOf(q.items)[k] = q.items[k].port
      /\ DOMAIN q.index \subseteq Numbered /\ q.index \in [DOMAIN q.index -> Nat]
      /\ Leads(q) /\ Ordered(q.items, Len(q.items))
  BY HeapFacts, QueueFacts
<1>2. n \in Numbered /\ item.port \in PortType
  BY DEF Items, PortType, Numbered
<1>3. /\ t.items \in Seq(Items) /\ Len(t.items) = last /\ t.items[last] = item
      /\ \A k \in 1 .. Len(q.items) : t.items[k] = q.items[k]
  <2>. DEFINE s == q.items
  <2>1. s \in Seq(Items)
    BY <1>1
  <2>. HIDE DEF s
  <2>2. /\ Append(s, item) \in Seq(Items) /\ Len(Append(s, item)) = Len(s) + 1
        /\ Append(s, item)[Len(s) + 1] = item
        /\ \A k \in 1 .. Len(s) : Append(s, item)[k] = s[k]
    BY <2>1
  <2>. QED
    BY <2>2 DEF s
<1>4. /\ t = [items |-> t.items, index |-> t.index]
      /\ t.index = [k \in DOMAIN q.index \cup {n} |-> IF k = n THEN last ELSE q.index[k]]
  BY DEF Placed
<1>. HIDE DEF t
<1>5. DOMAIN t.index = DOMAIN q.index \cup {n} /\ t.index[n] = last
      /\ \A k \in DOMAIN q.index \ {n} : t.index[k] = q.index[k]
  BY <1>4
<1>6. t.index \in Maps
  <2>1. ASSUME NEW k \in DOMAIN t.index PROVE t.index[k] \in Nat
    <3>1. k \in DOMAIN q.index => q.index[k] \in Nat
      BY <1>1
    <3>. QED
      BY <1>1, <1>5, <3>1
  <2>2. t.index \in [DOMAIN t.index -> Nat]
    BY <1>4, <1>5, <2>1
  <2>. QED
    BY <1>1, <1>2, <1>5, <2>2 DEF Maps
<1>7. Leads(t)
  <2>. SUFFICES ASSUME NEW k \in DOMAIN t.index
       PROVE  t.index[k] \in 1 .. Len(t.items) /\ NumberOf(t.items[t.index[k]]) = k
    BY DEF Leads
  <2>1. CASE k = n
    BY <1>1, <1>3, <1>5, <2>1 DEF NumberOf
  <2>2. CASE k # n
    <3>1. k \in DOMAIN q.index /\ t.index[k] = q.index[k]
      BY <1>5, <2>2
    <3>2. q.index[k] \in 1 .. Len(q.items) /\ NumberOf(q.items[q.index[k]]) = k
      BY <1>1, <3>1 DEF Leads
    <3>. QED
      BY <1>1, <1>3, <3>1, <3>2
  <2>. QED
    BY <2>1, <2>2
<1>8. t \in Queues /\ last \in 1 .. Len(t.items)
  BY <1>1, <1>3, <1>4, <1>6, <1>7 DEF Queues
<1>9. PortsOf(t.items) = Append(PortsOf(q.items), item.port)
  <2>. DEFINE s == PortsOf(q.items)
              u == PortsOf(t.items)
  <2>1. u = [k \in 1 .. last |-> t.items[k].port]
    BY <1>3 DEF PortsOf
  <2>2. s \in Seq(PortType) /\ Len(s) = Len(q.items)
        /\ \A k \in 1 .. Len(q.items) : s[k] = t.items[k].port
    BY <1>1, <1>3
  <2>3. item.port = t.items[last].port
    BY <1>3
  <2>4. last = Len(s) + 1
    BY <2>2
  <2>. HIDE DEF s, u, last
  <2>5. Append(s, item.port) = [k \in 1 .. last |-> t.items[k].port]
    <3>1. item.port \in PortType /\ s \in Seq(PortType)
          /\ \A k \in 1 .. Len(s) : s[k] = t.items[k].port
      BY <1>2, <2>2
    <3>. QED
      BY <2>3, <2>4, <3>1
  <2>. QED
    BY <2>1, <2>5 DEF s, u
<1>10. \A K : Counted(K, PortsOf(t.items))
                = Counted(K, PortsOf(q.items)) + IF item.port \in K THEN 1 ELSE 0
  BY <1>1, <1>2, <1>9, CountedAppend
<1>11. Rising(t.items, last, last)
  <2>1. ASSUME NEW k \in 2 .. last, k # last
        PROVE  AtMost(t.items[k], t.items[k \div 2])
    <3>1. k \in 2 .. Len(q.items) /\ k \in 1 .. Len(q.items) /\ k \div 2 \in 1 .. Len(q.items)
      BY <1>1, <2>1
    <3>2. AtMost(q.items[k], q.items[k \div 2])
      BY <1>1, <3>1 DEF Ordered
    <3>. QED
      BY <1>3, <3>1, <3>2
  <2>2. \A k \in 2 .. last : k \div 2 # last
    BY <1>1
  <2>. QED
    BY <2>1, <2>2 DEF Rising
<1>12. Moved(t, Up(t, last), last) /\ Ordered(Up(t, last).items, last)
  <2>1. Len(t.items) = last
    BY <1>3
  <2>. HIDE DEF last
  <2>. QED
    BY <1>8, <1>11, <2>1, UpKeeps
<1>13. Push(q, item) = Up(t, last)
  BY DEF Push, t
<1>14. Push(q, item) \in Heaps
  BY <1>3, <1>12, <1>13 DEF Moved, Alike, Heaps
<1>15. ASSUME NEW c, NEW v, Holds(q, c, v), c = n => item.priority = v
       PROVE  Holds(Push(q, item), c, v)
  <2>1. Holds(t, c, v)
    <3>1. \A k \in 1 .. last : k = last \/ k \in 1 .. Len(q.items)
      BY <1>1
    <3>. HIDE DEF last, n
    <3>. QED
      BY <1>3, <1>15, <3>1 DEF Holds, NumberOf, n
  <2>. HIDE DEF last
  <2>. QED
    BY <1>8, <1>12, <1>13, <2>1, MovedHolds
<1>. QED
  BY <1>5, <1>10, <1>12, <1>13, <1>14, <1>15 DEF Moved, Alike

\* heap.Pop: the first item goes.
LEMMA PopKeeps ==
  ASSUME NEW q \in Heaps, q.items # <<>>
  PROVE  LET r == PopBest(q)
             p == q.items[1].port
         IN  /\ r \in Heaps /\ p \in PortType
             /\ \A K : Counted(K, PortsOf(q.items))
                         = Counted(K, PortsOf(r.items)) + IF p \in K THEN 1 ELSE 0
             /\ DOMAIN q.index \ {p.number} \subseteq DOMAIN r.index
             /\ \A c, v : Holds(q, c, v) => Holds(r, c, v)
<1>. DEFINE n == Len(q.items)
            t == Swap(q, 1, n)
            d == Down(t, 1, n - 1)
            r == PopBest(q)
            p == q.items[1].port
<1>1. n \in Nat /\ n >= 1
  <2>. DEFINE s == q.items
  <2>1. s \in Seq(Items) /\ s # <<>>
    BY HeapFacts, QueueFacts
  <2>. HIDE DEF s
  <2>2. Len(s) \in Nat /\ Len(s) >= 1
    BY <2>1
  <2>. QED
    BY <2>2 DEF s
<1>2. /\ 1 \in 1 .. n /\ n \in 1 .. n /\ n - 1 \in Nat /\ 1 \in 1 .. ((n - 1) + 1)
      /\ (n - 1) + 1 = n /\ n - 1 <= n
  BY <1>1
<1>3. Moved(q, t, n) /\ t.items = Swapped(q.items, 1, n)
  BY <1>1, <1>2, HeapFacts, SwapKeeps
<1>4. /\ t.items[n] = q.items[1] /\ Len(t.items) = n /\ t \in Queues
      /\ \A k \in 2 .. (n - 1) : t.items[k] = q.items[k]
  <2>. DEFINE s == q.items
  <2>1. s \in Seq(Items) /\ n = Len(s) /\ t.items = Swapped(s, 1, n)
    BY <1>3, HeapFacts, QueueFacts
  <2>. HIDE DEF s, t, n
  <2>2. /\ Swapped(s, 1, n)[n] = s[1] /\ Len(Swapped(s, 1, n)) = Len(s)
        /\ \A k \in (1 .. Len(s)) \ {1, n} : Swapped(s, 1, n)[k] = s[k]
    <3>1. s \in Seq(Items) /\ 1 \in 1 .. Len(s) /\ n \in 1 .. Len(s)
      BY <1>2, <2>1
    <3>2. /\ Swapped(s, 1, n)[n] = s[1] /\ Swapped(s, 1, n)[1] = s[n]
          /\ \A k \in (1 .. Len(s)) \ {1, n} : Swapped(s, 1, n)[k] = s[k]
      BY <3>1, SwappedItems
    <3>3. Len(Swapped(s, 1, n)) = Len(s)
      BY <3>1, SwappedType
    <3>. QED
      BY <3>2, <3>3
  <2>3. \A k \in 2 .. (n - 1) : k \in (1 .. n) \ {1, n}
    BY <1>1
  <2>4. n = Len(s)
    BY <2>1
  <2>. HIDE DEF n
  <2>. QED
    BY <1>3, <2>1, <2>2, <2>3, <2>4 DEF s, Moved, Alike
<1>. HIDE DEF t
<1>5. Moved(t, d, n - 1) /\ Ordered(d.items, n - 1)
  <2>1. Ordered(q.items, n)
    BY HeapFacts
  <2>2. ASSUME NEW k \in 2 .. (n - 1), k \div 2 # 1
        PROVE  AtMost(t.items[k], t.items[k \div 2])
    <3>1. k \in 2 .. n /\ k \div 2 \in 2 .. (n - 1)
      BY <1>1, <2>2
    <3>2. AtMost(q.items[k], q.items[k \div 2])
      BY <2>1, <3>1 DEF Ordered
    <3>. QED
      BY <1>4, <3>1, <3>2
  <2>3. Sinking(t.items, n - 1, 1)
    BY <2>2 DEF Sinking
  <2>. HIDE DEF n
  <2>. QED
    BY <1>2, <1>4, <2>3, DownKeeps
<1>. HIDE DEF d
<1>6. /\ d \in Queues /\ Len(d.items) = n /\ d.items[n] = q.items[1]
      /\ \A K : Counted(K, PortsOf(d.items)) = Counted(K, PortsOf(q.items))
      /\ DOMAIN q.index \subseteq DOMAIN d.index
  BY <1>2, <1>3, <1>4, <1>5 DEF Moved, Alike
<1>7. /\ d.items \in Seq(Items)
      /\ PortsOf(d.items) \in Seq(PortType) /\ Len(PortsOf(d.items)) = n
      /\ \A k \in 1 .. n : /\ PortsOf(d.items)[k] = d.items[k].port
                           /\ d.items[k] \in Items /\ d.items[k].port \in PortType
      /\ DOMAIN d.index \subseteq Numbered /\ d.index \in [DOMAIN d.index -> Nat]
      /\ Leads(d)
  BY <1>6, QueueFacts
<1>8. /\ r = [items |-> r.items, index |-> r.index]
      /\ r.items = Front(d.items)
      /\ r.index = [k \in DOMAIN d.index \ {Last(d.items).port.number} |-> d.index[k]]
  BY DEF PopBest, d, t
<1>. HIDE DEF r
<1>9. /\ r.items \in Seq(Items) /\ Len(r.items) = n - 1 /\ Last(d.items) = d.items[n]
      /\ \A k \in 1 .. (n - 1) : r.items[k] = d.items[k]
  <2>. DEFINE s == d.items
  <2>1. s \in Seq(Items) /\ Len(s) = n /\ s # <<>>
    BY <1>1, <1>6, <1>7
  <2>. HIDE DEF s
  <2>2. /\ Front(s) \in Seq(Items) /\ Len(Front(s)) = n - 1 /\ Last(s) = s[n]
        /\ \A k \in 1 .. (n - 1) : Front(s)[k] = s[k]
    BY <2>1, FrontAndLast
  <2>. QED
    BY <1>8, <2>2 DEF s
<1>10. /\ DOMAIN r.index = DOMAIN d.index \ {p.number}
       /\ \A k \in DOMAIN r.index : r.index[k] = d.index[k]
  BY <1>6, <1>8, <1>9
<1>11. r.index \in Maps
  <2>1. \A k \in DOMAIN r.index : r.index[k] \in Nat
    BY <1>7, <1>10
  <2>2. r.index \in [DOMAIN r.index -> Nat]
    BY <1>8, <2>1
  <2>. QED
    BY <1>7, <1>10, <2>2 DEF Maps
<1>12. Leads(r)
  <2>. SUFFICES ASSUME NEW k \in DOMAIN r.index
       PROVE  r.index[k] \in 1 .. Len(r.items) /\ NumberOf(r.items[r.index[k]]) = k
    BY DEF Leads
  <2>1. k \in DOMAIN d.index /\ r.index[k] = d.index[k] /\ k # p.number
    BY <1>10
  <2>2. d.index[k] \in 1 .. n /\ NumberOf(d.items[d.index[k]]) = k
    BY <1>6, <1>7, <2>1 DEF Leads
  <2>3. d.index[k] # n
    BY <1>6, <2>1, <2>2 DEF NumberOf
  <2>4. d.index[k] \in 1 .. (n - 1)
    BY <1>1, <2>2, <2>3
  <2>. QED
    BY <1>9, <2>1, <2>2, <2>4
<1>13. r \in Heaps
  <2>1. r \in Queues
    BY <1>8, <1>9, <1>11, <1>12 DEF Queues
  <2>2. Ordered(r.items, n - 1)
    <3>1. \A k \in 2 .. (n - 1) : k \in 1 .. (n - 1) /\ k \div 2 \in 1 .. (n - 1)
      BY <1>1
    <3>. QED
      BY <1>5, <1>9, <3>1 DEF Ordered
  <2>. QED
    BY <1>9, <2>1, <2>2 DEF Heaps
<1>14. p \in PortType /\ PortsOf(r.items) \in Seq(PortType)
       /\ PortsOf(d.items) = Append(PortsOf(r.items), p)
  <2>. DEFINE s == PortsOf(d.items)
              u == PortsOf(r.items)
  <2>1. s \in Seq(PortType) /\ Len(s) = n /\ s # <<>> /\ s[n] = p
    BY <1>1, <1>2, <1>6, <1>7
  <2>2. u = [k \in 1 .. (n - 1) |-> s[k]]
    BY <1>1, <1>7, <1>9 DEF PortsOf
  <2>. HIDE DEF s, u, p
  <2>3. Front(s) = [k \in 1 .. (n - 1) |-> s[k]] /\ Front(s) \in Seq(PortType)
        /\ s = Append(Front(s), p) /\ p \in PortType
    <3>1. Front(s) \in Seq(PortType) /\ s = Append(Front(s), Last(s)) /\ Last(s) = s[Len(s)]
          /\ Last(s) \in PortType
      BY <2>1, FrontAndLast
    <3>2. Front(s) = [k \in 1 .. (n - 1) |-> s[k]]
      BY <1>1, <2>1 DEF Front
    <3>. QED
      BY <2>1, <3>1, <3>2
  <2>. QED
    BY <2>2, <2>3 DEF s, u
<1>15. \A K : Counted(K, PortsOf(q.items))
                = Counted(K, PortsOf(r.items)) + IF p \in K THEN 1 ELSE 0
  <2>. HIDE DEF p
  <2>. QED
    BY <1>6, <1>14, CountedAppend
<1>16. DOMAIN q.index \ {p.number} \subseteq DOMAIN r.index
  BY <1>6, <1>10
<1>17. ASSUME NEW c, NEW v, Holds(q, c, v)
       PROVE  Holds(r, c, v)
  <2>1. Holds(t, c, v)
    BY <1>3, <1>17, HeapFacts, MovedHolds
  <2>2. Holds(d, c, v)
    BY <1>4, <1>5, <2>1, MovedHolds
  <2>3. \A k \in 1 .. (n - 1) : k \in 1 .. n
    BY <1>1
  <2>. HIDE DEF n
  <2>. QED
    BY <1>6, <1>9, <2>2, <2>3 DEF Holds
<1>. QED
  BY <1>13, <1>14, <1>15, <1>16, <1>17 DEF r

LEMMA EmptyIsQueue ==
  /\ EmptyQueue \in Heaps /\ PortsOf(EmptyQueue.items) = <<>>
  /\ \A n, v : Holds(EmptyQueue, n, v)
<1>. DEFINE e == EmptyQueue
<1>1. e = [items |-> <<>>, index |-> <<>>]
  BY DEF EmptyQueue
<1>2. <<>> \in Maps
  <2>1. <<>> \in [{} -> Nat] /\ {} \in SUBSET Numbered
    OBVIOUS
  <2>. QED
    BY <2>1 DEF Maps
<1>3. <<>> \in Seq(Items) /\ Len(<<>>) = 0 /\ DOMAIN <<>> = {}
  OBVIOUS
<1>4. Leads(e)
  BY <1>1, <1>3 DEF Leads
<1>5. e \in Queues
  BY <1>1, <1>2, <1>3, <1>4 DEF Queues
<1>6. PortsOf(e.items) = <<>>
  BY <1>1, <1>3 DEF PortsOf
<1>7. Ordered(e.items, Len(e.items)) /\ \A n, v : Holds(e, n, v)
  BY <1>1, <1>3 DEF Ordered, Holds
<1>. QED
  BY <1>5, <1>6, <1>7 DEF Heaps

\* newPortQueue: every port of the list, and nothing else, with what is known
\* of it.
LEMMA NewQueue ==
  ASSUME NEW list \in Seq(PortType), NEW open \in SUBSET Numbered
  PROVE  LET r == newPortQueue(list, open)
         IN  /\ r \in Heaps
             /\ \A K : Counted(K, PortsOf(r.items)) = Counted(K, list)
             /\ \A i \in 1 .. Len(list) : list[i].number \in DOMAIN r.index
             /\ \A c : Holds(r, c, InitialPriority(open, c))
<1>. DEFINE n == Len(list)
            Item(k) == [port |-> list[k], priority |-> InitialPriority(open, list[k].number)]
            S(k) == {r \in Heaps :
                       /\ \A K : Counted(K, PortsOf(r.items))
                                   = Counted(K, SubSeq(list, 1, k))
                       /\ \A i \in 1 .. k : list[i].number \in DOMAIN r.index
                       /\ \A c : Holds(r, c, InitialPriority(open, c))}
            all == [k \in 0 .. n |-> S(k)]
            step == [k \in 1 .. n |-> [r \in S(k - 1) |-> Push(r, Item(k))]]
            Round(f) == [k \in 0 .. n |-> IF k = 0 THEN EmptyQueue
                                          ELSE Push(f[k - 1], Item(k))]
            built == CHOOSE f : f = Round(f)
<1>1. n \in Nat /\ \A k \in 1 .. n : list[k] \in PortType
  OBVIOUS
<1>2. \A k \in 1 .. n : Item(k) \in Items
  <2>. SUFFICES ASSUME NEW k \in 1 .. n PROVE Item(k) \in Items
    OBVIOUS
  <2>1. list[k] \in PortType /\ list[k].number \in Nat
    BY <1>1, PortSpecAssumption DEF PortType
  <2>2. InitialPriority(open, list[k].number) \in Nat
    BY <2>1, PriorityFacts
  <2>. QED
    BY <2>1, <2>2 DEF Items
<1>3. \A k \in 1 .. n : \A r \in S(k - 1) : Push(r, Item(k)) \in S(k)
  <2>. SUFFICES ASSUME NEW k \in 1 .. n, NEW r \in S(k - 1)
       PROVE  Push(r, Item(k)) \in S(k)
    OBVIOUS
  <2>. DEFINE it == Item(k)
              t == Push(r, it)
  <2>1. /\ it \in Items /\ it.port = list[k]
        /\ it.priority = InitialPriority(open, it.port.number)
    BY <1>2
  <2>2. /\ r \in Heaps
        /\ \A K : Counted(K, PortsOf(r.items)) = Counted(K, SubSeq(list, 1, k - 1))
        /\ \A i \in 1 .. (k - 1) : list[i].number \in DOMAIN r.index
        /\ \A c : Holds(r, c, InitialPriority(open, c))
    OBVIOUS
  <2>. HIDE DEF it
  <2>3. /\ t \in Heaps
        /\ \A K : Counted(K, PortsOf(t.items))
                    = Counted(K, PortsOf(r.items)) + IF it.port \in K THEN 1 ELSE 0
        /\ DOMAIN r.index \cup {it.port.number} \subseteq DOMAIN t.index
        /\ \A c : Holds(t, c, InitialPriority(open, c))
    BY <2>1, <2>2, PushKeeps
  <2>. HIDE DEF t
  <2>4. \A K : Counted(K, SubSeq(list, 1, k))
                 = Counted(K, SubSeq(list, 1, k - 1)) + IF list[k] \in K THEN 1 ELSE 0
    <3>. DEFINE u == SubSeq(list, 1, k - 1)
    <3>1. u \in Seq(PortType) /\ list[k] \in PortType /\ SubSeq(list, 1, k) = Append(u, list[k])
      BY PrefixFacts
    <3>. HIDE DEF u
    <3>2. \A K : Counted(K, Append(u, list[k])) = Counted(K, u) + IF list[k] \in K THEN 1 ELSE 0
      BY <3>1, CountedAppend
    <3>. QED
      BY <3>1, <3>2 DEF u
  <2>5. \A K : Counted(K, PortsOf(t.items)) = Counted(K, SubSeq(list, 1, k))
    BY <2>1, <2>2, <2>3, <2>4
  <2>6. \A i \in 1 .. k : list[i].number \in DOMAIN t.index
    BY <1>1, <2>1, <2>2, <2>3
  <2>7. t \in S(k)
    BY <2>3, <2>5, <2>6
  <2>. QED
    BY <2>7 DEF t, it
<1>4. EmptyQueue \in S(0)
  <2>. DEFINE e == EmptyQueue
  <2>1. /\ e \in Heaps /\ PortsOf(e.items) = <<>>
        /\ \A c : Holds(e, c, InitialPriority(open, c))
    BY EmptyIsQueue
  <2>2. SubSeq(list, 1, 0) = <<>>
    BY PrefixFacts
  <2>3. \A i \in 1 .. 0 : list[i].number \in DOMAIN e.index
    OBVIOUS
  <2>. HIDE DEF e
  <2>4. e \in S(0)
    BY <2>1, <2>2, <2>3
  <2>. QED
    BY <2>4 DEF e
<1>. HIDE DEF S, Item
<1>5. /\ EmptyQueue \in all[0]
      /\ \A k \in 1 .. n : k - 1 \in 0 .. n /\ k \in 0 .. n
      /\ \A k \in 1 .. n : \A s \in all[k - 1] : step[k][s] \in all[k]
  BY <1>1, <1>3, <1>4
<1>6. PICK f : Repeats(f, n, EmptyQueue, step) /\ \A k \in 0 .. n : f[k] \in all[k]
  <2>. HIDE DEF all, step
  <2>. QED
    BY <1>1, <1>5, RepeatsWithin
<1>7. f = Round(f)
  <2>1. \A k \in 0 .. n : f[k] \in S(k)
    BY <1>6
  <2>2. \A k \in 1 .. n : step[k][f[k - 1]] = Push(f[k - 1], Item(k))
    BY <1>5, <2>1
  <2>3. f = [k \in 0 .. n |-> IF k = 0 THEN EmptyQueue ELSE step[k][f[k - 1]]]
    BY <1>6 DEF Repeats
  <2>4. \A k \in 0 .. n : k # 0 => k \in 1 .. n
    BY <1>1
  <2>. HIDE DEF step
  <2>. QED
    BY <2>2, <2>3, <2>4
<1>8. built = Round(built)
  BY <1>7
<1>9. newPortQueue(list, open) = built[n]
  BY DEF newPortQueue, Item
<1>. HIDE DEF built
<1>10. built[0] = EmptyQueue /\ \A k \in 1 .. n : built[k] = Push(built[k - 1], Item(k))
  <2>. DEFINE g == Round(built)
  <2>1. g[0] = EmptyQueue /\ \A k \in 1 .. n : g[k] = Push(built[k - 1], Item(k))
    BY <1>1
  <2>. HIDE DEF g
  <2>2. built = g
    BY <1>8 DEF g
  <2>. QED
    BY <2>1, <2>2
<1>11. \A k \in 0 .. n : built[k] \in all[k]
  <2>1. built[0] \in all[0]
    BY <1>5, <1>10
  <2>2. \A k \in 1 .. n : built[k - 1] \in all[k - 1] => built[k] \in all[k]
    BY <1>3, <1>5, <1>10
  <2>. HIDE DEF all
  <2>. QED
    BY <1>1, <2>1, <2>2, StaysWithin
<1>12. built[n] \in S(n)
  BY <1>1, <1>11
<1>13. SubSeq(list, 1, n) = list
  BY PrefixFacts
<1>. QED
  BY <1>9, <1>12, <1>13 DEF S

-----------------------------------------------------------------------------
(* The port options.                                                       *)

NumbersOf(list) == {list[i].number : i \in 1 .. Len(list)}

\* DedupByNumber: no number is lost.
LEMMA DedupKeepsNumbers ==
  ASSUME NEW list \in Seq(PortType)
  PROVE  /\ DedupByNumber(list) \in Seq(PortType)
         /\ NumbersOf(DedupByNumber(list)) = NumbersOf(list)
<1>. DEFINE n == Len(list)
            Upto(k) == {list[i].number : i \in 1 .. k}
            S(k) == {r \in Seq(PortType) : NumbersOf(r) = Upto(k)}
            all == [k \in 0 .. n |-> S(k)]
            step == [k \in 1 .. n |-> [r \in S(k - 1) |-> KeepNew(r, list[k])]]
            Round(f) == [k \in 0 .. n |-> IF k = 0 THEN <<>> ELSE KeepNew(f[k - 1], list[k])]
            kept == CHOOSE f : f = Round(f)
<1>1. n \in Nat /\ \A k \in 1 .. n : list[k] \in PortType
  OBVIOUS
<1>2. \A k \in 1 .. n : \A r \in S(k - 1) : KeepNew(r, list[k]) \in S(k)
  <2>. SUFFICES ASSUME NEW k \in 1 .. n, NEW r \in S(k - 1)
       PROVE  KeepNew(r, list[k]) \in S(k)
    OBVIOUS
  <2>. DEFINE x == list[k]
  <2>1. r \in Seq(PortType) /\ NumbersOf(r) = Upto(k - 1) /\ x \in PortType
    BY <1>1
  <2>2. Upto(k) = Upto(k - 1) \cup {x.number}
    OBVIOUS
  <2>. HIDE DEF x, Upto
  <2>3. CASE \E i \in DOMAIN r : r[i].number = x.number
    <3>1. x.number \in NumbersOf(r)
      BY <2>1, <2>3 DEF NumbersOf
    <3>. QED
      BY <2>1, <2>2, <2>3, <3>1 DEF KeepNew, x
  <2>4. CASE ~ \E i \in DOMAIN r : r[i].number = x.number
    <3>. DEFINE t == Append(r, x)
    <3>1. /\ t \in Seq(PortType) /\ Len(t) = Len(r) + 1 /\ t[Len(r) + 1] = x
          /\ \A i \in 1 .. Len(r) : t[i] = r[i]
      BY <2>1
    <3>. HIDE DEF t
    <3>2. 1 .. Len(t) = (1 .. Len(r)) \cup {Len(r) + 1}
      BY <2>1, <3>1
    <3>3. NumbersOf(t) = NumbersOf(r) \cup {x.number}
      BY <3>1, <3>2 DEF NumbersOf
    <3>. QED
      BY <2>1, <2>2, <2>4, <3>1, <3>3 DEF KeepNew, x, t
  <2>. QED
    BY <2>3, <2>4
<1>3. <<>> \in S(0)
  <2>1. Len(<<>>) = 0 /\ 1 .. 0 = {}
    OBVIOUS
  <2>2. NumbersOf(<<>>) = Upto(0)
    BY <2>1 DEF NumbersOf
  <2>. QED
    BY <2>2
<1>4. S(n) = {r \in Seq(PortType) : NumbersOf(r) = NumbersOf(list)}
  BY DEF NumbersOf
<1>. HIDE DEF S
<1>5. /\ <<>> \in all[0]
      /\ \A k \in 1 .. n : k - 1 \in 0 .. n /\ k \in 0 .. n
      /\ \A k \in 1 .. n : \A s \in all[k - 1] : step[k][s] \in all[k]
  BY <1>1, <1>2, <1>3
<1>6. PICK f : Repeats(f, n, <<>>, step) /\ \A k \in 0 .. n : f[k] \in all[k]
  <2>. HIDE DEF all, step
  <2>. QED
    BY <1>1, <1>5, RepeatsWithin
<1>7. f = Round(f)
  <2>1. \A k \in 0 .. n : f[k] \in S(k)
    BY <1>6
  <2>2. \A k \in 1 .. n : step[k][f[k - 1]] = KeepNew(f[k - 1], list[k])
    BY <1>5, <2>1
  <2>3. f = [k \in 0 .. n |-> IF k = 0 THEN <<>> ELSE step[k][f[k - 1]]]
    BY <1>6 DEF Repeats
  <2>4. \A k \in 0 .. n : k # 0 => k \in 1 .. n
    BY <1>1
  <2>. HIDE DEF step
  <2>. QED
    BY <2>2, <2>3, <2>4
<1>8. kept = Round(kept)
  BY <1>7
<1>9. DedupByNumber(list) = kept[n]
  BY DEF DedupByNumber
<1>. HIDE DEF kept
<1>10. kept[0] = <<>> /\ \A k \in 1 .. n : kept[k] = KeepNew(kept[k - 1], list[k])
  <2>. DEFINE g == Round(kept)
  <2>1. g[0] = <<>> /\ \A k \in 1 .. n : g[k] = KeepNew(kept[k - 1], list[k])
    BY <1>1
  <2>. HIDE DEF g
  <2>2. kept = g
    BY <1>8 DEF g
  <2>. QED
    BY <2>1, <2>2
<1>11. \A k \in 0 .. n : kept[k] \in all[k]
  <2>1. kept[0] \in all[0]
    BY <1>5, <1>10
  <2>2. \A k \in 1 .. n : kept[k - 1] \in all[k - 1] => kept[k] \in all[k]
    BY <1>2, <1>5, <1>10
  <2>. HIDE DEF all
  <2>. QED
    BY <1>1, <2>1, <2>2, StaysWithin
<1>12. kept[n] \in S(n)
  BY <1>1, <1>11
<1>. QED
  BY <1>4, <1>9, <1>12

\* excludePorts: what is in neither list is not there, and nothing else is gone.
LEMMA WithoutKeepsOthers ==
  ASSUME NEW out \in Seq(PortType), NEW list \in Seq(PortType)
  PROVE  /\ Without(out, list) \in Seq(PortType)
         /\ ToSet(Without(out, list)) = ToSet(list) \ ToSet(out)
<1>. DEFINE n == Len(list)
            Upto(k) == {list[i] : i \in 1 .. k} \ ToSet(out)
            S(k) == {r \in Seq(PortType) : ToSet(r) = Upto(k)}
            all == [k \in 0 .. n |-> S(k)]
            step == [k \in 1 .. n |-> [r \in S(k - 1) |-> KeepUnless(out, r, list[k])]]
            Round(f) == [k \in 0 .. n |-> IF k = 0 THEN <<>>
                                          ELSE KeepUnless(out, f[k - 1], list[k])]
            left == CHOOSE f : f = Round(f)
<1>1. n \in Nat /\ \A k \in 1 .. n : list[k] \in PortType
  OBVIOUS
<1>2. \A k \in 1 .. n : \A r \in S(k - 1) : KeepUnless(out, r, list[k]) \in S(k)
  <2>. SUFFICES ASSUME NEW k \in 1 .. n, NEW r \in S(k - 1)
       PROVE  KeepUnless(out, r, list[k]) \in S(k)
    OBVIOUS
  <2>. DEFINE x == list[k]
  <2>1. r \in Seq(PortType) /\ ToSet(r) = Upto(k - 1) /\ x \in PortType
    BY <1>1
  <2>2. Upto(k) = Upto(k - 1) \cup ({x} \ ToSet(out))
    OBVIOUS
  <2>3. ExcludedBy(out, x) <=> x \in ToSet(out)
    BY DEF ExcludedBy, ToSet
  <2>. HIDE DEF x, Upto
  <2>4. CASE ExcludedBy(out, x)
    BY <2>1, <2>2, <2>3, <2>4 DEF KeepUnless, x
  <2>5. CASE ~ExcludedBy(out, x)
    <3>. DEFINE t == Append(r, x)
    <3>1. /\ t \in Seq(PortType) /\ Len(t) = Len(r) + 1 /\ t[Len(r) + 1] = x
          /\ \A i \in 1 .. Len(r) : t[i] = r[i]
      BY <2>1
    <3>. HIDE DEF t
    <3>2. DOMAIN t = DOMAIN r \cup {Len(r) + 1} /\ DOMAIN r = 1 .. Len(r)
      BY <2>1, <3>1
    <3>3. ToSet(t) = ToSet(r) \cup {x}
      BY <3>1, <3>2 DEF ToSet
    <3>. QED
      BY <2>1, <2>2, <2>3, <2>5, <3>1, <3>3 DEF KeepUnless, x, t
  <2>. QED
    BY <2>4, <2>5
<1>3. <<>> \in S(0)
  <2>1. DOMAIN <<>> = {} /\ 1 .. 0 = {}
    OBVIOUS
  <2>2. ToSet(<<>>) = Upto(0)
    BY <2>1 DEF ToSet
  <2>. QED
    BY <2>2
<1>4. S(n) = {r \in Seq(PortType) : ToSet(r) = ToSet(list) \ ToSet(out)}
  <2>1. DOMAIN list = 1 .. n
    BY <1>1
  <2>2. ToSet(list) = {list[i] : i \in 1 .. n}
    BY <2>1 DEF ToSet
  <2>. QED
    BY <2>2
<1>. HIDE DEF S
<1>5. /\ <<>> \in all[0]
      /\ \A k \in 1 .. n : k - 1 \in 0 .. n /\ k \in 0 .. n
      /\ \A k \in 1 .. n : \A s \in all[k - 1] : step[k][s] \in all[k]
  BY <1>1, <1>2, <1>3
<1>6. PICK f : Repeats(f, n, <<>>, step) /\ \A k \in 0 .. n : f[k] \in all[k]
  <2>. HIDE DEF all, step
  <2>. QED
    BY <1>1, <1>5, RepeatsWithin
<1>7. f = Round(f)
  <2>1. \A k \in 0 .. n : f[k] \in S(k)
    BY <1>6
  <2>2. \A k \in 1 .. n : step[k][f[k - 1]] = KeepUnless(out, f[k - 1], list[k])
    BY <1>5, <2>1
  <2>3. f = [k \in 0 .. n |-> IF k = 0 THEN <<>> ELSE step[k][f[k - 1]]]
    BY <1>6 DEF Repeats
  <2>4. \A k \in 0 .. n : k # 0 => k \in 1 .. n
    BY <1>1
  <2>. HIDE DEF step
  <2>. QED
    BY <2>2, <2>3, <2>4
<1>8. left = Round(left)
  BY <1>7
<1>9. Without(out, list) = left[n]
  BY DEF Without
<1>. HIDE DEF left
<1>10. left[0] = <<>> /\ \A k \in 1 .. n : left[k] = KeepUnless(out, left[k - 1], list[k])
  <2>. DEFINE g == Round(left)
  <2>1. g[0] = <<>> /\ \A k \in 1 .. n : g[k] = KeepUnless(out, left[k - 1], list[k])
    BY <1>1
  <2>. HIDE DEF g
  <2>2. left = g
    BY <1>8 DEF g
  <2>. QED
    BY <2>1, <2>2
<1>11. \A k \in 0 .. n : left[k] \in all[k]
  <2>1. left[0] \in all[0]
    BY <1>5, <1>10
  <2>2. \A k \in 1 .. n : left[k - 1] \in all[k - 1] => left[k] \in all[k]
    BY <1>2, <1>5, <1>10
  <2>. HIDE DEF all
  <2>. QED
    BY <1>1, <2>1, <2>2, StaysWithin
<1>12. left[n] \in S(n)
  BY <1>1, <1>11
<1>. QED
  BY <1>4, <1>9, <1>12

\* A segment that is not rejected: its numbers, from the first to the last.
LEMMA SegmentFacts ==
  ASSUME NEW s \in Segments, ~Rejected(s)
  PROVE  /\ SegmentPorts(s) \in Seq(PortType)
         /\ NumbersOf(SegmentPorts(s)) = s.lo .. s.hi
<1>. DEFINE n == s.hi - s.lo + 1
<1>1. /\ s.lo \in Nat /\ s.hi \in Nat /\ s.proto \in {"tcp", "udp"}
      /\ s.form \in {"number", "range", "dash", "bad"} /\ (s.form = "number" => s.lo = s.hi)
  BY DEF Segments
<1>2. s.lo <= s.hi /\ s.hi <= MaxPort /\ n \in Nat
  BY <1>1, PortSpecAssumption DEF Rejected, PortSpecAssumption
<1>3. \A i \in 1 .. n : s.lo + i - 1 \in Numbered
  <2>1. \A lo, hi, i \in Nat :
          lo <= hi /\ hi <= MaxPort /\ 1 <= i /\ i <= hi - lo + 1
            => lo + i - 1 \in 0 .. MaxPort
    BY PortSpecAssumption DEF PortSpecAssumption
  <2>2. SUFFICES ASSUME NEW i \in 1 .. n PROVE s.lo + i - 1 \in Numbered
    OBVIOUS
  <2>3. i \in Nat /\ 1 <= i /\ i <= n
    BY <1>2, <2>2
  <2>. QED
    BY <1>1, <1>2, <2>1, <2>3 DEF Numbered
<1>4. \A i \in 1 .. n : Port(s.lo + i - 1, s.proto) \in PortType
  BY <1>1, <1>3 DEF Port, PortType, Numbered
<1>5. SegmentPorts(s) = [i \in 1 .. n |-> Port(s.lo + i - 1, s.proto)]
  BY DEF SegmentPorts
<1>. DEFINE r == SegmentPorts(s)
<1>6. r \in Seq(PortType) /\ Len(r) = n
      /\ \A i \in 1 .. n : r[i] = Port(s.lo + i - 1, s.proto)
  BY <1>2, <1>4, <1>5
<1>. HIDE DEF r
<1>7. \A i \in 1 .. n : r[i].number = s.lo + i - 1
  BY <1>6 DEF Port
<1>8. NumbersOf(r) \subseteq s.lo .. s.hi
  BY <1>1, <1>2, <1>6, <1>7 DEF NumbersOf
<1>9. ASSUME NEW x \in s.lo .. s.hi
      PROVE  x \in NumbersOf(r)
  <2>1. x - s.lo + 1 \in 1 .. n /\ s.lo + (x - s.lo + 1) - 1 = x
    BY <1>1, <1>2
  <2>2. r[x - s.lo + 1].number = x
    BY <1>7, <2>1
  <2>. QED
    BY <1>6, <2>1, <2>2 DEF NumbersOf
<1>. QED
  BY <1>6, <1>8, <1>9 DEF r

\* Every number asked for, and no other, whatever the form of the segments.
LEMMA ParsedAsAsked ==
  ASSUME NEW segments \in Seq(Segments)
  PROVE  LET parsed == parsePortsSlice(segments)
         IN  /\ parsed.ports \in Seq(PortType) /\ parsed.ok \in BOOLEAN
             /\ parsed.ok => NumbersOf(parsed.ports) = Asked(segments)
             /\ ~parsed.ok => parsed.ports = <<>>
<1>1. CASE \E i \in DOMAIN segments : Rejected(segments[i])
  <2>1. parsePortsSlice(segments) = ParseError
    BY <1>1 DEF parsePortsSlice
  <2>2. <<>> \in Seq(PortType)
    OBVIOUS
  <2>. QED
    BY <2>1, <2>2 DEF ParseError
<1>2. CASE ~ \E i \in DOMAIN segments : Rejected(segments[i])
  <2>. DEFINE parts == [i \in DOMAIN segments |-> SegmentPorts(segments[i])]
              flat == FlattenSeq(parts)
  <2>1. \A i \in DOMAIN segments : /\ segments[i] \in Segments
                                   /\ SegmentPorts(segments[i]) \in Seq(PortType)
                                   /\ NumbersOf(SegmentPorts(segments[i]))
                                        = segments[i].lo .. segments[i].hi
    BY <1>2, SegmentFacts
  <2>2. /\ parts \in Seq(Seq(PortType)) /\ DOMAIN parts = DOMAIN segments
        /\ \A i \in DOMAIN segments : parts[i] = SegmentPorts(segments[i])
    <3>1. DOMAIN segments = 1 .. Len(segments) /\ Len(segments) \in Nat
      OBVIOUS
    <3>. QED
      BY <2>1, <3>1
  <2>. HIDE DEF parts
  <2>3. /\ flat \in Seq(PortType)
        /\ ToSet(flat) = UNION {ToSet(parts[i]) : i \in DOMAIN parts}
    BY <2>2, Flattened
  <2>. HIDE DEF flat
  <2>4. \A list \in Seq(PortType) : NumbersOf(list) = {p.number : p \in ToSet(list)}
    <3>. SUFFICES ASSUME NEW list \in Seq(PortType)
         PROVE  NumbersOf(list) = {p.number : p \in ToSet(list)}
      OBVIOUS
    <3>1. DOMAIN list = 1 .. Len(list)
      OBVIOUS
    <3>. QED
      BY <3>1 DEF NumbersOf, ToSet
  <2>5. NumbersOf(flat) = UNION {NumbersOf(parts[i]) : i \in DOMAIN parts}
    <3>1. \A i \in DOMAIN parts : NumbersOf(parts[i]) = {p.number : p \in ToSet(parts[i])}
      BY <2>1, <2>2, <2>4
    <3>2. NumbersOf(flat) = {p.number : p \in ToSet(flat)}
      BY <2>3, <2>4
    <3>3. {p.number : p \in ToSet(flat)}
            = UNION {{p.number : p \in ToSet(parts[i])} : i \in DOMAIN parts}
      BY <2>3
    <3>. QED
      BY <3>1, <3>2, <3>3
  <2>6. NumbersOf(flat) = Asked(segments)
    BY <2>1, <2>2, <2>5 DEF Asked
  <2>7. parsePortsSlice(segments) = Parsed(DedupByNumber(flat))
    BY <1>2 DEF parsePortsSlice, flat, parts
  <2>8. DedupByNumber(flat) \in Seq(PortType) /\ NumbersOf(DedupByNumber(flat)) = Asked(segments)
    BY <2>3, <2>6, DedupKeepsNumbers
  <2>. QED
    BY <2>7, <2>8 DEF Parsed
<1>. QED
  BY <1>1, <1>2

\* One source, filtered: what is asked for and not excluded.
SourceHolds(o, segments, r) ==
  LET barred == parsePortsSlice(o.exclude)
  IN  /\ r.ports \in Seq(PortType) /\ r.ok \in BOOLEAN
      /\ r.ok => /\ ToSet(r.ports) \cap ToSet(barred.ports) = {}
                 /\ NumbersOf(r.ports) \subseteq Asked(segments)
                 /\ Asked(segments) \ Asked(o.exclude) \subseteq NumbersOf(r.ports)
      /\ ~r.ok => r.ports = <<>>

LEMMA SourceFacts ==
  ASSUME NEW o \in OptionType, NEW segments \in Seq(Segments)
  PROVE  SourceHolds(o, segments, Source(o, segments))
<1>. DEFINE parsed == parsePortsSlice(segments)
            barred == parsePortsSlice(o.exclude)
            r == Source(o, segments)
<1>1. o.exclude \in Seq(Segments)
  BY DEF OptionType
<1>2. /\ parsed.ports \in Seq(PortType) /\ parsed.ok \in BOOLEAN
      /\ parsed.ok => NumbersOf(parsed.ports) = Asked(segments)
      /\ barred.ports \in Seq(PortType) /\ barred.ok \in BOOLEAN
      /\ barred.ok => NumbersOf(barred.ports) = Asked(o.exclude)
  BY <1>1, ParsedAsAsked
<1>3. CASE ~(parsed.ok /\ barred.ok)
  <2>1. r = ParseError
    BY <1>3 DEF Source, excludePorts
  <2>2. <<>> \in Seq(PortType)
    OBVIOUS
  <2>. QED
    BY <2>1, <2>2 DEF ParseError, SourceHolds
<1>4. CASE parsed.ok /\ barred.ok
  <2>. DEFINE list == parsed.ports
              out == barred.ports
              w == Without(out, list)
  <2>1. r = Parsed(w)
    BY <1>4 DEF Source, excludePorts
  <2>2. w \in Seq(PortType) /\ ToSet(w) = ToSet(list) \ ToSet(out)
    BY <1>2, WithoutKeepsOthers
  <2>3. \A s \in Seq(PortType) : NumbersOf(s) = {p.number : p \in ToSet(s)}
    <3>. SUFFICES ASSUME NEW s \in Seq(PortType)
         PROVE  NumbersOf(s) = {p.number : p \in ToSet(s)}
      OBVIOUS
    <3>1. DOMAIN s = 1 .. Len(s)
      OBVIOUS
    <3>. QED
      BY <3>1 DEF NumbersOf, ToSet
  <2>4. /\ NumbersOf(list) = Asked(segments) /\ NumbersOf(out) = Asked(o.exclude)
        /\ list \in Seq(PortType) /\ out \in Seq(PortType)
    BY <1>2, <1>4
  <2>. HIDE DEF w, list, out
  <2>5. NumbersOf(w) \subseteq NumbersOf(list)
    BY <2>2, <2>3, <2>4
  <2>6. NumbersOf(list) \ NumbersOf(out) \subseteq NumbersOf(w)
    BY <2>2, <2>3, <2>4
  <2>7. ToSet(w) \cap ToSet(out) = {}
    BY <2>2
  <2>8. r.ok = TRUE /\ r.ports = w
    BY <2>1 DEF Parsed
  <2>9. out = parsePortsSlice(o.exclude).ports
    BY DEF out
  <2>. HIDE DEF r
  <2>10. SourceHolds(o, segments, r)
    BY <2>2, <2>4, <2>5, <2>6, <2>7, <2>8, <2>9 DEF SourceHolds
  <2>. QED
    BY <2>10 DEF r
<1>. QED
  BY <1>2, <1>3, <1>4

\* The list of -top-ports asks for what it holds.
LEMMA TopFacts ==
  ASSUME NEW list \in Seq(Numbered)
  PROVE  Numbers(list) \in Seq(Segments) /\ Asked(Numbers(list)) = ToSet(list)
<1>1. DOMAIN list = 1 .. Len(list) /\ Len(list) \in Nat /\ \A i \in 1 .. Len(list) : list[i] \in Nat
  BY PortSpecAssumption DEF PortSpecAssumption, Numbered
<1>2. \A i \in DOMAIN list : Number(list[i]) \in Segments
  BY <1>1 DEF Number, Segment, Segments
<1>3. /\ Numbers(list) \in Seq(Segments) /\ DOMAIN Numbers(list) = DOMAIN list
      /\ \A i \in DOMAIN list : Numbers(list)[i] = Number(list[i])
  BY <1>1, <1>2 DEF Numbers
<1>4. \A i \in DOMAIN list : Numbers(list)[i].lo .. Numbers(list)[i].hi = {list[i]}
  BY <1>1, <1>3 DEF Number, Segment
<1>. QED
  BY <1>3, <1>4 DEF Asked, ToSet

\* What RequestedPorts says of a list.
Requested(o, list) ==
  LET barred  == ToSet(parsePortsSlice(o.exclude).ports)
      wanted  == AskedNumbers(o) \ Asked(o.exclude)
  IN  /\ ToSet(list) \cap barred = {}
      /\ wanted \subseteq NumbersOf(list)
      /\ \/ NumbersOf(list) \subseteq AskedNumbers(o)
         \/ wanted = {} /\ NumbersOf(list) \subseteq ToSet(Top100)

LEMMA ParsedAsRequested ==
  ASSUME NEW o \in OptionType
  PROVE  /\ ParsePorts(o).ports \in Seq(PortType) /\ ParsePorts(o).ok \in BOOLEAN
         /\ ParsePorts(o).ok => Requested(o, ParsePorts(o).ports)
<1>. DEFINE file == Source(o, o.file)
            cli  == Source(o, Expanded(o.ports))
            top  == TopPorts(o)
            some == Source(o, Numbers(Top100))
            all  == file.ports \o cli.ports \o top.ports
            r    == ParsePorts(o)
            Barred == ToSet(parsePortsSlice(o.exclude).ports)
            Gone == Asked(o.exclude)
<1>1. /\ o.file \in Seq(Segments) /\ o.ports \in Seq(Segments)
      /\ o.top \in {"none", "full", "100", "1000", "other"}
  BY DEF OptionType
<1>2. Top100 \in Seq(Numbered) /\ Top1000 \in Seq(Numbered) /\ MaxPort \in Nat
  BY PortSpecAssumption DEF PortSpecAssumption, Numbered
<1>3. /\ Numbers(Top100) \in Seq(Segments) /\ Asked(Numbers(Top100)) = ToSet(Top100)
      /\ Numbers(Top1000) \in Seq(Segments) /\ Asked(Numbers(Top1000)) = ToSet(Top1000)
  BY <1>2, TopFacts
<1>4. <<PortRange(1, MaxPort)>> \in Seq(Segments) /\ Asked(<<PortRange(1, MaxPort)>>) = 1 .. MaxPort
  <2>1. PortRange(1, MaxPort) \in Segments /\ PortRange(1, MaxPort).lo = 1 /\ PortRange(1, MaxPort).hi = MaxPort
    BY <1>2 DEF PortRange, Segment, Segments
  <2>. DEFINE x == PortRange(1, MaxPort)
  <2>. HIDE DEF x
  <2>2. <<x>>[1] = x /\ DOMAIN <<x>> = {1} /\ (x \in Segments => <<x>> \in Seq(Segments))
    OBVIOUS
  <2>3. Asked(<<x>>) = x.lo .. x.hi
    BY <2>2 DEF Asked
  <2>. QED
    BY <2>1, <2>2, <2>3 DEF x
<1>5. /\ SourceHolds(o, o.file, file) /\ SourceHolds(o, Expanded(o.ports), cli)
      /\ SourceHolds(o, Numbers(Top100), some)
      /\ Asked(Expanded(o.ports)) = Asked(o.ports)
  <2>1. Expanded(o.ports) \in Seq(Segments) /\ Asked(Expanded(o.ports)) = Asked(o.ports)
    <3>1. CASE o.ports = <<AllPorts>>
      <4>1. Expanded(o.ports) = <<PortRange(1, MaxPort)>>
        BY <3>1 DEF Expanded
      <4>2. AllPorts.lo = 1 /\ AllPorts.hi = MaxPort
        BY DEF AllPorts, Segment
      <4>3. PICK x : x = AllPorts
        OBVIOUS
      <4>4. Asked(<<x>>) = x.lo .. x.hi
        <5>1. <<x>>[1] = x /\ DOMAIN <<x>> = {1}
          OBVIOUS
        <5>. QED
          BY <5>1 DEF Asked
      <4>. QED
        BY <1>4, <3>1, <4>1, <4>2, <4>3, <4>4
    <3>2. CASE o.ports # <<AllPorts>>
      BY <1>1, <3>2 DEF Expanded
    <3>. QED
      BY <3>1, <3>2
  <2>. QED
    BY <1>1, <1>3, <2>1, SourceFacts
<1>6. /\ top.ports \in Seq(PortType) /\ top.ok \in BOOLEAN
      /\ top.ok => /\ ToSet(top.ports) \cap Barred = {}
                   /\ NumbersOf(top.ports) \subseteq AskedTop(o.top)
                   /\ AskedTop(o.top) \ Gone \subseteq NumbersOf(top.ports)
  <2>1. <<>> \in Seq(PortType) /\ DOMAIN <<>> = {} /\ Len(<<>>) = 0 /\ 1 .. 0 = {}
    OBVIOUS
  <2>2. CASE o.top = "none"
    <3>1. top = Parsed(<<>>) /\ AskedTop(o.top) = {}
      BY <2>2 DEF TopPorts, AskedTop
    <3>2. ToSet(<<>>) = {} /\ NumbersOf(<<>>) = {}
      BY <2>1 DEF ToSet, NumbersOf
    <3>. QED
      BY <2>1, <3>1, <3>2 DEF Parsed
  <2>3. CASE o.top = "full"
    <3>1. top = Source(o, <<PortRange(1, MaxPort)>>) /\ AskedTop(o.top) = 1 .. MaxPort
      BY <2>3 DEF TopPorts, AskedTop
    <3>2. SourceHolds(o, <<PortRange(1, MaxPort)>>, top)
      BY <1>4, <3>1, SourceFacts
    <3>. QED
      BY <1>4, <3>1, <3>2 DEF SourceHolds
  <2>4. CASE o.top = "100"
    <3>1. top = some /\ AskedTop(o.top) = ToSet(Top100)
      BY <2>4 DEF TopPorts, AskedTop
    <3>. QED
      BY <1>3, <1>5, <3>1 DEF SourceHolds
  <2>5. CASE o.top = "1000"
    <3>1. top = Source(o, Numbers(Top1000)) /\ AskedTop(o.top) = ToSet(Top1000)
      BY <2>5 DEF TopPorts, AskedTop
    <3>2. SourceHolds(o, Numbers(Top1000), top)
      BY <1>3, <3>1, SourceFacts
    <3>. QED
      BY <1>3, <3>1, <3>2 DEF SourceHolds
  <2>6. CASE o.top = "other"
    <3>1. top = ParseError
      BY <2>6 DEF TopPorts
    <3>. QED
      BY <2>1, <3>1 DEF ParseError
  <2>. QED
    BY <1>1, <2>2, <2>3, <2>4, <2>5, <2>6
<1>7. /\ file.ports \in Seq(PortType) /\ cli.ports \in Seq(PortType) /\ some.ports \in Seq(PortType)
      /\ file.ok \in BOOLEAN /\ cli.ok \in BOOLEAN /\ some.ok \in BOOLEAN
      /\ file.ok => /\ ToSet(file.ports) \cap Barred = {}
                    /\ NumbersOf(file.ports) \subseteq Asked(o.file)
                    /\ Asked(o.file) \ Gone \subseteq NumbersOf(file.ports)
      /\ cli.ok => /\ ToSet(cli.ports) \cap Barred = {}
                   /\ NumbersOf(cli.ports) \subseteq Asked(o.ports)
                   /\ Asked(o.ports) \ Gone \subseteq NumbersOf(cli.ports)
      /\ some.ok => /\ ToSet(some.ports) \cap Barred = {}
                    /\ NumbersOf(some.ports) \subseteq ToSet(Top100)
  BY <1>3, <1>5 DEF SourceHolds
<1>8. /\ ~(file.ok /\ cli.ok /\ top.ok) => r = ParseError
      /\ file.ok /\ cli.ok /\ top.ok /\ all = <<>> => r = some
      /\ file.ok /\ cli.ok /\ top.ok /\ all # <<>> => r = Parsed(all)
  BY DEF ParsePorts
<1>9. AskedNumbers(o) = Asked(o.file) \cup Asked(o.ports) \cup AskedTop(o.top)
  BY DEF AskedNumbers
<1>. DEFINE f == file.ports
            c == cli.ports
            t == top.ports
<1>10. /\ all \in Seq(PortType)
       /\ ToSet(all) = ToSet(f) \cup ToSet(c) \cup ToSet(t)
       /\ NumbersOf(all) = NumbersOf(f) \cup NumbersOf(c) \cup NumbersOf(t)
  <2>1. f \in Seq(PortType) /\ c \in Seq(PortType) /\ t \in Seq(PortType) /\ all = f \o c \o t
    BY <1>6, <1>7
  <2>. HIDE DEF f, c, t, all
  <2>. DEFINE fc == f \o c
  <2>2. fc \in Seq(PortType) /\ ToSet(fc) = ToSet(f) \cup ToSet(c)
    BY <2>1, ElementsOf
  <2>3. all = fc \o t
    BY <2>1
  <2>. HIDE DEF fc
  <2>4. all \in Seq(PortType) /\ ToSet(all) = ToSet(fc) \cup ToSet(t)
    BY <2>1, <2>2, <2>3, ElementsOf
  <2>5. \A s \in Seq(PortType) : NumbersOf(s) = {p.number : p \in ToSet(s)}
    <3>. SUFFICES ASSUME NEW s \in Seq(PortType)
         PROVE  NumbersOf(s) = {p.number : p \in ToSet(s)}
      OBVIOUS
    <3>1. DOMAIN s = 1 .. Len(s)
      OBVIOUS
    <3>. QED
      BY <3>1 DEF NumbersOf, ToSet
  <2>6. /\ NumbersOf(all) = {p.number : p \in ToSet(all)} /\ NumbersOf(f) = {p.number : p \in ToSet(f)}
        /\ NumbersOf(c) = {p.number : p \in ToSet(c)} /\ NumbersOf(t) = {p.number : p \in ToSet(t)}
    BY <2>1, <2>4, <2>5
  <2>. QED
    BY <2>2, <2>4, <2>6
<1>. HIDE DEF file, cli, top, some, all, r
<1>11. CASE ~(file.ok /\ cli.ok /\ top.ok)
  <2>1. r = ParseError /\ <<>> \in Seq(PortType)
    BY <1>8, <1>11
  <2>2. r.ports = <<>> /\ r.ok = FALSE
    BY <2>1 DEF ParseError
  <2>. QED
    BY <2>1, <2>2 DEF r
<1>12. CASE file.ok /\ cli.ok /\ top.ok /\ all = <<>>
  <2>1. r = some
    BY <1>8, <1>12
  <2>2. NumbersOf(all) = {}
    <3>1. Len(<<>>) = 0 /\ 1 .. 0 = {}
      OBVIOUS
    <3>. QED
      BY <1>12, <3>1 DEF NumbersOf
  <2>3. AskedNumbers(o) \ Gone = {}
    BY <1>6, <1>7, <1>9, <1>10, <1>12, <2>2
  <2>4. some.ok => Requested(o, some.ports)
    BY <1>7, <2>3 DEF Requested
  <2>. QED
    BY <1>7, <2>1, <2>4 DEF r
<1>13. CASE file.ok /\ cli.ok /\ top.ok /\ all # <<>>
  <2>1. r.ports = all /\ r.ok = TRUE
    BY <1>8, <1>13 DEF Parsed
  <2>2. ToSet(all) \cap Barred = {}
    BY <1>6, <1>7, <1>10, <1>13
  <2>3. NumbersOf(all) \subseteq AskedNumbers(o)
    BY <1>6, <1>7, <1>9, <1>10, <1>13
  <2>4. AskedNumbers(o) \ Gone \subseteq NumbersOf(all)
    BY <1>6, <1>7, <1>9, <1>10, <1>13
  <2>5. Requested(o, all)
    BY <2>2, <2>3, <2>4 DEF Requested
  <2>. QED
    BY <1>10, <2>1, <2>5 DEF r
<1>. QED
  BY <1>11, <1>12, <1>13

-----------------------------------------------------------------------------
(* The addresses.                                                          *)

LEMMA BlockTypes ==
  /\ Len(Blocks) \in Nat /\ DOMAIN Blocks = 1 .. Len(Blocks)
  /\ \A b \in 1 .. Len(Blocks) :
       /\ Blocks[b].family \in {"v4", "v6"} /\ Blocks[b].base \in Nat /\ Blocks[b].count \in Nat
       /\ Blocks[b].family = "v4" => Blocks[b].base + Blocks[b].count <= AddrSpace
  /\ AddrSpace \in Nat \ {0}
<1>. DEFINE BlockType == [family : {"v4", "v6"}, base : Nat, count : Nat]
<1>1. /\ Blocks \in Seq(BlockType)
      /\ \A b \in DOMAIN Blocks :
           Blocks[b].family = "v4" => Blocks[b].base + Blocks[b].count <= AddrSpace
      /\ {AddrSpace, CancelStride, BatchSize} \subseteq Nat \ {0}
  BY SmartScanAssumption, Zenon DEF SmartScanAssumption
<1>2. \A x \in BlockType : x.family \in {"v4", "v6"} /\ x.base \in Nat /\ x.count \in Nat
  OBVIOUS
<1>. HIDE DEF BlockType
<1>3. Len(Blocks) \in Nat /\ DOMAIN Blocks = 1 .. Len(Blocks)
      /\ \A b \in 1 .. Len(Blocks) : Blocks[b] \in BlockType
  BY <1>1
<1>. QED
  BY <1>1, <1>2, <1>3

\* Before adds up the blocks.
LEMMA BeforeFacts ==
  /\ Len(Blocks) \in Nat
  /\ Before[1] = 0
  /\ \A b \in 1 .. Len(Blocks) : Before[b + 1] = Before[b] + Blocks[b].count
  /\ \A b \in 1 .. (Len(Blocks) + 1) : Before[b] \in Nat
<1>. DEFINE n == Len(Blocks)
            step == [k \in 1 .. n |-> [s \in Nat |-> s + Blocks[k].count]]
            all == [k \in 0 .. n |-> Nat]
            Round(f) == [b \in 1 .. (n + 1) |-> IF b = 1 THEN 0 ELSE f[b - 1] + Blocks[b - 1].count]
            sums == CHOOSE f : f = Round(f)
<1>1. n \in Nat /\ \A b \in 1 .. n : Blocks[b].count \in Nat
  BY BlockTypes
<1>2. /\ 0 \in all[0]
      /\ \A k \in 1 .. n : \A s \in all[k - 1] : step[k][s] \in all[k]
  <2>1. 0 \in 0 .. n /\ \A k \in 0 .. n : all[k] = Nat
    BY <1>1
  <2>2. \A k \in 1 .. n : k \in 0 .. n /\ k - 1 \in 0 .. n
    BY <1>1
  <2>3. \A k \in 1 .. n : \A s \in Nat : step[k][s] = s + Blocks[k].count
    OBVIOUS
  <2>. HIDE DEF all, step
  <2>4. ASSUME NEW k \in 1 .. n, NEW s \in all[k - 1]
        PROVE  step[k][s] \in all[k]
    <3>1. s \in Nat /\ all[k] = Nat /\ Blocks[k].count \in Nat
      BY <1>1, <2>1, <2>2
    <3>2. step[k][s] = s + Blocks[k].count
      BY <2>3, <3>1
    <3>3. s + Blocks[k].count \in Nat
      BY <3>1
    <3>. QED
      BY <3>1, <3>2, <3>3
  <2>. QED
    BY <2>1, <2>4
<1>3. PICK f : Repeats(f, n, 0, step) /\ \A k \in 0 .. n : f[k] \in all[k]
  <2>. HIDE DEF all, step
  <2>. QED
    BY <1>1, <1>2, RepeatsWithin
<1>. DEFINE g == [b \in 1 .. (n + 1) |-> f[b - 1]]
<1>4. f[0] = 0 /\ \A k \in 1 .. n : f[k] = f[k - 1] + Blocks[k].count
  <2>. DEFINE h == [k \in 0 .. n |-> IF k = 0 THEN 0 ELSE step[k][f[k - 1]]]
  <2>1. f = h
    BY <1>3 DEF Repeats
  <2>2. h[0] = 0 /\ \A k \in 1 .. n : h[k] = step[k][f[k - 1]]
    BY <1>1
  <2>3. \A k \in 1 .. n : f[k - 1] \in Nat /\ step[k][f[k - 1]] = f[k - 1] + Blocks[k].count
    BY <1>1, <1>3
  <2>. HIDE DEF h, step
  <2>. QED
    BY <2>1, <2>2, <2>3
<1>5. \A b \in 1 .. (n + 1) : g[b] = IF b = 1 THEN 0 ELSE g[b - 1] + Blocks[b - 1].count
  <2>. SUFFICES ASSUME NEW b \in 1 .. (n + 1)
       PROVE  g[b] = IF b = 1 THEN 0 ELSE g[b - 1] + Blocks[b - 1].count
    OBVIOUS
  <2>1. CASE b = 1
    BY <1>4, <2>1
  <2>2. CASE b # 1
    <3>1. b - 1 \in 1 .. n /\ b - 1 \in 1 .. (n + 1)
      BY <1>1, <2>2
    <3>2. g[b] = f[b - 1] /\ g[b - 1] = f[(b - 1) - 1]
      BY <3>1
    <3>. QED
      BY <1>4, <2>2, <3>1, <3>2
  <2>. QED
    BY <2>1, <2>2
<1>6. g = Round(g)
  <2>1. g = [b \in 1 .. (n + 1) |-> g[b]]
    OBVIOUS
  <2>. HIDE DEF g
  <2>. QED
    BY <1>5, <2>1
<1>7. sums = Round(sums)
  <2>. HIDE DEF g
  <2>. QED
    BY <1>6
<1>8. Before = sums
  BY DEF Before
<1>. HIDE DEF sums
<1>9. Before[1] = 0 /\ \A b \in 1 .. n : Before[b + 1] = Before[b] + Blocks[b].count
  <2>. DEFINE r == Round(Before)
  <2>1. \A b \in 1 .. n : b + 1 \in 1 .. (n + 1) /\ b + 1 # 1 /\ (b + 1) - 1 = b
    BY <1>1
  <2>2. r[1] = 0
    BY <1>1
  <2>3. \A b \in 1 .. n : r[b + 1] = Before[b] + Blocks[b].count
    BY <2>1
  <2>4. Before = r
    BY <1>7, <1>8
  <2>. HIDE DEF r
  <2>. QED
    BY <2>2, <2>3, <2>4
<1>10. \A b \in 1 .. (n + 1) : Before[b] \in Nat
  <2>. DEFINE c == [k \in 0 .. n |-> Before[k + 1]]
  <2>1. c[0] \in all[0]
    BY <1>1, <1>9
  <2>2. \A k \in 1 .. n : c[k - 1] \in all[k - 1] => c[k] \in all[k]
    <3>. SUFFICES ASSUME NEW k \in 1 .. n, c[k - 1] \in Nat PROVE c[k] \in Nat
      <4>1. \A k \in 1 .. n : k - 1 \in 0 .. n /\ k \in 0 .. n
        BY <1>1
      <4>. HIDE DEF c
      <4>. QED
        BY <4>1
    <3>1. c[k - 1] = Before[k] /\ c[k] = Before[k + 1]
      BY <1>1
    <3>. QED
      BY <1>1, <1>9, <3>1
  <2>3. \A k \in 0 .. n : c[k] \in all[k]
    <3>. HIDE DEF all, c
    <3>. QED
      BY <1>1, <2>1, <2>2, StaysWithin
  <2>4. \A b \in 1 .. (n + 1) : b - 1 \in 0 .. n /\ c[b - 1] = Before[b]
    BY <1>1
  <2>. QED
    BY <2>3, <2>4
<1>. QED
  BY <1>1, <1>9, <1>10

\* Every index is in one block, and has an address.
LEMMA BlockFacts ==
  /\ Count \in Nat
  /\ \A i \in 0 .. (Count - 1) :
       /\ BlockOf(i) \in DOMAIN Blocks
       /\ Offset(i) \in 0 .. (Blocks[BlockOf(i)].count - 1)
<1>1. /\ Len(Blocks) \in Nat /\ Before[1] = 0
      /\ \A b \in 1 .. Len(Blocks) : Before[b + 1] = Before[b] + Blocks[b].count
      /\ \A b \in 1 .. (Len(Blocks) + 1) : Before[b] \in Nat
  BY BeforeFacts
<1>2. Count \in Nat
  BY <1>1 DEF Count
<1>3. DOMAIN Blocks = 1 .. Len(Blocks) /\ \A b \in DOMAIN Blocks : Blocks[b].count \in Nat
  BY BlockTypes
<1>4. ASSUME NEW i \in 0 .. (Count - 1)
      PROVE  /\ BlockOf(i) \in DOMAIN Blocks
             /\ Offset(i) \in 0 .. (Blocks[BlockOf(i)].count - 1)
  <2>. DEFINE In(b) == Before[b] <= i /\ i < Before[b + 1]
              all == [k \in 0 .. Len(Blocks) |-> {s \in BOOLEAN : s =>
                        \/ Before[k + 1] <= i
                        \/ \E b \in 1 .. k : In(b)}]
              yes == [k \in 0 .. Len(Blocks) |-> TRUE]
  <2>1. yes[0] \in all[0]
    BY <1>1
  <2>2. ASSUME NEW k \in 1 .. Len(Blocks), yes[k - 1] \in all[k - 1]
        PROVE  yes[k] \in all[k]
    <3>1. k - 1 \in 0 .. Len(Blocks) /\ k \in 0 .. Len(Blocks) /\ (k - 1) + 1 = k
      BY <1>1
    <3>2. Before[k] <= i \/ \E b \in 1 .. (k - 1) : In(b)
      BY <2>2, <3>1
    <3>3. Before[k + 1] <= i \/ \E b \in 1 .. k : In(b)
      <4>1. CASE Before[k] <= i
        <5>1. Before[k + 1] \in Nat /\ i \in Nat
          BY <1>1, <1>2
        <5>. QED
          BY <4>1, <5>1
      <4>2. CASE \E b \in 1 .. (k - 1) : In(b)
        BY <4>2
      <4>. QED
        BY <3>2, <4>1, <4>2
    <3>. QED
      BY <3>1, <3>3
  <2>3. \A k \in 0 .. Len(Blocks) : yes[k] \in all[k]
    <3>. HIDE DEF all, yes
    <3>. QED
      BY <1>1, <2>1, <2>2, StaysWithin
  <2>4. Before[Len(Blocks) + 1] <= i \/ \E b \in 1 .. Len(Blocks) : In(b)
    BY <1>1, <2>3
  <2>5. \E b \in DOMAIN Blocks : In(b)
    BY <1>2, <1>3, <2>4 DEF Count
  <2>6. BlockOf(i) \in DOMAIN Blocks /\ In(BlockOf(i))
    BY <2>5 DEF BlockOf
  <2>7. Before[BlockOf(i) + 1] = Before[BlockOf(i)] + Blocks[BlockOf(i)].count
        /\ Before[BlockOf(i)] \in Nat /\ Blocks[BlockOf(i)].count \in Nat
    BY <1>1, <1>3, <2>6
  <2>. QED
    BY <2>6, <2>7 DEF Offset
<1>. QED
  BY <1>2, <1>4

\* pickIPv4 agrees with PickIP, and a block is of one of two families.
LEMMA AddressFacts ==
  ASSUME NEW i \in 0 .. (Count - 1)
  PROVE  /\ PickIP(i) \in Targets
         /\ IsV4(i) => PickIPv4(i) = PickIP(i)
         /\ ~IsV4(i) => PickIP(i).family = "v6"
<1>. DEFINE b == BlockOf(i)
<1>1. b \in DOMAIN Blocks /\ Offset(i) \in 0 .. (Blocks[b].count - 1)
  BY BlockFacts
<1>2. /\ Blocks[b].family \in {"v4", "v6"} /\ Blocks[b].base \in Nat /\ Blocks[b].count \in Nat
      /\ Blocks[b].family = "v4" => Blocks[b].base + Blocks[b].count <= AddrSpace
      /\ AddrSpace \in Nat \ {0}
  BY <1>1, BlockTypes
<1>3. PickIP(i) \in Targets
  BY DEF Targets
<1>4. PickIP(i) = Address(Blocks[b].family, Blocks[b].base + Offset(i))
  BY DEF PickIP
<1>5. ASSUME IsV4(i)
      PROVE  PickIPv4(i) = PickIP(i)
  <2>. DEFINE m == Blocks[b].base + Offset(i)
  <2>1. Blocks[b].family = "v4"
    BY <1>5 DEF IsV4
  <2>2. m \in Nat /\ m < AddrSpace
    BY <1>1, <1>2, <2>1
  <2>. HIDE DEF m
  <2>3. m % AddrSpace = m
    BY <1>2, <2>2
  <2>4. PickIPv4(i) = Address("v4", m % AddrSpace)
    BY DEF PickIPv4, m
  <2>. QED
    BY <1>4, <2>1, <2>3, <2>4 DEF m
<1>6. ~IsV4(i) => PickIP(i).family = "v6"
  BY <1>2, <1>4 DEF IsV4, Address
<1>. QED
  BY <1>3, <1>5, <1>6

\* What the assumption says of the constants, one by one.
LEMMA ConstantTypes ==
  /\ Retries \in Nat /\ Rate \in Nat /\ BatchSize \in Nat \ {0} /\ MaxPort \in Nat
  /\ WithPort \in Seq(Addresses \X Numbered)
  /\ PortOptions \subseteq OptionType /\ Modes \subseteq {"connect", "verify", "raw"}
  /\ NoPort \in PortType /\ Idle \in AgentType
<1>1. /\ {AddrSpace, CancelStride, BatchSize} \subseteq Nat \ {0}
      /\ {Retries, Rate, PortThreshold} \subseteq Nat
      /\ WithPort \in Seq(Addresses \X (0 .. MaxPort))
      /\ PortOptions \subseteq OptionType /\ Modes \subseteq {"connect", "verify", "raw"}
  BY SmartScanAssumption, Zenon DEF SmartScanAssumption
<1>2. MaxPort \in Nat
  BY PortSpecAssumption DEF PortSpecAssumption
<1>3. NoPort \in PortType
  BY <1>2 DEF NoPort, Port, PortType
<1>4. Idle \in AgentType
  BY <1>1, <1>3 DEF Idle, AgentType
<1>. QED
  BY <1>1, <1>2, <1>3, <1>4 DEF Numbered

\* Every seed gives an order in which each address comes.
Order(seed) == Shuffles[1 + (seed % Len(Shuffles))]

LEMMA OrderFacts ==
  ASSUME NEW seed \in Nat
  PROVE  /\ \A i \in 0 .. (Count - 1) : Order(seed)[i] \in 0 .. (Count - 1)
         /\ \A ip \in Targets : \E i \in 0 .. (Count - 1) : PickIP(Order(seed)[i]) = ip
<1>. DEFINE I == 0 .. (Count - 1)
            k == 1 + (seed % Len(Shuffles))
<1>1. /\ Shuffles # <<>> /\ Shuffles \in Seq([I -> I])
      /\ \A m \in DOMAIN Shuffles : \A i \in I : \E j \in I : Shuffles[m][j] = i
  BY SmartScanAssumption, Zenon DEF SmartScanAssumption
<1>. DEFINE F == [I -> I]
<1>2. Shuffles \in Seq(F) /\ Shuffles # <<>>
  BY <1>1
<1>. HIDE DEF F
<1>3. Len(Shuffles) \in Nat /\ Len(Shuffles) # 0 /\ DOMAIN Shuffles = 1 .. Len(Shuffles)
      /\ \A m \in 1 .. Len(Shuffles) : Shuffles[m] \in F
  BY <1>2
<1>4. k \in 1 .. Len(Shuffles)
  <2>. DEFINE L == Len(Shuffles)
  <2>1. L \in Nat /\ L > 0 /\ k = 1 + (seed % L)
    BY <1>3
  <2>. HIDE DEF L
  <2>2. seed % L \in 0 .. (L - 1)
    BY <2>1
  <2>3. 1 + (seed % L) \in 1 .. L
    BY <2>1, <2>2
  <2>. QED
    BY <2>1, <2>3 DEF L
<1>5. Order(seed) = Shuffles[k]
  BY DEF Order
<1>. HIDE DEF k, I
<1>6. Order(seed) \in F /\ \A i \in I : \E j \in I : Order(seed)[j] = i
  BY <1>1, <1>3, <1>4, <1>5
<1>7. \A i \in I : Order(seed)[i] \in I
  BY <1>6 DEF F
<1>8. \A ip \in Targets : \E j \in I : PickIP(Order(seed)[j]) = ip
  BY <1>6 DEF Targets, I
<1>. QED
  BY <1>7, <1>8 DEF I

-----------------------------------------------------------------------------
(* The invariant.                                                          *)

PairType == AddrsKnown \X PortType

\* Types, and what the place of the main goroutine says of its variables: only
\* a raw scan has a fast sender, and only within a port has that a batch.
TypeInv ==
  /\ pc \in {"parse", "begin", "collect", "store", "pop", "deal", "spawn",
             "withPort", "done", "fatal"}
  /\ options \in PortOptions /\ mode \in Modes
  /\ sender \in BOOLEAN /\ (sender => Raw)
  /\ ports \in Seq(PortType) /\ popped \in Seq(PortType) /\ port \in PortType
  /\ retry \in 0 .. Retries /\ queuePtr \in 0 .. Retries
  /\ (pc = "store" \/ Draining => retry < Retries)
  /\ (Draining => queuePtr = retry + 1)
  /\ knownOpen \subseteq Numbered /\ brSeed \in Nat /\ index \in Nat
  /\ (pc = "deal" => index <= Count) /\ (pc = "spawn" => index < Count /\ ~Raw)
  /\ batch \subseteq PairType /\ IsFiniteSet(batch) /\ Cardinality(batch) < BatchSize
  /\ (pc # "deal" \/ ~sender => batch = {})
  /\ tried \subseteq PairType /\ probed \subseteq PairType
  /\ agent \in [Agents -> AgentType]
  /\ \A a \in Agents : agent[a].at # "idle" => agent[a].ip \in AddrsKnown
  /\ found \in [AddrsKnown -> SUBSET Numbered]
  /\ output \in {"before", "ranging", "after"} /\ toShow \subseteq AddrsKnown
  /\ waiting \subseteq Writers

\* The ports of the list are those taken and those that wait.
QueueInv ==
  /\ queue \in Heaps
  /\ ~Draining => queue.items = <<>>
  /\ Draining =>
       \A K : Counted(K, ports) = Counted(K, popped) + Counted(K, PortsOf(queue.items))
  /\ Draining =>
       \A n \in Numbered :
         Once(n) /\ Counted(NumberIs(n), PortsOf(queue.items)) >= 1 => n \in DOMAIN queue.index

\* In a connect scan the goroutines of one retry are over before the next one
\* collects, and report to the queue of their own.
OrderInv ==
  mode = "connect" =>
    /\ agent[Worker] = Idle
    /\ pc \in {"parse", "begin", "collect", "store"} =>
         \A k \in Slots : agent[k] = Idle
    /\ pc = "store" => OpenNumbers \subseteq knownOpen
    /\ Draining => \A k \in Slots : agent[k].at = "loaded" => agent[k].ptr = queuePtr
    /\ OpenPortsOrderTheQueue

\* The reasons for which a pair needs no probe any more.
Settled(ip, p) ==
  \/ <<ip, p>> \in tried \union batch
  \/ ip \in Excluded \/ ip \in skipped
  \/ p.number \in found[ip] \/ CdnBlocked(ip, p.number)

\* The ports that were taken are done with on every address, the one at hand
\* on those it came to.
TriedInv ==
  (Draining /\ ~cancelled) =>
    /\ \A k \in 1 .. Len(popped) :
         pc = "pop" \/ popped[k] # port => \A ip \in Targets : Settled(ip, popped[k])
    /\ pc # "pop" =>
         \A i \in 0 .. (index - 1) : Settled(PickIP(Order(brSeed)[i]), port)

Allowed(pair) ==
  pair[1] \in Excluded =>
    \/ <<pair[1], pair[2].number>> \in ToSet(WithPort) /\ pair[2].proto = "tcp"
    \/ sender /\ pair[1].family = "v6" /\ pair[2].proto = "tcp"

\* No excluded address is in the batch, or is about to be probed.
ExclusionInv ==
  /\ pc \in {"parse", "begin"} => ~sender
  /\ \A pair \in probed \union batch : Allowed(pair)
  /\ pc = "spawn" => Ip \notin Excluded

RequestInv == pc \notin {"parse", "fatal"} => Requested(options, ports)

\* A port that is the only one of its number waits with the evidence there is.
EvidenceInv ==
  Draining =>
    \A n \in Numbered :
      Once(n) => Holds(queue, n, InitialPriority(knownOpen \cup boosted, n))

Inv ==
  /\ TypeInv /\ QueueInv /\ EvidenceInv
  /\ OrderInv /\ TriedInv /\ ExclusionInv /\ RequestInv

-----------------------------------------------------------------------------
(* Types.                                                                  *)

\* The address at hand, and the ip:port at hand.
LEMMA AtHand ==
  ASSUME TypeInv
  PROVE  /\ index < Count =>
              /\ Permuted \in 0 .. (Count - 1) /\ Permuted = Order(brSeed)[index]
              /\ index \in 0 .. (Count - 1)
              /\ Ip = PickIP(Order(brSeed)[index]) /\ Ip \in Targets /\ Ip \in AddrsKnown
         /\ index < Len(WithPort) =>
              /\ Explicit \in ToSet(WithPort) /\ Explicit = <<Explicit[1], Explicit[2]>>
              /\ Explicit[1] \in AddrsKnown /\ Explicit[2] \in Numbered
<1>1. brSeed \in Nat /\ index \in Nat
  BY DEF TypeInv
<1>2. ASSUME index < Count
      PROVE  /\ Permuted \in 0 .. (Count - 1) /\ Permuted = Order(brSeed)[index]
             /\ index \in 0 .. (Count - 1)
             /\ Ip = PickIP(Order(brSeed)[index]) /\ Ip \in Targets /\ Ip \in AddrsKnown
  <2>1. index \in 0 .. (Count - 1)
    BY <1>1, <1>2, BlockFacts
  <2>2. Permuted = Order(brSeed)[index]
    BY DEF Permuted, Order
  <2>3. Permuted \in 0 .. (Count - 1)
    BY <1>1, <2>1, <2>2, OrderFacts
  <2>4. PickIP(Permuted) \in Targets /\ (IsV4(Permuted) => PickIPv4(Permuted) = PickIP(Permuted))
    BY <2>3, AddressFacts
  <2>5. Ip = PickIP(Permuted)
    BY <2>4 DEF Ip
  <2>. QED
    BY <2>1, <2>2, <2>3, <2>4, <2>5 DEF AddrsKnown
<1>3. ASSUME index < Len(WithPort)
      PROVE  /\ Explicit \in ToSet(WithPort) /\ Explicit = <<Explicit[1], Explicit[2]>>
             /\ Explicit[1] \in AddrsKnown /\ Explicit[2] \in Numbered
  <2>. DEFINE T == Addresses \X Numbered
  <2>1. WithPort \in Seq(T)
    BY ConstantTypes
  <2>. HIDE DEF T
  <2>2. index + 1 \in DOMAIN WithPort /\ WithPort[index + 1] \in T
    BY <1>1, <1>3, <2>1
  <2>3. Explicit \in ToSet(WithPort) /\ Explicit \in T
    BY <2>2 DEF Explicit, ToSet
  <2>4. Explicit = <<Explicit[1], Explicit[2]>> /\ Explicit[2] \in Numbered
    BY <2>3 DEF T
  <2>. QED
    BY <2>3, <2>4 DEF AddrsKnown
<1>. QED
  BY <1>2, <1>3

\* A free slot is one of the slots.
LEMMA FreeSlot ==
  ASSUME FreeSlots # {}
  PROVE  Min(FreeSlots) \in FreeSlots
<1>1. FreeSlots \in SUBSET Nat
  BY ConstantTypes DEF FreeSlots, Slots
<1>2. \E x \in FreeSlots : \A y \in FreeSlots : x <= y
  BY <1>1, LeastNumber
<1>. QED
  BY <1>2 DEF Min

\* What launching and sending do to the variables of a probe.
LEMMA LaunchKeeps ==
  ASSUME TypeInv, NEW ip \in AddrsKnown, NEW p \in PortType, Launch(ip, p)
  PROVE  /\ agent' \in [Agents -> AgentType]
         /\ \A a \in Agents : agent'[a].at # "idle" => agent'[a].ip \in AddrsKnown
         /\ tried' \subseteq PairType /\ probed' \subseteq PairType
         /\ batch' = batch /\ found' = found /\ cancelled' = cancelled
         /\ UNCHANGED <<toShow, output, waiting>>
         /\ agent'[Worker] = agent[Worker]
         /\ \A k \in Slots : \/ agent'[k] = agent[k]
                             \/ agent[k] = Idle /\ agent'[k].at = "started"
<1>. DEFINE k == Min(FreeSlots)
            r == At("started", ip, p, 0)
<1>1. k \in FreeSlots
  BY FreeSlot DEF Launch
<1>2. k \in Slots /\ k # Worker /\ k \in Agents /\ agent[k] = Idle
  BY <1>1, ConstantTypes DEF FreeSlots, Slots, Worker, Agents
<1>3. r \in AgentType /\ r.ip \in AddrsKnown /\ r.at = "started"
  BY ConstantTypes DEF At, AgentType
<1>4. /\ agent \in [Agents -> AgentType]
      /\ \A a \in Agents : agent[a].at # "idle" => agent[a].ip \in AddrsKnown
  BY DEF TypeInv
<1>. HIDE DEF k, r
<1>5. agent' = [agent EXCEPT ![k] = r]
  BY DEF Launch, k, r
<1>6. agent' \in [Agents -> AgentType]
      /\ agent'[k] = r /\ \A a \in Agents \ {k} : agent'[a] = agent[a]
  BY <1>2, <1>3, <1>4, <1>5
<1>7. Worker \in Agents \ {k} /\ Slots \subseteq Agents
  BY <1>2 DEF Agents
<1>8. <<ip, p>> \in PairType
  BY DEF PairType
<1>9. tried \subseteq PairType /\ probed \subseteq PairType
  BY DEF TypeInv
<1>10. tried' = tried \cup {<<ip, p>>} /\ probed' = probed \cup {<<ip, p>>}
       /\ batch' = batch /\ found' = found /\ cancelled' = cancelled
       /\ UNCHANGED <<toShow, output, waiting>>
  BY DEF Launch, Send, handler
<1>11. \A s \in Slots : \/ agent'[s] = agent[s]
                        \/ agent[s] = Idle /\ agent'[s].at = "started"
  BY <1>2, <1>3, <1>6, <1>7
<1>12. \A a \in Agents : agent'[a].at # "idle" => agent'[a].ip \in AddrsKnown
  BY <1>3, <1>4, <1>6
<1>13. tried' \subseteq PairType /\ probed' \subseteq PairType
  BY <1>8, <1>9, <1>10
<1>. QED
  BY <1>6, <1>7, <1>10, <1>11, <1>12, <1>13

\* The agents keep their types when one of them changes as the code has it.
LEMMA AgentStep ==
  ASSUME TypeInv, NEW a \in Agents, NEW r \in AgentType,
         r.at # "idle" => r.ip \in AddrsKnown,
         agent' = [agent EXCEPT ![a] = r]
  PROVE  /\ agent' \in [Agents -> AgentType]
         /\ \A k \in Agents : agent'[k].at # "idle" => agent'[k].ip \in AddrsKnown
         /\ agent'[a] = r /\ \A k \in Agents \ {a} : agent'[k] = agent[k]
<1>1. /\ agent \in [Agents -> AgentType]
      /\ \A k \in Agents : agent[k].at # "idle" => agent[k].ip \in AddrsKnown
  BY DEF TypeInv
<1>2. agent' \in [Agents -> AgentType]
      /\ agent'[a] = r /\ \A k \in Agents \ {a} : agent'[k] = agent[k]
  BY <1>1
<1>. QED
  BY <1>1, <1>2

\* What a goroutine that may report does to its place and to the store.
AgentSteps(a) ==
  /\ agent' \in [Agents -> AgentType]
  /\ \A k \in Agents : agent'[k].at # "idle" => agent'[k].ip \in AddrsKnown
  /\ \A k \in Agents \ {a} : agent'[k] = agent[k]
  /\ found' \in [AddrsKnown -> SUBSET Numbered]
  /\ \A ip \in AddrsKnown : found[ip] \subseteq found'[ip]
  /\ waiting' \subseteq waiting

LEMMA FoundGrows ==
  ASSUME TypeInv, NEW ip \in AddrsKnown, NEW n \in Numbered,
         found' = [found EXCEPT ![ip] = @ \union {n}]
  PROVE  /\ found' \in [AddrsKnown -> SUBSET Numbered]
         /\ \A x \in AddrsKnown : found[x] \subseteq found'[x]
         /\ \A x \in AddrsKnown : found'[x] \subseteq found[x] \cup {n}
<1>1. found \in [AddrsKnown -> SUBSET Numbered]
  BY DEF TypeInv
<1>. QED
  BY <1>1

LEMMA ProbeSteps ==
  ASSUME TypeInv, NEW k \in Slots, Probe(k)
  PROVE  /\ AgentSteps(k) /\ k \in Agents /\ Frame /\ UNCHANGED <<queue, boosted>>
         /\ agent'[k].at = "loaded" => mode # "verify" /\ agent'[k].ptr = queuePtr
         /\ agent[k].at \in {"started", "dialing"}
         /\ \/ found' = found /\ agent'[k].at # "loaded"
            \/ /\ \A ip \in AddrsKnown : found'[ip] \subseteq found[ip] \cup {agent[k].port.number}
               /\ mode # "verify" =>
                    agent'[k].at = "loaded" /\ agent'[k].port = agent[k].port
<1>1. k \in Agents /\ agent[k] \in AgentType /\ queuePtr \in 0 .. Retries
      /\ found \in [AddrsKnown -> SUBSET Numbered]
  BY DEF TypeInv, Agents
<1>2. agent[k].port \in PortType /\ agent[k].port.number \in Numbered
  BY <1>1 DEF AgentType, PortType, Numbered
<1>3. Idle \in AgentType /\ Idle.at = "idle"
  BY ConstantTypes DEF Idle
<1>4. CASE ProbeReturns(k) \/ ProbeClosed(k)
  <2>1. agent' = [agent EXCEPT ![k] = Idle] /\ found' = found
        /\ agent[k].at \in {"started", "dialing"}
        /\ Frame /\ UNCHANGED <<queue, boosted, waiting>>
    BY <1>4 DEF ProbeReturns, ProbeClosed, GiveBack
  <2>. QED
    BY <1>1, <1>3, <2>1, AgentStep DEF AgentSteps
<1>5. CASE ProbeDials(k)
  <2>. DEFINE r == [agent[k] EXCEPT !.at = "dialing"]
  <2>1. agent' = [agent EXCEPT ![k] = r] /\ found' = found /\ agent[k].at = "started"
        /\ Frame /\ UNCHANGED <<queue, boosted, waiting>>
    BY <1>5 DEF ProbeDials
  <2>2. r \in AgentType /\ r.at = "dialing" /\ r.ip = agent[k].ip
    BY <1>1 DEF AgentType
  <2>3. agent[k].ip \in AddrsKnown
    BY <1>1, <2>1 DEF TypeInv
  <2>. HIDE DEF r
  <2>. QED
    BY <1>1, <2>1, <2>2, <2>3, AgentStep DEF AgentSteps
<1>6. CASE ProbeOpen(k)
  <2>. DEFINE n == agent[k].port.number
              r == IF mode = "verify" THEN Idle
                   ELSE [agent[k] EXCEPT !.at = "loaded", !.ptr = queuePtr]
  <2>1. agent' = [agent EXCEPT ![k] = r] /\ agent[k].at = "dialing"
        /\ found' = [found EXCEPT ![agent[k].ip] = @ \union {n}]
        /\ Frame /\ UNCHANGED <<queue, boosted>> /\ waiting' \subseteq waiting
    BY <1>6 DEF ProbeOpen, Connected, Written
  <2>2. agent[k].ip \in AddrsKnown
    BY <1>1, <2>1 DEF TypeInv
  <2>3. mode # "verify" =>
          /\ r \in AgentType /\ r.at = "loaded" /\ r.ptr = queuePtr
          /\ r.ip = agent[k].ip /\ r.port = agent[k].port
    BY <1>1 DEF AgentType
  <2>4. r \in AgentType /\ (r.at # "idle" => r.ip \in AddrsKnown)
    BY <1>3, <2>2, <2>3
  <2>5. mode = "verify" => r.at = "idle"
    BY <1>3
  <2>. HIDE DEF r
  <2>6. AgentSteps(k) /\ agent'[k] = r
    BY <1>1, <1>2, <2>1, <2>2, <2>4, AgentStep, FoundGrows DEF AgentSteps
  <2>7. \A ip \in AddrsKnown : found'[ip] \subseteq found[ip] \cup {n}
    BY <1>2, <2>1, <2>2, FoundGrows
  <2>. QED
    BY <1>1, <2>1, <2>3, <2>5, <2>6, <2>7
<1>. QED
  BY <1>4, <1>5, <1>6 DEF Probe

LEMMA AnswerSteps ==
  ASSUME TypeInv, ReceiveTcp \/ ReceiveUdp \/ Record
  PROVE  /\ AgentSteps(Worker) /\ Frame /\ UNCHANGED <<queue, boosted>>
         /\ Raw \/ agent[Worker] # Idle
<1>1. /\ Worker \in Agents /\ agent \in [Agents -> AgentType]
      /\ probed \subseteq PairType /\ queuePtr \in 0 .. Retries
      /\ found \in [AddrsKnown -> SUBSET Numbered]
      /\ \A k \in Agents : agent[k].at # "idle" => agent[k].ip \in AddrsKnown
  BY DEF TypeInv, Agents
<1>2. Idle \in AgentType /\ Idle.at = "idle" /\ Retries \in Nat
  BY ConstantTypes DEF Idle
<1>3. \A pair \in probed : /\ pair[1] \in AddrsKnown /\ pair[2] \in PortType
                           /\ pair[2].number \in Numbered
  BY <1>1 DEF PairType, PortType, Numbered
<1>4. CASE ReceiveTcp
  <2>1. PICK pair \in probed :
          agent' = [agent EXCEPT ![Worker] =
                      At("loaded", pair[1], pair[2],
                         IF receive = "wrapped" THEN queuePtr ELSE 0)]
    BY <1>4 DEF ReceiveTcp
  <2>. DEFINE r == At("loaded", pair[1], pair[2],
                      IF receive = "wrapped" THEN queuePtr ELSE 0)
  <2>2. r \in AgentType /\ r.ip \in AddrsKnown
    BY <1>1, <1>2, <1>3 DEF At, AgentType
  <2>3. found' = found /\ Frame /\ UNCHANGED <<queue, boosted, waiting>> /\ Raw
    BY <1>4 DEF ReceiveTcp
  <2>4. agent' = [agent EXCEPT ![Worker] = r]
    BY <2>1
  <2>. HIDE DEF r
  <2>. QED
    BY <1>1, <2>2, <2>3, <2>4, AgentStep DEF AgentSteps
<1>5. CASE ReceiveUdp
  <2>1. PICK pair \in probed :
          found' = [found EXCEPT ![pair[1]] = @ \union {pair[2].number}]
    BY <1>5 DEF ReceiveUdp, UdpAnswers
  <2>2. agent' = agent /\ Frame /\ UNCHANGED <<queue, boosted>> /\ Raw
        /\ waiting' \subseteq waiting
    BY <1>5 DEF ReceiveUdp, Written
  <2>. QED
    BY <1>1, <1>3, <2>1, <2>2, FoundGrows DEF AgentSteps
<1>6. CASE Record
  <2>. DEFINE w == agent[Worker]
  <2>1. /\ w.at = "record" /\ found' = [found EXCEPT ![w.ip] = @ \union {w.port.number}]
        /\ agent' = [agent EXCEPT ![Worker] = Idle]
        /\ Frame /\ UNCHANGED <<queue, boosted>> /\ waiting' \subseteq waiting
    BY <1>6 DEF Record, Written
  <2>2. w.ip \in AddrsKnown /\ w.port.number \in Numbered /\ w # Idle
    BY <1>1, <1>2, <2>1 DEF AgentType, PortType, Numbered
  <2>. QED
    BY <1>1, <1>2, <2>1, <2>2, AgentStep, FoundGrows DEF AgentSteps
<1>. QED
  BY <1>4, <1>5, <1>6

LEMMA BoostSteps ==
  ASSUME TypeInv, queue \in Heaps, NEW a \in Agents, Boost(a)
  PROVE  /\ AgentSteps(a) /\ Frame /\ found' = found /\ agent[a].at = "loaded"
         /\ agent'[a].at \in {"idle", "record"}
         /\ a \in Slots => agent'[a].at = "idle"
         /\ Alike(queue, queue', Len(queue.items))
         /\ boosted \subseteq boosted'
         /\ agent[a].ptr # 0 /\ agent[a].ptr = queuePtr => agent[a].port.number \in boosted'
         /\ queue' \in Heaps
         /\ \/ UNCHANGED <<queue, boosted>>
            \/ \E open : boosted' = boosted \cup {open} /\ RaisedFor(open, queue, queue')
<1>1. /\ agent[a] \in AgentType /\ found \in [AddrsKnown -> SUBSET Numbered]
      /\ agent[a].at # "idle" => agent[a].ip \in AddrsKnown
  BY DEF TypeInv
<1>2. Idle \in AgentType /\ Idle.at = "idle"
  BY ConstantTypes DEF Idle
<1>3. Frame /\ found' = found /\ agent[a].at = "loaded" /\ waiting' = waiting
  BY DEF Boost
<1>4. agent[a].port.number \in Numbered
  BY <1>1 DEF AgentType, PortType, Numbered
<1>. DEFINE r == IF a = Worker THEN [agent[a] EXCEPT !.at = "record"] ELSE Idle
<1>5. agent' = [agent EXCEPT ![a] = r]
  BY DEF Boost
<1>6. [agent[a] EXCEPT !.at = "record"] \in AgentType
      /\ [agent[a] EXCEPT !.at = "record"].ip = agent[a].ip
      /\ [agent[a] EXCEPT !.at = "record"].at = "record"
  BY <1>1 DEF AgentType
<1>7. /\ r \in AgentType /\ (r.at # "idle" => r.ip \in AddrsKnown)
      /\ r.at \in {"idle", "record"} /\ (a # Worker => r.at = "idle")
  BY <1>1, <1>2, <1>3, <1>6
<1>8. a \in Slots => a # Worker
  BY ConstantTypes DEF Slots, Worker
<1>. HIDE DEF r
<1>9. AgentSteps(a) /\ agent'[a] = r
  BY <1>1, <1>3, <1>5, <1>7, AgentStep DEF AgentSteps
<1>10. /\ Alike(queue, queue', Len(queue.items)) /\ boosted \subseteq boosted'
       /\ agent[a].ptr # 0 /\ agent[a].ptr = queuePtr => agent[a].port.number \in boosted'
       /\ queue' \in Heaps
       /\ \/ UNCHANGED <<queue, boosted>>
          \/ \E o : boosted' = boosted \cup {o} /\ RaisedFor(o, queue, queue')
  <2>. DEFINE open == agent[a].port.number
  <2>1. CASE agent[a].ptr # 0 /\ agent[a].ptr = queuePtr
    <3>1. PICK targets \in Walks(queue, open) : queue' = boostCorrelated(queue, open, targets)
      BY <2>1 DEF Boost
    <3>2. boosted' = boosted \union {open}
      BY <2>1 DEF Boost
    <3>. HIDE DEF open
    <3>3. /\ Alike(queue, queue', Len(queue.items)) /\ queue' \in Heaps
          /\ RaisedFor(open, queue, queue')
      BY <1>4, <3>1, BoostKeeps DEF open
    <3>. QED
      BY <3>2, <3>3 DEF open
  <2>2. CASE ~(agent[a].ptr # 0 /\ agent[a].ptr = queuePtr)
    <3>1. queue' = queue /\ boosted' = boosted
      BY <2>2 DEF Boost
    <3>. QED
      BY <2>2, <3>1, HeapFacts, AlikeChains
  <2>. QED
    BY <2>1, <2>2
<1>. QED
  BY <1>3, <1>7, <1>8, <1>9, <1>10

\* Steps of the agents.
LEMMA TypeAgents ==
  ASSUME TypeInv, Frame, NEW a \in Agents, AgentSteps(a)
  PROVE  TypeInv'
BY DEF TypeInv, Frame, handler, AgentSteps, mainVars, given, setup, round, place, Draining, Raw

\* Steps that send or launch one pair, or none.
LEMMA TypeSends ==
  ASSUME TypeInv, Sends
  PROVE  TypeInv'
<1>1. /\ index \in Nat /\ Count \in Nat /\ port \in PortType
      /\ batch \subseteq PairType /\ IsFiniteSet(batch) /\ Cardinality(batch) < BatchSize
  BY BlockFacts DEF TypeInv
<1>2. ASSUME Dealing
      PROVE  /\ Ip \in AddrsKnown /\ <<Ip, port>> \in PairType
             /\ pc = "deal" /\ index + 1 \in Nat /\ index + 1 <= Count
  BY <1>1, <1>2, AtHand DEF Dealing, PairType
<1>3. CASE PassOver
  BY <1>2, <1>3 DEF TypeInv, PassOver, NextAddress, given, setup, round, queueVars,
                    sendVars, shared, handler, Draining, Raw
<1>4. CASE SkipHost
  BY <1>2, <1>4 DEF TypeInv, SkipHost, TooManyPorts, Written, NextAddress, given, setup,
                    round, queueVars, sendVars, handler, Draining, Raw
<1>5. CASE SendFast
  <2>. DEFINE full == batch \cup {<<Ip, port>>}
  <2>1. /\ full \subseteq PairType /\ IsFiniteSet(full) /\ Cardinality(full) \in Nat
    BY <1>1, <1>2, <1>5, FS_AddElement, FS_CardinalityType DEF SendFast
  <2>2. Cardinality({}) = 0 /\ IsFiniteSet({}) /\ 0 < BatchSize
    BY FS_EmptySet, ConstantTypes
  <2>3. /\ batch' \subseteq PairType /\ IsFiniteSet(batch') /\ Cardinality(batch') < BatchSize
        /\ tried' \subseteq PairType /\ probed' \subseteq PairType
    <3>1. CASE Cardinality(full) < BatchSize
      BY <1>5, <2>1, <3>1 DEF SendFast, TypeInv
    <3>2. CASE ~(Cardinality(full) < BatchSize)
      BY <1>5, <2>1, <2>2, <3>2 DEF SendFast, Send, TypeInv
    <3>. QED
      BY <3>1, <3>2
  <2>4. sender
    BY <1>5 DEF SendFast, FastPath
  <2>5. UNCHANGED <<pc, given, setup, round, queueVars, skipped, shared>> /\ NextAddress
    BY <1>5 DEF SendFast
  <2>. QED
    BY <1>2, <1>5, <2>3, <2>4, <2>5
    DEF TypeInv, SendFast, NextAddress, given, setup, round, queueVars, shared, handler, Draining, Raw
<1>6. CASE SendStandard
  BY <1>2, <1>6 DEF TypeInv, SendStandard, NextAddress, Send, given, setup, round, queueVars,
                    shared, handler, Draining, Raw
<1>7. CASE Admit
  BY <1>1, <1>7 DEF TypeInv, Admit, Dealing, given, setup, round, place, queueVars,
                    sendVars, shared, handler, Draining, Raw
<1>8. CASE Spawn
  <2>1. index < Count /\ pc = "spawn"
    BY <1>8 DEF TypeInv, Spawn
  <2>2. Ip \in AddrsKnown /\ index + 1 \in Nat /\ index + 1 <= Count
    BY <1>1, <2>1, AtHand
  <2>3. Launch(Ip, port) /\ NextAddress /\ pc' = "deal"
        /\ UNCHANGED <<given, setup, round, queueVars, skipped>>
    BY <1>8 DEF Spawn
  <2>4. /\ agent' \in [Agents -> AgentType]
        /\ \A a \in Agents : agent'[a].at # "idle" => agent'[a].ip \in AddrsKnown
        /\ tried' \subseteq PairType /\ probed' \subseteq PairType
        /\ batch' = batch /\ found' = found /\ UNCHANGED <<toShow, output, waiting>>
    BY <1>1, <2>2, <2>3, LaunchKeeps
  <2>. QED
    BY <2>1, <2>2, <2>3, <2>4
    DEF TypeInv, NextAddress, given, setup, round, queueVars, Draining, Raw
<1>. QED
  BY <1>3, <1>4, <1>5, <1>6, <1>7, <1>8 DEF Sends

LEMMA TypeControl ==
  ASSUME TypeInv, Control
  PROVE  TypeInv'
<1>1. /\ Retries \in Nat /\ Cardinality({}) = 0 /\ IsFiniteSet({}) /\ 0 < BatchSize
      /\ Count \in Nat /\ found \in [AddrsKnown -> SUBSET Numbered]
  BY FS_EmptySet, ConstantTypes, BlockFacts DEF TypeInv
<1>2. CASE BeginScan
  BY <1>2 DEF TypeInv, BeginScan, given, round, place, queueVars, sendVars, shared, handler, Draining, Raw
<1>3. CASE CollectOpen
  <2>1. OpenNumbers \subseteq Numbered
    BY <1>1 DEF OpenNumbers
  <2>. QED
    BY <1>1, <1>3, <2>1 DEF TypeInv, CollectOpen, given, setup, place, queueVars, sendVars,
                            shared, handler, Draining, Raw
<1>4. CASE EndRetry
  BY <1>1, <1>4 DEF TypeInv, EndRetry, given, setup, place, queueVars, sendVars, shared, handler,
                    Draining, Raw
<1>5. CASE Detach
  BY <1>1, <1>5 DEF TypeInv, Detach, given, setup, queueVars, sendVars, shared, handler, Draining, Raw
<1>6. CASE Sends
  BY <1>6, TypeSends
<1>7. CASE EndPort
  BY <1>1, <1>7 DEF TypeInv, EndPort, Flush, Send, given, setup, round, place, queueVars,
                    shared, handler, Draining, Raw
<1>8. CASE RawWithPort
  <2>. DEFINE pair == <<Explicit[1], Port(Explicit[2], "tcp")>>
  <2>1. pair \in PairType
    BY <1>8, AtHand DEF RawWithPort, Port, PortType, Numbered, PairType
  <2>2. \/ tried' = tried /\ probed' = probed
        \/ tried' = tried \cup {pair} /\ probed' = probed \cup {pair}
    BY <1>8 DEF RawWithPort, Send
  <2>3. /\ tried' \subseteq PairType /\ probed' \subseteq PairType
    BY <2>1, <2>2 DEF TypeInv
  <2>4. /\ pc = "withPort" /\ NextAddress
        /\ UNCHANGED <<pc, given, setup, round, queueVars, batch, skipped, shared>>
    BY <1>8 DEF RawWithPort
  <2>. QED
    BY <2>3, <2>4 DEF TypeInv, NextAddress, given, setup, round, queueVars, shared, handler, Draining, Raw
<1>9. CASE SpawnWithPort
  <2>. DEFINE p == Port(Explicit[2], "tcp")
  <2>1. Explicit[1] \in AddrsKnown /\ p \in PortType
    BY <1>9, AtHand DEF SpawnWithPort, Port, PortType, Numbered
  <2>2. /\ pc = "withPort" /\ Launch(Explicit[1], p) /\ NextAddress
        /\ UNCHANGED <<pc, given, setup, round, queueVars, skipped>>
    BY <1>9 DEF SpawnWithPort
  <2>. HIDE DEF p
  <2>3. /\ agent' \in [Agents -> AgentType]
        /\ \A a \in Agents : agent'[a].at # "idle" => agent'[a].ip \in AddrsKnown
        /\ tried' \subseteq PairType /\ probed' \subseteq PairType
        /\ batch' = batch /\ found' = found /\ UNCHANGED <<toShow, output, waiting>>
    BY <2>1, <2>2, LaunchKeeps
  <2>. QED
    BY <2>2, <2>3 DEF TypeInv, NextAddress, given, setup, round, queueVars, Draining, Raw
<1>10. CASE EndScan
  BY <1>10 DEF TypeInv, EndScan, given, round, place, queueVars, sendVars, shared, handler, Draining, Raw
<1>. QED
  BY <1>2, <1>3, <1>4, <1>5, <1>6, <1>7, <1>8, <1>9, <1>10 DEF Control

LEMMA TypeMain ==
  ASSUME TypeInv, queue \in Heaps, Main
  PROVE  TypeInv'
<1>1. CASE ParsePortOptions
  <2>1. ParsePorts(options).ports \in Seq(PortType)
    BY ConstantTypes, ParsedAsRequested DEF TypeInv
  <2>2. ports' \in Seq(PortType) /\ pc' \in {"begin", "fatal"} /\ pc = "parse"
        /\ UNCHANGED <<given, sender, receive, round, place, queueVars, sendVars,
                       skipped, shared>>
    BY <1>1, <2>1 DEF ParsePortOptions
  <2>. QED
    BY <2>2 DEF TypeInv, given, round, place, queueVars, sendVars, shared, handler, Draining, Raw
<1>2. CASE StoreQueue
  <2>1. <<>> \in Seq(PortType) /\ Retries \in Nat
    BY ConstantTypes
  <2>. QED
    BY <1>2, <2>1 DEF TypeInv, StoreQueue, given, setup, place, shared, handler, Draining, Raw
<1>3. CASE PopPort
  <2>1. port' \in PortType
    BY <1>3, PopKeeps DEF PopPort
  <2>2. popped' \in Seq(PortType)
    BY <1>3, <2>1 DEF PopPort, TypeInv
  <2>3. index' = 0 /\ 0 <= Count /\ Count \in Nat
    BY <1>3, BlockFacts DEF PopPort
  <2>. QED
    BY <1>3, <2>1, <2>2, <2>3 DEF TypeInv, PopPort, given, setup, sendVars, shared, handler, Draining, Raw
<1>4. CASE Control
  BY <1>4, TypeControl
<1>. QED
  BY <1>1, <1>2, <1>3, <1>4 DEF Main

\* The handler, and who waits for the lock, change nothing else.
Quiet ==
  Handler \/ Terminated \/ UNCHANGED vars \/ \E g \in Writers : WaitInLock(g)

LEMMA QuietSteps ==
  ASSUME Quiet
  PROVE  /\ UNCHANGED <<mainVars, queue, boosted, tried, probed, agent, found>>
         /\ cancelled' = cancelled \/ cancelled'
         /\ toShow' \subseteq toShow \union AddrsKnown
         /\ waiting' \subseteq waiting \union Writers
         /\ output' = output \/ output' \in {"ranging", "after"}
<1>1. CASE Handler
  BY <1>1 DEF Handler, Interrupt, GetIPsPorts, NextHost, EndOutput, HandlerFrame
<1>2. CASE Terminated \/ UNCHANGED vars
  BY <1>2 DEF Terminated, vars, shared, handler
<1>3. CASE \E g \in Writers : WaitInLock(g)
  BY <1>3 DEF WaitInLock, Frame, handler
<1>. QED
  BY <1>1, <1>2, <1>3 DEF Quiet

LEMMA TypeStep ==
  ASSUME TypeInv, queue \in Heaps, [Next]_vars
  PROVE  TypeInv'
<1>1. CASE Main
  BY <1>1, TypeMain
<1>2. CASE ReceiveTcp \/ ReceiveUdp \/ Record
  BY <1>2, AnswerSteps, TypeAgents DEF Agents
<1>3. CASE \E k \in Slots : Probe(k)
  BY <1>3, ProbeSteps, TypeAgents
<1>4. CASE \E a \in Agents : Boost(a)
  BY <1>4, BoostSteps, TypeAgents
<1>5. CASE Quiet
  BY <1>5, QuietSteps DEF TypeInv, mainVars, given, setup, round, place, Draining, Raw
<1>. QED
  BY <1>1, <1>2, <1>3, <1>4, <1>5 DEF Next, Quiet

-----------------------------------------------------------------------------
(* The queue in the scan.                                                  *)

\* Control neither fills nor empties the queue, and leaves what is found alone.
LEMMA ControlFacts ==
  ASSUME TypeInv, Control
  PROVE  /\ UNCHANGED <<given, ports, popped, queue, boosted, found, cancelled>>
         /\ Draining' => Draining /\ UNCHANGED <<retry, knownOpen, queuePtr, brSeed, port>>
         /\ Draining /\ ~Draining' => queue.items = <<>>
         /\ pc \notin {"parse", "fatal"} /\ pc' \notin {"parse", "fatal"}
<1>1. CASE BeginScan
  BY <1>1 DEF BeginScan, Draining, round, place, queueVars, sendVars, shared, handler
<1>2. CASE CollectOpen
  BY <1>2 DEF CollectOpen, Draining, setup, place, queueVars, sendVars, shared, handler
<1>3. CASE EndRetry
  BY <1>3 DEF EndRetry, Draining, setup, place, queueVars, sendVars, shared, handler
<1>4. CASE Detach
  BY <1>4 DEF Detach, Draining, setup, place, queueVars, sendVars, shared, handler
<1>5. CASE PassOver \/ SkipHost \/ SendFast \/ SendStandard
  BY <1>5 DEF PassOver, SkipHost, TooManyPorts, SendFast, SendStandard, Dealing, NextAddress,
              Draining, setup, round, place, queueVars, sendVars, shared, handler
<1>6. CASE Admit \/ Spawn
  BY <1>6 DEF Admit, Spawn, Launch, Dealing, NextAddress, Draining, setup, round, place,
              queueVars, sendVars, shared, handler
<1>7. CASE EndPort
  BY <1>7 DEF EndPort, Draining, setup, round, place, queueVars, sendVars, shared, handler
<1>8. CASE RawWithPort \/ SpawnWithPort
  BY <1>8 DEF RawWithPort, SpawnWithPort, Launch, NextAddress, Draining, setup, round, place,
              queueVars, sendVars, shared, handler
<1>9. CASE EndScan
  BY <1>9 DEF EndScan, Draining, round, place, queueVars, sendVars, shared, handler
<1>. QED
  BY <1>1, <1>2, <1>3, <1>4, <1>5, <1>6, <1>7, <1>8, <1>9 DEF Control, Sends

LEMMA OnceCounted ==
  ASSUME NEW list \in Seq(PortType), NEW n
  PROVE  Cardinality({i \in DOMAIN list : list[i].number = n}) = Counted(NumberIs(n), list)
<1>1. DOMAIN list = 1 .. Len(list) /\ \A i \in 1 .. Len(list) : list[i] \in PortType
  OBVIOUS
<1>2. {i \in DOMAIN list : list[i].number = n} = Places(NumberIs(n), list)
  BY <1>1 DEF Places, NumberIs
<1>. QED
  BY <1>2 DEF Counted

\* A new queue holds the list.
LEMMA QueueStored ==
  ASSUME TypeInv, StoreQueue
  PROVE  QueueInv'
<1>1. /\ ports \in Seq(PortType) /\ knownOpen \in SUBSET Numbered /\ ports' = ports
      /\ queue' = newPortQueue(ports, knownOpen) /\ popped' = <<>> /\ Draining'
  BY DEF TypeInv, StoreQueue, setup, Draining
<1>2. /\ queue' \in Heaps
      /\ \A K : Counted(K, PortsOf(queue'.items)) = Counted(K, ports)
      /\ \A i \in 1 .. Len(ports) : ports[i].number \in DOMAIN queue'.index
  BY <1>1, NewQueue
<1>3. \A K : Counted(K, <<>>) = 0
  <2>1. \A K : Places(K, <<>>) = {}
    BY DEF Places
  <2>. QED
    BY <2>1, FS_EmptySet DEF Counted
<1>4. \A K : Counted(K, ports) \in Nat
             /\ (Counted(K, ports) = 0 <=> \A i \in 1 .. Len(ports) : ports[i] \notin K)
  BY <1>1, CountedType
<1>5. \A K : Counted(K, ports') = Counted(K, popped') + Counted(K, PortsOf(queue'.items))
  BY <1>1, <1>2, <1>3, <1>4
<1>6. ASSUME NEW n \in Numbered, Counted(NumberIs(n), PortsOf(queue'.items)) >= 1
      PROVE  n \in DOMAIN queue'.index
  <2>1. PICK i \in 1 .. Len(ports) : ports[i] \in NumberIs(n)
    BY <1>2, <1>4, <1>6
  <2>. QED
    BY <1>2, <2>1 DEF NumberIs
<1>. QED
  BY <1>1, <1>2, <1>5, <1>6 DEF QueueInv

\* What is taken from it is remembered.
LEMMA QueuePopped ==
  ASSUME TypeInv, QueueInv, PopPort
  PROVE  QueueInv'
<1>. DEFINE p == queue.items[1].port
<1>1. /\ ports \in Seq(PortType) /\ popped \in Seq(PortType) /\ ports' = ports
      /\ queue \in Heaps /\ queue.items # <<>> /\ queue' = PopBest(queue)
      /\ popped' = Append(popped, p) /\ Draining /\ Draining'
  BY DEF TypeInv, QueueInv, PopPort, setup, Draining
<1>2. /\ queue' \in Heaps /\ p \in PortType
      /\ \A K : Counted(K, PortsOf(queue.items))
                  = Counted(K, PortsOf(queue'.items)) + IF p \in K THEN 1 ELSE 0
      /\ DOMAIN queue.index \ {p.number} \subseteq DOMAIN queue'.index
  BY <1>1, PopKeeps
<1>. HIDE DEF p
<1>3. \A K : Counted(K, popped') = Counted(K, popped) + IF p \in K THEN 1 ELSE 0
  BY <1>1, <1>2, CountedAppend
<1>4. \A K : /\ Counted(K, popped) \in Nat /\ Counted(K, ports) \in Nat
             /\ Counted(K, PortsOf(queue'.items)) \in Nat
  BY <1>1, <1>2, CountedType, HeapFacts, QueueFacts
<1>5. \A K : Counted(K, ports') = Counted(K, popped') + Counted(K, PortsOf(queue'.items))
  <2>. SUFFICES ASSUME NEW K
       PROVE  Counted(K, ports') = Counted(K, popped') + Counted(K, PortsOf(queue'.items))
    OBVIOUS
  <2>1. Counted(K, ports) = Counted(K, popped) + Counted(K, PortsOf(queue.items))
    BY <1>1 DEF QueueInv
  <2>. QED
    BY <1>1, <1>2, <1>3, <1>4, <2>1
<1>6. ASSUME NEW n \in Numbered, Once(n)', Counted(NumberIs(n), PortsOf(queue'.items)) >= 1
      PROVE  n \in DOMAIN queue'.index
  <2>. DEFINE K == NumberIs(n)
  <2>1. Once(n) /\ Counted(K, ports) = 1
    BY <1>1, <1>6, OnceCounted DEF Once
  <2>2. Counted(K, ports) = Counted(K, popped) + Counted(K, PortsOf(queue.items))
    BY <1>1 DEF QueueInv
  <2>3. p \notin K
    <3>. HIDE DEF K
    <3>. QED
      BY <1>2, <1>4, <1>6, <2>1, <2>2 DEF K
  <2>4. Counted(K, PortsOf(queue.items)) = Counted(K, PortsOf(queue'.items))
    <3>. HIDE DEF K
    <3>. QED
      BY <1>2, <1>4, <2>3
  <2>5. n \in DOMAIN queue.index
    BY <1>1, <1>6, <2>1, <2>4 DEF QueueInv
  <2>6. p.number # n
    BY <1>2, <2>3 DEF NumberIs
  <2>. QED
    BY <1>2, <2>5, <2>6
<1>. QED
  BY <1>1, <1>2, <1>5, <1>6 DEF QueueInv

\* A boost only moves what waits.
LEMMA QueueBoosted ==
  ASSUME TypeInv, QueueInv, NEW a \in Agents, Boost(a)
  PROVE  QueueInv'
<1>1. /\ queue \in Heaps /\ Frame /\ Alike(queue, queue', Len(queue.items))
      /\ queue' \in Heaps
  BY BoostSteps DEF QueueInv
<1>2. /\ ports' = ports /\ popped' = popped /\ (Draining' <=> Draining)
  BY <1>1 DEF Frame, handler, mainVars, setup, Draining
<1>3. /\ Len(queue'.items) = Len(queue.items)
      /\ \A K : Counted(K, PortsOf(queue'.items)) = Counted(K, PortsOf(queue.items))
      /\ DOMAIN queue.index \subseteq DOMAIN queue'.index
  BY <1>1 DEF Alike
<1>4. \A n : Once(n)' <=> Once(n)
  BY <1>2 DEF Once
<1>5. queue.items = <<>> => queue'.items = <<>>
  <2>1. queue'.items \in Seq(Items)
    BY <1>1, HeapFacts, QueueFacts
  <2>. DEFINE s == queue'.items
  <2>2. queue.items = <<>> => Len(s) = 0
    BY <1>3
  <2>. HIDE DEF s
  <2>3. s \in Seq(Items)
    BY <2>1 DEF s
  <2>. QED
    BY <2>2, <2>3 DEF s
<1>6. QueueInv
  OBVIOUS
<1>. QED
  BY <1>1, <1>2, <1>3, <1>4, <1>5, <1>6 DEF QueueInv

LEMMA QueueStep ==
  ASSUME TypeInv, QueueInv, [Next]_vars
  PROVE  QueueInv'
<1>1. ASSUME UNCHANGED <<queue, popped, ports>>, Draining' <=> Draining
      PROVE  QueueInv'
  <2>1. \A n : Once(n)' <=> Once(n)
    BY <1>1 DEF Once
  <2>. QED
    BY <1>1, <2>1 DEF QueueInv
<1>2. CASE ParsePortOptions
  BY <1>2 DEF ParsePortOptions, QueueInv, queueVars, Draining
<1>3. CASE StoreQueue
  BY <1>3, QueueStored
<1>4. CASE PopPort
  BY <1>4, QueuePopped
<1>5. CASE Control
  <2>1. /\ UNCHANGED <<ports, popped, queue>> /\ (Draining' => Draining)
        /\ (Draining /\ ~Draining' => queue.items = <<>>)
    BY <1>5, ControlFacts
  <2>2. CASE Draining' <=> Draining
    BY <1>1, <2>1, <2>2
  <2>3. CASE ~Draining'
    BY <2>1, <2>3 DEF QueueInv
  <2>. QED
    BY <2>1, <2>2, <2>3
<1>6. CASE ReceiveTcp \/ ReceiveUdp \/ Record
  BY <1>1, <1>6, AnswerSteps DEF Frame, handler, mainVars, setup, Draining
<1>7. CASE \E k \in Slots : Probe(k)
  BY <1>1, <1>7, ProbeSteps DEF Frame, handler, mainVars, setup, Draining
<1>8. CASE \E a \in Agents : Boost(a)
  BY <1>8, QueueBoosted
<1>9. CASE Quiet
  BY <1>1, <1>9, QuietSteps DEF mainVars, setup, Draining
<1>. QED
  BY <1>2, <1>3, <1>4, <1>5, <1>6, <1>7, <1>8, <1>9 DEF Next, Main, Quiet

-----------------------------------------------------------------------------
(* The evidence for the ports that wait.                                   *)

\* Nothing waits with a wrong priority where nothing waits; and what the list
\* holds once is in the map while it waits, and alone.
LEMMA WaitsOnce ==
  ASSUME TypeInv, QueueInv, Draining, NEW n \in Numbered, Once(n)
  PROVE  /\ Single(queue, n)
         /\ \/ n \in DOMAIN queue.index
            \/ \A v, r : Alike(queue, r, Len(queue.items)) => Holds(r, n, v)
<1>. DEFINE K == NumberIs(n)
            c == Counted(K, PortsOf(queue.items))
<1>1. /\ ports \in Seq(PortType) /\ popped \in Seq(PortType) /\ queue \in Queues
      /\ PortsOf(queue.items) \in Seq(PortType)
  BY HeapFacts, QueueFacts DEF TypeInv, QueueInv
<1>2. Counted(K, ports) = 1
  BY <1>1, OnceCounted DEF Once
<1>3. Counted(K, ports) = Counted(K, popped) + c
  BY DEF QueueInv
<1>4. c \in Nat /\ Counted(K, popped) \in Nat
  BY <1>1, CountedType
<1>5. Single(queue, n)
  BY <1>2, <1>3, <1>4 DEF Single
<1>6. c >= 1 => n \in DOMAIN queue.index
  BY DEF QueueInv
<1>7. ASSUME c = 0, NEW v, NEW r, Alike(queue, r, Len(queue.items))
      PROVE  Holds(r, n, v)
  <2>. DEFINE ps == PortsOf(r.items)
  <2>1. /\ r \in Queues /\ Counted(K, ps) = 0 /\ ps \in Seq(PortType) /\ Len(ps) = Len(r.items)
        /\ \A k \in 1 .. Len(r.items) : ps[k] = r.items[k].port /\ ps[k] \in PortType
    BY <1>7, QueueFacts DEF Alike
  <2>. HIDE DEF ps
  <2>2. \A k \in 1 .. Len(r.items) : ps[k] \notin K
    BY <2>1, CountedType
  <2>3. \A k \in 1 .. Len(r.items) : NumberOf(r.items[k]) # n
    BY <2>1, <2>2 DEF NumberIs, NumberOf
  <2>. QED
    BY <2>3 DEF Holds
<1>. QED
  BY <1>4, <1>5, <1>6, <1>7

LEMMA EvidenceBoosted ==
  ASSUME TypeInv, QueueInv, EvidenceInv, NEW a \in Agents, Boost(a)
  PROVE  EvidenceInv'
<1>. SUFFICES ASSUME Draining', NEW n \in Numbered, Once(n)'
     PROVE  Holds(queue', n, InitialPriority((knownOpen \cup boosted)', n))
  BY DEF EvidenceInv
<1>1. /\ queue \in Heaps /\ Frame /\ Alike(queue, queue', Len(queue.items))
      /\ \/ UNCHANGED <<queue, boosted>>
         \/ \E open : boosted' = boosted \cup {open} /\ RaisedFor(open, queue, queue')
  BY BoostSteps DEF QueueInv
<1>2. /\ UNCHANGED <<ports, knownOpen>> /\ Draining
  BY <1>1 DEF Frame, handler, mainVars, setup, round, Draining
<1>3. Once(n)
  BY <1>2 DEF Once
<1>. DEFINE known == knownOpen \cup boosted
            v == InitialPriority(known, n)
<1>4. Holds(queue, n, v)
  BY <1>2, <1>3 DEF EvidenceInv
<1>5. Single(queue, n)
      /\ (n \in DOMAIN queue.index \/ \A w : Holds(queue', n, w))
  BY <1>1, <1>2, <1>3, WaitsOnce
<1>6. CASE UNCHANGED <<queue, boosted>>
  BY <1>2, <1>4, <1>6
<1>7. ASSUME NEW open, boosted' = boosted \cup {open}, RaisedFor(open, queue, queue')
      PROVE  Holds(queue', n, InitialPriority((knownOpen \cup boosted)', n))
  <2>1. (knownOpen \cup boosted)' = known \cup {open} /\ n \in Nat
    BY <1>2, <1>7, PortSpecAssumption DEF Numbered
  <2>. HIDE DEF known
  <2>2. /\ v \in Nat
        /\ InitialPriority(known \cup {open}, n) = Higher(v, Probability(Model, open, n))
    BY <2>1, PriorityFacts
  <2>. HIDE DEF v
  <2>3. n \in DOMAIN queue.index => Holds(queue', n, Higher(v, Probability(Model, open, n)))
    BY <1>4, <1>5, <1>7, <2>2 DEF RaisedFor
  <2>. QED
    BY <1>5, <2>1, <2>2, <2>3
<1>. QED
  BY <1>1, <1>6, <1>7

LEMMA EvidenceStep ==
  ASSUME TypeInv, QueueInv, EvidenceInv, [Next]_vars
  PROVE  EvidenceInv'
<1>1. ASSUME UNCHANGED <<queue, knownOpen, boosted, ports>>, Draining' => Draining
      PROVE  EvidenceInv'
  <2>1. \A n : Once(n)' <=> Once(n)
    BY <1>1 DEF Once
  <2>. QED
    BY <1>1, <2>1 DEF EvidenceInv
<1>2. CASE ParsePortOptions
  BY <1>2 DEF ParsePortOptions, EvidenceInv, Draining
<1>3. CASE StoreQueue
  <2>1. /\ ports \in Seq(PortType) /\ knownOpen \in SUBSET Numbered /\ ports' = ports
        /\ queue' = newPortQueue(ports, knownOpen) /\ knownOpen' = knownOpen /\ boosted' = {}
    BY <1>3 DEF TypeInv, StoreQueue, setup
  <2>2. \A n : Holds(queue', n, InitialPriority(knownOpen, n))
    BY <2>1, NewQueue
  <2>3. (knownOpen \cup boosted)' = knownOpen
    BY <2>1
  <2>. QED
    BY <2>2, <2>3 DEF EvidenceInv
<1>4. CASE PopPort
  <2>1. /\ queue \in Heaps /\ queue.items # <<>> /\ queue' = PopBest(queue)
        /\ UNCHANGED <<ports, knownOpen, boosted>> /\ Draining
    BY <1>4 DEF QueueInv, PopPort, setup, Draining
  <2>2. \A n, v : Holds(queue, n, v) => Holds(queue', n, v)
    BY <2>1, PopKeeps
  <2>3. \A n : Once(n)' <=> Once(n)
    BY <2>1 DEF Once
  <2>. QED
    BY <2>1, <2>2, <2>3 DEF EvidenceInv
<1>5. CASE Control
  <2>1. UNCHANGED <<ports, queue, boosted>> /\ (Draining' => Draining /\ knownOpen' = knownOpen)
    BY <1>5, ControlFacts
  <2>2. CASE Draining'
    BY <1>1, <2>1, <2>2
  <2>3. CASE ~Draining'
    BY <2>3 DEF EvidenceInv
  <2>. QED
    BY <2>2, <2>3
<1>6. CASE ReceiveTcp \/ ReceiveUdp \/ Record
  BY <1>1, <1>6, AnswerSteps DEF Frame, handler, mainVars, setup, round, Draining
<1>7. CASE \E k \in Slots : Probe(k)
  BY <1>1, <1>7, ProbeSteps DEF Frame, handler, mainVars, setup, round, Draining
<1>8. CASE \E a \in Agents : Boost(a)
  BY <1>8, EvidenceBoosted
<1>9. CASE Quiet
  BY <1>1, <1>9, QuietSteps DEF mainVars, setup, round, Draining
<1>. QED
  BY <1>2, <1>3, <1>4, <1>5, <1>6, <1>7, <1>8, <1>9 DEF Next, Main, Quiet

-----------------------------------------------------------------------------
(* The order of the ports and what is open.                                *)

\* Control starts goroutines in free slots and touches no other; it comes to a
\* retry only when the slots of a connect scan are free.
LEMMA ControlAgents ==
  ASSUME TypeInv, Control
  PROVE  /\ agent'[Worker] = agent[Worker]
         /\ \A k \in Slots : \/ agent'[k] = agent[k]
                             \/ agent[k] = Idle /\ agent'[k].at = "started"
         /\ pc' \in {"parse", "begin", "collect", "store"} =>
              /\ agent' = agent
              /\ \/ pc \in {"begin", "collect"}
                 \/ Raw \/ FreeSlots = Slots
         /\ pc' = "store" => knownOpen' = OpenNumbers
<1>1. CASE BeginScan \/ CollectOpen \/ EndRetry \/ Detach \/ EndPort \/ EndScan
  BY <1>1 DEF BeginScan, CollectOpen, EndRetry, Detach, EndPort, EndScan, RetryWait, shared, handler
<1>2. CASE PassOver \/ SkipHost \/ SendFast \/ SendStandard \/ Admit
  BY <1>2 DEF PassOver, SkipHost, TooManyPorts, SendFast, SendStandard, Admit, Dealing,
              shared, handler
<1>3. CASE Spawn
  <2>1. Ip \in AddrsKnown /\ port \in PortType /\ Launch(Ip, port) /\ pc' = "deal"
    BY <1>3, AtHand DEF TypeInv, Spawn
  <2>. QED
    BY <2>1, LaunchKeeps
<1>4. CASE RawWithPort
  BY <1>4 DEF RawWithPort, shared, handler
<1>5. CASE SpawnWithPort
  <2>. DEFINE p == Port(Explicit[2], "tcp")
  <2>1. Explicit[1] \in AddrsKnown /\ p \in PortType
    BY <1>5, AtHand DEF SpawnWithPort, Port, PortType, Numbered
  <2>2. Launch(Explicit[1], p) /\ pc' = "withPort"
    BY <1>5 DEF SpawnWithPort
  <2>. HIDE DEF p
  <2>. QED
    BY <2>1, <2>2, LaunchKeeps
<1>. QED
  BY <1>1, <1>2, <1>3, <1>4, <1>5 DEF Control, Sends

\* The numbers on their way to this queue.
Arriving == {agent[a].port.number :
               a \in {k \in Slots : agent[k].at = "loaded" /\ agent[k].ptr = queuePtr}}

LEMMA OrderControl ==
  ASSUME TypeInv, OrderInv, Control
  PROVE  OrderInv'
<1>. SUFFICES ASSUME mode' = "connect" PROVE OrderInv'
  BY DEF OrderInv
<1>1. /\ UNCHANGED <<given, found, boosted>>
      /\ Draining' => Draining /\ UNCHANGED <<queuePtr, knownOpen>>
  BY ControlFacts
<1>2. mode = "connect" /\ ~Raw /\ OpenNumbers' = OpenNumbers
  BY <1>1 DEF given, Raw, OpenNumbers
<1>3. /\ agent[Worker] = Idle
      /\ pc \in {"parse", "begin", "collect", "store"} => \A k \in Slots : agent[k] = Idle
      /\ Draining => \A k \in Slots : agent[k].at = "loaded" => agent[k].ptr = queuePtr
      /\ Draining => OpenNumbers \subseteq knownOpen \cup boosted \cup Arriving
  BY <1>2 DEF OrderInv, OpenPortsOrderTheQueue, Arriving
<1>4. Idle.at = "idle"
  BY DEF Idle
<1>5. agent'[Worker] = Idle
  BY <1>3, ControlAgents
<1>6. ASSUME pc' \in {"parse", "begin", "collect", "store"}
      PROVE  \A k \in Slots : agent'[k] = Idle
  BY <1>2, <1>3, <1>6, ControlAgents DEF FreeSlots
<1>7. pc' = "store" => OpenNumbers' \subseteq knownOpen'
  BY <1>2, ControlAgents
<1>8. ASSUME Draining'
      PROVE  /\ \A k \in Slots : agent'[k].at = "loaded" => agent'[k].ptr = queuePtr'
             /\ Arriving \subseteq Arriving'
  <2>1. /\ Draining /\ queuePtr' = queuePtr
        /\ \A k \in Slots : \/ agent'[k] = agent[k]
                            \/ agent[k] = Idle /\ agent'[k].at = "started"
    BY <1>1, <1>8, ControlAgents
  <2>. QED
    BY <1>3, <1>4, <2>1 DEF Arriving
<1>9. Draining' => OpenNumbers' \subseteq knownOpen' \cup boosted' \cup Arriving'
  BY <1>1, <1>2, <1>3, <1>8
<1>. QED
  BY <1>5, <1>6, <1>7, <1>8, <1>9 DEF OrderInv, OpenPortsOrderTheQueue, Arriving

LEMMA OrderProbe ==
  ASSUME TypeInv, OrderInv, NEW k \in Slots, Probe(k)
  PROVE  OrderInv'
<1>. SUFFICES ASSUME mode' = "connect" PROVE OrderInv'
  BY DEF OrderInv
<1>1. /\ AgentSteps(k) /\ k \in Agents /\ Frame /\ boosted' = boosted
      /\ agent'[k].at = "loaded" => agent'[k].ptr = queuePtr
      /\ agent[k].at \in {"started", "dialing"}
      /\ \/ found' = found /\ agent'[k].at # "loaded"
         \/ /\ \A ip \in AddrsKnown : found'[ip] \subseteq found[ip] \cup {agent[k].port.number}
            /\ mode # "verify" => agent'[k].at = "loaded" /\ agent'[k].port = agent[k].port
  BY ProbeSteps
<1>2. /\ mode = "connect" /\ UNCHANGED <<pc, queuePtr, knownOpen>> /\ (Draining' <=> Draining)
  BY <1>1 DEF Frame, handler, mainVars, given, round, Draining
<1>3. /\ agent[Worker] = Idle
      /\ pc \in {"parse", "begin", "collect", "store"} => \A s \in Slots : agent[s] = Idle
      /\ Draining => \A s \in Slots : agent[s].at = "loaded" => agent[s].ptr = queuePtr
      /\ Draining => OpenNumbers \subseteq knownOpen \cup boosted \cup Arriving
  BY <1>2 DEF OrderInv, OpenPortsOrderTheQueue, Arriving
<1>4. pc \notin {"parse", "begin", "collect", "store"}
  BY <1>1, <1>3 DEF Idle
<1>5. k # Worker /\ Worker \in Agents /\ Slots \subseteq Agents
  BY ConstantTypes DEF Slots, Worker, Agents
<1>6. \A s \in Agents \ {k} : agent'[s] = agent[s]
  BY <1>1 DEF AgentSteps
<1>7. agent'[Worker] = Idle
  BY <1>3, <1>5, <1>6
<1>8. Draining' => \A s \in Slots : agent'[s].at = "loaded" => agent'[s].ptr = queuePtr'
  BY <1>1, <1>2, <1>3, <1>5, <1>6
<1>9. Arriving \subseteq Arriving'
  <2>1. \A s \in Slots : agent[s].at = "loaded" => s # k /\ agent'[s] = agent[s]
    BY <1>1, <1>5, <1>6
  <2>. QED
    BY <1>2, <2>1 DEF Arriving
<1>10. OpenNumbers' \subseteq OpenNumbers \cup Arriving'
  <2>1. CASE found' = found
    BY <2>1 DEF OpenNumbers
  <2>2. CASE found' # found
    <3>1. /\ \A ip \in AddrsKnown : found'[ip] \subseteq found[ip] \cup {agent[k].port.number}
          /\ agent'[k].at = "loaded" /\ agent'[k].port = agent[k].port /\ agent'[k].ptr = queuePtr'
      BY <1>1, <1>2, <2>2
    <3>2. agent[k].port.number \in Arriving'
      BY <3>1 DEF Arriving
    <3>. QED
      BY <3>1, <3>2 DEF OpenNumbers
  <2>. QED
    BY <2>1, <2>2
<1>11. Draining' => OpenNumbers' \subseteq knownOpen' \cup boosted' \cup Arriving'
  BY <1>1, <1>2, <1>3, <1>9, <1>10
<1>. QED
  BY <1>2, <1>4, <1>7, <1>8, <1>11 DEF OrderInv, OpenPortsOrderTheQueue, Arriving

LEMMA OrderBoost ==
  ASSUME TypeInv, OrderInv, queue \in Heaps, NEW a \in Agents, Boost(a)
  PROVE  OrderInv'
<1>. SUFFICES ASSUME mode' = "connect" PROVE OrderInv'
  BY DEF OrderInv
<1>1. /\ AgentSteps(a) /\ Frame /\ found' = found /\ agent[a].at = "loaded"
      /\ a \in Slots => agent'[a].at = "idle"
      /\ boosted \subseteq boosted'
      /\ agent[a].ptr # 0 /\ agent[a].ptr = queuePtr => agent[a].port.number \in boosted'
  BY BoostSteps
<1>2. /\ mode = "connect" /\ UNCHANGED <<pc, queuePtr, knownOpen>> /\ (Draining' <=> Draining)
      /\ OpenNumbers' = OpenNumbers
  BY <1>1 DEF Frame, handler, mainVars, given, round, Draining, OpenNumbers
<1>3. /\ agent[Worker] = Idle
      /\ pc \in {"parse", "begin", "collect", "store"} => \A s \in Slots : agent[s] = Idle
      /\ Draining => \A s \in Slots : agent[s].at = "loaded" => agent[s].ptr = queuePtr
      /\ Draining => OpenNumbers \subseteq knownOpen \cup boosted \cup Arriving
  BY <1>2 DEF OrderInv, OpenPortsOrderTheQueue, Arriving
<1>4. a # Worker /\ a \in Slots /\ Worker \in Agents
  BY <1>1, <1>3 DEF Idle, Agents
<1>5. pc \notin {"parse", "begin", "collect", "store"}
  BY <1>1, <1>3, <1>4 DEF Idle
<1>6. \A s \in Agents \ {a} : agent'[s] = agent[s]
  BY <1>1 DEF AgentSteps
<1>7. agent'[Worker] = Idle
  BY <1>3, <1>4, <1>6
<1>8. \A s \in Slots : s \in Agents /\ (agent'[s].at = "loaded" => s # a /\ agent'[s] = agent[s])
  BY <1>1, <1>4, <1>6 DEF Agents
<1>9. Draining' => \A s \in Slots : agent'[s].at = "loaded" => agent'[s].ptr = queuePtr'
  BY <1>2, <1>3, <1>8
<1>10. Draining => Arriving \subseteq Arriving' \cup boosted'
  <2>1. \A s \in Slots : s # a => agent'[s] = agent[s]
    BY <1>6, <1>8
  <2>2. Draining => queuePtr # 0
    BY ConstantTypes DEF TypeInv
  <2>3. Draining => agent[a].port.number \in boosted'
    BY <1>1, <1>3, <1>4, <2>2
  <2>. QED
    BY <1>2, <2>1, <2>3 DEF Arriving
<1>11. Draining' => OpenNumbers' \subseteq knownOpen' \cup boosted' \cup Arriving'
  BY <1>1, <1>2, <1>3, <1>10
<1>. QED
  BY <1>2, <1>5, <1>7, <1>9, <1>11 DEF OrderInv, OpenPortsOrderTheQueue, Arriving

LEMMA OrderStep ==
  ASSUME TypeInv, OrderInv, queue \in Heaps, [Next]_vars
  PROVE  OrderInv'
<1>1. CASE ParsePortOptions
  BY <1>1 DEF ParsePortOptions, OrderInv, OpenPortsOrderTheQueue, Draining, given, round,
              queueVars, shared, handler, OpenNumbers
<1>2. CASE StoreQueue
  <2>1. /\ pc = "store" /\ pc' = "pop" /\ UNCHANGED <<mode, knownOpen, agent, found>>
    BY <1>2 DEF StoreQueue, given, shared, handler
  <2>2. OpenNumbers' = OpenNumbers
    BY <2>1 DEF OpenNumbers
  <2>3. mode = "connect" =>
          /\ agent[Worker] = Idle /\ OpenNumbers \subseteq knownOpen
          /\ \A k \in Slots : agent[k].at = "idle"
    BY <2>1 DEF OrderInv, Idle
  <2>. QED
    BY <2>1, <2>2, <2>3 DEF OrderInv, OpenPortsOrderTheQueue
<1>3. CASE PopPort
  <2>1. /\ Draining /\ Draining' /\ pc' = "deal"
        /\ UNCHANGED <<mode, knownOpen, boosted, queuePtr, agent, found>>
    BY <1>3 DEF PopPort, given, shared, handler, Draining
  <2>2. OpenNumbers' = OpenNumbers
    BY <2>1 DEF OpenNumbers
  <2>. QED
    BY <2>1, <2>2 DEF OrderInv, OpenPortsOrderTheQueue
<1>4. CASE Control
  BY <1>4, OrderControl
<1>5. CASE ReceiveTcp \/ ReceiveUdp \/ Record
  <2>1. (Raw \/ agent[Worker] # Idle) /\ mode' = mode
    BY <1>5, AnswerSteps DEF Frame, handler, mainVars, given
  <2>. QED
    BY <2>1 DEF OrderInv, Raw
<1>6. CASE \E k \in Slots : Probe(k)
  BY <1>6, OrderProbe
<1>7. CASE \E a \in Agents : Boost(a)
  BY <1>7, OrderBoost
<1>8. CASE Quiet
  <2>1. UNCHANGED <<pc, mode, knownOpen, boosted, queuePtr, agent, found>>
    BY <1>8, QuietSteps DEF mainVars, given, round
  <2>2. OpenNumbers' = OpenNumbers /\ (Draining' <=> Draining)
    BY <2>1 DEF OpenNumbers, Draining
  <2>. QED
    BY <2>1, <2>2 DEF OrderInv, OpenPortsOrderTheQueue
<1>. QED
  BY <1>1, <1>2, <1>3, <1>4, <1>5, <1>6, <1>7, <1>8 DEF Next, Main, Quiet

-----------------------------------------------------------------------------
(* The list and the exclusions.                                            *)

LEMMA RequestStep ==
  ASSUME TypeInv, RequestInv, [Next]_vars
  PROVE  RequestInv'
<1>1. CASE ParsePortOptions
  <2>. DEFINE parsed == ParsePorts(options)
  <2>1. parsed.ok => Requested(options, parsed.ports)
    BY ConstantTypes, ParsedAsRequested DEF TypeInv
  <2>2. /\ ports' = parsed.ports /\ options' = options
        /\ pc' = IF parsed.ok THEN "begin" ELSE "fatal"
    BY <1>1 DEF ParsePortOptions, given
  <2>. HIDE DEF parsed
  <2>. QED
    BY <2>1, <2>2 DEF RequestInv
<1>2. ASSUME UNCHANGED <<options, ports>>, pc' \notin {"parse", "fatal"} => pc \notin {"parse", "fatal"}
      PROVE  RequestInv'
  BY <1>2 DEF RequestInv
<1>3. CASE StoreQueue \/ PopPort
  BY <1>2, <1>3 DEF StoreQueue, PopPort, given, setup
<1>4. CASE Control
  BY <1>2, <1>4, ControlFacts DEF given
<1>5. CASE ReceiveTcp \/ ReceiveUdp \/ Record \/ \E k \in Slots : Probe(k)
  BY <1>2, <1>5, AnswerSteps, ProbeSteps DEF Frame, handler, mainVars, given, setup
<1>6. CASE \E a \in Agents : Boost(a)
  BY <1>2, <1>6 DEF Boost, Frame, handler, mainVars, given, setup
<1>7. CASE Quiet
  BY <1>2, <1>7, QuietSteps DEF mainVars, given, setup
<1>. QED
  BY <1>1, <1>3, <1>4, <1>5, <1>6, <1>7 DEF Next, Main, Quiet

\* Every pair that is sent or launched is allowed.
LEMMA ExclusionControl ==
  ASSUME TypeInv, ExclusionInv, Control
  PROVE  ExclusionInv'
<1>1. /\ pc \in {"parse", "begin"} => ~sender
      /\ \A pair \in probed \cup batch : Allowed(pair)
      /\ pc = "spawn" => Ip \notin Excluded
  BY DEF ExclusionInv
<1>2. ASSUME sender' = sender, pc' # "spawn", pc' \notin {"parse", "begin"},
             \A pair \in (probed \cup batch)' : pair \in probed \cup batch \/ Allowed(pair)
      PROVE  ExclusionInv'
  BY <1>1, <1>2 DEF ExclusionInv, Allowed
<1>3. CASE BeginScan
  BY <1>1, <1>3 DEF BeginScan, sendVars, ExclusionInv, Allowed
<1>4. CASE CollectOpen \/ EndRetry \/ Detach
  BY <1>2, <1>4 DEF CollectOpen, EndRetry, Detach, setup, sendVars
<1>5. ASSUME Dealing
      PROVE  index < Count /\ pc = "deal" /\ Ip = PickIP(Permuted)
             /\ (~IsV4(Permuted) => Ip.family = "v6")
  BY <1>5, AtHand, AddressFacts DEF Dealing, TypeInv, Order
<1>6. Wanted => Allowed(<<Ip, port>>)
  BY DEF Wanted, NotWanted, IsExcluded, Allowed
<1>7. CASE PassOver \/ SkipHost
  BY <1>2, <1>5, <1>7 DEF PassOver, SkipHost, TooManyPorts, setup, sendVars
<1>8. CASE SendFast
  <2>1. (probed \cup batch)' \subseteq probed \cup batch \cup {<<Ip, port>>}
    BY <1>8 DEF SendFast, Send
  <2>. QED
    BY <1>2, <1>5, <1>6, <1>8, <2>1 DEF SendFast, setup
<1>9. CASE SendStandard
  <2>1. (probed \cup batch)' = probed \cup batch \cup {<<Ip, port>>}
    BY <1>9 DEF SendStandard, Send
  <2>2. CASE Unchecked
    <3>1. sender /\ Ip.family = "v6" /\ port.proto = "tcp"
      BY <1>5, <1>9, <2>2 DEF SendStandard, Unchecked, FastPath
    <3>2. Allowed(<<Ip, port>>)
      BY <3>1 DEF Allowed
    <3>. QED
      BY <1>2, <1>5, <1>9, <2>1, <3>2 DEF SendStandard, setup
  <2>3. CASE Wanted
    BY <1>2, <1>5, <1>6, <1>9, <2>1, <2>3 DEF SendStandard, setup
  <2>. QED
    BY <1>9, <2>2, <2>3 DEF SendStandard
<1>10. CASE Admit
  <2>1. Ip' = Ip
    BY <1>10 DEF Admit, Ip, FastPath, Permuted, setup, round, place
  <2>2. Ip \notin Excluded
    BY <1>10 DEF Admit, Wanted, NotWanted, IsExcluded
  <2>. QED
    BY <1>1, <1>10, <2>1, <2>2 DEF Admit, setup, sendVars, ExclusionInv, Allowed
<1>11. CASE Spawn
  <2>1. probed' = probed \cup {<<Ip, port>>} /\ batch' = batch
    BY <1>11 DEF Spawn, Launch, Send
  <2>2. Allowed(<<Ip, port>>)
    BY <1>1, <1>11 DEF Spawn, Allowed
  <2>. QED
    BY <1>2, <1>11, <2>1, <2>2 DEF Spawn, setup
<1>12. CASE EndPort
  BY <1>2, <1>12 DEF EndPort, Flush, Send, setup
<1>13. ASSUME index < Len(WithPort)
       PROVE  Allowed(<<Explicit[1], Port(Explicit[2], "tcp")>>)
  BY <1>13, AtHand DEF Allowed, Port
<1>14. CASE RawWithPort
  <2>1. /\ (probed \cup batch)'
             \subseteq probed \cup batch \cup {<<Explicit[1], Port(Explicit[2], "tcp")>>}
        /\ index < Len(WithPort)
    BY <1>14 DEF RawWithPort, Send
  <2>. QED
    BY <1>2, <1>13, <1>14, <2>1 DEF RawWithPort, setup
<1>15. CASE SpawnWithPort
  <2>1. /\ probed' = probed \cup {<<Explicit[1], Port(Explicit[2], "tcp")>>} /\ batch' = batch
        /\ index < Len(WithPort)
    BY <1>15 DEF SpawnWithPort, Launch, Send
  <2>. QED
    BY <1>2, <1>13, <1>15, <2>1 DEF SpawnWithPort, setup
<1>16. CASE EndScan
  BY <1>2, <1>16 DEF EndScan, sendVars
<1>. QED
  BY <1>3, <1>4, <1>7, <1>8, <1>9, <1>10, <1>11, <1>12, <1>14, <1>15, <1>16 DEF Control, Sends

LEMMA ExclusionStep ==
  ASSUME TypeInv, ExclusionInv, [Next]_vars
  PROVE  ExclusionInv'
<1>1. ASSUME UNCHANGED <<pc, sender, batch, probed, port, index, brSeed>>
      PROVE  ExclusionInv'
  <2>1. Ip' = Ip
    BY <1>1 DEF Ip, FastPath, Permuted
  <2>. QED
    BY <1>1, <2>1 DEF ExclusionInv, Allowed
<1>2. CASE ParsePortOptions \/ StoreQueue \/ PopPort
  BY <1>2 DEF ParsePortOptions, StoreQueue, PopPort, setup, sendVars, ExclusionInv, Allowed
<1>3. CASE Control
  BY <1>3, ExclusionControl
<1>4. CASE Frame
  BY <1>1, <1>4 DEF Frame, handler, mainVars, setup, round, place
<1>5. CASE ReceiveTcp \/ ReceiveUdp \/ Record \/ \E k \in Slots : Probe(k)
  BY <1>4, <1>5, AnswerSteps, ProbeSteps
<1>6. CASE \E a \in Agents : Boost(a)
  BY <1>4, <1>6 DEF Boost
<1>7. CASE Quiet
  BY <1>1, <1>7, QuietSteps DEF mainVars, setup, round, place
<1>. QED
  BY <1>2, <1>3, <1>5, <1>6, <1>7 DEF Next, Main, Quiet

-----------------------------------------------------------------------------
(* No pair is left out.                                                    *)

\* What grows while a retry goes on.
Grows ==
  /\ tried \cup batch \subseteq (tried \cup batch)'
  /\ skipped \subseteq skipped'
  /\ \A ip \in AddrsKnown : found[ip] \subseteq found'[ip]

LEMMA SettledStays ==
  ASSUME Grows, NEW ip \in Targets, NEW p, Settled(ip, p)
  PROVE  Settled(ip, p)'
BY DEF Settled, Grows, AddrsKnown

\* The address at hand is settled by the step that passes it.
LEMMA OneMoreSettled ==
  ASSUME TypeInv, TriedInv, Draining, ~cancelled, Grows,
         index < Count, pc \in {"deal", "spawn"}, pc' = "deal", NextAddress,
         UNCHANGED <<popped, brSeed>>,
         NEW here, here = Ip, Settled(here, port)'
  PROVE  TriedInv'
<1>1. /\ index \in Nat /\ Count \in Nat /\ brSeed \in Nat /\ index' = index + 1 /\ port' = port
      /\ Ip = PickIP(Order(brSeed)[index])
  BY AtHand, BlockFacts DEF TypeInv, NextAddress
<1>2. \A i \in 0 .. (index - 1) : PickIP(Order(brSeed)[i]) \in Targets
  <2>1. \A i \in 0 .. (index - 1) : i \in 0 .. (Count - 1)
    BY <1>1
  <2>. QED
    BY <1>1, <2>1, OrderFacts, AddressFacts
<1>3. ASSUME NEW k \in 1 .. Len(popped), popped[k] # port, NEW ip \in Targets
      PROVE  Settled(ip, popped[k])'
  <2>. DEFINE p == popped[k]
  <2>1. Settled(ip, p)
    BY <1>3 DEF TriedInv
  <2>2. p' = p
    OBVIOUS
  <2>. HIDE DEF p
  <2>3. Settled(ip, p)'
    BY <2>1, <2>2, SettledStays DEF Settled, Grows, AddrsKnown
  <2>. QED
    BY <2>3 DEF p
<1>4. ASSUME NEW i \in 0 .. index
      PROVE  Settled(PickIP(Order(brSeed)[i]), port)'
  <2>1. CASE i = index
    <3>1. PickIP(Order(brSeed)[i]) = here /\ brSeed' = brSeed
      BY <1>1, <2>1
    <3>. QED
      BY <1>1, <3>1 DEF Settled
  <2>2. CASE i # index
    <3>1. i \in 0 .. (index - 1)
      BY <1>1, <2>2
    <3>2. Settled(PickIP(Order(brSeed)[i]), port) /\ PickIP(Order(brSeed)[i]) \in Targets
      BY <1>2, <3>1 DEF TriedInv
    <3>. QED
      BY <1>1, <3>2, SettledStays DEF Settled, Grows, AddrsKnown
  <2>. QED
    BY <2>1, <2>2
<1>5. \A i \in 0 .. (index' - 1) : i \in 0 .. index
  BY <1>1
<1>. QED
  BY <1>1, <1>3, <1>4, <1>5 DEF TriedInv

LEMMA TriedSends ==
  ASSUME TypeInv, TriedInv, Sends, Draining, ~cancelled
  PROVE  TriedInv'
<1>1. /\ UNCHANGED <<popped, brSeed, port, cancelled, found>>
  BY ControlFacts DEF Control, Sends, PassOver, SkipHost, SendFast, SendStandard, Admit, Spawn,
     NextAddress, round, queueVars, place, shared, handler, Launch
<1>2. index < Count /\ pc \in {"deal", "spawn"}
  BY DEF Sends, PassOver, SkipHost, TooManyPorts, SendFast, SendStandard, Admit, Spawn,
         Dealing, TypeInv
<1>3. Ip \in Targets /\ Ip \in AddrsKnown
  BY <1>2, AtHand
<1>4. PICK here \in Targets : here = Ip
  BY <1>3
<1>5. CASE PassOver
  <2>1. Grows /\ pc' = "deal" /\ NextAddress /\ UNCHANGED <<skipped, batch, tried>>
    BY <1>5 DEF PassOver, Dealing, sendVars, shared, handler, Grows
  <2>2. NotWanted(here)
    BY <1>4, <1>5 DEF PassOver
  <2>3. Settled(here, port)'
    BY <1>1, <2>1, <2>2 DEF Settled, NotWanted, IsExcluded
  <2>. QED
    BY <1>1, <1>2, <1>4, <2>1, <2>3, OneMoreSettled
<1>6. CASE SkipHost
  <2>1. Grows /\ pc' = "deal" /\ NextAddress /\ skipped' = skipped \cup {here}
    BY <1>4, <1>6 DEF SkipHost, TooManyPorts, Dealing, sendVars, shared, handler, Grows
  <2>2. Settled(here, port)'
    BY <2>1 DEF Settled
  <2>. QED
    BY <1>1, <1>2, <1>4, <2>1, <2>2, OneMoreSettled
<1>7. CASE SendFast
  <2>1. /\ (tried \cup batch)' = tried \cup batch \cup {<<here, port>>}
        /\ pc' = "deal" /\ NextAddress /\ skipped' = skipped
    BY <1>4, <1>7 DEF SendFast, Dealing, Send
  <2>2. Grows /\ Settled(here, port)'
    BY <1>1, <2>1 DEF Grows, Settled
  <2>. QED
    BY <1>1, <1>2, <1>4, <2>1, <2>2, OneMoreSettled
<1>8. CASE SendStandard
  <2>1. /\ (tried \cup batch)' = tried \cup batch \cup {<<here, port>>}
        /\ pc' = "deal" /\ NextAddress /\ skipped' = skipped
    BY <1>4, <1>8 DEF SendStandard, Dealing, Send
  <2>2. Grows /\ Settled(here, port)'
    BY <1>1, <2>1 DEF Grows, Settled
  <2>. QED
    BY <1>1, <1>2, <1>4, <2>1, <2>2, OneMoreSettled
<1>9. CASE Spawn
  <2>1. /\ (tried \cup batch)' = tried \cup batch \cup {<<here, port>>}
        /\ pc' = "deal" /\ NextAddress /\ skipped' = skipped
    BY <1>4, <1>9 DEF Spawn, Launch, Send
  <2>2. Grows /\ Settled(here, port)'
    BY <1>1, <2>1 DEF Grows, Settled
  <2>. QED
    BY <1>1, <1>2, <1>4, <2>1, <2>2, OneMoreSettled
<1>10. CASE Admit
  <2>1. /\ pc = "deal" /\ pc' = "spawn"
        /\ UNCHANGED <<popped, brSeed, port, index, tried, batch, skipped, found>>
    BY <1>1, <1>10 DEF Admit, Dealing, place, sendVars
  <2>. QED
    BY <1>1, <2>1 DEF TriedInv, Settled, Draining
<1>. QED
  BY <1>5, <1>6, <1>7, <1>8, <1>9, <1>10 DEF Sends

\* At the end of a port every address has been passed.
LEMMA TriedEndPort ==
  ASSUME TypeInv, TriedInv, EndPort, ~cancelled
  PROVE  TriedInv'
<1>1. /\ pc = "deal" /\ pc' = "pop" /\ Draining /\ index = Count
      /\ UNCHANGED <<popped, brSeed, port, index, skipped, found>>
      /\ tried' = tried \cup batch /\ batch' = {}
  BY DEF EndPort, Flush, Send, Draining, round, place, queueVars, shared, handler
<1>2. \A ip, p : Settled(ip, p) => Settled(ip, p)'
  BY <1>1 DEF Settled
<1>3. brSeed \in Nat /\ Count \in Nat
  BY BlockFacts DEF TypeInv
<1>4. ASSUME NEW ip \in Targets
      PROVE  Settled(ip, port)
  <2>1. PICK i \in 0 .. (Count - 1) : PickIP(Order(brSeed)[i]) = ip
    BY <1>3, OrderFacts
  <2>2. Settled(PickIP(Order(brSeed)[i]), port)
    BY <1>1, <2>1 DEF TriedInv
  <2>. QED
    BY <2>1, <2>2
<1>5. ASSUME NEW k \in 1 .. Len(popped), NEW ip \in Targets
      PROVE  Settled(ip, popped[k])'
  <2>. DEFINE p == popped[k]
  <2>1. Settled(ip, p)
    BY <1>1, <1>4 DEF TriedInv
  <2>2. p' = p
    BY <1>1
  <2>. HIDE DEF p
  <2>3. Settled(ip, p)'
    BY <1>1, <2>1, <2>2 DEF Settled
  <2>. QED
    BY <2>3 DEF p
<1>. QED
  BY <1>1, <1>5 DEF TriedInv

\* While an agent reports, more is found and nothing else changes.
LEMMA TriedAgents ==
  ASSUME TypeInv, TriedInv, UNCHANGED <<mainVars, tried, cancelled>>, Grows
  PROVE  TriedInv'
<1>. SUFFICES ASSUME Draining', ~cancelled' PROVE TriedInv'
  BY DEF TriedInv
<1>1. /\ UNCHANGED <<pc, popped, brSeed, port, index, cancelled, tried, batch>>
      /\ Draining /\ ~cancelled
  BY DEF mainVars, round, place, Draining
<1>2. /\ brSeed \in Nat /\ index \in Nat /\ Count \in Nat
      /\ pc = "deal" => index <= Count
      /\ pc = "spawn" => index < Count
  BY BlockFacts DEF TypeInv
<1>3. ASSUME pc # "pop", NEW i \in 0 .. (index - 1)
      PROVE  Settled(PickIP(Order(brSeed)[i]), port)'
  <2>1. i \in 0 .. (Count - 1)
    BY <1>1, <1>2, <1>3 DEF Draining
  <2>2. PickIP(Order(brSeed)[i]) \in Targets
    BY <1>2, <2>1, OrderFacts, AddressFacts
  <2>3. Settled(PickIP(Order(brSeed)[i]), port)
    BY <1>1, <1>3 DEF TriedInv
  <2>. QED
    BY <1>1, <2>2, <2>3 DEF Settled, Grows, AddrsKnown
<1>4. ASSUME NEW k \in 1 .. Len(popped), NEW ip \in Targets, pc = "pop" \/ popped[k] # port
      PROVE  Settled(ip, popped[k])'
  <2>1. Settled(ip, popped[k])
    BY <1>1, <1>4 DEF TriedInv
  <2>. QED
    BY <1>1, <2>1 DEF Settled, Grows, AddrsKnown
<1>. QED
  BY <1>1, <1>3, <1>4 DEF TriedInv

LEMMA TriedStep ==
  ASSUME TypeInv, TriedInv, queue \in Heaps, [Next]_vars
  PROVE  TriedInv'
<1>. SUFFICES ASSUME Draining', ~cancelled' PROVE TriedInv'
  BY DEF TriedInv
<1>1. CASE ParsePortOptions
  BY <1>1 DEF ParsePortOptions, Draining
<1>2. CASE StoreQueue
  <2>1. popped' = <<>> /\ pc' = "pop"
    BY <1>2 DEF StoreQueue
  <2>2. Len(<<>>) = 0 /\ 1 .. 0 = {}
    OBVIOUS
  <2>. QED
    BY <2>1, <2>2 DEF TriedInv
<1>3. CASE PopPort
  <2>1. /\ popped' = Append(popped, port') /\ pc = "pop" /\ pc' = "deal" /\ index' = 0
        /\ UNCHANGED <<skipped, found, tried, batch, cancelled>>
    BY <1>3 DEF PopPort, sendVars, shared, handler
  <2>2. popped \in Seq(PortType) /\ port' \in PortType
    BY <1>3, PopKeeps DEF TypeInv, PopPort
  <2>3. \A k \in 1 .. Len(popped') :
          popped'[k] # port' => k \in 1 .. Len(popped) /\ popped'[k] = popped[k]
    BY <2>1, <2>2
  <2>4. \A k \in 1 .. Len(popped) : \A ip \in Targets : Settled(ip, popped[k])
    BY <2>1 DEF TriedInv, Draining
  <2>5. ASSUME NEW k \in 1 .. Len(popped'), popped'[k] # port', NEW ip \in Targets
        PROVE  Settled(ip, popped[k])'
    <3>1. Settled(ip, popped[k]) /\ popped'[k] = popped[k]
      BY <2>3, <2>4, <2>5
    <3>. QED
      BY <2>1, <3>1 DEF Settled
  <2>6. 0 .. (index' - 1) = {}
    BY <2>1
  <2>. QED
    BY <2>1, <2>5, <2>6 DEF TriedInv
<1>4. CASE Control
  <2>1. Draining /\ cancelled' = cancelled
    BY <1>4, ControlFacts
  <2>2. Sends \/ EndPort
    BY <1>4, <2>1 DEF Control, Draining, BeginScan, CollectOpen, EndRetry, Detach, RawWithPort,
                      SpawnWithPort, EndScan
  <2>. QED
    BY <2>1, <2>2, TriedSends, TriedEndPort
<1>5. ASSUME Frame, \A ip \in AddrsKnown : found[ip] \subseteq found'[ip]
      PROVE  TriedInv'
  <2>1. Grows
    BY <1>5 DEF Grows, Frame, mainVars
  <2>. QED
    BY <1>5, <2>1, TriedAgents DEF Frame, handler
<1>6. CASE ReceiveTcp \/ ReceiveUdp \/ Record
  BY <1>5, <1>6, AnswerSteps DEF AgentSteps
<1>7. CASE \E k \in Slots : Probe(k)
  BY <1>5, <1>7, ProbeSteps DEF AgentSteps
<1>8. CASE \E a \in Agents : Boost(a)
  BY <1>5, <1>8, BoostSteps
<1>9. CASE Quiet
  <2>1. UNCHANGED <<mainVars, tried, probed, found, cancelled>>
    BY <1>9, QuietSteps
  <2>2. Grows
    BY <2>1 DEF Grows, mainVars
  <2>. QED
    BY <2>1, <2>2, TriedAgents
<1>. QED
  BY <1>1, <1>2, <1>3, <1>4, <1>6, <1>7, <1>8, <1>9 DEF Next, Main, Quiet

-----------------------------------------------------------------------------
(* The theorems.                                                           *)

LEMMA InvInit == Init => Inv
<1>. SUFFICES ASSUME Init PROVE Inv
  OBVIOUS
<1>1. /\ Retries \in Nat /\ Cardinality({}) = 0 /\ IsFiniteSet({}) /\ 0 < BatchSize
      /\ NoPort \in PortType /\ Idle \in AgentType /\ Idle.at = "idle"
  BY FS_EmptySet, ConstantTypes DEF Idle
<1>2. <<>> \in Seq(PortType) /\ agent \in [Agents -> AgentType]
      /\ \A a \in Agents : agent[a] = Idle
  BY <1>1 DEF Init
<1>3. found \in [AddrsKnown -> SUBSET Numbered]
  BY DEF Init
<1>4. TypeInv
  <2>1. /\ pc = "parse" /\ options \in PortOptions /\ mode \in Modes /\ sender = FALSE
        /\ ports = <<>> /\ popped = <<>> /\ port = NoPort /\ retry = 0 /\ queuePtr = 0
        /\ knownOpen = {} /\ brSeed = 0 /\ index = 0 /\ batch = {} /\ tried = {} /\ probed = {}
        /\ output = "before" /\ toShow = {} /\ waiting = {}
    BY DEF Init
  <2>2. \A a \in Agents : agent[a].at # "idle" => agent[a].ip \in AddrsKnown
    BY <1>1, <1>2
  <2>3. 0 \in 0 .. Retries
    BY <1>1
  <2>. QED
    BY <1>1, <1>2, <1>3, <2>1, <2>2, <2>3 DEF TypeInv, Draining
<1>5. QueueInv
  <2>1. EmptyQueue \in Heaps
    BY EmptyIsQueue
  <2>2. queue = EmptyQueue /\ ~Draining /\ EmptyQueue.items = <<>>
    BY DEF Init, Draining, EmptyQueue
  <2>. QED
    BY <2>1, <2>2 DEF QueueInv
<1>6. OrderInv
  BY <1>2 DEF Init, OrderInv, OpenPortsOrderTheQueue, Draining, Agents, Slots
<1>7. TriedInv /\ RequestInv /\ EvidenceInv
  BY DEF Init, TriedInv, RequestInv, EvidenceInv, Draining
<1>8. ExclusionInv
  BY DEF Init, ExclusionInv
<1>. QED
  BY <1>4, <1>5, <1>6, <1>7, <1>8 DEF Inv

LEMMA InvStep == Inv /\ [Next]_vars => Inv'
<1>. SUFFICES ASSUME Inv, [Next]_vars PROVE Inv'
  OBVIOUS
<1>1. /\ TypeInv /\ QueueInv /\ OrderInv /\ TriedInv /\ ExclusionInv /\ RequestInv
      /\ queue \in Heaps /\ EvidenceInv
  BY DEF Inv, QueueInv
<1>2. TypeInv' /\ QueueInv' /\ EvidenceInv'
  BY <1>1, TypeStep, QueueStep, EvidenceStep
<1>3. OrderInv' /\ TriedInv'
  BY <1>1, OrderStep, TriedStep
<1>4. ExclusionInv' /\ RequestInv'
  BY <1>1, ExclusionStep, RequestStep
<1>. QED
  BY <1>2, <1>3, <1>4 DEF Inv

\* The invariant holds for every list of ports, any addresses, any number of
\* retries and slots, and any order in which a boost walks over its map.
THEOREM SmartScanInvariant == Spec => []Inv
<1>1. Spec => Init /\ [][Next]_vars
  BY DEF Spec
<1>. QED
  BY <1>1, InvInit, InvStep, PTL

\* TypeOK, for any constants: above all, the batch of the fast sender stays
\* smaller than its array, and no port is above 65535.
THEOREM SmartScanTyped == Spec => []TypeOK
<1>1. Inv => TypeOK
  <2>. SUFFICES ASSUME Inv PROVE TypeOK
    OBVIOUS
  <2>1. TypeInv /\ queue \in Heaps
    BY DEF Inv, QueueInv
  <2>2. ports \in Seq(PortType)
    BY <2>1 DEF TypeInv
  <2>3. ToSet(ports) \subseteq PortType
    BY <2>2 DEF ToSet
  <2>4. {item.port : item \in ToSet(queue.items)} \subseteq PortType
    <3>1. /\ queue.items \in Seq(Items)
          /\ \A i \in 1 .. Len(queue.items) : queue.items[i].port \in PortType
      BY <2>1, HeapFacts, QueueFacts
    <3>. DEFINE s == queue.items
    <3>2. s \in Seq(Items) /\ \A i \in 1 .. Len(s) : s[i].port \in PortType
      BY <3>1
    <3>. HIDE DEF s
    <3>3. DOMAIN s = 1 .. Len(s)
      BY <3>2
    <3>. QED
      BY <3>2, <3>3 DEF ToSet, s
  <2>. QED
    BY <2>1, <2>3, <2>4 DEF TypeInv, TypeOK
<1>. QED
  BY <1>1, SmartScanInvariant, PTL

\* The number of a port is waiting when the queue holds an item of it.
LEMMA QueuedCounted ==
  ASSUME queue \in Heaps, NEW n \in Queued
  PROVE  n \in Numbered /\ Counted(NumberIs(n), PortsOf(queue.items)) >= 1
<1>. DEFINE s == queue.items
            ps == PortsOf(s)
<1>1. /\ s \in Seq(Items) /\ Len(s) \in Nat /\ ps \in Seq(PortType) /\ Len(ps) = Len(s)
      /\ \A i \in 1 .. Len(s) : /\ ps[i] = s[i].port /\ s[i].port \in PortType
                               /\ NumberOf(s[i]) \in Numbered
  BY HeapFacts, QueueFacts
<1>2. n \in {NumberOf(item) : item \in ToSet(s)}
  BY DEF Queued
<1>. HIDE DEF s, ps
<1>3. PICK i \in 1 .. Len(s) : n = NumberOf(s[i])
  <2>1. DOMAIN s = 1 .. Len(s)
    BY <1>1
  <2>. QED
    BY <1>2, <2>1 DEF ToSet
<1>4. n \in Numbered /\ ps[i] \in NumberIs(n)
  BY <1>1, <1>3 DEF NumberIs, NumberOf
<1>5. Counted(NumberIs(n), ps) \in Nat /\ Counted(NumberIs(n), ps) # 0
  BY <1>1, <1>3, <1>4, CountedType
<1>. QED
  BY <1>4, <1>5 DEF s, ps

\* boostCorrelated finds the item of every number that the map has, and of
\* every number that the list holds once, for lists of any length.
THEOREM SmartScanMap == Spec => []MapLeadsToItem
<1>1. Inv => MapLeadsToItem
  <2>. SUFFICES ASSUME Inv PROVE MapLeadsToItem
    OBVIOUS
  <2>1. TypeInv /\ QueueInv /\ queue \in Heaps
    BY DEF Inv, QueueInv
  <2>2. queue.items \in Seq(Items) /\ Leads(queue)
    BY <2>1, HeapFacts, QueueFacts
  <2>3. DOMAIN queue.items = 1 .. Len(queue.items)
    <3>. DEFINE s == queue.items
    <3>1. s \in Seq(Items)
      BY <2>2
    <3>. HIDE DEF s
    <3>. QED
      BY <3>1 DEF s
  <2>4. \A n \in DOMAIN queue.index : /\ queue.index[n] \in DOMAIN queue.items
                                    /\ NumberOf(queue.items[queue.index[n]]) = n
    BY <2>2, <2>3 DEF Leads
  <2>5. ASSUME NEW n \in Queued, Once(n)
        PROVE  n \in DOMAIN queue.index
    <3>1. n \in Numbered /\ Counted(NumberIs(n), PortsOf(queue.items)) >= 1
      BY <2>1, QueuedCounted
    <3>2. CASE Draining
      BY <2>1, <2>5, <3>1, <3>2 DEF QueueInv
    <3>3. CASE ~Draining
      <4>1. queue.items = <<>>
        BY <2>1, <3>3 DEF QueueInv
      <4>2. ToSet(<<>>) = {}
        BY DEF ToSet
      <4>. QED
        BY <4>1, <4>2 DEF Queued
    <3>. QED
      BY <3>2, <3>3
  <2>. QED
    BY <2>4, <2>5 DEF MapLeadsToItem
<1>. QED
  BY <1>1, SmartScanInvariant, PTL

\* "The user's port list is never modified, only the scan order changes": in
\* every retry each port was taken or waits as often as the list has it.
THEOREM SmartScanKeepsPorts == Spec => []OnlyOrderChanges
<1>1. Inv => OnlyOrderChanges
  <2>. SUFFICES ASSUME Inv, Draining, NEW p
       PROVE  Times(p, ports) = Times(p, popped)
                + Times(p, [i \in DOMAIN queue.items |-> queue.items[i].port])
    BY DEF OnlyOrderChanges
  <2>1. TypeInv /\ QueueInv /\ queue \in Heaps
    BY DEF Inv, QueueInv
  <2>2. ASSUME NEW list \in Seq(PortType)
        PROVE  Times(p, list) = Counted({p}, list)
    <3>1. {i \in DOMAIN list : list[i] = p} = Places({p}, list)
      BY DEF Places
    <3>. QED
      BY <3>1 DEF Times, Counted
  <2>3. /\ queue.items \in Seq(Items) /\ PortsOf(queue.items) \in Seq(PortType)
        /\ ports \in Seq(PortType) /\ popped \in Seq(PortType)
    BY <2>1, HeapFacts, QueueFacts DEF TypeInv
  <2>4. [i \in DOMAIN queue.items |-> queue.items[i].port] = PortsOf(queue.items)
    <3>. DEFINE s == queue.items
    <3>1. s \in Seq(Items)
      BY <2>3
    <3>. HIDE DEF s
    <3>2. DOMAIN s = 1 .. Len(s)
      BY <3>1
    <3>. QED
      BY <3>2 DEF PortsOf, s
  <2>5. Counted({p}, ports) = Counted({p}, popped) + Counted({p}, PortsOf(queue.items))
    BY <2>1 DEF QueueInv
  <2>. QED
    BY <2>2, <2>3, <2>4, <2>5
<1>. QED
  BY <1>1, SmartScanInvariant, PTL

\* A port waits with the best evidence there is for it, however many reports
\* came, in whatever order, and wherever their targets were in the heap.
THEOREM SmartScanPriorities == Spec => []PriorityIsBestEvidence
<1>1. Inv => PriorityIsBestEvidence
  <2>. SUFFICES ASSUME Inv, Draining, NEW item \in ToSet(queue.items), Once(NumberOf(item))
       PROVE  item.priority = InitialPriority(knownOpen \union boosted, NumberOf(item))
    BY DEF PriorityIsBestEvidence, InitialPriority
  <2>1. queue \in Queues /\ EvidenceInv
    BY HeapFacts DEF Inv, QueueInv
  <2>2. PICK k \in 1 .. Len(queue.items) : item = queue.items[k]
    <3>. DEFINE s == queue.items
    <3>1. s \in Seq(Items)
      BY <2>1, QueueFacts
    <3>. HIDE DEF s
    <3>2. \A x \in ToSet(s) : \E k \in 1 .. Len(s) : x = s[k]
      BY <3>1 DEF ToSet
    <3>. QED
      BY <3>2 DEF s
  <2>3. NumberOf(item) \in Numbered
    BY <2>1, <2>2, QueueFacts
  <2>. QED
    BY <2>1, <2>2, <2>3 DEF EvidenceInv, Holds
<1>. QED
  BY <1>1, SmartScanInvariant, PTL

\* Every port that is taken is the most likely one, and among those the lowest,
\* whatever was boosted, pushed and popped before.
THEOREM SmartScanPops == Spec => PopsMostLikely
<1>. DEFINE Claim == (pc = "pop" /\ pc' = "deal") =>
                       \E taken \in ToSet(queue.items) :
                         /\ taken.port = port'
                         /\ \A item \in ToSet(queue.items) :
                              \/ item.priority < taken.priority
                              \/ /\ item.priority = taken.priority
                                 /\ NumberOf(item) >= NumberOf(taken)
<1>1. Inv /\ [Next]_vars => [Claim]_vars
  <2>. SUFFICES ASSUME Inv, Next, pc = "pop", pc' = "deal"
       PROVE  Claim
    OBVIOUS
  <2>1. TypeInv /\ queue \in Heaps
    BY DEF Inv, QueueInv
  <2>2. PopPort
    <3>1. ~ParsePortOptions /\ ~StoreQueue
      BY DEF ParsePortOptions, StoreQueue
    <3>2. ~Control
      BY DEF Control, Sends, BeginScan, CollectOpen, EndRetry, Detach, PassOver, SkipHost,
             TooManyPorts, SendFast, SendStandard, Admit, Spawn, Dealing, EndPort, RawWithPort,
             SpawnWithPort, EndScan
    <3>3. ~(ReceiveTcp \/ ReceiveUdp \/ Record) /\ ~(\E k \in Slots : Probe(k))
      BY <2>1, AnswerSteps, ProbeSteps DEF Frame, handler, mainVars
    <3>4. ~(\E a \in Agents : Boost(a)) /\ ~Quiet
      BY QuietSteps DEF Boost, Frame, mainVars
    <3>. QED
      BY <3>1, <3>2, <3>3, <3>4 DEF Next, Main, Quiet
  <2>. DEFINE s == queue.items
  <2>3. s \in Seq(Items) /\ s # <<>> /\ Ordered(s, Len(s)) /\ port' = s[1].port
    BY <2>1, <2>2, HeapFacts, QueueFacts DEF PopPort
  <2>. HIDE DEF s
  <2>4. 1 \in 1 .. Len(s) /\ ToSet(s) = {s[k] : k \in 1 .. Len(s)}
    BY <2>3 DEF ToSet
  <2>5. \A x \in ToSet(s) : AtMost(x, s[1])
    BY <2>3, <2>4, FirstIsBest
  <2>. QED
    BY <2>3, <2>4, <2>5 DEF AtMost, s
<1>. QED
  BY <1>1, SmartScanInvariant, PTL DEF Spec, PopsMostLikely

\* In a connect scan of any width every port found open has its say in the
\* order of the retry that runs.
THEOREM SmartScanOrder == Spec => []OpenPortsOrderTheQueue
<1>1. Inv => OpenPortsOrderTheQueue
  BY DEF Inv, OrderInv, OpenPortsOrderTheQueue
<1>. QED
  BY <1>1, SmartScanInvariant, PTL

\* A drained queue of a retry that was not interrupted has left out no pair,
\* whatever the order of the ports and the permutation of the addresses.
THEOREM SmartScanTriesAll == Spec => []EveryPairTried
<1>1. Inv => EveryPairTried
  <2>. SUFFICES ASSUME Inv, pc = "pop", queue.items = <<>>, ~cancelled,
                       NEW ip \in Targets, NEW p \in ToSet(ports)
       PROVE  \/ <<ip, p>> \in tried
              \/ ip \in Excluded \/ ip \in skipped
              \/ p.number \in found[ip] \/ CdnBlocked(ip, p.number)
    BY DEF EveryPairTried
  <2>1. TypeInv /\ QueueInv /\ TriedInv /\ Draining
    BY DEF Inv, Draining
  <2>2. ports \in Seq(PortType) /\ popped \in Seq(PortType) /\ batch = {}
    BY <2>1 DEF TypeInv
  <2>3. Counted({p}, ports) = Counted({p}, popped) + Counted({p}, PortsOf(queue.items))
    BY <2>1 DEF QueueInv
  <2>4. Counted({p}, PortsOf(queue.items)) = 0
    <3>1. PortsOf(<<>>) = <<>>
      BY DEF PortsOf
    <3>2. Places({p}, <<>>) = {}
      BY DEF Places
    <3>. QED
      BY <3>1, <3>2, FS_EmptySet DEF Counted
  <2>5. /\ Counted({p}, ports) \in Nat /\ Counted({p}, popped) \in Nat
        /\ Counted({p}, ports) = 0 <=> \A i \in 1 .. Len(ports) : ports[i] \notin {p}
        /\ Counted({p}, popped) = 0 <=> \A i \in 1 .. Len(popped) : popped[i] \notin {p}
    BY <2>2, CountedType
  <2>6. \E i \in 1 .. Len(ports) : ports[i] = p
    BY <2>2 DEF ToSet
  <2>7. PICK k \in 1 .. Len(popped) : popped[k] = p
    BY <2>3, <2>4, <2>5, <2>6
  <2>8. Settled(ip, p)
    BY <2>1, <2>7 DEF TriedInv
  <2>. QED
    BY <2>2, <2>8 DEF Settled
<1>. QED
  BY <1>1, SmartScanInvariant, PTL

\* An excluded address is probed only as an ip:port target, or in IPv6 by the
\* fast path.
THEOREM SmartScanExclusions == Spec => []UncheckedPathsAside
<1>1. Inv => UncheckedPathsAside
  BY DEF Inv, ExclusionInv, Allowed, UncheckedPathsAside
<1>. QED
  BY <1>1, SmartScanInvariant, PTL

\* The list is what the options ask for, for any segments and top lists.
THEOREM SmartScanPorts == Spec => []RequestedPorts
<1>1. Inv => RequestedPorts
  <2>. SUFFICES ASSUME Inv, pc \notin {"parse", "fatal"}
       PROVE  RequestedPorts
    BY DEF RequestedPorts
  <2>1. ports \in Seq(PortType) /\ Requested(options, ports)
    BY DEF Inv, TypeInv, RequestInv
  <2>2. NumbersOf(ports) = {p.number : p \in ToSet(ports)}
    <3>1. DOMAIN ports = 1 .. Len(ports)
      BY <2>1
    <3>. QED
      BY <3>1 DEF NumbersOf, ToSet
  <2>. QED
    BY <2>1, <2>2 DEF Requested, RequestedPorts
<1>. QED
  BY <1>1, SmartScanInvariant, PTL
=============================================================================

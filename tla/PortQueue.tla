----------------------------- MODULE PortQueue -----------------------------
(***************************************************************************)
(* The priority queue of pkg/runner/smartscan.go: a binary heap of ports   *)
(* and, beside it, a map from a port number to the position of its item.   *)
(* Sift operations are those of container/heap, with positions from 1.     *)
(***************************************************************************)
EXTENDS PortSpec, Prediction

CONSTANT Model   \* the correlations: DefaultModel

\* A correlation is a percentage.
ASSUME PortQueueAssumption ==
  \A given \in DOMAIN Model : \A target \in DOMAIN Model[given] :
    Model[given][target] \in 0 .. 100

\* buildPopularityRank: the place in NmapTop1000, or far behind it.
Rank(n) ==
  IF Contains(Top1000, n)
  THEN CHOOSE i \in 1 .. Len(Top1000) : Top1000[i] = n
  ELSE 100000 + n

Popularity(n) == Unit \div Rank(n)

EmptyQueue == [items |-> <<>>, index |-> <<>>]

Less(items, i, j) ==
  \/ items[i].priority > items[j].priority
  \/ /\ items[i].priority = items[j].priority
     /\ items[i].port.number < items[j].port.number

\* The map is not told of the move.
SwapItems(queue, i, j) ==
  [queue EXCEPT !.items =
     [@ EXCEPT ![i] = queue.items[j], ![j] = queue.items[i]]]

\* pq.index[n] = i
Placed(index, n, i) ==
  [k \in DOMAIN index \union {n} |-> IF k = n THEN i ELSE index[k]]

\* Both items move, and the map follows, the second one last.
Swap(queue, i, j) ==
  LET moved == [queue.items EXCEPT ![i] = queue.items[j], ![j] = queue.items[i]]
  IN  [items |-> moved,
       index |-> Placed(Placed(queue.index, moved[i].port.number, i),
                        moved[j].port.number, j)]

\* A sift operation under way: the queue, and where the item is that it moves.
Sift(queue, at) == [queue |-> queue, at |-> at]

\* One round of up, and one of down among the first n items.  The loop ends
\* with a round that moves nothing.
Climb(sift) ==
  LET parent == sift.at \div 2
  IN  IF sift.at = 1 \/ ~Less(sift.queue.items, sift.at, parent) THEN sift
      ELSE Sift(Swap(sift.queue, parent, sift.at), parent)

Sink(sift, n) ==
  LET left  == 2 * sift.at
      child == IF left + 1 <= n /\ Less(sift.queue.items, left + 1, left)
               THEN left + 1 ELSE left
  IN  IF left > n \/ ~Less(sift.queue.items, child, sift.at) THEN sift
      ELSE Sift(Swap(sift.queue, sift.at, child), child)

Up(queue, j) ==
  LET round[k \in 0 .. j] ==
        IF k = 0 THEN Sift(queue, j) ELSE Climb(round[k - 1])
  IN  round[j].queue

Down(queue, i, n) ==
  LET round[k \in 0 .. n] ==
        IF k = 0 THEN Sift(queue, i) ELSE Sink(round[k - 1], n)
  IN  round[n].queue

Fix(queue, i) ==
  LET sunk == Down(queue, i, Len(queue.items))
  IN  IF sunk = queue THEN Up(queue, i) ELSE sunk

Push(queue, item) ==
  LET last == Len(queue.items) + 1
  IN  Up([items |-> Append(queue.items, item),
          index |-> Placed(queue.index, item.port.number, last)], last)

\* heap.Pop and portQueue.Pop: the best item goes to the end and off it.
PopBest(queue) ==
  LET n    == Len(queue.items)
      down == Down(Swap(queue, 1, n), 1, n - 1)
  IN  [items |-> Front(down.items),
       index |-> [k \in DOMAIN down.index \ {Last(down.items).port.number} |->
                    down.index[k]]]

\* newPortQueue: popularity alone, and popularity or a correlation with a known open port.
PopularityOnly(open, n)  == Popularity(n)
InitialPriority(open, n) == Max({Popularity(n), Score(Model, open, n)})

newPortQueue(ports, open) ==
  LET built[k \in 0 .. Len(ports)] ==
        IF k = 0 THEN EmptyQueue
        ELSE Push(built[k - 1],
                  [port |-> ports[k], priority |-> InitialPriority(open, ports[k].number)])
  IN  built[Len(ports)]

\* The priority is raised and its item left where it is.
RaiseInPlace(queue, i, priority) ==
  [queue EXCEPT !.items[i].priority = priority]

Raise(queue, i, priority) ==
  Fix([queue EXCEPT !.items[i].priority = priority], i)

\* A port that is not in the map is added.
BoostOrPush(queue, target, prob) ==
  IF target \notin DOMAIN queue.index
  THEN Push(queue, [port |-> Port(target, "tcp"), priority |-> prob])
  ELSE queue

\* One entry of the correlations: a port that is not in the map is passed over.
BoostTarget(queue, target, prob) ==
  IF target \notin DOMAIN queue.index THEN queue
  ELSE IF prob <= queue.items[queue.index[target]].priority THEN queue
  ELSE Raise(queue, queue.index[target], prob)

\* boostCorrelated, in the order in which Go happens to walk over the map.
boostCorrelated(queue, open, targets) ==
  LET after[k \in 0 .. Len(targets)] ==
        IF k = 0 THEN queue
        ELSE BoostTarget(after[k - 1], targets[k],
                         Probability(Model, open, targets[k]))
  IN  after[Len(targets)]

\* These orders, without the ports that no item has.
Walks(queue, open) ==
  SetToSeqs(DOMAIN GetCorrelations(Model, open)
              \intersect {queue.items[i].port.number : i \in DOMAIN queue.items})
=============================================================================

------------------------------ MODULE HnswScan ------------------------------
(* An index scan of the hnsw access method (src/hnswindex.cpp). *)
EXTENDS IndexNode

CONSTANTS
  DistanceThreshold,  \* 3 in hnsw_gettuple
  QueueThreshold,     \* 50 in hnsw_gettuple
  OrderQueue          \* 86 in hnsw_gettuple

ASSUME ThresholdsAssumption ==
  DistanceThreshold \in Nat \ {0} /\ QueueThreshold \in Nat \ {0} /\ OrderQueue \in Nat \ {0}

VARIABLE distanceQueue  \* the rows whose distances are in the work space's queue

QueueTypeOK ==
  /\ distanceQueue \subseteq Row
  /\ Cardinality(distanceQueue) <= (IF hasRangeFilter THEN QueueThreshold ELSE OrderQueue)

(* hnsw_rescan frees the work space of the scan before it, through EndScan *)
(* of its iterator.                                                        *)
HnswRescanKeepsWorkSpace(k) ==
  RescanKeys(k) /\ UNCHANGED <<first, workSpace, distanceQueue, crashed>>

HnswRescanLeaks(k) ==
  RescanKeys(k) /\ first' = TRUE /\ distanceQueue' = {} /\ UNCHANGED <<workSpace, crashed>>

HnswRescan(k) ==
  /\ RescanKeys(k)
  /\ crashed' = (workSpace = "empty")
  /\ workSpace' = "null" /\ distanceQueue' = {}
  /\ first' = TRUE

(* hnsw_endscan follows workSpace and its resultIterator unconditionally. *)
HnswEndScan ==
  /\ CloseScan
  /\ crashed' = (workSpace # "open")
  /\ workSpace' = "null" /\ distanceQueue' = {}
-----------------------------------------------------------------------------
HnswNoKey == NoKey /\ distanceQueue' = {}

HnswStart == OpenSearch /\ xs_inorder' = FALSE /\ distanceQueue' = {}

(* distanceQueue.top(). *)
top == CHOOSE t \in distanceQueue : \A u \in distanceQueue : D(u) <= D(t)

(* The queue after it has taken r: the capacity nearest rows. *)
QueueWith(r, capacity) ==
  IF Cardinality(distanceQueue) = capacity
  THEN (distanceQueue \ {top}) \union {r}
  ELSE distanceQueue \union {r}

(* No row in range so far: r is one of the QueueThreshold nearest. *)
StillNear(r) == Cardinality(distanceQueue) < QueueThreshold \/ \E t \in distanceQueue : D(t) > D(r)

(* Every row the queue holds is nearer than r. *)
InOrderAtOrEqual(r) == Cardinality(distanceQueue) = OrderQueue /\ \A t \in distanceQueue : D(t) <= D(r)

InOrderAt(r) == Cardinality(distanceQueue) = OrderQueue /\ \A t \in distanceQueue : D(t) < D(r)

(* Order-by scan: the row is returned whatever its distance. *)
HnswPullOrdered(r) ==
  /\ ~hasRangeFilter
  /\ Pull(r)
  /\ IF xs_inorder \/ InOrderAt(r)
     THEN xs_inorder' = TRUE /\ UNCHANGED distanceQueue
     ELSE distanceQueue' = QueueWith(r, OrderQueue) /\ UNCHANGED xs_inorder
  /\ Return(r)
  /\ UNCHANGED <<inRange, ended>>

(* Range scan, before and after the first row in range. *)
HnswPullRange(r) ==
  /\ hasRangeFilter
  /\ Pull(r)
  /\ \/ /\ ~inRange /\ ~StillNear(r)
        /\ NoTuple("notnear")
        /\ UNCHANGED <<inRange, distanceQueue, xs_inorder, is_index_inorder, i, returned, emitted>>
     \/ /\ inRange \/ StillNear(r)
        /\ distanceQueue' = IF inRange THEN distanceQueue ELSE QueueWith(r, QueueThreshold)
        /\ RangeCheck(r, DistanceThreshold)

HnswGetTuple ==
  \/ HnswNoKey
  \/ HnswStart
  \/ Exhausted /\ UNCHANGED distanceQueue
  \/ \E r \in Row : HnswPullOrdered(r) \/ HnswPullRange(r)
-----------------------------------------------------------------------------
(* Some row of this scan was farther than OrderQueue rows before it. *)
Settled ==
  \E n \in DOMAIN pulled :
    Cardinality({m \in 1..(n - 1) : D(pulled[m]) < D(pulled[n])}) >= OrderQueue

(* An hnsw scan declares itself in order exactly when some row it returned *)
(* was farther than OrderQueue rows returned before it; until a rescan the *)
(* declaration stands.                                                     *)
InOrderIffSettled ==
  am = "hnsw" /\ ~hasRangeFilter /\ ~first => (xs_inorder <=> Settled)
=============================================================================

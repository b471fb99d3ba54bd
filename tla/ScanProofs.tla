----------------------------- MODULE ScanProofs -----------------------------
(***************************************************************************)
(* Proofs about the index scans of the three access methods, alone and     *)
(* under the Sort nodes of SortedScan: for any rows, keys, plans and       *)
(* thresholds, a range scan returns exactly the rows in range that were    *)
(* delivered and ends for one of its three reasons; an hnsw scan declares  *)
(* itself in order when it should; a pase_hnsw scan is nearest first.      *)
(*                                                                         *)
(* The invariant says what the histories have to do with the scan state:   *)
(* before the first row in range every row of the queue is out of range;   *)
(* after it the local counter i of a running call is the number of rows    *)
(* out of range at the end of pulled; in an order-by scan the queue holds  *)
(* the OrderQueue nearest rows of pulled until the scan is in order.  For  *)
(* the early stop of the Sort node EarlyInv adds what the plan says of the *)
(* keys, and that the Sort has been fed the visible rows of pulled.        *)
(* StreamInv and EmitInv are for the two streams, the one the scan drives  *)
(* and the one it is.                                                      *)
(***************************************************************************)
EXTENDS SortedScan, FiniteSetTheorems, TLAPS

(* Appending an element adds it to the range: Append models push_back.     *)
LEMMA RangeOfAppend ==
  ASSUME NEW S, NEW s \in Seq(S), NEW e \in S
  PROVE  Range(Append(s, e)) = Range(s) \union {e}
<1> DEFINE t == Append(s, e)
<1>1. Len(s) \in Nat /\ DOMAIN s = 1..Len(s) /\ DOMAIN t = 1..(Len(s) + 1)
  OBVIOUS
<1>2. t[Len(s) + 1] = e /\ \A j \in 1..Len(s) : t[j] = s[j]
  OBVIOUS
<1> HIDE DEF t
<1>3. Range(t) \subseteq Range(s) \union {e}
  <2> SUFFICES ASSUME NEW j \in DOMAIN t PROVE t[j] \in Range(s) \union {e}
    BY DEF Range
  <2>1. j = Len(s) + 1 \/ j \in DOMAIN s
    BY <1>1
  <2>2. QED
    BY <1>1, <1>2, <2>1 DEF Range
<1>4. e \in Range(t)
  <2>1. Len(s) + 1 \in DOMAIN t
    BY <1>1
  <2>2. QED
    BY <1>2, <2>1 DEF Range
<1>5. Range(s) \subseteq Range(t)
  <2> SUFFICES ASSUME NEW j \in DOMAIN s PROVE s[j] \in Range(t)
    BY DEF Range
  <2>1. j \in DOMAIN t
    BY <1>1
  <2>2. QED
    BY <1>1, <1>2, <2>1 DEF Range
<1>6. QED
  BY <1>3, <1>4, <1>5 DEF t

(* The empty sequence has no elements.                                     *)
LEMMA RangeOfEmpty == Range(<<>>) = {}
BY DEF Range

(* The elements of a sequence over a set are in the set.                   *)
LEMMA RangeOfSeq ==
  ASSUME NEW S, NEW s \in Seq(S)
  PROVE  Range(s) \subseteq S
BY DEF Range

Far(r) == D(r) > key.range

(* A new scan has no history, and a running call has not ended. *)
CallInv ==
  /\ first => pulled = <<>> /\ returned = <<>>
  /\ pc = "get" => ended = "no" /\ desc = "open"
  /\ ended = "nokey" \/ desc = "none" => first
  /\ am # "hnsw" => distanceQueue = {}
  /\ am = "pase_hnsw" => ~hasRangeFilter
  /\ distanceQueue \subseteq Range(pulled)

RangeInv ==
  /\ inRange => pulled # <<>>
  /\ ~inRange => returned = <<>> /\ \A t \in distanceQueue : Far(t)
  /\ pc = "get" /\ inRange =>
       i < Len(pulled) /\ \A m \in (Len(pulled) - i + 1)..Len(pulled) : Far(pulled[m])

(* The queue holds the nearest rows. *)
OrderInv ==
  /\ \A m, n \in DOMAIN pulled : m # n => pulled[m] # pulled[n]
  /\ Cardinality(distanceQueue) < OrderQueue => distanceQueue = Range(pulled)
  /\ \A t \in distanceQueue, u \in Range(pulled) \ distanceQueue : D(t) <= D(u)

(* Queued for the key k. *)
Rank(k, r) == 1 - (k.dist[r] - (k.dist[r] % Ulp))

(* The rows returned came off the queue first. *)
PaseInv ==
  /\ \A m, n \in DOMAIN returned :
       m < n => returned[m] # returned[n] /\ Rank(key, returned[n]) <= Rank(key, returned[m])
  /\ \A m \in DOMAIN returned, u \in result : Rank(key, u) <= Rank(key, returned[m])
  /\ Range(returned) \subseteq Range(pulled)

HistoryInv ==
  /\ CallInv
  /\ hasRangeFilter /\ ~first => RangeInv
  /\ RangeExact
  /\ RangeEndJustified
  /\ am = "hnsw" /\ desc = "open" /\ ~hasRangeFilter /\ ~first /\ ~xs_inorder => OrderInv
  /\ InOrderIffSettled
  /\ am = "pase_hnsw" => PaseInv

IInv == TypeOK /\ HistoryInv
-----------------------------------------------------------------------------
(* The distance of a row is an integer. *)
LEMMA DistanceType ==
  ASSUME key \in Keys, NEW r \in Row
  PROVE  D(r) \in Int /\ key.range \in Int /\ key.null \in BOOLEAN
BY Zenon, KeysAssumption DEF D

(* What the type invariant says of the history and the queue. *)
LEMMA TypeFacts ==
  ASSUME TypeOK
  PROVE  /\ pulled \in Seq(Row) /\ returned \in Seq(Row) /\ key \in Keys
         /\ DOMAIN pulled = 1..Len(pulled) /\ Len(pulled) \in Nat /\ Range(pulled) \subseteq Row
         /\ distanceQueue \in SUBSET Row
         /\ hasRangeFilter => Cardinality(distanceQueue) <= QueueThreshold
         /\ ~hasRangeFilter => Cardinality(distanceQueue) <= OrderQueue
<1>1. pulled \in Seq(Row) /\ returned \in Seq(Row) /\ key \in Keys
  BY Zenon DEF TypeOK, NodeTypeOK
<1>2. distanceQueue \in SUBSET Row
  BY Zenon DEF TypeOK, QueueTypeOK
<1>3. hasRangeFilter => Cardinality(distanceQueue) <= QueueThreshold
  BY Zenon DEF TypeOK, QueueTypeOK
<1>4. ~hasRangeFilter => Cardinality(distanceQueue) <= OrderQueue
  BY Zenon DEF TypeOK, QueueTypeOK
<1>5. Range(pulled) \subseteq Row
  BY Zenon, <1>1, RangeOfSeq
<1> QED
  BY <1>1, <1>2, <1>3, <1>4, <1>5

(* Appending a row to a history. *)
LEMMA AppendFacts ==
  ASSUME NEW s \in Seq(Row), NEW r \in Row
  PROVE  /\ Append(s, r) \in Seq(Row)
         /\ Len(s) \in Nat /\ DOMAIN s = 1..Len(s)
         /\ Len(Append(s, r)) = Len(s) + 1
         /\ DOMAIN Append(s, r) = 1..(Len(s) + 1)
         /\ Append(s, r)[Len(s) + 1] = r
         /\ \A m \in 1..Len(s) : Append(s, r)[m] = s[m]
         /\ Range(Append(s, r)) = Range(s) \union {r}
         /\ Append(s, r) # <<>>
         /\ SubSeq(Append(s, r), 1, Len(s)) = s
<1>1. Range(Append(s, r)) = Range(s) \union {r}
  BY RangeOfAppend
<1>2. SubSeq(Append(s, r), 1, Len(s)) = s
  OBVIOUS
<1> QED
  BY <1>1, <1>2

(* Distinct rows: a sequence has as many rows as places. *)
LEMMA DistinctCardinality ==
  ASSUME NEW s \in Seq(Row), NEW P \in SUBSET DOMAIN s,
         \A m, n \in DOMAIN s : m # n => s[m] # s[n]
  PROVE  /\ IsFiniteSet(P)
         /\ Cardinality(P) = Cardinality({s[m] : m \in P})
<1> DEFINE T == {s[m] : m \in P}
           f == [m \in P |-> s[m]]
<1>1. IsFiniteSet(P)
  <2>1. DOMAIN s = 1..Len(s) /\ Len(s) \in Nat
    OBVIOUS
  <2>2. IsFiniteSet(1..Len(s))
    BY <2>1, FS_Interval
  <2> QED
    BY Zenon, <2>1, <2>2, FS_Subset
<1>2. f \in Surjection(P, T)
  BY Zenon DEF Surjection
<1>3. f \in Injection(P, T)
  BY Zenon DEF Injection, IsInjective
<1>4. Cardinality(T) = Cardinality(P)
  BY Zenon, <1>1, <1>2, <1>3, FS_Surjection
<1> QED
  BY Zenon, <1>1, <1>4

(* A nonempty finite set of rows has a farthest one. *)
LEMMA FarthestExists ==
  ASSUME key \in Keys, NEW Q \in SUBSET Row, Q # {}
  PROVE  \E t \in Q : \A u \in Q : D(u) <= D(t)
<1> DEFINE Beyond(t) == {u \in Q : D(u) > D(t)}
           Sizes == {Cardinality(Beyond(t)) : t \in Q}
<1>1. IsFiniteSet(Q)
  BY Zenon, RowAssumption, FS_Subset
<1>2. ASSUME NEW t \in Q PROVE IsFiniteSet(Beyond(t)) /\ Cardinality(Beyond(t)) \in Nat
  <2>1. Beyond(t) \in SUBSET Q
    BY Zenon
  <2>2. IsFiniteSet(Beyond(t))
    BY Zenon, <1>1, <2>1, FS_Subset
  <2> QED
    BY Zenon, <2>2, FS_CardinalityType
<1>3. Sizes \subseteq Nat /\ Sizes # {}
  BY Zenon, <1>2
<1>4. \E n \in Sizes : \A m \in Sizes : ~(<<m, n>> \in OpToRel(<, Nat))
  <2> HIDE DEF Sizes
  <2> QED
    BY <1>3, NatLessThanWellFounded, WFMin, Zenon
<1>5. PICK t \in Q : \A m \in Sizes : ~(m < Cardinality(Beyond(t)))
  <2>1. PICK n \in Sizes : \A m \in Sizes : ~(<<m, n>> \in OpToRel(<, Nat))
    BY <1>4, Zenon
  <2>2. \A m \in Sizes : ~(m < n)
    BY <1>3, <2>1, Zenon DEF OpToRel
  <2> QED
    BY Zenon, <2>2
<1>6. ASSUME NEW u \in Q, D(u) > D(t) PROVE FALSE
  <2>1. D(u) \in Int /\ D(t) \in Int /\ \A v \in Q : D(v) \in Int
    BY Zenon, DistanceType
  <2>2. Beyond(u) \in SUBSET Beyond(t) /\ u \in Beyond(t) /\ u \notin Beyond(u)
    BY <1>6, <2>1
  <2>3. Cardinality(Beyond(u)) < Cardinality(Beyond(t))
    <3> HIDE DEF Beyond
    <3>1. Cardinality(Beyond(u)) <= Cardinality(Beyond(t)) /\ Cardinality(Beyond(u)) # Cardinality(Beyond(t))
      BY Zenon, <1>2, <2>2, FS_Subset
    <3> QED
      BY <1>2, <3>1
  <2> QED
    BY Zenon, <1>5, <2>3
<1> QED
  BY <1>6, DistanceType

(* The queue keeps its bound, and gives up one of its farthest rows. *)
LEMMA QueueWithFacts ==
  ASSUME key \in Keys, distanceQueue \in SUBSET Row, NEW r \in Row, NEW c \in Nat \ {0},
         Cardinality(distanceQueue) <= c
  PROVE  /\ QueueWith(r, c) \in SUBSET Row
         /\ Cardinality(QueueWith(r, c)) <= c
         /\ QueueWith(r, c) \subseteq distanceQueue \union {r}
         /\ r \in QueueWith(r, c)
         /\ Cardinality(distanceQueue) < c => QueueWith(r, c) = distanceQueue \union {r}
         /\ Cardinality(QueueWith(r, c)) < c => Cardinality(distanceQueue) < c \/ r \in distanceQueue
         /\ \A u \in distanceQueue \ QueueWith(r, c) : \A t \in distanceQueue : D(t) <= D(u)
<1>1. IsFiniteSet(distanceQueue) /\ Cardinality(distanceQueue) \in Nat
  BY Zenon, RowAssumption, FS_Subset, FS_CardinalityType
<1>2. CASE Cardinality(distanceQueue) = c
  <2> DEFINE Q == distanceQueue \ {top}
  <2>1. distanceQueue # {}
    BY Zenon, <1>1, <1>2, FS_EmptySet
  <2>2. top \in distanceQueue /\ \A u \in distanceQueue : D(u) <= D(top)
    BY Zenon, <2>1, FarthestExists DEF top
  <2>3. IsFiniteSet(Q) /\ Cardinality(Q) = c - 1
    BY Zenon, <1>1, <1>2, <2>2, FS_RemoveElement
  <2>4. Cardinality(Q \union {r}) = IF r \in Q THEN c - 1 ELSE (c - 1) + 1
    <3> HIDE DEF Q
    <3> QED
      BY Zenon, <2>3, FS_AddElement
  <2>5. QueueWith(r, c) = Q \union {r}
    BY Zenon, <1>2 DEF QueueWith
  <2> QED
    BY <1>2, <2>2, <2>4, <2>5
<1>3. CASE Cardinality(distanceQueue) # c
  <2>1. QueueWith(r, c) = distanceQueue \union {r}
    BY Zenon, <1>3 DEF QueueWith
  <2>2. Cardinality(distanceQueue \union {r}) <= Cardinality(distanceQueue) + 1
    BY SMTT(30), <1>1, FS_AddElement
  <2>3. IsFiniteSet(distanceQueue \union {r})
    BY Zenon, <1>1, FS_AddElement
  <2>4. Cardinality(distanceQueue \union {r}) \in Nat
    BY Zenon, <2>3, FS_CardinalityType
  <2> QED
    BY <1>1, <1>3, <2>1, <2>2, <2>4
<1> QED
  BY Zenon, <1>2, <1>3

(* The places of the rows delivered before place n that are nearer. *)
Nearer(s, n, d) == {m \in 1..(n - 1) : d[s[m]] < d[s[n]]}

(* A scan is settled after one more row if it was before, or if OrderQueue *)
(* rows are nearer than this one.                                          *)
LEMMA SettledStep ==
  ASSUME pulled \in Seq(Row), NEW r \in Row, pulled' = Append(pulled, r), key' = key
  PROVE  Settled' <=> \/ Settled
                      \/ Cardinality({m \in 1..Len(pulled) : D(pulled[m]) < D(r)}) >= OrderQueue
<1> DEFINE n == Len(pulled) + 1
           s == Append(pulled, r)
<1>1. /\ n \in Nat /\ DOMAIN pulled = 1..Len(pulled) /\ DOMAIN s = 1..n /\ s[n] = r
      /\ \A m \in 1..Len(pulled) : s[m] = pulled[m]
      /\ Len(pulled) \in Nat
  BY AppendFacts
<1>2. Settled <=> \E k \in 1..Len(pulled) : Cardinality(Nearer(pulled, k, key.dist)) >= OrderQueue
  BY Zenon, <1>1 DEF Settled, Nearer, D
<1>3. Settled' <=> \E k \in 1..n : Cardinality(Nearer(s, k, key.dist)) >= OrderQueue
  BY Zenon, <1>1 DEF Settled, Nearer, D
<1> HIDE DEF s
<1>4. ASSUME NEW k \in 1..Len(pulled) PROVE Nearer(s, k, key.dist) = Nearer(pulled, k, key.dist)
  BY <1>1 DEF Nearer
<1>5. Nearer(s, n, key.dist) = {m \in 1..Len(pulled) : D(pulled[m]) < D(r)}
  BY <1>1 DEF Nearer, D
<1>6. \A k : k \in 1..n <=> k \in 1..Len(pulled) \/ k = n
  BY <1>1
<1> QED
  BY Zenon, <1>2, <1>3, <1>4, <1>5, <1>6

(* While the queue holds the nearest rows, its test for the next row is    *)
(* the one of Settled.                                                     *)
LEMMA InOrderExact ==
  ASSUME TypeOK, OrderInv, distanceQueue \subseteq Range(pulled), ~hasRangeFilter,
         NEW r \in Row
  PROVE  InOrderAt(r) <=> Cardinality({m \in 1..Len(pulled) : D(pulled[m]) < D(r)}) >= OrderQueue
<1> DEFINE P == {m \in 1..Len(pulled) : D(pulled[m]) < D(r)}
           N == {pulled[m] : m \in P}
<1>1. /\ pulled \in Seq(Row) /\ DOMAIN pulled = 1..Len(pulled) /\ Range(pulled) \subseteq Row
      /\ distanceQueue \in SUBSET Row /\ key \in Keys /\ Cardinality(distanceQueue) <= OrderQueue
  BY Zenon, TypeFacts
<1>2. IsFiniteSet(distanceQueue) /\ Cardinality(distanceQueue) \in Nat /\ OrderQueue \in Nat \ {0}
  BY Zenon, <1>1, RowAssumption, FS_Subset, FS_CardinalityType, ThresholdsAssumption
<1>3. N = {u \in Range(pulled) : D(u) < D(r)}
  BY Zenon, <1>1 DEF Range
<1>4. Cardinality(P) = Cardinality(N) /\ IsFiniteSet(N) /\ Cardinality(N) \in Nat
  <2>1. P \in SUBSET DOMAIN pulled
    BY Zenon, <1>1
  <2>2. Cardinality(P) = Cardinality(N)
    BY Zenon, <1>1, <2>1, DistinctCardinality DEF OrderInv
  <2>3. N \in SUBSET Row
    BY Zenon, <1>1, <1>3
  <2>4. IsFiniteSet(N)
    BY Zenon, <2>3, RowAssumption, FS_Subset
  <2> QED
    BY Zenon, <2>2, <2>4, FS_CardinalityType
<1> HIDE DEF P, N
<1>5. \A u \in Range(pulled) \union {r} : D(u) \in Int
  BY Zenon, <1>1, DistanceType
<1>6. ASSUME InOrderAt(r) PROVE Cardinality(N) >= OrderQueue
  <2>1. distanceQueue \in SUBSET N /\ Cardinality(distanceQueue) = OrderQueue
    BY Zenon, <1>3, <1>6 DEF InOrderAt
  <2>2. Cardinality(distanceQueue) <= Cardinality(N)
    BY Zenon, <1>4, <2>1, FS_Subset
  <2> QED
    BY ZenonT(60), <1>2, <1>4, <2>1, <2>2
<1>7. ASSUME ~InOrderAt(r) PROVE Cardinality(N) < OrderQueue
  <2>1. CASE Cardinality(distanceQueue) < OrderQueue
    <3>1. N \in SUBSET distanceQueue
      BY Zenon, <1>3, <2>1 DEF OrderInv
    <3>2. Cardinality(N) <= Cardinality(distanceQueue)
      BY Zenon, <1>2, <3>1, FS_Subset
    <3> QED
      BY SMTT(30), <1>2, <1>4, <2>1, <3>2
  <2>2. CASE Cardinality(distanceQueue) = OrderQueue
    <3>1. PICK t \in distanceQueue : ~(D(t) < D(r))
      BY Zenon, <1>7, <2>2 DEF InOrderAt
    <3>2. N \in SUBSET (distanceQueue \ {t})
      <4> SUFFICES ASSUME NEW u \in N PROVE u \in distanceQueue /\ u # t
        BY Zenon
      <4>1. u \in Range(pulled) /\ D(u) < D(r)
        BY Zenon, <1>3
      <4>2. u \in distanceQueue
        <5> SUFFICES ASSUME u \notin distanceQueue PROVE FALSE
          BY Zenon
        <5>1. D(t) <= D(u)
          BY Zenon, <4>1 DEF OrderInv
        <5> QED
          BY <1>5, <3>1, <4>1, <5>1
      <4> QED
        BY Zenon, <3>1, <4>1, <4>2
    <3>3. IsFiniteSet(distanceQueue \ {t}) /\ Cardinality(distanceQueue \ {t}) = OrderQueue - 1
      BY Zenon, <1>2, <2>2, FS_RemoveElement
    <3>4. Cardinality(N) <= Cardinality(distanceQueue \ {t})
      BY Zenon, <3>2, <3>3, FS_Subset
    <3> QED
      BY SMTT(30), <1>2, <1>4, <3>3, <3>4
  <2> QED
    BY SMTT(60), <1>1, <1>2, <2>1, <2>2
<1> QED
  BY SMTT(30), <1>2, <1>4, <1>6, <1>7 DEF P

(* A row that does not settle the scan leaves the nearest rows queued. *)
LEMMA OrderInvStep ==
  ASSUME TypeOK, OrderInv, distanceQueue \subseteq Range(pulled), ~hasRangeFilter,
         NEW r \in Row, r \notin Range(pulled), ~InOrderAt(r),
         pulled' = Append(pulled, r), key' = key, distanceQueue' = QueueWith(r, OrderQueue)
  PROVE  OrderInv'
<1> DEFINE Q == QueueWith(r, OrderQueue)
<1>1. /\ pulled \in Seq(Row) /\ DOMAIN pulled = 1..Len(pulled) /\ Range(pulled) \subseteq Row
      /\ distanceQueue \in SUBSET Row /\ key \in Keys /\ Cardinality(distanceQueue) <= OrderQueue
  BY Zenon, TypeFacts
<1>2. OrderQueue \in Nat \ {0} /\ Cardinality(distanceQueue) \in Nat
  BY Zenon, <1>1, RowAssumption, FS_Subset, FS_CardinalityType, ThresholdsAssumption
<1>3. /\ Q \subseteq distanceQueue \union {r} /\ r \in Q
      /\ Cardinality(distanceQueue) < OrderQueue => Q = distanceQueue \union {r}
      /\ Cardinality(Q) < OrderQueue => Cardinality(distanceQueue) < OrderQueue
      /\ \A u \in distanceQueue \ Q : \A t \in distanceQueue : D(t) <= D(u)
  BY Zenon, <1>1, <1>2, QueueWithFacts
<1> HIDE DEF Q
<1>4. \A u \in Range(pulled) \union {r} : D(u) \in Int
  BY Zenon, <1>1, DistanceType
<1>5. Range(Append(pulled, r)) = Range(pulled) \union {r}
  BY Zenon, <1>1, AppendFacts
<1>6. \A m, n \in DOMAIN Append(pulled, r) : m # n => Append(pulled, r)[m] # Append(pulled, r)[n]
  <2>1. \A m \in 1..Len(pulled) : pulled[m] # r
    BY Zenon, <1>1 DEF Range
  <2>2. /\ DOMAIN Append(pulled, r) = 1..(Len(pulled) + 1) /\ Append(pulled, r)[Len(pulled) + 1] = r
        /\ \A m \in 1..Len(pulled) : Append(pulled, r)[m] = pulled[m]
        /\ Len(pulled) \in Nat
    BY Zenon, <1>1, AppendFacts
  <2> QED
    BY SMTT(30), <1>1, <2>1, <2>2 DEF OrderInv
<1>7. Cardinality(Q) < OrderQueue => Q = Range(pulled) \union {r}
  BY Zenon, <1>3 DEF OrderInv
<1>8. ASSUME NEW t \in Q, NEW u \in (Range(pulled) \union {r}) \ Q PROVE D(t) <= D(u)
  <2>1. u \in Range(pulled) /\ Cardinality(distanceQueue) = OrderQueue
    BY <1>1, <1>2, <1>3 DEF OrderInv
  <2>2. \A v \in distanceQueue : D(v) <= D(u)
    BY Zenon, <1>3, <2>1 DEF OrderInv
  <2>3. PICK v \in distanceQueue : ~(D(v) < D(r))
    BY Zenon, <2>1 DEF InOrderAt
  <2>4. D(r) <= D(u)
    BY <1>4, <2>1, <2>2, <2>3
  <2> QED
    BY Zenon, <1>3, <2>2, <2>4
<1> QED
  BY Zenon, <1>5, <1>6, <1>7, <1>8 DEF OrderInv, Q, D
-----------------------------------------------------------------------------
(* A row returned by amgettuple keeps the types of what Return writes. *)
LEMMA ReturnType ==
  ASSUME NodeTypeOK, xs_inorder' \in BOOLEAN, NEW r \in Row, Return(r)
  PROVE  /\ returned' \in Seq(Row) /\ emitted' \in Seq(Row)
         /\ is_index_inorder' \in BOOLEAN /\ pc' \in {"idle", "get"} /\ i' \in Nat
<1>1. returned' \in Seq(Row)
  BY Zenon, AppendFacts DEF NodeTypeOK, Return
<1>2. is_index_inorder' \in BOOLEAN
  BY Zenon DEF NodeTypeOK, Return
<1>3. emitted' \in Seq(Row) /\ pc' \in {"idle", "get"} /\ i' \in Nat
  <2> DEFINE passes == r \in Visible /\ (xs_recheck /\ shape.filter => OperatorHolds(r))
  <2>1. CASE passes
    <3>1. pc' = "idle" /\ emitted' = Append(emitted, r) /\ i' = i
      BY <2>1, Zenon DEF Return
    <3> QED
      BY Zenon, <3>1, AppendFacts DEF NodeTypeOK
  <2>2. CASE ~passes
    <3>1. i' = 0 /\ pc' = pc /\ emitted' = emitted
      BY <2>2, Zenon DEF Return
    <3> QED
      BY Zenon, <3>1 DEF NodeTypeOK
  <2> QED
    BY Zenon, <2>1, <2>2
<1> QED
  BY Zenon, <1>1, <1>2, <1>3

(* Pulling a row keeps the types of what Pull writes. *)
LEMMA PullType ==
  ASSUME NodeTypeOK, NEW r \in Row, Pull(r)
  PROVE  /\ pulled' \in Seq(Row)
         /\ am' \in Ams /\ shape' \in Shapes /\ key' \in Keys
         /\ desc' \in {"none", "open", "closed", "aborted"}
         /\ first' \in BOOLEAN /\ hasRangeFilter' \in BOOLEAN
         /\ workSpace' \in {"null", "empty", "open"}
         /\ xs_recheck' \in BOOLEAN /\ crashed' \in BOOLEAN
<1>1. pulled' \in Seq(Row)
  BY Zenon, AppendFacts DEF NodeTypeOK, Pull
<1> QED
  BY Zenon, <1>1 DEF NodeTypeOK, Pull

(* A step of a range scan keeps the types of what RangeCheck writes. *)
LEMMA RangeCheckType ==
  ASSUME NodeTypeOK, NEW r \in Row, NEW threshold \in Nat, RangeCheck(r, threshold)
  PROVE  /\ returned' \in Seq(Row) /\ emitted' \in Seq(Row)
         /\ is_index_inorder' \in BOOLEAN /\ pc' \in {"idle", "get"} /\ i' \in Nat
         /\ xs_inorder' \in BOOLEAN /\ inRange' \in BOOLEAN
         /\ ended' \in {"no", "nokey", "exhausted", "notnear", "leftrange"}
<1>1. xs_inorder' \in BOOLEAN
  BY Zenon DEF NodeTypeOK, RangeCheck
<1>2. CASE D(r) <= key.range /\ inRange' = TRUE /\ Return(r) /\ ended' = ended
  <2>1. ended' \in {"no", "nokey", "exhausted", "notnear", "leftrange"}
    BY Zenon, <1>2 DEF NodeTypeOK
  <2> QED
    BY ZenonT(60), <1>1, <1>2, <2>1, ReturnType
<1>3. CASE /\ D(r) > key.range
           /\ i' = IF inRange THEN i + 1 ELSE i
           /\ IF inRange /\ i + 1 >= threshold
              THEN NoTuple("leftrange")
              ELSE UNCHANGED <<pc, ended>>
           /\ UNCHANGED <<inRange, is_index_inorder, returned, emitted>>
  <2>1. pc' \in {"idle", "get"} /\ ended' \in {"no", "nokey", "exhausted", "notnear", "leftrange"}
    <3>1. CASE inRange /\ i + 1 >= threshold
      BY Zenon, <1>3, <3>1 DEF NoTuple
    <3>2. CASE ~(inRange /\ i + 1 >= threshold)
      BY Zenon, <1>3, <3>2 DEF NodeTypeOK
    <3> QED
      BY Zenon, <3>1, <3>2
  <2>2. i' \in Nat
    <3>1. i' = i + 1 \/ i' = i
      BY <1>3, Zenon
    <3>2. i \in Nat
      BY Zenon DEF NodeTypeOK
    <3> QED
      BY <3>1, <3>2
  <2>3. inRange' \in BOOLEAN /\ is_index_inorder' \in BOOLEAN
    BY <1>3, Zenon DEF NodeTypeOK
  <2>4. returned' \in Seq(Row) /\ emitted' \in Seq(Row)
    BY <1>3, Zenon DEF NodeTypeOK
  <2> QED
    BY <1>1, <2>1, <2>2, <2>3, <2>4, Zenon
<1> QED
  BY Zenon, <1>2, <1>3 DEF RangeCheck

(* The empty queue is within its bound. *)
LEMMA EmptyQueueType ==
  ASSUME distanceQueue' = {}
  PROVE  QueueTypeOK'
BY FS_EmptySet, ThresholdsAssumption DEF QueueTypeOK

(* Every step of a scan keeps the types. *)
LEMMA TypeStep ==
  ASSUME TypeOK, CallInv, Next
  PROVE  TypeOK'
<1> USE DEF TypeOK
<1>1. CASE Fetch
  <2>1. NodeTypeOK'
    BY ZenonT(60), <1>1 DEF Fetch, IndexNext, NodeTypeOK, opaque, history
  <2>2. QueueTypeOK' /\ BatchTypeOK'
    BY Zenon, <1>1 DEF Fetch, IndexNext, QueueTypeOK, BatchTypeOK, opaque
  <2> QED
    BY Zenon, <2>1, <2>2
<1>2. ASSUME NEW k \in Keys, Rescan(k) PROVE TypeOK'
  <2>1. RescanKeys(k) /\ crashed' \in BOOLEAN /\ workSpace' = "null" /\ first' = TRUE
    BY Zenon, <1>2 DEF Rescan, HnswRescan, SptagRescan, PaseRescan, NodeTypeOK
  <2>2. NodeTypeOK'
    <3>1. <<>> \in Seq(Row)
      OBVIOUS
    <3> QED
      BY Zenon, <1>2, <2>1, <3>1 DEF RescanKeys, NodeTypeOK
  <2>3. distanceQueue' = {} /\ (result' = {} \/ result' = result)
    BY Zenon, <1>2 DEF Rescan, HnswRescan, SptagRescan, PaseRescan, CallInv
  <2>4. QueueTypeOK' /\ BatchTypeOK'
    BY SMTT(30), <2>3, EmptyQueueType, FS_EmptySet, PaseAssumption DEF BatchTypeOK
  <2> QED
    BY Zenon, <2>2, <2>4
<1>3. CASE EndScan
  <2>1. CloseScan /\ crashed' \in BOOLEAN /\ workSpace' = "null"
    BY ZenonT(60), <1>3 DEF EndScan, HnswEndScan, SptagEndScan, PaseEndScan, NodeTypeOK
  <2>2. NodeTypeOK'
    BY ZenonT(60), <2>1 DEF CloseScan, NodeTypeOK, history
  <2>3. distanceQueue' = {} /\ (result' = {} \/ result' = result)
    BY Zenon, <1>3 DEF EndScan, HnswEndScan, SptagEndScan, PaseEndScan, CallInv
  <2>4. QueueTypeOK' /\ BatchTypeOK'
    BY <2>3, EmptyQueueType, FS_EmptySet, PaseAssumption DEF BatchTypeOK
  <2> QED
    BY Zenon, <2>2, <2>4
<1>4. CASE NoKey /\ distanceQueue' = {} /\ result' = result
  <2>1. NodeTypeOK'
    BY ZenonT(60), <1>4 DEF NoKey, NoTuple, NodeTypeOK, history
  <2> QED
    BY Zenon, <1>4, <2>1, EmptyQueueType DEF BatchTypeOK
<1>5. CASE OpenSearch /\ xs_inorder' \in BOOLEAN /\ distanceQueue' = {} /\ result' = result
  <2>1. NodeTypeOK'
    BY Zenon, <1>5 DEF OpenSearch, NodeTypeOK, history
  <2> QED
    BY Zenon, <1>5, <2>1, EmptyQueueType DEF BatchTypeOK
<1>6. CASE Exhausted /\ distanceQueue' = distanceQueue /\ result' = result
  <2>1. NodeTypeOK'
    BY ZenonT(60), <1>6 DEF Exhausted, NoTuple, NodeTypeOK, history, opaque
  <2>2. QueueTypeOK'
    BY Zenon, <1>6 DEF Exhausted, opaque, QueueTypeOK
  <2> QED
    BY Zenon, <1>6, <2>1, <2>2 DEF BatchTypeOK
<1>7. ASSUME NEW r \in Row, HnswPullOrdered(r), result' = result PROVE TypeOK'
  <2>1. Pull(r) /\ Return(r) /\ inRange' = inRange /\ ended' = ended
    BY Zenon, <1>7 DEF HnswPullOrdered
  <2>2. xs_inorder' \in BOOLEAN
    BY Zenon, <1>7 DEF HnswPullOrdered, NodeTypeOK
  <2>3. NodeTypeOK'
    <3>1. ended' \in {"no", "nokey", "exhausted", "notnear", "leftrange"} /\ inRange' \in BOOLEAN
      BY Zenon, <2>1 DEF NodeTypeOK
    <3> QED
      BY ZenonT(60), <2>1, <2>2, <3>1, PullType, ReturnType DEF NodeTypeOK
  <2>4. distanceQueue' = distanceQueue \/ distanceQueue' = QueueWith(r, OrderQueue)
    BY Zenon, <1>7 DEF HnswPullOrdered
  <2>5. ~hasRangeFilter /\ hasRangeFilter' = hasRangeFilter
    BY Zenon, <1>7 DEF HnswPullOrdered, Pull
  <2>6. distanceQueue' \in SUBSET Row /\ Cardinality(distanceQueue') <= OrderQueue
    BY Zenon, <2>4, <2>5, TypeFacts, QueueWithFacts, ThresholdsAssumption
  <2>7. QueueTypeOK'
    BY <2>5, <2>6, Zenon DEF QueueTypeOK
  <2> QED
    BY Zenon, <1>7, <2>3, <2>7 DEF BatchTypeOK
<1>8. ASSUME NEW r \in Row, HnswPullRange(r), result' = result PROVE TypeOK'
  <2>1. Pull(r) /\ hasRangeFilter /\ hasRangeFilter' = hasRangeFilter
    BY ZenonT(60), <1>8 DEF HnswPullRange, Pull
  <2>2. CASE RangeCheck(r, DistanceThreshold) /\ distanceQueue' \in {distanceQueue, QueueWith(r, QueueThreshold)}
    <3>1. NodeTypeOK'
      BY ZenonT(60), <2>1, <2>2, PullType, RangeCheckType, ThresholdsAssumption DEF NodeTypeOK
    <3>2. distanceQueue' \in SUBSET Row /\ Cardinality(distanceQueue') <= QueueThreshold
      BY ZenonT(60), <2>1, <2>2, TypeFacts, QueueWithFacts, ThresholdsAssumption
    <3>3. QueueTypeOK'
      BY <2>1, <3>2, Zenon DEF QueueTypeOK
    <3> QED
      BY Zenon, <1>8, <3>1, <3>3 DEF BatchTypeOK
  <2>3. CASE /\ NoTuple("notnear")
             /\ UNCHANGED <<inRange, distanceQueue, xs_inorder, is_index_inorder, i, returned, emitted>>
    <3>1. NodeTypeOK'
      BY ZenonT(60), <2>1, <2>3, PullType DEF NodeTypeOK, NoTuple
    <3>2. QueueTypeOK'
      BY Zenon, <2>1, <2>3 DEF QueueTypeOK
    <3> QED
      BY Zenon, <1>8, <3>1, <3>2 DEF BatchTypeOK
  <2> QED
    BY Zenon, <1>8, <2>2, <2>3 DEF HnswPullRange
<1>9. ASSUME NEW r \in Row, SptagPullOrdered(r), UNCHANGED <<distanceQueue, result>> PROVE TypeOK'
  <2>1. Pull(r) /\ Return(r) /\ inRange' = inRange /\ ended' = ended /\ xs_inorder' = xs_inorder
    BY Zenon, <1>9 DEF SptagPullOrdered
  <2>2. xs_inorder' \in BOOLEAN
    BY Zenon, <2>1 DEF NodeTypeOK
  <2>3. ended' \in {"no", "nokey", "exhausted", "notnear", "leftrange"} /\ inRange' \in BOOLEAN
    BY Zenon, <2>1 DEF NodeTypeOK
  <2>4. NodeTypeOK'
    BY ZenonT(60), <2>1, <2>2, <2>3, PullType, ReturnType DEF NodeTypeOK
  <2>5. QueueTypeOK'
    BY ZenonT(60), <1>9, <2>1 DEF QueueTypeOK, Pull
  <2> QED
    BY Zenon, <1>9, <2>4, <2>5 DEF BatchTypeOK
<1>10. ASSUME NEW r \in Row, SptagPullRange(r), UNCHANGED <<distanceQueue, result>> PROVE TypeOK'
  <2>1. Pull(r) /\ RangeCheck(r, SptagThreshold)
    BY Zenon, <1>10 DEF SptagPullRange
  <2>2. NodeTypeOK'
    BY ZenonT(60), <2>1, PullType, RangeCheckType, SptagAssumption DEF NodeTypeOK
  <2>3. QueueTypeOK'
    BY Zenon, <1>10, <2>1 DEF QueueTypeOK, Pull
  <2> QED
    BY Zenon, <1>10, <2>2, <2>3 DEF BatchTypeOK
<1>11. CASE (PaseNoOrder \/ PaseNullKey \/ PaseStart) /\ distanceQueue' = distanceQueue
  <2>1. NodeTypeOK'
    <3>1. CASE PaseNoOrder
      BY ZenonT(60), <3>1 DEF PaseNoOrder, NodeTypeOK, history
    <3>2. CASE PaseNullKey
      BY ZenonT(60), <3>2 DEF PaseNullKey, NoTuple, NodeTypeOK, history
    <3>3. CASE PaseStart
      BY ZenonT(60), <3>3 DEF PaseStart, NodeTypeOK, history
    <3> QED
      BY ZenonT(60), <1>11, <3>1, <3>2, <3>3
  <2>2. QueueTypeOK'
    <3>1. hasRangeFilter' = hasRangeFilter
      BY <1>11, Zenon DEF PaseNoOrder, PaseNullKey, PaseStart
    <3> QED
      BY <1>11, <3>1, Zenon DEF QueueTypeOK
  <2>3. BatchTypeOK'
    BY Zenon, <1>11 DEF PaseNoOrder, PaseNullKey, PaseStart, BatchTypeOK
  <2> QED
    BY Zenon, <2>1, <2>2, <2>3
<1>12. ASSUME NEW r \in Row, PaseNext(r), distanceQueue' = distanceQueue PROVE TypeOK'
  <2>1. Pull(r) /\ Return(r) /\ inRange' = inRange /\ ended' = ended /\ xs_inorder' = xs_inorder
    BY ZenonT(60), <1>12 DEF PaseNext
  <2>2. xs_inorder' \in BOOLEAN
    BY Zenon, <2>1 DEF NodeTypeOK
  <2>3. ended' \in {"no", "nokey", "exhausted", "notnear", "leftrange"} /\ inRange' \in BOOLEAN
    BY Zenon, <2>1 DEF NodeTypeOK
  <2>4. NodeTypeOK'
    BY Zenon, <2>1, <2>2, <2>3, PullType, ReturnType DEF NodeTypeOK
  <2>5. QueueTypeOK'
    BY Zenon, <1>12, <2>1 DEF QueueTypeOK, Pull
  <2>6. result \in SUBSET Row /\ result' \in SUBSET result
    BY Zenon, <1>12 DEF PaseNext, BatchTypeOK
  <2>7. IsFiniteSet(result) /\ Cardinality(result) \in Nat
    BY Zenon, <2>6, RowAssumption, FS_Subset, FS_CardinalityType
  <2>8. Cardinality(result') <= Cardinality(result) /\ Cardinality(result') \in Nat
    BY Zenon, <2>6, <2>7, FS_Subset, FS_CardinalityType
  <2>9. BatchTypeOK'
    BY SMTT(30), <2>6, <2>7, <2>8, PaseAssumption DEF BatchTypeOK
  <2> QED
    BY Zenon, <2>4, <2>5, <2>9
<1> QED
  <2>1. CASE am = "hnsw" /\ HnswGetTuple /\ result' = result
    BY Zenon, <2>1, <1>4, <1>5, <1>6, <1>7, <1>8 DEF HnswGetTuple, HnswNoKey, HnswStart
  <2>2. CASE am = "sptag" /\ SptagGetTuple /\ UNCHANGED <<distanceQueue, result>>
    <3>1. distanceQueue' = {} /\ xs_inorder \in BOOLEAN
      BY Zenon, <2>2 DEF CallInv, NodeTypeOK
    <3> QED
      BY Zenon, <2>2, <3>1, <1>4, <1>5, <1>6, <1>9, <1>10 DEF SptagGetTuple, SptagStart
  <2>3. CASE am = "pase_hnsw" /\ PaseGetTuple /\ distanceQueue' = distanceQueue
    BY Zenon, <2>3, <1>6, <1>11, <1>12 DEF PaseGetTuple
  <2> QED
    BY Zenon, <1>1, <1>2, <1>3, <2>1, <2>2, <2>3 DEF Next, GetTuple
-----------------------------------------------------------------------------
scanned == <<am, key, pulled, returned, hasRangeFilter, first>>

(* What is said of the histories holds as long as they stay. *)
LEMMA Unmoved ==
  ASSUME HistoryInv, UNCHANGED scanned
  PROVE  /\ RangeExact'
         /\ ended' = ended => RangeEndJustified'
         /\ xs_inorder' = xs_inorder => InOrderIffSettled'
<1>1. RangeExact'
  BY Zenon DEF HistoryInv, scanned, RangeExact, D
<1>2. ended' = ended => RangeEndJustified'
  BY Zenon DEF HistoryInv, scanned, RangeEndJustified, D
<1>3. xs_inorder' = xs_inorder => InOrderIffSettled'
  <2>1. Settled' <=> Settled
    BY Zenon DEF scanned, Settled, D
  <2>2. am' = am /\ (hasRangeFilter' <=> hasRangeFilter) /\ (first' <=> first)
    BY Zenon DEF scanned
  <2>3. xs_inorder' = xs_inorder => (xs_inorder' <=> xs_inorder)
    OBVIOUS
  <2>4. InOrderIffSettled
    BY Zenon DEF HistoryInv
  <2> QED
    BY Zenon, <2>1, <2>2, <2>3, <2>4 DEF InOrderIffSettled
<1> QED
  BY Zenon, <1>1, <1>2, <1>3

(* OrderInv speaks of the queue and pulled only. *)
LEMMA OrderUnmoved ==
  ASSUME OrderInv, UNCHANGED <<key, pulled, distanceQueue>>
  PROVE  OrderInv'
BY Zenon DEF OrderInv, D

(* PaseInv speaks of what is left to return. *)
LEMMA PaseUnmoved ==
  ASSUME PaseInv, UNCHANGED <<key, pulled, returned>>, result' \subseteq result
  PROVE  PaseInv'
BY Zenon DEF PaseInv

(* Before the scan has returned a row, PaseInv holds. *)
LEMMA PaseEmpty ==
  ASSUME returned' = <<>>
  PROVE  PaseInv'
BY RangeOfEmpty DEF PaseInv

(* IndexNext calls amgettuple. *)
LEMMA FetchStep ==
  ASSUME IInv, Fetch
  PROVE  HistoryInv'
<1>1. /\ UNCHANGED scanned /\ ended = "no" /\ desc \in {"none", "open"}
      /\ UNCHANGED <<ended, inRange, xs_inorder, distanceQueue, result>>
      /\ desc' = "open" /\ pc' = "get" /\ i' = 0
  BY Zenon DEF Fetch, IndexNext, opaque, history, scanned
<1>2. CallInv'
  BY Zenon, <1>1 DEF IInv, HistoryInv, CallInv, scanned
<1>3. (hasRangeFilter /\ ~first => RangeInv)'
  <2> SUFFICES ASSUME hasRangeFilter, ~first PROVE RangeInv'
    BY Zenon, <1>1 DEF scanned
  <2>1. RangeInv /\ Len(pulled) \in Nat /\ pulled \in Seq(Row)
    BY Zenon, TypeFacts DEF IInv, HistoryInv
  <2>2. inRange' => pulled' # <<>>
    BY Zenon, <1>1, <2>1 DEF RangeInv, scanned
  <2>3. ~inRange' => returned' = <<>> /\ \A t \in distanceQueue' : Far(t)'
    BY Zenon, <1>1, <2>1 DEF RangeInv, scanned, Far, D
  <2>4. inRange' => i' < Len(pulled') /\ \A m \in (Len(pulled') - i' + 1)..Len(pulled') : Far(pulled[m])'
    BY <1>1, <2>1, <2>2 DEF scanned
  <2> QED
    BY Zenon, <2>2, <2>3, <2>4 DEF RangeInv
<1>4. RangeExact' /\ RangeEndJustified' /\ InOrderIffSettled'
  BY Zenon, <1>1, Unmoved DEF IInv
<1>5. (am = "hnsw" /\ desc = "open" /\ ~hasRangeFilter /\ ~first /\ ~xs_inorder => OrderInv)'
  <2> SUFFICES ASSUME am = "hnsw", ~hasRangeFilter, ~first, ~xs_inorder PROVE OrderInv'
    BY Zenon, <1>1 DEF scanned
  <2>1. OrderInv
    BY Zenon, <1>1 DEF IInv, HistoryInv, CallInv
  <2> QED
    BY Zenon, <1>1, <2>1, OrderUnmoved DEF scanned
<1>6. (am = "pase_hnsw" => PaseInv)'
  BY Zenon, <1>1, PaseUnmoved DEF IInv, HistoryInv, scanned
<1> QED
  BY Zenon, <1>2, <1>3, <1>4, <1>5, <1>6 DEF HistoryInv

(* A rescan starts from empty histories. *)
LEMMA RescanStep ==
  ASSUME IInv, NEW k \in Keys, Rescan(k)
  PROVE  HistoryInv'
<1>1. /\ first' = TRUE /\ pulled' = <<>> /\ returned' = <<>> /\ ended' = "no"
      /\ pc' = "idle" /\ desc' = desc /\ am' = am /\ hasRangeFilter' = hasRangeFilter /\ distanceQueue' = {}
  BY Zenon DEF Rescan, HnswRescan, SptagRescan, PaseRescan, RescanKeys, IInv, HistoryInv, CallInv
<1>2. CallInv'
  BY Zenon, <1>1 DEF IInv, HistoryInv, CallInv
<1>3. RangeExact' /\ RangeEndJustified' /\ InOrderIffSettled'
  BY <1>1, Zenon DEF RangeExact, RangeEndJustified, InOrderIffSettled
<1>4. PaseInv'
  BY Zenon, <1>1, PaseEmpty
<1> QED
  BY <1>1, <1>2, <1>3, <1>4, Zenon DEF HistoryInv

(* The end of a scan empties its queues. *)
LEMMA EndScanStep ==
  ASSUME IInv, EndScan
  PROVE  HistoryInv'
<1>1. /\ UNCHANGED scanned /\ UNCHANGED <<ended, inRange, xs_inorder>>
      /\ pc' = "idle" /\ desc' = "closed" /\ distanceQueue' = {}
      /\ am = "pase_hnsw" => result' = {}
  BY Zenon DEF EndScan, HnswEndScan, SptagEndScan, PaseEndScan, CloseScan, history, scanned, IInv, HistoryInv, CallInv
<1>2. CallInv'
  BY Zenon, <1>1 DEF IInv, HistoryInv, CallInv, scanned
<1>3. (hasRangeFilter /\ ~first => RangeInv)'
  BY Zenon, <1>1 DEF IInv, HistoryInv, RangeInv, scanned
<1>4. RangeExact' /\ RangeEndJustified' /\ InOrderIffSettled'
  BY Zenon, <1>1, Unmoved DEF IInv
<1>5. (am = "pase_hnsw" => PaseInv)'
  BY ZenonT(60), <1>1, PaseUnmoved DEF IInv, HistoryInv, scanned
<1> QED
  BY ZenonT(60), <1>1, <1>2, <1>3, <1>4, <1>5 DEF HistoryInv

(* The first call of a scan without a key returns nothing. *)
LEMMA NoKeyStep ==
  ASSUME IInv, NoKey, distanceQueue' = {}, am # "pase_hnsw"
  PROVE  HistoryInv'
<1>1. /\ UNCHANGED scanned /\ xs_inorder' = xs_inorder /\ first /\ desc' = desc
      /\ pc' = "idle" /\ ended' = "nokey"
  BY Zenon DEF NoKey, NoTuple, history, scanned
<1>2. CallInv'
  BY Zenon, <1>1 DEF IInv, HistoryInv, CallInv, scanned
<1>3. RangeEndJustified' /\ InOrderIffSettled' /\ RangeExact'
  BY <1>1, Zenon DEF RangeEndJustified, InOrderIffSettled, RangeExact, scanned
<1> QED
  BY <1>1, <1>2, <1>3, Zenon DEF HistoryInv, scanned

(* The first call of a scan with a key opens its search. *)
LEMMA OpenStep ==
  ASSUME IInv, OpenSearch, distanceQueue' = {}, am # "pase_hnsw", am = "hnsw" => xs_inorder' = FALSE
  PROVE  HistoryInv'
<1>1. /\ am' = am /\ key' = key /\ pc' = "get" /\ desc' = desc /\ ended' = "no" /\ desc = "open"
      /\ pulled' = <<>> /\ returned' = <<>> /\ first' = FALSE
  BY Zenon DEF OpenSearch, history, IInv, HistoryInv, CallInv
<1>2. hasRangeFilter' => ~inRange'
  BY Zenon DEF OpenSearch
<1>3. CallInv'
  BY Zenon, <1>1 DEF CallInv
<1>4. hasRangeFilter' => RangeInv'
  BY ZenonT(60), <1>1, <1>2 DEF RangeInv
<1>5. RangeExact'
  BY Zenon, <1>1, RangeOfEmpty DEF RangeExact
<1>6. RangeEndJustified'
  BY <1>1, Zenon DEF RangeEndJustified
<1>7. OrderInv'
  BY <1>1, RangeOfEmpty DEF OrderInv
<1>8. InOrderIffSettled'
  <2>1. ~Settled'
    BY <1>1 DEF Settled
  <2> QED
    BY <1>1, <2>1, Zenon DEF InOrderIffSettled
<1> QED
  BY <1>1, <1>3, <1>4, <1>5, <1>6, <1>7, <1>8, Zenon DEF HistoryInv

(* A call that leaves the search alone ends: by its exhaustion, by an      *)
(* error, or because a pase_hnsw scan has no key.                          *)
LEMMA EndCallStep ==
  ASSUME IInv, UNCHANGED scanned, UNCHANGED <<inRange, xs_inorder, distanceQueue>>, pc' = "idle",
         am = "pase_hnsw" => result' = result,
         \/ ended' = "exhausted" /\ desc' = desc
         \/ am = "pase_hnsw" /\ first /\ ended' \in {"no", "nokey"} /\ desc' \in {desc, "aborted"}
  PROVE  HistoryInv'
<1>1. CallInv'
  BY Zenon DEF IInv, HistoryInv, CallInv, scanned
<1>2. (hasRangeFilter /\ ~first => RangeInv)'
  BY Zenon DEF IInv, HistoryInv, RangeInv, Far, D, scanned
<1>3. RangeExact' /\ InOrderIffSettled'
  BY Zenon, Unmoved DEF IInv
<1>4. RangeEndJustified'
  BY Zenon DEF RangeEndJustified, scanned
<1>5. (am = "hnsw" /\ desc = "open" /\ ~hasRangeFilter /\ ~first /\ ~xs_inorder => OrderInv)'
  BY Zenon, OrderUnmoved DEF IInv, HistoryInv, scanned
<1>6. (am = "pase_hnsw" => PaseInv)'
  BY Zenon, PaseUnmoved DEF IInv, HistoryInv, scanned
<1> QED
  BY Zenon, <1>1, <1>2, <1>3, <1>4, <1>5, <1>6 DEF HistoryInv

(* A call that goes on after a row counts from zero again. *)
LEMMA ReturnFacts ==
  ASSUME NEW r, Return(r)
  PROVE  returned' = Append(returned, r) /\ (pc' = "get" => i' = 0)
<1> DEFINE passes == r \in Visible /\ (xs_recheck /\ shape.filter => OperatorHolds(r))
<1>1. CASE passes
  BY Zenon, <1>1 DEF Return
<1>2. CASE ~passes
  BY Zenon, <1>2 DEF Return
<1> QED
  BY Zenon, <1>1, <1>2

(* What a running call may assume, and what pulling a row changes. *)
LEMMA PullFacts ==
  ASSUME IInv, NEW r \in Row, Pull(r)
  PROVE  /\ am' = am /\ key' = key /\ desc' = "open" /\ pulled' = Append(pulled, r)
         /\ (hasRangeFilter' <=> hasRangeFilter) /\ ~first /\ ~first'
         /\ pc = "get" /\ ended = "no" /\ desc = "open"
         /\ r \notin Range(pulled) /\ Range(pulled') = Range(pulled) \union {r}
<1>1. pc = "get" /\ ~first /\ pulled' = Append(pulled, r) /\ r \in Fresh
  BY Zenon DEF Pull
<1>2. am' = am /\ key' = key /\ desc' = desc
  BY Zenon DEF Pull
<1>3. (hasRangeFilter' <=> hasRangeFilter) /\ ~first'
  BY <1>1, Zenon DEF Pull
<1>4. ended = "no" /\ desc = "open"
  BY Zenon, <1>1 DEF IInv, HistoryInv, CallInv
<1>5. Range(pulled') = Range(pulled) \union {r}
  BY Zenon, <1>1, TypeFacts, AppendFacts DEF IInv
<1> QED
  BY Zenon, <1>1, <1>2, <1>3, <1>4, <1>5 DEF Fresh

(* Pulling a row keeps what CallInv says of the call and the queue. *)
LEMMA PullCall ==
  ASSUME IInv, NEW r \in Row, Pull(r),
         pc' = "get" => ended' = "no", ended' # "nokey",
         distanceQueue' \subseteq distanceQueue \union {r},
         am # "hnsw" => distanceQueue' = {}
  PROVE  CallInv'
BY Zenon, PullFacts DEF IInv, HistoryInv, CallInv

(* A row of an order-by scan of hnsw. *)
LEMMA HnswPullOrderedStep ==
  ASSUME IInv, am = "hnsw", NEW r \in Row, HnswPullOrdered(r)
  PROVE  HistoryInv'
<1>1. Pull(r) /\ ~hasRangeFilter /\ ended' = ended
  BY Zenon DEF HnswPullOrdered
<1>2. /\ am' = am /\ key' = key /\ desc' = "open" /\ pulled' = Append(pulled, r)
      /\ ~hasRangeFilter' /\ ~first /\ ~first' /\ ended' = "no" /\ desc = "open"
      /\ r \notin Range(pulled)
  BY Zenon, <1>1, PullFacts
<1>3. /\ TypeOK /\ CallInv /\ InOrderIffSettled /\ distanceQueue \subseteq Range(pulled)
      /\ ~xs_inorder => OrderInv
  BY Zenon, <1>1, <1>2 DEF IInv, HistoryInv, CallInv
<1>4. QueueWith(r, OrderQueue) \subseteq distanceQueue \union {r}
  BY Zenon, <1>1, <1>3, TypeFacts, QueueWithFacts, ThresholdsAssumption
<1>5. CallInv'
  <2>1. distanceQueue' \subseteq distanceQueue \union {r}
    BY Zenon, <1>4 DEF HnswPullOrdered
  <2> QED
    BY Zenon, <1>1, <1>2, <2>1, PullCall
<1>6. RangeExact' /\ RangeEndJustified'
  BY <1>2, Zenon DEF RangeExact, RangeEndJustified
<1>7. Settled' <=> \/ Settled
                   \/ Cardinality({m \in 1..Len(pulled) : D(pulled[m]) < D(r)}) >= OrderQueue
  BY Zenon, <1>2, <1>3, TypeFacts, SettledStep
<1>8. CASE xs_inorder
  <2>1. xs_inorder'
    BY Zenon, <1>8 DEF HnswPullOrdered
  <2>2. Settled'
    BY ZenonT(60), <1>1, <1>2, <1>3, <1>7, <1>8 DEF InOrderIffSettled
  <2> QED
    BY ZenonT(60), <1>2, <1>5, <1>6, <2>1, <2>2 DEF HistoryInv, InOrderIffSettled
<1>9. CASE ~xs_inorder
  <2>1. OrderInv /\ ~Settled
    BY ZenonT(60), <1>1, <1>2, <1>3, <1>9 DEF InOrderIffSettled
  <2>2. InOrderAt(r) <=> Settled'
    BY ZenonT(60), <1>1, <1>3, <1>7, <2>1, InOrderExact
  <2>3. CASE InOrderAt(r)
    <3>1. xs_inorder'
      BY Zenon, <2>3 DEF HnswPullOrdered
    <3> QED
      BY ZenonT(60), <1>2, <1>5, <1>6, <2>2, <2>3, <3>1 DEF HistoryInv, InOrderIffSettled
  <2>4. CASE ~InOrderAt(r)
    <3>1. ~xs_inorder' /\ distanceQueue' = QueueWith(r, OrderQueue)
      BY Zenon, <1>9, <2>4 DEF HnswPullOrdered
    <3>2. OrderInv'
      BY ZenonT(60), <1>1, <1>2, <1>3, <2>1, <2>4, <3>1, OrderInvStep
    <3> QED
      BY ZenonT(60), <1>2, <1>5, <1>6, <2>2, <2>4, <3>1, <3>2 DEF HistoryInv, InOrderIffSettled
  <2> QED
    BY Zenon, <2>3, <2>4
<1> QED
  BY Zenon, <1>8, <1>9

(* A row of an order-by scan of sptag. *)
LEMMA SptagPullOrderedStep ==
  ASSUME IInv, am = "sptag", NEW r \in Row, SptagPullOrdered(r), distanceQueue' = distanceQueue
  PROVE  HistoryInv'
<1>1. Pull(r) /\ ~hasRangeFilter /\ ended' = ended
  BY Zenon DEF SptagPullOrdered
<1>2. am' = "sptag" /\ ~hasRangeFilter' /\ ended' = "no"
  BY Zenon, <1>1, PullFacts
<1>3. CallInv'
  <2>1. distanceQueue = {}
    BY Zenon DEF IInv, HistoryInv, CallInv
  <2> QED
    BY ZenonT(60), <1>1, <1>2, <2>1, PullCall
<1>4. RangeExact' /\ RangeEndJustified' /\ InOrderIffSettled'
  BY <1>2, Zenon DEF RangeExact, RangeEndJustified, InOrderIffSettled
<1> QED
  BY ZenonT(60), <1>2, <1>3, <1>4 DEF HistoryInv

(* A row of a range scan that goes through the comparison with the range. *)
LEMMA RangeCheckStep ==
  ASSUME IInv, am # "pase_hnsw", hasRangeFilter, NEW r \in Row, Pull(r),
         NEW threshold \in Nat \ {0}, RangeCheck(r, threshold),
         am = "hnsw" => threshold = DistanceThreshold, am # "hnsw" => threshold = SptagThreshold,
         distanceQueue' \subseteq distanceQueue \union {r},
         am # "hnsw" => distanceQueue' = {}
  PROVE  HistoryInv'
<1>1. /\ am' = am /\ key' = key /\ desc' = "open" /\ pulled' = Append(pulled, r)
      /\ hasRangeFilter' /\ ~first /\ ~first' /\ ended = "no" /\ pc = "get"
      /\ r \notin Range(pulled) /\ Range(pulled') = Range(pulled) \union {r}
  BY ZenonT(60), PullFacts
<1>2. TypeOK /\ RangeInv /\ RangeExact
  BY ZenonT(60), <1>1 DEF IInv, HistoryInv
<1>3. /\ pulled \in Seq(Row) /\ returned \in Seq(Row) /\ Len(pulled) \in Nat
      /\ pulled' # <<>> /\ Len(pulled') = Len(pulled) + 1 /\ pulled'[Len(pulled) + 1] = r
      /\ \A m \in 1..Len(pulled) : pulled'[m] = pulled[m]
  BY SMTT(60), <1>1, <1>2, TypeFacts, AppendFacts
<1>4. D(r) \in Int /\ key.range \in Int /\ i \in Nat
  BY Zenon, <1>2, TypeFacts, DistanceType DEF TypeOK, NodeTypeOK
<1>5. Range(returned) = {u \in Range(pulled) : D(u) <= key.range}
  BY Zenon, <1>1, <1>2 DEF RangeExact
<1>6. CASE D(r) <= key.range /\ inRange' = TRUE /\ Return(r) /\ ended' = ended
  <2>1. returned' = Append(returned, r) /\ (pc' = "get" => i' = 0)
    BY Zenon, <1>6, ReturnFacts
  <2>2. CallInv'
    BY Zenon, <1>1, <1>6, PullCall
  <2>3. RangeInv'
    BY SMTT(60), <1>3, <1>6, <2>1 DEF RangeInv
  <2>4. RangeExact'
    <3>1. Range(returned') = Range(returned) \union {r}
      BY ZenonT(60), <1>3, <2>1, AppendFacts
    <3>2. Range(returned') = {u \in Range(pulled') : D(u) <= key.range}
      BY ZenonT(60), <1>1, <1>5, <1>6, <3>1
    <3> QED
      BY ZenonT(60), <1>1, <3>2 DEF RangeExact, D
  <2>5. RangeEndJustified'
    BY <1>1, <1>6, Zenon DEF RangeEndJustified
  <2> QED
    BY Zenon, <1>1, <2>2, <2>3, <2>4, <2>5 DEF HistoryInv, InOrderIffSettled
<1>7. CASE /\ D(r) > key.range
           /\ i' = IF inRange THEN i + 1 ELSE i
           /\ IF inRange /\ i + 1 >= threshold
              THEN NoTuple("leftrange")
              ELSE UNCHANGED <<pc, ended>>
           /\ UNCHANGED <<inRange, is_index_inorder, returned, emitted>>
  <2>1. (inRange' <=> inRange) /\ returned' = returned
    BY <1>7, Zenon
  <2>2. (pc' = "get" => ended' = "no") /\ ended' \in {"no", "leftrange"}
    BY Zenon, <1>1, <1>7 DEF NoTuple
  <2>3. CallInv'
    BY Zenon, <2>2, PullCall
  <2>4. ASSUME inRange
        PROVE  /\ i' = i + 1 /\ i' < Len(pulled')
               /\ \A m \in (Len(pulled') - i' + 1)..Len(pulled') : Far(pulled[m])'
    <3>1. i' = i + 1 /\ i < Len(pulled)
      BY Zenon, <1>1, <1>2, <1>7, <2>4 DEF RangeInv
    <3>2. ASSUME NEW m \in (Len(pulled') - i' + 1)..Len(pulled') PROVE Far(pulled[m])'
      <4>1. m = Len(pulled) + 1 \/ m \in (Len(pulled) - i + 1)..Len(pulled)
        BY SMTT(60), <1>3, <1>4, <3>1
      <4>2. CASE m = Len(pulled) + 1
        BY ZenonT(60), <1>1, <1>3, <1>7, <4>2 DEF Far, D
      <4>3. CASE m \in (Len(pulled) - i + 1)..Len(pulled)
        <5>1. m \in 1..Len(pulled)
          BY SMTT(60), <1>3, <1>4, <3>1, <4>3
        <5>2. Far(pulled[m])
          BY Zenon, <1>1, <1>2, <2>4, <4>3 DEF RangeInv
        <5> QED
          BY ZenonT(60), <1>1, <1>3, <5>1, <5>2 DEF Far, D
      <4> QED
        BY Zenon, <4>1, <4>2, <4>3
    <3> QED
      BY SMTT(60), <1>3, <1>4, <3>1, <3>2
  <2>5. RangeInv'
    <3>1. inRange' => pulled' # <<>>
      BY Zenon, <1>3
    <3>2. ~inRange' => returned' = <<>> /\ \A t \in distanceQueue' : Far(t)'
      BY ZenonT(60), <1>1, <1>2, <1>7, <2>1 DEF RangeInv, Far, D
    <3> QED
      BY Zenon, <2>1, <2>4, <3>1, <3>2 DEF RangeInv
  <2>6. RangeExact'
    <3>0. D(r) > key.range
      BY <1>7, Zenon
    <3>1. ~(D(r) <= key.range)
      BY <1>4, <3>0
    <3>2. Range(returned') = {u \in Range(pulled') : D(u) <= key.range}
      BY ZenonT(60), <1>1, <1>5, <2>1, <3>1
    <3> QED
      BY Zenon, <1>1, <3>2 DEF RangeExact, D
  <2>7. RangeEndJustified'
    <3>1. CASE ended' = "no"
      BY <3>1, Zenon DEF RangeEndJustified
    <3>2. CASE ended' # "no"
      <4>1. inRange /\ i + 1 >= threshold
        BY Zenon, <1>1, <1>7, <3>2
      <4> DEFINE n == Len(pulled')
      <4>0. i + 1 >= threshold /\ i' = i + 1 /\ i' < n /\ n \in Nat
        <5>1. i + 1 >= threshold
          BY <4>1, Zenon
        <5>2. i' = i + 1 /\ i' < n
          BY Zenon, <2>4, <4>1
        <5> QED
          BY SMTT(30), <1>3, <5>1, <5>2
      <4>2. n > threshold
        <5> HIDE DEF n
        <5> QED
          BY SMTT(60), <1>4, <4>0
      <4>3. ASSUME NEW m \in (Len(pulled') - threshold + 1)..Len(pulled')
            PROVE  D(pulled[m])' > key'.range
        <5>1. m \in (Len(pulled') - i' + 1)..Len(pulled')
          <6> HIDE DEF n
          <6>1. \A p \in (n - threshold + 1)..n : p \in (n - i' + 1)..n
            BY SMTT(60), <1>4, <4>0
          <6> QED
            BY Zenon, <6>1 DEF n
        <5> QED
          BY Zenon, <2>4, <4>1, <5>1 DEF Far
      <4> QED
        BY ZenonT(60), <1>1, <4>2, <4>3 DEF RangeEndJustified
    <3> QED
      BY ZenonT(60), <3>1, <3>2
  <2> QED
    BY Zenon, <1>1, <2>3, <2>5, <2>6, <2>7 DEF HistoryInv, InOrderIffSettled
<1> QED
  BY ZenonT(60), <1>6, <1>7 DEF RangeCheck

(* A row that is farther than a full queue ends an hnsw range scan that    *)
(* has met no row in range: the queue is out of range, so the row is too.  *)
LEMMA NotNearStep ==
  ASSUME IInv, am = "hnsw", hasRangeFilter, ~inRange, NEW r \in Row, Pull(r), ~StillNear(r),
         pc' = "idle", ended' = "notnear", ~inRange', distanceQueue' = distanceQueue, returned' = returned
  PROVE  HistoryInv'
<1>1. /\ am' = "hnsw" /\ key' = key /\ desc' = "open" /\ pulled' = Append(pulled, r)
      /\ hasRangeFilter' /\ ~first /\ ~first' /\ Range(pulled') = Range(pulled) \union {r}
      /\ pc' = "idle" /\ ended' = "notnear"
  BY Zenon, PullFacts
<1>2. /\ TypeOK /\ RangeInv /\ RangeExact /\ distanceQueue \subseteq Range(pulled)
      /\ ~inRange' /\ returned' = returned /\ distanceQueue' = distanceQueue
  BY Zenon, <1>1 DEF IInv, HistoryInv, CallInv
<1>3. /\ pulled \in Seq(Row) /\ Len(pulled) \in Nat /\ Range(pulled) \subseteq Row
      /\ key \in Keys /\ distanceQueue \in SUBSET Row
      /\ pulled' # <<>> /\ Len(pulled') = Len(pulled) + 1 /\ pulled'[Len(pulled')] = r
      /\ SubSeq(pulled', 1, Len(pulled)) = pulled
  BY SMTT(60), <1>1, <1>2, TypeFacts, AppendFacts
<1>4. D(r) \in Int /\ key.range \in Int /\ \A t \in distanceQueue : D(t) \in Int
  BY Zenon, <1>3, DistanceType
<1>5. IsFiniteSet(distanceQueue) /\ Cardinality(distanceQueue) \in Nat
  BY Zenon, <1>3, RowAssumption, FS_Subset, FS_CardinalityType
<1>6. Cardinality(distanceQueue) >= QueueThreshold /\ \A t \in distanceQueue : D(t) <= D(r)
  BY SMTT(30), <1>4, <1>5, ThresholdsAssumption DEF StillNear
<1>7. D(r) > key.range
  <2>1. distanceQueue # {}
    BY SMTT(60), <1>5, <1>6, FS_EmptySet, ThresholdsAssumption
  <2>2. PICK t \in distanceQueue : D(t) <= D(r) /\ Far(t)
    BY Zenon, <1>2, <1>6, <2>1 DEF RangeInv
  <2> QED
    BY <1>4, <2>2 DEF Far
<1>8. CallInv'
  BY Zenon, <1>1, <1>2, PullCall
<1>9. RangeInv'
  BY Zenon, <1>1, <1>2, <1>3 DEF RangeInv, Far, D
<1>10. RangeExact'
  <2>1. ~(D(r) <= key.range)
    BY SMTT(60), <1>4, <1>7
  <2>2. Range(returned) = {u \in Range(pulled) : D(u) <= key.range}
    BY ZenonT(60), <1>1, <1>2 DEF RangeExact
  <2>3. Range(returned') = {u \in Range(pulled') : D(u) <= key.range}
    BY ZenonT(60), <1>1, <1>2, <2>1, <2>2
  <2> QED
    BY Zenon, <1>1, <2>3 DEF RangeExact, D
<1>11. RangeEndJustified'
  <2> DEFINE nearer == {u \in Range(pulled) : D(u) <= D(r)}
  <2>1. Cardinality(nearer) >= QueueThreshold
    <3>1. distanceQueue \in SUBSET nearer /\ nearer \in SUBSET Row
      BY Zenon, <1>2, <1>3, <1>6
    <3> HIDE DEF nearer
    <3>2. IsFiniteSet(nearer) /\ Cardinality(nearer) \in Nat
      BY Zenon, <3>1, RowAssumption, FS_Subset, FS_CardinalityType
    <3>3. Cardinality(distanceQueue) <= Cardinality(nearer)
      BY Zenon, <3>1, <3>2, FS_Subset
    <3> QED
      BY SMTT(30), <1>5, <1>6, <3>2, <3>3, ThresholdsAssumption
  <2>2. SubSeq(pulled', 1, Len(pulled') - 1) = pulled
    <3>1. Len(pulled') - 1 = Len(pulled)
      BY SMTT(60), <1>3
    <3> QED
      BY Zenon, <1>3, <3>1
  <2>3. {u \in Range(SubSeq(pulled', 1, Len(pulled') - 1)) : D(u)' <= D(pulled[Len(pulled)])'} = nearer
    BY Zenon, <1>1, <1>3, <2>2 DEF D
  <2>4. returned' = <<>>
    BY Zenon, <1>2 DEF RangeInv
  <2> HIDE DEF nearer
  <2> QED
    BY ZenonT(60), <1>1, <2>1, <2>3, <2>4 DEF RangeEndJustified
<1> QED
  BY Zenon, <1>1, <1>8, <1>9, <1>10, <1>11 DEF HistoryInv, InOrderIffSettled

(* pase_hnsw has searched; no row of the batch has been returned. *)
LEMMA PaseStartStep ==
  ASSUME IInv, am = "pase_hnsw", PaseStart, distanceQueue' = distanceQueue
  PROVE  HistoryInv'
<1>1. /\ am' = am /\ desc' = "open" /\ desc = "open" /\ pulled' = pulled /\ returned' = <<>> /\ ended' = "no"
      /\ first' = FALSE /\ distanceQueue = {}
  BY Zenon DEF PaseStart, history, IInv, HistoryInv, CallInv
<1>2. ~hasRangeFilter'
  <2>1. ~hasRangeFilter
    BY Zenon DEF IInv, HistoryInv, CallInv
  <2> QED
    BY <2>1, Zenon DEF PaseStart
<1>3. CallInv'
  BY Zenon, <1>1, <1>2 DEF CallInv
<1>4. PaseInv'
  BY Zenon, <1>1, PaseEmpty
<1> QED
  BY <1>1, <1>2, <1>3, <1>4, Zenon
     DEF HistoryInv, RangeExact, RangeEndJustified, InOrderIffSettled

(* pase_hnsw returns the top of its queue. *)
LEMMA PaseNextStep ==
  ASSUME IInv, am = "pase_hnsw", NEW r \in Row, PaseNext(r), distanceQueue' = distanceQueue
  PROVE  HistoryInv'
<1>1. Pull(r) /\ Return(r) /\ ended' = ended
  BY Zenon DEF PaseNext
<1>2. /\ am' = am /\ key' = key /\ ended' = "no" /\ r \notin Range(pulled)
      /\ Range(pulled') = Range(pulled) \union {r} /\ returned' = Append(returned, r)
  BY ZenonT(60), <1>1, PullFacts, ReturnFacts
<1>3. distanceQueue = {} /\ ~hasRangeFilter'
  BY ZenonT(60), <1>1, PullFacts DEF IInv, HistoryInv, CallInv
<1>4. CallInv'
  BY ZenonT(60), <1>1, <1>2, <1>3, PullCall
<1>5. PaseInv
  BY Zenon DEF IInv, HistoryInv
<1>6. /\ r \in result /\ result' = result \ {r}
      /\ \A u \in result : Rank(key, u) <= Rank(key, r)
  BY Zenon DEF PaseNext, Queued, Rank, D
<1>7. /\ Len(returned) \in Nat /\ DOMAIN returned = 1..Len(returned)
      /\ DOMAIN returned' = 1..(Len(returned) + 1) /\ returned'[Len(returned) + 1] = r
      /\ \A m \in 1..Len(returned) : returned'[m] = returned[m]
      /\ Range(returned') = Range(returned) \union {r}
  BY ZenonT(60), <1>2, TypeFacts, AppendFacts DEF IInv
<1>8. \A m \in 1..Len(returned) : returned[m] # r
  BY ZenonT(60), <1>2, <1>5, <1>7 DEF PaseInv, Range
<1>9. PaseInv'
  <2>1. ASSUME NEW m \in DOMAIN returned', NEW n \in DOMAIN returned', m < n
        PROVE  returned'[m] # returned'[n] /\ Rank(key, returned'[n]) <= Rank(key, returned'[m])
    <3>1. m \in 1..Len(returned)
      BY SMTT(60), <1>7, <2>1
    <3>2. CASE n = Len(returned) + 1
      BY ZenonT(60), <1>5, <1>6, <1>7, <1>8, <3>1, <3>2 DEF PaseInv
    <3>3. CASE n \in 1..Len(returned)
      BY ZenonT(60), <1>5, <1>7, <2>1, <3>1, <3>3 DEF PaseInv
    <3> QED
      BY SMTT(30), <1>7, <3>2, <3>3
  <2>2. ASSUME NEW m \in DOMAIN returned', NEW u \in result'
        PROVE  Rank(key, u) <= Rank(key, returned'[m])
    <3>1. CASE m = Len(returned) + 1
      BY Zenon, <1>6, <1>7, <3>1
    <3>2. CASE m \in 1..Len(returned)
      BY Zenon, <1>5, <1>6, <1>7, <3>2 DEF PaseInv
    <3> QED
      BY <1>7, <3>1, <3>2
  <2>3. Range(returned') \subseteq Range(pulled')
    BY Zenon, <1>2, <1>5, <1>7 DEF PaseInv
  <2> QED
    BY Zenon, <1>2, <2>1, <2>2, <2>3 DEF PaseInv
<1> QED
  BY <1>2, <1>3, <1>4, <1>9, Zenon
     DEF HistoryInv, RangeExact, RangeEndJustified, InOrderIffSettled
-----------------------------------------------------------------------------
(* The invariant holds before the scan begins. *)
LEMMA InitInv == Init => IInv
<1> SUFFICES ASSUME Init PROVE IInv
  BY Zenon
<1>1. /\ first = TRUE /\ pulled = <<>> /\ returned = <<>> /\ ended = "no" /\ pc = "idle"
      /\ distanceQueue = {} /\ result = {} /\ hasRangeFilter = FALSE
  BY Zenon DEF Init, NodeInit
<1>2. TypeOK
  <2>1. <<>> \in Seq(Row)
    OBVIOUS
  <2>2. NodeTypeOK
    BY Zenon, <2>1 DEF Init, NodeInit, NodeTypeOK
  <2>3. QueueTypeOK /\ BatchTypeOK
    BY SMTT(30), <1>1, FS_EmptySet, ThresholdsAssumption, PaseAssumption DEF QueueTypeOK, BatchTypeOK
  <2> QED
    BY Zenon, <2>2, <2>3 DEF TypeOK
<1>3. CallInv
  BY Zenon, <1>1, RangeOfEmpty DEF CallInv
<1>4. PaseInv
  BY <1>1, RangeOfEmpty DEF PaseInv
<1> QED
  BY <1>1, <1>2, <1>3, <1>4, Zenon
     DEF IInv, HistoryInv, RangeExact, RangeEndJustified, InOrderIffSettled

(* Every step keeps the invariant. *)
LEMMA NextInv ==
  ASSUME IInv, Next
  PROVE  IInv'
<1>1. TypeOK'
  BY Zenon, TypeStep DEF IInv, HistoryInv
<1> SUFFICES HistoryInv'
  BY Zenon, <1>1 DEF IInv
<1>2. CASE am = "hnsw" /\ HnswGetTuple /\ result' = result
  <2>1. CASE HnswNoKey
    BY Zenon, <1>2, <2>1, NoKeyStep DEF HnswNoKey
  <2>2. CASE HnswStart
    BY Zenon, <1>2, <2>2, OpenStep DEF HnswStart
  <2>3. CASE Exhausted /\ distanceQueue' = distanceQueue
    BY Zenon, <1>2, <2>3, EndCallStep DEF Exhausted, NoTuple, opaque, history, scanned
  <2>4. ASSUME NEW r \in Row, HnswPullOrdered(r) PROVE HistoryInv'
    BY Zenon, <1>2, <2>4, HnswPullOrderedStep
  <2>5. ASSUME NEW r \in Row, HnswPullRange(r) PROVE HistoryInv'
    <3>1. hasRangeFilter /\ Pull(r)
      BY Zenon, <2>5 DEF HnswPullRange
    <3>2. CASE ~inRange /\ ~StillNear(r)
      <4>1. /\ NoTuple("notnear")
            /\ UNCHANGED <<inRange, distanceQueue, xs_inorder, is_index_inorder, i, returned, emitted>>
        BY <2>5, <3>2, Zenon DEF HnswPullRange
      <4>2. ~inRange'
        BY <3>2, <4>1, Zenon
      <4>3. pc' = "idle" /\ ended' = "notnear" /\ distanceQueue' = distanceQueue /\ returned' = returned
        BY <4>1, Zenon DEF NoTuple
      <4> QED
        BY ZenonT(60), <1>2, <3>1, <3>2, <4>2, <4>3, NotNearStep
    <3>3. CASE inRange \/ StillNear(r)
      <4>1. /\ distanceQueue' = IF inRange THEN distanceQueue ELSE QueueWith(r, QueueThreshold)
            /\ RangeCheck(r, DistanceThreshold)
        BY <2>5, <3>3, Zenon DEF HnswPullRange
      <4>2. QueueWith(r, QueueThreshold) \subseteq distanceQueue \union {r}
        BY Zenon, <3>1, TypeFacts, QueueWithFacts, ThresholdsAssumption DEF IInv
      <4>3. distanceQueue' \subseteq distanceQueue \union {r}
        BY <4>1, <4>2, Zenon
      <4> QED
        BY ZenonT(60), <1>2, <3>1, <4>1, <4>3, RangeCheckStep, ThresholdsAssumption
    <3> QED
      BY Zenon, <3>2, <3>3
  <2> QED
    BY Zenon, <1>2, <2>1, <2>2, <2>3, <2>4, <2>5 DEF HnswGetTuple
<1>3. CASE am = "sptag" /\ SptagGetTuple /\ UNCHANGED <<distanceQueue, result>>
  <2>1. distanceQueue = {} /\ distanceQueue' = {}
    BY Zenon, <1>3 DEF IInv, HistoryInv, CallInv
  <2>2. CASE NoKey
    BY Zenon, <1>3, <2>1, <2>2, NoKeyStep
  <2>3. CASE SptagStart
    BY Zenon, <1>3, <2>1, <2>3, OpenStep DEF SptagStart
  <2>4. CASE Exhausted
    BY Zenon, <1>3, <2>1, <2>4, EndCallStep DEF Exhausted, NoTuple, opaque, history, scanned
  <2>5. ASSUME NEW r \in Row, SptagPullOrdered(r) PROVE HistoryInv'
    BY Zenon, <1>3, <2>5, SptagPullOrderedStep
  <2>6. ASSUME NEW r \in Row, SptagPullRange(r) PROVE HistoryInv'
    BY ZenonT(60), <1>3, <2>1, <2>6, RangeCheckStep, SptagAssumption DEF SptagPullRange
  <2> QED
    BY ZenonT(60), <1>3, <2>2, <2>3, <2>4, <2>5, <2>6 DEF SptagGetTuple
<1>4. CASE am = "pase_hnsw" /\ PaseGetTuple /\ distanceQueue' = distanceQueue
  <2>1. CASE PaseNoOrder
    <3>1. UNCHANGED scanned /\ UNCHANGED <<inRange, xs_inorder>> /\ pc' = "idle" /\ result' = result
      BY Zenon, <2>1 DEF PaseNoOrder, history, scanned
    <3>2. first /\ ended' = "no" /\ desc' = "aborted"
      BY Zenon, <2>1 DEF PaseNoOrder, IInv, HistoryInv, CallInv
    <3> QED
      BY Zenon, <1>4, <3>1, <3>2, EndCallStep
  <2>2. CASE PaseNullKey
    <3>1. UNCHANGED scanned /\ UNCHANGED <<inRange, xs_inorder>> /\ pc' = "idle" /\ result' = result
      BY Zenon, <2>2 DEF PaseNullKey, NoTuple, history, scanned
    <3>2. first /\ ended' = "nokey" /\ desc' = desc
      BY Zenon, <2>2 DEF PaseNullKey, NoTuple
    <3> QED
      BY Zenon, <1>4, <3>1, <3>2, EndCallStep
  <2>3. CASE PaseStart
    BY Zenon, <1>4, <2>3, PaseStartStep
  <2>4. CASE result = {} /\ Exhausted /\ result' = result
    BY ZenonT(60), <1>4, <2>4, EndCallStep DEF Exhausted, NoTuple, opaque, history, scanned
  <2>5. ASSUME NEW r \in Row, PaseNext(r) PROVE HistoryInv'
    BY Zenon, <1>4, <2>5, PaseNextStep
  <2> QED
    BY ZenonT(60), <1>4, <2>1, <2>2, <2>3, <2>4, <2>5 DEF PaseGetTuple
<1> QED
  BY Zenon, <1>2, <1>3, <1>4, FetchStep, RescanStep, EndScanStep DEF Next, GetTuple

(* So does a step that leaves the scan alone. *)
LEMMA StutterInv ==
  ASSUME IInv, UNCHANGED vars
  PROVE  IInv'
<1>1. /\ UNCHANGED scanned
      /\ UNCHANGED <<inRange, xs_inorder, distanceQueue, result, pc, i, ended, desc>>
  BY Zenon DEF vars, nodeVars, opaque, history, scanned
<1>2. TypeOK'
  BY DEF IInv, TypeOK, NodeTypeOK, QueueTypeOK, BatchTypeOK, vars, nodeVars, opaque, history
<1>3. CallInv'
  BY Zenon, <1>1 DEF IInv, HistoryInv, CallInv, scanned
<1>4. (hasRangeFilter /\ ~first => RangeInv)'
  BY Zenon, <1>1 DEF IInv, HistoryInv, RangeInv, Far, D, scanned
<1>5. RangeExact' /\ RangeEndJustified' /\ InOrderIffSettled'
  BY Zenon, <1>1, Unmoved DEF IInv
<1>6. (am = "hnsw" /\ desc = "open" /\ ~hasRangeFilter /\ ~first /\ ~xs_inorder => OrderInv)'
  BY Zenon, <1>1, OrderUnmoved DEF IInv, HistoryInv, scanned
<1>7. (am = "pase_hnsw" => PaseInv)'
  BY Zenon, <1>1, PaseUnmoved DEF IInv, HistoryInv, scanned
<1> QED
  BY ZenonT(60), <1>2, <1>3, <1>4, <1>5, <1>6, <1>7 DEF IInv, HistoryInv
-----------------------------------------------------------------------------
(* A step under the Sort nodes is a step of the scan, or leaves it alone. *)
LEMMA SortStepScans ==
  ASSUME [SortNext]_<<vars, sortVars>>
  PROVE  [Next]_vars
<1>1. CASE SortFetch \/ ScanStep \/ SortClose
  BY Zenon, <1>1 DEF SortFetch, ScanStep, SortClose, Next
<1>2. CASE SortPut \/ SortEnd \/ OuterEnd \/ \E r \in Row : OuterPut(r)
  BY Zenon, <1>2 DEF SortPut, SortEnd, OuterEnd, OuterPut
<1>3. ASSUME NEW k \in Keys, SortRescan(k) PROVE [Next]_vars
  BY Zenon, <1>3 DEF SortRescan, Next
<1>4. CASE UNCHANGED <<vars, sortVars>>
  BY Zenon, <1>4
<1> QED
  BY Zenon, <1>1, <1>2, <1>3, <1>4 DEF SortNext

(* The scan under the Sort nodes is a scan: the Sorts only decide when the *)
(* next tuple is asked for (SortedScan implements IndexScans).             *)
THEOREM SortUsesScan == SortSpec => Spec
<1>1. SortInit => Init
  BY Zenon DEF SortInit
<1>2. [SortNext]_<<vars, sortVars>> => [Next]_vars
  BY Zenon, SortStepScans
<1> QED
  BY <1>1, <1>2, PTL DEF SortSpec, Spec

(* The inductive invariant of a scan. *)
THEOREM ScanInvariant == Spec => []IInv
<1>1. IInv /\ [Next]_vars => IInv'
  BY Zenon, NextInv, StutterInv
<1> QED
  BY <1>1, InitInv, PTL DEF Spec

(* The fields of the scan and of the Sort nodes above it range over their  *)
(* types, whatever the rows, keys, plans, thresholds and limits: the       *)
(* queues of hnsw_gettuple and pase_hnsw_gettuple stay within their sizes. *)
THEOREM TypeCorrect == SortSpec => []SortTypeOK
<1> DEFINE SortFields ==
      /\ order \in {"distance", "other", "none"}
      /\ limit \in Limits /\ outerBound \in OuterBounds
      /\ fed \subseteq Row
      /\ sort_Done \in BOOLEAN /\ outer_Done \in BOOLEAN
      /\ outerFed \in Seq(Row)
<1>0. <<>> \in Seq(Row)
  OBVIOUS
<1>1. SortInit => SortFields
  <2> SUFFICES ASSUME SortInit PROVE SortFields
    BY Zenon
  <2>1. order \in {"distance", "other", "none"}
    BY Zenon DEF SortInit
  <2> QED
    BY Zenon, <1>0, <2>1 DEF SortInit
<1>2. ASSUME SortFields, IInv, [SortNext]_<<vars, sortVars>>
      PROVE  SortFields'
  <2>1. emitted \in Seq(Row)
    BY Zenon, <1>2 DEF IInv, TypeOK, NodeTypeOK
  <2>2. CASE UNCHANGED sortVars
    BY Zenon, <1>2, <2>2 DEF sortVars, query
  <2>3. CASE SortPut
    <3>1. emitted[Len(emitted)] \in Row
      BY <2>1, <2>3 DEF SortPut, Pending
    <3>2. sort_Done' \in BOOLEAN
      BY Zenon, <2>3 DEF SortPut
    <3>3. fed' \subseteq Row
      BY Zenon, <1>2, <2>3, <3>1 DEF SortPut
    <3> QED
      BY Zenon, <1>2, <2>3, <3>2, <3>3 DEF SortPut, query
  <2>4. CASE SortEnd
    BY Zenon, <1>2, <2>4 DEF SortEnd, query
  <2>5. ASSUME NEW r \in Row, OuterPut(r) PROVE SortFields'
    <3>1. outerFed' \in Seq(Row)
      BY Zenon, <1>2, <2>5, AppendFacts DEF OuterPut
    <3>2. outer_Done' \in BOOLEAN
      BY Zenon, <2>5 DEF OuterPut
    <3> QED
      BY Zenon, <1>2, <2>5, <3>1, <3>2 DEF OuterPut, query
  <2>6. CASE OuterEnd
    BY Zenon, <1>2, <2>6 DEF OuterEnd, query
  <2>7. ASSUME NEW k \in Keys, SortRescan(k) PROVE SortFields'
    BY Zenon, <1>0, <1>2, <2>7 DEF SortRescan, query
  <2> QED
    BY ZenonT(60), <1>2, <2>2, <2>3, <2>4, <2>5, <2>6, <2>7
       DEF SortNext, SortFetch, ScanStep, SortClose
<1>3. IInv /\ SortFields => SortTypeOK
  BY Zenon DEF IInv, SortTypeOK
<1> HIDE DEF SortFields
<1> QED
  BY <1>1, <1>2, <1>3, SortUsesScan, ScanInvariant, PTL DEF SortSpec

(* A range scan of hnsw or sptag returns exactly the rows in range that    *)
(* its search delivered, through every rescan.                             *)
THEOREM RangeScanExact == SortSpec => []RangeExact
<1>1. IInv => RangeExact
  BY Zenon DEF IInv, HistoryInv
<1> QED
  BY <1>1, SortUsesScan, ScanInvariant, PTL

(* A range scan ends for one of its reasons only: the search is exhausted, *)
(* the last rows were all out of range, or the range was never met.        *)
THEOREM RangeScanEnds == SortSpec => []RangeEndJustified
<1>1. IInv => RangeEndJustified
  BY Zenon DEF IInv, HistoryInv
<1> QED
  BY <1>1, SortUsesScan, ScanInvariant, PTL

(* hnsw sets xs_inorder exactly when some row was farther than OrderQueue  *)
(* rows before it, for every size of the queue.                            *)
THEOREM InOrderCorrect == SortSpec => []InOrderIffSettled
<1>1. IInv => InOrderIffSettled
  BY Zenon DEF IInv, HistoryInv
<1> QED
  BY <1>1, SortUsesScan, ScanInvariant, PTL

(* Rounding 1 - distance moves a row by less than Ulp. *)
LEMMA RankOrder ==
  ASSUME NEW x \in Int, NEW y \in Int, 1 - (y - (y % Ulp)) <= 1 - (x - (x % Ulp))
  PROVE  x < y + Ulp
<1>1. x % Ulp \in 0..(Ulp - 1) /\ y % Ulp \in 0..(Ulp - 1) /\ Ulp \in Nat
  BY SMTT(60), PaseAssumption
<1> QED
  BY <1>1

(* pase_hnsw returns the rows of its batch once each and nearest first, up *)
(* to the rounding of 1 - distance.                                        *)
THEOREM PaseOrder == SortSpec => []PaseNearestFirst
<1>1. IInv => PaseNearestFirst
  <2> SUFFICES ASSUME IInv, am = "pase_hnsw",
                      NEW m \in DOMAIN returned, NEW n \in DOMAIN returned, m < n
               PROVE  returned[m] # returned[n] /\ D(returned[m]) < D(returned[n]) + Ulp
    BY Zenon DEF PaseNearestFirst
  <2>1. returned[m] # returned[n] /\ Rank(key, returned[n]) <= Rank(key, returned[m])
    BY Zenon DEF IInv, HistoryInv, PaseInv
  <2>2. returned[m] \in Row /\ returned[n] \in Row /\ key \in Keys
    BY TypeFacts DEF IInv
  <2>3. D(returned[m]) \in Int /\ D(returned[n]) \in Int
    BY Zenon, <2>2, DistanceType
  <2>4. 1 - (D(returned[n]) - (D(returned[n]) % Ulp)) <= 1 - (D(returned[m]) - (D(returned[m]) % Ulp))
    BY ZenonT(60), <2>1 DEF Rank, D
  <2> QED
    BY Zenon, <2>1, <2>3, <2>4, RankOrder
<1> QED
  BY <1>1, SortUsesScan, ScanInvariant, PTL
-----------------------------------------------------------------------------
(* A search is open from the first call of a (re)scan until the scan is    *)
(* rescanned or closed.                                                    *)
StreamInv ==
  /\ searching => ~first
  /\ am # "pase_hnsw" /\ desc = "open" /\ ~first => searching

(* How the scan's variables move when its stream takes a step, or none.    *)
LEMMA StreamOpens ==
  ASSUME ~searching, searching', pulled' = <<>>, ended' # "exhausted"
  PROVE  RS!Next
<1>1. status["search"] = "closed" /\ status' = [status EXCEPT !["search"] = "open"]
  BY Zenon DEF status
<1>2. delivered' = [delivered EXCEPT !["search"] = <<>>]
  BY Zenon DEF delivered
<1> QED
  BY Zenon, <1>1, <1>2 DEF RS!Next, RS!Open

LEMMA StreamDelivers ==
  ASSUME searching, searching', NEW r \in Row, r \notin Range(pulled), pulled' = Append(pulled, r),
         ended # "exhausted", ended' # "exhausted"
  PROVE  RS!Next
<1>1. status["search"] = "open" /\ status' = status
  BY Zenon DEF status
<1>2. delivered["search"] = pulled /\ delivered' = [delivered EXCEPT !["search"] = Append(@, r)]
  BY Zenon DEF delivered
<1> QED
  BY Zenon, <1>1, <1>2 DEF RS!Next, RS!Deliver, RS!Range, Range

LEMMA StreamEnds ==
  ASSUME searching, searching', pulled' = pulled, ended # "exhausted", ended' = "exhausted"
  PROVE  RS!Next
<1>1. status["search"] = "open" /\ status' = [status EXCEPT !["search"] = "ended"]
  BY Zenon DEF status
<1>2. delivered' = delivered
  BY Zenon DEF delivered
<1> QED
  BY Zenon, <1>1, <1>2 DEF RS!Next, RS!End

LEMMA StreamCloses ==
  ASSUME searching, ~searching'
  PROVE  RS!Next
<1>1. status["search"] # "closed" /\ status' = [status EXCEPT !["search"] = "closed"]
  BY Zenon DEF status
<1>2. delivered' = [delivered EXCEPT !["search"] = <<>>]
  BY Zenon DEF delivered
<1> QED
  BY Zenon, <1>1, <1>2 DEF RS!Next, RS!Close

LEMMA StreamRests ==
  ASSUME \/ ~searching /\ ~searching'
         \/ searching /\ searching' /\ pulled' = pulled /\ ended' = ended
  PROVE  UNCHANGED RS!vars
<1>1. status' = status
  BY Zenon DEF status
<1>2. delivered' = delivered
  BY Zenon DEF delivered
<1> QED
  BY ZenonT(60), <1>1, <1>2 DEF RS!vars

(* Every step of the scan is one of its stream, or leaves it alone. *)
LEMMA StreamStep ==
  ASSUME IInv, StreamInv, Next
  PROVE  StreamInv' /\ [RS!Next]_(RS!vars)
<1> DEFINE Goal == StreamInv' /\ [RS!Next]_(RS!vars)
<1>1. /\ first => pulled = <<>>
      /\ pc = "get" => ended = "no" /\ desc = "open"
      /\ desc = "none" => first
  BY Zenon DEF IInv, HistoryInv, CallInv
<1>2. CASE am = "pase_hnsw"
  <2>1. am' = am
    BY ZenonT(60), <1>2 DEF Next, Fetch, IndexNext, Rescan, PaseRescan, RescanKeys, EndScan, PaseEndScan,
       CloseScan, GetTuple, PaseGetTuple, PaseNoOrder, PaseNullKey, PaseStart, Exhausted, PaseNext, Pull
  <2> QED
    BY ZenonT(60), <1>2, <2>1, StreamRests DEF StreamInv, searching
<1>3. CASE am # "pase_hnsw" /\ Fetch
  <2>1. /\ UNCHANGED <<am, workSpace, pulled, ended>> /\ first' = first /\ desc' = "open"
        /\ desc \in {"none", "open"}
    BY Zenon, <1>3 DEF Fetch, IndexNext, opaque, history
  <2>2. searching' <=> searching
    BY Zenon, <2>1 DEF searching
  <2>3. StreamInv'
    BY Zenon, <1>1, <2>1, <2>2 DEF StreamInv
  <2> QED
    BY ZenonT(60), <2>1, <2>2, <2>3, StreamRests
<1>4. CASE am # "pase_hnsw" /\ (EndScan \/ \E k \in Keys : Rescan(k))
  <2>1. ~searching' /\ (first' \/ desc' = "closed")
    BY ZenonT(60), <1>4 DEF EndScan, HnswEndScan, SptagEndScan, CloseScan, Rescan, HnswRescan, SptagRescan,
       RescanKeys, searching
  <2> QED
    BY Zenon, <2>1, StreamRests, StreamCloses DEF StreamInv
<1>5. CASE am # "pase_hnsw" /\ NoKey
  <2>1. ~searching /\ ~searching' /\ first'
    BY Zenon, <1>5 DEF NoKey, StreamInv, searching
  <2> QED
    BY Zenon, <2>1, StreamRests DEF StreamInv
<1>6. CASE am # "pase_hnsw" /\ OpenSearch
  <2>1. ~searching /\ searching' /\ ~first' /\ pulled' = <<>> /\ ended' # "exhausted"
    BY Zenon, <1>1, <1>6 DEF OpenSearch, StreamInv, searching, history
  <2> QED
    BY Zenon, <2>1, StreamOpens DEF StreamInv
<1>7. CASE am # "pase_hnsw" /\ Exhausted
  <2>1. /\ searching /\ searching' /\ ~first' /\ pulled' = pulled
        /\ ended # "exhausted" /\ ended' = "exhausted"
    BY Zenon, <1>1, <1>7 DEF Exhausted, NoTuple, opaque, history, StreamInv, searching
  <2> QED
    BY Zenon, <2>1, StreamEnds DEF StreamInv
<1>8. ASSUME am # "pase_hnsw", NEW r \in Row, Pull(r), ended' # "exhausted"
      PROVE  Goal
  <2>1. /\ searching /\ searching' /\ ~first' /\ pulled' = Append(pulled, r)
        /\ r \notin Range(pulled) /\ ended # "exhausted"
    BY ZenonT(60), <1>1, <1>8 DEF Pull, Fresh, StreamInv, searching
  <2> QED
    BY ZenonT(60), <1>8, <2>1, StreamDelivers DEF StreamInv
<1>9. ASSUME am # "pase_hnsw", NEW r \in Row,
             HnswPullOrdered(r) \/ HnswPullRange(r) \/ SptagPullOrdered(r) \/ SptagPullRange(r)
      PROVE  Pull(r) /\ ended' # "exhausted"
  <2>1. Pull(r) /\ ended = "no"
    BY ZenonT(60), <1>1, <1>9 DEF HnswPullOrdered, HnswPullRange, SptagPullOrdered, SptagPullRange, Pull
  <2> QED
    BY Zenon, <1>9, <2>1 DEF HnswPullOrdered, HnswPullRange, SptagPullOrdered, SptagPullRange, RangeCheck,
       NoTuple
<1> QED
  BY ZenonT(60), <1>2, <1>3, <1>4, <1>5, <1>6, <1>7, <1>8, <1>9
     DEF Next, GetTuple, HnswGetTuple, HnswNoKey, HnswStart, SptagGetTuple, SptagStart

(* An hnsw or sptag scan, under any plan, drives its search by the         *)
(* protocol that the iterators of HnswIterator and BktIterator implement.  *)
THEOREM ScanDrivesStream == SortSpec => DrivesStream
<1>1. Init => StreamInv /\ RS!Init
  <2> SUFFICES ASSUME Init PROVE StreamInv /\ RS!Init
    BY Zenon
  <2>1. ~searching /\ first
    BY Zenon DEF Init, NodeInit, searching
  <2> QED
    BY Zenon, <2>1 DEF StreamInv, RS!Init, status, delivered
<1>2. StreamInv /\ UNCHANGED vars => StreamInv' /\ UNCHANGED RS!vars
  BY DEF StreamInv, RS!vars, status, delivered, searching, vars, nodeVars, opaque, history
<1>3. IInv /\ StreamInv /\ [Next]_vars => StreamInv' /\ [RS!Next]_(RS!vars)
  BY Zenon, <1>2, StreamStep
<1> QED
  BY <1>1, <1>3, SortUsesScan, ScanInvariant, PTL DEF Spec, DrivesStream, RS!Spec
-----------------------------------------------------------------------------
(* The rows IndexNext lets through. *)
Passes(r) == r \in Visible /\ (xs_recheck /\ shape.filter => OperatorHolds(r))

(* The plan decides what the scan does, and only an ordered scan ever      *)
(* declares itself in order.                                               *)
PlanInv ==
  /\ order = "distance" <=> shape.orderby
  /\ ~first => (hasRangeFilter <=> ~shape.orderby)
  /\ ~shape.orderby => ~is_index_inorder /\ (~first => ~xs_inorder)

(* What the executor got of the rows the search delivered, and what it     *)
(* knows of the flag when it has a row to put into the Sort.               *)
HandedInv ==
  /\ first => emitted = <<>>
  /\ Range(emitted) = {r \in Range(returned) : Passes(r)}
  /\ ~hasRangeFilter => Range(returned) = Range(pulled)
  /\ emitted # <<>> /\ pc = "idle" /\ ended = "no" => (is_index_inorder <=> xs_inorder)

(* The Sort has put every row handed to it, the last one perhaps excepted, *)
(* and it stops early only with the flag set and enough rows.              *)
FedInv ==
  /\ fed \subseteq Range(emitted)
  /\ sort_Done => Sorts /\ pc = "idle"
  /\ Sorts => \A m \in DOMAIN emitted : m < Len(emitted) => emitted[m] \in fed
  /\ Sorts /\ (pc = "get" \/ sort_Done) => Range(emitted) \subseteq fed
  /\ sort_Done /\ ended = "no" /\ desc = "open" =>
       emitted # <<>> /\ is_index_inorder /\ Cardinality(fed) >= limit

EarlyInv == am = "hnsw" => PlanInv /\ HandedInv /\ FedInv

(* Which rows pass depends on the plan and the keys alone. *)
LEMMA PassesUnmoved ==
  ASSUME UNCHANGED <<shape, key, xs_recheck>>
  PROVE  \A r : Passes(r)' <=> Passes(r)
BY Zenon DEF Passes, OperatorHolds, D

(* A row of the search that amgettuple returns. *)
LEMMA HandOver ==
  ASSUME IInv, HandedInv, FedInv, NEW r \in Row, Pull(r), Return(r),
         ended' = ended, UNCHANGED sortVars, am = "hnsw"
  PROVE  HandedInv' /\ FedInv'
<1>1. /\ am' = am /\ pulled' = Append(pulled, r) /\ returned' = Append(returned, r)
      /\ (hasRangeFilter' <=> hasRangeFilter) /\ ~first' /\ pc = "get" /\ ended' = "no"
      /\ Range(pulled') = Range(pulled) \union {r}
  BY Zenon, PullFacts, ReturnFacts
<1>2. UNCHANGED <<shape, key, xs_recheck>>
  BY Zenon DEF Pull
<1>3. emitted \in Seq(Row) /\ returned \in Seq(Row)
  BY Zenon DEF IInv, TypeOK, NodeTypeOK
<1>4. Range(returned') = Range(returned) \union {r}
  BY ZenonT(60), <1>1, <1>3, AppendFacts
<1>5. UNCHANGED <<order, limit, fed, sort_Done>> /\ (Sorts' <=> Sorts)
  BY ZenonT(60), <1>1 DEF sortVars, query, Sorts
<1>6. ~sort_Done /\ ~sort_Done'
  BY <1>1, <1>5, Zenon DEF FedInv
<1>7. Range(emitted) = {s \in Range(returned) : Passes(s)}
  BY Zenon DEF HandedInv
<1>8. ~hasRangeFilter' => Range(returned') = Range(pulled')
  BY <1>1, <1>4, Zenon DEF HandedInv
<1>9. \A s : Passes(s)' <=> Passes(s)
  BY Zenon, <1>2, PassesUnmoved
<1>10. fed \subseteq Range(emitted) /\ (Sorts => Range(emitted) \subseteq fed)
  BY <1>1, Zenon DEF FedInv
<1>11. CASE Passes(r)
  <2>1. emitted' = Append(emitted, r) /\ pc' = "idle" /\ (is_index_inorder' <=> xs_inorder')
    BY <1>11, Zenon DEF Return, Passes
  <2>2. /\ Range(emitted') = Range(emitted) \union {r}
        /\ Len(emitted') = Len(emitted) + 1 /\ DOMAIN emitted' = 1..(Len(emitted) + 1)
        /\ \A m \in 1..Len(emitted) : emitted'[m] = emitted[m]
        /\ Len(emitted) \in Nat /\ DOMAIN emitted = 1..Len(emitted)
    BY ZenonT(60), <1>3, <2>1, AppendFacts
  <2>3. Range(emitted') = {s \in Range(returned') : Passes(s)'}
    <3> HIDE DEF Passes
    <3> QED
      BY ZenonT(60), <1>4, <1>7, <1>9, <1>11, <2>2
  <2>4. HandedInv'
    BY ZenonT(60), <1>1, <1>8, <2>1, <2>3 DEF HandedInv
  <2>5. Sorts => \A m \in DOMAIN emitted' : m < Len(emitted') => emitted'[m] \in fed
    <3>1. \A m \in DOMAIN emitted : emitted[m] \in Range(emitted)
      BY Zenon DEF Range
    <3> QED
      BY SMTT(60), <1>10, <2>2, <3>1
  <2>6. fed \subseteq Range(emitted')
    BY Zenon, <1>10, <2>2
  <2> QED
    BY ZenonT(60), <1>5, <1>6, <2>1, <2>4, <2>5, <2>6 DEF FedInv
<1>12. CASE ~Passes(r)
  <2>1. emitted' = emitted /\ pc' = pc
    BY <1>12, Zenon DEF Return, Passes
  <2>2. Range(emitted') = {s \in Range(returned') : Passes(s)'}
    <3> HIDE DEF Passes
    <3> QED
      BY ZenonT(60), <1>4, <1>7, <1>9, <1>12, <2>1
  <2>3. HandedInv'
    BY Zenon, <1>1, <1>8, <2>1, <2>2 DEF HandedInv
  <2> QED
    BY Zenon, <1>5, <1>6, <2>1, <2>3 DEF FedInv
<1> QED
  BY ZenonT(60), <1>11, <1>12

(* A step of the call that hands nothing to the executor. *)
LEMMA NothingHanded ==
  ASSUME HandedInv, FedInv, UNCHANGED <<am, shape, key, xs_recheck, returned, emitted>>,
         pc = "get", pc' = "get" \/ ended' # "no",
         first' => first,
         ~hasRangeFilter' => Range(returned) = Range(pulled'),
         UNCHANGED sortVars
  PROVE  HandedInv' /\ FedInv'
<1>1. UNCHANGED <<order, limit, fed, sort_Done>> /\ (Sorts' <=> Sorts)
  BY Zenon DEF sortVars, query, Sorts
<1>2. ~sort_Done /\ ~sort_Done'
  BY <1>1, Zenon DEF FedInv
<1>3. \A s : Passes(s)' <=> Passes(s)
  BY Zenon, PassesUnmoved
<1>4. Range(emitted') = {s \in Range(returned') : Passes(s)'}
  <2> HIDE DEF Passes
  <2> QED
    BY Zenon, <1>3 DEF HandedInv
<1>5. HandedInv'
  BY Zenon, <1>4 DEF HandedInv
<1>6. FedInv'
  BY Zenon, <1>1, <1>2 DEF FedInv
<1> QED
  BY Zenon, <1>5, <1>6

(* The step of a call of hnsw_gettuple. *)
LEMMA EarlyGetTuple ==
  ASSUME IInv, IInv', PlanInv, HandedInv, FedInv, am = "hnsw",
         HnswGetTuple, UNCHANGED sortVars
  PROVE  PlanInv' /\ HandedInv' /\ FedInv'
<1>0. order' = order
  BY Zenon DEF sortVars, query
<1>1. CASE HnswNoKey
  <2>1. /\ UNCHANGED <<am, shape, key, first, hasRangeFilter, xs_inorder, xs_recheck,
                       is_index_inorder, pulled, returned, emitted>>
        /\ pc = "get" /\ first /\ ended' # "no"
    BY Zenon, <1>1 DEF HnswNoKey, NoKey, NoTuple, history
  <2>2. PlanInv'
    BY Zenon, <1>0, <2>1 DEF PlanInv
  <2> QED
    BY Zenon, <2>1, <2>2, NothingHanded DEF HandedInv
<1>2. CASE HnswStart
  <2>1. /\ UNCHANGED <<am, shape, key, xs_recheck, is_index_inorder, pc, pulled, returned, emitted>>
        /\ pc = "get" /\ first /\ ~first' /\ ~xs_inorder' /\ (hasRangeFilter' <=> ~shape.orderby)
    <3>1. hasRangeFilter' <=> ~shape.orderby
      BY Zenon, <1>2 DEF HnswStart, OpenSearch
    <3> QED
      BY Zenon, <1>2, <3>1 DEF HnswStart, OpenSearch, history
  <2>2. PlanInv'
    BY Zenon, <1>0, <2>1 DEF PlanInv
  <2>3. pulled' = <<>> /\ returned = <<>>
    BY Zenon, <2>1 DEF IInv, HistoryInv, CallInv
  <2> QED
    BY ZenonT(60), <2>1, <2>2, <2>3, NothingHanded
<1>3. CASE Exhausted
  <2>1. /\ UNCHANGED <<am, shape, key, first, hasRangeFilter, xs_inorder, xs_recheck,
                       is_index_inorder, pulled, returned, emitted>>
        /\ pc = "get" /\ ended' # "no"
    BY Zenon, <1>3 DEF Exhausted, NoTuple, history, opaque
  <2>2. PlanInv'
    BY Zenon, <1>0, <2>1 DEF PlanInv
  <2> QED
    BY ZenonT(60), <2>1, <2>2, NothingHanded DEF HandedInv
<1>4. ASSUME NEW r \in Row, HnswPullOrdered(r) PROVE PlanInv' /\ HandedInv' /\ FedInv'
  <2>1. Pull(r) /\ Return(r) /\ ended' = ended /\ ~hasRangeFilter
    BY Zenon, <1>4 DEF HnswPullOrdered
  <2>2. ~first /\ shape' = shape /\ (hasRangeFilter' <=> hasRangeFilter)
    BY <2>1, Zenon DEF Pull
  <2>3. PlanInv'
    BY Zenon, <1>0, <2>1, <2>2 DEF PlanInv
  <2> QED
    BY ZenonT(60), <2>1, <2>3, HandOver
<1>5. ASSUME NEW r \in Row, HnswPullRange(r) PROVE PlanInv' /\ HandedInv' /\ FedInv'
  <2>1. Pull(r) /\ hasRangeFilter /\ (xs_inorder' <=> xs_inorder)
    <3>1. xs_inorder' = xs_inorder
      BY ZenonT(60), <1>5 DEF HnswPullRange, RangeCheck
    <3> QED
      BY <1>5, <3>1, Zenon DEF HnswPullRange
  <2>2. /\ ~first /\ ~first' /\ (hasRangeFilter' <=> hasRangeFilter) /\ pc = "get"
        /\ UNCHANGED <<am, shape, key, xs_recheck>>
    BY <2>1, Zenon DEF Pull
  <2>3. ~is_index_inorder /\ ~xs_inorder /\ ~xs_inorder' /\ ~shape.orderby
    BY Zenon, <2>1, <2>2 DEF PlanInv
  <2>4. CASE Return(r) /\ ended' = ended
    <3>1. ~is_index_inorder'
      BY Zenon, <2>3, <2>4 DEF Return
    <3>2. PlanInv'
      BY ZenonT(60), <1>0, <2>1, <2>2, <2>3, <3>1 DEF PlanInv
    <3> QED
      BY ZenonT(60), <2>1, <2>4, <3>2, HandOver
  <2>5. CASE UNCHANGED <<is_index_inorder, returned, emitted>> /\ (pc' = "get" \/ ended' # "no")
    <3>1. PlanInv'
      BY Zenon, <1>0, <2>1, <2>2, <2>3, <2>5 DEF PlanInv
    <3> QED
      BY ZenonT(60), <2>1, <2>2, <2>5, <3>1, NothingHanded
  <2>6. \/ Return(r) /\ ended' = ended
        \/ UNCHANGED <<is_index_inorder, returned, emitted>> /\ (pc' = "get" \/ ended' # "no")
    <3>1. CASE NoTuple("notnear") /\ UNCHANGED <<is_index_inorder, returned, emitted>>
      BY Zenon, <3>1 DEF NoTuple
    <3>2. CASE RangeCheck(r, DistanceThreshold)
      BY Zenon, <2>2, <3>2 DEF RangeCheck, NoTuple
    <3> QED
      BY Zenon, <1>5, <3>1, <3>2 DEF HnswPullRange
  <2> QED
    BY ZenonT(60), <2>4, <2>5, <2>6
<1> QED
  BY ZenonT(60), <1>1, <1>2, <1>3, <1>4, <1>5 DEF HnswGetTuple

(* A step of the Sort nodes leaves the scan alone. *)
LEMMA PlanRests ==
  ASSUME PlanInv, HandedInv, UNCHANGED vars, order' = order
  PROVE  PlanInv' /\ HandedInv'
<1>1. UNCHANGED <<shape, key, first, hasRangeFilter, xs_inorder, xs_recheck, is_index_inorder,
                  pc, pulled, returned, emitted, ended>>
  BY Zenon DEF vars, nodeVars, opaque, history
<1>2. \A s : Passes(s)' <=> Passes(s)
  BY ZenonT(60), <1>1, PassesUnmoved
<1>3. Range(emitted') = {s \in Range(returned') : Passes(s)'}
  <2> HIDE DEF Passes
  <2> QED
    BY Zenon, <1>1, <1>2 DEF HandedInv
<1> QED
  BY Zenon, <1>1, <1>3 DEF PlanInv, HandedInv

(* Every step of the plan. *)
LEMMA EarlyStep ==
  ASSUME IInv, IInv', EarlyInv, [SortNext]_<<vars, sortVars>>
  PROVE  EarlyInv'
<1> SUFFICES ASSUME am' = "hnsw" PROVE PlanInv' /\ HandedInv' /\ FedInv'
  BY Zenon DEF EarlyInv
<1>1. am = "hnsw"
  <2>1. am' = am
    <3>1. [Next]_vars
      BY ZenonT(60), SortStepScans
    <3>2. CASE UNCHANGED vars
      BY Zenon, <3>2 DEF vars, nodeVars
    <3>3. CASE Fetch
      BY Zenon, <3>3 DEF Fetch, IndexNext
    <3>4. ASSUME NEW k \in Keys, Rescan(k) PROVE am' = am
      BY ZenonT(60), <3>4 DEF Rescan, HnswRescan, SptagRescan, PaseRescan, RescanKeys
    <3>5. CASE EndScan
      BY ZenonT(60), <3>5 DEF EndScan, HnswEndScan, SptagEndScan, PaseEndScan, CloseScan
    <3>6. CASE GetTuple
      <4>1. ASSUME NEW r \in Row, Pull(r) PROVE am' = am
        BY Zenon, <4>1 DEF Pull
      <4>2. CASE HnswGetTuple
        BY Zenon, <4>1, <4>2 DEF HnswGetTuple, HnswNoKey, NoKey, HnswStart, OpenSearch, Exhausted,
           HnswPullOrdered, HnswPullRange
      <4>3. CASE SptagGetTuple
        BY Zenon, <4>1, <4>3 DEF SptagGetTuple, NoKey, SptagStart, OpenSearch, Exhausted,
           SptagPullOrdered, SptagPullRange
      <4>4. CASE PaseGetTuple
        BY ZenonT(60), <4>1, <4>4 DEF PaseGetTuple, PaseNoOrder, PaseNullKey, PaseStart, Exhausted, PaseNext
      <4> QED
        BY ZenonT(60), <3>6, <4>2, <4>3, <4>4 DEF GetTuple
    <3> QED
      BY ZenonT(60), <3>1, <3>2, <3>3, <3>4, <3>5, <3>6 DEF Next
  <2> QED
    BY Zenon, <2>1
<1>2. PlanInv /\ HandedInv /\ FedInv
  BY ZenonT(60), <1>1 DEF EarlyInv
<1>3. emitted \in Seq(Row) /\ IsFiniteSet(Row)
  BY ZenonT(60), RowAssumption DEF IInv, TypeOK, NodeTypeOK
<1>4. CASE SortFetch
  <2>1. /\ UNCHANGED <<am, shape, key, first, hasRangeFilter, xs_inorder, xs_recheck,
                       is_index_inorder, pulled, returned, emitted, ended>>
        /\ UNCHANGED <<order, limit, fed, sort_Done>> /\ pc' = "get"
    BY Zenon, <1>4 DEF SortFetch, Fetch, IndexNext, opaque, history, sortVars, query
  <2>2. \A s : Passes(s)' <=> Passes(s)
    BY ZenonT(60), <2>1, PassesUnmoved
  <2>3. Range(emitted') = {s \in Range(returned') : Passes(s)'}
    <3> HIDE DEF Passes
    <3> QED
      BY Zenon, <1>2, <2>1, <2>2 DEF HandedInv
  <2>4. PlanInv' /\ HandedInv'
    BY Zenon, <1>2, <2>1, <2>3 DEF PlanInv, HandedInv
  <2>5. Sorts' <=> Sorts
    BY Zenon, <2>1 DEF Sorts
  <2>6. ~sort_Done
    BY Zenon, <1>2, <1>4 DEF FedInv, SortFetch
  <2>7. Sorts => Range(emitted) \subseteq fed
    <3> SUFFICES ASSUME Sorts, NEW m \in DOMAIN emitted PROVE emitted[m] \in fed
      BY Zenon DEF Range
    <3>1. m \in 1..Len(emitted) /\ Len(emitted) \in Nat
      BY <1>3
    <3>2. ~Pending
      BY Zenon, <1>4 DEF SortFetch
    <3>3. CASE m = Len(emitted)
      BY SMTT(30), <3>1, <3>2, <3>3, <1>3 DEF Pending
    <3>4. CASE m < Len(emitted)
      BY ZenonT(60), <1>2, <3>4 DEF FedInv
    <3> QED
      BY SMTT(60), <3>1, <3>3, <3>4
  <2> QED
    BY ZenonT(60), <1>2, <2>1, <2>4, <2>5, <2>6, <2>7 DEF FedInv
<1>5. CASE ScanStep
  BY ZenonT(60), <1>1, <1>2, <1>5, EarlyGetTuple DEF ScanStep, GetTuple
<1>6. CASE SortPut
  <2>1. /\ UNCHANGED vars /\ order' = order /\ limit' = limit
        /\ Sorts /\ ~sort_Done /\ pc = "idle"
        /\ emitted # <<>> /\ fed' = fed \union {emitted[Len(emitted)]}
        /\ sort_Done' => is_index_inorder /\ Cardinality(fed') >= limit
    <3>1. sort_Done' => is_index_inorder /\ Cardinality(fed') >= limit
      BY Zenon, <1>6 DEF SortPut, heapfull
    <3> QED
      BY ZenonT(60), <1>6, <3>1 DEF SortPut, query, Pending
  <2>2. UNCHANGED <<am, emitted, pc, ended, desc>> /\ (is_index_inorder' <=> is_index_inorder)
    BY Zenon, <2>1 DEF vars, nodeVars, history
  <2>3. Sorts'
    BY Zenon, <2>1, <2>2 DEF Sorts
  <2>4. Len(emitted) \in DOMAIN emitted /\ DOMAIN emitted = 1..Len(emitted) /\ Len(emitted) \in Nat
    BY SMTT(30), <1>3, <2>1
  <2>5. fed' \subseteq Range(emitted)
    BY Zenon, <1>2, <2>1, <2>4 DEF FedInv, Range
  <2>6. \A m \in DOMAIN emitted : m < Len(emitted) => emitted[m] \in fed
    BY Zenon, <1>2, <2>1 DEF FedInv
  <2>7. Range(emitted) \subseteq fed'
    BY SMTT(60), <2>1, <2>4, <2>6 DEF Range
  <2>8. FedInv'
    BY ZenonT(60), <2>1, <2>2, <2>3, <2>5, <2>6, <2>7 DEF FedInv
  <2> QED
    BY ZenonT(60), <1>2, <2>1, <2>8, PlanRests
<1>7. CASE SortEnd
  <2>1. /\ UNCHANGED vars /\ order' = order /\ limit' = limit /\ fed' = fed
        /\ Sorts /\ pc = "idle" /\ ended # "no" /\ ~Pending
    BY Zenon, <1>7 DEF SortEnd, query
  <2>2. UNCHANGED <<am, emitted, pc, ended, desc>>
    BY Zenon, <2>1 DEF vars, nodeVars, history
  <2>3. Sorts'
    BY Zenon, <2>1, <2>2 DEF Sorts
  <2>4. \A m \in DOMAIN emitted : m < Len(emitted) => emitted[m] \in fed
    BY Zenon, <1>2, <2>1 DEF FedInv
  <2>5. Range(emitted) \subseteq fed
    BY SMTT(60), <1>3, <2>1, <2>4 DEF Range, Pending
  <2>6. FedInv'
    BY ZenonT(60), <1>2, <2>1, <2>2, <2>3, <2>4, <2>5 DEF FedInv
  <2> QED
    BY ZenonT(60), <1>2, <2>1, <2>6, PlanRests
<1>8. CASE UNCHANGED <<vars, query, fed, sort_Done>>
  <2>1. UNCHANGED <<am, emitted, pc, ended, desc, is_index_inorder, order, limit, fed, sort_Done>>
    BY Zenon, <1>8 DEF vars, nodeVars, history, query
  <2>2. Sorts' <=> Sorts
    BY Zenon, <2>1 DEF Sorts
  <2>3. FedInv'
    BY Zenon, <1>2, <2>1, <2>2 DEF FedInv
  <2> QED
    BY ZenonT(60), <1>2, <1>8, <2>1, <2>3, PlanRests
<1>9. ASSUME NEW k \in Keys, SortRescan(k) PROVE PlanInv' /\ HandedInv' /\ FedInv'
  <2>1. /\ UNCHANGED <<shape, is_index_inorder, order>> /\ first' = TRUE
        /\ pulled' = <<>> /\ returned' = <<>> /\ emitted' = <<>>
        /\ fed' = {} /\ sort_Done' = FALSE
    BY ZenonT(60), <1>1, <1>9 DEF SortRescan, Rescan, HnswRescan, RescanKeys, query
  <2>2. Range(emitted') = {} /\ Range(returned') = {} /\ DOMAIN emitted' = {}
    BY <2>1, RangeOfEmpty
  <2>3. PlanInv'
    BY Zenon, <1>2, <2>1 DEF PlanInv
  <2>4. HandedInv'
    BY Zenon, <2>1, <2>2 DEF HandedInv
  <2>5. FedInv'
    BY Zenon, <2>1, <2>2 DEF FedInv
  <2> QED
    BY Zenon, <2>3, <2>4, <2>5
<1>10. CASE SortClose
  <2>1. /\ UNCHANGED <<am, shape, key, first, hasRangeFilter, xs_inorder, xs_recheck,
                       is_index_inorder, pc, pulled, returned, emitted, ended>>
        /\ UNCHANGED <<order, limit, fed, sort_Done>> /\ desc' # "open"
    BY Zenon, <1>1, <1>10 DEF SortClose, EndScan, HnswEndScan, CloseScan, history, sortVars, query
  <2>2. \A s : Passes(s)' <=> Passes(s)
    BY Zenon, <2>1, PassesUnmoved
  <2>3. Range(emitted') = {s \in Range(returned') : Passes(s)'}
    <3> HIDE DEF Passes
    <3> QED
      BY ZenonT(60), <1>2, <2>1, <2>2 DEF HandedInv
  <2>4. PlanInv' /\ HandedInv'
    BY Zenon, <1>2, <2>1, <2>3 DEF PlanInv, HandedInv
  <2>5. Sorts' <=> Sorts
    BY Zenon, <2>1 DEF Sorts
  <2> QED
    BY Zenon, <1>2, <2>1, <2>4, <2>5 DEF FedInv
<1>11. CASE OuterEnd \/ \E r \in Row : OuterPut(r)
  BY Zenon, <1>8, <1>11 DEF OuterEnd, OuterPut
<1>12. CASE UNCHANGED <<vars, sortVars>>
  BY Zenon, <1>8, <1>12 DEF sortVars
<1> QED
  BY ZenonT(60), <1>4, <1>5, <1>6, <1>7, <1>9, <1>10, <1>11, <1>12 DEF SortNext

(* At an early stop the Sort holds the rows of pulled that pass; the rows  *)
(* of the queue are among them unless the recheck drops one, and then      *)
(* every row that passes is nearer than the dropped one.                   *)
LEMMA EarlyStopNearest ==
  ASSUME key \in Keys, distanceQueue \subseteq Range(pulled), Range(pulled) \subseteq Row,
         fed = {r \in Range(pulled) : Passes(r)},
         limit \in Nat \ {0},
         \A u \in Visible \ Range(pulled) : D(top) <= D(u),
         limit <= Cardinality(distanceQueue \intersect Visible),
         NEW S \in SUBSET fed, IsNearest(S, limit, fed)
  PROVE  IsNearest(S, limit, Visible)
<1> DEFINE QV == distanceQueue \intersect Visible
<1>1. Visible \subseteq Row /\ fed \subseteq Visible /\ S \subseteq Row /\ QV \subseteq Row
  BY Zenon, RowAssumption DEF Passes
<1>2. \A r \in Row : D(r) \in Int /\ key.range \in Int
  BY Zenon, DistanceType
<1>3. IsFiniteSet(S) /\ IsFiniteSet(QV) /\ Cardinality(QV) \in Nat
  BY ZenonT(60), <1>1, RowAssumption, FS_Subset, FS_CardinalityType
<1>4. Cardinality(S) = limit /\ \A r \in S, u \in fed \ S : D(r) <= D(u)
  BY Zenon DEF IsNearest
<1>5. QV # {}
  BY <1>3, FS_EmptySet
<1>6. top \in distanceQueue /\ \A q \in distanceQueue : D(q) <= D(top)
  BY Zenon, <1>5, FarthestExists DEF top
<1>7. ASSUME NEW r \in S, NEW u \in Visible, u \in Range(pulled), u \notin fed
      PROVE  D(r) < D(u)
  <2>1. ~Passes(u) /\ Passes(r)
    BY Zenon, <1>7
  <2>2. D(r) < key.range /\ ~(D(u) < key.range)
    BY Zenon, <2>1 DEF Passes, OperatorHolds
  <2> QED
    BY SMTT(30), <1>1, <1>2, <2>2
<1>8. ASSUME NEW r \in S, D(top) < D(r) PROVE FALSE
  <2>1. QV \subseteq fed
    <3> SUFFICES ASSUME NEW q \in QV, q \notin fed PROVE FALSE
      BY Zenon
    <3>1. D(r) < D(q) /\ D(q) <= D(top)
      BY Zenon, <1>6, <1>7
    <3> QED
      BY SMTT(60), <1>1, <1>2, <1>6, <1>8, <3>1
  <2>2. QV \subseteq S
    <3> SUFFICES ASSUME NEW q \in QV, q \notin S PROVE FALSE
      BY Zenon
    <3>1. D(r) <= D(q) /\ D(q) <= D(top)
      BY ZenonT(60), <1>4, <1>6, <2>1
    <3> QED
      BY SMTT(60), <1>1, <1>2, <1>6, <1>8, <3>1
  <2>3. r \notin QV
    <3> SUFFICES ASSUME r \in QV PROVE FALSE
      BY Zenon
    <3> QED
      BY SMTT(60), <1>1, <1>2, <1>6, <1>8
  <2>4. Cardinality(QV) <= Cardinality(S) /\ Cardinality(QV) # Cardinality(S)
    <3> HIDE DEF QV
    <3> QED
      BY ZenonT(60), <1>3, <2>2, <2>3, FS_Subset
  <2> QED
    BY SMTT(30), <1>3, <1>4, <2>4
<1>9. ASSUME NEW r \in S, NEW u \in Visible \ S PROVE D(r) <= D(u)
  <2>1. CASE u \in fed
    BY Zenon, <1>4, <1>9, <2>1
  <2>2. CASE u \in Range(pulled) /\ u \notin fed
    BY SMTT(60), <1>1, <1>2, <1>7, <2>2
  <2>3. CASE u \notin Range(pulled)
    <3>1. D(top) <= D(u) /\ ~(D(top) < D(r))
      BY Zenon, <1>8, <2>3
    <3> QED
      BY SMTT(60), <1>1, <1>2, <1>6, <3>1
  <2> QED
    BY Zenon, <2>1, <2>2, <2>3
<1> QED
  BY ZenonT(60), <1>1, <1>4, <1>9 DEF IsNearest

(* When the Sort over an hnsw scan stops early it is a Sort by distance,   *)
(* the flag it read was set by this scan and not by the one before a       *)
(* rescan, and the rows it returns are the true nearest, if the index kept *)
(* the order it declared and the queue holds enough visible rows: for any  *)
(* rows, keys, plans, queue sizes and limits.                              *)
THEOREM EarlyStopExact == SortSpec => []EarlyStopIsExact
<1>1. SortInit => EarlyInv
  <2> SUFFICES ASSUME SortInit PROVE EarlyInv
    BY Zenon
  <2>1. /\ first = TRUE /\ is_index_inorder = FALSE /\ emitted = <<>> /\ pulled = <<>>
        /\ returned = <<>> /\ fed = {} /\ sort_Done = FALSE
    BY Zenon DEF SortInit, Init, NodeInit
  <2>2. order = "distance" <=> shape.orderby
    BY Zenon DEF SortInit
  <2>3. Range(emitted) = {} /\ Range(returned) = {} /\ DOMAIN emitted = {}
    BY <2>1, RangeOfEmpty
  <2>4. PlanInv /\ HandedInv
    BY Zenon, <2>1, <2>2, <2>3 DEF PlanInv, HandedInv
  <2>5. FedInv
    BY Zenon, <2>1, <2>3 DEF FedInv
  <2> QED
    BY Zenon, <2>4, <2>5 DEF EarlyInv
<1>2. IInv /\ IInv' /\ EarlyInv /\ [SortNext]_<<vars, sortVars>> => EarlyInv'
  BY Zenon, EarlyStep
<1>3. IInv /\ SortTypeOK /\ EarlyInv => EarlyStopIsExact
  <2> SUFFICES ASSUME IInv, SortTypeOK, EarlyInv,
                      am = "hnsw", sort_Done, ended = "no", desc = "open"
               PROVE  /\ order = "distance" /\ xs_inorder
                      /\ (\A u \in Visible \ Range(pulled) : D(top) <= D(u))
                         /\ limit <= Cardinality(distanceQueue \intersect Visible) =>
                         \A S \in SUBSET fed : IsNearest(S, limit, fed) => IsNearest(S, limit, Visible)
    BY Zenon DEF EarlyStopIsExact
  <2>1. PlanInv /\ HandedInv /\ FedInv
    BY Zenon DEF EarlyInv
  <2>2. /\ Sorts /\ pc = "idle" /\ emitted # <<>> /\ is_index_inorder
        /\ fed \subseteq Range(emitted) /\ Range(emitted) \subseteq fed
    BY Zenon, <2>1 DEF FedInv
  <2>3. shape.orderby /\ order = "distance" /\ xs_inorder /\ ~first /\ ~hasRangeFilter
    <3>1. shape.orderby
      BY Zenon, <2>1, <2>2 DEF PlanInv
    <3>2. ~first /\ xs_inorder
      BY Zenon, <2>1, <2>2 DEF HandedInv
    <3> QED
      BY ZenonT(60), <2>1, <3>1, <3>2 DEF PlanInv
  <2>4. limit \in Nat \ {0}
    BY SMTT(60), <2>2, <2>3, LimitsAssumption DEF Sorts, SortTypeOK
  <2>5. fed = {r \in Range(pulled) : Passes(r)}
    <3> HIDE DEF Passes
    <3>1. Range(emitted) = {r \in Range(pulled) : Passes(r)}
      BY ZenonT(60), <2>1, <2>3 DEF HandedInv
    <3> QED
      BY Zenon, <2>2, <3>1
  <2>6. key \in Keys /\ distanceQueue \subseteq Range(pulled) /\ Range(pulled) \subseteq Row
    BY Zenon, TypeFacts DEF IInv, HistoryInv, CallInv
  <2> QED
    BY ZenonT(60), <2>3, <2>4, <2>5, <2>6, EarlyStopNearest
<1> QED
  BY <1>1, <1>2, <1>3, SortUsesScan, ScanInvariant, TypeCorrect, PTL DEF SortSpec
-----------------------------------------------------------------------------
(* A null pointer is followed only where no search was opened: an open     *)
(* search has a work space with an iterator.                               *)
LEMMA CrashStep ==
  ASSUME StreamInv, Next, crashed' = TRUE, crashed = FALSE
  PROVE  first
<1>1. ASSUME NEW r \in Row, Pull(r) PROVE FALSE
  BY Zenon, <1>1 DEF Pull
<1>2. ~GetTuple
  <2>1. ~HnswGetTuple
    BY Zenon, <1>1 DEF HnswGetTuple, HnswNoKey, NoKey, HnswStart, OpenSearch, Exhausted, HnswPullOrdered,
       HnswPullRange
  <2>2. ~SptagGetTuple
    BY Zenon, <1>1 DEF SptagGetTuple, NoKey, SptagStart, OpenSearch, Exhausted, SptagPullOrdered,
       SptagPullRange
  <2>3. ~PaseGetTuple
    BY Zenon, <1>1 DEF PaseGetTuple, PaseNoOrder, PaseNullKey, PaseStart, Exhausted, PaseNext
  <2> QED
    BY Zenon, <2>1, <2>2, <2>3 DEF GetTuple
<1>3. ~Fetch
  BY Zenon DEF Fetch, IndexNext
<1>4. am # "pase_hnsw" /\ desc = "open" /\ workSpace # "open"
  BY Zenon, <1>2, <1>3 DEF Next, Rescan, HnswRescan, SptagRescan, PaseRescan, RescanKeys, EndScan,
     HnswEndScan, SptagEndScan, PaseEndScan, CloseScan
<1> QED
  BY Zenon, <1>4 DEF StreamInv, searching

(* The scan's invariant of its search, under any plan.                     *)
THEOREM StreamInvariant == SortSpec => [](IInv /\ StreamInv)
<1>1. Init => StreamInv
  BY Zenon DEF Init, NodeInit, searching, StreamInv
<1>2. StreamInv /\ UNCHANGED vars => StreamInv'
  BY DEF StreamInv, searching, vars, nodeVars, opaque
<1>3. IInv /\ StreamInv /\ [Next]_vars => StreamInv'
  BY Zenon, <1>2, StreamStep
<1> QED
  BY <1>1, <1>3, SortUsesScan, ScanInvariant, PTL DEF Spec

(* A rescan or the end of a scan follows a null pointer only when the scan *)
(* has opened no search; with any keys and under any plan.                 *)
THEOREM CrashNeedsNoSearch == SortSpec => CrashOnlyUnopened
<1>1. IInv /\ StreamInv /\ [Next]_vars => [crashed' /\ ~crashed => first]_vars
  <2> SUFFICES ASSUME IInv, StreamInv, Next, crashed', ~crashed PROVE first
    BY Zenon
  <2>1. crashed \in BOOLEAN
    BY Zenon DEF IInv, TypeOK, NodeTypeOK
  <2>2. crashed' \in BOOLEAN
    BY Zenon, NextInv DEF IInv, TypeOK, NodeTypeOK
  <2>3. crashed' = TRUE /\ crashed = FALSE
    BY SMTT(30), <2>1, <2>2
  <2> QED
    BY Zenon, <2>3, CrashStep
<1> QED
  BY <1>1, StreamInvariant, SortUsesScan, PTL DEF Spec, CrashOnlyUnopened
-----------------------------------------------------------------------------
(* The node as a stream: it has handed out rows the search delivered, none *)
(* before the search is open, and only a scan without an order-by key      *)
(* looks at the range.                                                     *)
EmitInv ==
  /\ first => emitted = <<>>
  /\ Range(emitted) \subseteq Range(pulled)
  /\ RangeRowsMatch
  /\ ~first /\ ~hasRangeFilter => shape.orderby

(* How the node's variables move when its stream takes a step, or none.    *)
LEMMA NodeOpens ==
  ASSUME nodeStatus["node"] = "closed", nodeStatus'["node"] = "open", answered'["node"] = <<>>
  PROVE  Node!Next
<1>1. nodeStatus' = [nodeStatus EXCEPT !["node"] = "open"]
  BY Zenon DEF nodeStatus
<1>2. answered' = [answered EXCEPT !["node"] = <<>>]
  BY Zenon DEF answered
<1> QED
  BY Zenon, <1>1, <1>2 DEF Node!Next, Node!Open

LEMMA NodeDelivers ==
  ASSUME nodeStatus["node"] = "open", nodeStatus'["node"] = "open", NEW r \in Row,
         r \notin Range(answered["node"]), answered'["node"] = Append(answered["node"], r)
  PROVE  Node!Next
<1>1. nodeStatus' = nodeStatus
  BY Zenon DEF nodeStatus
<1>2. answered' = [answered EXCEPT !["node"] = Append(@, r)]
  BY Zenon DEF answered
<1> QED
  BY Zenon, <1>1, <1>2 DEF Node!Next, Node!Deliver, Node!Range, Range

LEMMA NodeEnds ==
  ASSUME nodeStatus["node"] = "open", nodeStatus'["node"] = "ended", answered'["node"] = answered["node"]
  PROVE  Node!Next
<1>1. nodeStatus' = [nodeStatus EXCEPT !["node"] = "ended"]
  BY Zenon DEF nodeStatus
<1>2. answered' = answered
  BY Zenon DEF answered
<1> QED
  BY Zenon, <1>1, <1>2 DEF Node!Next, Node!End

LEMMA NodeCloses ==
  ASSUME nodeStatus["node"] # "closed", nodeStatus'["node"] = "closed", answered'["node"] = <<>>
  PROVE  Node!Next
<1>1. nodeStatus' = [nodeStatus EXCEPT !["node"] = "closed"]
  BY Zenon DEF nodeStatus
<1>2. answered' = [answered EXCEPT !["node"] = <<>>]
  BY Zenon DEF answered
<1> QED
  BY Zenon, <1>1, <1>2 DEF Node!Next, Node!Close

LEMMA NodeRests ==
  ASSUME nodeStatus'["node"] = nodeStatus["node"], answered'["node"] = answered["node"]
  PROVE  UNCHANGED Node!vars
<1>1. nodeStatus' = nodeStatus
  BY Zenon DEF nodeStatus
<1>2. answered' = answered
  BY Zenon DEF answered
<1> QED
  BY ZenonT(60), <1>1, <1>2 DEF Node!vars

(* What the node shows where the scan is.                                  *)
LEMMA NodeView ==
  /\ desc # "open" => nodeStatus["node"] = "closed" /\ answered["node"] = <<>>
  /\ desc = "open" => answered["node"] = emitted
  /\ desc = "open" /\ first /\ pc = "idle" /\ ended = "no" => nodeStatus["node"] = "closed"
  /\ desc = "open" /\ ended # "no" => nodeStatus["node"] = "ended"
  /\ desc = "open" /\ ended = "no" /\ (~first \/ pc # "idle") => nodeStatus["node"] = "open"
BY Zenon DEF nodeStatus, answered, rescanned

(* A step that hands nothing to the executor.                              *)
LEMMA EmitKept ==
  ASSUME EmitInv, UNCHANGED <<shape, key, xs_recheck, emitted>>, Range(pulled) \subseteq Range(pulled'),
         first' => first, ~first' /\ ~hasRangeFilter' => shape.orderby
  PROVE  EmitInv'
<1>1. RangeRowsMatch'
  BY Zenon DEF EmitInv, RangeRowsMatch, OperatorHolds, D
<1> QED
  BY Zenon, <1>1 DEF EmitInv

LEMMA EmitCleared ==
  ASSUME emitted' = <<>>, first'
  PROVE  EmitInv'
BY Zenon, RangeOfEmpty DEF EmitInv, RangeRowsMatch

(* A row that amgettuple returns: it is new, and in range where the scan   *)
(* looks at the range.                                                     *)
LEMMA EmitRow ==
  ASSUME IInv, EmitInv, NEW r \in Row, Pull(r), Return(r), ended' = ended,
         ~shape.orderby => D(r) <= key.range
  PROVE  EmitInv' /\ (Node!Next \/ UNCHANGED Node!vars)
<1>1. /\ key' = key /\ desc' = "open" /\ desc = "open" /\ ~first /\ ~first' /\ pc = "get"
      /\ ended = "no" /\ ended' = "no" /\ (hasRangeFilter' <=> hasRangeFilter)
      /\ r \notin Range(pulled) /\ Range(pulled') = Range(pulled) \union {r}
  BY Zenon, PullFacts
<1>2. UNCHANGED <<shape, key, xs_recheck>>
  BY Zenon DEF Pull
<1>3. ~first' /\ ~hasRangeFilter' => shape'.orderby
  BY Zenon, <1>1, <1>2 DEF EmitInv
<1>4. nodeStatus["node"] = "open" /\ answered["node"] = emitted
  BY ZenonT(60), <1>1, NodeView
<1>5. nodeStatus'["node"] = "open" /\ answered'["node"] = emitted'
  BY Zenon, <1>1 DEF nodeStatus, answered, rescanned
<1>6. CASE Passes(r)
  <2>1. emitted' = Append(emitted, r)
    BY <1>6, Zenon DEF Return, Passes
  <2>2. emitted \in Seq(Row)
    BY Zenon DEF IInv, TypeOK, NodeTypeOK
  <2>3. Range(emitted') = Range(emitted) \union {r}
    BY ZenonT(60), <2>1, <2>2, AppendFacts
  <2>4. r \notin Range(emitted)
    BY Zenon, <1>1 DEF EmitInv
  <2>5. RangeRowsMatch'
    <3> SUFFICES ASSUME shape.filter, NEW t \in Range(emitted')
                 PROVE  /\ xs_recheck => OperatorHolds(t)'
                        /\ ~shape.orderby => D(t)' <= key'.range
      BY Zenon, <1>2 DEF RangeRowsMatch
    <3>1. OperatorHolds(t)' <=> OperatorHolds(t)
      BY Zenon, <1>2 DEF OperatorHolds, D
    <3>2. D(t)' = D(t) /\ key'.range = key.range
      BY Zenon, <1>2 DEF D
    <3>3. CASE t \in Range(emitted)
      BY ZenonT(60), <3>1, <3>2, <3>3 DEF EmitInv, RangeRowsMatch
    <3>4. CASE t = r
      BY ZenonT(60), <1>6, <3>1, <3>2, <3>4 DEF Passes
    <3> QED
      BY Zenon, <2>3, <3>3, <3>4
  <2>6. EmitInv'
    BY ZenonT(60), <1>1, <1>3, <2>3, <2>5 DEF EmitInv
  <2>7. Node!Next
    BY ZenonT(60), <1>4, <1>5, <2>1, <2>4, NodeDelivers
  <2> QED
    BY Zenon, <2>6, <2>7
<1>7. CASE ~Passes(r)
  <2>1. emitted' = emitted
    BY <1>7, Zenon DEF Return, Passes
  <2>2. EmitInv'
    BY ZenonT(60), <1>1, <1>2, <1>3, <2>1, EmitKept
  <2>3. UNCHANGED Node!vars
    BY ZenonT(60), <1>4, <1>5, <2>1, NodeRests
  <2> QED
    BY Zenon, <2>2, <2>3
<1> QED
  BY Zenon, <1>6, <1>7

(* A step of a call that returns no row: it goes on, or the scan ends.     *)
LEMMA EmitNone ==
  ASSUME IInv, EmitInv, pc = "get", UNCHANGED <<desc, shape, key, xs_recheck, emitted>>,
         Range(pulled) \subseteq Range(pulled'), first' => first,
         ~first' /\ ~hasRangeFilter' => shape.orderby,
         (pc' = "get" /\ ended' = ended) \/ ended' # "no"
  PROVE  EmitInv' /\ (Node!Next \/ UNCHANGED Node!vars)
<1>1. ended = "no" /\ desc = "open" /\ desc' = "open"
  BY Zenon DEF IInv, HistoryInv, CallInv
<1>2. EmitInv'
  BY Zenon, EmitKept
<1>3. nodeStatus["node"] = "open" /\ answered'["node"] = answered["node"]
  BY Zenon, <1>1 DEF nodeStatus, answered, rescanned
<1>4. CASE pc' = "get" /\ ended' = ended
  <2>1. nodeStatus'["node"] = "open"
    BY Zenon, <1>1, <1>4 DEF nodeStatus, rescanned
  <2> QED
    BY ZenonT(60), <1>2, <1>3, <2>1, NodeRests
<1>5. CASE ended' # "no"
  <2>1. nodeStatus'["node"] = "ended"
    BY Zenon, <1>1, <1>5 DEF nodeStatus, rescanned
  <2> QED
    BY ZenonT(60), <1>2, <1>3, <2>1, NodeEnds
<1> QED
  BY Zenon, <1>4, <1>5

(* A row of a range scan.                                                  *)
LEMMA EmitRange ==
  ASSUME IInv, EmitInv, NEW r \in Row, Pull(r), NEW threshold, hasRangeFilter, RangeCheck(r, threshold)
  PROVE  EmitInv' /\ (Node!Next \/ UNCHANGED Node!vars)
<1>1. CASE D(r) <= key.range /\ Return(r) /\ ended' = ended
  BY ZenonT(60), <1>1, EmitRow
<1>2. CASE emitted' = emitted /\ (NoTuple("leftrange") \/ UNCHANGED <<pc, ended>>)
  <2>1. /\ pc = "get" /\ UNCHANGED <<desc, shape, key, xs_recheck>> /\ (first' => first)
        /\ (hasRangeFilter' <=> hasRangeFilter)
    BY Zenon DEF Pull
  <2>2. Range(pulled) \subseteq Range(pulled')
    BY Zenon, PullFacts
  <2>3. (pc' = "get" /\ ended' = ended) \/ ended' # "no"
    BY ZenonT(60), <1>2, <2>1 DEF NoTuple
  <2> QED
    BY ZenonT(60), <1>2, <2>1, <2>2, <2>3, EmitNone
<1> QED
  BY ZenonT(60), <1>1, <1>2 DEF RangeCheck

(* Every step of a call is a step of the node's stream, or none.           *)
LEMMA NodeGetTuple ==
  ASSUME IInv, EmitInv, GetTuple
  PROVE  EmitInv' /\ (Node!Next \/ UNCHANGED Node!vars)
<1> DEFINE Goal == EmitInv' /\ (Node!Next \/ UNCHANGED Node!vars)
<1>1. ASSUME NoKey \/ PaseNullKey PROVE Goal
  <2>1. /\ pc = "get" /\ UNCHANGED <<desc, shape, key, xs_recheck, emitted, pulled>>
        /\ first /\ first' = first /\ ended' = "nokey"
    BY Zenon, <1>1 DEF NoKey, PaseNullKey, NoTuple, history
  <2>2. first' /\ ended' # "no"
    BY <2>1
  <2> QED
    BY ZenonT(60), <2>1, <2>2, EmitNone
<1>2. ASSUME OpenSearch PROVE Goal
  <2>1. /\ pc = "get" /\ UNCHANGED <<desc, shape, key, xs_recheck, emitted, pulled, pc, ended>>
        /\ first /\ (hasRangeFilter' <=> ~shape.orderby)
    BY Zenon, <1>2 DEF OpenSearch, history
  <2> QED
    BY ZenonT(60), <2>1, EmitNone
<1>3. ASSUME PaseStart PROVE Goal
  <2>1. /\ pc = "get" /\ UNCHANGED <<desc, shape, key, xs_recheck, emitted, pulled, pc, ended>>
        /\ first /\ shape.orderby
    BY Zenon, <1>3 DEF PaseStart, history
  <2> QED
    BY ZenonT(60), <2>1, EmitNone
<1>4. ASSUME Exhausted PROVE Goal
  <2>1. /\ pc = "get" /\ UNCHANGED <<desc, shape, key, xs_recheck, emitted, pulled>>
        /\ (first' <=> first) /\ (hasRangeFilter' <=> hasRangeFilter) /\ ended' # "no"
    BY Zenon, <1>4 DEF Exhausted, NoTuple, history, opaque
  <2>2. ~first' /\ ~hasRangeFilter' => shape.orderby
    BY Zenon, <2>1 DEF EmitInv
  <2> QED
    BY ZenonT(60), <2>1, <2>2, EmitNone
<1>5. ASSUME NEW r \in Row, ~hasRangeFilter, Pull(r), Return(r), ended' = ended PROVE Goal
  <2>1. shape.orderby
    BY Zenon, <1>5, PullFacts DEF EmitInv
  <2> QED
    BY Zenon, <1>5, <2>1, EmitRow
<1>6. ASSUME NEW r \in Row, HnswPullRange(r) PROVE Goal
  <2>1. hasRangeFilter /\ Pull(r)
    BY Zenon, <1>6 DEF HnswPullRange
  <2>2. CASE RangeCheck(r, DistanceThreshold)
    BY ZenonT(60), <2>1, <2>2, EmitRange
  <2>3. CASE NoTuple("notnear") /\ emitted' = emitted
    <3>1. /\ pc = "get" /\ UNCHANGED <<desc, shape, key, xs_recheck>> /\ (first' => first)
          /\ (hasRangeFilter' <=> hasRangeFilter) /\ ended' # "no"
      BY Zenon, <2>1, <2>3 DEF Pull, NoTuple
    <3>2. Range(pulled) \subseteq Range(pulled')
      BY Zenon, <2>1, PullFacts
    <3> QED
      BY ZenonT(60), <2>1, <2>3, <3>1, <3>2, EmitNone
  <2> QED
    BY Zenon, <1>6, <2>2, <2>3 DEF HnswPullRange
<1>7. ASSUME NEW r \in Row, SptagPullRange(r) PROVE Goal
  BY ZenonT(60), <1>7, EmitRange DEF SptagPullRange
<1>8. ASSUME PaseNoOrder PROVE Goal
  <2>1. /\ pc = "get" /\ desc' = "aborted" /\ UNCHANGED <<shape, key, xs_recheck, emitted, pulled>>
        /\ first /\ (first' <=> first)
    BY Zenon, <1>8 DEF PaseNoOrder, history
  <2>2. EmitInv'
    BY Zenon, <2>1, EmitKept
  <2>3. ended = "no" /\ desc = "open"
    BY Zenon, <2>1 DEF IInv, HistoryInv, CallInv
  <2>4. nodeStatus["node"] = "open"
    BY ZenonT(60), <2>1, <2>3 DEF nodeStatus, rescanned
  <2>5. nodeStatus'["node"] = "closed" /\ answered'["node"] = <<>>
    BY Zenon, <2>1 DEF nodeStatus, answered
  <2> QED
    BY ZenonT(60), <2>2, <2>4, <2>5, NodeCloses
<1>9. CASE HnswGetTuple
  BY ZenonT(60), <1>1, <1>2, <1>4, <1>5, <1>6, <1>9 DEF HnswGetTuple, HnswNoKey, HnswStart, HnswPullOrdered
<1>10. CASE SptagGetTuple
  BY ZenonT(60), <1>1, <1>2, <1>4, <1>5, <1>7, <1>10 DEF SptagGetTuple, SptagStart, SptagPullOrdered
<1>11. CASE am = "pase_hnsw" /\ PaseGetTuple
  <2>1. ~hasRangeFilter
    BY Zenon, <1>11 DEF IInv, HistoryInv, CallInv
  <2> QED
    BY ZenonT(60), <1>1, <1>3, <1>4, <1>5, <1>8, <1>11, <2>1 DEF PaseGetTuple, PaseNext
<1> QED
  BY ZenonT(60), <1>9, <1>10, <1>11 DEF GetTuple

(* Every step of the scan is one of the node's stream, or none.            *)
LEMMA NodeStep ==
  ASSUME IInv, EmitInv, Next
  PROVE  EmitInv' /\ (Node!Next \/ UNCHANGED Node!vars)
<1>1. CASE Fetch
  <2>1. /\ UNCHANGED <<shape, key, xs_recheck, emitted, pulled, ended>> /\ (first' <=> first)
        /\ (hasRangeFilter' <=> hasRangeFilter)
        /\ desc' = "open" /\ desc \in {"none", "open"} /\ pc = "idle" /\ pc' = "get" /\ ended = "no"
    BY Zenon, <1>1 DEF Fetch, IndexNext, opaque, history
  <2>2. ~first' /\ ~hasRangeFilter' => shape.orderby
    BY Zenon, <2>1 DEF EmitInv
  <2>3. EmitInv'
    BY ZenonT(60), <2>1, <2>2, EmitKept
  <2>4. nodeStatus'["node"] = "open" /\ answered'["node"] = emitted
    BY Zenon, <2>1 DEF nodeStatus, answered, rescanned
  <2>5. CASE first
    <3>1. nodeStatus["node"] = "closed" /\ emitted = <<>>
      BY Zenon, <2>1, <2>5 DEF nodeStatus, rescanned, EmitInv
    <3> QED
      BY ZenonT(60), <2>3, <2>4, <3>1, NodeOpens
  <2>6. CASE ~first
    <3>1. desc = "open"
      BY ZenonT(60), <2>1, <2>6 DEF IInv, HistoryInv, CallInv
    <3>2. nodeStatus["node"] = "open" /\ answered["node"] = emitted
      BY ZenonT(60), <2>1, <2>6, <3>1 DEF nodeStatus, answered, rescanned
    <3> QED
      BY ZenonT(60), <2>3, <2>4, <3>2, NodeRests
  <2> QED
    BY ZenonT(60), <2>5, <2>6
<1>2. ASSUME desc = "open", pc = "idle", nodeStatus'["node"] = "closed", answered'["node"] = <<>>
      PROVE  Node!Next \/ UNCHANGED Node!vars
  <2>1. CASE nodeStatus["node"] = "closed"
    <3>1. first
      BY Zenon, <1>2, <2>1 DEF nodeStatus, rescanned
    <3>2. answered["node"] = <<>>
      BY Zenon, <1>2, <3>1 DEF answered, EmitInv
    <3> QED
      BY ZenonT(60), <1>2, <2>1, <3>2, NodeRests
  <2>2. CASE nodeStatus["node"] # "closed"
    BY ZenonT(60), <1>2, <2>2, NodeCloses
  <2> QED
    BY ZenonT(60), <2>1, <2>2
<1>3. ASSUME NEW k \in Keys, Rescan(k)
      PROVE  EmitInv' /\ (Node!Next \/ UNCHANGED Node!vars)
  <2>1. /\ desc = "open" /\ pc = "idle" /\ pc' = "idle" /\ desc' = "open"
        /\ emitted' = <<>> /\ ended' = "no" /\ first'
    BY Zenon, <1>3 DEF Rescan, HnswRescan, SptagRescan, PaseRescan, RescanKeys
  <2>2. nodeStatus'["node"] = "closed" /\ answered'["node"] = <<>>
    BY Zenon, <2>1 DEF nodeStatus, answered, rescanned
  <2> QED
    BY ZenonT(60), <1>2, <2>1, <2>2, EmitCleared
<1>4. CASE EndScan
  <2>1. CloseScan
    BY Zenon, <1>4 DEF EndScan, HnswEndScan, SptagEndScan, PaseEndScan
  <2>2. /\ desc = "open" /\ pc = "idle" /\ desc' = "closed" /\ (first' <=> first)
        /\ (hasRangeFilter' <=> hasRangeFilter)
        /\ UNCHANGED <<shape, key, xs_recheck, emitted, pulled>>
    BY Zenon, <2>1 DEF CloseScan, history
  <2>3. ~first' /\ ~hasRangeFilter' => shape.orderby
    BY Zenon, <2>2 DEF EmitInv
  <2>4. EmitInv'
    BY Zenon, <2>2, <2>3, EmitKept
  <2>5. nodeStatus'["node"] = "closed" /\ answered'["node"] = <<>>
    BY ZenonT(60), <2>2 DEF nodeStatus, answered
  <2> QED
    BY ZenonT(60), <1>2, <2>2, <2>4, <2>5
<1> QED
  BY ZenonT(60), <1>1, <1>3, <1>4, NodeGetTuple DEF Next

(* The rows the node has handed out, in every reachable state.             *)
THEOREM EmitInvariant == SortSpec => [](IInv /\ EmitInv)
<1>1. Init => EmitInv
  BY Zenon, RangeOfEmpty DEF Init, NodeInit, EmitInv, RangeRowsMatch
<1>2. EmitInv /\ UNCHANGED vars => EmitInv'
  <2> SUFFICES ASSUME EmitInv, UNCHANGED vars PROVE EmitInv'
    BY Zenon
  <2>1. UNCHANGED <<shape, key, xs_recheck, emitted, pulled, first, hasRangeFilter>>
    BY Zenon DEF vars, nodeVars, opaque, history
  <2>2. (first' => first) /\ (~first' /\ ~hasRangeFilter' => shape.orderby)
    BY Zenon, <2>1 DEF EmitInv
  <2> QED
    BY ZenonT(60), <2>1, <2>2, EmitKept
<1>3. IInv /\ EmitInv /\ [Next]_vars => EmitInv'
  BY ZenonT(60), <1>2, NodeStep
<1> QED
  BY <1>1, <1>3, SortUsesScan, ScanInvariant, PTL DEF Spec

(* A row that fails its range key is handed out only at the boundary or    *)
(* under an order-by key, and never when it is rechecked; for any rows,    *)
(* keys, plans and thresholds.                                             *)
THEOREM RangeRowsMatched == SortSpec => []RangeRowsMatch
<1>1. EmitInv => RangeRowsMatch
  BY Zenon DEF EmitInv
<1> QED
  BY <1>1, EmitInvariant, PTL

(* The index scan node implements a ResultStream for the nodes above it,   *)
(* with any access method and under any plan.                              *)
THEOREM ScanProvidesStream == SortSpec => ProvidesStream
<1>1. Init => Node!Init
  <2> SUFFICES ASSUME Init PROVE Node!Init
    BY Zenon
  <2>1. desc # "open"
    BY Zenon DEF Init, NodeInit
  <2> QED
    BY ZenonT(60), <2>1 DEF Node!Init, nodeStatus, answered
<1>2. UNCHANGED vars => UNCHANGED Node!vars
  <2> SUFFICES ASSUME UNCHANGED vars PROVE UNCHANGED Node!vars
    BY Zenon
  <2>1. UNCHANGED <<desc, first, pc, ended, emitted>>
    BY Zenon DEF vars, nodeVars, opaque, history
  <2>2. nodeStatus'["node"] = nodeStatus["node"]
    BY Zenon, <2>1 DEF nodeStatus, rescanned
  <2>3. answered'["node"] = answered["node"]
    BY Zenon, <2>1 DEF answered
  <2> QED
    BY ZenonT(60), <2>2, <2>3, NodeRests
<1>3. IInv /\ EmitInv /\ [Next]_vars => [Node!Next]_(Node!vars)
  BY Zenon, <1>2, NodeStep
<1> QED
  BY <1>1, <1>3, SortUsesScan, EmitInvariant, PTL DEF Spec, ProvidesStream, Node!Spec
=============================================================================

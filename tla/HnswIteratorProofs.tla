------------------------- MODULE HnswIteratorProofs -------------------------
(***************************************************************************)
(* Proofs about HnswIterator for every index graph, any number of          *)
(* iterators and visited lists and any width of the tag: the types, that   *)
(* iterators do not share visited lists, that the marks of a list are what *)
(* its iterator has visited, that the iterators implement the streams of   *)
(* ResultStream, and, for the search itself, what an iterator has visited  *)
(* when it reports the end, in which order it visits, where it starts, and *)
(* that no call can repeat itself.                                         *)
(***************************************************************************)
EXTENDS HnswIterator, FiniteSetTheorems, TLAPS

(* Appending an element adds it to the range: Append models push_back.     *)
LEMMA RangeOfAppend ==
  ASSUME NEW S, NEW s \in Seq(S), NEW e \in S
  PROVE  Range(Append(s, e)) = Range(s) \union {e}
<1> DEFINE t == Append(s, e)
<1>1. Len(s) \in Nat /\ DOMAIN s = 1..Len(s) /\ DOMAIN t = 1..(Len(s) + 1)
  OBVIOUS
<1>2. t[Len(s) + 1] = e /\ \A i \in 1..Len(s) : t[i] = s[i]
  OBVIOUS
<1> HIDE DEF t
<1>3. Range(t) \subseteq Range(s) \union {e}
  <2> SUFFICES ASSUME NEW i \in DOMAIN t PROVE t[i] \in Range(s) \union {e}
    BY DEF Range
  <2>1. i = Len(s) + 1 \/ i \in DOMAIN s
    BY <1>1
  <2>2. QED
    BY <1>1, <1>2, <2>1 DEF Range
<1>4. e \in Range(t)
  <2>1. Len(s) + 1 \in DOMAIN t
    BY <1>1
  <2>2. QED
    BY <1>2, <2>1 DEF Range
<1>5. Range(s) \subseteq Range(t)
  <2> SUFFICES ASSUME NEW i \in DOMAIN s PROVE s[i] \in Range(t)
    BY DEF Range
  <2>1. i \in DOMAIN t
    BY <1>1
  <2>2. QED
    BY <1>1, <1>2, <2>1 DEF Range
<1>6. QED
  BY <1>3, <1>4, <1>5 DEF t

(* Pushing on the front of a deque.                                        *)
LEMMA PushFront ==
  ASSUME NEW S, NEW s \in Seq(S), NEW e \in S
  PROVE  /\ <<e>> \o s \in Seq(S)
         /\ Range(<<e>> \o s) = {e} \union Range(s)
         /\ IsInjective(s) /\ e \notin Range(s) => IsInjective(<<e>> \o s)
<1> DEFINE t == <<e>> \o s
<1>1. Len(s) \in Nat /\ DOMAIN s = 1..Len(s)
  OBVIOUS
<1>2. t \in Seq(S) /\ Len(t) = Len(s) + 1
  OBVIOUS
<1>3. DOMAIN t = 1..(Len(s) + 1) /\ t[1] = e /\ \A i \in 2..(Len(s) + 1) : t[i] = s[i - 1]
  OBVIOUS
<1> HIDE DEF t
<1>4. Range(t) \subseteq {e} \union Range(s)
  <2> SUFFICES ASSUME NEW i \in DOMAIN t PROVE t[i] \in {e} \union Range(s)
    BY DEF Range
  <2>1. i = 1 \/ (i \in 2..(Len(s) + 1) /\ i - 1 \in DOMAIN s)
    BY <1>1, <1>3
  <2>2. QED
    BY <1>3, <2>1 DEF Range
<1>5. e \in Range(t)
  BY <1>1, <1>3 DEF Range
<1>6. Range(s) \subseteq Range(t)
  <2> SUFFICES ASSUME NEW i \in DOMAIN s PROVE s[i] \in Range(t)
    BY DEF Range
  <2>1. i + 1 \in DOMAIN t /\ i + 1 \in 2..(Len(s) + 1) /\ (i + 1) - 1 = i
    BY <1>1, <1>3
  <2>2. t[i + 1] = s[i]
    BY <1>3, <2>1
  <2>3. QED
    BY <2>1, <2>2 DEF Range
<1>7. ASSUME IsInjective(s), e \notin Range(s) PROVE IsInjective(t)
  <2> SUFFICES ASSUME NEW a \in DOMAIN t, NEW b \in DOMAIN t, t[a] = t[b] PROVE a = b
    BY DEF IsInjective
  <2>1. \A i \in DOMAIN t : i # 1 => i - 1 \in DOMAIN s /\ t[i] = s[i - 1] /\ i \in Nat
    BY <1>1, <1>3
  <2>2. \A i \in DOMAIN t : i # 1 => t[i] \in Range(s)
    BY <2>1 DEF Range
  <2>3. CASE a = 1 \/ b = 1
    BY <1>3, <1>7, <2>2, <2>3
  <2>4. CASE a # 1 /\ b # 1
    <3>1. a - 1 = b - 1
      BY <1>7, <2>1, <2>4 DEF IsInjective
    <3>2. QED
      BY <2>1, <2>4, <3>1
  <2>5. QED
    BY <2>3, <2>4
<1>8. QED
  BY <1>2, <1>4, <1>5, <1>6, <1>7 DEF t

(* Popping the front of a deque.                                           *)
LEMMA PopFront ==
  ASSUME NEW S, NEW s \in Seq(S), s # <<>>
  PROVE  /\ Head(s) \in S /\ Tail(s) \in Seq(S)
         /\ Head(s) \in Range(s)
         /\ Range(Tail(s)) \subseteq Range(s)
         /\ IsInjective(s) => IsInjective(Tail(s)) /\ Head(s) \notin Range(Tail(s))
<1> DEFINE t == Tail(s)
<1>1. Len(s) \in Nat \ {0} /\ DOMAIN s = 1..Len(s) /\ Head(s) = s[1] /\ Head(s) \in S
  OBVIOUS
<1>2. t \in Seq(S) /\ DOMAIN t = 1..(Len(s) - 1) /\ \A i \in 1..(Len(s) - 1) : t[i] = s[i + 1]
  OBVIOUS
<1> HIDE DEF t
<1>3. \A i \in DOMAIN t : i + 1 \in DOMAIN s /\ i + 1 # 1 /\ t[i] = s[i + 1] /\ i \in Nat
  BY <1>1, <1>2
<1>4. Head(s) \in Range(s)
  BY <1>1 DEF Range
<1>5. Range(t) \subseteq Range(s)
  BY <1>3 DEF Range
<1>6. ASSUME IsInjective(s) PROVE IsInjective(t) /\ Head(s) \notin Range(t)
  <2>1. ASSUME NEW a \in DOMAIN t, NEW b \in DOMAIN t, t[a] = t[b] PROVE a = b
    <3>1. a + 1 = b + 1
      BY <1>3, <1>6, <2>1 DEF IsInjective
    <3>2. QED
      BY <1>3, <3>1
  <2>2. ASSUME NEW a \in DOMAIN t PROVE t[a] # Head(s)
    <3>1. 1 \in DOMAIN s
      BY <1>1
    <3>2. QED
      BY <1>1, <1>3, <1>6, <3>1 DEF IsInjective
  <2>3. QED
    BY <2>1, <2>2 DEF IsInjective, Range
<1>7. QED
  BY <1>1, <1>2, <1>4, <1>5, <1>6 DEF t

(* The empty sequence has no elements.                                     *)
LEMMA RangeOfEmpty == Range(<<>>) = {}
BY DEF Range

(* The elements of a sequence over a set are in the set.                   *)
LEMMA RangeOfSeq ==
  ASSUME NEW S, NEW s \in Seq(S)
  PROVE  Range(s) \subseteq S
BY DEF Range

(* A finite nonempty set has an element of least value.                    *)
LEMMA LeastExists ==
  ASSUME NEW Q, IsFiniteSet(Q), Q # {}, NEW f, \A u \in Q : f[u] \in Int
  PROVE  \E t \in Q : \A u \in Q : f[t] <= f[u]
<1> DEFINE Below(t) == {u \in Q : f[u] < f[t]}
           Sizes == {Cardinality(Below(t)) : t \in Q}
<1>1. ASSUME NEW t \in Q PROVE IsFiniteSet(Below(t)) /\ Cardinality(Below(t)) \in Nat
  <2>1. Below(t) \in SUBSET Q
    OBVIOUS
  <2>2. IsFiniteSet(Below(t))
    BY <2>1, FS_Subset
  <2>3. QED
    BY <2>2, FS_CardinalityType
<1>2. Sizes \subseteq Nat /\ Sizes # {}
  BY Zenon, <1>1
<1>3. \E n \in Sizes : \A m \in Sizes : ~(<<m, n>> \in OpToRel(<, Nat))
  <2> HIDE DEF Sizes
  <2>1. QED
    BY <1>2, NatLessThanWellFounded, WFMin, Zenon
<1>4. PICK t \in Q : \A m \in Sizes : ~(m < Cardinality(Below(t)))
  <2>1. PICK n \in Sizes : \A m \in Sizes : ~(<<m, n>> \in OpToRel(<, Nat))
    BY <1>3, Zenon
  <2>2. \A m \in Sizes : ~(m < n)
    BY <1>2, <2>1, Zenon DEF OpToRel
  <2>3. QED
    BY Zenon, <2>2
<1>5. ASSUME NEW u \in Q, f[u] < f[t] PROVE FALSE
  <2>1. Below(u) \in SUBSET Below(t) /\ u \in Below(t) /\ u \notin Below(u)
    BY <1>5
  <2>2. Cardinality(Below(u)) < Cardinality(Below(t))
    <3> HIDE DEF Below
    <3>1. /\ Cardinality(Below(u)) <= Cardinality(Below(t))
          /\ Cardinality(Below(u)) # Cardinality(Below(t))
      BY <1>1, <2>1, FS_Subset
    <3>2. QED
      BY <1>1, <3>1
  <2>3. QED
    BY <1>4, <2>2
<1>6. QED
  BY <1>5

(* Lists in use and in the pool have been allocated, and are apart.        *)
PoolInv ==
  /\ \A i \in open : vl[i] <= made
  /\ \A l \in Range(pool) : l <= made
  /\ Isolation

(* No mark is above its list's tag, so that the next tag is a new one.     *)
MarkInv ==
  /\ \A l \in List, n \in Node : mass[l][n] <= curV[l]
  /\ MarksAreVisited

(* A node is queued or popped, never both; the search starts with one.     *)
QueueInv ==
  \A i \in Iter :
    /\ candidate_set[i] \intersect Range(popped[i]) = {}
    /\ Range(emitted[i]) \subseteq Range(popped[i])
    /\ popped[i] = <<>> => \A a, b \in candidate_set[i] : a = b
    /\ i \in isFirst => popped[i] = <<>> /\ candidate_set[i] = {}
    /\ i \in ended => candidate_set[i] = {} /\ i \notin isFirst

(* A running call is that of an open iterator, and a descent is somewhere. *)
CallInv ==
  /\ busy # NoIter => busy \in open
  /\ Descending => currObj \in graph.nodes /\ level \in 0..graph.maxlevel

(* The inductive invariant.                                                *)
IInv == TypeOK /\ PoolInv /\ MarkInv /\ QueueInv /\ CallInv
-----------------------------------------------------------------------------
(* A loaded index is well formed (loadIndex refuses the others).           *)
LEMMA LoadedGraphOK == TypeOK => GraphOK(graph)
  BY Zenon, GraphsAssumption DEF TypeOK

(* The neighbours of an element are elements.                              *)
LEMMA LinksAreNodes ==
  ASSUME TypeOK, NEW l \in 0..graph.maxlevel, NEW n \in graph.nodes
  PROVE  graph.links[l][n] \subseteq graph.nodes
<1>1. graph.links \in [0..graph.maxlevel -> [graph.nodes -> SUBSET graph.nodes]]
  BY Zenon, LoadedGraphOK DEF GraphOK
<1>2. QED
  BY Zenon, <1>1

LEMMA TypeInit == Init => TypeOK
<1> SUFFICES ASSUME Init PROVE TypeOK
  BY Zenon
<1> USE DEF Init
<1>1. graph \in Graphs /\ made \in List /\ level \in Nat
  BY ListsAssumption DEF List
<1>2. curV \in [List -> Tag]
  BY TagAssumption DEF Tag
<1>3. mass \in [List -> [Node -> Tag]]
  BY Zenon, GarbageAssumption
<1>4. pool \in Seq(List)
  BY <1>1
<1>5. query \in [Iter -> Query \union {Unset}] /\ vl \in [Iter -> List \union {Null}]
  BY Zenon
<1>6. candidate_set \in [Iter -> SUBSET graph.nodes] /\ isFirst \subseteq Iter /\ ended \subseteq Iter
  BY Zenon
<1>7. popped \in [Iter -> Seq(graph.nodes)] /\ emitted \in [Iter -> Seq(graph.nodes)]
  OBVIOUS
<1>8. busy \in Iter \union {NoIter} /\ currObj \in graph.nodes \union {Unset}
  BY Zenon
<1>9. QED
  BY Zenon, <1>1, <1>2, <1>3, <1>4, <1>5, <1>6, <1>7, <1>8 DEF TypeOK

(* getFreeVisitedList hands out a list nobody holds.                       *)
LEMMA FreshList ==
  ASSUME TypeOK, PoolInv, NEW l \in List, GetFreeVisitedList(l)
  PROVE  /\ pool' \in Seq(List) /\ made' \in List
         /\ l <= made' /\ made <= made'
         /\ Range(pool') \subseteq Range(pool)
         /\ \A i \in open : vl[i] # l
         /\ l \notin Range(pool') /\ IsInjective(pool')
<1> USE DEF TypeOK, PoolInv, Isolation
<1>1. made \in Nat /\ l \in Nat /\ \A i \in open : vl[i] \in Nat
  BY DEF List, open, Null
<1>2. CASE pool # <<>> /\ l = Head(pool) /\ pool' = Tail(pool) /\ UNCHANGED made
  <2>1. /\ pool' \in Seq(List) /\ l \in Range(pool)
        /\ Range(pool') \subseteq Range(pool)
        /\ l \notin Range(pool') /\ IsInjective(pool')
    BY <1>2, PopFront, Zenon
  <2>2. l <= made' /\ made <= made'
    BY <1>1, <1>2, <2>1
  <2>3. QED
    BY ZenonT(60), <1>2, <2>1, <2>2
<1>3. CASE pool = <<>> /\ l = made + 1 /\ made' = l /\ UNCHANGED pool
  <2>1. Range(pool') = {} /\ IsInjective(pool') /\ pool' \in Seq(List)
    BY Zenon, <1>3, RangeOfEmpty
  <2>2. \A i \in open : vl[i] # l
    BY <1>1, <1>3
  <2>3. QED
    BY <1>1, <1>3, <2>1, <2>2
<1>4. QED
  BY Zenon, <1>2, <1>3 DEF GetFreeVisitedList

(* reset leaves its list without marks and touches no other.               *)
LEMMA ResetClears ==
  ASSUME TypeOK, MarkInv, NEW l \in List, reset(l)
  PROVE  /\ curV' \in [List -> Tag] /\ mass' \in [List -> [Node -> Tag]]
         /\ \A k \in List : k # l => curV'[k] = curV[k] /\ mass'[k] = mass[k]
         /\ \A n \in Node : mass'[l][n] < curV'[l]
<1> USE DEF TypeOK
<1>1. curV[l] \in 0..MaxTag /\ MaxTag \in Nat \ {0} /\ Tag = 0..MaxTag
  BY Zenon, TagAssumption DEF Tag
<1>2. CASE curV[l] = MaxTag
  <2>1. /\ mass' = [mass EXCEPT ![l] = [n \in Node |-> 0]]
        /\ curV' = [curV EXCEPT ![l] = 1]
    BY Zenon, <1>2 DEF reset
  <2>2. 0 \in Tag /\ 1 \in Tag
    BY <1>1
  <2>3. QED
    BY <2>1, <2>2
<1>3. CASE curV[l] # MaxTag
  <2>1. curV' = [curV EXCEPT ![l] = curV[l] + 1] /\ mass' = mass
    BY Zenon, <1>3 DEF reset
  <2>2. curV[l] + 1 \in Tag
    BY SMTT(40), <1>1, <1>3
  <2>3. \A n \in Node : mass[l][n] \in 0..MaxTag /\ mass[l][n] <= curV[l]
    BY Zenon, <1>1 DEF MarkInv
  <2>4. \A n \in Node : mass[l][n] < curV[l] + 1
    BY <1>1, <2>3
  <2>5. QED
    BY Zenon, <2>1, <2>2, <2>4
<1>4. QED
  BY Zenon, <1>2, <1>3

(* What an iteration of the search knows of its iterator and node.         *)
LEMMA PopFacts ==
  ASSUME TypeOK, CallInv, NEW n \in Node, Pop(n)
  PROVE  /\ busy \in Iter /\ busy \in open /\ vl[busy] \in List
         /\ busy \notin isFirst
         /\ n \in candidate_set[busy] /\ n \in graph.nodes
         /\ graph.nodes \subseteq Node
         /\ graph.links[0][n] \subseteq graph.nodes
         /\ Unvisited(busy, n) \subseteq graph.links[0][n]
<1>1. busy \in Iter /\ busy \in open /\ busy \notin isFirst
  BY Zenon DEF Pop, Searching, CallInv, TypeOK
<1>2. vl[busy] \in List
  BY Zenon, <1>1 DEF TypeOK, open
<1>3. n \in candidate_set[busy] /\ n \in graph.nodes
  BY Zenon, <1>1 DEF Pop, Top, Nearest, TypeOK
<1>4. graph.nodes \subseteq Node /\ 0 \in 0..graph.maxlevel
  BY LoadedGraphOK DEF GraphOK
<1>5. graph.links[0][n] \subseteq graph.nodes
  BY Zenon, <1>3, <1>4, LinksAreNodes
<1>6. QED
  BY Zenon, <1>1, <1>2, <1>3, <1>4, <1>5 DEF Unvisited

(* What a pass of the descent knows: where it is, and that it stays there. *)
LEMMA HopFacts ==
  ASSUME TypeOK, CallInv, Hop
  PROVE  currObj' \in graph.nodes /\ level' \in 0..graph.maxlevel
<1> DEFINE closer == {n \in Nearest(busy, graph.links[level][currObj]) : Closer(busy, n, currObj)}
<1>1. /\ currObj \in graph.nodes /\ level \in 0..graph.maxlevel /\ level > 0
      /\ graph.maxlevel \in Nat
  BY Zenon, LoadedGraphOK DEF Hop, CallInv, GraphOK
<1>2. closer \subseteq graph.nodes
  BY Zenon, <1>1, LinksAreNodes DEF Nearest
<1>3. \/ currObj' \in closer /\ level' = level
      \/ level' = level - 1 /\ currObj' = currObj
  BY Zenon DEF Hop
<1> HIDE DEF closer
<1>4. QED
  BY <1>1, <1>2, <1>3

(* The types are kept by every step.                                       *)
LEMMA TypeStep == IInv /\ [Next]_vars => TypeOK'
<1> SUFFICES ASSUME IInv, [Next]_vars PROVE TypeOK'
  BY Zenon
<1>0. TypeOK /\ PoolInv /\ MarkInv /\ CallInv
  BY Zenon DEF IInv
<1>1. ASSUME NEW i \in Iter, NEW q \in Query, NEW l \in List, Open(i, q, l) PROVE TypeOK'
  <2>1. pool' \in Seq(List) /\ made' \in List
    BY Zenon, <1>0, <1>1, FreshList DEF Open
  <2>2. curV' \in [List -> Tag] /\ mass' \in [List -> [Node -> Tag]]
    BY Zenon, <1>0, <1>1, ResetClears DEF Open, GetFreeVisitedList
  <2>3. query' \in [Iter -> Query \union {Unset}] /\ vl' \in [Iter -> List \union {Null}]
    BY Zenon, <1>0, <1>1 DEF Open, TypeOK
  <2>4. candidate_set' \in [Iter -> SUBSET graph.nodes] /\ isFirst' \subseteq Iter /\ ended' \subseteq Iter
    BY Zenon, <1>0, <1>1 DEF Open, TypeOK
  <2>5. popped' \in [Iter -> Seq(graph.nodes)] /\ emitted' \in [Iter -> Seq(graph.nodes)]
    BY <1>0, <1>1 DEF Open, TypeOK
  <2>6. UNCHANGED <<graph, busy, currObj, level>>
    BY Zenon, <1>1 DEF Open, callVars
  <2>7. QED
    BY ZenonT(60), <1>0, <2>1, <2>2, <2>3, <2>4, <2>5, <2>6 DEF TypeOK
<1>2. ASSUME NEW i \in Iter, Close(i) \/ Abort(i) PROVE TypeOK'
  <2>1. Dispose(i)
    BY Zenon, <1>2 DEF Close, Abort
  <2>2. pool' \in Seq(List)
    <3>1. vl[i] \in List
      BY Zenon, <1>0, <2>1 DEF Dispose, open, TypeOK
    <3>2. pool \in Seq(List)
      BY Zenon, <1>0 DEF TypeOK
    <3>3. <<vl[i]>> \o pool \in Seq(List)
      BY Zenon, <3>1, <3>2, PushFront
    <3>4. QED
      BY Zenon, <1>2, <3>2, <3>3 DEF Close, Abort, ReleaseVisitedList
  <2>3. query' \in [Iter -> Query \union {Unset}] /\ vl' \in [Iter -> List \union {Null}]
    BY Zenon, <1>0, <2>1 DEF Dispose, TypeOK
  <2>4. candidate_set' \in [Iter -> SUBSET graph.nodes] /\ isFirst' \subseteq Iter /\ ended' \subseteq Iter
    BY Zenon, <1>0, <2>1 DEF Dispose, TypeOK
  <2>5. popped' \in [Iter -> Seq(graph.nodes)] /\ emitted' \in [Iter -> Seq(graph.nodes)]
    BY <1>0, <2>1 DEF Dispose, TypeOK
  <2>6. UNCHANGED <<graph, curV, mass, made, busy, currObj, level>>
    BY Zenon, <2>1 DEF Dispose, callVars
  <2>7. QED
    BY Zenon, <1>0, <2>2, <2>3, <2>4, <2>5, <2>6 DEF TypeOK
<1>3. ASSUME NEW i \in Iter, NextEmpty(i) PROVE TypeOK'
  BY Zenon, <1>0, <1>3 DEF NextEmpty, TypeOK, poolVars, iterVars, callVars
<1>4. ASSUME NEW i \in Iter, NextCall(i) PROVE TypeOK'
  <2>1. graph.entry \in graph.nodes /\ graph.maxlevel \in Nat
    BY Zenon, <1>0, <1>4, LoadedGraphOK DEF NextCall, GraphOK
  <2>2. currObj' \in graph.nodes \union {Unset} /\ level' \in Nat
    BY Zenon, <1>0, <1>4, <2>1 DEF NextCall, TypeOK
  <2>3. QED
    BY Zenon, <1>0, <1>4, <2>2 DEF NextCall, TypeOK, poolVars, iterVars
<1>5. ASSUME Hop PROVE TypeOK'
  <2>1. currObj' \in graph.nodes /\ level' \in Nat
    BY SMTT(40), <1>0, <1>5, HopFacts, LoadedGraphOK DEF GraphOK
  <2>2. UNCHANGED <<graph, poolVars, iterVars, candidate_set, isFirst, popped, emitted, ended, busy>>
    BY Zenon, <1>5 DEF Hop
  <2>3. QED
    BY Zenon, <1>0, <2>1, <2>2 DEF TypeOK, poolVars, iterVars
<1>6. ASSUME EnterBaseLayer PROVE TypeOK'
  <2>1. currObj \in graph.nodes
    BY Zenon, <1>0, <1>6 DEF EnterBaseLayer, CallInv
  <2>2. QED
    BY ZenonT(60), <1>0, <1>6, <2>1 DEF EnterBaseLayer, TypeOK, poolVars, iterVars
<1>7. ASSUME NEW n \in Node, Pop(n) PROVE TypeOK'
  <2>1. /\ busy \in Iter /\ vl[busy] \in List /\ n \in graph.nodes
        /\ Unvisited(busy, n) \subseteq graph.nodes
    BY Zenon, <1>0, <1>7, PopFacts
  <2>2. mass' \in [List -> [Node -> Tag]]
    <3>1. curV[vl[busy]] \in Tag /\ mass[vl[busy]] \in [Node -> Tag]
      BY Zenon, <1>0, <2>1 DEF TypeOK
    <3>2. [m \in Node |-> IF m \in Marks(busy, n) THEN curV[vl[busy]] ELSE mass[vl[busy]][m]]
            \in [Node -> Tag]
      BY Zenon, <3>1
    <3>3. QED
      BY Zenon, <1>0, <1>7, <2>1, <3>2 DEF Pop, TypeOK
  <2>3. candidate_set' \in [Iter -> SUBSET graph.nodes]
    BY Zenon, <1>0, <1>7, <2>1 DEF Pop, TypeOK
  <2>4. popped' \in [Iter -> Seq(graph.nodes)] /\ emitted' \in [Iter -> Seq(graph.nodes)]
    <3>1. /\ popped \in [Iter -> Seq(graph.nodes)] /\ emitted \in [Iter -> Seq(graph.nodes)]
          /\ Append(popped[busy], n) \in Seq(graph.nodes)
          /\ Append(emitted[busy], n) \in Seq(graph.nodes)
      BY <1>0, <2>1 DEF TypeOK
    <3>2. /\ popped' = [popped EXCEPT ![busy] = Append(popped[busy], n)]
          /\ emitted' = emitted \/ emitted' = [emitted EXCEPT ![busy] = Append(emitted[busy], n)]
      BY Zenon, <1>7 DEF Pop
    <3>3. QED
      BY Zenon, <3>1, <3>2
  <2>5. busy' \in Iter \union {NoIter}
    BY Zenon, <1>7, <2>1 DEF Pop
  <2>6. UNCHANGED <<graph, curV, made, pool, query, vl, isFirst, ended, currObj, level>>
    BY Zenon, <1>7 DEF Pop, iterVars
  <2>7. QED
    BY Zenon, <1>0, <2>2, <2>3, <2>4, <2>5, <2>6 DEF TypeOK
<1>8. ASSUME NoResult PROVE TypeOK'
  <2>1. busy \in Iter
    BY Zenon, <1>0, <1>8 DEF NoResult, Searching, TypeOK
  <2>2. QED
    BY Zenon, <1>0, <1>8, <2>1 DEF NoResult, TypeOK, poolVars, iterVars
<1>9. CASE UNCHANGED vars
  BY Zenon, <1>0, <1>9 DEF vars, TypeOK, poolVars, iterVars, callVars
<1>10. QED
  BY Zenon, <1>1, <1>2, <1>3, <1>4, <1>5, <1>6, <1>7, <1>8, <1>9 DEF Next, Call

(* Steps of a running call and stuttering leave the pool alone.            *)
LEMMA PoolKept ==
  ASSUME IInv, [Next]_vars,
         ~ \E i \in Iter, q \in Query, l \in List : Open(i, q, l),
         ~ \E i \in Iter : Close(i) \/ Abort(i)
  PROVE  UNCHANGED <<graph, curV, made, pool, vl, query>>
<1>1. \/ \E i \in Iter : NextEmpty(i) \/ NextCall(i)
      \/ Hop \/ EnterBaseLayer \/ (\E n \in Node : Pop(n)) \/ NoResult
      \/ UNCHANGED vars
  BY Zenon DEF Next, Call
<1>2. QED
  BY Zenon, <1>1 DEF NextEmpty, NextCall, Hop, EnterBaseLayer, Pop, NoResult, vars, poolVars, iterVars

(* A list is held by one iterator or is in the pool, once.                 *)
LEMMA PoolStep == IInv /\ [Next]_vars => PoolInv'
<1> SUFFICES ASSUME IInv, [Next]_vars PROVE PoolInv'
  BY Zenon
<1>0. TypeOK /\ PoolInv
  BY Zenon DEF IInv
<1>1. ASSUME NEW i \in Iter, NEW q \in Query, NEW l \in List, Open(i, q, l) PROVE PoolInv'
  <2>1. /\ made \in Nat /\ made' \in Nat /\ l <= made' /\ made <= made'
        /\ Range(pool') \subseteq Range(pool)
        /\ \A j \in open : vl[j] # l
        /\ l \notin Range(pool') /\ IsInjective(pool')
    BY SMTT(40), <1>0, <1>1, FreshList DEF Open, TypeOK, List
  <2>2. /\ vl'[i] = l /\ \A j \in Iter : j # i => vl'[j] = vl[j]
        /\ open' = open \union {i} /\ i \notin open
    BY SMTT(30), <1>0, <1>1 DEF Open, TypeOK, open, List, Null
  <2>3. \A k \in Range(pool) : k \in Nat
    <3>1. pool \in Seq(List)
      BY Zenon, <1>0 DEF TypeOK
    <3>2. Range(pool) \subseteq List
      BY ZenonT(60), <3>1, RangeOfSeq
    <3>3. QED
      BY SMTT(40), <3>2 DEF List
  <2>4. \A j \in open : vl[j] \in Nat /\ vl[j] <= made /\ vl[j] \notin Range(pool)
    BY SMTT(30), <1>0 DEF TypeOK, List, Null, open, PoolInv, Isolation
  <2>5. \A j \in open' : vl'[j] <= made'
    BY <2>1, <2>2, <2>4 DEF open
  <2>6. \A k \in Range(pool') : k <= made'
    BY <1>0, <2>1, <2>3 DEF PoolInv
  <2>7. Isolation'
    <3>1. \A j, k \in open' : vl'[j] = vl'[k] => j = k
      BY Zenon, <1>0, <2>1, <2>2 DEF PoolInv, Isolation, open
    <3>2. \A j \in open' : vl'[j] \notin Range(pool')
      BY Zenon, <2>1, <2>2, <2>4 DEF open
    <3>3. QED
      BY Zenon, <2>1, <3>1, <3>2 DEF Isolation
  <2>8. QED
    BY ZenonT(60), <2>5, <2>6, <2>7 DEF PoolInv
<1>2. ASSUME NEW i \in Iter, Close(i) \/ Abort(i) PROVE PoolInv'
  <2>1. Dispose(i)
    BY Zenon, <1>2 DEF Close, Abort
  <2>2. /\ open' = open \ {i} /\ i \in open /\ vl[i] \in List
        /\ made' = made /\ \A j \in Iter : j # i => vl'[j] = vl[j]
    BY Zenon, <1>0, <2>1 DEF Dispose, TypeOK, open
  <2>3. /\ Range(pool') \subseteq {vl[i]} \union Range(pool)
        /\ IsInjective(pool')
    <3>1. pool \in Seq(List) /\ IsInjective(pool) /\ vl[i] \notin Range(pool)
      BY Zenon, <1>0, <2>2 DEF TypeOK, PoolInv, Isolation
    <3>2. CASE Close(i)
      <4>1. pool' = <<vl[i]>> \o pool
        BY Zenon, <3>2 DEF Close, ReleaseVisitedList
      <4>2. /\ Range(<<vl[i]>> \o pool) = {vl[i]} \union Range(pool)
            /\ IsInjective(<<vl[i]>> \o pool)
        BY Zenon, <2>2, <3>1, PushFront
      <4>3. QED
        BY Zenon, <4>1, <4>2
    <3>3. CASE Abort(i)
      BY Zenon, <3>1, <3>3 DEF Abort
    <3>4. QED
      BY Zenon, <1>2, <3>2, <3>3
  <2>4. \A j \in open' : j \in open /\ j # i /\ vl'[j] = vl[j] /\ vl[j] # vl[i]
    BY Zenon, <1>0, <2>2 DEF PoolInv, Isolation, open
  <2>5. \A j \in open' : vl'[j] <= made' /\ vl'[j] \notin Range(pool')
    BY Zenon, <1>0, <2>2, <2>3, <2>4 DEF PoolInv, Isolation
  <2>6. \A k \in Range(pool') : k <= made'
    BY Zenon, <1>0, <2>2, <2>3 DEF PoolInv
  <2>7. \A j, k \in open' : vl'[j] = vl'[k] => j = k
    BY Zenon, <1>0, <2>4 DEF PoolInv, Isolation
  <2>8. QED
    BY Zenon, <2>3, <2>5, <2>6, <2>7 DEF PoolInv, Isolation
<1>3. CASE /\ ~ \E i \in Iter, q \in Query, l \in List : Open(i, q, l)
           /\ ~ \E i \in Iter : Close(i) \/ Abort(i)
  <2>1. UNCHANGED <<made, pool, vl>>
    BY Zenon, <1>3, PoolKept
  <2>2. QED
    BY Zenon, <1>0, <2>1 DEF PoolInv, Isolation, open
<1>4. QED
  BY Zenon, <1>1, <1>2, <1>3

(* One iteration marks, in its iterator's list, the node and its           *)
(* neighbours; this is where queued or popped and marked stay the same.    *)
LEMMA PopMarks ==
  ASSUME IInv, NEW n \in Node, Pop(n)
  PROVE  MarkInv'
<1> DEFINE i == busy
           l == vl[busy]
           new == Unvisited(busy, n)
<1>0. TypeOK /\ PoolInv /\ MarkInv /\ QueueInv /\ CallInv
  BY Zenon DEF IInv
<1>1. /\ i \in Iter /\ i \in open /\ l \in List /\ n \in candidate_set[i]
      /\ graph.links[0][n] \subseteq Node /\ n \in graph.nodes
  BY Zenon, <1>0, PopFacts
<1>2. /\ curV' = curV /\ vl' = vl
      /\ \A k \in List : k # l => mass'[k] = mass[k]
      /\ \A m \in Node : mass'[l][m] = IF m \in Marks(i, n) THEN curV[l] ELSE mass[l][m]
  BY Zenon, <1>0, <1>1 DEF Pop, TypeOK, iterVars
<1>3. /\ candidate_set'[i] = (candidate_set[i] \ {n}) \union new
      /\ popped'[i] = Append(popped[i], n)
      /\ \A j \in Iter : j # i => candidate_set'[j] = candidate_set[j] /\ popped'[j] = popped[j]
  BY Zenon, <1>0, <1>1 DEF Pop, TypeOK
<1>4. \A k \in List, m \in Node : mass'[k][m] <= curV'[k]
  <2>1. curV[l] \in Int
    BY <1>0, <1>1, TagAssumption DEF TypeOK, Tag
  <2>2. QED
    BY SMTT(40), <1>0, <1>2, <2>1 DEF MarkInv
<1>5. /\ popped[i] \in Seq(graph.nodes)
      /\ Range(popped'[i]) = Range(popped[i]) \union {n}
      /\ popped'[i] # <<>>
  <2>1. popped[i] \in Seq(graph.nodes)
    BY Zenon, <1>0, <1>1 DEF TypeOK
  <2>2. Range(Append(popped[i], n)) = Range(popped[i]) \union {n}
    BY <1>1, <2>1, RangeOfAppend
  <2>3. Append(popped[i], n) # <<>>
    BY <1>1, <2>1
  <2>4. QED
    BY Zenon, <1>3, <2>1, <2>2, <2>3
<1>6. Marked(l) = IF popped[i] = <<>> THEN {} ELSE candidate_set[i] \union Range(popped[i])
  BY Zenon, <1>0, <1>1 DEF MarkInv, MarksAreVisited
<1>7. {m \in Node : mass'[l][m] = curV'[l]} = Marked(l) \union {n} \union graph.links[0][n]
  BY Zenon, <1>1, <1>2 DEF Marked, Marks
<1>8. new = {m \in graph.links[0][n] \ {n} : m \notin Marked(l)}
  BY Zenon, <1>1 DEF Unvisited, Marked
<1>9. {m \in Node : mass'[l][m] = curV'[l]} = candidate_set'[i] \union Range(popped'[i])
  <2>1. CASE popped[i] = <<>>
    <3>1. candidate_set[i] = {n} /\ Range(popped[i]) = {}
      BY SMTT(40), <1>0, <1>1, <2>1, RangeOfEmpty DEF QueueInv
    <3>2. QED
      BY Zenon, <1>3, <1>5, <1>6, <1>7, <1>8, <2>1, <3>1
  <2>2. CASE popped[i] # <<>>
    BY Zenon, <1>1, <1>3, <1>5, <1>6, <1>7, <1>8, <2>2
  <2>3. QED
    BY Zenon, <2>1, <2>2
<1>10. ASSUME NEW j \in open, j # i
       PROVE  /\ {m \in Node : mass'[vl[j]][m] = curV'[vl[j]]} = Marked(vl[j])
              /\ candidate_set'[j] = candidate_set[j] /\ popped'[j] = popped[j]
  <2>1. j \in Iter /\ vl[j] \in List /\ vl[j] # l
    BY Zenon, <1>0, <1>1, <1>10 DEF TypeOK, PoolInv, Isolation, open
  <2>2. QED
    BY Zenon, <1>2, <1>3, <1>10, <2>1 DEF Marked
<1>11. MarksAreVisited'
  <2> SUFFICES ASSUME NEW j \in open'
               PROVE  {m \in Node : mass'[vl'[j]][m] = curV'[vl'[j]]} =
                        IF popped'[j] = <<>> THEN {} ELSE candidate_set'[j] \union Range(popped'[j])
    BY Zenon DEF MarksAreVisited, Marked
  <2>1. j \in open /\ vl'[j] = vl[j]
    BY Zenon, <1>2 DEF open
  <2>2. CASE j = i
    BY Zenon, <1>5, <1>9, <2>1, <2>2
  <2>3. CASE j # i
    BY ZenonT(60), <1>0, <1>10, <2>1, <2>3 DEF MarkInv, MarksAreVisited
  <2>4. QED
    BY Zenon, <2>2, <2>3
<1>12. QED
  BY Zenon, <1>4, <1>11 DEF MarkInv

(* The marks of a list stay below its tag and are its iterator's nodes.    *)
LEMMA MarkStep == IInv /\ [Next]_vars => MarkInv'
<1> SUFFICES ASSUME IInv, [Next]_vars PROVE MarkInv'
  BY Zenon
<1>0. TypeOK /\ PoolInv /\ MarkInv /\ QueueInv /\ CallInv
  BY Zenon DEF IInv
<1>1. ASSUME NEW i \in Iter, NEW q \in Query, NEW l \in List, Open(i, q, l) PROVE MarkInv'
  <2>1. \A j \in open : vl[j] # l
    BY Zenon, <1>0, <1>1, FreshList DEF Open
  <2>2. /\ curV' \in [List -> Tag] /\ mass' \in [List -> [Node -> Tag]]
        /\ \A k \in List : k # l => curV'[k] = curV[k] /\ mass'[k] = mass[k]
        /\ \A n \in Node : mass'[l][n] < curV'[l]
    BY Zenon, <1>0, <1>1, ResetClears DEF Open, GetFreeVisitedList
  <2>3. \A k \in List, n \in Node : mass'[k][n] \in Int /\ curV'[k] \in Int
    BY <2>2, TagAssumption DEF Tag
  <2>4. \A k \in List, n \in Node : mass'[k][n] <= curV'[k]
    BY <1>0, <2>2, <2>3 DEF MarkInv
  <2>5. {n \in Node : mass'[l][n] = curV'[l]} = {}
    BY SMTT(40), <2>2, <2>3
  <2>6. /\ vl'[i] = l /\ popped'[i] = <<>>
        /\ \A j \in Iter : j # i => /\ vl'[j] = vl[j] /\ popped'[j] = popped[j]
                                    /\ candidate_set'[j] = candidate_set[j]
    BY Zenon, <1>0, <1>1 DEF Open, TypeOK
  <2>7. ASSUME NEW j \in open'
        PROVE  {m \in Node : mass'[vl'[j]][m] = curV'[vl'[j]]} =
                 IF popped'[j] = <<>> THEN {} ELSE candidate_set'[j] \union Range(popped'[j])
    <3>1. CASE j = i
      BY Zenon, <2>5, <2>6, <3>1
    <3>2. CASE j # i
      <4>1. j \in open /\ vl[j] \in List /\ vl[j] # l /\ vl'[j] = vl[j] /\ j \in Iter
        BY <1>0, <2>1, <2>6, <3>2 DEF open, TypeOK
      <4>2. {m \in Node : mass'[vl'[j]][m] = curV'[vl'[j]]} = Marked(vl[j])
        BY ZenonT(60), <2>2, <4>1 DEF Marked
      <4>3. QED
        BY Zenon, <1>0, <2>6, <3>2, <4>1, <4>2 DEF MarkInv, MarksAreVisited
    <3>3. QED
      BY Zenon, <3>1, <3>2
  <2>8. QED
    BY Zenon, <2>4, <2>7 DEF MarkInv, MarksAreVisited, Marked
<1>2. ASSUME NEW i \in Iter, Close(i) \/ Abort(i) PROVE MarkInv'
  <2>1. Dispose(i)
    BY Zenon, <1>2 DEF Close, Abort
  <2>2. /\ curV' = curV /\ mass' = mass
        /\ \A j \in open' : /\ j \in open /\ vl'[j] = vl[j] /\ popped'[j] = popped[j]
                            /\ candidate_set'[j] = candidate_set[j]
    BY Zenon, <1>0, <2>1 DEF Dispose, TypeOK, open
  <2>3. QED
    BY SMTT(40), <1>0, <2>2 DEF MarkInv, MarksAreVisited, Marked
<1>3. CASE UNCHANGED <<curV, mass, vl, candidate_set, popped>>
  BY Zenon, <1>0, <1>3 DEF MarkInv, MarksAreVisited, Marked, open
<1>4. ASSUME EnterBaseLayer PROVE MarkInv'
  <2>1. busy \in Iter /\ popped[busy] = <<>>
    BY Zenon, <1>0, <1>4 DEF EnterBaseLayer, Descending, TypeOK, QueueInv
  <2>2. /\ UNCHANGED <<curV, mass, vl, popped>>
        /\ \A j \in Iter : j # busy => candidate_set'[j] = candidate_set[j]
    BY Zenon, <1>0, <1>4 DEF EnterBaseLayer, TypeOK, poolVars, iterVars
  <2>3. QED
    BY ZenonT(60), <1>0, <2>1, <2>2 DEF MarkInv, MarksAreVisited, Marked, open
<1>5. ASSUME NEW n \in Node, Pop(n) PROVE MarkInv'
  BY Zenon, <1>5, PopMarks
<1>6. ASSUME \/ \E i \in Iter : NextEmpty(i) \/ NextCall(i)
             \/ Hop \/ NoResult \/ UNCHANGED vars
      PROVE  UNCHANGED <<curV, mass, vl, candidate_set, popped>>
  BY Zenon, <1>6 DEF NextEmpty, NextCall, Hop, NoResult, vars, poolVars, iterVars
<1>7. QED
  BY ZenonT(60), <1>1, <1>2, <1>3, <1>4, <1>5, <1>6 DEF Next, Call

(* No node is queued again once it is popped.                              *)
LEMMA PopQueue ==
  ASSUME IInv, NEW n \in Node, Pop(n)
  PROVE  QueueInv'
<1> DEFINE i == busy
           new == Unvisited(busy, n)
<1>0. TypeOK /\ MarkInv /\ QueueInv /\ CallInv
  BY Zenon DEF IInv
<1>1. /\ i \in Iter /\ i \in open /\ i \notin isFirst /\ n \in candidate_set[i]
      /\ graph.links[0][n] \subseteq Node /\ n \in graph.nodes
  BY Zenon, <1>0, PopFacts
<1>2. /\ candidate_set'[i] = (candidate_set[i] \ {n}) \union new
      /\ popped'[i] = Append(popped[i], n)
      /\ emitted'[i] = emitted[i] \/ emitted'[i] = Append(emitted[i], n)
      /\ \A j \in Iter : j # i => /\ candidate_set'[j] = candidate_set[j] /\ popped'[j] = popped[j]
                                  /\ emitted'[j] = emitted[j]
      /\ isFirst' = isFirst /\ ended' = ended
  BY Zenon, <1>0, <1>1 DEF Pop, TypeOK
<1>3. /\ Range(popped'[i]) = Range(popped[i]) \union {n} /\ popped'[i] # <<>>
      /\ Range(emitted'[i]) \subseteq Range(emitted[i]) \union {n}
  <2>1. popped[i] \in Seq(graph.nodes) /\ emitted[i] \in Seq(graph.nodes)
    BY ZenonT(60), <1>0, <1>1 DEF TypeOK
  <2>2. /\ Range(Append(popped[i], n)) = Range(popped[i]) \union {n}
        /\ Range(Append(emitted[i], n)) = Range(emitted[i]) \union {n}
    BY <1>1, <2>1, RangeOfAppend
  <2>3. Append(popped[i], n) # <<>>
    BY <1>1, <2>1
  <2>4. QED
    BY ZenonT(60), <1>2, <2>2, <2>3
<1>4. new \intersect (Range(popped[i]) \union {n}) = {}
  <2>1. Range(popped[i]) \subseteq Marked(vl[i])
    BY ZenonT(60), <1>0, <1>1, RangeOfEmpty DEF MarkInv, MarksAreVisited
  <2>2. new \intersect Marked(vl[i]) = {} /\ n \notin new
    BY Zenon DEF Unvisited, Marked
  <2>3. QED
    BY Zenon, <2>1, <2>2
<1>5. i \notin ended
  BY Zenon, <1>0, <1>1 DEF QueueInv
<1>6. candidate_set'[i] \intersect Range(popped'[i]) = {}
  BY Zenon, <1>0, <1>1, <1>2, <1>3, <1>4 DEF QueueInv
<1>7. Range(emitted'[i]) \subseteq Range(popped'[i])
  BY Zenon, <1>0, <1>1, <1>3 DEF QueueInv
<1> HIDE DEF new
<1> DEFINE P(j) == /\ candidate_set'[j] \intersect Range(popped'[j]) = {}
                   /\ Range(emitted'[j]) \subseteq Range(popped'[j])
                   /\ popped'[j] = <<>> => \A a, b \in candidate_set'[j] : a = b
                   /\ j \in isFirst' => popped'[j] = <<>> /\ candidate_set'[j] = {}
                   /\ j \in ended' => candidate_set'[j] = {} /\ j \notin isFirst'
<1>8. P(i)
  BY Zenon, <1>1, <1>2, <1>3, <1>5, <1>6, <1>7
<1>9. ASSUME NEW j \in Iter, j # i PROVE P(j)
  <2>1. /\ candidate_set'[j] = candidate_set[j] /\ popped'[j] = popped[j]
        /\ emitted'[j] = emitted[j] /\ isFirst' = isFirst /\ ended' = ended
    BY Zenon, <1>2, <1>9
  <2>2. QED
    BY Zenon, <1>0, <2>1 DEF QueueInv
<1>10. QED
  BY <1>8, <1>9, Zenon DEF QueueInv

(* Queued and popped stay apart in every step.                             *)
LEMMA QueueStep == IInv /\ [Next]_vars => QueueInv'
<1> SUFFICES ASSUME IInv, [Next]_vars PROVE QueueInv'
  BY Zenon
<1>0. TypeOK /\ QueueInv /\ CallInv
  BY Zenon DEF IInv
<1>1. ASSUME NEW i \in Iter,
             \/ \E q \in Query, l \in List : Open(i, q, l)
             \/ Close(i) \/ Abort(i)
      PROVE  QueueInv'
  <2>1. /\ candidate_set' = [candidate_set EXCEPT ![i] = {}]
        /\ popped' = [popped EXCEPT ![i] = <<>>]
        /\ emitted' = [emitted EXCEPT ![i] = <<>>]
        /\ isFirst' \in {isFirst \union {i}, isFirst \ {i}}
        /\ ended' = ended \ {i}
    <3>1. CASE \E q \in Query, l \in List : Open(i, q, l)
      BY Zenon, <3>1 DEF Open
    <3>2. CASE Close(i) \/ Abort(i)
      <4>1. Dispose(i)
        BY Zenon, <3>2 DEF Close, Abort
      <4>2. QED
        BY Zenon, <4>1 DEF Dispose
    <3>3. QED
      BY Zenon, <1>1, <3>1, <3>2
  <2>2. /\ candidate_set'[i] = {} /\ popped'[i] = <<>> /\ emitted'[i] = <<>>
        /\ \A j \in Iter : j # i => /\ candidate_set'[j] = candidate_set[j] /\ popped'[j] = popped[j]
                                    /\ emitted'[j] = emitted[j]
    BY Zenon, <1>0, <2>1 DEF TypeOK
  <2>3. /\ i \notin ended'
        /\ \A j \in Iter : j # i => (j \in isFirst' <=> j \in isFirst) /\ (j \in ended' <=> j \in ended)
    BY Zenon, <2>1
  <2>4. QED
    BY SMTT(40), <1>0, <2>2, <2>3, RangeOfEmpty DEF QueueInv
<1>2. ASSUME NEW i \in Iter, NextEmpty(i) PROVE QueueInv'
  <2>1. candidate_set[i] = {}
    BY Zenon, <1>0, <1>2 DEF NextEmpty, TypeOK
  <2>2. /\ UNCHANGED <<candidate_set, popped, emitted>>
        /\ isFirst' = isFirst \ {i} /\ ended' = ended \union {i}
    BY Zenon, <1>2 DEF NextEmpty
  <2>3. QED
    BY ZenonT(60), <1>0, <2>1, <2>2 DEF QueueInv
<1>3. ASSUME EnterBaseLayer PROVE QueueInv'
  <2>1. /\ busy \in Iter /\ busy \in isFirst /\ busy \notin ended
        /\ popped[busy] = <<>> /\ candidate_set[busy] = {} /\ Range(popped[busy]) = {}
    BY Zenon, <1>0, <1>3, RangeOfEmpty DEF EnterBaseLayer, Descending, TypeOK, QueueInv
  <2>2. /\ candidate_set'[busy] = {currObj} /\ UNCHANGED <<popped, emitted, ended>>
        /\ isFirst' = isFirst \ {busy}
        /\ \A j \in Iter : j # busy => candidate_set'[j] = candidate_set[j]
    BY Zenon, <1>0, <1>3, <2>1 DEF EnterBaseLayer, TypeOK
  <2>3. QED
    BY SMTT(40), <1>0, <2>1, <2>2 DEF QueueInv
<1>4. ASSUME NEW n \in Node, Pop(n) PROVE QueueInv'
  BY Zenon, <1>4, PopQueue
<1>5. ASSUME NoResult PROVE QueueInv'
  <2>1. /\ candidate_set[busy] = {} /\ busy \notin isFirst /\ ended' = ended \union {busy}
        /\ UNCHANGED <<candidate_set, popped, emitted, isFirst>>
    BY Zenon, <1>5 DEF NoResult, Searching
  <2>2. QED
    BY Zenon, <1>0, <2>1 DEF QueueInv
<1>6. ASSUME (\E i \in Iter : NextCall(i)) \/ Hop \/ UNCHANGED vars PROVE QueueInv'
  <2>1. UNCHANGED <<candidate_set, popped, emitted, isFirst, ended>>
    BY Zenon, <1>6 DEF NextCall, Hop, vars
  <2>2. QED
    BY Zenon, <1>0, <2>1 DEF QueueInv
<1>7. QED
  BY Zenon, <1>1, <1>2, <1>3, <1>4, <1>5, <1>6 DEF Next, Call

(* A call runs on an open iterator; its descent stays inside the graph.    *)
LEMMA CallStep == IInv /\ [Next]_vars => CallInv'
<1> SUFFICES ASSUME IInv, [Next]_vars PROVE CallInv'
  BY Zenon
<1>0. TypeOK /\ CallInv
  BY Zenon DEF IInv
<1>1. ASSUME NEW i \in Iter,
             \/ \E q \in Query, l \in List : Open(i, q, l)
             \/ Close(i) \/ Abort(i) \/ NextEmpty(i)
      PROVE  CallInv'
  <2>1. busy' = NoIter
    BY Zenon, <1>1 DEF Open, Close, Abort, Dispose, NextEmpty, callVars
  <2>2. QED
    BY Zenon, <2>1 DEF CallInv, Descending
<1>2. ASSUME NEW i \in Iter, NextCall(i) PROVE CallInv'
  <2>1. /\ busy' = i /\ i \in open /\ UNCHANGED <<graph, vl, isFirst>>
        /\ i \in isFirst => currObj' = graph.entry /\ level' = graph.maxlevel
    BY Zenon, <1>2 DEF NextCall, iterVars
  <2>2. graph.entry \in graph.nodes /\ graph.maxlevel \in 0..graph.maxlevel
    BY <1>0, <1>2, LoadedGraphOK DEF NextCall, GraphOK
  <2>3. QED
    BY Zenon, <2>1, <2>2 DEF CallInv, Descending, open
<1>3. ASSUME Hop PROVE CallInv'
  <2>1. UNCHANGED <<graph, vl, busy>>
    BY Zenon, <1>3 DEF Hop, iterVars
  <2>2. QED
    BY Zenon, <1>0, <1>3, <2>1, HopFacts DEF CallInv, open
<1>4. ASSUME EnterBaseLayer PROVE CallInv'
  <2>1. UNCHANGED <<vl, busy>> /\ isFirst' = isFirst \ {busy}
    BY Zenon, <1>4 DEF EnterBaseLayer, iterVars
  <2>2. QED
    BY Zenon, <1>0, <2>1 DEF CallInv, Descending, open
<1>5. ASSUME NEW n \in Node, Pop(n) PROVE CallInv'
  <2>1. UNCHANGED <<vl, isFirst>> /\ busy \notin isFirst /\ busy' \in {busy, NoIter}
    BY Zenon, <1>5 DEF Pop, Searching, iterVars
  <2>2. QED
    BY Zenon, <1>0, <2>1 DEF CallInv, Descending, open
<1>6. ASSUME NoResult PROVE CallInv'
  BY Zenon, <1>6 DEF NoResult, CallInv, Descending
<1>7. ASSUME UNCHANGED vars PROVE CallInv'
  BY Zenon, <1>0, <1>7 DEF vars, iterVars, callVars, CallInv, Descending, open
<1>8. QED
  BY Zenon, <1>1, <1>2, <1>3, <1>4, <1>5, <1>6, <1>7 DEF Next, Call

(* The invariant holds of the index as it is loaded.                       *)
LEMMA InvInit == Init => IInv
<1> SUFFICES ASSUME Init PROVE IInv
  BY Zenon
<1>1. TypeOK
  BY Zenon, TypeInit
<1>2. open = {} /\ busy = NoIter
  BY Zenon DEF Init, open
<1>3. PoolInv
  <2>1. Range(pool) = {1} /\ IsInjective(pool) /\ made = 1
    BY DEF Init, Range, IsInjective
  <2>2. QED
    BY <1>2, <2>1 DEF PoolInv, Isolation
<1>4. MarkInv
  <2>1. \A l \in List, n \in Node : mass[l][n] \in 0..MaxTag /\ curV[l] = MaxTag
    BY Zenon, <1>1 DEF Init, TypeOK, Tag
  <2>2. \A l \in List, n \in Node : mass[l][n] <= curV[l]
    BY <2>1, TagAssumption
  <2>3. QED
    BY Zenon, <1>2, <2>2 DEF MarkInv, MarksAreVisited
<1>5. QueueInv
  BY Zenon, RangeOfEmpty DEF Init, QueueInv
<1>6. CallInv
  BY Zenon, <1>2 DEF CallInv, Descending
<1>7. QED
  BY Zenon, <1>1, <1>3, <1>4, <1>5, <1>6 DEF IInv
-----------------------------------------------------------------------------
(* The inductive invariant holds in every reachable state.                 *)
THEOREM Invariance == Spec => []IInv
<1>1. IInv /\ [Next]_vars => IInv'
  BY Zenon, TypeStep, PoolStep, MarkStep, QueueStep, CallStep DEF IInv
<1>2. QED
  BY InvInit, <1>1, PTL DEF Spec

(* The fields of the pool, the work spaces and the iterators keep their    *)
(* types, so no call searches from an element that is not in the index.    *)
THEOREM TypeCorrect == Spec => []TypeOK
<1>1. IInv => TypeOK
  BY Zenon DEF IInv
<1>2. QED
  BY Invariance, <1>1, PTL

(* However iterators are opened, closed and abandoned, getFreeVisitedList  *)
(* and releaseVisitedList never let two of them have the same list.        *)
THEOREM ListsIsolated == Spec => []Isolation
<1>1. IInv => Isolation
  BY Zenon DEF IInv, PoolInv
<1>2. QED
  BY Invariance, <1>1, PTL

(* At any width of the tag, and whatever a list's memory held, the marks   *)
(* of an open iterator's list are what it has queued or popped.            *)
THEOREM MarksExact == Spec => []MarksAreVisited
<1>1. IInv => MarksAreVisited
  BY Zenon DEF IInv, MarkInv
<1>2. QED
  BY Invariance, <1>1, PTL

(* Each step of the pool and its iterators is a step of one stream, or     *)
(* changes nothing that a scan sees.                                       *)
LEMMA StreamStep == IInv /\ [Next]_vars => [RS!Next]_(RS!vars)
<1> SUFFICES ASSUME IInv, [Next]_vars PROVE RS!Next \/ UNCHANGED RS!vars
  BY Zenon
<1>0. TypeOK /\ PoolInv /\ QueueInv /\ CallInv
  BY Zenon DEF IInv
<1>1. ASSUME NEW i \in Iter, NEW q \in Query, NEW l \in List, Open(i, q, l) PROVE RS!Open(i)
  <2>1. status[i] = "closed" /\ emitted' = [emitted EXCEPT ![i] = <<>>]
    BY Zenon, <1>1 DEF Open, status
  <2>2. open' = open \union {i} /\ ended' = ended \ {i}
    BY <1>0, <1>1 DEF Open, TypeOK, open, List, Null
  <2>3. status' = [status EXCEPT ![i] = "open"]
    BY Zenon, <2>2 DEF status
  <2>4. QED
    BY Zenon, <2>1, <2>3 DEF RS!Open
<1>2. ASSUME NEW i \in Iter, Close(i) \/ Abort(i) PROVE RS!Close(i)
  <2>1. Dispose(i)
    BY Zenon, <1>2 DEF Close, Abort
  <2>2. status[i] # "closed" /\ emitted' = [emitted EXCEPT ![i] = <<>>]
    BY Zenon, <2>1 DEF Dispose, status
  <2>3. open' = open \ {i} /\ ended' = ended \ {i}
    BY Zenon, <1>0, <2>1 DEF Dispose, TypeOK, open
  <2>4. status' = [status EXCEPT ![i] = "closed"]
    BY Zenon, <2>3 DEF status
  <2>5. QED
    BY Zenon, <2>2, <2>4 DEF RS!Close
<1>3. ASSUME NEW i \in open, ended' = ended \union {i}, UNCHANGED <<vl, emitted>>
      PROVE  RS!End(i) \/ UNCHANGED RS!vars
  <2>1. open' = open /\ i \in Iter
    BY Zenon, <1>3 DEF open
  <2>2. CASE i \in ended
    <3>1. ended' = ended
      BY Zenon, <1>3, <2>2
    <3>2. QED
      BY Zenon, <1>3, <2>1, <3>1 DEF RS!vars, status
  <2>3. CASE i \notin ended
    <3>1. status[i] = "open"
      BY Zenon, <2>1, <2>3 DEF status
    <3>2. status' = [status EXCEPT ![i] = "ended"]
      BY ZenonT(60), <1>3, <2>1 DEF status
    <3>3. QED
      BY Zenon, <1>3, <3>1, <3>2 DEF RS!End
  <2>4. QED
    BY Zenon, <2>2, <2>3
<1>4. ASSUME UNCHANGED <<vl, ended, emitted>> PROVE UNCHANGED RS!vars
  BY Zenon, <1>4 DEF RS!vars, status, open
<1>5. ASSUME NEW n \in Node, Pop(n) PROVE RS!Deliver(busy, n) \/ UNCHANGED RS!vars
  <2>1. busy \in Iter /\ busy \in open /\ n \in candidate_set[busy]
    BY Zenon, <1>0, <1>5, PopFacts
  <2>2. UNCHANGED <<vl, ended>>
    BY Zenon, <1>5 DEF Pop, iterVars
  <2>3. CASE n \in graph.deleted
    BY Zenon, <1>4, <1>5, <2>2, <2>3 DEF Pop
  <2>4. CASE n \notin graph.deleted
    <3>1. emitted' = [emitted EXCEPT ![busy] = Append(emitted[busy], n)]
      BY Zenon, <1>5, <2>4 DEF Pop
    <3>2. status[busy] = "open" /\ n \notin Range(emitted[busy])
      <4>1. busy \notin ended /\ n \notin Range(emitted[busy])
        BY Zenon, <1>0, <2>1 DEF QueueInv
      <4>2. QED
        BY Zenon, <2>1, <4>1 DEF status
    <3>3. status' = status
      BY Zenon, <2>2 DEF status, open
    <3>4. QED
      BY Zenon, <3>1, <3>2, <3>3 DEF RS!Deliver, RS!Range, Range
  <2>5. QED
    BY Zenon, <2>3, <2>4
<1>6. ASSUME NEW i \in Iter, NextEmpty(i) PROVE RS!End(i) \/ UNCHANGED RS!vars
  BY Zenon, <1>3, <1>6 DEF NextEmpty, iterVars
<1>7. ASSUME NoResult PROVE busy \in Iter /\ (RS!End(busy) \/ UNCHANGED RS!vars)
  <2>1. busy \in Iter /\ busy \in open
    BY Zenon, <1>0, <1>7 DEF NoResult, Searching, CallInv, open
  <2>2. QED
    BY Zenon, <1>3, <1>7, <2>1 DEF NoResult, iterVars
<1>8. ASSUME (\E i \in Iter : NextCall(i)) \/ Hop \/ EnterBaseLayer \/ UNCHANGED vars
      PROVE  UNCHANGED <<vl, ended, emitted>>
  BY Zenon, <1>8 DEF NextCall, Hop, EnterBaseLayer, vars, iterVars
<1>9. \A n \in Node : Pop(n) => busy \in Iter
  BY Zenon, <1>0, PopFacts
<1>10. QED
  BY ZenonT(60), <1>1, <1>2, <1>4, <1>5, <1>6, <1>7, <1>8, <1>9 DEF Next, Call, RS!Next

(* The iterators of a backend implement the streams of ResultStream: for   *)
(* every graph, a scan gets no row twice and none after the end.           *)
THEOREM Refinement == Spec => ImplementsStream
<1>1. Init => RS!Init
  BY Zenon DEF Init, RS!Init, status, open
<1>2. QED
  BY <1>1, Invariance, StreamStep, PTL DEF Spec, ImplementsStream, RS!Spec
-----------------------------------------------------------------------------
(* The search.  The invariant speaks of one iterator at a time: q is its   *)
(* query, p the nodes it has popped and C its candidate set.  Everything   *)
(* linked from a popped node is popped or queued (Shown), nothing else     *)
(* ever was (Needed), a queued node is no nearer than those popped since   *)
(* it was linked (Late), and the search began in a local minimum           *)
(* (Started).                                                              *)
Linked(n) == graph.links[0][n]

Shown(p, C) == \A n \in Range(p) : Linked(n) \subseteq Range(p) \union C

Closed(S) == \A n \in S : Linked(n) \subseteq S

Needed(p, C) ==
  p # <<>> => \A S \in SUBSET graph.nodes : p[1] \in S /\ Closed(S) => Range(p) \union C \subseteq S

Late(q, p, C) ==
  \A a \in 1..Len(p) : \A c \in 1..(a - 1) :
    /\ \A m \in C : m \in Linked(p[c]) => Dist[q][p[a]] <= Dist[q][m]
    /\ \A b \in (a + 1)..Len(p) : p[b] \in Linked(p[c]) => Dist[q][p[a]] <= Dist[q][p[b]]

(* No farther than where the descent began, and no neighbour of level 1 is *)
(* nearer.                                                                 *)
LocalMinimum(q, s) == graph.maxlevel > 0 => \A n \in graph.links[1][s] : Dist[q][s] <= Dist[q][n]
Start(q, s) == Dist[q][s] <= Dist[q][graph.entry] /\ LocalMinimum(q, s)

Started(q, p, C) ==
  /\ p # <<>> => Start(q, p[1])
  /\ p = <<>> => \A s \in C : Start(q, s)

Search(q, p, C) ==
  q \in Query /\ Shown(p, C) /\ Needed(p, C) /\ Late(q, p, C) /\ Started(q, p, C)

(* An iterator that searches has popped or queued something, unless the    *)
(* index is empty.                                                         *)
SearchInv ==
  \A i \in open :
    /\ graph.nodes # {} /\ i \notin isFirst => popped[i] # <<>> \/ candidate_set[i] # {}
    /\ Search(query[i], popped[i], candidate_set[i])

(* The descent never moves away from the query, and leaves level 1 in a    *)
(* local minimum of it.                                                    *)
DescentInv ==
  Descending =>
    /\ Dist[query[busy]][currObj] <= Dist[query[busy]][graph.entry]
    /\ level = 0 => LocalMinimum(query[busy], currObj)

EndedInv == ended \subseteq open

SInv == SearchInv /\ DescentInv /\ EndedInv
-----------------------------------------------------------------------------
LEMMA DistanceType ==
  ASSUME TypeOK
  PROVE  /\ \A q \in Query, n \in graph.nodes : Dist[q][n] \in Int
         /\ 0 \in 0..graph.maxlevel
         /\ \A n \in graph.nodes : Linked(n) \subseteq graph.nodes
<1>1. graph.nodes \subseteq Node /\ graph.maxlevel \in Nat
  BY Zenon, LoadedGraphOK DEF GraphOK
<1>2. 0 \in 0..graph.maxlevel
  BY <1>1
<1>3. QED
  BY Zenon, <1>1, <1>2, DistAssumption, LinksAreNodes DEF Linked

(* Popping a nearest candidate and queueing what it shows keeps what is    *)
(* known of a search.                                                      *)
LEMMA PopSearch ==
  ASSUME TypeOK, NEW q, NEW p \in Seq(graph.nodes), NEW C \in SUBSET graph.nodes, NEW n \in C,
         Search(q, p, C), \A m \in C : Dist[q][n] <= Dist[q][m],
         p = <<>> => C = {n}
  PROVE  Search(q, Append(p, n), (C \ {n}) \union (Linked(n) \ (C \union Range(p))))
<1> DEFINE r == Append(p, n)
           new == Linked(n) \ (C \union Range(p))
           D == (C \ {n}) \union new
<1>1. q \in Query /\ Shown(p, C) /\ Needed(p, C) /\ Late(q, p, C) /\ Started(q, p, C)
  BY Zenon DEF Search
<1>2. /\ Len(p) \in Nat /\ Len(r) = Len(p) + 1 /\ r # <<>> /\ r[Len(p) + 1] = n
      /\ \A k \in 1..Len(p) : r[k] = p[k] /\ p[k] \in graph.nodes
      /\ Range(r) = Range(p) \union {n}
  <2>1. Range(r) = Range(p) \union {n}
    BY RangeOfAppend
  <2>2. QED
    BY <2>1
<1>3. \A k \in 1..Len(p) : p[k] \in Range(p)
  BY DEF Range
<1>4. Range(r) \union D = Range(p) \union C \union Linked(n)
  BY Zenon, <1>2
<1>5. \A m \in D : (m \in C /\ m # n) \/ m \notin C \union Range(p)
  BY Zenon
<1> HIDE DEF r, new, D
<1>6. Shown(r, D)
  BY Zenon, <1>1, <1>2, <1>4 DEF Shown
<1>7. Needed(r, D)
  <2> SUFFICES ASSUME NEW S \in SUBSET graph.nodes, r[1] \in S, Closed(S)
               PROVE  Range(r) \union D \subseteq S
    BY Zenon DEF Needed
  <2>1. CASE p = <<>>
    <3>1. r[1] = n /\ Range(p) = {}
      BY <1>2, <2>1, RangeOfEmpty
    <3>2. QED
      BY ZenonT(60), <1>4, <2>1, <3>1 DEF Closed
  <2>2. CASE p # <<>>
    <3>1. r[1] = p[1]
      BY <1>2, <2>2
    <3>2. Range(p) \union C \subseteq S
      BY Zenon, <1>1, <2>2, <3>1 DEF Needed
    <3>3. QED
      BY Zenon, <1>4, <3>2 DEF Closed
  <2>3. QED
    BY ZenonT(60), <2>1, <2>2
<1>8. Late(q, r, D)
  <2> SUFFICES ASSUME NEW a \in 1..Len(r), NEW c \in 1..(a - 1)
               PROVE  /\ \A m \in D : m \in Linked(r[c]) => Dist[q][r[a]] <= Dist[q][m]
                      /\ \A b \in (a + 1)..Len(r) :
                           r[b] \in Linked(r[c]) => Dist[q][r[a]] <= Dist[q][r[b]]
    BY Zenon DEF Late
  <2>1. c \in 1..Len(p) /\ r[c] = p[c] /\ p[c] \in Range(p)
    BY <1>2, <1>3
  <2>2. \A m \in D : m \in Linked(r[c]) => m \in C
    BY Zenon, <1>1, <1>5, <2>1 DEF Shown
  <2>3. CASE a = Len(p) + 1
    BY <1>2, <2>2, <2>3
  <2>4. CASE a # Len(p) + 1
    <3>1. a \in 1..Len(p) /\ r[a] = p[a]
      BY <1>2, <2>4
    <3>2. \A m \in D : m \in Linked(r[c]) => Dist[q][r[a]] <= Dist[q][m]
      BY Zenon, <1>1, <2>1, <2>2, <3>1 DEF Late
    <3>3. ASSUME NEW b \in (a + 1)..Len(r), r[b] \in Linked(r[c])
          PROVE  Dist[q][r[a]] <= Dist[q][r[b]]
      <4>1. CASE b = Len(p) + 1
        BY Zenon, <1>1, <1>2, <2>1, <3>1, <3>3, <4>1 DEF Late
      <4>2. CASE b # Len(p) + 1
        <5>1. b \in (a + 1)..Len(p) /\ r[b] = p[b]
          BY <1>2, <3>1, <4>2
        <5>2. QED
          BY Zenon, <1>1, <2>1, <3>1, <3>3, <5>1 DEF Late
      <4>3. QED
        BY Zenon, <4>1, <4>2
    <3>4. QED
      BY Zenon, <3>2, <3>3
  <2>5. QED
    BY Zenon, <2>3, <2>4
<1>9. Started(q, r, D)
  <2>1. CASE p = <<>>
    <3>1. r[1] = n
      BY <1>2, <2>1
    <3>2. QED
      BY Zenon, <1>1, <1>2, <2>1, <3>1 DEF Started
  <2>2. CASE p # <<>>
    <3>1. r[1] = p[1]
      BY <1>2, <2>2
    <3>2. QED
      BY Zenon, <1>1, <1>2, <2>2, <3>1 DEF Started
  <2>3. QED
    BY Zenon, <2>1, <2>2
<1>10. Search(q, r, D)
  BY Zenon, <1>1, <1>6, <1>7, <1>8, <1>9 DEF Search
<1>11. QED
  BY ZenonT(60), <1>10 DEF r, new, D
-----------------------------------------------------------------------------
(* An iterator that a step does not touch.                                 *)
LEMMA SearchKept ==
  ASSUME graph' = graph, NEW i,
         query'[i] = query[i], popped'[i] = popped[i], candidate_set'[i] = candidate_set[i],
         Search(query[i], popped[i], candidate_set[i])
  PROVE  Search(query[i], popped[i], candidate_set[i])'
BY Zenon DEF Search, Shown, Closed, Needed, Late, Started, Start, LocalMinimum, Linked

(* A search at its beginning knows nothing.                                *)
LEMMA SearchEmpty ==
  ASSUME NEW q \in Query, NEW C, \A s \in C : Start(q, s)
  PROVE  Search(q, <<>>, C)
<1>1. Range(<<>>) = {} /\ Len(<<>>) = 0
  BY Zenon, RangeOfEmpty
<1>2. QED
  BY <1>1 DEF Search, Shown, Needed, Late, Started

LEMMA SearchEnter ==
  ASSUME IInv, SInv, EnterBaseLayer
  PROVE  SearchInv'
<1>0. TypeOK /\ QueueInv /\ CallInv /\ SearchInv /\ DescentInv
  BY Zenon DEF IInv, SInv
<1>1. /\ busy \in Iter /\ busy \in open /\ busy \in isFirst /\ level = 0 /\ Descending
      /\ popped[busy] = <<>> /\ candidate_set[busy] = {}
  BY Zenon, <1>0 DEF EnterBaseLayer, Descending, CallInv, TypeOK, QueueInv
<1>2. /\ UNCHANGED <<graph, query, vl, popped>> /\ isFirst' = isFirst \ {busy}
      /\ candidate_set'[busy] = {currObj}
      /\ \A j \in Iter : j # busy => candidate_set'[j] = candidate_set[j]
  BY Zenon, <1>0, <1>1 DEF EnterBaseLayer, TypeOK, iterVars
<1>3. query[busy] \in Query /\ Start(query[busy], currObj)
  BY Zenon, <1>0, <1>1 DEF SearchInv, Search, DescentInv, Start
<1>4. Search(query[busy], <<>>, {currObj})
  BY Zenon, <1>3, SearchEmpty
<1>5. ASSUME NEW i \in open'
      PROVE  /\ graph.nodes # {} /\ i \notin isFirst' => popped'[i] # <<>> \/ candidate_set'[i] # {}
             /\ Search(query[i], popped[i], candidate_set[i])'
  <2>1. i \in open /\ i \in Iter
    BY Zenon, <1>2 DEF open
  <2>2. CASE i = busy
    <3>1. query'[i] = query[i] /\ popped'[i] = <<>> /\ candidate_set'[i] = {currObj} /\ graph' = graph
      BY ZenonT(60), <1>1, <1>2, <2>2
    <3>2. Search(query[i], popped[i], candidate_set[i])'
      BY <1>4, <2>2, <3>1
         DEF Search, Shown, Closed, Needed, Late, Started, Start, LocalMinimum, Linked
    <3>3. QED
      BY Zenon, <3>1, <3>2
  <2>3. CASE i # busy
    <3>1. /\ query'[i] = query[i] /\ popped'[i] = popped[i] /\ graph' = graph
          /\ candidate_set'[i] = candidate_set[i] /\ (i \in isFirst' <=> i \in isFirst)
      BY Zenon, <1>2, <2>1, <2>3
    <3>2. Search(query[i], popped[i], candidate_set[i])
      BY Zenon, <1>0, <2>1 DEF SearchInv
    <3>3. Search(query[i], popped[i], candidate_set[i])'
      BY Zenon, <3>1, <3>2, SearchKept
    <3>4. QED
      BY Zenon, <1>0, <2>1, <3>1, <3>3 DEF SearchInv
  <2>4. QED
    BY Zenon, <2>2, <2>3
<1>6. QED
  BY Zenon, <1>2, <1>5 DEF SearchInv

LEMMA SearchPop ==
  ASSUME IInv, SInv, NEW n \in Node, Pop(n)
  PROVE  SearchInv'
<1> DEFINE q == query[busy]
           p == popped[busy]
           C == candidate_set[busy]
           D == (C \ {n}) \union (Linked(n) \ (C \union Range(p)))
<1>0. TypeOK /\ QueueInv /\ CallInv /\ MarkInv /\ SearchInv
  BY Zenon DEF IInv, SInv
<1>1. /\ busy \in Iter /\ busy \in open /\ busy \notin isFirst /\ n \in C /\ n \in graph.nodes
      /\ Linked(n) \subseteq Node
  BY Zenon, <1>0, PopFacts DEF Linked
<1>2. p \in Seq(graph.nodes) /\ C \in SUBSET graph.nodes /\ Search(q, p, C)
  BY Zenon, <1>0, <1>1 DEF TypeOK, SearchInv
<1>3. \A m \in C : Dist[q][n] <= Dist[q][m]
  BY Zenon DEF Pop, Top, Nearest, d
<1>4. p = <<>> => C = {n}
  BY <1>0, <1>1 DEF QueueInv
<1>5. Unvisited(busy, n) = Linked(n) \ (C \union Range(p))
  <2>1. Unvisited(busy, n) = Linked(n) \ ({n} \union Marked(vl[busy]))
    BY Zenon, <1>1 DEF Unvisited, Marked, Linked
  <2>2. {n} \union Marked(vl[busy]) = C \union Range(p)
    <3>1. CASE p = <<>>
      BY Zenon, <1>0, <1>1, <1>4, <3>1, RangeOfEmpty DEF MarkInv, MarksAreVisited
    <3>2. CASE p # <<>>
      BY Zenon, <1>0, <1>1, <3>2 DEF MarkInv, MarksAreVisited
    <3>3. QED
      BY Zenon, <3>1, <3>2
  <2>3. QED
    BY Zenon, <2>1, <2>2
<1>6. /\ UNCHANGED <<graph, query, vl, isFirst>>
      /\ popped'[busy] = Append(p, n) /\ candidate_set'[busy] = D
      /\ \A j \in Iter : j # busy => popped'[j] = popped[j] /\ candidate_set'[j] = candidate_set[j]
  BY Zenon, <1>0, <1>1, <1>5 DEF Pop, TypeOK, iterVars
<1>7. Search(q, Append(p, n), D)
  BY ZenonT(60), <1>0, <1>1, <1>2, <1>3, <1>4, PopSearch
<1>8. Append(p, n) # <<>>
  BY <1>1, <1>2
<1>9. ASSUME NEW i \in open'
      PROVE  /\ graph.nodes # {} /\ i \notin isFirst' => popped'[i] # <<>> \/ candidate_set'[i] # {}
             /\ Search(query[i], popped[i], candidate_set[i])'
  <2>1. i \in open /\ i \in Iter
    BY Zenon, <1>6 DEF open
  <2>2. CASE i = busy
    <3>1. /\ query'[i] = q /\ popped'[i] = Append(p, n) /\ candidate_set'[i] = D
          /\ graph' = graph
      BY Zenon, <1>6, <2>2
    <3> DEFINE r == Append(p, n)
    <3>2. Search(q, r, D)
      BY Zenon, <1>7
    <3> HIDE DEF q, p, C, D, r
    <3>3. Search(query[i], popped[i], candidate_set[i])'
      BY Zenon, <3>1, <3>2
         DEF Search, Shown, Closed, Needed, Late, Started, Start, LocalMinimum, Linked, r
    <3>4. QED
      BY Zenon, <1>8, <3>1, <3>3
  <2>3. CASE i # busy
    <3>1. /\ query'[i] = query[i] /\ popped'[i] = popped[i] /\ graph' = graph
          /\ candidate_set'[i] = candidate_set[i] /\ (i \in isFirst' <=> i \in isFirst)
      BY ZenonT(60), <1>6, <2>1, <2>3
    <3>2. Search(query[i], popped[i], candidate_set[i])
      BY Zenon, <1>0, <2>1 DEF SearchInv
    <3>3. Search(query[i], popped[i], candidate_set[i])'
      BY Zenon, <3>1, <3>2, SearchKept
    <3>4. QED
      BY Zenon, <1>0, <2>1, <3>1, <3>3 DEF SearchInv
  <2>4. QED
    BY Zenon, <2>2, <2>3
<1>10. QED
  BY Zenon, <1>6, <1>9 DEF SearchInv

(* Every step keeps what is known of the searches.                         *)
LEMMA SearchStep == IInv /\ SInv /\ [Next]_vars => SearchInv'
<1> SUFFICES ASSUME IInv, SInv, [Next]_vars PROVE SearchInv'
  BY Zenon
<1>0. TypeOK /\ SearchInv /\ QueueInv
  BY Zenon DEF IInv, SInv
<1>1. ASSUME NEW j \in Iter,
             \/ \E q \in Query, l \in List : Open(j, q, l)
             \/ Close(j) \/ Abort(j)
      PROVE  SearchInv'
  <2>1. /\ graph' = graph
        /\ \A i \in Iter : i # j =>
             /\ query'[i] = query[i] /\ popped'[i] = popped[i]
             /\ candidate_set'[i] = candidate_set[i] /\ vl'[i] = vl[i]
             /\ i \in isFirst' <=> i \in isFirst
    BY ZenonT(60), <1>0, <1>1 DEF Open, Close, Abort, Dispose, TypeOK
  <2>2. ASSUME j \in open'
        PROVE  j \in isFirst' /\ Search(query[j], popped[j], candidate_set[j])'
    <3>1. ~(Close(j) \/ Abort(j))
      BY ZenonT(60), <1>0, <2>2 DEF Close, Abort, Dispose, open, TypeOK
    <3>2. PICK q \in Query, l \in List : Open(j, q, l)
      BY Zenon, <1>1, <3>1
    <3>3. query'[j] = q /\ popped'[j] = <<>> /\ candidate_set'[j] = {} /\ j \in isFirst'
      BY Zenon, <1>0, <3>2 DEF Open, TypeOK
    <3>4. Search(q, <<>>, {})
      BY Zenon, SearchEmpty
    <3>5. Search(query[j], popped[j], candidate_set[j])'
      BY ZenonT(60), <2>1, <3>3, <3>4
         DEF Search, Shown, Closed, Needed, Late, Started, Start, LocalMinimum, Linked
    <3>6. QED
      BY Zenon, <3>3, <3>5
  <2>3. ASSUME NEW i \in open', i # j
        PROVE  /\ graph.nodes # {} /\ i \notin isFirst' => popped'[i] # <<>> \/ candidate_set'[i] # {}
               /\ Search(query[i], popped[i], candidate_set[i])'
    <3>1. i \in open /\ i \in Iter
      BY Zenon, <2>1, <2>3 DEF open
    <3>2. Search(query[i], popped[i], candidate_set[i])
      BY Zenon, <1>0, <3>1 DEF SearchInv
    <3>3. Search(query[i], popped[i], candidate_set[i])'
      BY ZenonT(60), <2>1, <2>3, <3>1, <3>2, SearchKept
    <3>4. QED
      BY Zenon, <1>0, <2>1, <2>3, <3>1, <3>3 DEF SearchInv
  <2>4. QED
    BY Zenon, <2>1, <2>2, <2>3 DEF SearchInv
<1>2. ASSUME UNCHANGED <<graph, query, popped, candidate_set, vl>>,
             \A i \in Iter : i \in isFirst => graph.nodes = {} \/ i \in isFirst'
      PROVE  SearchInv'
  <2>1. ASSUME NEW i \in open'
        PROVE  /\ graph.nodes # {} /\ i \notin isFirst' => popped'[i] # <<>> \/ candidate_set'[i] # {}
               /\ Search(query[i], popped[i], candidate_set[i])'
    <3>1. i \in open /\ i \in Iter
      BY Zenon, <1>2 DEF open
    <3>2. Search(query[i], popped[i], candidate_set[i])
      BY Zenon, <1>0, <3>1 DEF SearchInv
    <3>3. Search(query[i], popped[i], candidate_set[i])'
      BY Zenon, <1>2, <3>2, SearchKept
    <3>4. QED
      BY ZenonT(60), <1>0, <1>2, <3>1, <3>3 DEF SearchInv
  <2>2. QED
    BY Zenon, <1>2, <2>1 DEF SearchInv
<1>3. ASSUME (\E i \in Iter : NextEmpty(i) \/ NextCall(i)) \/ Hop \/ NoResult \/ UNCHANGED vars
      PROVE  SearchInv'
  <2>1. UNCHANGED <<graph, query, popped, candidate_set, vl>>
    BY Zenon, <1>3 DEF NextEmpty, NextCall, Hop, NoResult, vars, iterVars
  <2>2. \A i \in Iter : i \in isFirst => graph.nodes = {} \/ i \in isFirst'
    BY Zenon, <1>3 DEF NextEmpty, NextCall, Hop, NoResult, vars
  <2>3. QED
    BY Zenon, <1>2, <2>1, <2>2
<1>4. QED
  BY Zenon, <1>1, <1>3, SearchEnter, SearchPop DEF Next, Call

(* A pass of the descent that finds no nearer neighbour has looked at all  *)
(* of them.                                                                *)
LEMMA DescentHop ==
  ASSUME IInv, SInv, Hop
  PROVE  DescentInv'
<1> DEFINE q == query[busy]
           near == graph.links[level][currObj]
           closer == {n \in Nearest(busy, near) : Closer(busy, n, currObj)}
<1>0. TypeOK /\ CallInv /\ DescentInv /\ SearchInv
  BY Zenon DEF IInv, SInv
<1>1. /\ Descending /\ level > 0 /\ UNCHANGED <<graph, query, isFirst, busy>>
      /\ \/ currObj' \in closer /\ level' = level
         \/ closer = {} /\ level' = level - 1 /\ currObj' = currObj
  BY Zenon DEF Hop, iterVars
<1>2. /\ busy \in open /\ currObj \in graph.nodes /\ level \in 0..graph.maxlevel
      /\ graph.maxlevel \in Nat /\ IsFiniteSet(graph.nodes) /\ graph.entry \in graph.nodes
  BY Zenon, <1>0, <1>1, LoadedGraphOK DEF CallInv, Descending, GraphOK
<1>3. q \in Query /\ near \subseteq graph.nodes
  BY Zenon, <1>0, <1>2, LinksAreNodes DEF SearchInv, Search
<1>4. \A n \in graph.nodes : Dist[q][n] \in Int
  BY Zenon, <1>0, <1>3, DistanceType
<1>5. Dist[q][currObj] <= Dist[q][graph.entry]
  BY Zenon, <1>0, <1>1 DEF DescentInv
<1>6. CASE currObj' \in closer /\ level' = level
  <2>1. currObj' \in graph.nodes /\ Dist[q][currObj'] < Dist[q][currObj]
    BY Zenon, <1>3, <1>6 DEF Nearest, Closer, d
  <2>2. Dist[q][currObj'] <= Dist[q][graph.entry]
    BY SMTT(30), <1>2, <1>4, <1>5, <2>1
  <2>3. level' # 0
    BY SMTT(60), <1>1, <1>2, <1>6
  <2>4. QED
    BY Zenon, <1>1, <2>2, <2>3 DEF DescentInv
<1>7. CASE closer = {} /\ level' = level - 1 /\ currObj' = currObj
  <2>1. ASSUME NEW n \in near PROVE Dist[q][currObj] <= Dist[q][n]
    <3>1. IsFiniteSet(near)
      BY Zenon, <1>2, <1>3, FS_Subset
    <3>2. PICK t \in near : \A u \in near : Dist[q][t] <= Dist[q][u]
      BY ZenonT(60), <1>3, <1>4, <2>1, <3>1, LeastExists
    <3>3. ~(Dist[q][t] < Dist[q][currObj])
      BY Zenon, <1>7, <3>2 DEF Nearest, Closer, d
    <3>4. QED
      BY SMTT(60), <1>2, <1>3, <1>4, <2>1, <3>2, <3>3
  <2>2. level' = 0 => LocalMinimum(q, currObj)
    <3>1. level' = 0 => level = 1
      BY <1>2, <1>7
    <3>2. QED
      BY Zenon, <2>1, <3>1 DEF LocalMinimum
  <2>3. QED
    BY Zenon, <1>1, <1>5, <1>7, <2>2 DEF DescentInv, LocalMinimum
<1>8. QED
  BY ZenonT(60), <1>1, <1>6, <1>7

LEMMA DescentStep == IInv /\ SInv /\ [Next]_vars => DescentInv'
<1> SUFFICES ASSUME IInv, SInv, [Next]_vars PROVE DescentInv'
  BY Zenon
<1>0. TypeOK /\ CallInv /\ DescentInv /\ SearchInv
  BY Zenon DEF IInv, SInv
<1>1. ASSUME NEW i \in Iter,
             \/ \E q \in Query, l \in List : Open(i, q, l)
             \/ Close(i) \/ Abort(i) \/ NextEmpty(i)
      PROVE  DescentInv'
  <2>1. busy' = NoIter
    BY Zenon, <1>1 DEF Open, Close, Abort, Dispose, NextEmpty, callVars
  <2>2. QED
    BY Zenon, <2>1 DEF DescentInv, Descending
<1>2. ASSUME NEW i \in Iter, NextCall(i) PROVE DescentInv'
  <2>1. /\ busy' = i /\ i \in open /\ UNCHANGED <<graph, query, isFirst>> /\ graph.nodes # {}
        /\ i \in isFirst => currObj' = graph.entry /\ level' = graph.maxlevel
    BY Zenon, <1>2 DEF NextCall, iterVars
  <2>2. query[i] \in Query /\ graph.entry \in graph.nodes
    BY Zenon, <1>0, <2>1, LoadedGraphOK DEF SearchInv, Search, GraphOK
  <2>3. Dist[query[i]][graph.entry] <= Dist[query[i]][graph.entry]
    BY <1>0, <2>2, DistanceType
  <2>4. QED
    BY <2>1, <2>3 DEF DescentInv, Descending, LocalMinimum
<1>3. ASSUME EnterBaseLayer \/ NoResult \/ \E n \in Node : Pop(n) PROVE DescentInv'
  <2>1. busy' = NoIter \/ busy' \notin isFirst'
    BY Zenon, <1>3 DEF EnterBaseLayer, NoResult, Pop, Searching
  <2>2. QED
    BY Zenon, <2>1 DEF DescentInv, Descending
<1>4. ASSUME UNCHANGED vars PROVE DescentInv'
  BY Zenon, <1>0, <1>4 DEF vars, iterVars, callVars, DescentInv, Descending, LocalMinimum
<1>5. QED
  BY Zenon, <1>1, <1>2, <1>3, <1>4, DescentHop DEF Next, Call

LEMMA EndedStep == IInv /\ SInv /\ [Next]_vars => EndedInv'
<1> SUFFICES ASSUME IInv, SInv, [Next]_vars PROVE EndedInv'
  BY Zenon
<1>0. TypeOK /\ CallInv /\ ended \subseteq open
  BY Zenon DEF IInv, SInv, EndedInv
<1>1. ASSUME NEW j \in Iter,
             \/ \E q \in Query, l \in List : Open(j, q, l)
             \/ Close(j) \/ Abort(j)
      PROVE  EndedInv'
  <2>1. /\ ended' = ended \ {j}
        /\ \A i \in Iter : i # j => vl'[i] = vl[i]
    BY Zenon, <1>0, <1>1 DEF Open, Close, Abort, Dispose, TypeOK
  <2>2. QED
    BY Zenon, <1>0, <2>1 DEF EndedInv, open, TypeOK
<1>2. ASSUME \/ \E i \in Iter : NextEmpty(i) \/ NextCall(i)
             \/ Hop \/ EnterBaseLayer \/ NoResult \/ (\E n \in Node : Pop(n)) \/ UNCHANGED vars
      PROVE  EndedInv'
  <2>1. vl' = vl
    BY ZenonT(60), <1>2 DEF NextEmpty, NextCall, Hop, EnterBaseLayer, NoResult, Pop, vars, iterVars
  <2>2. ended' \subseteq open
    BY Zenon, <1>0, <1>2 DEF NextEmpty, NextCall, Hop, EnterBaseLayer, NoResult, Pop, Searching, CallInv,
                      vars
  <2>3. QED
    BY Zenon, <2>1, <2>2 DEF EndedInv, open
<1>3. QED
  BY Zenon, <1>1, <1>2 DEF Next, Call

LEMMA SInvInit == Init => SInv
<1> SUFFICES ASSUME Init PROVE SInv
  BY Zenon
<1>1. open = {} /\ busy = NoIter /\ ended = {}
  BY Zenon DEF Init, open
<1>2. QED
  BY Zenon, <1>1 DEF SInv, SearchInv, DescentInv, EndedInv, Descending
-----------------------------------------------------------------------------
(* The invariant of the search holds in every reachable state.             *)
THEOREM SearchInvariance == Spec => [](IInv /\ SInv)
<1>1. IInv /\ SInv /\ [Next]_vars => SInv'
  BY Zenon, SearchStep, DescentStep, EndedStep DEF SInv
<1>2. QED
  BY <1>1, SInvInit, Invariance, PTL DEF Spec

(* When searchKnnIterative reports no result, the iterator has popped      *)
(* exactly what its first node reaches in the base layer.                  *)
THEOREM EndIsExhaustion == Spec => []EndsWhenExhausted
<1>1. IInv /\ SInv => EndsWhenExhausted
  <2> SUFFICES ASSUME IInv, SInv, NEW i \in ended, graph.nodes # {}
               PROVE  /\ popped[i] # <<>>
                      /\ Closed(Range(popped[i]))
                      /\ \A S \in SUBSET graph.nodes :
                           popped[i][1] \in S /\ Closed(S) => Range(popped[i]) \subseteq S
    BY Zenon DEF EndsWhenExhausted, Closed, Linked
  <2>1. /\ i \in open /\ i \in Iter /\ candidate_set[i] = {} /\ i \notin isFirst
    BY Zenon DEF IInv, SInv, EndedInv, QueueInv, TypeOK
  <2>2. popped[i] # <<>> /\ Shown(popped[i], {}) /\ Needed(popped[i], {})
    BY ZenonT(60), <2>1 DEF SInv, SearchInv, Search
  <2>3. QED
    BY Zenon, <2>2 DEF Shown, Needed, Closed
<1>2. QED
  BY <1>1, SearchInvariance, PTL

(* searchBaseLayerSTIterative is out of order only by what the graph had   *)
(* not shown it.                                                           *)
THEOREM LateIsHidden == Spec => []LateOnlyIfHidden
<1>1. IInv /\ SInv => LateOnlyIfHidden
  <2> SUFFICES ASSUME IInv, SInv, NEW i \in open, NEW b \in DOMAIN popped[i], NEW a \in 1..(b - 1),
                      d(i, popped[i][b]) < d(i, popped[i][a]), NEW c \in 1..(a - 1),
                      popped[i][b] \in Linked(popped[i][c])
               PROVE  FALSE
    BY Zenon DEF LateOnlyIfHidden, Linked
  <2>1. /\ popped[i] \in Seq(graph.nodes) /\ query[i] \in Query
        /\ Late(query[i], popped[i], candidate_set[i])
    BY Zenon DEF IInv, TypeOK, SInv, SearchInv, Search, open
  <2>2. /\ Len(popped[i]) \in Nat /\ b \in 1..Len(popped[i]) /\ a \in 1..Len(popped[i])
        /\ b \in (a + 1)..Len(popped[i])
    BY SMTT(60), <2>1
  <2>3. Dist[query[i]][popped[i][a]] <= Dist[query[i]][popped[i][b]]
    BY Zenon, <2>1, <2>2 DEF Late
  <2>4. popped[i][a] \in graph.nodes /\ popped[i][b] \in graph.nodes
    BY <2>1, <2>2
  <2>5. Dist[query[i]][popped[i][a]] \in Int /\ Dist[query[i]][popped[i][b]] \in Int
    BY Zenon, <2>1, <2>4, DistanceType DEF IInv
  <2>6. QED
    BY <2>3, <2>5 DEF d
<1>2. QED
  BY <1>1, SearchInvariance, PTL

(* The descent of searchKnnIterative starts the search in a local minimum. *)
THEOREM StartIsMinimum == Spec => []StartsAtLocalMinimum
<1>1. SInv => StartsAtLocalMinimum
  BY Zenon DEF SInv, SearchInv, Search, Started, Start, LocalMinimum, StartsAtLocalMinimum, d
<1>2. QED
  BY <1>1, SearchInvariance, PTL
(* A step inside a call of Next gets somewhere: the descent strictly, by   *)
(* the test for a nearer neighbour; the search to a node never popped, as  *)
(* the queue and the popped nodes are apart.                               *)
LEMMA ProgressStep ==
  ASSUME IInv, Next, busy # NoIter, busy' = busy
  PROVE  \/ /\ busy \in isFirst
            /\ \/ busy \notin isFirst'
               \/ level' < level
               \/ level' = level /\ d(busy, currObj') < d(busy, currObj)
         \/ /\ busy \notin isFirst'
            /\ \E n \in graph.nodes \ Range(popped[busy]) : popped'[busy] = Append(popped[busy], n)
<1>0. TypeOK /\ CallInv /\ QueueInv
  BY Zenon DEF IInv
<1>1. Hop \/ EnterBaseLayer \/ \E n \in Node : Pop(n)
  BY Zenon DEF Next, Call, Open, Close, Abort, Dispose, NextEmpty, NextCall, NoResult
<1>2. CASE Hop
  <2>1. busy \in isFirst /\ level \in Nat
    BY Zenon, <1>0, <1>2 DEF Hop, Descending, TypeOK
  <2>2. CASE level' = level /\ Closer(busy, currObj', currObj)
    BY Zenon, <2>1, <2>2 DEF Closer
  <2>3. CASE level' = level - 1
    <3>1. level' < level
      BY <2>1, <2>3
    <3>2. QED
      BY Zenon, <2>1, <3>1
  <2>4. QED
    BY Zenon, <1>2, <2>2, <2>3 DEF Hop
<1>3. CASE EnterBaseLayer
  BY Zenon, <1>3 DEF EnterBaseLayer, Descending
<1>4. ASSUME NEW n \in Node, Pop(n)
      PROVE  /\ busy \notin isFirst'
             /\ n \in graph.nodes \ Range(popped[busy])
             /\ popped'[busy] = Append(popped[busy], n)
  <2>1. busy \in Iter /\ n \in candidate_set[busy] /\ n \in graph.nodes
    BY Zenon, <1>0, <1>4, PopFacts
  <2>2. n \notin Range(popped[busy])
    BY Zenon, <1>0, <2>1 DEF QueueInv
  <2>3. popped'[busy] = Append(popped[busy], n)
    BY Zenon, <1>0, <1>4, <2>1 DEF Pop, TypeOK
  <2>4. QED
    BY Zenon, <1>4, <2>1, <2>2, <2>3 DEF Pop, Searching
<1>5. QED
  BY Zenon, <1>1, <1>2, <1>3, <1>4

(* A call of Next makes progress with each of its steps, on every graph    *)
(* and after any sequence of earlier calls: as the nodes are finitely many *)
(* it cannot go on for ever.                                               *)
THEOREM CallsProgress == Spec => NextProgress
<1>1. IInv /\ [Next]_vars =>
        [busy # NoIter /\ busy' = busy =>
           \/ /\ busy \in isFirst
              /\ \/ busy \notin isFirst'
                 \/ level' < level
                 \/ level' = level /\ d(busy, currObj') < d(busy, currObj)
           \/ /\ busy \notin isFirst'
              /\ \E n \in graph.nodes \ Range(popped[busy]) : popped'[busy] = Append(popped[busy], n)]_vars
  BY Zenon, ProgressStep
<1>2. QED
  BY <1>1, Invariance, PTL DEF Spec, NextProgress
=============================================================================

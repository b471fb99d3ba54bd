------------------------- MODULE BktIteratorProofs -------------------------
(***************************************************************************)
(* Proofs about BktIterator for any index, any number of iterators and     *)
(* threads, any queue sizes and limits and any order of opening, calling,  *)
(* closing and aborting.                                                   *)
(*                                                                         *)
(* Work spaces are never shared (PoolInv adds that every work space in    *)
(* the pool or in use has been allocated, so that a new one is really      *)
(* new), and the queues stay heaps of nodes at their distances within      *)
(* their sizes (TypeInv).  The proofs go by what a step does to the sets   *)
(* of nodes in the queues (TreeView, GraphView, FirstView), which follows  *)
(* from the heap's facts and an induction over each loop of the step.      *)
(***************************************************************************)
EXTENDS BktLemmas

-----------------------------------------------------------------------------
PoolInv ==
  /\ made \in Nat
  /\ pool \in Seq(1..made)
  /\ space \in [Iter -> 0..made]
  /\ Isolation

LEMMA RentStep ==
  ASSUME PoolInv, NEW i \in Iter, NEW q \in Query, NEW w \in Space, GetIterator(i, q, w)
  PROVE  PoolInv'
<1>1. /\ i \notin open /\ Rent(w) /\ space' = [space EXCEPT ![i] = w]
      /\ made \in Nat /\ pool \in Seq(1..made) /\ space \in [Iter -> 0..made] /\ Isolation
      /\ w \in Nat \ {0}
  BY PoolAssumption DEF GetIterator, PoolInv, Space
<1>2. /\ made' \in Nat /\ made <= made' /\ w \in 1..made' /\ pool' \in Seq(1..made')
      /\ Range(pool') \subseteq Range(pool) /\ IsInjective(pool') /\ w \notin Range(pool')
      /\ \A j \in open : space[j] # w
  <2>1. CASE pool # <<>> /\ w = Head(pool) /\ pool' = Tail(pool) /\ made' = made
    <3>1. /\ Head(pool) \in 1..made /\ Tail(pool) \in Seq(1..made) /\ Head(pool) \in Range(pool)
          /\ Range(Tail(pool)) \subseteq Range(pool)
          /\ IsInjective(Tail(pool)) /\ Head(pool) \notin Range(Tail(pool))
      BY ZenonT(60), <1>1, <2>1, PopFront DEF Isolation
    <3>2. \A j \in open : space[j] \notin Range(pool)
      BY Zenon, <1>1 DEF Isolation
    <3>3. QED
      BY SMTT(60), <1>1, <2>1, <3>1, <3>2
  <2>2. CASE pool = <<>> /\ w = made + 1 /\ made' = w /\ pool' = pool
    <3>1. Range(pool) = {} /\ pool' \in Seq(1..made')
      BY SMTT(60), <1>1, <2>2, RangeOfEmpty, LargerSeq
    <3>2. \A j \in open : space[j] <= made
      BY <1>1 DEF open
    <3>3. QED
      BY SMTT(60), <1>1, <2>2, <3>1, <3>2 DEF Isolation, open
  <2>3. QED
    BY Zenon, <1>1, <2>1, <2>2 DEF Rent
<1>3. /\ space'[i] = w /\ \A j \in Iter : j # i => space'[j] = space[j]
      /\ open' = open \union {i}
  BY Zenon, <1>1 DEF open, Null
<1>4. space' \in [Iter -> 0..made']
  BY SMTT(60), <1>1, <1>2
<1>5. \A j, k \in open' : space'[j] = space'[k] => j = k
  BY Zenon, <1>1, <1>2, <1>3 DEF Isolation, open
<1>6. \A j \in open' : space'[j] \notin Range(pool')
  <2>1. \A j \in open : space[j] \notin Range(pool)
    BY Zenon, <1>1 DEF Isolation
  <2>2. QED
    BY ZenonT(60), <1>2, <1>3, <2>1 DEF open
<1>7. Isolation'
  BY Zenon, <1>2, <1>5, <1>6 DEF Isolation
<1>8. QED
  BY Zenon, <1>2, <1>4, <1>7 DEF PoolInv

LEMMA ReturnStep ==
  ASSUME PoolInv, NEW i \in Iter, Close(i) \/ Abort(i)
  PROVE  PoolInv'
<1>1. /\ i \in open /\ space' = [space EXCEPT ![i] = 0] /\ made' = made
      /\ pool' = pool \/ pool' = Append(pool, space[i])
      /\ made \in Nat /\ pool \in Seq(1..made) /\ space \in [Iter -> 0..made] /\ Isolation
  BY Zenon DEF Close, Abort, Dispose, PoolInv, Null
<1>2. /\ space[i] \in 1..made
      /\ \A j \in open' : j \in open /\ j # i /\ space'[j] = space[j]
  BY <1>1 DEF open, Null
<1>3. space[i] \notin Range(pool) /\ IsInjective(pool)
  BY Zenon, <1>1 DEF Isolation
<1>4. /\ pool' \in Seq(1..made) /\ IsInjective(pool')
      /\ Range(pool') \subseteq Range(pool) \union {space[i]}
  <2>1. CASE pool' = pool
    BY Zenon, <1>1, <1>3, <2>1
  <2>2. CASE pool' = Append(pool, space[i])
    <3>1. IsInjective(Append(pool, space[i]))
      BY Zenon, <1>1, <1>2, <1>3, AppendFresh
    <3>2. Range(Append(pool, space[i])) = Range(pool) \union {space[i]}
      BY SMTT(60), <1>1, <1>2, RangeOfAppend
    <3>3. Append(pool, space[i]) \in Seq(1..made)
      BY SMTT(60), <1>1, <1>2
    <3>4. QED
      BY ZenonT(60), <1>1, <1>2, <2>2, <3>1, <3>2, <3>3
  <2>3. QED
    BY Zenon, <1>1, <2>1, <2>2
<1>5. \A j \in open' : space'[j] # space[i] /\ space'[j] \notin Range(pool)
  BY Zenon, <1>1, <1>2 DEF Isolation
<1>6. \A j, k \in open' : space'[j] = space'[k] => j = k
  BY Zenon, <1>1, <1>2 DEF Isolation
<1>7. Isolation'
  BY Zenon, <1>4, <1>5, <1>6 DEF Isolation
<1>8. space' \in [Iter -> 0..made]
  BY SMTT(60), <1>1
<1>9. QED
  BY Zenon, <1>1, <1>4, <1>7, <1>8 DEF PoolInv

LEMMA PoolInit == Init => PoolInv
<1> SUFFICES ASSUME Init PROVE PoolInv
  BY Zenon
<1>1. made \in Nat /\ pool \in Seq(1..made) /\ space \in [Iter -> 0..made] /\ open = {}
  BY SMTT(60), PoolAssumption DEF Init, open, Null
<1>2. IsInjective(pool)
  BY Zenon, PoolAssumption DEF Init, IsInjective
<1>3. QED
  BY Zenon, <1>1, <1>2 DEF PoolInv, Isolation

(* No two iterators search with one work space: what WorkSpacePool hands   *)
(* out is neither in use nor in the pool, for any number of threads.       *)
THEOREM SpacesIsolated == Spec => []Isolation
<1>1. Init => PoolInv
  BY Zenon, PoolInit
<1>2. PoolInv /\ [Next]_vars => PoolInv'
  <2> SUFFICES ASSUME PoolInv, [Next]_vars PROVE PoolInv'
    BY Zenon
  <2>1. CASE (\E i \in Iter : NextCall(i)) \/ Call \/ UNCHANGED vars
    <3>1. UNCHANGED <<made, pool, space>>
      BY ZenonT(60), <2>1 DEF NextCall, Call, TreesEmpty, TreeStep, GraphStep, Result, NoResult, vars, poolVars,
                  iterVars
    <3>2. QED
      BY Zenon, <3>1 DEF PoolInv, Isolation, open
  <2>2. QED
    BY Zenon, <2>1, RentStep, ReturnStep DEF Next
<1>3. PoolInv => Isolation
  BY Zenon DEF PoolInv
<1>4. QED
  BY <1>1, <1>2, <1>3, PTL DEF Spec

-----------------------------------------------------------------------------
(* The types, with what they rest on: the queues of an open iterator hold  *)
(* rows and tree nodes at their distances from its query, only an open     *)
(* iterator has a call running, and a closed one has returned nothing.     *)
RowDist(x, q) == [r \in x.rows |-> Dist[q][r]]
TreeDist(x, q) == [t \in Good(x) |-> Dist[q][x.tree[t].center]]

TreeHeap(i, h) == IsHeap(Pairs(TreeDist(index, query[i])), SPTLength, h)
RowHeap(i, h) == IsHeap(Pairs(RowDist(index, query[i])), NGLength, h)

SpaceInv ==
  /\ DOMAIN SPT = Space /\ DOMAIN NG = Space
  /\ nodeCheckStatus \in [Space -> SUBSET index.rows]
  /\ \A w \in Space :
       /\ Nodes(SPT[w]) \subseteq TreeNode /\ Len(SPT[w]) <= SPTLength /\ HeapOrdered(SPT[w])
       /\ Nodes(NG[w]) \subseteq Row /\ Len(NG[w]) <= NGLength /\ HeapOrdered(NG[w])
  /\ \A i \in open : query[i] \in Query /\ TreeHeap(i, SPT[space[i]]) /\ RowHeap(i, NG[space[i]])

CallInv ==
  /\ busy \in open \union {NoIter}
  /\ pc \in {"idle", "trees", "graph"} /\ (pc = "idle" <=> busy = NoIter)
  /\ got \in index.rows \union {Unset} /\ (busy = NoIter => got = Unset)
  /\ leaves \in Nat /\ limit \in Nat
  /\ isFirst \subseteq open /\ ended \subseteq open /\ lost \subseteq open /\ busy \notin isFirst
  /\ query \in [Iter -> Query \union {Unset}]
  /\ emitted \in [Iter -> Seq(index.rows)]
  /\ \A i \in Iter : i \notin open => emitted[i] = <<>>

TypeInv ==
  /\ index \in Indexes
  /\ made \in Threads..MaxSpaces
  /\ PoolInv /\ SpaceInv /\ CallInv

LEMMA DistFacts ==
  ASSUME NEW x \in Indexes, NEW q \in Query
  PROVE  /\ DOMAIN RowDist(x, q) = x.rows /\ \A n \in x.rows : RowDist(x, q)[n] = Dist[q][n] /\ RowDist(x, q)[n] \in Int
         /\ DOMAIN TreeDist(x, q) = Good(x) /\ \A n \in Good(x) : TreeDist(x, q)[n] \in Int
<1>1. x.rows \subseteq Row
  BY RowFacts, Zenon
<1>2. \A r \in x.rows : Dist[q][r] \in Int
  BY Zenon, <1>1, DistAssumption
<1>3. \A t \in Good(x) : x.tree[t].center \in x.rows
  BY Zenon DEF Good
<1> QED
  BY ZenonT(60), <1>2, <1>3 DEF RowDist, TreeDist

LEMMA LengthFacts ==
  ASSUME index \in Indexes
  PROVE  SPTLength \in Nat \ {0} /\ NGLength \in Nat \ {0}
<1>1. index.maxCheck \in Nat \ {0}
  BY Zenon, RowFacts
<1>2. \A a, b \in Nat \ {0} : a * b \in Nat \ {0}
  OBVIOUS
<1> QED
  BY <1>1, <1>2, FactorAssumption, Zenon DEF SPTLength, NGLength

(* The entries Next inserts are the pairs of their nodes.                  *)
LEMMA InsertedPairs ==
  ASSUME index \in Indexes, NEW i, query[i] \in Query
  PROVE  /\ \A s \in Seq(index.rows) : RowPairs(i, s) = PairsOf(RowDist(index, query[i]), s)
         /\ \A s \in Seq(Good(index)) : TreePairs(i, s) = PairsOf(TreeDist(index, query[i]), s)
<1>1. \A s \in Seq(index.rows) : \A p \in DOMAIN s : s[p] \in index.rows
  OBVIOUS
<1>2. \A s \in Seq(Good(index)) : \A p \in DOMAIN s : s[p] \in Good(index)
  OBVIOUS
<1>3. \A r \in index.rows : RowPair(i, r) = [node |-> r, distance |-> RowDist(index, query[i])[r]]
  BY Zenon DEF RowPair, RowDist
<1>4. \A t \in Good(index) : TreePair(i, t) = [node |-> t, distance |-> TreeDist(index, query[i])[t]]
  BY Zenon DEF TreePair, TreeDist, center
<1>5. ASSUME NEW s \in Seq(index.rows) PROVE RowPairs(i, s) = PairsOf(RowDist(index, query[i]), s)
  BY ZenonT(60), <1>1, <1>3 DEF RowPairs, PairsOf
<1>6. ASSUME NEW s \in Seq(Good(index)) PROVE TreePairs(i, s) = PairsOf(TreeDist(index, query[i]), s)
  BY Zenon, <1>2, <1>4 DEF TreePairs, PairsOf
<1> QED
  BY ZenonT(60), <1>5, <1>6

(* Inserting rows into the queue of an iterator.                           *)
LEMMA PushRows ==
  ASSUME index \in Indexes, NEW i, query[i] \in Query, NEW h, RowHeap(i, h), NEW s \in Seq(index.rows)
  PROVE  LET g == insertAll(h, NGLength, RowPairs(i, s)) IN
         /\ RowHeap(i, g) /\ Nodes(g) \subseteq Nodes(h) \union Range(s)
         /\ ~Overflow(h, NGLength, s) => Nodes(g) = Nodes(h) \union Range(s)
         /\ IsInjective(h) /\ IsInjective(s) /\ Nodes(h) \intersect Range(s) = {} => IsInjective(g)
<1> DEFINE D == RowDist(index, query[i])
<1>1. (\A n \in DOMAIN D : D[n] \in Int) /\ s \in Seq(DOMAIN D)
  BY DistFacts, Zenon
<1>2. RowPairs(i, s) = PairsOf(D, s)
  BY InsertedPairs, Zenon
<1>3. NGLength \in Nat \ {0} /\ h \in Seq(Pairs(D)) /\ IsHeap(Pairs(D), NGLength, h)
  BY LengthFacts, Zenon DEF RowHeap, IsHeap
<1> HIDE DEF D
<1>4. ~Overflow(h, NGLength, s) => Len(h) + Len(s) <= NGLength
  <2>1. Len(h) \in Nat /\ Len(s) \in Nat
    BY <1>3
  <2> QED
    BY SMTT(60), <1>3, <2>1 DEF Overflow
<1> DEFINE g == insertAll(h, NGLength, PairsOf(D, s))
<1>5. /\ IsHeap(Pairs(D), NGLength, g) /\ Nodes(g) \subseteq Nodes(h) \union Range(s)
      /\ Len(h) + Len(s) <= NGLength => Nodes(g) = Nodes(h) \union Range(s)
      /\ IsInjective(h) /\ IsInjective(s) /\ Nodes(h) \intersect Range(s) = {} => IsInjective(g)
  BY <1>1, <1>3, NodeInsertAll, Zenon
<1> HIDE DEF g
<1> QED
  BY <1>2, <1>4, <1>5, Zenon DEF RowHeap, D, g

LEMMA PushNodes ==
  ASSUME index \in Indexes, NEW i, query[i] \in Query, NEW h, TreeHeap(i, h), NEW s \in Seq(Good(index))
  PROVE  LET g == insertAll(h, SPTLength, TreePairs(i, s)) IN
         /\ TreeHeap(i, g) /\ Nodes(g) \subseteq Nodes(h) \union Range(s)
         /\ ~Overflow(h, SPTLength, s) => Nodes(g) = Nodes(h) \union Range(s)
<1> DEFINE D == TreeDist(index, query[i])
<1>1. (\A n \in DOMAIN D : D[n] \in Int) /\ s \in Seq(DOMAIN D)
  BY DistFacts, Zenon
<1>2. TreePairs(i, s) = PairsOf(D, s)
  BY InsertedPairs, Zenon
<1>3. SPTLength \in Nat \ {0} /\ h \in Seq(Pairs(D)) /\ IsHeap(Pairs(D), SPTLength, h)
  BY LengthFacts, Zenon DEF TreeHeap, IsHeap
<1> HIDE DEF D
<1>4. ~Overflow(h, SPTLength, s) => Len(h) + Len(s) <= SPTLength
  <2>1. Len(h) \in Nat /\ Len(s) \in Nat
    BY <1>3
  <2> QED
    BY SMTT(60), <1>3, <2>1 DEF Overflow
<1> DEFINE g == insertAll(h, SPTLength, PairsOf(D, s))
<1>5. /\ IsHeap(Pairs(D), SPTLength, g) /\ Nodes(g) \subseteq Nodes(h) \union Range(s)
      /\ Len(h) + Len(s) <= SPTLength => Nodes(g) = Nodes(h) \union Range(s)
  BY <1>1, <1>3, NodeInsertAll, Zenon
<1> HIDE DEF g
<1> QED
  BY ZenonT(60), <1>2, <1>4, <1>5 DEF TreeHeap, D, g

(* Taking the nearest row or tree node.                                    *)
LEMMA PopRow ==
  ASSUME index \in Indexes, NEW i, query[i] \in Query, NEW h, RowHeap(i, h), h # <<>>
  PROVE  /\ RowHeap(i, pop(h)) /\ Top(h).node \in index.rows
         /\ Nodes(h) = Nodes(pop(h)) \union {Top(h).node} /\ Nodes(h) \subseteq index.rows
         /\ \A n \in Nodes(h) : Dist[query[i]][Top(h).node] <= Dist[query[i]][n]
         /\ IsInjective(h) => IsInjective(pop(h)) /\ Top(h).node \notin Nodes(pop(h))
<1> DEFINE D == RowDist(index, query[i])
<1>1. (\A n \in DOMAIN D : D[n] \in Int) /\ DOMAIN D = index.rows /\ \A n \in index.rows : D[n] = Dist[query[i]][n]
  BY DistFacts, Zenon
<1>2. NGLength \in Nat /\ IsHeap(Pairs(D), NGLength, h) /\ h \in Seq(Pairs(D))
  BY LengthFacts, Zenon DEF RowHeap, IsHeap
<1> HIDE DEF D
<1>3. /\ IsHeap(Pairs(D), NGLength, pop(h))
      /\ Top(h).node \in DOMAIN D /\ Nodes(h) = Nodes(pop(h)) \union {Top(h).node}
      /\ \A n \in Nodes(h) : D[Top(h).node] <= D[n]
      /\ IsInjective(h) => IsInjective(pop(h)) /\ Top(h).node \notin Nodes(pop(h))
  BY <1>1, <1>2, NodePop, Zenon
<1>4. Nodes(h) \subseteq DOMAIN D
  BY <1>1, <1>2, NodesOfPairs, Zenon
<1> QED
  BY <1>1, <1>3, <1>4, Zenon DEF RowHeap, D

LEMMA PopNode ==
  ASSUME index \in Indexes, NEW i, query[i] \in Query, NEW h, TreeHeap(i, h), h # <<>>
  PROVE  /\ TreeHeap(i, pop(h)) /\ Top(h).node \in Good(index)
         /\ Nodes(h) = Nodes(pop(h)) \union {Top(h).node}
<1> DEFINE D == TreeDist(index, query[i])
<1>1. (\A n \in DOMAIN D : D[n] \in Int) /\ DOMAIN D = Good(index)
  BY DistFacts, Zenon
<1>2. SPTLength \in Nat /\ IsHeap(Pairs(D), SPTLength, h)
  BY LengthFacts, Zenon DEF TreeHeap
<1> HIDE DEF D
<1>3. /\ IsHeap(Pairs(D), SPTLength, pop(h))
      /\ Top(h).node \in DOMAIN D /\ Nodes(h) = Nodes(pop(h)) \union {Top(h).node}
  BY <1>1, <1>2, NodePop, Zenon
<1> QED
  BY <1>1, <1>3, Zenon DEF TreeHeap, D

-----------------------------------------------------------------------------
(* What a step of a call does to the work space w of its iterator i, in    *)
(* terms of the nodes in the queues.                                       *)
OnlySpace(w) ==
  /\ DOMAIN SPT' = Space /\ DOMAIN NG' = Space
  /\ nodeCheckStatus' = [v \in Space |-> nodeCheckStatus'[v]]
  /\ \A v \in Space : v # w =>
       SPT'[v] = SPT[v] /\ NG'[v] = NG[v] /\ nodeCheckStatus'[v] = nodeCheckStatus[v]
  /\ UNCHANGED <<index, made, pool, query, space>>

NewRow(w, t) == {center(t)} \ nodeCheckStatus[w]
Deeper(t) == IF Inner(t) THEN Below(index, t) ELSE {}

FirstView(i, w) ==
  /\ OnlySpace(w) /\ UNCHANGED <<NG, nodeCheckStatus, emitted, ended>>
  /\ TreeHeap(i, SPT'[w]) /\ Nodes(SPT'[w]) \subseteq Nodes(SPT[w]) \union Range(FirstNodes)
  /\ \/ lost' = lost \union {i}
     \/ lost' = lost /\ Nodes(SPT'[w]) = Nodes(SPT[w]) \union Range(FirstNodes)

TreeView(i, w, t) ==
  /\ t \in Good(index) /\ t \in Nodes(SPT[w])
  /\ OnlySpace(w) /\ UNCHANGED <<isFirst, emitted, ended, busy, got, limit>>
  /\ TreeHeap(i, SPT'[w]) /\ Nodes(SPT'[w]) \subseteq Nodes(SPT[w]) \union Deeper(t)
  /\ RowHeap(i, NG'[w]) /\ Nodes(NG'[w]) \subseteq Nodes(NG[w]) \union NewRow(w, t)
  /\ IsInjective(NG[w]) /\ Nodes(NG[w]) \intersect NewRow(w, t) = {} => IsInjective(NG'[w])
  /\ nodeCheckStatus'[w] = nodeCheckStatus[w] \union {center(t)}
  /\ \/ lost' = lost \union {i}
     \/ /\ lost' = lost
        /\ Nodes(SPT[w]) \union Deeper(t) \subseteq Nodes(SPT'[w]) \union {t}
        /\ Nodes(NG'[w]) = Nodes(NG[w]) \union NewRow(w, t)
  /\ leaves' = IF Inner(t) \/ NewRow(w, t) = {} THEN leaves ELSE leaves + 1
  /\ pc' = IF ~Inner(t) /\ leaves' >= limit THEN "graph" ELSE "trees"

NewRows(w, r) == (Group(index, r) \ index.deleted) \union (Range(index.neighbours[r]) \ nodeCheckStatus[w])

GraphView(i, w, r) ==
  /\ r \in index.rows /\ r \in Nodes(NG[w])
  /\ \A n \in Nodes(NG[w]) : Dist[query[i]][r] <= Dist[query[i]][n]
  /\ OnlySpace(w) /\ UNCHANGED <<SPT, isFirst, emitted, ended, busy>>
  /\ got = Unset /\ got' = IF r \in index.deleted THEN Unset ELSE r
  /\ RowHeap(i, NG'[w]) /\ Nodes(NG'[w]) \subseteq Nodes(NG[w]) \union NewRows(w, r)
  /\ IsInjective(NG[w]) => Nodes(NG'[w]) \subseteq (Nodes(NG[w]) \ {r}) \union NewRows(w, r)
  /\ (Len(index.starts) = 1 /\ IsInjective(NG[w]) /\ (Nodes(NG[w]) \ {r}) \intersect NewRows(w, r) = {}
       /\ Group(index, r) \intersect Range(index.neighbours[r]) = {}) => IsInjective(NG'[w])
  /\ nodeCheckStatus'[w] = nodeCheckStatus[w] \union (Range(index.neighbours[r]) \ nodeCheckStatus[w])
  /\ \/ lost' = lost \union {i}
     \/ lost' = lost /\ (Nodes(NG[w]) \ {r}) \union NewRows(w, r) \subseteq Nodes(NG'[w])
  /\ leaves' \in Nat /\ limit' \in Nat
  /\ \/ pc' = "trees" /\ leaves' < limit'
     \/ pc' = "graph" /\ (NG'[w] = <<>> => SPT[w] = <<>>)

LEMMA SpacesOfOpen ==
  ASSUME TypeInv
  PROVE  \A j \in open : j \in Iter /\ space[j] \in Space
BY PoolAssumption DEF TypeInv, PoolInv, Space, open, Null

LEMMA NotNull == \A w \in Space : w # Null /\ w # 0
BY DEF Space, Null

(* The arithmetic of the budget of tree leaves.                            *)
LEMMA LimitFacts ==
  ASSUME NEW n \in Nat
  PROVE  LimitAfter(n) \in Nat /\ n < LimitAfter(n)
BY PivotAssumption DEF LimitAfter

LEMMA MoreLeaves ==
  ASSUME NEW n \in Nat, NEW S, NEW s \in Seq(S)
  PROVE  n + Len(s) \in Nat
OBVIOUS

LEMMA BusyFacts ==
  ASSUME TypeInv, busy # NoIter
  PROVE  /\ index \in Indexes /\ busy \in open /\ busy \in Iter /\ space[busy] \in Space
         /\ query[busy] \in Query /\ TreeHeap(busy, SPT[space[busy]]) /\ RowHeap(busy, NG[space[busy]])
         /\ DOMAIN SPT = Space /\ DOMAIN NG = Space /\ DOMAIN nodeCheckStatus = Space
<1>1. busy \in open
  BY Zenon DEF TypeInv, CallInv
<1>2. /\ index \in Indexes /\ DOMAIN SPT = Space /\ DOMAIN NG = Space /\ DOMAIN nodeCheckStatus = Space
      /\ query[busy] \in Query /\ TreeHeap(busy, SPT[space[busy]]) /\ RowHeap(busy, NG[space[busy]])
  BY ZenonT(60), <1>1 DEF TypeInv, SpaceInv
<1>3. busy \in Iter /\ space[busy] \in Space
  BY <1>1, SpacesOfOpen, Zenon
<1> QED
  BY ZenonT(60), <1>1, <1>2, <1>3

LEMMA TreeStepView ==
  ASSUME TypeInv, TreeStep
  PROVE  TreeView(busy, space[busy], Top(SPT[space[busy]]).node)
<1> DEFINE i == busy
           w == space[i]
           t == Top(SPT[w]).node
           row == IF center(t) \in nodeCheckStatus[w] THEN <<>> ELSE <<center(t)>>
           below == IF Inner(t) THEN children(t) ELSE <<>>
           rest == pop(SPT[w])
<1>1. /\ pc = "trees" /\ SPT[w] # <<>>
      /\ nodeCheckStatus' = [nodeCheckStatus EXCEPT ![w] = @ \union {center(t)}]
      /\ NG' = [NG EXCEPT ![w] = insertAll(@, NGLength, RowPairs(i, row))]
      /\ SPT' = [SPT EXCEPT ![w] = insertAll(rest, SPTLength, TreePairs(i, below))]
      /\ lost' = IF Overflow(NG[w], NGLength, row) \/ Overflow(rest, SPTLength, below)
                 THEN lost \union {i} ELSE lost
      /\ leaves' = IF Inner(t) THEN leaves ELSE leaves + Len(row)
      /\ pc' = IF ~Inner(t) /\ leaves' >= limit THEN "graph" ELSE "trees"
      /\ UNCHANGED <<index, poolVars, iterVars, emitted, ended, busy, got, limit>>
  BY ZenonT(60) DEF TreeStep
<1>2. busy # NoIter /\ leaves \in Nat
  BY ZenonT(60), <1>1 DEF TypeInv, CallInv
<1>3. /\ index \in Indexes /\ w \in Space /\ query[i] \in Query /\ TreeHeap(i, SPT[w]) /\ RowHeap(i, NG[w])
      /\ DOMAIN SPT = Space /\ DOMAIN NG = Space /\ DOMAIN nodeCheckStatus = Space
  BY <1>2, BusyFacts, Zenon
<1>4. TreeHeap(i, rest) /\ t \in Good(index) /\ Nodes(SPT[w]) = Nodes(rest) \union {t}
  BY <1>1, <1>3, PopNode, Zenon
<1>5. t \in DOMAIN index.tree /\ center(t) \in index.rows
  BY ZenonT(60), <1>4 DEF Good, center
<1>6. row \in Seq(index.rows) /\ IsInjective(row) /\ Range(row) = NewRow(w, t)
      /\ Len(row) = IF NewRow(w, t) = {} THEN 0 ELSE 1
  <2> DEFINE c == center(t)
  <2>1. c \in index.rows
    BY ZenonT(60), <1>5
  <2> HIDE DEF c
  <2>2. CASE c \in nodeCheckStatus[w]
    <3>1. row = <<>> /\ NewRow(w, t) = {}
      BY ZenonT(60), <2>2 DEF c, NewRow
    <3>2. <<>> \in Seq(index.rows) /\ IsInjective(<<>>) /\ Len(<<>>) = 0
      BY DEF IsInjective
    <3> HIDE DEF row
    <3> QED
      BY SMTT(30), <3>1, <3>2, RangeOfEmpty
  <2>3. CASE c \notin nodeCheckStatus[w]
    <3>1. row = <<c>> /\ NewRow(w, t) = {c}
      BY ZenonT(60), <2>3 DEF c, NewRow
    <3>2. <<c>> \in Seq(index.rows) /\ Len(<<c>>) = 1 /\ Range(<<c>>) = {c} /\ IsInjective(<<c>>)
      BY ZenonT(60), <2>1, OneElement
    <3>3. {c} # {}
      BY Zenon
    <3> HIDE DEF row
    <3> QED
      BY ZenonT(60), <3>1, <3>2, <3>3
  <2> QED
    BY ZenonT(60), <2>2, <2>3
<1>7. below \in Seq(Good(index)) /\ Range(below) = Deeper(t)
  <2>1. CASE Inner(t)
    <3>1. below = children(t) /\ Deeper(t) = Below(index, t) /\ Range(children(t)) = Below(index, t)
      BY ZenonT(60), <2>1 DEF Deeper, Below, children
    <3>2. children(t) \in Seq(DOMAIN index.tree) /\ Below(index, t) \subseteq Good(index)
      BY ZenonT(60), <1>3, <1>5, TreeFacts DEF children
    <3> HIDE DEF below
    <3>3. Range(children(t)) \subseteq Good(index)
      BY <3>1, <3>2, Zenon
    <3>4. children(t) \in Seq(Good(index))
      BY ZenonT(60), <3>2, <3>3, SeqInto
    <3> QED
      BY ZenonT(60), <3>1, <3>4
  <2>2. CASE ~Inner(t)
    <3>1. below = <<>> /\ Deeper(t) = {}
      BY <2>2, Zenon DEF Deeper
    <3> HIDE DEF below
    <3> QED
      BY ZenonT(60), <3>1, EmptySeq, RangeOfEmpty
  <2> QED
    BY ZenonT(60), <2>1, <2>2
<1> HIDE DEF row, below, rest, t, i, w
<1>8. /\ SPT'[w] = insertAll(rest, SPTLength, TreePairs(i, below))
      /\ NG'[w] = insertAll(NG[w], NGLength, RowPairs(i, row))
      /\ nodeCheckStatus'[w] = nodeCheckStatus[w] \union {center(t)}
      /\ OnlySpace(w)
  <2>1. nodeCheckStatus' = [v \in Space |-> nodeCheckStatus'[v]]
    BY ZenonT(60), <1>1, <1>3
  <2> QED
    BY ZenonT(60), <1>1, <1>3, <2>1 DEF OnlySpace, poolVars, iterVars
<1>9. /\ TreeHeap(i, SPT'[w]) /\ Nodes(SPT'[w]) \subseteq Nodes(rest) \union Deeper(t)
      /\ ~Overflow(rest, SPTLength, below) => Nodes(SPT'[w]) = Nodes(rest) \union Deeper(t)
  <2> DEFINE g == insertAll(rest, SPTLength, TreePairs(i, below))
  <2>1. /\ TreeHeap(i, g) /\ Nodes(g) \subseteq Nodes(rest) \union Range(below)
        /\ ~Overflow(rest, SPTLength, below) => Nodes(g) = Nodes(rest) \union Range(below)
    BY ZenonT(60), <1>3, <1>4, <1>7, PushNodes
  <2> HIDE DEF g
  <2> QED
    BY ZenonT(60), <1>7, <1>8, <2>1 DEF g
<1>10. /\ RowHeap(i, NG'[w]) /\ Nodes(NG'[w]) \subseteq Nodes(NG[w]) \union NewRow(w, t)
       /\ ~Overflow(NG[w], NGLength, row) => Nodes(NG'[w]) = Nodes(NG[w]) \union NewRow(w, t)
       /\ IsInjective(NG[w]) /\ Nodes(NG[w]) \intersect NewRow(w, t) = {} => IsInjective(NG'[w])
  <2> DEFINE g == insertAll(NG[w], NGLength, RowPairs(i, row))
  <2>1. /\ RowHeap(i, g) /\ Nodes(g) \subseteq Nodes(NG[w]) \union Range(row)
        /\ ~Overflow(NG[w], NGLength, row) => Nodes(g) = Nodes(NG[w]) \union Range(row)
        /\ IsInjective(NG[w]) /\ IsInjective(row) /\ Nodes(NG[w]) \intersect Range(row) = {} => IsInjective(g)
    BY ZenonT(60), <1>3, <1>6, PushRows
  <2> HIDE DEF g
  <2> QED
    BY ZenonT(60), <1>6, <1>8, <2>1 DEF g
<1>11. /\ Nodes(SPT'[w]) \subseteq Nodes(SPT[w]) \union Deeper(t) /\ t \in Nodes(SPT[w])
       /\ ~Overflow(rest, SPTLength, below) => Nodes(SPT[w]) \union Deeper(t) \subseteq Nodes(SPT'[w]) \union {t}
  BY ZenonT(60), <1>4, <1>9
<1>12. \/ lost' = lost \union {i}
       \/ /\ lost' = lost
          /\ Nodes(SPT[w]) \union Deeper(t) \subseteq Nodes(SPT'[w]) \union {t}
          /\ Nodes(NG'[w]) = Nodes(NG[w]) \union NewRow(w, t)
  BY ZenonT(60), <1>1, <1>10, <1>11
<1>13. leaves' = IF Inner(t) \/ NewRow(w, t) = {} THEN leaves ELSE leaves + 1
  <2>1. leaves' = IF Inner(t) THEN leaves ELSE leaves + Len(row)
    BY <1>1, Zenon
  <2>2. leaves \in Nat /\ leaves + 0 = leaves /\ Len(row) = IF NewRow(w, t) = {} THEN 0 ELSE 1
    BY ZenonT(60), <1>2, <1>6, NextNat
  <2> HIDE DEF row
  <2> QED
    BY <2>1, <2>2, Zenon
<1>14. UNCHANGED <<isFirst, emitted, ended, busy, got, limit>>
  BY Zenon, <1>1 DEF iterVars
<1>15. pc' = IF ~Inner(t) /\ leaves' >= limit THEN "graph" ELSE "trees"
  BY ZenonT(60), <1>1
<1> QED
  BY ZenonT(60), <1>4, <1>8, <1>9, <1>10, <1>11, <1>12, <1>13, <1>14, <1>15 DEF TreeView, i, w, t

LEMMA GraphStepView ==
  ASSUME TypeInv, GraphStep
  PROVE  GraphView(busy, space[busy], Top(NG[space[busy]]).node)
<1> DEFINE i == busy
           w == space[i]
           r == Top(NG[w]).node
           members == GroupMembers(r)
           near == Unchecked(w, r)
           new == members \o near
           rest == pop(NG[w])
<1>1. /\ pc = "graph" /\ got = Unset /\ NG[w] # <<>>
      /\ got' = IF r \in index.deleted THEN Unset ELSE r
      /\ NG' = [NG EXCEPT ![w] = insertAll(rest, NGLength, RowPairs(i, new))]
      /\ lost' = IF Overflow(rest, NGLength, new) THEN lost \union {i} ELSE lost
      /\ nodeCheckStatus' = [nodeCheckStatus EXCEPT ![w] = @ \union Range(near)]
      /\ leaves' = leaves + Len(near)
      /\ IF TreeIsNearer(NG'[w], SPT[w])
         THEN pc' = "trees" /\ limit' = LimitAfter(leaves')
         ELSE UNCHANGED <<pc, limit>>
      /\ UNCHANGED <<index, poolVars, SPT, iterVars, emitted, ended, busy>>
  BY Zenon DEF GraphStep
<1>2. busy # NoIter /\ leaves \in Nat /\ limit \in Nat
  BY Zenon, <1>1 DEF TypeInv, CallInv
<1>3. /\ index \in Indexes /\ w \in Space /\ query[i] \in Query /\ RowHeap(i, NG[w])
      /\ DOMAIN SPT = Space /\ DOMAIN NG = Space /\ DOMAIN nodeCheckStatus = Space
  BY <1>2, BusyFacts, Zenon
<1>4. /\ RowHeap(i, rest) /\ r \in index.rows /\ Nodes(NG[w]) = Nodes(rest) \union {r}
      /\ \A n \in Nodes(NG[w]) : Dist[query[i]][r] <= Dist[query[i]][n]
      /\ IsInjective(NG[w]) => IsInjective(rest) /\ r \notin Nodes(rest)
  BY <1>1, <1>3, PopRow, Zenon
<1>5. /\ members \in Seq(index.rows) /\ Range(members) = Group(index, r) \ index.deleted
      /\ Len(index.starts) = 1 => IsInjective(members)
  BY <1>3, <1>4, GroupMembersFacts, Zenon
<1>6. /\ near \in Seq(index.rows) /\ IsInjective(near)
      /\ Range(near) = Range(index.neighbours[r]) \ nodeCheckStatus[w]
  BY ZenonT(60), <1>3, <1>4, UncheckedFacts
<1> HIDE DEF members, near
<1>7. /\ new \in Seq(index.rows) /\ Range(new) = Range(members) \union Range(near)
      /\ IsInjective(members) /\ IsInjective(near) /\ Range(members) \intersect Range(near) = {} => IsInjective(new)
  <2>1. members \in Seq(index.rows) /\ near \in Seq(index.rows)
    BY Zenon, <1>5, <1>6
  <2> QED
    BY <2>1, RangeOfConcat, SMTT(60)
<1> HIDE DEF new, rest, r, i, w
<1>8. Range(new) = NewRows(w, r)
  BY <1>5, <1>6, <1>7, Zenon DEF NewRows
<1>9. /\ NG'[w] = insertAll(rest, NGLength, RowPairs(i, new))
      /\ nodeCheckStatus'[w] = nodeCheckStatus[w] \union Range(near)
      /\ OnlySpace(w)
  <2>1. nodeCheckStatus' = [v \in Space |-> nodeCheckStatus'[v]]
    BY <1>1, <1>3, Zenon
  <2> QED
    BY ZenonT(60), <1>1, <1>3, <2>1 DEF OnlySpace, poolVars, iterVars
<1>10. /\ RowHeap(i, NG'[w]) /\ Nodes(NG'[w]) \subseteq Nodes(rest) \union NewRows(w, r)
       /\ ~Overflow(rest, NGLength, new) => Nodes(NG'[w]) = Nodes(rest) \union NewRows(w, r)
       /\ IsInjective(rest) /\ IsInjective(new) /\ Nodes(rest) \intersect NewRows(w, r) = {} => IsInjective(NG'[w])
  <2> DEFINE g == insertAll(rest, NGLength, RowPairs(i, new))
  <2>1. /\ RowHeap(i, g) /\ Nodes(g) \subseteq Nodes(rest) \union Range(new)
        /\ ~Overflow(rest, NGLength, new) => Nodes(g) = Nodes(rest) \union Range(new)
        /\ IsInjective(rest) /\ IsInjective(new) /\ Nodes(rest) \intersect Range(new) = {} => IsInjective(g)
    BY ZenonT(60), <1>3, <1>4, <1>7, PushRows
  <2> HIDE DEF g
  <2> QED
    BY ZenonT(60), <1>8, <1>9, <2>1 DEF g
<1>11. /\ Nodes(NG'[w]) \subseteq Nodes(NG[w]) \union NewRows(w, r) /\ r \in Nodes(NG[w])
       /\ IsInjective(NG[w]) => Nodes(NG'[w]) \subseteq (Nodes(NG[w]) \ {r}) \union NewRows(w, r)
  BY <1>4, <1>10, Zenon
<1>12. ASSUME Len(index.starts) = 1, IsInjective(NG[w]), (Nodes(NG[w]) \ {r}) \intersect NewRows(w, r) = {},
              Group(index, r) \intersect Range(index.neighbours[r]) = {}
       PROVE  IsInjective(NG'[w])
  <2>1. Nodes(rest) \intersect NewRows(w, r) = {} /\ IsInjective(rest)
    BY <1>4, <1>12, Zenon
  <2>2. Range(members) \intersect Range(near) = {}
    BY ZenonT(60), <1>5, <1>6, <1>12
  <2>3. IsInjective(new)
    BY ZenonT(60), <1>5, <1>6, <1>7, <1>12, <2>2
  <2> QED
    BY ZenonT(60), <1>10, <2>1, <2>3
<1>13. \/ lost' = lost \union {i}
       \/ lost' = lost /\ (Nodes(NG[w]) \ {r}) \union NewRows(w, r) \subseteq Nodes(NG'[w])
  BY ZenonT(60), <1>1, <1>4, <1>10
<1>14. leaves' \in Nat
  <2>1. leaves' = leaves + Len(near)
    BY <1>1, Zenon
  <2>2. near \in Seq(index.rows)
    BY <1>6, Zenon
  <2> QED
    BY ZenonT(60), <1>2, <2>1, <2>2, MoreLeaves
<1>15. limit' \in Nat /\ \/ pc' = "trees" /\ leaves' < limit'
                         \/ pc' = "graph" /\ (NG'[w] = <<>> => SPT[w] = <<>>)
  <2>1. CASE TreeIsNearer(NG'[w], SPT[w])
    <3>1. pc' = "trees" /\ limit' = LimitAfter(leaves')
      BY <1>1, <2>1, Zenon
    <3> QED
      BY <1>14, <3>1, LimitFacts, Zenon
  <2>2. CASE ~TreeIsNearer(NG'[w], SPT[w])
    <3>1. pc' = "graph" /\ limit' = limit
      BY ZenonT(60), <1>1, <2>2
    <3>2. NG'[w] = <<>> => SPT[w] = <<>>
      BY <2>2, Zenon DEF TreeIsNearer
    <3> QED
      BY ZenonT(60), <1>2, <3>1, <3>2
  <2> QED
    BY ZenonT(60), <2>1, <2>2
<1>16. UNCHANGED <<SPT, isFirst, emitted, ended, busy>>
  BY ZenonT(60), <1>1 DEF iterVars
<1>17. /\ got = Unset /\ got' = IF r \in index.deleted THEN Unset ELSE r
       /\ nodeCheckStatus'[w] = nodeCheckStatus[w] \union (Range(index.neighbours[r]) \ nodeCheckStatus[w])
  BY ZenonT(60), <1>1, <1>6, <1>9
<1> QED
  BY ZenonT(60), <1>4, <1>9, <1>10, <1>11, <1>12, <1>13, <1>14, <1>15, <1>16, <1>17 DEF GraphView, i, w, r

LEMMA NextCallView ==
  ASSUME TypeInv, NEW i \in Iter, NextCall(i), i \in isFirst
  PROVE  FirstView(i, space[i])
<1> DEFINE w == space[i]
<1>1. /\ i \in open
      /\ SPT' = [SPT EXCEPT ![w] = insertAll(@, SPTLength, TreePairs(i, FirstNodes))]
      /\ lost' = IF Overflow(SPT[w], SPTLength, FirstNodes) THEN lost \union {i} ELSE lost
      /\ UNCHANGED <<index, poolVars, nodeCheckStatus, NG, query, space, emitted, ended>>
  BY ZenonT(60) DEF NextCall
<1>2. /\ index \in Indexes /\ query[i] \in Query /\ TreeHeap(i, SPT[w])
      /\ DOMAIN SPT = Space /\ DOMAIN NG = Space /\ nodeCheckStatus \in [Space -> SUBSET index.rows]
  BY ZenonT(60), <1>1 DEF TypeInv, SpaceInv
<1>3. w \in Space
  BY <1>1, SpacesOfOpen, Zenon
<1> HIDE DEF w
<1>4. SPT'[w] = insertAll(SPT[w], SPTLength, TreePairs(i, FirstNodes)) /\ OnlySpace(w)
  <2>1. nodeCheckStatus' = [v \in Space |-> nodeCheckStatus'[v]]
    BY ZenonT(60), <1>1, <1>2
  <2> QED
    BY ZenonT(60), <1>1, <1>2, <1>3, <2>1 DEF OnlySpace, poolVars
<1>5. FirstNodes \in Seq(Good(index))
  BY <1>2, FirstNodesFacts, Zenon
<1>6. /\ TreeHeap(i, SPT'[w]) /\ Nodes(SPT'[w]) \subseteq Nodes(SPT[w]) \union Range(FirstNodes)
      /\ ~Overflow(SPT[w], SPTLength, FirstNodes) => Nodes(SPT'[w]) = Nodes(SPT[w]) \union Range(FirstNodes)
  <2> DEFINE g == insertAll(SPT[w], SPTLength, TreePairs(i, FirstNodes))
  <2>1. /\ TreeHeap(i, g) /\ Nodes(g) \subseteq Nodes(SPT[w]) \union Range(FirstNodes)
        /\ ~Overflow(SPT[w], SPTLength, FirstNodes) => Nodes(g) = Nodes(SPT[w]) \union Range(FirstNodes)
    BY ZenonT(60), <1>2, <1>5, PushNodes
  <2> HIDE DEF g
  <2> QED
    BY <1>4, <2>1, Zenon DEF g
<1>7. UNCHANGED <<NG, nodeCheckStatus, emitted, ended>>
  BY ZenonT(60), <1>1
<1> QED
  BY ZenonT(60), <1>1, <1>4, <1>6, <1>7 DEF FirstView, w

-----------------------------------------------------------------------------
(* The types hold in every reachable state.                                *)
LEMMA HeapTypes ==
  ASSUME index \in Indexes, NEW i, query[i] \in Query
  PROVE  /\ \A h : TreeHeap(i, h) => Nodes(h) \subseteq TreeNode /\ Len(h) <= SPTLength /\ HeapOrdered(h)
         /\ \A h : RowHeap(i, h) => Nodes(h) \subseteq Row /\ Len(h) <= NGLength /\ HeapOrdered(h)
<1> DEFINE D == TreeDist(index, query[i])
           R == RowDist(index, query[i])
<1>1. /\ DOMAIN D = Good(index) /\ \A n \in DOMAIN D : D[n] \in Int
      /\ DOMAIN R = index.rows /\ \A n \in DOMAIN R : R[n] \in Int
  BY ZenonT(60), DistFacts
<1>2. Good(index) \subseteq TreeNode /\ index.rows \subseteq Row
  BY RowFacts, Zenon DEF Good, TreeNode
<1> HIDE DEF D, R
<1>3. ASSUME NEW h, TreeHeap(i, h)
      PROVE  Nodes(h) \subseteq TreeNode /\ Len(h) <= SPTLength /\ HeapOrdered(h)
  <2>1. h \in Seq(Pairs(D)) /\ Len(h) <= SPTLength /\ HeapOrdered(h)
    BY <1>3, Zenon DEF TreeHeap, IsHeap, D
  <2>2. Nodes(h) \subseteq DOMAIN D
    BY ZenonT(60), <1>1, <2>1, NodesOfPairs
  <2> QED
    BY <1>1, <1>2, <2>1, <2>2, Zenon
<1>4. ASSUME NEW h, RowHeap(i, h)
      PROVE  Nodes(h) \subseteq Row /\ Len(h) <= NGLength /\ HeapOrdered(h)
  <2>1. h \in Seq(Pairs(R)) /\ Len(h) <= NGLength /\ HeapOrdered(h)
    BY <1>4, Zenon DEF RowHeap, IsHeap, R
  <2>2. Nodes(h) \subseteq DOMAIN R
    BY ZenonT(60), <1>1, <2>1, NodesOfPairs
  <2> QED
    BY <1>1, <1>2, <2>1, <2>2, Zenon
<1> QED
  BY <1>3, <1>4, Zenon

LEMMA NoEntries ==
  ASSUME index \in Indexes
  PROVE  \A D : IsHeap(D, SPTLength, <<>>) /\ IsHeap(D, NGLength, <<>>)
<1>1. SPTLength \in Nat /\ NGLength \in Nat
  BY LengthFacts, Zenon
<1>2. Len(<<>>) = 0 /\ HeapOrdered(<<>>) /\ \A E : <<>> \in Seq(E)
  BY DEF HeapOrdered
<1>3. Len(<<>>) <= SPTLength /\ Len(<<>>) <= NGLength
  BY SMTT(60), <1>1, <1>2
<1> QED
  BY <1>2, <1>3, Zenon DEF IsHeap

(* A step of a call changes one work space, which no other iterator has.   *)
LEMMA SpaceStep ==
  ASSUME TypeInv, NEW i \in open, OnlySpace(space[i]), nodeCheckStatus'[space[i]] \subseteq index.rows,
         TreeHeap(i, SPT'[space[i]]), RowHeap(i, NG'[space[i]])
  PROVE  SpaceInv'
<1> DEFINE w == space[i]
           Sized(h, g) == /\ Nodes(h) \subseteq TreeNode /\ Len(h) <= SPTLength /\ HeapOrdered(h)
                          /\ Nodes(g) \subseteq Row /\ Len(g) <= NGLength /\ HeapOrdered(g)
<1>1. /\ index' = index /\ query' = query /\ space' = space
      /\ DOMAIN SPT' = Space /\ DOMAIN NG' = Space
      /\ \A v \in Space : v # w =>
           SPT'[v] = SPT[v] /\ NG'[v] = NG[v] /\ nodeCheckStatus'[v] = nodeCheckStatus[v]
  BY Zenon DEF OnlySpace
<1>2. /\ index \in Indexes /\ nodeCheckStatus \in [Space -> SUBSET index.rows]
      /\ \A v \in Space : Sized(SPT[v], NG[v])
      /\ \A j \in open : query[j] \in Query /\ TreeHeap(j, SPT[space[j]]) /\ RowHeap(j, NG[space[j]])
  BY Zenon DEF TypeInv, SpaceInv
<1>3. \A j \in open : space[j] = w => j = i
  BY Zenon DEF TypeInv, PoolInv, Isolation
<1>4. open' = open
  BY ZenonT(60), <1>1 DEF open
<1>5. \A j \in open : space[j] \in Space
  BY SpacesOfOpen, Zenon
<1>6. \A j \in open : TreeHeap(j, SPT'[space[j]]) /\ RowHeap(j, NG'[space[j]])
  <2> SUFFICES ASSUME NEW j \in open PROVE TreeHeap(j, SPT'[space[j]]) /\ RowHeap(j, NG'[space[j]])
    BY ZenonT(60)
  <2>1. CASE j = i
    BY ZenonT(60), <2>1
  <2>2. CASE j # i
    <3>1. SPT'[space[j]] = SPT[space[j]] /\ NG'[space[j]] = NG[space[j]]
      BY ZenonT(60), <1>1, <1>3, <1>5, <2>2
    <3> QED
      BY ZenonT(60), <1>2, <3>1
  <2> QED
    BY ZenonT(60), <2>1, <2>2
<1>7. Sized(SPT'[w], NG'[w])
  BY <1>2, HeapTypes, Zenon
<1> HIDE DEF w
<1>8. \A v \in Space : Sized(SPT'[v], NG'[v])
  <2> HIDE DEF Sized
  <2> SUFFICES ASSUME NEW v \in Space PROVE Sized(SPT'[v], NG'[v])
    BY Zenon
  <2>1. CASE v = w
    BY ZenonT(60), <1>7, <2>1
  <2>2. CASE v # w
    <3>1. SPT'[v] = SPT[v] /\ NG'[v] = NG[v]
      BY ZenonT(60), <1>1, <2>2
    <3> QED
      BY ZenonT(60), <1>2, <3>1
  <2> QED
    BY ZenonT(60), <2>1, <2>2
<1>9. nodeCheckStatus' \in [Space -> SUBSET index.rows]
  <2>1. nodeCheckStatus' = [v \in Space |-> nodeCheckStatus'[v]]
    BY Zenon DEF OnlySpace
  <2>2. \A v \in Space : nodeCheckStatus'[v] \in SUBSET index.rows
    BY ZenonT(60), <1>1, <1>2 DEF w
  <2> QED
    BY ZenonT(60), <2>1, <2>2
<1>10. SPTLength' = SPTLength /\ NGLength' = NGLength /\ TreeNode' = TreeNode
  BY ZenonT(60), <1>1 DEF SPTLength, NGLength, TreeNode
<1>11. \A j \in open' : query'[j] \in Query /\ TreeHeap(j, SPT[space[j]])' /\ RowHeap(j, NG[space[j]])'
  <2>1. \A j : (TreeHeap(j, SPT[space[j]])' <=> TreeHeap(j, SPT'[space[j]]))
               /\ (RowHeap(j, NG[space[j]])' <=> RowHeap(j, NG'[space[j]]))
    BY <1>1, <1>10, Zenon DEF TreeHeap, RowHeap
  <2> QED
    BY ZenonT(60), <1>1, <1>2, <1>4, <1>6, <2>1
<1>12. \A v \in Space : /\ Nodes(SPT'[v]) \subseteq TreeNode' /\ Len(SPT'[v]) <= SPTLength' /\ HeapOrdered(SPT'[v])
                        /\ Nodes(NG'[v]) \subseteq Row /\ Len(NG'[v]) <= NGLength' /\ HeapOrdered(NG'[v])
  BY <1>8, <1>10, Zenon
<1>13. nodeCheckStatus' \in [Space -> SUBSET index'.rows]
  BY ZenonT(60), <1>1, <1>9
<1> QED
  BY ZenonT(60), <1>1, <1>11, <1>12, <1>13 DEF SpaceInv

LEMMA TypeInit == Init => TypeInv
<1> SUFFICES ASSUME Init PROVE TypeInv
  BY Zenon
<1>1. index \in Indexes /\ made \in Threads..MaxSpaces
  BY PoolAssumption DEF Init
<1>2. PoolInv
  BY ZenonT(60), PoolInit
<1>3. open = {}
  BY Zenon DEF Init, open
<1>4. SpaceInv
  <2>1. \A w \in Space : SPT[w] = <<>> /\ NG[w] = <<>>
    BY Zenon DEF Init
  <2>2. SPTLength \in Nat /\ NGLength \in Nat
    BY ZenonT(60), <1>1, LengthFacts
  <2>3. Nodes(<<>>) = {} /\ Len(<<>>) = 0 /\ HeapOrdered(<<>>)
    BY DEF Nodes, HeapOrdered
  <2>4. \A w \in Space :
          /\ Nodes(SPT[w]) \subseteq TreeNode /\ Len(SPT[w]) <= SPTLength /\ HeapOrdered(SPT[w])
          /\ Nodes(NG[w]) \subseteq Row /\ Len(NG[w]) <= NGLength /\ HeapOrdered(NG[w])
    BY SMTT(60), <2>1, <2>2, <2>3
  <2>5. DOMAIN SPT = Space /\ DOMAIN NG = Space /\ nodeCheckStatus \in [Space -> SUBSET index.rows]
    BY Zenon DEF Init
  <2> QED
    BY ZenonT(60), <1>3, <2>4, <2>5 DEF SpaceInv
<1>5. CallInv
  <2>1. <<>> \in Seq(index.rows)
    OBVIOUS
  <2>2. /\ busy = NoIter /\ pc = "idle" /\ got = Unset /\ leaves = 0 /\ limit = 0
        /\ isFirst = {} /\ ended = {} /\ lost = {} /\ query = [i \in Iter |-> Unset]
        /\ emitted = [i \in Iter |-> <<>>]
    BY Zenon DEF Init
  <2> QED
    BY ZenonT(60), <2>1, <2>2 DEF CallInv
<1> QED
  BY ZenonT(60), <1>1, <1>2, <1>4, <1>5 DEF TypeInv

LEMMA TypeOpen ==
  ASSUME TypeInv, NEW i \in Iter, NEW q \in Query, NEW w \in Space, GetIterator(i, q, w)
  PROVE  TypeInv'
<1>1. PoolInv'
  BY ZenonT(60), RentStep DEF TypeInv
<1>2. /\ busy = NoIter /\ i \notin open /\ Rent(w)
      /\ nodeCheckStatus' = [nodeCheckStatus EXCEPT ![w] = {}]
      /\ SPT' = [SPT EXCEPT ![w] = <<>>] /\ NG' = [NG EXCEPT ![w] = <<>>]
      /\ query' = [query EXCEPT ![i] = q] /\ space' = [space EXCEPT ![i] = w]
      /\ isFirst' = isFirst \union {i}
      /\ index' = index /\ emitted' = emitted /\ ended' = ended /\ lost' = lost
      /\ busy' = busy /\ pc' = pc /\ got' = got /\ leaves' = leaves /\ limit' = limit
  BY ZenonT(60) DEF GetIterator, Reset, callVars
<1>3. made' \in Threads..MaxSpaces
  BY SMTT(60), <1>2, PoolAssumption DEF TypeInv, Rent, Space
<1>4. /\ index \in Indexes /\ SpaceInv /\ CallInv /\ space \in [Iter -> 0..made]
      /\ query \in [Iter -> Query \union {Unset}]
  BY Zenon DEF TypeInv, PoolInv, CallInv
<1>5. w # Null /\ w # 0
  BY DEF Space, Null
<1>6. /\ open' = open \union {i} /\ space'[i] = w /\ query'[i] = q
      /\ \A j \in open : space'[j] = space[j] /\ query'[j] = query[j]
  BY ZenonT(60), <1>2, <1>4, <1>5 DEF open
<1>7. \A j \in open : space[j] # w /\ space[j] \in Space
  <2>1. \A j \in open : space[j] # w
    BY ZenonT(60), <1>1, <1>2, <1>6 DEF PoolInv, Isolation
  <2>2. \A j \in open : space[j] \in Space
    BY SpacesOfOpen, Zenon
  <2> QED
    BY SMTT(30), <2>1, <2>2
<1>8. /\ DOMAIN SPT = Space /\ DOMAIN NG = Space /\ nodeCheckStatus \in [Space -> SUBSET index.rows]
  BY <1>4, Zenon DEF SpaceInv
<1>9. /\ DOMAIN SPT' = Space /\ DOMAIN NG' = Space /\ nodeCheckStatus' \in [Space -> SUBSET index.rows]
      /\ SPT'[w] = <<>> /\ NG'[w] = <<>>
      /\ \A v \in Space : v # w => SPT'[v] = SPT[v] /\ NG'[v] = NG[v]
  BY ZenonT(60), <1>2, <1>8
<1>10. SPTLength' = SPTLength /\ NGLength' = NGLength /\ TreeNode' = TreeNode
  BY <1>2 DEF SPTLength, NGLength, TreeNode
<1>11. \A v \in Space : /\ Nodes(SPT'[v]) \subseteq TreeNode' /\ Len(SPT'[v]) <= SPTLength' /\ HeapOrdered(SPT'[v])
                        /\ Nodes(NG'[v]) \subseteq Row /\ Len(NG'[v]) <= NGLength' /\ HeapOrdered(NG'[v])
  <2> DEFINE Sized(h, g) == /\ Nodes(h) \subseteq TreeNode /\ Len(h) <= SPTLength /\ HeapOrdered(h)
                            /\ Nodes(g) \subseteq Row /\ Len(g) <= NGLength /\ HeapOrdered(g)
  <2>1. \A v \in Space : Sized(SPT[v], NG[v])
    BY <1>4, Zenon DEF SpaceInv
  <2>2. Sized(<<>>, <<>>)
    <3>1. SPTLength \in Nat /\ NGLength \in Nat
      BY ZenonT(60), <1>4, LengthFacts
    <3>2. Nodes(<<>>) = {} /\ Len(<<>>) = 0 /\ HeapOrdered(<<>>)
      BY DEF Nodes, HeapOrdered
    <3> QED
      BY SMTT(30), <3>1, <3>2
  <2> HIDE DEF Sized
  <2>3. \A v \in Space : Sized(SPT'[v], NG'[v])
    BY ZenonT(60), <1>9, <2>1, <2>2
  <2> QED
    BY <1>10, <2>3, Zenon DEF Sized
<1>12. \A j \in open' : query'[j] \in Query /\ TreeHeap(j, SPT[space[j]])' /\ RowHeap(j, NG[space[j]])'
  <2> SUFFICES ASSUME NEW j \in open'
               PROVE  query'[j] \in Query /\ TreeHeap(j, SPT[space[j]])' /\ RowHeap(j, NG[space[j]])'
    BY ZenonT(60)
  <2>1. CASE j = i
    <3>1. SPT'[space'[i]] = <<>> /\ NG'[space'[i]] = <<>> /\ query'[i] \in Query
      BY SMTT(30), <1>6, <1>9
    <3>2. TreeHeap(i, <<>>)' /\ RowHeap(i, <<>>)'
      <4>1. index' \in Indexes
        BY ZenonT(60), <1>2, <1>4
      <4> QED
        BY ZenonT(60), <1>2, <1>4, <1>10, NoEntries DEF TreeHeap, RowHeap
    <3> QED
      BY ZenonT(60), <2>1, <3>1, <3>2 DEF TreeHeap, RowHeap
  <2>2. CASE j # i
    <3>1. j \in open
      BY ZenonT(60), <1>6, <2>2
    <3>2. /\ SPT'[space'[j]] = SPT[space[j]] /\ NG'[space'[j]] = NG[space[j]] /\ query'[j] = query[j]
      BY ZenonT(60), <1>6, <1>7, <1>9, <3>1
    <3>3. query[j] \in Query /\ TreeHeap(j, SPT[space[j]]) /\ RowHeap(j, NG[space[j]])
      BY <1>4, <3>1, Zenon DEF SpaceInv
    <3> QED
      BY ZenonT(60), <1>2, <1>10, <3>2, <3>3 DEF TreeHeap, RowHeap
  <2> QED
    BY ZenonT(60), <2>1, <2>2
<1>13. SpaceInv'
  BY ZenonT(60), <1>2, <1>9, <1>11, <1>12 DEF SpaceInv
<1>14. query' \in [Iter -> Query \union {Unset}]
  BY ZenonT(60), <1>2, <1>4
<1>15. CallInv'
  <2>1. i # NoIter
    BY ZenonT(60), UnsetAssumption
  <2> QED
    BY ZenonT(60), <1>2, <1>4, <1>6, <1>14, <2>1 DEF CallInv
<1> QED
  BY ZenonT(60), <1>1, <1>2, <1>3, <1>4, <1>13, <1>15 DEF TypeInv

LEMMA TypeClose ==
  ASSUME TypeInv, NEW i \in Iter, Close(i) \/ Abort(i)
  PROVE  TypeInv'
<1>1. PoolInv'
  BY ZenonT(60), ReturnStep DEF TypeInv
<1>2. /\ busy = NoIter /\ i \in open
      /\ query' = [query EXCEPT ![i] = Unset] /\ space' = [space EXCEPT ![i] = Null]
      /\ isFirst' = isFirst \ {i} /\ ended' = ended \ {i} /\ lost' = lost \ {i}
      /\ emitted' = [emitted EXCEPT ![i] = <<>>]
      /\ index' = index /\ made' = made
      /\ nodeCheckStatus' = nodeCheckStatus /\ SPT' = SPT /\ NG' = NG
      /\ busy' = busy /\ pc' = pc /\ got' = got /\ leaves' = leaves /\ limit' = limit
  BY Zenon DEF Close, Abort, Dispose, spaceVars, callVars
<1>3. /\ index \in Indexes /\ made \in Threads..MaxSpaces /\ SpaceInv /\ CallInv /\ space \in [Iter -> 0..made]
      /\ query \in [Iter -> Query \union {Unset}] /\ emitted \in [Iter -> Seq(index.rows)]
  BY Zenon DEF TypeInv, PoolInv, CallInv
<1>4. /\ open' = open \ {i}
      /\ \A j \in open' : space'[j] = space[j] /\ query'[j] = query[j]
  BY ZenonT(60), <1>2, <1>3 DEF open
<1>5. SPTLength' = SPTLength /\ NGLength' = NGLength /\ TreeNode' = TreeNode
  BY ZenonT(60), <1>2 DEF SPTLength, NGLength, TreeNode
<1>6. \A j \in open' : query'[j] \in Query /\ TreeHeap(j, SPT[space[j]])' /\ RowHeap(j, NG[space[j]])'
  <2> SUFFICES ASSUME NEW j \in open'
               PROVE  query'[j] \in Query /\ TreeHeap(j, SPT[space[j]])' /\ RowHeap(j, NG[space[j]])'
    BY ZenonT(60)
  <2>1. SPT'[space'[j]] = SPT[space[j]] /\ NG'[space'[j]] = NG[space[j]] /\ query'[j] = query[j] /\ j \in open
    BY ZenonT(60), <1>2, <1>4
  <2>2. query[j] \in Query /\ TreeHeap(j, SPT[space[j]]) /\ RowHeap(j, NG[space[j]])
    BY <1>3, <2>1, Zenon DEF SpaceInv
  <2> QED
    BY ZenonT(60), <1>2, <1>5, <2>1, <2>2 DEF TreeHeap, RowHeap
<1>7. SpaceInv'
  BY ZenonT(60), <1>2, <1>3, <1>5, <1>6 DEF SpaceInv
<1>8. query' \in [Iter -> Query \union {Unset}]
  BY ZenonT(60), <1>2, <1>3
<1>9. /\ emitted' \in [Iter -> Seq(index.rows)] /\ emitted'[i] = <<>>
      /\ \A j \in Iter : j # i => emitted'[j] = emitted[j]
  <2>1. <<>> \in Seq(index.rows)
    OBVIOUS
  <2> QED
    BY <1>2, <1>3, <2>1, Zenon
<1>10. CallInv'
  BY ZenonT(60), <1>2, <1>3, <1>4, <1>8, <1>9 DEF CallInv
<1> QED
  BY ZenonT(60), <1>1, <1>2, <1>3, <1>7, <1>10 DEF TypeInv

(* The pool does not change in a call.                                     *)
LEMMA PoolKept ==
  ASSUME PoolInv, made' = made, pool' = pool, space' = space
  PROVE  PoolInv'
BY Zenon DEF PoolInv, Isolation, open

LEMMA SpacesKept ==
  ASSUME SpaceInv, UNCHANGED <<index, spaceVars, query, space>>
  PROVE  SpaceInv'
<1>1. /\ index' = index /\ nodeCheckStatus' = nodeCheckStatus /\ SPT' = SPT /\ NG' = NG /\ query' = query /\ space' = space
  BY Zenon DEF spaceVars
<1> QED
  BY <1>1, Zenon DEF SpaceInv, open, TreeHeap, RowHeap, SPTLength, NGLength, TreeNode

LEMMA TypeNextCall ==
  ASSUME TypeInv, NEW i \in Iter, NextCall(i)
  PROVE  TypeInv'
<1>1. /\ busy = NoIter /\ i \in open /\ busy' = i /\ leaves' = 0 /\ got' = Unset
      /\ isFirst' = isFirst \ {i}
      /\ pc' \in {"trees", "graph"} /\ limit' \in {InitialPivots, 0}
      /\ index' = index /\ made' = made /\ pool' = pool /\ query' = query /\ space' = space
      /\ emitted' = emitted /\ ended' = ended
  BY ZenonT(60) DEF NextCall, poolVars
<1>2. PoolInv' /\ index' \in Indexes /\ made' \in Threads..MaxSpaces
  BY ZenonT(60), <1>1, PoolKept DEF TypeInv
<1>3. open' = open
  BY ZenonT(60), <1>1 DEF open
<1>4. SpaceInv' /\ (lost' = lost \/ lost' = lost \union {i})
  <2>1. CASE i \in isFirst
    <3> DEFINE w == space[i]
    <3>1. FirstView(i, w)
      BY ZenonT(60), <2>1, NextCallView
    <3>2. /\ OnlySpace(w) /\ NG' = NG /\ nodeCheckStatus' = nodeCheckStatus /\ TreeHeap(i, SPT'[w])
          /\ (lost' = lost \/ lost' = lost \union {i})
      BY ZenonT(60), <3>1 DEF FirstView
    <3>3. w \in Space
      BY ZenonT(60), <1>1, SpacesOfOpen
    <3>4. RowHeap(i, NG'[w]) /\ nodeCheckStatus'[w] \subseteq index.rows
      BY ZenonT(60), <1>1, <3>2, <3>3 DEF TypeInv, SpaceInv
    <3> QED
      BY ZenonT(60), <1>1, <3>2, <3>4, SpaceStep
  <2>2. CASE i \notin isFirst
    <3>1. UNCHANGED <<index, spaceVars, query, space>> /\ lost' = lost
      BY ZenonT(60), <1>1, <2>2 DEF NextCall, spaceVars
    <3> QED
      BY ZenonT(60), <3>1, SpacesKept DEF TypeInv
  <2> QED
    BY ZenonT(60), <2>1, <2>2
<1>5. CallInv'
  <2>1. limit' \in Nat /\ leaves' \in Nat /\ pc' # "idle"
    BY SMTT(30), <1>1, PivotAssumption
  <2>2. i # NoIter /\ CallInv
    BY ZenonT(60), UnsetAssumption DEF TypeInv
  <2> QED
    BY ZenonT(60), <1>1, <1>3, <1>4, <2>1, <2>2 DEF CallInv
<1> QED
  BY ZenonT(60), <1>2, <1>4, <1>5 DEF TypeInv

LEMMA TypeTreeStep ==
  ASSUME TypeInv, TreeStep
  PROVE  TypeInv'
<1> DEFINE i == busy
           w == space[i]
           t == Top(SPT[w]).node
<1>1. TreeView(i, w, t)
  BY TreeStepView, Zenon
<1>2. pc = "trees"
  BY Zenon DEF TreeStep
<1>3. busy # NoIter
  BY ZenonT(60), <1>2 DEF TypeInv, CallInv
<1>4. i \in open /\ w \in Space
  BY ZenonT(60), <1>3, BusyFacts
<1> HIDE DEF i, w, t
<1>5. /\ t \in Good(index) /\ OnlySpace(w) /\ TreeHeap(i, SPT'[w]) /\ RowHeap(i, NG'[w])
      /\ nodeCheckStatus'[w] = nodeCheckStatus[w] \union {center(t)}
      /\ lost' = lost \/ lost' = lost \union {i}
      /\ leaves' = leaves \/ leaves' = leaves + 1
      /\ pc' \in {"trees", "graph"}
      /\ isFirst' = isFirst /\ emitted' = emitted /\ ended' = ended /\ busy' = busy /\ got' = got /\ limit' = limit
  BY ZenonT(60), <1>1 DEF TreeView
<1>6. index' = index /\ made' = made /\ pool' = pool /\ query' = query /\ space' = space
  BY ZenonT(60), <1>5 DEF OnlySpace
<1>7. nodeCheckStatus'[w] \subseteq index.rows
  <2>1. center(t) \in index.rows
    BY <1>5, Zenon DEF Good, center
  <2> QED
    BY ZenonT(60), <1>4, <1>5, <2>1 DEF TypeInv, SpaceInv
<1>8. SpaceInv'
  BY ZenonT(60), <1>4, <1>5, <1>7, SpaceStep DEF w
<1>9. PoolInv' /\ index' \in Indexes /\ made' \in Threads..MaxSpaces
  BY ZenonT(60), <1>6, PoolKept DEF TypeInv
<1>10. open' = open
  BY ZenonT(60), <1>6 DEF open
<1>11. CallInv'
  <2>1. CallInv /\ pc' # "idle"
    BY ZenonT(60), <1>5 DEF TypeInv
  <2>2. leaves' \in Nat
    <3>1. leaves \in Nat /\ (leaves' = leaves \/ leaves' = leaves + 1)
      BY <1>5, <2>1, Zenon DEF CallInv
    <3> QED
      BY ZenonT(60), <3>1, NextNat
  <2> QED
    BY <1>3, <1>4, <1>5, <1>6, <1>10, <2>1, <2>2, Zenon DEF CallInv
<1> QED
  BY ZenonT(60), <1>8, <1>9, <1>11 DEF TypeInv

LEMMA TypeGraphStep ==
  ASSUME TypeInv, GraphStep
  PROVE  TypeInv'
<1> DEFINE i == busy
           w == space[i]
           r == Top(NG[w]).node
<1>1. GraphView(i, w, r)
  BY GraphStepView, Zenon
<1>2. pc = "graph"
  BY Zenon DEF GraphStep
<1>3. busy # NoIter
  BY ZenonT(60), <1>2 DEF TypeInv, CallInv
<1>4. i \in open /\ w \in Space /\ index \in Indexes /\ TreeHeap(i, SPT[w])
  BY ZenonT(60), <1>3, BusyFacts
<1> HIDE DEF i, w, r
<1>5. /\ r \in index.rows /\ OnlySpace(w) /\ SPT' = SPT /\ RowHeap(i, NG'[w])
      /\ nodeCheckStatus'[w] \subseteq nodeCheckStatus[w] \union Range(index.neighbours[r])
      /\ lost' = lost \/ lost' = lost \union {i}
      /\ leaves' \in Nat /\ limit' \in Nat /\ pc' \in {"trees", "graph"}
      /\ got' \in {r, Unset}
      /\ isFirst' = isFirst /\ emitted' = emitted /\ ended' = ended /\ busy' = busy
  BY Zenon, <1>1 DEF GraphView
<1>6. index' = index /\ made' = made /\ pool' = pool /\ query' = query /\ space' = space
  BY ZenonT(60), <1>5 DEF OnlySpace
<1>7. nodeCheckStatus'[w] \subseteq index.rows
  <2>1. index.neighbours[r] \in Seq(index.rows)
    BY ZenonT(60), <1>4, <1>5, RowFacts
  <2>2. Range(index.neighbours[r]) \subseteq index.rows
    BY ZenonT(60), <2>1, RangeOfSeq
  <2>3. nodeCheckStatus[w] \subseteq index.rows
    BY Zenon, <1>4 DEF TypeInv, SpaceInv
  <2> QED
    BY ZenonT(60), <1>5, <2>2, <2>3
<1>8. SpaceInv'
  BY ZenonT(60), <1>4, <1>5, <1>7, SpaceStep DEF w
<1>9. PoolInv' /\ index' \in Indexes /\ made' \in Threads..MaxSpaces
  BY <1>6, PoolKept, Zenon DEF TypeInv
<1>10. open' = open
  BY Zenon, <1>6 DEF open
<1>11. CallInv'
  <2>1. CallInv /\ pc' # "idle"
    BY ZenonT(60), <1>5 DEF TypeInv
  <2>2. got' \in index.rows \union {Unset}
    BY <1>5, Zenon
  <2> QED
    BY ZenonT(60), <1>3, <1>4, <1>5, <1>6, <1>10, <2>1, <2>2 DEF CallInv
<1> QED
  BY <1>8, <1>9, <1>11, Zenon DEF TypeInv

(* The end of a loop or of a call changes no queue.                        *)
LEMMA TypeOtherStep ==
  ASSUME TypeInv, TreesEmpty \/ Result \/ NoResult
  PROVE  TypeInv'
<1>1. /\ index' = index /\ made' = made /\ pool' = pool /\ query' = query /\ space' = space /\ isFirst' = isFirst
      /\ UNCHANGED <<index, spaceVars, query, space>> /\ lost' = lost /\ pc # "idle"
  BY Zenon DEF TreesEmpty, Result, NoResult, poolVars, iterVars
<1>2. PoolInv' /\ SpaceInv' /\ index' \in Indexes /\ made' \in Threads..MaxSpaces
  BY ZenonT(60), <1>1, PoolKept, SpacesKept DEF TypeInv
<1>3. open' = open
  BY ZenonT(60), <1>1 DEF open
<1>4. CallInv /\ busy # NoIter /\ busy \in open /\ busy \in Iter
  <2>1. CallInv /\ busy # NoIter
    BY <1>1, Zenon DEF TypeInv, CallInv
  <2> QED
    BY <2>1, BusyFacts, Zenon
<1>5. CASE TreesEmpty
  <2>1. pc' = "graph" /\ emitted' = emitted /\ ended' = ended /\ busy' = busy /\ got' = got /\ leaves' = leaves /\ limit' = limit
    BY ZenonT(60), <1>5 DEF TreesEmpty
  <2>2. pc' \in {"idle", "trees", "graph"} /\ pc' # "idle"
    BY ZenonT(60), <2>1
  <2>3. CallInv'
    BY ZenonT(60), <1>1, <1>3, <1>4, <2>1, <2>2 DEF CallInv
  <2> QED
    BY ZenonT(60), <1>2, <2>3 DEF TypeInv
<1>6. CASE Result \/ NoResult
  <2>1. /\ busy' = NoIter /\ pc' = "idle" /\ got' = Unset /\ leaves' = 0 /\ limit' = 0
        /\ ended' = ended \/ ended' = ended \union {busy}
        /\ emitted' = emitted \/ (got # Unset /\ emitted' = [emitted EXCEPT ![busy] = Append(@, got)])
    BY ZenonT(60), <1>6 DEF Result, NoResult, EndCall
  <2>2. emitted' \in [Iter -> Seq(index.rows)] /\ \A j \in Iter : j # busy => emitted'[j] = emitted[j]
    <3>1. CASE emitted' = emitted
      BY ZenonT(60), <1>4, <3>1 DEF CallInv
    <3>2. CASE got # Unset /\ emitted' = [emitted EXCEPT ![busy] = Append(@, got)]
      <4>1. got \in index.rows /\ emitted \in [Iter -> Seq(index.rows)]
        BY <1>4, <3>2, Zenon DEF CallInv
      <4>2. emitted[busy] \in Seq(index.rows)
        BY ZenonT(60), <1>4, <4>1
      <4>3. Append(emitted[busy], got) \in Seq(index.rows)
        BY ZenonT(60), <4>1, <4>2, AppendInSeq
      <4> QED
        BY ZenonT(60), <1>4, <3>2, <4>1, <4>3
    <3> QED
      BY ZenonT(60), <2>1, <3>1, <3>2
  <2>3. leaves' \in Nat /\ limit' \in Nat /\ NoIter \notin isFirst
    BY ZenonT(60), <2>1, <1>4, UnsetAssumption DEF CallInv, open
  <2>4. CallInv'
    BY ZenonT(60), <1>1, <1>3, <1>4, <2>1, <2>2, <2>3 DEF CallInv
  <2> QED
    BY <1>2, <2>4, Zenon DEF TypeInv
<1> QED
  BY ZenonT(60), <1>5, <1>6

LEMMA TypeStep == TypeInv /\ [Next]_vars => TypeInv'
<1> SUFFICES ASSUME TypeInv, [Next]_vars PROVE TypeInv'
  BY Zenon
<1>1. CASE UNCHANGED vars
  <2>1. /\ index' = index /\ made' = made /\ pool' = pool /\ query' = query /\ space' = space /\ isFirst' = isFirst
        /\ UNCHANGED <<index, spaceVars, query, space>> /\ lost' = lost /\ ended' = ended /\ emitted' = emitted
        /\ busy' = busy /\ pc' = pc /\ got' = got /\ leaves' = leaves /\ limit' = limit
    BY ZenonT(60), <1>1 DEF vars, poolVars, spaceVars, iterVars, callVars
  <2>2. PoolInv' /\ SpaceInv' /\ index' \in Indexes /\ made' \in Threads..MaxSpaces
    BY ZenonT(60), <2>1, PoolKept, SpacesKept DEF TypeInv
  <2>3. CallInv'
    BY <2>1, Zenon DEF TypeInv, CallInv, open
  <2> QED
    BY ZenonT(60), <2>2, <2>3 DEF TypeInv
<1>2. CASE \E i \in Iter, q \in Query, w \in Space : GetIterator(i, q, w)
  BY <1>2, TypeOpen, Zenon
<1>3. CASE \E i \in Iter : Close(i) \/ Abort(i) \/ NextCall(i)
  BY ZenonT(60), <1>3, TypeClose, TypeNextCall
<1>4. CASE Call
  BY ZenonT(60), <1>4, TypeTreeStep, TypeGraphStep, TypeOtherStep DEF Call
<1> QED
  BY ZenonT(60), <1>1, <1>2, <1>3, <1>4 DEF Next

LEMMA TypeAlways == Spec => []TypeInv
BY TypeInit, TypeStep, PTL DEF Spec

(* Through every interleaving of iterators on one index, with queues that  *)
(* fill up, the queues stay within the sizes WorkSpace gives them and in   *)
(* heap order, they name rows and tree nodes of the index, and every field *)
(* holds a value of its type.                                              *)
THEOREM TypeCorrect == Spec => []TypeOK
<1>1. TypeInv => TypeOK
  <2> SUFFICES ASSUME TypeInv PROVE TypeOK
    BY ZenonT(60)
  <2>1. index.rows \subseteq Row
    BY ZenonT(60), RowFacts DEF TypeInv
  <2>2. nodeCheckStatus \in [Space -> SUBSET Row]
    BY ZenonT(60), <2>1 DEF TypeInv, SpaceInv
  <2>3. emitted \in [Iter -> Seq(Row)]
    <3>1. Seq(index.rows) \subseteq Seq(Row)
      BY SMTT(60), <2>1
    <3> QED
      BY ZenonT(60), <3>1 DEF TypeInv, CallInv
  <2>4. open \subseteq Iter
    BY Zenon DEF open
  <2> QED
    BY ZenonT(60), <2>1, <2>2, <2>3, <2>4 DEF TypeInv, PoolInv, SpaceInv, CallInv, TypeOK
<1> QED
  BY <1>1, TypeAlways, PTL
=============================================================================

-------------------------- MODULE BktSearchProofs --------------------------
(***************************************************************************)
(* What one search of an SPTAG index returns, for indexes with one tree:   *)
(* no row comes twice, the end means that every row was returned, and the  *)
(* order is wrong only by what the graph had not shown.  SearchInv has,    *)
(* for every open iterator, a part that holds whatever the queues give up  *)
(* (Sound) and parts that hold until they do (Lossless, Complete).  It is  *)
(* preserved by what BktIteratorProofs shows a step to do to the queues.   *)
(* From the sound part also follows that every row is taken once, so that  *)
(* the graph search of a call ends (AwaitedInv).                           *)
(***************************************************************************)
EXTENDS BktIteratorProofs

-----------------------------------------------------------------------------
(* The rows an iterator has taken from its queue: those returned and the   *)
(* one a running call is about to return.                                  *)
Taken(i) == IF busy = i /\ got # Unset THEN Append(emitted[i], got) ELSE emitted[i]

Sound(x, checked, spt, ng, e) ==
  /\ StreamOK(x, checked, Nodes(spt), Nodes(ng), Range(e))
  /\ IsInjective(ng) /\ IsInjective(e) /\ Range(e) \intersect x.deleted = {}

Lossless(x, q, checked, ng, e) ==
  /\ checked \subseteq Nodes(ng) \union Range(e) \union x.deleted
  /\ LateOK(x, q, Nodes(ng), e)

Complete(x, checked, spt, ng, e) ==
  /\ Covered(x, checked, Nodes(spt))
  /\ GroupsOK(x, checked, Nodes(ng), Range(e))

(* The search of iterator i with work space w.  Until the first call the   *)
(* work space is empty; between calls the tree is exhausted before the     *)
(* rows are; an iterator that has ended has nothing left to search.        *)
Searching(i, w) ==
  /\ Sound(index, nodeCheckStatus[w], SPT[w], NG[w], Taken(i))
  /\ i \notin lost => Lossless(index, query[i], nodeCheckStatus[w], NG[w], Taken(i))
  /\ i \notin lost /\ i \notin isFirst =>
       /\ Complete(index, nodeCheckStatus[w], SPT[w], NG[w], Taken(i))
       /\ (busy = i /\ pc = "trees") \/ (NG[w] = <<>> => SPT[w] = <<>>)
  /\ i \in isFirst => nodeCheckStatus[w] = {} /\ SPT[w] = <<>> /\ NG[w] = <<>> /\ emitted[i] = <<>>
  /\ i \in ended => /\ NG[w] = <<>> /\ i \notin isFirst /\ (busy = i => pc = "graph" /\ got = Unset)
                    /\ i \notin lost => SPT[w] = <<>>
  /\ busy = i /\ pc = "trees" => leaves < limit

SearchInv == \A i \in open : Searching(i, space[i])

(* What a step does to one iterator does not concern the others.           *)
LEMMA OthersSearch ==
  ASSUME NEW j, NEW w, Searching(j, w), index' = index, query'[j] = query[j],
         nodeCheckStatus'[w] = nodeCheckStatus[w], SPT'[w] = SPT[w], NG'[w] = NG[w],
         emitted'[j] = emitted[j], j \in lost' <=> j \in lost, j \in isFirst' <=> j \in isFirst,
         j \in ended' <=> j \in ended, busy # j, busy' # j
  PROVE  Searching(j, w)'
<1>1. Taken(j)' = Taken(j)
  BY Zenon DEF Taken
<1> HIDE DEF Taken
<1> QED
  BY ZenonT(60), <1>1 DEF Searching

LEMMA SearchAt ==
  ASSUME NEW j, NEW v, v = space'[j], Searching(j, v)'
  PROVE  Searching(j, space[j])'
BY ZenonT(60) DEF Searching

(* A step of a call of iterator i: what is left to show is about i.        *)
LEMMA ActorSearches ==
  ASSUME TypeInv, SearchInv, NEW i \in open, OnlySpace(space[i]), busy \in {i, NoIter}, busy' \in {i, NoIter},
         \A j \in Iter : j # i => /\ emitted'[j] = emitted[j] /\ (j \in lost' <=> j \in lost)
                                  /\ (j \in isFirst' <=> j \in isFirst) /\ (j \in ended' <=> j \in ended),
         \A w : w = space[i] => Searching(i, w)'
  PROVE  SearchInv'
<1>1. index' = index /\ query' = query /\ space' = space
  BY Zenon DEF OnlySpace
<1>2. open' = open /\ open \subseteq Iter
  BY ZenonT(60), <1>1 DEF open
<1> SUFFICES ASSUME NEW j \in open' PROVE Searching(j, space[j])'
  BY Zenon DEF SearchInv
<1> SUFFICES ASSUME NEW v, v = space[j] PROVE Searching(j, v)'
  BY ZenonT(60), <1>1, SearchAt
<1>3. CASE j = i
  BY ZenonT(60), <1>3
<1>4. CASE j # i
  <2>1. j \in open /\ j \in Iter /\ v \in Space /\ v # space[i]
    <3>1. j \in open /\ j \in Iter
      BY ZenonT(60), <1>2
    <3>2. space[j] # space[i]
      BY ZenonT(60), <1>4, <3>1 DEF TypeInv, PoolInv, Isolation
    <3>3. space[j] \in Space
      BY <3>1, SpacesOfOpen, Zenon
    <3> QED
      BY ZenonT(60), <3>1, <3>2, <3>3
  <2>2. Searching(j, v)
    BY Zenon, <2>1 DEF SearchInv
  <2>3. SPT'[v] = SPT[v] /\ NG'[v] = NG[v] /\ nodeCheckStatus'[v] = nodeCheckStatus[v]
    BY ZenonT(60), <2>1 DEF OnlySpace
  <2>4. j # NoIter
    BY Zenon, <2>1, UnsetAssumption
  <2>5. /\ busy # j /\ busy' # j /\ emitted'[j] = emitted[j] /\ (j \in lost' <=> j \in lost)
        /\ (j \in isFirst' <=> j \in isFirst) /\ (j \in ended' <=> j \in ended)
    BY ZenonT(60), <1>4, <2>1, <2>4
  <2>6. query'[j] = query[j]
    BY Zenon, <1>1
  <2> QED
    BY ZenonT(60), <1>1, <2>2, <2>3, <2>5, <2>6, OthersSearch
<1> QED
  BY ZenonT(60), <1>3, <1>4

LEMMA EmptySearch ==
  /\ Nodes(<<>>) = {} /\ Range(<<>>) = {}
  /\ \A x, q : Sound(x, {}, <<>>, <<>>, <<>>) /\ Lossless(x, q, {}, <<>>, <<>>)
<1>1. Nodes(<<>>) = {} /\ Range(<<>>) = {} /\ IsInjective(<<>>) /\ DOMAIN <<>> = {}
  BY DEF Nodes, Range, IsInjective
<1>2. ASSUME NEW x PROVE StreamOK(x, {}, {}, {}, {})
  BY Zenon DEF StreamOK
<1>3. ASSUME NEW x, NEW q PROVE LateOK(x, q, {}, <<>>)
  BY <1>1, Zenon DEF LateOK
<1>4. ASSUME NEW x PROVE Sound(x, {}, <<>>, <<>>, <<>>)
  BY <1>1, <1>2, Zenon DEF Sound
<1>5. ASSUME NEW x, NEW q PROVE Lossless(x, q, {}, <<>>, <<>>)
  BY <1>1, <1>3, Zenon DEF Lossless
<1> QED
  BY ZenonT(60), <1>1, <1>4, <1>5

LEMMA SearchOpen ==
  ASSUME TypeInv, SearchInv, NEW i \in Iter, NEW q \in Query, NEW w \in Space, GetIterator(i, q, w)
  PROVE  SearchInv'
<1>1. TypeInv'
  BY TypeOpen, Zenon
<1>2. /\ busy = NoIter /\ i \notin open
      /\ nodeCheckStatus' = [nodeCheckStatus EXCEPT ![w] = {}]
      /\ SPT' = [SPT EXCEPT ![w] = <<>>] /\ NG' = [NG EXCEPT ![w] = <<>>]
      /\ query' = [query EXCEPT ![i] = q] /\ space' = [space EXCEPT ![i] = w]
      /\ isFirst' = isFirst \union {i}
      /\ index' = index /\ emitted' = emitted /\ ended' = ended /\ lost' = lost /\ busy' = busy
  BY ZenonT(60) DEF GetIterator, Reset, callVars
<1>3. /\ space \in [Iter -> 0..made] /\ query \in [Iter -> Query \union {Unset}]
      /\ DOMAIN SPT = Space /\ DOMAIN NG = Space /\ DOMAIN nodeCheckStatus = Space
      /\ ended \subseteq open /\ lost \subseteq open /\ emitted[i] = <<>>
  BY Zenon, <1>2 DEF TypeInv, PoolInv, SpaceInv, CallInv
<1>4. w # Null /\ w # 0 /\ i # NoIter
  BY UnsetAssumption, NotNull, Zenon
<1>5. /\ open' = open \union {i} /\ space'[i] = w
      /\ \A j \in open : j # i /\ space'[j] = space[j] /\ query'[j] = query[j]
  BY ZenonT(60), <1>2, <1>3, <1>4 DEF open
<1>6. nodeCheckStatus'[w] = {} /\ SPT'[w] = <<>> /\ NG'[w] = <<>>
  BY ZenonT(60), <1>2, <1>3
<1> SUFFICES ASSUME NEW j \in open' PROVE Searching(j, space[j])'
  BY Zenon DEF SearchInv
<1> SUFFICES ASSUME NEW v, v = space'[j] PROVE Searching(j, v)'
  BY SearchAt, Zenon
<1>7. CASE j = i
  <2>1. v = w /\ Taken(i)' = <<>>
    <3>1. busy' # i /\ emitted'[i] = <<>>
      BY ZenonT(60), <1>2, <1>3, <1>4
    <3> QED
      BY ZenonT(60), <1>5, <1>7, <3>1 DEF Taken
  <2>2. i \in isFirst' /\ i \notin ended' /\ emitted'[i] = <<>> /\ busy' # i
    BY ZenonT(60), <1>2, <1>3, <1>4
  <2>3. /\ Sound(index', nodeCheckStatus'[w], SPT'[w], NG'[w], Taken(i)')
        /\ Lossless(index', query'[i], nodeCheckStatus'[w], NG'[w], Taken(i)')
    BY <1>6, <2>1, EmptySearch, Zenon
  <2> HIDE DEF Taken
  <2> QED
    BY ZenonT(60), <1>6, <1>7, <2>1, <2>2, <2>3 DEF Searching
<1>8. CASE j # i
  <2>1. j \in open /\ j # NoIter
    BY ZenonT(60), <1>5, <1>8, UnsetAssumption DEF open
  <2>2. v = space[j] /\ v # w /\ v \in Space
    <3>1. v = space[j]
      BY ZenonT(60), <1>5, <2>1
    <3>2. v # w
      BY <1>1, <1>5, <1>8, Zenon DEF TypeInv, PoolInv, Isolation
    <3>3. space[j] \in Space
      BY <2>1, SpacesOfOpen, Zenon
    <3> QED
      BY ZenonT(60), <3>1, <3>2, <3>3
  <2>3. Searching(j, v) /\ query'[j] = query[j]
    BY ZenonT(60), <1>5, <2>1, <2>2 DEF SearchInv
  <2>4. SPT'[v] = SPT[v] /\ NG'[v] = NG[v] /\ nodeCheckStatus'[v] = nodeCheckStatus[v]
    BY ZenonT(60), <1>2, <1>3, <2>2
  <2>5. /\ busy # j /\ busy' # j /\ emitted'[j] = emitted[j] /\ (j \in lost' <=> j \in lost)
        /\ (j \in isFirst' <=> j \in isFirst) /\ (j \in ended' <=> j \in ended)
    BY ZenonT(60), <1>2, <1>8, <2>1
  <2> QED
    BY ZenonT(60), <1>2, <2>3, <2>4, <2>5, OthersSearch
<1> QED
  BY ZenonT(60), <1>7, <1>8

LEMMA SearchClose ==
  ASSUME TypeInv, SearchInv, NEW i \in Iter, Close(i) \/ Abort(i)
  PROVE  SearchInv'
<1>1. /\ busy = NoIter /\ i \in open
      /\ query' = [query EXCEPT ![i] = Unset] /\ space' = [space EXCEPT ![i] = Null]
      /\ isFirst' = isFirst \ {i} /\ ended' = ended \ {i} /\ lost' = lost \ {i}
      /\ emitted' = [emitted EXCEPT ![i] = <<>>]
      /\ index' = index /\ nodeCheckStatus' = nodeCheckStatus /\ SPT' = SPT /\ NG' = NG /\ busy' = busy
  BY ZenonT(60) DEF Close, Abort, Dispose, spaceVars, callVars
<1>2. /\ space \in [Iter -> 0..made] /\ query \in [Iter -> Query \union {Unset}]
      /\ emitted \in [Iter -> Seq(index.rows)]
  BY Zenon DEF TypeInv, PoolInv, CallInv
<1>3. open' = open \ {i}
  BY ZenonT(60), <1>1, <1>2 DEF open
<1> SUFFICES ASSUME NEW j \in open' PROVE Searching(j, space[j])'
  BY Zenon DEF SearchInv
<1>4. j \in open /\ j # i /\ j \in Iter /\ j # NoIter
  BY ZenonT(60), <1>3, UnsetAssumption DEF open
<1>5. space'[j] = space[j] /\ query'[j] = query[j] /\ emitted'[j] = emitted[j]
  BY ZenonT(60), <1>1, <1>2, <1>4
<1> SUFFICES ASSUME NEW v, v = space[j] PROVE Searching(j, v)'
  BY ZenonT(60), <1>5, SearchAt
<1>6. Searching(j, v) /\ SPT'[v] = SPT[v] /\ NG'[v] = NG[v] /\ nodeCheckStatus'[v] = nodeCheckStatus[v]
  BY ZenonT(60), <1>1, <1>4 DEF SearchInv
<1>7. /\ busy # j /\ busy' # j /\ (j \in lost' <=> j \in lost)
      /\ (j \in isFirst' <=> j \in isFirst) /\ (j \in ended' <=> j \in ended)
  BY <1>1, <1>4, Zenon
<1> QED
  BY ZenonT(60), <1>1, <1>5, <1>6, <1>7, OthersSearch

LEMMA SearchNextCall ==
  ASSUME Len(index.starts) = 1, TypeInv, SearchInv, NEW i \in Iter, NextCall(i)
  PROVE  SearchInv'
<1>1. /\ busy = NoIter /\ i \in open /\ busy' = i /\ leaves' = 0 /\ got' = Unset /\ isFirst' = isFirst \ {i}
      /\ index' = index /\ made' = made /\ pool' = pool /\ query' = query /\ space' = space
      /\ NG' = NG /\ nodeCheckStatus' = nodeCheckStatus /\ emitted' = emitted /\ ended' = ended
      /\ i \in isFirst => pc' = "trees" /\ limit' = InitialPivots
      /\ i \notin isFirst => pc' = "graph" /\ SPT' = SPT /\ lost' = lost
  BY ZenonT(60) DEF NextCall, poolVars
<1>2. i # NoIter /\ index \in Indexes
  BY ZenonT(60), UnsetAssumption DEF TypeInv
<1>3. Taken(i) = emitted[i] /\ Taken(i)' = emitted[i]
  BY ZenonT(60), <1>1, <1>2 DEF Taken
<1>4. ASSUME NEW w, w = space[i] PROVE Searching(i, w)
  BY ZenonT(60), <1>1, <1>4 DEF SearchInv
<1> HIDE DEF Taken
<1>5. CASE i \notin isFirst
  <2>1. ASSUME NEW w, w = space[i] PROVE Searching(i, w)'
    <3>1. /\ SPT' = SPT /\ lost' = lost /\ pc' # "trees" /\ pc' = "graph" /\ i \notin isFirst' /\ busy # i
          /\ query'[i] = query[i]
      BY ZenonT(60), <1>1, <1>2, <1>5
    <3>2. /\ Sound(index, nodeCheckStatus[w], SPT[w], NG[w], Taken(i))
          /\ i \notin lost => /\ Lossless(index, query[i], nodeCheckStatus[w], NG[w], Taken(i))
                              /\ Complete(index, nodeCheckStatus[w], SPT[w], NG[w], Taken(i))
                              /\ NG[w] = <<>> => SPT[w] = <<>>
          /\ i \in ended => NG[w] = <<>> /\ (i \notin lost => SPT[w] = <<>>)
      BY ZenonT(60), <1>4, <1>5, <2>1, <3>1 DEF Searching
    <3> QED
      BY <1>1, <1>3, <3>1, <3>2, Zenon DEF Searching
  <2>2. OnlySpace(space[i])
    <3>1. DOMAIN SPT = Space /\ DOMAIN NG = Space /\ nodeCheckStatus \in [Space -> SUBSET index.rows]
      BY Zenon DEF TypeInv, SpaceInv
    <3>2. nodeCheckStatus' = [v \in Space |-> nodeCheckStatus'[v]]
      BY ZenonT(60), <1>1, <3>1
    <3> QED
      BY ZenonT(60), <1>1, <1>5, <3>1, <3>2 DEF OnlySpace
  <2>3. \A j \in Iter : j # i => /\ emitted'[j] = emitted[j] /\ (j \in lost' <=> j \in lost)
                                 /\ (j \in isFirst' <=> j \in isFirst) /\ (j \in ended' <=> j \in ended)
    BY ZenonT(60), <1>1, <1>5
  <2>4. busy \in {i, NoIter} /\ busy' \in {i, NoIter}
    BY ZenonT(60), <1>1
  <2> QED
    BY ZenonT(60), <1>1, <2>1, <2>2, <2>3, <2>4, ActorSearches
<1>6. CASE i \in isFirst
  <2>1. FirstView(i, space[i])
    BY <1>6, NextCallView, Zenon
  <2>2. Range(FirstNodes) = First(index)
    BY <1>2, FirstNodesFacts, Zenon
  <2>3. ASSUME NEW w, w = space[i] PROVE Searching(i, w)'
    <3>1. /\ nodeCheckStatus[w] = {} /\ SPT[w] = <<>> /\ NG[w] = <<>> /\ emitted[i] = <<>> /\ i \notin ended
          /\ i \notin lost => Lossless(index, query[i], nodeCheckStatus[w], NG[w], Taken(i))
      BY ZenonT(60), <1>4, <1>6, <2>3 DEF Searching
    <3>2. /\ NG'[w] = <<>> /\ nodeCheckStatus'[w] = {} /\ Taken(i)' = <<>> /\ i \notin isFirst' /\ i \notin ended'
          /\ query'[i] = query[i]
      BY ZenonT(60), <1>1, <1>3, <3>1
    <3>3. /\ Nodes(SPT'[w]) \subseteq First(index)
          /\ i \notin lost' => Nodes(SPT'[w]) = First(index)
      BY ZenonT(60), <2>1, <2>2, <2>3, <3>1, EmptySearch DEF FirstView
    <3>4. Sound(index, {}, SPT'[w], <<>>, <<>>)
      <4>2. StreamOK(index, {}, Nodes(SPT'[w]), {}, {})
        BY ZenonT(60), <1>2, <3>3, FirstStream
      <4>3. \A x : Sound(x, {}, <<>>, <<>>, <<>>)
        BY ZenonT(60), EmptySearch
      <4> QED
        BY <4>2, <4>3, EmptySearch, Zenon DEF Sound
    <3>5. ASSUME i \notin lost' PROVE Complete(index, {}, SPT'[w], <<>>, <<>>)
      <4>1. First(index) \subseteq Nodes(SPT'[w])
        BY ZenonT(60), <3>3, <3>5
      <4>2. Covered(index, {}, Nodes(SPT'[w]))
        BY ZenonT(60), <1>2, <4>1, FirstCovered
      <4>3. GroupsOK(index, {}, {}, {})
        BY Zenon DEF GroupsOK
      <4> QED
        BY ZenonT(60), <4>2, <4>3, EmptySearch DEF Complete
    <3>6. i \notin lost' => Lossless(index, query[i], {}, <<>>, <<>>)
      BY ZenonT(60), EmptySearch
    <3>7. leaves' < limit' /\ busy' = i /\ pc' = "trees"
      BY SMTT(60), <1>1, <1>6, PivotAssumption
    <3> QED
      BY <1>1, <3>2, <3>4, <3>5, <3>6, <3>7, Zenon DEF Searching
  <2>4. OnlySpace(space[i]) /\ (lost' = lost \/ lost' = lost \union {i})
    BY <2>1, Zenon DEF FirstView
  <2>5. \A j \in Iter : j # i => /\ emitted'[j] = emitted[j] /\ (j \in lost' <=> j \in lost)
                                 /\ (j \in isFirst' <=> j \in isFirst) /\ (j \in ended' <=> j \in ended)
    BY ZenonT(60), <1>1, <2>4
  <2>6. busy \in {i, NoIter} /\ busy' \in {i, NoIter}
    BY Zenon, <1>1
  <2> QED
    BY ZenonT(60), <1>1, <2>3, <2>4, <2>5, <2>6, ActorSearches
<1> QED
  BY ZenonT(60), <1>5, <1>6

LEMMA SearchTreeStep ==
  ASSUME Len(index.starts) = 1, TypeInv, SearchInv, TreeStep
  PROVE  SearchInv'
<1>1. pc = "trees"
  BY ZenonT(60) DEF TreeStep
<1>2. busy # NoIter /\ leaves \in Nat /\ limit \in Nat /\ busy \notin isFirst
  BY ZenonT(60), <1>1 DEF TypeInv, CallInv
<1>3. busy \in open /\ index \in Indexes
  BY <1>2, BusyFacts, Zenon
<1>4. TreeView(busy, space[busy], Top(SPT[space[busy]]).node)
  BY TreeStepView, Zenon
<1>5. Searching(busy, space[busy])
  BY <1>3, Zenon DEF SearchInv
<1> SUFFICES ASSUME NEW i, NEW w, i = busy, w = space[i] PROVE Searching(i, w)'
  <2>1. OnlySpace(space[busy]) /\ (lost' = lost \/ lost' = lost \union {busy})
        /\ UNCHANGED <<isFirst, emitted, ended, busy>>
    BY <1>4, Zenon DEF TreeView
  <2>2. \A j \in Iter : j # busy => /\ emitted'[j] = emitted[j] /\ (j \in lost' <=> j \in lost)
                                    /\ (j \in isFirst' <=> j \in isFirst) /\ (j \in ended' <=> j \in ended)
    BY <2>1, Zenon
  <2>3. busy \in {busy, NoIter} /\ busy' \in {busy, NoIter}
    BY ZenonT(60), <2>1
  <2> QED
    BY ZenonT(60), <1>3, <2>1, <2>2, <2>3, ActorSearches
<1> DEFINE t == Top(SPT[w]).node
           c == index.tree[t].center
           chk == nodeCheckStatus[w]
           T == Nodes(SPT[w])
           N == Nodes(NG[w])
           e == Taken(i)
           T2 == Nodes(SPT'[w])
           N2 == Nodes(NG'[w])
<1>6. /\ t \in Good(index) /\ t \in T /\ T2 \subseteq T \union Deeper(t) /\ N2 \subseteq N \union NewRow(w, t)
      /\ UNCHANGED <<isFirst, emitted, ended, busy, got, limit>>
      /\ index' = index /\ query' = query
      /\ IsInjective(NG[w]) /\ N \intersect NewRow(w, t) = {} => IsInjective(NG'[w])
      /\ nodeCheckStatus'[w] = nodeCheckStatus[w] \union {center(t)}
      /\ \/ lost' = lost \union {i}
         \/ /\ lost' = lost
            /\ T \union Deeper(t) \subseteq T2 \union {t}
            /\ N2 = N \union NewRow(w, t)
      /\ leaves' = IF Inner(t) \/ NewRow(w, t) = {} THEN leaves ELSE leaves + 1
      /\ pc' = IF ~Inner(t) /\ leaves' >= limit THEN "graph" ELSE "trees"
  BY ZenonT(60), <1>4 DEF TreeView, OnlySpace
<1>7. e' = e
  BY Zenon, <1>6 DEF Taken
<1>8. /\ Sound(index, chk, SPT[w], NG[w], e) /\ leaves < limit /\ i \notin ended
      /\ i \notin lost => Lossless(index, query[i], chk, NG[w], e) /\ Complete(index, chk, SPT[w], NG[w], e)
  <2>1. ~(pc = "graph")
    BY ZenonT(60), <1>1
  <2> QED
    BY ZenonT(60), <1>1, <1>2, <1>5, <2>1 DEF Searching
<1>9. Deeper(t) = (IF index.tree[t].inner THEN Below(index, t) ELSE {}) /\ NewRow(w, t) = {c} \ chk /\ center(t) = c
  BY Zenon DEF Deeper, NewRow, Inner, center
<1>10. t \in DOMAIN index.tree
  BY <1>6, Zenon DEF Good
<1> HIDE DEF t, c, chk, T, N, e, T2, N2
<1>11. StreamOK(index, chk, T, N, Range(e)) /\ IsInjective(NG[w]) /\ IsInjective(e) /\ Range(e) \intersect index.deleted = {}
  BY <1>8, Zenon DEF Sound, T, N
<1>12. StreamOK(index, chk \union {c}, T2, N2, Range(e)) /\ N \intersect ({c} \ chk) = {}
  <2>1. TreeMove(index, t, chk, T, N, T2, N2)
    BY <1>6, <1>9, Zenon DEF c, TreeMove
  <2>2. t \in T /\ t \in Good(index)
    BY <1>6, Zenon
  <2>3. /\ StreamOK(index, chk \union {index.tree[t].center}, T2, N2, Range(e))
        /\ N \intersect ({index.tree[t].center} \ chk) = {}
    BY <1>3, <1>11, <2>1, <2>2, TreeStream, Zenon
  <2> QED
    BY <2>3, Zenon DEF c
<1>13. nodeCheckStatus'[w] = chk \union {c}
  BY <1>6, <1>9, Zenon DEF chk
<1>14. Sound(index, chk \union {c}, SPT'[w], NG'[w], e)
  BY ZenonT(60), <1>6, <1>9, <1>11, <1>12 DEF Sound, T2, N2
<1>15. ASSUME i \notin lost'
       PROVE  /\ i \notin lost /\ N2 = N \union ({c} \ chk)
              /\ T \union (IF index.tree[t].inner THEN Below(index, t) ELSE {}) \subseteq T2 \union {t}
  BY <1>6, <1>9, <1>15, Zenon
<1>16. ASSUME i \notin lost' PROVE Lossless(index, query[i], chk \union {c}, NG'[w], e)
  <2>1. chk \subseteq N \union Range(e) \union index.deleted /\ LateOK(index, query[i], N, e)
    BY <1>8, <1>15, <1>16, Zenon DEF Lossless, N
  <2>2. N2 = N \union ({c} \ chk)
    BY ZenonT(60), <1>15, <1>16
  <2>3. chk \union {c} \subseteq N2 \union Range(e) \union index.deleted /\ N \subseteq N2
    BY <2>1, <2>2, Zenon
  <2>4. LateOK(index, query[i], N2, e)
    BY <2>1, <2>3, LateMore, Zenon
  <2> QED
    BY <2>3, <2>4, Zenon DEF Lossless, N2
<1>17. ASSUME i \notin lost' PROVE Complete(index, chk \union {c}, SPT'[w], NG'[w], e)
  <2>1. Covered(index, chk, T) /\ GroupsOK(index, chk, N, Range(e))
    BY <1>8, <1>15, <1>17, Zenon DEF Complete, T, N
  <2>2. /\ N2 = N \union ({c} \ chk)
        /\ T \union (IF index.tree[t].inner THEN Below(index, t) ELSE {}) \subseteq T2 \union {t}
    BY ZenonT(60), <1>15, <1>17
  <2>3. Covered(index, chk \union {c}, T2)
    BY ZenonT(60), <1>10, <2>1, <2>2, TreeCovered DEF c
  <2>4. GroupsOK(index, chk \union {c}, N2, Range(e))
    BY <2>1, <2>2, TreeGroups, Zenon
  <2> QED
    BY <2>3, <2>4, Zenon DEF Complete, T2, N2
<1>21. /\ limit' = limit /\ leaves < limit /\ leaves \in Nat /\ limit \in Nat
       /\ leaves' = IF Inner(t) \/ NewRow(w, t) = {} THEN leaves ELSE leaves + 1
       /\ pc' = IF ~Inner(t) /\ leaves' >= limit THEN "graph" ELSE "trees"
  BY <1>2, <1>6, <1>8, Zenon
<1>18. pc' = "trees" => leaves' < limit'
  BY SMTT(30), <1>21
<1>19. i \notin lost' => pc' = "trees" \/ NG'[w] # <<>>
  <2> SUFFICES ASSUME i \notin lost', pc' # "trees" PROVE NG'[w] # <<>>
    BY Zenon
  <2>1. NewRow(w, t) # {}
    BY SMTT(30), <1>21
  <2>2. N2 # {}
    BY ZenonT(60), <1>9, <1>15, <2>1
  <2> QED
    BY <2>2, EmptySearch, Zenon DEF N2
<1>20. i \notin isFirst' /\ i \notin ended' /\ busy' = i /\ query'[i] = query[i] /\ index' = index
  BY ZenonT(60), <1>2, <1>6, <1>8
<1> HIDE DEF Taken
<1> QED
  BY ZenonT(60), <1>7, <1>13, <1>14, <1>16, <1>17, <1>18, <1>19, <1>20 DEF Searching, e

LEMMA SearchGraphStep ==
  ASSUME Len(index.starts) = 1, TypeInv, SearchInv, GraphStep
  PROVE  SearchInv'
<1>1. pc = "graph" /\ NG[space[busy]] # <<>>
  BY ZenonT(60) DEF GraphStep
<1>2. busy # NoIter /\ busy \notin isFirst /\ emitted \in [Iter -> Seq(index.rows)]
  BY ZenonT(60), <1>1 DEF TypeInv, CallInv
<1>3. busy \in open /\ busy \in Iter /\ index \in Indexes
  BY ZenonT(60), <1>2, BusyFacts
<1>4. GraphView(busy, space[busy], Top(NG[space[busy]]).node)
  BY GraphStepView, Zenon
<1>5. Searching(busy, space[busy])
  BY <1>3, Zenon DEF SearchInv
<1> SUFFICES ASSUME NEW i, NEW w, i = busy, w = space[i] PROVE Searching(i, w)'
  <2>1. OnlySpace(space[busy]) /\ (lost' = lost \/ lost' = lost \union {busy})
        /\ UNCHANGED <<isFirst, emitted, ended, busy>>
    BY <1>4, Zenon DEF GraphView
  <2>2. \A j \in Iter : j # busy => /\ emitted'[j] = emitted[j] /\ (j \in lost' <=> j \in lost)
                                    /\ (j \in isFirst' <=> j \in isFirst) /\ (j \in ended' <=> j \in ended)
    BY <2>1, Zenon
  <2>3. busy \in {busy, NoIter} /\ busy' \in {busy, NoIter}
    BY Zenon, <2>1
  <2> QED
    BY ZenonT(60), <1>3, <2>1, <2>2, <2>3, ActorSearches
<1> DEFINE r == Top(NG[w]).node
           chk == nodeCheckStatus[w]
           near == Range(index.neighbours[r])
           T == Nodes(SPT[w])
           N == Nodes(NG[w])
           N2 == Nodes(NG'[w])
           e == emitted[i]
           e2 == IF r \in index.deleted THEN e ELSE Append(e, r)
           new == New(index, r, chk)
<1>6. /\ r \in index.rows /\ r \in N /\ \A n \in N : Dist[query[i]][r] <= Dist[query[i]][n]
      /\ UNCHANGED <<SPT, isFirst, emitted, ended, busy>> /\ index' = index /\ query' = query
      /\ got = Unset /\ got' = IF r \in index.deleted THEN Unset ELSE r
      /\ IsInjective(NG[w]) => N2 \subseteq (N \ {r}) \union new
      /\ (Len(index.starts) = 1 /\ IsInjective(NG[w]) /\ (N \ {r}) \intersect new = {}
           /\ Group(index, r) \intersect near = {}) => IsInjective(NG'[w])
      /\ nodeCheckStatus'[w] = chk \union (near \ chk)
      /\ \/ lost' = lost \union {i}
         \/ lost' = lost /\ (N \ {r}) \union new \subseteq N2
      /\ \/ pc' = "trees" /\ leaves' < limit'
         \/ pc' = "graph" /\ (NG'[w] = <<>> => SPT[w] = <<>>)
  BY <1>4, Zenon DEF GraphView, OnlySpace, NewRows, New
<1>7. Taken(i) = e /\ Taken(i)' = e2
  <2>1. r # Unset
    BY ZenonT(60), <1>3, <1>6, RowFacts, UnsetAssumption
  <2>2. Taken(i) = e
    BY <1>6, Zenon DEF Taken
  <2>3. busy' = i /\ emitted'[i] = e /\ (r \in index.deleted => got' = Unset) /\ (r \notin index.deleted => got' = r)
    BY <1>6, Zenon
  <2>4. ASSUME r \in index.deleted PROVE Taken(i)' = e2
    BY <2>3, <2>4, Zenon DEF Taken
  <2>5. ASSUME r \notin index.deleted PROVE Taken(i)' = e2
    BY ZenonT(60), <2>1, <2>3, <2>5 DEF Taken
  <2> QED
    BY ZenonT(60), <2>2, <2>4, <2>5
<1> HIDE DEF Taken
<1>8. /\ Sound(index, chk, SPT[w], NG[w], e) /\ i \notin ended
      /\ i \notin lost => Lossless(index, query[i], chk, NG[w], e) /\ Complete(index, chk, SPT[w], NG[w], e)
  BY ZenonT(60), <1>1, <1>2, <1>5, <1>7 DEF Searching
<1>10. e \in Seq(index.rows)
  BY ZenonT(60), <1>2, <1>3
<1> HIDE DEF r, chk, near, T, N, N2, e, e2, new
<1>11. StreamOK(index, chk, T, N, Range(e)) /\ IsInjective(NG[w]) /\ IsInjective(e) /\ Range(e) \intersect index.deleted = {}
  BY <1>8, Zenon DEF Sound, T, N
<1>12. /\ r \notin Range(e) /\ (N \ {r}) \intersect new = {} /\ Group(index, r) \intersect near = {}
       /\ \A n2, o2 : AtMost(index, r, chk, N, n2) /\ o2 \subseteq Range(e) \union {r} =>
            StreamOK(index, chk \union (near \ chk), T, n2, o2)
  <2>1. r \in N /\ r \in index.rows
    BY ZenonT(60), <1>6
  <2> QED
    BY ZenonT(60), <1>3, <1>11, <2>1, GraphStream DEF near, new
<1>13. /\ IsInjective(e2) /\ Range(e2) \subseteq Range(e) \union {r} /\ Range(e) \subseteq Range(e2)
       /\ r \in index.deleted \/ r \in Range(e2)
       /\ Range(e2) \intersect index.deleted = {}
  <2>1. CASE r \in index.deleted
    <3>1. e2 = e
      BY ZenonT(60), <2>1 DEF e2
    <3> QED
      BY ZenonT(60), <1>11, <2>1, <3>1
  <2>2. CASE r \notin index.deleted
    <3>1. e2 = Append(e, r)
      BY ZenonT(60), <2>2 DEF e2
    <3>2. Range(Append(e, r)) = Range(e) \union {r}
      BY SMTT(60), <1>6, <1>10, RangeOfAppend
    <3>3. IsInjective(Append(e, r))
      BY ZenonT(60), <1>6, <1>10, <1>11, <1>12, AppendFresh
    <3> QED
      BY ZenonT(60), <1>11, <2>2, <3>1, <3>2, <3>3
  <2> QED
    BY ZenonT(60), <2>1, <2>2
<1>14. Sound(index, chk \union (near \ chk), SPT[w], NG'[w], e2)
  <2>1. IsInjective(NG'[w]) /\ N2 \subseteq (N \ {r}) \union new
    BY ZenonT(60), <1>6, <1>11, <1>12
  <2>2. AtMost(index, r, chk, N, N2)
    BY ZenonT(60), <2>1 DEF AtMost, new
  <2>3. StreamOK(index, chk \union (near \ chk), T, N2, Range(e2))
    BY ZenonT(60), <1>12, <1>13, <2>2
  <2> QED
    BY ZenonT(60), <1>13, <2>1, <2>3 DEF Sound, T, N2
<1>15. ASSUME i \notin lost'
       PROVE  /\ i \notin lost /\ AtLeast(index, r, chk, N, N2)
              /\ (N \ {r}) \union (Group(index, r) \ index.deleted) \union (near \ chk) \subseteq N2
  BY ZenonT(60), <1>6, <1>15 DEF AtLeast, New, new, near
<1>16. ASSUME i \notin lost' PROVE Lossless(index, query[i], chk \union (near \ chk), NG'[w], e2)
  <2>1. chk \subseteq N \union Range(e) \union index.deleted /\ LateOK(index, query[i], N, e)
    BY ZenonT(60), <1>8, <1>15, <1>16 DEF Lossless, N
  <2>2. /\ AtLeast(index, r, chk, N, N2)
        /\ (N \ {r}) \union (Group(index, r) \ index.deleted) \union (near \ chk) \subseteq N2
    BY ZenonT(60), <1>15, <1>16
  <2>3. chk \union (near \ chk) \subseteq N2 \union Range(e2) \union index.deleted
    BY ZenonT(60), <1>13, <2>1, <2>2
  <2>4. LateOK(index, query[i], N2, e2)
    <3>1. CASE r \in index.deleted
      <4>1. e2 = e
        BY Zenon, <3>1 DEF e2
      <4>2. \A c \in DOMAIN e : Succ(index, e[c]) \ index.deleted \subseteq N2 \union Range(e)
        BY ZenonT(60), <2>1, <2>2, <3>1 DEF LateOK
      <4> QED
        BY ZenonT(60), <2>1, <4>1, <4>2 DEF LateOK
    <3>2. CASE r \notin index.deleted
      <4>1. e2 = Append(e, r)
        BY Zenon, <3>2 DEF e2
      <4>2. r \in N \ index.deleted /\ r \in index.rows /\ \A n \in N : Dist[query[i]][r] <= Dist[query[i]][n]
        BY <1>6, <3>2, Zenon
      <4>3. LateOK(index, query[i], N2, Append(e, r))
        BY <1>3, <1>10, <2>1, <2>2, <4>2, LateTake, Zenon
      <4> QED
        BY ZenonT(60), <4>1, <4>3
    <3> QED
      BY ZenonT(60), <3>1, <3>2
  <2> QED
    BY ZenonT(60), <2>3, <2>4 DEF Lossless, N2
<1>17. ASSUME i \notin lost' PROVE Complete(index, chk \union (near \ chk), SPT[w], NG'[w], e2)
  <2>1. Covered(index, chk, T) /\ GroupsOK(index, chk, N, Range(e))
    BY ZenonT(60), <1>8, <1>15, <1>17 DEF Complete, T, N
  <2>2. AtLeast(index, r, chk, N, N2)
    BY ZenonT(60), <1>15, <1>17
  <2>3. Covered(index, chk \union (near \ chk), T)
    BY <2>1, MoreCovered, Zenon
  <2>4. GroupsOK(index, chk \union (near \ chk), N2, Range(e2))
    <3>1. Range(e) \subseteq Range(e2) /\ (r \in Range(e2) \/ r \in index.deleted)
      BY ZenonT(60), <1>13
    <3> QED
      BY ZenonT(60), <2>1, <2>2, <3>1, GraphGroups DEF near
  <2> QED
    BY <2>3, <2>4, Zenon DEF Complete, T, N2
<1>18. /\ i \notin isFirst' /\ i \notin ended' /\ busy' = i /\ query'[i] = query[i] /\ index' = index /\ SPT'[w] = SPT[w]
       /\ pc' = "trees" => leaves' < limit'
       /\ pc' = "trees" \/ (NG'[w] = <<>> => SPT[w] = <<>>)
       /\ nodeCheckStatus'[w] = chk \union (near \ chk)
  BY ZenonT(60), <1>2, <1>6, <1>8
<1> QED
  BY ZenonT(60), <1>7, <1>14, <1>16, <1>17, <1>18 DEF Searching

LEMMA SearchOtherStep ==
  ASSUME TypeInv, SearchInv, TreesEmpty \/ Result \/ NoResult
  PROVE  SearchInv'
<1>1. /\ index' = index /\ made' = made /\ pool' = pool /\ query' = query /\ space' = space /\ isFirst' = isFirst
      /\ nodeCheckStatus' = nodeCheckStatus /\ SPT' = SPT /\ NG' = NG /\ lost' = lost /\ pc # "idle"
  BY Zenon DEF TreesEmpty, Result, NoResult, poolVars, iterVars, spaceVars
<1>2. busy # NoIter /\ busy \notin isFirst /\ emitted \in [Iter -> Seq(index.rows)]
  BY <1>1, Zenon DEF TypeInv, CallInv
<1>3. busy \in open /\ busy \in Iter
  BY <1>2, BusyFacts, Zenon
<1>4. OnlySpace(space[busy])
  <2>1. DOMAIN SPT = Space /\ DOMAIN NG = Space /\ nodeCheckStatus \in [Space -> SUBSET index.rows]
    BY Zenon DEF TypeInv, SpaceInv
  <2>2. nodeCheckStatus' = [v \in Space |-> nodeCheckStatus'[v]]
    BY ZenonT(60), <1>1, <2>1
  <2> QED
    BY ZenonT(60), <1>1, <2>1, <2>2 DEF OnlySpace
<1>5. /\ busy \in {busy, NoIter} /\ busy' \in {busy, NoIter}
      /\ \A j \in Iter : j # busy => emitted'[j] = emitted[j] /\ (j \in ended' <=> j \in ended)
  BY ZenonT(60), <1>1, <1>2, <1>3 DEF TreesEmpty, Result, NoResult, EndCall
<1> SUFFICES ASSUME NEW i, NEW w, i = busy, w = space[i] PROVE Searching(i, w)'
  <2>1. \A j \in Iter : j # busy => /\ emitted'[j] = emitted[j] /\ (j \in lost' <=> j \in lost)
                                    /\ (j \in isFirst' <=> j \in isFirst) /\ (j \in ended' <=> j \in ended)
    BY <1>1, <1>5, Zenon
  <2> QED
    BY ZenonT(60), <1>3, <1>4, <1>5, <2>1, ActorSearches
<1>6. Searching(i, w) /\ i \notin isFirst' /\ query'[i] = query[i]
  BY ZenonT(60), <1>1, <1>2, <1>3 DEF SearchInv
<1>7. /\ Sound(index, nodeCheckStatus[w], SPT[w], NG[w], Taken(i))
      /\ i \notin lost => /\ Lossless(index, query[i], nodeCheckStatus[w], NG[w], Taken(i))
                          /\ Complete(index, nodeCheckStatus[w], SPT[w], NG[w], Taken(i))
                          /\ pc = "trees" \/ (NG[w] = <<>> => SPT[w] = <<>>)
      /\ i \in ended => NG[w] = <<>> /\ pc = "graph" /\ got = Unset /\ (i \notin lost => SPT[w] = <<>>)
  BY ZenonT(60), <1>1, <1>2, <1>6 DEF Searching
<1>8. CASE TreesEmpty
  <2>1. SPT[w] = <<>> /\ pc = "trees" /\ pc' = "graph" /\ emitted' = emitted /\ ended' = ended /\ busy' = busy /\ got' = got
    BY ZenonT(60), <1>8 DEF TreesEmpty
  <2>2. Taken(i)' = Taken(i) /\ pc' # "trees" /\ pc # "graph"
    BY ZenonT(60), <2>1 DEF Taken
  <2> HIDE DEF Taken
  <2> QED
    BY ZenonT(60), <1>1, <1>6, <1>7, <2>1, <2>2 DEF Searching
<1>9. CASE Result
  <2>1. /\ got # Unset /\ pc = "graph" /\ ended' = ended /\ busy' # i /\ pc' # "trees" /\ pc # "trees"
        /\ emitted' = [emitted EXCEPT ![i] = Append(@, got)]
    BY ZenonT(60), <1>2, <1>9 DEF Result, EndCall
  <2>2. Taken(i)' = Taken(i)
    BY ZenonT(60), <1>2, <1>3, <2>1 DEF Taken
  <2> HIDE DEF Taken
  <2> QED
    BY ZenonT(60), <1>1, <1>6, <1>7, <2>1, <2>2 DEF Searching
<1>10. CASE NoResult
  <2>1. /\ got = Unset /\ pc = "graph" /\ NG[w] = <<>> /\ busy' # i /\ pc' # "trees" /\ pc # "trees" /\ emitted' = emitted
    BY ZenonT(60), <1>2, <1>10 DEF NoResult, EndCall
  <2>2. Taken(i)' = Taken(i)
    BY ZenonT(60), <2>1 DEF Taken
  <2> HIDE DEF Taken
  <2> QED
    BY ZenonT(60), <1>1, <1>6, <1>7, <2>1, <2>2 DEF Searching
<1> QED
  BY ZenonT(60), <1>8, <1>9, <1>10

(* Every index has one tree. *)
OneTreeOnly == \A x \in Indexes : Len(x.starts) = 1

LEMMA SearchStep ==
  ASSUME OneTreeOnly, TypeInv, SearchInv, [Next]_vars
  PROVE  SearchInv'
<1>0. Len(index.starts) = 1
  BY Zenon DEF OneTreeOnly, TypeInv
<1>1. CASE UNCHANGED vars
  <2>1. /\ index' = index /\ query' = query /\ space' = space /\ isFirst' = isFirst
        /\ nodeCheckStatus' = nodeCheckStatus /\ SPT' = SPT /\ NG' = NG /\ lost' = lost /\ ended' = ended
        /\ emitted' = emitted /\ busy' = busy /\ pc' = pc /\ got' = got /\ leaves' = leaves /\ limit' = limit
    BY ZenonT(60), <1>1 DEF vars, poolVars, spaceVars, iterVars, callVars
  <2> QED
    BY ZenonT(60), <2>1 DEF SearchInv, Searching, Taken, open
<1>2. CASE \E i \in Iter, q \in Query, w \in Space : GetIterator(i, q, w)
  BY <1>2, SearchOpen, Zenon
<1>3. CASE \E i \in Iter : Close(i) \/ Abort(i) \/ NextCall(i)
  BY ZenonT(60), <1>0, <1>3, SearchClose, SearchNextCall
<1>4. CASE Call
  BY ZenonT(60), <1>0, <1>4, SearchTreeStep, SearchGraphStep, SearchOtherStep DEF Call
<1> QED
  BY ZenonT(60), <1>1, <1>2, <1>3, <1>4 DEF Next

LEMMA SearchAlways ==
  ASSUME OneTreeOnly
  PROVE  Spec => []SearchInv
<1>1. Init => SearchInv
  <2>1. Init => open = {}
    BY Zenon DEF Init, open
  <2> QED
    BY <2>1, Zenon DEF SearchInv
<1>2. TypeInv /\ SearchInv /\ [Next]_vars => SearchInv'
  BY ZenonT(60), SearchStep
<1> QED
  BY <1>1, <1>2, TypeAlways, PTL DEF Spec

(* On indexes with one tree, when Next reports no result and no insertion  *)
(* met a full queue, every row that is not deleted has been returned,      *)
(* whether the neighbourhood graph connects it or only the tree does, and  *)
(* every member of a group that its head's neighbour slot names too.       *)
THEOREM AllRowsReturned ==
  ASSUME OneTreeOnly
  PROVE  Spec => []EndsWithAllRows
<1>1. TypeInv /\ SearchInv => EndsWithAllRows
  <2> SUFFICES ASSUME TypeInv, SearchInv, NEW i \in ended \ lost
               PROVE  Range(emitted[i]) = index.rows \ (index.deleted \union Unlisted(index))
    BY ZenonT(60) DEF EndsWithAllRows
  <2> DEFINE w == space[i]
             chk == nodeCheckStatus[w]
             e == emitted[i]
  <2>1. i \in open /\ i \in Iter /\ index \in Indexes /\ emitted \in [Iter -> Seq(index.rows)]
    BY Zenon DEF TypeInv, CallInv, open
  <2>2. Searching(i, w)
    BY <2>1, Zenon DEF SearchInv
  <2>3. NG[w] = <<>> /\ SPT[w] = <<>> /\ i \notin isFirst /\ (busy = i => got = Unset)
    BY <2>2, Zenon DEF Searching
  <2>4. Taken(i) = e
    BY <2>3, Zenon DEF Taken
  <2> HIDE DEF Taken
  <2>5. /\ Sound(index, chk, <<>>, <<>>, e) /\ Lossless(index, query[i], chk, <<>>, e)
        /\ Complete(index, chk, <<>>, <<>>, e)
    BY ZenonT(60), <2>2, <2>3, <2>4 DEF Searching
  <2>6. /\ Covered(index, chk, {}) /\ GroupsOK(index, chk, {}, Range(e))
        /\ chk \subseteq Range(e) \union index.deleted /\ Range(e) \intersect index.deleted = {}
        /\ Range(e) \intersect Unlisted(index) = {}
    BY ZenonT(60), <2>5, EmptySearch DEF Sound, StreamOK, Lossless, Complete
  <2>7. Len(index.starts) = 1
    BY <2>1, Zenon DEF OneTreeOnly
  <2> HIDE DEF chk
  <2>8. index.rows \ (index.deleted \union Unlisted(index)) \subseteq Range(e)
    BY ZenonT(60), <2>1, <2>6, <2>7, AllTaken
  <2>9. Range(e) \subseteq index.rows
    <3>1. e \in Seq(index.rows)
      BY ZenonT(60), <2>1
    <3> QED
      BY ZenonT(60), <3>1, RangeOfSeq
  <2> QED
    BY ZenonT(60), <2>6, <2>8, <2>9
<1> QED
  BY <1>1, TypeAlways, SearchAlways, PTL

(* On indexes with one tree the search is out of order only by what the    *)
(* graph had not shown it: while no insertion met a full queue, a row      *)
(* returned after a farther one is neither a neighbour of, nor a copy      *)
(* grouped with, a row returned before that one.                           *)
THEOREM LateRowsHidden ==
  ASSUME OneTreeOnly
  PROVE  Spec => []LateOnlyIfHidden
<1>1. TypeInv /\ SearchInv => LateOnlyIfHidden
  <2> SUFFICES ASSUME TypeInv, SearchInv, NEW i \in open \ lost, NEW b \in DOMAIN emitted[i], NEW a \in 1..(b - 1),
                      Dist[query[i]][emitted[i][b]] < Dist[query[i]][emitted[i][a]], NEW c \in 1..(a - 1),
                      emitted[i][b] \in Range(index.neighbours[emitted[i][c]]) \union Range(GroupMembers(emitted[i][c]))
               PROVE  FALSE
    BY ZenonT(60) DEF LateOnlyIfHidden
  <2> DEFINE e == emitted[i]
             g == Taken(i)
             y == e[b]
             q == query[i]
  <2>1. i \in Iter /\ index \in Indexes /\ emitted \in [Iter -> Seq(index.rows)] /\ q \in Query
    BY ZenonT(60) DEF TypeInv, SpaceInv, CallInv, open
  <2>2. e \in Seq(index.rows) /\ Len(e) \in Nat /\ DOMAIN e = 1..Len(e)
    <3>1. e \in Seq(index.rows)
      BY ZenonT(60), <2>1
    <3> QED
      BY ZenonT(60), <3>1, IndicesOf
  <2>3. /\ a \in DOMAIN e /\ c \in DOMAIN e /\ a \in Nat /\ b \in Nat /\ a < b
        /\ e[a] \in index.rows /\ e[c] \in index.rows /\ y \in index.rows
    <3>1. b \in 1..Len(e) /\ a \in 1..(b - 1)
      BY <2>2, Zenon
    <3>2. a \in 1..Len(e) /\ a \in Nat /\ b \in Nat /\ a < b
      BY ZenonT(60), <2>2, <3>1, EarlierIndex
    <3>3. c \in 1..Len(e)
      BY ZenonT(60), <2>2, <3>2, EarlierIndex
    <3>4. \A k \in DOMAIN e : e[k] \in index.rows
      BY ZenonT(60), <2>2, ElementOf
    <3> QED
      BY ZenonT(60), <2>2, <3>1, <3>2, <3>3, <3>4
  <2>4. DOMAIN e \subseteq DOMAIN g /\ \A k \in DOMAIN e : g[k] = e[k]
    BY SMTT(60), <2>2 DEF Taken
  <2>5. Searching(i, space[i])
    BY Zenon DEF SearchInv
  <2> HIDE DEF g, e
  <2>6. IsInjective(g) /\ Range(g) \intersect index.deleted = {} /\ LateOK(index, q, Nodes(NG[space[i]]), g)
    BY ZenonT(60), <2>5 DEF Searching, Sound, Lossless, g
  <2>7. a \in DOMAIN g /\ b \in DOMAIN g /\ g[a] = e[a] /\ g[c] = e[c] /\ g[b] = y
    BY ZenonT(60), <2>3, <2>4 DEF e
  <2>8. y \in Succ(index, g[c]) \ index.deleted
    <3>1. y \notin index.deleted
      BY ZenonT(60), <2>6, <2>7 DEF Range
    <3>2. Range(GroupMembers(e[c])) = Group(index, e[c]) \ index.deleted
      BY ZenonT(60), <2>1, <2>3, GroupMembersFacts
    <3>3. y \in Range(index.neighbours[e[c]]) \union Range(GroupMembers(e[c]))
      BY Zenon DEF e
    <3> QED
      BY <2>7, <3>1, <3>2, <3>3, Zenon DEF Succ
  <2>9. y \in {g[k] : k \in 1..a} \/ Dist[q][g[a]] <= Dist[q][y]
    BY ZenonT(60), <2>6, <2>7, <2>8 DEF LateOK
  <2>10. CASE y \in {g[k] : k \in 1..a}
    <3>1. PICK k \in 1..a : g[k] = g[b]
      BY ZenonT(60), <2>7, <2>10
    <3>2. k \in DOMAIN g /\ k # b
      <4>1. k \in 1..Len(e) /\ k # b
        <5>1. b \in 1..Len(e) /\ a \in 1..(b - 1)
          BY <2>2, Zenon DEF e
        <5> QED
          BY ZenonT(60), <2>2, <5>1, EarlierIndex
      <4> QED
        BY ZenonT(60), <2>2, <2>4, <4>1
    <3> QED
      BY ZenonT(60), <2>6, <2>7, <3>1, <3>2 DEF IsInjective
  <2>11. CASE Dist[q][g[a]] <= Dist[q][y]
    <3>1. Dist[q][e[a]] \in Int /\ Dist[q][y] \in Int
      BY ZenonT(60), <2>1, <2>3, DistFacts
    <3>2. Dist[q][y] < Dist[q][e[a]]
      BY Zenon DEF e
    <3>3. Dist[q][e[a]] <= Dist[q][y]
      BY <2>7, <2>11, Zenon
    <3> QED
      BY ZenonT(60), <3>1, <3>2, <3>3, NotBothLess
  <2> QED
    BY ZenonT(60), <2>9, <2>10, <2>11
<1> QED
  BY <1>1, TypeAlways, SearchAlways, PTL

-----------------------------------------------------------------------------
(* The iterators as streams: opening and closing one is a step of its      *)
(* stream, returning a row delivers it, returning none ends it; every      *)
(* other step of a call is invisible.                                      *)
LEMMA StreamStep ==
  ASSUME TypeInv, SearchInv, [Next]_vars
  PROVE  [RS!Next]_(RS!vars)
<1>1. ASSUME NEW i \in Iter, NEW q \in Query, NEW w \in Space, GetIterator(i, q, w) PROVE RS!Open(i)
  <2>1. /\ i \notin open /\ space' = [space EXCEPT ![i] = w] /\ emitted' = emitted /\ ended' = ended
        /\ space \in [Iter -> 0..made] /\ w # Null /\ ended \subseteq open /\ emitted \in [Iter -> Seq(index.rows)]
        /\ emitted[i] = <<>>
    <3>1. w # Null
      BY NotNull, Zenon
    <3>2. i \notin open /\ space' = [space EXCEPT ![i] = w] /\ emitted' = emitted /\ ended' = ended
      BY <1>1, ZenonT(60) DEF GetIterator, callVars
    <3>3. /\ space \in [Iter -> 0..made] /\ ended \subseteq open /\ emitted \in [Iter -> Seq(index.rows)]
          /\ \A j \in Iter \ open : emitted[j] = <<>>
      BY ZenonT(60) DEF TypeInv, PoolInv, CallInv
    <3> QED
      BY ZenonT(60), <3>1, <3>2, <3>3
  <2>2. open' = open \union {i}
    BY Zenon, <2>1 DEF open
  <2>3. emitted' = [emitted EXCEPT ![i] = <<>>]
    BY Zenon, <2>1
  <2>4. status[i] = "closed"
    BY Zenon, <2>1 DEF status
  <2>5. status' = [status EXCEPT ![i] = "open"]
    BY ZenonT(60), <2>1, <2>2 DEF status
  <2> QED
    BY ZenonT(60), <2>3, <2>4, <2>5 DEF RS!Open
<1>2. ASSUME NEW i \in Iter, Close(i) \/ Abort(i) PROVE RS!Close(i)
  <2>1. /\ i \in open /\ space' = [space EXCEPT ![i] = Null] /\ emitted' = [emitted EXCEPT ![i] = <<>>]
        /\ ended' = ended \ {i} /\ space \in [Iter -> 0..made]
    BY ZenonT(60), <1>2 DEF Close, Abort, Dispose, TypeInv, PoolInv
  <2>2. open' = open \ {i}
    BY ZenonT(60), <2>1 DEF open
  <2>3. status[i] # "closed"
    BY ZenonT(60), <2>1 DEF status
  <2>4. status' = [status EXCEPT ![i] = "closed"]
    BY ZenonT(60), <2>1, <2>2 DEF status
  <2> QED
    BY ZenonT(60), <2>1, <2>3, <2>4 DEF RS!Close
<1>3. ASSUME UNCHANGED <<space, ended, emitted>> PROVE UNCHANGED RS!vars
  BY ZenonT(60), <1>3 DEF RS!vars, status, open
<1>4. ASSUME (\E i \in Iter : NextCall(i)) \/ TreesEmpty \/ TreeStep \/ GraphStep \/ UNCHANGED vars
      PROVE  UNCHANGED <<space, ended, emitted>>
  BY ZenonT(60), <1>4 DEF NextCall, TreesEmpty, TreeStep, GraphStep, vars, iterVars
<1>5. ASSUME Result \/ NoResult PROVE busy \in Iter /\ busy \in open /\ Searching(busy, space[busy])
  <2>1. pc = "graph"
    BY ZenonT(60), <1>5 DEF Result, NoResult
  <2>2. busy # NoIter
    BY ZenonT(60), <2>1 DEF TypeInv, CallInv
  <2> QED
    BY <2>2, BusyFacts, Zenon DEF SearchInv
<1>6. ASSUME Result PROVE RS!Deliver(busy, got) /\ got \in Row
  <2>1. /\ got # Unset /\ space' = space /\ ended' = ended /\ emitted' = [emitted EXCEPT ![busy] = Append(@, got)]
        /\ index \in Indexes /\ got \in index.rows \union {Unset} /\ emitted \in [Iter -> Seq(index.rows)]
    BY ZenonT(60), <1>6 DEF Result, iterVars, TypeInv, CallInv
  <2>2. busy \in Iter /\ busy \in open /\ Searching(busy, space[busy])
    BY ZenonT(60), <1>5, <1>6
  <2>3. busy \notin ended
    BY ZenonT(60), <2>1, <2>2 DEF Searching
  <2>4. got \notin Range(emitted[busy])
    <3>1. Taken(busy) = Append(emitted[busy], got)
      BY ZenonT(60), <2>1 DEF Taken
    <3>2. IsInjective(Append(emitted[busy], got))
      BY ZenonT(60), <2>2, <3>1 DEF Searching, Sound
    <3>3. emitted[busy] \in Seq(index.rows) /\ got \in index.rows
      BY ZenonT(60), <2>1, <2>2
    <3> DEFINE s == emitted[busy]
               g == Append(s, got)
               n == Len(s)
    <3>4. n \in Nat /\ DOMAIN s = 1..n /\ n + 1 \in DOMAIN g /\ g[n + 1] = got
          /\ \A k \in 1..n : k \in DOMAIN g /\ k # n + 1 /\ g[k] = s[k]
      <4>1. Extended(s, got, g)
        BY <3>3, AppendShape, Zenon
      <4> HIDE DEF g, s
      <4> QED
        BY <4>1, Zenon DEF Extended
    <3> HIDE DEF g, s
    <3>5. \A k \in DOMAIN s : s[k] # got
      BY <3>2, <3>4, Zenon DEF IsInjective, g, s
    <3> QED
      BY ZenonT(60), <3>5 DEF Range, s
  <2>5. status[busy] = "open" /\ status' = status
    BY ZenonT(60), <2>1, <2>2, <2>3 DEF status, open
  <2>6. got \in Row
    BY ZenonT(60), <2>1, RowFacts
  <2> QED
    BY ZenonT(60), <2>1, <2>4, <2>5, <2>6 DEF RS!Deliver, RS!Range, Range
<1>7. ASSUME NoResult PROVE RS!End(busy) \/ UNCHANGED RS!vars
  <2>1. space' = space /\ emitted' = emitted /\ ended' = ended \union {busy}
    BY ZenonT(60), <1>7 DEF NoResult, iterVars
  <2>2. busy \in Iter /\ busy \in open /\ open' = open
    BY ZenonT(60), <1>5, <1>7, <2>1 DEF open
  <2>3. CASE busy \in ended
    <3>1. ended' = ended
      BY ZenonT(60), <2>1, <2>3
    <3> QED
      BY ZenonT(60), <1>3, <2>1, <3>1
  <2>4. CASE busy \notin ended
    <3>1. status[busy] = "open"
      BY ZenonT(60), <2>2, <2>4 DEF status
    <3>2. status' = [status EXCEPT ![busy] = "ended"]
      BY ZenonT(60), <2>1, <2>2 DEF status
    <3> QED
      BY ZenonT(60), <2>1, <3>1, <3>2 DEF RS!End
  <2> QED
    BY ZenonT(60), <2>3, <2>4
<1> QED
  <2>1. CASE Call
    BY <1>3, <1>4, <1>5, <1>6, <1>7, <2>1, ZenonT(60) DEF Call, RS!Next
  <2>2. CASE \E i \in Iter, q \in Query, w \in Space : GetIterator(i, q, w)
    BY ZenonT(60), <1>1, <2>2 DEF RS!Next
  <2>3. CASE \E i \in Iter : Close(i) \/ Abort(i)
    BY ZenonT(60), <1>2, <2>3 DEF RS!Next
  <2>4. CASE (\E i \in Iter : NextCall(i)) \/ UNCHANGED vars
    BY ZenonT(60), <1>3, <1>4, <2>4
  <2> QED
    BY ZenonT(60), <2>1, <2>2, <2>3, <2>4 DEF Next

(* On indexes with one tree the iterators a backend opens implement        *)
(* independent streams that deliver no row twice and none after their end, *)
(* through every interleaving of their calls, with work spaces handed from *)
(* one iterator to the next and with queues that fill up.                  *)
THEOREM StreamsImplemented ==
  ASSUME OneTreeOnly
  PROVE  Spec => ImplementsStream
<1>1. Init => RS!Init
  <2> SUFFICES ASSUME Init PROVE RS!Init
    BY ZenonT(60)
  <2>1. open = {} /\ emitted = [i \in Iter |-> <<>>]
    BY Zenon DEF Init, open
  <2>2. status = [i \in Iter |-> "closed"]
    BY ZenonT(60), <2>1 DEF status
  <2> QED
    BY ZenonT(60), <2>1, <2>2 DEF RS!Init
<1>2. TypeInv /\ SearchInv /\ [Next]_vars => [RS!Next]_(RS!vars)
  BY ZenonT(60), StreamStep
<1> QED
  BY <1>1, <1>2, TypeAlways, SearchAlways, PTL DEF Spec, ImplementsStream, RS!Spec
-----------------------------------------------------------------------------
LEMMA AwaitedView ==
  ASSUME index \in Indexes, NEW w, Nodes(NG[w]) \subseteq index.rows
  PROVE  Awaited(w) = AwaitedIn(index, nodeCheckStatus[w], Nodes(NG[w]))
<1> DEFINE ahead == Ahead(index, nodeCheckStatus[w], Nodes(NG[w]))
<1>1. {center(c) : c \in UNION {Range(children(t)) : t \in {u \in TreeNode : ~Inner(u)}}} = Members(index)
  BY Zenon DEF Members, MemberNodes, Below, center, children, Inner, TreeNode
<1>2. Awaited(w) = ahead \union UNION {Range(GroupMembers(r)) : r \in ahead}
  BY ZenonT(60), <1>1 DEF Awaited, Ahead
<1>3. \A r \in ahead : r \in index.rows
  BY Zenon DEF Ahead
<1> HIDE DEF ahead
<1>4. \A r \in ahead : Range(GroupMembers(r)) = Group(index, r) \ index.deleted
  BY ZenonT(60), <1>3, GroupMembersFacts
<1>5. UNION {Range(GroupMembers(r)) : r \in ahead} = UNION {Group(index, r) \ index.deleted : r \in ahead}
  BY ZenonT(60), <1>4
<1> QED
  BY ZenonT(60), <1>2, <1>5 DEF AwaitedIn, ahead

(* What Awaited is for every open iterator.                                *)
AwaitedInv ==
  \A i \in open :
    Awaited(space[i]) = AwaitedIn(index, nodeCheckStatus[space[i]], Nodes(NG[space[i]]))

LEMMA QueuedRows ==
  ASSUME TypeInv, NEW i \in open
  PROVE  Nodes(NG[space[i]]) \subseteq index.rows
<1> DEFINE D == RowDist(index, query[i])
<1>1. index \in Indexes /\ query[i] \in Query /\ RowHeap(i, NG[space[i]])
  BY ZenonT(60) DEF TypeInv, SpaceInv
<1>2. DOMAIN D = index.rows /\ \A n \in DOMAIN D : D[n] \in Int
  BY ZenonT(60), <1>1, DistFacts
<1>3. NG[space[i]] \in Seq(Pairs(D))
  BY ZenonT(60), <1>1 DEF RowHeap, IsHeap
<1> HIDE DEF D
<1> QED
  BY ZenonT(60), <1>2, <1>3, NodesOfPairs

LEMMA AwaitedHolds == TypeInv => AwaitedInv
<1> SUFFICES ASSUME TypeInv, NEW i \in open
             PROVE  Awaited(space[i]) = AwaitedIn(index, nodeCheckStatus[space[i]], Nodes(NG[space[i]]))
  BY Zenon DEF AwaitedInv
<1>1. index \in Indexes /\ Nodes(NG[space[i]]) \subseteq index.rows
  BY ZenonT(60), QueuedRows DEF TypeInv
<1> QED
  BY ZenonT(60), <1>1, AwaitedView

(* What a step does to the rows an open iterator awaits.                   *)
LEMMA AwaitedStep ==
  ASSUME Len(index.starts) = 1, TypeInv, SearchInv, TypeInv', Next, NEW i \in open, i \in open'
  PROVE  LET w == space[i]
             A == AwaitedIn(index, nodeCheckStatus[w], Nodes(NG[w]))
             A2 == AwaitedIn(index', nodeCheckStatus'[w], Nodes(NG'[w]))
         IN space'[i] = w /\ A2 \subseteq A /\ (busy = i /\ busy' = i /\ pc = "graph" => A2 # A)
<1> DEFINE w == space[i]
           N == Nodes(NG[w])
           N2 == Nodes(NG'[w])
           chk == nodeCheckStatus[w]
           A == AwaitedIn(index, chk, N)
           A2 == AwaitedIn(index', nodeCheckStatus'[w], N2)
           Goal == space'[i] = w /\ A2 \subseteq A /\ (busy = i /\ busy' = i /\ pc = "graph" => A2 # A)
<1>0. /\ i \in Iter /\ i # NoIter /\ w \in Space /\ index \in Indexes
      /\ space \in [Iter -> 0..made] /\ DOMAIN NG = Space /\ DOMAIN nodeCheckStatus = Space
  <2>1. i \in Iter /\ w \in Space
    BY ZenonT(60), SpacesOfOpen
  <2>2. i # NoIter
    BY ZenonT(60), <2>1, UnsetAssumption
  <2> QED
    BY ZenonT(60), <2>1, <2>2 DEF TypeInv, PoolInv, SpaceInv
<1>1. ASSUME space'[i] = w, index' = index, NG'[w] = NG[w], nodeCheckStatus'[w] = nodeCheckStatus[w],
             ~(busy = i /\ busy' = i /\ pc = "graph")
      PROVE  Goal
  BY ZenonT(60), <1>1
<1>2. ASSUME OnlySpace(space[busy]), busy \in open, busy # i PROVE Goal
  <2>1. space[busy] # w
    BY ZenonT(60), <1>2 DEF TypeInv, PoolInv, Isolation
  <2>2. space'[i] = w /\ index' = index /\ NG'[w] = NG[w] /\ nodeCheckStatus'[w] = nodeCheckStatus[w]
    BY ZenonT(60), <1>0, <1>2, <2>1 DEF OnlySpace
  <2> QED
    BY ZenonT(60), <1>1, <1>2, <2>2
<1>3. ASSUME NEW j \in Iter, NEW q \in Query, NEW v \in Space, GetIterator(j, q, v) PROVE Goal
  <2>1. /\ busy = NoIter /\ j \notin open /\ space' = [space EXCEPT ![j] = v] /\ index' = index
        /\ NG' = [NG EXCEPT ![v] = <<>>] /\ nodeCheckStatus' = [nodeCheckStatus EXCEPT ![v] = {}]
    BY ZenonT(60), <1>3 DEF GetIterator, Reset
  <2>2. j # i /\ space'[j] = v /\ space'[i] = w
    BY ZenonT(60), <1>0, <2>1
  <2>3. j \in open'
    BY ZenonT(60), <2>2, NotNull DEF open
  <2>4. v # w
    BY ZenonT(60), <2>2, <2>3 DEF TypeInv, PoolInv, Isolation
  <2>5. NG'[w] = NG[w] /\ nodeCheckStatus'[w] = nodeCheckStatus[w]
    BY ZenonT(60), <1>0, <2>1, <2>4
  <2> QED
    BY ZenonT(60), <1>0, <1>1, <2>1, <2>2, <2>5
<1>4. ASSUME NEW j \in Iter, Close(j) \/ Abort(j) PROVE Goal
  <2>1. /\ busy = NoIter /\ space' = [space EXCEPT ![j] = Null] /\ index' = index
        /\ NG' = NG /\ nodeCheckStatus' = nodeCheckStatus
    BY ZenonT(60), <1>4 DEF Close, Abort, Dispose, spaceVars
  <2>2. i # j
    BY ZenonT(60), <1>0, <2>1 DEF open
  <2>3. space'[i] = w
    BY ZenonT(60), <1>0, <2>1, <2>2
  <2> QED
    BY ZenonT(60), <1>0, <1>1, <2>1, <2>3
<1>5. ASSUME (\E j \in Iter : NextCall(j)) \/ TreesEmpty \/ Result \/ NoResult PROVE Goal
  <2>1. UNCHANGED <<space, index, NG, nodeCheckStatus>>
    BY ZenonT(60), <1>5 DEF NextCall, TreesEmpty, Result, NoResult, spaceVars, iterVars
  <2>2. busy = NoIter \/ pc = "trees" \/ busy' = NoIter
    BY ZenonT(60), <1>5 DEF NextCall, TreesEmpty, Result, NoResult, EndCall
  <2> QED
    BY ZenonT(60), <1>0, <1>1, <2>1, <2>2
<1>6. ASSUME pc # "idle" PROVE busy # NoIter /\ busy \in open /\ Searching(busy, space[busy])
  <2>1. busy # NoIter
    BY Zenon, <1>6 DEF TypeInv, CallInv
  <2> QED
    BY ZenonT(60), <2>1, BusyFacts DEF SearchInv
<1>7. ASSUME busy = i, pc # "idle"
      PROVE  \E out : StreamOK(index, chk, Nodes(SPT[w]), N, out) /\ IsInjective(NG[w]) /\ N \subseteq index.rows
  <2>1. Searching(i, w)
    BY ZenonT(60), <1>6, <1>7
  <2> QED
    BY ZenonT(60), <2>1, QueuedRows DEF Searching, Sound
<1>8. ASSUME TreeStep PROVE Goal
  <2>1. pc = "trees" /\ TreeView(busy, space[busy], Top(SPT[space[busy]]).node)
    BY ZenonT(60), <1>8, TreeStepView DEF TreeStep
  <2>2. OnlySpace(space[busy]) /\ busy \in open /\ pc # "idle" /\ pc # "graph"
    BY ZenonT(60), <1>6, <2>1 DEF TreeView
  <2>3. CASE busy = i
    <3> DEFINE t == Top(SPT[w]).node
    <3>1. /\ t \in Good(index) /\ t \in Nodes(SPT[w]) /\ N2 \subseteq N \union NewRow(w, t)
          /\ nodeCheckStatus'[w] = chk \union {center(t)}
      BY ZenonT(60), <2>1, <2>3 DEF TreeView
    <3>2. Nodes(SPT[w]) \intersect MemberNodes(index) = {}
      BY ZenonT(60), <1>7, <2>2, <2>3 DEF StreamOK
    <3>3. t \in Good(index) \ MemberNodes(index)
      BY ZenonT(60), <3>1, <3>2
    <3>7. index.tree[t].center \in index.rows \ Members(index)
      BY ZenonT(60), <1>0, <3>3, OneTreeFacts
    <3>4. NewRow(w, t) = {center(t)} \ chk
      BY Zenon DEF NewRow
    <3>5. space'[i] = w /\ index' = index
      BY Zenon, <2>2 DEF OnlySpace
    <3> HIDE DEF t, N, N2, chk
    <3>6. AwaitedIn(index, chk \union {center(t)}, N2) \subseteq AwaitedIn(index, chk, N)
      BY ZenonT(60), <3>1, <3>7, <3>4, TreeAwaits DEF center
    <3> QED
      BY ZenonT(60), <2>2, <3>1, <3>5, <3>6
  <2> QED
    BY ZenonT(60), <1>2, <2>2, <2>3
<1>9. ASSUME GraphStep PROVE Goal
  <2>1. pc = "graph" /\ GraphView(busy, space[busy], Top(NG[space[busy]]).node)
    BY ZenonT(60), <1>9, GraphStepView DEF GraphStep
  <2>2. OnlySpace(space[busy]) /\ busy \in open /\ pc # "idle"
    BY ZenonT(60), <1>6, <2>1 DEF GraphView
  <2>3. CASE busy = i
    <3> DEFINE r == Top(NG[w]).node
               near == Range(index.neighbours[r])
    <3>1. PICK out : StreamOK(index, chk, Nodes(SPT[w]), N, out) /\ IsInjective(NG[w]) /\ N \subseteq index.rows
      BY ZenonT(60), <1>7, <2>2, <2>3
    <3>2. /\ r \in N /\ nodeCheckStatus'[w] = chk \union (near \ chk)
          /\ IsInjective(NG[w]) => N2 \subseteq (N \ {r}) \union NewRows(w, r)
      BY ZenonT(60), <2>1, <2>3 DEF GraphView
    <3>3. AtMost(index, r, chk, N, N2)
      BY ZenonT(60), <3>1, <3>2 DEF AtMost, New, NewRows
    <3>4. space'[i] = w /\ index' = index
      BY Zenon, <2>2 DEF OnlySpace
    <3>5. near = Range(index.neighbours[r])
      BY Zenon
    <3> HIDE DEF r, near, N, N2, chk
    <3>6. LET B == AwaitedIn(index, chk \union (near \ chk), N2) IN
          B \subseteq AwaitedIn(index, chk, N) /\ B # AwaitedIn(index, chk, N)
      BY ZenonT(60), <1>0, <3>1, <3>2, <3>3, <3>5, GraphAwaits
    <3> QED
      BY ZenonT(60), <3>2, <3>4, <3>6
  <2> QED
    BY ZenonT(60), <1>2, <2>2, <2>3
<1>10. Goal
  BY ZenonT(60), <1>3, <1>4, <1>5, <1>8, <1>9 DEF Next, Call
<1> QED
  BY Zenon, <1>10

(* On indexes with one tree no iterator takes a row twice, deleted or not, *)
(* and every iteration of SearchIterative takes one: the rows awaited are  *)
(* a finite set that shrinks with it and never grows.                      *)
THEOREM RowsTakenOnce ==
  ASSUME OneTreeOnly
  PROVE  Spec => TakenOnce
<1>1. TypeInv /\ SearchInv /\ AwaitedInv /\ TypeInv' /\ AwaitedInv' /\ [Next]_vars =>
        [\A i \in open : i \in open' =>
           /\ Awaited(space[i])' \subseteq Awaited(space[i])
           /\ busy = i /\ busy' = i /\ pc = "graph" => Awaited(space[i])' # Awaited(space[i])]_vars
  <2> SUFFICES ASSUME TypeInv, SearchInv, AwaitedInv, TypeInv', AwaitedInv', Next, NEW i \in open, i \in open'
               PROVE  /\ Awaited(space[i])' \subseteq Awaited(space[i])
                      /\ busy = i /\ busy' = i /\ pc = "graph" => Awaited(space[i])' # Awaited(space[i])
    BY Zenon
  <2>0. Len(index.starts) = 1
    BY Zenon DEF OneTreeOnly, TypeInv
  <2>1. Awaited(space[i]) = AwaitedIn(index, nodeCheckStatus[space[i]], Nodes(NG[space[i]]))
    BY Zenon DEF AwaitedInv
  <2>2. Awaited(space[i])' = AwaitedIn(index', nodeCheckStatus'[space'[i]], Nodes(NG'[space'[i]]))
    BY Zenon DEF AwaitedInv
  <2> QED
    BY ZenonT(60), <2>0, <2>1, <2>2, AwaitedStep
<1> QED
  BY <1>1, TypeAlways, SearchAlways, AwaitedHolds, PTL DEF Spec, TakenOnce
=============================================================================

---------------------------- MODULE HnswIterator ----------------------------
(***************************************************************************)
(* hnswlib's iterative search: the ResultIterator every hnsw index scan    *)
(* opens on the index its backend has loaded, the work space it searches   *)
(* with (a candidate queue and a visited list) and the pool the visited    *)
(* lists are taken from.  Several iterators may be open on one index (the  *)
(* scans of a join or of topk), but one backend runs one call at a time.   *)
(*                                                                         *)
(* A call of Next is broken into its loop iterations: a Hop of the greedy  *)
(* descent through the upper levels, and a Pop of the nearest candidate of *)
(* the base layer.  An aborted query never reaches Close, so its list      *)
(* never returns to the pool.  Links are those of a loaded index and are   *)
(* taken as sets: the order of a link list only breaks ties.               *)
(***************************************************************************)
EXTENDS Integers, Sequences, FiniteSets, Functions

CONSTANTS
  Node,     \* internal ids of the elements
  Iter,     \* iterators
  MaxLists, \* bound on the visited lists that may be allocated
  Query,    \* query vectors
  Dist,     \* fstdistfunc_
  Graphs,   \* index files: nodes, maxlevel, entry, links per level, deleted
  MaxTag,   \* largest vl_type, 65535 in visited_list_pool.h
  Garbage,  \* contents a new mass array may have
  NoIter,   \* no call is running
  Unset     \* a local variable without a value

Tag == 0..MaxTag
List == 1..MaxLists
Null == 0

GraphOK(g) ==
  /\ g.nodes \subseteq Node /\ IsFiniteSet(g.nodes)
  /\ g.deleted \subseteq g.nodes
  /\ g.maxlevel \in Nat
  /\ g.nodes # {} => g.entry \in g.nodes
  /\ g.links \in [0..g.maxlevel -> [g.nodes -> SUBSET g.nodes]]

ASSUME DistAssumption == Dist \in [Query -> [Node -> Int]]
ASSUME TagAssumption == MaxTag \in Nat \ {0}
ASSUME GarbageAssumption == Garbage \subseteq [Node -> Tag] /\ Garbage # {}
ASSUME ListsAssumption == MaxLists \in Nat \ {0}
ASSUME UnsetAssumption == NoIter \notin Iter /\ Unset \notin Node \union Query
ASSUME GraphsAssumption == \A g \in Graphs : GraphOK(g)

VARIABLES
  graph,              \* the index loaded from its file
  curV, mass,         \* of every visited list
  made,               \* number of visited lists allocated so far
  pool,               \* VisitedListPool::pool, front first
  query, vl,          \* of an iterator: m_target_, workspace->vl (Null: no work space)
  candidate_set,      \* workspace->candidate_set
  isFirst,            \* m_isFirstResult_
  popped,             \* history: nodes taken from the queue, in order
  emitted,            \* history: rows returned by Next, in order
  ended,              \* iterators whose last Next had no result
  busy,               \* the iterator whose Next is running
  currObj, level      \* locals of searchKnnIterative

poolVars == <<curV, mass, made, pool>>
iterVars == <<query, vl>>
callVars == <<busy, currObj, level>>
vars == <<graph, poolVars, iterVars, candidate_set, isFirst, popped, emitted, ended, callVars>>

(* The variables range over the values the C++ fields can hold. *)
TypeOK ==
  /\ graph \in Graphs
  /\ curV \in [List -> Tag]
  /\ mass \in [List -> [Node -> Tag]]
  /\ made \in List
  /\ pool \in Seq(List)
  /\ query \in [Iter -> Query \union {Unset}]
  /\ vl \in [Iter -> List \union {Null}]
  /\ candidate_set \in [Iter -> SUBSET graph.nodes]
  /\ isFirst \subseteq Iter
  /\ popped \in [Iter -> Seq(graph.nodes)]
  /\ emitted \in [Iter -> Seq(graph.nodes)]
  /\ ended \subseteq Iter
  /\ busy \in Iter \union {NoIter}
  /\ currObj \in graph.nodes \union {Unset}
  /\ level \in Nat

open == {i \in Iter : vl[i] # Null}
d(i, n) == Dist[query[i]][n]
Nearest(i, S) == {n \in S : \A m \in S : d(i, n) <= d(i, m)}
Marked(l) == {n \in Node : mass[l][n] = curV[l]}

-----------------------------------------------------------------------------
(* The index as loaded: one visited list is in the pool, its counter at    *)
(* the largest tag and its marks uninitialised.                            *)
Init ==
  /\ graph \in Graphs
  /\ made = 1 /\ pool = <<1>>
  /\ curV = [l \in List |-> MaxTag]
  /\ mass \in [List -> Garbage]
  /\ isFirst = {} /\ ended = {}
  /\ query = [i \in Iter |-> Unset]
  /\ vl = [i \in Iter |-> Null]
  /\ candidate_set = [i \in Iter |-> {}]
  /\ popped = [i \in Iter |-> <<>>]
  /\ emitted = [i \in Iter |-> <<>>]
  /\ busy = NoIter /\ currObj = Unset /\ level = 0

(* VisitedList::reset *)
ResetNoClear(l) ==
  /\ curV' = [curV EXCEPT ![l] = IF @ = MaxTag THEN 1 ELSE @ + 1]
  /\ UNCHANGED mass

reset(l) ==
  IF curV[l] = MaxTag
  THEN /\ mass' = [mass EXCEPT ![l] = [n \in Node |-> 0]]
       /\ curV' = [curV EXCEPT ![l] = 1]
  ELSE /\ curV' = [curV EXCEPT ![l] = @ + 1]
       /\ UNCHANGED mass

(* getFreeVisitedList: the front of the pool, or a new list. *)
GetFreeVisitedList(l) ==
  /\ \/ /\ pool # <<>> /\ l = Head(pool)
        /\ pool' = Tail(pool)
        /\ UNCHANGED made
     \/ /\ pool = <<>> /\ l = made + 1 /\ l \in List
        /\ made' = l
        /\ UNCHANGED pool
  /\ reset(l)

ReleaseVisitedList(l) == pool' = <<l>> \o pool

(* ResultIterator's constructor, getFreeWorkSpace and WorkSpace::Reset. *)
Open(i, q, l) ==
  /\ busy = NoIter /\ i \notin open
  /\ GetFreeVisitedList(l)
  /\ query' = [query EXCEPT ![i] = q]
  /\ vl' = [vl EXCEPT ![i] = l]
  /\ candidate_set' = [candidate_set EXCEPT ![i] = {}]
  /\ isFirst' = isFirst \union {i}
  /\ popped' = [popped EXCEPT ![i] = <<>>]
  /\ emitted' = [emitted EXCEPT ![i] = <<>>]
  /\ ended' = ended \ {i}
  /\ UNCHANGED <<graph, callVars>>

(* The work space of an iterator is gone. *)
Dispose(i) ==
  /\ busy = NoIter /\ i \in open
  /\ query' = [query EXCEPT ![i] = Unset]
  /\ vl' = [vl EXCEPT ![i] = Null]
  /\ candidate_set' = [candidate_set EXCEPT ![i] = {}]
  /\ popped' = [popped EXCEPT ![i] = <<>>]
  /\ emitted' = [emitted EXCEPT ![i] = <<>>]
  /\ isFirst' = isFirst \ {i}
  /\ ended' = ended \ {i}
  /\ UNCHANGED <<graph, curV, mass, made, callVars>>

(* Close, which the scan calls once, and the destructor, which then finds  *)
(* m_workspace_ null.                                                      *)
CloseAndDestroy(i) ==
  /\ Dispose(i)
  /\ pool' = <<vl[i], vl[i]>> \o pool

Close(i) ==
  /\ Dispose(i)
  /\ ReleaseVisitedList(vl[i])

(* An error ends the query: nobody calls Close on its iterators. *)
Abort(i) ==
  /\ Dispose(i)
  /\ UNCHANGED pool

-----------------------------------------------------------------------------
(* Next on an index without elements returns at once. *)
NextEmpty(i) ==
  /\ busy = NoIter /\ i \in open /\ graph.nodes = {}
  /\ ended' = ended \union {i}
  /\ isFirst' = isFirst \ {i}
  /\ UNCHANGED <<graph, poolVars, iterVars, candidate_set, popped, emitted, callVars>>

NextCall(i) ==
  /\ busy = NoIter /\ i \in open /\ graph.nodes # {}
  /\ busy' = i
  /\ IF i \in isFirst
     THEN currObj' = graph.entry /\ level' = graph.maxlevel
     ELSE UNCHANGED <<currObj, level>>
  /\ UNCHANGED <<graph, poolVars, iterVars, candidate_set, isFirst, popped, emitted, ended>>

Descending == busy # NoIter /\ busy \in isFirst

(* One pass over a link list of the descent moves to the nearest neighbour *)
(* if it is strictly nearer; a pass that finds none goes down a level.     *)
CloserOrEqual(i, n, cur) == d(i, n) <= d(i, cur)

Closer(i, n, cur) == d(i, n) < d(i, cur)

HopOncePerLevel ==
  LET closer == {n \in Nearest(busy, graph.links[level][currObj]) : Closer(busy, n, currObj)} IN
  /\ Descending /\ level > 0
  /\ level' = level - 1
  /\ currObj' \in IF closer = {} THEN {currObj} ELSE closer
  /\ UNCHANGED <<graph, poolVars, iterVars, candidate_set, isFirst, popped, emitted, ended, busy>>

Hop ==
  LET closer == {n \in Nearest(busy, graph.links[level][currObj]) : Closer(busy, n, currObj)} IN
  /\ Descending /\ level > 0
  /\ \/ currObj' \in closer /\ UNCHANGED level
     \/ closer = {} /\ level' = level - 1 /\ UNCHANGED currObj
  /\ UNCHANGED <<graph, poolVars, iterVars, candidate_set, isFirst, popped, emitted, ended, busy>>

(* The descent ends in the first candidate of the base layer. *)
EnterBaseLayer ==
  /\ Descending /\ level = 0
  /\ candidate_set' = [candidate_set EXCEPT ![busy] = @ \union {currObj}]
  /\ isFirst' = isFirst \ {busy}
  /\ currObj' = Unset
  /\ UNCHANGED <<graph, poolVars, iterVars, popped, emitted, ended, busy, level>>

Searching == busy # NoIter /\ busy \notin isFirst

(* The marks one iteration sets: the popped node and all its neighbours. *)
MarksNeighboursOnly(i, n) == graph.links[0][n]

Marks(i, n) == {n} \union graph.links[0][n]

(* The neighbours it adds to the queue: those not marked before. *)
Unvisited(i, n) ==
  LET l == vl[i] IN {m \in graph.links[0][n] \ {n} : mass[l][m] # curV[l]}

(* The queue's order: the top is a nearest candidate. *)
PopsFarthest(i) == {n \in candidate_set[i] : \A m \in candidate_set[i] : d(i, m) <= d(i, n)}

Top(i) == Nearest(i, candidate_set[i])

(* One iteration of searchBaseLayerSTIterative; a node that is not marked  *)
(* deleted is the result and ends the call.                                *)
Pop(n) ==
  LET i == busy IN
  /\ Searching
  /\ n \in Top(i)
  /\ mass' = [mass EXCEPT ![vl[i]] =
                [m \in Node |-> IF m \in Marks(i, n) THEN curV[vl[i]] ELSE @[m]]]
  /\ candidate_set' = [candidate_set EXCEPT ![i] = (@ \ {n}) \union Unvisited(i, n)]
  /\ popped' = [popped EXCEPT ![i] = Append(@, n)]
  /\ IF n \in graph.deleted
     THEN UNCHANGED <<busy, emitted>>
     ELSE busy' = NoIter /\ emitted' = [emitted EXCEPT ![i] = Append(@, n)]
  /\ UNCHANGED <<graph, curV, made, pool, iterVars, isFirst, ended, currObj, level>>

(* The queue is empty: Next returns without a result. *)
NoResult ==
  /\ Searching
  /\ candidate_set[busy] = {}
  /\ ended' = ended \union {busy}
  /\ busy' = NoIter
  /\ UNCHANGED <<graph, poolVars, iterVars, candidate_set, isFirst, popped, emitted, currObj, level>>

Call == Hop \/ EnterBaseLayer \/ (\E n \in Node : Pop(n)) \/ NoResult

Next ==
  \/ \E i \in Iter, q \in Query, l \in List : Open(i, q, l)
  \/ \E i \in Iter : Close(i) \/ Abort(i) \/ NextEmpty(i) \/ NextCall(i)
  \/ Call

Spec == Init /\ [][Next]_vars

(* A running call is not suspended: the backend executes it to its end. *)
FairSpec == Spec /\ WF_vars(Call)
-----------------------------------------------------------------------------
(* Two open iterators never search with the same visited list, and a list  *)
(* in use is not in the pool: getFreeVisitedList and releaseVisitedList    *)
(* keep every list in one place, through reopened and aborted iterators.   *)
Isolation ==
  /\ \A i, j \in open : vl[i] = vl[j] => i = j
  /\ \A i \in open : vl[i] \notin Range(pool)
  /\ IsInjective(pool)

(* The marks of an iterator's list are exactly the nodes it has popped or  *)
(* queued, although the 16-bit tag wraps around and the list comes with    *)
(* marks of earlier searches or with uninitialised memory.                 *)
MarksAreVisited ==
  \A i \in open :
    Marked(vl[i]) = IF popped[i] = <<>> THEN {} ELSE candidate_set[i] \union Range(popped[i])

(* When Next reports no result, the iterator has popped exactly the nodes  *)
(* reachable from its first one in the base layer: its first node, closed  *)
(* under links, and nothing a smaller such set lacks.                      *)
EndsWhenExhausted ==
  \A i \in ended : graph.nodes # {} =>
    LET closed(S) == \A n \in S : graph.links[0][n] \subseteq S
        visited == Range(popped[i])
    IN /\ popped[i] # <<>>
       /\ closed(visited)
       /\ \A S \in SUBSET graph.nodes :
            popped[i][1] \in S /\ closed(S) => visited \subseteq S

(* A node that comes after a farther one was not linked from any node      *)
(* popped before that one: the search is out of order only by what the     *)
(* graph had not shown it (the relaxed order the hnsw scan builds on).     *)
LateOnlyIfHidden ==
  \A i \in open : \A b \in DOMAIN popped[i] : \A a \in 1..(b - 1) :
    LET p == popped[i] IN
    d(i, p[b]) < d(i, p[a]) => \A c \in 1..(a - 1) : p[b] \notin graph.links[0][p[c]]

(* The descent of searchKnnIterative hands the base layer a local minimum  *)
(* of level 1 that is no farther than the entry point.                     *)
StartsAtLocalMinimum ==
  \A i \in open : popped[i] # <<>> =>
    LET s == popped[i][1] IN
    /\ d(i, s) <= d(i, graph.entry)
    /\ graph.maxlevel > 0 => \A n \in graph.links[1][s] : d(i, s) <= d(i, n)

(* Every call of Next returns. *)
NextReturns == \A i \in Iter : (busy = i) ~> (busy = NoIter)

(* Inside a call of Next the descent goes down a level or strictly nearer, *)
(* is left for good, or a node is popped that the iterator never popped    *)
(* before: neither loop of searchKnnIterative can repeat itself, not even  *)
(* on a cycle of deleted or of equally near nodes.                         *)
NextProgress ==
  [][busy # NoIter /\ busy' = busy =>
       \/ /\ busy \in isFirst
          /\ \/ busy \notin isFirst'
             \/ level' < level
             \/ level' = level /\ d(busy, currObj') < d(busy, currObj)
       \/ /\ busy \notin isFirst'
          /\ \E n \in graph.nodes \ Range(popped[busy]) :
               popped'[busy] = Append(popped[busy], n)]_vars

(* What a scan sees of an iterator. *)
status == [i \in Iter |-> IF i \notin open THEN "closed"
                          ELSE IF i \in ended THEN "ended" ELSE "open"]
RS == INSTANCE ResultStream WITH Row <- Node, Stream <- Iter, delivered <- emitted

(* The iterators of a backend implement independent streams of distinct    *)
(* rows: no row twice, none after the end, whatever the other iterators    *)
(* and aborted queries do to the lists they share.                         *)
ImplementsStream == RS!Spec
=============================================================================

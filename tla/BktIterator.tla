---------------------------- MODULE BktIterator ----------------------------
(***************************************************************************)
(* SPTAG's iterative search of a BKT index: the ResultIterator an sptag    *)
(* index scan opens, the work space it searches with (the nodes checked,   *)
(* the queue of tree nodes SPTQueue and the queue of rows NGQueue) and the *)
(* pool the work spaces are rented from.  Several iterators may be open on *)
(* one index, but one backend runs one call at a time.                     *)
(*                                                                         *)
(* A call of Next is broken into the iterations of its loops: TreeStep is  *)
(* one iteration of SearchTrees, GraphStep one of SearchIterative.  The    *)
(* set of checked nodes is the abstract one VisitedTable implements.  A    *)
(* row that ends a k-means clustering with copies of itself heads a group: *)
(* its members hang under its tree node, have no neighbours, and are in no *)
(* neighbour list; they are queued when the head is.                       *)
(***************************************************************************)
EXTENDS Integers, Sequences, FiniteSets, Functions, BoundedHeap

CONSTANTS
  Row,           \* vector ids
  Iter,          \* iterators
  Query,         \* query vectors
  Dist,          \* m_fComputeDistance
  Indexes,       \* index files: rows, tree nodes, starts, neighbours, group, deleted, maxCheck
  Threads,       \* m_iNumberOfThreads: work spaces made with the pool
  MaxSpaces,     \* bound on the work spaces that may be allocated
  SPTFactor,     \* queue sizes per maxCheck: 10 and 30 in WorkSpace.h
  NGFactor,
  InitialPivots, \* m_iNumberOfInitialDynamicPivots
  OtherPivots,   \* m_iNumberOfOtherDynamicPivots
  NoIter,        \* no call is running
  Unset          \* a local variable without a value

Space == 1..MaxSpaces
Null == 0

(* A tree node: centerid, its children, and whether SearchTrees descends   *)
(* into them (childStart >= 0) or treats it as a leaf.  starts are the     *)
(* trees' roots.  BuildTrees appends a node's children after it and gives  *)
(* every node but the root of a divided tree a row; what hangs under a     *)
(* node that is not descended into are leaves, the members of its group.   *)
TreesOK(x) ==
  LET kids(t) == x.tree[t].children IN
  /\ x.tree \in Seq([center : Row \union {Null}, inner : BOOLEAN, children : Seq(1..Len(x.tree))])
  /\ x.starts \in Seq(DOMAIN x.tree) /\ x.starts # <<>>
  /\ \A t \in DOMAIN x.tree :
       /\ x.tree[t].center \in x.rows <=> ~(x.tree[t].inner /\ t \in Range(x.starts))
       /\ \A c \in Range(kids(t)) :
            /\ c > t /\ c \notin Range(x.starts)
            /\ ~x.tree[t].inner => ~x.tree[c].inner /\ kids(c) = <<>>
       /\ \A u \in DOMAIN x.tree : \A a \in DOMAIN kids(t), b \in DOMAIN kids(u) :
            kids(t)[a] = kids(u)[b] => t = u /\ a = b

(* An index with one tree: every row is at one node of it.  BuildGraph     *)
(* keeps a group's members out of the neighbour lists; the last neighbour  *)
(* slot of a group's head may name the group's node.                       *)
OneTree(x) ==
  /\ \A r \in x.rows : \E t \in DOMAIN x.tree : x.tree[t].center = r
  /\ \A t, u \in DOMAIN x.tree : x.tree[t].center = x.tree[u].center => t = u
  /\ \A t \in DOMAIN x.tree \ Range(x.starts) : \E u \in DOMAIN x.tree : t \in Range(x.tree[u].children)
  /\ \A r \in x.rows : x.group[r] # Null => x.tree[x.group[r]].center = r /\ ~x.tree[x.group[r]].inner
  /\ \A t \in DOMAIN x.tree : ~x.tree[t].inner =>
       \A c \in Range(x.tree[t].children), r \in x.rows : x.tree[c].center \notin Range(x.neighbours[r])

(* The members of groups that no slot names.  BuildGraph returns before it *)
(* writes the slots when the index has fewer than 1000 rows.               *)
Unlisted(x) ==
  LET unnamed == {t \in DOMAIN x.tree : ~x.tree[t].inner /\ x.group[x.tree[t].center] # t}
  IN {x.tree[c].center : c \in UNION {Range(x.tree[t].children) : t \in unnamed}}

(* group is the tree node a row's last neighbour slot names, or Null. *)
IndexOK(x) ==
  /\ x.rows \subseteq Row
  /\ TreesOK(x)
  /\ x.neighbours \in [x.rows -> Seq(x.rows)]
  /\ x.group \in [x.rows -> DOMAIN x.tree \union {Null}]
  /\ x.deleted \subseteq x.rows
  /\ x.maxCheck \in Nat \ {0}
  /\ Len(x.starts) = 1 => OneTree(x)

ASSUME DistAssumption == Dist \in [Query -> [Row -> Int]]
ASSUME IndexAssumption == \A x \in Indexes : IndexOK(x)
ASSUME PoolAssumption == Threads \in Nat /\ MaxSpaces \in Nat /\ Threads <= MaxSpaces
ASSUME PivotAssumption == InitialPivots \in Nat \ {0} /\ OtherPivots \in Nat \ {0}
ASSUME FactorAssumption == SPTFactor \in Nat \ {0} /\ NGFactor \in Nat \ {0}
ASSUME UnsetAssumption == NoIter \notin Iter /\ Unset \notin Row \union Query

VARIABLES
  index,                        \* the index loaded from its files
  made, pool,                   \* work spaces allocated, m_workSpacePool front first
  nodeCheckStatus, SPT, NG,     \* of every work space
  query, space, isFirst,        \* m_target, m_workspace (Null: none), m_isFirstResult
  emitted, ended,               \* rows returned by Next; iterators whose last Next had none
  lost,                         \* history: iterators that inserted into a full queue
  busy, pc, got, leaves, limit  \* the running Next: its loop, result, checked leaves, p_limits

spaceVars == <<nodeCheckStatus, SPT, NG>>
poolVars == <<made, pool>>
iterVars == <<query, space, isFirst>>
callVars == <<busy, pc, got, leaves, limit>>
vars == <<index, poolVars, spaceVars, iterVars, emitted, ended, lost, callVars>>

SPTLength == SPTFactor * index.maxCheck
NGLength == NGFactor * index.maxCheck
open == {i \in Iter : space[i] # Null}
TreeNode == DOMAIN index.tree
center(t) == index.tree[t].center
Inner(t) == index.tree[t].inner
children(t) == index.tree[t].children

(* NodeDistPair of a row, and of a tree node. *)
RowPair(i, r) == [node |-> r, distance |-> Dist[query[i]][r]]
TreePair(i, t) == [node |-> t, distance |-> Dist[query[i]][center(t)]]
RowPairs(i, s) == [p \in DOMAIN s |-> RowPair(i, s[p])]
TreePairs(i, s) == [p \in DOMAIN s |-> TreePair(i, s[p])]
Nodes(h) == {h[p].node : p \in DOMAIN h}

(* The variables range over the values the C++ fields can hold; the queues *)
(* stay within the sizes they were given and keep their least entry first. *)
TypeOK ==
  /\ index \in Indexes
  /\ made \in Threads..MaxSpaces /\ pool \in Seq(1..made)
  /\ nodeCheckStatus \in [Space -> SUBSET Row]
  /\ \A w \in Space :
       /\ Nodes(SPT[w]) \subseteq TreeNode /\ Len(SPT[w]) <= SPTLength /\ HeapOrdered(SPT[w])
       /\ Nodes(NG[w]) \subseteq Row /\ Len(NG[w]) <= NGLength /\ HeapOrdered(NG[w])
  /\ query \in [Iter -> Query \union {Unset}]
  /\ space \in [Iter -> 0..made]
  /\ isFirst \subseteq Iter /\ ended \subseteq Iter /\ lost \subseteq Iter
  /\ emitted \in [Iter -> Seq(Row)]
  /\ busy \in Iter \union {NoIter}
  /\ pc \in {"idle", "trees", "graph"}
  /\ got \in Row \union {Unset}
  /\ leaves \in Nat /\ limit \in Nat
-----------------------------------------------------------------------------
(* The index as loaded: WorkSpacePool::Init has made its work spaces. *)
Init ==
  /\ index \in Indexes
  /\ made = Threads /\ pool = [w \in 1..Threads |-> w]
  /\ nodeCheckStatus = [w \in Space |-> {}]
  /\ SPT = [w \in Space |-> <<>>] /\ NG = [w \in Space |-> <<>>]
  /\ query = [i \in Iter |-> Unset]
  /\ space = [i \in Iter |-> Null]
  /\ isFirst = {} /\ ended = {} /\ lost = {}
  /\ emitted = [i \in Iter |-> <<>>]
  /\ busy = NoIter /\ pc = "idle" /\ got = Unset /\ leaves = 0 /\ limit = 0

(* The front of the pool, or a new work space. *)
Rent(w) ==
  \/ /\ pool # <<>> /\ w = Head(pool)
     /\ pool' = Tail(pool)
     /\ UNCHANGED made
  \/ /\ pool = <<>> /\ w = made + 1 /\ w \in Space
     /\ made' = w
     /\ UNCHANGED pool

(* WorkSpace::Reset *)
Reset(w) ==
  /\ nodeCheckStatus' = [nodeCheckStatus EXCEPT ![w] = {}]
  /\ SPT' = [SPT EXCEPT ![w] = <<>>]
  /\ NG' = [NG EXCEPT ![w] = <<>>]

GetIterator(i, q, w) ==
  /\ busy = NoIter /\ i \notin open
  /\ Rent(w) /\ Reset(w)
  /\ query' = [query EXCEPT ![i] = q]
  /\ space' = [space EXCEPT ![i] = w]
  /\ isFirst' = isFirst \union {i}
  /\ UNCHANGED <<index, emitted, ended, lost, callVars>>

(* The iterator no longer has its work space. *)
Dispose(i) ==
  /\ busy = NoIter /\ i \in open
  /\ query' = [query EXCEPT ![i] = Unset]
  /\ space' = [space EXCEPT ![i] = Null]
  /\ isFirst' = isFirst \ {i}
  /\ emitted' = [emitted EXCEPT ![i] = <<>>]
  /\ ended' = ended \ {i} /\ lost' = lost \ {i}
  /\ UNCHANGED <<index, made, spaceVars, callVars>>

(* Close returns the work space and forgets it, so that the destructor,    *)
(* which runs later, returns nothing.                                      *)
CloseForgetsNothing(i) ==
  /\ Dispose(i)
  /\ pool' = pool \o <<space[i], space[i]>>

Close(i) ==
  /\ Dispose(i)
  /\ pool' = Append(pool, space[i])

(* An error ends the query: nobody calls Close on its iterators. *)
Abort(i) ==
  /\ Dispose(i)
  /\ UNCHANGED pool

-----------------------------------------------------------------------------
Overflow(h, length, s) == Len(h) + Len(s) > length

(* InitSearchTrees without EnableBfs, the default: of every tree the       *)
(* children of its root, or the root if it is a leaf or a group.           *)
FirstNodes ==
  Loop(<<>>, Len(index.starts),
       LAMBDA s, k : s \o (IF Inner(index.starts[k]) THEN children(index.starts[k])
                           ELSE <<index.starts[k]>>))

(* Next: ResetResult, and on the first call InitSearchTrees. *)
NextCall(i) ==
  LET w == space[i] IN
  /\ busy = NoIter /\ i \in open
  /\ busy' = i /\ leaves' = 0 /\ got' = Unset
  /\ isFirst' = isFirst \ {i}
  /\ IF i \in isFirst
     THEN /\ SPT' = [SPT EXCEPT ![w] = insertAll(@, SPTLength, TreePairs(i, FirstNodes))]
          /\ lost' = IF Overflow(SPT[w], SPTLength, FirstNodes) THEN lost \union {i} ELSE lost
          /\ pc' = "trees" /\ limit' = InitialPivots
     ELSE pc' = "graph" /\ limit' = 0 /\ UNCHANGED <<SPT, lost>>
  /\ UNCHANGED <<index, poolVars, nodeCheckStatus, NG, query, space, emitted, ended>>

(* SearchTrees has emptied its queue. *)
TreesEmpty ==
  /\ pc = "trees" /\ SPT[space[busy]] = <<>>
  /\ pc' = "graph"
  /\ UNCHANGED <<index, poolVars, spaceVars, iterVars, emitted, ended, lost, busy, got, leaves, limit>>

(* One iteration of SearchTrees: the nearest tree node; its centre joins   *)
(* the rows to search unless it was checked before.  A leaf counts against *)
(* the limit, an inner node is replaced by its children.                   *)
TreeStep ==
  LET i == busy
      w == space[i]
      t == Top(SPT[w]).node
      row == IF center(t) \in nodeCheckStatus[w] THEN <<>> ELSE <<center(t)>>
      below == IF Inner(t) THEN children(t) ELSE <<>>
      rest == pop(SPT[w])
  IN
  /\ pc = "trees" /\ SPT[w] # <<>>
  /\ nodeCheckStatus' = [nodeCheckStatus EXCEPT ![w] = @ \union {center(t)}]
  /\ NG' = [NG EXCEPT ![w] = insertAll(@, NGLength, RowPairs(i, row))]
  /\ SPT' = [SPT EXCEPT ![w] = insertAll(rest, SPTLength, TreePairs(i, below))]
  /\ lost' = IF Overflow(NG[w], NGLength, row) \/ Overflow(rest, SPTLength, below)
             THEN lost \union {i} ELSE lost
  /\ leaves' = IF Inner(t) THEN leaves ELSE leaves + Len(row)
  /\ pc' = IF ~Inner(t) /\ leaves' >= limit THEN "graph" ELSE "trees"
  /\ UNCHANGED <<index, poolVars, iterVars, emitted, ended, busy, got, limit>>

(* The neighbours of a row that were not checked before, each once. *)
UncheckedKeepsAll(w, r) == index.neighbours[r]

Unchecked(w, r) ==
  Loop(<<>>, Len(index.neighbours[r]),
       LAMBDA s, k : IF index.neighbours[r][k] \in nodeCheckStatus[w] \union Range(s) THEN s
                     ELSE Append(s, index.neighbours[r][k]))

(* The members of the group a row heads, queued without a check. *)
GroupMembers(r) ==
  IF index.group[r] = Null THEN <<>>
  ELSE LET group == children(index.group[r]) IN
       Loop(<<>>, Len(group),
            LAMBDA s, k : IF center(group[k]) \in index.deleted THEN s ELSE Append(s, center(group[k])))

(* The tree is searched when it may hold a nearer row than the queue; the  *)
(* top of an empty queue is at MaxDist.                                    *)
TreeIsNearer(ng, spt) == spt # <<>> /\ (ng = <<>> \/ Less(Top(spt), Top(ng)))

(* p_limits: the leaves already checked do not count. *)
LimitCountsAll(n) == OtherPivots

LimitAfter(n) == OtherPivots + n

(* One iteration of SearchIterative: the nearest queued row is the result  *)
(* unless it is deleted; its group and its neighbours are queued.          *)
GraphStep ==
  LET i == busy
      w == space[i]
      r == Top(NG[w]).node
      new == GroupMembers(r) \o Unchecked(w, r)
      rest == pop(NG[w])
  IN
  /\ pc = "graph" /\ got = Unset /\ NG[w] # <<>>
  /\ got' = IF r \in index.deleted THEN Unset ELSE r
  /\ NG' = [NG EXCEPT ![w] = insertAll(rest, NGLength, RowPairs(i, new))]
  /\ lost' = IF Overflow(rest, NGLength, new) THEN lost \union {i} ELSE lost
  /\ nodeCheckStatus' = [nodeCheckStatus EXCEPT ![w] = @ \union Range(Unchecked(w, r))]
  /\ leaves' = leaves + Len(Unchecked(w, r))
  /\ IF TreeIsNearer(NG'[w], SPT[w])
     THEN pc' = "trees" /\ limit' = LimitAfter(leaves')
     ELSE UNCHANGED <<pc, limit>>
  /\ UNCHANGED <<index, poolVars, SPT, iterVars, emitted, ended, busy>>

EndCall == busy' = NoIter /\ pc' = "idle" /\ got' = Unset /\ leaves' = 0 /\ limit' = 0

(* count has reached the batch of one: Next returns the row. *)
Result ==
  /\ pc = "graph" /\ got # Unset
  /\ emitted' = [emitted EXCEPT ![busy] = Append(@, got)]
  /\ EndCall
  /\ UNCHANGED <<index, poolVars, spaceVars, iterVars, ended, lost>>

(* The queue is empty: Next returns without a result. *)
NoResultWaits == pc = "graph" /\ got = Unset /\ NG[space[busy]] = <<>> /\ UNCHANGED vars

NoResult ==
  /\ pc = "graph" /\ got = Unset /\ NG[space[busy]] = <<>>
  /\ ended' = ended \union {busy}
  /\ EndCall
  /\ UNCHANGED <<index, poolVars, spaceVars, iterVars, emitted, lost>>

Call == TreesEmpty \/ TreeStep \/ GraphStep \/ Result \/ NoResult

Next ==
  \/ \E i \in Iter, q \in Query, w \in Space : GetIterator(i, q, w)
  \/ \E i \in Iter : Close(i) \/ Abort(i) \/ NextCall(i)
  \/ Call

Spec == Init /\ [][Next]_vars

(* A running call is not suspended: the backend executes it to its end. *)
FairSpec == Spec /\ WF_vars(Call)
-----------------------------------------------------------------------------
(* Two open iterators never search with the same work space, and a work    *)
(* space in use is not in the pool, through Rent, Close and aborted        *)
(* queries.                                                                *)
Isolation ==
  /\ \A i, j \in open : space[i] = space[j] => i = j
  /\ \A i \in open : space[i] \notin Range(pool)
  /\ IsInjective(pool)

(* When Next reports no result, every row that is not deleted has been     *)
(* returned, by way of the tree where the neighbourhood graph does not     *)
(* reach it, unless one of the bounded queues was full and gave up an      *)
(* entry.  Only members of a group that no slot names never come.          *)
EndsWithAllRows ==
  \A i \in ended \ lost : Range(emitted[i]) = index.rows \ (index.deleted \union Unlisted(index))

(* The same with no exception for groups, which fails on an index of fewer *)
(* than 1000 rows that has one (MCBktSmall.cfg).                           *)
EndsWithEveryRow ==
  \A i \in ended \ lost : Range(emitted[i]) = index.rows \ index.deleted

(* A row returned after a farther one is neither a neighbour nor a member  *)
(* of the group of a row returned before that one: with no queue full, the *)
(* search is out of order only by what the graph had not shown it (the     *)
(* relaxed order the sptag scan builds on).                                *)
LateOnlyIfHidden ==
  \A i \in open \ lost : \A b \in DOMAIN emitted[i] : \A a \in 1..(b - 1) :
    LET e == emitted[i] IN
    Dist[query[i]][e[b]] < Dist[query[i]][e[a]] =>
      \A c \in 1..(a - 1) : e[b] \notin Range(index.neighbours[e[c]]) \union Range(GroupMembers(e[c]))

(* The rows a search with work space w may still take: those queued, those *)
(* that the tree or a neighbour list may queue, and the groups they head.  *)
Awaited(w) ==
  LET grouped == {t \in TreeNode : ~Inner(t)}
      members == {center(c) : c \in UNION {Range(children(t)) : t \in grouped}}
      ahead == Nodes(NG[w]) \union (index.rows \ (nodeCheckStatus[w] \union members))
  IN ahead \union UNION {Range(GroupMembers(r)) : r \in ahead}

(* On an index with one tree a row, deleted or not, is taken at most once  *)
(* in the life of an iterator: no step, of its own calls or of others with *)
(* the work spaces of the pool, brings one back, and every iteration of    *)
(* SearchIterative uses one up.  So the graph search of a call ends.       *)
TakenOnce ==
  [][\A i \in open : i \in open' =>
       /\ Awaited(space[i])' \subseteq Awaited(space[i])
       /\ busy = i /\ busy' = i /\ pc = "graph" => Awaited(space[i])' # Awaited(space[i])]_vars

(* Every call of Next returns. *)
NextReturns == \A i \in Iter : (busy = i) ~> (busy = NoIter)

(* What a scan sees of an iterator. *)
status == [i \in Iter |-> IF i \notin open THEN "closed"
                          ELSE IF i \in ended THEN "ended" ELSE "open"]
RS == INSTANCE ResultStream WITH Stream <- Iter, delivered <- emitted

(* The iterators of a backend implement independent streams of distinct    *)
(* rows on an index with one tree: no row twice, none after the end.       *)
ImplementsStream == RS!Spec
=============================================================================

# VBASE: a TLA+ verification development

VBASE is PostgreSQL 13.4, changed in a few places, with the extension
`vectordb`. The extension adds index access methods for vectors (`hnsw`,
`sptag`, `pase_hnsw`), distance and range operators, and the multi-index
functions `topk` and `multicol_topk`. Underneath are modified copies of
hnswlib and SPTAG whose searches are *iterative*: a scan asks for one row at a
time and gets them in a relaxed order, near rows roughly first. Operators above
the scan decide when they have seen enough.

This directory holds the models of that machinery, the TLC configurations that
check them, and TLAPS proofs for every value of the constants.
`PROJECT.json` is the index: components, runs, the map from each definition to
its source lines, mutants, findings, hazards and theorems.

## 1. Inventory

| Part | Source (under `src/vectordb/`) | Model |
|---|---|---|
| `topk`, `multicol_topk` and their node | `src/topk.cpp`, `src/multicol_topk.cpp` | `Fagins`, abstractly `TopK` |
| hnswlib iterative search, work spaces, visited-list pool | `thirdparty/hnsw/hnswlib/{hnswalg,result_iterator,workspace,visited_list_pool}.h` | `HnswIterator`, abstractly `ResultStream` |
| SPTAG's BKT iterative search, queues, work spaces and their pool | `thirdparty/SPTAG/AnnService/` (`BKTIndex.cpp`, `BKTree.h`, `Heap.h`, `WorkSpacePool.h`, `ResultIterator.cpp`) | `BktIterator` on `BoundedHeap`, abstractly `ResultStream` |
| SPTAG's hash table of visited nodes | `inc/Core/Common/WorkSpace.h` | `VisitedTable`, abstractly `VisitedSet` |
| Access methods hnsw, sptag, pase_hnsw: scan | `src/hnswindex.cpp`, `src/index.cpp`, `src/pase_hnswindex.cpp` | `HnswScan`, `SptagScan`, `PaseScan` on `IndexNode`; together `IndexScans` |
| Index scan node, Sort node, planner change | `Postgres/src/backend/executor/{nodeIndexscan,nodeSort}.c`, `utils/sort/tuplesort.c`, `optimizer/plan/planner.c` | `IndexNode`, `SortedScan` |
| hnsw access method: build, index files, per-session map | `src/hnswindex.cpp`, `src/hnswindex_builder.cpp`, `src/hnswindex_scan.cpp` | `IndexFiles` |
| Distance and range operators | `src/operator.cpp` | the comparison only, in `IndexNode` |
| Graph and tree construction, sptag build, `MultiIndexScan`, model inference, entry point, benchmarks | | no, see section 5 |

How they interact: a query's executor drives `amgettuple` through `IndexNext`.
The first call takes the index from the session's map, which `ambeginscan`
filled from the index file, and opens a `ResultIterator` on it. Each further
call takes results from that iterator until one can be returned. A `Sort` above
may stop early when the scan declares itself in order. `topk` runs one such scan
per order-by expression, in turn, and merges them in a bounded heap.

The models meet at `ResultStream`. Both iterators implement it
(`ImplementsStream`), the scans drive their search as one (`DrivesStream`) and
are one themselves (`ProvidesStream`), which is what `Fagins` takes each of its
scans to be. So no layer need be checked again on top of the one below. Likewise
`BktIterator` marks nodes in the set that `VisitedTable` implements.

One backend is one thread. Concurrency is between sessions (index files), and
between the scans of one query, which share an index and its pool and interleave
at the granularity of one call.

The repository contains all of PostgreSQL and SPTAG. What is modelled is the
code that makes VBASE: a small share of the repository's lines, and most of the
control in `src/vectordb/src` and of the two iterative searches.

## 2. Modules

**`TopK`** is what a top-k function promises: it collects rows, settles, and
returns the k best rows collected, best first. **`Fagins`** is the code.
`FirstCall`, `PerCall`, `Return` and `Finish` are the set-returning protocol.
`ChildDry`, `ChildSeen`, `ChildKeep`, `ChildDrop` and `EndRound` are one turn of
the loop of `execFagins`, and `Drain` empties the max-heap into the stack.
`Error` and `Abandon` are the ways out. The memory context is part of the state,
because the loop switches it around every child call. An index scan returns any
row it has not returned, or its end. `ImplementsTopK` maps `Fagins` to `TopK`.

**`ResultStream`** is what an iterative search promises: distinct rows, none
after the end, streams independent of each other.

**`HnswIterator`** is hnswlib's. `Open` is the constructor with
`getFreeVisitedList` and `reset`. `Close` returns the list; `Abort` is a failed
query, which never calls it. A call of `Next` is `NextCall`, then `Hop`s down
the levels, `EnterBaseLayer`, and `Pop`s until a node that is not deleted is
found, or `NoResult`. Tags have a finite width and wrap around; a new list has
arbitrary marks. `emitted` and `popped` are history. The candidate queue is a
set: no node is queued twice, which `MarksAreVisited` implies. Link lists are
sets, and ties go either way.

**`BktIterator`** is SPTAG's. `GetIterator` rents a work space (`Rent`) and
clears it; `Close` returns it, `Abort` does not. A call of `Next` is `NextCall`,
then iterations of `SearchTrees` (`TreeStep`, `TreesEmpty`) and of
`SearchIterative` (`GraphStep`), ended by `Result` or `NoResult`. The trees are
entered as without `EnableBfs`, the default (`FirstNodes`). `lost` records
the iterators that inserted into a full queue.

An index is any that `IndexOK` describes. `TreesOK` is the shape of the trees as
`BuildTrees` writes them. `OneTree` is what else holds of an index with one tree,
the default: a node for every row, and no member of a group in a neighbour list.
A row that ends a clustering with copies of itself heads a group, whose members
hang under its tree node. The head's last neighbour slot names that node, but
`BuildGraph` leaves before it writes the slots when the index has fewer than 1000
rows. The members of such a group are `Unlisted`, and no search returns them.

**`BoundedHeap`** is `Heap.h` as functions on sequences. A loop of the code is a
`Loop`: the state after a number of iterations, where an iteration with nothing
left to do changes nothing. `insert` into a full heap gives up the greatest entry
of the last level.

**`VisitedTable`** is `OptHashPosVector`: two blocks, quadratic probes, growth in
the middle of a call (`DoubleSize`, then one step per copied slot) and a `clear`
that skips the second block when a flag allows. **`VisitedSet`** is the set it
should be.

**`IndexNode`** is `IndexNext` and what the three access methods share: the scan
descriptor, the scan state and the loop over results. **`HnswScan`**,
**`SptagScan`** and **`PaseScan`** add each method's `amrescan`, `amgettuple` and
`amendscan`; **`IndexScans`** is a scan of any of them. The search is any order
of distinct rows, ended at any time. Keys may be NULL. Of a scan with an order-by
key and a range key the access method reads the first only; both have the same
vector and are NULL together. With an order-by key the node runs
`IndexNextWithReorder`. That is `IndexNext` here, as the access methods set
`xs_recheckorderby` to false and the reorder queue stays empty. `xs_recheck` and
`xs_inorder` start as any Boolean, since `RelationGetIndexScan` does not set
them. Dereferencing a null pointer sets `crashed`. `pase_hnsw` takes one batch
and queues it under `1 - distance`, rounded.

**`SortedScan`** extends `IndexScans` with the planner's decision whether a path
needs a Sort and with two Sort nodes that read the flag of the shared `EState`.
Sorts are in memory: the tape merge is not modelled.

**`IndexFiles`** is the life of an index file. `CreateIndex`, `Reindex` and
`Rewrite` start a build, which truncates the file, and `SaveIndex` completes it,
or `SaveCut` leaves it torn: `saveIndex` never looks at the state of its stream.
A build loads the rows that have a vector (`Vectors`); the others it skips.
`Commit` ends a transaction, and so does an error, which leaves the session and
its map alone (`Abort`): INSERT into an indexed table, as `aminsert` is null
(`InsertError`), a build that finds vectors of two lengths (`BuildError`), or any
other failing or cancelled statement and ROLLBACK (`Rollback`). `EndSession` and
`Die` end sessions and with them their maps. `BeginScan` or `LoadThrows`, then
`GetTuple` or `LookupNull`, are a scan. An index has an oid, which a rebuild
keeps. The `workload` variable selects which optional commands a behaviour may
use.

Abstractions of `IndexFiles`:
- A row is a heap tuple at its TID, so a rewritten table has other rows.
- A table has one vector index and is alone in its schema.
- A transaction changes one table.
- Two saves of one file do not overlap.
- UPDATE is an INSERT. DELETE, which only takes rows away, is left out.
- A build that raises an error does so before it opens its file, and opening the
  file succeeds. `hnsw_build` turns a C++ exception into a FATAL error, which ends
  its session.
- An uncaught C++ exception in a scan, or a null pointer, restarts the server.
- Savepoints and CREATE INDEX CONCURRENTLY are not modelled.

`MC*` modules hold the bounds, `BktLemmas` and the modules named `*Proofs` the proofs.

## 3. Model checking

Run as `tlc -config X.cfg M`. Passing runs:

| Run | Distinct states | Shows |
|---|---|---|
| `fagins` | 59,862 | `KeepsBestSeen`: heap, stack and output are the ef best rows seen. `ReturnsBestInOrder`: ascending, distinct, the k best of those seen. `StopsOnlyWhenStable`: the documented stop rule. `ExactWhenExhausted`. `RoundRobin`: the scans stay in step. `NoCallAfterEnd`: no scan is called once one has ended. `ContextLeaksOnOverlap`: a query's context stays current only after a row two scans returned. `ImplementsTopK`. `Terminates`. |
| `hnsw_iterators` | 214,104 | `Isolation`: no two iterators share a list. `MarksAreVisited`: marks are exactly the queued and popped nodes, through wrap-around and garbage. `ImplementsStream`. |
| `hnsw_search` | 5,524 | `EndsWhenExhausted`: the end means every reachable node was popped. `LateOnlyIfHidden`: a node out of order was not linked from any node popped earlier. `StartsAtLocalMinimum`. `NextProgress`: every step of a call goes down, nearer, or pops a new node. `NextReturns`. |
| `scans` | 596,748 | `RangeExact`, `RangeEndJustified`: what a range scan returns and why it ends. `InOrderIffSettled`: when an hnsw scan declares itself in order. `PaseNearestFirst`: order up to rounding. `EarlyStopIsExact`: a Sort that stops early has the true nearest rows if the index kept the order it declared; a stale flag never stops it. `RangeRowsMatch`: a row that fails its range key gets through only unrechecked, at the boundary or with an order-by key. `DrivesStream`. `ProvidesStream`: the scan node is itself a stream of distinct rows. `GetTupleReturns`. |
| `visited_table` | 186,174 | `ImplementsSet`: through collisions, both blocks, growth and reuse, `CheckAndSet` answers as a set would. `CheckAndSetReturns`. |
| `bkt_search` | 42,871 | `Isolation` of work spaces. `ImplementsStream`: no row twice, although groups are queued without a check. `EndsWithAllRows`: the end means every row but the unlisted ones was returned, unless a queue was full. `LateOnlyIfHidden`. `TakenOnce`: a row, deleted or not, is taken once in the life of an iterator, and each iteration of the graph search takes one. `NextReturns`. |
| `index_files` | 1,143,332 | `FileCoversTable`: without renames and rewrites, the file of a committed index has every row with a vector or is torn. `OwnBuildSeesTable`: the graph of an index's own build has every row with a vector. `ScanKeepsItsGraph`: without renames, a begun scan finds the graph it loaded. `MapCoversTable`: without rewrites, a graph in a map, which nothing invalidates, covers the table as long as the index it was built for exists; so a map keyed by oid would do. `FilesTypeOK`: no map holds a torn graph. |

Runs that end in a counterexample, each a disagreement of the code with a line of
the repository (quoted under `findings`):

| Run | Property | What happens |
|---|---|---|
| `fagins_contexts` | `QueryContextNotCurrent` | `continue` for a row already seen (`topk.cpp:457`) skips the switch back; the child's context is freed while current. |
| `null_key` | `NoNullDereference` | A NULL key leaves a work space without iterator; rescan or end of scan follows the null pointer. |
| `sort_fed` | `SortsFedAll` | `sptag` never writes `xs_inorder`. A Sort by another column over a range scan may read it as set and stop after one row. |
| `sptag_unsorted` | `UnsortedPlanInOrder` | `sptag` is planned without a Sort, as if its order were exact. |
| `index_stale` | `ScanSeesTable` | CREATE INDEX and a scan in a transaction that fails, INSERT, CREATE INDEX of the same name: the session goes on using the graph of the first index. DROP INDEX in place of the failure does the same. |

More configurations are kept beside the runs, as documented counterexamples:

| Configuration | Shows |
|---|---|
| `MCFaginsMultiCall.cfg` | the multi-call context is deleted while current |
| `MCScanBoth.cfg` | with an order-by key the range key is not read, and the recheck flag is not set |
| `MCScanBoundary.cfg` | scan and operator disagree on a distance equal to the range |
| `MCOuterSort.cfg` | an outer Sort reads the flag that a scan below an inner Sort set |
| `MCBktForest.cfg` | with two trees, not the default, a group's member may be delivered twice |
| `MCBktSmall.cfg` | in an index of fewer than 1000 rows a search returns the head of a group of copies and never the other members |
| `MCVisitedEndless.cfg` | an entry of the old table that does not fit into the doubled one starts the same copy again, without end |
| `MCIndexTruncate.cfg` | a rolled back TRUNCATE leaves the file of the empty table (`CommittedFilesCover`) |
| `MCIndexNulls.cfg` | a row whose vector is NULL is not in the index, so no index scan returns it, while `amoptionalkey` is set and `Postgres/doc/src/sgml/indexam.sgml:217-220` says that such an index must index nulls |
| `MCIndexRename.cfg` | a renamed index cannot be loaded |
| `MCIndexSchemas.cfg` | indexes of one name in two schemas share a file |

### Bounds

- `fagins`: four rows, two with equal scores, two scans; calls with ef above
  and below k, defaults, and k = 0. Heaps fill, ties are replaced, drops reach
  the limit and scans run dry in mid-round. The defaults are 3 and 2, not 64
  and 50.
- `hnsw_iterators`: two iterators, three lists, three nodes, and tags 0 to 2
  instead of 0 to 65535, so that a list wraps around after two reuses.
- `hnsw_search`: four nodes with a tie, on four graphs: a two-hop descent; tied
  upper neighbours with a near node hidden behind a far one; deleted nodes; an
  empty index.
- `scans`: five rows, one dead; keys of every shape; two queries with different
  orders, a tie and a row exactly at the range, and a NULL key; thresholds of 2
  (3, 50 and 86 in the code; 3 for `sptag`), so that queues overflow and
  counters reach their limits; a batch of 3 for `pase_hnsw` (188) and a rounding
  step of 2; limits below, at and above the scan's queue.
- `visited_table`: seven ids that collide, three probes per block (eight in the
  code) and a table of two slots per block, so that both blocks fill and the
  table grows in the middle of a call.
- `bkt_search`: six rows on a line, two of them copies; seven index files: a
  three-level tree over a disconnected graph, with and without deleted rows, with
  short queues and with a group no slot names; one group; a flat tree; a star.
  Two iterators, a pool of one work space that grows by one.
- `index_files`: one table, two names, two sessions, three rows, one of them with
  a NULL vector, three builds; DROP INDEX and REINDEX, or renames, or commands
  that move rows. Rows with a vector and sessions are symmetric; no liveness is
  checked there. Names are reused within the one table; two tables whose indexes
  share a name are in `MCIndexSchemas.cfg` and in the proofs.

Deadlock is checked for `visited_table` only. Each other model may come to rest:
the function is done, the scan is closed, the build bound is reached.

### Fairness

Each liveness property assumes weak fairness of the *running call* only. That is
`Call` in both iterators, `ScanStep` in `SortedScan`, and any step inside
`CheckAndSet` in `VisitedTable`. A backend executes a call it has entered until
the call returns. Nothing is assumed of the caller: it need not ask for another
row, close a scan or commit. The exception is `Fagins`, whose `FairSpec` also
makes the executor call again, or abandon the function, which is what running a
query to its end means. The executor is taken not to ask again after the end of
a scan.

## 4. Proofs

All proofs are checked by TLAPS, for every value of the constants that meets the
named assumptions of the modules. Each inductive invariant also holds, by TLC, on
the instances of section 3. What each theorem module establishes, and
along which argument:

**`FaginsProofs`**: type correctness, `KeepsBestSeen`, `ReturnsBestInOrder`,
`ImplementsTopK`, `StopsOnlyWhenStable`, `ExactWhenExhausted`, `RoundRobin`,
`NoCallAfterEnd`, `ContextLeaksOnOverlap`. For any table,
scores, number of scans and calls. It assumes integer scores, at least one scan
and positive defaults. The inductive invariant is

    IInv == TypeOK /\ ControlInv /\ KeepsBestSeen /\ OrderInv

`KeepsBestSeen` is not inductive by itself. Draining keeps it only because the
stack and the output are disjoint from the heap and ordered against it
(`OrderInv`), and because control decides which of the three may be non-empty
(`ControlInv`). The stop rule needs two more: `StopInv` counts the trailing run of
dropped rows in the history, and `FetchedInv` says that every row a scan returned
has been seen. `TurnInv` ties the number of rows of each scan to its place in the
round, from which the scans stay in step, and says that a dry scan has finished
the function. `LeakInv` says that every row seen came from some scan. The one path
that leaves a query's context current takes a row that was already seen, and as
a scan does not repeat itself, another one returned it.

**`HnswIteratorProofs`**: type correctness, `Isolation`, `MarksAreVisited`,
`ImplementsStream`. For any well-formed graphs, any number of iterators and
lists, any tag width and any initial memory. The inductive invariant is

    IInv == TypeOK /\ PoolInv /\ MarkInv /\ QueueInv /\ CallInv

- `PoolInv`: lists in use or in the pool have been allocated, and are apart.
  A newly allocated list is therefore nobody's.
- `MarkInv`: no mark of a list is above its tag. This is why incrementing the
  tag clears the list, and why the counter starts at the largest tag.
- `QueueInv`: queued and popped nodes are apart, and before the first `Pop` at
  most one node is queued. This matters because the code marks the start node
  only when it pops it.
- `CallInv`: a call runs on an open iterator, and its descent stays in the graph.

The one step that needs all of them is `Pop`: what was not marked was neither
queued nor popped, so no row is delivered twice.

The same module proves `EndsWhenExhausted`, `LateOnlyIfHidden` and
`StartsAtLocalMinimum` on top of that invariant. For each iterator,
`SearchInv` says that every node linked from a popped one is popped or queued,
that only what the start reaches ever is, that a queued node is no nearer than
those popped since it was linked, and that the start was a local minimum.
`DescentInv` carries that minimum down from the upper levels.

`NextProgress` is the safety half of `NextReturns`: a well-founded measure that
every step of a call lowers. The levels and the nodes of a graph are finitely many, so
a call that keeps taking steps ends. What is left to TLC is that the steps are
taken.

**`VisitedTableProofs`**: type correctness and `ImplementsSet`, for any ids, any
number of probes and any table size that is a power of two. The invariant says
that every entry is in the slot where a call for it stops (`Findable`), that the
second block is free while `m_secondHash` is false, which is why `clear` may
skip it, and that a copy has the entries of the part copied (`CopyInv`).

**`ScanProofs`**: type correctness, `RangeExact`, `RangeEndJustified`,
`InOrderIffSettled`, `PaseNearestFirst`, `RangeRowsMatch`, `EarlyStopIsExact`,
`CrashOnlyUnopened`, `DrivesStream` and `ProvidesStream`, for any rows, keys,
thresholds and limits. `SortUsesScan` shows that below a Sort the scan takes only
steps of its own, so the scan's invariant carries over. The invariant relates
the scan's state to the history of the search: which rows the counter `i` counts
(`RangeInv`), that the queue holds the nearest rows delivered (`OrderInv`), and
that the rows returned came off the batch first (`PaseInv`). For the early stop
`EarlyInv` adds which flag a plan can read (`PlanInv`) and that the Sort was fed
the visible rows the search delivered (`HandedInv`, `FedInv`); the nearest of
those are then the nearest of all. `StreamInv` says that an hnsw or sptag scan has
a search open exactly from its first call to its rescan or end, which makes it
drive a stream and confines the null pointers to scans that opened none. `EmitInv`
says that what the node handed out was delivered by the search of the same key
and passed the checks there were, which makes the node a stream.

**`IndexFilesProofs`**: type correctness, `FileCoversTable`, `OwnBuildSeesTable`,
`ScanKeepsItsGraph`, `MapCoversTable`, for any tables, rows, names, sessions and builds. The invariant is over the
committed and the current definition of each table, as a rollback brings the
first one back: definitions of one build, and without rewrites of one oid, have
the same rows (`SameRows`), every graph in a file or in a session's map has the
rows with a vector of each such definition (`GraphInv`), and files cover both
definitions (`CoverInv`). `ScanInv` adds that a scanned table is owned by nobody
but the scanning session, so that no other can drop or undo its index.
`MapCoversTable` and `OwnBuildSeesTable` are `GraphInv` read at the current
definition. They speak of the oid and of the build, as under the name alone the
map is stale (`index_stale`).

**`BktLemmas`**: what `BoundedHeap` computes, for heaps of any length and bound, and
what a step of `BktIterator` computes from the index. In an ordered heap the top
is a least entry (`TopLeast`). `insertAll` keeps a heap ordered and within its
bound, adds nothing else and loses nothing while there is room
(`InsertAllFacts`). `pop` removes exactly the top and keeps the order
(`PopFacts`). The invariant of sifting up is that the heap is ordered but for
one entry and its parent; of sifting down, but for one entry and its children.
Each loop makes enough iterations because the place of that entry halves or
doubles.
The module starts with facts on sequences and with the induction over the
iterations of a loop, which is done on a subset of `0..n`, without an induction
theorem that takes an operator. It ends with what a step keeps of a search in an
index with one tree, stated on the sets of nodes checked, queued and taken.

**`BktIteratorProofs`**: from these facts, `Isolation` and type correctness for any
well-formed indexes, any number of iterators and any initial pool. The invariant,
`TypeInv`, says that work spaces are apart, each queue is an ordered heap of
entries with their true distances, and a call runs on an open iterator.

**`BktSearchProofs`**: `EndsWithAllRows`, `LateOnlyIfHidden`, `ImplementsStream` and
`TakenOnce` for indexes with one tree (`OneTreeOnly`). That hypothesis is the default
configuration and cannot be dropped: `MCBktForest.cfg` is the counterexample with
two trees. On top of `TypeInv`, `SearchInv` makes three statements on each search.

- *Sound*, which full queues cannot break: what is queued and what was taken are
  apart, a row that is no member of a group was checked when it was queued, and a
  member is queued or taken only after its head was taken. Hence no row comes
  twice.
- *Lossless*, while no queue was full: every checked row is queued, taken or
  deleted, and no row taken is farther than a row shown before it that comes later.
- *Complete*, while no queue was full: a tree node whose row is not checked is
  below a queued one, in every set of nodes closed under children, and the members
  of a group are queued or taken with their head.

The end of a search follows: with both queues empty, the empty set of tree nodes
is closed, so every node's row was checked and every row was taken. The limit of
leaves enters as `leaves < limit`: a tree search that stops at its limit has
queued a row, so the queue of rows is not empty while tree nodes are.

`TakenOnce` follows from *Sound* as well. `Awaited`, the rows a search may still
take, is rewritten over the nodes checked and queued (`AwaitedInv`). A tree step
only queues rows that were awaited, and an iteration of the graph search takes
one out for good. So the graph search of a call ends, however its rows are
deleted and linked. That the search of the trees ends in between is
only model-checked (`NextReturns`).

Together, `Refinement` of `HnswIteratorProofs`, `StreamsImplemented` of
`BktSearchProofs`, `ScanDrivesStream` and `ScanProvidesStream` are the parts of a
composition. What a scan assumes of its search (distinct rows, none after the end)
is what the iterators guarantee, and what an iterator assumes of its caller is
what the scan does. The scan node guarantees the same to `topk`, which by
`EndIsFinal` asks no scan after its end. `Refinement` of `VisitedTableProofs` is
why `BktIterator` may mark nodes in a set.

Only model-checked: liveness (`Terminates`, `NextReturns`, `GetTupleReturns`,
`CheckAndSetReturns`), which is out of the prover's reach. Every invariant, every
action property and every refinement that a passing run checks is also a theorem.
Only proved: the type invariants of `Fagins`, `HnswIterator`, `VisitedTable` and
`SortedScan`, and `CrashOnlyUnopened` (only a scan that has opened no search since
it began or was last rescanned follows a null pointer). The runs check the type
invariants of `BktIterator`, whose queues must stay heaps, and of `IndexFiles`,
whose maps must hold no torn graph.

## 5. Not modelled

- Graph and tree construction, vector arithmetic and recall. The models take any
  distances and any well-formed index. `hnsw_build` always builds for L2,
  whatever the distance of the index. The operators of `operator.cpp` are taken to
  compute the distance of the search. They use spaces of dimension 0, whose SIMD
  functions leave out the components after the last multiple of 16.
- The breadth-first start of SPTAG's tree search (`EnableBfs`, off by default).
- The sptag build and the per-session map of sptag indexes. The map is used like
  the one of hnsw in `IndexFiles`; the file layout differs.
- `MultiIndexScan`. Only SPTAG's tests and its CLR wrapper use it, not the
  extension.
- The planning half of `topk`, cost estimates and parallel plans.
- The disk and KD-tree indexes of SPTAG, its server and its wrappers, which the
  extension does not call.
- Memory safety inside one step, model inference, benchmarks and scripts.
- The rest of PostgreSQL, except the lines of the executor, the sort and the
  planner that VBASE changed or that the scans depend on.

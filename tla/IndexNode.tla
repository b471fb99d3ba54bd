------------------------------ MODULE IndexNode ------------------------------
(***************************************************************************)
(* The executor's index scan node (IndexNext of nodeIndexscan.c), and the  *)
(* part of a scan that the three vector access methods have in common: the *)
(* scan descriptor, the opaque scan state and the loop that pulls results. *)
(* The search is a ResultStream: it delivers any row it has not delivered  *)
(* yet, or its end.                                                        *)
(*                                                                         *)
(* A scan has an order-by key, a range key, or both, as its plan has them; *)
(* each rescan brings new key values, which may be NULL.  Of a scan with   *)
(* both keys amgettuple reads the order-by key only; the two are taken to  *)
(* have the same vector and to be NULL together.  The flags of the scan    *)
(* descriptor start as uninitialised memory.  A null pointer that is       *)
(* dereferenced sets crashed.                                              *)
(***************************************************************************)
EXTENDS Integers, Sequences, FiniteSets, Functions

CONSTANTS
  Ams,      \* access methods: a subset of {"hnsw", "sptag", "pase_hnsw"}
  Row,      \* rows of the index
  Visible,  \* rows the query's snapshot sees
  Shapes,   \* plans: [orderby : BOOLEAN, filter : BOOLEAN]
  Keys      \* key values: [null : BOOLEAN, range : Int, dist : [Row -> Int]]

ASSUME AmsAssumption == Ams \subseteq {"hnsw", "sptag", "pase_hnsw"}
ASSUME RowAssumption == IsFiniteSet(Row) /\ Visible \subseteq Row
ASSUME ShapesAssumption == Shapes \subseteq [orderby : BOOLEAN, filter : BOOLEAN]
ASSUME KeysAssumption == Keys \subseteq [null : BOOLEAN, range : Int, dist : [Row -> Int]]

VARIABLES
  am, shape, key,           \* the index; the plan's keys; their values in this (re)scan
  desc,                     \* iss_ScanDesc: "none", "open", "closed", "aborted"
  first, hasRangeFilter, inRange, \* the access method's scan state
  workSpace,                \* "null", "empty" (no results to come) or "open"
  xs_inorder, xs_recheck,   \* IndexScanDescData
  is_index_inorder,         \* EState
  pc, i,                    \* is amgettuple running, its local counter
  pulled,                   \* history: rows the search delivered in this (re)scan
  returned,                 \* history: rows amgettuple returned
  emitted,                  \* history: rows IndexNext returned
  ended,                    \* "no", or why the scan reported its end
  crashed

opaque  == <<first, hasRangeFilter, inRange, workSpace>>
history == <<pulled, returned, emitted>>
nodeVars == <<am, shape, key, desc, opaque, xs_inorder, xs_recheck, is_index_inorder,
              pc, i, history, ended, crashed>>

NodeTypeOK ==
  /\ am \in Ams /\ shape \in Shapes /\ key \in Keys
  /\ desc \in {"none", "open", "closed", "aborted"}
  /\ first \in BOOLEAN /\ hasRangeFilter \in BOOLEAN /\ inRange \in BOOLEAN
  /\ workSpace \in {"null", "empty", "open"}
  /\ xs_inorder \in BOOLEAN /\ xs_recheck \in BOOLEAN /\ is_index_inorder \in BOOLEAN
  /\ pc \in {"idle", "get"}
  /\ i \in Nat
  /\ pulled \in Seq(Row) /\ returned \in Seq(Row) /\ emitted \in Seq(Row)
  /\ ended \in {"no", "nokey", "exhausted", "notnear", "leftrange"}
  /\ crashed \in BOOLEAN

D(r) == key.dist[r]
Fresh == Row \ Range(pulled)

NodeInit ==
  /\ am \in Ams /\ shape \in Shapes /\ key \in Keys
  /\ desc = "none"
  /\ first = TRUE /\ hasRangeFilter = FALSE /\ inRange = FALSE
  /\ workSpace = "null"
  /\ xs_inorder \in BOOLEAN /\ xs_recheck \in BOOLEAN
  /\ is_index_inorder = FALSE
  /\ pc = "idle" /\ i = 0
  /\ pulled = <<>> /\ returned = <<>> /\ emitted = <<>>
  /\ ended = "no" /\ crashed = FALSE

(* IndexNext calls amgettuple; the first time it begins the scan, which    *)
(* leaves first set and workSpace null, and passes it its keys.  With an   *)
(* order-by key the node runs IndexNextWithReorder, which does the same:   *)
(* the access methods set xs_recheckorderby to false, so that its queue    *)
(* stays empty.                                                            *)
IndexNextKeepsCounter ==
  /\ pc = "idle" /\ desc \in {"none", "open"} /\ ended = "no" /\ ~crashed
  /\ desc' = "open"
  /\ pc' = "get"
  /\ UNCHANGED <<am, shape, key, opaque, xs_inorder, xs_recheck, is_index_inorder,
                 i, history, ended, crashed>>

IndexNext ==
  /\ pc = "idle" /\ desc \in {"none", "open"} /\ ended = "no" /\ ~crashed
  /\ desc' = "open"
  /\ pc' = "get" /\ i' = 0
  /\ UNCHANGED <<am, shape, key, opaque, xs_inorder, xs_recheck, is_index_inorder,
                 history, ended, crashed>>

(* amrescan with new key values: the executor's part of it. *)
RescanKeys(k) ==
  /\ pc = "idle" /\ desc = "open" /\ ~crashed
  /\ key' = k
  /\ pulled' = <<>> /\ returned' = <<>> /\ emitted' = <<>> /\ ended' = "no"
  /\ UNCHANGED <<am, shape, desc, hasRangeFilter, inRange, xs_inorder, xs_recheck,
                 is_index_inorder, pc, i>>

(* amendscan: the executor's part of it. *)
CloseScan ==
  /\ pc = "idle" /\ desc = "open" /\ ~crashed
  /\ desc' = "closed"
  /\ UNCHANGED <<am, shape, key, first, hasRangeFilter, inRange, xs_inorder, xs_recheck,
                 is_index_inorder, pc, i, history, ended>>
-----------------------------------------------------------------------------
(* amgettuple returns false. *)
NoTuple(why) == pc' = "idle" /\ ended' = why

(* hnsw and sptag: the first call after a rescan makes a work space.       *)
(* Without a key, or with a NULL one, it returns at once and leaves first  *)
(* set.                                                                    *)
NoKey ==
  /\ pc = "get" /\ first
  /\ (~shape.orderby /\ ~shape.filter) \/ key.null
  /\ workSpace' = "empty"
  /\ NoTuple("nokey")
  /\ UNCHANGED <<am, shape, key, desc, first, hasRangeFilter, inRange, xs_inorder, xs_recheck,
                 is_index_inorder, i, history, crashed>>

(* hnsw and sptag: with an order-by key the range key is not looked at. *)
OpenSearch ==
  /\ pc = "get" /\ first
  /\ shape.orderby \/ shape.filter
  /\ ~key.null
  /\ workSpace' = "open"
  /\ hasRangeFilter' = ~shape.orderby
  /\ inRange' = (shape.orderby /\ inRange)
  /\ first' = FALSE
  /\ UNCHANGED <<am, shape, key, desc, xs_recheck, is_index_inorder, pc, i, history, ended,
                 crashed>>

(* The search has no further result. *)
ExhaustedAsksAgain == pc = "get" /\ ~first /\ UNCHANGED nodeVars

Exhausted ==
  /\ pc = "get" /\ ~first
  /\ NoTuple("exhausted")
  /\ UNCHANGED <<am, shape, key, desc, opaque, xs_inorder, xs_recheck, is_index_inorder,
                 i, history, crashed>>

(* range_l2_distance, the operator the executor rechecks with, taken to    *)
(* compute the distance the search does.                                   *)
OperatorHolds(r) == D(r) < key.range

(* Mutant: IndexNext does not recheck. *)
ReturnUnchecked(r) ==
  /\ returned' = Append(returned, r)
  /\ is_index_inorder' = (IF r \in Visible THEN xs_inorder' ELSE is_index_inorder)
  /\ IF r \in Visible
     THEN pc' = "idle" /\ emitted' = Append(emitted, r) /\ UNCHANGED i
     ELSE i' = 0 /\ UNCHANGED <<pc, emitted>>

(* amgettuple returns r; index_getnext_slot asks again when the row is not *)
(* visible, IndexNext when it fails the recheck.                           *)
Return(r) ==
  /\ returned' = Append(returned, r)
  /\ is_index_inorder' = (IF r \in Visible THEN xs_inorder' ELSE is_index_inorder)
  /\ IF r \in Visible /\ (xs_recheck /\ shape.filter => OperatorHolds(r))
     THEN pc' = "idle" /\ emitted' = Append(emitted, r) /\ UNCHANGED i
     ELSE i' = 0 /\ UNCHANGED <<pc, emitted>>

(* Mutant: the search starts over and delivers a row again. *)
PullAnyRow(r) ==
  /\ pc = "get" /\ ~first
  /\ pulled' = Append(pulled, r)
  /\ UNCHANGED <<am, shape, key, desc, first, hasRangeFilter, workSpace, xs_recheck, crashed>>

(* The search delivers a row it has not delivered yet. *)
Pull(r) ==
  /\ pc = "get" /\ ~first
  /\ r \in Fresh
  /\ pulled' = Append(pulled, r)
  /\ UNCHANGED <<am, shape, key, desc, first, hasRangeFilter, workSpace, xs_recheck, crashed>>

(* hnsw and sptag: what a range scan does with a row.  The code counts in  *)
(* i also before the first row in range, which no condition reads: a row   *)
(* in range ends the call, and the next call starts from zero.             *)
RangeCheck(r, threshold) ==
  /\ UNCHANGED xs_inorder
  /\ \/ /\ D(r) <= key.range
        /\ inRange' = TRUE
        /\ Return(r)
        /\ UNCHANGED ended
     \/ /\ D(r) > key.range
        /\ i' = IF inRange THEN i + 1 ELSE i
        /\ IF inRange /\ i + 1 >= threshold
           THEN NoTuple("leftrange")
           ELSE UNCHANGED <<pc, ended>>
        /\ UNCHANGED <<inRange, is_index_inorder, returned, emitted>>
=============================================================================

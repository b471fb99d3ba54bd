----------------------------- MODULE SortedScan -----------------------------
(***************************************************************************)
(* How the modified planner and executor turn an index scan in relaxed     *)
(* order into a sorted result.  With ORDER BY distance LIMIT the planner   *)
(* puts a bounded Sort over a scan of an access method that declares       *)
(* itself relaxed, which only hnsw does; a query in another order sorts    *)
(* the rows of its filter.  ExecSort stops reading its subplan as soon as  *)
(* the flag is_index_inorder of the EState is set and the sort holds bound *)
(* tuples.  The EState belongs to the whole plan, so a Sort above that one *)
(* reads the same flag: the model has an inner Sort under its Limit and an *)
(* outer Sort that reads the limited rows.                                 *)
(***************************************************************************)
EXTENDS IndexScans

CONSTANTS
  Limits,       \* LIMIT of the query, the bound of its Sort; 0 without LIMIT
  OuterBounds   \* bound of the outer Sort, 0 when it is not bounded

ASSUME LimitsAssumption == Limits \subseteq Nat /\ OuterBounds \subseteq Nat

VARIABLES
  order,                 \* ORDER BY: "distance", "other" column, or "none"
  limit, outerBound,     \* Tuplesortstate.bound of the two sorts
  fed,                   \* tuples put in the inner sort
  sort_Done,             \* of the inner Sort node
  outerFed,              \* tuples put in the outer sort, in order
  outer_Done

query == <<order, limit, outerBound>>
sortVars == <<query, fed, sort_Done, outerFed, outer_Done>>

(* The sort nodes' fields range over their types. *)
SortTypeOK ==
  /\ TypeOK
  /\ order \in {"distance", "other", "none"}
  /\ limit \in Limits /\ outerBound \in OuterBounds
  /\ fed \subseteq Row
  /\ sort_Done \in BOOLEAN /\ outer_Done \in BOOLEAN
  /\ outerFed \in Seq(Row)

(* create_ordered_paths: the index path is taken as sorted unless it is    *)
(* relaxed and there is a LIMIT.                                           *)
Sorts == order = "other" \/ (order = "distance" /\ am = "hnsw" /\ limit > 0)

SortInit ==
  /\ Init
  /\ order \in (IF shape.orderby THEN {"distance"} ELSE {"other", "none"})
  /\ limit \in Limits /\ outerBound \in OuterBounds
  /\ fed = {} /\ sort_Done = FALSE
  /\ outerFed = <<>> /\ outer_Done = FALSE

(* tuplesort_heapfull: an unbounded sort has bound 0. *)
heapfull(count, bound) == count >= bound

Limited(count) == limit > 0 /\ count >= limit

Pending == emitted # <<>> /\ emitted[Len(emitted)] \notin fed

(* ExecSort, or without a Sort the query itself, asks for a tuple. *)
SortFetch ==
  /\ IF Sorts THEN ~sort_Done /\ ~Pending ELSE ~Limited(Len(emitted))
  /\ Fetch
  /\ UNCHANGED sortVars

ScanStep == GetTuple /\ UNCHANGED sortVars

(* It puts the tuple and leaves the loop when the flag is set and the sort *)
(* is full.                                                                *)
SortPutWithoutFlag ==
  /\ Sorts /\ ~sort_Done /\ pc = "idle" /\ Pending
  /\ fed' = fed \union {emitted[Len(emitted)]}
  /\ sort_Done' = heapfull(Cardinality(fed'), limit)
  /\ UNCHANGED <<vars, query, outerFed, outer_Done>>

SortPut ==
  /\ Sorts /\ ~sort_Done /\ pc = "idle" /\ Pending
  /\ fed' = fed \union {emitted[Len(emitted)]}
  /\ sort_Done' = (is_index_inorder /\ heapfull(Cardinality(fed'), limit))
  /\ UNCHANGED <<vars, query, outerFed, outer_Done>>

(* The subplan has no more tuples. *)
SortEnd ==
  /\ Sorts /\ ~sort_Done /\ pc = "idle" /\ ended # "no" /\ ~Pending
  /\ sort_Done' = TRUE
  /\ UNCHANGED <<vars, query, fed, outerFed, outer_Done>>

(* The outer Sort reads the inner result in its order, with the same loop. *)
OuterPut(r) ==
  /\ sort_Done /\ ~outer_Done
  /\ ~Limited(Len(outerFed))
  /\ r \in fed \ Range(outerFed)
  /\ order = "distance" => \A s \in fed \ Range(outerFed) : D(r) <= D(s)
  /\ outerFed' = Append(outerFed, r)
  /\ outer_Done' = (is_index_inorder /\ heapfull(Len(outerFed'), outerBound))
  /\ UNCHANGED <<vars, query, fed, sort_Done>>

OuterEnd ==
  /\ sort_Done /\ ~outer_Done
  /\ Limited(Len(outerFed)) \/ fed \subseteq Range(outerFed)
  /\ outer_Done' = TRUE
  /\ UNCHANGED <<vars, query, fed, sort_Done, outerFed>>

(* ExecReScanSort with new parameters, and the rescan of the index scan    *)
(* before its next tuple.  The flag of the EState keeps its value.         *)
SortRescan(k) ==
  /\ Sorts => sort_Done /\ outer_Done
  /\ Rescan(k)
  /\ fed' = {} /\ sort_Done' = FALSE
  /\ outerFed' = <<>> /\ outer_Done' = FALSE
  /\ UNCHANGED query

(* The query ends, or is given up, between two tuples. *)
SortClose == EndScan /\ UNCHANGED sortVars

SortNext ==
  \/ SortFetch
  \/ ScanStep
  \/ SortPut
  \/ SortEnd
  \/ \E r \in Row : OuterPut(r)
  \/ OuterEnd
  \/ \E k \in Keys : SortRescan(k)
  \/ SortClose

SortSpec == SortInit /\ [][SortNext]_<<vars, sortVars>>

(* A running amgettuple is not suspended. *)
SortFairSpec == SortSpec /\ WF_<<vars, sortVars>>(ScanStep)

-----------------------------------------------------------------------------
(* S is a set of n nearest rows of T. *)
IsNearest(S, n, T) ==
  S \subseteq T /\ Cardinality(S) = n /\ \A r \in S, u \in T \ S : D(r) <= D(u)

(* When a Sort over an hnsw scan stops early, it is one by distance, and   *)
(* the rows it returns are the true nearest, provided the index kept the   *)
(* order it declared: no visible row left in the index is nearer than the  *)
(* farthest of the scan's queue, and that queue holds enough visible rows  *)
(* for the bound.  A flag left over from the scan before a rescan never    *)
(* stops the sort.                                                         *)
EarlyStopIsExact ==
  LET orderKept == \A u \in Visible \ Range(pulled) : D(top) <= D(u)
      enough == limit <= Cardinality(distanceQueue \intersect Visible)
  IN am = "hnsw" /\ sort_Done /\ ended = "no" /\ desc = "open" =>
       /\ order = "distance"
       /\ xs_inorder
       /\ orderKept /\ enough =>
            \A S \in SUBSET fed : IsNearest(S, limit, fed) => IsNearest(S, limit, Visible)

(* A Sort that does not rely on the order of its scan, because it sorts by *)
(* another column or reads the rows of another Sort, is fed every row of   *)
(* its subplan.                                                            *)
SortsFedAll ==
  /\ sort_Done /\ order = "other" => ended # "no"
  /\ outer_Done => Limited(Len(outerFed)) \/ fed \subseteq Range(outerFed)

(* A query ordered by distance gets its rows in that order from a plan     *)
(* that has no Sort.                                                       *)
UnsortedPlanInOrder ==
  order = "distance" /\ ~Sorts =>
    \A m, n \in DOMAIN emitted : m < n => D(emitted[m]) <= D(emitted[n])
=============================================================================

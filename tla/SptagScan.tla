------------------------------ MODULE SptagScan ------------------------------
(* An index scan of the sptag access method (src/index.cpp).  It never     *)
(* writes xs_inorder: what the allocation left there is what IndexNext     *)
(* reads.                                                                  *)
EXTENDS IndexNode

CONSTANT SptagThreshold  \* 5 in sptag_gettuple

ASSUME SptagAssumption == SptagThreshold \in Nat \ {0}

(* sptag_rescan frees the work space of the scan before it, through        *)
(* EndScan of its iterator.                                                *)
SptagRescan(k) ==
  /\ RescanKeys(k)
  /\ crashed' = (workSpace = "empty")
  /\ workSpace' = "null"
  /\ first' = TRUE

(* sptag_endscan follows workSpace and its resultIterator unconditionally. *)
SptagEndScan ==
  /\ CloseScan
  /\ crashed' = (workSpace # "open")
  /\ workSpace' = "null"

SptagStart == OpenSearch /\ UNCHANGED xs_inorder

SptagPullOrdered(r) ==
  /\ ~hasRangeFilter
  /\ Pull(r)
  /\ UNCHANGED xs_inorder
  /\ Return(r)
  /\ UNCHANGED <<inRange, ended>>

(* Before the first row in range the scan goes on to the end of the index. *)
SptagPullRange(r) == hasRangeFilter /\ Pull(r) /\ RangeCheck(r, SptagThreshold)

SptagGetTuple ==
  NoKey \/ SptagStart \/ Exhausted \/ \E r \in Row : SptagPullOrdered(r) \/ SptagPullRange(r)
=============================================================================

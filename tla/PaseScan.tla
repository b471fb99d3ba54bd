------------------------------ MODULE PaseScan ------------------------------
(* An index scan of the pase_hnsw access method (src/pase_hnswindex.cpp):  *)
(* one searchKnn when the scan starts, whose results are then returned one *)
(* by one.  Neither flag of the scan descriptor is written.                *)
EXTENDS IndexNode

CONSTANTS
  BatchSize,  \* 188 in pase_hnsw_gettuple
  Ulp         \* 1 - distance is rounded to a multiple of this

ASSUME PaseAssumption == BatchSize \in Nat \ {0} /\ Ulp \in Nat \ {0}

VARIABLE result  \* workSpace->result

BatchTypeOK == result \subseteq Row /\ Cardinality(result) <= BatchSize

(* The float a row is queued under: 1 - distance.  Distances that differ   *)
(* by less than the precision of the difference get the same one.          *)
QueuedUnnegated(r) == D(r)

Queued(r) == 1 - (D(r) - (D(r) % Ulp))

PaseRescan(k) ==
  /\ RescanKeys(k)
  /\ workSpace' = "null" /\ result' = {}
  /\ first' = TRUE
  /\ UNCHANGED crashed

PaseEndScan ==
  /\ CloseScan
  /\ workSpace' = "null" /\ result' = {}
  /\ UNCHANGED crashed

(* elog(ERROR) without an order-by key: the query is aborted, and the work *)
(* space it has just made is never freed.                                  *)
PaseNoOrder ==
  /\ pc = "get" /\ first
  /\ ~shape.orderby
  /\ workSpace' = "empty"
  /\ pc' = "idle" /\ desc' = "aborted"
  /\ UNCHANGED <<am, shape, key, first, hasRangeFilter, inRange, xs_inorder, xs_recheck,
                 is_index_inorder, i, history, ended, crashed, result>>

PaseNullKey ==
  /\ pc = "get" /\ first
  /\ shape.orderby /\ key.null
  /\ workSpace' = "empty"
  /\ NoTuple("nokey")
  /\ UNCHANGED <<am, shape, key, desc, first, hasRangeFilter, inRange, xs_inorder, xs_recheck,
                 is_index_inorder, i, history, crashed, result>>

(* searchKnn delivers some BatchSize rows, or fewer. *)
PaseStart ==
  /\ pc = "get" /\ first
  /\ shape.orderby /\ ~key.null
  /\ \E batch \in SUBSET Row : Cardinality(batch) <= BatchSize /\ result' = batch
  /\ workSpace' = "open"
  /\ first' = FALSE
  /\ UNCHANGED <<am, shape, key, desc, hasRangeFilter, inRange, xs_inorder, xs_recheck,
                 is_index_inorder, pc, i, history, ended, crashed>>

(* The top of the queue. *)
PaseNext(r) ==
  /\ Pull(r)
  /\ r \in result /\ \A u \in result : Queued(u) <= Queued(r)
  /\ result' = result \ {r}
  /\ UNCHANGED <<inRange, xs_inorder, ended>>
  /\ Return(r)

PaseGetTuple ==
  \/ PaseNoOrder
  \/ PaseNullKey
  \/ PaseStart
  \/ result = {} /\ Exhausted /\ UNCHANGED result
  \/ \E r \in Row : PaseNext(r)
-----------------------------------------------------------------------------
(* A pase_hnsw scan returns its rows nearest first: a row is never farther *)
(* than one after it by more than the rounding of 1 - distance explains,   *)
(* and no row comes twice.                                                 *)
PaseNearestFirst ==
  am = "pase_hnsw" =>
    \A m, n \in DOMAIN returned :
      m < n => returned[m] # returned[n] /\ D(returned[m]) < D(returned[n]) + Ulp
=============================================================================

----------------------------- MODULE IndexScans -----------------------------
(* The executor's index scan over an index of any of the three access      *)
(* methods.                                                                *)
EXTENDS HnswScan, SptagScan, PaseScan

vars == <<nodeVars, distanceQueue, result>>

(* The scan's fields range over their types. *)
TypeOK == NodeTypeOK /\ QueueTypeOK /\ BatchTypeOK

Init == NodeInit /\ distanceQueue = {} /\ result = {}

GetTuple ==
  \/ am = "hnsw" /\ HnswGetTuple /\ UNCHANGED result
  \/ am = "sptag" /\ SptagGetTuple /\ UNCHANGED <<distanceQueue, result>>
  \/ am = "pase_hnsw" /\ PaseGetTuple /\ UNCHANGED distanceQueue

Fetch == IndexNext /\ UNCHANGED <<distanceQueue, result>>

Rescan(k) ==
  \/ am = "hnsw" /\ HnswRescan(k) /\ UNCHANGED result
  \/ am = "sptag" /\ SptagRescan(k) /\ UNCHANGED <<distanceQueue, result>>
  \/ am = "pase_hnsw" /\ PaseRescan(k) /\ UNCHANGED distanceQueue

EndScan ==
  \/ am = "hnsw" /\ HnswEndScan /\ UNCHANGED result
  \/ am = "sptag" /\ SptagEndScan /\ UNCHANGED <<distanceQueue, result>>
  \/ am = "pase_hnsw" /\ PaseEndScan /\ UNCHANGED distanceQueue

Next == Fetch \/ (\E k \in Keys : Rescan(k)) \/ EndScan \/ GetTuple

Spec == Init /\ [][Next]_vars
-----------------------------------------------------------------------------
(* A range scan returns exactly the rows in range that the search          *)
(* delivered: the stop of hnsw before the first row in range loses none,   *)
(* and a rescan with another query leaves nothing of the one before.       *)
RangeExact ==
  hasRangeFilter /\ ~first =>
    Range(returned) = {r \in Range(pulled) : D(r) <= key.range}

(* A range scan ends only when the search is exhausted, when the last      *)
(* rows, as many as the access method's threshold, were out of range, or   *)
(* when an hnsw scan never met the range and the last row is no nearer     *)
(* than QueueThreshold rows before it.                                     *)
RangeEndJustified ==
  LET n == Len(pulled)
      before == Range(SubSeq(pulled, 1, n - 1))
      threshold == IF am = "hnsw" THEN DistanceThreshold ELSE SptagThreshold
  IN hasRangeFilter /\ ~first /\ ended # "no" =>
       \/ ended = "exhausted"
       \/ /\ n > threshold
          /\ \A m \in (n - threshold + 1)..n : D(pulled[m]) > key.range
       \/ /\ am = "hnsw" /\ returned = <<>>
          /\ Cardinality({r \in before : D(r) <= D(pulled[n])}) >= QueueThreshold

(* amgettuple always returns. *)
GetTupleReturns == (pc = "get") ~> (pc = "idle")

(* amrescan and amendscan never follow a null pointer. *)
NoNullDereference == ~crashed

(* A row the index scan hands to the executor satisfies the scan's range   *)
(* key, as the operator of that key decides it.                            *)
EmittedRowsMatchKeys == shape.filter => \A r \in Range(emitted) : OperatorHolds(r)

(* What holds of it: a row that fails its range key gets to the executor   *)
(* only when the uninitialised xs_recheck is false, and then only when it  *)
(* lies exactly at the range or the scan has an order-by key as well.      *)
RangeRowsMatch ==
  shape.filter =>
    \A r \in Range(emitted) : /\ xs_recheck => OperatorHolds(r)
                              /\ ~shape.orderby => D(r) <= key.range

(* amrescan and amendscan follow a null pointer only in a scan that has    *)
(* opened no search since it began or was last rescanned: one without a    *)
(* key, with a NULL key, or never asked for a row.                         *)
CrashOnlyUnopened == [][crashed' /\ ~crashed => first]_vars
-----------------------------------------------------------------------------
(* The search an hnsw or sptag scan has open, as the iterators implement   *)
(* it.                                                                     *)
searching == am # "pase_hnsw" /\ workSpace = "open"

delivered == [s \in {"search"} |-> IF searching THEN pulled ELSE <<>>]
status ==
  [s \in {"search"} |-> IF ~searching THEN "closed"
                        ELSE IF ended = "exhausted" THEN "ended" ELSE "open"]

RS == INSTANCE ResultStream WITH Stream <- {"search"}

(* The scan keeps to its side of the protocol the iterators implement,     *)
(* through NULL keys, rescans and early ends: it opens a search only when  *)
(* the one before is closed, takes rows only from an open one, asks no     *)
(* more of one that has ended, and starts every search afresh.             *)
DrivesStream == RS!Spec

(* The index scan as the nodes above it see it: a stream that a rescan     *)
(* closes, and the next call opens.                                        *)
rescanned == first /\ pc = "idle" /\ ended = "no"

answered == [s \in {"node"} |-> IF desc = "open" THEN emitted ELSE <<>>]
nodeStatus ==
  [s \in {"node"} |-> IF desc # "open" \/ rescanned THEN "closed"
                      ELSE IF ended = "no" THEN "open" ELSE "ended"]

Node == INSTANCE ResultStream WITH Stream <- {"node"}, delivered <- answered, status <- nodeStatus

(* The index scan node is itself such a stream, which is all that topk and *)
(* the Sort rely on: no row twice, none of an earlier key, none after the  *)
(* end, with any access method and whatever rows are dead or rechecked.    *)
ProvidesStream == Node!Spec
=============================================================================

------------------------------- MODULE MCScans -------------------------------
(* Bounds for SortedScan: five rows, one of them dead; thresholds of two,  *)
(* so that queues fill and counters reach their limit; two queries that    *)
(* rank the rows in different orders, with a tie and with a row at the     *)
(* range; limits below, at and above the scan's queue.                     *)
EXTENDS SortedScan, TLC

MCNear == 1 :> 1 @@ 2 :> 2 @@ 3 :> 2 @@ 4 :> 3 @@ 5 :> 4
MCFar  == 1 :> 4 @@ 2 :> 3 @@ 3 :> 1 @@ 4 :> 1 @@ 5 :> 2

MCKeys == {[null |-> FALSE, range |-> 2, dist |-> MCNear],
           [null |-> FALSE, range |-> 1, dist |-> MCFar]}
MCNullKeys == MCKeys \union {[null |-> TRUE, range |-> 0, dist |-> MCNear]}

MCOrdered == {[orderby |-> TRUE, filter |-> FALSE]}
MCRange   == {[orderby |-> FALSE, filter |-> TRUE]}
MCBoth    == {[orderby |-> TRUE, filter |-> TRUE]}
MCShapes  == MCOrdered \union MCRange \union MCBoth \union {[orderby |-> FALSE, filter |-> FALSE]}
=============================================================================

--------------------------- MODULE MCHnswIterator ---------------------------
(* Bounds for HnswIterator: four elements on a line at 1, 2, 2 and 4 (a    *)
(* tie), queries at both ends, three-valued tags so that a list wraps      *)
(* around after two reuses, and index files: a chain reached by a descent  *)
(* of two hops, a graph whose far end hides a near node and whose upper    *)
(* level links two nodes at the same distance, a cycle of deleted nodes    *)
(* before the only row, a cycle of rows, and an empty index.               *)
EXTENDS HnswIterator, TLC

MCPlace == 1 :> 1 @@ 2 :> 2 @@ 3 :> 2 @@ 4 :> 4
MCDist == [q \in Query |-> [n \in Node |-> IF MCPlace[n] >= q THEN MCPlace[n] - q ELSE q - MCPlace[n]]]

MCChain ==
  [nodes |-> 1..4, deleted |-> {}, entry |-> 4, maxlevel |-> 1,
   links |-> 0 :> (1 :> {2} @@ 2 :> {1, 3} @@ 3 :> {2, 4} @@ 4 :> {3})
          @@ 1 :> (1 :> {2, 3} @@ 2 :> {1, 4} @@ 3 :> {1} @@ 4 :> {2, 3})]
MCHidden ==
  [nodes |-> 1..4, deleted |-> {}, entry |-> 2, maxlevel |-> 1,
   links |-> 0 :> (1 :> {} @@ 2 :> {3, 4} @@ 3 :> {2} @@ 4 :> {1, 2})
          @@ 1 :> (1 :> {} @@ 2 :> {3} @@ 3 :> {2} @@ 4 :> {})]
MCDeleted ==
  [nodes |-> 1..3, deleted |-> {1, 2}, entry |-> 1, maxlevel |-> 0,
   links |-> 0 :> (1 :> {2} @@ 2 :> {1, 3} @@ 3 :> {})]
MCEmpty ==
  [nodes |-> {}, deleted |-> {}, entry |-> Unset, maxlevel |-> 0, links |-> 0 :> <<>>]

MCLoop ==
  [nodes |-> 1..3, deleted |-> {}, entry |-> 2, maxlevel |-> 0,
   links |-> 0 :> (1 :> {2, 3} @@ 2 :> {1} @@ 3 :> {2})]

MCGraphs == {MCChain, MCHidden, MCDeleted, MCEmpty}
MCSmallGraphs == {MCLoop, MCDeleted, MCEmpty}
MCGarbage == {[n \in Node |-> IF n = 3 THEN 1 ELSE 2]}
=============================================================================

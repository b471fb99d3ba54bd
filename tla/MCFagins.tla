------------------------------ MODULE MCFagins ------------------------------
(* Small instances of Fagins: four rows, two of them with equal scores.    *)
EXTENDS Fagins

MCScore == [r \in Row |-> CASE r = 1 -> 3 [] r = 2 -> 1 [] r = 3 -> 2 [] OTHER -> 2]

(* topk with ef above and below k, defaults, k = 0, and multicol_topk; in  *)
(* the FROM clause and in the select list.                                 *)
MCCalls ==
  {[fn |-> "topk", k |-> 1, ef |-> 2, term |-> 1, inFrom |-> TRUE],
   [fn |-> "topk", k |-> 2, ef |-> 1, term |-> 2, inFrom |-> FALSE],
   [fn |-> "topk", k |-> 2, ef |-> 0, term |-> 0, inFrom |-> TRUE],
   [fn |-> "topk", k |-> 0, ef |-> 0, term |-> 0, inFrom |-> TRUE],
   [fn |-> "multicol_topk", k |-> 2, ef |-> 0, term |-> 1, inFrom |-> TRUE],
   [fn |-> "multicol_topk", k |-> 0, ef |-> 0, term |-> 1, inFrom |-> FALSE]}
=============================================================================

----------------------------- MODULE VisitedSet -----------------------------
(* What a search expects of its visited table: a set of node ids that says *)
(* of each id whether it was in the set, adds it, and can be emptied.      *)
CONSTANTS Idx, None

VARIABLES
  visited,
  answer    \* the last call of CheckAndSet and its result, or None

Init == visited = {} /\ answer = None

CheckAndSet(idx) ==
  /\ answer' = <<idx, idx \in visited>>
  /\ visited' = visited \union {idx}

clear == visited' = {} /\ answer' = None

Next == clear \/ \E idx \in Idx : CheckAndSet(idx)

Spec == Init /\ [][Next]_<<visited, answer>>
=============================================================================

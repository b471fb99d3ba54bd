-------------------------------- MODULE TopK --------------------------------
(***************************************************************************)
(* What a top-k operator over several index scans promises its caller,     *)
(* whatever heap, stack or stopping rule it uses.  It first collects a set *)
(* of rows, each once; then it returns rows one at a time, always one of   *)
(* the best not yet returned among ALL the rows it collected; and it       *)
(* reports the end only when it has returned k rows or everything it       *)
(* collected.  topk and multicol_topk are checked against this module.     *)
(***************************************************************************)
EXTENDS Integers, Sequences, Functions

CONSTANTS Row, Score

VARIABLES k, collected, returned, phase

vars == <<k, collected, returned, phase>>

Pending == collected \ Range(returned)

Best(S) == {r \in S : \A s \in S : Score[r] <= Score[s]}

Init ==
  /\ k \in Nat
  /\ collected = {}
  /\ returned = <<>>
  /\ phase = "collect"

Collect(r) ==
  /\ phase = "collect"
  /\ r \notin collected
  /\ collected' = collected \union {r}
  /\ UNCHANGED <<k, returned, phase>>

StopCollecting ==
  /\ phase = "collect"
  /\ phase' = "return"
  /\ UNCHANGED <<k, collected, returned>>

Return ==
  /\ phase = "return"
  /\ Len(returned) < k
  /\ \E r \in Best(Pending) : returned' = Append(returned, r)
  /\ UNCHANGED <<k, collected, phase>>

Finish ==
  /\ phase # "done"
  /\ Len(returned) = k \/ (phase = "return" /\ Pending = {})
  /\ phase' = "done"
  /\ UNCHANGED <<k, collected, returned>>

Next ==
  \/ \E r \in Row : Collect(r)
  \/ StopCollecting
  \/ Return
  \/ Finish

Spec == Init /\ [][Next]_vars
=============================================================================

---------------------------- MODULE ResultStream ----------------------------
(***************************************************************************)
(* What an iterative index search promises the scan that drives it: an     *)
(* opened stream delivers rows one at a time, none of them twice, until it *)
(* reports its end; after the end it delivers nothing more; streams over   *)
(* the same index do not disturb each other.  The order of delivery is not *)
(* part of the promise.                                                    *)
(***************************************************************************)
EXTENDS Sequences, Functions

CONSTANTS Row, Stream

VARIABLES delivered, status

vars == <<delivered, status>>

Init ==
  /\ delivered = [s \in Stream |-> <<>>]
  /\ status = [s \in Stream |-> "closed"]

Open(s) ==
  /\ status[s] = "closed"
  /\ status' = [status EXCEPT ![s] = "open"]
  /\ delivered' = [delivered EXCEPT ![s] = <<>>]

Deliver(s, r) ==
  /\ status[s] = "open"
  /\ r \notin Range(delivered[s])
  /\ delivered' = [delivered EXCEPT ![s] = Append(@, r)]
  /\ UNCHANGED status

End(s) ==
  /\ status[s] = "open"
  /\ status' = [status EXCEPT ![s] = "ended"]
  /\ UNCHANGED delivered

Close(s) ==
  /\ status[s] # "closed"
  /\ status' = [status EXCEPT ![s] = "closed"]
  /\ delivered' = [delivered EXCEPT ![s] = <<>>]

Next ==
  \E s \in Stream :
    \/ Open(s)
    \/ \E r \in Row : Deliver(s, r)
    \/ End(s)
    \/ Close(s)

Spec == Init /\ [][Next]_vars
=============================================================================

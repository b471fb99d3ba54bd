--------------------------- MODULE MCBktIterator ---------------------------
(* Bounds for BktIterator: six rows on a line, two of them copies, queries *)
(* near both ends, and index files: a tree of three levels whose           *)
(* neighbourhood graph falls into parts only the tree connects, with a     *)
(* group, a repeated neighbour and a near row behind a far one; the same   *)
(* with deleted rows; the same with queues too short for it; a tree that   *)
(* is one group with a deleted head; a flat tree whose nearest rows are    *)
(* deleted; one whose first row has most others as neighbours; one with a  *)
(* group that no neighbour slot names; and, for MCBktForest.cfg, two trees *)
(* over the same rows.                                                     *)
EXTENDS BktIterator, TLC

MCPlace == <<1, 2, 3, 5, 5, 6>>
MCDist == [q \in Query |-> [r \in Row |-> IF MCPlace[r] >= q THEN MCPlace[r] - q ELSE q - MCPlace[r]]]

MCLeaf(r) == [center |-> r, inner |-> FALSE, children |-> <<>>]
MCInner(r, cs) == [center |-> r, inner |-> TRUE, children |-> cs]
MCGroup(r, cs) == [center |-> r, inner |-> FALSE, children |-> cs]

MCTree ==
  [rows |-> 1..6, deleted |-> {}, maxCheck |-> 2, starts |-> <<1>>,
   tree |-> <<MCInner(Null, <<2, 3, 4>>), MCInner(2, <<5, 6>>), MCLeaf(6), MCGroup(4, <<7>>),
              MCLeaf(1), MCLeaf(3), MCLeaf(5)>>,
   neighbours |-> <<<<2>>, <<6, 6>>, <<>>, <<6>>, <<>>, <<3, 4>>>>,
   group |-> <<0, 0, 0, 4, 0, 0>>]
MCDeleted == [MCTree EXCEPT !.deleted = {4, 5, 6}]
MCShort == [MCTree EXCEPT !.maxCheck = 1]
MCCopies ==
  [rows |-> {4, 5}, deleted |-> {4}, maxCheck |-> 1, starts |-> <<1>>,
   tree |-> <<MCGroup(4, <<2>>), MCLeaf(5)>>,
   neighbours |-> 4 :> <<>> @@ 5 :> <<>>, group |-> 4 :> 1 @@ 5 :> 0]
MCFlat ==
  [rows |-> 1..6, deleted |-> {1, 2}, maxCheck |-> 3, starts |-> <<1>>,
   tree |-> <<MCInner(Null, <<2, 3, 4, 5, 6, 7>>)>> \o [k \in 1..6 |-> MCLeaf(k)],
   neighbours |-> <<<<2>>, <<3>>, <<>>, <<>>, <<>>, <<>>>>,
   group |-> <<0, 0, 0, 0, 0, 0>>]
MCStar == [MCFlat EXCEPT !.deleted = {}, !.neighbours[1] = <<6, 3, 5, 4>>]
MCUnnamed == [MCTree EXCEPT !.maxCheck = 3, !.group[4] = 0]
MCTwoTrees ==
  [MCTree EXCEPT !.maxCheck = 5, !.starts = <<1, 8>>,
    !.tree = @ \o <<MCInner(Null, [r \in 1..6 |-> r + 8])>> \o [r \in 1..6 |-> MCLeaf(r)]]

MCIndexes == {MCTree, MCDeleted, MCShort, MCCopies, MCFlat, MCStar, MCUnnamed}
MCSmall == {MCUnnamed}
MCForest == {MCTwoTrees}
=============================================================================

---------------------------- MODULE BoundedHeap ----------------------------
(* Heap of SPTAG's Heap.h: a binary heap of bounded size.  A heap is the   *)
(* sequence of its entries heap[1], ..., heap[count]; an entry is a record *)
(* with a field distance, by which entries are compared.                   *)
LOCAL INSTANCE Integers
LOCAL INSTANCE Sequences

(* The state after n iterations of a loop that starts in s.  (The choice   *)
(* from a singleton makes TLC evaluate each state once.)                   *)
Loop(s, n, Step(_, _)) ==
  LET at[k \in 0..n] ==
        IF k = 0 THEN s ELSE CHOOSE t \in {Step(b, k) : b \in {at[k - 1]}} : TRUE
  IN at[n]

Less(a, b) == a.distance < b.distance

Parent(p) == p \div 2

(* The start of the last level of a full heap of this length: the greatest *)
(* power of two up to it.                                                  *)
lastlevel(length) == Loop(1, length, LAMBDA p, k : IF k = 2 * p THEN k ELSE p)

(* The entry a full heap gives up: the first of the greatest in its last   *)
(* level.                                                                  *)
Worst(h) ==
  CHOOSE p \in lastlevel(Len(h))..Len(h) :
    /\ \A q \in lastlevel(Len(h))..Len(h) : ~Less(h[p], h[q])
    /\ \A q \in lastlevel(Len(h))..(p - 1) : Less(h[q], h[p])

Swap(h, p, q) == [h EXCEPT ![p] = h[q], ![q] = h[p]]

(* The entry at loc changes places with a parent it is less than. *)
MoveUp(s) ==
  IF s.loc > 1 /\ Less(s.heap[s.loc], s.heap[Parent(s.loc)])
  THEN [heap |-> Swap(s.heap, s.loc, Parent(s.loc)), loc |-> Parent(s.loc)]
  ELSE s

SiftUp(h, loc) == Loop([heap |-> h, loc |-> loc], loc, LAMBDA s, k : MoveUp(s)).heap

insert(h, length, value) ==
  IF Len(h) < length THEN SiftUp(Append(h, value), Len(h) + 1)
  ELSE IF Less(h[Worst(h)], value) THEN h
  ELSE SiftUp([h EXCEPT ![Worst(h)] = value], Worst(h))

insertAll(h, length, values) ==
  Loop(h, Len(values), LAMBDA b, k : insert(b, length, values[k]))

Top(h) == h[1]

(* heapify: the entry at loc changes places with the lesser child when     *)
(* that child is less than it.                                             *)
LesserIsLeft(h, p) == 2 * p

Lesser(h, p) == IF 2 * p + 1 <= Len(h) /\ Less(h[2 * p + 1], h[2 * p]) THEN 2 * p + 1 ELSE 2 * p

MoveDown(s) ==
  LET next == Lesser(s.heap, s.loc)
  IN IF 2 * s.loc <= Len(s.heap) /\ Less(s.heap[next], s.heap[s.loc])
     THEN [heap |-> Swap(s.heap, s.loc, next), loc |-> next]
     ELSE s

SiftDown(h) == Loop([heap |-> h, loc |-> 1], Len(h), LAMBDA s, k : MoveDown(s)).heap

(* The last entry takes the place of the top and moves down. *)
pop(h) ==
  IF Len(h) = 1 THEN <<>> ELSE SiftDown([SubSeq(h, 1, Len(h) - 1) EXCEPT ![1] = h[Len(h)]])

(* No entry is less than its parent, so the top is a least entry. *)
HeapOrdered(h) == \A p \in 2..Len(h) : ~Less(h[p], h[Parent(p)])
=============================================================================

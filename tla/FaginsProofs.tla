---------------------------- MODULE FaginsProofs ----------------------------
(***************************************************************************)
(* Proofs about Fagins for every table, score, number of index scans and   *)
(* set of calls: the types, that the heap keeps the best rows seen, when   *)
(* the functions stop, that they implement the top-k operator of TopK, and *)
(* how they call their scans and leave memory contexts behind.             *)
(***************************************************************************)
EXTENDS Fagins, FiniteSetTheorems, TLAPS

(* Appending an element adds it to the range: Append models push_back.     *)
LEMMA RangeOfAppend ==
  ASSUME NEW S, NEW s \in Seq(S), NEW e \in S
  PROVE  Range(Append(s, e)) = Range(s) \union {e}
<1> DEFINE t == Append(s, e)
<1>1. Len(s) \in Nat /\ DOMAIN s = 1..Len(s) /\ DOMAIN t = 1..(Len(s) + 1)
  OBVIOUS
<1>2. t[Len(s) + 1] = e /\ \A i \in 1..Len(s) : t[i] = s[i]
  OBVIOUS
<1> HIDE DEF t
<1>3. Range(t) \subseteq Range(s) \union {e}
  <2> SUFFICES ASSUME NEW i \in DOMAIN t PROVE t[i] \in Range(s) \union {e}
    BY DEF Range
  <2>1. i = Len(s) + 1 \/ i \in DOMAIN s
    BY <1>1
  <2>2. QED
    BY <1>1, <1>2, <2>1 DEF Range
<1>4. e \in Range(t)
  <2>1. Len(s) + 1 \in DOMAIN t
    BY <1>1
  <2>2. QED
    BY <1>2, <2>1 DEF Range
<1>5. Range(s) \subseteq Range(t)
  <2> SUFFICES ASSUME NEW i \in DOMAIN s PROVE s[i] \in Range(t)
    BY DEF Range
  <2>1. i \in DOMAIN t
    BY <1>1
  <2>2. QED
    BY <1>1, <1>2, <2>1 DEF Range
<1>6. QED
  BY <1>3, <1>4, <1>5 DEF t

(* Dropping the last element, the top of a stack.                           *)
LEMMA RangeOfFront ==
  ASSUME NEW S, NEW s \in Seq(S), s # <<>>
  PROVE  /\ SubSeq(s, 1, Len(s) - 1) \in Seq(S)
         /\ Len(SubSeq(s, 1, Len(s) - 1)) = Len(s) - 1
         /\ \A i \in 1..(Len(s) - 1) : SubSeq(s, 1, Len(s) - 1)[i] = s[i]
         /\ Range(s) = Range(SubSeq(s, 1, Len(s) - 1)) \union {s[Len(s)]}
<1> DEFINE f == SubSeq(s, 1, Len(s) - 1)
<1>1. Len(s) \in Nat \ {0} /\ DOMAIN s = 1..Len(s)
  OBVIOUS
<1>2. f \in Seq(S) /\ Len(f) = Len(s) - 1 /\ \A i \in 1..(Len(s) - 1) : f[i] = s[i]
  BY <1>1
<1>3. DOMAIN f = 1..(Len(s) - 1)
  BY <1>1, <1>2
<1> HIDE DEF f
<1>4. Range(s) \subseteq Range(f) \union {s[Len(s)]}
  <2> SUFFICES ASSUME NEW i \in DOMAIN s PROVE s[i] \in Range(f) \union {s[Len(s)]}
    BY DEF Range
  <2>1. i = Len(s) \/ i \in DOMAIN f
    BY <1>1, <1>3
  <2>2. QED
    BY <1>2, <1>3, <2>1 DEF Range
<1>5. Range(f) \union {s[Len(s)]} \subseteq Range(s)
  <2> SUFFICES ASSUME NEW i \in DOMAIN f PROVE f[i] \in Range(s) /\ s[Len(s)] \in Range(s)
    BY <1>1 DEF Range
  <2>1. i \in DOMAIN s /\ Len(s) \in DOMAIN s
    BY <1>1, <1>3
  <2>2. QED
    BY <1>2, <1>3, <2>1 DEF Range
<1>6. QED
  BY <1>2, <1>4, <1>5 DEF f

(* The empty sequence has no elements.                                     *)
LEMMA RangeOfEmpty == Range(<<>>) = {}
BY DEF Range

(* A sequence holds at most as many rows as it is long.                    *)
LEMMA RangeCardinality ==
  ASSUME NEW S, NEW s \in Seq(S)
  PROVE  Cardinality(Range(s)) <= Len(s)
<1>1. s \in Surjection(1..Len(s), Range(s))
  BY DEF Surjection, Range
<1>2. ExistsSurjection(1..Len(s), Range(s))
  BY <1>1 DEF ExistsSurjection
<1>3. QED
  BY <1>2, FS_SurjCardinalityBound

(* What holds where the control is.                                        *)
ControlInv ==
  /\ ~finish => result_stack = <<>> /\ output = <<>>
  /\ pc \in {"first", "round"} => ~finish
  /\ pc \in {"drain", "return"} => finish
  /\ pc = "return" => proc_pq = {}
  /\ output # <<>> => proc_pq = {}
  /\ call_cntr = Len(output)
  /\ call_cntr <= args.k
  /\ pc \in {"round", "drain", "return"} => call_cntr < args.k
  /\ pc \in {"end", "done"} =>
       \/ call_cntr = args.k
       \/ finish /\ proc_pq = {} /\ result_stack = <<>>
  /\ finish => args.k > 0
  /\ pc \notin {"first", "error"} => args.k <= ef
  /\ pc = "first" => seenSet = {} /\ proc_pq = {}
  /\ IsFiniteSet(seenSet)

(* The stack ascends towards its top, above every row still in the heap,   *)
(* and no row is in two places.                                            *)
OrderInv ==
  /\ \A i, j \in DOMAIN result_stack :
       i < j => /\ Score[result_stack[j]] <= Score[result_stack[i]]
                /\ result_stack[i] # result_stack[j]
  /\ \A r \in proc_pq, i \in DOMAIN result_stack : Score[r] <= Score[result_stack[i]]
  /\ proc_pq \intersect Range(result_stack) = {}
  /\ Range(result_stack) \intersect Range(output) = {}
  /\ \A i \in DOMAIN output, j \in DOMAIN result_stack :
       Score[output[i]] <= Score[result_stack[j]]
  /\ \A i, j \in DOMAIN output :
       i < j => Score[output[i]] <= Score[output[j]] /\ output[i] # output[j]

(* The inductive invariant.                                                *)
IInv == TypeOK /\ ControlInv /\ KeepsBestSeen /\ OrderInv
-----------------------------------------------------------------------------
(* Every variable keeps its type: in particular the loop variable of a     *)
(* round never passes the last child, and the context switched to is       *)
(* always one the function knows.                                          *)
LEMMA TypeStep == TypeOK /\ [Next]_vars => TypeOK'
<1> SUFFICES ASSUME TypeOK, [Next]_vars PROVE TypeOK'
  BY Zenon
<1> USE ChildrenAssumption, DefaultsAssumption, CallsAssumption
    DEF TypeOK, PC, Children, CALLER, MULTI, scanVars, heapVars, outVars, endVars
<1>1. CASE FirstCall
  BY SMTT(30), <1>1 DEF FirstCall, HeapBound, Larger, OrDefault
<1>2. CASE Error
  BY Zenon, <1>2 DEF Error
<1>3. CASE PerCall
  BY <1>3 DEF PerCall
<1>4. CASE Abandon
  BY <1>4 DEF Abandon
<1>5. CASE ChildDry
  BY Zenon, <1>5 DEF ChildDry
<1>6. ASSUME NEW r \in Row, Child(r) PROVE TypeOK'
  <2>1. CASE ChildSeen(r)
    BY SMTT(30), <2>1 DEF ChildSeen, Fetch
  <2>2. CASE ChildKeep(r)
    <3>1. proc_pq' \subseteq Row
      BY Zenon, <2>2 DEF ChildKeep, Tops
    <3>2. arrivals' \in Seq(Row) /\ consecutive_drops' \in Nat
      BY <2>2 DEF ChildKeep, DropsAfter
    <3>3. fetched' \in [Children -> SUBSET Row]
      BY Zenon, <2>2 DEF ChildKeep, Fetch
    <3>4. orderby_id' \in 1..(NumChildren + 1)
      BY <2>2 DEF ChildKeep, Fetch
    <3>5. seenSet' \subseteq Row
      BY Zenon, <2>2 DEF ChildKeep
    <3>6. QED
      BY Zenon, <2>2, <3>1, <3>2, <3>3, <3>4, <3>5 DEF ChildKeep
  <2>3. CASE ChildDrop(r)
    BY SMTT(60), <2>3 DEF ChildDrop, Fetch, DropsAfter
  <2>4. QED
    BY Zenon, <1>6, <2>1, <2>2, <2>3 DEF Child
<1>7. CASE EndRound
  BY <1>7 DEF EndRound
<1>8. CASE Drain
  <2>1. CASE proc_pq = {}
    BY Zenon, <1>8, <2>1 DEF Drain
  <2>2. CASE proc_pq # {}
    <3>1. PICK t \in Tops(proc_pq) : /\ proc_pq' = proc_pq \ {t}
                                     /\ result_stack' = Append(result_stack, t)
      BY Zenon, <1>8, <2>2 DEF Drain
    <3>2. t \in Row /\ result_stack' \in Seq(Row) /\ proc_pq' \subseteq Row
      BY <3>1 DEF Tops
    <3>3. QED
      BY Zenon, <1>8, <2>2, <3>2 DEF Drain
  <2>3. QED
    BY Zenon, <2>1, <2>2
<1>9. CASE Return
  <2>1. CASE result_stack = <<>>
    BY Zenon, <1>9, <2>1 DEF Return
  <2>2. CASE result_stack # <<>>
    <3>1. Len(result_stack) \in DOMAIN result_stack /\ TopOfStack \in Row
      BY <2>2 DEF TopOfStack
    <3>2. SubSeq(result_stack, 1, Len(result_stack) - 1) \in Seq(Row)
      BY SMTT(30), <2>2
    <3>3. /\ output' = Append(output, TopOfStack)
          /\ result_stack' = SubSeq(result_stack, 1, Len(result_stack) - 1)
          /\ call_cntr' = call_cntr + 1
          /\ pc' = "call"
      BY Zenon, <1>9, <2>2 DEF Return
    <3>4. output' \in Seq(Row) /\ result_stack' \in Seq(Row)
      BY <3>1, <3>2, <3>3
    <3>5. QED
      BY SMTT(30), <1>9, <3>3, <3>4 DEF Return
  <2>3. QED
    BY Zenon, <2>1, <2>2
<1>10. ASSUME NEW c \in Children, EndChild(c) PROVE TypeOK'
  BY SMTT(30), <1>10 DEF EndChild
<1>11. CASE Finish
  <2>1. ctx' \in CALLER..MULTI
    BY Zenon, <1>11 DEF Finish
  <2>3. deleted' \subseteq CALLER..MULTI
    BY <1>11 DEF Finish
  <2>4. spi' \in BOOLEAN
    BY Zenon, <1>11 DEF Finish
  <2>2. pc' \in PC
    BY Zenon, <1>11 DEF Finish
  <2>5. QED
    BY Zenon, <1>11, <2>1, <2>2, <2>3, <2>4 DEF Finish
<1>12. CASE UNCHANGED vars
  BY Zenon, <1>12 DEF vars
<1>13. QED
  BY Zenon, <1>1, <1>2, <1>3, <1>4, <1>5, <1>6, <1>7, <1>8, <1>9, <1>10, <1>11, <1>12 DEF Next

LEMMA TypeInit == Init => TypeOK
<1> SUFFICES ASSUME Init PROVE TypeOK
  BY Zenon
<1> USE ChildrenAssumption DEF Init, PC, Children, CALLER, MULTI
<1>1. args \in Calls /\ pc \in PC /\ ef \in Nat /\ term_cond \in Nat
  BY Zenon
<1>2. fetched \in [Children -> SUBSET Row]
  BY Zenon
<1>3. dry \subseteq Children /\ orderby_id \in 1..(NumChildren + 1)
  OBVIOUS
<1>4. seenSet \subseteq Row /\ proc_pq \subseteq Row /\ consecutive_drops \in Nat /\ call_cntr \in Nat
  BY Zenon
<1>5. result_stack \in Seq(Row) /\ output \in Seq(Row) /\ arrivals \in Seq(Row)
  OBVIOUS
<1>6. finish \in BOOLEAN /\ spi \in BOOLEAN
  BY Zenon
<1>7. ctx \in CALLER..MULTI /\ savedcxt \in CALLER..MULTI /\ deleted \subseteq CALLER..MULTI
  OBVIOUS
<1>8. QED
  BY Zenon, <1>1, <1>2, <1>3, <1>4, <1>5, <1>6, <1>7 DEF TypeOK

(* TypeOK is an invariant of the functions for every value of the constants. *)
THEOREM TypeCorrect == Spec => []TypeOK
<1>1. QED
  BY TypeInit, TypeStep, PTL DEF Spec
-----------------------------------------------------------------------------
(* The steps that move no row: they only pass control.                     *)
QuietStep ==
  \/ FirstCall \/ Error \/ PerCall \/ Abandon \/ ChildDry
  \/ \E r \in Row : ChildSeen(r)
  \/ EndRound
  \/ \E c \in Children : EndChild(c)
  \/ Finish
  \/ UNCHANGED vars

LEMMA StepCases ==
  ASSUME [Next]_vars
  PROVE  \/ QuietStep
         \/ \E r \in Row : ChildKeep(r) \/ ChildDrop(r)
         \/ Drain
         \/ Return
BY Zenon DEF Next, Child, QuietStep

LEMMA QuietMovesNoRow ==
  ASSUME QuietStep
  PROVE  UNCHANGED <<args, seenSet, proc_pq, result_stack, output, call_cntr>>
BY Zenon DEF QuietStep, FirstCall, Error, PerCall, Abandon, ChildDry, ChildSeen, Fetch, EndRound,
       EndChild, Finish, vars, scanVars, heapVars, outVars, endVars

(* What a drain step and a return step do to the heap and the stack.       *)
LEMMA DrainStep ==
  ASSUME TypeOK, Drain, proc_pq # {}
  PROVE  \E t \in proc_pq :
           /\ \A s \in proc_pq : Score[s] <= Score[t]
           /\ proc_pq' = proc_pq \ {t}
           /\ result_stack' = Append(result_stack, t)
           /\ UNCHANGED <<args, pc, ef, seenSet, output, call_cntr, finish>>
BY Zenon DEF Drain, Tops, scanVars

LEMMA ReturnStep ==
  ASSUME TypeOK, Return, result_stack # <<>>
  PROVE  /\ output' = Append(output, result_stack[Len(result_stack)])
         /\ result_stack' = SubSeq(result_stack, 1, Len(result_stack) - 1)
         /\ call_cntr' = call_cntr + 1
         /\ pc' = "call"
         /\ UNCHANGED <<args, ef, seenSet, proc_pq, finish>>
BY Zenon DEF Return, TopOfStack, scanVars, heapVars
-----------------------------------------------------------------------------
LEMMA ControlStep ==
  ASSUME IInv, [Next]_vars
  PROVE  ControlInv'
<1> USE DEF IInv
<1>0. args.k \in Nat /\ args.ef \in Nat
  BY Zenon, CallsAssumption DEF TypeOK
<1>1. CASE QuietStep
  <2>1. UNCHANGED <<args, seenSet, proc_pq, result_stack, output, call_cntr>>
    BY Zenon, <1>1, QuietMovesNoRow
  <2>2. CASE FirstCall
    <3>1. ef' \in Nat /\ args.k <= ef'
      BY <1>0, <2>2, DefaultsAssumption DEF FirstCall, HeapBound, Larger, OrDefault
    <3>2. pc' = "call" /\ finish' = finish
      BY Zenon, <2>2 DEF FirstCall, heapVars
    <3>3. QED
      BY Zenon, <2>1, <2>2, <3>1, <3>2 DEF ControlInv, FirstCall
  <2>3. CASE Error
    BY Zenon, <2>1, <2>3 DEF ControlInv, Error, heapVars
  <2>4. CASE PerCall
    <3>1. call_cntr \in Nat /\ call_cntr <= args.k /\ pc = "call" /\ UNCHANGED <<ef, finish>>
      BY Zenon, <2>4 DEF PerCall, ControlInv, TypeOK
    <3>2. \/ pc' = "end" /\ call_cntr = args.k
          \/ pc' = "drain" /\ finish /\ call_cntr < args.k
          \/ pc' = "round" /\ ~finish /\ call_cntr < args.k
      BY <1>0, <2>4, <3>1 DEF PerCall
    <3>3. CASE pc' = "end" /\ call_cntr = args.k
      BY Zenon, <1>0, <2>1, <3>1, <3>3 DEF ControlInv
    <3>4. CASE pc' = "drain" /\ finish /\ call_cntr < args.k
      BY Zenon, <2>1, <3>1, <3>4 DEF ControlInv
    <3>5. CASE pc' = "round" /\ ~finish /\ call_cntr < args.k
      BY Zenon, <2>1, <3>1, <3>5 DEF ControlInv
    <3>6. QED
      BY Zenon, <3>2, <3>3, <3>4, <3>5
  <2>5. CASE Abandon
    BY Zenon, <2>1, <2>5 DEF ControlInv, Abandon, heapVars
  <2>6. CASE ChildDry
    BY Zenon, <2>1, <2>6 DEF ControlInv, ChildDry
  <2>7. CASE EndRound
    BY Zenon, <2>1, <2>7 DEF ControlInv, EndRound
  <2>8. ASSUME NEW r \in Row, ChildSeen(r) PROVE ControlInv'
    BY Zenon, <2>1, <2>8 DEF ControlInv, ChildSeen, heapVars
  <2>9. ASSUME NEW c \in Children, EndChild(c) PROVE ControlInv'
    BY Zenon, <2>1, <2>9 DEF ControlInv, EndChild, heapVars
  <2>10. CASE Finish
    BY Zenon, <2>1, <2>10 DEF ControlInv, Finish, heapVars
  <2>11. CASE UNCHANGED vars
    BY Zenon, <2>11 DEF ControlInv, vars, scanVars, heapVars, outVars
  <2>12. QED
    BY Zenon, <1>1, <2>2, <2>3, <2>4, <2>5, <2>6, <2>7, <2>8, <2>9, <2>10, <2>11 DEF QuietStep
<1>2. ASSUME NEW r \in Row, ChildKeep(r) \/ ChildDrop(r) PROVE ControlInv'
  <2>1. seenSet' = seenSet \union {r} /\ pc = "round"
    BY Zenon, <1>2 DEF ChildKeep, ChildDrop, Fetch
  <2>2. UNCHANGED <<args, pc, ef, finish, result_stack, output, call_cntr>>
    BY Zenon, <1>2 DEF ChildKeep, ChildDrop, outVars
  <2>3. IsFiniteSet(seenSet')
    BY Zenon, <2>1, FS_AddElement DEF ControlInv
  <2>4. QED
    BY Zenon, <2>1, <2>2, <2>3 DEF ControlInv
<1>3. CASE Drain
  <2>1. CASE proc_pq = {}
    BY Zenon, <1>3, <2>1 DEF ControlInv, Drain, scanVars
  <2>2. CASE proc_pq # {}
    <3>1. /\ UNCHANGED <<args, pc, ef, seenSet, output, call_cntr, finish>>
          /\ pc = "drain"
      BY Zenon, <1>3, <2>2 DEF Drain, scanVars
    <3>2. QED
      BY Zenon, <2>2, <3>1 DEF ControlInv
  <2>3. QED
    BY Zenon, <2>1, <2>2
<1>4. CASE Return
  <2>1. CASE result_stack = <<>>
    BY Zenon, <1>4, <2>1 DEF ControlInv, Return, scanVars, heapVars, outVars
  <2>2. CASE result_stack # <<>>
    <3>1. pc = "return"
      BY Zenon, <1>4 DEF Return
    <3>2. Len(output') = Len(output) + 1
      BY <1>4, <2>2, ReturnStep DEF TypeOK
    <3>3. call_cntr' = call_cntr + 1 /\ args' = args
      BY Zenon, <1>4, <2>2, ReturnStep
    <3>4. call_cntr = Len(output) /\ call_cntr < args.k /\ call_cntr \in Nat
      BY Zenon, <3>1 DEF ControlInv, TypeOK
    <3>5. call_cntr' = Len(output') /\ call_cntr' <= args'.k
      BY <1>0, <3>2, <3>3, <3>4
    <3>6. QED
      BY Zenon, <1>4, <2>2, <3>1, <3>5, ReturnStep DEF ControlInv
  <2>3. QED
    BY Zenon, <2>1, <2>2
<1>5. QED
  BY Zenon, <1>1, <1>2, <1>3, <1>4, StepCases
-----------------------------------------------------------------------------
(* While rows are collected the candidates are the rows of the heap.       *)
LEMMA CandidatesInRound ==
  ASSUME IInv, pc = "round"
  PROVE  Candidates = proc_pq /\ IsFiniteSet(proc_pq) /\ Cardinality(proc_pq) \in Nat
                              /\ Cardinality(seenSet) \in Nat
<1>1. Candidates = proc_pq
  BY Zenon, RangeOfEmpty DEF IInv, ControlInv, Candidates
<1>2. IsFiniteSet(seenSet) /\ proc_pq \subseteq seenSet
  BY Zenon, <1>1 DEF IInv, ControlInv, KeepsBestSeen
<1>3. QED
  BY Zenon, <1>1, <1>2, FS_Subset, FS_CardinalityType

(* A row that enters the heap, in the place of the top when it is full.    *)
LEMMA KeepPreservesBest ==
  ASSUME IInv, NEW r \in Row, ChildKeep(r)
  PROVE  KeepsBestSeen'
<1> USE DEF IInv
<1>1. /\ pc = "round" /\ pc' = "round" /\ ef' = ef /\ ef \in Nat
      /\ r \notin seenSet /\ seenSet' = seenSet \union {r}
      /\ result_stack' = <<>> /\ output' = <<>>
      /\ Accepts(r)
  BY Zenon DEF ChildKeep, Fetch, outVars, ControlInv, TypeOK
<1>2. Candidates' = proc_pq'
  BY Zenon, <1>1, RangeOfEmpty DEF Candidates
<1>3. /\ Candidates = proc_pq /\ IsFiniteSet(proc_pq) /\ IsFiniteSet(seenSet)
      /\ Cardinality(proc_pq) \in Nat /\ Cardinality(seenSet) \in Nat
      /\ proc_pq \subseteq seenSet /\ seenSet \subseteq Row
      /\ Cardinality(proc_pq)
           = (IF Cardinality(seenSet) < ef THEN Cardinality(seenSet) ELSE ef)
      /\ \A q \in proc_pq, u \in seenSet \ proc_pq : Score[q] <= Score[u]
  BY Zenon, <1>1, CandidatesInRound DEF ControlInv, KeepsBestSeen, TypeOK
<1>4. Cardinality(seenSet') = Cardinality(seenSet) + 1
  BY Zenon, <1>1, <1>3, FS_AddElement
<1>5. CASE Cardinality(proc_pq) = ef
  <2>1. PICK t \in proc_pq : /\ \A q \in proc_pq : Score[q] <= Score[t]
                             /\ proc_pq' = (proc_pq \ {t}) \union {r}
    BY Zenon, <1>5 DEF ChildKeep, Tops
  <2>2. Score[r] < Score[t]
    <3>1. PICK u \in proc_pq : Score[u] > Score[r]
      BY <1>1, <1>3, <1>5 DEF Accepts
    <3>2. Score[u] \in Int /\ Score[r] \in Int /\ Score[t] \in Int /\ Score[u] <= Score[t]
      BY Zenon, <1>3, <2>1, ScoreAssumption
    <3>3. QED
      BY <3>1, <3>2
  <2>3. Cardinality(proc_pq') = ef
    <3>1. IsFiniteSet(proc_pq \ {t}) /\ Cardinality(proc_pq \ {t}) = Cardinality(proc_pq) - 1
      BY Zenon, <1>3, FS_RemoveElement
    <3>2. r \notin proc_pq \ {t}
      BY Zenon, <1>1, <1>3
    <3>3. Cardinality((proc_pq \ {t}) \union {r}) = Cardinality(proc_pq \ {t}) + 1
      BY Zenon, <3>1, <3>2, FS_AddElement
    <3>4. QED
      BY <1>3, <1>5, <2>1, <3>1, <3>3
  <2>4. \A q \in proc_pq', u \in seenSet' \ proc_pq' : Score[q] <= Score[u]
    <3> SUFFICES ASSUME NEW q \in proc_pq', NEW u \in seenSet' \ proc_pq'
                 PROVE  Score[q] <= Score[u]
      BY Zenon
    <3>1. u = t \/ u \in seenSet \ proc_pq
      BY Zenon, <1>1, <2>1
    <3>2. q = r \/ q \in proc_pq
      BY Zenon, <2>1
    <3>3. {Score[q], Score[u], Score[t], Score[r]} \subseteq Int
      BY Zenon, <1>1, <1>3, <3>1, <3>2, ScoreAssumption
    <3>4. Score[q] <= Score[t]
      BY <2>1, <2>2, <3>2, <3>3
    <3>5. Score[t] <= Score[u]
      BY <1>3, <3>1, <3>3
    <3>6. QED
      BY <3>3, <3>4, <3>5
  <2>5. proc_pq' \subseteq seenSet'
    BY Zenon, <1>1, <1>3, <2>1
  <2>6. Cardinality(seenSet') >= ef
    BY <1>1, <1>3, <1>4, <1>5
  <2>7. QED
    BY <1>1, <1>2, <1>3, <1>4, <2>3, <2>4, <2>5, <2>6 DEF KeepsBestSeen
<1>6. CASE Cardinality(proc_pq) # ef
  <2>1. proc_pq' = proc_pq \union {r}
    BY Zenon, <1>6 DEF ChildKeep
  <2>2. Cardinality(proc_pq) = Cardinality(seenSet) /\ Cardinality(seenSet) < ef
    BY Zenon, <1>1, <1>3, <1>6
  <2>3. proc_pq = seenSet
    BY Zenon, <1>3, <2>2, FS_Subset
  <2>4. proc_pq' = seenSet'
    BY Zenon, <1>1, <2>1, <2>3
  <2>5. Cardinality(proc_pq') = (IF Cardinality(seenSet') < ef THEN Cardinality(seenSet') ELSE ef)
    BY <1>1, <1>3, <1>4, <2>2, <2>4
  <2>6. QED
    BY Zenon, <1>1, <1>2, <2>4, <2>5 DEF KeepsBestSeen
<1>7. QED
  BY Zenon, <1>5, <1>6

(* A row that does not enter the heap is no better than any row of it.     *)
LEMMA DropPreservesBest ==
  ASSUME IInv, NEW r \in Row, ChildDrop(r)
  PROVE  KeepsBestSeen'
<1> USE DEF IInv
<1>1. /\ pc = "round" /\ pc' = "round" /\ ef' = ef /\ ef \in Nat
      /\ r \notin seenSet /\ seenSet' = seenSet \union {r}
      /\ proc_pq' = proc_pq /\ result_stack' = <<>> /\ output' = <<>>
      /\ ~Accepts(r)
  BY Zenon DEF ChildDrop, Fetch, outVars, ControlInv, TypeOK
<1>2. Candidates' = proc_pq
  BY Zenon, <1>1, RangeOfEmpty DEF Candidates
<1>3. /\ Candidates = proc_pq /\ IsFiniteSet(seenSet)
      /\ Cardinality(proc_pq) \in Nat /\ Cardinality(seenSet) \in Nat
      /\ proc_pq \subseteq seenSet /\ seenSet \subseteq Row
      /\ Cardinality(proc_pq)
           = (IF Cardinality(seenSet) < ef THEN Cardinality(seenSet) ELSE ef)
      /\ \A q \in proc_pq, u \in seenSet \ proc_pq : Score[q] <= Score[u]
  BY Zenon, <1>1, CandidatesInRound DEF ControlInv, KeepsBestSeen, TypeOK
<1>4. Cardinality(seenSet') = Cardinality(seenSet) + 1
  BY Zenon, <1>1, <1>3, FS_AddElement
<1>5. \A q \in proc_pq : Score[q] <= Score[r]
  BY <1>1, <1>3, ScoreAssumption DEF Accepts
<1>6. Cardinality(proc_pq) = ef /\ Cardinality(seenSet) >= ef
  BY <1>1, <1>3 DEF Accepts
<1>7. \A q \in proc_pq, u \in seenSet' \ proc_pq : Score[q] <= Score[u]
  BY Zenon, <1>1, <1>3, <1>5
<1>8. ~(Cardinality(seenSet') < ef)
  BY <1>1, <1>3, <1>4, <1>6
<1>9. QED
  BY Zenon, <1>1, <1>2, <1>3, <1>6, <1>7, <1>8 DEF KeepsBestSeen

(* Moving a row from the heap to the stack, or from the stack to the       *)
(* caller, keeps the set of candidates.                                    *)
LEMMA CandidatesKept ==
  ASSUME IInv, Drain \/ Return
  PROVE  Candidates' = Candidates
<1> USE DEF IInv
<1>1. CASE Drain
  <2>1. CASE proc_pq = {}
    BY Zenon, <1>1, <2>1 DEF Drain, Candidates
  <2>2. CASE proc_pq # {}
    <3>1. PICK t \in proc_pq : /\ proc_pq' = proc_pq \ {t}
                               /\ result_stack' = Append(result_stack, t)
                               /\ output' = output
      BY Zenon, <1>1, <2>2, DrainStep
    <3>2. Range(result_stack') = Range(result_stack) \union {t}
      BY <3>1, RangeOfAppend DEF TypeOK
    <3>3. QED
      BY Zenon, <3>1, <3>2 DEF Candidates
  <2>3. QED
    BY Zenon, <2>1, <2>2
<1>2. CASE Return
  <2>1. CASE result_stack = <<>>
    BY Zenon, <1>2, <2>1 DEF Return, Candidates, outVars, heapVars
  <2>2. CASE result_stack # <<>>
    <3> DEFINE t == result_stack[Len(result_stack)]
    <3>1. t \in Row
      BY <2>2 DEF TypeOK
    <3>2. /\ output' = Append(output, t) /\ proc_pq' = proc_pq
          /\ result_stack' = SubSeq(result_stack, 1, Len(result_stack) - 1)
      BY Zenon, <1>2, <2>2, ReturnStep
    <3> HIDE DEF t
    <3>3. Range(output') = Range(output) \union {t}
      BY <3>1, <3>2, RangeOfAppend DEF TypeOK
    <3>4. Range(result_stack) = Range(result_stack') \union {t}
      BY Zenon, <2>2, <3>2, RangeOfFront DEF TypeOK, t
    <3>5. QED
      BY Zenon, <3>2, <3>3, <3>4 DEF Candidates
  <2>3. QED
    BY Zenon, <2>1, <2>2
<1>3. QED
  BY Zenon, <1>1, <1>2

LEMMA BestStep ==
  ASSUME IInv, [Next]_vars
  PROVE  KeepsBestSeen'
<1> USE DEF IInv
<1>1. CASE QuietStep
  <2>1. Candidates' = Candidates /\ seenSet' = seenSet
    BY Zenon, <1>1, QuietMovesNoRow DEF Candidates
  <2>2. CASE FirstCall
    <3>1. Candidates = {} /\ seenSet = {}
      BY Zenon, <2>2, RangeOfEmpty DEF FirstCall, ControlInv, Candidates
    <3>2. ef' \in Nat
      BY Zenon, <2>2, TypeStep DEF TypeOK
    <3>3. QED
      BY <2>1, <3>1, <3>2, FS_EmptySet DEF KeepsBestSeen
  <2>3. CASE ~FirstCall
    <3>1. ef' = ef /\ (pc' \notin {"first", "error"} => pc \notin {"first", "error"})
      BY ZenonT(30), <1>1, <2>3 DEF QuietStep, Error, PerCall, Abandon, ChildDry, ChildSeen, Fetch,
                        EndRound, EndChild, Finish, vars
    <3>2. QED
      BY Zenon, <2>1, <3>1 DEF KeepsBestSeen
  <2>4. QED
    BY Zenon, <2>2, <2>3
<1>2. ASSUME NEW r \in Row, ChildKeep(r) \/ ChildDrop(r) PROVE KeepsBestSeen'
  BY Zenon, <1>2, KeepPreservesBest, DropPreservesBest
<1>3. CASE Drain \/ Return
  <2>1. UNCHANGED <<ef, seenSet>> /\ pc \in {"drain", "return"}
    BY Zenon, <1>3 DEF Drain, Return, scanVars
  <2>2. Candidates' = Candidates
    BY Zenon, <1>3, CandidatesKept
  <2>3. QED
    BY Zenon, <2>1, <2>2 DEF KeepsBestSeen
<1>4. QED
  BY Zenon, <1>1, <1>2, <1>3, StepCases
-----------------------------------------------------------------------------
LEMMA OrderDrain ==
  ASSUME IInv, Drain
  PROVE  OrderInv'
<1> USE DEF IInv
<1>1. CASE proc_pq = {}
  BY Zenon, <1>1 DEF Drain, OrderInv
<1>2. CASE proc_pq # {}
  <2>1. PICK t \in proc_pq : /\ \A u \in proc_pq : Score[u] <= Score[t]
                             /\ proc_pq' = proc_pq \ {t}
                             /\ result_stack' = Append(result_stack, t)
                             /\ output' = output
    BY Zenon, <1>2, DrainStep
  <2>2. output = <<>>
    BY Zenon, <1>2 DEF ControlInv
  <2>3. result_stack \in Seq(Row) /\ t \in Row /\ proc_pq \subseteq Row
    BY Zenon DEF TypeOK
  <2>4. /\ Len(result_stack') = Len(result_stack) + 1
        /\ DOMAIN result_stack' = 1..(Len(result_stack) + 1)
        /\ DOMAIN result_stack = 1..Len(result_stack)
        /\ Len(result_stack) \in Nat
        /\ \A i \in 1..Len(result_stack) : result_stack'[i] = result_stack[i]
        /\ result_stack'[Len(result_stack) + 1] = t
    BY <2>1, <2>3
  <2>5. Range(result_stack') = Range(result_stack) \union {t}
    BY SMTT(40), <2>1, <2>3, RangeOfAppend
  <2>6. t \notin Range(result_stack)
    BY Zenon DEF OrderInv
  <2>7. \A i \in 1..Len(result_stack) : Score[t] <= Score[result_stack[i]] /\ result_stack[i] # t
    BY ZenonT(30), <2>4, <2>6 DEF OrderInv, Range
  <2>8. \A i, j \in DOMAIN result_stack' :
          i < j => /\ Score[result_stack'[j]] <= Score[result_stack'[i]]
                   /\ result_stack'[i] # result_stack'[j]
    BY SMTT(40), <2>4, <2>7 DEF OrderInv
  <2>9. \A r \in proc_pq', i \in DOMAIN result_stack' : Score[r] <= Score[result_stack'[i]]
    BY <2>1, <2>4 DEF OrderInv
  <2>10. proc_pq' \intersect Range(result_stack') = {}
    BY Zenon, <2>1, <2>5 DEF OrderInv
  <2>11. DOMAIN output' = {} /\ Range(output') = {}
    BY <2>1, <2>2, RangeOfEmpty
  <2>12. QED
    BY Zenon, <2>8, <2>9, <2>10, <2>11 DEF OrderInv
<1>3. QED
  BY Zenon, <1>1, <1>2

LEMMA OrderReturn ==
  ASSUME IInv, Return
  PROVE  OrderInv'
<1> USE DEF IInv
<1>1. CASE result_stack = <<>>
  BY Zenon, <1>1 DEF Return, OrderInv, outVars, heapVars
<1>2. CASE result_stack # <<>>
  <2> DEFINE n == Len(result_stack)
             m == Len(output)
             t == result_stack[n]
  <2>1. /\ result_stack \in Seq(Row) /\ output \in Seq(Row)
        /\ n \in Nat \ {0} /\ m \in Nat /\ n \in DOMAIN result_stack /\ t \in Row
        /\ DOMAIN result_stack = 1..n /\ DOMAIN output = 1..m
    BY <1>2 DEF TypeOK
  <2>2. /\ output' = Append(output, t) /\ proc_pq' = proc_pq
        /\ result_stack' = SubSeq(result_stack, 1, n - 1)
    BY Zenon, <1>2, ReturnStep
  <2>3. proc_pq = {}
    BY Zenon DEF Return, ControlInv
  <2>4. /\ result_stack' \in Seq(Row) /\ Len(result_stack') = n - 1
        /\ \A i \in 1..(n - 1) : result_stack'[i] = result_stack[i]
        /\ Range(result_stack) = Range(result_stack') \union {t}
    BY Zenon, <1>2, <2>1, <2>2, RangeOfFront
  <2>5. DOMAIN result_stack' = 1..(n - 1)
    BY <2>1, <2>4
  <2>6. /\ DOMAIN output' = 1..(m + 1)
        /\ \A i \in 1..m : output'[i] = output[i]
        /\ output'[m + 1] = t
    BY <2>1, <2>2
  <2>7. Range(output') = Range(output) \union {t}
    BY SMTT(60), <2>1, <2>2, RangeOfAppend
  <2>8. t \in Range(result_stack) /\ t \notin Range(output)
    BY Zenon, <2>1 DEF OrderInv, Range
  <2> HIDE DEF n, m, t
  <2>9. \A i \in 1..(n - 1) : result_stack[i] # t /\ Score[t] <= Score[result_stack[i]]
    BY <2>1 DEF OrderInv, t
  <2>10. t \notin Range(result_stack')
    BY Zenon, <2>4, <2>5, <2>9 DEF Range
  <2>11. \A i \in 1..m : Score[output[i]] <= Score[t] /\ output[i] # t
    BY Zenon, <2>1, <2>8 DEF OrderInv, t, Range
  <2>12. \A i, j \in DOMAIN result_stack' :
           i < j => /\ Score[result_stack'[j]] <= Score[result_stack'[i]]
                    /\ result_stack'[i] # result_stack'[j]
    BY SMTT(40), <2>1, <2>4, <2>5 DEF OrderInv
  <2>13. Range(result_stack') \intersect Range(output') = {}
    BY Zenon, <2>4, <2>7, <2>10 DEF OrderInv
  <2>14. \A i \in DOMAIN output', j \in DOMAIN result_stack' :
           Score[output'[i]] <= Score[result_stack'[j]]
    BY SMTT(40), <2>1, <2>4, <2>5, <2>6, <2>9 DEF OrderInv
  <2>15. \A i, j \in DOMAIN output' :
           i < j => Score[output'[i]] <= Score[output'[j]] /\ output'[i] # output'[j]
    BY <2>1, <2>6, <2>11 DEF OrderInv
  <2>16. QED
    BY Zenon, <2>2, <2>3, <2>12, <2>13, <2>14, <2>15 DEF OrderInv
<1>3. QED
  BY Zenon, <1>1, <1>2

LEMMA OrderStep ==
  ASSUME IInv, [Next]_vars
  PROVE  OrderInv'
<1>1. CASE QuietStep
  BY Zenon, <1>1, QuietMovesNoRow DEF IInv, OrderInv
<1>2. ASSUME NEW r \in Row, ChildKeep(r) \/ ChildDrop(r) PROVE OrderInv'
  <2>1. result_stack' = <<>> /\ output' = <<>>
    BY Zenon, <1>2 DEF ChildKeep, ChildDrop, Fetch, outVars, IInv, ControlInv
  <2>2. QED
    BY <2>1, RangeOfEmpty DEF OrderInv
<1>3. QED
  BY Zenon, <1>1, <1>2, OrderDrain, OrderReturn, StepCases

LEMMA InitIInv == Init => IInv
<1> SUFFICES ASSUME Init PROVE IInv
  BY Zenon
<1>1. TypeOK
  BY Zenon, TypeInit
<1>2. ControlInv
  <2>1. args.k \in Nat
    BY Zenon, CallsAssumption DEF Init
  <2>2. QED
    BY <2>1, FS_EmptySet DEF Init, ControlInv
<1>3. KeepsBestSeen
  BY Zenon, RangeOfEmpty DEF Init, KeepsBestSeen, Candidates
<1>4. OrderInv
  BY RangeOfEmpty DEF Init, OrderInv
<1>5. QED
  BY Zenon, <1>1, <1>2, <1>3, <1>4 DEF IInv

(* The inductive invariant holds in every reachable state.                 *)
THEOREM Invariance == Spec => []IInv
<1>1. IInv /\ [Next]_vars => IInv'
  BY Zenon, TypeStep, ControlStep, BestStep, OrderStep DEF IInv
<1>2. QED
  BY <1>1, InitIInv, PTL DEF Spec

(* The heap, the stack and the rows returned are at every moment the best  *)
(* min(ef, number seen) of all the distinct rows the scans delivered.      *)
THEOREM HeapKeepsBest == Spec => []KeepsBestSeen
<1>1. IInv => KeepsBestSeen
  BY Zenon DEF IInv
<1>2. QED
  BY <1>1, Invariance, PTL

(* When the function ends it has returned k rows, or all rows seen.        *)
LEMMA CompleteAtEnd ==
  ASSUME IInv, pc \in {"end", "done"}
  PROVE  \/ Len(output) = args.k
         \/ args.k > 0 /\ finish /\ Range(output) = seenSet
<1> USE DEF IInv
<1>1. call_cntr = Len(output) /\ Len(output) \in Nat /\ args.k \in Nat /\ call_cntr <= args.k
  BY Zenon, CallsAssumption DEF TypeOK, ControlInv
<1>2. CASE call_cntr = args.k
  BY Zenon, <1>1, <1>2
<1>3. CASE finish /\ proc_pq = {} /\ result_stack = <<>>
  <2>1. Candidates = Range(output) /\ args.k > 0
    BY Zenon, <1>3, RangeOfEmpty DEF Candidates, ControlInv
  <2>2. Cardinality(Range(output)) <= Len(output)
    BY Zenon, RangeCardinality DEF TypeOK
  <2>3. IsFiniteSet(seenSet) /\ Range(output) \subseteq seenSet
    BY Zenon, <2>1 DEF ControlInv, KeepsBestSeen
  <2>4. Cardinality(Range(output)) \in Nat /\ Cardinality(seenSet) \in Nat
    BY Zenon, <2>3, FS_Subset, FS_CardinalityType
  <2>5. ef \in Nat /\ args.k <= ef
    BY Zenon DEF TypeOK, ControlInv
  <2>6. Cardinality(Range(output)) = (IF Cardinality(seenSet) < ef THEN Cardinality(seenSet) ELSE ef)
    BY Zenon, <2>1 DEF KeepsBestSeen
  <2>7. CASE Cardinality(seenSet) < ef
    BY Zenon, <1>3, <2>1, <2>3, <2>6, <2>7, FS_Subset
  <2>8. CASE ~(Cardinality(seenSet) < ef)
    BY SMTT(40), <1>1, <2>2, <2>4, <2>5, <2>6, <2>8
  <2>9. QED
    BY Zenon, <2>7, <2>8
<1>4. QED
  BY Zenon, <1>2, <1>3 DEF ControlInv

(* topk and multicol_topk return distinct rows in ascending score, and at  *)
(* their end k of them or every row seen.                                  *)
THEOREM BestInOrder == Spec => []ReturnsBestInOrder
<1>1. IInv => ReturnsBestInOrder
  BY Zenon, CompleteAtEnd DEF IInv, OrderInv, ReturnsBestInOrder
<1>2. QED
  BY <1>1, Invariance, PTL
-----------------------------------------------------------------------------
(* The functions implement the top-k operator.                             *)

LEMMA InitRefines == Init => TK!Init
<1> SUFFICES ASSUME Init PROVE TK!Init
  BY Zenon
<1>1. args.k \in Nat
  BY Zenon, CallsAssumption DEF Init
<1>2. QED
  BY Zenon, <1>1 DEF Init, TK!Init, phase

(* The top of the stack is one of the best rows not yet returned.          *)
LEMMA TopOfStackIsBest ==
  ASSUME IInv, pc = "return", result_stack # <<>>
  PROVE  TopOfStack \in TK!Best(TK!Pending)
<1> USE DEF IInv
<1> DEFINE n == Len(result_stack)
<1>1. n \in Nat \ {0} /\ DOMAIN result_stack = 1..n /\ n \in DOMAIN result_stack
  BY DEF TypeOK
<1>2. TopOfStack = result_stack[n] /\ TopOfStack \in Range(result_stack)
  BY Zenon, <1>1 DEF TopOfStack, Range
<1>3. proc_pq = {} /\ Candidates \subseteq seenSet /\ seenSet \subseteq Row
  BY Zenon DEF ControlInv, KeepsBestSeen, TypeOK
<1>4. TopOfStack \in TK!Pending
  BY Zenon, <1>2, <1>3 DEF TK!Pending, TK!Range, Range, OrderInv, Candidates
<1>5. ASSUME NEW u \in TK!Pending PROVE Score[TopOfStack] <= Score[u]
  <2>1. CASE u \in Range(result_stack)
    <3>1. PICK i \in DOMAIN result_stack : u = result_stack[i]
      BY Zenon, <2>1 DEF Range
    <3>2. i = n \/ i < n
      BY <1>1
    <3>3. Score[u] \in Int
      BY Zenon, <1>3, <1>5, ScoreAssumption DEF TK!Pending
    <3>4. QED
      BY <1>1, <1>2, <3>1, <3>2, <3>3 DEF OrderInv
  <2>2. CASE u \notin Range(result_stack)
    <3>1. u \in seenSet \ Candidates
      BY Zenon, <1>3, <1>5, <2>2 DEF TK!Pending, TK!Range, Range, Candidates
    <3>2. TopOfStack \in Candidates
      BY Zenon, <1>2 DEF Candidates
    <3>3. QED
      BY Zenon, <3>1, <3>2 DEF KeepsBestSeen
  <2>3. QED
    BY Zenon, <2>1, <2>2
<1>6. QED
  BY Zenon, <1>4, <1>5 DEF TK!Best

LEMMA StepRefines ==
  ASSUME IInv, [Next]_vars
  PROVE  [TK!Next]_(TK!vars)
<1> USE DEF IInv
<1>1. CASE QuietStep
  <2>1. UNCHANGED <<args, seenSet, output>>
    BY Zenon, <1>1, QuietMovesNoRow
  <2>2. CASE ChildDry \/ EndRound
    <3>1. phase = "collect" /\ phase' \in {"collect", "return"}
      BY Zenon, <2>2 DEF ChildDry, EndRound, phase, ControlInv
    <3>2. QED
      BY Zenon, <2>1, <3>1 DEF TK!Next, TK!StopCollecting, TK!vars
  <2>3. CASE Finish
    <3>1. pc = "end" /\ phase' = "done" /\ phase # "done"
      BY Zenon, <2>3 DEF Finish, phase
    <3>2. Len(output) = args.k \/ (phase = "return" /\ TK!Pending = {})
      BY Zenon, <3>1, CompleteAtEnd DEF phase, TK!Pending, TK!Range, Range
    <3>3. QED
      BY Zenon, <2>1, <3>1, <3>2 DEF TK!Next, TK!Finish
  <2>4. CASE ~(ChildDry \/ EndRound \/ Finish)
    <3>1. phase' = phase
      <4>1. CASE FirstCall \/ Error \/ PerCall
        BY <4>1 DEF FirstCall, Error, PerCall, heapVars, phase
      <4>2. CASE Abandon
        BY Zenon, <4>2 DEF Abandon, heapVars, phase
      <4>3. CASE \E r \in Row : ChildSeen(r)
        BY <4>3 DEF ChildSeen, heapVars, phase
      <4>4. CASE \E c \in Children : EndChild(c)
        BY <4>4 DEF EndChild, heapVars, phase
      <4>5. CASE UNCHANGED vars
        BY Zenon, <4>5 DEF vars, heapVars, phase
      <4>6. QED
        BY ZenonT(60), <1>1, <2>4, <4>1, <4>2, <4>3, <4>4, <4>5 DEF QuietStep
    <3>2. QED
      BY Zenon, <2>1, <3>1 DEF TK!vars
  <2>5. QED
    BY Zenon, <2>2, <2>3, <2>4
<1>2. ASSUME NEW r \in Row, ChildKeep(r) \/ ChildDrop(r) PROVE TK!Next
  <2>1. /\ r \notin seenSet /\ seenSet' = seenSet \union {r}
        /\ pc = "round" /\ UNCHANGED <<args, pc, finish, output>>
    BY Zenon, <1>2 DEF ChildKeep, ChildDrop, Fetch, outVars
  <2>2. phase = "collect" /\ phase' = phase
    BY Zenon, <2>1 DEF phase, ControlInv
  <2>3. QED
    BY Zenon, <2>1, <2>2 DEF TK!Next, TK!Collect
<1>3. CASE Drain
  <2>1. UNCHANGED <<args, seenSet, output, finish>> /\ pc = "drain" /\ pc' \in {"drain", "return"}
    BY Zenon, <1>3 DEF Drain, scanVars
  <2>2. QED
    BY Zenon, <2>1 DEF TK!vars, phase
<1>4. CASE Return
  <2>1. CASE result_stack = <<>>
    BY Zenon, <1>4, <2>1 DEF Return, TK!vars, phase, scanVars, heapVars, outVars
  <2>2. CASE result_stack # <<>>
    <3>1. pc = "return" /\ finish /\ call_cntr = Len(output) /\ call_cntr < args.k
      BY Zenon, <1>4 DEF Return, ControlInv
    <3>2. /\ output' = Append(output, TopOfStack)
          /\ UNCHANGED <<args, seenSet, finish>> /\ pc' = "call"
      BY Zenon, <1>4, <2>2, ReturnStep DEF TopOfStack
    <3>3. TopOfStack \in TK!Best(TK!Pending)
      BY Zenon, <2>2, <3>1, TopOfStackIsBest
    <3>4. phase = "return" /\ phase' = "return"
      BY Zenon, <3>1, <3>2 DEF phase
    <3>5. QED
      BY Zenon, <3>1, <3>2, <3>3, <3>4 DEF TK!Next, TK!Return
  <2>3. QED
    BY Zenon, <2>1, <2>2
<1>5. QED
  BY Zenon, <1>1, <1>2, <1>3, <1>4, StepCases

(* For every table, scores, number of scans and call, execFagins and its   *)
(* driver implement the specification of a top-k operator.                 *)
THEOREM Refinement == Spec => ImplementsTopK
<1>1. IInv /\ [Next]_vars => [TK!Next]_(TK!vars)
  BY Zenon, StepRefines
<1>2. QED
  BY <1>1, InitRefines, Invariance, PTL DEF Spec, ImplementsTopK, TK!Spec
-----------------------------------------------------------------------------
(* The stop rule.  PerCall clears the counter of drops, so what the        *)
(* counter says is kept where it counts, inside a round: the last          *)
(* consecutive_drops arrivals are no candidates, and the first of them     *)
(* found a full heap.                                                      *)
Dropped(n) ==
  /\ n > 0 => Len(arrivals) >= ef + n
  /\ \A i \in (Len(arrivals) - n + 1)..Len(arrivals) : arrivals[i] \notin Candidates

StopInv ==
  /\ Len(arrivals) = Cardinality(seenSet)
  /\ pc \notin {"first", "error"} => term_cond > 0
  /\ finish => term_cond > 0
  /\ pc = "round" => Dropped(consecutive_drops)
  /\ finish /\ dry = {} => Dropped(term_cond)

(* Every row a scan returned has been seen.                                *)
FetchedInv == \A c \in Children : fetched[c] \subseteq seenSet

LEMMA StopInit == Init => StopInv /\ FetchedInv
<1> SUFFICES ASSUME Init PROVE StopInv /\ FetchedInv
  BY Zenon
<1>1. Len(arrivals) = 0 /\ Cardinality(seenSet) = 0
  BY Zenon, FS_EmptySet DEF Init
<1>2. QED
  BY Zenon, <1>1 DEF Init, StopInv, FetchedInv

(* A new row that is dropped joins the run of drops.                       *)
LEMMA DropExtendsRun ==
  ASSUME IInv, StopInv, NEW r \in Row, ChildDrop(r)
  PROVE  StopInv'
<1>1. /\ pc = "round" /\ pc' = "round" /\ ef' = ef /\ ef \in Nat /\ term_cond' = term_cond
      /\ r \notin seenSet /\ seenSet' = seenSet \union {r}
      /\ arrivals' = Append(arrivals, r) /\ arrivals \in Seq(Row)
      /\ proc_pq' = proc_pq /\ result_stack' = result_stack /\ output' = output
      /\ consecutive_drops' = consecutive_drops + 1 /\ consecutive_drops \in Nat
      /\ ~Accepts(r)
  BY Zenon DEF ChildDrop, Fetch, DropsAfter, outVars, IInv, TypeOK
<1>2. ~finish /\ ~finish'
  BY ZenonT(30), <1>1 DEF ChildDrop, IInv, ControlInv
<1>3. /\ Candidates = proc_pq /\ Candidates' = Candidates
      /\ Cardinality(proc_pq) \in Nat /\ Cardinality(seenSet) \in Nat
      /\ IsFiniteSet(seenSet) /\ proc_pq \subseteq seenSet
  BY Zenon, <1>1, CandidatesInRound DEF IInv, ControlInv, KeepsBestSeen, Candidates
<1>4. Cardinality(seenSet') = Cardinality(seenSet) + 1
  BY Zenon, <1>1, <1>3, FS_AddElement
<1>5. Cardinality(seenSet) >= ef
  <2>1. Cardinality(proc_pq) >= ef
    BY <1>1, <1>3 DEF Accepts
  <2>2. Cardinality(proc_pq) = (IF Cardinality(seenSet) < ef THEN Cardinality(seenSet) ELSE ef)
    BY Zenon, <1>1, <1>3 DEF IInv, KeepsBestSeen
  <2>3. QED
    BY <1>1, <1>3, <2>1, <2>2
<1>6. /\ Len(arrivals) = Cardinality(seenSet) /\ term_cond > 0
      /\ Dropped(consecutive_drops)
  BY Zenon, <1>1 DEF StopInv
<1>7. Len(arrivals') = Len(arrivals) + 1 /\ Len(arrivals) \in Nat
  BY <1>1
<1>8. Len(arrivals') >= ef' + consecutive_drops'
  BY <1>1, <1>5, <1>6, <1>7 DEF Dropped
<1>9. ASSUME NEW i \in (Len(arrivals') - consecutive_drops' + 1)..Len(arrivals')
      PROVE  arrivals'[i] \notin Candidates'
  <2>1. CASE i = Len(arrivals) + 1
    BY SMTT(60), <1>1, <1>3, <2>1
  <2>2. CASE i # Len(arrivals) + 1
    <3>1. i \in (Len(arrivals) - consecutive_drops + 1)..Len(arrivals) /\ i >= 1
      BY SMTT(60), <1>1, <1>7, <1>8, <1>9, <2>2
    <3>2. arrivals'[i] = arrivals[i]
      BY <1>1, <1>7, <3>1
    <3>3. QED
      BY Zenon, <1>3, <1>6, <3>1, <3>2 DEF Dropped
  <2>3. QED
    BY Zenon, <2>1, <2>2
<1>10. Dropped(consecutive_drops)'
  BY Zenon, <1>8, <1>9 DEF Dropped
<1>11. QED
  BY ZenonT(60), <1>1, <1>2, <1>4, <1>6, <1>7, <1>10 DEF StopInv

(* A new row that is kept starts a new run.                                *)
LEMMA KeepStartsRun ==
  ASSUME IInv, StopInv, NEW r \in Row, ChildKeep(r)
  PROVE  StopInv'
<1>1. /\ pc = "round" /\ pc' = "round" /\ term_cond' = term_cond
      /\ r \notin seenSet /\ seenSet' = seenSet \union {r}
      /\ arrivals' = Append(arrivals, r) /\ arrivals \in Seq(Row)
      /\ consecutive_drops' = 0
  BY Zenon DEF ChildKeep, Fetch, DropsAfter, IInv, TypeOK
<1>2. ~finish /\ ~finish'
  BY ZenonT(30), <1>1 DEF ChildKeep, IInv, ControlInv
<1>3. Cardinality(seenSet') = Cardinality(seenSet) + 1
  BY Zenon, <1>1, FS_AddElement DEF IInv, ControlInv
<1>4. Len(arrivals) = Cardinality(seenSet) /\ term_cond > 0
  BY Zenon, <1>1 DEF StopInv
<1>5. Len(arrivals') = Len(arrivals) + 1 /\ Len(arrivals') \in Nat
  BY <1>1
<1>6. Dropped(consecutive_drops)'
  BY <1>1, <1>5 DEF Dropped
<1>7. QED
  BY ZenonT(60), <1>1, <1>2, <1>3, <1>4, <1>5, <1>6 DEF StopInv

(* Fewer drops are also a run of drops.                                    *)
LEMMA ShorterRun ==
  ASSUME TypeOK, Dropped(consecutive_drops), consecutive_drops >= term_cond, term_cond > 0
  PROVE  Dropped(term_cond)
<1>1. consecutive_drops \in Nat /\ term_cond \in Nat /\ ef \in Nat /\ Len(arrivals) \in Nat
  BY DEF TypeOK
<1>2. \A i \in (Len(arrivals) - term_cond + 1)..Len(arrivals) :
        i \in (Len(arrivals) - consecutive_drops + 1)..Len(arrivals)
  BY <1>1
<1>3. QED
  BY <1>1, <1>2 DEF Dropped

(* A step that moves no candidate and sees no row keeps the run.           *)
LEMMA RunKept ==
  ASSUME StopInv, UNCHANGED <<arrivals, seenSet, ef, term_cond, dry, consecutive_drops>>,
         Candidates' = Candidates, finish' <=> finish,
         pc' = "round" => pc = "round",
         pc' \notin {"first", "error"} => pc \notin {"first", "error"}
  PROVE  StopInv'
<1>1. Dropped(consecutive_drops)' <=> Dropped(consecutive_drops)
  BY Zenon DEF Dropped
<1>2. Dropped(term_cond)' <=> Dropped(term_cond)
  BY Zenon DEF Dropped
<1>3. QED
  BY Zenon, <1>1, <1>2 DEF StopInv

LEMMA QuietKeepsRun ==
  ASSUME IInv, StopInv, QuietStep
  PROVE  StopInv'
<1>1. Candidates' = Candidates /\ seenSet' = seenSet
  BY Zenon, QuietMovesNoRow DEF Candidates
<1>2. arrivals' = arrivals /\ Len(arrivals) \in Nat
  <2>1. arrivals' = arrivals
    BY ZenonT(60) DEF QuietStep, FirstCall, Error, PerCall, Abandon, ChildDry, ChildSeen, Fetch,
       EndRound, EndChild, Finish, vars, scanVars
  <2>2. arrivals \in Seq(Row)
    BY Zenon DEF IInv, TypeOK
  <2>3. QED
    BY <2>1, <2>2
<1>3. CASE FirstCall
  <2>1. pc' = "call" /\ pc = "first" /\ term_cond' > 0
    <3>1. args.term \in Nat
      BY Zenon, CallsAssumption DEF IInv, TypeOK
    <3>2. QED
      BY <1>3, <3>1, DefaultsAssumption DEF FirstCall, OrDefault
  <2>2. ~finish /\ ~finish'
    BY Zenon, <1>3, <2>1 DEF FirstCall, heapVars, IInv, ControlInv
  <2>3. QED
    BY Zenon, <1>1, <1>2, <2>1, <2>2 DEF StopInv
<1>4. CASE Error
  <2>1. pc' = "error" /\ pc \in {"first", "round"}
    BY Zenon, <1>4 DEF Error
  <2>2. ~finish /\ ~finish'
    BY Zenon, <1>4, <2>1 DEF Error, heapVars, IInv, ControlInv
  <2>3. QED
    BY Zenon, <1>1, <1>2, <2>1, <2>2 DEF StopInv
<1>5. CASE PerCall
  <2>1. /\ UNCHANGED <<ef, term_cond, dry>> /\ pc = "call" /\ consecutive_drops' = 0
        /\ pc' # "error"
    BY Zenon, <1>5 DEF PerCall, scanVars
  <2>2. finish' <=> finish
    BY Zenon, <1>5 DEF PerCall
  <2>3. Dropped(consecutive_drops)'
    BY <1>2, <2>1 DEF Dropped
  <2>4. Dropped(term_cond)' <=> Dropped(term_cond)
    BY Zenon, <1>1, <1>2, <2>1 DEF Dropped
  <2>5. QED
    BY ZenonT(60), <1>1, <1>2, <2>1, <2>2, <2>3, <2>4 DEF StopInv
<1>6. CASE ChildDry
  <2>1. term_cond' = term_cond /\ pc = "round" /\ pc' = "drain" /\ dry' # {}
    BY Zenon, <1>6 DEF ChildDry
  <2>2. QED
    BY Zenon, <1>1, <1>2, <2>1 DEF StopInv
<1>7. CASE EndRound
  <2>1. /\ UNCHANGED <<ef, term_cond, dry, consecutive_drops>>
        /\ pc = "round" /\ pc' \in {"drain", "round"}
    BY Zenon, <1>7 DEF EndRound, scanVars
  <2>2. finish' => consecutive_drops >= term_cond
    BY ZenonT(60), <1>7 DEF EndRound
  <2>3. term_cond > 0 /\ Dropped(consecutive_drops)
    BY Zenon, <2>1 DEF StopInv
  <2>4. Dropped(consecutive_drops)' /\ (Dropped(term_cond)' <=> Dropped(term_cond))
    BY Zenon, <1>1, <1>2, <2>1, <2>3 DEF Dropped
  <2>5. finish' => Dropped(term_cond)
    BY Zenon, <2>2, <2>3, ShorterRun DEF IInv
  <2>6. QED
    BY Zenon, <1>1, <1>2, <2>1, <2>3, <2>4, <2>5 DEF StopInv
<1>8. CASE Abandon \/ (\E r \in Row : ChildSeen(r)) \/ (\E c \in Children : EndChild(c))
           \/ Finish \/ UNCHANGED vars
  <2>1. UNCHANGED <<ef, term_cond, dry, consecutive_drops>>
    BY Zenon, <1>8 DEF Abandon, ChildSeen, EndChild, Finish, vars, scanVars, heapVars
  <2>2. finish' = finish
    BY ZenonT(60), <1>8 DEF Abandon, ChildSeen, EndChild, Finish, vars, heapVars
  <2>3. /\ pc' = "round" => pc = "round"
        /\ pc' \notin {"first", "error"} => pc \notin {"first", "error"}
    BY Zenon, <1>8 DEF Abandon, ChildSeen, Fetch, EndChild, Finish, vars
  <2>4. finish' <=> finish
    BY Zenon, <2>2
  <2>5. QED
    BY Zenon, <1>1, <1>2, <2>1, <2>3, <2>4, RunKept
<1>9. QED
  BY Zenon, <1>3, <1>4, <1>5, <1>6, <1>7, <1>8 DEF QuietStep

LEMMA StopStep ==
  ASSUME IInv, StopInv, [Next]_vars
  PROVE  StopInv'
<1>1. CASE Drain \/ Return
  <2>1. UNCHANGED <<arrivals, seenSet, ef, term_cond, dry, consecutive_drops>>
    BY Zenon, <1>1 DEF Drain, Return, scanVars, heapVars
  <2>2. finish' = finish
    BY Zenon, <1>1 DEF Drain, Return, heapVars
  <2>3. finish' <=> finish
    BY Zenon, <2>2
  <2>4. pc \in {"drain", "return"} /\ pc' # "round"
    BY Zenon, <1>1 DEF Drain, Return
  <2>5. QED
    BY Zenon, <1>1, <2>1, <2>3, <2>4, CandidatesKept, RunKept
<1>2. QED
  BY Zenon, <1>1, DropExtendsRun, KeepStartsRun, QuietKeepsRun, StepCases

(* A scan's rows are added to seenSet in the turn that returns them.       *)
LEMMA FetchedStep ==
  ASSUME TypeOK, FetchedInv, [Next]_vars
  PROVE  FetchedInv'
<1>1. ASSUME NEW r \in Row, Child(r) PROVE FetchedInv'
  <2>1. /\ fetched' = [fetched EXCEPT ![orderby_id] = @ \union {r}]
        /\ seenSet \subseteq seenSet' /\ r \in seenSet'
    BY Zenon, <1>1 DEF Child, ChildSeen, ChildKeep, ChildDrop, Fetch
  <2>2. QED
    BY Zenon, <2>1 DEF FetchedInv, TypeOK
<1>2. CASE ~\E r \in Row : Child(r)
  <2>1. UNCHANGED <<fetched, seenSet>>
    BY Zenon, <1>2 DEF Next, FirstCall, Error, PerCall, Abandon, ChildDry, EndRound, Drain, Return,
                EndChild, Finish, vars, scanVars
  <2>2. QED
    BY Zenon, <2>1 DEF FetchedInv
<1>3. QED
  BY Zenon, <1>1, <1>2

(* Unless a scan ran dry, the function stops only after ef rows filled the *)
(* heap and term_cond distinct rows in a row failed to enter it.           *)
THEOREM StopRule == Spec => []StopsOnlyWhenStable
<1>1. IInv /\ StopInv /\ [Next]_vars => StopInv'
  BY Zenon, StopStep
<1>2. StopInv => StopsOnlyWhenStable
  BY Zenon DEF StopInv, Dropped, StopsOnlyWhenStable
<1>3. QED
  BY <1>1, <1>2, StopInit, Invariance, PTL DEF Spec

(* A scan that ran dry after the whole table makes the answer exact.       *)
THEOREM ExhaustedExact == Spec => []ExactWhenExhausted
<1>1. IInv /\ FetchedInv /\ [Next]_vars => FetchedInv'
  BY Zenon, FetchedStep DEF IInv
<1>2. IInv /\ FetchedInv => ExactWhenExhausted
  <2> SUFFICES ASSUME IInv, FetchedInv, pc = "done", NEW c \in dry, fetched[c] = Row,
                      NEW r \in Range(output), NEW s \in Row \ Range(output)
               PROVE  Score[r] <= Score[s]
    BY Zenon DEF ExactWhenExhausted
  <2>1. seenSet = Row
    BY ZenonT(60) DEF IInv, TypeOK, FetchedInv
  <2>2. proc_pq = {} /\ r \in Candidates
    BY Zenon, RangeOfEmpty DEF IInv, ControlInv, Candidates
  <2>3. CASE s \in Candidates
    <3>1. s \in Range(result_stack)
      BY Zenon, <2>2, <2>3 DEF Candidates
    <3>2. QED
      BY Zenon, <3>1 DEF IInv, OrderInv, Range
  <2>4. CASE s \notin Candidates
    BY Zenon, <2>1, <2>2, <2>4 DEF IInv, KeepsBestSeen
  <2>5. QED
    BY Zenon, <2>3, <2>4
<1>3. QED
  BY <1>1, <1>2, StopInit, Invariance, PTL DEF Spec
-----------------------------------------------------------------------------
(* The turns of the scans.  In a round the scans before orderby_id have    *)
(* returned one row more than the others; no scan has returned any before  *)
(* the first round; and a scan that ran dry has finished the function.     *)
Turn(m) ==
  \A c \in Children : Cardinality(fetched[c]) = IF c < orderby_id THEN m + 1 ELSE m

TurnInv ==
  /\ \A c \in Children : IsFiniteSet(fetched[c])
  /\ RoundRobin
  /\ pc = "round" => \E m \in Nat : Turn(m)
  /\ pc = "first" \/ (pc = "call" /\ ~finish) => \A c \in Children : fetched[c] = {}
  /\ dry # {} => finish

(* Every row seen came from a scan; a leaked context is that of a scan     *)
(* that returned a row another had returned before.                        *)
LeakInv ==
  /\ \A r \in seenSet : \E c \in Children : r \in fetched[c]
  /\ savedcxt \in {CALLER, MULTI}
  /\ ContextLeaksOnOverlap

(* No scan returns a row or its end outside a round.                       *)
LEMMA ScansOnlyInRound ==
  ASSUME [Next]_vars, ~\E r \in Row : Child(r)
  PROVE  UNCHANGED <<fetched, seenSet>> /\ (ChildDry \/ dry' = dry)
BY Zenon DEF Next, FirstCall, Error, PerCall, Abandon, ChildDry, EndRound, Drain, Return,
             EndChild, Finish, vars, scanVars

LEMMA ChildFetches ==
  ASSUME TypeOK, NEW r \in Row, Child(r)
  PROVE  /\ pc = "round" /\ orderby_id \in Children /\ r \notin fetched[orderby_id]
         /\ fetched'[orderby_id] = fetched[orderby_id] \union {r}
         /\ \A c \in Children : c # orderby_id => fetched'[c] = fetched[c]
         /\ orderby_id' = orderby_id + 1
         /\ UNCHANGED <<pc, finish, dry, savedcxt>>
BY Zenon DEF Child, ChildSeen, ChildKeep, ChildDrop, Fetch, TypeOK, heapVars, endVars

(* Where scans differ by their place in the round they are in step.        *)
LEMMA TurnsInStep ==
  ASSUME NEW m \in Nat, NEW o \in Int, NEW n,
         \A c \in Children : n[c] = IF c < o THEN m + 1 ELSE m
  PROVE  \A a, b \in Children : a < b => n[a] - n[b] \in {0, 1}
<1> SUFFICES ASSUME NEW a \in Children, NEW b \in Children, a < b PROVE n[a] - n[b] \in {0, 1}
  OBVIOUS
<1>1. a \in Int /\ b \in Int
  BY ChildrenAssumption DEF Children
<1>2. (n[a] = m + 1 /\ n[b] = m + 1) \/ (n[a] = m + 1 /\ n[b] = m) \/ (n[a] = m /\ n[b] = m)
  BY <1>1
<1> QED
  BY <1>2

(* A turn adds one row to one scan, which then is one of those before      *)
(* orderby_id.                                                             *)
LEMMA TurnChild ==
  ASSUME TypeOK, TurnInv, NEW r \in Row, Child(r)
  PROVE  TurnInv'
<1> DEFINE o == orderby_id
           n == [c \in Children |-> Cardinality(fetched'[c])]
<1>1. /\ pc = "round" /\ o \in Children /\ r \notin fetched[o]
      /\ fetched'[o] = fetched[o] \union {r}
      /\ \A c \in Children : c # o => fetched'[c] = fetched[c]
      /\ orderby_id' = o + 1
      /\ UNCHANGED <<pc, finish, dry, savedcxt>>
  BY Zenon, ChildFetches
<1>2. PICK m \in Nat : Turn(m)
  BY Zenon, <1>1 DEF TurnInv
<1>3. \A c \in Children : IsFiniteSet(fetched[c])
  BY Zenon DEF TurnInv
<1>4. IsFiniteSet(fetched'[o]) /\ Cardinality(fetched'[o]) = Cardinality(fetched[o]) + 1
  BY ZenonT(60), <1>1, <1>3, FS_AddElement
<1>5. \A c \in Children : IsFiniteSet(fetched'[c])
  BY Zenon, <1>1, <1>3, <1>4
<1>6. \A c \in Children : Cardinality(fetched'[c]) = IF c < o + 1 THEN m + 1 ELSE m
  <2> SUFFICES ASSUME NEW c \in Children
               PROVE  Cardinality(fetched'[c]) = IF c < o + 1 THEN m + 1 ELSE m
    BY Zenon
  <2>1. c \in Int /\ o \in Int
    BY <1>1, ChildrenAssumption DEF Children
  <2>2. Cardinality(fetched[c]) = IF c < o THEN m + 1 ELSE m
    BY Zenon, <1>2 DEF Turn
  <2>3. CASE c = o
    <3>1. ~(c < o) /\ c < o + 1
      BY <2>1, <2>3
    <3> QED
      BY <1>4, <2>2, <2>3, <3>1
  <2>4. CASE c # o
    <3>1. c < o <=> c < o + 1
      BY <2>1, <2>4
    <3>2. Cardinality(fetched'[c]) = Cardinality(fetched[c])
      BY Zenon, <1>1, <2>4
    <3> QED
      BY Zenon, <2>2, <3>1, <3>2
  <2> QED
    BY Zenon, <2>3, <2>4
<1>7. RoundRobin'
  <2>1. o + 1 \in Int
    BY <1>1, ChildrenAssumption DEF Children
  <2>2. \A c \in Children : n[c] = IF c < o + 1 THEN m + 1 ELSE m
    BY Zenon, <1>6
  <2> HIDE DEF n, o
  <2>3. \A a, b \in Children : a < b => n[a] - n[b] \in {0, 1}
    BY <2>1, <2>2, TurnsInStep
  <2> QED
    BY Zenon, <2>3 DEF RoundRobin, n
<1>8. Turn(m)'
  BY Zenon, <1>1, <1>6 DEF Turn
<1>9. dry' # {} => finish'
  BY Zenon, <1>1 DEF TurnInv
<1> QED
  BY Zenon, <1>1, <1>5, <1>7, <1>8, <1>9 DEF TurnInv

LEMMA TurnStep ==
  ASSUME IInv, TurnInv, [Next]_vars
  PROVE  TurnInv'
<1>0. TypeOK /\ ControlInv
  BY Zenon DEF IInv
<1>1. CASE \E r \in Row : Child(r)
  BY Zenon, <1>0, <1>1, TurnChild
<1>2. CASE ~\E r \in Row : Child(r)
  <2>1. fetched' = fetched /\ (ChildDry \/ dry' = dry)
    BY Zenon, <1>2, ScansOnlyInRound
  <2>2. (\A c \in Children : IsFiniteSet(fetched'[c])) /\ RoundRobin'
    BY Zenon, <2>1 DEF TurnInv, RoundRobin
  <2>3. dry' # {} => finish'
    <3>1. CASE ChildDry
      BY Zenon, <3>1 DEF ChildDry
    <3>2. CASE dry' = dry /\ finish
      <4>1. pc # "round"
        BY Zenon, <1>0, <3>2 DEF ControlInv
      <4>2. finish'
        BY ZenonT(60), <1>2, <3>2, <4>1 DEF Next, FirstCall, Error, PerCall, Abandon, ChildDry, EndRound,
                     Drain, Return, EndChild, Finish, vars, heapVars
      <4> QED
        BY Zenon, <4>2
    <3>3. CASE dry' = dry /\ ~finish
      BY Zenon, <3>3 DEF TurnInv
    <3> QED
      BY Zenon, <2>1, <3>1, <3>2, <3>3
  <2>4. pc' = "round" => \E m \in Nat : Turn(m)'
    <3> SUFFICES ASSUME pc' = "round" PROVE \E m \in Nat : Turn(m)'
      BY Zenon
    <3>1. PerCall \/ EndRound \/ UNCHANGED vars
      BY Zenon, <1>2 DEF Next, FirstCall, Error, Abandon, ChildDry, Drain, Return, EndChild, Finish
    <3>2. CASE PerCall
      <4>1. orderby_id' = 1 /\ pc = "call" /\ ~finish
        BY Zenon, <3>2 DEF PerCall
      <4>2. \A c \in Children : fetched'[c] = {} /\ ~(c < 1)
        <5>1. \A c \in Children : ~(c < 1)
          BY ChildrenAssumption DEF Children
        <5> QED
          BY Zenon, <2>1, <4>1, <5>1 DEF TurnInv
      <4>3. Turn(0)'
        BY Zenon, <4>1, <4>2, FS_EmptySet DEF Turn
      <4>4. 0 \in Nat
        OBVIOUS
      <4> QED
        BY Zenon, <4>3, <4>4
    <3>3. CASE EndRound
      <4>1. orderby_id' = 1 /\ pc = "round" /\ orderby_id = NumChildren + 1
        BY Zenon, <3>3 DEF EndRound
      <4>2. PICK m \in Nat : Turn(m)
        BY Zenon, <4>1 DEF TurnInv
      <4>3. \A c \in Children : c < NumChildren + 1 /\ ~(c < 1)
        BY ChildrenAssumption DEF Children
      <4>4. Turn(m + 1)'
        BY Zenon, <2>1, <4>1, <4>2, <4>3 DEF Turn
      <4>5. m + 1 \in Nat
        OBVIOUS
      <4> QED
        BY Zenon, <4>4, <4>5
    <3>4. CASE UNCHANGED vars
      <4>1. orderby_id' = orderby_id /\ pc = "round"
        BY Zenon, <3>4 DEF vars
      <4> QED
        BY Zenon, <2>1, <4>1 DEF TurnInv, Turn
    <3> QED
      BY Zenon, <3>1, <3>2, <3>3, <3>4
  <2>5. pc' = "first" \/ (pc' = "call" /\ ~finish') => \A c \in Children : fetched'[c] = {}
    <3> SUFFICES ASSUME pc' = "first" \/ (pc' = "call" /\ ~finish')
                 PROVE  pc = "first" \/ (pc = "call" /\ ~finish)
      BY Zenon, <2>1 DEF TurnInv
    <3>1. ~Return
      <4>1. Return => finish'
        <5>1. Return => pc = "return" /\ finish' = finish
          BY Zenon DEF Return, heapVars
        <5>2. pc = "return" => finish
          BY Zenon, <1>0 DEF ControlInv
        <5> QED
          BY <5>1, <5>2
      <4>2. Return => pc' # "first"
        BY Zenon DEF Return
      <4> QED
        BY Zenon, <4>1, <4>2
    <3>2. FirstCall \/ UNCHANGED vars
      BY Zenon, <1>2, <3>1 DEF Next, Error, PerCall, Abandon, ChildDry, EndRound, Drain, EndChild, Finish
    <3>3. CASE FirstCall
      BY Zenon, <3>3 DEF FirstCall
    <3>4. CASE UNCHANGED vars
      BY Zenon, <3>4 DEF vars, heapVars
    <3> QED
      BY Zenon, <3>2, <3>3, <3>4
  <2> QED
    BY Zenon, <2>2, <2>3, <2>4, <2>5 DEF TurnInv
<1> QED
  BY Zenon, <1>1, <1>2

LEMMA TurnInit == Init => TurnInv
<1> SUFFICES ASSUME Init PROVE TurnInv
  BY Zenon
<1>1. \A c \in Children : fetched[c] = {}
  BY Zenon DEF Init
<1>2. 0 - 0 \in {0, 1}
  OBVIOUS
<1>3. RoundRobin
  BY Zenon, <1>1, <1>2, FS_EmptySet DEF RoundRobin
<1> QED
  BY Zenon, <1>1, <1>3, FS_EmptySet DEF Init, TurnInv

(* The invariant of the turns holds in every reachable state.              *)
THEOREM TurnInvariance == Spec => [](IInv /\ TurnInv)
<1>1. IInv /\ TurnInv /\ [Next]_vars => TurnInv'
  BY Zenon, TurnStep
<1>2. QED
  BY <1>1, TurnInit, Invariance, PTL DEF Spec

(* The scans of topk advance in step, for any number of them.              *)
THEOREM ScansInStep == Spec => []RoundRobin
<1>1. TurnInv => RoundRobin
  BY Zenon DEF TurnInv
<1>2. QED
  BY <1>1, TurnInvariance, PTL

(* No scan is asked for a row once one of them has reported its end.       *)
THEOREM EndIsFinal == Spec => NoCallAfterEnd
<1>1. IInv /\ TurnInv /\ [Next]_vars => [dry # {} => UNCHANGED <<fetched, dry>>]_vars
  <2> SUFFICES ASSUME IInv, TurnInv, [Next]_vars, dry # {} PROVE UNCHANGED <<fetched, dry>>
    BY Zenon
  <2>1. pc # "round"
    BY Zenon DEF IInv, ControlInv, TurnInv
  <2>2. ~ChildDry /\ ~\E r \in Row : Child(r)
    BY Zenon, <2>1, ChildFetches DEF ChildDry, IInv
  <2> QED
    BY Zenon, <2>2, ScansOnlyInRound
<1>2. QED
  BY <1>1, TurnInvariance, PTL DEF Spec, NoCallAfterEnd

(* A seen row was returned by a scan other than the one whose turn it is,  *)
(* as that one had not returned it.                                        *)
LEMMA LeakStep ==
  ASSUME TypeOK, LeakInv, [Next]_vars
  PROVE  LeakInv'
<1> DEFINE Overlap(c) == \E b \in Children \ {c} : fetched[c] \intersect fetched[b] # {}
<1>0. /\ \A r \in seenSet : \E c \in Children : r \in fetched[c]
      /\ ctx \in Children => Overlap(ctx)
      /\ CALLER \notin Children /\ MULTI \notin Children
  <2>1. CALLER \notin Children /\ MULTI \notin Children
    BY ChildrenAssumption DEF CALLER, MULTI, Children
  <2> QED
    BY Zenon, <2>1 DEF LeakInv, ContextLeaksOnOverlap
<1>1. ASSUME NEW r \in Row, Child(r) PROVE LeakInv'
  <2>1. /\ orderby_id \in Children /\ r \notin fetched[orderby_id]
        /\ fetched'[orderby_id] = fetched[orderby_id] \union {r}
        /\ \A c \in Children : c # orderby_id => fetched'[c] = fetched[c]
        /\ savedcxt' = savedcxt
    BY Zenon, <1>1, ChildFetches
  <2>2. \A c \in Children : fetched[c] \subseteq fetched'[c]
    BY Zenon, <2>1
  <2>3. \A s \in seenSet' : \E c \in Children : s \in fetched'[c]
    <3>1. seenSet' \subseteq seenSet \union {r}
      BY Zenon, <1>1 DEF Child, ChildSeen, ChildKeep, ChildDrop
    <3>2. r \in fetched'[orderby_id]
      BY Zenon, <2>1
    <3> QED
      BY Zenon, <1>0, <2>1, <2>2, <3>1, <3>2
  <2>4. \A c \in Children : Overlap(c) => Overlap(c)'
    <3> SUFFICES ASSUME NEW c \in Children, NEW b \in Children \ {c}, NEW s,
                        s \in fetched[c], s \in fetched[b]
                 PROVE  s \in fetched'[c] /\ s \in fetched'[b]
      BY Zenon
    <3> QED
      BY Zenon, <2>2
  <2>5. CASE ctx' = ctx
    BY Zenon, <1>0, <2>1, <2>3, <2>4, <2>5 DEF LeakInv, ContextLeaksOnOverlap
  <2>6. CASE ctx' = orderby_id /\ r \in seenSet
    <3>1. PICK c \in Children : r \in fetched[c]
      BY Zenon, <1>0, <2>6
    <3>2. c # orderby_id /\ r \in fetched'[c] /\ r \in fetched'[orderby_id]
      BY Zenon, <2>1, <2>2, <3>1
    <3>3. \E b \in Children \ {ctx'} : fetched'[ctx'] \intersect fetched'[b] # {}
      BY Zenon, <2>6, <3>1, <3>2
    <3> QED
      BY Zenon, <2>1, <2>3, <2>6, <3>3 DEF LeakInv, ContextLeaksOnOverlap
  <2> QED
    BY Zenon, <1>1, <2>5, <2>6 DEF Child, ChildSeen, ChildKeep, ChildDrop
<1>2. CASE ~\E r \in Row : Child(r)
  <2>1. fetched' = fetched /\ seenSet' = seenSet
    BY Zenon, <1>2, ScansOnlyInRound
  <2>2. savedcxt' \in {CALLER, MULTI}
    BY Zenon, <1>2 DEF Next, FirstCall, Error, PerCall, Abandon, ChildDry, EndRound, Drain, Return,
                       EndChild, Finish, vars, endVars, LeakInv
  <2>3. ctx' = ctx \/ ctx' \in {CALLER, MULTI}
    BY Zenon, <1>2 DEF Next, FirstCall, Error, PerCall, Abandon, ChildDry, EndRound, Drain, Return,
                       EndChild, Finish, vars, LeakInv
  <2> QED
    BY Zenon, <1>0, <2>1, <2>2, <2>3 DEF LeakInv, ContextLeaksOnOverlap
<1> QED
  BY Zenon, <1>1, <1>2

(* A query's context stays current only after a row two scans returned.    *)
THEOREM LeakNeedsOverlap == Spec => []ContextLeaksOnOverlap
<1>1. Init => LeakInv
  <2>1. CALLER \notin Children
    BY ChildrenAssumption DEF CALLER, Children
  <2> QED
    BY Zenon, <2>1 DEF Init, LeakInv, ContextLeaksOnOverlap
<1>2. TypeOK /\ LeakInv /\ [Next]_vars => LeakInv'
  BY Zenon, LeakStep
<1>3. LeakInv => ContextLeaksOnOverlap
  BY Zenon DEF LeakInv
<1>4. QED
  BY <1>1, <1>2, <1>3, TypeCorrect, PTL DEF Spec
=============================================================================

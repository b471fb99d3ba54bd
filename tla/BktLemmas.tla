------------------------------ MODULE BktLemmas ------------------------------
(***************************************************************************)
(* Lemmas on the operators BoundedHeap and BktIterator are built from, for *)
(* any entries, any length and any index.                                  *)
(*                                                                         *)
(* First what they rest on.  Sequences as sets of their elements: what the *)
(* sequence operations do to Range and to the absence of duplicates.       *)
(* Loops: induction along the iterations of a loop, and that a function    *)
(* defined by recursion along them exists.                                 *)
(*                                                                         *)
(* Then the heap: it stays ordered and within its length, insert adds the  *)
(* value or (when full) gives up an entry, pop removes the top and nothing *)
(* else, and the top is a least entry.  Each loop of Heap.h has its        *)
(* invariant.                                                              *)
(*                                                                         *)
(* Then the index and what a step of a search computes from it, and what   *)
(* the search of an index with one tree keeps, in terms of the sets of     *)
(* nodes checked, queued and taken.                                        *)
(***************************************************************************)
EXTENDS BktIterator, WellFoundedInduction, TLAPS

LEMMA AppendInSeq ==
  ASSUME NEW S, NEW s \in Seq(S), NEW e \in S
  PROVE  Append(s, e) \in Seq(S)
OBVIOUS

(* Appending an element adds it to the range: Append models push_back.     *)
LEMMA RangeOfAppend ==
  ASSUME NEW S, NEW s \in Seq(S), NEW e \in S
  PROVE  Range(Append(s, e)) = Range(s) \union {e}
<1> DEFINE t == Append(s, e)
<1>1. Len(s) \in Nat /\ DOMAIN s = 1..Len(s) /\ DOMAIN t = 1..(Len(s) + 1)
  OBVIOUS
<1>2. t[Len(s) + 1] = e /\ \A i \in 1..Len(s) : t[i] = s[i]
  OBVIOUS
<1> HIDE DEF t
<1>3. Range(t) \subseteq Range(s) \union {e}
  <2> SUFFICES ASSUME NEW i \in DOMAIN t PROVE t[i] \in Range(s) \union {e}
    BY DEF Range
  <2>1. i = Len(s) + 1 \/ i \in DOMAIN s
    BY <1>1
  <2>2. QED
    BY <1>1, <1>2, <2>1 DEF Range
<1>4. e \in Range(t)
  <2>1. Len(s) + 1 \in DOMAIN t
    BY <1>1
  <2>2. QED
    BY <1>2, <2>1 DEF Range
<1>5. Range(s) \subseteq Range(t)
  <2> SUFFICES ASSUME NEW i \in DOMAIN s PROVE s[i] \in Range(t)
    BY DEF Range
  <2>1. i \in DOMAIN t
    BY <1>1
  <2>2. QED
    BY <1>1, <1>2, <2>1 DEF Range
<1>6. QED
  BY <1>3, <1>4, <1>5 DEF t

(* Appending an element that is not there keeps the elements distinct.     *)
LEMMA AppendFresh ==
  ASSUME NEW S, NEW s \in Seq(S), NEW e \in S, IsInjective(s), e \notin Range(s)
  PROVE  IsInjective(Append(s, e))
<1> DEFINE t == Append(s, e)
<1>1. /\ Len(s) \in Nat /\ DOMAIN s = 1..Len(s) /\ DOMAIN t = 1..(Len(s) + 1)
      /\ t[Len(s) + 1] = e /\ \A k \in 1..Len(s) : t[k] = s[k]
  OBVIOUS
<1> HIDE DEF t
<1>2. \A k \in 1..Len(s) : s[k] # e
  BY <1>1 DEF Range
<1>3. \A a \in DOMAIN t, b \in DOMAIN t : t[a] = t[b] => a = b
  BY <1>1, <1>2 DEF IsInjective
<1>4. IsInjective(t)
  BY Zenon, <1>3 DEF IsInjective
<1>5. QED
  BY <1>4 DEF t

(* One sequence after another.                                             *)
LEMMA RangeOfConcat ==
  ASSUME NEW S, NEW s \in Seq(S), NEW t \in Seq(S)
  PROVE  /\ s \o t \in Seq(S) /\ Len(s \o t) = Len(s) + Len(t)
         /\ Range(s \o t) = Range(s) \union Range(t)
         /\ IsInjective(s) /\ IsInjective(t) /\ Range(s) \intersect Range(t) = {} => IsInjective(s \o t)
<1> DEFINE u == s \o t
           m == Len(s)
           n == Len(t)
<1>1. m \in Nat /\ n \in Nat /\ DOMAIN s = 1..m /\ DOMAIN t = 1..n
  OBVIOUS
<1>2. /\ u \in Seq(S) /\ Len(u) = m + n /\ DOMAIN u = 1..(m + n)
      /\ \A k \in 1..m : u[k] = s[k]
      /\ \A k \in 1..n : u[k + m] = t[k]
  OBVIOUS
<1> HIDE DEF u, m, n
<1>3. \A k \in 1..(m + n) : k \in 1..m \/ (k - m \in 1..n /\ k = (k - m) + m)
  BY <1>1
<1>4. \A k \in 1..(m + n) : k \notin 1..m => u[k] = t[k - m]
  BY SMTT(60), <1>2, <1>3
<1>5. Range(u) \subseteq Range(s) \union Range(t)
  <2> SUFFICES ASSUME NEW k \in 1..(m + n) PROVE u[k] \in Range(s) \union Range(t)
    BY <1>2 DEF Range
  <2> QED
    <3>1. CASE k \in 1..m
      BY SMTT(60), <1>1, <1>2, <3>1 DEF Range
    <3>2. CASE k \notin 1..m
      <4>1. k - m \in DOMAIN t /\ u[k] = t[k - m]
        BY <1>1, <1>3, <1>4, <3>2
      <4> QED
        BY <4>1, Zenon DEF Range
    <3> QED
      BY <3>1, <3>2
<1>6. Range(s) \subseteq Range(u)
  <2> SUFFICES ASSUME NEW k \in 1..m PROVE s[k] \in Range(u)
    BY <1>1 DEF Range
  <2>1. k \in 1..(m + n)
    BY <1>1
  <2>2. k \in DOMAIN u /\ u[k] = s[k]
    BY <1>2, <2>1
  <2> QED
    BY <2>2, Zenon DEF Range
<1>7. Range(t) \subseteq Range(u)
  <2> SUFFICES ASSUME NEW k \in 1..n PROVE t[k] \in Range(u)
    BY <1>1 DEF Range
  <2>1. k + m \in 1..(m + n)
    BY <1>1
  <2>2. k + m \in DOMAIN u /\ u[k + m] = t[k]
    BY <1>2, <2>1
  <2> QED
    BY <2>2, Zenon DEF Range
<1>8. ASSUME IsInjective(s), IsInjective(t), Range(s) \intersect Range(t) = {} PROVE IsInjective(u)
  <2>1. \A a, b \in 1..m : s[a] = s[b] => a = b
    BY <1>1, <1>8 DEF IsInjective
  <2>2. \A a, b \in 1..n : t[a] = t[b] => a = b
    BY <1>1, <1>8 DEF IsInjective
  <2>3. \A a \in 1..m, b \in 1..n : s[a] # t[b]
    BY <1>1, <1>8, Zenon DEF Range
  <2>4. ASSUME NEW a \in 1..(m + n), NEW b \in 1..(m + n), u[a] = u[b] PROVE a = b
    <3>1. CASE a \in 1..m /\ b \in 1..m
      BY <1>2, <2>1, <2>4, <3>1
    <3>2. CASE a \notin 1..m /\ b \notin 1..m
      <4>1. a - m = b - m
        BY <1>3, <1>4, <2>2, <2>4, <3>2
      <4> QED
        BY <1>1, <4>1
    <3>3. CASE a \in 1..m /\ b \notin 1..m
      BY <1>2, <1>3, <1>4, <2>3, <2>4, <3>3
    <3>4. CASE a \notin 1..m /\ b \in 1..m
      BY SMTT(60), <1>2, <1>3, <1>4, <2>3, <2>4, <3>4
    <3> QED
      BY <3>1, <3>2, <3>3, <3>4
  <2> QED
    BY <1>2, <2>4, Zenon DEF IsInjective
<1> QED
  BY <1>2, <1>5, <1>6, <1>7, <1>8 DEF u, m, n

(* Popping the front of a deque.                                           *)
LEMMA PopFront ==
  ASSUME NEW S, NEW s \in Seq(S), s # <<>>
  PROVE  /\ Head(s) \in S /\ Tail(s) \in Seq(S)
         /\ Head(s) \in Range(s)
         /\ Range(Tail(s)) \subseteq Range(s)
         /\ IsInjective(s) => IsInjective(Tail(s)) /\ Head(s) \notin Range(Tail(s))
<1> DEFINE t == Tail(s)
<1>1. Len(s) \in Nat \ {0} /\ DOMAIN s = 1..Len(s) /\ Head(s) = s[1] /\ Head(s) \in S
  OBVIOUS
<1>2. t \in Seq(S) /\ DOMAIN t = 1..(Len(s) - 1) /\ \A i \in 1..(Len(s) - 1) : t[i] = s[i + 1]
  OBVIOUS
<1> HIDE DEF t
<1>3. \A i \in DOMAIN t : i + 1 \in DOMAIN s /\ i + 1 # 1 /\ t[i] = s[i + 1] /\ i \in Nat
  BY <1>1, <1>2
<1>4. Head(s) \in Range(s)
  BY <1>1 DEF Range
<1>5. Range(t) \subseteq Range(s)
  BY <1>3 DEF Range
<1>6. ASSUME IsInjective(s) PROVE IsInjective(t) /\ Head(s) \notin Range(t)
  <2>1. ASSUME NEW a \in DOMAIN t, NEW b \in DOMAIN t, t[a] = t[b] PROVE a = b
    <3>1. a + 1 = b + 1
      BY <1>3, <1>6, <2>1 DEF IsInjective
    <3>2. QED
      BY <1>3, <3>1
  <2>2. ASSUME NEW a \in DOMAIN t PROVE t[a] # Head(s)
    <3>1. 1 \in DOMAIN s
      BY <1>1
    <3>2. QED
      BY <1>1, <1>3, <1>6, <3>1 DEF IsInjective
  <2>3. QED
    BY <2>1, <2>2 DEF IsInjective, Range
<1>7. QED
  BY <1>1, <1>2, <1>4, <1>5, <1>6 DEF t

(* The empty sequence has no elements.                                     *)
LEMMA RangeOfEmpty == Range(<<>>) = {}
BY DEF Range

(* A sequence of one element.                                              *)
LEMMA OneElement ==
  ASSUME NEW S, NEW e \in S
  PROVE  <<e>> \in Seq(S) /\ Len(<<e>>) = 1 /\ Range(<<e>>) = {e} /\ IsInjective(<<e>>)
<1>1. <<e>> \in Seq(S) /\ Len(<<e>>) = 1
  OBVIOUS
<1>2. Range(<<e>>) = {e} /\ IsInjective(<<e>>)
  BY DEF Range, IsInjective
<1> QED
  BY <1>1, <1>2

(* The elements of a sequence over a set are in the set.                   *)
LEMMA RangeOfSeq ==
  ASSUME NEW S, NEW s \in Seq(S)
  PROVE  Range(s) \subseteq S
BY DEF Range

-----------------------------------------------------------------------------
(* A set that holds 0 and with a number the next one holds 0, ..., n.      *)
LEMMA LoopInduction ==
  ASSUME NEW n \in Nat, NEW S, 0 \in S, \A k \in 1..n : k - 1 \in S => k \in S
  PROVE  \A k \in 0..n : k \in S
<1> DEFINE Out == {k \in 0..n : k \notin S}
<1> SUFFICES ASSUME Out # {} PROVE FALSE
  OBVIOUS
<1>1. Out \subseteq Nat
  OBVIOUS
<1>2. PICK k \in Out : \A m \in Out : ~(<<m, k>> \in OpToRel(<, Nat))
  <2> HIDE DEF Out
  <2> QED
    BY <1>1, NatLessThanWellFounded, WFMin, Zenon
<1>3. \A m \in Out : ~(m < k)
  <2> HIDE DEF Out
  <2> QED
    BY <1>1, <1>2, Zenon DEF OpToRel
<1>4. k \in 1..n /\ k - 1 \in 0..n /\ k - 1 < k
  OBVIOUS
<1>5. k - 1 \in S
  BY <1>3, <1>4
<1> QED
  BY <1>4, <1>5

(* f is the run of a loop of n iterations from s; iteration k is step[k].  *)
StaysIn(State, n, step) == \A k \in 1..n, t \in State : step[k][t] \in State

IsRun(f, State, n, s, step) ==
  f \in [0..n -> State] /\ f[0] = s /\ \A k \in 1..n : f[k] = step[k][f[k - 1]]

(* A loop that stays in a set of states has a run.                         *)
LEMMA LoopExists ==
  ASSUME NEW State, NEW n \in Nat, NEW s \in State, NEW step, StaysIn(State, n, step)
  PROVE  \E f : IsRun(f, State, n, s, step)
<1> USE DEF StaysIn
<1> DEFINE Run(f, m) == /\ f \in [0..m -> State] /\ f[0] = s
                        /\ \A k \in 1..m : f[k] = step[k][f[k - 1]]
           S == {m \in 0..n : \E f : Run(f, m)}
<1>1. 0 \in S
  <2> DEFINE g == [k \in 0..0 |-> s]
  <2>1. g \in [0..0 -> State] /\ g[0] = s /\ \A k \in 1..0 : g[k] = step[k][g[k - 1]]
    OBVIOUS
  <2>2. \E f : Run(f, 0)
    BY <2>1, Zenon
  <2> QED
    BY <2>2
<1>2. ASSUME NEW m \in 1..n, m - 1 \in S PROVE m \in S
  <2>1. PICK f : Run(f, m - 1)
    BY <1>2
  <2> DEFINE g == [k \in 0..m |-> IF k = m THEN step[m][f[m - 1]] ELSE f[k]]
  <2>2. m - 1 \in 0..(m - 1) /\ f[m - 1] \in State /\ step[m][f[m - 1]] \in State
    BY <2>1
  <2>3. g \in [0..m -> State]
    BY <2>1, <2>2
  <2>4. g[0] = s
    BY SMTT(60), <2>1
  <2>5. ASSUME NEW k \in 1..m PROVE g[k] = step[k][g[k - 1]]
    <3>1. g[k - 1] = f[k - 1]
      BY <2>2
    <3>2. CASE k = m
      BY <3>1, <3>2
    <3>3. CASE k # m
      BY <2>1, <3>1, <3>3
    <3> QED
      BY <3>2, <3>3
  <2>6. Run(g, m)
    <3> HIDE DEF g
    <3> QED
      BY <2>3, <2>4, <2>5
  <2>7. \E h : Run(h, m)
    BY <2>6, Zenon
  <2>8. m \in 0..n
    OBVIOUS
  <2> QED
    BY <2>7, <2>8, Zenon
<1>3. n \in S
  <2> HIDE DEF S
  <2>1. \A m \in 1..n : m - 1 \in S => m \in S
    BY <1>2
  <2>2. \A k \in 0..n : k \in S
    BY <1>1, <2>1, LoopInduction, Zenon
  <2> QED
    BY <2>2
<1> QED
  BY <1>3, Zenon DEF IsRun

-----------------------------------------------------------------------------
(* Entries are compared by an integer distance. *)
IsEntrySet(E) == \A e \in E : e.distance \in Int

-----------------------------------------------------------------------------
LEMMA SwapFacts ==
  ASSUME NEW E, NEW h \in Seq(E), NEW p \in 1..Len(h), NEW q \in 1..Len(h)
  PROVE  /\ Swap(h, p, q) \in Seq(E) /\ Len(Swap(h, p, q)) = Len(h)
         /\ Swap(h, p, q)[p] = h[q] /\ Swap(h, p, q)[q] = h[p]
         /\ \A k \in 1..Len(h) : k # p /\ k # q => Swap(h, p, q)[k] = h[k]
         /\ Range(Swap(h, p, q)) = Range(h)
         /\ IsInjective(h) => IsInjective(Swap(h, p, q))
<1> DEFINE g == Swap(h, p, q)
<1>1. h \in [1..Len(h) -> E] /\ Len(h) \in Nat /\ DOMAIN h = 1..Len(h)
  OBVIOUS
<1>2. g \in [1..Len(h) -> E]
  BY <1>1 DEF Swap
<1>3. g \in Seq(E) /\ Len(g) = Len(h) /\ DOMAIN g = 1..Len(h)
  BY <1>1, <1>2
<1>4. /\ g[p] = h[q] /\ g[q] = h[p]
      /\ \A k \in 1..Len(h) : k # p /\ k # q => g[k] = h[k]
  BY <1>1 DEF Swap
<1> HIDE DEF g
<1>5. Range(g) \subseteq Range(h)
  <2> SUFFICES ASSUME NEW k \in 1..Len(h) PROVE g[k] \in Range(h)
    BY <1>3 DEF Range
  <2> QED
    BY <1>1, <1>4 DEF Range
<1>6. Range(h) \subseteq Range(g)
  <2> SUFFICES ASSUME NEW k \in 1..Len(h) PROVE h[k] \in Range(g)
    BY <1>1 DEF Range
  <2> QED
    BY SMTT(60), <1>3, <1>4 DEF Range
<1>7. ASSUME IsInjective(h) PROVE IsInjective(g)
  <2>1. \A a, b \in 1..Len(h) : h[a] = h[b] => a = b
    BY <1>1, <1>7 DEF IsInjective
  <2>2. \A a, b \in 1..Len(h) : g[a] = g[b] => a = b
    BY <1>4, <2>1
  <2> QED
    BY <1>3, <2>2, Zenon DEF IsInjective
<1> QED
  BY ZenonT(60), <1>3, <1>4, <1>5, <1>6, <1>7 DEF g

(* The parent of a place. *)
LEMMA ParentFacts ==
  ASSUME NEW p \in Nat, p > 1
  PROVE  Parent(p) \in Nat /\ 1 <= Parent(p) /\ Parent(p) < p /\ p \in {2 * Parent(p), 2 * Parent(p) + 1}
BY DEF Parent

-----------------------------------------------------------------------------
(* The loop of insert: only the entry at loc may be less than its parent,  *)
(* and that parent is not greater than the children of loc.                *)
UpOrdered(h, loc) ==
  /\ \A p \in 2..Len(h) : p # loc => ~Less(h[p], h[Parent(p)])
  /\ \A p \in 2..Len(h) : Parent(p) = loc /\ loc > 1 => ~Less(h[p], h[Parent(loc)])

UpStates(E, h) ==
  {s \in [heap : Seq(E), loc : 1..Len(h)] :
     /\ Len(s.heap) = Len(h) /\ Range(s.heap) = Range(h)
     /\ IsInjective(h) => IsInjective(s.heap)
     /\ UpOrdered(s.heap, s.loc)}

LEMMA MoveUpOrdered ==
  ASSUME NEW E, IsEntrySet(E), NEW h \in Seq(E), NEW loc \in 1..Len(h), UpOrdered(h, loc),
         loc > 1, Less(h[loc], h[Parent(loc)])
  PROVE  UpOrdered(Swap(h, loc, Parent(loc)), Parent(loc))
<1> DEFINE q == Parent(loc)
           g == Swap(h, loc, q)
<1>1. Len(h) \in Nat /\ loc \in Nat /\ q \in 1..Len(h) /\ q < loc
  <2>1. Len(h) \in Nat /\ loc \in Nat
    OBVIOUS
  <2> QED
    BY <2>1, ParentFacts
<1>2. /\ Len(g) = Len(h) /\ g[loc] = h[q] /\ g[q] = h[loc]
      /\ \A k \in 1..Len(h) : k # loc /\ k # q => g[k] = h[k]
  <2> HIDE DEF q
  <2>1. h \in Seq(E) /\ loc \in 1..Len(h) /\ q \in 1..Len(h)
    BY <1>1
  <2> QED
    BY SMTT(30), <2>1, SwapFacts
<1>3. \A k \in 1..Len(h) : h[k].distance \in Int
  BY DEF IsEntrySet
<1>4. \A p \in 2..Len(h) : p \in Nat /\ Parent(p) \in 1..Len(h) /\ Parent(p) < p
  BY <1>1, ParentFacts
<1>5. \A p \in 2..Len(h) : p # loc => h[Parent(p)].distance <= h[p].distance
  BY <1>3, <1>4 DEF UpOrdered, Less
<1>6. \A p \in 2..Len(h) : Parent(p) = loc => h[q].distance <= h[p].distance
  BY <1>1, <1>3, <1>4 DEF UpOrdered, Less
<1>7. h[loc].distance < h[q].distance
  BY DEF Less
<1> HIDE DEF q, g
<1>8. \A p \in 2..Len(h) : p # q => g[Parent(p)].distance <= g[p].distance
  <2> SUFFICES ASSUME NEW p \in 2..Len(h), p # q PROVE g[Parent(p)].distance <= g[p].distance
    OBVIOUS
  <2>1. CASE p = loc
    BY <1>1, <1>2, <1>3, <1>7, <2>1 DEF q
  <2>2. CASE p # loc /\ Parent(p) = loc
    BY <1>1, <1>2, <1>3, <1>4, <1>6, <2>2
  <2>3. CASE p # loc /\ Parent(p) = q
    BY SMTT(30), <1>1, <1>2, <1>3, <1>4, <1>5, <1>7, <2>3
  <2>4. CASE p # loc /\ Parent(p) # loc /\ Parent(p) # q
    BY SMTT(30), <1>1, <1>2, <1>4, <1>5, <2>4
  <2> QED
    BY <2>1, <2>2, <2>3, <2>4
<1>9. \A p \in 2..Len(h) : Parent(p) = q /\ q > 1 => g[Parent(q)].distance <= g[p].distance
  <2> SUFFICES ASSUME NEW p \in 2..Len(h), Parent(p) = q, q > 1
               PROVE  g[Parent(q)].distance <= g[p].distance
    OBVIOUS
  <2>1. /\ q \in 2..Len(h) /\ Parent(q) < q /\ Parent(q) \in 1..Len(h) /\ g[Parent(q)] = h[Parent(q)]
        /\ h[Parent(q)].distance <= h[q].distance
    BY <1>1, <1>2, <1>4, <1>5
  <2>2. CASE p = loc
    BY SMTT(60), <1>2, <2>1, <2>2
  <2>3. CASE p # loc
    <3>1. g[p] = h[p] /\ h[q].distance <= h[p].distance
      BY SMTT(30), <1>1, <1>2, <1>4, <1>5, <2>3
    <3> QED
      BY SMTT(30), <1>1, <1>3, <1>4, <2>1, <3>1
  <2> QED
    BY <2>2, <2>3
<1>10. \A k \in 1..Len(h) : g[k].distance \in Int
  BY <1>1, <1>2, <1>3
<1>11. \A p \in 2..Len(h) : p # q => ~Less(g[p], g[Parent(p)])
  BY <1>4, <1>8, <1>10 DEF Less
<1>12. \A p \in 2..Len(h) : Parent(p) = q /\ q > 1 => ~Less(g[p], g[Parent(q)])
  BY <1>1, <1>4, <1>9, <1>10 DEF Less
<1> QED
  BY <1>2, <1>11, <1>12 DEF UpOrdered, q, g

LEMMA MoveUpStates ==
  ASSUME NEW E, IsEntrySet(E), NEW h \in Seq(E), NEW s \in UpStates(E, h)
  PROVE  MoveUp(s) \in UpStates(E, h) /\ (MoveUp(s) = s \/ MoveUp(s).loc < s.loc)
<1>1. /\ s \in [heap : Seq(E), loc : 1..Len(h)] /\ Len(s.heap) = Len(h) /\ Range(s.heap) = Range(h)
      /\ IsInjective(h) => IsInjective(s.heap)
      /\ UpOrdered(s.heap, s.loc)
  BY DEF UpStates
<1>2. CASE s.loc > 1 /\ Less(s.heap[s.loc], s.heap[Parent(s.loc)])
  <2> DEFINE q == Parent(s.loc)
             g == Swap(s.heap, s.loc, q)
  <2>1. s.heap \in Seq(E) /\ s.loc \in 1..Len(s.heap) /\ q \in 1..Len(s.heap) /\ q < s.loc
    BY <1>1, <1>2, ParentFacts
  <2>2. g \in Seq(E) /\ Len(g) = Len(h) /\ Range(g) = Range(h) /\ (IsInjective(h) => IsInjective(g))
    BY <1>1, <2>1, SwapFacts
  <2>3. UpOrdered(g, q)
    BY <1>1, <1>2, <2>1, MoveUpOrdered
  <2> HIDE DEF q, g
  <2>4. MoveUp(s) = [heap |-> g, loc |-> q]
    BY SMTT(60), <1>2 DEF MoveUp, q, g
  <2> QED
    BY <1>1, <2>1, <2>2, <2>3, <2>4 DEF UpStates
<1>3. CASE ~(s.loc > 1 /\ Less(s.heap[s.loc], s.heap[Parent(s.loc)]))
  BY <1>3 DEF MoveUp
<1> QED
  BY SMTT(60), <1>2, <1>3

LEMMA SiftUpRuns ==
  ASSUME NEW E, IsEntrySet(E), NEW h \in Seq(E), NEW loc \in 1..Len(h), UpOrdered(h, loc)
  PROVE  \E f : /\ f[0] = [heap |-> h, loc |-> loc]
                /\ \A k \in 1..loc : f[k] = MoveUp(f[k - 1])
                /\ SiftUp(h, loc) = f[loc].heap
<1> DEFINE State == UpStates(E, h)
           s0 == [heap |-> h, loc |-> loc]
           step == [k \in 1..loc |-> [s \in State |-> MoveUp(s)]]
           Body(f) == [k \in 0..loc |-> IF k = 0 THEN s0
                         ELSE CHOOSE t \in {MoveUp(b) : b \in {f[k - 1]}} : TRUE]
           at == CHOOSE at : at = Body(at)
<1>1. loc \in Nat /\ s0 \in State
  BY DEF UpStates
<1>0. \A k \in 1..loc, t \in State : step[k][t] = MoveUp(t) /\ step[k][t] \in State
  <2> HIDE DEF State
  <2>1. \A t \in State : MoveUp(t) \in State
    BY MoveUpStates DEF State
  <2> QED
    BY <2>1
<1>2. PICK f : IsRun(f, State, loc, s0, step)
  <2> HIDE DEF State, s0, step
  <2>1. StaysIn(State, loc, step)
    BY <1>0, Zenon DEF StaysIn
  <2> QED
    BY <1>1, <2>1, LoopExists
<1>3. \A k \in 1..loc : f[k] = MoveUp(f[k - 1])
  <2> HIDE DEF State, step, s0
  <2> QED
    BY <1>0, <1>1, <1>2 DEF IsRun
<1>4. f = Body(f)
  <2> HIDE DEF State, s0
  <2> QED
    BY <1>1, <1>2, <1>3 DEF IsRun
<1>5. at = Body(at)
  <2> HIDE DEF Body
  <2> QED
    BY <1>4, Zenon
<1>6. SiftUp(h, loc) = at[loc].heap
  BY DEF SiftUp, Loop
<1> HIDE DEF at
<1>7. at[0] = s0 /\ \A k \in 1..loc : at[k] = MoveUp(at[k - 1])
  <2> HIDE DEF s0
  <2> QED
    BY <1>1, <1>5
<1> QED
  BY <1>6, <1>7, Zenon

(* The loop ends where the entry rests: no entry is less than its parent.  *)
LEMMA MoveUpRests ==
  ASSUME NEW E, IsEntrySet(E), NEW h \in Seq(E), NEW s \in UpStates(E, h), MoveUp(s) = s
  PROVE  HeapOrdered(s.heap)
<1>1. s \in [heap : Seq(E), loc : 1..Len(h)] /\ Len(s.heap) = Len(h) /\ UpOrdered(s.heap, s.loc)
  BY DEF UpStates
<1>2. ~(s.loc > 1 /\ Less(s.heap[s.loc], s.heap[Parent(s.loc)]))
  <2> SUFFICES ASSUME s.loc > 1 /\ Less(s.heap[s.loc], s.heap[Parent(s.loc)]) PROVE FALSE
    OBVIOUS
  <2>1. Parent(s.loc) < s.loc /\ s.loc \in Nat
    BY SMTT(60), <1>1, ParentFacts
  <2>2. MoveUp(s).loc = Parent(s.loc)
    BY DEF MoveUp
  <2> QED
    BY <2>1, <2>2
<1> QED
  BY <1>1, <1>2 DEF UpOrdered, HeapOrdered

(* The heap the loop of insert leaves.                                     *)
LEMMA SiftUpFacts ==
  ASSUME NEW E, IsEntrySet(E), NEW h \in Seq(E), NEW loc \in 1..Len(h), UpOrdered(h, loc)
  PROVE  /\ SiftUp(h, loc) \in Seq(E) /\ Len(SiftUp(h, loc)) = Len(h)
         /\ Range(SiftUp(h, loc)) = Range(h)
         /\ IsInjective(h) => IsInjective(SiftUp(h, loc))
         /\ HeapOrdered(SiftUp(h, loc))
<1>1. PICK f : /\ f[0] = [heap |-> h, loc |-> loc]
               /\ \A k \in 1..loc : f[k] = MoveUp(f[k - 1])
               /\ SiftUp(h, loc) = f[loc].heap
  BY SiftUpRuns
<1>2. loc \in Nat /\ f[0] \in UpStates(E, h) /\ f[0].loc = loc
  BY <1>1 DEF UpStates
<1> DEFINE S == {k \in 0..loc : f[k] \in UpStates(E, h) /\ (f[k].loc <= loc - k \/ MoveUp(f[k]) = f[k])}
<1>3. 0 \in S
  BY <1>2
<1>4. ASSUME NEW k \in 1..loc, k - 1 \in S PROVE k \in S
  <2>1. /\ f[k - 1] \in UpStates(E, h) /\ f[k] = MoveUp(f[k - 1])
        /\ f[k - 1].loc <= loc - (k - 1) \/ MoveUp(f[k - 1]) = f[k - 1]
    BY SMTT(60), <1>1, <1>4
  <2>2. f[k] \in UpStates(E, h) /\ (f[k] = f[k - 1] \/ f[k].loc < f[k - 1].loc)
    BY SMTT(60), <2>1, MoveUpStates
  <2>3. f[k].loc \in Nat /\ f[k - 1].loc \in Nat
    BY SMTT(60), <2>1, <2>2 DEF UpStates
  <2>4. f[k].loc <= loc - k \/ MoveUp(f[k]) = f[k]
    <3>1. CASE f[k] = f[k - 1]
      BY <2>1, <2>2, <3>1, Zenon
    <3>2. CASE f[k] # f[k - 1]
      BY SMTT(30), <1>2, <2>1, <2>2, <2>3, <3>2
    <3> QED
      BY <3>1, <3>2
  <2> QED
    BY SMTT(60), <2>2, <2>4
<1>5. loc \in S
  <2> HIDE DEF S
  <2>1. \A k \in 1..loc : k - 1 \in S => k \in S
    BY <1>4
  <2>2. \A k \in 0..loc : k \in S
    BY <1>2, <1>3, <2>1, LoopInduction, Zenon
  <2> QED
    BY <1>2, <2>2
<1>6. f[loc] \in UpStates(E, h) /\ MoveUp(f[loc]) = f[loc]
  <2>1. f[loc].loc \in Nat \ {0}
    BY <1>5 DEF UpStates
  <2> QED
    BY <1>2, <1>5, <2>1
<1>7. HeapOrdered(f[loc].heap)
  BY <1>6, MoveUpRests
<1> QED
  BY <1>1, <1>6, <1>7 DEF UpStates

-----------------------------------------------------------------------------
(* The loop of heapify: only the children of loc may be less than their    *)
(* parent, and they are not less than the parent of loc.                   *)
DownOrdered(h, loc) ==
  /\ \A p \in 2..Len(h) : Parent(p) # loc => ~Less(h[p], h[Parent(p)])
  /\ \A p \in 2..Len(h) : Parent(p) = loc /\ loc > 1 => ~Less(h[p], h[Parent(loc)])

DownStates(E, h) ==
  {s \in [heap : Seq(E), loc : 1..Len(h)] :
     /\ Len(s.heap) = Len(h) /\ Range(s.heap) = Range(h)
     /\ IsInjective(h) => IsInjective(s.heap)
     /\ DownOrdered(s.heap, s.loc)}

LEMMA ChildFacts ==
  ASSUME NEW p \in Nat, p > 0
  PROVE  /\ Parent(2 * p) = p /\ Parent(2 * p + 1) = p
         /\ \A c \in Nat : Parent(c) = p => c = 2 * p \/ c = 2 * p + 1
BY DEF Parent

(* The child heapify looks at is the least of the children.                *)
LEMMA LesserFacts ==
  ASSUME NEW E, IsEntrySet(E), NEW h \in Seq(E), NEW loc \in 1..Len(h), 2 * loc <= Len(h)
  PROVE  /\ Lesser(h, loc) \in 2..Len(h) /\ Parent(Lesser(h, loc)) = loc /\ Lesser(h, loc) > loc
         /\ \A p \in 2..Len(h) : Parent(p) = loc => h[Lesser(h, loc)].distance <= h[p].distance
<1>1. Len(h) \in Nat /\ loc \in Nat /\ loc > 0 /\ \A k \in 1..Len(h) : h[k].distance \in Int
  BY DEF IsEntrySet
<1>2. /\ Parent(2 * loc) = loc /\ Parent(2 * loc + 1) = loc
      /\ \A c \in Nat : Parent(c) = loc => c = 2 * loc \/ c = 2 * loc + 1
  BY <1>1, ChildFacts
<1> DEFINE l == 2 * loc
           r == 2 * loc + 1
           d(k) == h[k].distance
<1>3. l \in 2..Len(h) /\ l > loc /\ r > loc /\ l \in 1..Len(h) /\ (r <= Len(h) => r \in 2..Len(h) /\ r \in 1..Len(h))
  BY <1>1
<1>4. d(l) \in Int /\ (r <= Len(h) => d(r) \in Int)
  BY <1>1, <1>3, Zenon
<1>5. \A p \in 2..Len(h) : Parent(p) = loc => p = l \/ (p = r /\ r <= Len(h))
  <2> SUFFICES ASSUME NEW p \in 2..Len(h), Parent(p) = loc PROVE p = l \/ (p = r /\ r <= Len(h))
    OBVIOUS
  <2>1. p \in Nat /\ p <= Len(h)
    BY <1>1
  <2>2. p = l \/ p = r
    BY <1>2, <2>1, Zenon
  <2>3. p = r => r <= Len(h)
    BY <1>1, <2>1
  <2> QED
    BY <2>2, <2>3, Zenon
<1>6. CASE r <= Len(h) /\ Less(h[r], h[l])
  <2>1. Lesser(h, loc) = r
    BY <1>6, Zenon DEF Lesser
  <2>2. d(r) < d(l)
    BY <1>6, Zenon DEF Less
  <2>3. d(r) <= d(l) /\ d(r) <= d(r)
    <3> HIDE DEF l, r, d
    <3> QED
      BY <1>4, <1>6, <2>2
  <2> QED
    BY <1>2, <1>3, <1>5, <1>6, <2>1, <2>3, ZenonT(60)
<1>7. CASE ~(r <= Len(h) /\ Less(h[r], h[l]))
  <2>1. Lesser(h, loc) = l
    BY <1>7, Zenon DEF Lesser
  <2>2. r <= Len(h) => ~(d(r) < d(l))
    BY <1>7, Zenon DEF Less
  <2>3. d(l) <= d(l) /\ (r <= Len(h) => d(l) <= d(r))
    <3> HIDE DEF l, r, d
    <3> QED
      BY SMTT(60), <1>4, <2>2
  <2> QED
    BY <1>2, <1>3, <1>5, <2>1, <2>3, ZenonT(60)
<1> QED
  BY <1>6, <1>7, Zenon

LEMMA MoveDownOrdered ==
  ASSUME NEW E, IsEntrySet(E), NEW h \in Seq(E), NEW loc \in 1..Len(h), DownOrdered(h, loc),
         2 * loc <= Len(h), Less(h[Lesser(h, loc)], h[loc])
  PROVE  DownOrdered(Swap(h, loc, Lesser(h, loc)), Lesser(h, loc))
<1> DEFINE q == Lesser(h, loc)
           g == Swap(h, loc, q)
<1>1. /\ Len(h) \in Nat /\ loc \in Nat /\ q \in 2..Len(h) /\ Parent(q) = loc /\ q > loc
      /\ \A p \in 2..Len(h) : Parent(p) = loc => h[q].distance <= h[p].distance
  BY LesserFacts
<1>2. /\ Len(g) = Len(h) /\ g[loc] = h[q] /\ g[q] = h[loc]
      /\ \A k \in 1..Len(h) : k # loc /\ k # q => g[k] = h[k]
  <2> HIDE DEF q
  <2>1. h \in Seq(E) /\ loc \in 1..Len(h) /\ q \in 1..Len(h)
    BY <1>1
  <2> QED
    BY SMTT(30), <2>1, SwapFacts
<1>3. \A k \in 1..Len(h) : h[k].distance \in Int
  BY DEF IsEntrySet
<1>4. \A p \in 2..Len(h) : p \in Nat /\ Parent(p) \in 1..Len(h) /\ Parent(p) < p
  BY SMTT(60), <1>1, ParentFacts
<1>5. \A p \in 2..Len(h) : Parent(p) # loc => h[Parent(p)].distance <= h[p].distance
  BY <1>3, <1>4 DEF DownOrdered, Less
<1>6. loc > 1 => h[Parent(loc)].distance <= h[q].distance
  BY SMTT(30), <1>1, <1>3, <1>4 DEF DownOrdered, Less
<1>7. h[q].distance < h[loc].distance
  BY DEF Less
<1> HIDE DEF q, g
<1>8. \A p \in 2..Len(h) : Parent(p) # q => g[Parent(p)].distance <= g[p].distance
  <2> SUFFICES ASSUME NEW p \in 2..Len(h), Parent(p) # q PROVE g[Parent(p)].distance <= g[p].distance
    OBVIOUS
  <2>1. CASE p = q
    BY SMTT(60), <1>1, <1>2, <1>3, <1>7, <2>1
  <2>2. CASE p = loc
    BY SMTT(30), <1>1, <1>2, <1>3, <1>4, <1>6, <2>2
  <2>3. CASE p # loc /\ p # q /\ Parent(p) = loc
    BY SMTT(60), <1>1, <1>2, <1>3, <1>4, <2>3
  <2>4. CASE p # loc /\ p # q /\ Parent(p) # loc
    BY SMTT(30), <1>1, <1>2, <1>4, <1>5, <2>4
  <2> QED
    BY <2>1, <2>2, <2>3, <2>4
<1>9. \A p \in 2..Len(h) : Parent(p) = q => g[Parent(q)].distance <= g[p].distance
  <2> SUFFICES ASSUME NEW p \in 2..Len(h), Parent(p) = q PROVE g[Parent(q)].distance <= g[p].distance
    OBVIOUS
  <2>1. p # loc /\ p # q /\ g[p] = h[p] /\ g[Parent(q)] = h[q]
    BY SMTT(60), <1>1, <1>2, <1>4
  <2> QED
    BY SMTT(30), <1>1, <1>5, <2>1
<1>10. \A k \in 1..Len(h) : g[k].distance \in Int
  BY SMTT(30), <1>1, <1>2, <1>3
<1>11. \A p \in 2..Len(h) : Parent(p) # q => ~Less(g[p], g[Parent(p)])
  BY SMTT(60), <1>4, <1>8, <1>10 DEF Less
<1>12. \A p \in 2..Len(h) : Parent(p) = q /\ q > 1 => ~Less(g[p], g[Parent(q)])
  BY SMTT(60), <1>1, <1>4, <1>9, <1>10 DEF Less
<1> QED
  BY SMTT(60), <1>2, <1>11, <1>12 DEF DownOrdered, q, g

LEMMA MoveDownStates ==
  ASSUME NEW E, IsEntrySet(E), NEW h \in Seq(E), NEW s \in DownStates(E, h)
  PROVE  /\ MoveDown(s) \in DownStates(E, h)
         /\ MoveDown(s) = s \/ MoveDown(s).loc > s.loc
         /\ MoveDown(s) = s => HeapOrdered(s.heap)
<1> DEFINE loc == s.loc
           q == Lesser(s.heap, loc)
           g == Swap(s.heap, loc, q)
<1>1. /\ s \in [heap : Seq(E), loc : 1..Len(h)] /\ Len(s.heap) = Len(h) /\ Range(s.heap) = Range(h)
      /\ IsInjective(h) => IsInjective(s.heap)
      /\ DownOrdered(s.heap, loc)
      /\ loc \in Nat /\ loc > 0 /\ Len(h) \in Nat
  BY SMTT(60) DEF DownStates
<1>2. CASE 2 * loc <= Len(h) /\ Less(s.heap[q], s.heap[loc])
  <2>1. s.heap \in Seq(E) /\ loc \in 1..Len(s.heap) /\ q \in 1..Len(s.heap) /\ q > loc
    BY SMTT(60), <1>1, <1>2, LesserFacts
  <2>2. g \in Seq(E) /\ Len(g) = Len(h) /\ Range(g) = Range(h) /\ (IsInjective(h) => IsInjective(g))
    BY <1>1, <2>1, SwapFacts
  <2>3. DownOrdered(g, q)
    BY SMTT(60), <1>1, <1>2, <2>1, MoveDownOrdered
  <2> HIDE DEF q, g
  <2>4. MoveDown(s) = [heap |-> g, loc |-> q]
    BY Zenon, <1>1, <1>2 DEF MoveDown, q, g
  <2> QED
    BY SMTT(60), <1>1, <2>1, <2>2, <2>3, <2>4 DEF DownStates
<1>3. CASE ~(2 * loc <= Len(h) /\ Less(s.heap[q], s.heap[loc]))
  <2>1. MoveDown(s) = s
    BY SMTT(60), <1>1, <1>3 DEF MoveDown
  <2>2. \A p \in 2..Len(h) : Parent(p) = loc => ~Less(s.heap[p], s.heap[loc])
    <3> SUFFICES ASSUME NEW p \in 2..Len(h), Parent(p) = loc PROVE ~Less(s.heap[p], s.heap[loc])
      OBVIOUS
    <3>1. 2 * loc <= p
      <4>1. p \in Nat /\ p > 1
        OBVIOUS
      <4>2. p \in {2 * Parent(p), 2 * Parent(p) + 1}
        BY <4>1, ParentFacts
      <4> QED
        BY <1>1, <4>1, <4>2
    <3>2. 2 * loc <= Len(s.heap) /\ s.heap \in Seq(E) /\ loc \in 1..Len(s.heap)
      BY SMTT(60), <1>1, <3>1
    <3>3. q \in 2..Len(h) /\ s.heap[q].distance <= s.heap[p].distance
      <4> DEFINE hh == s.heap
      <4>1. hh \in Seq(E) /\ loc \in 1..Len(hh) /\ 2 * loc <= Len(hh) /\ Len(hh) = Len(h)
        BY SMTT(60), <1>1, <3>2
      <4> HIDE DEF hh, loc
      <4>2. /\ Lesser(hh, loc) \in 2..Len(hh)
            /\ \A c \in 2..Len(hh) : Parent(c) = loc => hh[Lesser(hh, loc)].distance <= hh[c].distance
        BY SMTT(30), <4>1, LesserFacts
      <4> QED
        BY <4>1, <4>2 DEF hh, loc
    <3>4. \A k \in 1..Len(h) : s.heap[k].distance \in Int
      BY <1>1 DEF IsEntrySet
    <3> QED
      BY SMTT(30), <1>1, <1>3, <3>2, <3>3, <3>4 DEF Less
  <2>3. HeapOrdered(s.heap)
    BY <1>1, <2>2 DEF HeapOrdered, DownOrdered
  <2> QED
    BY SMTT(60), <2>1, <2>3
<1> QED
  BY SMTT(60), <1>1, <1>2, <1>3

LEMMA SiftDownRuns ==
  ASSUME NEW E, IsEntrySet(E), NEW h \in Seq(E), h # <<>>, DownOrdered(h, 1)
  PROVE  \E f : /\ f[0] = [heap |-> h, loc |-> 1]
                /\ \A k \in 1..Len(h) : f[k] = MoveDown(f[k - 1])
                /\ SiftDown(h) = f[Len(h)].heap
<1> DEFINE n == Len(h)
           State == DownStates(E, h)
           s0 == [heap |-> h, loc |-> 1]
           step == [k \in 1..n |-> [s \in State |-> MoveDown(s)]]
           Body(f) == [k \in 0..n |-> IF k = 0 THEN s0
                         ELSE CHOOSE t \in {MoveDown(b) : b \in {f[k - 1]}} : TRUE]
           at == CHOOSE at : at = Body(at)
<1>1. n \in Nat /\ s0 \in State
  BY DEF DownStates
<1>2. \A k \in 1..n, t \in State : step[k][t] = MoveDown(t) /\ step[k][t] \in State
  <2> HIDE DEF State
  <2>1. \A t \in State : MoveDown(t) \in State
    BY MoveDownStates DEF State
  <2> QED
    BY <2>1
<1>3. PICK f : IsRun(f, State, n, s0, step)
  <2> HIDE DEF State, s0, step, n
  <2>1. StaysIn(State, n, step)
    BY <1>2, Zenon DEF StaysIn
  <2> QED
    BY <1>1, <2>1, LoopExists
<1>4. \A k \in 1..n : f[k] = MoveDown(f[k - 1])
  <2> HIDE DEF State, step, s0, n
  <2> QED
    BY SMTT(60), <1>1, <1>2, <1>3 DEF IsRun
<1>5. f = Body(f)
  <2> HIDE DEF State, s0, n
  <2> QED
    BY <1>1, <1>3, <1>4 DEF IsRun
<1>6. at = Body(at)
  <2> HIDE DEF Body
  <2> QED
    BY <1>5, Zenon
<1>7. SiftDown(h) = at[n].heap
  BY DEF SiftDown, Loop
<1> HIDE DEF at
<1>8. at[0] = s0 /\ \A k \in 1..n : at[k] = MoveDown(at[k - 1])
  <2> HIDE DEF s0, n
  <2> QED
    BY SMTT(60), <1>1, <1>6
<1> QED
  BY <1>7, <1>8, Zenon

(* The heap heapify leaves.                                                *)
LEMMA SiftDownFacts ==
  ASSUME NEW E, IsEntrySet(E), NEW h \in Seq(E), h # <<>>, DownOrdered(h, 1)
  PROVE  /\ SiftDown(h) \in Seq(E) /\ Len(SiftDown(h)) = Len(h)
         /\ Range(SiftDown(h)) = Range(h)
         /\ IsInjective(h) => IsInjective(SiftDown(h))
         /\ HeapOrdered(SiftDown(h))
<1> DEFINE n == Len(h)
<1>1. PICK f : /\ f[0] = [heap |-> h, loc |-> 1]
               /\ \A k \in 1..n : f[k] = MoveDown(f[k - 1])
               /\ SiftDown(h) = f[n].heap
  BY SiftDownRuns
<1>2. n \in Nat /\ f[0] \in DownStates(E, h) /\ f[0].loc = 1
  BY <1>1 DEF DownStates
<1> HIDE DEF n
<1> DEFINE S == {k \in 0..n : f[k] \in DownStates(E, h) /\ (f[k].loc > k \/ MoveDown(f[k]) = f[k])}
<1>3. 0 \in S
  BY SMTT(60), <1>2
<1>4. ASSUME NEW k \in 1..n, k - 1 \in S PROVE k \in S
  <2>1. /\ f[k - 1] \in DownStates(E, h) /\ f[k] = MoveDown(f[k - 1])
        /\ f[k - 1].loc > k - 1 \/ MoveDown(f[k - 1]) = f[k - 1]
    BY SMTT(60), <1>1, <1>4
  <2>2. f[k] \in DownStates(E, h) /\ (f[k] = f[k - 1] \/ f[k].loc > f[k - 1].loc)
    BY SMTT(60), <2>1, MoveDownStates
  <2>3. f[k].loc \in Nat /\ f[k - 1].loc \in Nat
    BY SMTT(60), <2>1, <2>2 DEF DownStates
  <2>4. f[k].loc > k \/ MoveDown(f[k]) = f[k]
    <3>1. CASE f[k] = f[k - 1]
      BY <2>1, <2>2, <3>1, Zenon
    <3>2. CASE f[k] # f[k - 1]
      BY SMTT(60), <1>2, <2>1, <2>2, <2>3, <3>2
    <3> QED
      BY <3>1, <3>2
  <2> QED
    BY SMTT(60), <2>2, <2>4
<1>5. n \in S
  <2> HIDE DEF S
  <2>1. \A k \in 1..n : k - 1 \in S => k \in S
    BY <1>4
  <2>2. \A k \in 0..n : k \in S
    BY <1>2, <1>3, <2>1, LoopInduction, Zenon
  <2> QED
    BY <1>2, <2>2
<1>6. f[n] \in DownStates(E, h) /\ MoveDown(f[n]) = f[n]
  <2>1. f[n].loc \in 1..n
    BY SMTT(60), <1>5 DEF DownStates, n
  <2> QED
    BY SMTT(60), <1>2, <1>5, <2>1
<1>7. HeapOrdered(f[n].heap)
  BY <1>6, MoveDownStates
<1> QED
  BY SMTT(60), <1>1, <1>6, <1>7 DEF DownStates, n

-----------------------------------------------------------------------------
(* The last level of a heap: a power of two, and its entries have no       *)
(* children.                                                               *)
LEMMA LastLevelFacts ==
  ASSUME NEW n \in Nat \ {0}
  PROVE  lastlevel(n) \in 1..n /\ 2 * lastlevel(n) > n
<1> DEFINE State == Nat \ {0}
           Step(p, k) == IF k = 2 * p THEN k ELSE p
           step == [k \in 1..n |-> [p \in State |-> Step(p, k)]]
           Body(f) == [k \in 0..n |-> IF k = 0 THEN 1
                         ELSE CHOOSE t \in {Step(b, k) : b \in {f[k - 1]}} : TRUE]
           at == CHOOSE at : at = Body(at)
<1>1. n \in Nat /\ 1 \in State /\ \A k \in 1..n, p \in State : step[k][p] = Step(p, k) /\ step[k][p] \in State
  OBVIOUS
<1>2. PICK f : IsRun(f, State, n, 1, step)
  <2> HIDE DEF State, step
  <2>1. StaysIn(State, n, step)
    BY <1>1, Zenon DEF StaysIn
  <2> QED
    BY <1>1, <2>1, LoopExists
<1>3. \A k \in 1..n : f[k] = Step(f[k - 1], k)
  <2> HIDE DEF State, step, Step
  <2> QED
    BY <1>1, <1>2 DEF IsRun
<1>4. f = Body(f)
  <2> HIDE DEF State, Step
  <2> QED
    BY <1>1, <1>2, <1>3 DEF IsRun
<1>5. at = Body(at)
  <2> HIDE DEF Body
  <2> QED
    BY <1>4, Zenon
<1>6. lastlevel(n) = at[n]
  BY DEF lastlevel, Loop
<1> HIDE DEF at
<1>7. at[0] = 1 /\ \A k \in 1..n : at[k] = Step(at[k - 1], k)
  <2> HIDE DEF Step
  <2> QED
    BY SMTT(30), <1>1, <1>5
<1> DEFINE S == {k \in 0..n : at[k] \in Nat \ {0} /\ k < 2 * at[k] /\ (at[k] = 1 \/ at[k] <= k)}
<1>8. 0 \in S
  BY <1>7
<1>9. \A k \in 1..n : k - 1 \in S => k \in S
  BY <1>7
<1>10. n \in S
  <2> HIDE DEF S
  <2>1. \A k \in 0..n : k \in S
    BY <1>1, <1>8, <1>9, LoopInduction, Zenon
  <2> QED
    BY <2>1
<1> QED
  BY <1>6, <1>10

(* The entry a full heap gives up exists, and has no children.             *)
LEMMA WorstFacts ==
  ASSUME NEW E, IsEntrySet(E), NEW h \in Seq(E), h # <<>>
  PROVE  Worst(h) \in 1..Len(h) /\ 2 * Worst(h) > Len(h)
<1> DEFINE n == Len(h)
           low == lastlevel(n)
           FirstWorst(p, high) == /\ \A q \in low..high : ~Less(h[p], h[q])
                                  /\ \A q \in low..(p - 1) : Less(h[q], h[p])
           S == {k \in 0..(n - low) : \E p \in low..(low + k) : FirstWorst(p, low + k)}
<1>1. n \in Nat \ {0} /\ low \in 1..n /\ 2 * low > n
  BY LastLevelFacts
<1>2. \A p \in 1..n : h[p].distance \in Int
  BY DEF IsEntrySet
<1> HIDE DEF n, low
<1>3. 0 \in S
  <2>1. low \in low..(low + 0) /\ FirstWorst(low, low + 0)
    BY SMTT(60), <1>1, <1>2 DEF Less
  <2> HIDE DEF FirstWorst
  <2> QED
    BY <1>1, <2>1
<1>4. ASSUME NEW k \in 1..(n - low), k - 1 \in S PROVE k \in S
  <2> DEFINE new == low + k
  <2>1. PICK p \in low..(new - 1) : FirstWorst(p, new - 1)
    <3>1. low + (k - 1) = new - 1
      BY <1>1
    <3> QED
      BY <1>4, <3>1
  <2>2. new \in Int /\ p \in low..new /\ new \in low..new /\ p \in 1..n /\ new \in 1..n /\ low..new \subseteq 1..n
        /\ \A q \in low..new : q \in low..(new - 1) \/ q = new
    BY <1>1
  <2>3. CASE Less(h[p], h[new])
    <3>1. \A q \in low..(new - 1) : Less(h[q], h[new])
      BY SMTT(30), <1>2, <2>1, <2>2, <2>3 DEF Less
    <3>2. FirstWorst(new, new)
      BY SMTT(30), <1>2, <2>2, <3>1 DEF Less
    <3> HIDE DEF new, FirstWorst
    <3> QED
      BY <2>2, <3>2 DEF new
  <2>4. CASE ~Less(h[p], h[new])
    <3>1. FirstWorst(p, new)
      BY <2>1, <2>2, <2>4
    <3> HIDE DEF new, FirstWorst
    <3> QED
      BY <2>2, <3>1 DEF new
  <2> QED
    BY <2>3, <2>4
<1>5. n - low \in S
  <2>1. n - low \in Nat
    BY <1>1
  <2> HIDE DEF S
  <2>2. \A k \in 0..(n - low) : k \in S
    BY Zenon, <1>3, <1>4, <2>1, LoopInduction
  <2> QED
    BY <2>1, <2>2
<1>6. \E p \in low..n : FirstWorst(p, n)
  <2>1. low + (n - low) = n
    BY <1>1
  <2> HIDE DEF FirstWorst
  <2> QED
    BY <1>5, <2>1
<1>7. Worst(h) \in low..n
  BY <1>6, Zenon DEF Worst, n, low
<1> QED
  BY <1>1, <1>7 DEF n

-----------------------------------------------------------------------------
(* A heap of entries E within its length.                                  *)
IsHeap(E, length, h) == h \in Seq(E) /\ Len(h) <= length /\ HeapOrdered(h)

(* No entry of a heap is nearer than its top: what SearchTrees and         *)
(* SearchIterative take next is a nearest entry.                           *)
THEOREM TopLeast ==
  ASSUME NEW E, IsEntrySet(E), NEW h \in Seq(E), HeapOrdered(h)
  PROVE  \A k \in 1..Len(h) : h[1].distance <= h[k].distance
<1>1. Len(h) \in Nat /\ \A k \in 1..Len(h) : h[k].distance \in Int
  BY DEF IsEntrySet
<1> DEFINE S == {k \in 0..Len(h) : \A j \in 1..k : h[1].distance <= h[j].distance}
<1>2. 0 \in S
  BY <1>1
<1>3. ASSUME NEW k \in 1..Len(h), k - 1 \in S PROVE k \in S
  <2>1. CASE k = 1
    BY <1>1, <2>1
  <2>2. CASE k # 1
    <3>1. k \in 2..Len(h) /\ Parent(k) \in 1..(k - 1)
      BY <1>1, <2>2, ParentFacts
    <3>2. h[Parent(k)].distance <= h[k].distance
      BY <1>1, <3>1 DEF HeapOrdered, Less
    <3>3. h[1].distance <= h[Parent(k)].distance
      BY <1>3, <3>1
    <3>4. h[1].distance <= h[k].distance
      BY <1>1, <3>1, <3>2, <3>3
    <3> QED
      BY <1>1, <1>3, <3>4
  <2> QED
    BY <2>1, <2>2
<1>4. Len(h) \in S
  <2> HIDE DEF S
  <2>1. \A k \in 1..Len(h) : k - 1 \in S => k \in S
    BY <1>3
  <2>2. \A k \in 0..Len(h) : k \in S
    BY ZenonT(60), <1>1, <1>2, <2>1, LoopInduction
  <2> QED
    BY <1>1, <2>2
<1> QED
  BY <1>4

LEMMA InsertFacts ==
  ASSUME NEW E, IsEntrySet(E), NEW length \in Nat \ {0}, NEW h, IsHeap(E, length, h), NEW v \in E
  PROVE  /\ IsHeap(E, length, insert(h, length, v))
         /\ Range(insert(h, length, v)) \subseteq Range(h) \union {v}
         /\ Len(h) < length =>
              /\ Range(insert(h, length, v)) = Range(h) \union {v}
              /\ Len(insert(h, length, v)) = Len(h) + 1
         /\ IsInjective(h) /\ v \notin Range(h) => IsInjective(insert(h, length, v))
<1> DEFINE n == Len(h)
<1>1. h \in Seq(E) /\ n \in Nat /\ n <= length /\ HeapOrdered(h) /\ DOMAIN h = 1..n
  BY DEF IsHeap
<1>2. \A p \in 2..(n + 1) : p \in Nat /\ Parent(p) \in 1..(n + 1) /\ Parent(p) < p
  BY SMTT(60), <1>1, ParentFacts
<1>3. CASE n < length
  <2> DEFINE g == Append(h, v)
  <2>1. g \in Seq(E) /\ Len(g) = n + 1 /\ g[n + 1] = v /\ \A k \in 1..n : g[k] = h[k]
    BY <1>1
  <2>2. Range(g) = Range(h) \union {v}
    BY <1>1, RangeOfAppend
  <2>3. IsInjective(h) /\ v \notin Range(h) => IsInjective(g)
    BY SMTT(60), <1>1, AppendFresh
  <2> HIDE DEF g, n
  <2>4. UpOrdered(g, n + 1)
    <3>1. \A p \in 2..(n + 1) : p # n + 1 => ~Less(g[p], g[Parent(p)])
      <4> SUFFICES ASSUME NEW p \in 2..(n + 1), p # n + 1 PROVE ~Less(g[p], g[Parent(p)])
        OBVIOUS
      <4>1. p \in 2..n /\ g[p] = h[p] /\ g[Parent(p)] = h[Parent(p)]
        BY <1>1, <1>2, <2>1
      <4> QED
        BY <1>1, <4>1 DEF HeapOrdered, n
    <3>2. \A p \in 2..(n + 1) : Parent(p) # n + 1
      BY <1>1, <1>2
    <3> QED
      BY SMTT(60), <2>1, <3>1, <3>2 DEF UpOrdered
  <2> DEFINE r == SiftUp(g, n + 1)
  <2>5. n + 1 \in 1..Len(g)
    BY SMTT(60), <1>1, <2>1
  <2>6. /\ r \in Seq(E) /\ Len(r) = Len(g) /\ Range(r) = Range(g)
        /\ IsInjective(g) => IsInjective(r)
        /\ HeapOrdered(r)
    BY <2>1, <2>4, <2>5, SiftUpFacts
  <2>7. insert(h, length, v) = r
    BY SMTT(60), <1>3 DEF insert, g, n
  <2> HIDE DEF r
  <2> QED
    BY SMTT(60), <1>1, <1>3, <2>1, <2>2, <2>3, <2>6, <2>7 DEF IsHeap, n
<1>4. CASE ~(n < length)
  <2> DEFINE w == Worst(h)
             g == [h EXCEPT ![w] = v]
  <2>1. n = length /\ n > 0 /\ w \in 1..n /\ 2 * w > n
    <3>1. n = length /\ n > 0 /\ h # <<>>
      <4>1. n = length /\ n > 0
        <5> HIDE DEF n
        <5> QED
          BY <1>1, <1>4
      <4> QED
        BY <4>1
    <3>2. w \in 1..n /\ 2 * w > n
      BY <1>1, <3>1, WorstFacts, Zenon
    <3> QED
      BY <3>1, <3>2
  <2>2. CASE Less(h[w], v)
    <3>1. insert(h, length, v) = h
      BY <1>4, <2>2, Zenon DEF insert
    <3> QED
      BY <1>1, <1>4, <3>1, Zenon DEF IsHeap
  <2>3. CASE ~Less(h[w], v)
    <3> HIDE DEF w
    <3>1. g \in Seq(E) /\ Len(g) = n /\ g[w] = v /\ \A k \in 1..n : k # w => g[k] = h[k]
      BY <1>1, <2>1
    <3>2. DOMAIN g = 1..n
      BY SMTT(60), <1>1, <3>1
    <3> HIDE DEF g
    <3>3. Range(g) \subseteq Range(h) \union {v}
      <4> SUFFICES ASSUME NEW k \in 1..n PROVE g[k] \in Range(h) \union {v}
        BY <3>2 DEF Range
      <4> QED
        BY SMTT(60), <1>1, <3>1 DEF Range
    <3>4. ASSUME IsInjective(h), v \notin Range(h) PROVE IsInjective(g)
      <4>1. \A a, b \in 1..n : h[a] = h[b] => a = b
        BY <1>1, <3>4 DEF IsInjective
      <4>2. \A a \in 1..n : h[a] # v
        BY SMTT(60), <1>1, <3>4 DEF Range
      <4>3. \A a, b \in 1..n : g[a] = g[b] => a = b
        BY SMTT(60), <3>1, <4>1, <4>2
      <4> QED
        BY <3>2, <4>3, Zenon DEF IsInjective
    <3>5. UpOrdered(g, w)
      <4>1. \A p \in 2..n : Parent(p) # w /\ Parent(p) \in 1..n
        <5> SUFFICES ASSUME NEW p \in 2..n PROVE Parent(p) # w /\ Parent(p) \in 1..n
          OBVIOUS
        <5>1. p \in Nat /\ p > 1
          OBVIOUS
        <5>2. Parent(p) \in Nat /\ 1 <= Parent(p) /\ Parent(p) < p /\ p \in {2 * Parent(p), 2 * Parent(p) + 1}
          BY SMTT(60), <5>1, ParentFacts
        <5> QED
          BY <1>1, <2>1, <5>1, <5>2
      <4>2. \A p \in 2..n : p # w => ~Less(g[p], g[Parent(p)])
        BY SMTT(60), <1>1, <3>1, <4>1 DEF HeapOrdered
      <4> QED
        BY <3>1, <4>1, <4>2 DEF UpOrdered
    <3> DEFINE r == SiftUp(g, w)
    <3>6. w \in 1..Len(g)
      BY SMTT(60), <2>1, <3>1
    <3>7. /\ r \in Seq(E) /\ Len(r) = Len(g) /\ Range(r) = Range(g)
          /\ IsInjective(g) => IsInjective(r)
          /\ HeapOrdered(r)
      BY SMTT(60), <3>1, <3>5, <3>6, SiftUpFacts
    <3>8. insert(h, length, v) = r
      BY <1>4, <2>3 DEF insert, g, w
    <3> HIDE DEF r
    <3> QED
      BY SMTT(60), <1>1, <1>4, <3>1, <3>3, <3>4, <3>7, <3>8 DEF IsHeap
  <2> QED
    BY <2>2, <2>3
<1> QED
  BY <1>3, <1>4

LEMMA InsertAllRuns ==
  ASSUME NEW E, IsEntrySet(E), NEW length \in Nat \ {0}, NEW h, IsHeap(E, length, h), NEW values \in Seq(E)
  PROVE  \E f : /\ f[0] = h
                /\ \A k \in 1..Len(values) : f[k] = insert(f[k - 1], length, values[k])
                /\ insertAll(h, length, values) = f[Len(values)]
<1> DEFINE n == Len(values)
           State == {s \in Seq(E) : IsHeap(E, length, s)}
           Step(b, k) == insert(b, length, values[k])
           step == [k \in 1..n |-> [s \in State |-> Step(s, k)]]
           Body(f) == [k \in 0..n |-> IF k = 0 THEN h
                         ELSE CHOOSE t \in {Step(b, k) : b \in {f[k - 1]}} : TRUE]
           at == CHOOSE at : at = Body(at)
<1>1. n \in Nat /\ h \in State /\ \A k \in 1..n : values[k] \in E
  BY DEF IsHeap
<1>2. \A k \in 1..n, t \in State : step[k][t] = Step(t, k) /\ step[k][t] \in State
  <2>1. \A k \in 1..n, t \in State : IsHeap(E, length, Step(t, k))
    BY Zenon, <1>1, InsertFacts
  <2>2. \A k \in 1..n, t \in State : Step(t, k) \in State
    BY <2>1, Zenon DEF IsHeap
  <2> HIDE DEF State, Step
  <2> QED
    BY SMTT(60), <2>2
<1>3. PICK f : IsRun(f, State, n, h, step)
  <2> HIDE DEF State, step, n
  <2>1. StaysIn(State, n, step)
    BY <1>2, Zenon DEF StaysIn
  <2> QED
    BY <1>1, <2>1, LoopExists
<1>4. \A k \in 1..n : f[k] = Step(f[k - 1], k)
  <2> HIDE DEF State, step, Step, n
  <2> QED
    BY <1>1, <1>2, <1>3 DEF IsRun
<1>5. f = Body(f)
  <2> HIDE DEF State, Step, n
  <2> QED
    BY <1>1, <1>3, <1>4 DEF IsRun
<1>6. at = Body(at)
  <2> HIDE DEF Body
  <2> QED
    BY <1>5, Zenon
<1>7. insertAll(h, length, values) = at[n]
  BY DEF insertAll, Loop
<1> HIDE DEF at
<1>8. at[0] = h /\ \A k \in 1..n : at[k] = Step(at[k - 1], k)
  <2> HIDE DEF Step, n
  <2> QED
    BY SMTT(60), <1>1, <1>6
<1> QED
  BY <1>7, <1>8, Zenon

(* The inserts of one step of a search: whatever the order and the         *)
(* distances, the queue stays a heap within its length and holds nothing   *)
(* but old and new entries; if there is room for all of them none is given *)
(* up; entries that differ stay different.                                 *)
THEOREM InsertAllFacts ==
  ASSUME NEW E, IsEntrySet(E), NEW length \in Nat \ {0}, NEW h, IsHeap(E, length, h), NEW values \in Seq(E)
  PROVE  /\ IsHeap(E, length, insertAll(h, length, values))
         /\ Range(insertAll(h, length, values)) \subseteq Range(h) \union Range(values)
         /\ Len(h) + Len(values) <= length =>
              Range(insertAll(h, length, values)) = Range(h) \union Range(values)
         /\ IsInjective(h) /\ IsInjective(values) /\ Range(h) \cap Range(values) = {} =>
              IsInjective(insertAll(h, length, values))
<1> DEFINE n == Len(values)
           Pre(k) == {values[j] : j \in 1..k}
           Fits(k) == Len(h) + k <= length
           Fresh == IsInjective(h) /\ IsInjective(values) /\ Range(h) \cap Range(values) = {}
<1>1. PICK f : /\ f[0] = h
               /\ \A k \in 1..n : f[k] = insert(f[k - 1], length, values[k])
               /\ insertAll(h, length, values) = f[n]
  BY InsertAllRuns
<1>2. n \in Nat /\ h \in Seq(E) /\ Len(h) \in Nat /\ DOMAIN values = 1..n /\ \A k \in 1..n : values[k] \in E
  BY DEF IsHeap
<1>3. Pre(0) = {} /\ Pre(n) = Range(values)
  BY <1>2 DEF Range
<1>4. \A k \in 1..n : Pre(k) = Pre(k - 1) \union {values[k]}
  BY <1>2
<1>5. Fresh => \A k \in 1..n : values[k] \notin Range(h) /\ values[k] \notin Pre(k - 1)
  <2> SUFFICES ASSUME Fresh, NEW k \in 1..n PROVE values[k] \notin Range(h) /\ values[k] \notin Pre(k - 1)
    OBVIOUS
  <2>1. values[k] \in Range(values)
    BY <1>2 DEF Range
  <2>2. \A j \in 1..(k - 1) : values[j] # values[k]
    BY SMTT(60), <1>2 DEF IsInjective
  <2> QED
    BY SMTT(60), <2>1, <2>2
<1> DEFINE S == {k \in 0..n :
                   /\ IsHeap(E, length, f[k])
                   /\ Range(f[k]) \subseteq Range(h) \union Pre(k)
                   /\ Fits(k) => Range(f[k]) = Range(h) \union Pre(k) /\ Len(f[k]) = Len(h) + k
                   /\ Fresh => IsInjective(f[k])}
<1> HIDE DEF n, Pre
<1>6. 0 \in S
  BY SMTT(60), <1>1, <1>2, <1>3
<1>7. ASSUME NEW k \in 1..n, k - 1 \in S PROVE k \in S
  <2> DEFINE b == f[k - 1]
             v == values[k]
             r == insert(b, length, v)
  <2>1. /\ IsHeap(E, length, b) /\ v \in E /\ f[k] = r /\ k \in 0..n
        /\ Range(b) \subseteq Range(h) \union Pre(k - 1)
        /\ Fits(k - 1) => Range(b) = Range(h) \union Pre(k - 1) /\ Len(b) = Len(h) + (k - 1)
        /\ Fresh => IsInjective(b)
    <3> HIDE DEF Fits, Fresh
    <3> QED
      BY SMTT(60), <1>1, <1>2, <1>7
  <2> HIDE DEF b, v
  <2>2. /\ IsHeap(E, length, r) /\ Range(r) \subseteq Range(b) \union {v}
        /\ Len(b) < length => Range(r) = Range(b) \union {v} /\ Len(r) = Len(b) + 1
        /\ IsInjective(b) /\ v \notin Range(b) => IsInjective(r)
    BY <2>1, InsertFacts
  <2> HIDE DEF r
  <2>3. Pre(k) = Pre(k - 1) \union {v}
    BY SMTT(60), <1>4 DEF v
  <2>4. Range(r) \subseteq Range(h) \union Pre(k)
    BY SMTT(60), <2>1, <2>2, <2>3
  <2>5. Fits(k) => Range(r) = Range(h) \union Pre(k) /\ Len(r) = Len(h) + k
    BY SMTT(60), <1>2, <2>1, <2>2, <2>3
  <2>6. Fresh => IsInjective(r)
    <3> HIDE DEF Fresh
    <3> QED
      BY SMTT(60), <1>5, <2>1, <2>2 DEF v
  <2> QED
    <3> HIDE DEF Fits, Fresh
    <3> QED
      BY SMTT(60), <2>1, <2>2, <2>4, <2>5, <2>6
<1>8. n \in S
  <2> HIDE DEF S
  <2>1. \A k \in 1..n : k - 1 \in S => k \in S
    BY <1>7
  <2>2. \A k \in 0..n : k \in S
    BY <1>2, <1>6, <2>1, LoopInduction, Zenon
  <2> QED
    BY <1>2, <2>2
<1> QED
  BY SMTT(60), <1>1, <1>3, <1>8 DEF n

-----------------------------------------------------------------------------
(* pop removes one entry, the top, gives up no other, and what is left is  *)
(* a heap again.                                                           *)
THEOREM PopFacts ==
  ASSUME NEW E, IsEntrySet(E), NEW length \in Nat, NEW h, IsHeap(E, length, h), h # <<>>
  PROVE  /\ IsHeap(E, length, pop(h)) /\ Len(pop(h)) = Len(h) - 1
         /\ h[1] \in E /\ Range(h) = Range(pop(h)) \union {h[1]}
         /\ IsInjective(h) => IsInjective(pop(h)) /\ h[1] \notin Range(pop(h))
<1> DEFINE n == Len(h)
<1>1. /\ h \in Seq(E) /\ n \in Nat \ {0} /\ n <= length /\ HeapOrdered(h) /\ DOMAIN h = 1..n /\ h[1] \in E
      /\ \A k \in 1..n : h[k] \in Range(h)
  BY DEF IsHeap, Range
<1>2. CASE n = 1
  <2>1. pop(h) = <<>>
    BY <1>2 DEF pop
  <2>2. Range(h) = {h[1]}
    BY <1>1, <1>2 DEF Range
  <2>3. IsHeap(E, length, <<>>) /\ Range(<<>>) = {} /\ IsInjective(<<>>)
    BY RangeOfEmpty DEF IsHeap, HeapOrdered, IsInjective
  <2> QED
    BY <1>1, <1>2, <2>1, <2>2, <2>3
<1>3. CASE n # 1
  <2> DEFINE t == SubSeq(h, 1, n - 1)
             g == [t EXCEPT ![1] = h[n]]
  <2>1. t \in Seq(E) /\ Len(t) = n - 1 /\ \A k \in 1..(n - 1) : t[k] = h[k]
    BY <1>1, <1>3
  <2> HIDE DEF t, n
  <2>2. /\ g \in Seq(E) /\ Len(g) = n - 1 /\ DOMAIN g = 1..(n - 1)
        /\ g[1] = h[n] /\ \A k \in 2..(n - 1) : g[k] = h[k]
    BY <1>1, <1>3, <2>1
  <2> HIDE DEF g
  <2>3. Range(g) \subseteq Range(h)
    <3> SUFFICES ASSUME NEW k \in 1..(n - 1) PROVE g[k] \in Range(h)
      BY <2>2 DEF Range
    <3> QED
      BY SMTT(60), <1>1, <1>3, <2>2
  <2>4. Range(h) \subseteq Range(g) \union {h[1]}
    <3> SUFFICES ASSUME NEW k \in 1..n PROVE h[k] \in Range(g) \union {h[1]}
      BY <1>1 DEF Range
    <3>1. CASE k = 1
      BY <3>1
    <3>2. CASE k = n
      <4>1. 1 \in DOMAIN g /\ g[1] = h[k]
        BY SMTT(60), <1>1, <1>3, <2>2, <3>2
      <4> QED
        BY <4>1 DEF Range
    <3>3. CASE k # 1 /\ k # n
      <4>1. k \in DOMAIN g /\ g[k] = h[k]
        BY <1>1, <2>2, <3>3
      <4> QED
        BY <4>1 DEF Range
    <3> QED
      BY SMTT(60), <3>1, <3>2, <3>3
  <2>5. ASSUME IsInjective(h) PROVE IsInjective(g) /\ h[1] \notin Range(g)
    <3>1. \A a, b \in 1..n : h[a] = h[b] => a = b
      BY SMTT(60), <1>1, <2>5 DEF IsInjective
    <3>2. \A a, b \in 1..(n - 1) : g[a] = g[b] => a = b
      BY SMTT(60), <1>1, <1>3, <2>2, <3>1
    <3>3. \A a \in 1..(n - 1) : g[a] # h[1]
      BY <1>1, <1>3, <2>2, <3>1
    <3>4. IsInjective(g)
      BY <2>2, <3>2, Zenon DEF IsInjective
    <3>5. h[1] \notin Range(g)
      BY <2>2, <3>3, Zenon DEF Range
    <3> QED
      BY <3>4, <3>5
  <2>6. DownOrdered(g, 1)
    <3> SUFFICES ASSUME NEW p \in 2..(n - 1), Parent(p) # 1 PROVE ~Less(g[p], g[Parent(p)])
      BY <2>2 DEF DownOrdered
    <3>1. p \in Nat /\ Parent(p) \in 2..(n - 1) /\ p \in 2..n
      BY SMTT(60), <1>1, ParentFacts
    <3> QED
      BY SMTT(30), <1>1, <2>2, <3>1 DEF HeapOrdered, n
  <2> DEFINE r == SiftDown(g)
  <2>7. /\ r \in Seq(E) /\ Len(r) = Len(g) /\ Range(r) = Range(g)
        /\ IsInjective(g) => IsInjective(r)
        /\ HeapOrdered(r)
    <3>1. g # <<>>
      BY <1>1, <1>3, <2>2
    <3> QED
      BY SMTT(60), <2>2, <2>6, <3>1, SiftDownFacts
  <2>8. pop(h) = r
    BY <1>3 DEF pop, g, t, n
  <2> HIDE DEF r
  <2> QED
    <3>1. IsHeap(E, length, r) /\ Len(r) = n - 1
      BY SMTT(60), <1>1, <2>2, <2>7 DEF IsHeap
    <3>2. h[1] \in Range(h)
      BY <1>1
    <3>3. Range(h) = Range(r) \union {h[1]}
      BY SMTT(60), <2>3, <2>4, <2>7, <3>2
    <3> QED
      BY <1>1, <2>5, <2>7, <2>8, <3>1, <3>3, Zenon DEF n
<1> QED
  BY <1>2, <1>3

-----------------------------------------------------------------------------
(* More on sequences and indices.                                          *)
LEMMA IndicesOf ==
  ASSUME NEW S, NEW s \in Seq(S)
  PROVE  Len(s) \in Nat /\ DOMAIN s = 1..Len(s)
OBVIOUS

LEMMA ElementOf ==
  ASSUME NEW S, NEW s \in Seq(S)
  PROVE  \A k \in DOMAIN s : s[k] \in S
OBVIOUS

(* g is s with e put at its end, entry by entry. *)
Extended(s, e, g) ==
  /\ Len(s) \in Nat /\ DOMAIN s = 1..Len(s) /\ DOMAIN g = 1..(Len(s) + 1)
  /\ g[Len(s) + 1] = e /\ Len(s) + 1 \in 1..(Len(s) + 1)
  /\ \A k \in 1..Len(s) : g[k] = s[k] /\ k \in 1..(Len(s) + 1) /\ k # Len(s) + 1

LEMMA AppendShape ==
  ASSUME NEW S, NEW s \in Seq(S), NEW e \in S
  PROVE  Extended(s, e, Append(s, e))
BY DEF Extended

LEMMA SeqInto ==
  ASSUME NEW S, NEW T, NEW s \in Seq(S), Range(s) \subseteq T
  PROVE  s \in Seq(T)
<1>1. \A k \in DOMAIN s : s[k] \in T
  BY Zenon DEF Range
<1> QED
  BY <1>1

LEMMA EmptySeq == \A S : <<>> \in Seq(S)
OBVIOUS

LEMMA NextNat == \A n \in Nat : n + 0 = n /\ n + 1 \in Nat
OBVIOUS

LEMMA EarlierIndex ==
  ASSUME NEW n \in Nat, NEW b \in 1..n, NEW a \in 1..(b - 1)
  PROVE  a \in 1..n /\ a \in Nat /\ b \in Nat /\ a < b /\ \A k \in 1..a : k \in 1..n /\ k # b
OBVIOUS

LEMMA NotBothLess ==
  ASSUME NEW m \in Int, NEW n \in Int, m <= n, n < m
  PROVE  FALSE
OBVIOUS

(* A sequence of allocated work spaces stays one when another is made.     *)
LEMMA LargerSeq ==
  ASSUME NEW m \in Nat, NEW k \in Nat, m <= k, NEW s \in Seq(1..m)
  PROVE  s \in Seq(1..k)
<1>1. 1..m \subseteq 1..k
  OBVIOUS
<1>2. QED
  BY <1>1

-----------------------------------------------------------------------------
(* The index: tree nodes with a row, the nodes below a node, the nodes and *)
(* rows of groups' members, the group a row heads, and the rows a search   *)
(* queues once it has taken a row.                                         *)
Good(x) == {t \in DOMAIN x.tree : x.tree[t].center \in x.rows}
Below(x, t) == Range(x.tree[t].children)
MemberNodes(x) == UNION {Below(x, t) : t \in {u \in DOMAIN x.tree : ~x.tree[u].inner}}
Members(x) == {x.tree[c].center : c \in MemberNodes(x)}
Group(x, r) == IF x.group[r] = Null THEN {} ELSE {x.tree[c].center : c \in Below(x, x.group[r])}
Succ(x, r) == Range(x.neighbours[r]) \union Group(x, r)

LEMMA TreeFacts ==
  ASSUME NEW x \in Indexes
  PROVE  /\ Len(x.tree) \in Nat /\ DOMAIN x.tree = 1..Len(x.tree)
         /\ \A t \in DOMAIN x.tree :
              /\ x.tree[t].children \in Seq(DOMAIN x.tree) /\ IsInjective(x.tree[t].children)
              /\ Below(x, t) \subseteq Good(x)
              /\ \A c \in Below(x, t) : c > t /\ c \notin Range(x.starts)
              /\ \A c \in Below(x, t) : ~x.tree[t].inner => Below(x, c) = {}
              /\ \A u \in DOMAIN x.tree : Below(x, t) \intersect Below(x, u) # {} => t = u
         /\ x.starts \in Seq(DOMAIN x.tree) /\ x.starts # <<>>
         /\ \A t \in Range(x.starts) : t \in DOMAIN x.tree /\ (~x.tree[t].inner => t \in Good(x))
         /\ \A t \in DOMAIN x.tree : t \in Good(x) <=> ~(x.tree[t].inner /\ t \in Range(x.starts))
<1>1. TreesOK(x)
  BY Zenon, IndexAssumption DEF IndexOK
<1>2. /\ Len(x.tree) \in Nat /\ DOMAIN x.tree = 1..Len(x.tree)
      /\ x.starts \in Seq(DOMAIN x.tree) /\ x.starts # <<>>
      /\ \A t \in DOMAIN x.tree : x.tree[t].children \in Seq(DOMAIN x.tree)
  <2> DEFINE kids == Seq(1..Len(x.tree))
             T == [center : Row \union {Null}, inner : BOOLEAN, children : kids]
  <2>1. x.tree \in Seq(T) /\ x.starts \in Seq(DOMAIN x.tree) /\ x.starts # <<>>
    BY <1>1, Zenon DEF TreesOK
  <2>2. Len(x.tree) \in Nat /\ DOMAIN x.tree = 1..Len(x.tree) /\ \A t \in DOMAIN x.tree : x.tree[t] \in T
    <3> HIDE DEF T
    <3> QED
      BY <2>1
  <2>3. \A t \in DOMAIN x.tree : x.tree[t].children \in kids
    <3> HIDE DEF kids
    <3> QED
      BY Zenon, <2>2
  <2> QED
    BY <2>1, <2>2, <2>3, Zenon
<1>3. \A t \in DOMAIN x.tree : x.tree[t].center \in x.rows <=> ~(x.tree[t].inner /\ t \in Range(x.starts))
  BY <1>1, Zenon DEF TreesOK
<1>4. \A t \in DOMAIN x.tree : \A c \in Below(x, t) :
        c > t /\ c \notin Range(x.starts) /\ (~x.tree[t].inner => x.tree[c].children = <<>>)
  BY <1>1, Zenon DEF TreesOK, Below
<1>5. \A t, u \in DOMAIN x.tree : \A a \in DOMAIN x.tree[t].children, b \in DOMAIN x.tree[u].children :
        x.tree[t].children[a] = x.tree[u].children[b] => t = u /\ a = b
  BY <1>1, Zenon DEF TreesOK
<1>6. \A t \in DOMAIN x.tree : Below(x, t) \subseteq DOMAIN x.tree
  BY Zenon, <1>2, RangeOfSeq DEF Below
<1>7. \A t \in DOMAIN x.tree : Below(x, t) \subseteq Good(x)
  BY <1>3, <1>4, <1>6, Zenon DEF Good
<1>8. \A t \in DOMAIN x.tree : IsInjective(x.tree[t].children)
  BY <1>5, Zenon DEF IsInjective
<1>9. \A t, u \in DOMAIN x.tree : Below(x, t) \intersect Below(x, u) # {} => t = u
  <2> SUFFICES ASSUME NEW t \in DOMAIN x.tree, NEW u \in DOMAIN x.tree, NEW c \in Below(x, t), c \in Below(x, u)
               PROVE  t = u
    BY Zenon
  <2>1. PICK a \in DOMAIN x.tree[t].children : x.tree[t].children[a] = c
    BY Zenon DEF Below, Range
  <2>2. PICK b \in DOMAIN x.tree[u].children : x.tree[u].children[b] = c
    BY Zenon DEF Below, Range
  <2> QED
    BY <1>5, <2>1, <2>2, Zenon
<1>10. \A t \in Range(x.starts) : t \in DOMAIN x.tree
  BY Zenon, <1>2, RangeOfSeq
<1>11. \A t \in DOMAIN x.tree : \A c \in Below(x, t) : ~x.tree[t].inner => Below(x, c) = {}
  BY <1>4, RangeOfEmpty, Zenon DEF Below
<1>12. \A t \in Range(x.starts) : ~x.tree[t].inner => t \in Good(x)
  BY <1>3, <1>10, Zenon DEF Good
<1>13. \A t \in DOMAIN x.tree : t \in Good(x) <=> ~(x.tree[t].inner /\ t \in Range(x.starts))
  BY <1>3, Zenon DEF Good
<1> QED
  BY <1>2, <1>4, <1>7, <1>8, <1>9, <1>10, <1>11, <1>12, <1>13, Zenon

LEMMA RowFacts ==
  ASSUME NEW x \in Indexes
  PROVE  /\ x.rows \subseteq Row /\ x.deleted \subseteq x.rows /\ x.maxCheck \in Nat \ {0}
         /\ \A r \in x.rows : /\ x.neighbours[r] \in Seq(x.rows)
                              /\ x.group[r] # Null => x.group[r] \in DOMAIN x.tree
                              /\ Group(x, r) \subseteq x.rows /\ Succ(x, r) \subseteq x.rows
<1>1. /\ x.rows \subseteq Row /\ x.deleted \subseteq x.rows /\ x.maxCheck \in Nat \ {0}
      /\ \A r \in x.rows : x.neighbours[r] \in Seq(x.rows) /\ (x.group[r] # Null => x.group[r] \in DOMAIN x.tree)
  BY Zenon, IndexAssumption DEF IndexOK
<1>2. \A r \in x.rows : Group(x, r) \subseteq x.rows
  <2> SUFFICES ASSUME NEW r \in x.rows, x.group[r] # Null, NEW c \in Below(x, x.group[r])
               PROVE  x.tree[c].center \in x.rows
    BY Zenon DEF Group
  <2>1. c \in Good(x)
    BY <1>1, TreeFacts, Zenon
  <2> QED
    BY <2>1, Zenon DEF Good
<1>3. \A r \in x.rows : Range(x.neighbours[r]) \subseteq x.rows
  BY ZenonT(60), <1>1, RangeOfSeq
<1> QED
  BY <1>1, <1>2, <1>3, Zenon DEF Succ

-----------------------------------------------------------------------------
(* An index with one tree.                                                 *)
LEMMA OneTreeFacts ==
  ASSUME NEW x \in Indexes, Len(x.starts) = 1
  PROVE  /\ \A h \in x.rows : \A m \in Group(x, h) : m \in Members(x) /\ h \notin Members(x)
         /\ \A g, h \in x.rows : Group(x, g) \intersect Group(x, h) # {} => g = h
         /\ \A r \in x.rows : Range(x.neighbours[r]) \intersect Members(x) = {}
         /\ \A t \in Good(x) \ MemberNodes(x) : x.tree[t].center \in x.rows \ Members(x)
         /\ \A t \in DOMAIN x.tree : x.tree[t].inner => Below(x, t) \subseteq Good(x) \ MemberNodes(x)
         /\ Range(x.starts) \intersect MemberNodes(x) = {}
         /\ \A t \in MemberNodes(x) : Below(x, t) = {}
         /\ \A t, u \in DOMAIN x.tree : x.tree[t].center = x.tree[u].center => t = u
         /\ \A m \in Members(x) \ Unlisted(x) : \E h \in x.rows : m \in Group(x, h)
         /\ Unlisted(x) \subseteq Members(x) /\ \A h \in x.rows : Group(x, h) \intersect Unlisted(x) = {}
         /\ \A r \in x.rows \ Members(x) : \E t \in Good(x) \ MemberNodes(x) : x.tree[t].center = r
         /\ \A t \in Good(x) : t \notin Range(x.starts) => \E u \in DOMAIN x.tree : t \in Below(x, u)
<1>1. OneTree(x)
  BY IndexAssumption, Zenon DEF IndexOK
<1>2. \A t, u \in DOMAIN x.tree : x.tree[t].center = x.tree[u].center => t = u
  BY <1>1, Zenon DEF OneTree
<1>3. \A h \in x.rows : x.group[h] # Null =>
        x.group[h] \in DOMAIN x.tree /\ x.tree[x.group[h]].center = h /\ ~x.tree[x.group[h]].inner
  BY <1>1, RowFacts, Zenon DEF OneTree
<1>0. \A c \in MemberNodes(x) : \E t \in DOMAIN x.tree : ~x.tree[t].inner /\ c \in Below(x, t)
  BY Zenon DEF MemberNodes
<1>4. /\ MemberNodes(x) \subseteq Good(x) /\ Good(x) \subseteq DOMAIN x.tree
      /\ \A t \in DOMAIN x.tree : Below(x, t) \subseteq DOMAIN x.tree
  <2>1. Good(x) \subseteq DOMAIN x.tree
    BY Zenon DEF Good
  <2>2. \A t \in DOMAIN x.tree : Below(x, t) \subseteq Good(x)
    BY TreeFacts, Zenon
  <2> QED
    BY <1>0, <2>1, <2>2, Zenon
<1>5. \A c \in MemberNodes(x) : Below(x, c) = {} /\ c \notin Range(x.starts)
  <2> SUFFICES ASSUME NEW c \in MemberNodes(x) PROVE Below(x, c) = {} /\ c \notin Range(x.starts)
    BY Zenon
  <2>1. PICK t \in DOMAIN x.tree : ~x.tree[t].inner /\ c \in Below(x, t)
    BY <1>0, Zenon
  <2>2. /\ \A d \in Below(x, t) : d > t /\ d \notin Range(x.starts)
        /\ \A d \in Below(x, t) : ~x.tree[t].inner => Below(x, d) = {}
    BY TreeFacts, Zenon
  <2> QED
    BY <2>1, <2>2, Zenon
<1>6. \A h \in x.rows : \A m \in Group(x, h) :
        x.group[h] # Null /\ \E c \in Below(x, x.group[h]) : c \in MemberNodes(x) /\ m = x.tree[c].center
  BY <1>3, Zenon DEF Group, MemberNodes
<1>7. \A c \in DOMAIN x.tree : x.tree[c].center \in Members(x) => c \in MemberNodes(x)
  BY <1>2, <1>4, Zenon DEF Members
<1>8. \A h \in x.rows : \A m \in Group(x, h) : m \in Members(x) /\ h \notin Members(x)
  <2> SUFFICES ASSUME NEW h \in x.rows, NEW m \in Group(x, h) PROVE m \in Members(x) /\ h \notin Members(x)
    BY Zenon
  <2>1. PICK c \in Below(x, x.group[h]) : c \in MemberNodes(x) /\ m = x.tree[c].center
    BY <1>6, Zenon
  <2>2. x.group[h] \notin MemberNodes(x)
    BY <1>5, <2>1, Zenon
  <2>3. h \notin Members(x)
    BY <1>3, <1>6, <1>7, <2>2, Zenon
  <2> QED
    BY <2>1, <2>3, Zenon DEF Members
<1>9. ASSUME NEW g \in x.rows, NEW h \in x.rows, NEW m \in Group(x, g), m \in Group(x, h) PROVE g = h
  <2>1. PICK c \in Below(x, x.group[g]) : c \in MemberNodes(x) /\ m = x.tree[c].center
    BY <1>6, Zenon
  <2>2. PICK d \in Below(x, x.group[h]) : d \in MemberNodes(x) /\ m = x.tree[d].center
    BY <1>6, <1>9, Zenon
  <2>3. c = d
    BY <1>2, <1>4, <2>1, <2>2, Zenon
  <2>4. x.group[g] # Null /\ x.group[h] # Null
    BY <1>6, <1>9, Zenon
  <2>5. x.group[g] = x.group[h]
    BY <1>3, <2>3, <2>4, TreeFacts, Zenon
  <2> QED
    BY <1>3, <2>4, <2>5, Zenon
<1>10. ASSUME NEW c \in MemberNodes(x)
       PROVE  \E t \in DOMAIN x.tree : /\ ~x.tree[t].inner /\ c \in Below(x, t)
                                       /\ x.tree[t].center \in x.rows
                                       /\ \A r \in x.rows : x.tree[c].center \notin Range(x.neighbours[r])
  <2>1. PICK t \in DOMAIN x.tree : ~x.tree[t].inner /\ c \in Below(x, t)
    BY Zenon DEF MemberNodes
  <2>2. \A r \in x.rows : x.tree[c].center \notin Range(x.neighbours[r])
    BY <1>1, <2>1, Zenon DEF OneTree, Below
  <2>3. x.tree[t].center \in x.rows
    BY <2>1, IndexAssumption, Zenon DEF IndexOK, TreesOK
  <2> QED
    BY <2>1, <2>2, <2>3, Zenon
<1>11. \A r \in x.rows : Range(x.neighbours[r]) \intersect Members(x) = {}
  BY <1>10, Zenon DEF Members
<1>12. \A t \in Good(x) \ MemberNodes(x) : x.tree[t].center \in x.rows \ Members(x)
  BY <1>7, Zenon DEF Good
<1>13. \A t \in DOMAIN x.tree : x.tree[t].inner => Below(x, t) \subseteq Good(x) \ MemberNodes(x)
  <2> SUFFICES ASSUME NEW t \in DOMAIN x.tree, x.tree[t].inner, NEW c \in Below(x, t), c \in MemberNodes(x)
               PROVE  FALSE
    BY TreeFacts, Zenon
  <2>1. PICK u \in DOMAIN x.tree : ~x.tree[u].inner /\ c \in Below(x, u)
    BY Zenon DEF MemberNodes
  <2>2. t = u
    BY <2>1, TreeFacts, Zenon
  <2> QED
    BY <2>1, <2>2, Zenon
<1>14. \A m \in Members(x) \ Unlisted(x) : \E h \in x.rows : m \in Group(x, h)
  <2> SUFFICES ASSUME NEW c \in MemberNodes(x), x.tree[c].center \notin Unlisted(x)
               PROVE  \E h \in x.rows : x.tree[c].center \in Group(x, h)
    BY Zenon DEF Members
  <2>1. PICK t \in DOMAIN x.tree : ~x.tree[t].inner /\ c \in Below(x, t) /\ x.tree[t].center \in x.rows
    BY <1>10, Zenon
  <2>2. t # Null
    BY TreeFacts DEF Null
  <2>3. x.group[x.tree[t].center] = t
    BY <2>1, Zenon DEF Unlisted, Below
  <2> QED
    BY <2>1, <2>2, <2>3, Zenon DEF Group
<1>17. \A m \in Unlisted(x) : \E t \in DOMAIN x.tree :
         ~x.tree[t].inner /\ x.group[x.tree[t].center] # t /\ \E c \in Below(x, t) : m = x.tree[c].center
  BY Zenon DEF Unlisted, Below
<1>18. Unlisted(x) \subseteq Members(x)
  BY <1>17, Zenon DEF Members, MemberNodes
<1>19. ASSUME NEW h \in x.rows, NEW m \in Group(x, h), m \in Unlisted(x) PROVE FALSE
  <2>1. PICK t \in DOMAIN x.tree :
          ~x.tree[t].inner /\ x.group[x.tree[t].center] # t /\ \E c \in Below(x, t) : m = x.tree[c].center
    BY <1>17, <1>19, Zenon
  <2>2. PICK c \in Below(x, t) : m = x.tree[c].center
    BY Zenon, <2>1
  <2>3. PICK d \in Below(x, x.group[h]) : d \in MemberNodes(x) /\ m = x.tree[d].center
    BY <1>6, Zenon
  <2>4. c \in DOMAIN x.tree /\ d \in DOMAIN x.tree /\ c = d
    BY <1>2, <1>4, <2>2, <2>3, Zenon
  <2>5. x.group[h] \in DOMAIN x.tree /\ x.tree[x.group[h]].center = h
    BY <1>3, <1>6, Zenon
  <2>6. x.group[h] = t
    BY <2>2, <2>3, <2>4, <2>5, TreeFacts, Zenon
  <2> QED
    BY <2>1, <2>5, <2>6, Zenon
<1>15. \A r \in x.rows \ Members(x) : \E t \in Good(x) \ MemberNodes(x) : x.tree[t].center = r
  <2> SUFFICES ASSUME NEW r \in x.rows, r \notin Members(x)
               PROVE  \E t \in Good(x) \ MemberNodes(x) : x.tree[t].center = r
    BY Zenon
  <2>1. PICK t \in DOMAIN x.tree : x.tree[t].center = r
    BY <1>1, Zenon DEF OneTree
  <2>2. t \in Good(x) /\ t \notin MemberNodes(x)
    BY <2>1, Zenon DEF Good, Members
  <2> QED
    BY <2>1, <2>2, Zenon
<1>16. \A t \in Good(x) : t \notin Range(x.starts) => \E u \in DOMAIN x.tree : t \in Below(x, u)
  BY <1>1, Zenon DEF OneTree, Good, Below
<1> QED
  BY ZenonT(60), <1>2, <1>5, <1>8, <1>9, <1>11, <1>12, <1>13, <1>14, <1>15, <1>16, <1>18, <1>19

(* The nodes InitSearchTrees starts from, and whatever is below them, are  *)
(* all the nodes but the groups' members.                                  *)
First(x) == IF x.tree[x.starts[1]].inner THEN Below(x, x.starts[1]) ELSE {x.starts[1]}

Closed(x, C) == \A t \in C : x.tree[t].inner => Below(x, t) \subseteq C

LEMMA TreeCover ==
  ASSUME NEW x \in Indexes, Len(x.starts) = 1, NEW C, First(x) \subseteq C, Closed(x, C)
  PROVE  Good(x) \ MemberNodes(x) \subseteq C
<1> DEFINE n == Len(x.tree)
           G == Good(x) \ MemberNodes(x)
           S == {k \in 0..n : \A u \in 1..k : u \in G => u \in C}
<1>1. /\ n \in Nat /\ DOMAIN x.tree = 1..n /\ Good(x) \subseteq 1..n
      /\ \A t \in 1..n : t \in Good(x) <=> ~(x.tree[t].inner /\ t \in Range(x.starts))
      /\ \A t \in 1..n : \A c \in Below(x, t) : c > t
  BY ZenonT(60), TreeFacts DEF Good
<1>2. Range(x.starts) = {x.starts[1]}
  BY SMTT(60), TreeFacts DEF Range
<1>3. 0 \in S
  BY <1>1
<1>4. ASSUME NEW k \in 1..n, k - 1 \in S PROVE k \in S
  <2>1. ASSUME k \in G PROVE k \in C
    <3>1. CASE k \in Range(x.starts)
      BY <1>1, <1>2, <2>1, <3>1, Zenon DEF First
    <3>2. CASE k \notin Range(x.starts)
      <4>1. PICK p \in 1..n : k \in Below(x, p)
        BY <1>1, <2>1, <3>2, OneTreeFacts, Zenon
      <4>2. x.tree[p].inner /\ p \notin MemberNodes(x)
        <5>1. x.tree[p].inner
          BY <1>1, <2>1, <4>1, Zenon DEF MemberNodes
        <5>2. \A t \in MemberNodes(x) : Below(x, t) = {}
          BY OneTreeFacts, Zenon
        <5> QED
          BY <4>1, <5>1, <5>2, Zenon
      <4>3. CASE p \in Range(x.starts)
        BY <1>2, <4>1, <4>2, <4>3, Zenon DEF First
      <4>4. CASE p \notin Range(x.starts)
        <5>1. p \in G
          BY <1>1, <4>2, <4>4, Zenon
        <5>2. p \in 1..(k - 1)
          BY <1>1, <4>1
        <5>3. p \in C
          BY ZenonT(60), <1>4, <5>1, <5>2
        <5> QED
          BY <4>1, <4>2, <5>3, Zenon DEF Closed
      <4> QED
        BY Zenon, <4>3, <4>4
    <3> QED
      BY Zenon, <3>1, <3>2
  <2> HIDE DEF G
  <2>2. \A u \in 1..k : u \in 1..(k - 1) \/ u = k
    BY SMTT(60), <1>1
  <2> QED
    BY <1>4, <2>1, <2>2
<1>5. n \in S
  <2> HIDE DEF S
  <2>1. \A k \in 1..n : k - 1 \in S => k \in S
    BY Zenon, <1>4
  <2>2. \A k \in 0..n : k \in S
    BY ZenonT(60), <1>1, <1>3, <2>1, LoopInduction
  <2> QED
    BY <1>1, <2>2
<1> QED
  <2> HIDE DEF n
  <2> QED
    BY <1>1, <1>5, Zenon

-----------------------------------------------------------------------------
(* Queues of nodes: an entry is a node with its distance.                  *)
Pairs(D) == {[node |-> n, distance |-> D[n]] : n \in DOMAIN D}
PairsOf(D, s) == [p \in DOMAIN s |-> [node |-> s[p], distance |-> D[s[p]]]]

LEMMA PairFacts ==
  ASSUME NEW D, \A n \in DOMAIN D : D[n] \in Int
  PROVE  /\ IsEntrySet(Pairs(D))
         /\ \A e \in Pairs(D) : e.node \in DOMAIN D /\ e = [node |-> e.node, distance |-> D[e.node]]
BY DEF Pairs, IsEntrySet

(* The nodes of a queue are those of its entries.                          *)
LEMMA NodesOfPairs ==
  ASSUME NEW D, \A n \in DOMAIN D : D[n] \in Int, NEW h \in Seq(Pairs(D))
  PROVE  /\ Nodes(h) \subseteq DOMAIN D
         /\ Nodes(h) = {e.node : e \in Range(h)}
         /\ \A n : n \in Nodes(h) <=> [node |-> n, distance |-> D[n]] \in Range(h)
<1>1. Range(h) \subseteq Pairs(D)
  BY Zenon, RangeOfSeq
<1>2. Nodes(h) = {e.node : e \in Range(h)}
  BY Zenon DEF Nodes, Range
<1>3. \A e \in Pairs(D) : e.node \in DOMAIN D /\ e = [node |-> e.node, distance |-> D[e.node]]
  BY Zenon, PairFacts
<1>4. \A n : [node |-> n, distance |-> D[n]].node = n
  BY Zenon
<1>5. Nodes(h) \subseteq DOMAIN D
  BY <1>1, <1>2, <1>3, Zenon
<1>6. \A n : n \in Nodes(h) <=> [node |-> n, distance |-> D[n]] \in Range(h)
  <2>1. ASSUME NEW n, n \in Nodes(h) PROVE [node |-> n, distance |-> D[n]] \in Range(h)
    <3>1. PICK e \in Range(h) : n = e.node
      BY <1>2, <2>1, Zenon
    <3>2. e = [node |-> e.node, distance |-> D[e.node]]
      BY <1>1, <1>3, Zenon
    <3> QED
      BY <3>1, <3>2, Zenon
  <2>2. ASSUME NEW n, [node |-> n, distance |-> D[n]] \in Range(h) PROVE n \in Nodes(h)
    BY <1>2, <1>4, <2>2, Zenon
  <2> QED
    BY <2>1, <2>2, Zenon
<1> QED
  BY <1>2, <1>5, <1>6, Zenon

LEMMA PairsOfFacts ==
  ASSUME NEW D, \A n \in DOMAIN D : D[n] \in Int, NEW s \in Seq(DOMAIN D)
  PROVE  /\ PairsOf(D, s) \in Seq(Pairs(D)) /\ Len(PairsOf(D, s)) = Len(s)
         /\ \A n : n \in Range(s) <=> [node |-> n, distance |-> D[n]] \in Range(PairsOf(D, s))
         /\ \A e \in Range(PairsOf(D, s)) : e.node \in Range(s)
         /\ IsInjective(s) => IsInjective(PairsOf(D, s))
<1> DEFINE v == PairsOf(D, s)
<1>1. Len(s) \in Nat /\ DOMAIN s = 1..Len(s) /\ \A k \in 1..Len(s) : s[k] \in DOMAIN D
  OBVIOUS
<1>2. DOMAIN v = 1..Len(s) /\ \A k \in 1..Len(s) : v[k] = [node |-> s[k], distance |-> D[s[k]]]
  BY Zenon, <1>1 DEF PairsOf
<1>3. v \in [1..Len(s) -> Pairs(D)]
  BY Zenon, <1>1 DEF PairsOf, Pairs
<1> HIDE DEF v
<1>4. v \in Seq(Pairs(D)) /\ Len(v) = Len(s)
  BY SMTT(60), <1>1, <1>3
<1>5. \A k \in 1..Len(s) : v[k].node = s[k]
  BY <1>2
<1>6. \A e \in Range(v) : e.node \in Range(s)
  <2> SUFFICES ASSUME NEW k \in 1..Len(s) PROVE v[k].node \in Range(s)
    BY <1>2, Zenon DEF Range
  <2> QED
    BY <1>1, <1>5, Zenon DEF Range
<1>7. \A n : n \in Range(s) => [node |-> n, distance |-> D[n]] \in Range(v)
  BY <1>1, <1>2, Zenon DEF Range
<1>8. \A n : [node |-> n, distance |-> D[n]].node = n
  BY Zenon
<1>9. \A n : [node |-> n, distance |-> D[n]] \in Range(v) => n \in Range(s)
  BY <1>6, <1>8, Zenon
<1>10. IsInjective(s) => IsInjective(v)
  <2> SUFFICES ASSUME IsInjective(s) PROVE IsInjective(v)
    BY Zenon
  <2>1. \A a, b \in 1..Len(s) : s[a] = s[b] => a = b
    BY <1>1, Zenon DEF IsInjective
  <2>2. \A a, b \in 1..Len(s) : v[a] = v[b] => a = b
    BY Zenon, <1>5, <2>1
  <2> QED
    BY <1>2, <2>2, Zenon DEF IsInjective
<1> QED
  BY <1>4, <1>6, <1>7, <1>9, <1>10, Zenon DEF v

LEMMA NodeInsertAll ==
  ASSUME NEW D, \A n \in DOMAIN D : D[n] \in Int, NEW length \in Nat \ {0},
         NEW h, IsHeap(Pairs(D), length, h), NEW s \in Seq(DOMAIN D)
  PROVE  /\ IsHeap(Pairs(D), length, insertAll(h, length, PairsOf(D, s)))
         /\ Nodes(insertAll(h, length, PairsOf(D, s))) \subseteq Nodes(h) \union Range(s)
         /\ Len(h) + Len(s) <= length =>
              Nodes(insertAll(h, length, PairsOf(D, s))) = Nodes(h) \union Range(s)
         /\ IsInjective(h) /\ IsInjective(s) /\ Nodes(h) \intersect Range(s) = {} =>
              IsInjective(insertAll(h, length, PairsOf(D, s)))
<1> DEFINE v == PairsOf(D, s)
           r == insertAll(h, length, v)
           pair(n) == [node |-> n, distance |-> D[n]]
<1>1. /\ v \in Seq(Pairs(D)) /\ Len(v) = Len(s) /\ (IsInjective(s) => IsInjective(v))
      /\ \A n : n \in Range(s) <=> pair(n) \in Range(v)
      /\ \A e \in Range(v) : e.node \in Range(s)
  BY PairsOfFacts, Zenon
<1>2. IsEntrySet(Pairs(D)) /\ h \in Seq(Pairs(D))
  BY PairFacts, Zenon DEF IsHeap
<1> HIDE DEF v
<1>3. /\ IsHeap(Pairs(D), length, r)
      /\ Range(r) \subseteq Range(h) \union Range(v)
      /\ Len(h) + Len(v) <= length => Range(r) = Range(h) \union Range(v)
      /\ IsInjective(h) /\ IsInjective(v) /\ Range(h) \intersect Range(v) = {} => IsInjective(r)
  BY ZenonT(60), <1>1, <1>2, InsertAllFacts
<1> HIDE DEF r, pair
<1>4. r \in Seq(Pairs(D))
  BY Zenon, <1>3 DEF IsHeap
<1>5. \A n : n \in Nodes(h) <=> pair(n) \in Range(h)
  BY <1>2, NodesOfPairs, Zenon DEF pair
<1>6. \A n : n \in Nodes(r) <=> pair(n) \in Range(r)
  BY <1>4, NodesOfPairs, Zenon DEF pair
<1>7. Nodes(r) \subseteq Nodes(h) \union Range(s)
  BY ZenonT(60), <1>1, <1>3, <1>5, <1>6
<1>8. Len(h) + Len(s) <= length => Nodes(r) = Nodes(h) \union Range(s)
  BY ZenonT(60), <1>1, <1>3, <1>5, <1>6
<1>9. ASSUME Nodes(h) \intersect Range(s) = {} PROVE Range(h) \intersect Range(v) = {}
  <2> SUFFICES ASSUME NEW e \in Range(h), e \in Range(v) PROVE FALSE
    BY Zenon
  <2>1. e.node \in Range(s)
    BY <1>1, Zenon
  <2>2. Nodes(h) = {d.node : d \in Range(h)}
    BY <1>2, NodesOfPairs, Zenon
  <2> QED
    BY <1>9, <2>1, <2>2, Zenon
<1> QED
  BY <1>1, <1>3, <1>7, <1>8, <1>9, Zenon DEF r, v

LEMMA NodePop ==
  ASSUME NEW D, \A n \in DOMAIN D : D[n] \in Int, NEW length \in Nat,
         NEW h, IsHeap(Pairs(D), length, h), h # <<>>
  PROVE  /\ IsHeap(Pairs(D), length, pop(h))
         /\ Top(h).node \in DOMAIN D /\ Nodes(h) = Nodes(pop(h)) \union {Top(h).node}
         /\ \A n \in Nodes(h) : D[Top(h).node] <= D[n]
         /\ IsInjective(h) => IsInjective(pop(h)) /\ Top(h).node \notin Nodes(pop(h))
<1> DEFINE r == pop(h)
           e == h[1]
           pair(n) == [node |-> n, distance |-> D[n]]
<1>1. IsEntrySet(Pairs(D)) /\ h \in Seq(Pairs(D)) /\ HeapOrdered(h)
  BY PairFacts, Zenon DEF IsHeap
<1>2. /\ IsHeap(Pairs(D), length, r) /\ e \in Pairs(D) /\ Range(h) = Range(r) \union {e}
      /\ IsInjective(h) => IsInjective(r) /\ e \notin Range(r)
  BY <1>1, PopFacts, Zenon
<1>3. \A k \in 1..Len(h) : e.distance <= h[k].distance
  BY Zenon, <1>1, TopLeast
<1> HIDE DEF r, e
<1>4. r \in Seq(Pairs(D)) /\ e.node \in DOMAIN D /\ e = pair(e.node)
  BY <1>2, PairFacts, Zenon DEF IsHeap
<1>5. e.distance = D[e.node]
  BY SMTT(60), <1>4
<1>6. \A n \in Nodes(h) : e.distance <= D[n]
  <2> SUFFICES ASSUME NEW n \in Nodes(h) PROVE e.distance <= D[n]
    BY Zenon
  <2>1. pair(n) \in Range(h)
    BY <1>1, NodesOfPairs, Zenon
  <2>2. PICK k \in 1..Len(h) : h[k] = pair(n)
    BY <1>1, <2>1 DEF Range
  <2> QED
    BY <1>3, <2>2
<1> HIDE DEF pair
<1>7. \A n : n \in Nodes(h) <=> pair(n) \in Range(h)
  BY <1>1, NodesOfPairs, Zenon DEF pair
<1>8. \A n : n \in Nodes(r) <=> pair(n) \in Range(r)
  BY <1>4, NodesOfPairs, Zenon DEF pair
<1>9. \A n : pair(n) = e <=> n = e.node
  <2>1. \A n : pair(n).node = n
    BY Zenon DEF pair
  <2> QED
    BY <1>4, <2>1, Zenon
<1>10. Nodes(h) = Nodes(r) \union {e.node}
  BY ZenonT(60), <1>2, <1>7, <1>8, <1>9
<1>11. IsInjective(h) => e.node \notin Nodes(r)
  BY ZenonT(60), <1>2, <1>4, <1>8
<1> QED
  BY ZenonT(60), <1>2, <1>4, <1>5, <1>6, <1>10, <1>11 DEF Top, r, e

-----------------------------------------------------------------------------
(* The loops over the neighbours of a row, the members of its group and    *)
(* the roots of the trees.                                                 *)
LEMMA UncheckedFacts ==
  ASSUME index \in Indexes, NEW w, NEW r \in index.rows
  PROVE  /\ Unchecked(w, r) \in Seq(index.rows) /\ IsInjective(Unchecked(w, r))
         /\ Range(Unchecked(w, r)) = Range(index.neighbours[r]) \ nodeCheckStatus[w]
<1> DEFINE nb == index.neighbours[r]
           n == Len(nb)
           State == Seq(index.rows)
           Step(s, k) == IF nb[k] \in nodeCheckStatus[w] \union Range(s) THEN s ELSE Append(s, nb[k])
           step == [k \in 1..n |-> [s \in State |-> Step(s, k)]]
           Body(f) == [k \in 0..n |-> IF k = 0 THEN <<>>
                         ELSE CHOOSE t \in {Step(b, k) : b \in {f[k - 1]}} : TRUE]
           at == CHOOSE at : at = Body(at)
<1>1. nb \in Seq(index.rows) /\ n \in Nat /\ DOMAIN nb = 1..n /\ <<>> \in State /\ \A k \in 1..n : nb[k] \in index.rows
  <2>1. nb \in Seq(index.rows)
    BY Zenon, RowFacts
  <2> QED
    BY <2>1
<1>2. \A k \in 1..n, t \in State : step[k][t] = Step(t, k) /\ step[k][t] \in State
  <2>1. \A k \in 1..n, t \in State : Step(t, k) \in State
    <3> SUFFICES ASSUME NEW k \in 1..n, NEW t \in Seq(index.rows) PROVE Step(t, k) \in Seq(index.rows)
      BY Zenon
    <3>1. nb[k] \in index.rows
      BY <1>1, Zenon
    <3> HIDE DEF nb, n
    <3>2. Append(t, nb[k]) \in Seq(index.rows)
      BY <3>1, AppendInSeq, Zenon
    <3> QED
      BY <3>2, Zenon
  <2> HIDE DEF State, Step
  <2> QED
    BY Zenon, <2>1
<1>3. PICK f : IsRun(f, State, n, <<>>, step)
  <2> HIDE DEF State, step, n
  <2>1. StaysIn(State, n, step)
    BY ZenonT(60), <1>2 DEF StaysIn
  <2> QED
    BY Zenon, <1>1, <2>1, LoopExists
<1>4. \A k \in 1..n : f[k] = Step(f[k - 1], k)
  <2> HIDE DEF State, step, Step, n
  <2> QED
    BY SMTT(30), <1>1, <1>2, <1>3 DEF IsRun
<1>5. f = Body(f)
  <2> HIDE DEF State, Step, n
  <2> QED
    BY SMTT(30), <1>1, <1>3, <1>4 DEF IsRun
<1>6. at = Body(at)
  <2> HIDE DEF Body
  <2> QED
    BY ZenonT(60), <1>5
<1>7. Unchecked(w, r) = at[n]
  BY Zenon DEF Unchecked, Loop
<1> HIDE DEF at
<1>8. at[0] = <<>> /\ \A k \in 1..n : at[k] = Step(at[k - 1], k)
  <2> HIDE DEF Step, n
  <2> QED
    BY <1>1, <1>6
<1> DEFINE Pre(k) == {nb[j] : j \in 1..k}
           S == {k \in 0..n : at[k] \in State /\ IsInjective(at[k]) /\ Range(at[k]) = Pre(k) \ nodeCheckStatus[w]}
<1> HIDE DEF nb, n
<1>9. 0 \in S
  <2>1. IsInjective(<<>>) /\ 0 \in 0..n
    BY SMTT(60), <1>1 DEF IsInjective
  <2>2. Pre(0) = {}
    OBVIOUS
  <2> HIDE DEF State, Pre
  <2> QED
    BY ZenonT(60), <1>1, <1>8, <2>1, <2>2, RangeOfEmpty
<1>10. ASSUME NEW k \in 1..n, k - 1 \in S PROVE k \in S
  <2> DEFINE s == at[k - 1]
  <2>1. s \in Seq(index.rows) /\ IsInjective(s) /\ Range(s) = Pre(k - 1) \ nodeCheckStatus[w]
    BY Zenon, <1>10
  <2>2. at[k] = Step(s, k) /\ nb[k] \in index.rows /\ k \in 0..n
    BY SMTT(60), <1>1, <1>8
  <2>3. Pre(k) = Pre(k - 1) \union {nb[k]}
    BY <1>1
  <2> HIDE DEF s, Pre
  <2>4. CASE nb[k] \in nodeCheckStatus[w] \union Range(s)
    BY Zenon, <2>1, <2>2, <2>3, <2>4
  <2>5. CASE nb[k] \notin nodeCheckStatus[w] \union Range(s)
    <3>1. at[k] = Append(s, nb[k])
      BY Zenon, <2>2, <2>5
    <3>2. nb[k] \notin Range(s) /\ nb[k] \notin nodeCheckStatus[w]
      BY ZenonT(60), <2>5
    <3>3. Range(Append(s, nb[k])) = Range(s) \union {nb[k]}
      BY SMTT(30), <2>1, <2>2, RangeOfAppend
    <3>4. Append(s, nb[k]) \in Seq(index.rows) /\ IsInjective(Append(s, nb[k]))
      BY ZenonT(60), <2>1, <2>2, <3>2, AppendInSeq, AppendFresh
    <3>5. Range(at[k]) = Pre(k) \ nodeCheckStatus[w]
      BY ZenonT(60), <2>1, <2>3, <3>1, <3>2, <3>3
    <3> QED
      BY <2>2, <3>1, <3>3, <3>4, <3>5, Zenon
  <2> QED
    BY Zenon, <2>4, <2>5
<1>11. n \in S
  <2> HIDE DEF S
  <2>1. \A k \in 1..n : k - 1 \in S => k \in S
    BY Zenon, <1>10
  <2>2. \A k \in 0..n : k \in S
    BY <1>1, <1>9, <2>1, LoopInduction, Zenon
  <2> QED
    BY SMTT(60), <1>1, <2>2
<1>12. Pre(n) = Range(nb)
  BY Zenon, <1>1 DEF Range
<1> QED
  BY <1>7, <1>11, <1>12, Zenon DEF nb

LEMMA GroupMembersFacts ==
  ASSUME index \in Indexes, NEW r \in index.rows
  PROVE  /\ GroupMembers(r) \in Seq(index.rows)
         /\ Range(GroupMembers(r)) = Group(index, r) \ index.deleted
         /\ Len(index.starts) = 1 => IsInjective(GroupMembers(r))
<1> DEFINE group == children(index.group[r])
           n == Len(group)
           State == Seq(index.rows)
           Step(s, k) == IF center(group[k]) \in index.deleted THEN s ELSE Append(s, center(group[k]))
           step == [k \in 1..n |-> [s \in State |-> Step(s, k)]]
           Body(f) == [k \in 0..n |-> IF k = 0 THEN <<>>
                         ELSE CHOOSE t \in {Step(b, k) : b \in {f[k - 1]}} : TRUE]
           at == CHOOSE at : at = Body(at)
<1> SUFFICES ASSUME index.group[r] # Null
             PROVE  /\ GroupMembers(r) \in Seq(index.rows)
                    /\ Range(GroupMembers(r)) = Group(index, r) \ index.deleted
                    /\ Len(index.starts) = 1 => IsInjective(GroupMembers(r))
  <2> SUFFICES ASSUME index.group[r] = Null
               PROVE  /\ <<>> \in Seq(index.rows) /\ Range(<<>>) = Group(index, r) \ index.deleted
                      /\ IsInjective(<<>>)
    BY Zenon DEF GroupMembers
  <2>1. Group(index, r) = {}
    BY Zenon DEF Group
  <2> QED
    BY <2>1, RangeOfEmpty DEF IsInjective
<1>0. /\ index.group[r] \in DOMAIN index.tree /\ group \in Seq(DOMAIN index.tree) /\ IsInjective(group)
      /\ \A t \in Range(group) : t \in DOMAIN index.tree /\ center(t) \in index.rows
  <2>1. index.group[r] \in DOMAIN index.tree
    BY RowFacts, Zenon
  <2>2. group \in Seq(DOMAIN index.tree) /\ IsInjective(group) /\ Range(group) \subseteq Good(index)
    BY ZenonT(60), <2>1, TreeFacts DEF children, Below
  <2> QED
    BY <2>1, <2>2, Zenon DEF Good, center
<1>1. n \in Nat /\ DOMAIN group = 1..n /\ <<>> \in State /\ \A k \in 1..n : group[k] \in Range(group)
  <2> HIDE DEF group
  <2> QED
    BY <1>0 DEF Range
<1>2. \A k \in 1..n, t \in State : step[k][t] = Step(t, k) /\ step[k][t] \in State
  <2>1. \A k \in 1..n, t \in State : Step(t, k) \in State
    <3> SUFFICES ASSUME NEW k \in 1..n, NEW t \in Seq(index.rows) PROVE Step(t, k) \in Seq(index.rows)
      BY Zenon
    <3>1. center(group[k]) \in index.rows
      BY <1>0, <1>1, Zenon
    <3> HIDE DEF group, n
    <3>2. Append(t, center(group[k])) \in Seq(index.rows)
      BY <3>1, AppendInSeq, Zenon
    <3> QED
      BY <3>2, Zenon
  <2> HIDE DEF State, Step
  <2> QED
    BY Zenon, <2>1
<1>3. PICK f : IsRun(f, State, n, <<>>, step)
  <2> HIDE DEF State, step, n
  <2>1. StaysIn(State, n, step)
    BY <1>2, Zenon DEF StaysIn
  <2> QED
    BY Zenon, <1>1, <2>1, LoopExists
<1>4. \A k \in 1..n : f[k] = Step(f[k - 1], k)
  <2> HIDE DEF State, step, Step, n
  <2> QED
    BY SMTT(30), <1>1, <1>2, <1>3 DEF IsRun
<1>5. f = Body(f)
  <2> HIDE DEF State, Step, n
  <2> QED
    BY SMTT(30), <1>1, <1>3, <1>4 DEF IsRun
<1>6. at = Body(at)
  <2> HIDE DEF Body
  <2> QED
    BY <1>5, Zenon
<1>7. GroupMembers(r) = at[n]
  BY Zenon DEF GroupMembers, Loop
<1> HIDE DEF at
<1>8. at[0] = <<>> /\ \A k \in 1..n : at[k] = Step(at[k - 1], k)
  <2> HIDE DEF Step, n
  <2> QED
    BY <1>1, <1>6
<1> DEFINE Pre(k) == {center(group[j]) : j \in 1..k}
           S == {k \in 0..n : /\ at[k] \in State /\ Range(at[k]) = Pre(k) \ index.deleted
                              /\ Len(index.starts) = 1 => IsInjective(at[k])}
<1>9. Pre(n) = Group(index, r)
  BY ZenonT(60), <1>1 DEF Group, Below, Range, children, center
<1>10. \A j, k \in 1..n : Len(index.starts) = 1 /\ center(group[j]) = center(group[k]) => j = k
  <2> SUFFICES ASSUME NEW j \in 1..n, NEW k \in 1..n, Len(index.starts) = 1, center(group[j]) = center(group[k])
               PROVE  j = k
    BY Zenon
  <2>1. \A t, u \in DOMAIN index.tree : center(t) = center(u) => t = u
    BY OneTreeFacts, Zenon DEF center
  <2>2. group[j] = group[k]
    BY <1>0, <1>1, <2>1, Zenon
  <2> HIDE DEF group, n
  <2> QED
    BY <1>0, <1>1, <2>2, Zenon DEF IsInjective
<1> HIDE DEF group, n
<1>11. 0 \in S
  <2>1. IsInjective(<<>>) /\ 0 \in 0..n
    BY <1>1 DEF IsInjective
  <2>2. Pre(0) = {}
    OBVIOUS
  <2> HIDE DEF State, Pre
  <2> QED
    BY ZenonT(60), <1>1, <1>8, <2>1, <2>2, RangeOfEmpty
<1>12. ASSUME NEW k \in 1..n, k - 1 \in S PROVE k \in S
  <2> DEFINE s == at[k - 1]
             m == center(group[k])
  <2>1. /\ s \in Seq(index.rows) /\ Range(s) = Pre(k - 1) \ index.deleted
        /\ Len(index.starts) = 1 => IsInjective(s)
    BY ZenonT(60), <1>12
  <2>2. at[k] = Step(s, k) /\ m \in index.rows /\ k \in 0..n
    BY SMTT(60), <1>0, <1>1, <1>8
  <2>3. Pre(k) = Pre(k - 1) \union {m}
    BY SMTT(60), <1>1
  <2>4. Len(index.starts) = 1 => m \notin Pre(k - 1)
    BY SMTT(60), <1>1, <1>10
  <2> HIDE DEF s, Pre, m
  <2>5. CASE m \in index.deleted
    <3>1. at[k] = s
      BY Zenon, <2>2, <2>5 DEF m
    <3> QED
      BY <2>1, <2>2, <2>3, <2>5, <3>1, Zenon
  <2>6. CASE m \notin index.deleted
    <3>1. at[k] = Append(s, m)
      BY ZenonT(60), <2>2, <2>6 DEF m
    <3>2. Range(Append(s, m)) = Range(s) \union {m}
      BY SMTT(60), <2>1, <2>2, RangeOfAppend
    <3>3. Append(s, m) \in Seq(index.rows)
      BY <2>1, <2>2, AppendInSeq, Zenon
    <3>4. Len(index.starts) = 1 => IsInjective(Append(s, m))
      BY ZenonT(60), <2>1, <2>2, <2>4, AppendFresh
    <3>5. Range(at[k]) = Pre(k) \ index.deleted
      BY ZenonT(60), <2>1, <2>3, <2>6, <3>1, <3>2
    <3> QED
      BY <2>2, <3>1, <3>3, <3>4, <3>5, Zenon
  <2> QED
    BY ZenonT(60), <2>5, <2>6
<1>13. n \in S
  <2> HIDE DEF S
  <2>1. \A k \in 1..n : k - 1 \in S => k \in S
    BY Zenon, <1>12
  <2>2. \A k \in 0..n : k \in S
    BY <1>1, <1>11, <2>1, LoopInduction, Zenon
  <2> QED
    BY <1>1, <2>2
<1> QED
  BY ZenonT(60), <1>7, <1>9, <1>13

LEMMA FirstNodesFacts ==
  ASSUME index \in Indexes
  PROVE  /\ FirstNodes \in Seq(Good(index))
         /\ Len(index.starts) = 1 => Range(FirstNodes) = First(index)
<1> DEFINE n == Len(index.starts)
           State == Seq(Good(index))
           root(k) == index.starts[k]
           Piece(k) == IF Inner(root(k)) THEN children(root(k)) ELSE <<root(k)>>
           Step(s, k) == s \o Piece(k)
           step == [k \in 1..n |-> [s \in State |-> Step(s, k)]]
           Body(f) == [k \in 0..n |-> IF k = 0 THEN <<>>
                         ELSE CHOOSE t \in {Step(b, k) : b \in {f[k - 1]}} : TRUE]
           at == CHOOSE at : at = Body(at)
<1>0. index.starts \in Seq(DOMAIN index.tree) /\ index.starts # <<>>
  BY TreeFacts, Zenon
<1>1. /\ n \in Nat /\ n > 0 /\ DOMAIN index.starts = 1..n /\ <<>> \in State
      /\ \A k \in 1..n : root(k) \in DOMAIN index.tree /\ root(k) \in Range(index.starts)
  BY <1>0 DEF Range
<1>9. \A k \in 1..n : /\ Piece(k) \in Seq(Good(index))
                      /\ Range(Piece(k)) = IF Inner(root(k)) THEN Below(index, root(k)) ELSE {root(k)}
  <2> SUFFICES ASSUME NEW k \in 1..n
               PROVE  /\ Piece(k) \in Seq(Good(index))
                      /\ Range(Piece(k)) = IF Inner(root(k)) THEN Below(index, root(k)) ELSE {root(k)}
    BY Zenon
  <2>1. CASE Inner(root(k))
    <3>1. Piece(k) = children(root(k)) /\ Range(Piece(k)) = Below(index, root(k))
      BY <2>1, Zenon DEF Below, children
    <3>2. children(root(k)) \in Seq(DOMAIN index.tree) /\ Below(index, root(k)) \subseteq Good(index)
      BY <1>1, TreeFacts, Zenon DEF children
    <3> HIDE DEF Piece
    <3>3. Piece(k) \in Seq(Good(index))
      <4> DEFINE c == Piece(k)
      <4>1. c \in Seq(DOMAIN index.tree) /\ Range(c) \subseteq Good(index)
        BY <3>1, <3>2, Zenon
      <4> HIDE DEF c
      <4>2. Len(c) \in Nat /\ DOMAIN c = 1..Len(c) /\ \A j \in 1..Len(c) : c[j] \in Good(index)
        BY <4>1 DEF Range
      <4> QED
        BY <4>1, <4>2 DEF c
    <3> QED
      BY <2>1, <3>1, <3>3, Zenon
  <2>2. CASE ~Inner(root(k))
    <3>1. Piece(k) = <<root(k)>> /\ root(k) \in Good(index)
      BY <1>1, <2>2, TreeFacts, Zenon DEF Inner
    <3> HIDE DEF Piece, root
    <3>2. Piece(k) \in Seq(Good(index)) /\ Range(Piece(k)) = {root(k)}
      BY <3>1 DEF Range
    <3> QED
      BY <2>2, <3>2, Zenon
  <2> QED
    BY ZenonT(60), <2>1, <2>2
<1>2. \A k \in 1..n, t \in State : step[k][t] = Step(t, k) /\ step[k][t] \in State
  <2>1. \A k \in 1..n, t \in State : Step(t, k) \in State
    <3> HIDE DEF Piece, n
    <3> QED
      BY <1>9, RangeOfConcat, Zenon
  <2> HIDE DEF State, Step
  <2> QED
    BY Zenon, <2>1
<1>3. PICK f : IsRun(f, State, n, <<>>, step)
  <2> HIDE DEF State, step, n
  <2>1. StaysIn(State, n, step)
    BY <1>2, Zenon DEF StaysIn
  <2> QED
    BY ZenonT(60), <1>1, <2>1, LoopExists
<1>4. \A k \in 1..n : f[k] = Step(f[k - 1], k)
  <2> HIDE DEF State, step, Step, n
  <2> QED
    BY SMTT(30), <1>1, <1>2, <1>3 DEF IsRun
<1>5. f = Body(f)
  <2> HIDE DEF State, Step, n
  <2> QED
    BY SMTT(60), <1>1, <1>3, <1>4 DEF IsRun
<1>6. at = Body(at)
  <2> HIDE DEF Body
  <2> QED
    BY <1>5, Zenon
<1>7. FirstNodes = at[n]
  BY Zenon DEF FirstNodes, Loop
<1> HIDE DEF at
<1>8. at[0] = <<>> /\ \A k \in 1..n : at[k] = Step(at[k - 1], k)
  <2> HIDE DEF Step, n
  <2> QED
    BY SMTT(60), <1>1, <1>6
<1>10. \A k \in 0..n : at[k] \in State
  <2> DEFINE S == {k \in 0..n : at[k] \in State}
  <2>1. 0 \in S
    <3> HIDE DEF State, n
    <3>1. 0 \in 0..n
      BY SMTT(60), <1>1
    <3> QED
      BY ZenonT(60), <1>1, <1>8, <3>1
  <2>2. \A k \in 1..n : k - 1 \in S => k \in S
    <3> SUFFICES ASSUME NEW k \in 1..n, k - 1 \in S PROVE k \in S
      BY Zenon
    <3>1. step[k][at[k - 1]] \in State /\ step[k][at[k - 1]] = Step(at[k - 1], k)
      <4> HIDE DEF State, Step, step, n
      <4> QED
        BY ZenonT(60), <1>2
    <3> HIDE DEF State, Step, step, n
    <3> QED
      BY SMTT(30), <1>1, <1>8, <3>1
  <2> HIDE DEF S
  <2>3. \A k \in 0..n : k \in S
    BY ZenonT(60), <1>1, <2>1, <2>2, LoopInduction
  <2> QED
    BY Zenon, <2>3 DEF S
<1>11. FirstNodes \in Seq(Good(index))
  <2> HIDE DEF n
  <2> QED
    BY SMTT(30), <1>1, <1>7, <1>10
<1>12. ASSUME n = 1 PROVE Range(FirstNodes) = First(index)
  <2>1. FirstNodes = <<>> \o Piece(1) /\ 1 \in 1..n
    <3> HIDE DEF Piece, n
    <3>1. 1 \in 1..n /\ 1 - 1 = 0
      BY <1>12
    <3>2. at[1] = Step(at[0], 1)
      <4> HIDE DEF Step
      <4> QED
        BY ZenonT(60), <1>8, <3>1
    <3> QED
      BY ZenonT(60), <1>7, <1>8, <1>12, <3>1, <3>2
  <2>2. <<>> \o Piece(1) = Piece(1)
    <3> DEFINE c == Piece(1)
    <3>1. c \in Seq(Good(index)) /\ <<>> \in Seq(Good(index))
      <4> HIDE DEF Piece, n
      <4> QED
        BY <1>1, <1>9, <2>1, Zenon
    <3> HIDE DEF c
    <3>2. <<>> \o c = c
      BY SMTT(60), <3>1
    <3> QED
      BY Zenon, <3>2 DEF c
  <2>3. Range(Piece(1)) = First(index)
    <3> HIDE DEF Piece
    <3> QED
      BY ZenonT(60), <1>9, <2>1 DEF First, Inner
  <2> QED
    BY <2>1, <2>2, <2>3, Zenon
<1> QED
  BY <1>11, <1>12, Zenon

-----------------------------------------------------------------------------
(* The search of an index with one tree, in terms of the nodes checked,    *)
(* the tree nodes T and the rows N that are queued and the rows out that   *)
(* were taken.  A row that is no member of a group is queued when it is    *)
(* checked; a member is queued when its head is taken from the queue, once *)
(* because the head is.                                                    *)
StreamOK(x, checked, T, N, out) ==
  /\ N \intersect out = {}
  /\ (N \union out) \ Members(x) \subseteq checked
  /\ checked \intersect Members(x) = {} /\ (N \union out) \intersect Unlisted(x) = {}
  /\ \A h \in x.rows : \A m \in Group(x, h) : m \in N \union out => h \in checked \ N
  /\ T \intersect MemberNodes(x) = {}

(* No row taken is farther than a successor of an earlier one that is      *)
(* taken later, or not yet.                                                *)
LateOK(x, q, N, e) ==
  /\ \A a \in DOMAIN e : \A c \in 1..(a - 1) : \A y \in Succ(x, e[c]) \ x.deleted :
       y \in {e[k] : k \in 1..a} \/ Dist[q][e[a]] <= Dist[q][y]
  /\ \A c \in DOMAIN e : Succ(x, e[c]) \ x.deleted \subseteq N \union Range(e)

(* The nodes whose centre is not checked are below queued ones; the        *)
(* members of a group are queued, taken, or still to come with their head. *)
Covered(x, checked, T) ==
  \A C \in SUBSET DOMAIN x.tree : T \subseteq C /\ Closed(x, C) =>
    \A u \in Good(x) \ MemberNodes(x) : x.tree[u].center \in checked \/ u \in C

GroupsOK(x, checked, N, out) ==
  \A h \in x.rows : \A m \in Group(x, h) \ x.deleted : m \in N \union out \/ h \in N \/ h \notin checked

(* Row r is taken and its group and its unchecked neighbours are queued.   *)
New(x, r, checked) == (Group(x, r) \ x.deleted) \union (Range(x.neighbours[r]) \ checked)
AtMost(x, r, checked, N, N2) == N2 \subseteq (N \ {r}) \union New(x, r, checked)
AtLeast(x, r, checked, N, N2) == (N \ {r}) \union New(x, r, checked) \subseteq N2

(* Tree node t leaves its queue: its children follow it there when it is   *)
(* divided, and its row is queued when it was not checked before.          *)
TreeMove(x, t, checked, T, N, T2, N2) ==
  /\ T2 \subseteq T \union (IF x.tree[t].inner THEN Below(x, t) ELSE {})
  /\ N2 \subseteq N \union ({x.tree[t].center} \ checked)

LEMMA TreeStream ==
  ASSUME NEW x \in Indexes, Len(x.starts) = 1, NEW checked, NEW T, NEW N, NEW out, StreamOK(x, checked, T, N, out),
         NEW t \in T, t \in Good(x), NEW T2, NEW N2, TreeMove(x, t, checked, T, N, T2, N2)
  PROVE  /\ StreamOK(x, checked \union {x.tree[t].center}, T2, N2, out)
         /\ N \intersect ({x.tree[t].center} \ checked) = {}
<1> DEFINE c == x.tree[t].center
<1>1. /\ N \intersect out = {} /\ (N \union out) \ Members(x) \subseteq checked
      /\ checked \intersect Members(x) = {} /\ T \intersect MemberNodes(x) = {}
      /\ (N \union out) \intersect Unlisted(x) = {}
      /\ \A h \in x.rows : \A m \in Group(x, h) : m \in N \union out => h \in checked \ N
  BY Zenon DEF StreamOK
<1>2. t \in DOMAIN x.tree /\ c \in x.rows \ Members(x)
  <2>1. t \in Good(x) \ MemberNodes(x)
    BY <1>1, Zenon
  <2> QED
    BY <2>1, OneTreeFacts, Zenon DEF Good
<1>3. /\ x.tree[t].inner => Below(x, t) \intersect MemberNodes(x) = {}
      /\ \A h \in x.rows : \A m \in Group(x, h) : m \in Members(x)
      /\ Unlisted(x) \subseteq Members(x)
  BY ZenonT(60), <1>2, OneTreeFacts
<1>4. c \notin checked => c \notin N \union out
  BY <1>1, <1>2, Zenon
<1> HIDE DEF c
<1>5. N2 \subseteq N \union ({c} \ checked) /\ T2 \subseteq T \union (IF x.tree[t].inner THEN Below(x, t) ELSE {})
  BY Zenon DEF c, TreeMove
<1>6. N2 \intersect out = {} /\ N \intersect ({c} \ checked) = {}
  BY ZenonT(60), <1>1, <1>4, <1>5
<1>7. (N2 \union out) \ Members(x) \subseteq checked \union {c} /\ (checked \union {c}) \intersect Members(x) = {}
  BY ZenonT(60), <1>1, <1>2, <1>5
<1>8. T2 \intersect MemberNodes(x) = {} /\ (N2 \union out) \intersect Unlisted(x) = {}
  BY <1>1, <1>2, <1>3, <1>5, Zenon
<1>9. ASSUME NEW h \in x.rows, NEW m \in Group(x, h), m \in N2 \union out
      PROVE  h \in (checked \union {c}) \ N2
  <2>1. m # c
    BY <1>2, <1>3, Zenon
  <2>2. m \in N \union out
    BY ZenonT(60), <1>5, <1>9, <2>1
  <2>3. h \in checked /\ h \notin N
    BY ZenonT(60), <1>1, <2>2
  <2> QED
    BY <1>5, <2>3, Zenon
<1> QED
  BY ZenonT(60), <1>6, <1>7, <1>8, <1>9 DEF StreamOK, c

LEMMA GraphStream ==
  ASSUME NEW x \in Indexes, Len(x.starts) = 1, NEW checked, NEW T, NEW N, NEW out, StreamOK(x, checked, T, N, out),
         NEW r \in N, r \in x.rows
  PROVE  /\ r \notin out /\ (N \ {r}) \intersect New(x, r, checked) = {}
         /\ Group(x, r) \intersect Range(x.neighbours[r]) = {}
         /\ \A N2, o2 : AtMost(x, r, checked, N, N2) /\ o2 \subseteq out \union {r} =>
              StreamOK(x, checked \union (Range(x.neighbours[r]) \ checked), T, N2, o2)
<1> DEFINE G == Group(x, r)
           near == Range(x.neighbours[r])
           new == New(x, r, checked)
<1>1. /\ N \intersect out = {} /\ (N \union out) \ Members(x) \subseteq checked
      /\ checked \intersect Members(x) = {} /\ T \intersect MemberNodes(x) = {}
      /\ (N \union out) \intersect Unlisted(x) = {}
      /\ \A h \in x.rows : \A m \in Group(x, h) : m \in N \union out => h \in checked \ N
  BY Zenon DEF StreamOK
<1>2. /\ \A h \in x.rows : \A m \in Group(x, h) : m \in Members(x) /\ h \notin Members(x)
      /\ \A h \in x.rows : Group(x, h) \intersect G # {} => h = r
      /\ near \intersect Members(x) = {} /\ Unlisted(x) \subseteq Members(x) /\ G \intersect Unlisted(x) = {}
  BY OneTreeFacts, Zenon
<1>3. G \intersect (N \union out) = {}
  BY <1>1, Zenon
<1>4. G \intersect near = {} /\ \A m \in G : m \in Members(x) /\ r \notin Members(x)
  BY <1>2, Zenon
<1> HIDE DEF G, near
<1>5. new = (G \ x.deleted) \union (near \ checked)
  BY Zenon DEF G, near, New
<1> HIDE DEF new
<1>6. (near \ checked) \intersect (N \union out) = {}
  BY <1>1, <1>2, Zenon
<1>7. r \notin out /\ r \notin new /\ new \intersect (N \union out) = {}
  BY <1>1, <1>3, <1>5, <1>6, Zenon
<1>8. ASSUME NEW N2, NEW o2, N2 \subseteq (N \ {r}) \union new, o2 \subseteq out \union {r}
      PROVE  StreamOK(x, checked \union (near \ checked), T, N2, o2)
  <2>1. N2 \intersect o2 = {}
    BY <1>1, <1>7, <1>8, Zenon
  <2>2. (N2 \union o2) \ Members(x) \subseteq checked \union (near \ checked)
    BY ZenonT(60), <1>1, <1>4, <1>5, <1>8
  <2>3. (checked \union (near \ checked)) \intersect Members(x) = {}
    BY <1>1, <1>2, Zenon
  <2>5. (N2 \union o2) \intersect Unlisted(x) = {}
    <3>1. new \intersect Unlisted(x) = {}
      BY <1>2, <1>5, Zenon
    <3>2. (N \union out) \intersect Unlisted(x) = {}
      BY <1>1, Zenon
    <3>3. N2 \union o2 \subseteq (N \union out) \union new
      BY <1>8, Zenon
    <3> QED
      BY <3>1, <3>2, <3>3, Zenon
  <2>4. ASSUME NEW h \in x.rows, NEW m \in Group(x, h), m \in N2 \union o2
        PROVE  h \in (checked \union (near \ checked)) \ N2
    <3>1. m \in N \union out \/ m \in G
      <4>1. m \notin near
        BY <1>2, Zenon
      <4> QED
        BY <1>5, <1>8, <2>4, <4>1, Zenon
    <3>2. CASE m \in N \union out
      <4>1. h \in checked /\ h \notin N /\ h \notin Members(x)
        BY <1>1, <1>2, <3>2, Zenon
      <4>2. h \notin G
        BY <1>4, <4>1, Zenon
      <4> QED
        BY ZenonT(60), <1>5, <1>8, <4>1, <4>2
    <3>3. CASE m \in G
      <4>1. h = r
        BY <1>2, <3>3, Zenon
      <4>2. r \in checked
        BY <1>1, <1>4, <3>3, Zenon
      <4> QED
        BY <1>7, <1>8, <4>1, <4>2, Zenon
    <3> QED
      BY ZenonT(60), <3>1, <3>2, <3>3
  <2> QED
    BY ZenonT(60), <1>1, <2>1, <2>2, <2>3, <2>4, <2>5 DEF StreamOK
<1> QED
  BY ZenonT(60), <1>4, <1>7, <1>8 DEF AtMost, G, near, new

(* Nothing is lost: a row taken moves its successors into the queue.       *)
LEMMA LateMore ==
  ASSUME NEW x, NEW q, NEW N, NEW N2, NEW e, LateOK(x, q, N, e), N \subseteq N2
  PROVE  LateOK(x, q, N2, e)
<1>1. \A c \in DOMAIN e : Succ(x, e[c]) \ x.deleted \subseteq N2 \union Range(e)
  BY Zenon DEF LateOK
<1> QED
  BY <1>1, Zenon DEF LateOK

LEMMA LateTake ==
  ASSUME NEW x \in Indexes, NEW q, NEW checked, NEW N, NEW r \in N \ x.deleted, r \in x.rows,
         NEW e \in Seq(x.rows), LateOK(x, q, N, e),
         \A n \in N : Dist[q][r] <= Dist[q][n],
         checked \subseteq N \union Range(e) \union x.deleted, NEW N2,
         AtLeast(x, r, checked, N, N2)
  PROVE  LateOK(x, q, N2, Append(e, r))
<1> DEFINE g == Append(e, r)
           n == Len(e)
           Before(s, a) == {s[k] : k \in 1..a}
<1>1. /\ n \in Nat /\ DOMAIN e = 1..n /\ DOMAIN g = 1..(n + 1) /\ g[n + 1] = r
      /\ \A k \in 1..n : g[k] = e[k]
  <2>1. Extended(e, r, g)
    BY ZenonT(60), AppendShape
  <2> HIDE DEF g
  <2> QED
    BY <2>1, Zenon DEF Extended
<1>2. Range(g) = Range(e) \union {r}
  BY RangeOfAppend
<1>3. Range(e) = Before(e, n) /\ \A a \in 1..n : Before(g, a) = Before(e, a)
  <2>1. Range(e) = Before(e, n)
    BY ZenonT(60), <1>1 DEF Range
  <2>2. \A a \in 1..n : Before(g, a) = Before(e, a)
    BY SMTT(60), <1>1
  <2> QED
    BY Zenon, <2>1, <2>2
<1> HIDE DEF g, n
<1>4. Range(e) \subseteq Before(g, n + 1)
  BY SMTT(60), <1>1 DEF Range
<1>5. /\ \A c \in DOMAIN e : Succ(x, e[c]) \ x.deleted \subseteq N \union Range(e)
      /\ (N \ {r}) \union (Group(x, r) \ x.deleted) \union (Range(x.neighbours[r]) \ checked) \subseteq N2
  BY ZenonT(60) DEF LateOK, AtLeast, New
<1>8. \A a \in DOMAIN g : a = n + 1 \/ a \in 1..n
  BY SMTT(60), <1>1
<1>6. ASSUME NEW c \in DOMAIN g PROVE Succ(x, g[c]) \ x.deleted \subseteq N2 \union Range(g)
  <2>1. CASE c = n + 1
    <3>1. g[c] = r
      BY ZenonT(60), <1>1, <2>1
    <3> QED
      BY ZenonT(60), <1>2, <1>5, <3>1 DEF Succ
  <2>2. CASE c \in 1..n
    <3>1. Succ(x, g[c]) \ x.deleted \subseteq N \union Range(e)
      BY ZenonT(60), <1>1, <1>5, <2>2
    <3> QED
      BY ZenonT(60), <1>2, <1>5, <3>1
  <2> QED
    BY <1>8, <2>1, <2>2, Zenon
<1>7. ASSUME NEW a \in DOMAIN g, NEW c \in 1..(a - 1), NEW y \in Succ(x, g[c]) \ x.deleted
      PROVE  y \in Before(g, a) \/ Dist[q][g[a]] <= Dist[q][y]
  <2>1. c \in 1..n /\ g[c] = e[c]
    <3>1. c \in 1..n
      BY SMTT(30), <1>1
    <3> QED
      BY ZenonT(60), <1>1, <3>1
  <2>2. CASE a = n + 1
    <3>1. y \in N \union Range(e)
      BY ZenonT(60), <1>1, <1>5, <2>1
    <3>2. CASE y \in Range(e)
      BY <1>4, <2>2, <3>2, Zenon
    <3>3. CASE y \in N
      BY ZenonT(60), <1>1, <2>2, <3>3
    <3> QED
      BY ZenonT(60), <3>1, <3>2, <3>3
  <2>3. CASE a \in 1..n
    <3>1. a \in DOMAIN e /\ g[a] = e[a] /\ Before(g, a) = Before(e, a)
      BY ZenonT(60), <1>1, <1>3, <2>3
    <3>2. y \in Before(e, a) \/ Dist[q][e[a]] <= Dist[q][y]
      BY <2>1, <3>1, Zenon DEF LateOK
    <3> QED
      BY ZenonT(60), <3>1, <3>2
  <2> QED
    BY <1>8, <2>2, <2>3, Zenon
<1> QED
  BY ZenonT(60), <1>6, <1>7 DEF LateOK, g

LEMMA FirstCovered ==
  ASSUME NEW x \in Indexes, Len(x.starts) = 1, NEW T, First(x) \subseteq T
  PROVE  \A checked : Covered(x, checked, T)
<1> SUFFICES ASSUME NEW checked, NEW C \in SUBSET DOMAIN x.tree, T \subseteq C, Closed(x, C),
                    NEW u \in Good(x) \ MemberNodes(x)
             PROVE  u \in C
  BY Zenon DEF Covered
<1>1. First(x) \subseteq C
  BY Zenon
<1> QED
  BY <1>1, TreeCover, Zenon

LEMMA TreeCovered ==
  ASSUME NEW x, NEW checked, NEW T, Covered(x, checked, T), NEW t \in DOMAIN x.tree, NEW T2,
         T \union (IF x.tree[t].inner THEN Below(x, t) ELSE {}) \subseteq T2 \union {t}
  PROVE  Covered(x, checked \union {x.tree[t].center}, T2)
<1> SUFFICES ASSUME NEW C \in SUBSET DOMAIN x.tree, T2 \subseteq C, Closed(x, C),
                    NEW u \in Good(x) \ MemberNodes(x)
             PROVE  x.tree[u].center \in checked \union {x.tree[t].center} \/ u \in C
  BY Zenon DEF Covered
<1> DEFINE D == C \union {t}
<1>1. D \in SUBSET DOMAIN x.tree /\ T \subseteq D
  BY Zenon
<1>2. Closed(x, D)
  <2> SUFFICES ASSUME NEW v \in D, x.tree[v].inner PROVE Below(x, v) \subseteq D
    BY Zenon DEF Closed
  <2>1. CASE v \in C
    BY <2>1, Zenon DEF Closed
  <2>2. CASE v = t
    BY <2>2, Zenon
  <2> QED
    BY ZenonT(60), <2>1, <2>2
<1> HIDE DEF D
<1>3. x.tree[u].center \in checked \/ u \in D
  BY <1>1, <1>2, Zenon DEF Covered
<1> QED
  BY <1>3, Zenon DEF D

LEMMA MoreCovered ==
  ASSUME NEW x, NEW checked, NEW T, Covered(x, checked, T), NEW c2, checked \subseteq c2
  PROVE  Covered(x, c2, T)
BY Zenon DEF Covered

LEMMA TreeGroups ==
  ASSUME NEW x, NEW checked, NEW N, NEW out, NEW c, GroupsOK(x, checked, N, out)
  PROVE  GroupsOK(x, checked \union {c}, N \union ({c} \ checked), out)
BY Zenon DEF GroupsOK

LEMMA GraphGroups ==
  ASSUME NEW x, NEW checked, NEW N, NEW out, GroupsOK(x, checked, N, out), NEW r, NEW N2, NEW o2,
         AtLeast(x, r, checked, N, N2), out \subseteq o2, r \in o2 \/ r \in x.deleted
  PROVE  GroupsOK(x, checked \union (Range(x.neighbours[r]) \ checked), N2, o2)
<1> DEFINE near == Range(x.neighbours[r])
<1>0. (N \ {r}) \union (Group(x, r) \ x.deleted) \union (near \ checked) \subseteq N2
  BY Zenon DEF AtLeast, New
<1> HIDE DEF near
<1> SUFFICES ASSUME NEW h \in x.rows, NEW m \in Group(x, h) \ x.deleted
             PROVE  m \in N2 \union o2 \/ h \in N2 \/ h \notin checked \union (near \ checked)
  BY Zenon DEF GroupsOK, near
<1>1. m \in N \union out \/ h \in N \/ h \notin checked
  BY Zenon DEF GroupsOK
<1>2. CASE m \in N \union out
  BY <1>0, <1>2, Zenon
<1>3. CASE h \in N
  BY <1>0, <1>3, Zenon
<1>4. CASE h \notin checked
  BY <1>0, <1>4, Zenon
<1> QED
  BY ZenonT(60), <1>1, <1>2, <1>3, <1>4

(* With both queues empty every row that is listed has been taken.         *)
LEMMA AllTaken ==
  ASSUME NEW x \in Indexes, Len(x.starts) = 1, NEW checked, NEW out, Covered(x, checked, {}),
         GroupsOK(x, checked, {}, out), checked \subseteq out \union x.deleted
  PROVE  x.rows \ (x.deleted \union Unlisted(x)) \subseteq out
<1>1. {} \in SUBSET DOMAIN x.tree /\ Closed(x, {})
  BY Zenon DEF Closed
<1>2. \A u \in Good(x) \ MemberNodes(x) : x.tree[u].center \in checked
  BY <1>1, Zenon DEF Covered
<1>3. x.rows \ Members(x) \subseteq checked
  <2>1. \A r \in x.rows \ Members(x) : \E t \in Good(x) \ MemberNodes(x) : x.tree[t].center = r
    BY OneTreeFacts, Zenon
  <2> QED
    BY <1>2, <2>1, Zenon
<1>4. ASSUME NEW m \in Members(x), m \notin x.deleted, m \notin Unlisted(x) PROVE m \in out
  <2>1. PICK h \in x.rows : m \in Group(x, h)
    BY <1>4, OneTreeFacts, Zenon
  <2>2. h \in checked
    BY <1>3, <2>1, OneTreeFacts, Zenon
  <2> QED
    BY <1>4, <2>1, <2>2, Zenon DEF GroupsOK
<1> QED
  BY <1>3, <1>4, Zenon

LEMMA FirstStream ==
  ASSUME NEW x \in Indexes, Len(x.starts) = 1, NEW T, T \subseteq First(x)
  PROVE  StreamOK(x, {}, T, {}, {})
<1>1. First(x) \intersect MemberNodes(x) = {}
  <2>1. x.starts[1] \in Range(x.starts)
    <3>1. x.starts \in Seq(DOMAIN x.tree)
      BY TreeFacts, Zenon
    <3> QED
      BY SMTT(60), <3>1 DEF Range
  <2>2. x.starts[1] \in DOMAIN x.tree /\ x.starts[1] \notin MemberNodes(x)
    <3>1. Range(x.starts) \intersect MemberNodes(x) = {}
      BY OneTreeFacts, Zenon
    <3>2. \A t \in Range(x.starts) : t \in DOMAIN x.tree
      BY TreeFacts, Zenon
    <3> QED
      BY <2>1, <3>1, <3>2, Zenon
  <2>3. x.tree[x.starts[1]].inner => Below(x, x.starts[1]) \intersect MemberNodes(x) = {}
    BY <2>2, OneTreeFacts, Zenon
  <2> QED
    BY ZenonT(60), <2>2, <2>3 DEF First
<1> QED
  BY <1>1, Zenon DEF StreamOK

(* The rows still to be taken, in terms of the nodes checked and queued.   *)
Ahead(x, checked, N) == N \union (x.rows \ (checked \union Members(x)))
AwaitedIn(x, checked, N) ==
  Ahead(x, checked, N) \union UNION {Group(x, r) \ x.deleted : r \in Ahead(x, checked, N)}

(* SearchTrees queues a row that was awaited.                              *)
LEMMA TreeAwaits ==
  ASSUME NEW x, NEW checked, NEW N, NEW c \in x.rows \ Members(x), NEW N2, N2 \subseteq N \union ({c} \ checked)
  PROVE  AwaitedIn(x, checked \union {c}, N2) \subseteq AwaitedIn(x, checked, N)
<1>1. Ahead(x, checked \union {c}, N2) \subseteq Ahead(x, checked, N)
  BY Zenon DEF Ahead
<1> QED
  BY Zenon, <1>1 DEF AwaitedIn

(* SearchIterative uses up the row it takes.                               *)
LEMMA GraphAwaits ==
  ASSUME NEW x \in Indexes, Len(x.starts) = 1, NEW checked, NEW T, NEW N, NEW out, StreamOK(x, checked, T, N, out),
         N \subseteq x.rows, NEW r \in N, NEW N2, AtMost(x, r, checked, N, N2)
  PROVE  LET A2 == AwaitedIn(x, checked \union (Range(x.neighbours[r]) \ checked), N2) IN
         A2 \subseteq AwaitedIn(x, checked, N) /\ A2 # AwaitedIn(x, checked, N)
<1> DEFINE near == Range(x.neighbours[r])
           old == Ahead(x, checked, N)
           new == Ahead(x, checked \union (near \ checked), N2)
           G == Group(x, r) \ x.deleted
           A == AwaitedIn(x, checked, N)
           A2 == AwaitedIn(x, checked \union (near \ checked), N2)
<1>1. r \in x.rows /\ near \subseteq x.rows /\ G \subseteq x.rows
  <2>1. r \in x.rows
    BY Zenon
  <2> QED
    BY ZenonT(60), <2>1, RowFacts DEF Succ
<1>2. /\ N \ Members(x) \subseteq checked
      /\ \A h \in x.rows : \A m \in Group(x, h) : m \in N => h \in checked \ N
  BY Zenon DEF StreamOK
<1>3. /\ \A h \in x.rows : \A m \in Group(x, h) : m \in Members(x) /\ h \notin Members(x)
      /\ near \intersect Members(x) = {}
  BY ZenonT(60), <1>1, OneTreeFacts
<1>4. N2 \subseteq (N \ {r}) \union G \union (near \ checked)
  BY Zenon DEF AtMost, New
<1>5. old \subseteq x.rows /\ r \in old
  BY Zenon DEF Ahead
<1>6. G \subseteq Members(x) /\ r \notin G
  BY Zenon, <1>1, <1>3
<1>7. /\ new = N2 \union (x.rows \ (checked \union (near \ checked) \union Members(x)))
      /\ old = N \union (x.rows \ (checked \union Members(x)))
  BY Zenon DEF Ahead
<1>8. /\ A = old \union UNION {Group(x, h) \ x.deleted : h \in old}
      /\ A2 = new \union UNION {Group(x, h) \ x.deleted : h \in new}
  BY Zenon DEF AwaitedIn
<1>9. G = Group(x, r) \ x.deleted
  BY Zenon
<1> HIDE DEF near, old, new, G, A, A2
<1>10. new \subseteq (old \ {r}) \union G
  <2>1. near \ checked \subseteq old \ {r}
    BY ZenonT(60), <1>1, <1>2, <1>3, <1>7
  <2>2. x.rows \ (checked \union (near \ checked) \union Members(x)) \subseteq old \ {r}
    BY ZenonT(60), <1>2, <1>7
  <2>3. N \ {r} \subseteq old \ {r}
    BY Zenon, <1>7
  <2> QED
    BY ZenonT(60), <1>4, <1>7, <2>1, <2>2, <2>3
<1>11. ASSUME NEW h \in new, NEW m \in Group(x, h) \ x.deleted
       PROVE  h \in old \ {r} /\ h \in x.rows
  <2>1. h \in x.rows
    BY ZenonT(60), <1>1, <1>5, <1>10
  <2>2. h \notin Members(x)
    BY ZenonT(60), <1>3, <2>1
  <2> QED
    BY ZenonT(60), <1>6, <1>10, <2>1, <2>2
<1>12. A2 \subseteq A
  <2>1. G \subseteq A
    BY ZenonT(60), <1>5, <1>8, <1>9
  <2>2. new \subseteq A
    BY ZenonT(60), <1>8, <1>10, <2>1
  <2>3. \A h \in new : Group(x, h) \ x.deleted \subseteq A
    BY ZenonT(60), <1>8, <1>11
  <2> QED
    BY ZenonT(60), <1>8, <2>2, <2>3
<1>13. r \notin A2
  <2>1. r \notin new
    BY Zenon, <1>6, <1>10
  <2>2. ASSUME NEW h \in new, r \in Group(x, h) \ x.deleted PROVE FALSE
    <3>1. h \in old \ {r} /\ h \in x.rows
      BY Zenon, <1>11, <2>2
    <3>2. h \in checked \ N
      BY ZenonT(60), <1>2, <2>2, <3>1
    <3> QED
      BY ZenonT(60), <1>7, <3>1, <3>2
  <2> QED
    BY ZenonT(60), <1>8, <2>1, <2>2
<1>14. r \in A
  BY ZenonT(60), <1>5, <1>8
<1>15. A2 \subseteq A /\ A2 # A
  BY ZenonT(60), <1>12, <1>13, <1>14
<1> QED
  BY Zenon, <1>15 DEF A, A2, near
=============================================================================

------------------------- MODULE VisitedTableProofs -------------------------
(***************************************************************************)
(* Proofs that the visited table of SPTAG answers like a set, for any ids, *)
(* any number of probes and any initial size.  The invariant: every entry  *)
(* is where _CheckAndSet would look for it, so a search for an id never    *)
(* stops at a free slot before it reaches the id; a block that             *)
(* m_secondHash does not mention is free; and during DoubleSize the new    *)
(* table holds what has been copied so far.                                *)
(***************************************************************************)
EXTENDS VisitedTable, TLAPS

Tables(poolSize) == [Slots(poolSize) -> Stored \union {Free}]

(* Every entry is in the slot where a call for it stops. *)
Findable(table, poolSize) ==
  \A s \in Slots(poolSize) : table[s] # Free =>
    \E block \in 0..1, loop \in Loops :
      PutsAt(table, table[s], poolSize, block, loop) /\ s = Probe(table[s], poolSize, block, loop)

SecondFree(table, poolSize) == \A s \in Slots(poolSize) : s > poolSize => table[s] = Free

CopyInv ==
  /\ Findable(new_hashTable, new_poolSize)
  /\ ~m_secondHash => SecondFree(new_hashTable, new_poolSize)
  /\ \A s \in Slots(m_poolSize) : s < i /\ m_hashTable[s] # Free =>
       \E u \in Slots(new_poolSize) : new_hashTable[u] = m_hashTable[s]
  /\ \A u \in Slots(new_poolSize) : new_hashTable[u] # Free =>
       \E s \in Slots(m_poolSize) : m_hashTable[s] = new_hashTable[u]

IInv ==
  /\ TypeOK
  /\ Findable(m_hashTable, m_poolSize)
  /\ pc = "idle" /\ ~m_secondHash => SecondFree(m_hashTable, m_poolSize)
  /\ pc = "copy" => CopyInv
-----------------------------------------------------------------------------
(* hash_func is a slot number of the first block. *)
LEMMA HashRange ==
  ASSUME NEW x \in Nat, NEW n \in Nat
  PROVE  hash_func(x, n) \in 0..n
BY DEF hash_func

(* Every probe is a slot of its block. *)
LEMMA ProbeRange ==
  ASSUME NEW x \in Nat, NEW n \in Nat, NEW b \in 0..1, NEW l \in Loops
  PROVE  /\ Probe(x, n, b, l) \in Slots(n)
         /\ b = 0 => Probe(x, n, b, l) <= n
<1>1. l \in Nat
  BY MaxLoopAssumption DEF Loops
<1> DEFINE h == hash_func(x, n)
<1>2. h \in 0..n
  BY Zenon, HashRange
<1> HIDE DEF h
<1>3. ((h + ((l * (l - 1)) \div 2)) % (n + 1)) \in 0..n
  BY <1>1, <1>2
<1> DEFINE r == (h + ((l * (l - 1)) \div 2)) % (n + 1)
<1>4. Probe(x, n, b, l) = b * (n + 1) + r
  BY Zenon DEF Probe, h
<1> HIDE DEF r
<1>5. r \in 0..n
  BY Zenon, <1>3 DEF r
<1> QED
  BY <1>4, <1>5 DEF Slots

(* The call stops in one round of one block only. *)
LEMMA PutsAtUnique ==
  ASSUME NEW t, NEW x, NEW n,
         NEW b \in 0..1, NEW l \in Loops, PutsAt(t, x, n, b, l),
         NEW c \in 0..1, NEW m \in Loops, PutsAt(t, x, n, c, m)
  PROVE  b = c /\ l = m
<1>1. l \in Int /\ m \in Int
  BY MaxLoopAssumption DEF Loops
<1>2. b = c
  <2>1. ~(b = 0 /\ c = 1)
    BY Zenon DEF PutsAt, StopsAt, BlockFull
  <2>2. ~(b = 1 /\ c = 0)
    BY Zenon DEF PutsAt, StopsAt, BlockFull
  <2> QED
    BY <2>1, <2>2
<1>3. ~(l < m) /\ ~(m < l)
  BY Zenon, <1>2 DEF PutsAt, StopsAt
<1> QED
  BY <1>1, <1>2, <1>3

(* What a put leaves alone: the other slots, and every entry. *)
LEMMA PutResult ==
  ASSUME NEW n \in Nat, NEW t \in Tables(n), NEW x \in Stored,
         NEW b \in 0..1, NEW l \in Loops, PutsAt(t, x, n, b, l)
  PROVE  /\ Put(t, x, n, b, l) \in Tables(n)
         /\ Put(t, x, n, b, l)[Probe(x, n, b, l)] = x
         /\ \A s \in Slots(n) : s # Probe(x, n, b, l) => Put(t, x, n, b, l)[s] = t[s]
         /\ \A s \in Slots(n) : t[s] # Free => Put(t, x, n, b, l)[s] = t[s]
<1> DEFINE u == Put(t, x, n, b, l)
<1> HIDE DEF u
<1>1. x \in Nat /\ x # Free
  BY IdxAssumption DEF Stored, Free
<1>2. Probe(x, n, b, l) \in Slots(n)
  BY Zenon, <1>1, ProbeRange
<1>3. t[Probe(x, n, b, l)] \in {Free, x}
  BY Zenon DEF PutsAt, StopsAt
<1> DEFINE p == Probe(x, n, b, l)
<1> HIDE DEF p
<1> QED
  <2>1. p \in Slots(n) /\ t[p] \in {Free, x} /\ u = [t EXCEPT ![p] = x]
    BY Zenon, <1>2, <1>3 DEF p, u, Put
  <2>2. u \in Tables(n)
    BY Zenon, <2>1 DEF Tables
  <2>3. u[p] = x /\ \A s \in Slots(n) : s # p => u[s] = t[s]
    BY Zenon, <2>1 DEF Tables
  <2>4. \A s \in Slots(n) : t[s] # Free => u[s] = t[s]
    BY Zenon, <2>1, <2>3
  <2> QED
    BY Zenon, <2>2, <2>3, <2>4 DEF p, u

(* An entry is still where a call for it stops after another one is put. *)
LEMMA PutKeepsPlace ==
  ASSUME NEW n \in Nat, NEW t \in Tables(n), NEW u \in Tables(n),
         \A s \in Slots(n) : t[s] # Free => u[s] = t[s],
         NEW y \in Stored, NEW c \in 0..1, NEW m \in Loops, PutsAt(t, y, n, c, m),
         u[Probe(y, n, c, m)] = y
  PROVE  PutsAt(u, y, n, c, m)
<1>1. y \in Nat
  BY IdxAssumption DEF Stored
<1>2. \A d \in 0..1, k \in Loops :
        t[Probe(y, n, d, k)] \notin {Free, y} => u[Probe(y, n, d, k)] \notin {Free, y}
  BY Zenon, <1>1, ProbeRange
<1>3. c = 1 => BlockFull(u, y, n, 0)
  BY <1>2 DEF PutsAt, BlockFull
<1>4. StopsAt(u, y, n, c, m)
  <2>1. \A k \in Loops : k < m => t[Probe(y, n, c, k)] \notin {Free, y}
    BY Zenon DEF PutsAt, StopsAt
  <2>2. \A k \in Loops : k < m => u[Probe(y, n, c, k)] \notin {Free, y}
    BY Zenon, <1>2, <2>1
  <2>3. u[Probe(y, n, c, m)] \in {Free, y}
    BY Zenon
  <2> QED
    BY Zenon, <2>2, <2>3 DEF StopsAt
<1> QED
  BY Zenon, <1>3, <1>4 DEF PutsAt

(* A put keeps the table findable. *)
LEMMA PutKeepsFindable ==
  ASSUME NEW n \in Nat, NEW t \in Tables(n), NEW x \in Stored, Findable(t, n),
         NEW b \in 0..1, NEW l \in Loops, PutsAt(t, x, n, b, l)
  PROVE  Findable(Put(t, x, n, b, l), n)
<1> DEFINE u == Put(t, x, n, b, l)
<1> HIDE DEF u
<1>1. /\ u \in Tables(n)
      /\ u[Probe(x, n, b, l)] = x
      /\ \A s \in Slots(n) : s # Probe(x, n, b, l) => u[s] = t[s]
      /\ \A s \in Slots(n) : t[s] # Free => u[s] = t[s]
  BY PutResult DEF u
<1> SUFFICES ASSUME NEW s \in Slots(n), u[s] # Free
             PROVE  \E block \in 0..1, loop \in Loops :
                      PutsAt(u, u[s], n, block, loop) /\ s = Probe(u[s], n, block, loop)
  BY Zenon DEF Findable, u
<1>2. CASE s = Probe(x, n, b, l)
  <2>1. PutsAt(u, x, n, b, l)
    BY Zenon, <1>1, PutKeepsPlace
  <2> QED
    BY Zenon, <1>1, <1>2, <2>1
<1>3. CASE s # Probe(x, n, b, l)
  <2>1. u[s] = t[s] /\ t[s] # Free
    BY Zenon, <1>1, <1>3
  <2>2. PICK c \in 0..1, m \in Loops : PutsAt(t, t[s], n, c, m) /\ s = Probe(t[s], n, c, m)
    BY Zenon, <2>1 DEF Findable
  <2>3. t[s] \in Stored
    BY Zenon, <2>1 DEF Tables
  <2>4. PutsAt(u, t[s], n, c, m)
    BY Zenon, <1>1, <2>1, <2>2, <2>3, PutKeepsPlace
  <2> QED
    BY Zenon, <2>1, <2>2, <2>4
<1> QED
  BY Zenon, <1>2, <1>3

(* A call finds its id exactly when the table holds it. *)
LEMMA FoundIffHeld ==
  ASSUME NEW n \in Nat, NEW t \in Tables(n), NEW x \in Stored, Findable(t, n),
         NEW b \in 0..1, NEW l \in Loops, PutsAt(t, x, n, b, l)
  PROVE  t[Probe(x, n, b, l)] = x <=> \E s \in Slots(n) : t[s] = x
<1>1. x \in Nat /\ x # Free
  BY IdxAssumption DEF Stored, Free
<1>2. Probe(x, n, b, l) \in Slots(n)
  BY Zenon, <1>1, ProbeRange
<1>3. ASSUME NEW s \in Slots(n), t[s] = x
      PROVE  t[Probe(x, n, b, l)] = x
  <2>1. PICK c \in 0..1, m \in Loops : PutsAt(t, x, n, c, m) /\ s = Probe(x, n, c, m)
    BY Zenon, <1>1, <1>3 DEF Findable
  <2>2. b = c /\ l = m
    BY Zenon, <2>1, PutsAtUnique
  <2> QED
    BY Zenon, <1>3, <2>1, <2>2
<1> QED
  BY Zenon, <1>2, <1>3

(* A put into the first block leaves the second one free. *)
LEMMA PutKeepsSecondFree ==
  ASSUME NEW n \in Nat, NEW t \in Tables(n), NEW x \in Stored, SecondFree(t, n),
         NEW l \in Loops, PutsAt(t, x, n, 0, l)
  PROVE  SecondFree(Put(t, x, n, 0, l), n)
<1>1. x \in Nat
  BY IdxAssumption DEF Stored
<1>2. Probe(x, n, 0, l) \in Slots(n) /\ Probe(x, n, 0, l) <= n
  BY <1>1, ProbeRange
<1>3. \A s \in Slots(n) : s # Probe(x, n, 0, l) => Put(t, x, n, 0, l)[s] = t[s]
  BY PutResult
<1>4. \A s \in Slots(n) : s > n => s # Probe(x, n, 0, l)
  BY <1>2 DEF Slots
<1> QED
  BY Zenon, <1>3, <1>4 DEF SecondFree

(* A zeroed table. *)
LEMMA ZeroedTable ==
  ASSUME NEW n \in Nat
  PROVE  /\ Zeroed(n) \in Tables(n)
         /\ \A s \in Slots(n) : Zeroed(n)[s] = Free
         /\ Findable(Zeroed(n), n)
         /\ SecondFree(Zeroed(n), n)
BY Zenon DEF Zeroed, Tables, Findable, SecondFree
-----------------------------------------------------------------------------
(* The table that a step of _CheckAndSet on a table writes, in the four    *)
(* respects the invariant is about.                                        *)
LEMMA PutStep ==
  ASSUME NEW n \in Nat, NEW t \in Tables(n), NEW x \in Stored, Findable(t, n),
         NEW b \in 0..1, NEW l \in Loops, PutsAt(t, x, n, b, l)
  PROVE  /\ Put(t, x, n, b, l) \in Tables(n)
         /\ Findable(Put(t, x, n, b, l), n)
         /\ b # 1 /\ SecondFree(t, n) => SecondFree(Put(t, x, n, b, l), n)
         /\ \A y \in Stored :
              (\E s \in Slots(n) : Put(t, x, n, b, l)[s] = y) <=> (y = x \/ \E s \in Slots(n) : t[s] = y)
<1> DEFINE u == Put(t, x, n, b, l)
<1> HIDE DEF u
<1>1. x \in Nat
  BY IdxAssumption DEF Stored
<1>2. Probe(x, n, b, l) \in Slots(n)
  BY Zenon, <1>1, ProbeRange
<1>3. /\ u \in Tables(n)
      /\ u[Probe(x, n, b, l)] = x
      /\ \A s \in Slots(n) : s # Probe(x, n, b, l) => u[s] = t[s]
      /\ \A s \in Slots(n) : t[s] # Free => u[s] = t[s]
  BY PutResult DEF u
<1>4. Findable(u, n)
  BY Zenon, PutKeepsFindable DEF u
<1>5. b # 1 /\ SecondFree(t, n) => SecondFree(u, n)
  <2> SUFFICES ASSUME b # 1, SecondFree(t, n)
               PROVE  SecondFree(u, n)
    BY Zenon
  <2>1. b = 0
    OBVIOUS
  <2>2. SecondFree(t, n) /\ PutsAt(t, x, n, 0, l) /\ u = Put(t, x, n, 0, l)
    BY Zenon, <2>1 DEF u
  <2> QED
    BY Zenon, <2>2, PutKeepsSecondFree
<1>6. \A y \in Stored :
        (\E s \in Slots(n) : u[s] = y) <=> (y = x \/ \E s \in Slots(n) : t[s] = y)
  <2> SUFFICES ASSUME NEW y \in Stored
               PROVE  (\E s \in Slots(n) : u[s] = y) <=> (y = x \/ \E s \in Slots(n) : t[s] = y)
    BY Zenon
  <2>1. y # Free
    BY IdxAssumption DEF Stored, Free
  <2>2. (\E s \in Slots(n) : u[s] = y) => (y = x \/ \E s \in Slots(n) : t[s] = y)
    BY Zenon, <1>3
  <2>3. (\E s \in Slots(n) : t[s] = y) => \E s \in Slots(n) : u[s] = y
    BY Zenon, <1>3, <2>1
  <2>4. y = x => \E s \in Slots(n) : u[s] = y
    BY Zenon, <1>2, <1>3
  <2> QED
    BY Zenon, <2>2, <2>3, <2>4
<1> QED
  BY Zenon, <1>3, <1>4, <1>5, <1>6 DEF u

LEMMA InitInv == Init => IInv
<1> SUFFICES ASSUME Init
             PROVE  IInv
  BY Zenon
<1>1. m_poolSize \in Nat /\ new_poolSize \in Nat
  BY PoolSizesAssumption DEF Init, new_poolSize
<1>2. m_hashTable \in Tables(m_poolSize) /\ new_hashTable \in Tables(new_poolSize)
  BY Zenon, <1>1, ZeroedTable DEF Init
<1>3. TypeOK
  <2>1. i \in 0..(new_poolSize + 1)
    BY <1>1 DEF Init
  <2> QED
    BY Zenon, <1>1, <1>2, <2>1 DEF Init, TypeOK, Tables
<1>4. Findable(m_hashTable, m_poolSize) /\ SecondFree(m_hashTable, m_poolSize)
  BY Zenon, <1>1, ZeroedTable DEF Init
<1> QED
  BY Zenon, <1>3, <1>4 DEF Init, IInv

(* TypeOK in terms of Tables. *)
LEMMA Types ==
  ASSUME TypeOK
  PROVE  /\ m_poolSize \in Nat /\ new_poolSize \in Nat
         /\ m_hashTable \in Tables(m_poolSize)
         /\ new_hashTable \in Tables(new_poolSize)
         /\ Slots(m_poolSize) = 0..new_poolSize
         /\ i \in 0..(new_poolSize + 1)
BY DEF TypeOK, Tables, new_poolSize, Slots

LEMMA clearInv ==
  ASSUME IInv, clear
  PROVE  IInv' /\ \A s \in Slots(m_poolSize) : m_hashTable'[s] = Free
<1>1. /\ m_poolSize \in Nat /\ m_hashTable \in Tables(m_poolSize)
      /\ m_secondHash \in BOOLEAN
  BY Zenon, Types DEF IInv, TypeOK
<1>2. ~m_secondHash => SecondFree(m_hashTable, m_poolSize)
  BY Zenon DEF IInv, clear
<1>3. \A s \in Slots(m_poolSize) : s \in Int
  BY <1>1 DEF Slots
<1>4. \A s \in Slots(m_poolSize) :
        m_hashTable'[s] = IF m_secondHash \/ s <= m_poolSize THEN Free ELSE m_hashTable[s]
  BY Zenon DEF clear
<1>5. \A s \in Slots(m_poolSize) : m_hashTable'[s] = Free
  <2> SUFFICES ASSUME NEW s \in Slots(m_poolSize), ~m_secondHash, s > m_poolSize
               PROVE  m_hashTable[s] = Free
    BY <1>1, <1>3, <1>4
  <2> QED
    BY Zenon, <1>2 DEF SecondFree
<1>6. m_hashTable' \in Tables(m_poolSize)
  BY Zenon, <1>1 DEF clear, Tables
<1>7. TypeOK'
  BY Zenon, <1>6 DEF IInv, TypeOK, clear, Tables, new_poolSize
<1>8. m_poolSize' = m_poolSize /\ pc' = "idle"
  BY Zenon DEF clear
<1>9. Findable(m_hashTable', m_poolSize') /\ SecondFree(m_hashTable', m_poolSize')
  BY Zenon, <1>5, <1>8 DEF Findable, SecondFree
<1> QED
  BY Zenon, <1>5, <1>7, <1>8, <1>9 DEF IInv

LEMMA CheckAndSetInv ==
  ASSUME IInv, NEW x \in Idx, CheckAndSet(x)
  PROVE  /\ IInv'
         /\ answer' = <<x, \E s \in Slots(m_poolSize) : m_hashTable[s] = x + 1>>
         /\ \A y \in Stored :
              (\E s \in Slots(m_poolSize) : m_hashTable'[s] = y)
                <=> (y = x + 1 \/ \E s \in Slots(m_poolSize) : m_hashTable[s] = y)
<1> DEFINE n == m_poolSize
<1>1. /\ n \in Nat /\ m_hashTable \in Tables(n) /\ Findable(m_hashTable, n)
      /\ x + 1 \in Stored
  BY Zenon, Types DEF IInv, Stored
<1>2. PICK b \in 0..1, l \in Loops :
        /\ PutsAt(m_hashTable, x + 1, n, b, l)
        /\ answer' = <<x, m_hashTable[Probe(x + 1, n, b, l)] = x + 1>>
        /\ m_hashTable' = Put(m_hashTable, x + 1, n, b, l)
        /\ m_secondHash' = (m_secondHash \/ b = 1)
  BY Zenon DEF CheckAndSet
<1>3. /\ m_hashTable' \in Tables(n)
      /\ Findable(m_hashTable', n)
      /\ b # 1 /\ SecondFree(m_hashTable, n) => SecondFree(m_hashTable', n)
      /\ \A y \in Stored :
           (\E s \in Slots(n) : m_hashTable'[s] = y)
             <=> (y = x + 1 \/ \E s \in Slots(n) : m_hashTable[s] = y)
  BY <1>1, <1>2, PutStep
<1>4. m_hashTable[Probe(x + 1, n, b, l)] = x + 1 <=> \E s \in Slots(n) : m_hashTable[s] = x + 1
  BY <1>1, <1>2, FoundIffHeld
<1>5. answer' = <<x, \E s \in Slots(n) : m_hashTable[s] = x + 1>>
  BY Zenon, <1>2, <1>4
<1>6. /\ m_poolSize' = n /\ pc' = "idle" /\ pc = "idle" /\ idx' = None
      /\ new_hashTable' = new_hashTable /\ i' = i
  BY Zenon DEF CheckAndSet
<1>7. m_secondHash' \in BOOLEAN /\ answer' \in Idx \X BOOLEAN
  BY Zenon, <1>2
<1>8. TypeOK'
  BY Zenon, <1>3, <1>6, <1>7 DEF IInv, TypeOK, Tables, new_poolSize
<1>9. ~m_secondHash' => SecondFree(m_hashTable', m_poolSize')
  <2> SUFFICES ASSUME ~m_secondHash'
               PROVE  SecondFree(m_hashTable', n)
    BY Zenon, <1>6
  <2>1. ~m_secondHash /\ b # 1
    BY Zenon, <1>2
  <2> QED
    BY Zenon, <1>3, <1>6, <2>1 DEF IInv
<1>10. Findable(m_hashTable', m_poolSize')
  BY Zenon, <1>3, <1>6
<1>11. IInv'
  BY Zenon, <1>6, <1>8, <1>9, <1>10 DEF IInv
<1> QED
  BY Zenon, <1>3, <1>5, <1>11

(* The start of a copy, from a call or from within a copy. *)
LEMMA CopyStarts ==
  ASSUME IInv, pc' = "copy", idx' \in Idx, m_secondHash' = FALSE,
         new_hashTable' = Zeroed(new_poolSize), i' = 0,
         UNCHANGED <<m_hashTable, m_poolSize, answer>>
  PROVE  IInv'
<1>1. m_poolSize \in Nat /\ new_poolSize \in Nat /\ new_poolSize' = new_poolSize
  BY Zenon, Types DEF IInv, new_poolSize
<1>2. /\ new_hashTable' \in Tables(new_poolSize)
      /\ \A s \in Slots(new_poolSize) : new_hashTable'[s] = Free
      /\ Findable(new_hashTable', new_poolSize)
      /\ SecondFree(new_hashTable', new_poolSize)
  BY Zenon, <1>1, ZeroedTable
<1>3. i' \in 0..(new_poolSize' + 1)
  BY <1>1
<1>4. TypeOK'
  BY Zenon, <1>1, <1>2, <1>3 DEF IInv, TypeOK, Tables
<1>5. \A s \in Slots(m_poolSize) : ~(s < i')
  BY <1>1 DEF Slots
<1>6. CopyInv'
  BY Zenon, <1>1, <1>2, <1>5 DEF CopyInv
<1> QED
  BY Zenon, <1>4, <1>6 DEF IInv

LEMMA SkipFreeInv ==
  ASSUME IInv, SkipFree
  PROVE  IInv'
<1>1. /\ new_poolSize \in Nat /\ i \in 0..new_poolSize
      /\ Slots(m_poolSize) = 0..new_poolSize
      /\ CopyInv
  BY Types DEF IInv, SkipFree
<1>2. /\ new_poolSize' = new_poolSize /\ i' = i + 1 /\ m_hashTable[i] = Free
      /\ UNCHANGED <<m_hashTable, m_poolSize, m_secondHash, pc, idx, new_hashTable, answer>>
  BY Zenon DEF SkipFree, new_poolSize
<1>3. i' \in 0..(new_poolSize' + 1)
  BY <1>1, <1>2
<1>4. TypeOK'
  BY Zenon, <1>2, <1>3 DEF IInv, TypeOK
<1>5. \A s \in Slots(m_poolSize) : s < i' /\ m_hashTable[s] # Free => s < i
  BY <1>1, <1>2
<1>6. CopyInv'
  BY Zenon, <1>1, <1>2, <1>5 DEF CopyInv
<1>7. (pc = "idle" /\ ~m_secondHash => SecondFree(m_hashTable, m_poolSize))'
  BY Zenon, <1>2 DEF SkipFree
<1> QED
  BY Zenon, <1>2, <1>4, <1>6, <1>7 DEF IInv

LEMMA CopyEntryInv ==
  ASSUME IInv, CopyEntry
  PROVE  IInv'
<1> DEFINE n == new_poolSize
           x == m_hashTable[i]
<1>1. /\ n \in Nat /\ i \in 0..n
      /\ Slots(m_poolSize) = 0..n
      /\ new_hashTable \in Tables(n)
      /\ CopyInv
  BY Types DEF IInv, CopyEntry
<1>2. x \in Stored
  BY Zenon, <1>1, Types DEF IInv, CopyEntry, Tables
<1>3. PICK b \in 0..1, l \in Loops :
        /\ PutsAt(new_hashTable, x, n, b, l)
        /\ new_hashTable' = Put(new_hashTable, x, n, b, l)
        /\ m_secondHash' = (m_secondHash \/ b = 1)
  BY Zenon DEF CopyEntry
<1>4. /\ n' = n /\ i' = i + 1 /\ pc' = "copy"
      /\ UNCHANGED <<m_hashTable, m_poolSize, idx, answer>>
  BY Zenon DEF CopyEntry, new_poolSize
<1> HIDE DEF n, x
<1>5. Findable(new_hashTable, n)
  BY Zenon, <1>1 DEF CopyInv, n
<1>6. /\ new_hashTable' \in Tables(n)
      /\ Findable(new_hashTable', n)
      /\ b # 1 /\ SecondFree(new_hashTable, n) => SecondFree(new_hashTable', n)
      /\ \A y \in Stored :
           (\E s \in Slots(n) : new_hashTable'[s] = y)
             <=> (y = x \/ \E s \in Slots(n) : new_hashTable[s] = y)
  BY <1>1, <1>2, <1>3, <1>5, PutStep
<1>7. ~m_secondHash' => SecondFree(new_hashTable', n)
  <2> SUFFICES ASSUME ~m_secondHash'
               PROVE  SecondFree(new_hashTable', n)
    BY Zenon
  <2>1. ~m_secondHash /\ b # 1
    BY Zenon, <1>3
  <2> QED
    BY Zenon, <1>1, <1>6, <2>1 DEF CopyInv, n
<1>8. \A s \in Slots(m_poolSize) : s < i' /\ m_hashTable[s] # Free =>
        \E u \in Slots(n) : new_hashTable'[u] = m_hashTable[s]
  <2> SUFFICES ASSUME NEW s \in Slots(m_poolSize), s < i', m_hashTable[s] # Free
               PROVE  \E u \in Slots(n) : new_hashTable'[u] = m_hashTable[s]
    BY Zenon
  <2>1. m_hashTable[s] \in Stored
    BY Zenon, Types DEF IInv, Tables
  <2>2. s = i \/ s < i
    BY <1>1, <1>4
  <2>3. m_hashTable[s] = x \/ \E u \in Slots(n) : new_hashTable[u] = m_hashTable[s]
    BY Zenon, <1>1, <2>2 DEF CopyInv, n, x
  <2> QED
    BY Zenon, <1>6, <2>1, <2>3
<1>9. \A u \in Slots(n) : new_hashTable'[u] # Free =>
        \E s \in Slots(m_poolSize) : m_hashTable[s] = new_hashTable'[u]
  <2> SUFFICES ASSUME NEW u \in Slots(n), new_hashTable'[u] # Free
               PROVE  \E s \in Slots(m_poolSize) : m_hashTable[s] = new_hashTable'[u]
    BY Zenon
  <2>1. new_hashTable'[u] \in Stored
    BY Zenon, <1>6 DEF Tables
  <2>2. new_hashTable'[u] = x \/ \E s \in Slots(n) : new_hashTable[s] = new_hashTable'[u]
    BY Zenon, <1>6, <2>1
  <2>3. CASE new_hashTable'[u] = x
    BY Zenon, <1>1, <2>3 DEF x
  <2>4. CASE \E s \in Slots(n) : new_hashTable[s] = new_hashTable'[u]
    BY ZenonT(60), <1>1, <2>4 DEF CopyInv, n
  <2> QED
    BY Zenon, <2>2, <2>3, <2>4
<1>10. CopyInv'
  BY Zenon, <1>4, <1>6, <1>7, <1>8, <1>9 DEF CopyInv, n
<1>11. i' \in 0..(n' + 1)
  BY <1>1, <1>4
<1>12. m_secondHash' \in BOOLEAN
  BY Zenon, <1>3
<1>13. TypeOK'
  <2>1. /\ new_hashTable' \in [Slots(new_poolSize') -> Stored \union {Free}]
        /\ i' \in 0..(new_poolSize' + 1)
    BY Zenon, <1>4, <1>6, <1>11 DEF Tables, n
  <2>2. idx' \in Idx
    BY Zenon, <1>4 DEF IInv, TypeOK, CopyEntry
  <2> QED
    BY Zenon, <1>4, <1>12, <2>1, <2>2 DEF IInv, TypeOK
<1> QED
  BY Zenon, <1>4, <1>10, <1>13 DEF IInv

LEMMA CopiedInv ==
  ASSUME IInv, Copied
  PROVE  /\ IInv'
         /\ \A y \in Stored :
              (\E s \in Slots(m_poolSize') : m_hashTable'[s] = y)
                <=> (\E s \in Slots(m_poolSize) : m_hashTable[s] = y)
<1>1. /\ new_poolSize \in Nat /\ i = new_poolSize + 1
      /\ Slots(m_poolSize) = 0..new_poolSize
      /\ new_hashTable \in Tables(new_poolSize)
      /\ CopyInv
  BY Types DEF IInv, Copied
<1>2. /\ m_poolSize' = new_poolSize /\ m_hashTable' = new_hashTable
      /\ new_hashTable' = Zeroed(new_poolSize') /\ i' = 0 /\ pc' = "idle"
      /\ UNCHANGED <<m_secondHash, idx, answer>>
  BY Zenon DEF Copied
<1>3. new_poolSize' \in Nat
  BY <1>1, <1>2 DEF new_poolSize
<1>4. new_hashTable' \in Tables(new_poolSize')
  BY Zenon, <1>2, <1>3, ZeroedTable
<1>5. i' \in 0..(new_poolSize' + 1)
  BY <1>1, <1>2 DEF new_poolSize
<1>6. TypeOK'
  BY Zenon, <1>1, <1>2, <1>4, <1>5 DEF IInv, TypeOK, Tables
<1>7. IInv'
  BY Zenon, <1>1, <1>2, <1>6 DEF IInv, CopyInv
<1>8. \A s \in Slots(m_poolSize) : s < i
  BY <1>1
<1> SUFFICES ASSUME NEW y \in Stored
             PROVE  (\E s \in Slots(m_poolSize') : m_hashTable'[s] = y)
                      <=> (\E s \in Slots(m_poolSize) : m_hashTable[s] = y)
  BY Zenon, <1>7
<1>9. y # Free
  BY IdxAssumption DEF Stored, Free
<1> QED
  BY ZenonT(60), <1>1, <1>2, <1>8, <1>9 DEF CopyInv
-----------------------------------------------------------------------------
LEMMA InvStep == IInv /\ [Next]_vars => IInv'
<1> SUFFICES ASSUME IInv, [Next]_vars
             PROVE  IInv'
  BY Zenon
<1>1. CASE clear
  BY Zenon, <1>1, clearInv
<1>2. ASSUME NEW x \in Idx, CheckAndSet(x)
      PROVE  IInv'
  BY Zenon, <1>2, CheckAndSetInv
<1>3. ASSUME NEW x \in Idx, DoubleSize(x)
      PROVE  IInv'
  BY Zenon, <1>3, CopyStarts DEF DoubleSize
<1>4. CASE SkipFree
  BY Zenon, <1>4, SkipFreeInv
<1>5. CASE CopyEntry
  BY Zenon, <1>5, CopyEntryInv
<1>6. CASE CopyAgain
  <2>1. pc = "copy" /\ idx' = idx /\ pc' = pc
    BY Zenon, <1>6 DEF CopyAgain, EntryOverflows
  <2>2. idx \in Idx
    BY Zenon, <2>1 DEF IInv, TypeOK
  <2> QED
    BY Zenon, <1>6, <2>1, <2>2, CopyStarts DEF CopyAgain
<1>7. CASE Copied
  BY Zenon, <1>7, CopiedInv
<1>8. CASE UNCHANGED vars
  BY Zenon, <1>8 DEF IInv, TypeOK, CopyInv, vars, new_poolSize
<1> QED
  BY Zenon, <1>1, <1>2, <1>3, <1>4, <1>5, <1>6, <1>7, <1>8 DEF Next

(* The invariant of the visited table. *)
THEOREM Invariance == Spec => []IInv
BY InitInv, InvStep, PTL DEF Spec

(* The visited table is always well typed: its blocks have the size the    *)
(* code computes with, through every growth.                               *)
THEOREM TypeCorrect == Spec => []TypeOK
<1>1. IInv => TypeOK
  BY Zenon DEF IInv
<1> QED
  BY <1>1, Invariance, PTL

(* Entries by slots. *)
LEMMA EntriesBySlots ==
  ASSUME NEW n \in Nat, NEW t \in Tables(n), NEW x \in Idx
  PROVE  x \in Entries(t) <=> \E s \in Slots(n) : t[s] = x + 1
BY Zenon DEF Entries, Tables

(* The visited table implements a set: for any ids, any number of probes   *)
(* and any initial size, CheckAndSet answers whether its id was given      *)
(* since the last clear.                                                   *)
THEOREM Refinement == Spec => ImplementsSet
<1>1. Init => Set!Init
  <2> SUFFICES ASSUME Init
               PROVE  Entries(m_hashTable) = {} /\ answer = None
    BY Zenon DEF Set!Init
  <2>1. m_poolSize \in Nat
    BY Zenon, PoolSizesAssumption DEF Init
  <2>2. m_hashTable \in Tables(m_poolSize) /\ \A s \in Slots(m_poolSize) : m_hashTable[s] = 0
    BY Zenon, <2>1, ZeroedTable DEF Init, Free
  <2>3. \A x \in Idx : x + 1 # 0
    BY IdxAssumption
  <2> QED
    BY ZenonT(60), <2>1, <2>2, <2>3, EntriesBySlots DEF Init, Entries
<1>2. IInv /\ IInv' /\ [Next]_vars => [Set!Next]_<<Entries(m_hashTable), answer>>
  <2> SUFFICES ASSUME IInv, IInv', [Next]_vars
               PROVE  [Set!Next]_<<Entries(m_hashTable), answer>>
    BY Zenon
  <2>1. /\ m_poolSize \in Nat /\ m_hashTable \in Tables(m_poolSize)
        /\ m_poolSize' \in Nat /\ m_hashTable' \in Tables(m_poolSize')
    BY Zenon DEF IInv, TypeOK, Tables
  <2>2. \A y \in Idx : y + 1 \in Stored
    BY Zenon DEF Stored
  <2>3. CASE clear
    <3>1. m_poolSize' = m_poolSize /\ answer' = None
      BY Zenon, <2>3 DEF clear
    <3>2. \A s \in Slots(m_poolSize) : m_hashTable'[s] = 0
      BY Zenon, <2>3, clearInv DEF Free
    <3>3. \A x \in Idx : x + 1 # 0
      BY IdxAssumption
    <3>4. Entries(m_hashTable)' = {}
      BY ZenonT(60), <2>1, <3>1, <3>2, <3>3, EntriesBySlots DEF Entries
    <3> QED
      BY Zenon, <3>1, <3>4 DEF Set!Next, Set!clear
  <2>4. ASSUME NEW x \in Idx, CheckAndSet(x)
        PROVE  Set!Next
    <3>1. m_poolSize' = m_poolSize
      BY Zenon, <2>4 DEF CheckAndSet
    <3>2. /\ answer' = <<x, \E s \in Slots(m_poolSize) : m_hashTable[s] = x + 1>>
          /\ \A y \in Stored :
               (\E s \in Slots(m_poolSize) : m_hashTable'[s] = y)
                 <=> (y = x + 1 \/ \E s \in Slots(m_poolSize) : m_hashTable[s] = y)
      BY Zenon, <2>4, CheckAndSetInv
    <3>3. answer' = <<x, x \in Entries(m_hashTable)>>
      <4> DEFINE held == \E s \in Slots(m_poolSize) : m_hashTable[s] = x + 1
      <4>1. x \in Entries(m_hashTable) <=> held
        BY Zenon, <2>1, EntriesBySlots
      <4>2. answer' = <<x, held>>
        BY Zenon, <3>2
      <4> HIDE DEF held
      <4>3. (x \in Entries(m_hashTable)) = held
        BY Zenon, <4>1
      <4> QED
        BY Zenon, <4>2, <4>3
    <3>4. \A y \in Idx : y + 1 = x + 1 <=> y = x
      BY IdxAssumption
    <3>5. \A y \in Idx : y \in Entries(m_hashTable)' <=> y = x \/ y \in Entries(m_hashTable)
      BY <2>1, <2>2, <3>1, <3>2, <3>4, EntriesBySlots
    <3>6. Entries(m_hashTable) \subseteq Idx /\ Entries(m_hashTable)' \subseteq Idx
      BY Zenon DEF Entries
    <3>7. Entries(m_hashTable)' = Entries(m_hashTable) \union {x}
      BY Zenon, <3>5, <3>6
    <3> QED
      BY Zenon, <3>3, <3>7 DEF Set!Next, Set!CheckAndSet
  <2>5. CASE Copied
    <3>1. \A y \in Stored :
            (\E s \in Slots(m_poolSize') : m_hashTable'[s] = y)
              <=> (\E s \in Slots(m_poolSize) : m_hashTable[s] = y)
      BY Zenon, <2>5, CopiedInv
    <3>2. \A y \in Idx : y \in Entries(m_hashTable)' <=> y \in Entries(m_hashTable)
      BY ZenonT(60), <2>1, <2>2, <3>1, EntriesBySlots
    <3>3. Entries(m_hashTable) \subseteq Idx /\ Entries(m_hashTable)' \subseteq Idx
      BY Zenon DEF Entries
    <3>4. Entries(m_hashTable)' = Entries(m_hashTable)
      BY Zenon, <3>2, <3>3
    <3> QED
      BY Zenon, <2>5, <3>4 DEF Copied
  <2>6. ASSUME UNCHANGED <<m_hashTable, answer>>
        PROVE  UNCHANGED <<Entries(m_hashTable), answer>>
    BY Zenon, <2>6
  <2>7. (\E x \in Idx : DoubleSize(x)) \/ SkipFree \/ CopyEntry \/ CopyAgain \/ UNCHANGED vars
          => UNCHANGED <<m_hashTable, answer>>
    BY Zenon DEF DoubleSize, SkipFree, CopyEntry, CopyAgain, vars
  <2> QED
    BY Zenon, <2>3, <2>4, <2>5, <2>6, <2>7 DEF Next
<1> QED
  BY <1>1, <1>2, Invariance, PTL DEF Spec, ImplementsSet, Set!Spec
=============================================================================

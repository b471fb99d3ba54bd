---------------------------- MODULE VisitedTable ----------------------------
(***************************************************************************)
(* OptHashPosVector of SPTAG's WorkSpace.h: the open-addressing hash table *)
(* in which a search marks the nodes it has visited.  The table has two    *)
(* blocks of m_poolSize + 1 slots; an id is looked for in MaxLoop slots of *)
(* the first, then in as many of the second.  When all of them are taken   *)
(* by other ids the table doubles: its entries are put one by one into a   *)
(* new table, and the call starts again there.  clear empties the second   *)
(* block only if m_secondHash says it was used.                            *)
(*                                                                         *)
(* Putting one entry is a step, and so is the copy of one entry.  When an  *)
(* entry does not fit into the new table the code calls DoubleSize from    *)
(* within, which starts the same copy again from the table it still has.   *)
(***************************************************************************)
EXTENDS Integers, FiniteSets

CONSTANTS
  Idx,        \* node ids
  MaxLoop,    \* m_maxLoop
  PoolSizes,  \* initial values of m_poolSize
  None

ASSUME IdxAssumption == Idx \subseteq Nat
ASSUME MaxLoopAssumption == MaxLoop \in Nat
ASSUME PoolSizesAssumption ==
  PoolSizes \subseteq Nat /\ \A p \in PoolSizes : \E e \in 0..30 : p + 1 = 2^e
ASSUME NoneAssumption == None \notin Idx \X BOOLEAN

VARIABLES
  m_hashTable, m_poolSize, m_secondHash,
  pc,                \* "idle", or "copy" inside DoubleSize
  idx,               \* argument of the call that doubles the table
  new_hashTable, i,  \* locals of DoubleSize
  answer             \* the last call of CheckAndSet and its result, or None

vars == <<m_hashTable, m_poolSize, m_secondHash, pc, idx, new_hashTable, i, answer>>

Slots(poolSize) == 0..(2 * poolSize + 1)
Free == 0
Stored == {x + 1 : x \in Idx}
Zeroed(poolSize) == [s \in Slots(poolSize) |-> Free]

new_poolSize == 2 * (m_poolSize + 1) - 1

(* The fields range over their types; outside of DoubleSize its locals are *)
(* reset.                                                                  *)
TypeOK ==
  /\ m_poolSize \in Nat
  /\ m_hashTable \in [Slots(m_poolSize) -> Stored \union {Free}]
  /\ m_secondHash \in BOOLEAN
  /\ pc \in {"idle", "copy"}
  /\ idx \in Idx \union {None}
  /\ i \in 0..(new_poolSize + 1)
  /\ new_hashTable \in [Slots(new_poolSize) -> Stored \union {Free}]
  /\ answer \in (Idx \X BOOLEAN) \union {None}
  /\ pc = "copy" => idx \in Idx

(* hash_func in 32-bit arithmetic: the table's size is a power of two, so  *)
(* only the low bits matter, and the two top bits of the rotated id come   *)
(* in at the bottom.                                                       *)
hash_func(x, poolSize) == (99991 * x + 4 * x + (x \div 2^30) + 101) % (poolSize + 1)

(* The slot looked at in the given round of hash_func2: the distance to    *)
(* the first slot grows by 0, 1, 2 and so on.                              *)
Probe(x, poolSize, block, loop) ==
  block * (poolSize + 1) + ((hash_func(x, poolSize) + ((loop * (loop - 1)) \div 2)) % (poolSize + 1))

Loops == 0..(MaxLoop - 1)

(* The loop of _CheckAndSet stops in this round: the slot is free or holds *)
(* the id.                                                                 *)
StopsAt(table, x, poolSize, block, loop) ==
  /\ loop \in Loops
  /\ table[Probe(x, poolSize, block, loop)] \in {Free, x}
  /\ \A l \in Loops : l < loop => table[Probe(x, poolSize, block, l)] \notin {Free, x}

BlockFull(table, x, poolSize, block) ==
  \A l \in Loops : table[Probe(x, poolSize, block, l)] \notin {Free, x}

(* _CheckAndSet puts x into the slot it looks at in this round, or finds   *)
(* it there.                                                               *)
PutsAt(table, x, poolSize, block, loop) ==
  /\ block = 1 => BlockFull(table, x, poolSize, 0)
  /\ StopsAt(table, x, poolSize, block, loop)

Put(table, x, poolSize, block, loop) == [table EXCEPT ![Probe(x, poolSize, block, loop)] = x]

Overflows(table, x, poolSize) == \A b \in 0..1 : BlockFull(table, x, poolSize, b)
-----------------------------------------------------------------------------
Init ==
  /\ m_poolSize \in PoolSizes
  /\ m_hashTable = Zeroed(m_poolSize)
  /\ m_secondHash = FALSE
  /\ pc = "idle" /\ idx = None
  /\ new_hashTable = Zeroed(new_poolSize) /\ i = 0
  /\ answer = None

clearFirstBlock ==
  /\ pc = "idle"
  /\ m_hashTable' = [s \in Slots(m_poolSize) |-> IF s <= m_poolSize THEN Free ELSE m_hashTable[s]]
  /\ m_secondHash' = FALSE
  /\ answer' = None
  /\ UNCHANGED <<m_poolSize, pc, idx, new_hashTable, i>>

clear ==
  /\ pc = "idle"
  /\ m_hashTable' = [s \in Slots(m_poolSize) |->
                       IF m_secondHash \/ s <= m_poolSize THEN Free ELSE m_hashTable[s]]
  /\ m_secondHash' = FALSE
  /\ answer' = None
  /\ UNCHANGED <<m_poolSize, pc, idx, new_hashTable, i>>

(* A call that needs no growth; also the one that starts again after it. *)
CheckAndSet(x) ==
  /\ pc = "idle" /\ idx \in {None, x}
  /\ \E block \in 0..1, loop \in Loops :
       /\ PutsAt(m_hashTable, x + 1, m_poolSize, block, loop)
       /\ answer' = <<x, m_hashTable[Probe(x + 1, m_poolSize, block, loop)] = x + 1>>
       /\ m_hashTable' = Put(m_hashTable, x + 1, m_poolSize, block, loop)
       /\ m_secondHash' = (m_secondHash \/ block = 1)
  /\ idx' = None
  /\ UNCHANGED <<m_poolSize, pc, new_hashTable, i>>

(* DoubleSize from CheckAndSet(x). *)
DoubleSize(x) ==
  /\ pc = "idle" /\ idx \in {None, x}
  /\ Overflows(m_hashTable, x + 1, m_poolSize)
  /\ pc' = "copy" /\ idx' = x
  /\ m_secondHash' = FALSE
  /\ new_hashTable' = Zeroed(new_poolSize) /\ i' = 0
  /\ UNCHANGED <<m_hashTable, m_poolSize, answer>>

SkipFree ==
  /\ pc = "copy" /\ i <= new_poolSize
  /\ m_hashTable[i] = Free
  /\ i' = i + 1
  /\ UNCHANGED <<m_hashTable, m_poolSize, m_secondHash, pc, idx, new_hashTable, answer>>

CopyEntry ==
  /\ pc = "copy" /\ i <= new_poolSize
  /\ m_hashTable[i] # Free
  /\ \E block \in 0..1, loop \in Loops :
       /\ PutsAt(new_hashTable, m_hashTable[i], new_poolSize, block, loop)
       /\ new_hashTable' = Put(new_hashTable, m_hashTable[i], new_poolSize, block, loop)
       /\ m_secondHash' = (m_secondHash \/ block = 1)
  /\ i' = i + 1
  /\ UNCHANGED <<m_hashTable, m_poolSize, pc, idx, answer>>

(* The entry does not fit: DoubleSize from within the copy. *)
EntryOverflows ==
  /\ pc = "copy" /\ i <= new_poolSize
  /\ m_hashTable[i] # Free
  /\ Overflows(new_hashTable, m_hashTable[i], new_poolSize)

CopyAgain ==
  /\ EntryOverflows
  /\ m_secondHash' = FALSE
  /\ new_hashTable' = Zeroed(new_poolSize) /\ i' = 0
  /\ UNCHANGED <<m_hashTable, m_poolSize, pc, idx, answer>>

CopiedKeepsTable ==
  /\ pc = "copy" /\ i > new_poolSize
  /\ new_hashTable' = Zeroed(new_poolSize) /\ i' = 0
  /\ pc' = "idle"
  /\ UNCHANGED <<m_hashTable, m_poolSize, m_secondHash, idx, answer>>

Copied ==
  /\ pc = "copy" /\ i > new_poolSize
  /\ m_poolSize' = new_poolSize
  /\ m_hashTable' = new_hashTable
  /\ new_hashTable' = Zeroed(new_poolSize') /\ i' = 0
  /\ pc' = "idle"
  /\ UNCHANGED <<m_secondHash, idx, answer>>

(* Once a call has grown the table nothing else happens before it ends. *)
Next ==
  \/ idx = None /\ clear
  \/ \E x \in Idx : CheckAndSet(x) \/ DoubleSize(x)
  \/ SkipFree \/ CopyEntry \/ CopyAgain \/ Copied

Spec == Init /\ [][Next]_vars

(* A call that has begun is not suspended. *)
FairSpec == Spec /\ WF_vars(idx # None /\ Next)
-----------------------------------------------------------------------------
Entries(table) == {x \in Idx : \E s \in DOMAIN table : table[s] = x + 1}

Set == INSTANCE VisitedSet WITH visited <- Entries(m_hashTable)

(* Through collisions, the second block, growth and reuse by a new search, *)
(* the table answers like a set: CheckAndSet says whether the id was given *)
(* before since the last clear.                                            *)
ImplementsSet == Set!Spec

(* A call that has to grow the table returns, unless an entry of the old   *)
(* table does not fit into the new one.                                    *)
CheckAndSetReturns == (idx # None) ~> (idx = None \/ EntryOverflows)

(* A call that has to grow the table returns. *)
GrowthEnds == (idx # None) ~> (idx = None)
=============================================================================

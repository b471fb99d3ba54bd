-------------------------- MODULE IndexFilesProofs --------------------------
(***************************************************************************)
(* Proofs about IndexFiles for any number of tables, rows, index names,    *)
(* sessions and builds, and for every workload.                            *)
(*                                                                         *)
(* A build is identified by its number, an index by its oid.  Nothing      *)
(* changes the rows of an indexed table but a build, which takes a new     *)
(* number, and it does so only to rewrite the table.  So two definitions   *)
(* of one build, or without rewrites of one index, have the same rows      *)
(* (SameRows), and a graph holds the rows of every definition of its build *)
(* or index (Sound), whatever is rolled back in between.  What a file      *)
(* holds survives a rollback because inside a transaction rows are only    *)
(* added (CoverInv).  A begun scan keeps its graph because nobody else may *)
(* change its table (ScanInv).                                             *)
(***************************************************************************)
EXTENDS IndexFiles, TLAPS

(* The definitions a step may still bring back: current and committed.     *)
Defs == {catalog[x] : x \in Table} \union {before[x] : x \in Table}

(* A definition has a build and an oid exactly when it names an index; a   *)
(* save under way is of an index in an open transaction.                   *)
ControlInv ==
  /\ \A d \in Defs : /\ d.build <= builds /\ (d.name = None <=> d.build = 0)
                     /\ d.oid <= builds /\ (d.name = None <=> d.oid = 0)
  /\ \A x \in Table : owner[x] = None => catalog[x] = before[x]
  /\ \A x \in saving : owner[x] # None /\ catalog[x].name # None

(* Definitions, or a definition and a graph, whose rows must be the same.  *)
Same(d, e) == d.build = e.build \/ ("REWRITE" \notin workload /\ d.oid = e.oid)

SameRows == \A d, e \in Defs : d.name # None /\ Same(d, e) => d.heap = e.heap

Sound(g) ==
  g \in Graph =>
    /\ g.build <= builds /\ g.oid <= builds
    /\ \A d \in Defs : Same(d, g) => Vectors(d.heap) \subseteq g.rows

GraphInv ==
  /\ \A n \in Name : Sound(file[n])
  /\ \A b \in Backend, n \in Name : Sound(cache[b][n])

CoverInv ==
  workload \intersect {"REWRITE", "RENAME"} = {} => \A x \in Table :
    /\ before[x].heap \subseteq catalog[x].heap
    /\ before[x].name # None => Covers(file[before[x].name], x, before[x].heap)
    /\ catalog[x].name # None => Covers(file[catalog[x].name], x, catalog[x].heap)

(* The inductive invariant.                                                *)
IInv == FilesTypeOK /\ ControlInv /\ SameRows /\ GraphInv /\ CoverInv
-----------------------------------------------------------------------------
(* A graph is neither of the two states of a file without one.             *)
LEMMA GraphIsLoaded ==
  ASSUME NEW g \in Graph
  PROVE  g # NoFile /\ g # Torn
<1>1. DOMAIN g = {"table", "oid", "build", "rows"}
  BY Zenon DEF Graph
<1>2. DOMAIN NoFile = {"state"} /\ DOMAIN Torn = {"state"}
  BY Zenon DEF NoFile, Torn
<1>3. "state" \notin {"table", "oid", "build", "rows"}
  BY Zenon
<1>4. QED
  BY Zenon, <1>1, <1>2, <1>3

(* What the types say of one definition.                                   *)
LEMMA DefinitionFacts ==
  ASSUME FilesTypeOK
  PROVE  /\ \A x \in Table : catalog[x] \in Definition /\ before[x] \in Definition
         /\ \A d \in Defs : d \in Definition
         /\ \A d \in Definition : /\ d.heap \subseteq Row
                                  /\ d.name \in Name \union {None}
                                  /\ d.build \in 0..MaxBuilds /\ d.build \in Nat
                                  /\ d.oid \in 0..MaxBuilds /\ d.oid \in Nat
         /\ builds \in Nat /\ MaxBuilds \in Nat
BY FilesAssumption DEF FilesTypeOK, Defs, Definition

(* The kinds of steps.  A build takes rows that the table holds, unless    *)
(* the workload rewrites tables; an error, a session that leaves and a      *)
(* server that restarts undo transactions, the last two clear maps.        *)
BuildStep ==
  \E b \in Backend, x \in Table, n \in Name, oid \in 1..MaxBuilds, rows \in SUBSET Row :
    /\ MayChange(b, x)
    /\ \/ catalog[x].name = None /\ oid = builds + 1
       \/ catalog[x].name = n /\ oid = catalog[x].oid
    /\ "REWRITE" \in workload \/ rows = catalog[x].heap
    /\ Build(b, x, n, oid, rows)

UndoStep ==
  \E B \in SUBSET Backend :
    /\ Undo(B)
    /\ \/ cache' = cache
       \/ cache' = [b \in Backend |-> IF b \in B THEN [n \in Name |-> NoFile] ELSE cache[b]]
    /\ scan' = [b \in Backend |-> IF b \in B THEN None ELSE scan[b]]
    /\ broken' = broken \/ broken' = TRUE

LEMMA StepCases ==
  ASSUME FilesTypeOK, ControlInv, [Next]_vars
  PROVE  /\ workload' = workload
         /\ \/ BuildStep
            \/ \E b \in Backend, x \in Table, r \in Row : Insert(b, x, r)
            \/ \E b \in Backend, x \in Table : DropIndex(b, x) \/ Commit(b, x) \/ BeginScan(b, x)
            \/ \E b \in Backend, x \in Table, n \in Name : RenameIndex(b, x, n)
            \/ \E b \in Backend, n \in Name : GetTuple(b, n)
            \/ UndoStep
            \/ \E x \in Table : SaveIndex(x) \/ SaveCut(x)
            \/ UNCHANGED vars
<1>1. CASE UNCHANGED vars
  BY Zenon, <1>1 DEF vars
<1>2. workload' = workload
  BY Zenon DEF Next, vars
<1>3. ASSUME NEW b \in Backend, Session(b)
      PROVE  \/ BuildStep
             \/ \E x \in Table, r \in Row : Insert(b, x, r)
             \/ \E x \in Table : DropIndex(b, x) \/ Commit(b, x) \/ BeginScan(b, x)
             \/ \E x \in Table, n \in Name : RenameIndex(b, x, n)
             \/ \E n \in Name : GetTuple(b, n)
             \/ UndoStep
  <2>1. ASSUME NEW x \in Table,
               (\E n \in Name : CreateIndex(b, x, n)) \/ Reindex(b, x)
                 \/ \E rows \in SUBSET Row : Rewrite(b, x, rows)
        PROVE  BuildStep
    <3>1. /\ catalog[x].heap \in SUBSET Row /\ catalog[x].name \in Name \union {None}
          /\ catalog[x].oid \in 0..MaxBuilds /\ catalog[x] \in Defs
      BY Zenon, DefinitionFacts DEF Defs
    <3>2. catalog[x].name # None => catalog[x].oid \in 1..MaxBuilds
      <4>1. catalog[x].name # None => catalog[x].oid # 0
        BY Zenon, <3>1 DEF ControlInv
      <4> QED
        BY <3>1, <4>1, DefinitionFacts
    <3>3. builds < MaxBuilds => builds + 1 \in 1..MaxBuilds
      BY DefinitionFacts
    <3>4. ASSUME NEW n \in Name, CreateIndex(b, x, n) PROVE BuildStep
      <4>1. /\ builds + 1 \in 1..MaxBuilds /\ MayChange(b, x) /\ catalog[x].name = None
            /\ Build(b, x, n, builds + 1, catalog[x].heap)
        BY Zenon, <3>3, <3>4 DEF CreateIndex, Build
      <4> QED
        BY Zenon, <3>1, <4>1 DEF BuildStep
    <3>5. ASSUME Reindex(b, x) PROVE BuildStep
      BY Zenon, <3>1, <3>2, <3>5 DEF BuildStep, Reindex
    <3>6. ASSUME NEW rows \in SUBSET Row, Rewrite(b, x, rows) PROVE BuildStep
      BY Zenon, <3>1, <3>2, <3>6 DEF BuildStep, Rewrite
    <3> QED
      BY Zenon, <2>1, <3>4, <3>5, <3>6
  <2>2. ASSUME Abort(b) \/ EndSession(b) \/ Die PROVE UndoStep
    <3>1. {b} \in SUBSET Backend /\ Backend \in SUBSET Backend
      BY Zenon
    <3>2. CASE Abort(b)
      <4>1. scan' = [c \in Backend |-> IF c \in {b} THEN None ELSE scan[c]]
        BY Zenon, <3>2 DEF Abort, FilesTypeOK
      <4> QED
        BY Zenon, <3>1, <3>2, <4>1 DEF UndoStep, Abort
    <3>3. CASE EndSession(b)
      BY Zenon, <3>1, <3>3 DEF UndoStep, EndSession, End
    <3>4. CASE Die
      BY Zenon, <3>1, <3>4 DEF UndoStep, Die, End
    <3>5. QED
      BY Zenon, <2>2, <3>2, <3>3, <3>4
  <2>3. QED
    BY Zenon, <1>3, <2>1, <2>2 DEF Session, InsertError, BuildError, Rollback, LoadThrows, LookupNull
<1>4. QED
  BY Zenon, <1>1, <1>2, <1>3 DEF Next
-----------------------------------------------------------------------------
LEMMA TypeInit == Init => FilesTypeOK
<1> SUFFICES ASSUME Init PROVE FilesTypeOK
  BY Zenon
<1>1. [heap |-> {}, name |-> None, oid |-> 0, build |-> 0] \in Definition
  BY FilesAssumption DEF Definition
<1>2. catalog \in [Table -> Definition] /\ before \in [Table -> Definition]
  BY Zenon, <1>1 DEF Init
<1>3. \A x \in Table : catalog[x].build <= builds
  BY DEF Init
<1>4. builds \in 0..MaxBuilds
  BY FilesAssumption DEF Init
<1>5. cache \in [Backend -> [Name -> Graph \union {NoFile}]]
  BY Zenon DEF Init
<1>6. broken \in BOOLEAN /\ workload \in Workloads
  BY Zenon DEF Init
<1>7. /\ owner \in [Table -> Backend \union {None}] /\ saving \subseteq Table
      /\ scan \in [Backend -> [table : Table, name : Name] \union {None}]
      /\ file \in [Name -> Graph \union {NoFile, Torn}]
  BY Zenon DEF Init
<1>8. QED
  BY Zenon, <1>2, <1>3, <1>4, <1>5, <1>6, <1>7 DEF FilesTypeOK

(* A command that changes one table writes a definition of the right type. *)
LEMMA ChangeType ==
  ASSUME FilesTypeOK, NEW b \in Backend, NEW x \in Table, NEW def \in Definition,
         Change(b, x, def), builds' \in 0..MaxBuilds, builds <= builds', def.build <= builds'
  PROVE  /\ catalog' \in [Table -> Definition] /\ before' \in [Table -> Definition]
         /\ owner' \in [Table -> Backend \union {None}]
         /\ \A y \in Table : catalog'[y].build <= builds'
<1>1. /\ catalog \in [Table -> Definition] /\ catalog' = [catalog EXCEPT ![x] = def]
      /\ \A y \in Table : catalog[y].build <= builds
  BY Zenon DEF FilesTypeOK, Change
<1>2. \A y \in Table : catalog'[y] = IF y = x THEN def ELSE catalog[y]
  BY Zenon, <1>1
<1>3. \A y \in Table : catalog'[y].build <= builds'
  <2> SUFFICES ASSUME NEW y \in Table, y # x PROVE catalog'[y].build <= builds'
    BY Zenon, <1>2
  <2>1. catalog[y].build \in Nat /\ builds \in Nat /\ builds' \in Nat
    BY DefinitionFacts
  <2>2. QED
    BY <1>1, <1>2, <2>1
<1>4. QED
  BY Zenon, <1>1, <1>3 DEF FilesTypeOK, Change

(* Definition of the index a build makes.                                  *)
LEMMA BuildType ==
  ASSUME FilesTypeOK, NEW b \in Backend, NEW x \in Table, NEW n \in Name,
         NEW oid \in 1..MaxBuilds, NEW rows \in SUBSET Row, Build(b, x, n, oid, rows)
  PROVE  /\ builds' = builds + 1 /\ builds' \in 0..MaxBuilds
         /\ [heap |-> rows, name |-> n, oid |-> oid, build |-> builds + 1] \in Definition
         /\ Change(b, x, [heap |-> rows, name |-> n, oid |-> oid, build |-> builds + 1])
<1>1. builds \in Nat /\ MaxBuilds \in Nat /\ builds < MaxBuilds /\ builds' = builds + 1
  BY Zenon, DefinitionFacts DEF Build
<1>2. builds + 1 \in 0..MaxBuilds /\ oid \in 0..MaxBuilds
  BY <1>1
<1>3. QED
  BY Zenon, <1>1, <1>2 DEF Build, Definition

(* Undoing transactions brings back committed definitions.                 *)
LEMMA UndoFacts ==
  ASSUME FilesTypeOK, ControlInv, UndoStep
  PROVE  /\ UNCHANGED <<before, file, builds>> /\ saving' \subseteq saving
         /\ owner' \in [Table -> Backend \union {None}]
         /\ catalog' \in [Table -> Definition]
         /\ \A x \in Table : \/ catalog'[x] = before[x]
                             \/ catalog'[x] = catalog[x] /\ owner'[x] = owner[x]
         /\ \A x \in saving' : catalog'[x] = catalog[x] /\ owner'[x] = owner[x]
         /\ \A x \in Table : catalog'[x].build <= builds
         /\ cache' \in [Backend -> [Name -> Graph \union {NoFile}]]
         /\ \A b \in Backend, n \in Name : cache'[b][n] \in {cache[b][n], NoFile}
         /\ scan' \in [Backend -> [table : Table, name : Name] \union {None}]
         /\ broken' \in BOOLEAN
<1>1. PICK B \in SUBSET Backend :
        /\ Undo(B)
        /\ \/ cache' = cache
           \/ cache' = [b \in Backend |-> IF b \in B THEN [n \in Name |-> NoFile] ELSE cache[b]]
        /\ scan' = [b \in Backend |-> IF b \in B THEN None ELSE scan[b]]
        /\ broken' = broken \/ broken' = TRUE
  BY Zenon DEF UndoStep
<1>2. broken' \in BOOLEAN
  BY Zenon, <1>1 DEF FilesTypeOK
<1>3. /\ scan' \in [Backend -> [table : Table, name : Name] \union {None}]
      /\ cache' \in [Backend -> [Name -> Graph \union {NoFile}]]
      /\ \A b \in Backend, n \in Name : cache'[b][n] \in {cache[b][n], NoFile}
  <2>1. scan' \in [Backend -> [table : Table, name : Name] \union {None}]
    BY Zenon, <1>1 DEF FilesTypeOK
  <2>2. CASE cache' = cache
    BY Zenon, <2>1, <2>2 DEF FilesTypeOK
  <2>3. CASE cache' = [b \in Backend |-> IF b \in B THEN [n \in Name |-> NoFile] ELSE cache[b]]
    BY Zenon, <2>1, <2>3 DEF FilesTypeOK
  <2> QED
    BY Zenon, <1>1, <2>2, <2>3
<1> DEFINE mine == {x \in Table : owner[x] \in B}
<1>4. /\ catalog' = [x \in Table |-> IF x \in mine THEN before[x] ELSE catalog[x]]
      /\ owner' = [x \in Table |-> IF x \in mine THEN None ELSE owner[x]]
      /\ saving' = saving \ mine
      /\ UNCHANGED <<before, file, builds>>
  BY Zenon, <1>1 DEF Undo
<1>5. saving \subseteq Table
  BY Zenon DEF FilesTypeOK
<1>6. \A x \in Table : \/ catalog'[x] = before[x]
                       \/ catalog'[x] = catalog[x] /\ owner'[x] = owner[x]
  BY Zenon, <1>4
<1>7. \A x \in Table : catalog'[x].build <= builds
  <2>1. \A x \in Table : catalog[x] \in Defs /\ before[x] \in Defs
    BY Zenon DEF Defs
  <2>2. QED
    BY Zenon, <1>6, <2>1 DEF ControlInv
<1>8. owner' \in [Table -> Backend \union {None}] /\ catalog' \in [Table -> Definition]
  BY Zenon, <1>4 DEF FilesTypeOK
<1>9. QED
  BY Zenon, <1>2, <1>3, <1>4, <1>5, <1>6, <1>7, <1>8
-----------------------------------------------------------------------------
LEMMA TypeStep ==
  ASSUME FilesTypeOK, ControlInv, [Next]_vars
  PROVE  FilesTypeOK'
<1>1. workload' \in Workloads
  BY Zenon, StepCases DEF FilesTypeOK
<1>2. CASE BuildStep
  <2>1. PICK b \in Backend, x \in Table, n \in Name,
               oid \in 1..MaxBuilds, rows \in SUBSET Row : Build(b, x, n, oid, rows)
    BY Zenon, <1>2 DEF BuildStep
  <2>2. builds' = builds + 1 /\ builds \in Nat /\ builds' \in 0..MaxBuilds
    BY Zenon, <2>1, BuildType, DefinitionFacts
  <2> DEFINE def == [heap |-> rows, name |-> n, oid |-> oid, build |-> builds + 1]
  <2>3. def \in Definition /\ Change(b, x, def) /\ def.build = builds + 1
    BY Zenon, <2>1, BuildType
  <2> HIDE DEF def
  <2>4. builds <= builds' /\ def.build <= builds'
    BY <2>2, <2>3
  <2>5. /\ catalog' \in [Table -> Definition] /\ before' \in [Table -> Definition]
        /\ owner' \in [Table -> Backend \union {None}]
        /\ \A y \in Table : catalog'[y].build <= builds'
    BY Zenon, <2>2, <2>3, <2>4, ChangeType
  <2>6. /\ file' \in [Name -> Graph \union {NoFile, Torn}] /\ saving' \subseteq Table
        /\ UNCHANGED <<cache, scan>>
    BY Zenon, <2>1 DEF Build, FilesTypeOK
  <2>7. broken' \in BOOLEAN
    BY Zenon, <2>1 DEF Build, FilesTypeOK
  <2>8. QED
    BY Zenon, <1>1, <2>2, <2>5, <2>6, <2>7 DEF FilesTypeOK
<1>3. ASSUME NEW b \in Backend, NEW x \in Table, NEW r \in Row, Insert(b, x, r)
      PROVE  FilesTypeOK'
  <2> DEFINE def == [catalog[x] EXCEPT !.heap = @ \union {r}]
  <2>1. Change(b, x, def) /\ UNCHANGED <<file, builds, saving, cache, scan>>
    BY Zenon, <1>3 DEF Insert
  <2>2. def \in Definition /\ def.build = catalog[x].build
    BY Zenon, DefinitionFacts DEF Definition
  <2> HIDE DEF def
  <2>3. builds' = builds /\ builds \in 0..MaxBuilds /\ builds <= builds' /\ def.build <= builds'
    BY <2>1, <2>2, DefinitionFacts DEF FilesTypeOK
  <2>4. /\ catalog' \in [Table -> Definition] /\ before' \in [Table -> Definition]
        /\ owner' \in [Table -> Backend \union {None}]
        /\ \A y \in Table : catalog'[y].build <= builds'
    BY Zenon, <2>1, <2>2, <2>3, ChangeType
  <2>5. broken' \in BOOLEAN
    BY Zenon, <1>3 DEF Insert, FilesTypeOK
  <2>6. QED
    BY Zenon, <1>1, <2>1, <2>3, <2>4, <2>5 DEF FilesTypeOK
<1>4. ASSUME NEW b \in Backend, NEW x \in Table, DropIndex(b, x)
      PROVE  FilesTypeOK'
  <2> DEFINE def == [catalog[x] EXCEPT !.name = None, !.oid = 0, !.build = 0]
  <2>1. Change(b, x, def) /\ UNCHANGED <<file, builds, saving, cache, scan>>
    BY Zenon, <1>4 DEF DropIndex
  <2>2. def \in Definition /\ def.build = 0
    <3>1. catalog[x] \in Definition /\ 0 \in 0..MaxBuilds
      BY DefinitionFacts
    <3>2. QED
      BY Zenon, <3>1 DEF Definition
  <2> HIDE DEF def
  <2>3. builds' = builds /\ builds \in 0..MaxBuilds /\ builds <= builds' /\ def.build <= builds'
    BY <2>1, <2>2, DefinitionFacts DEF FilesTypeOK
  <2>4. /\ catalog' \in [Table -> Definition] /\ before' \in [Table -> Definition]
        /\ owner' \in [Table -> Backend \union {None}]
        /\ \A y \in Table : catalog'[y].build <= builds'
    BY Zenon, <2>1, <2>2, <2>3, ChangeType
  <2>5. broken' \in BOOLEAN
    BY Zenon, <1>4 DEF DropIndex, FilesTypeOK
  <2>6. QED
    BY Zenon, <1>1, <2>1, <2>3, <2>4, <2>5 DEF FilesTypeOK
<1>5. ASSUME NEW b \in Backend, NEW x \in Table, Commit(b, x)
      PROVE  FilesTypeOK'
  <2>1. /\ before' \in [Table -> Definition] /\ owner' \in [Table -> Backend \union {None}]
        /\ UNCHANGED <<catalog, file, builds, saving, cache, scan>>
    BY Zenon, <1>5 DEF Commit, FilesTypeOK
  <2>2. broken' \in BOOLEAN
    BY Zenon, <1>5 DEF Commit, FilesTypeOK
  <2>3. QED
    BY Zenon, <1>1, <2>1, <2>2 DEF FilesTypeOK
<1>6. ASSUME NEW b \in Backend, NEW x \in Table, BeginScan(b, x)
      PROVE  FilesTypeOK'
  <2> DEFINE n == catalog[x].name
  <2>1. n \in Name
    BY Zenon, <1>6, DefinitionFacts DEF BeginScan, CanScan
  <2>2. /\ \/ cache' = cache
           \/ cache' = [cache EXCEPT ![b][n] = file[n]] /\ file[n] \notin {NoFile, Torn}
        /\ scan' = [scan EXCEPT ![b] = [table |-> x, name |-> n]]
        /\ UNCHANGED <<catalog, before, owner, file, builds, saving>>
    BY Zenon, <1>6 DEF BeginScan, Loadable, tables
  <2> HIDE DEF n
  <2>3. cache' \in [Backend -> [Name -> Graph \union {NoFile}]]
    <3>1. cache \in [Backend -> [Name -> Graph \union {NoFile}]] /\ file \in [Name -> Graph \union {NoFile, Torn}]
      BY Zenon DEF FilesTypeOK
    <3>2. CASE cache' = [cache EXCEPT ![b][n] = file[n]] /\ file[n] \notin {NoFile, Torn}
      <4>1. file[n] \in Graph
        BY Zenon, <2>1, <3>1, <3>2
      <4> QED
        BY SMTT(60), <2>1, <3>1, <3>2, <4>1
    <3> QED
      BY Zenon, <2>2, <3>1, <3>2
  <2>4. scan' \in [Backend -> [table : Table, name : Name] \union {None}]
    BY Zenon, <2>1, <2>2 DEF FilesTypeOK
  <2>5. broken' \in BOOLEAN
    BY Zenon, <1>6 DEF BeginScan, FilesTypeOK
  <2>6. QED
    BY Zenon, <1>1, <2>2, <2>3, <2>4, <2>5 DEF FilesTypeOK
<1>7. ASSUME NEW b \in Backend, NEW x \in Table, NEW n \in Name, RenameIndex(b, x, n)
      PROVE  FilesTypeOK'
  <2>1. /\ catalog' = [catalog EXCEPT ![x] = [catalog[x] EXCEPT !.name = n]]
        /\ before' = catalog'
        /\ UNCHANGED <<owner, file, builds, saving, cache, scan>>
    BY Zenon, <1>7 DEF RenameIndex
  <2>2. /\ [catalog[x] EXCEPT !.name = n] \in Definition
        /\ [catalog[x] EXCEPT !.name = n].build = catalog[x].build
    BY Zenon, DefinitionFacts DEF Definition
  <2>3. catalog' \in [Table -> Definition] /\ \A y \in Table : catalog'[y].build <= builds'
    BY Zenon, <2>1, <2>2 DEF FilesTypeOK
  <2>4. broken' \in BOOLEAN
    BY Zenon, <1>7 DEF RenameIndex, FilesTypeOK
  <2>5. QED
    BY Zenon, <1>1, <2>1, <2>3, <2>4 DEF FilesTypeOK
<1>8. ASSUME NEW b \in Backend, NEW n \in Name, GetTuple(b, n)
      PROVE  FilesTypeOK'
  <2>1. /\ scan' \in [Backend -> [table : Table, name : Name] \union {None}]
        /\ UNCHANGED <<catalog, before, owner, file, builds, saving, cache>>
    BY Zenon, <1>8 DEF GetTuple, FilesTypeOK, tables
  <2>2. broken' \in BOOLEAN
    BY Zenon, <1>8 DEF GetTuple, FilesTypeOK
  <2>3. QED
    BY Zenon, <1>1, <2>1, <2>2 DEF FilesTypeOK
<1>9. CASE UndoStep
  <2>1. saving' \subseteq Table
    BY Zenon, <1>9, UndoFacts DEF FilesTypeOK
  <2>2. QED
    BY Zenon, <1>1, <1>9, <2>1, UndoFacts DEF FilesTypeOK
<1>10. ASSUME NEW x \in Table, SaveIndex(x)
       PROVE  FilesTypeOK'
  <2> DEFINE g == [table |-> x, oid |-> catalog[x].oid, build |-> catalog[x].build,
               rows |-> Vectors(catalog[x].heap)]
  <2>1. /\ x \in saving /\ saving' = saving \ {x}
        /\ file' = [file EXCEPT ![catalog[x].name] = g]
        /\ UNCHANGED <<catalog, before, owner, builds, cache, scan>>
    BY Zenon, <1>10 DEF SaveIndex, LoadedRows, tables
  <2>2. g \in Graph
    <3>1. catalog[x] \in Defs /\ catalog[x].name # None
      BY Zenon, <2>1 DEF Defs, ControlInv
    <3>2. catalog[x].build \in 1..MaxBuilds /\ catalog[x].oid \in 1..MaxBuilds
      BY <3>1, DefinitionFacts DEF ControlInv
    <3>3. QED
      BY Zenon, <3>2, DefinitionFacts DEF Graph, Vectors
  <2> HIDE DEF g
  <2>3. file' \in [Name -> Graph \union {NoFile, Torn}] /\ saving' \subseteq Table
    BY Zenon, <2>1, <2>2 DEF FilesTypeOK
  <2>4. broken' \in BOOLEAN
    BY Zenon, <1>10 DEF SaveIndex, FilesTypeOK
  <2>5. QED
    BY Zenon, <1>1, <2>1, <2>3, <2>4 DEF FilesTypeOK
<1>11. ASSUME NEW x \in Table, SaveCut(x)
       PROVE  FilesTypeOK'
  <2>1. saving' \subseteq Table /\ UNCHANGED <<catalog, before, owner, file, builds, cache, scan>>
    BY Zenon, <1>11 DEF SaveCut, FilesTypeOK, tables
  <2>2. broken' \in BOOLEAN
    BY Zenon, <1>11 DEF SaveCut, FilesTypeOK
  <2>3. QED
    BY Zenon, <1>1, <2>1, <2>2 DEF FilesTypeOK
<1>12. CASE UNCHANGED vars
  BY Zenon, <1>12 DEF vars, tables, FilesTypeOK
<1>13. QED
  BY Zenon, <1>2, <1>3, <1>4, <1>5, <1>6, <1>7, <1>8, <1>9, <1>10, <1>11, <1>12, StepCases
-----------------------------------------------------------------------------
(* A table that a command changes is not inside a save.                    *)
LEMMA ChangedNotSaving ==
  ASSUME ControlInv, NEW b, NEW x, MayChange(b, x)
  PROVE  x \notin saving
BY Zenon DEF ControlInv, MayChange, MayUse, Idle

LEMMA ChangeDefs ==
  ASSUME FilesTypeOK, NEW b \in Backend, NEW x \in Table, NEW def, Change(b, x, def)
  PROVE  /\ before' = before
         /\ \A y \in Table : /\ catalog'[y] = IF y = x THEN def ELSE catalog[y]
                             /\ owner'[y] = IF y = x THEN b ELSE owner[y]
         /\ \A d \in Defs' : d \in Defs \/ d = def
<1>1. /\ before' = before
      /\ \A y \in Table : /\ catalog'[y] = IF y = x THEN def ELSE catalog[y]
                          /\ owner'[y] = IF y = x THEN b ELSE owner[y]
  BY Zenon DEF Change, FilesTypeOK
<1>2. QED
  BY Zenon, <1>1 DEF Defs

(* The definitions after a step: those before it (under another name after *)
(* a rename), or one without an index, or that of a new build, which makes *)
(* a new index or rebuilds one with the rows it has.                       *)
Like(d, e) ==
  d.build = e.build /\ d.oid = e.oid /\ d.heap = e.heap /\ (d.name = None <=> e.name = None)

OldDefs ==
  /\ builds' = builds
  /\ \A d \in Defs' : (d.name = None /\ d.build = 0 /\ d.oid = 0) \/ \E e \in Defs : Like(d, e)

NewDefs ==
  /\ builds' = builds + 1
  /\ \E new : /\ new.build = builds + 1 /\ new.name # None
              /\ \/ new.oid = builds + 1
                 \/ \E e \in Defs : /\ e.name # None /\ e.oid = new.oid
                                    /\ "REWRITE" \in workload \/ e.heap = new.heap
              /\ \A d \in Defs' : d = new \/ d \in Defs

LEMMA DefsStep ==
  ASSUME FilesTypeOK, ControlInv, [Next]_vars
  PROVE  OldDefs \/ NewDefs
<1>0. \A e \in Defs : Like(e, e)
  BY Zenon DEF Like
<1>1. CASE BuildStep
  <2>1. PICK b \in Backend, x \in Table, n \in Name, oid \in 1..MaxBuilds, rows \in SUBSET Row :
          /\ \/ catalog[x].name = None /\ oid = builds + 1
             \/ catalog[x].name = n /\ oid = catalog[x].oid
          /\ "REWRITE" \in workload \/ rows = catalog[x].heap
          /\ Build(b, x, n, oid, rows)
    BY ZenonT(60), <1>1 DEF BuildStep
  <2> DEFINE def == [heap |-> rows, name |-> n, oid |-> oid, build |-> builds + 1]
  <2>2. Change(b, x, def) /\ builds' = builds + 1
    BY Zenon, <2>1 DEF Build
  <2>3. def.build = builds + 1 /\ def.oid = oid /\ def.heap = rows /\ def.name # None /\ n # None
    BY Zenon, FilesAssumption
  <2> HIDE DEF def
  <2>4. \A d \in Defs' : d = def \/ d \in Defs
    BY Zenon, <2>2, ChangeDefs
  <2>5. catalog[x] \in Defs
    BY Zenon DEF Defs
  <2>6. \/ def.oid = builds + 1
        \/ \E e \in Defs : /\ e.name # None /\ e.oid = def.oid
                           /\ "REWRITE" \in workload \/ e.heap = def.heap
    BY Zenon, <2>1, <2>3, <2>5
  <2>7. NewDefs
    BY Zenon, <2>2, <2>3, <2>4, <2>6 DEF NewDefs
  <2> QED
    BY Zenon, <2>7
<1>2. ASSUME NEW b \in Backend, NEW x \in Table, NEW r \in Row, Insert(b, x, r)
      PROVE  OldDefs
  <2> DEFINE def == [catalog[x] EXCEPT !.heap = @ \union {r}]
  <2>1. Change(b, x, def) /\ builds' = builds /\ catalog[x].name = None
    BY Zenon, <1>2 DEF Insert
  <2>2. catalog[x].build = 0 /\ catalog[x].oid = 0
    BY Zenon, <2>1 DEF ControlInv, Defs
  <2>3. def.name = None /\ def.build = 0 /\ def.oid = 0
    BY Zenon, <2>1, <2>2, DefinitionFacts DEF Definition
  <2> HIDE DEF def
  <2>4. QED
    BY <1>0, <2>1, <2>3, ChangeDefs DEF OldDefs
<1>3. ASSUME NEW b \in Backend, NEW x \in Table, DropIndex(b, x)
      PROVE  OldDefs
  <2> DEFINE def == [catalog[x] EXCEPT !.name = None, !.oid = 0, !.build = 0]
  <2>1. Change(b, x, def) /\ builds' = builds
    BY Zenon, <1>3 DEF DropIndex
  <2>2. def.name = None /\ def.build = 0 /\ def.oid = 0
    BY Zenon, DefinitionFacts DEF Definition
  <2> HIDE DEF def
  <2>3. QED
    BY <1>0, <2>1, <2>2, ChangeDefs DEF OldDefs
<1>4. ASSUME NEW b \in Backend, NEW x \in Table, NEW n \in Name, RenameIndex(b, x, n)
      PROVE  OldDefs
  <2> DEFINE def == [catalog[x] EXCEPT !.name = n]
  <2>1. /\ catalog' = [catalog EXCEPT ![x] = def]
        /\ before' = catalog' /\ builds' = builds /\ catalog[x].name # None
    BY Zenon, <1>4 DEF RenameIndex
  <2>2. Like(def, catalog[x])
    BY Zenon, <2>1, DefinitionFacts, FilesAssumption DEF Like, Definition
  <2> HIDE DEF def
  <2>3. \A y \in Table : catalog'[y] = IF y = x THEN def ELSE catalog[y]
    BY Zenon, <2>1 DEF FilesTypeOK
  <2>4. \A d \in Defs' : d = def \/ d \in Defs
    BY Zenon, <2>1, <2>3 DEF Defs
  <2>5. catalog[x] \in Defs
    BY Zenon DEF Defs
  <2>6. QED
    BY Zenon, <1>0, <2>1, <2>2, <2>4, <2>5 DEF OldDefs
<1>5. ASSUME NEW b \in Backend, NEW x \in Table, Commit(b, x)
      PROVE  OldDefs
  <2>1. \A d \in Defs' : d \in Defs
    BY Zenon, <1>5 DEF Commit, Defs, FilesTypeOK
  <2>2. QED
    BY Zenon, <1>0, <1>5, <2>1 DEF OldDefs, Commit
<1>6. CASE UndoStep
  <2>1. \A d \in Defs' : d \in Defs
    BY Zenon, <1>6, UndoFacts DEF Defs
  <2>2. QED
    BY Zenon, <1>0, <1>6, <2>1, UndoFacts DEF OldDefs
<1>7. CASE UNCHANGED <<catalog, before, builds>>
  BY Zenon, <1>0, <1>7 DEF OldDefs, Defs
<1>8. ASSUME \/ \E b \in Backend, x \in Table : BeginScan(b, x)
             \/ \E b \in Backend, n \in Name : GetTuple(b, n)
             \/ \E x \in Table : SaveIndex(x) \/ SaveCut(x)
             \/ UNCHANGED vars
      PROVE  UNCHANGED <<catalog, before, builds>>
  BY Zenon, <1>8 DEF BeginScan, GetTuple, SaveIndex, SaveCut, vars, tables
<1>9. QED
  BY Zenon, <1>1, <1>2, <1>3, <1>4, <1>5, <1>6, <1>7, <1>8, StepCases

LEMMA SameRowsStep ==
  ASSUME FilesTypeOK, ControlInv, SameRows, [Next]_vars
  PROVE  /\ SameRows'
         /\ \A d \in Defs' : /\ d.build <= builds' /\ (d.name = None <=> d.build = 0)
                             /\ d.oid <= builds' /\ (d.name = None <=> d.oid = 0)
<1>1. /\ builds \in Nat /\ workload' = workload
      /\ \A d \in Defs : d.build \in Nat /\ d.build <= builds /\ d.oid \in Nat /\ d.oid <= builds
      /\ \A d \in Defs : (d.name = None <=> d.build = 0) /\ (d.name = None <=> d.oid = 0)
  BY Zenon, DefinitionFacts, StepCases DEF ControlInv
<1>2. CASE OldDefs
  <2>1. \A d \in Defs' : /\ d.build <= builds' /\ (d.name = None <=> d.build = 0)
                         /\ d.oid <= builds' /\ (d.name = None <=> d.oid = 0)
    BY <1>1, <1>2 DEF OldDefs, Like
  <2>2. SameRows'
    <3> SUFFICES ASSUME NEW d \in Defs', NEW e \in Defs', d.name # None, Same(d, e)
                 PROVE  d.heap = e.heap
      BY Zenon, <1>1 DEF SameRows, Same
    <3>1. e.name # None
      BY Zenon, <2>1 DEF Same
    <3>2. PICK c \in Defs, f \in Defs : Like(d, c) /\ Like(e, f)
      BY Zenon, <1>2, <3>1 DEF OldDefs
    <3> QED
      BY Zenon, <3>2 DEF SameRows, Same, Like
  <2> QED
    BY Zenon, <2>1, <2>2
<1>3. CASE NewDefs
  <2>1. PICK new : /\ new.build = builds + 1 /\ new.name # None
                   /\ \/ new.oid = builds + 1
                      \/ \E e \in Defs : /\ e.name # None /\ e.oid = new.oid
                                         /\ "REWRITE" \in workload \/ e.heap = new.heap
                   /\ \A d \in Defs' : d = new \/ d \in Defs
    BY Zenon, <1>3 DEF NewDefs
  <2>2. \A d \in Defs : d.build # new.build /\ d.oid # builds + 1
    BY <1>1, <2>1
  <2>3. ASSUME NEW d \in Defs, Same(d, new) PROVE d.heap = new.heap
    <3>1. "REWRITE" \notin workload /\ d.oid = new.oid
      BY Zenon, <2>2, <2>3 DEF Same
    <3>2. PICK e \in Defs : e.name # None /\ e.oid = new.oid /\ e.heap = new.heap
      BY Zenon, <2>1, <2>2, <3>1
    <3> QED
      BY Zenon, <3>1, <3>2 DEF SameRows, Same
  <2>4. SameRows'
    <3> SUFFICES ASSUME NEW d \in Defs', NEW e \in Defs', d.name # None, Same(d, e)
                 PROVE  d.heap = e.heap
      BY Zenon, <1>1 DEF SameRows, Same
    <3>1. Same(e, d)
      BY Zenon DEF Same
    <3> QED
      BY Zenon, <2>1, <2>3, <3>1 DEF SameRows
  <2>5. builds' = builds + 1 /\ new.oid <= builds + 1 /\ new.oid # 0
    <3>1. builds' = builds + 1
      BY Zenon, <1>3 DEF NewDefs
    <3>2. CASE new.oid = builds + 1
      BY <1>1, <3>1, <3>2
    <3>3. CASE \E e \in Defs : e.name # None /\ e.oid = new.oid
      BY <1>1, <3>1, <3>3
    <3> QED
      BY Zenon, <2>1, <3>2, <3>3
  <2>6. QED
    BY <1>1, <2>1, <2>4, <2>5
<1>4. QED
  BY Zenon, <1>2, <1>3, DefsStep

LEMMA ControlStep ==
  ASSUME FilesTypeOK, ControlInv, SameRows, [Next]_vars
  PROVE  ControlInv'
<1> SUFFICES /\ \A x \in Table : owner'[x] = None => catalog'[x] = before'[x]
             /\ \A x \in saving' : owner'[x] # None /\ catalog'[x].name # None
  BY Zenon, SameRowsStep DEF ControlInv
<1>0. saving \subseteq Table /\ None \notin Name /\ None \notin Backend
  BY Zenon, FilesAssumption DEF FilesTypeOK
<1>1. CASE BuildStep
  <2>1. PICK b \in Backend, x \in Table, n \in Name,
               oid \in 1..MaxBuilds, rows \in SUBSET Row : Build(b, x, n, oid, rows)
    BY Zenon, <1>1 DEF BuildStep
  <2> DEFINE def == [heap |-> rows, name |-> n, oid |-> oid, build |-> builds + 1]
  <2>2. Change(b, x, def) /\ saving' = saving \union {x} /\ def.name = n
    BY Zenon, <2>1 DEF Build
  <2> HIDE DEF def
  <2>3. QED
    BY <1>0, <2>2, ChangeDefs DEF ControlInv
<1>2. ASSUME NEW b \in Backend, NEW x \in Table, NEW def, Change(b, x, def), MayChange(b, x),
             saving' = saving
      PROVE  /\ \A y \in Table : owner'[y] = None => catalog'[y] = before'[y]
             /\ \A y \in saving' : owner'[y] # None /\ catalog'[y].name # None
  BY SMTT(60), <1>0, <1>2, ChangeDefs, ChangedNotSaving DEF ControlInv
<1>3. CASE \/ \E b \in Backend, x \in Table, r \in Row : Insert(b, x, r)
           \/ \E b \in Backend, x \in Table : DropIndex(b, x)
  <2>1. \E b \in Backend, x \in Table : \E def : Change(b, x, def) /\ MayChange(b, x) /\ saving' = saving
    BY Zenon, <1>3 DEF Insert, DropIndex
  <2>2. QED
    BY Zenon, <1>2, <2>1
<1>4. ASSUME NEW b \in Backend, NEW x \in Table, NEW n \in Name, RenameIndex(b, x, n)
      PROVE  /\ \A y \in Table : owner'[y] = None => catalog'[y] = before'[y]
             /\ \A y \in saving' : owner'[y] # None /\ catalog'[y].name # None
  <2>1. /\ catalog' = [catalog EXCEPT ![x] = [catalog[x] EXCEPT !.name = n]]
        /\ before' = catalog' /\ owner' = owner /\ saving' = saving /\ owner[x] = None
    BY Zenon, <1>4 DEF RenameIndex
  <2>2. \A y \in Table : y # x => catalog'[y] = catalog[y]
    BY Zenon, <2>1 DEF FilesTypeOK
  <2>3. QED
    BY Zenon, <1>0, <2>1, <2>2 DEF ControlInv
<1>5. ASSUME NEW b \in Backend, NEW x \in Table, Commit(b, x)
      PROVE  /\ \A y \in Table : owner'[y] = None => catalog'[y] = before'[y]
             /\ \A y \in saving' : owner'[y] # None /\ catalog'[y].name # None
  <2>1. /\ \A y \in Table : before'[y] = IF y = x THEN catalog[x] ELSE before[y]
        /\ \A y \in Table : owner'[y] = IF y = x THEN None ELSE owner[y]
        /\ catalog' = catalog /\ saving' = saving /\ x \notin saving
    BY Zenon, <1>5 DEF Commit, Idle, FilesTypeOK
  <2>2. QED
    BY Zenon, <1>0, <2>1 DEF ControlInv
<1>6. CASE UndoStep
  <2>1. \A y \in saving' : owner'[y] # None /\ catalog'[y].name # None
    BY Zenon, <1>6, UndoFacts DEF ControlInv
  <2>2. \A y \in Table : owner'[y] = None => catalog'[y] = before'[y]
    BY Zenon, <1>6, UndoFacts DEF ControlInv
  <2>3. QED
    BY Zenon, <2>1, <2>2
<1>7. CASE UNCHANGED <<catalog, before, owner>> /\ saving' \subseteq saving
  BY Zenon, <1>7 DEF ControlInv
<1>8. ASSUME \/ \E b \in Backend, x \in Table : BeginScan(b, x)
             \/ \E b \in Backend, n \in Name : GetTuple(b, n)
             \/ \E x \in Table : SaveIndex(x) \/ SaveCut(x)
             \/ UNCHANGED vars
      PROVE  UNCHANGED <<catalog, before, owner>> /\ saving' \subseteq saving
  BY Zenon, <1>8 DEF BeginScan, GetTuple, SaveIndex, SaveCut, vars, tables
<1>9. QED
  BY Zenon, <1>1, <1>3, <1>4, <1>5, <1>6, <1>7, <1>8, StepCases
-----------------------------------------------------------------------------
(* A graph stays sound: no step gives other rows to a build's number, nor, *)
(* without rewrites, to an oid.                                            *)
LEMMA SoundStep ==
  ASSUME FilesTypeOK, ControlInv, [Next]_vars, NEW g, Sound(g)
  PROVE  Sound(g)'
<1>0. workload' = workload
  BY Zenon, StepCases
<1> SUFFICES ASSUME g \in Graph
             PROVE  /\ g.build <= builds' /\ g.oid <= builds'
                    /\ \A d \in Defs' : Same(d, g) => Vectors(d.heap) \subseteq g.rows
  BY Zenon, <1>0 DEF Sound, Same
<1>1. /\ g.build \in 1..MaxBuilds /\ g.build \in Nat /\ g.build # 0 /\ builds \in Nat
      /\ g.oid \in 1..MaxBuilds /\ g.oid \in Nat /\ g.oid # 0
  BY DefinitionFacts DEF Graph
<1>2. /\ g.build <= builds /\ g.oid <= builds
      /\ \A d \in Defs : Same(d, g) => Vectors(d.heap) \subseteq g.rows
  BY Zenon DEF Sound
<1>3. CASE OldDefs
  <2>1. ASSUME NEW d \in Defs', Same(d, g) PROVE Vectors(d.heap) \subseteq g.rows
    <3>1. PICK e \in Defs : Like(d, e)
      BY Zenon, <1>1, <1>3, <2>1 DEF OldDefs, Same
    <3>2. Same(e, g) /\ d.heap = e.heap
      BY Zenon, <2>1, <3>1 DEF Same, Like
    <3> QED
      BY Zenon, <1>2, <3>2
  <2>2. builds' = builds
    BY Zenon, <1>3 DEF OldDefs
  <2> QED
    BY Zenon, <1>2, <2>1, <2>2
<1>4. CASE NewDefs
  <2>1. PICK new : /\ new.build = builds + 1
                   /\ \/ new.oid = builds + 1
                      \/ \E e \in Defs : /\ e.name # None /\ e.oid = new.oid
                                         /\ "REWRITE" \in workload \/ e.heap = new.heap
                   /\ \A d \in Defs' : d = new \/ d \in Defs
    BY Zenon, <1>4 DEF NewDefs
  <2>2. g.build # builds + 1 /\ g.oid # builds + 1
    BY <1>1, <1>2
  <2>3. ASSUME Same(new, g) PROVE Vectors(new.heap) \subseteq g.rows
    <3>1. "REWRITE" \notin workload /\ new.oid = g.oid
      BY Zenon, <2>1, <2>2, <2>3 DEF Same
    <3>2. PICK e \in Defs : e.oid = new.oid /\ e.heap = new.heap
      BY Zenon, <2>1, <2>2, <3>1
    <3> QED
      BY Zenon, <1>2, <3>1, <3>2 DEF Same
  <2>4. builds' = builds + 1
    BY Zenon, <1>4 DEF NewDefs
  <2>5. g.build <= builds' /\ g.oid <= builds'
    BY <1>1, <1>2, <2>4
  <2> QED
    BY Zenon, <1>2, <2>1, <2>3, <2>5
<1>5. QED
  BY Zenon, <1>3, <1>4, DefsStep

(* The files and maps of a step hold graphs of the state before it, or the *)
(* one that saveIndex writes.                                              *)
LEMMA GraphStep ==
  ASSUME FilesTypeOK, ControlInv, SameRows, GraphInv, [Next]_vars
  PROVE  GraphInv'
<1>0. Sound(NoFile)' /\ Sound(Torn)'
  BY Zenon, GraphIsLoaded DEF Sound
<1>1. /\ \A n \in Name : Sound(file[n]) /\ (file'[n] = file[n] => Sound(file[n])')
      /\ \A b \in Backend, n \in Name : cache'[b][n] = cache[b][n] => Sound(cache[b][n])'
  <2>1. ASSUME NEW n \in Name, file'[n] = file[n] PROVE Sound(file[n])'
    <3> DEFINE g == file[n]
    <3>1. Sound(g)
      BY Zenon DEF GraphInv
    <3>2. g' = g
      BY Zenon, <2>1
    <3> HIDE DEF g
    <3>3. ASSUME NEW h, h = g PROVE Sound(h)'
      BY Zenon, <3>1, <3>3, SoundStep
    <3>4. QED
      BY Zenon, <3>2, <3>3 DEF Sound, g
  <2>2. ASSUME NEW b \in Backend, NEW n \in Name, cache'[b][n] = cache[b][n]
        PROVE  Sound(cache[b][n])'
    <3> DEFINE g == cache[b][n]
    <3>1. Sound(g)
      BY Zenon DEF GraphInv
    <3>2. g' = g
      BY Zenon, <2>2
    <3> HIDE DEF g
    <3>3. ASSUME NEW h, h = g PROVE Sound(h)'
      BY Zenon, <3>1, <3>3, SoundStep
    <3>4. QED
      BY Zenon, <3>2, <3>3 DEF Sound, g
  <2>3. QED
    BY Zenon, <2>1, <2>2 DEF GraphInv
<1>2. CASE UNCHANGED <<file, cache>>
  BY Zenon, <1>1, <1>2 DEF GraphInv
<1>3. CASE BuildStep
  <2>1. PICK n \in Name : file' = [file EXCEPT ![n] = Torn] /\ cache' = cache
    BY ZenonT(60), <1>3 DEF BuildStep, Build
  <2>2. \A m \in Name : file'[m] = file[m] \/ file'[m] = Torn
    BY Zenon, <2>1 DEF FilesTypeOK
  <2>3. \A m \in Name : Sound(file[m])'
    BY Zenon, <1>0, <1>1, <2>2 DEF Sound
  <2>4. QED
    BY Zenon, <1>1, <2>1, <2>3 DEF GraphInv
<1>4. ASSUME NEW b \in Backend, NEW x \in Table, BeginScan(b, x)
      PROVE  GraphInv'
  <2> DEFINE n == catalog[x].name
  <2>1. n \in Name
    BY Zenon, <1>4, DefinitionFacts DEF BeginScan, CanScan
  <2>2. file' = file /\ (cache' = cache \/ cache' = [cache EXCEPT ![b][n] = file[n]])
    BY Zenon, <1>4 DEF BeginScan
  <2> HIDE DEF n
  <2>3. \A c \in Backend, m \in Name : \/ cache'[c][m] = cache[c][m]
                                       \/ m = n /\ cache'[c][m] = file'[m]
    BY <2>1, <2>2 DEF FilesTypeOK
  <2>4. \A m \in Name : Sound(file[m])'
    BY Zenon, <1>1, <2>2
  <2>5. \A c \in Backend, m \in Name : Sound(cache[c][m])'
    BY ZenonT(60), <1>1, <2>3, <2>4 DEF Sound
  <2>6. QED
    BY Zenon, <2>4, <2>5 DEF GraphInv
<1>5. CASE UndoStep
  <2>1. \A n \in Name : Sound(file[n])'
    BY Zenon, <1>1, <1>5, UndoFacts
  <2>2. \A b \in Backend, n \in Name : cache'[b][n] = cache[b][n] \/ cache'[b][n] = NoFile
    BY Zenon, <1>5, UndoFacts
  <2>3. \A b \in Backend, n \in Name : Sound(cache[b][n])'
    BY Zenon, <1>0, <1>1, <2>2 DEF Sound
  <2>4. QED
    BY Zenon, <2>1, <2>3 DEF GraphInv
<1>6. ASSUME NEW x \in Table, SaveIndex(x)
      PROVE  GraphInv'
  <2> DEFINE g == [table |-> x, oid |-> catalog[x].oid, build |-> catalog[x].build,
               rows |-> Vectors(catalog[x].heap)]
  <2>1. /\ x \in saving /\ file' = [file EXCEPT ![catalog[x].name] = g]
        /\ UNCHANGED <<catalog, before, builds, cache>>
    BY Zenon, <1>6 DEF SaveIndex, LoadedRows, tables
  <2>2. Sound(g)'
    <3>1. /\ catalog[x] \in Defs /\ catalog[x].name # None
          /\ catalog[x].build <= builds /\ catalog[x].oid <= builds
      BY Zenon, <2>1 DEF Defs, ControlInv
    <3>2. \A d \in Defs : Same(catalog[x], d) => Vectors(d.heap) = Vectors(catalog[x].heap)
      BY Zenon, <3>1 DEF SameRows
    <3>3. \A d \in Defs : Same(d, g) => Vectors(d.heap) \subseteq g.rows
      BY Zenon, <3>2 DEF Same
    <3>4. g.build <= builds /\ g.oid <= builds
      BY Zenon, <3>1
    <3>5. Defs' = Defs /\ workload' = workload /\ g' = g /\ builds' = builds
      BY Zenon, <2>1, StepCases DEF Defs
    <3>6. QED
      <4> HIDE DEF g
      <4> QED
        BY Zenon, <3>3, <3>4, <3>5 DEF Sound, Same
  <2>3. g' = g
    BY Zenon, <2>1
  <2> HIDE DEF g
  <2>4. \A m \in Name : file'[m] = file[m] \/ file'[m] = g'
    BY Zenon, <2>1, <2>3 DEF FilesTypeOK
  <2>5. \A m \in Name : Sound(file[m])'
    BY Zenon, <1>1, <2>2, <2>4 DEF Sound
  <2>6. QED
    BY Zenon, <1>1, <2>1, <2>5 DEF GraphInv
<1>7. ASSUME \/ \E b \in Backend, x \in Table, r \in Row : Insert(b, x, r)
             \/ \E b \in Backend, x \in Table : DropIndex(b, x) \/ Commit(b, x)
             \/ \E b \in Backend, x \in Table, n \in Name : RenameIndex(b, x, n)
             \/ \E b \in Backend, n \in Name : GetTuple(b, n)
             \/ \E x \in Table : SaveCut(x)
             \/ UNCHANGED vars
      PROVE  UNCHANGED <<file, cache>>
  BY ZenonT(60), <1>7 DEF Insert, DropIndex, Commit, RenameIndex, GetTuple, SaveCut, vars
<1>8. QED
  BY Zenon, <1>2, <1>3, <1>4, <1>5, <1>6, <1>7, StepCases
-----------------------------------------------------------------------------
(* What CoverInv says of one table, given its current and its committed    *)
(* definition and the files.                                               *)
Covered(x, def, committed, files) ==
  /\ committed.heap \subseteq def.heap
  /\ committed.name # None => Covers(files[committed.name], x, committed.heap)
  /\ def.name # None => Covers(files[def.name], x, def.heap)

LEMMA CoverStep ==
  ASSUME FilesTypeOK, ControlInv, CoverInv, [Next]_vars
  PROVE  CoverInv'
<1> SUFFICES ASSUME workload \intersect {"REWRITE", "RENAME"} = {}, NEW y \in Table
             PROVE  Covered(y, catalog'[y], before'[y], file')
  BY Zenon, StepCases DEF CoverInv, Covered
<1>0. /\ Covered(y, catalog[y], before[y], file)
      /\ "REWRITE" \notin workload /\ "RENAME" \notin workload
      /\ catalog[y].name \in Name \union {None} /\ before[y].name \in Name \union {None}
  BY Zenon, DefinitionFacts DEF CoverInv, Covered
<1>1. CASE BuildStep
  <2>1. PICK b \in Backend, x \in Table, n \in Name,
               oid \in 1..MaxBuilds, rows \in SUBSET Row :
          rows = catalog[x].heap /\ Build(b, x, n, oid, rows)
    BY ZenonT(60), <1>0, <1>1 DEF BuildStep
  <2> DEFINE def == [heap |-> rows, name |-> n, oid |-> oid, build |-> builds + 1]
  <2>2. Change(b, x, def) /\ def.heap = catalog[x].heap /\ def.name = n
    BY Zenon, <2>1 DEF Build
  <2> HIDE DEF def
  <2>3. \A m \in Name : file'[m] = IF m = n THEN Torn ELSE file[m]
    BY Zenon, <2>1 DEF Build, FilesTypeOK
  <2>4. before' = before /\ catalog'[y] = IF y = x THEN def ELSE catalog[y]
    BY SMTT(60), <2>2, ChangeDefs
  <2>5. CASE y = x
    BY Zenon, <1>0, <2>2, <2>3, <2>4, <2>5 DEF Covered, Covers
  <2>6. CASE y # x
    BY Zenon, <1>0, <2>3, <2>4, <2>6 DEF Covered, Covers
  <2>7. QED
    BY Zenon, <2>5, <2>6
<1>2. ASSUME NEW b \in Backend, NEW x \in Table, NEW def, Change(b, x, def),
             file' = file, def.name = None, catalog[x].heap \subseteq def.heap
      PROVE  Covered(y, catalog'[y], before'[y], file')
  BY SMTT(60), <1>0, <1>2, ChangeDefs DEF Covered
<1>3. ASSUME NEW b \in Backend, NEW x \in Table, NEW r \in Row, Insert(b, x, r)
      PROVE  Covered(y, catalog'[y], before'[y], file')
  <2> DEFINE def == [catalog[x] EXCEPT !.heap = @ \union {r}]
  <2>1. Change(b, x, def) /\ file' = file /\ catalog[x].name = None
    BY Zenon, <1>3 DEF Insert
  <2>2. def.name = None /\ catalog[x].heap \subseteq def.heap
    BY Zenon, <2>1, DefinitionFacts DEF Definition
  <2> HIDE DEF def
  <2>3. QED
    BY Zenon, <1>2, <2>1, <2>2
<1>4. ASSUME NEW b \in Backend, NEW x \in Table, DropIndex(b, x)
      PROVE  Covered(y, catalog'[y], before'[y], file')
  <2> DEFINE def == [catalog[x] EXCEPT !.name = None, !.oid = 0, !.build = 0]
  <2>1. Change(b, x, def) /\ file' = file
    BY Zenon, <1>4 DEF DropIndex
  <2>2. def.name = None /\ catalog[x].heap \subseteq def.heap
    BY Zenon, DefinitionFacts DEF Definition
  <2> HIDE DEF def
  <2>3. QED
    BY Zenon, <1>2, <2>1, <2>2
<1>5. ASSUME NEW b \in Backend, NEW x \in Table, Commit(b, x)
      PROVE  Covered(y, catalog'[y], before'[y], file')
  <2>1. /\ before'[y] = IF y = x THEN catalog[x] ELSE before[y]
        /\ catalog' = catalog /\ file' = file
    BY Zenon, <1>5 DEF Commit, FilesTypeOK
  <2>2. QED
    BY Zenon, <1>0, <2>1 DEF Covered
<1>6. CASE UndoStep
  <2>1. /\ before' = before /\ file' = file
        /\ catalog'[y] = before[y] \/ catalog'[y] = catalog[y]
    BY Zenon, <1>6, UndoFacts
  <2>2. QED
    BY Zenon, <1>0, <2>1 DEF Covered
<1>7. ASSUME NEW x \in Table, SaveIndex(x)
      PROVE  Covered(y, catalog'[y], before'[y], file')
  <2> DEFINE g == [table |-> x, oid |-> catalog[x].oid, build |-> catalog[x].build,
               rows |-> Vectors(catalog[x].heap)]
  <2>1. /\ x \in saving /\ file' = [file EXCEPT ![catalog[x].name] = g]
        /\ UNCHANGED <<catalog, before>>
    BY Zenon, <1>7 DEF SaveIndex, LoadedRows, tables
  <2>2. g # NoFile /\ g.table = x /\ g.rows = Vectors(catalog[x].heap)
    <3>1. catalog[x] \in Defs /\ catalog[x].name # None
      BY Zenon, <2>1 DEF Defs, ControlInv
    <3>2. catalog[x].build \in 1..MaxBuilds /\ catalog[x].oid \in 1..MaxBuilds
      BY <3>1, DefinitionFacts DEF ControlInv
    <3>3. g \in Graph
      BY Zenon, <3>2, DefinitionFacts DEF Graph, Vectors
    <3>4. QED
      BY Zenon, <3>3, GraphIsLoaded
  <2> HIDE DEF g
  <2>3. \A m \in Name : file'[m] = IF m = catalog[x].name THEN g ELSE file[m]
    BY Zenon, <2>1 DEF FilesTypeOK
  <2>4. Vectors(before[y].heap) \subseteq Vectors(catalog[y].heap)
    BY Zenon, <1>0 DEF Covered, Vectors
  <2>5. QED
    BY <1>0, <2>1, <2>2, <2>3, <2>4 DEF Covered, Covers
<1>8. CASE UNCHANGED <<catalog, before, file>>
  BY Zenon, <1>0, <1>8
<1>9. ASSUME \/ \E b \in Backend, x \in Table : BeginScan(b, x)
             \/ \E b \in Backend, n \in Name : GetTuple(b, n)
             \/ \E x \in Table : SaveCut(x)
             \/ UNCHANGED vars
      PROVE  UNCHANGED <<catalog, before, file>>
  BY Zenon, <1>9 DEF BeginScan, GetTuple, SaveCut, vars, tables
<1>10. ASSUME NEW b \in Backend, NEW x \in Table, NEW n \in Name, RenameIndex(b, x, n)
       PROVE  FALSE
  BY Zenon, <1>0, <1>10 DEF RenameIndex
<1>11. QED
  BY Zenon, <1>1, <1>3, <1>4, <1>5, <1>6, <1>7, <1>8, <1>9, <1>10, StepCases
-----------------------------------------------------------------------------
LEMMA InitIInv == Init => IInv
<1> SUFFICES ASSUME Init PROVE IInv
  BY Zenon
<1>1. FilesTypeOK
  BY Zenon, TypeInit
<1>2. \A d \in Defs : d = [heap |-> {}, name |-> None, oid |-> 0, build |-> 0]
  BY Zenon DEF Init, Defs
<1>3. ControlInv /\ SameRows
  BY <1>2 DEF Init, ControlInv, SameRows
<1>4. GraphInv
  BY Zenon, GraphIsLoaded DEF Init, GraphInv, Sound
<1>5. CoverInv
  BY Zenon DEF Init, CoverInv
<1>6. QED
  BY Zenon, <1>1, <1>3, <1>4, <1>5 DEF IInv

(* The inductive invariant holds in every reachable state.                 *)
THEOREM Invariance == Spec => []IInv
<1>1. IInv /\ [Next]_vars => IInv'
  BY Zenon, TypeStep, ControlStep, SameRowsStep, GraphStep, CoverStep DEF IInv
<1>2. QED
  BY <1>1, InitIInv, PTL DEF Spec

(* The catalog, the files and the maps keep their types: what hnsw_build   *)
(* writes under a name is a graph of some build, and no map of a backend   *)
(* ever holds a torn one.                                                  *)
THEOREM TypeCorrect == Spec => []FilesTypeOK
<1>1. IInv => FilesTypeOK
  BY Zenon DEF IInv
<1>2. QED
  BY <1>1, Invariance, PTL

(* Without a rename or a rewrite, the file hnsw_build left for an index    *)
(* nobody is changing covers the rows of its table that have a vector, is  *)
(* torn, or belongs to another table's index of that name.                 *)
THEOREM FileCovers == Spec => []FileCoversTable
<1>1. IInv => FileCoversTable
  BY Zenon DEF IInv, CoverInv, FileCoversTable, CommittedFilesCover
<1>2. QED
  BY <1>1, Invariance, PTL

(* hnsw_gettuple on the graph of the index's own build sees every row of   *)
(* the table that has a vector, under every workload.                      *)
THEOREM OwnBuildComplete == Spec => OwnBuildSeesTable
<1>1. ASSUME IInv, NEW b \in Backend, NEW n \in Name, GetTuple(b, n),
             cache[b][n].build = catalog[scan[b].table].build
      PROVE  Vectors(catalog[scan[b].table].heap) \subseteq cache[b][n].rows
  <2>1. scan[b] # None /\ cache[b][n] # NoFile
    BY Zenon, <1>1 DEF GetTuple, NamesRead
  <2>2. scan[b].table \in Table /\ cache[b][n] \in Graph
    BY <1>1, <2>1 DEF IInv, FilesTypeOK
  <2>3. Sound(cache[b][n])
    BY Zenon, <1>1 DEF IInv, GraphInv
  <2>4. QED
    BY Zenon, <1>1, <2>2, <2>3 DEF Sound, Same, Defs
<1>2. IInv /\ [Next]_vars =>
        [\A b \in Backend, n \in Name : GetTuple(b, n) =>
           LET def == catalog[scan[b].table] IN
           cache[b][n].build = def.build => Vectors(def.heap) \subseteq cache[b][n].rows]_vars
  BY Zenon, <1>1
<1>3. QED
  BY <1>2, Invariance, PTL DEF Spec, OwnBuildSeesTable

(* In the absence of rewrites, every graph of an index of the catalog that *)
(* any backend holds in its map, under any name, has every row of the      *)
(* table that has a vector: only the graph of another index, dropped or    *)
(* rolled back, can be stale.                                              *)
THEOREM MapsCover == Spec => []MapCoversTable
<1>1. IInv => MapCoversTable
  <2> SUFFICES ASSUME IInv, "REWRITE" \notin workload,
                      NEW b \in Backend, NEW n \in Name, NEW x \in Table,
                      cache[b][n] # NoFile, cache[b][n].oid = catalog[x].oid
               PROVE  Vectors(catalog[x].heap) \subseteq cache[b][n].rows
    BY Zenon DEF MapCoversTable
  <2>1. cache[b][n] \in Graph /\ Sound(cache[b][n])
    <3>1. cache \in [Backend -> [Name -> Graph \union {NoFile}]] /\ GraphInv
      BY Zenon DEF IInv, FilesTypeOK
    <3>2. cache[b][n] \in Graph
      BY Zenon, <3>1
    <3>3. QED
      BY Zenon, <3>1, <3>2 DEF GraphInv
  <2>2. catalog[x] \in Defs /\ Same(catalog[x], cache[b][n])
    BY Zenon DEF Defs, Same
  <2>3. QED
    BY Zenon, <2>1, <2>2 DEF Sound
<1>2. QED
  BY <1>1, Invariance, PTL
-----------------------------------------------------------------------------
(* What holds of a begun scan: its table has no open transaction of        *)
(* another session, which is what keeps a rollback from taking the index   *)
(* away under it.                                                          *)
ScanInv ==
  \A b \in Backend : scan[b] # None =>
    /\ owner[scan[b].table] \in {b, None}
    /\ "RENAME" \notin workload => catalog[scan[b].table].name = scan[b].name
    /\ cache[b][scan[b].name] # NoFile

(* A session whose transaction is not undone keeps its scan and its map.   *)
LEMMA UndoSpares ==
  ASSUME FilesTypeOK, UndoStep
  PROVE  \E B \in SUBSET Backend :
           /\ \A x \in Table : IF owner[x] \in B THEN catalog'[x] = before[x] /\ owner'[x] = None
                               ELSE catalog'[x] = catalog[x] /\ owner'[x] = owner[x]
           /\ \A b \in Backend : scan'[b] # None => b \notin B /\ scan'[b] = scan[b]
           /\ \A b \in Backend \ B : cache'[b] = cache[b]
<1>1. PICK B \in SUBSET Backend :
        /\ Undo(B)
        /\ \/ cache' = cache
           \/ cache' = [b \in Backend |-> IF b \in B THEN [n \in Name |-> NoFile] ELSE cache[b]]
        /\ scan' = [b \in Backend |-> IF b \in B THEN None ELSE scan[b]]
  BY Zenon DEF UndoStep
<1>2. \A x \in Table : IF owner[x] \in B THEN catalog'[x] = before[x] /\ owner'[x] = None
                       ELSE catalog'[x] = catalog[x] /\ owner'[x] = owner[x]
  BY Zenon, <1>1 DEF Undo
<1>3. \A b \in Backend : scan'[b] # None => b \notin B /\ scan'[b] = scan[b]
  BY Zenon, <1>1
<1>4. \A b \in Backend \ B : cache'[b] = cache[b]
  BY Zenon, <1>1
<1> QED
  BY Zenon, <1>2, <1>3, <1>4

LEMMA ScanStep ==
  ASSUME IInv, ScanInv, [Next]_vars
  PROVE  ScanInv'
<1> DEFINE Kept(b) == /\ scan[b] # None /\ scan'[b] = scan[b]
                      /\ owner'[scan[b].table] \in {owner[scan[b].table], None}
                      /\ cache'[b] = cache[b]
                      /\ "RENAME" \notin workload =>
                           catalog'[scan[b].table].name = catalog[scan[b].table].name
<1>0. FilesTypeOK /\ ControlInv /\ workload' = workload
  BY Zenon, StepCases DEF IInv
<1>1. ASSUME \A b \in Backend : scan'[b] # None => Kept(b)
      PROVE  ScanInv'
  <2> SUFFICES ASSUME NEW b \in Backend, scan'[b] # None
               PROVE  /\ owner'[scan'[b].table] \in {b, None}
                      /\ "RENAME" \notin workload => catalog'[scan'[b].table].name = scan'[b].name
                      /\ cache'[b][scan'[b].name] # NoFile
    BY Zenon, <1>0 DEF ScanInv
  <2>1. Kept(b)
    BY Zenon, <1>1
  <2>2. /\ owner[scan[b].table] \in {b, None}
        /\ "RENAME" \notin workload => catalog[scan[b].table].name = scan[b].name
        /\ cache[b][scan[b].name] # NoFile
    BY Zenon, <2>1 DEF ScanInv
  <2>3. owner'[scan[b].table] \in {b, None} /\ cache'[b][scan[b].name] # NoFile
    BY Zenon, <2>1, <2>2
  <2>4. "RENAME" \notin workload => catalog'[scan[b].table].name = scan[b].name
    BY Zenon, <2>1, <2>2
  <2> QED
    BY Zenon, <2>1, <2>3, <2>4
<1>2. \A b \in Backend : scan[b] # None => scan[b].table \in Table /\ scan[b].name \in Name
  BY <1>0 DEF FilesTypeOK
<1>3. ASSUME NEW c \in Backend, NEW x \in Table, NEW def, Change(c, x, def), MayChange(c, x),
             UNCHANGED <<cache, scan>>
      PROVE  ScanInv'
  <2>1. \A b \in Backend : scan[b] # None => scan[b].table # x
    BY Zenon, <1>3 DEF MayChange, Scanned
  <2>2. \A y \in Table : y # x => catalog'[y] = catalog[y] /\ owner'[y] = owner[y]
    BY ZenonT(60), <1>0, <1>3, ChangeDefs
  <2> SUFFICES ASSUME NEW b \in Backend, scan'[b] # None PROVE Kept(b)
    BY Zenon, <1>1
  <2>3. scan' = scan /\ cache' = cache /\ scan[b] # None
    BY Zenon, <1>3
  <2>4. scan[b].table \in Table /\ scan[b].table # x
    BY Zenon, <1>2, <2>1, <2>3
  <2> QED
    BY Zenon, <2>2, <2>3, <2>4
<1>4. CASE BuildStep
  <2>1. \E c \in Backend, x \in Table : \E def :
          Change(c, x, def) /\ MayChange(c, x) /\ UNCHANGED <<cache, scan>>
    BY ZenonT(60), <1>4 DEF BuildStep, Build
  <2> QED
    BY Zenon, <1>3, <2>1
<1>5. CASE \/ \E c \in Backend, x \in Table, r \in Row : Insert(c, x, r)
           \/ \E c \in Backend, x \in Table : DropIndex(c, x)
  <2>1. \E c \in Backend, x \in Table : \E def :
          Change(c, x, def) /\ MayChange(c, x) /\ UNCHANGED <<cache, scan>>
    BY Zenon, <1>5 DEF Insert, DropIndex
  <2> QED
    BY Zenon, <1>3, <2>1
<1>6. CASE \/ \E c \in Backend, x \in Table, n \in Name : RenameIndex(c, x, n)
           \/ \E x \in Table : SaveIndex(x) \/ SaveCut(x)
           \/ UNCHANGED vars
  <2>1. UNCHANGED <<owner, cache, scan>> /\ ("RENAME" \in workload \/ catalog' = catalog)
    BY Zenon, <1>6 DEF RenameIndex, SaveIndex, SaveCut, vars, tables
  <2> QED
    BY Zenon, <1>1, <2>1
<1>7. ASSUME NEW c \in Backend, NEW x \in Table, Commit(c, x)
      PROVE  ScanInv'
  <2>1. /\ UNCHANGED <<catalog, cache, scan>>
        /\ \A y \in Table : owner'[y] \in {owner[y], None}
    BY Zenon, <1>0, <1>7 DEF Commit, FilesTypeOK
  <2> QED
    BY Zenon, <1>1, <1>2, <2>1
<1>8. ASSUME NEW c \in Backend, NEW n \in Name, GetTuple(c, n)
      PROVE  ScanInv'
  <2>1. /\ UNCHANGED <<catalog, owner, cache>>
        /\ \A b \in Backend : scan'[b] # None => scan'[b] = scan[b]
    BY Zenon, <1>0, <1>8 DEF GetTuple, tables, FilesTypeOK
  <2> QED
    BY Zenon, <1>1, <2>1
<1>9. CASE UndoStep
  <2>1. PICK B \in SUBSET Backend :
          /\ \A x \in Table : IF owner[x] \in B THEN catalog'[x] = before[x] /\ owner'[x] = None
                              ELSE catalog'[x] = catalog[x] /\ owner'[x] = owner[x]
          /\ \A b \in Backend : scan'[b] # None => b \notin B /\ scan'[b] = scan[b]
          /\ \A b \in Backend \ B : cache'[b] = cache[b]
    BY Zenon, <1>0, <1>9, UndoSpares
  <2>2. None \notin B
    BY Zenon, FilesAssumption
  <2> SUFFICES ASSUME NEW b \in Backend, scan'[b] # None PROVE Kept(b)
    BY Zenon, <1>1
  <2>3. b \notin B /\ scan'[b] = scan[b] /\ scan[b] # None /\ cache'[b] = cache[b]
    BY Zenon, <2>1
  <2>4. scan[b].table \in Table /\ owner[scan[b].table] \notin B
    BY Zenon, <1>2, <2>2, <2>3 DEF ScanInv
  <2> QED
    BY Zenon, <2>1, <2>3, <2>4
<1>10. ASSUME NEW c \in Backend, NEW x \in Table, BeginScan(c, x)
       PROVE  ScanInv'
  <2> DEFINE n == catalog[x].name
  <2>1. n \in Name
    BY Zenon, <1>0, <1>10, DefinitionFacts DEF BeginScan, CanScan
  <2>2. /\ UNCHANGED <<catalog, owner>> /\ owner[x] \in {c, None}
        /\ scan' = [scan EXCEPT ![c] = [table |-> x, name |-> n]]
        /\ \/ cache[c][n] # NoFile /\ cache' = cache
           \/ file[n] # NoFile /\ cache' = [cache EXCEPT ![c][n] = file[n]]
    BY Zenon, <1>10 DEF BeginScan, CanScan, MayUse, Loadable, tables
  <2>3. catalog'[x].name = n
    BY Zenon, <2>2
  <2> HIDE DEF n
  <2>4. cache'[c][n] # NoFile /\ \A b \in Backend : b # c => cache'[b] = cache[b]
    BY <1>0, <2>1, <2>2 DEF FilesTypeOK
  <2>5. /\ scan'[c].table = x /\ scan'[c].name = n
        /\ \A b \in Backend : b # c => scan'[b] = scan[b]
    BY Zenon, <1>0, <2>2 DEF FilesTypeOK
  <2> QED
    <3> SUFFICES ASSUME NEW b \in Backend, scan'[b] # None
                 PROVE  /\ owner'[scan'[b].table] \in {b, None}
                        /\ "RENAME" \notin workload => catalog'[scan'[b].table].name = scan'[b].name
                        /\ cache'[b][scan'[b].name] # NoFile
      BY Zenon, <1>0 DEF ScanInv
    <3>1. CASE b = c
      BY Zenon, <2>2, <2>3, <2>4, <2>5, <3>1
    <3>2. CASE b # c
      <4>1. scan'[b] = scan[b] /\ cache'[b] = cache[b] /\ scan[b] # None
        BY Zenon, <2>4, <2>5, <3>2
      <4> QED
        BY Zenon, <2>2, <4>1 DEF ScanInv
    <3> QED
      BY Zenon, <3>1, <3>2
<1> QED
  BY Zenon, <1>4, <1>5, <1>6, <1>7, <1>8, <1>9, <1>10, <1>0, StepCases

(* hnsw_gettuple finds the graph its scan loaded, with any tables, names   *)
(* and sessions and under every workload without a rename.                 *)
THEOREM ScanKeepsGraph == Spec => []ScanKeepsItsGraph
<1>1. Init => ScanInv
  BY Zenon DEF Init, ScanInv
<1>2. ScanInv => ScanKeepsItsGraph
  BY Zenon DEF ScanInv, ScanKeepsItsGraph
<1> QED
  BY <1>1, <1>2, ScanStep, Invariance, PTL DEF Spec
=============================================================================

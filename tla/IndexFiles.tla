----------------------------- MODULE IndexFiles -----------------------------
(***************************************************************************)
(* Where a vector index lives.  hnsw_build writes the graph to a file of   *)
(* its own, named after the index and outside the server's storage, WAL    *)
(* and transactions; hnsw_begin_scan loads that file into a map of the     *)
(* backend that is never invalidated; hnsw_gettuple looks the graph up in  *)
(* the map by the index's name.  This module runs those functions under    *)
(* the commands that reach them: the DDL commands of several sessions,     *)
(* their commits, rollbacks and errors, ended sessions and restarts of the *)
(* server.                                                                 *)
(*                                                                         *)
(* A row stands for a heap tuple at its TID; its vector may be NULL.  A    *)
(* table has at most one vector index and is alone in its schema, so two   *)
(* tables may give their indexes the same name.  A transaction changes one *)
(* table.                                                                  *)
(***************************************************************************)
EXTENDS Naturals, FiniteSets

CONSTANTS
  Table, Row, Name, Backend,
  NullRow,     \* rows whose vector is NULL
  Workloads,   \* sets of commands sessions may use besides INSERT and CREATE INDEX
  MaxBuilds,   \* bound on index builds
  None

ASSUME FilesAssumption ==
  /\ None \notin Table \union Name \union Backend
  /\ NullRow \subseteq Row
  /\ MaxBuilds \in Nat

(* The oid identifies the index: CREATE INDEX takes a new one, a rebuild   *)
(* keeps it.                                                               *)
Graph == [table : Table, oid : 1..MaxBuilds, build : 1..MaxBuilds, rows : SUBSET Row]
Definition == [heap : SUBSET Row, name : Name \union {None},
               oid : 0..MaxBuilds, build : 0..MaxBuilds]
NoFile == [state |-> "missing"]
Torn == [state |-> "torn"]

VARIABLES
  workload,  \* what the sessions of this run may do
  catalog,   \* of a table: its rows, its index's name, oid and the build it comes from
  before,    \* of a table: the same as of the last commit
  owner,     \* of a table: the session whose open transaction has changed it
  file,      \* of a name: its index file
  builds,    \* number of builds so far
  saving,    \* tables whose index is inside saveIndex
  cache,     \* of a session: vector_index_map
  scan,      \* of a session: the index scan it has begun, with the name it loaded
  broken     \* a backend died of an uncaught exception or a null pointer

tables == <<catalog, before, owner>>
vars == <<workload, tables, file, builds, saving, cache, scan, broken>>

(* The files and maps hold graphs that some build made, no map holds a     *)
(* torn one, and the catalog names no build that has not started.          *)
FilesTypeOK ==
  /\ workload \in Workloads
  /\ catalog \in [Table -> Definition] /\ before \in [Table -> Definition]
  /\ owner \in [Table -> Backend \union {None}]
  /\ file \in [Name -> Graph \union {NoFile, Torn}]
  /\ builds \in 0..MaxBuilds
  /\ \A x \in Table : catalog[x].build <= builds
  /\ saving \subseteq Table
  /\ cache \in [Backend -> [Name -> Graph \union {NoFile}]]
  /\ scan \in [Backend -> [table : Table, name : Name] \union {None}]
  /\ broken \in BOOLEAN

Init ==
  /\ workload \in Workloads
  /\ catalog = [x \in Table |-> [heap |-> {}, name |-> None, oid |-> 0, build |-> 0]]
  /\ before = catalog
  /\ owner = [x \in Table |-> None]
  /\ file = [n \in Name |-> NoFile]
  /\ builds = 0
  /\ saving = {}
  /\ cache = [b \in Backend |-> [n \in Name |-> NoFile]]
  /\ scan = [b \in Backend |-> None]
  /\ broken = FALSE

Scanned(x) == \E b \in Backend : scan[b] # None /\ scan[b].table = x
Idle(b) == scan[b] = None /\ \A x \in saving : owner[x] # b

Vectors(rows) == rows \ NullRow

(* The locks of a command that reads or inserts into a table, and of one   *)
(* that changes it or its index.                                           *)
MayUse(b, x) == Idle(b) /\ owner[x] \in {b, None}

MayChange(b, x) ==
  /\ MayUse(b, x)
  /\ \A y \in Table : owner[y] = b => y = x
  /\ ~Scanned(x)

(* The command changes x to the definition def, inside b's transaction. *)
Change(b, x, def) ==
  /\ catalog' = [catalog EXCEPT ![x] = def]
  /\ owner' = [owner EXCEPT ![x] = b]
  /\ UNCHANGED before

-----------------------------------------------------------------------------
(* hnsw_build up to the opening of its file, which truncates it.  Two      *)
(* saves of one file do not overlap.                                       *)
Build(b, x, n, oid, rows) ==
  /\ builds < MaxBuilds
  /\ \A y \in saving : catalog[y].name # n
  /\ builds' = builds + 1
  /\ Change(b, x, [heap |-> rows, name |-> n, oid |-> oid, build |-> builds + 1])
  /\ file' = [file EXCEPT ![n] = Torn]
  /\ saving' = saving \union {x}
  /\ UNCHANGED <<cache, scan, broken>>

CreateIndex(b, x, n) ==
  /\ MayChange(b, x) /\ catalog[x].name = None
  /\ Build(b, x, n, builds + 1, catalog[x].heap)

(* REINDEX *)
Reindex(b, x) ==
  /\ "REINDEX" \in workload
  /\ MayChange(b, x) /\ catalog[x].name # None
  /\ Build(b, x, catalog[x].name, catalog[x].oid, catalog[x].heap)

(* TRUNCATE, or CLUSTER and the like, which move every row, rebuild the    *)
(* index of the new heap.                                                  *)
Rewrite(b, x, rows) ==
  /\ "REWRITE" \in workload
  /\ MayChange(b, x) /\ catalog[x].name # None
  /\ \/ rows = {}
     \/ /\ Cardinality(Vectors(rows)) = Cardinality(Vectors(catalog[x].heap))
        /\ Cardinality(rows) = Cardinality(catalog[x].heap)
  /\ Build(b, x, catalog[x].name, catalog[x].oid, rows)

(* The rows a build loads: those of the heap that have a vector, whether   *)
(* committed or of the building transaction.                               *)
CommittedRows(x) == Vectors(before[x].heap)

LoadedRows(x) == Vectors(catalog[x].heap)

SaveIndex(x) ==
  /\ x \in saving
  /\ file' = [file EXCEPT ![catalog[x].name] =
                [table |-> x, oid |-> catalog[x].oid, build |-> catalog[x].build,
                 rows |-> LoadedRows(x)]]
  /\ saving' = saving \ {x}
  /\ UNCHANGED <<tables, builds, cache, scan, broken>>

(* A write fails, as on a full disk: the stream ignores it, and so does    *)
(* the build.                                                              *)
SaveCut(x) ==
  /\ x \in saving
  /\ saving' = saving \ {x}
  /\ UNCHANGED <<tables, file, builds, cache, scan, broken>>

InsertUnindexed(b, x, r) ==
  /\ MayChange(b, x)
  /\ r \notin catalog[x].heap
  /\ Change(b, x, [catalog[x] EXCEPT !.heap = @ \union {r}])
  /\ UNCHANGED <<file, builds, saving, cache, scan, broken>>

(* INSERT into a table without index; into another, see InsertError. *)
Insert(b, x, r) ==
  /\ MayChange(b, x) /\ catalog[x].name = None
  /\ r \notin catalog[x].heap
  /\ Change(b, x, [catalog[x] EXCEPT !.heap = @ \union {r}])
  /\ UNCHANGED <<file, builds, saving, cache, scan, broken>>

(* DROP INDEX leaves the file and the maps alone. *)
DropIndex(b, x) ==
  /\ "DROP" \in workload
  /\ MayChange(b, x) /\ catalog[x].name # None
  /\ Change(b, x, [catalog[x] EXCEPT !.name = None, !.oid = 0, !.build = 0])
  /\ UNCHANGED <<file, builds, saving, cache, scan, broken>>

(* ALTER INDEX RENAME, which waits for no scan. *)
RenameIndex(b, x, n) ==
  /\ "RENAME" \in workload
  /\ Idle(b) /\ owner[x] = None
  /\ catalog[x].name \notin {None, n}
  /\ catalog' = [catalog EXCEPT ![x].name = n]
  /\ before' = catalog'
  /\ UNCHANGED <<owner, file, builds, saving, cache, scan, broken>>

Commit(b, x) ==
  /\ Idle(b) /\ owner[x] = b
  /\ before' = [before EXCEPT ![x] = catalog[x]]
  /\ owner' = [owner EXCEPT ![x] = None]
  /\ UNCHANGED <<catalog, file, builds, saving, cache, scan, broken>>

(* The transactions of sessions B are undone: their tables go back to the  *)
(* last commit.  A save they were in stops where it is.                    *)
Undo(B) ==
  LET mine == {x \in Table : owner[x] \in B} IN
  /\ catalog' = [x \in Table |-> IF x \in mine THEN before[x] ELSE catalog[x]]
  /\ owner' = [x \in Table |-> IF x \in mine THEN None ELSE owner[x]]
  /\ saving' = saving \ mine
  /\ UNCHANGED <<before, file, builds>>

(* b's transaction ends in an error.  The session and its map stay. *)
Abort(b) ==
  /\ Undo({b})
  /\ scan' = [scan EXCEPT ![b] = None]
  /\ UNCHANGED <<cache, broken>>

(* The access method has no aminsert: INSERT into an indexed table is an   *)
(* error.                                                                  *)
InsertError(b, x) == MayUse(b, x) /\ catalog[x].name # None /\ Abort(b)

(* A build that finds vectors of two lengths, which it does before it      *)
(* opens its file.                                                         *)
BuildError(b, x) ==
  /\ MayChange(b, x)
  /\ Cardinality(Vectors(catalog[x].heap)) > 1
  /\ Abort(b)

(* ROLLBACK, and a statement that fails or is cancelled, a scan included.  *)
(* saveIndex cannot be cancelled.                                          *)
Rollback(b) ==
  /\ \A x \in saving : owner[x] # b
  /\ scan[b] # None \/ \E x \in Table : owner[x] = b
  /\ Abort(b)

(* Sessions B end, and with them their maps. *)
End(B) ==
  /\ Undo(B)
  /\ cache' = [b \in Backend |-> IF b \in B THEN [n \in Name |-> NoFile] ELSE cache[b]]
  /\ scan' = [b \in Backend |-> IF b \in B THEN None ELSE scan[b]]

(* A session ends: its client leaves, or hnsw_build turns a C++ exception  *)
(* into a FATAL error.                                                     *)
EndSession(b) == End({b}) /\ UNCHANGED broken

(* A backend that dies takes all the others with it. *)
Die == End(Backend) /\ broken' = TRUE

-----------------------------------------------------------------------------
(* hnsw_begin_scan with LoadIndex.  loadIndex throws on a missing or torn  *)
(* file, and no caller catches.                                            *)
CanScan(b, x) == MayUse(b, x) /\ catalog[x].name # None

LoadableUnchecked(n) == file[n] # NoFile

Loadable(n) == file[n] \notin {NoFile, Torn}

(* Mutant: the loaded graph is not put into the map. *)
BeginScanUncached(b, x) ==
  /\ CanScan(b, x)
  /\ cache[b][catalog[x].name] # NoFile \/ Loadable(catalog[x].name)
  /\ scan' = [scan EXCEPT ![b] = [table |-> x, name |-> catalog[x].name]]
  /\ UNCHANGED <<tables, file, builds, saving, cache, broken>>

BeginScan(b, x) ==
  LET n == catalog[x].name IN
  /\ CanScan(b, x)
  /\ \/ cache[b][n] # NoFile /\ UNCHANGED cache
     \/ /\ cache[b][n] = NoFile /\ Loadable(n)
        /\ cache' = [cache EXCEPT ![b][n] = file[n]]
  /\ scan' = [scan EXCEPT ![b] = [table |-> x, name |-> n]]
  /\ UNCHANGED <<tables, file, builds, saving, broken>>

LoadThrows(b, x) ==
  LET n == catalog[x].name IN
  /\ CanScan(b, x)
  /\ cache[b][n] = NoFile /\ ~Loadable(n)
  /\ Die

(* The name the first hnsw_gettuple reads: that of hnsw_begin_scan, or the *)
(* one of a rename since.                                                  *)
NamesRead(b) == IF scan[b] = None THEN {} ELSE {scan[b].name, catalog[scan[b].table].name}

(* The first hnsw_gettuple opens its iterator on the graph under that name *)
(* and the scan runs to its end.                                           *)
GetTuple(b, n) ==
  /\ n \in NamesRead(b) /\ cache[b][n] # NoFile
  /\ scan' = [scan EXCEPT ![b] = None]
  /\ UNCHANGED <<tables, file, builds, saving, cache, broken>>

(* The map has no such name: operator[] makes a null pointer. *)
LookupNull(b, n) ==
  /\ n \in NamesRead(b) /\ cache[b][n] = NoFile
  /\ Die

Session(b) ==
  \/ \E x \in Table :
       \/ \E n \in Name : CreateIndex(b, x, n) \/ RenameIndex(b, x, n)
       \/ Reindex(b, x) \/ DropIndex(b, x) \/ Commit(b, x)
       \/ \E rows \in SUBSET Row : Rewrite(b, x, rows)
       \/ \E r \in Row : Insert(b, x, r)
       \/ InsertError(b, x) \/ BuildError(b, x)
       \/ BeginScan(b, x) \/ LoadThrows(b, x)
  \/ \E n \in Name : GetTuple(b, n) \/ LookupNull(b, n)
  \/ Rollback(b) \/ EndSession(b)

Next ==
  /\ (\E b \in Backend : Session(b)) \/ (\E x \in Table : SaveIndex(x) \/ SaveCut(x))
  /\ UNCHANGED workload

Spec == Init /\ [][Next]_vars
-----------------------------------------------------------------------------
(* A search on the graph of the index's own build sees every row of the    *)
(* table that has a vector: the build loads the rows of its own            *)
(* transaction too, and nothing adds a row to an indexed table.            *)
OwnBuildSeesTable ==
  [][\A b \in Backend, n \in Name : GetTuple(b, n) =>
       LET def == catalog[scan[b].table] IN
       cache[b][n].build = def.build => Vectors(def.heap) \subseteq cache[b][n].rows]_vars

(* The file f of an index of table x is torn, another table's, or covers   *)
(* the rows of heap that have a vector.                                    *)
Covers(f, x, heap) ==
  f = Torn \/ (f # NoFile /\ (f.table = x => Vectors(heap) \subseteq f.rows))

CommittedFilesCover ==
  \A x \in Table : owner[x] = None /\ catalog[x].name # None =>
    Covers(file[catalog[x].name], x, catalog[x].heap)

(* As long as no command renames the index or moves the table's rows, the  *)
(* file of an index nobody is changing exists and, unless another table's  *)
(* index of that name has taken it, holds every row of the table that has  *)
(* a vector or is torn (and refused by loadIndex), through failed, rolled  *)
(* back and interrupted CREATE INDEX, DROP INDEX and REINDEX.              *)
FileCoversTable == workload \intersect {"REWRITE", "RENAME"} = {} => CommittedFilesCover

(* As long as no index is renamed, a begun scan keeps its index and finds  *)
(* the graph hnsw_begin_scan loaded when hnsw_gettuple looks it up by      *)
(* name, whatever the other sessions drop, rebuild, roll back or leave.    *)
ScanKeepsItsGraph ==
  "RENAME" \notin workload =>
    \A b \in Backend : scan[b] # None =>
      /\ catalog[scan[b].table].name = scan[b].name
      /\ cache[b][scan[b].name] # NoFile

(* The maps of the backends are never invalidated, and but for commands    *)
(* that move rows they would not need it if their key were the index's oid *)
(* in place of its name: every graph of an index of the catalog, from any  *)
(* of its builds, in any map and under any name, has every row of the      *)
(* table that has a vector.                                                *)
MapCoversTable ==
  "REWRITE" \notin workload =>
    \A b \in Backend, n \in Name, x \in Table :
      LET g == cache[b][n] IN
      catalog[x].name # None /\ g # NoFile /\ g.oid = catalog[x].oid =>
        Vectors(catalog[x].heap) \subseteq g.rows

(* A search sees every row of the table it scans. *)
ScanSeesTable ==
  [][\A b \in Backend, n \in Name : GetTuple(b, n) =>
       catalog[scan[b].table].heap \subseteq cache[b][n].rows]_vars

(* No scan of an index in the catalog ends in a dead backend. *)
NoBrokenBackend == ~broken
=============================================================================

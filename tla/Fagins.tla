------------------------------- MODULE Fagins -------------------------------
(***************************************************************************)
(* The multi-index top-k of the vectordb extension: the set-returning      *)
(* functions topk (src/topk.cpp) and multicol_topk (src/multicol_topk.cpp) *)
(* and the executor node under them (execFagins, execFaginsM).  The node   *)
(* pulls one row in turn from each order-by index scan, keeps the ef best  *)
(* distinct rows in a max-heap, and stops when a scan runs dry or when     *)
(* term_cond distinct rows in a row did not enter the heap.                *)
(*                                                                         *)
(* A row stands for its tid and its rank score; an index scan returns any  *)
(* row it has not returned yet, or the end.  The backend's current memory  *)
(* context is part of the state because the node switches it around every  *)
(* child call: CALLER is the context the executor calls the function in,   *)
(* MULTI its multi_call_memory_ctx, and i the es_query_cxt of child i.     *)
(***************************************************************************)
EXTENDS Integers, Sequences, FiniteSets, Functions

CONSTANTS
  Row,             \* rows of the table
  Score,           \* rank score of a row
  NumChildren,     \* number of order-by expressions
  Calls,           \* argument records the functions are called with
  DefaultEf,       \* 64 in topk.cpp
  DefaultTermCond  \* 50 in topk.cpp and multicol_topk.cpp

Children == 1..NumChildren
CALLER == 0
MULTI == NumChildren + 1
Fn == {"topk", "multicol_topk"}

ASSUME ScoreAssumption == Score \in [Row -> Int]
ASSUME ChildrenAssumption == NumChildren \in Nat \ {0}
ASSUME DefaultsAssumption == DefaultEf \in Nat \ {0} /\ DefaultTermCond \in Nat \ {0}
ASSUME CallsAssumption ==
  Calls \subseteq [fn : Fn, k : Nat, ef : Nat, term : Nat, inFrom : BOOLEAN]

VARIABLES
  args,                  \* the call: function, k, ef, term_cond, FROM clause or select list
  pc,                    \* where the function is
  ef, term_cond,         \* FaginsState.ef (k in multicol_topk), FaginsState.term_cond
  fetched,               \* rows each index scan has returned
  dry,                   \* scans that have reported their end
  orderby_id,            \* loop variable of the round
  seenSet, proc_pq, result_stack, finish, consecutive_drops,
  arrivals,              \* history: distinct rows in the order they were seen
  call_cntr, output,     \* SRF call counter, rows returned so far
  ctx,                   \* CurrentMemoryContext
  savedcxt,              \* the context SPI_finish goes back to
  deleted,               \* memory contexts already deleted
  spi                    \* is the function's SPI connection open

scanVars == <<fetched, dry, seenSet, arrivals>>
heapVars == <<proc_pq, consecutive_drops, finish>>
outVars  == <<result_stack, call_cntr, output>>
endVars  == <<savedcxt, deleted, spi>>
vars == <<args, pc, ef, term_cond, orderby_id, scanVars, heapVars, outVars, ctx, endVars>>

PC == {"first", "call", "round", "drain", "return", "end", "done", "error", "abandoned"}

TypeOK ==
  /\ args \in Calls
  /\ pc \in PC
  /\ ef \in Nat /\ term_cond \in Nat
  /\ fetched \in [Children -> SUBSET Row]
  /\ dry \subseteq Children
  /\ orderby_id \in 1..(NumChildren + 1)
  /\ seenSet \subseteq Row /\ proc_pq \subseteq Row
  /\ result_stack \in Seq(Row) /\ output \in Seq(Row) /\ arrivals \in Seq(Row)
  /\ finish \in BOOLEAN /\ spi \in BOOLEAN
  /\ consecutive_drops \in Nat /\ call_cntr \in Nat
  /\ ctx \in CALLER..MULTI /\ savedcxt \in CALLER..MULTI
  /\ deleted \subseteq CALLER..MULTI
-----------------------------------------------------------------------------
Larger(a, b) == IF a >= b THEN a ELSE b

OrDefault(x, default) == IF x = 0 THEN default ELSE x

(* Mutant: the heap is not widened to k.                                   *)
HeapBoundNoMax == IF args.fn = "topk" THEN OrDefault(args.ef, DefaultEf) ELSE args.k

(* Rows the heap holds: ef, defaulted and at least k, or k in multicol_topk. *)
HeapBound ==
  IF args.fn = "topk" THEN Larger(OrDefault(args.ef, DefaultEf), args.k) ELSE args.k

(* Mutant: the comparison of the heap is reversed.                         *)
TopsReversed(S) == {r \in S : \A s \in S : Score[r] <= Score[s]}

(* The heap is a set of rows: seenSet lets a row in at most once.  top()   *)
(* is any row of largest score, std::priority_queue does not say which.    *)
Tops(S) == {r \in S : \A s \in S : Score[s] <= Score[r]}

(* Mutant: off by one, a full heap takes any row.                          *)
AcceptsOneMore(r) == Cardinality(proc_pq) <= ef \/ \E t \in proc_pq : Score[t] > Score[r]

(* Does the heap take a new row?  It does when it is not full, or when its *)
(* top, hence some row of it, is worse.                                    *)
Accepts(r) == Cardinality(proc_pq) < ef \/ \E t \in proc_pq : Score[t] > Score[r]

(* Mutant: the counter is not reset when a row is kept.                    *)
DropsNotReset(kept) == consecutive_drops + 1

DropsAfter(kept) == IF kept THEN 0 ELSE consecutive_drops + 1

(* Mutant: the oldest entry of the stack is taken, as from a queue.        *)
BottomOfStack == result_stack[1]

TopOfStack == result_stack[Len(result_stack)]

Init ==
  /\ args \in Calls
  /\ pc = "first"
  /\ ef = 0 /\ term_cond = 0
  /\ fetched = [c \in Children |-> {}]
  /\ dry = {}
  /\ orderby_id = 1
  /\ seenSet = {} /\ proc_pq = {} /\ consecutive_drops = 0 /\ finish = FALSE
  /\ arrivals = <<>>
  /\ result_stack = <<>> /\ call_cntr = 0 /\ output = <<>>
  /\ ctx = CALLER /\ savedcxt = CALLER
  /\ deleted = {} /\ spi = FALSE

(* First call: switch to the multi-call context, read the arguments,       *)
(* connect to SPI, plan and start one index scan per order-by expression,  *)
(* build the FaginsState, and switch back.                                 *)
FirstCall ==
  /\ pc = "first"
  /\ ef' = HeapBound
  /\ term_cond' = OrDefault(args.term, DefaultTermCond)
  /\ spi' = TRUE
  /\ savedcxt' = MULTI
  /\ pc' = "call"
  /\ UNCHANGED <<args, orderby_id, scanVars, heapVars, outVars, ctx, deleted>>

(* elog(ERROR) on the first call (an expression no index serves) or while  *)
(* a scan runs (castAttrToFloat, the executor).  The transaction aborts    *)
(* and the backend, not this function, releases what it held.              *)
Error ==
  /\ pc \in {"first", "round"}
  /\ pc' = "error"
  /\ spi' = FALSE
  /\ UNCHANGED <<args, ef, term_cond, orderby_id, scanVars, heapVars, outVars, ctx,
                 savedcxt, deleted>>

(* The part of the function that runs on every call.  In the select list   *)
(* the executor switches to its own context before each call; a function   *)
(* scan does so only once, before the first.                               *)
PerCall ==
  /\ pc = "call"
  /\ pc' = IF call_cntr >= args.k THEN "end" ELSE IF finish THEN "drain" ELSE "round"
  /\ orderby_id' = 1
  /\ consecutive_drops' = 0
  /\ ctx' = IF args.inFrom THEN ctx ELSE CALLER
  /\ UNCHANGED <<args, ef, term_cond, scanVars, proc_pq, finish, outVars, endVars>>

(* A select list under a LIMIT may never call the function again; the      *)
(* executor's shutdown callback then deletes the multi-call context.       *)
Abandon ==
  /\ pc = "call"
  /\ ~args.inFrom
  /\ call_cntr > 0
  /\ pc' = "abandoned"
  /\ ctx' = CALLER
  /\ deleted' = deleted \union {MULTI}
  /\ UNCHANGED <<args, ef, term_cond, orderby_id, scanVars, heapVars, outVars, savedcxt, spi>>
-----------------------------------------------------------------------------
(* One turn of a child in the round: ExecProcNode under the child's        *)
(* es_query_cxt, the previous context saved in oldcontext.                 *)

(* Mutant: a dry scan ends its turn but not the function.                  *)
ChildDryGoesOn ==
  /\ pc = "round" /\ orderby_id \in Children
  /\ dry' = dry \union {orderby_id}
  /\ orderby_id' = orderby_id + 1
  /\ UNCHANGED <<args, pc, ef, term_cond, fetched, seenSet, arrivals, heapVars, outVars, ctx,
                 endVars>>

(* The scan is at its end: finish, restore the context, leave the round.   *)
ChildDry ==
  /\ pc = "round" /\ orderby_id \in Children
  /\ dry' = dry \union {orderby_id}
  /\ finish' = TRUE
  /\ pc' = "drain"
  /\ UNCHANGED <<args, ef, term_cond, fetched, orderby_id, seenSet, arrivals, proc_pq,
                 consecutive_drops, outVars, ctx, endVars>>

(* The scan returns a row, and the turn passes to the next scan.           *)
Fetch(r) ==
  /\ pc = "round" /\ orderby_id \in Children
  /\ r \notin fetched[orderby_id]
  /\ fetched' = [fetched EXCEPT ![orderby_id] = @ \union {r}]
  /\ orderby_id' = orderby_id + 1

(* Mutant: a row already seen does not use up the scan's turn.             *)
ChildSeenRetries(r) ==
  /\ pc = "round" /\ orderby_id \in Children
  /\ r \in seenSet \ fetched[orderby_id]
  /\ fetched' = [fetched EXCEPT ![orderby_id] = @ \union {r}]
  /\ ctx' = orderby_id
  /\ UNCHANGED <<args, pc, ef, term_cond, orderby_id, dry, seenSet, arrivals, heapVars, outVars,
                 endVars>>

(* A row already seen: `continue' leaves the child's context current.      *)
ChildSeen(r) ==
  /\ Fetch(r)
  /\ r \in seenSet
  /\ ctx' = orderby_id
  /\ UNCHANGED <<args, pc, ef, term_cond, dry, seenSet, arrivals, heapVars, outVars, endVars>>

(* A new row enters the heap, in the place of the top when it is full ...  *)
ChildKeep(r) ==
  /\ Fetch(r)
  /\ r \notin seenSet
  /\ seenSet' = seenSet \union {r}
  /\ arrivals' = Append(arrivals, r)
  /\ Accepts(r)
  /\ IF Cardinality(proc_pq) = ef
       THEN \E t \in Tops(proc_pq) : proc_pq' = (proc_pq \ {t}) \union {r}
       ELSE proc_pq' = proc_pq \union {r}
  /\ consecutive_drops' = DropsAfter(TRUE)
  /\ UNCHANGED <<args, pc, ef, term_cond, dry, finish, outVars, ctx, endVars>>

(* Mutant: the context is not restored after a dropped row.                *)
ChildDropLeaks(r) ==
  /\ Fetch(r)
  /\ r \notin seenSet
  /\ seenSet' = seenSet \union {r}
  /\ arrivals' = Append(arrivals, r)
  /\ ~Accepts(r)
  /\ consecutive_drops' = DropsAfter(FALSE)
  /\ ctx' = orderby_id
  /\ UNCHANGED <<args, pc, ef, term_cond, dry, proc_pq, finish, outVars, endVars>>

(* ... or is dropped.                                                      *)
ChildDrop(r) ==
  /\ Fetch(r)
  /\ r \notin seenSet
  /\ seenSet' = seenSet \union {r}
  /\ arrivals' = Append(arrivals, r)
  /\ ~Accepts(r)
  /\ consecutive_drops' = DropsAfter(FALSE)
  /\ UNCHANGED <<args, pc, ef, term_cond, dry, proc_pq, finish, outVars, ctx, endVars>>

(* Mutant: the next round does not start at the first scan.                *)
(* The round is over: stop after term_cond drops in a row.                 *)
EndRound ==
  /\ pc = "round" /\ orderby_id = NumChildren + 1
  /\ finish' = (consecutive_drops >= term_cond)
  /\ pc' = IF finish' THEN "drain" ELSE "round"
  /\ orderby_id' = 1
  /\ UNCHANGED <<args, ef, term_cond, scanVars, proc_pq, consecutive_drops, outVars, ctx, endVars>>

(* Turn the max-heap into a stack whose top (its last element) is the best *)
(* row.                                                                    *)
Drain ==
  /\ pc = "drain"
  /\ IF proc_pq = {}
       THEN pc' = "return" /\ UNCHANGED <<proc_pq, result_stack>>
       ELSE /\ \E t \in Tops(proc_pq) :
                 /\ proc_pq' = proc_pq \ {t}
                 /\ result_stack' = Append(result_stack, t)
            /\ pc' = pc
  /\ UNCHANGED <<args, ef, term_cond, orderby_id, scanVars, consecutive_drops, finish,
                 call_cntr, output, ctx, endVars>>

(* Return the top of the stack to the caller, or the end.                  *)
Return ==
  /\ pc = "return"
  /\ IF result_stack = <<>>
       THEN pc' = "end" /\ UNCHANGED outVars
       ELSE /\ output' = Append(output, TopOfStack)
            /\ result_stack' = SubSeq(result_stack, 1, Len(result_stack) - 1)
            /\ call_cntr' = call_cntr + 1
            /\ pc' = "call"
  /\ UNCHANGED <<args, ef, term_cond, orderby_id, scanVars, heapVars, ctx, endVars>>

(* EndFaginsState ends the queries one by one; each ExecutorEnd deletes    *)
(* the es_query_cxt of its query.                                          *)
EndChild(c) ==
  /\ pc = "end"
  /\ c \notin deleted
  /\ \A b \in Children : b < c => b \in deleted
  /\ deleted' = deleted \union {c}
  /\ UNCHANGED <<args, pc, ef, term_cond, orderby_id, scanVars, heapVars, outVars, ctx,
                 savedcxt, spi>>

(* SPI_finish goes back to the context SPI_connect was called in, and      *)
(* SRF_RETURN_DONE deletes the multi-call context.                         *)
Finish ==
  /\ pc = "end"
  /\ Children \subseteq deleted
  /\ spi' = FALSE
  /\ ctx' = savedcxt
  /\ deleted' = deleted \union {MULTI}
  /\ pc' = "done"
  /\ UNCHANGED <<args, ef, term_cond, orderby_id, scanVars, heapVars, outVars, savedcxt>>

Child(r) == ChildSeen(r) \/ ChildKeep(r) \/ ChildDrop(r)

Next ==
  \/ FirstCall \/ Error \/ PerCall \/ Abandon
  \/ ChildDry \/ (\E r \in Row : Child(r)) \/ EndRound
  \/ Drain \/ Return \/ (\E c \in Children : EndChild(c)) \/ Finish

Spec == Init /\ [][Next]_vars

(* One backend runs the function to its end: some step is always taken.    *)
FairSpec == Spec /\ WF_vars(Next)
-----------------------------------------------------------------------------
(* Every row that is a candidate for the answer: still in the heap, on the *)
(* stack, or already returned.                                             *)
Candidates == proc_pq \union Range(result_stack) \union Range(output)

(* The heap rule of execFagins (push while below ef, otherwise replace the *)
(* top by a better row) keeps exactly the ef best of all distinct rows the *)
(* scans have delivered, in whatever order and however often they were     *)
(* delivered, and the drain and the returns lose none of them.             *)
KeepsBestSeen ==
  /\ Candidates \subseteq seenSet
  /\ pc \notin {"first", "error"} =>
       Cardinality(Candidates) = (IF Cardinality(seenSet) < ef THEN Cardinality(seenSet) ELSE ef)
  /\ \A r \in Candidates, s \in seenSet \ Candidates : Score[r] <= Score[s]

(* The caller gets the rows in ascending score, no row twice, and when the *)
(* function reports its end it has returned the k best of all rows seen    *)
(* (all of them when fewer): draining the max-heap through a stack and     *)
(* cutting at max_calls = k is right although the heap holds ef >= k rows. *)
ReturnsBestInOrder ==
  /\ \A i, j \in DOMAIN output : i < j => /\ Score[output[i]] <= Score[output[j]]
                                         /\ output[i] # output[j]
  /\ pc = "done" =>
       \/ Len(output) = args.k
       \/ args.k > 0 /\ Range(output) = seenSet

(* The stopping rule of sql/vectordb.sql ("the number of consecutive drops *)
(* of table row after a priority queue is stable"): unless a scan ran dry, *)
(* the function stops only after ef rows filled the heap and the last      *)
(* term_cond distinct rows all failed to enter it.                         *)
StopsOnlyWhenStable ==
  finish /\ dry = {} =>
    /\ Len(arrivals) >= ef + term_cond
    /\ \A i \in (Len(arrivals) - term_cond + 1)..Len(arrivals) :
         arrivals[i] \notin Candidates

(* A scan that runs dry after delivering the whole table makes the answer  *)
(* exact, even when it ends the round before the scans after it had their  *)
(* turn.                                                                   *)
ExactWhenExhausted ==
  (\E c \in dry : fetched[c] = Row) /\ pc = "done" =>
    \A r \in Range(output), s \in Row \ Range(output) : Score[r] <= Score[s]

(* FreeExecutorState (execUtils.c): "This can be called in any memory      *)
(* context ... so long as it's not one of the ones to be freed."  When     *)
(* EndFaginsState ends a child query, that query's es_query_cxt is not the *)
(* current context.                                                        *)
QueryContextNotCurrent == ctx \notin deleted \intersect Children

(* MemoryContextDelete (mcxt.c): "And not CurrentMemoryContext, either".   *)
(* No deletion on any path of the function removes the current context.    *)
CurrentContextAlive == ctx \notin deleted

(* execFagins leaves a query's context current only after a row that two   *)
(* scans returned; without such a row no path of the function makes        *)
(* EndFaginsState delete the context it runs in.                           *)
ContextLeaksOnOverlap ==
  ctx \in Children => \E c \in Children \ {ctx} : fetched[ctx] \intersect fetched[c] # {}

(* The scans advance in step: when one is a row ahead of another it comes  *)
(* before it in the round, whichever rows were seen, kept or dropped.      *)
RoundRobin ==
  \A a, b \in Children :
    a < b => Cardinality(fetched[a]) - Cardinality(fetched[b]) \in {0, 1}

(* Once a scan has reported its end no scan is called again: an index scan *)
(* is never asked for a row after its last one.                            *)
NoCallAfterEnd == [][dry # {} => UNCHANGED <<fetched, dry>>]_vars

(* The function ends: every loop of rounds, drain and returns finishes.    *)
Terminates == <>(pc \in {"done", "error", "abandoned"})

(* The executor node, its heap, stack and driver implement a top-k         *)
(* operator: rows are returned best first among everything collected.      *)
phase == IF pc = "done" THEN "done" ELSE IF finish THEN "return" ELSE "collect"

TK == INSTANCE TopK WITH k <- args.k, collected <- seenSet, returned <- output

(* execFagins under topk and multicol_topk implements the top-k operator   *)
(* of TopK.                                                                *)
ImplementsTopK == TK!Spec
=============================================================================

------------------------------ MODULE DagCode ------------------------------
(***************************************************************************)
(* The scheduler of src/src/sched.c down to the bytes, on a pool of one    *)
(* vcpu: how process_sched_dag reads metadata->dag with 8-bit indices, and *)
(* how add_runnable_fn and get_work place functions in the words of        *)
(* bm_run_fn.  Module Sched abstracts both to relations and sets.          *)
(*                                                                         *)
(* External: the VMM lays the dag out as process_sched_dag reads it: the   *)
(* in-degrees, then where the out edges of each function start, counted    *)
(* from the first edge, with the end of the last, then their targets.      *)
(***************************************************************************)
EXTENDS Integers, FiniteSets

CONSTANTS
  MaxNodes,   \* bound: functions of a dag
  Byte,       \* values of a uint8_t, 256; also MAX_FUNC
  WordBits    \* bits of a word of bm_run_fn, 64

ASSUME SizeAssumption ==
  /\ {MaxNodes, Byte, WordBits} \subseteq Nat \ {0}
  /\ MaxNodes < Byte /\ Byte % WordBits = 0

VARIABLES
  edge,           \* the dag the VMM has in mind: edge[f] is the set of f's successors
  dag_in_count, bm_run_fn, num_fin_fn,
  fn,             \* the function taken last
  i, e,           \* of process_sched_dag
  pc,
  done            \* history: the functions executed in this invocation

vars == <<edge, dag_in_count, bm_run_fn, num_fin_fn, fn, i, e, pc, done>>

-----------------------------------------------------------------------------
(* Dags and their layout.                                                  *)

PredIn(g, f) == {h \in DOMAIN g : f \in g[h]}

\* The acyclic relations on 0..n-1, however numbered, with one function to start with.
DagsOf(n) ==
  {g \in [0..n - 1 -> SUBSET (0..n - 1)] :
     /\ Cardinality({f \in DOMAIN g : PredIn(g, f) = {}}) = 1
     /\ \A S \in SUBSET DOMAIN g \ {{}} : \E f \in S : PredIn(g, f) \cap S = {}}

num_nodes == Cardinality(DOMAIN edge)
start_func == CHOOSE f \in DOMAIN edge : PredIn(edge, f) = {}

Edges(g) == {p \in (DOMAIN g) \X (DOMAIN g) : p[2] \in g[p[1]]}

\* The edges of the rows below f's, and those in front of the edge p.
RowsBelow(g, f) == {q \in Edges(g) : q[1] < f}
Before(g, p)    == {q \in Edges(g) : q[1] < p[1] \/ (q[1] = p[1] /\ q[2] < p[2])}

\* metadata->dag, indices from 0
dag(k) ==
  CASE k < num_nodes      -> Cardinality(PredIn(edge, k))
    [] k \in num_nodes..2 * num_nodes -> Cardinality(RowsBelow(edge, k - num_nodes))
    [] k > 2 * num_nodes  ->
         (CHOOSE p \in Edges(edge) : Cardinality(Before(edge, p)) = k - (2 * num_nodes + 1))[2]

LastWord == Byte \div WordBits - 1

Init ==
  /\ \E n \in 1..MaxNodes : edge \in DagsOf(n)
  /\ dag_in_count = [f \in 0..Byte - 1 |-> 0]
  /\ bm_run_fn = [w \in 0..LastWord |-> {}]
  /\ num_fin_fn = num_nodes
  /\ fn = 0 /\ i = 0 /\ e = 0
  /\ pc = "new_work"
  /\ done = DOMAIN edge

\* add_runnable_fn: shr 6 gives the word, and 0x3F the bit.
AddRunnable(f) == bm_run_fn' = [bm_run_fn EXCEPT ![f \div WordBits] = @ \cup {f % WordBits}]

-----------------------------------------------------------------------------
(* Faulty variants, see the properties.                                    *)

\* The end of the row offsets is not counted.
ProcessDagShort ==
  /\ pc = "user" /\ pc' = "dag"
  /\ done' = done \cup {fn}
  /\ i' = (dag(num_nodes + fn) + 2 * num_nodes) % Byte
  /\ e' = (dag(num_nodes + fn + 1) + 2 * num_nodes) % Byte
  /\ UNCHANGED <<edge, dag_in_count, bm_run_fn, num_fin_fn, fn>>

\* A function is queued by its first predecessor.
OutEdgeFirst ==
  /\ pc = "dag" /\ i < e
  /\ AddRunnable(dag(i))
  /\ i' = (i + 1) % Byte
  /\ UNCHANGED <<edge, dag_in_count, num_fin_fn, fn, e, pc, done>>

\* Only the first word is scanned.
GetWorkFirstWord ==
  /\ pc = "new_work"
  /\ IF bm_run_fn[0] = {}
       THEN pc' = "no_work" /\ UNCHANGED <<bm_run_fn, fn>>
       ELSE \E b \in bm_run_fn[0] : /\ bm_run_fn' = [bm_run_fn EXCEPT ![0] = @ \ {b}]
                                    /\ fn' = b /\ pc' = "user"
  /\ UNCHANGED <<edge, dag_in_count, num_fin_fn, i, e, done>>

-----------------------------------------------------------------------------

\* get_work: the lowest bit of the first word that has one; the index and the bit make
\* the function.
GetWork ==
  /\ pc = "new_work" /\ pc' = "user"
  /\ \E w \in 0..LastWord, b \in 0..WordBits - 1 :
       /\ b \in bm_run_fn[w]
       /\ \A v \in 0..w : \A a \in bm_run_fn[v] : v = w /\ a >= b
       /\ bm_run_fn' = [bm_run_fn EXCEPT ![w] = @ \ {b}]
       /\ fn' = WordBits * w + b
  /\ UNCHANGED <<edge, dag_in_count, num_fin_fn, i, e, done>>

GetNoWork ==
  /\ pc = "new_work" /\ pc' = "no_work"
  /\ \A w \in 0..LastWord : bm_run_fn[w] = {}
  /\ UNCHANGED <<edge, dag_in_count, bm_run_fn, num_fin_fn, fn, i, e, done>>

\* CAS(&num_fin_fn, tot_fn, 0), the copy of the in-degrees, the start function.  If the CAS
\* fails the only vcpu halts.
NextInvocation ==
  /\ pc = "no_work" /\ pc' = "new_work"
  /\ num_fin_fn = num_nodes
  /\ num_fin_fn' = 0
  /\ done' = {}
  /\ dag_in_count' = [f \in 0..Byte - 1 |-> IF f < num_nodes THEN dag(f) ELSE dag_in_count[f]]
  /\ AddRunnable(start_func)
  /\ UNCHANGED <<edge, fn, i, e>>

\* The function returns, and process_sched_dag computes its row in 8-bit variables.
ProcessDag ==
  /\ pc = "user" /\ pc' = "dag"
  /\ done' = done \cup {fn}
  /\ i' = (dag(num_nodes + fn) + 2 * num_nodes + 1) % Byte
  /\ e' = (dag(num_nodes + fn + 1) + 2 * num_nodes + 1) % Byte
  /\ UNCHANGED <<edge, dag_in_count, bm_run_fn, num_fin_fn, fn>>

\* lock decb of a byte
OutEdge ==
  /\ pc = "dag" /\ i < e
  /\ LET out_fn == dag(i)
         count == (dag_in_count[out_fn] - 1) % Byte
     IN /\ dag_in_count' = [dag_in_count EXCEPT ![out_fn] = count]
        /\ IF count = 0 THEN AddRunnable(out_fn) ELSE UNCHANGED bm_run_fn
  /\ i' = (i + 1) % Byte
  /\ UNCHANGED <<edge, num_fin_fn, fn, e, pc, done>>

DagProcessed ==
  /\ pc = "dag" /\ i >= e
  /\ pc' = "new_work"
  /\ num_fin_fn' = num_fin_fn + 1
  /\ UNCHANGED <<edge, dag_in_count, bm_run_fn, fn, i, e, done>>

Next == GetWork \/ GetNoWork \/ NextInvocation \/ ProcessDag \/ OutEdge \/ DagProcessed

Spec == Init /\ [][Next]_vars

-----------------------------------------------------------------------------
(* Properties                                                              *)

\* The variables keep their types, and the targets read are those of the function's row.
TypeOK ==
  /\ dag_in_count \in [0..Byte - 1 -> 0..Byte - 1]
  /\ bm_run_fn \in [0..LastWord -> SUBSET (0..WordBits - 1)]
  /\ num_fin_fn \in 0..num_nodes /\ fn \in 0..num_nodes - 1
  /\ i \in 0..Byte - 1 /\ e \in 0..Byte - 1
  /\ pc \in {"new_work", "user", "dag", "no_work"}
  /\ done \subseteq DOMAIN edge
  /\ pc = "dag" /\ i < e => /\ i > 2 * num_nodes
                            /\ dag(i) \in edge[fn]

\* Whatever the numbers of its functions and the words they fall in, a dag is executed in
\* its order: a function that is taken has not been executed, and its predecessors have
\* (sched.c:103-143, 145-201).
InOrder == pc = "user" => fn \notin done /\ PredIn(edge, fn) \subseteq done

\* When the run queue is empty every function has been executed: no edge of the layout is
\* missed or read twice by the 8-bit indices, for every dag that MAX_FUNC (globvar.h:16)
\* admits (sched.c:126-142).
RunsAll == pc = "no_work" => done = DOMAIN edge /\ num_fin_fn = num_nodes

=============================================================================

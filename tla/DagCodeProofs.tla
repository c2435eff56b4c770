--------------------------- MODULE DagCodeProofs ---------------------------
(***************************************************************************)
(* Theorems about DagCode for any dag whose row bounds fit in a byte, any  *)
(* numbering of its functions and any size of bytes and words: the dag is  *)
(* executed in its order, and completely.                                  *)
(*                                                                         *)
(* The layout of metadata->dag is reasoned about as a ranking of edges: an *)
(* edge stands where the number of edges in front of it says.              *)
(***************************************************************************)
EXTENDS DagCode, FiniteSetTheorems, TLAPS

-----------------------------------------------------------------------------
(* Functions and the bits of words                                         *)

\* A function has one place in the words of bm_run_fn.
LEMMA WordOfBit ==
  ASSUME NEW W \in Nat \ {0}, NEW w \in Nat, NEW b \in 0..W - 1
  PROVE  /\ W * w + b \in Nat
         /\ (W * w + b) \div W = w
         /\ (W * w + b) % W = b
<1> DEFINE f == W * w + b
           q == f \div W
           r == f % W
<1>1. f \in Nat
  OBVIOUS
<1>2. q \in Nat /\ r \in 0..W - 1 /\ f = W * q + r
  BY <1>1
<1>3. W * q + r = W * w + b
  BY <1>2
<1>4. q = w
  <2>1. CASE q > w
    BY <2>1, <1>2, <1>3
  <2>2. CASE q < w
    BY <2>2, <1>2, <1>3
  <2> QED
    BY <1>2, <2>1, <2>2
<1>5. r = b
  BY <1>2, <1>3, <1>4
<1> QED
  BY <1>1, <1>4, <1>5

LEMMA BitOfFunction ==
  ASSUME NEW W \in Nat \ {0}, NEW f \in Nat
  PROVE  f \div W \in Nat /\ f % W \in 0..W - 1 /\ W * (f \div W) + (f % W) = f
OBVIOUS

-----------------------------------------------------------------------------
(* The layout                                                              *)

\* A dag of functions 0..n-1, as Init chooses it.
IsDag(g) == \E n \in 1..MaxNodes : g \in DagsOf(n)

Rank(g, p) == Cardinality(Before(g, p))
RowStart(g, f) == Cardinality(RowsBelow(g, f))

LEMMA Nodes ==
  ASSUME NEW g, IsDag(g), NEW n, n = Cardinality(DOMAIN g)
  PROVE  /\ n \in 1..MaxNodes /\ DOMAIN g = 0..n - 1
         /\ g \in [0..n - 1 -> SUBSET (0..n - 1)] /\ g \in DagsOf(n)
<1>1. PICK m \in 1..MaxNodes : g \in DagsOf(m)
  BY DEF IsDag
<1>2. DOMAIN g = 0..m - 1 /\ m \in Nat \ {0}
  BY <1>1, SizeAssumption DEF DagsOf
<1>3. Cardinality(0..m - 1) = m
  BY <1>2, FS_Interval
<1> QED
  BY <1>1, <1>2, <1>3 DEF DagsOf

LEMMA FiniteEdges ==
  ASSUME NEW g, IsDag(g), NEW S \in SUBSET Edges(g)
  PROVE  /\ IsFiniteSet(S) /\ Cardinality(S) \in Nat /\ Cardinality(S) <= Cardinality(Edges(g))
         /\ IsFiniteSet(Edges(g)) /\ Cardinality(Edges(g)) \in Nat
<1> DEFINE n == Cardinality(DOMAIN g)
<1>1. n \in Nat /\ DOMAIN g = 0..n - 1
  BY Nodes, SizeAssumption
<1>2. IsFiniteSet(DOMAIN g)
  BY <1>1, FS_Interval
<1>3. IsFiniteSet((DOMAIN g) \X (DOMAIN g))
  BY <1>2, FS_Product
<1>4. Edges(g) \subseteq (DOMAIN g) \X (DOMAIN g)
  BY DEF Edges
<1>5. IsFiniteSet(Edges(g))
  BY <1>3, <1>4, FS_Subset
<1> QED
  BY <1>5, FS_Subset, FS_CardinalityType

\* Fewer edges are in a part of a set of edges that lacks one of them.
LEMMA Fewer ==
  ASSUME NEW g, IsDag(g), NEW S \in SUBSET Edges(g), NEW T \in SUBSET S, NEW p \in S, p \notin T
  PROVE  Cardinality(T) < Cardinality(S)
<1>1. IsFiniteSet(S) /\ Cardinality(S) \in Nat /\ Cardinality(T) \in Nat
  BY FiniteEdges
<1>2. Cardinality(T) <= Cardinality(S) /\ (Cardinality(S) = Cardinality(T) => S = T)
  BY <1>1, FS_Subset
<1> QED
  BY <1>1, <1>2

LEMMA EdgeType ==
  ASSUME NEW g, IsDag(g), NEW p \in Edges(g)
  PROVE  /\ p[1] \in DOMAIN g /\ p[2] \in g[p[1]] /\ p[2] \in DOMAIN g /\ p = <<p[1], p[2]>>
         /\ p[1] \in Nat /\ p[2] \in Nat
<1> DEFINE n == Cardinality(DOMAIN g)
<1>1. n \in Nat /\ DOMAIN g = 0..n - 1
  BY Nodes, SizeAssumption
<1> QED
  BY <1>1 DEF Edges

LEMMA RankLess ==
  ASSUME NEW g, IsDag(g), NEW p \in Edges(g), NEW q \in Edges(g), q \in Before(g, p)
  PROVE  Rank(g, q) < Rank(g, p)
<1>1. Before(g, q) \subseteq Before(g, p)
  BY EdgeType DEF Before
<1>2. q \notin Before(g, q)
  BY EdgeType DEF Before
<1>3. Before(g, p) \subseteq Edges(g)
  BY DEF Before
<1> QED
  BY <1>1, <1>2, <1>3, Fewer DEF Rank

LEMMA RankDistinct ==
  ASSUME NEW g, IsDag(g), NEW p \in Edges(g), NEW q \in Edges(g), Rank(g, p) = Rank(g, q)
  PROVE  p = q
<1>1. p \notin Before(g, q) /\ q \notin Before(g, p)
  <2>1. Rank(g, p) \in Nat
    BY FiniteEdges DEF Rank, Before
  <2> QED
    BY <2>1, RankLess
<1>2. p[1] = q[1] /\ p[2] = q[2]
  BY <1>1, EdgeType DEF Before
<1> QED
  BY <1>2, EdgeType

\* An edge stands in the row of its function.
LEMMA RankInRow ==
  ASSUME NEW g, IsDag(g), NEW p \in Edges(g)
  PROVE  RowStart(g, p[1]) <= Rank(g, p) /\ Rank(g, p) < RowStart(g, p[1] + 1)
<1>1. RowsBelow(g, p[1]) \subseteq Before(g, p) /\ Before(g, p) \subseteq Edges(g)
  BY DEF RowsBelow, Before
<1>2. RowStart(g, p[1]) <= Rank(g, p)
  BY <1>1, FiniteEdges, FS_Subset DEF Rank, RowStart
<1>3. RowsBelow(g, p[1] + 1) \subseteq Edges(g) /\ p \in RowsBelow(g, p[1] + 1)
  BY EdgeType DEF RowsBelow
<1>4. p \notin Before(g, p)
  BY EdgeType DEF Before
<1>5. Before(g, p) \subseteq RowsBelow(g, p[1] + 1)
  BY EdgeType DEF Before, RowsBelow
<1> QED
  BY <1>2, <1>3, <1>4, <1>5, Fewer DEF Rank, RowStart

LEMMA RowsGrow ==
  ASSUME NEW g, IsDag(g), NEW f \in Nat, NEW h \in Nat, f <= h
  PROVE  /\ RowStart(g, f) \in Nat /\ RowStart(g, f) <= RowStart(g, h)
         /\ RowStart(g, f) <= Cardinality(Edges(g))
<1>1. RowsBelow(g, f) \subseteq RowsBelow(g, h) /\ RowsBelow(g, h) \subseteq Edges(g)
  BY EdgeType DEF RowsBelow
<1> QED
  BY <1>1, FiniteEdges, FS_Subset DEF RowStart

\* Every place behind the offsets is that of an edge.
LEMMA RankOnto ==
  ASSUME NEW g, IsDag(g), NEW k \in 0..Cardinality(Edges(g)) - 1
  PROVE  \E p \in Edges(g) : Rank(g, p) = k
<1> DEFINE E == Edges(g)
           m == Cardinality(E)
           T == 0..m - 1
           rank == [p \in E |-> Rank(g, p)]
<1>1. IsFiniteSet(E) /\ m \in Nat
  BY FiniteEdges
<1>2. IsFiniteSet(T) /\ Cardinality(T) = m
  BY <1>1, FS_Interval
<1>3. ASSUME NEW p \in E PROVE Rank(g, p) \in T
  <2>1. Before(g, p) \subseteq E /\ p \notin Before(g, p)
    BY EdgeType DEF Before
  <2>2. Rank(g, p) \in Nat /\ Rank(g, p) < m
    BY <2>1, FiniteEdges, Fewer DEF Rank
  <2> QED
    BY <1>1, <2>2
<1>4. rank \in Injection(E, T)
  BY <1>3, RankDistinct DEF Injection, IsInjective
<1>5. rank \in Surjection(E, T)
  BY <1>2, <1>4, FS_Injection
<1> QED
  BY <1>5 DEF Surjection

\* What stands in the row of f are targets of f.
LEMMA RowTargets ==
  ASSUME NEW g, IsDag(g), NEW f \in DOMAIN g, NEW k \in Nat,
         RowStart(g, f) <= k, k < RowStart(g, f + 1),
         NEW p, p = CHOOSE q \in Edges(g) : Cardinality(Before(g, q)) = k
  PROVE  p \in Edges(g) /\ p[1] = f /\ Rank(g, p) = k
<1> DEFINE n == Cardinality(DOMAIN g)
<1>1. f \in Nat
  BY Nodes, SizeAssumption
<1>2. k \in 0..Cardinality(Edges(g)) - 1
  BY <1>1, RowsGrow, FiniteEdges
<1>3. \E q \in Edges(g) : Cardinality(Before(g, q)) = k
  BY <1>2, RankOnto DEF Rank
<1>4. p \in Edges(g) /\ Rank(g, p) = k
  BY <1>3 DEF Rank
<1>5. RowStart(g, p[1]) <= k /\ k < RowStart(g, p[1] + 1) /\ p[1] \in Nat
  BY <1>4, RankInRow, EdgeType
<1>6. ~(p[1] < f)
  BY <1>1, <1>5, RowsGrow
<1>7. ~(f < p[1])
  BY <1>1, <1>5, RowsGrow
<1> QED
  BY <1>1, <1>4, <1>5, <1>6, <1>7

-----------------------------------------------------------------------------
(* The inductive invariant                                                 *)

\* The hypothesis: the bounds of the last row fit in the 8-bit indices.  DagCodeFull.cfg
\* shows a dag for which they do not.
Fits == 2 * num_nodes + 1 + Cardinality(Edges(edge)) < Byte

Queued(f) == f % WordBits \in bm_run_fn[f \div WordBits]

\* Where the row of f starts, and where the edge from f to g stands.
Row(f)      == 2 * num_nodes + 1 + RowStart(edge, f)
Place(f, g) == 2 * num_nodes + 1 + Rank(edge, <<f, g>>)

\* The predecessors of g whose edge to g has not been counted.
Pending(g) ==
  {f \in PredIn(edge, g) : f \in done => pc = "dag" /\ fn = f /\ i <= Place(f, g)}

Types ==
  /\ dag_in_count \in [0..Byte - 1 -> 0..Byte - 1]
  /\ bm_run_fn \in [0..LastWord -> SUBSET (0..WordBits - 1)]
  /\ fn \in DOMAIN edge
  /\ i \in 0..Byte - 1 /\ e \in 0..Byte - 1
  /\ pc \in {"new_work", "user", "dag", "no_work"}
  /\ done \subseteq DOMAIN edge

\* Only functions that have not been executed are queued, and the running one is not.
QueueOK == /\ \A f \in 0..Byte - 1 : Queued(f) => f \in DOMAIN edge \ done
           /\ pc = "user" => fn \notin done /\ ~Queued(fn)
           /\ pc = "no_work" => \A f \in 0..Byte - 1 : ~Queued(f)

\* The indices stay in the row of the function.
RowOK == pc = "dag" => fn \in done /\ e = Row(fn + 1) /\ i \in Row(fn)..e

\* A count is that of the predecessors still pending; at none the function is active.
CountOK == \A g \in DOMAIN edge :
             /\ dag_in_count[g] = Cardinality(Pending(g))
             /\ Pending(g) = {} <=> g \in done \/ Queued(g) \/ (pc = "user" /\ fn = g)

FinishedOK == num_fin_fn = Cardinality(done) - (IF pc = "dag" THEN 1 ELSE 0)

CodeInv == IsDag(edge) /\ Fits /\ Types /\ QueueOK /\ RowOK /\ CountOK /\ FinishedOK

-----------------------------------------------------------------------------
(* Facts about the state                                                   *)

LEMMA Sizes ==
  /\ Byte \in Nat \ {0} /\ WordBits \in Nat \ {0} /\ LastWord \in Nat
  /\ \A f \in 0..Byte - 1 : f \div WordBits \in 0..LastWord /\ f % WordBits \in 0..WordBits - 1
  /\ \A w \in 0..LastWord, b \in 0..WordBits - 1 :
       LET f == WordBits * w + b
       IN  f \in 0..Byte - 1 /\ f \div WordBits = w /\ f % WordBits = b
<1> DEFINE W == WordBits
           m == Byte \div W
<1>1. Byte \in Nat \ {0} /\ W \in Nat \ {0} /\ Byte % W = 0
  BY SizeAssumption
<1>2. m \in Nat /\ W * m = Byte
  BY <1>1, BitOfFunction
<1>3. m >= 1
  BY <1>1, <1>2
<1>4. LastWord \in Nat /\ LastWord = m - 1
  BY <1>2, <1>3 DEF LastWord
<1>5. ASSUME NEW f \in 0..Byte - 1 PROVE f \div W \in 0..LastWord /\ f % W \in 0..W - 1
  <2> DEFINE q == f \div W
             r == f % W
  <2>0. f \in Nat
    BY <1>1
  <2>1. q \in Nat /\ r \in 0..W - 1 /\ W * q + r = f
    BY <1>1, <2>0, BitOfFunction
  <2>2. CASE q >= m
    <3>1. W * q >= W * m
      <4> HIDE DEF q, m
      <4> QED
        BY <1>1, <1>2, <2>1, <2>2
    <3> QED
      BY <1>1, <1>2, <2>1, <3>1
  <2> QED
    BY <1>2, <1>4, <2>1, <2>2
<1>6. ASSUME NEW w \in 0..LastWord, NEW b \in 0..W - 1
      PROVE  LET f == W * w + b IN f \in 0..Byte - 1 /\ f \div W = w /\ f % W = b
  <2>1. w \in Nat /\ w + 1 <= m
    BY <1>2, <1>4
  <2>2. W * w + b \in Nat /\ (W * w + b) \div W = w /\ (W * w + b) % W = b
    BY <1>1, <2>1, WordOfBit
  <2>3. W * (w + 1) <= W * m
    <3> HIDE DEF m
    <3> QED
      BY <1>1, <1>2, <2>1
  <2>4. W * (w + 1) = W * w + W
    BY <1>1, <2>1
  <2> QED
    BY <1>1, <1>2, <2>2, <2>3, <2>4
<1> QED
  BY <1>1, <1>4, <1>5, <1>6

LEMMA Functions ==
  ASSUME IsDag(edge)
  PROVE  /\ num_nodes \in Nat \ {0} /\ num_nodes < Byte
         /\ DOMAIN edge = 0..num_nodes - 1
         /\ IsFiniteSet(DOMAIN edge) /\ Cardinality(DOMAIN edge) = num_nodes
         /\ DOMAIN edge \subseteq 0..Byte - 1
<1>1. num_nodes \in 1..MaxNodes /\ DOMAIN edge = 0..num_nodes - 1
  BY Nodes DEF num_nodes
<1>2. IsFiniteSet(DOMAIN edge)
  BY <1>1, FS_Interval, SizeAssumption
<1> QED
  BY <1>1, <1>2, SizeAssumption DEF num_nodes

\* A set of functions has a member without predecessors in it.
LEMMA FirstOf ==
  ASSUME IsDag(edge), NEW S \in SUBSET DOMAIN edge, S # {}
  PROVE  \E f \in S : PredIn(edge, f) \cap S = {}
BY DEF IsDag, DagsOf

LEMMA OneStart ==
  ASSUME IsDag(edge)
  PROVE  /\ start_func \in DOMAIN edge
         /\ \A f \in DOMAIN edge : PredIn(edge, f) = {} <=> f = start_func
<1> DEFINE S == {f \in DOMAIN edge : PredIn(edge, f) = {}}
<1>1. Cardinality(S) = 1
  BY DEF IsDag, DagsOf
<1>2. IsFiniteSet(S)
  BY Functions, FS_Subset
<1>3. \E x : S = {x}
  BY <1>1, <1>2, FS_Singleton
<1> QED
  BY <1>3 DEF start_func

LEMMA Predecessors ==
  ASSUME IsDag(edge), NEW g \in DOMAIN edge, NEW S \in SUBSET PredIn(edge, g)
  PROVE  /\ S \subseteq DOMAIN edge /\ IsFiniteSet(S)
         /\ Cardinality(S) \in 0..Byte - 1
         /\ Cardinality(S) = 0 <=> S = {}
<1>1. S \subseteq DOMAIN edge
  BY DEF PredIn
<1>2. IsFiniteSet(S) /\ Cardinality(S) \in Nat /\ Cardinality(S) <= num_nodes
  BY <1>1, Functions, FS_Subset, FS_CardinalityType
<1>3. IsFiniteSet(S) /\ Cardinality(S) \in 0..Byte - 1
  BY <1>2, Functions, SizeAssumption
<1> QED
  BY <1>1, <1>3, FS_EmptySet

\* The VMM's dag does not change, nor does what is computed from it.
LEMMA Frozen ==
  ASSUME edge' = edge
  PROVE  /\ IsDag(edge)' = IsDag(edge) /\ num_nodes' = num_nodes /\ Fits' = Fits
         /\ start_func' = start_func
         /\ \A k : dag(k)' = dag(k)
         /\ \A f : Row(f)' = Row(f)
         /\ \A f : PredIn(edge, f)' = PredIn(edge, f)
         /\ \A f, g : Place(f, g)' = Place(f, g)
<1>1. num_nodes' = num_nodes
  BY DEF num_nodes
<1>2. \A f : PredIn(edge, f)' = PredIn(edge, f)
  OBVIOUS
<1> QED
  BY <1>1, <1>2 DEF Fits, start_func, Row, Place, dag

\* What process_sched_dag reads for f: its in-degree and the bounds of its row.
LEMMA Offsets ==
  ASSUME IsDag(edge), NEW f \in DOMAIN edge
  PROVE  /\ dag(f) = Cardinality(PredIn(edge, f))
         /\ dag(num_nodes + f) + 2 * num_nodes + 1 = Row(f)
         /\ dag(num_nodes + f + 1) + 2 * num_nodes + 1 = Row(f + 1)
         /\ Row(f) \in Nat /\ Row(f + 1) \in Nat
         /\ 2 * num_nodes < Row(f) /\ Row(f) <= Row(f + 1)
         /\ Row(f + 1) <= 2 * num_nodes + 1 + Cardinality(Edges(edge))
<1>1. num_nodes \in Nat /\ f \in 0..num_nodes - 1
  BY Functions
<1>2. /\ dag(f) = Cardinality(PredIn(edge, f))
      /\ dag(num_nodes + f) = RowStart(edge, f)
      /\ dag(num_nodes + f + 1) = RowStart(edge, f + 1)
  <2>1. dag(f) = Cardinality(PredIn(edge, f))
    BY <1>1 DEF dag
  <2>2. ASSUME NEW h \in {f, f + 1} PROVE dag(num_nodes + h) = RowStart(edge, h)
    <3> DEFINE k == num_nodes + h
    <3>1. k - num_nodes = h
      BY <1>1
    <3>2. k \in num_nodes..2 * num_nodes /\ ~(k < num_nodes) /\ ~(k > 2 * num_nodes)
      BY <1>1
    <3> HIDE DEF k
    <3>3. dag(k) = Cardinality(RowsBelow(edge, k - num_nodes))
      BY <3>2 DEF dag
    <3> QED
      BY <3>1, <3>3 DEF k, RowStart
  <2>3. num_nodes + (f + 1) = num_nodes + f + 1
    BY <1>1
  <2> QED
    BY <2>1, <2>2, <2>3
<1>3. /\ RowStart(edge, f) \in Nat /\ RowStart(edge, f + 1) \in Nat
      /\ RowStart(edge, f) <= RowStart(edge, f + 1)
      /\ RowStart(edge, f + 1) <= Cardinality(Edges(edge))
  BY <1>1, RowsGrow
<1> QED
  BY <1>1, <1>2, <1>3, FiniteEdges DEF Row

LEMMA PlaceInRow ==
  ASSUME IsDag(edge), NEW g \in DOMAIN edge, NEW f \in PredIn(edge, g)
  PROVE  /\ f \in DOMAIN edge /\ Place(f, g) \in Nat
         /\ Row(f) <= Place(f, g) /\ Place(f, g) < Row(f + 1)
<1>1. f \in DOMAIN edge /\ f \in Nat /\ num_nodes \in Nat
  BY Functions DEF PredIn
<1>2. <<f, g>> \in Edges(edge) /\ <<f, g>>[1] = f
  BY <1>1 DEF Edges, PredIn
<1>3. RowStart(edge, f) <= Rank(edge, <<f, g>>) /\ Rank(edge, <<f, g>>) < RowStart(edge, f + 1)
  BY <1>2, RankInRow
<1>4. Rank(edge, <<f, g>>) \in Nat
  BY FiniteEdges DEF Rank, Before
<1>5. RowStart(edge, f) \in Nat /\ RowStart(edge, f + 1) \in Nat
  BY <1>1, RowsGrow
<1> QED
  BY <1>1, <1>3, <1>4, <1>5 DEF Row, Place

\* An index in the row of f reads the target of the edge that stands there, and no other
\* edge of f stands there.
LEMMA TargetRead ==
  ASSUME IsDag(edge), NEW f \in DOMAIN edge, NEW k \in Nat, Row(f) <= k, k < Row(f + 1)
  PROVE  /\ dag(k) \in DOMAIN edge /\ dag(k) \in edge[f] /\ f \in PredIn(edge, dag(k))
         /\ Place(f, dag(k)) = k
         /\ \A g \in DOMAIN edge : f \in PredIn(edge, g) /\ Place(f, g) = k => g = dag(k)
<1> DEFINE r == k - (2 * num_nodes + 1)
           p == CHOOSE q \in Edges(edge) : Cardinality(Before(edge, q)) = r
<1>1. num_nodes \in Nat /\ f \in Nat
  BY Functions
<1>2. RowStart(edge, f) \in Nat /\ RowStart(edge, f + 1) \in Nat
  BY <1>1, RowsGrow
<1>3. r \in Nat /\ RowStart(edge, f) <= r /\ r < RowStart(edge, f + 1)
  BY <1>1, <1>2 DEF Row
<1>4. k > 2 * num_nodes /\ ~(k < num_nodes) /\ k \notin num_nodes..2 * num_nodes
  BY <1>1, <1>3
<1>5. dag(k) = p[2]
  BY <1>4 DEF dag
<1>6. p \in Edges(edge) /\ p[1] = f /\ Rank(edge, p) = r
  <2> HIDE DEF r
  <2> QED
    BY <1>3, RowTargets
<1>7. p[2] \in DOMAIN edge /\ p[2] \in edge[f] /\ p = <<f, p[2]>>
  BY <1>6, EdgeType
<1>8. f \in PredIn(edge, p[2]) /\ Place(f, p[2]) = k
  <2>1. Rank(edge, <<f, p[2]>>) = r
    BY <1>6, <1>7
  <2> HIDE DEF p
  <2> QED
    BY <1>1, <1>7, <2>1 DEF PredIn, Place
<1>9. ASSUME NEW g \in DOMAIN edge, f \in PredIn(edge, g), Place(f, g) = k
      PROVE  g = p[2]
  <2>1. <<f, g>> \in Edges(edge)
    BY <1>9 DEF Edges, PredIn
  <2>2. Rank(edge, <<f, g>>) \in Nat
    BY FiniteEdges DEF Rank, Before
  <2>3. Rank(edge, <<f, g>>) = r
    BY <1>1, <1>9, <2>2 DEF Place
  <2>4. <<f, g>> = p
    BY <1>6, <2>1, <2>3, RankDistinct
  <2> HIDE DEF p
  <2> QED
    BY <2>4
<1> QED
  BY <1>5, <1>7, <1>8, <1>9

\* add_runnable_fn queues one function, and get_work takes a queued one.
LEMMA Enqueue ==
  ASSUME Types, NEW f \in 0..Byte - 1, AddRunnable(f)
  PROVE  /\ bm_run_fn' \in [0..LastWord -> SUBSET (0..WordBits - 1)]
         /\ \A g \in 0..Byte - 1 : Queued(g)' <=> Queued(g) \/ g = f
<1>1. f \div WordBits \in 0..LastWord /\ f % WordBits \in 0..WordBits - 1
  BY Sizes
<1>2. bm_run_fn' \in [0..LastWord -> SUBSET (0..WordBits - 1)]
  BY <1>1 DEF Types, AddRunnable
<1>3. ASSUME NEW g \in 0..Byte - 1 PROVE Queued(g)' <=> Queued(g) \/ g = f
  <2>1. g \div WordBits \in 0..LastWord /\ g % WordBits \in 0..WordBits - 1
    BY Sizes
  <2>2. Queued(g)' <=> Queued(g) \/ (g \div WordBits = f \div WordBits /\ g % WordBits = f % WordBits)
    BY <1>1, <2>1 DEF Types, AddRunnable, Queued
  <2>3. f \in Nat /\ g \in Nat /\ WordBits \in Nat \ {0}
    BY Sizes
  <2>4. g \div WordBits = f \div WordBits /\ g % WordBits = f % WordBits => g = f
    BY <2>3, BitOfFunction
  <2> QED
    BY <2>2, <2>4
<1> QED
  BY <1>2, <1>3

LEMMA Dequeue ==
  ASSUME Types, GetWork
  PROVE  /\ bm_run_fn' \in [0..LastWord -> SUBSET (0..WordBits - 1)]
         /\ fn' \in 0..Byte - 1 /\ Queued(fn')
         /\ \A g \in 0..Byte - 1 : Queued(g)' <=> Queued(g) /\ g # fn'
<1>1. PICK w \in 0..LastWord, b \in 0..WordBits - 1 :
        /\ b \in bm_run_fn[w]
        /\ bm_run_fn' = [bm_run_fn EXCEPT ![w] = @ \ {b}]
        /\ fn' = WordBits * w + b
  BY DEF GetWork
<1>2. fn' \in 0..Byte - 1 /\ fn' \div WordBits = w /\ fn' % WordBits = b
  BY <1>1, Sizes
<1>3. Queued(fn')
  BY <1>1, <1>2 DEF Queued
<1>4. ASSUME NEW g \in 0..Byte - 1 PROVE Queued(g)' <=> Queued(g) /\ g # fn'
  <2>1. g \div WordBits \in 0..LastWord /\ g % WordBits \in 0..WordBits - 1
    BY Sizes
  <2>2. Queued(g)' <=> Queued(g) /\ ~(g \div WordBits = w /\ g % WordBits = b)
    BY <1>1, <2>1 DEF Types, Queued
  <2>3. g \in Nat /\ WordBits \in Nat \ {0}
    BY Sizes
  <2>4. g \div WordBits = w /\ g % WordBits = b => g = fn'
    BY <1>1, <2>3, BitOfFunction
  <2> QED
    BY <1>2, <2>2, <2>4
<1> QED
  BY <1>1, <1>2, <1>3, <1>4 DEF Types

-----------------------------------------------------------------------------
(* The invariant is inductive                                              *)

LEMMA CodeInit ==
  ASSUME Init, Fits
  PROVE  CodeInv
<1>1. IsDag(edge)
  BY DEF Init, IsDag
<1>2. 0 \in DOMAIN edge
  BY <1>1, Functions
<1>3. Types
  BY <1>2, Sizes DEF Init, Types
<1>4. ASSUME NEW f \in 0..Byte - 1 PROVE ~Queued(f)
  BY Sizes DEF Init, Queued
<1>5. QueueOK
  BY <1>4 DEF Init, QueueOK
<1>6. ASSUME NEW g \in DOMAIN edge
      PROVE  dag_in_count[g] = 0 /\ Pending(g) = {} /\ g \in done
  <2>1. PredIn(edge, g) \subseteq done
    BY DEF Init, PredIn
  <2>2. Pending(g) = {}
    BY <2>1 DEF Init, Pending
  <2> QED
    BY <1>1, <2>2, Functions DEF Init
<1>7. CountOK
  BY <1>6, FS_EmptySet DEF CountOK
<1>8. FinishedOK
  BY <1>1, Functions DEF Init, FinishedOK
<1> QED
  BY <1>1, <1>3, <1>5, <1>7, <1>8 DEF Init, CodeInv, RowOK

LEMMA GetWorkStep ==
  ASSUME CodeInv, GetWork
  PROVE  CodeInv'
<1>1. /\ pc = "new_work" /\ pc' = "user"
      /\ edge' = edge /\ dag_in_count' = dag_in_count /\ num_fin_fn' = num_fin_fn
      /\ i' = i /\ e' = e /\ done' = done
  BY DEF GetWork
<1>2. IsDag(edge) /\ IsDag(edge)' /\ Fits' /\ Types /\ QueueOK /\ CountOK /\ FinishedOK
  BY <1>1, Frozen DEF CodeInv
<1>3. /\ bm_run_fn' \in [0..LastWord -> SUBSET (0..WordBits - 1)]
      /\ fn' \in 0..Byte - 1 /\ Queued(fn')
      /\ \A g \in 0..Byte - 1 : Queued(g)' <=> Queued(g) /\ g # fn'
  BY <1>2, Dequeue
<1>4. fn' \in DOMAIN edge \ done
  BY <1>2, <1>3 DEF QueueOK
<1>5. Types'
  BY <1>1, <1>2, <1>3, <1>4 DEF Types
<1>6. QueueOK'
  BY <1>1, <1>2, <1>3, <1>4 DEF QueueOK
<1>7. ASSUME NEW g \in DOMAIN edge PROVE Pending(g)' = Pending(g)
  BY <1>1, Frozen DEF Pending
<1>8. CountOK'
  <2>1. DOMAIN edge \subseteq 0..Byte - 1
    BY <1>2, Functions
  <2> QED
    BY <1>1, <1>2, <1>3, <1>7, <2>1 DEF CountOK
<1>9. FinishedOK'
  BY <1>1, <1>2 DEF FinishedOK
<1> QED
  BY <1>1, <1>2, <1>5, <1>6, <1>8, <1>9 DEF CodeInv, RowOK

LEMMA GetNoWorkStep ==
  ASSUME CodeInv, GetNoWork
  PROVE  CodeInv'
<1>1. /\ pc = "new_work" /\ pc' = "no_work"
      /\ \A w \in 0..LastWord : bm_run_fn[w] = {}
      /\ edge' = edge /\ dag_in_count' = dag_in_count /\ num_fin_fn' = num_fin_fn
      /\ bm_run_fn' = bm_run_fn /\ fn' = fn /\ i' = i /\ e' = e /\ done' = done
  BY DEF GetNoWork
<1>2. IsDag(edge) /\ IsDag(edge)' /\ Fits' /\ Types /\ QueueOK /\ CountOK /\ FinishedOK
  BY <1>1, Frozen DEF CodeInv
<1>3. ASSUME NEW f \in 0..Byte - 1 PROVE ~Queued(f) /\ ~Queued(f)'
  BY <1>1, Sizes DEF Queued
<1>4. Types' /\ FinishedOK'
  BY <1>1, <1>2 DEF Types, FinishedOK
<1>5. QueueOK'
  BY <1>1, <1>3 DEF QueueOK
<1>6. ASSUME NEW g \in DOMAIN edge PROVE Pending(g)' = Pending(g) /\ Queued(g)' = Queued(g)
  BY <1>1, Frozen DEF Pending, Queued
<1>7. CountOK'
  BY <1>1, <1>2, <1>6 DEF CountOK
<1> QED
  BY <1>1, <1>2, <1>4, <1>5, <1>7 DEF CodeInv, RowOK

LEMMA NextInvocationStep ==
  ASSUME CodeInv, NextInvocation
  PROVE  CodeInv'
<1>1. /\ pc = "no_work" /\ pc' = "new_work"
      /\ num_fin_fn' = 0 /\ done' = {}
      /\ dag_in_count' =
           [f \in 0..Byte - 1 |-> IF f < num_nodes THEN dag(f) ELSE dag_in_count[f]]
      /\ AddRunnable(start_func)
      /\ edge' = edge /\ fn' = fn /\ i' = i /\ e' = e
  BY DEF NextInvocation
<1>2. IsDag(edge) /\ IsDag(edge)' /\ Fits' /\ Types /\ QueueOK
  BY <1>1, Frozen DEF CodeInv
<1>3. DOMAIN edge \subseteq 0..Byte - 1 /\ DOMAIN edge = 0..num_nodes - 1 /\ num_nodes \in Nat
  BY <1>2, Functions
<1>4. /\ start_func \in DOMAIN edge
      /\ \A f \in DOMAIN edge : PredIn(edge, f) = {} <=> f = start_func
  BY <1>2, OneStart
<1>5. /\ bm_run_fn' \in [0..LastWord -> SUBSET (0..WordBits - 1)]
      /\ \A g \in 0..Byte - 1 : Queued(g)' <=> Queued(g) \/ g = start_func
  BY <1>1, <1>2, <1>3, <1>4, Enqueue
<1>6. \A g \in 0..Byte - 1 : Queued(g)' <=> g = start_func
  BY <1>1, <1>2, <1>5 DEF QueueOK
<1>7. ASSUME NEW g \in DOMAIN edge
      PROVE  /\ Pending(g)' = PredIn(edge, g)
             /\ dag_in_count'[g] = Cardinality(PredIn(edge, g))
  <2>1. Pending(g)' = PredIn(edge, g)
    BY <1>1, Frozen DEF Pending
  <2>2. g < num_nodes /\ dag_in_count'[g] = dag(g)
    BY <1>1, <1>3
  <2> QED
    BY <1>2, <2>1, <2>2, Offsets
<1>8. Types'
  <2>1. ASSUME NEW f \in 0..Byte - 1, f < num_nodes PROVE dag(f) \in 0..Byte - 1
    <3>1. f \in DOMAIN edge
      BY <1>3, <2>1
    <3> QED
      BY <1>2, <3>1, Offsets, Predecessors
  <2>2. dag_in_count' \in [0..Byte - 1 -> 0..Byte - 1]
    BY <1>1, <1>2, <2>1 DEF Types
  <2> QED
    BY <1>1, <1>2, <1>5, <2>2 DEF Types
<1>9. QueueOK'
  BY <1>1, <1>4, <1>6 DEF QueueOK
<1>10. CountOK'
  <2>1. ASSUME NEW g \in DOMAIN edge PROVE Pending(g)' = {} <=> g = start_func
    BY <1>4, <1>7
  <2> QED
    BY <1>1, <1>3, <1>6, <1>7, <2>1 DEF CountOK
<1>11. FinishedOK'
  BY <1>1, FS_EmptySet DEF FinishedOK
<1> QED
  BY <1>1, <1>2, <1>8, <1>9, <1>10, <1>11 DEF CodeInv, RowOK

LEMMA ProcessDagStep ==
  ASSUME CodeInv, ProcessDag
  PROVE  CodeInv'
<1>1. /\ pc = "user" /\ pc' = "dag" /\ done' = done \cup {fn}
      /\ i' = (dag(num_nodes + fn) + 2 * num_nodes + 1) % Byte
      /\ e' = (dag(num_nodes + fn + 1) + 2 * num_nodes + 1) % Byte
      /\ edge' = edge /\ dag_in_count' = dag_in_count /\ bm_run_fn' = bm_run_fn
      /\ num_fin_fn' = num_fin_fn /\ fn' = fn
  BY DEF ProcessDag
<1>2. IsDag(edge) /\ IsDag(edge)' /\ Fits /\ Fits' /\ Types /\ QueueOK /\ CountOK /\ FinishedOK
  BY <1>1, Frozen DEF CodeInv
<1>3. fn \in DOMAIN edge /\ fn \notin done /\ ~Queued(fn)
  BY <1>1, <1>2 DEF Types, QueueOK
\* The bounds of the row fit, so that nothing is lost of them.
<1>4. i' = Row(fn) /\ e' = Row(fn + 1) /\ i' \in 0..Byte - 1 /\ e' \in 0..Byte - 1 /\ i' <= e'
  <2>1. /\ dag(num_nodes + fn) + 2 * num_nodes + 1 = Row(fn)
        /\ dag(num_nodes + fn + 1) + 2 * num_nodes + 1 = Row(fn + 1)
        /\ Row(fn) \in Nat /\ Row(fn + 1) \in Nat /\ Row(fn) <= Row(fn + 1)
        /\ Row(fn + 1) <= 2 * num_nodes + 1 + Cardinality(Edges(edge))
    BY <1>2, <1>3, Offsets
  <2>2. Byte \in Nat \ {0} /\ num_nodes \in Nat /\ Cardinality(Edges(edge)) \in Nat
    BY <1>2, Sizes, Functions, FiniteEdges
  <2>3. Row(fn) < Byte /\ Row(fn + 1) < Byte
    BY <1>2, <2>1, <2>2 DEF Fits
  <2>4. \A x \in Nat : x < Byte => x % Byte = x
    BY <2>2
  <2>5. i' = Row(fn) /\ e' = Row(fn + 1)
    BY <1>1, <2>1, <2>3, <2>4
  <2> QED
    BY <2>1, <2>2, <2>3, <2>5
<1>5. Types'
  BY <1>1, <1>2, <1>3, <1>4 DEF Types
<1>6. ASSUME NEW g \in DOMAIN edge
      PROVE  Pending(g)' = Pending(g) /\ Queued(g)' = Queued(g)
  <2>1. ASSUME NEW f \in PredIn(edge, g)
        PROVE  (f \in done' => fn' = f /\ i' <= Place(f, g)) <=> (f \notin done)
    <3>1. Row(f) <= Place(f, g)
      BY <1>2, <2>1, PlaceInRow
    <3> QED
      BY <1>1, <1>3, <1>4, <3>1
  <2>2. Pending(g) = {f \in PredIn(edge, g) : f \notin done}
    BY <1>1 DEF Pending
  <2>3. Pending(g)' = {f \in PredIn(edge, g) : f \in done' => fn' = f /\ i' <= Place(f, g)}
    BY <1>1, Frozen DEF Pending
  <2> QED
    BY <1>1, <2>1, <2>2, <2>3 DEF Queued
<1>7. QueueOK'
  <2>1. \A f \in 0..Byte - 1 : Queued(f)' = Queued(f)
    BY <1>1 DEF Queued
  <2> QED
    BY <1>1, <1>2, <1>3, <2>1 DEF QueueOK
<1>8. RowOK'
  <2>1. Row(fn + 1)' = Row(fn + 1)
    BY <1>1, Frozen
  <2>2. Row(fn)' = Row(fn)
    BY <1>1, Frozen
  <2> QED
    BY <1>1, <1>4, <2>1, <2>2 DEF RowOK
<1>9. CountOK'
  BY <1>1, <1>2, <1>6 DEF CountOK
<1>10. FinishedOK'
  <2>1. IsFiniteSet(done) /\ Cardinality(done) \in Nat
    BY <1>2, Functions, FS_Subset, FS_CardinalityType DEF Types
  <2>2. Cardinality(done') = Cardinality(done) + 1
    BY <1>1, <1>3, <2>1, FS_AddElement
  <2> QED
    BY <1>1, <1>2, <2>1, <2>2 DEF FinishedOK
<1> QED
  BY <1>1, <1>2, <1>5, <1>7, <1>8, <1>9, <1>10 DEF CodeInv

LEMMA OutEdgeStep ==
  ASSUME CodeInv, OutEdge
  PROVE  CodeInv'
<1> PICK out_fn : out_fn = dag(i)
  OBVIOUS
<1> DEFINE count == (dag_in_count[out_fn] - 1) % Byte
<1>1. /\ pc = "dag" /\ pc' = "dag" /\ i < e
      /\ dag_in_count' = [dag_in_count EXCEPT ![out_fn] = count]
      /\ IF count = 0 THEN AddRunnable(out_fn) ELSE bm_run_fn' = bm_run_fn
      /\ i' = (i + 1) % Byte
      /\ edge' = edge /\ num_fin_fn' = num_fin_fn /\ fn' = fn /\ e' = e /\ done' = done
  BY DEF OutEdge
<1>2. /\ IsDag(edge) /\ IsDag(edge)' /\ Fits' /\ Types /\ QueueOK /\ RowOK
      /\ CountOK /\ FinishedOK
  BY <1>1, Frozen DEF CodeInv
<1>3. /\ fn \in DOMAIN edge /\ fn \in done /\ i \in Nat /\ e = Row(fn + 1)
      /\ Row(fn) <= i /\ i < Row(fn + 1) /\ e \in 0..Byte - 1
  <2>1. Row(fn) \in Nat
    BY <1>2, Offsets DEF Types
  <2> QED
    BY <1>1, <1>2, <2>1, Sizes DEF Types, RowOK
<1>4. i' = i + 1 /\ i' \in 0..Byte - 1 /\ i' <= e
  <2>0. Byte \in Nat
    BY Sizes
  <2>1. i + 1 \in Nat /\ i + 1 <= e /\ i + 1 < Byte
    BY <1>1, <1>3, <2>0
  <2>2. \A x \in Nat : x < Byte => x % Byte = x
    BY <2>0
  <2>3. i' = i + 1
    BY <1>1, <2>1, <2>2
  <2> QED
    BY <2>0, <2>1, <2>3
\* The edge that is read is pending, and is the only one that ceases to be.
<1>5. /\ out_fn \in DOMAIN edge /\ fn \in PredIn(edge, out_fn) /\ Place(fn, out_fn) = i
      /\ \A g \in DOMAIN edge : fn \in PredIn(edge, g) /\ Place(fn, g) = i => g = out_fn
  BY <1>2, <1>3, TargetRead
<1>6. ASSUME NEW g \in DOMAIN edge
      PROVE  /\ Pending(g) =
                  {f \in PredIn(edge, g) : f \in done => fn = f /\ i <= Place(f, g)}
             /\ Pending(g)' =
                  {f \in PredIn(edge, g) : f \in done => fn = f /\ i + 1 <= Place(f, g)}
  BY <1>1, <1>4, Frozen DEF Pending
<1>7. fn \in Pending(out_fn) /\ Pending(out_fn)' = Pending(out_fn) \ {fn}
  <2>1. ~(i + 1 <= Place(fn, out_fn))
    BY <1>3, <1>5
  <2> QED
    BY <1>3, <1>5, <1>6, <2>1
<1>8. ASSUME NEW g \in DOMAIN edge, g # out_fn
      PROVE  Pending(g)' = Pending(g)
  <2>1. ASSUME NEW f \in PredIn(edge, g), fn = f
        PROVE  i <= Place(f, g) <=> i + 1 <= Place(f, g)
    <3>1. Place(f, g) \in Nat /\ Place(f, g) # i
      BY <1>2, <1>5, <1>8, <2>1, PlaceInRow
    <3> QED
      BY <1>3, <3>1
  <2> QED
    BY <1>6, <2>1
\* The count of out_fn does not wrap.
<1>9. /\ count = Cardinality(Pending(out_fn)') /\ count \in 0..Byte - 1
      /\ count = 0 <=> Pending(out_fn)' = {}
  <2>1. Pending(out_fn) \subseteq PredIn(edge, out_fn)
    BY DEF Pending
  <2>2. /\ IsFiniteSet(Pending(out_fn)) /\ Cardinality(Pending(out_fn)) \in 0..Byte - 1
        /\ Cardinality(Pending(out_fn)) = dag_in_count[out_fn]
    BY <1>2, <1>5, <2>1, Predecessors DEF CountOK
  <2>3. Cardinality(Pending(out_fn)') = dag_in_count[out_fn] - 1
    BY <1>7, <2>2, FS_RemoveElement
  <2>4. Pending(out_fn)' \subseteq PredIn(edge, out_fn)
    BY <1>7, <2>1
  <2>5. /\ Cardinality(Pending(out_fn)') \in 0..Byte - 1
        /\ Cardinality(Pending(out_fn)') = 0 <=> Pending(out_fn)' = {}
    BY <1>2, <1>5, <2>4, Predecessors
  <2>6. \A x \in Nat : x < Byte => x % Byte = x
    BY Sizes
  <2>7. dag_in_count[out_fn] - 1 \in Nat /\ dag_in_count[out_fn] - 1 < Byte
    BY <2>3, <2>5, Sizes
  <2> QED
    BY <2>3, <2>5, <2>6, <2>7
<1>10. DOMAIN edge \subseteq 0..Byte - 1
  BY <1>2, Functions
<1>11. /\ bm_run_fn' \in [0..LastWord -> SUBSET (0..WordBits - 1)]
       /\ \A g \in 0..Byte - 1 : Queued(g)' <=> Queued(g) \/ (g = out_fn /\ count = 0)
  <2> HIDE DEF count
  <2>1. CASE count = 0
    BY <1>1, <1>2, <1>5, <1>10, <2>1, Enqueue
  <2>2. CASE count # 0
    BY <1>1, <1>2, <2>2 DEF Types, Queued
  <2> QED
    BY <2>1, <2>2
<1> HIDE DEF count
<1>12. out_fn \notin done
  BY <1>1, <1>2, <1>5, <1>7 DEF CountOK
<1>13. Types'
  BY <1>1, <1>2, <1>4, <1>9, <1>11 DEF Types
<1>14. QueueOK'
  BY <1>1, <1>2, <1>5, <1>11, <1>12 DEF QueueOK
<1>15. RowOK'
  <2>1. Row(fn + 1)' = Row(fn + 1) /\ Row(fn)' = Row(fn) /\ Row(fn) \in Nat
    BY <1>1, <1>2, <1>3, Frozen, Offsets
  <2> QED
    BY <1>1, <1>3, <1>4, <2>1, Sizes DEF RowOK
<1>16. CountOK'
  <2>1. ASSUME NEW g \in DOMAIN edge
        PROVE  /\ dag_in_count'[g] = Cardinality(Pending(g)')
               /\ Pending(g)' = {} <=> g \in done \/ Queued(g)'
    <3>1. CASE g = out_fn
      BY <1>1, <1>2, <1>7, <1>9, <1>10, <1>11, <1>12, <3>1 DEF Types, CountOK
    <3>2. CASE g # out_fn
      BY <1>1, <1>2, <1>8, <1>10, <1>11, <3>2 DEF Types, CountOK
    <3> QED
      BY <3>1, <3>2
  <2> QED
    BY <1>1, <2>1 DEF CountOK
<1>17. FinishedOK'
  BY <1>1, <1>2 DEF FinishedOK
<1> QED
  BY <1>1, <1>2, <1>13, <1>14, <1>15, <1>16, <1>17 DEF CodeInv

LEMMA DagProcessedStep ==
  ASSUME CodeInv, DagProcessed
  PROVE  CodeInv'
<1>1. /\ pc = "dag" /\ pc' = "new_work" /\ i >= e /\ num_fin_fn' = num_fin_fn + 1
      /\ edge' = edge /\ dag_in_count' = dag_in_count /\ bm_run_fn' = bm_run_fn
      /\ fn' = fn /\ i' = i /\ e' = e /\ done' = done
  BY DEF DagProcessed
<1>2. /\ IsDag(edge) /\ IsDag(edge)' /\ Fits' /\ Types /\ QueueOK /\ RowOK
      /\ CountOK /\ FinishedOK
  BY <1>1, Frozen DEF CodeInv
\* The row has been read to its end.
<1>3. ASSUME NEW g \in DOMAIN edge
      PROVE  Pending(g)' = Pending(g) /\ Queued(g)' = Queued(g)
  <2>1. ASSUME fn \in PredIn(edge, g) PROVE ~(i <= Place(fn, g))
    <3>1. Place(fn, g) \in Nat /\ Place(fn, g) < Row(fn + 1)
      BY <1>2, <2>1, PlaceInRow
    <3>2. i \in Nat /\ e \in Nat /\ e = Row(fn + 1)
      BY <1>1, <1>2 DEF Types, RowOK
    <3> QED
      BY <1>1, <3>1, <3>2
  <2>2. Pending(g) = {f \in PredIn(edge, g) : f \notin done}
    BY <1>1, <2>1 DEF Pending
  <2>3. Pending(g)' = {f \in PredIn(edge, g) : f \notin done}
    BY <1>1, Frozen DEF Pending
  <2> QED
    BY <1>1, <2>2, <2>3 DEF Queued
<1>4. Types'
  BY <1>1, <1>2 DEF Types
<1>5. QueueOK'
  <2>1. \A f \in 0..Byte - 1 : Queued(f)' = Queued(f)
    BY <1>1 DEF Queued
  <2> QED
    BY <1>1, <1>2, <2>1 DEF QueueOK
<1>6. CountOK'
  BY <1>1, <1>2, <1>3 DEF CountOK
<1>7. FinishedOK'
  <2>1. Cardinality(done) \in Nat
    BY <1>2, Functions, FS_Subset, FS_CardinalityType DEF Types
  <2> QED
    BY <1>1, <1>2, <2>1 DEF FinishedOK
<1> QED
  BY <1>1, <1>2, <1>4, <1>5, <1>6, <1>7 DEF CodeInv, RowOK

LEMMA CodeStutter ==
  ASSUME CodeInv, UNCHANGED vars
  PROVE  CodeInv'
<1>1. /\ edge' = edge /\ dag_in_count' = dag_in_count /\ bm_run_fn' = bm_run_fn
      /\ num_fin_fn' = num_fin_fn /\ fn' = fn /\ i' = i /\ e' = e /\ pc' = pc /\ done' = done
  BY DEF vars
<1>2. IsDag(edge)' /\ Fits' /\ \A f : Row(f)' = Row(f) /\ Queued(f)' = Queued(f)
  BY <1>1, Frozen DEF CodeInv, Queued
<1>3. \A g : Pending(g)' = Pending(g)
  BY <1>1, Frozen DEF Pending
<1>4. (fn + 1)' = fn + 1
  BY <1>1
<1> QED
  BY <1>1, <1>2, <1>3, <1>4 DEF CodeInv, Types, QueueOK, RowOK, CountOK, FinishedOK

LEMMA CodeInductive ==
  ASSUME CodeInv, [Next]_vars
  PROVE  CodeInv'
BY GetWorkStep, GetNoWorkStep, NextInvocationStep, ProcessDagStep, OutEdgeStep,
   DagProcessedStep, CodeStutter DEF Next

-----------------------------------------------------------------------------
(* The theorems                                                            *)

\* The invariant, for every dag that fits.
THEOREM CodeAlways == Spec /\ Fits => []CodeInv
<1>1. Init /\ Fits => CodeInv
  BY CodeInit
<1>2. CodeInv /\ [Next]_vars => CodeInv'
  BY CodeInductive
<1> QED
  BY <1>1, <1>2, PTL DEF Spec

\* The types hold and an index in the dag stays in the row of the function that was executed
\* (sched.c:126-142).
THEOREM TypesOfCode == Spec /\ Fits => []TypeOK
<1>1. CodeInv => TypeOK
  <2> SUFFICES ASSUME CodeInv PROVE TypeOK
    OBVIOUS
  <2>1. IsDag(edge) /\ Types /\ RowOK /\ FinishedOK
    BY DEF CodeInv
  <2>2. num_fin_fn \in 0..num_nodes
    <3>1. /\ IsFiniteSet(done) /\ Cardinality(done) \in Nat
          /\ Cardinality(done) <= num_nodes
          /\ Cardinality(done) = 0 <=> done = {}
      BY <2>1, Functions, FS_Subset, FS_CardinalityType, FS_EmptySet DEF Types
    <3>2. pc = "dag" => done # {}
      BY <2>1 DEF RowOK
    <3>3. num_nodes \in Nat
      BY <2>1, Functions
    <3>4. CASE pc = "dag"
      BY <2>1, <3>1, <3>2, <3>3, <3>4 DEF FinishedOK
    <3>5. CASE pc # "dag"
      BY <2>1, <3>1, <3>3, <3>5 DEF FinishedOK
    <3> QED
      BY <3>4, <3>5
  <2>3. ASSUME pc = "dag", i < e PROVE i > 2 * num_nodes /\ dag(i) \in edge[fn]
    <3>1. /\ fn \in DOMAIN edge /\ Row(fn) \in Nat /\ 2 * num_nodes < Row(fn)
          /\ num_nodes \in Nat
      BY <2>1, Offsets, Functions DEF Types
    <3>2. i \in Nat /\ Row(fn) <= i /\ i < Row(fn + 1)
      BY <2>1, <2>3, <3>1, Sizes DEF Types, RowOK
    <3> QED
      BY <2>1, <3>1, <3>2, TargetRead
  <2> QED
    BY <2>1, <2>2, <2>3, Functions DEF TypeOK, Types
<1> QED
  BY <1>1, CodeAlways, PTL

\* A function is executed once in an invocation and after its predecessors, whatever its
\* number and the word of bm_run_fn it falls in (sched.c:103-143, 145-201).
THEOREM ExecutedInOrder == Spec /\ Fits => []InOrder
<1>1. CodeInv => InOrder
  <2> SUFFICES ASSUME CodeInv, pc = "user" PROVE fn \notin done /\ PredIn(edge, fn) \subseteq done
    BY DEF InOrder
  <2>1. fn \in DOMAIN edge /\ fn \notin done /\ Pending(fn) = {}
    BY DEF CodeInv, Types, QueueOK, CountOK
  <2> QED
    BY <2>1 DEF Pending
<1> QED
  BY <1>1, CodeAlways, PTL

\* A scan that finds the queue empty means that every function has been executed: no edge
\* is missed or read twice (sched.c:126-142).
THEOREM ExecutedCompletely == Spec /\ Fits => []RunsAll
<1>1. CodeInv => RunsAll
  <2> SUFFICES ASSUME CodeInv, pc = "no_work"
               PROVE  done = DOMAIN edge /\ num_fin_fn = num_nodes
    BY DEF RunsAll
  <2>1. IsDag(edge) /\ Types /\ QueueOK /\ CountOK /\ FinishedOK
    BY DEF CodeInv
  <2>2. done = DOMAIN edge
    <3> DEFINE S == DOMAIN edge \ done
    <3>1. SUFFICES ASSUME S # {} PROVE FALSE
      BY <2>1 DEF Types
    <3>2. PICK f \in S : PredIn(edge, f) \cap S = {}
      BY <2>1, <3>1, FirstOf
    <3>3. PredIn(edge, f) \subseteq done
      BY <3>2 DEF PredIn
    <3>4. Pending(f) = {}
      BY <3>3 DEF Pending
    <3>5. Queued(f)
      BY <2>1, <3>2, <3>4 DEF CountOK
    <3> QED
      BY <2>1, <3>2, <3>5, Functions DEF QueueOK
  <2> QED
    BY <2>1, <2>2, Functions DEF FinishedOK
<1> QED
  BY <1>1, CodeAlways, PTL

=============================================================================

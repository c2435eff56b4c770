------------------------------ MODULE MCSched ------------------------------
(* Instances of Sched for TLC: dags of three and four functions.           *)
EXTENDS Sched, TLC

CONSTANTS c0, c1, c2, s, a, b, t

TwoCpus   == {c0, c1}
ThreeCpus == {c0, c1, c2}

\* Cpu0 is told from the others by Init only; no liveness is checked with three vcpus.
Alike == Permutations({c1, c2})

\* s -> a, b -> t: two functions runnable at once, and a join.
Diamond == s :> {a, b} @@ a :> {t} @@ b :> {t} @@ t :> {}
\* s -> a, b
Fork == s :> {a, b} @@ a :> {} @@ b :> {}

OneWord  == [f \in Fn |-> 0]
\* b is in the last word of bm_run_fn, the others in the first.
TwoWords == [f \in Fn |-> IF f = b THEN 1 ELSE 0]

=============================================================================

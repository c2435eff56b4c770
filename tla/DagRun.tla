------------------------------- MODULE DagRun -------------------------------
(***************************************************************************)
(* What the scheduler promises to the virtual machine monitor (VMM), with  *)
(* no vcpus, counters or bitmaps in it: the functions of a dag are run one *)
(* invocation of the dag after the other; in an invocation every function  *)
(* runs exactly once, and only when all the functions with an edge into it *)
(* have finished.  Module Sched is shown to implement this specification.  *)
(***************************************************************************)
EXTENDS Naturals

CONSTANTS
  Fn,      \* the functions (nodes) of the dag
  Succ     \* Succ[f]: the functions f has an edge to

VARIABLES
  running,   \* running[f]: on how many vcpus f is being executed
  done       \* the functions that finished in this invocation

vars == <<running, done>>

Pred(g) == {f \in Fn : g \in Succ[f]}

\* Before the first invocation the VMM is waiting to hand out work, as it is
\* between two invocations.
Init == /\ running = [f \in Fn |-> 0]
        /\ done = Fn

Begin(f) == /\ running[f] = 0
            /\ f \notin done
            /\ Pred(f) \subseteq done
            /\ running' = [running EXCEPT ![f] = 1]
            /\ UNCHANGED done

End(f) == /\ running[f] = 1
          /\ running' = [running EXCEPT ![f] = 0]
          /\ done' = done \cup {f}

\* The VMM is told that the dag is complete and supplies the next input.
Restart == /\ done = Fn
           /\ done' = {}
           /\ UNCHANGED running

Next == \/ \E f \in Fn : Begin(f) \/ End(f)
        \/ Restart

Spec == Init /\ [][Next]_vars

\* What the scheduler promises under fairness: an invocation never stays open.
FairSpec == Spec /\ WF_vars(Next)

=============================================================================

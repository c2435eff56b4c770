------------------------------ MODULE MCBarrier ------------------------------
(* Instance of Barrier for TLC.                                            *)
EXTENDS Barrier, TLC

\* All vcpus are alike.  (Only safety is checked.)
Pool == Permutations(Cpu)

=============================================================================

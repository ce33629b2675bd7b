----------------------------- MODULE MCJobGraph -----------------------------
(* JobGraph on a small instance: every graph of the jobs, built in any order. *)
EXTENDS JobGraph, TLC

\* Jobs and threads are interchangeable: nothing orders them.
Symmetry == Permutations(Jobs) \cup Permutations(Threads)

=============================================================================

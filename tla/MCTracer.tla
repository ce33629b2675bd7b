------------------------------ MODULE MCTracer ------------------------------
(* Two cores, two threads of the program and another one for Tracer. *)
EXTENDS Tracer, TLC

CONSTANTS c1, c2, t1, t2, x

CoreSet == {c1, c2}
RegisteredSet == {t1, t2}
StrangerSet == {x}
Alike == Permutations(CoreSet) \cup Permutations(RegisteredSet)

=============================================================================

-------------------------- MODULE MCLockingSystem --------------------------
(* The frame of UpdateParallel and smaller frames for LockingSystem. *)
EXTENDS LockingSystem

CONSTANTS input, physics, collision, gameElements, animation, particles,
          rendering, sound

Deps(j) ==
  CASE j \in {animation, gameElements, particles} -> {rendering}
    [] j = collision -> {animation, particles}
    [] j = physics -> {collision, gameElements}
    [] j = input -> {physics}
    [] OTHER -> {}

\* UpdateParallel with HTL_TEST_DEPENDENCIES.
UpdateParallelFrames ==
  {[new |-> <<sound, rendering, animation, gameElements, particles, collision,
              physics, input>>,
    add |-> <<rendering, collision, physics, input, animation, particles,
              gameElements, sound>>,
    deps |-> [j \in Jobs |-> Deps(j)]]}

\* Two of the jobs.
TwoJobFrames ==
  {[new |-> <<physics, input>>,
    add |-> <<physics, input>>,
    deps |-> [j \in Jobs |-> Deps(j) \cap {physics, input}]]}

BothFrames == UpdateParallelFrames \cup TwoJobFrames

=============================================================================

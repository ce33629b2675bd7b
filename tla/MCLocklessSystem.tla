-------------------------- MODULE MCLocklessSystem -------------------------
EXTENDS LocklessSystem

CONSTANTS input, physics, collision, gameElements, animation, particles,
          rendering, sound

Deps(j) ==
  CASE j \in {animation, gameElements, particles} -> {rendering}
    [] j = collision -> {animation, particles}
    [] j = physics -> {collision, gameElements}
    [] j = input -> {physics}
    [] OTHER -> {}

\* UpdateParallel with HTL_TEST_DEPENDENCIES.
UpdateParallelFrames ==
  {[new |-> <<sound, rendering, animation, gameElements, particles, collision,
              physics, input>>,
    add |-> <<rendering, collision, physics, input, animation, particles,
              gameElements, sound>>,
    deps |-> [j \in Jobs |-> Deps(j)]]}

Frame(new, add) ==
  [new |-> new, add |-> add, deps |-> [j \in Jobs |-> Deps(j) \cap Jobs]]

\* Parts of it.  Worker 0 reorders its three jobs and steals,
ReorderFrame ==
  Frame(<<sound, rendering, physics, animation, input>>,
        <<physics, sound, rendering, animation, input>>)

\* or may have emptied its deque when the last job is added,
ResetFrame ==
  Frame(<<sound, rendering, physics, animation, input>>,
        <<sound, physics, input, rendering, animation>>)

\* or may steal one of the two jobs that rendering waits for.
JoinFrame ==
  Frame(<<rendering, animation, particles, physics, input>>,
        <<physics, input, rendering, animation, particles>>)

ReorderResetFrames == {ReorderFrame, ResetFrame}

\* The user quits while worker 0 may have taken one of its two jobs.
QuittingFrame == Frame(<<sound, physics, input>>, <<sound, physics, input>>)
QuittingFrames == {QuittingFrame}
ReorderJoinQuitFrames == {ReorderFrame, JoinFrame, QuittingFrame}

=============================================================================

\* LocklessDeque with HTL_EXTRA_LOCKS, two workers.
SPECIFICATION FairSpec
CONSTANTS
  input = input
  physics = physics
  collision = collision
  gameElements = gameElements
  animation = animation
  particles = particles
  rendering = rendering
  sound = sound
  Jobs = {sound, rendering, animation, physics, input}
  NoJob = NoJob
  NumWorkers = 2
  MaxDeletes = 0
  Unwritten = Unwritten
  Capacity = 16
  ExtraLocks = TRUE
  QuitFrames = {}
CONSTANT Frames <- ReorderResetFrames
INVARIANTS InOnePlace CounterMeaning
PROPERTY FrameEnds

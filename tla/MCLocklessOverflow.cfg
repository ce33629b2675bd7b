\* The default build, one worker, the frame of UpdateParallel: the buffer.
SPECIFICATION Spec
CONSTANTS
  input = input
  physics = physics
  collision = collision
  gameElements = gameElements
  animation = animation
  particles = particles
  rendering = rendering
  sound = sound
  Jobs = {input, physics, collision, gameElements, animation, particles, rendering, sound}
  NoJob = NoJob
  NumWorkers = 1
  MaxDeletes = 0
  Unwritten = Unwritten
  Capacity = 16
  ExtraLocks = FALSE
  QuitFrames = {}
CONSTANT Frames <- UpdateParallelFrames
INVARIANT WithinBounds

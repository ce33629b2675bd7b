\* LockingDeque, one worker, the frame of UpdateParallel twice and its jobs deleted.
SPECIFICATION Spec
CONSTANTS
  input = input
  physics = physics
  collision = collision
  gameElements = gameElements
  animation = animation
  particles = particles
  rendering = rendering
  sound = sound
  Jobs = {input, physics, collision, gameElements, animation, particles, rendering, sound}
  NoJob = NoJob
  NumWorkers = 1
  MaxDeletes = 2
  QuitFrames = {}
CONSTANT Frames <- UpdateParallelFrames
INVARIANTS TypeOK HeldJobIsAnnounced AllJobsDone
PROPERTY JobGraphSpec

\* LockingDeque, two workers: AllJobsFinished against "All jobs done".
SPECIFICATION Spec
CONSTANTS
  input = input
  physics = physics
  collision = collision
  gameElements = gameElements
  animation = animation
  particles = particles
  rendering = rendering
  sound = sound
  Jobs = {input, physics, collision, gameElements, animation, particles, rendering, sound}
  NoJob = NoJob
  NumWorkers = 2
  MaxDeletes = 0
  QuitFrames = {}
CONSTANT Frames <- UpdateParallelFrames
INVARIANT AllJobsDone

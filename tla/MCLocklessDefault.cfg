\* The default build, two workers; in one of the frames the user quits at any moment.
SPECIFICATION Spec
CONSTANTS
  input = input
  physics = physics
  collision = collision
  gameElements = gameElements
  animation = animation
  particles = particles
  rendering = rendering
  sound = sound
  Jobs = {sound, rendering, animation, particles, physics, input}
  NoJob = NoJob
  NumWorkers = 2
  MaxDeletes = 0
  Unwritten = Unwritten
  Capacity = 16
  ExtraLocks = FALSE
CONSTANT Frames <- ReorderJoinQuitFrames
CONSTANT QuitFrames <- QuittingFrames
INVARIANTS TypeOK FrontIsOwned DependencyOrder
CHECK_DEADLOCK FALSE

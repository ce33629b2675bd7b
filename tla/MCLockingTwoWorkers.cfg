\* LockingDeque, two workers, the frame of UpdateParallel up to its end, and a frame
\* in which the user quits at any moment: then the program ends.
SPECIFICATION FairSpec
CONSTANTS
  input = input
  physics = physics
  collision = collision
  gameElements = gameElements
  animation = animation
  particles = particles
  rendering = rendering
  sound = sound
  Jobs = {input, physics, collision, gameElements, animation, particles, rendering, sound}
  NoJob = NoJob
  NumWorkers = 2
  MaxDeletes = 0
CONSTANT Frames <- BothFrames
CONSTANT QuitFrames <- TwoJobFrames
INVARIANT InOnePlace
PROPERTIES FrameEnds ExecutableIsTaken WorkersStop
CHECK_DEADLOCK FALSE

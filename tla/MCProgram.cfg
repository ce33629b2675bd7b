\* Two workers at most, two captures, four frames; the user quits up to the end of the first.
SPECIFICATION FairSpec
CONSTANTS
  None = None
  Hardware = 3
  Unsigned = 256
  MaxFrames = 4
  QuitFrames = {0, 1}
  MaxCaptures = 2
CONSTANT Starts <- SomeStarts
CONSTANT Jobs <- SomeJobs
CONSTANT Threads <- ThreadNames
CONSTANT Entries <- EntryNames
CONSTANT Owner <- OwnerOf
CONSTANT Workers <- WorkerNames
CONSTANT CommandLines <- SomeCommandLines
INVARIANTS TypeOK NumThreadsInRange ThreadsFollowState WaitSuffices NoStaleEvent ReportSound
PROPERTIES NoEventDropped QuitEnds
CHECK_DEADLOCK FALSE

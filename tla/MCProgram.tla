----------------------------- MODULE MCProgram -----------------------------
(* Command lines and threads for Program. *)
EXTENDS Program

WorkerNames == <<"Worker 0", "Worker 1">>
ThreadNames == {"main", "update"} \cup ToSet(WorkerNames)
EntryNames == {"MainThread", "Update", "Frame"} \cup ToSet(WorkerNames)
OwnerOf == [e \in EntryNames |->
  CASE e = "MainThread" -> "main"
    [] e \in {"Update", "Frame"} -> "update"
    [] OTHER -> e]

\* A serial run, a parallel run with one worker and one with as many as there
\* can be.
SomeCommandLines ==
  {<<>>, <<Option("-p"), Option("-t"), Number(0)>>,
   <<Option("--threads"), Number(-3), Option("--parallel")>>}

\* One worker has two jobs, one of which it may put back; two workers share one.
SomeJobs == [n \in 1 .. 2 |-> IF n = 1 THEN 2 ELSE 1]

\* A Start that records for two frames, and one with the mode OFF.
SomeStarts == {[mode |-> TRUE, limit |-> 2], [mode |-> FALSE, limit |-> 0]}

=============================================================================

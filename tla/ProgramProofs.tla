---------------------------- MODULE ProgramProofs ----------------------------
(***************************************************************************)
(* What Program promises for every machine, command line and set of        *)
(* threads: the number of workers, the types, that every thread records    *)
(* while a capture runs and only then, that no event or storage is used    *)
(* that has been freed, and that a report has the events of its capture.   *)
(***************************************************************************)
EXTENDS Program, SequenceTheorems, FiniteSetTheorems, WellFoundedInduction, TLAPS

-----------------------------------------------------------------------------
(* The number of workers, and whom a worker robs.                          *)

\* The conversions of GetNumThreads (main.cpp:234-247) leave a number between 1
\* and the maximum, whatever was typed.
LEMMA FitInRange ==
  ASSUME NEW t \in Nat
  PROVE  Fit(t) \in 1 .. MaxThreads
<1>1. MaxThreads \in Nat /\ MaxThreads >= 1
  BY HardwareAssumption, UnsignedAssumption DEF MaxThreads
<1> QED BY <1>1 DEF Fit

\* GetNumThreads (main.cpp:222-255) answers at least one worker and leaves one
\* hardware thread to main_runner if there are two, for every command line with
\* a readable -t; a negative number becomes the maximum.
THEOREM NumThreadsFit ==
  ASSUME NEW argv \in CommandLine, Readable(argv)
  PROVE  GetNumThreads(argv) \in 1 .. MaxThreads
<1>1. MaxThreads \in 1 .. MaxThreads
  BY HardwareAssumption, UnsignedAssumption DEF MaxThreads
<1>2. ASSUME CheckIfExists(argv, "-t", "--threads")
      PROVE  Fit(GetInt(argv, "-t", "--threads") % Unsigned) \in 1 .. MaxThreads
  <2>1. HasInt(argv, "-t", "--threads")
    BY <1>2 DEF Readable
  <2>2. GetInt(argv, "-t", "--threads") \in Int
    <3> DEFINE i == GetPosition(argv, "-t", "--threads")
    <3>1. i + 1 \in DOMAIN argv
      BY <2>1 DEF HasInt
    <3>2. \A k \in DOMAIN argv : argv[k] \in Argument
      BY DEF CommandLine
    <3>3. argv[i + 1] \in Argument
      BY <3>1, <3>2
    <3> QED BY <3>3 DEF GetInt, Argument
  <2>3. GetInt(argv, "-t", "--threads") % Unsigned \in Nat
    BY <2>2, UnsignedAssumption
  <2> QED BY <2>3, FitInRange
<1> QED BY <1>1, <1>2 DEF GetNumThreads

\* StealJobFromOtherQueue (job_worker.cpp:180-197, job_system.cpp:58-68) asks a
\* worker that exists and never the one that steals, for every value of rand().
THEOREM VictimIsAnother ==
  ASSUME NEW workers \in Nat, workers >= 2,
         NEW own \in 0 .. workers - 1, NEW r \in Nat
  PROVE  RandomWorker(own, r, workers) \in (0 .. workers - 1) \ {own}
<1> DEFINE i == r % workers
<1>1. i \in 0 .. workers - 1
  OBVIOUS
<1>2. Rand(r, 0, workers) = i
  BY <1>1 DEF Rand
<1>3. CASE i # own
  BY <1>1, <1>2, <1>3 DEF RandomWorker
<1>4. CASE i = own /\ own < workers - 1
  <2>1. (i + 1) % workers = i + 1
    BY <1>1, <1>4
  <2> QED BY <1>1, <1>2, <1>4, <2>1 DEF RandomWorker
<1>5. CASE i = own /\ own = workers - 1
  <2>1. (i + 1) % workers = 0
    BY <1>5
  <2> QED BY <1>2, <1>5, <2>1 DEF RandomWorker
<1> QED BY <1>3, <1>4, <1>5

\* The number of workers is decided once: no step of any thread changes it or
\* the command line (main.cpp:274-281).
LEMMA SettingsStay ==
  ASSUME [Next]_vars
  PROVE  UNCHANGED <<args, numThreads>>
<1>1. CASE MainNext
  BY <1>1 DEF MainNext, MainRegister, CreateThreads, ShutDown, Join,
       JoinRunner, ShutdownOptick, LeaveScope, MainFrame
<1>2. CASE Quit
  BY <1>2 DEF Quit, MainFrame
<1>3. CASE RunnerNext
  BY <1>3 DEF RunnerNext, RunnerRegister, Loop, EndFrame, UpdateStep, UpdateReturns,
       BeginFrame, StartFrame, PollSize, PollRunning, FinishFrame, StopFrame,
       RunnerUnregister, RunnerFrame
<1>4. ASSUME NEW w \in Team, WorkerNext(w)
      PROVE  UNCHANGED <<args, numThreads>>
  BY <1>4 DEF WorkerNext, WorkerRegister, TakeJob, Reorder, PutBack, TouchDeleted, Record,
       StopJob, Return, Finish, WorkerUnregister, WorkerGoes
<1>5. CASE UNCHANGED vars
  BY <1>5 DEF vars
<1> QED BY <1>1, <1>2, <1>3, <1>4, <1>5 DEF Next

\* main() creates at least one worker and leaves one hardware thread to
\* main_runner if there are two (main.cpp:222-255, 279).
THEOREM NumThreadsInRangeThm == Spec => []NumThreadsInRange
<1>1. Init => NumThreadsInRange
  BY CommandLinesAssumption, NumThreadsFit DEF Init, NumThreadsInRange
<1>2. NumThreadsInRange /\ [Next]_vars => NumThreadsInRange'
  <2> SUFFICES ASSUME NumThreadsInRange, [Next]_vars
               PROVE  NumThreadsInRange'
    OBVIOUS
  <2>1. numThreads' = numThreads
    BY SettingsStay
  <2> QED BY <2>1 DEF NumThreadsInRange, MaxThreads
<1> QED BY <1>1, <1>2, PTL DEF Spec

-----------------------------------------------------------------------------
(* Sequences and sets of places.                                           *)

\* A set of numbers with a bound has a first and a last.
LEMMA FirstIs ==
  ASSUME NEW P \in SUBSET Nat, P # {}
  PROVE  Min(P) \in P /\ \A k \in P : Min(P) <= k
<1>1. PICK m \in P : \A k \in P : ~(<<k, m>> \in OpToRel(<, Nat))
  BY NatLessThanWellFounded, WFMin
<1>2. \A k \in P : m <= k
  <2>1. ASSUME NEW k \in P, k < m
        PROVE  FALSE
    <3>1. <<k, m>> \in Nat \X Nat /\ <<k, m>>[1] < <<k, m>>[2]
      BY <2>1
    <3> QED BY <1>1, <3>1 DEF OpToRel
  <2> QED BY <2>1
<1> QED BY <1>2 DEF Min

LEMMA LastIs ==
  ASSUME NEW n \in Nat, NEW P \in SUBSET (1 .. n), P # {}
  PROVE  Max(P) \in P /\ \A k \in P : Max(P) >= k
<1> DEFINE Q == {n - k : k \in P}
<1>0. \A k \in P : k \in Nat /\ n - k \in Nat
  OBVIOUS
<1>1. Q \in SUBSET Nat /\ Q # {}
  BY <1>0
<1>2. PICK m \in P : n - m = Min(Q)
  BY <1>1, FirstIs
<1>3. \A k \in P : n - m <= n - k
  BY <1>1, <1>2, FirstIs
<1>4. \A k \in P : m >= k
  BY <1>0, <1>3
<1> QED BY <1>4 DEF Max

LEMMA RemoveAtIs ==
  ASSUME NEW S, NEW s \in Seq(S), NEW i \in DOMAIN s
  PROVE  /\ RemoveAt(s, i) \in Seq(S)
         /\ Len(RemoveAt(s, i)) = Len(s) - 1
         /\ \A k \in 1 .. Len(s) - 1 : RemoveAt(s, i)[k] = s[IF k < i THEN k ELSE k + 1]
<1> DEFINE a == SubSeq(s, 1, i - 1)
           b == SubSeq(s, i + 1, Len(s))
<1>1. Len(s) \in Nat /\ i \in 1 .. Len(s) /\ \A k \in 1 .. Len(s) : s[k] \in S
  BY ElementOfSeq, LenProperties
<1>2. a \in Seq(S) /\ Len(a) = i - 1 /\ \A k \in 1 .. i - 1 : a[k] = s[k]
  <2>1. i - 1 - 1 + 1 = i - 1 /\ \A k \in Int : 1 + k - 1 = k
    BY <1>1
  <2> QED BY <1>1, <2>1, SubSeqProperties
<1>3. b \in Seq(S) /\ Len(b) = Len(s) - i /\ \A k \in 1 .. Len(s) - i : b[k] = s[i + k]
  <2>1. /\ Len(s) - (i + 1) + 1 = Len(s) - i /\ \A k \in Int : i + 1 + k - 1 = i + k
        /\ i + 1 <= Len(s) \/ Len(s) - i = 0
    BY <1>1
  <2>2. \A k \in i + 1 .. Len(s) : s[k] \in S
    BY <1>1
  <2>3. /\ b \in Seq(S)
        /\ Len(b) = IF i + 1 <= Len(s) THEN Len(s) - (i + 1) + 1 ELSE 0
        /\ \A k \in 1 .. Len(s) - (i + 1) + 1 : b[k] = s[i + 1 + k - 1]
    BY <1>1, <2>2, SubSeqProperties
  <2>4. Len(b) = Len(s) - i
    BY <1>1, <2>1, <2>3
  <2>5. \A k \in 1 .. Len(s) - i : b[k] = s[i + k]
    <3> HIDE DEF b
    <3> TAKE k \in 1 .. Len(s) - i
    <3>1. i + 1 + k - 1 = i + k /\ k \in 1 .. Len(s) - (i + 1) + 1
      BY <1>1
    <3>2. b[k] = s[i + 1 + k - 1]
      BY <2>3, <3>1
    <3> QED BY <3>1, <3>2
  <2> QED BY <2>3, <2>4, <2>5
<1> HIDE DEF a, b
<1>4. /\ a \o b \in Seq(S) /\ Len(a \o b) = Len(s) - 1
      /\ \A k \in 1 .. Len(s) - 1 : (a \o b)[k] = s[IF k < i THEN k ELSE k + 1]
  <2> DEFINE c == a \o b
             n == Len(s)
  <2>1. /\ c \in Seq(S) /\ Len(c) = Len(a) + Len(b)
        /\ \A k \in 1 .. Len(a) + Len(b) :
             c[k] = IF k <= Len(a) THEN a[k] ELSE b[k - Len(a)]
    BY <1>2, <1>3, ConcatProperties
  <2> HIDE DEF c
  <2>2. n \in Nat /\ i \in 1 .. n /\ Len(a) = i - 1 /\ Len(b) = n - i
    BY <1>1, <1>2, <1>3
  <2> HIDE DEF n
  <2>3. Len(a) + Len(b) = n - 1
    BY <2>2
  <2>4. ASSUME NEW k \in 1 .. n - 1
        PROVE  c[k] = s[IF k < i THEN k ELSE k + 1]
    <3>1. c[k] = IF k <= i - 1 THEN a[k] ELSE b[k - (i - 1)]
      BY <2>1, <2>2, <2>3
    <3>2. CASE k < i
      <4>1. k <= i - 1 /\ k \in 1 .. i - 1
        BY <2>2, <3>2
      <4> QED BY <1>2, <3>1, <3>2, <4>1
    <3>3. CASE ~(k < i)
      <4>1. ~(k <= i - 1) /\ k - (i - 1) \in 1 .. n - i /\ i + (k - (i - 1)) = k + 1
        BY <2>2, <3>3
      <4>2. b[k - (i - 1)] = s[i + (k - (i - 1))]
        BY <1>3, <4>1 DEF n
      <4> QED BY <3>1, <3>3, <4>1, <4>2
    <3> QED BY <3>2, <3>3
  <2> QED BY <2>1, <2>3, <2>4 DEF c, n
<1> QED BY <1>4 DEF a, b, RemoveAt

-----------------------------------------------------------------------------
(* The inductive invariant of the program.                                 *)

FrameAfter(s) ==
  \A i, k \in DOMAIN s : s[i] = "Update" /\ s[k] = "Frame" => i < k

Event == [by : Threads, frame : Nat, capture : Nat, finished : BOOLEAN]

\* The types, the storages' included.
Typed ==
  /\ storage \in [Entries -> Seq(Event)]
  /\ threads \in Seq(Entries)
  /\ captures \in Nat
  /\ frameNumber \in Nat
  /\ \E F, S : report \in [list : Seq(Entries), frames : F, events : Seq(S)]
  /\ TypeOK
  /\ NumThreadsInRange

\* Which threads there are while main() is where it is.
ThreadsExist ==
  /\ \A w \in ToSet(Workers) \ Team : workerPc[w] = "none"
  /\ mainPc \in {"register", "create"} =>
       runnerPc = "none" /\ \A w \in ToSet(Workers) : workerPc[w] = "none"
  /\ mainPc \in {"joinrunner", "optick", "leave", "static", "over"} =>
       \A w \in Team : workerPc[w] = "ended"
  /\ mainPc \in {"optick", "leave", "static", "over"} => runnerPc = "ended"
  /\ isRunning => mainPc \in {"register", "create", "scan"} /\ told = {}

\* Nobody works on a job while main_runner does not wait, unless the job was
\* deleted; who works on a deleted one never takes another.
JobsWaitedFor ==
  /\ ~JobsExist => polled = 0 /\ \A w \in ToSet(Workers) : Busy(w) => w \in orphans
  /\ runnerPc = "running" => polled < NumWorkers
  /\ \A w \in orphans : Busy(w) \/ workerPc[w] = "undefined"
  /\ runnerPc # "update" => step = "idle"

\* The mode agrees with the state, the entered one or the one being entered.
ModeFollows ==
  /\ step # "activate" => (on <=> state = "start" /\ asked)
  /\ step = "activate" => (on <=> NextState = "start" /\ asked)
  /\ step = "dump" => ~on

\* The list as it always is.
ListOK ==
  /\ threads \in Seq(Entries) /\ IsInjective(threads) /\ FrameAfter(threads)
  /\ alive \subseteq ToSet(threads)

MainRuns == mainPc \in {"create", "scan", "shutdown", "join", "joinrunner"}
UpdateRuns == runnerPc \notin {"none", "register", "ended"}
WorkerRuns(w) == workerPc[w] \notin {"none", "register", "ended"}

\* Which entries are registered: none before its thread registers it, the one of
\* a running thread is alive, and Frame comes after Update.
EntriesFollow ==
  /\ ListOK
  /\ mainPc = "register" => "MainThread" \notin ToSet(threads)
  /\ runnerPc \in {"none", "register"} => "Update" \notin ToSet(threads)
  /\ runnerPc \in {"none", "register", "scope"} \/ (runnerPc = "loop" /\ frameNumber = 0)
       => "Frame" \notin ToSet(threads)
  /\ runnerPc \in {"event", "work", "running", "stop"} => frameNumber > 0
  /\ \A w \in ToSet(Workers) :
       workerPc[w] \in {"none", "register"} => w \notin ToSet(threads)
  /\ MainRuns => "MainThread" \in alive
  /\ UpdateRuns => "Update" \in alive
  /\ \A w \in ToSet(Workers) : WorkerRuns(w) <=> w \in alive

\* The entry that main_runner registered last.
UpdateEntry == IF "Frame" \in alive THEN "Frame" ELSE "Update"

\* Core::storage of a thread: one of its own entries, none before it registers,
\* and the right one between two calls of Activate.
Follows(t, started, runs, e) ==
  /\ tls[t] # None => tls[t] \in Entries /\ Owner[tls[t]] = t
  /\ ~started => tls[t] = None
  /\ step # "activate" /\ runs => tls[t] = IF on THEN e ELSE None

StoragesFollow ==
  /\ tls \in [Threads -> Entries \cup {None}]
  /\ Follows("main", mainPc # "register", MainRuns, "MainThread")
  /\ Follows("update", runnerPc \notin {"none", "register"}, UpdateRuns, UpdateEntry)
  /\ \A w \in ToSet(Workers) :
       Follows(w, workerPc[w] \notin {"none", "register"}, WorkerRuns(w), w)

Unfinished(t, s) == {i \in 1 .. Len(s) : s[i].by = t /\ ~s[i].finished}

\* A worker that works on a job has the event in its storage that it will stop,
\* unless its job was deleted.
EventsOpen ==
  \A w \in ToSet(Workers) :
    /\ slot[w] \in {None, w}
    /\ workerPc[w] = "finish" => slot[w] = w
    /\ workerPc[w] \in {"job", "finish"} /\ slot[w] = w /\ w \notin orphans
         => Unfinished(w, storage[w]) # {}

\* Until the user quits a single worker is done with the jobs that main_runner
\* deletes: what it puts back keeps company, and once its deque has been found
\* empty it can only finish the job that it holds.
OneWorkerWaits ==
  isRunning /\ NumWorkers <= 1 =>
    /\ orphans = {} /\ ~dangling
    /\ \A w \in Team :
         /\ Busy(w) => jobRunning[w]
         /\ workerPc[w] = "reorder" => queue[w] > 0
         /\ runnerPc = "running" \/ polled > 0 => queue[w] = 0
         /\ runnerPc = "work" /\ polled > 0 => ~Busy(w)

IInv ==
  /\ Typed /\ ThreadsExist /\ JobsWaitedFor /\ ModeFollows /\ EntriesFollow
  /\ StoragesFollow /\ EventsOpen /\ OneWorkerWaits

-----------------------------------------------------------------------------
(* The list of the threads.                                                *)

\* An entry is added at the end.
LEMMA Appended ==
  ASSUME NEW s \in Seq(Entries), IsInjective(s), FrameAfter(s),
         NEW e \in Entries, e \notin ToSet(s), e = "Update" => "Frame" \notin ToSet(s)
  PROVE  /\ Append(s, e) \in Seq(Entries)
         /\ ToSet(Append(s, e)) = ToSet(s) \cup {e}
         /\ IsInjective(Append(s, e)) /\ FrameAfter(Append(s, e))
<1> DEFINE r == Append(s, e)
           n == Len(s)
<1>1. r \in Seq(Entries) /\ DOMAIN r = 1 .. n + 1 /\ n \in Nat /\ DOMAIN s = 1 .. n
  BY AppendProperties, LenProperties
<1>2. \A k \in 1 .. n : r[k] = s[k]
  BY AppendProperties
<1>3. r[n + 1] = e
  BY AppendProperties
<1> HIDE DEF r, n
<1>4. \A k \in 1 .. n : s[k] # e
  BY <1>1 DEF ToSet
<1>5. ToSet(r) = ToSet(s) \cup {e}
  BY <1>1, <1>2, <1>3 DEF ToSet
<1>6. IsInjective(r)
  <2> SUFFICES ASSUME NEW i \in 1 .. n + 1, NEW k \in 1 .. n + 1, r[i] = r[k]
               PROVE  i = k
    BY <1>1 DEF IsInjective
  <2>1. CASE i \in 1 .. n /\ k \in 1 .. n
    BY <1>1, <1>2, <2>1 DEF IsInjective
  <2>2. CASE i = n + 1 \/ k = n + 1
    BY <1>1, <1>2, <1>3, <1>4, <2>2
  <2> QED BY <1>1, <2>1, <2>2
<1>7. FrameAfter(r)
  <2> SUFFICES ASSUME NEW i \in 1 .. n + 1, NEW k \in 1 .. n + 1,
                      r[i] = "Update", r[k] = "Frame"
               PROVE  i < k
    BY <1>1 DEF FrameAfter
  <2>1. CASE i \in 1 .. n /\ k \in 1 .. n
    BY <1>1, <1>2, <2>1 DEF FrameAfter
  <2>2. CASE i \in 1 .. n /\ k = n + 1
    BY <1>1, <2>2
  <2>3. CASE i = n + 1 /\ k \in 1 .. n
    BY <1>1, <1>2, <1>3, <2>3 DEF ToSet
  <2>4. CASE i = n + 1 /\ k = n + 1
    BY <2>4
  <2> QED BY <1>1, <2>1, <2>2, <2>3, <2>4
<1> QED BY <1>1, <1>5, <1>6, <1>7 DEF r

\* An entry is removed.
LEMMA Removed ==
  ASSUME NEW s \in Seq(Entries), IsInjective(s), FrameAfter(s), NEW i \in DOMAIN s
  PROVE  /\ RemoveAt(s, i) \in Seq(Entries)
         /\ ToSet(RemoveAt(s, i)) = ToSet(s) \ {s[i]}
         /\ IsInjective(RemoveAt(s, i)) /\ FrameAfter(RemoveAt(s, i))
<1> DEFINE r == RemoveAt(s, i)
           n == Len(s)
           from(k) == IF k < i THEN k ELSE k + 1
<1>1. r \in Seq(Entries) /\ DOMAIN r = 1 .. n - 1 /\ n \in Nat /\ DOMAIN s = 1 .. n
  BY RemoveAtIs, LenProperties
<1>2. \A k \in 1 .. n - 1 : r[k] = s[from(k)]
  BY RemoveAtIs
<1> HIDE DEF r, n
<1>3. \A k \in 1 .. n - 1 : from(k) \in 1 .. n /\ from(k) # i
  BY <1>1
<1>4. \A k, l \in 1 .. n - 1 : (from(k) = from(l) => k = l) /\ (from(k) < from(l) => k < l)
  BY <1>1
<1>5. ASSUME NEW k \in 1 .. n, k # i
      PROVE  \E l \in 1 .. n - 1 : from(l) = k
  <2>1. CASE k < i
    BY <1>1, <2>1
  <2>2. CASE k > i
    <3>1. k - 1 \in 1 .. n - 1 /\ from(k - 1) = k
      BY <1>1, <2>2
    <3> QED BY <3>1
  <2> QED BY <1>1, <1>5, <2>1, <2>2
<1> HIDE DEF from
<1>6. ToSet(r) = ToSet(s) \ {s[i]}
  <2>1. ASSUME NEW k \in 1 .. n - 1
        PROVE  r[k] \in ToSet(s) \ {s[i]}
    BY <1>1, <1>2, <1>3 DEF ToSet, IsInjective
  <2>2. ASSUME NEW k \in 1 .. n, s[k] # s[i]
        PROVE  s[k] \in ToSet(r)
    BY <1>1, <1>2, <1>5, <2>2 DEF ToSet
  <2> QED BY <1>1, <2>1, <2>2 DEF ToSet
<1>7. IsInjective(r)
  BY <1>1, <1>2, <1>3, <1>4 DEF IsInjective
<1>8. FrameAfter(r)
  BY <1>1, <1>2, <1>3, <1>4 DEF FrameAfter
<1> QED BY <1>1, <1>6, <1>7, <1>8 DEF r


LEMMA Owners ==
  /\ {"main", "update"} \subseteq Threads /\ "main" # "update"
  /\ {"MainThread", "Update", "Frame"} \subseteq Entries
  /\ ToSet(Workers) \subseteq Threads \cap Entries
  /\ Threads = {"main", "update"} \cup ToSet(Workers)
  /\ \A e \in Entries : Owner[e] \in Threads
  /\ \A e \in Entries : Owner[e] = "main" <=> e = "MainThread"
  /\ \A e \in Entries : Owner[e] = "update" <=> e \in {"Update", "Frame"}
  /\ \A w \in ToSet(Workers) : w \notin {"main", "update", "MainThread", "Update", "Frame"}
  /\ \A w \in ToSet(Workers) : \A e \in Entries : Owner[e] = w <=> e = w
<1>1. DOMAIN Workers = 1 .. Len(Workers) /\ Len(Workers) \in Nat
  BY WorkersAssumption, LenProperties
<1>2. \A i \in DOMAIN Workers : Workers[i] \in Threads \ {"main", "update"}
  BY <1>1, WorkersAssumption, ElementOfSeq
<1>3. \A w \in ToSet(Workers) : w \in Threads \ {"main", "update"}
  BY <1>2 DEF ToSet
<1>4. /\ Owner["MainThread"] = "main" /\ Owner["Update"] = "update" /\ Owner["Frame"] = "update"
      /\ \A w \in ToSet(Workers) : Owner[w] = w
  BY OwnersAssumption
<1>5. \A w \in ToSet(Workers) : w \notin {"MainThread", "Update", "Frame"}
  BY <1>3, <1>4
<1>6. /\ Threads = {"main", "update"} \cup ToSet(Workers)
      /\ Entries = {"MainThread", "Update", "Frame"} \cup ToSet(Workers)
  BY WorkersAssumption
<1>7. \A e \in Entries : e \in {"MainThread", "Update", "Frame"} \/ e \in ToSet(Workers)
  BY <1>6
<1>8. \A e \in Entries : Owner[e] \in Threads
  BY OwnerAssumption
<1>9. \A e \in Entries : Owner[e] = "main" <=> e = "MainThread"
  BY <1>3, <1>4, <1>7
<1>10. \A e \in Entries : Owner[e] = "update" <=> e \in {"Update", "Frame"}
  BY <1>3, <1>4, <1>7
<1>11. \A w \in ToSet(Workers) : \A e \in Entries : Owner[e] = w <=> e = w
  BY <1>3, <1>4, <1>7
<1>12. \A w \in ToSet(Workers) : w \notin {"main", "update", "MainThread", "Update", "Frame"}
  BY <1>3, <1>5
<1>13. ToSet(Workers) \subseteq Threads \cap Entries
  BY <1>6
<1> QED BY <1>6, <1>8, <1>9, <1>10, <1>11, <1>12, <1>13

LEMMA TeamAreWorkers == NumThreadsInRange => Team \subseteq ToSet(Workers)
<1> SUFFICES ASSUME NumThreadsInRange, NEW i \in 1 .. (IF IsParallel(args) THEN numThreads ELSE 0)
             PROVE  Workers[i] \in ToSet(Workers)
  BY DEF Team, NumWorkers
<1>1. DOMAIN Workers = 1 .. Len(Workers) /\ Len(Workers) \in Nat /\ Len(Workers) >= MaxThreads
  BY WorkersAssumption, LenProperties
<1>2. MaxThreads \in Nat
  BY HardwareAssumption, UnsignedAssumption DEF MaxThreads
<1>3. i \in 1 .. Len(Workers)
  BY <1>1, <1>2 DEF NumThreadsInRange
<1> QED BY <1>1, <1>3 DEF ToSet

-----------------------------------------------------------------------------
(* What the operations of Core do to the list and to the storages.         *)

LEMMA Registering ==
  ASSUME ListOK, NEW e \in Entries, e \notin ToSet(threads),
         e = "Update" => "Frame" \notin ToSet(threads), RegisterThread(e)
  PROVE  ListOK' /\ ToSet(threads') = ToSet(threads) \cup {e} /\ alive' = alive \cup {e}
<1>1. threads' = Append(threads, e) /\ alive' = alive \cup {e}
  BY DEF RegisterThread
<1>2. /\ threads' \in Seq(Entries) /\ ToSet(threads') = ToSet(threads) \cup {e}
      /\ IsInjective(threads') /\ FrameAfter(threads')
  BY <1>1, Appended DEF ListOK
<1> QED BY <1>1, <1>2 DEF ListOK

\* The places of a set of entries are numbers, and the first of them is one.
LEMMA FirstPlace ==
  ASSUME NEW s \in Seq(Entries), NEW P \in SUBSET DOMAIN s, P # {}
  PROVE  Min(P) \in P
<1>1. DOMAIN s \subseteq Nat
  BY LenProperties
<1> QED BY <1>1, FirstIs

LEMMA LastPlace ==
  ASSUME NEW s \in Seq(Entries), NEW P \in SUBSET DOMAIN s, P # {}
  PROVE  Max(P) \in P /\ \A k \in P : Max(P) >= k
<1>1. Len(s) \in Nat /\ DOMAIN s = 1 .. Len(s)
  BY LenProperties
<1> QED BY <1>1, LastIs

\* Core::UnRegisterThread takes one living entry of the thread, if it has one, and
\* leaves the list and the events of all the others alone.
LEMMA UnRegistering ==
  ASSUME ListOK, storage \in [Entries -> Seq(Event)], NEW t, UnRegisterThread(t)
  PROVE  /\ ListOK'
         /\ ToSet(threads') \subseteq ToSet(threads)
         /\ tls' = tls
         /\ storage' \in [Entries -> Seq(Event)]
         /\ \A e \in Entries : Owner[e] # t => storage'[e] = storage[e]
         /\ \/ alive' = alive /\ \A e \in alive : Owner[e] # t
            \/ \E e \in alive : Owner[e] = t /\ alive' = alive \ {e}
<1>1. \A i \in DOMAIN threads : threads[i] \in Entries
  BY ElementOfSeq, LenProperties DEF ListOK
<1>2. CASE Registered(t) = {}
  <2>1. UNCHANGED <<threads, alive, storage, tls>>
    BY <1>2 DEF UnRegisterThread
  <2>2. \A e \in alive : Owner[e] # t
    BY <1>2 DEF Registered, ListOK, ToSet
  <2> QED BY <2>1, <2>2 DEF ListOK
<1>3. CASE Registered(t) # {}
  <2> DEFINE m == Min(Registered(t))
  <2>1. m \in Registered(t)
    BY <1>3, FirstPlace DEF Registered, ListOK
  <2> HIDE DEF m
  <2>2. PICK e \in alive : e = threads[m] /\ Owner[e] = t /\ e \in Entries
    BY <1>1, <2>1 DEF Registered
  <2>3. alive' = alive \ {e} /\ tls' = tls
    BY <1>3, <2>2 DEF UnRegisterThread, Delete, Retire, m
  <2>4. CASE ~on
    <3>1. threads' = RemoveAt(threads, m) /\ storage' = [storage EXCEPT ![e] = <<>>]
      BY <1>3, <2>2, <2>4 DEF UnRegisterThread, Delete, m
    <3>2. m \in DOMAIN threads
      BY <2>1 DEF Registered
    <3>3. /\ threads' \in Seq(Entries) /\ ToSet(threads') = ToSet(threads) \ {e}
          /\ IsInjective(threads') /\ FrameAfter(threads')
      BY <2>2, <3>1, <3>2, Removed DEF ListOK
    <3>4. /\ storage' \in [Entries -> Seq(Event)]
          /\ \A x \in Entries : Owner[x] # t => storage'[x] = storage[x]
      BY <2>2, <3>1, EmptySeq
    <3>5. ListOK'
      BY <2>3, <3>3 DEF ListOK
    <3> QED BY <2>2, <2>3, <3>3, <3>4, <3>5
  <2>5. CASE on
    <3>1. threads' = threads /\ storage' = storage
      BY <1>3, <2>5 DEF UnRegisterThread, Retire
    <3> QED BY <2>2, <2>3, <3>1 DEF ListOK
  <2> QED BY <2>4, <2>5
<1> QED BY <1>2, <1>3


\* CleanupThreadsAndFibers takes entries of threads that ended only.
LEMMA CleaningUp ==
  ASSUME ListOK, CleanupThread
  PROVE  ListOK' /\ ToSet(threads') \subseteq ToSet(threads) /\ alive' = alive
<1> DEFINE dead == {i \in DOMAIN threads : threads[i] \notin alive}
           m == Min(dead)
<1>1. dead # {} /\ threads' = RemoveAt(threads, m) /\ alive' = alive
  BY DEF CleanupThread
<1>2. m \in dead
  BY <1>1, FirstPlace DEF ListOK
<1> HIDE DEF m
<1>3. m \in DOMAIN threads /\ threads[m] \notin alive
  BY <1>2
<1>4. /\ threads' \in Seq(Entries) /\ ToSet(threads') = ToSet(threads) \ {threads[m]}
      /\ IsInjective(threads') /\ FrameAfter(threads')
  BY <1>1, <1>3, Removed DEF ListOK
<1> QED BY <1>1, <1>3, <1>4 DEF ListOK

\* The entry that a thread registered last.
Own(t) ==
  CASE t = "main" -> "MainThread"
    [] t = "update" -> UpdateEntry
    [] OTHER -> t

\* The living entry that a thread registered last is the one activated last.
LEMMA LastEntryIs ==
  ASSUME ListOK, NEW t \in Threads, Own(t) \in alive
  PROVE  Registered(t) # {} /\ LastEntry(t) = Own(t)
<1>0. alive \subseteq Entries /\ \A i \in DOMAIN threads : threads[i] \in Entries
  BY ElementOfSeq, LenProperties DEF ListOK, ToSet
<1>1. Owner[Own(t)] = t
  BY Owners DEF Own, UpdateEntry
<1>2. PICK i \in DOMAIN threads : threads[i] = Own(t)
  BY DEF ListOK, ToSet
<1>3. i \in Registered(t)
  BY <1>1, <1>2 DEF Registered
<1> DEFINE m == Max(Registered(t))
<1>4. m \in Registered(t) /\ \A k \in Registered(t) : m >= k
  BY <1>3, LastPlace DEF Registered, ListOK
<1> HIDE DEF m
<1>5. m \in DOMAIN threads /\ Owner[threads[m]] = t /\ threads[m] \in alive /\ m >= i
  BY <1>3, <1>4 DEF Registered
<1>6. threads[m] = Own(t)
  <2>1. CASE t = "update"
    <3>1. threads[m] \in {"Update", "Frame"}
      BY <1>0, <1>5, <2>1, Owners
    <3>2. CASE threads[m] = "Update" /\ Own(t) = "Frame"
      <4>1. m < i
        BY <1>2, <1>5, <3>2 DEF ListOK, FrameAfter
      <4> QED BY <1>5, <4>1, LenProperties DEF ListOK
    <3>3. CASE threads[m] = "Frame" /\ Own(t) = "Update"
      BY <1>5, <2>1, <3>3 DEF Own, UpdateEntry
    <3> QED BY <2>1, <3>1, <3>2, <3>3 DEF Own, UpdateEntry
  <2>2. CASE t = "main"
    BY <1>0, <1>5, <2>2, Owners DEF Own, UpdateEntry
  <2>3. CASE t \in ToSet(Workers)
    BY <1>0, <1>5, <2>3, Owners DEF Own, UpdateEntry
  <2> QED BY <2>1, <2>2, <2>3, Owners
<1> QED BY <1>3, <1>6 DEF LastEntry, m

\* The living entries of a thread are among those it owns.
LEMMA LastEntryOwned ==
  ASSUME ListOK, NEW t, Registered(t) # {}
  PROVE  LastEntry(t) \in alive /\ Owner[LastEntry(t)] = t
<1> DEFINE m == Max(Registered(t))
<1>1. m \in Registered(t)
  BY LastPlace DEF Registered, ListOK
<1> QED BY <1>1 DEF LastEntry, Registered

-----------------------------------------------------------------------------
(* Events of a thread.                                                     *)

\* The event of a thread that is open in a storage is one, if there is one.
LEMMA OpenIs ==
  ASSUME NEW t, NEW e, storage[e] \in Seq(Event)
  PROVE  /\ Unfinished(t, storage[e]) # {} => Open(t, e) \in Unfinished(t, storage[e])
         /\ Unfinished(t, storage[e]) = {} => Open(t, e) = 0
<1> DEFINE s == storage[e]
           P == {i \in 1 .. Len(s) : s[i].by = t /\ ~s[i].finished}
<1>1. Open(t, e) = IF P # {} THEN Max(P) ELSE 0
  BY DEF Open, SelectLastInSeq
<1>2. P # {} => Max(P) \in P
  <2>1. Len(s) \in Nat /\ P \in SUBSET (1 .. Len(s))
    BY LenProperties
  <2> HIDE DEF s, P
  <2> QED BY <2>1, LastIs
<1> QED BY <1>1, <1>2 DEF Unfinished

LEMMA Adding ==
  ASSUME storage \in [Entries -> Seq(Event)], captures \in Nat, frameNumber \in Nat,
         NEW t \in Threads, NEW e \in Entries, AddEvent(t, e)
  PROVE  /\ storage' \in [Entries -> Seq(Event)]
         /\ \A x \in Entries : x # e => storage'[x] = storage[x]
         /\ Unfinished(t, storage'[e]) # {}
<1> DEFINE s == storage[e]
           r == Append(s, NewEvent(t))
<1>1. NewEvent(t) \in Event /\ NewEvent(t).by = t /\ NewEvent(t).finished = FALSE
  BY DEF NewEvent, Event
<1>2. s \in Seq(Event)
  OBVIOUS
<1>3. r \in Seq(Event) /\ Len(r) = Len(s) + 1 /\ r[Len(s) + 1] = NewEvent(t) /\ Len(s) \in Nat
  BY <1>1, <1>2, AppendProperties, LenProperties
<1>4. storage' = [storage EXCEPT ![e] = r]
  BY DEF AddEvent
<1> HIDE DEF r, s
<1>5. Len(s) + 1 \in Unfinished(t, r)
  BY <1>1, <1>3 DEF Unfinished
<1> QED BY <1>3, <1>4, <1>5

LEMMA Finishing ==
  ASSUME storage \in [Entries -> Seq(Event)], NEW t, NEW e \in Entries, FinishEvent(t, e)
  PROVE  /\ storage' \in [Entries -> Seq(Event)]
         /\ \A x \in Entries : x # e => storage'[x] = storage[x]
<1> DEFINE s == storage[e]
           i == Open(t, e)
           r == [s EXCEPT ![i].finished = TRUE]
<1>1. s \in Seq(Event)
  OBVIOUS
<1>2. storage' = storage \/ storage' = [storage EXCEPT ![e] = r]
  BY DEF FinishEvent
<1>3. r \in Seq(Event)
  <2>1. s \in [1 .. Len(s) -> Event] /\ Len(s) \in Nat
    BY <1>1, LenProperties
  <2> HIDE DEF s, i
  <2>2. CASE i \in 1 .. Len(s)
    <3>1. s[i] \in Event
      BY <2>1, <2>2
    <3>2. [s[i] EXCEPT !.finished = TRUE] \in Event
      BY <3>1 DEF Event
    <3>3. r = [s EXCEPT ![i] = [s[i] EXCEPT !.finished = TRUE]]
      OBVIOUS
    <3>4. r \in [1 .. Len(s) -> Event]
      BY <2>1, <3>2, <3>3
    <3> HIDE DEF r
    <3> QED BY <2>1, <3>4, SeqDef
  <2>3. CASE i \notin 1 .. Len(s)
    <3>1. r = s
      BY <2>1, <2>3
    <3> QED BY <1>1, <3>1 DEF s
  <2> QED BY <2>2, <2>3
<1> HIDE DEF r
<1> QED BY <1>2, <1>3


-----------------------------------------------------------------------------
(* What each thread's steps do to the control state.                       *)

LEMMA TeamStays ==
  ASSUME IInv, [Next]_vars
  PROVE  /\ Team' = Team /\ NumWorkers' = NumWorkers
         /\ Team \subseteq ToSet(Workers) /\ NumThreadsInRange'
<1>1. UNCHANGED <<args, numThreads>>
  BY SettingsStay
<1>2. NumThreadsInRange
  BY DEF IInv, Typed
<1>3. NumWorkers' = NumWorkers
  BY <1>1 DEF NumWorkers
<1> QED BY <1>1, <1>2, <1>3, TeamAreWorkers DEF Team, NumThreadsInRange, MaxThreads

\* The threads that are there are those that main() has created and not yet
\* joined (main.cpp:257-298).
LEMMA ThreadsExistStays ==
  ASSUME IInv, [Next]_vars
  PROVE  ThreadsExist'
<1>1. /\ ThreadsExist /\ workerPc \in [ToSet(Workers) -> WorkerPcs] /\ mainPc \in MainPcs
      /\ isRunning \in BOOLEAN
  BY DEF IInv, Typed, TypeOK
<1>2. Team' = Team /\ Team \subseteq ToSet(Workers)
  BY TeamStays
<1>3. CASE MainRegister
  BY <1>1, <1>2, <1>3 DEF ThreadsExist, MainRegister, MainGoes
<1>4. CASE CreateThreads
  BY <1>1, <1>2, <1>4 DEF ThreadsExist, CreateThreads, MainGoes
<1>5. CASE Quit \/ ShutDown
  BY <1>1, <1>2, <1>5 DEF ThreadsExist, Quit, ShutDown, MainGoes
<1>6. CASE Join \/ JoinRunner \/ ShutdownOptick
  BY <1>1, <1>2, <1>6 DEF ThreadsExist, Join, JoinRunner, ShutdownOptick, MainGoes
<1>7. CASE LeaveScope("leave", "static") \/ LeaveScope("static", "over")
  BY <1>1, <1>2, <1>7 DEF ThreadsExist, LeaveScope, MainGoes
<1>8. CASE RunnerNext
  <2>1. UNCHANGED <<mainPc, workerPc, isRunning, told>>
    BY <1>8 DEF RunnerNext, RunnerRegister, Loop, EndFrame, UpdateStep, UpdateReturns,
         BeginFrame, StartFrame, PollSize, PollRunning, FinishFrame, StopFrame,
         RunnerUnregister, RunnerFrame
  <2>2. runnerPc \notin {"none", "ended"}
    BY <1>8 DEF RunnerNext, RunnerRegister, Loop, EndFrame, UpdateStep, UpdateReturns,
         BeginFrame, StartFrame, PollSize, PollRunning, FinishFrame, StopFrame,
         RunnerUnregister, RunnerGoes
  <2> QED BY <1>1, <1>2, <2>1, <2>2 DEF ThreadsExist
<1>9. ASSUME NEW w \in Team, WorkerNext(w)
      PROVE  ThreadsExist'
  <2>1. /\ workerPc[w] \notin {"none", "ended"}
        /\ \E to \in WorkerPcs : workerPc' = [workerPc EXCEPT ![w] = to]
        /\ UNCHANGED <<mainPc, runnerPc, isRunning, told>>
    BY <1>9 DEF WorkerNext, WorkerRegister, TakeJob, Reorder, PutBack, TouchDeleted, Record,
         StopJob, Return, Finish, WorkerUnregister, WorkerGoes, WorkerPcs
  <2> QED BY <1>1, <1>2, <1>9, <2>1 DEF ThreadsExist
<1>10. CASE UNCHANGED vars
  BY <1>1, <1>2, <1>10 DEF ThreadsExist, vars
<1> QED BY <1>3, <1>4, <1>5, <1>6, <1>7, <1>8, <1>9, <1>10 DEF Next, MainNext

\* When main_runner goes on with the next frame, a worker that is still busy works
\* on a deleted job, and it takes none that exists (main.cpp:212-219).
LEMMA JobsWaitedForStays ==
  ASSUME IInv, [Next]_vars
  PROVE  JobsWaitedFor'
<1>1. /\ ThreadsExist /\ JobsWaitedFor /\ workerPc \in [ToSet(Workers) -> WorkerPcs]
      /\ runnerPc \in RunnerPcs /\ polled \in 0 .. NumWorkers /\ orphans \subseteq Team
  BY DEF IInv, Typed, TypeOK
<1>2. /\ Team' = Team /\ NumWorkers' = NumWorkers /\ Team \subseteq ToSet(Workers)
      /\ NumWorkers \in Nat
  <2>1. NumThreadsInRange
    BY DEF IInv, Typed
  <2> QED BY <2>1, TeamStays DEF NumWorkers, NumThreadsInRange
<1> USE DEF JobsWaitedFor, JobsExist, Busy
<1>3. CASE MainRegister \/ Quit \/ ShutDown \/ Join \/ JoinRunner
  BY <1>1, <1>2, <1>3 DEF MainRegister, Quit, ShutDown, Join, JoinRunner, MainFrame, stateVars,
       coreVars
<1>4. CASE ShutdownOptick \/ LeaveScope("leave", "static") \/ LeaveScope("static", "over")
  BY <1>1, <1>2, <1>4 DEF ShutdownOptick, LeaveScope, MainFrame, stateVars
<1>5. CASE CreateThreads
  BY <1>1, <1>2, <1>5 DEF ThreadsExist, CreateThreads, MainGoes, MainFrame, coreVars
<1>6. CASE RunnerRegister("register", "loop", "Update") \/ RunnerRegister("scope", "end", "Frame")
  BY <1>1, <1>2, <1>6 DEF RunnerRegister, RunnerGoes, RunnerFrame, jobVars, stateVars
<1>7. CASE Loop \/ RunnerUnregister \/ StopFrame
  BY <1>1, <1>2, <1>7 DEF Loop, RunnerUnregister, StopFrame, RunnerGoes, RunnerFrame, jobVars,
       stateVars, coreVars
<1>8. CASE EndFrame \/ UpdateStep \/ UpdateReturns
  BY <1>1, <1>2, <1>8 DEF EndFrame, UpdateStep, UpdateReturns, UpdateDone, RunnerGoes,
       RunnerFrame, jobVars
<1>9. CASE BeginFrame \/ StartFrame \/ PollSize \/ PollRunning
  BY <1>1, <1>2, <1>9 DEF BeginFrame, StartFrame, PollSize, PollRunning, RunnerGoes, RunnerFrame,
       jobVars, stateVars, coreVars
<1>10. CASE FinishFrame
  <2>1. \A w \in ToSet(Workers) : Busy(w) => w \in Team
    BY <1>1 DEF ThreadsExist
  <2> QED BY <1>1, <1>2, <1>10, <2>1 DEF FinishFrame, RunnerGoes, RunnerFrame, coreVars
<1>11. ASSUME NEW w \in Team, WorkerNext(w)
       PROVE  JobsWaitedFor'
  <2>0. w \in ToSet(Workers) /\ UNCHANGED <<runnerPc, polled, orphans, step>>
    BY <1>2, <1>11 DEF WorkerNext, WorkerRegister, TakeJob, Reorder, PutBack, TouchDeleted,
         Record, StopJob, Return, Finish, WorkerUnregister, WorkerGoes, stateVars, coreVars
  <2>1. CASE WorkerRegister(w) \/ WorkerUnregister(w) \/ TouchDeleted(w)
    BY <1>1, <1>2, <2>0, <2>1 DEF WorkerRegister, WorkerUnregister, TouchDeleted, WorkerGoes
  <2>2. CASE Reorder(w) \/ \E v \in Team : TakeJob(w, v)
    BY <1>1, <1>2, <2>0, <2>2 DEF Reorder, TakeJob, WorkerGoes
  <2>3. CASE Record(w) \/ PutBack(w) \/ StopJob(w) \/ Finish(w)
    <3>1. Busy(w) /\ \E to \in WorkerPcs :
            /\ workerPc' = [workerPc EXCEPT ![w] = to]
            /\ w \in orphans => to \in {"job", "finish", "undefined"}
      BY <2>3 DEF Record, PutBack, StopJob, Return, Finish, WorkerGoes, WorkerPcs
    <3> QED BY <1>1, <1>2, <2>0, <3>1
  <2> QED BY <1>11, <2>1, <2>2, <2>3 DEF WorkerNext
<1>12. CASE UNCHANGED vars
  BY <1>1, <1>2, <1>12 DEF vars
<1> QED BY <1>3, <1>4, <1>5, <1>6, <1>7, <1>8, <1>9, <1>10, <1>11, <1>12
     DEF Next, MainNext, RunnerNext


-----------------------------------------------------------------------------
(* The capture state machine.                                              *)

ReportOK ==
  /\ \E F, S : report \in [list : Seq(Entries), frames : F, events : Seq(S)]
  /\ Len(report.events) <= Len(report.list)

\* What Core::Update changes.
StateOK ==
  /\ on \in BOOLEAN /\ state \in States /\ pending \in States
  /\ settings \in Starts \cup {NoSettings} /\ asked \in BOOLEAN
  /\ cancelled \in BOOLEAN /\ captures \in Nat
  /\ step \in {"idle", "limit", "events", "state", "activate", "dump"}
  /\ locked <=> step = "dump"
  /\ ModeFollows
  /\ ReportOK

LEMMA EmptyReport ==
  /\ \E F, S : NoReport \in [list : Seq(Entries), frames : F, events : Seq(S)]
  /\ Len(NoReport.events) <= Len(NoReport.list)
<1>1. NoReport \in [list : Seq(Entries), frames : {<<>>}, events : Seq({})]
  BY EmptySeq DEF NoReport
<1>2. Len(NoReport.events) <= Len(NoReport.list)
  BY EmptySeq DEF NoReport
<1> QED BY <1>1, <1>2

LEMMA UpdateKeepsState ==
  ASSUME StateOK, threads \in Seq(Entries), Update
  PROVE  StateOK'
<1> USE DEF StateOK, ModeFollows, States, NextState
<1>0. report' = report => ReportOK'
  BY DEF ReportOK
<1>1. CASE CheckLimit
  BY <1>0, <1>1 DEF CheckLimit, dumpVars
<1>2. CASE ApplyMessage
  BY <1>0, <1>2 DEF ApplyMessage, dumpVars
<1>3. CASE EventsDone
  BY <1>0, <1>3 DEF EventsDone, dumpVars
<1>4. CASE SetMode
  <2> DEFINE next == NextState
  <2>0. settings.mode \in BOOLEAN
    <3>1. CASE settings = NoSettings
      BY <3>1 DEF NoSettings
    <3>2. CASE settings \in Starts
      BY <3>2, StartsAssumption
    <3> QED BY <3>1, <3>2
  <2>1. /\ step = "state" /\ next \in States
        /\ on' \in BOOLEAN /\ asked' \in BOOLEAN
        /\ on' <=> next = "start" /\ settings.mode
        /\ asked' = IF next = "start" THEN settings.mode ELSE asked
        /\ UNCHANGED <<pending, settings, locked, report>>
    BY <1>4, <2>0 DEF SetMode, dumpVars
  <2>2. on' <=> next = "start" /\ asked'
    BY <2>0, <2>1
  <2>3. CASE on' = on
    <3>1. state' = next /\ UNCHANGED <<step, captures, cancelled>>
      BY <1>4, <2>3 DEF SetMode
    <3> QED BY <1>0, <2>1, <2>2, <3>1
  <2>4. CASE on' # on
    <3>1. /\ step' = "activate" /\ UNCHANGED state
          /\ captures' = IF on' THEN captures + 1 ELSE captures
          /\ cancelled' = (cancelled \/ next = "cancel")
      BY <1>4, <2>4 DEF SetMode
    <3>2. cancelled' \in BOOLEAN /\ captures' \in Nat
      BY <3>1
    <3> QED BY <1>0, <2>1, <2>2, <3>1, <3>2
  <2> QED BY <2>3, <2>4
<1>5. CASE ActivateThreads
  BY <1>0, <1>5 DEF ActivateThreads, dumpVars
<1>6. CASE BeginDump
  <2>1. /\ step' = "dump" /\ locked' = TRUE /\ ~on /\ step = "state"
        /\ UNCHANGED <<on, state, pending, settings, captures, asked, cancelled>>
    BY <1>6 DEF BeginDump
  <2>2. report' = [list |-> threads, frames |-> frames, events |-> <<>>]
    BY <1>6 DEF BeginDump
  <2>3. report' \in [list : Seq(Entries), frames : {frames}, events : Seq({})]
    BY <2>2, EmptySeq
  <2>4. Len(report'.events) <= Len(report'.list)
    BY <2>2, EmptySeq, LenProperties
  <2>5. \E F, S : report' \in [list : Seq(Entries), frames : F, events : Seq(S)]
    BY <2>3
  <2>6. ReportOK'
    BY <2>4, <2>5 DEF ReportOK
  <2> QED BY <2>1, <2>6
<1>7. CASE DumpThread
  <2>1. UNCHANGED <<on, state, pending, settings, captures, asked, cancelled, step, locked>>
    BY <1>7 DEF DumpThread, stateVars
  <2>2. PICK sent : report' = [report EXCEPT !.events = Append(@, sent)]
    BY <1>7, Zenon DEF DumpThread
  <2>3. Len(report.events) + 1 \in DOMAIN report.list
    BY <1>7 DEF DumpThread
  <2>4. PICK F, S : report \in [list : Seq(Entries), frames : F, events : Seq(S)]
    BY DEF ReportOK
  <2>5. report.events \in Seq(S \cup {sent})
    BY <2>4, SeqMonotonic
  <2>6. /\ Append(report.events, sent) \in Seq(S \cup {sent})
        /\ Len(Append(report.events, sent)) = Len(report.events) + 1
    BY <2>5, AppendProperties
  <2>7. report' \in [list : Seq(Entries), frames : F, events : Seq(S \cup {sent})]
    BY <2>2, <2>4, <2>6
  <2>8. report'.list = report.list /\ report'.events = Append(report.events, sent)
    BY <2>2, <2>4
  <2>9. Len(report'.events) <= Len(report'.list)
    BY <2>3, <2>4, <2>6, <2>8, LenProperties
  <2>10. \E G, T : report' \in [list : Seq(Entries), frames : G, events : Seq(T)]
    BY <2>7
  <2>11. ReportOK'
    BY <2>9, <2>10 DEF ReportOK
  <2> QED BY <2>1, <2>11
<1>8. CASE CleanupThread
  BY <1>0, <1>8 DEF CleanupThread, stateVars, dumpVars
<1>9. CASE EndDump
  <2>1. ReportOK'
    BY <1>9, EmptyReport DEF EndDump, ReportOK
  <2> QED BY <1>9, <2>1 DEF EndDump, Dumped
<1> QED BY <1>1, <1>2, <1>3, <1>4, <1>5, <1>6, <1>7, <1>8, <1>9 DEF Update

\* Between two calls of Activate the mode is that of the state, whatever messages
\* Update found, and no capture runs during a dump (optick_core.cpp:1218-1262,
\* 1342-1357).
LEMMA StateStays ==
  ASSUME IInv, [Next]_vars
  PROVE  StateOK'
<1>1. StateOK /\ threads \in Seq(Entries)
  BY DEF IInv, Typed, TypeOK, CoreTypeOK, StateOK, ReportOK
<1>2. CASE UNCHANGED <<stateVars, dumpVars>>
  BY <1>1, <1>2 DEF StateOK, ReportOK, ModeFollows, NextState, stateVars, dumpVars
<1>3. CASE MainNext \/ Quit
  <2>1. UNCHANGED <<stateVars, dumpVars>>
    BY <1>3 DEF MainNext, MainRegister, CreateThreads, Quit, ShutDown, Join,
         JoinRunner, ShutdownOptick, LeaveScope, coreVars, stateVars, dumpVars
  <2> QED BY <1>2, <2>1
<1>4. CASE EndFrame
  <2>1. step = "idle"
    BY <1>4 DEF EndFrame, RunnerGoes, IInv, JobsWaitedFor
  <2> QED BY <1>1, <1>4, <2>1 DEF EndFrame, StateOK, ReportOK, ModeFollows, dumpVars
<1>5. CASE UpdateStep
  BY <1>1, <1>5, UpdateKeepsState DEF UpdateStep
<1>6. CASE UpdateReturns
  BY <1>1, <1>6 DEF UpdateReturns, UpdateDone, StateOK, ReportOK, ModeFollows, dumpVars
<1>7. ASSUME RunnerNext, ~EndFrame, ~UpdateStep, ~UpdateReturns
      PROVE  StateOK'
  <2>1. UNCHANGED <<stateVars, dumpVars>>
    BY <1>7 DEF RunnerNext, RunnerRegister, Loop, BeginFrame, StartFrame, PollSize,
         PollRunning, FinishFrame, StopFrame, RunnerUnregister, coreVars, stateVars, dumpVars
  <2> QED BY <1>2, <2>1
<1>8. ASSUME NEW w \in Team, WorkerNext(w)
      PROVE  StateOK'
  <2>1. UNCHANGED <<stateVars, dumpVars>>
    BY <1>8 DEF WorkerNext, WorkerRegister, TakeJob, Reorder, PutBack,
         TouchDeleted, Record, StopJob, Finish, WorkerUnregister, coreVars, stateVars, dumpVars
  <2> QED BY <1>2, <2>1
<1>9. CASE UNCHANGED vars
  BY <1>2, <1>9 DEF vars, stateVars, dumpVars
<1> QED BY <1>3, <1>4, <1>5, <1>6, <1>7, <1>8, <1>9 DEF Next


-----------------------------------------------------------------------------
(* The entries of the threads.                                             *)

LEMMA OthersLeave ==
  ASSUME EntriesFollow, workerPc \in [ToSet(Workers) -> WorkerPcs],
         UNCHANGED <<mainPc, runnerPc, workerPc, frameNumber>>,
         ListOK', ToSet(threads') \subseteq ToSet(threads), alive' = alive
  PROVE  EntriesFollow'
BY DEF EntriesFollow, MainRuns, UpdateRuns, WorkerRuns

LEMMA MainKeepsEntries ==
  ASSUME IInv, MainNext
  PROVE  EntriesFollow'
<1>1. /\ EntriesFollow /\ ListOK /\ ThreadsExist
      /\ workerPc \in [ToSet(Workers) -> WorkerPcs] /\ mainPc \in MainPcs
      /\ storage \in [Entries -> Seq(Event)]
  BY DEF IInv, Typed, TypeOK, EntriesFollow
<1> USE DEF MainRuns, UpdateRuns, WorkerRuns
<1>2. CASE MainRegister
  <2>1. /\ "MainThread" \notin ToSet(threads) /\ RegisterThread("MainThread")
        /\ mainPc' = "create" /\ UNCHANGED <<runnerPc, workerPc, frameNumber>>
    BY <1>1, <1>2 DEF EntriesFollow, MainRegister, MainGoes, frameVars
  <2>2. ListOK' /\ ToSet(threads') = ToSet(threads) \cup {"MainThread"}
        /\ alive' = alive \cup {"MainThread"}
    BY <1>1, <2>1, Owners, Registering
  <2> QED BY <1>1, <2>1, <2>2, Owners DEF EntriesFollow
<1>3. CASE CreateThreads
  <2>1. /\ mainPc = "create" /\ mainPc' = "scan" /\ runnerPc' = "register"
        /\ \A w \in ToSet(Workers) : workerPc'[w] \in {"none", "register"}
        /\ UNCHANGED <<threads, alive, frameNumber>>
    BY <1>3 DEF CreateThreads, MainGoes, coreVars
  <2> QED BY <1>1, <2>1 DEF EntriesFollow, ThreadsExist, ListOK
<1>4. CASE ShutDown \/ Join \/ JoinRunner
  <2>1. /\ mainPc \in {"shutdown", "join", "joinrunner"}
        /\ mainPc' \in {"shutdown", "join", "undefined", "joinrunner", "optick"}
        /\ UNCHANGED <<threads, alive, frameNumber, runnerPc, workerPc>>
    BY <1>4 DEF ShutDown, Join, JoinRunner, MainGoes, coreVars
  <2> QED BY <1>1, <2>1 DEF EntriesFollow, ListOK
<1>5. CASE ShutdownOptick
  <2>1. /\ mainPc = "optick" /\ mainPc' = "leave" /\ threads' = <<>> /\ alive' = {}
        /\ UNCHANGED <<frameNumber, runnerPc, workerPc>>
    BY <1>5 DEF ShutdownOptick, MainGoes, Shutdown, frameVars
  <2>2. ListOK' /\ ToSet(threads') = {}
    BY <2>1, EmptySeq DEF ListOK, IsInjective, FrameAfter, ToSet
  <2>3. runnerPc = "ended" /\ \A w \in ToSet(Workers) : workerPc[w] \in {"none", "ended"}
    BY <1>1, <2>1 DEF ThreadsExist
  <2> QED BY <1>1, <2>1, <2>2, <2>3 DEF EntriesFollow
<1>6. CASE LeaveScope("leave", "static") \/ LeaveScope("static", "over")
  <2>1. /\ mainPc' \in {"static", "over"} /\ UnRegisterThread("main")
        /\ UNCHANGED <<frameNumber, runnerPc, workerPc>>
    BY <1>6 DEF LeaveScope, MainGoes, frameVars
  <2>2. /\ ListOK' /\ ToSet(threads') \subseteq ToSet(threads)
        /\ \/ alive' = alive
           \/ \E e \in alive : Owner[e] = "main" /\ alive' = alive \ {e}
    BY <1>1, <2>1, UnRegistering
  <2> QED BY <1>1, <2>1, <2>2, Owners, OwnersAssumption DEF EntriesFollow
<1> QED BY <1>2, <1>3, <1>4, <1>5, <1>6 DEF MainNext

LEMMA RunnerKeepsEntries ==
  ASSUME IInv, RunnerNext
  PROVE  EntriesFollow'
<1>1. /\ EntriesFollow /\ ListOK /\ frameNumber \in Nat
      /\ workerPc \in [ToSet(Workers) -> WorkerPcs] /\ runnerPc \in RunnerPcs
      /\ storage \in [Entries -> Seq(Event)]
  BY DEF IInv, Typed, TypeOK, EntriesFollow
<1> USE DEF MainRuns, UpdateRuns, WorkerRuns
<1>2. CASE RunnerRegister("register", "loop", "Update")
  <2>1. /\ runnerPc = "register" /\ runnerPc' = "loop" /\ RegisterThread("Update")
        /\ UNCHANGED <<mainPc, workerPc, frameNumber>>
    BY <1>2 DEF RunnerRegister, RunnerGoes, RunnerFrame, frameVars
  <2>2. "Update" \notin ToSet(threads) /\ "Frame" \notin ToSet(threads)
    BY <1>1, <2>1 DEF EntriesFollow
  <2>3. ListOK' /\ ToSet(threads') = ToSet(threads) \cup {"Update"}
        /\ alive' = alive \cup {"Update"}
    BY <1>1, <2>1, <2>2, Owners, Registering
  <2> QED BY <1>1, <2>1, <2>2, <2>3, Owners DEF EntriesFollow
<1>3. CASE RunnerRegister("scope", "end", "Frame")
  <2>1. /\ runnerPc = "scope" /\ runnerPc' = "end" /\ RegisterThread("Frame")
        /\ UNCHANGED <<mainPc, workerPc, frameNumber>>
    BY <1>3 DEF RunnerRegister, RunnerGoes, RunnerFrame, frameVars
  <2>2. "Frame" \notin ToSet(threads)
    BY <1>1, <2>1 DEF EntriesFollow
  <2>3. ListOK' /\ ToSet(threads') = ToSet(threads) \cup {"Frame"}
        /\ alive' = alive \cup {"Frame"}
    BY <1>1, <2>1, <2>2, Owners, Registering
  <2> QED BY <1>1, <2>1, <2>2, <2>3, Owners DEF EntriesFollow
<1>4. CASE Loop
  BY <1>1, <1>4 DEF Loop, RunnerGoes, RunnerFrame, coreVars, EntriesFollow, ListOK
<1>5. CASE EndFrame \/ UpdateReturns
  BY <1>1, <1>5 DEF EndFrame, UpdateReturns, UpdateDone, EndUpdateFrame, RunnerGoes,
       RunnerFrame, threadVars, frameVars, EntriesFollow, ListOK
<1>6. CASE BeginFrame
  BY <1>1, <1>6 DEF BeginFrame, BeginUpdateFrame, RunnerGoes, RunnerFrame, threadVars,
       EntriesFollow, ListOK
<1>7. CASE StartFrame \/ StopFrame
  <2>1. UNCHANGED <<threads, alive, frameNumber, mainPc, workerPc>>
    BY <1>7 DEF StartFrame, StopFrame, AddEvent, FinishEvent, frameVars, RunnerFrame
  <2>2. \/ runnerPc = "event" /\ runnerPc' = "work"
        \/ runnerPc = "stop" /\ runnerPc' = "loop"
    BY <1>7 DEF StartFrame, StopFrame, RunnerGoes
  <2> QED BY <1>1, <2>1, <2>2 DEF EntriesFollow, ListOK
<1>8. CASE PollSize \/ PollRunning \/ FinishFrame
  BY <1>1, <1>8 DEF PollSize, PollRunning, FinishFrame, RunnerGoes, RunnerFrame, coreVars,
       EntriesFollow, ListOK
<1>9. CASE RunnerUnregister
  <2>1. /\ runnerPc' = "ended" /\ UnRegisterThread("update")
        /\ UNCHANGED <<frameNumber, mainPc, workerPc>>
    BY <1>9 DEF RunnerUnregister, RunnerGoes, RunnerFrame, frameVars
  <2>2. /\ ListOK' /\ ToSet(threads') \subseteq ToSet(threads)
        /\ \/ alive' = alive
           \/ \E e \in alive : Owner[e] = "update" /\ alive' = alive \ {e}
    BY <1>1, <2>1, UnRegistering
  <2> QED BY <1>1, <2>1, <2>2, Owners, OwnersAssumption DEF EntriesFollow
<1>10. CASE UpdateStep
  <2>1. UNCHANGED <<runnerPc, mainPc, workerPc>> /\ Update
    BY <1>10 DEF UpdateStep, RunnerFrame
  <2>2. CASE CleanupThread
    <3>1. frameNumber' = frameNumber
      BY <2>2 DEF CleanupThread, frameVars
    <3> QED BY <1>1, <2>1, <2>2, <3>1, CleaningUp, OthersLeave
  <2>3. ASSUME ~CleanupThread
        PROVE  UNCHANGED <<threads, alive, frameNumber>>
    BY <2>1, <2>3 DEF Update, CheckLimit, ApplyMessage, EventsDone, SetMode, ActivateThreads,
         BeginDump, DumpThread, EndDump, threadVars, frameVars
  <2>4. ASSUME UNCHANGED <<threads, alive, frameNumber>>
        PROVE  EntriesFollow'
    BY <1>1, <2>1, <2>4 DEF EntriesFollow, ListOK
  <2> QED BY <2>2, <2>3, <2>4
<1> QED BY <1>2, <1>3, <1>4, <1>5, <1>6, <1>7, <1>8, <1>9, <1>10 DEF RunnerNext

\* Where a worker is while it looks for a job or has one.
AtWork == {"idle", "reorder", "record", "job", "finish", "undefined"}

LEMMA WorkLeaves ==
  ASSUME NEW v, WorkerNext(v), ~WorkerRegister(v), ~WorkerUnregister(v)
  PROVE  /\ UNCHANGED <<threads, alive, tls, mainPc, runnerPc, isRunning, orphans>>
         /\ UNCHANGED <<stateVars, frameVars, dumpVars>>
         /\ workerPc[v] \in AtWork
         /\ \E to \in AtWork : workerPc' = [workerPc EXCEPT ![v] = to]
<1> USE DEF AtWork, WorkerGoes, coreVars, stateVars, frameVars, dumpVars
<1>1. CASE Reorder(v) \/ PutBack(v) \/ TouchDeleted(v) \/ \E u \in Team : TakeJob(v, u)
  BY <1>1 DEF Reorder, PutBack, TouchDeleted, TakeJob
<1>2. CASE Record(v) \/ StopJob(v) \/ Finish(v)
  BY <1>2 DEF Record, StopJob, Return, Finish, AddEvent, FinishEvent
<1> QED BY <1>1, <1>2 DEF WorkerNext

LEMMA WorkerKeepsEntries ==
  ASSUME IInv, NEW v \in Team, WorkerNext(v)
  PROVE  EntriesFollow'
<1>1. /\ EntriesFollow /\ ListOK /\ v \in ToSet(Workers)
      /\ workerPc \in [ToSet(Workers) -> WorkerPcs]
      /\ storage \in [Entries -> Seq(Event)]
  BY TeamAreWorkers DEF IInv, Typed, TypeOK, EntriesFollow
<1> USE DEF MainRuns, UpdateRuns, WorkerRuns
<1>2. CASE WorkerRegister(v)
  <2>1. /\ workerPc[v] = "register" /\ workerPc' = [workerPc EXCEPT ![v] = "idle"]
        /\ RegisterThread(v) /\ UNCHANGED <<mainPc, runnerPc, frameNumber>>
    BY <1>2 DEF WorkerRegister, WorkerGoes, frameVars
  <2>2. v \notin ToSet(threads)
    BY <1>1, <2>1 DEF EntriesFollow
  <2>3. ListOK' /\ ToSet(threads') = ToSet(threads) \cup {v} /\ alive' = alive \cup {v}
    BY <1>1, <2>1, <2>2, Owners, Registering
  <2> QED BY <1>1, <2>1, <2>2, <2>3, Owners DEF EntriesFollow
<1>3. CASE WorkerUnregister(v)
  <2>1. /\ workerPc[v] = "idle" /\ workerPc' = [workerPc EXCEPT ![v] = "ended"]
        /\ UnRegisterThread(v) /\ UNCHANGED <<mainPc, runnerPc, frameNumber>>
    BY <1>3 DEF WorkerUnregister, WorkerGoes, frameVars
  <2>2. /\ ListOK' /\ ToSet(threads') \subseteq ToSet(threads)
        /\ \/ alive' = alive /\ \A e \in alive : Owner[e] # v
           \/ \E e \in alive : Owner[e] = v /\ alive' = alive \ {e}
    BY <1>1, <2>1, UnRegistering
  <2>3. v \in alive /\ alive \subseteq Entries
    <3>1. \A i \in DOMAIN threads : threads[i] \in Entries
      BY <1>1, ElementOfSeq, LenProperties DEF ListOK
    <3> QED BY <1>1, <2>1, <3>1 DEF EntriesFollow, ListOK, ToSet
  <2>4. alive' = alive \ {v}
    BY <1>1, <2>2, <2>3, Owners
  <2> QED BY <1>1, <2>1, <2>2, <2>4, Owners DEF EntriesFollow
<1>4. ASSUME ~WorkerRegister(v), ~WorkerUnregister(v)
      PROVE  EntriesFollow'
  <2>1. /\ UNCHANGED <<threads, alive, frameNumber, mainPc, runnerPc>>
        /\ workerPc[v] \in AtWork
        /\ \E to \in AtWork : workerPc' = [workerPc EXCEPT ![v] = to]
    BY <1>4, WorkLeaves DEF frameVars
  <2> QED BY <1>1, <2>1 DEF EntriesFollow, ListOK, AtWork
<1> QED BY <1>2, <1>3, <1>4

\* The entry of every running thread is in the list and alive, and none of a
\* worker that ended (optick_core.cpp:1449-1500).
LEMMA EntriesStay ==
  ASSUME IInv, [Next]_vars
  PROVE  EntriesFollow'
<1>1. EntriesFollow
  BY DEF IInv
<1>2. CASE Quit
  BY <1>1, <1>2 DEF Quit, MainGoes, MainFrame, coreVars, EntriesFollow, ListOK, MainRuns,
       UpdateRuns, WorkerRuns
<1>3. CASE UNCHANGED vars
  BY <1>1, <1>3 DEF vars, EntriesFollow, ListOK, MainRuns, UpdateRuns, WorkerRuns
<1> QED BY <1>2, <1>3, MainKeepsEntries, RunnerKeepsEntries, WorkerKeepsEntries DEF Next


-----------------------------------------------------------------------------
(* Core::storage of each thread.                                           *)

\* No thread starts to run, and no mode or storage changes.
LEMMA StillFollows ==
  ASSUME StoragesFollow, UNCHANGED <<tls, on>>,
         step' # "activate" => step # "activate",
         mainPc' = "register" => mainPc = "register", MainRuns' => MainRuns,
         runnerPc' \in {"none", "register"} => runnerPc \in {"none", "register"},
         UpdateRuns' => UpdateRuns /\ UpdateEntry' = UpdateEntry,
         \A w \in ToSet(Workers) :
           /\ workerPc'[w] \in {"none", "register"} => workerPc[w] \in {"none", "register"}
           /\ WorkerRuns(w)' => WorkerRuns(w)
  PROVE  StoragesFollow'
<1>1. Follows("main", mainPc # "register", MainRuns, "MainThread")'
  BY DEF StoragesFollow, Follows
<1>2. Follows("update", runnerPc \notin {"none", "register"}, UpdateRuns, UpdateEntry)'
  BY DEF StoragesFollow, Follows
<1>3. ASSUME NEW w \in ToSet(Workers)
      PROVE  Follows(w, workerPc[w] \notin {"none", "register"}, WorkerRuns(w), w)'
  BY DEF StoragesFollow, Follows
<1>4. (tls \in [Threads -> Entries \cup {None}])'
  BY DEF StoragesFollow
<1> QED BY <1>1, <1>2, <1>3, <1>4 DEF StoragesFollow

\* A thread registers: RegisterThread tells it the storage while a capture runs.
LEMMA RegisteringFollows ==
  ASSUME NEW e \in Entries, RegisterThread(e), tls \in [Threads -> Entries \cup {None}]
  PROVE  /\ tls' \in [Threads -> Entries \cup {None}]
         /\ tls'[Owner[e]] = IF on THEN e ELSE tls[Owner[e]]
         /\ \A t \in Threads : t # Owner[e] => tls'[t] = tls[t]
         /\ alive' = alive \cup {e}
BY Owners DEF RegisterThread


LEMMA MainKeepsStorages ==
  ASSUME IInv, MainNext
  PROVE  StoragesFollow'
<1>1. /\ StoragesFollow /\ EntriesFollow /\ ListOK /\ ThreadsExist
      /\ storage \in [Entries -> Seq(Event)]
  BY DEF IInv, Typed, EntriesFollow
<1> USE DEF MainRuns, UpdateRuns, WorkerRuns
<1>2. CASE MainRegister
  <2>1. /\ RegisterThread("MainThread") /\ mainPc = "register" /\ mainPc' = "create"
        /\ UNCHANGED <<runnerPc, workerPc, on, step>>
    BY <1>2 DEF MainRegister, MainGoes, stateVars
  <2>2. /\ tls' \in [Threads -> Entries \cup {None}]
        /\ tls'["main"] = IF on THEN "MainThread" ELSE tls["main"]
        /\ \A t \in Threads : t # "main" => tls'[t] = tls[t]
        /\ UpdateEntry' = UpdateEntry
    <3>1. /\ tls' \in [Threads -> Entries \cup {None}]
          /\ tls'["main"] = IF on THEN "MainThread" ELSE tls["main"]
          /\ \A t \in Threads : t # "main" => tls'[t] = tls[t]
          /\ alive' = alive \cup {"MainThread"}
      BY <1>1, <2>1, Owners, OwnersAssumption, RegisteringFollows DEF StoragesFollow
    <3> QED BY <3>1 DEF UpdateEntry
  <2>3. Follows("main", mainPc # "register", MainRuns, "MainThread")'
    BY <1>1, <2>1, <2>2, Owners, OwnersAssumption DEF StoragesFollow, Follows
  <2>4. Follows("update", runnerPc \notin {"none", "register"}, UpdateRuns, UpdateEntry)'
    BY <1>1, <2>1, <2>2, Owners DEF StoragesFollow, Follows
  <2>5. ASSUME NEW w \in ToSet(Workers)
        PROVE  Follows(w, workerPc[w] \notin {"none", "register"}, WorkerRuns(w), w)'
    <3>1. tls'[w] = tls[w]
      BY <2>2, Owners
    <3>2. Follows(w, workerPc[w] \notin {"none", "register"}, WorkerRuns(w), w)
      BY <1>1 DEF StoragesFollow
    <3> QED BY <2>1, <3>1, <3>2 DEF Follows
  <2> QED BY <2>2, <2>3, <2>4, <2>5 DEF StoragesFollow
<1>3. CASE CreateThreads
  <2>1. /\ mainPc = "create" /\ mainPc' = "scan" /\ runnerPc' = "register"
        /\ \A w \in ToSet(Workers) : workerPc'[w] \in {"none", "register"}
        /\ UNCHANGED <<tls, on, step, alive>>
    BY <1>3 DEF CreateThreads, MainGoes, coreVars
  <2>2. runnerPc = "none" /\ \A w \in ToSet(Workers) : workerPc[w] = "none"
    BY <1>1, <2>1 DEF ThreadsExist
  <2> QED BY <1>1, <2>1, <2>2, StillFollows
<1>4. CASE ShutDown \/ Join \/ JoinRunner
  <2>1. /\ mainPc \in {"shutdown", "join", "joinrunner"}
        /\ mainPc' \in {"shutdown", "join", "undefined", "joinrunner", "optick"}
        /\ UNCHANGED <<tls, on, step, alive, runnerPc, workerPc>>
    BY <1>4 DEF ShutDown, Join, JoinRunner, MainGoes, coreVars
  <2> QED BY <1>1, <2>1, StillFollows DEF UpdateEntry
<1>5. CASE ShutdownOptick \/ LeaveScope("leave", "static") \/ LeaveScope("static", "over")
  <2>1. /\ mainPc \in {"optick", "leave", "static"} /\ mainPc' \in {"leave", "static", "over"}
        /\ UNCHANGED <<runnerPc, workerPc, tls, on, step>>
    BY <1>5 DEF ShutdownOptick, LeaveScope, MainGoes, Shutdown, UnRegisterThread, stateVars
  <2>2. runnerPc = "ended"
    BY <1>1, <2>1 DEF ThreadsExist
  <2> QED BY <1>1, <2>1, <2>2, StillFollows
<1> QED BY <1>2, <1>3, <1>4, <1>5 DEF MainNext

LEMMA UpdateKeepsStorages ==
  ASSUME IInv, UpdateStep
  PROVE  StoragesFollow'
<1>1. /\ StoragesFollow /\ EntriesFollow /\ ListOK /\ ModeFollows /\ on \in BOOLEAN
  BY DEF IInv, Typed, TypeOK, CoreTypeOK, EntriesFollow
<1>2. UNCHANGED <<mainPc, runnerPc, workerPc>> /\ Update
  BY DEF UpdateStep, RunnerFrame
<1> USE DEF MainRuns, UpdateRuns, WorkerRuns
<1>3. ASSUME UNCHANGED <<tls, on, alive>>, step' # "activate" => step # "activate"
      PROVE  StoragesFollow'
  BY <1>1, <1>2, <1>3, StillFollows DEF UpdateEntry
<1>4. CASE CheckLimit \/ ApplyMessage \/ EventsDone \/ BeginDump
  BY <1>3, <1>4 DEF CheckLimit, ApplyMessage, EventsDone, BeginDump, threadVars
<1>5. CASE DumpThread \/ CleanupThread \/ EndDump
  BY <1>3, <1>5 DEF DumpThread, CleanupThread, EndDump, Dumped, threadVars, stateVars
<1>6. CASE SetMode
  <2>1. CASE on' = on
    BY <1>3, <1>6, <2>1 DEF SetMode, threadVars
  <2>2. CASE on' # on
    <3>1. step' = "activate" /\ UNCHANGED <<tls, alive>>
      BY <1>6, <2>2 DEF SetMode, threadVars
    <3> QED BY <1>1, <1>2, <3>1 DEF StoragesFollow, Follows
  <2> QED BY <2>1, <2>2
<1>7. CASE ActivateThreads
  <2>0. alive \subseteq Entries /\ \A i \in DOMAIN threads : threads[i] \in Entries
    BY <1>1, ElementOfSeq, LenProperties DEF ListOK, ToSet
  <2>1. UNCHANGED <<on, alive>>
    BY <1>7 DEF ActivateThreads
  <2>2. ASSUME NEW t \in Threads
        PROVE  /\ Registered(t) = {} => tls'[t] = tls[t]
               /\ Registered(t) # {} => tls'[t] = IF on THEN LastEntry(t) ELSE None
    <3>1. tls' = [u \in Threads |-> CASE Registered(u) = {} -> tls[u]
                                      [] Registered(u) # {} /\ on -> LastEntry(u)
                                      [] OTHER -> None]
      BY <1>7 DEF ActivateThreads
    <3>2. tls'[t] = CASE Registered(t) = {} -> tls[t]
                      [] Registered(t) # {} /\ on -> LastEntry(t)
                      [] OTHER -> None
      BY <3>1, Zenon
    <3>3. CASE Registered(t) = {}
      BY <3>2, <3>3
    <3>4. CASE Registered(t) # {} /\ on
      BY <3>2, <3>4
    <3>5. CASE Registered(t) # {} /\ ~on
      BY <3>2, <3>5
    <3> QED BY <1>1, <3>3, <3>4, <3>5
  <2>3. ASSUME NEW t \in Threads
        PROVE  /\ tls'[t] \in Entries \cup {None}
               /\ tls'[t] # None => Owner[tls'[t]] = t
               /\ (\A e \in ToSet(threads) : Owner[e] # t) => tls'[t] = tls[t]
               /\ Own(t) \in alive => tls'[t] = IF on THEN Own(t) ELSE None
    <3>1. tls[t] \in Entries \cup {None} /\ (tls[t] # None => Owner[tls[t]] = t)
      BY <1>1, Owners DEF StoragesFollow, Follows
    <3>2. Registered(t) # {} => LastEntry(t) \in Entries /\ Owner[LastEntry(t)] = t
      BY <1>1, <2>0, LastEntryOwned
    <3>3. (\A e \in ToSet(threads) : Owner[e] # t) => Registered(t) = {}
      BY DEF Registered, ToSet
    <3>4. Own(t) \in alive => Registered(t) # {} /\ LastEntry(t) = Own(t)
      BY <1>1, LastEntryIs
    <3> QED BY <2>2, <3>1, <3>2, <3>3, <3>4
  <2>4. tls' \in [Threads -> Entries \cup {None}]
    <3>1. \E f : tls' = [u \in Threads |-> f[u]]
      <4>1. tls' = [u \in Threads |-> CASE Registered(u) = {} -> tls[u]
                                        [] Registered(u) # {} /\ on -> LastEntry(u)
                                        [] OTHER -> None]
        BY <1>7 DEF ActivateThreads
      <4>2. tls' = [u \in Threads |-> tls'[u]]
        BY <4>1, Zenon
      <4> QED BY <4>2
    <3> QED BY <2>3, <3>1
  <2>5. /\ Own("main") = "MainThread" /\ Own("update") = UpdateEntry
        /\ \A w \in ToSet(Workers) : Own(w) = w
    BY Owners DEF Own
  <2>6. /\ MainRuns => "MainThread" \in alive
        /\ UpdateRuns => UpdateEntry \in alive
        /\ \A w \in ToSet(Workers) : WorkerRuns(w) => w \in alive
    BY <1>1 DEF EntriesFollow, UpdateEntry
  <2>7. ToSet(threads) \subseteq Entries
    BY <2>0 DEF ToSet
  <2>8. Follows("main", mainPc # "register", MainRuns, "MainThread")'
    <3>1. mainPc = "register" => \A e \in ToSet(threads) : Owner[e] # "main"
      BY <1>1, <2>7, Owners DEF EntriesFollow
    <3>2. mainPc = "register" => tls["main"] = None
      BY <1>1 DEF StoragesFollow, Follows
    <3> QED BY <1>2, <2>1, <2>3, <2>5, <2>6, <3>1, <3>2, Owners DEF Follows
  <2>9. Follows("update", runnerPc \notin {"none", "register"}, UpdateRuns, UpdateEntry)'
    <3>1. runnerPc \in {"none", "register"} => \A e \in ToSet(threads) : Owner[e] # "update"
      BY <1>1, <2>7, Owners DEF EntriesFollow
    <3>2. runnerPc \in {"none", "register"} => tls["update"] = None
      BY <1>1 DEF StoragesFollow, Follows
    <3>3. UpdateEntry' = UpdateEntry
      BY <2>1 DEF UpdateEntry
    <3>4. /\ tls'["update"] \in Entries \cup {None}
          /\ tls'["update"] # None => Owner[tls'["update"]] = "update"
          /\ (\A e \in ToSet(threads) : Owner[e] # "update") => tls'["update"] = tls["update"]
          /\ UpdateEntry \in alive => tls'["update"] = IF on THEN UpdateEntry ELSE None
      BY <2>3, <2>5, Owners
    <3>5. runnerPc' \in {"none", "register"} => tls'["update"] = None
      BY <1>2, <3>1, <3>2, <3>4
    <3>6. UpdateRuns' => tls'["update"] = IF on' THEN UpdateEntry' ELSE None
      BY <1>2, <2>1, <2>6, <3>3, <3>4
    <3> QED BY <3>4, <3>5, <3>6 DEF Follows
  <2>10. ASSUME NEW w \in ToSet(Workers)
         PROVE  Follows(w, workerPc[w] \notin {"none", "register"}, WorkerRuns(w), w)'
    <3>1. workerPc[w] \in {"none", "register"} => \A e \in ToSet(threads) : Owner[e] # w
      BY <1>1, <2>7, Owners DEF EntriesFollow
    <3>2. workerPc[w] \in {"none", "register"} => tls[w] = None
      BY <1>1 DEF StoragesFollow, Follows
    <3>3. /\ tls'[w] \in Entries \cup {None}
          /\ tls'[w] # None => Owner[tls'[w]] = w
          /\ (\A e \in ToSet(threads) : Owner[e] # w) => tls'[w] = tls[w]
          /\ w \in alive => tls'[w] = IF on THEN w ELSE None
      <4>1. w \in Threads /\ Own(w) = w
        BY <2>5, Owners
      <4> QED BY <2>3, <4>1
    <3>4. workerPc'[w] \in {"none", "register"} => tls'[w] = None
      BY <1>2, <3>1, <3>2, <3>3
    <3>5. WorkerRuns(w)' => tls'[w] = IF on' THEN w ELSE None
      BY <1>2, <2>1, <2>6, <3>3
    <3> QED BY <3>3, <3>4, <3>5 DEF Follows
  <2> QED BY <2>4, <2>8, <2>9, <2>10 DEF StoragesFollow
<1> QED BY <1>2, <1>4, <1>5, <1>6, <1>7 DEF Update


LEMMA RunnerKeepsStorages ==
  ASSUME IInv, RunnerNext
  PROVE  StoragesFollow'
<1>1. /\ StoragesFollow /\ EntriesFollow /\ ListOK /\ JobsWaitedFor
      /\ storage \in [Entries -> Seq(Event)]
  BY DEF IInv, Typed, EntriesFollow
<1> USE DEF MainRuns, UpdateRuns, WorkerRuns
<1>2. ASSUME RunnerRegister("register", "loop", "Update")
             \/ RunnerRegister("scope", "end", "Frame")
      PROVE  StoragesFollow'
  <2>1. PICK e \in {"Update", "Frame"} :
          /\ RegisterThread(e) /\ UNCHANGED <<mainPc, workerPc, on, step>>
          /\ runnerPc' \in {"loop", "end"}
          /\ e = "Update" => runnerPc = "register"
          /\ e = "Frame" => runnerPc = "scope"
    BY <1>2 DEF RunnerRegister, RunnerGoes, RunnerFrame, stateVars
  <2>2. step = "idle"
    BY <1>1, <2>1 DEF JobsWaitedFor
  <2>3. /\ tls' \in [Threads -> Entries \cup {None}]
        /\ tls'["update"] = IF on THEN e ELSE tls["update"]
        /\ \A t \in Threads : t # "update" => tls'[t] = tls[t]
        /\ alive' = alive \cup {e}
    <3>1. e \in Entries /\ Owner[e] = "update"
      BY <2>1, Owners, OwnersAssumption
    <3>2. RegisterThread(e) /\ tls \in [Threads -> Entries \cup {None}]
      BY <1>1, <2>1 DEF StoragesFollow
    <3> QED BY <3>1, <3>2, RegisteringFollows
  <2>4. UpdateEntry' = e
    <3>1. e = "Update" => "Frame" \notin alive
      BY <1>1, <2>1 DEF EntriesFollow, ListOK
    <3> QED BY <2>1, <2>3, <3>1 DEF UpdateEntry
  <2>5. ~on => tls["update"] = None
    BY <1>1, <2>1, <2>2 DEF StoragesFollow, Follows
  <2>6. Owner[e] = "update" /\ e \in Entries
    BY <2>1, Owners, OwnersAssumption
  <2>7. tls["update"] # None => tls["update"] \in Entries /\ Owner[tls["update"]] = "update"
    BY <1>1 DEF StoragesFollow, Follows
  <2>8. Follows("main", mainPc # "register", MainRuns, "MainThread")'
    <3>1. tls'["main"] = tls["main"]
      BY <2>3, Owners
    <3> QED BY <1>1, <2>1, <3>1 DEF StoragesFollow, Follows
  <2>9. Follows("update", runnerPc \notin {"none", "register"}, UpdateRuns, UpdateEntry)'
    <3>1. tls'["update"] # None =>
            tls'["update"] \in Entries /\ Owner[tls'["update"]] = "update"
      BY <2>3, <2>6, <2>7
    <3>2. tls'["update"] = IF on' THEN UpdateEntry' ELSE None
      BY <2>1, <2>3, <2>4, <2>5
    <3> QED BY <2>1, <3>1, <3>2 DEF Follows
  <2>10. ASSUME NEW w \in ToSet(Workers)
         PROVE  Follows(w, workerPc[w] \notin {"none", "register"}, WorkerRuns(w), w)'
    <3>1. tls'[w] = tls[w]
      BY <2>3, Owners
    <3>2. Follows(w, workerPc[w] \notin {"none", "register"}, WorkerRuns(w), w)
      BY <1>1 DEF StoragesFollow
    <3> QED BY <2>1, <3>1, <3>2 DEF Follows
  <2> QED BY <2>3, <2>8, <2>9, <2>10 DEF StoragesFollow
<1>3. ASSUME UNCHANGED <<mainPc, workerPc, tls, on, alive>>, runnerPc \notin {"none", "register"},
             step' # "activate", runnerPc' \notin {"none", "register"}, UpdateRuns,
             step # "activate"
      PROVE  StoragesFollow'
  BY <1>1, <1>3, StillFollows DEF UpdateEntry
<1>4. CASE Loop \/ PollSize \/ PollRunning \/ FinishFrame
  BY <1>1, <1>3, <1>4 DEF Loop, PollSize, PollRunning, FinishFrame, RunnerGoes, RunnerFrame,
       coreVars, JobsWaitedFor
<1>5. CASE EndFrame \/ BeginFrame
  BY <1>1, <1>3, <1>5 DEF EndFrame, BeginFrame, RunnerGoes, RunnerFrame, stateVars, threadVars,
       JobsWaitedFor
<1>6. CASE UpdateReturns
  BY <1>1, <1>3, <1>6 DEF UpdateReturns, UpdateDone, RunnerGoes, RunnerFrame, threadVars
<1>7. CASE StartFrame \/ StopFrame
  <2>1. UNCHANGED <<tls, on, step, alive, mainPc, workerPc>>
    BY <1>7 DEF StartFrame, StopFrame, AddEvent, FinishEvent, RunnerFrame, stateVars
  <2>2. \/ runnerPc = "event" /\ runnerPc' = "work"
        \/ runnerPc = "stop" /\ runnerPc' = "loop"
    BY <1>7 DEF StartFrame, StopFrame, RunnerGoes
  <2> QED BY <1>1, <1>3, <2>1, <2>2 DEF JobsWaitedFor
<1>8. CASE RunnerUnregister
  <2>1. /\ runnerPc' = "ended" /\ UnRegisterThread("update")
        /\ UNCHANGED <<mainPc, workerPc, on, step>>
    BY <1>8 DEF RunnerUnregister, RunnerGoes, RunnerFrame, stateVars
  <2>2. tls' = tls
    BY <2>1 DEF UnRegisterThread
  <2> QED BY <1>1, <2>1, <2>2, StillFollows
<1> QED BY <1>2, <1>4, <1>5, <1>6, <1>7, <1>8, UpdateKeepsStorages DEF RunnerNext

LEMMA WorkerKeepsStorages ==
  ASSUME IInv, NEW v \in Team, WorkerNext(v)
  PROVE  StoragesFollow'
<1>1. /\ StoragesFollow /\ EntriesFollow /\ ListOK /\ v \in ToSet(Workers)
      /\ workerPc \in [ToSet(Workers) -> WorkerPcs]
      /\ storage \in [Entries -> Seq(Event)]
  BY TeamAreWorkers DEF IInv, Typed, TypeOK, EntriesFollow
<1> USE DEF MainRuns, UpdateRuns, WorkerRuns
<1>2. CASE WorkerRegister(v)
  <2>1. /\ workerPc[v] = "register" /\ workerPc' = [workerPc EXCEPT ![v] = "idle"]
        /\ RegisterThread(v) /\ UNCHANGED <<mainPc, runnerPc, on, step>>
    BY <1>2 DEF WorkerRegister, WorkerGoes, stateVars
  <2>2. /\ tls' \in [Threads -> Entries \cup {None}]
        /\ tls'[v] = IF on THEN v ELSE tls[v]
        /\ \A t \in Threads : t # v => tls'[t] = tls[t]
        /\ alive' = alive \cup {v}
    BY <1>1, <2>1, Owners, OwnersAssumption, RegisteringFollows DEF StoragesFollow
  <2>3. UpdateEntry' = UpdateEntry
    <3>1. v # "Frame"
      BY <1>1, Owners
    <3> QED BY <2>2, <3>1 DEF UpdateEntry
  <2>4. Follows("main", mainPc # "register", MainRuns, "MainThread")'
    <3>1. tls'["main"] = tls["main"]
      BY <1>1, <2>2, Owners
    <3> QED BY <1>1, <2>1, <3>1 DEF StoragesFollow, Follows
  <2>5. Follows("update", runnerPc \notin {"none", "register"}, UpdateRuns, UpdateEntry)'
    <3>1. tls'["update"] = tls["update"]
      BY <1>1, <2>2, Owners
    <3> QED BY <1>1, <2>1, <2>3, <3>1 DEF StoragesFollow, Follows
  <2>6. ASSUME NEW w \in ToSet(Workers)
        PROVE  Follows(w, workerPc[w] \notin {"none", "register"}, WorkerRuns(w), w)'
    <3>1. Follows(w, workerPc[w] \notin {"none", "register"}, WorkerRuns(w), w)
      BY <1>1 DEF StoragesFollow
    <3>2. CASE w = v
      <4>1. tls[w] = None
        BY <2>1, <3>1, <3>2 DEF Follows
      <4>2. tls'[w] = (IF on' THEN w ELSE None) /\ w \in Entries /\ Owner[w] = w
        BY <2>1, <2>2, <3>2, <4>1, Owners
      <4>3. workerPc'[w] = "idle"
        BY <1>1, <2>1, <3>2
      <4> QED BY <4>2, <4>3 DEF Follows
    <3>3. CASE w # v
      <4>1. w \in Threads
        BY Owners
      <4>2. tls'[w] = tls[w]
        BY <2>2, <3>3, <4>1
      <4>3. workerPc'[w] = workerPc[w]
        BY <1>1, <2>1, <3>3
      <4> QED BY <2>1, <3>1, <4>2, <4>3 DEF Follows
    <3> QED BY <3>2, <3>3
  <2> QED BY <2>2, <2>4, <2>5, <2>6 DEF StoragesFollow
<1>3. CASE WorkerUnregister(v)
  <2>1. /\ workerPc[v] = "idle" /\ workerPc' = [workerPc EXCEPT ![v] = "ended"]
        /\ UnRegisterThread(v) /\ UNCHANGED <<mainPc, runnerPc, on, step>>
    BY <1>3 DEF WorkerUnregister, WorkerGoes, stateVars
  <2>2. /\ tls' = tls
        /\ \/ alive' = alive
           \/ \E e \in alive : Owner[e] = v /\ alive' = alive \ {e}
    BY <1>1, <2>1, UnRegistering
  <2>3. UpdateEntry' = UpdateEntry
    BY <1>1, <2>2, Owners, OwnersAssumption DEF UpdateEntry
  <2>4. \A w \in ToSet(Workers) :
          /\ workerPc'[w] \in {"none", "register"} => workerPc[w] \in {"none", "register"}
          /\ WorkerRuns(w)' => WorkerRuns(w)
    BY <1>1, <2>1
  <2> QED BY <1>1, <2>1, <2>2, <2>3, <2>4, StillFollows
<1>4. ASSUME ~WorkerRegister(v), ~WorkerUnregister(v)
      PROVE  StoragesFollow'
  <2>1. /\ UNCHANGED <<tls, alive, on, step, mainPc, runnerPc>>
        /\ workerPc[v] \in AtWork
        /\ \E to \in AtWork : workerPc' = [workerPc EXCEPT ![v] = to]
    BY <1>4, WorkLeaves DEF stateVars
  <2>2. \A w \in ToSet(Workers) :
          /\ workerPc'[w] \in {"none", "register"} => workerPc[w] \in {"none", "register"}
          /\ WorkerRuns(w)' => WorkerRuns(w)
    BY <1>1, <2>1 DEF AtWork
  <2> QED BY <1>1, <2>1, <2>2, StillFollows DEF UpdateEntry
<1> QED BY <1>2, <1>3, <1>4

\* A thread that registers during a capture, between the change of the mode and
\* the activation too, records in the storage it registered last
\* (optick_core.cpp:1342-1357, 1449-1475).
LEMMA StoragesStay ==
  ASSUME IInv, [Next]_vars
  PROVE  StoragesFollow'
<1>1. StoragesFollow
  BY DEF IInv
<1>2. CASE Quit \/ UNCHANGED vars
  <2>1. /\ UNCHANGED <<tls, on, step, alive, runnerPc, workerPc>>
        /\ mainPc' = mainPc \/ (mainPc = "scan" /\ mainPc' = "shutdown")
    <3>1. CASE Quit
      BY <3>1 DEF Quit, MainGoes, coreVars
    <3>2. CASE UNCHANGED vars
      BY <3>2 DEF vars
    <3> QED BY <1>2, <3>1, <3>2
  <2> QED BY <1>1, <2>1, StillFollows DEF UpdateEntry, MainRuns, UpdateRuns, WorkerRuns
<1> QED BY <1>2, MainKeepsStorages, RunnerKeepsStorages, WorkerKeepsStorages DEF Next


-----------------------------------------------------------------------------
(* The events in the storages.                                             *)

\* What EventsOpen and the types need of the storages.
StorageOK == storage \in [Entries -> Seq(Event)] /\ EventsOpen

\* Nobody who works on a job loses an event.
LEMMA StillOpen ==
  ASSUME EventsOpen, slot' = slot, storage' \in [Entries -> Seq(Event)],
         orphans \subseteq orphans',
         \A w \in ToSet(Workers) :
           /\ workerPc'[w] = workerPc[w]
           /\ workerPc[w] \in {"job", "finish"} => w \in orphans \/ storage'[w] = storage[w]
  PROVE  StorageOK'
<1>1. ASSUME NEW w \in ToSet(Workers)
      PROVE  /\ slot'[w] \in {None, w}
             /\ workerPc'[w] = "finish" => slot'[w] = w
             /\ workerPc'[w] \in {"job", "finish"} /\ slot'[w] = w /\ w \notin orphans' =>
                  Unfinished(w, storage'[w]) # {}
  BY DEF EventsOpen
<1> QED BY <1>1 DEF StorageOK, EventsOpen

LEMMA MainKeepsEvents ==
  ASSUME IInv, MainNext
  PROVE  StorageOK'
<1>1. /\ EventsOpen /\ EntriesFollow /\ ListOK /\ ThreadsExist
      /\ storage \in [Entries -> Seq(Event)]
  BY DEF IInv, Typed, EntriesFollow
<1>2. CASE MainRegister \/ ShutDown \/ Join \/ JoinRunner
  BY <1>1, <1>2, StillOpen DEF MainRegister, RegisterThread, ShutDown, Join, JoinRunner,
       MainFrame, coreVars
<1>3. CASE CreateThreads
  <2>1. /\ \A w \in ToSet(Workers) : workerPc'[w] \in {"none", "register"}
        /\ UNCHANGED <<slot, storage>>
    BY <1>3 DEF CreateThreads, MainFrame, coreVars
  <2>2. ASSUME NEW w \in ToSet(Workers)
        PROVE  slot'[w] \in {None, w} /\ workerPc'[w] \notin {"job", "finish"}
    BY <1>1, <2>1 DEF EventsOpen
  <2> QED BY <1>1, <2>1, <2>2 DEF StorageOK, EventsOpen
<1>4. CASE ShutdownOptick
  <2>1. /\ mainPc = "optick" /\ UNCHANGED <<slot, workerPc, orphans>>
        /\ storage' = [e \in Entries |-> <<>>]
    BY <1>4 DEF ShutdownOptick, MainGoes, MainFrame, Shutdown
  <2>2. \A w \in ToSet(Workers) : workerPc[w] \in {"none", "ended"}
    BY <1>1, <2>1 DEF ThreadsExist
  <2>3. storage' \in [Entries -> Seq(Event)]
    BY <2>1, EmptySeq
  <2> QED BY <1>1, <2>1, <2>2, <2>3, StillOpen
<1>5. CASE LeaveScope("leave", "static") \/ LeaveScope("static", "over")
  <2>1. UnRegisterThread("main") /\ UNCHANGED <<slot, workerPc, orphans>>
    BY <1>5 DEF LeaveScope, MainFrame
  <2>2. /\ storage' \in [Entries -> Seq(Event)]
        /\ \A e \in Entries : Owner[e] # "main" => storage'[e] = storage[e]
    BY <1>1, <2>1, UnRegistering
  <2>3. \A w \in ToSet(Workers) : storage'[w] = storage[w]
    BY <2>2, Owners
  <2> QED BY <1>1, <2>1, <2>2, <2>3, StillOpen
<1> QED BY <1>2, <1>3, <1>4, <1>5 DEF MainNext

LEMMA RunnerKeepsEvents ==
  ASSUME IInv, RunnerNext
  PROVE  StorageOK'
<1>1. /\ EventsOpen /\ EntriesFollow /\ ListOK /\ StoragesFollow /\ JobsWaitedFor
      /\ storage \in [Entries -> Seq(Event)] /\ captures \in Nat /\ frameNumber \in Nat
  BY DEF IInv, Typed, EntriesFollow
<1>2. UNCHANGED <<slot, workerPc>> /\ orphans \subseteq orphans'
  BY DEF RunnerNext, RunnerRegister, Loop, EndFrame, UpdateStep, UpdateReturns, BeginFrame,
     StartFrame, PollSize, PollRunning, FinishFrame, StopFrame, RunnerUnregister, RunnerFrame,
     jobVars
<1>3. ASSUME storage' = storage
      PROVE  StorageOK'
  BY <1>1, <1>2, <1>3, StillOpen
<1>4. ASSUME NEW from, NEW to, NEW e, RunnerRegister(from, to, e)
      PROVE  StorageOK'
  BY <1>3, <1>4 DEF RunnerRegister, RegisterThread
<1>5. CASE Loop \/ PollSize \/ PollRunning \/ FinishFrame \/ EndFrame \/ BeginFrame
           \/ UpdateReturns
  BY <1>3, <1>5 DEF Loop, PollSize, PollRunning, FinishFrame, EndFrame, BeginFrame,
       UpdateReturns, UpdateDone, coreVars, threadVars
<1>6. CASE StartFrame \/ StopFrame
  <2>1. CASE tls["update"] = None
    BY <1>3, <1>6, <2>1 DEF StartFrame, StopFrame
  <2>2. CASE tls["update"] # None
    <3>1. tls["update"] \in Entries /\ Owner[tls["update"]] = "update"
      BY <1>1, <2>2 DEF StoragesFollow, Follows
    <3>2. AddEvent("update", tls["update"]) \/ FinishEvent("update", tls["update"])
      BY <1>6, <2>2 DEF StartFrame, StopFrame
    <3>3. /\ storage' \in [Entries -> Seq(Event)]
          /\ \A x \in Entries : x # tls["update"] => storage'[x] = storage[x]
      BY <1>1, <3>1, <3>2, Owners, Adding, Finishing
    <3>4. \A w \in ToSet(Workers) : storage'[w] = storage[w]
      BY <3>1, <3>3, Owners
    <3> QED BY <1>1, <1>2, <3>3, <3>4, StillOpen
  <2> QED BY <2>1, <2>2
<1>7. CASE RunnerUnregister
  <2>1. UnRegisterThread("update")
    BY <1>7 DEF RunnerUnregister
  <2>2. /\ storage' \in [Entries -> Seq(Event)]
        /\ \A e \in Entries : Owner[e] # "update" => storage'[e] = storage[e]
    BY <1>1, <2>1, UnRegistering
  <2>3. \A w \in ToSet(Workers) : storage'[w] = storage[w]
    BY <2>2, Owners
  <2> QED BY <1>1, <1>2, <2>2, <2>3, StillOpen
<1>8. CASE UpdateStep
  <2>1. Update /\ \A w \in ToSet(Workers) : Busy(w) => w \in orphans
    BY <1>1, <1>8 DEF UpdateStep, JobsWaitedFor, JobsExist
  <2>2. storage' \in [Entries -> Seq(Event)]
    <3>1. CASE ActivateThreads
      <4>1. \A e \in Entries : ClearedFor(e) \in Seq(Event)
        BY <1>1, EmptySeq DEF ClearedFor
      <4> QED BY <3>1, <4>1 DEF ActivateThreads
    <3>2. CASE DumpThread
      BY <1>1, <3>2, EmptySeq DEF DumpThread
    <3>3. CASE CheckLimit \/ ApplyMessage \/ EventsDone \/ SetMode \/ BeginDump
               \/ CleanupThread \/ EndDump
      BY <1>1, <3>3 DEF CheckLimit, ApplyMessage, EventsDone, SetMode, BeginDump,
           CleanupThread, EndDump, threadVars
    <3> QED BY <2>1, <3>1, <3>2, <3>3 DEF Update
  <2>3. \A w \in ToSet(Workers) : workerPc[w] \in {"job", "finish"} => w \in orphans
    BY <2>1 DEF Busy
  <2> QED BY <1>1, <1>2, <2>2, <2>3, StillOpen
<1> QED BY <1>4, <1>5, <1>6, <1>7, <1>8 DEF RunnerNext

LEMMA WorkerKeepsEvents ==
  ASSUME IInv, NEW v \in Team, WorkerNext(v)
  PROVE  StorageOK'
<1>1. /\ EventsOpen /\ EntriesFollow /\ ListOK /\ StoragesFollow /\ v \in ToSet(Workers)
      /\ workerPc \in [ToSet(Workers) -> WorkerPcs]
      /\ slot \in [ToSet(Workers) -> Entries \cup {None}]
      /\ storage \in [Entries -> Seq(Event)] /\ captures \in Nat /\ frameNumber \in Nat
  BY TeamAreWorkers DEF IInv, Typed, TypeOK, EntriesFollow
<1>2. v \in Entries /\ v \in Threads /\ v # None /\ \A w \in ToSet(Workers) : w \in Entries
  BY <1>1, Owners, NoneAssumption
<1>3. PICK to : workerPc' = [workerPc EXCEPT ![v] = to] /\ orphans' = orphans
  BY DEF WorkerNext, WorkerRegister, TakeJob, Reorder, PutBack, TouchDeleted, Record, StopJob,
       Return, Finish, WorkerUnregister, WorkerGoes
<1>4. /\ workerPc'[v] = to
      /\ \A w \in ToSet(Workers) : w # v => workerPc'[w] = workerPc[w]
  BY <1>1, <1>3
\* The events of the other workers stay, so what counts is what happens to v.
<1>5. ASSUME storage' \in [Entries -> Seq(Event)],
             \A e \in Entries : e # v => storage'[e] = storage[e],
             \A w \in ToSet(Workers) : w # v => slot'[w] = slot[w],
             slot'[v] \in {None, v}, to = "finish" => slot'[v] = v,
             to \in {"job", "finish"} /\ slot'[v] = v /\ v \notin orphans =>
               Unfinished(v, storage'[v]) # {}
      PROVE  StorageOK'
  <2>1. ASSUME NEW w \in ToSet(Workers)
        PROVE  /\ slot'[w] \in {None, w}
               /\ workerPc'[w] = "finish" => slot'[w] = w
               /\ workerPc'[w] \in {"job", "finish"} /\ slot'[w] = w /\ w \notin orphans' =>
                    Unfinished(w, storage'[w]) # {}
    <3>1. CASE w = v
      BY <1>3, <1>4, <1>5, <3>1
    <3>2. CASE w # v
      <4>1. workerPc'[w] = workerPc[w] /\ slot'[w] = slot[w] /\ storage'[w] = storage[w]
        BY <1>2, <1>4, <1>5, <3>2
      <4> QED BY <1>1, <1>3, <4>1 DEF EventsOpen
    <3> QED BY <3>1, <3>2
  <2> QED BY <1>5, <2>1 DEF StorageOK, EventsOpen
<1>6. CASE WorkerRegister(v)
  <2>1. to = "idle" /\ UNCHANGED <<slot, storage>>
    BY <1>1, <1>4, <1>6 DEF WorkerRegister, WorkerGoes, RegisterThread
  <2> QED BY <1>1, <1>5, <2>1 DEF EventsOpen
<1>7. CASE WorkerUnregister(v)
  <2>1. to = "ended" /\ UNCHANGED slot /\ UnRegisterThread(v)
    BY <1>1, <1>4, <1>7 DEF WorkerUnregister, WorkerGoes
  <2>2. /\ storage' \in [Entries -> Seq(Event)]
        /\ \A e \in Entries : Owner[e] # v => storage'[e] = storage[e]
    BY <1>1, <2>1, UnRegistering
  <2>3. \A e \in Entries : e # v => storage'[e] = storage[e]
    BY <1>1, <2>2, Owners
  <2> QED BY <1>1, <1>5, <2>1, <2>2, <2>3 DEF EventsOpen
<1>8. CASE \E u \in Team : TakeJob(v, u)
  <2>1. to = "record" /\ slot' = [slot EXCEPT ![v] = tls[v]] /\ storage' = storage
    BY <1>1, <1>4, <1>8 DEF TakeJob, WorkerGoes, coreVars
  <2>2. tls[v] \in {None, v}
    <3>1. tls[v] # None => tls[v] \in Entries /\ Owner[tls[v]] = v
      BY <1>1 DEF StoragesFollow, Follows
    <3> QED BY <1>1, <3>1, Owners
  <2> QED BY <1>1, <1>5, <2>1, <2>2
<1>9. CASE Record(v)
  <2>1. to = "job" /\ slot' = slot
    BY <1>1, <1>4, <1>9 DEF Record, WorkerGoes
  <2>2. CASE slot[v] = None
    BY <1>1, <1>2, <1>5, <1>9, <2>1, <2>2 DEF Record, EventsOpen
  <2>3. CASE slot[v] # None
    <3>1. slot[v] = v /\ AddEvent(v, v)
      BY <1>1, <1>9, <2>3 DEF Record, EventsOpen
    <3>2. /\ storage' \in [Entries -> Seq(Event)]
          /\ \A x \in Entries : x # v => storage'[x] = storage[x]
          /\ Unfinished(v, storage'[v]) # {}
      BY <1>1, <1>2, <3>1, Adding
    <3> QED BY <1>5, <2>1, <3>1, <3>2
  <2> QED BY <2>2, <2>3
<1>10. CASE StopJob(v)
  <2>1. storage' = storage /\ workerPc[v] = "job"
    BY <1>10 DEF StopJob, Return, WorkerGoes, coreVars
  <2>2. CASE slot[v] # None /\ tls[v] # None
    <3>1. slot' = slot
      BY <1>10, <2>2 DEF StopJob
    <3> QED BY <1>1, <1>5, <2>1, <2>2, <3>1 DEF EventsOpen
  <2>3. CASE ~(slot[v] # None /\ tls[v] # None)
    <3>1. to \in {"idle", "undefined"} /\ slot' = [slot EXCEPT ![v] = None]
      BY <1>1, <1>4, <1>10, <2>3 DEF StopJob, Return, WorkerGoes
    <3> QED BY <1>1, <1>5, <2>1, <3>1
  <2> QED BY <2>2, <2>3
<1>11. CASE Finish(v)
  <2>1. /\ to \in {"idle", "undefined"} /\ slot' = [slot EXCEPT ![v] = None]
        /\ workerPc[v] = "finish" /\ FinishEvent(v, slot[v])
    BY <1>1, <1>4, <1>11 DEF Finish, Return, WorkerGoes
  <2>2. slot[v] = v
    BY <1>1, <2>1 DEF EventsOpen
  <2>3. /\ storage' \in [Entries -> Seq(Event)]
        /\ \A x \in Entries : x # v => storage'[x] = storage[x]
    BY <1>1, <1>2, <2>1, <2>2, Finishing
  <2> QED BY <1>1, <1>5, <2>1, <2>3
<1>12. CASE Reorder(v) \/ PutBack(v) \/ TouchDeleted(v)
  <2>1. to \in {"reorder", "idle", "undefined"} /\ UNCHANGED <<slot, storage>>
    BY <1>1, <1>4, <1>12 DEF Reorder, PutBack, TouchDeleted, WorkerGoes, coreVars
  <2> QED BY <1>1, <1>5, <2>1 DEF EventsOpen
<1> QED BY <1>6, <1>7, <1>8, <1>9, <1>10, <1>11, <1>12 DEF WorkerNext

\* The event that a worker will stop stays in its storage: an activation and a
\* dump clear storages only while no worker is busy, and Shutdown when all have
\* ended (optick_core.cpp:246-265, 1484-1500; core.h:260-279).
LEMMA EventsStay ==
  ASSUME IInv, [Next]_vars
  PROVE  StorageOK'
<1>1. EventsOpen /\ storage \in [Entries -> Seq(Event)]
  BY DEF IInv, Typed
<1>2. CASE Quit
  BY <1>1, <1>2, StillOpen DEF Quit, MainFrame, coreVars
<1>3. CASE UNCHANGED vars
  <2>1. UNCHANGED <<slot, workerPc, storage, orphans>>
    BY <1>3 DEF vars
  <2> QED BY <1>1, <2>1, StillOpen
<1> QED BY <1>2, <1>3, MainKeepsEvents, RunnerKeepsEvents, WorkerKeepsEvents DEF Next


-----------------------------------------------------------------------------
(* The theorems.                                                           *)

LEMMA ControlTyped ==
  ASSUME IInv, [Next]_vars
  PROVE  /\ args' \in CommandLines /\ mainPc' \in MainPcs /\ runnerPc' \in RunnerPcs
         /\ workerPc' \in [ToSet(Workers) -> WorkerPcs]
         /\ slot' \in [ToSet(Workers) -> Entries \cup {None}]
         /\ frameNumber' \in Nat /\ isRunning' \in BOOLEAN /\ told' \subseteq Team
<1>1. /\ args \in CommandLines /\ mainPc \in MainPcs /\ runnerPc \in RunnerPcs
      /\ workerPc \in [ToSet(Workers) -> WorkerPcs]
      /\ slot \in [ToSet(Workers) -> Entries \cup {None}]
      /\ frameNumber \in Nat /\ isRunning \in BOOLEAN /\ told \subseteq Team
      /\ tls \in [Threads -> Entries \cup {None}]
  BY DEF IInv, Typed, TypeOK, CoreTypeOK
<1>2. args' = args
  BY SettingsStay
<1>3. CASE MainNext \/ Quit
  <2>1. mainPc' \in MainPcs
    BY <1>3 DEF MainNext, MainRegister, CreateThreads, ShutDown, Join, JoinRunner,
         ShutdownOptick, LeaveScope, Quit, MainGoes, MainPcs
  <2>2. runnerPc' \in {runnerPc, "register"}
    BY <1>3 DEF MainNext, MainRegister, CreateThreads, ShutDown, Join, JoinRunner,
         ShutdownOptick, LeaveScope, Quit
  <2>3. workerPc' \in [ToSet(Workers) -> WorkerPcs]
    BY <1>1, <1>3 DEF MainNext, MainRegister, CreateThreads, ShutDown, Join,
         JoinRunner, ShutdownOptick, LeaveScope, Quit, WorkerPcs
  <2>4. slot' = slot /\ frameNumber' = frameNumber /\ isRunning' \in {isRunning, FALSE}
    BY <1>3 DEF MainNext, MainRegister, CreateThreads, ShutDown, Join, JoinRunner,
         ShutdownOptick, LeaveScope, Quit, MainFrame, frameVars, coreVars
  <2>5. told' \subseteq Team
    <3>1. CASE ShutDown
      BY <1>1, <3>1 DEF ShutDown, Team
    <3>2. ASSUME ~ShutDown
          PROVE  told' = told
      BY <1>3, <3>2 DEF MainNext, MainRegister, CreateThreads, Join, JoinRunner,
           ShutdownOptick, LeaveScope, Quit
    <3> QED BY <1>1, <3>1, <3>2
  <2>6. runnerPc' \in RunnerPcs
    BY <1>1, <2>2 DEF RunnerPcs
  <2>7. isRunning' \in BOOLEAN
    BY <1>1, <2>4
  <2> QED BY <1>1, <1>2, <2>1, <2>3, <2>4, <2>5, <2>6, <2>7
<1>4. CASE RunnerNext
  <2>1. UNCHANGED <<mainPc, workerPc, slot, isRunning, told>>
    BY <1>4 DEF RunnerNext, RunnerRegister, Loop, EndFrame, UpdateStep, UpdateReturns,
         BeginFrame, StartFrame, PollSize, PollRunning, FinishFrame, StopFrame,
         RunnerUnregister, RunnerFrame
  <2>2. runnerPc' \in RunnerPcs
    BY <1>1, <1>4 DEF RunnerNext, RunnerRegister, Loop, EndFrame, UpdateStep, UpdateReturns,
         BeginFrame, StartFrame, PollSize, PollRunning, FinishFrame, StopFrame,
         RunnerUnregister, RunnerGoes, RunnerPcs
  <2>3. frameNumber' \in {frameNumber, frameNumber + 1}
    <3>1. CASE UpdateStep
      BY <3>1 DEF UpdateStep, Update, CheckLimit, ApplyMessage, EventsDone, SetMode,
           ActivateThreads, BeginDump, DumpThread, CleanupThread, EndDump, frameVars
    <3>2. ASSUME ~UpdateStep
          PROVE  frameNumber' \in {frameNumber, frameNumber + 1}
      BY <1>4, <3>2 DEF RunnerNext, RunnerRegister, Loop, EndFrame, EndUpdateFrame,
           UpdateReturns, UpdateDone, BeginFrame, BeginUpdateFrame, StartFrame, PollSize,
           PollRunning, FinishFrame, StopFrame, RunnerUnregister, frameVars, coreVars
    <3> QED BY <3>1, <3>2
  <2> QED BY <1>1, <1>2, <2>1, <2>2, <2>3
<1>5. ASSUME NEW w \in Team, WorkerNext(w)
      PROVE  /\ UNCHANGED <<mainPc, runnerPc, isRunning, told, frameNumber>>
             /\ workerPc' \in [ToSet(Workers) -> WorkerPcs]
             /\ slot' \in [ToSet(Workers) -> Entries \cup {None}]
  <2>1. /\ UNCHANGED <<mainPc, runnerPc, isRunning, told, frameNumber>>
        /\ \E to \in WorkerPcs : workerPc' = [workerPc EXCEPT ![w] = to]
    BY <1>5 DEF WorkerNext, WorkerRegister, TakeJob, Reorder, PutBack, TouchDeleted, Record,
         StopJob, Return, Finish, WorkerUnregister, WorkerGoes, WorkerPcs, frameVars, coreVars
  <2>2. \/ slot' = slot
        \/ slot' = [slot EXCEPT ![w] = tls[w]]
        \/ slot' = [slot EXCEPT ![w] = None]
    BY <1>5 DEF WorkerNext, WorkerRegister, TakeJob, Reorder, PutBack, TouchDeleted, Record,
         StopJob, Finish, WorkerUnregister
  <2>3. w \in Threads
    BY TeamStays, Owners
  <2>4. workerPc' \in [ToSet(Workers) -> WorkerPcs]
    BY <1>1, <2>1
  <2>5. slot' \in [ToSet(Workers) -> Entries \cup {None}]
    BY <1>1, <2>2, <2>3
  <2> QED BY <2>1, <2>4, <2>5
<1>6. CASE UNCHANGED vars
  <2>1. UNCHANGED <<mainPc, runnerPc, workerPc, slot, frameNumber, isRunning, told>>
    BY <1>6 DEF vars
  <2> QED BY <1>1, <1>2, <2>1
<1> QED BY <1>1, <1>2, <1>3, <1>4, <1>5, <1>6 DEF Next

\* AddJob gives a worker a number of jobs (job_system.cpp:70-83).
LEMMA DealtIsNumber ==
  ASSUME NumThreadsInRange, NEW w
  PROVE  Dealt(w) \in Nat /\ JobsPerFrame \in Nat
<1> DEFINE P == {k \in 0 .. JobsPerFrame - 1 : Workers[((current + k) % numThreads) + 1] = w}
<1>1. JobsPerFrame \in Nat
  BY JobsAssumption DEF JobsPerFrame, NumThreadsInRange
<1>2. IsFiniteSet(0 .. JobsPerFrame - 1)
  BY <1>1, FS_Interval
<1>3. IsFiniteSet(P)
  BY <1>2, FS_Subset
<1>4. Cardinality(P) \in Nat
  BY <1>3, FS_CardinalityType
<1> QED BY <1>1, <1>4 DEF Dealt

LEMMA JobsTyped ==
  ASSUME IInv, [Next]_vars
  PROVE  /\ queue' \in [ToSet(Workers) -> Nat] /\ current' \in 0 .. numThreads - 1
         /\ jobRunning' \in [ToSet(Workers) -> BOOLEAN] /\ polled' \in 0 .. NumWorkers
         /\ orphans' \subseteq Team /\ dangling' \in BOOLEAN
<1>1. /\ queue \in [ToSet(Workers) -> Nat] /\ current \in 0 .. numThreads - 1
      /\ jobRunning \in [ToSet(Workers) -> BOOLEAN] /\ polled \in 0 .. NumWorkers
      /\ orphans \subseteq Team /\ dangling \in BOOLEAN
      /\ NumThreadsInRange /\ JobsWaitedFor
  BY DEF IInv, Typed, TypeOK
<1>2. numThreads \in Nat /\ numThreads > 0 /\ NumWorkers \in Nat
  BY <1>1 DEF NumThreadsInRange, NumWorkers
<1>3. CASE MainNext \/ Quit
  <2>1. UNCHANGED <<current, polled, orphans, dangling>>
    BY <1>3 DEF MainNext, MainRegister, CreateThreads, ShutDown, Join, JoinRunner,
         ShutdownOptick, LeaveScope, Quit, MainFrame
  <2>2. \/ UNCHANGED <<queue, jobRunning>>
        \/ \E w : /\ queue' = [queue EXCEPT ![w] = 0]
                  /\ jobRunning' = [jobRunning EXCEPT ![w] = FALSE]
    BY <1>3 DEF MainNext, MainRegister, CreateThreads, ShutDown, Join, JoinRunner,
         ShutdownOptick, LeaveScope, Quit
  <2>3. queue' \in [ToSet(Workers) -> Nat]
    BY <1>1, <2>2
  <2>4. jobRunning' \in [ToSet(Workers) -> BOOLEAN]
    BY <1>1, <2>2
  <2> QED BY <1>1, <2>1, <2>3, <2>4
<1>4. CASE StartFrame
  <2>1. UNCHANGED <<jobRunning, polled, orphans, dangling>>
    BY <1>4 DEF StartFrame, RunnerFrame
  <2>2. CASE IsParallel(args)
    <3>1. /\ queue' = [w \in ToSet(Workers) |-> queue[w] + Dealt(w)]
          /\ current' = (current + JobsPerFrame) % numThreads
      BY <1>4, <2>2 DEF StartFrame
    <3>2. \A w \in ToSet(Workers) : queue[w] + Dealt(w) \in Nat
      BY <1>1, DealtIsNumber
    <3>3. current + JobsPerFrame \in Nat
      BY <1>1, DealtIsNumber
    <3>4. current' \in 0 .. numThreads - 1
      BY <1>2, <3>1, <3>3
    <3>5. queue' \in [ToSet(Workers) -> Nat]
      BY <3>1, <3>2
    <3> QED BY <1>1, <2>1, <3>4, <3>5
  <2>3. CASE ~IsParallel(args)
    BY <1>1, <1>4, <2>1, <2>3 DEF StartFrame
  <2> QED BY <2>2, <2>3
<1>5. ASSUME RunnerNext, ~StartFrame
      PROVE  /\ UNCHANGED <<queue, current, jobRunning>>
             /\ polled' \in {polled, polled + 1, 0} /\ (polled' = polled + 1 => runnerPc = "running")
             /\ orphans' \subseteq orphans \cup Team /\ dangling' \in BOOLEAN
  <2>1. CASE PollSize \/ PollRunning
    BY <1>1, <1>2, <2>1 DEF PollSize, PollRunning, RunnerGoes, RunnerFrame
  <2>2. CASE FinishFrame
    BY <1>1, <1>2, <2>2 DEF FinishFrame, RunnerFrame
  <2>3. ASSUME ~PollSize, ~PollRunning, ~FinishFrame
        PROVE  UNCHANGED <<queue, current, jobRunning, polled, orphans, dangling>>
    BY <1>5, <2>3 DEF RunnerNext, RunnerRegister, Loop, EndFrame, UpdateStep, UpdateReturns,
         BeginFrame, StopFrame, RunnerUnregister, RunnerFrame, jobVars
  <2> QED BY <1>1, <1>2, <2>1, <2>2, <2>3
<1>6. ASSUME NEW w \in Team, WorkerNext(w)
      PROVE  /\ UNCHANGED <<current, polled, orphans, dangling>>
             /\ queue' \in [ToSet(Workers) -> Nat]
             /\ jobRunning' \in [ToSet(Workers) -> BOOLEAN]
  <2>0. Team \subseteq ToSet(Workers)
    BY <1>1, TeamAreWorkers
  <2>1. UNCHANGED <<current, polled, orphans, dangling>>
    BY <1>6 DEF WorkerNext, WorkerRegister, TakeJob, Reorder, PutBack, TouchDeleted, Record,
         StopJob, Return, Finish, WorkerUnregister, WorkerGoes
  <2>2. \/ queue' = queue
        \/ \E v \in Team : queue' = [queue EXCEPT ![v] = @ - 1] /\ queue[v] > 0
        \/ queue' = [queue EXCEPT ![w] = @ + 1]
    <3>1. CASE PutBack(w)
      BY <3>1 DEF PutBack
    <3>2. CASE Reorder(w)
      <4>1. queue' = [queue EXCEPT ![w] = @ - 1] /\ queue[w] > 1 /\ queue[w] \in Nat
        BY <1>1, <1>6, <2>0, <3>2 DEF Reorder
      <4>2. queue[w] > 0
        BY <4>1
      <4> QED BY <1>6, <4>1, <4>2
    <3>3. CASE \E v \in Team : TakeJob(w, v)
      BY <3>3 DEF TakeJob
    <3> QED BY <1>6, <3>1, <3>2, <3>3 DEF WorkerNext, WorkerRegister, TouchDeleted, Record,
         StopJob, Finish, WorkerUnregister
  <2>3. jobRunning' = jobRunning \/ \E b \in BOOLEAN : jobRunning' = [jobRunning EXCEPT ![w] = b]
    <3>1. CASE Reorder(w) \/ \E v \in Team : TakeJob(w, v)
      <4>1. Announce(w)
        BY <3>1 DEF Reorder, TakeJob
      <4>2. PICK b \in IF w \in told THEN BOOLEAN ELSE {TRUE} :
              jobRunning' = [jobRunning EXCEPT ![w] = b]
        BY <4>1 DEF Announce
      <4>3. b \in BOOLEAN
        BY <4>2
      <4> QED BY <4>2, <4>3
    <3>2. ASSUME ~Reorder(w), ~\E v \in Team : TakeJob(w, v)
          PROVE  jobRunning' = jobRunning \/ jobRunning' = [jobRunning EXCEPT ![w] = FALSE]
      <4>1. CASE WorkerRegister(w) \/ TouchDeleted(w) \/ Record(w) \/ WorkerUnregister(w)
        BY <4>1 DEF WorkerRegister, TouchDeleted, Record, WorkerUnregister
      <4>2. CASE PutBack(w) \/ StopJob(w) \/ Finish(w)
        BY <4>2 DEF PutBack, StopJob, Finish, Return
      <4> QED BY <1>6, <3>2, <4>1, <4>2 DEF WorkerNext
    <3> QED BY <3>1, <3>2
  <2>4. queue' \in [ToSet(Workers) -> Nat]
    BY <1>1, <2>0, <2>2
  <2>5. jobRunning' \in [ToSet(Workers) -> BOOLEAN]
    BY <1>1, <2>3
  <2> QED BY <2>1, <2>4, <2>5
<1>7. CASE UNCHANGED vars
  BY <1>1, <1>7 DEF vars
<1>8. ASSUME RunnerNext, ~StartFrame
      PROVE  polled' \in 0 .. NumWorkers
  BY <1>1, <1>2, <1>5, <1>8 DEF JobsWaitedFor
<1> QED BY <1>1, <1>3, <1>4, <1>5, <1>6, <1>7, <1>8 DEF Next

\* With one worker main_runner deletes the jobs when it is done with them, however
\* the two reads of AllJobsFinished fall between the worker's steps (job_system.cpp:
\* 24-36, job_worker.cpp:67, 111, 165).
LEMMA OneWorkerWaitsStays ==
  ASSUME IInv, [Next]_vars
  PROVE  OneWorkerWaits'
<1>1. /\ OneWorkerWaits /\ JobsWaitedFor /\ ThreadsExist
      /\ queue \in [ToSet(Workers) -> Nat] /\ polled \in 0 .. NumWorkers
      /\ jobRunning \in [ToSet(Workers) -> BOOLEAN] /\ runnerPc \in RunnerPcs
      /\ workerPc \in [ToSet(Workers) -> WorkerPcs]
      /\ NumThreadsInRange /\ isRunning \in BOOLEAN
  BY DEF IInv, Typed, TypeOK
<1>2. /\ Team' = Team /\ NumWorkers' = NumWorkers /\ Team \subseteq ToSet(Workers)
      /\ numThreads \in Nat /\ NumWorkers \in Nat
  BY <1>1, TeamStays DEF NumThreadsInRange, NumWorkers
<1> SUFFICES ASSUME isRunning', NumWorkers <= 1
             PROVE  /\ orphans' = {} /\ ~dangling'
                    /\ \A w \in Team :
                         /\ Busy(w)' => jobRunning'[w]
                         /\ workerPc'[w] = "reorder" => queue'[w] > 0
                         /\ runnerPc' = "running" \/ polled' > 0 => queue'[w] = 0
                         /\ runnerPc' = "work" /\ polled' > 0 => ~Busy(w)'
  BY <1>2 DEF OneWorkerWaits
<1>3. \A v, w \in Team : v = w /\ v = Workers[1] /\ NumWorkers = 1
  BY <1>2 DEF Team
<1>4. isRunning
  BY <1>1 DEF Next, MainNext, MainRegister, CreateThreads, ShutDown, Join, JoinRunner,
       ShutdownOptick, LeaveScope, Quit, RunnerNext, RunnerRegister, Loop, EndFrame, UpdateStep,
       UpdateReturns, BeginFrame, StartFrame, PollSize, PollRunning, FinishFrame, StopFrame,
       RunnerUnregister, RunnerFrame, WorkerNext, WorkerRegister, TakeJob, Reorder, PutBack,
       TouchDeleted, Record, StopJob, Return, Finish, WorkerUnregister, WorkerGoes, vars
<1>5. /\ orphans = {} /\ ~dangling
      /\ \A w \in Team :
           /\ Busy(w) => jobRunning[w]
           /\ workerPc[w] = "reorder" => queue[w] > 0
           /\ runnerPc = "running" \/ polled > 0 => queue[w] = 0
           /\ runnerPc = "work" /\ polled > 0 => ~Busy(w)
  BY <1>1, <1>4 DEF OneWorkerWaits
<1>6. mainPc \in {"register", "create", "scan"} /\ told = {}
  BY <1>1, <1>4 DEF ThreadsExist
<1>7. ~JobsExist => polled = 0
  BY <1>1 DEF JobsWaitedFor
<1> USE DEF Busy, JobsExist
<1>8. CASE MainNext \/ Quit
  <2>1. CASE CreateThreads
    BY <1>1, <1>2, <1>5, <2>1 DEF CreateThreads, MainFrame, MainGoes, ThreadsExist
  <2>2. CASE MainRegister
    BY <1>5, <2>2 DEF MainRegister, MainFrame
  <2> QED BY <1>6, <1>8, <2>1, <2>2 DEF MainNext, Quit, ShutDown, Join, JoinRunner,
         ShutdownOptick, LeaveScope, MainGoes
<1>9. CASE RunnerNext
  <2>0. UNCHANGED <<workerPc, jobRunning>>
    BY <1>9 DEF RunnerNext, RunnerRegister, Loop, EndFrame, UpdateStep, UpdateReturns,
         BeginFrame, StartFrame, PollSize, PollRunning, FinishFrame, StopFrame,
         RunnerUnregister, RunnerFrame
  <2>1. CASE StartFrame
    <3>1. /\ UNCHANGED <<polled, orphans, dangling>> /\ runnerPc = "event" /\ runnerPc' = "work"
          /\ \A w \in Team : queue'[w] >= queue[w]
      <4>1. \A w \in Team : queue'[w] = queue[w] \/ queue'[w] = queue[w] + Dealt(w)
        BY <1>2, <2>1 DEF StartFrame
      <4>2. \A w \in Team : queue[w] \in Nat /\ Dealt(w) \in Nat
        BY <1>1, <1>2, DealtIsNumber
      <4>3. \A w \in Team : queue'[w] >= queue[w]
        BY <4>1, <4>2
      <4> QED BY <2>1, <4>3 DEF StartFrame, RunnerGoes, RunnerFrame
    <3>2. polled = 0
      BY <1>7, <3>1
    <3>3. \A w \in Team : queue[w] \in Nat
      BY <1>1, <1>2
    <3>4. \A w \in Team : workerPc'[w] = "reorder" => queue'[w] > 0
      <4> TAKE w \in Team
      <4>1. queue[w] \in Nat /\ queue'[w] >= queue[w] /\ (workerPc[w] = "reorder" => queue[w] > 0)
        BY <1>5, <3>1, <3>3
      <4>2. queue'[w] \in Nat
        BY <1>2, JobsTyped
      <4> QED BY <2>0, <4>1, <4>2
    <3> QED BY <1>5, <2>0, <3>1, <3>2, <3>4
  <2>2. CASE PollSize
    <3>1. /\ UNCHANGED <<queue, orphans, dangling>> /\ runnerPc = "work" /\ polled < NumWorkers
          /\ IF queue[Workers[polled + 1]] > 0
             THEN polled' = 0 /\ runnerPc' = runnerPc
             ELSE runnerPc' = "running" /\ polled' = polled
      BY <2>2 DEF PollSize, RunnerFrame
    <3>2. polled = 0 /\ NumWorkers = 1
      BY <1>1, <1>2, <3>1
    <3>3. \A w \in Team : w = Workers[polled + 1] /\ queue[w] \in Nat
      BY <1>1, <1>2, <1>3, <3>2
    <3> QED BY <1>5, <2>0, <3>1, <3>2, <3>3
  <2>3. CASE PollRunning
    <3>1. /\ UNCHANGED <<queue, orphans, dangling>> /\ runnerPc = "running" /\ runnerPc' = "work"
          /\ polled' = IF jobRunning[Workers[polled + 1]] THEN 0 ELSE polled + 1
      BY <2>3 DEF PollRunning, RunnerGoes, RunnerFrame
    <3>2. polled = 0
      BY <1>1, <1>2, <3>1 DEF JobsWaitedFor
    <3>3. \A w \in Team : w = Workers[polled + 1]
      BY <1>3, <3>2
    <3> QED BY <1>5, <2>0, <3>1, <3>2, <3>3
  <2>4. CASE FinishFrame
    <3>1. /\ queue' = queue /\ runnerPc = "work" /\ runnerPc' = "stop" /\ polled' = 0
          /\ polled = NumWorkers
          /\ orphans' = orphans \cup {w \in Team : Busy(w)}
          /\ dangling' = (dangling \/ \E w \in Team : queue[w] > 0)
      BY <2>4 DEF FinishFrame, RunnerGoes
    <3>2. \A w \in Team : ~Busy(w) /\ queue[w] = 0
      BY <1>3, <1>5, <3>1
    <3>3. orphans' = {}
      BY <1>5, <3>1, <3>2
    <3>4. ~dangling'
      <4>1. ~\E w \in Team : queue[w] > 0
        BY <3>2
      <4> QED BY <1>5, <3>1, <4>1, Zenon
    <3>5. \A w \in Team : ~Busy(w)' /\ queue'[w] = 0
      BY <2>0, <3>1, <3>2
    <3> QED BY <3>3, <3>4, <3>5
  <2>5. ASSUME ~StartFrame, ~PollSize, ~PollRunning, ~FinishFrame
        PROVE  /\ UNCHANGED <<queue, polled, orphans, dangling>>
               /\ runnerPc' \notin {"work", "running"}
    BY <1>9, <2>5 DEF RunnerNext, RunnerRegister, Loop, EndFrame, UpdateStep, UpdateReturns,
         BeginFrame, StopFrame, RunnerUnregister, RunnerGoes, RunnerFrame, jobVars
  <2> QED BY <1>5, <2>0, <2>1, <2>2, <2>3, <2>4, <2>5
<1>10. ASSUME NEW v \in Team, WorkerNext(v)
       PROVE  /\ UNCHANGED <<polled, runnerPc, orphans, dangling>>
              /\ Busy(v)' => jobRunning'[v]
              /\ workerPc'[v] = "reorder" => queue'[v] > 0
              /\ runnerPc = "running" \/ polled > 0 => queue'[v] = 0
              /\ runnerPc = "work" /\ polled > 0 => ~Busy(v)'
  <2>0. UNCHANGED <<polled, runnerPc, orphans, dangling>> /\ queue[v] \in Nat /\ v \in ToSet(Workers)
    BY <1>1, <1>2, <1>10 DEF WorkerNext, WorkerRegister, TakeJob, Reorder, PutBack, TouchDeleted,
         Record, StopJob, Return, Finish, WorkerUnregister, WorkerGoes
  <2>1. CASE WorkerRegister(v) \/ WorkerUnregister(v) \/ TouchDeleted(v)
    BY <1>1, <1>5, <2>0, <2>1 DEF WorkerRegister, WorkerUnregister, TouchDeleted, WorkerGoes
  <2>2. CASE Reorder(v) \/ \E u \in Team : TakeJob(v, u)
    <3>1. jobRunning' = [jobRunning EXCEPT ![v] = TRUE]
      <4>1. Announce(v)
        BY <2>2 DEF Reorder, TakeJob
      <4> QED BY <1>6, <4>1 DEF Announce
    <3>2. /\ queue[v] > 0
          /\ \/ workerPc' = [workerPc EXCEPT ![v] = "record"]
             \/ workerPc' = [workerPc EXCEPT ![v] = "reorder"] /\ queue'[v] > 0
      <4>1. CASE Reorder(v)
        <5>1. /\ queue[v] > 1 /\ queue' = [queue EXCEPT ![v] = queue[v] - 1]
              /\ workerPc' = [workerPc EXCEPT ![v] = "reorder"]
          BY <4>1 DEF Reorder, WorkerGoes
        <5>2. queue'[v] = queue[v] - 1
          BY <1>1, <2>0, <5>1
        <5> QED BY <2>0, <5>1, <5>2
      <4>2. ASSUME NEW u \in Team, TakeJob(v, u)
            PROVE  queue[v] > 0 /\ workerPc' = [workerPc EXCEPT ![v] = "record"]
        <5>1. u = v
          BY <1>3
        <5> QED BY <4>2, <5>1 DEF TakeJob, WorkerGoes
      <4> QED BY <2>2, <4>1, <4>2
    <3>3. ~(runnerPc = "running" \/ polled > 0)
      BY <1>5, <2>0, <3>2
    <3>4. jobRunning'[v] = TRUE /\ (workerPc'[v] = "reorder" => queue'[v] > 0)
      BY <1>1, <2>0, <3>1, <3>2
    <3> QED BY <2>0, <3>3, <3>4
  <2>3. CASE PutBack(v)
    <3>1. /\ workerPc[v] = "reorder" /\ workerPc' = [workerPc EXCEPT ![v] = "idle"]
      BY <1>5, <2>3 DEF PutBack, WorkerGoes
    <3>2. ~(runnerPc = "running" \/ polled > 0)
      BY <1>5, <2>0, <3>1
    <3> QED BY <1>1, <2>0, <3>1, <3>2
  <2>4. CASE Record(v) \/ StopJob(v) \/ Finish(v)
    <3>1. /\ Busy(v) /\ queue' = queue
          /\ \/ \E to \in {"job", "finish"} : workerPc' = [workerPc EXCEPT ![v] = to]
                                              /\ jobRunning' = jobRunning
             \/ workerPc' = [workerPc EXCEPT ![v] = "idle"]
      BY <1>5, <2>4 DEF Record, StopJob, Return, Finish, WorkerGoes
    <3> QED BY <1>1, <1>5, <2>0, <3>1
  <2> QED BY <1>10, <2>1, <2>2, <2>3, <2>4 DEF WorkerNext
<1>11. CASE UNCHANGED vars
  BY <1>5, <1>11 DEF vars
<1> QED BY <1>3, <1>5, <1>8, <1>9, <1>10, <1>11 DEF Next

LEMMA Inductive == IInv /\ [Next]_vars => IInv'
<1> SUFFICES ASSUME IInv, [Next]_vars
             PROVE  IInv'
  OBVIOUS
<1>1. /\ NumThreadsInRange' /\ ThreadsExist' /\ JobsWaitedFor' /\ EntriesFollow'
      /\ StoragesFollow' /\ OneWorkerWaits'
  BY TeamStays, ThreadsExistStays, JobsWaitedForStays, EntriesStay, StoragesStay,
     OneWorkerWaitsStays
<1>2. StateOK' /\ StorageOK'
  BY StateStays, EventsStay
<1>3. ModeFollows' /\ EventsOpen' /\ ListOK' /\ ReportOK'
  BY <1>1, <1>2 DEF StateOK, StorageOK, EntriesFollow
<1>4. storage' \in [Entries -> Seq(Event)] /\ captures' \in Nat /\ threads' \in Seq(Entries)
  BY <1>2, <1>3 DEF StateOK, StorageOK, ListOK
<1>5. CoreTypeOK'
  <2>1. ToSet(threads') \subseteq Entries
    <3>1. \A i \in DOMAIN threads' : threads'[i] \in Entries
      BY <1>4, ElementOfSeq, LenProperties
    <3> QED BY <3>1 DEF ToSet
  <2>2. ASSUME NEW e \in Entries, NEW i \in DOMAIN storage'[e]
        PROVE  storage'[e][i].by \in Threads
    <3>1. storage'[e][i] \in Event
      BY <1>4, ElementOfSeq, LenProperties
    <3> QED BY <3>1 DEF Event
  <2>3. (tls \in [Threads -> Entries \cup {None}])'
    BY <1>1 DEF StoragesFollow
  <2> QED BY <1>2, <1>3, <2>1, <2>2, <2>3 DEF CoreTypeOK, StateOK, ReportOK, ListOK
<1>6. TypeOK'
  <2>1. Team' = Team /\ NumWorkers' = NumWorkers /\ numThreads' = numThreads
    BY TeamStays, SettingsStay
  <2> QED BY <1>5, <2>1, ControlTyped, JobsTyped DEF TypeOK
<1>7. Typed'
  BY <1>1, <1>3, <1>4, <1>6, ControlTyped DEF Typed, ReportOK
<1> QED BY <1>1, <1>3, <1>7 DEF IInv

LEMMA Initially == Init => IInv
<1> SUFFICES ASSUME Init
             PROVE  IInv
  OBVIOUS
<1> USE DEF Init, CoreInit
<1>1. /\ threads = <<>> /\ alive = {} /\ ToSet(threads) = {} /\ threads \in Seq(Entries)
      /\ IsInjective(threads) /\ FrameAfter(threads)
  BY EmptySeq DEF ToSet, IsInjective, FrameAfter
<1>2. storage \in [Entries -> Seq(Event)] /\ \A e \in Entries : DOMAIN storage[e] = {}
  BY EmptySeq
<1>3. /\ report \in [list : Seq(Entries), frames : {<<>>}, events : Seq({})]
      /\ Len(report.events) <= Len(report.list)
  BY EmptySeq DEF NoReport
<1>4. NumThreadsInRange
  BY CommandLinesAssumption, NumThreadsFit DEF NumThreadsInRange
<1>5. CoreTypeOK
  BY <1>1, <1>2, <1>3 DEF CoreTypeOK, States
<1>6. TypeOK
  <2>1. workerPc \in [ToSet(Workers) -> WorkerPcs]
    BY DEF WorkerPcs
  <2>2. slot \in [ToSet(Workers) -> Entries \cup {None}]
    OBVIOUS
  <2>3. /\ current \in 0 .. numThreads - 1 /\ polled \in 0 .. NumWorkers
        /\ queue \in [ToSet(Workers) -> Nat] /\ jobRunning \in [ToSet(Workers) -> BOOLEAN]
    BY <1>4 DEF NumThreadsInRange, NumWorkers
  <2>4. args \in CommandLines /\ mainPc \in MainPcs /\ runnerPc \in RunnerPcs
    BY DEF MainPcs, RunnerPcs
  <2> QED BY <1>5, <2>1, <2>2, <2>3, <2>4 DEF TypeOK
<1>7. Typed
  <2>1. \E F, S : report \in [list : Seq(Entries), frames : F, events : Seq(S)]
    BY <1>3
  <2> QED BY <1>1, <1>2, <1>4, <1>6, <2>1 DEF Typed
<1>8. ThreadsExist /\ JobsWaitedFor /\ ModeFollows /\ OneWorkerWaits
  <2>1. Team \subseteq ToSet(Workers)
    BY <1>4, TeamAreWorkers
  <2> QED BY <2>1 DEF ThreadsExist, JobsWaitedFor, Busy, ModeFollows, OneWorkerWaits
<1>9. EntriesFollow
  BY <1>1 DEF EntriesFollow, ListOK, MainRuns, UpdateRuns, WorkerRuns
<1>10. StoragesFollow
  <2>1. \A t \in Threads : tls[t] = None
    OBVIOUS
  <2> QED BY <2>1, Owners DEF StoragesFollow, Follows, MainRuns, UpdateRuns, WorkerRuns
<1>11. EventsOpen
  BY DEF EventsOpen
<1> QED BY <1>7, <1>8, <1>9, <1>10, <1>11 DEF IInv

LEMMA Always == Spec => []IInv
BY Initially, Inductive, PTL DEF Spec

\* Every variable of the program and of Optick's Core has the values it may have:
\* no entry is in the list twice, a living one is in it, an event belongs to a
\* thread, and threadsLock is held while a dump lasts (optick_core.cpp:1009-1094).
THEOREM TypeOKThm == Spec => []TypeOK
<1>1. IInv => TypeOK
  BY DEF IInv, Typed
<1> QED BY <1>1, Always, PTL

\* Between two calls of Activate every registered thread records exactly while the
\* state is START_CAPTURE and the Start that led there asked for a mode, in the
\* storage it registered last, for any number of threads and whatever the client
\* sends (optick_core.cpp:1342-1357, 1449-1475; optick_message.cpp:144).
THEOREM ThreadsFollowStateThm == Spec => []ThreadsFollowState
<1>1. ASSUME IInv, step # "activate"
      PROVE  on <=> state = "start" /\ asked
  BY <1>1 DEF IInv, ModeFollows
<1>2. ASSUME IInv, step # "activate", NEW t \in Threads, Running(t)
      PROVE  tls[t] = IF on THEN LastEntry(t) ELSE None
  <2>1. EntriesFollow /\ StoragesFollow /\ ListOK
    BY <1>2 DEF IInv, EntriesFollow
  <2>2. CASE t = "main"
    <3>1. MainRuns /\ Own(t) = "MainThread"
      BY <1>2, <2>2 DEF Running, MainRuns, Own
    <3>2. LastEntry(t) = "MainThread"
      BY <2>1, <3>1, LastEntryIs DEF EntriesFollow
    <3> QED BY <1>2, <2>1, <2>2, <3>1, <3>2 DEF StoragesFollow, Follows
  <2>3. CASE t = "update"
    <3>1. UpdateRuns /\ Own(t) = UpdateEntry
      BY <1>2, <2>3, Owners DEF Running, UpdateRuns, Own
    <3>2. UpdateEntry \in alive
      BY <2>1, <3>1 DEF EntriesFollow, UpdateEntry
    <3>3. LastEntry(t) = UpdateEntry
      BY <2>1, <3>1, <3>2, LastEntryIs
    <3> QED BY <1>2, <2>1, <2>3, <3>1, <3>3 DEF StoragesFollow, Follows
  <2>4. CASE t \in ToSet(Workers)
    <3>1. WorkerRuns(t) /\ Own(t) = t
      BY <1>2, <2>4, Owners DEF Running, WorkerRuns, Own
    <3>2. LastEntry(t) = t
      BY <2>1, <2>4, <3>1, LastEntryIs DEF EntriesFollow
    <3> QED BY <1>2, <2>1, <2>4, <3>1, <3>2 DEF StoragesFollow, Follows
  <2> QED BY <2>2, <2>3, <2>4, Owners
<1>3. IInv => ThreadsFollowState
  BY <1>1, <1>2 DEF ThreadsFollowState
<1> QED BY <1>3, Always, PTL

\* Until the user quits, the yes of AllJobsFinished means with one worker that its
\* deque is empty and that it holds no job, for any number of jobs in a frame
\* (job_system.cpp:24-36, job_worker.cpp:67, 111, 165).
THEOREM WaitSufficesThm == Spec => []WaitSuffices
<1>1. IInv => WaitSuffices
  BY DEF IInv, OneWorkerWaits, WaitSuffices
<1> QED BY <1>1, Always, PTL

\* No thread uses an event or a storage that a dump, an activation or Shutdown has
\* freed, unless its job was deleted while it worked on it, which no promise of the
\* wait is needed for, and no entry of a worker that has ended is alive, for any
\* number of workers and jobs (optick_core.cpp:246-265, 1484-1500; core.h:260-279).
THEOREM NoStaleEventThm == Spec => []NoStaleEvent
<1>1. ASSUME IInv, NEW w \in Team
      PROVE  /\ workerPc[w] = "ended" => Registered(w) = {}
             /\ workerPc[w] = "record" /\ slot[w] # None => slot[w] \in ToSet(threads)
             /\ workerPc[w] = "finish" => Open(w, slot[w]) # 0 \/ w \in orphans
  <2>1. /\ EntriesFollow /\ EventsOpen /\ ListOK /\ w \in ToSet(Workers)
        /\ storage \in [Entries -> Seq(Event)]
    BY <1>1, TeamAreWorkers DEF IInv, Typed, EntriesFollow
  <2>2. \A i \in DOMAIN threads : threads[i] \in Entries
    BY <2>1, ElementOfSeq, LenProperties DEF ListOK
  <2>3. ASSUME workerPc[w] = "ended"
        PROVE  Registered(w) = {}
    <3>1. w \notin alive
      BY <2>1, <2>3 DEF EntriesFollow, WorkerRuns
    <3> QED BY <2>1, <2>2, <3>1, Owners DEF Registered
  <2>4. ASSUME workerPc[w] = "record", slot[w] # None
        PROVE  slot[w] \in ToSet(threads)
    <3>1. slot[w] = w
      BY <2>1, <2>4 DEF EventsOpen
    <3>2. w \in alive
      BY <2>1, <2>4 DEF EntriesFollow, WorkerRuns
    <3> QED BY <2>1, <3>1, <3>2 DEF ListOK
  <2>5. ASSUME workerPc[w] = "finish", w \notin orphans
        PROVE  Open(w, slot[w]) # 0
    <3>1. slot[w] = w /\ Unfinished(w, storage[w]) # {}
      BY <2>1, <2>5 DEF EventsOpen
    <3>2. storage[w] \in Seq(Event)
      BY <2>1, Owners
    <3>3. Open(w, w) \in Unfinished(w, storage[w])
      BY <3>1, <3>2, OpenIs
    <3>4. Open(w, w) # 0
      BY <3>2, <3>3, LenProperties DEF Unfinished
    <3> QED BY <3>1, <3>4
  <2> QED BY <2>3, <2>4, <2>5
<1>2. IInv => NoStaleEvent
  BY <1>1 DEF NoStaleEvent
<1> QED BY <1>2, Always, PTL

-----------------------------------------------------------------------------
(* What is recorded until it is sent.  The invariant of this part rests on *)
(* IInv.                                                                   *)

\* main_runner is between two frames, in Optick.
Between == runnerPc \in {"update", "begin"}

\* A capture has begun and the threads do not know yet.
Beginning == step = "activate" /\ on

\* Frame n is one of the frames to be sent: it has ended or it is the running one.
Framed(n) ==
  \E i \in DOMAIN frames :
    /\ frames[i].number = n
    /\ frames[i].ended \/ (i = Len(frames) /\ on /\ ~Between)

\* The thread of e is between Event::Start and Event::Stop, or will never get to
\* Event::Stop.
InEvent(e) ==
  \/ e \in ToSet(Workers) /\ workerPc[e] \in {"job", "finish"} /\ slot[e] = e
  \/ e \in ToSet(Workers) /\ workerPc[e] = "undefined"
  \/ e = tls["update"] /\ runnerPc \in {"work", "running", "stop"}

\* Event i of e is the last one of a worker whose job was deleted under it.
Loose(e, i) == e \in orphans /\ InEvent(e) /\ i = Len(storage[e])

\* An event in the storage of e: its thread recorded it, not before the last
\* capture if the thread is alive,
EventFits(e, x) ==
  /\ x.by = Owner[e]
  /\ x.capture <= captures
  /\ ~Beginning /\ e \in alive => x.capture = captures

\* and in one of the frames to be sent if it is of the last capture.
EventKept(x) ==
  /\ Beginning => x.capture < captures
  /\ ~cancelled /\ x.capture = captures => Framed(x.frame)

Fits(e, i) == EventFits(e, storage[e][i]) /\ (Loose(e, i) \/ EventKept(storage[e][i]))

EventsFit == \A e \in Entries : \A i \in 1 .. Len(storage[e]) : Fits(e, i)

Frame == [number : Nat, capture : Nat, ended : BOOLEAN]

\* The frames are those of the last capture, unless one was cancelled, and none
\* are left when it has been sent.  The state "stop" lasts until the dump.
FramesFollow ==
  /\ frames \in Seq(Frame)
  /\ ~cancelled => \A i \in DOMAIN frames : frames[i].capture = captures
  /\ ~cancelled /\ ~on /\ state # "stop" /\ step # "activate" => frames = <<>>
  /\ on /\ ~Between => frames # <<>> /\ frames[Len(frames)].number = frameNumber
  /\ pending # "stop"
  /\ state = "stop" => pending = "dump" /\ step \in {"state", "dump"}
  /\ step = "activate" => NextState # "dump" /\ (on \/ cancelled \/ NextState = "stop")

\* Only entries of the list have events.  A dump goes through the list as it is
\* when it begins, and of what it has gone through nothing is left or what a worker
\* has recorded since whose job was deleted.
DumpFollows ==
  /\ \A e \in Entries \ ToSet(threads) : storage[e] = <<>>
  /\ step = "dump" =>
       /\ report.frames = frames
       /\ ToSet(threads) \subseteq ToSet(report.list)
       /\ \A j \in 1 .. Len(report.events) : \A i \in 1 .. Len(storage[report.list[j]]) :
            Loose(report.list[j], i)
       /\ Len(report.events) < Len(report.list) => threads = report.list

Unended(s) == {i \in 1 .. Len(s) : ~s[i].finished}

\* The event that has not ended is the last one of a thread that is inside an event,
\* and a thread has read its storage while the capture ran that runs, unless its
\* job was deleted.
OneOpen ==
  /\ \A w \in ToSet(Workers) \ orphans :
       workerPc[w] \in {"record", "job", "finish"} /\ slot[w] # None => on
  /\ \A e \in Entries : \A i \in Unended(storage[e]) : InEvent(e) /\ i = Len(storage[e])

SentInv == EventsFit /\ FramesFollow /\ DumpFollows /\ OneOpen /\ ReportSound

-----------------------------------------------------------------------------
(* The steps, by what they do in Optick.                                   *)

CoreElse == UNCHANGED <<stateVars, frameVars, dumpVars>>

Registers(e) == e \notin ToSet(threads) /\ RegisterThread(e) /\ CoreElse
Leaves(t) == UnRegisterThread(t) /\ CoreElse
Adds(e) == ~InEvent(e) /\ AddEvent(Owner[e], e) /\ tls' = tls /\ CoreElse
Begins(e) == on /\ step = "idle" /\ ~Between /\ Adds(e)
Strays(e) == e \in orphans /\ Adds(e)
Ends(e) == FinishEvent(Owner[e], e) /\ CoreElse

InThread ==
  \/ UNCHANGED coreVars
  \/ \E e \in Entries : Registers(e)
  \/ \E t \in Threads : Leaves(t)
  \/ ShutdownOptick
  \/ \E e \in alive : Begins(e) \/ (Strays(e) /\ InEvent(e)')
  \/ \E e \in Entries : Ends(e)

LEMMA MainKinds ==
  ASSUME IInv, MainNext \/ Quit \/ UNCHANGED vars
  PROVE  InThread /\ (Between' <=> Between)
<1>1. EntriesFollow /\ ThreadsExist
  BY DEF IInv
<1>2. CASE MainRegister
  <2>1. "MainThread" \notin ToSet(threads) /\ RegisterThread("MainThread") /\ CoreElse
    BY <1>1, <1>2 DEF EntriesFollow, MainRegister, MainGoes, CoreElse
  <2>2. runnerPc' = runnerPc
    BY <1>2 DEF MainRegister
  <2> QED BY <2>1, <2>2, Owners DEF InThread, Registers, Between
<1>3. CASE CreateThreads
  <2>1. runnerPc = "none" /\ runnerPc' = "register" /\ UNCHANGED coreVars
    BY <1>1, <1>3 DEF CreateThreads, MainGoes, ThreadsExist
  <2> QED BY <2>1 DEF InThread, Between
<1>4. CASE Quit \/ ShutDown \/ Join \/ JoinRunner
  <2>1. runnerPc' = runnerPc /\ UNCHANGED coreVars
    BY <1>4 DEF Quit, ShutDown, Join, JoinRunner
  <2> QED BY <2>1 DEF InThread, Between
<1>5. CASE ShutdownOptick
  <2>1. runnerPc' = runnerPc
    BY <1>5 DEF ShutdownOptick
  <2> QED BY <1>5, <2>1 DEF InThread, Between
<1>6. CASE LeaveScope("leave", "static") \/ LeaveScope("static", "over")
  <2>1. runnerPc' = runnerPc /\ Leaves("main")
    BY <1>6 DEF LeaveScope, CoreElse, Leaves
  <2> QED BY <2>1, Owners DEF InThread, Between
<1>7. CASE UNCHANGED vars
  <2>1. runnerPc' = runnerPc /\ UNCHANGED coreVars
    BY <1>7 DEF vars, coreVars
  <2> QED BY <2>1 DEF InThread, Between
<1> QED BY <1>2, <1>3, <1>4, <1>5, <1>6, <1>7 DEF MainNext

\* main_runner does not record in the entry of a worker.
LEMMA WorkerInEvent ==
  ASSUME IInv, NEW w \in ToSet(Workers)
  PROVE  /\ InEvent(w) <=> \/ workerPc[w] \in {"job", "finish"} /\ slot[w] = w
                           \/ workerPc[w] = "undefined"
         /\ w # tls["update"] /\ w # None
<1>1. StoragesFollow /\ w \in Entries /\ Owner[w] = w /\ w # "update"
  BY Owners DEF IInv
<1>2. w # tls["update"] /\ w # None
  BY <1>1, NoneAssumption DEF StoragesFollow, Follows
<1> QED BY <1>2 DEF InEvent

LEMMA WorkerKinds ==
  ASSUME IInv, OneOpen, NEW v \in Team, WorkerNext(v)
  PROVE  InThread /\ (Between' <=> Between)
<1>1. /\ EntriesFollow /\ EventsOpen /\ JobsWaitedFor /\ ListOK /\ v \in ToSet(Workers)
      /\ v \in Entries /\ v \in Threads /\ Owner[v] = v /\ runnerPc \in RunnerPcs
      /\ workerPc \in [ToSet(Workers) -> WorkerPcs]
  BY TeamAreWorkers, Owners DEF IInv, Typed, TypeOK, CoreTypeOK, EntriesFollow
<1>2. CASE WorkerRegister(v)
  <2>1. Registers(v) /\ runnerPc' = runnerPc
    BY <1>1, <1>2 DEF WorkerRegister, WorkerGoes, EntriesFollow, Registers, CoreElse
  <2> QED BY <1>1, <2>1 DEF InThread, Between
<1>3. CASE WorkerUnregister(v)
  <2>1. Leaves(v) /\ runnerPc' = runnerPc
    BY <1>3 DEF WorkerUnregister, WorkerGoes, Leaves, CoreElse
  <2> QED BY <1>1, <2>1 DEF InThread, Between
<1>4. ASSUME ~WorkerRegister(v), ~WorkerUnregister(v)
      PROVE  CoreElse /\ tls' = tls /\ (Between' <=> Between)
  BY <1>4, WorkLeaves DEF CoreElse, Between
<1>5. CASE Reorder(v) \/ PutBack(v) \/ TouchDeleted(v) \/ StopJob(v)
             \/ \E u \in Team : TakeJob(v, u)
  <2>1. UNCHANGED coreVars /\ runnerPc' = runnerPc
    BY <1>5 DEF Reorder, PutBack, TouchDeleted, StopJob, Return, TakeJob, WorkerGoes
  <2> QED BY <2>1 DEF InThread, Between
<1>6. CASE Record(v)
  <2>0. /\ workerPc[v] = "record" /\ workerPc'[v] = "job" /\ slot' = slot
        /\ UNCHANGED <<runnerPc, orphans>> /\ CoreElse
    BY <1>1, <1>6 DEF Record, WorkerGoes, CoreElse
  <2>1. CASE slot[v] = None
    <3>1. UNCHANGED coreVars
      BY <1>6, <2>1 DEF Record, coreVars, stateVars, frameVars, dumpVars
    <3> QED BY <2>0, <3>1 DEF InThread, Between
  <2>2. CASE slot[v] # None
    <3>1. slot[v] = v /\ v \in alive
      BY <1>1, <2>0, <2>2 DEF EventsOpen, EntriesFollow, WorkerRuns
    <3>2. Adds(v)
      <4>1. AddEvent(Owner[v], v)
        BY <1>1, <1>6, <2>2, <3>1 DEF Record
      <4>2. ~InEvent(v)
        BY <1>1, <2>0, WorkerInEvent
      <4> QED BY <2>0, <4>1, <4>2 DEF Adds, AddEvent
    <3>3. InEvent(v)'
      BY <1>1, <2>0, <3>1 DEF InEvent
    <3>4. CASE v \in orphans
      BY <2>0, <3>1, <3>2, <3>3, <3>4 DEF InThread, Strays, Between
    <3>5. CASE v \notin orphans
      <4>1. JobsExist
        BY <1>1, <2>0, <3>5 DEF JobsWaitedFor, Busy
      <4>2. step = "idle" /\ ~Between
        BY <1>1, <4>1 DEF JobsWaitedFor, JobsExist, Between
      <4>3. on
        BY <1>1, <2>0, <2>2, <3>5 DEF OneOpen
      <4>4. Begins(v)
        BY <3>2, <4>2, <4>3 DEF Begins
      <4> QED BY <2>0, <3>1, <4>4 DEF InThread, Between
    <3> QED BY <3>4, <3>5
  <2> QED BY <2>1, <2>2
<1>7. CASE Finish(v)
  <2>1. workerPc[v] = "finish" /\ runnerPc' = runnerPc
    BY <1>7 DEF Finish, Return, WorkerGoes
  <2>2. Ends(v)
    BY <1>1, <1>7, <2>1 DEF Finish, EventsOpen, Ends, CoreElse
  <2> QED BY <1>1, <2>1, <2>2 DEF InThread, Between
<1> QED BY <1>2, <1>3, <1>5, <1>6, <1>7 DEF WorkerNext

LEMMA RunnerKinds ==
  ASSUME IInv, RunnerNext
  PROVE  \/ InThread /\ (Between' <=> Between)
         \/ EndFrame \/ BeginFrame \/ UpdateReturns \/ UpdateStep
<1>1. /\ EntriesFollow /\ StoragesFollow /\ JobsWaitedFor /\ ListOK
      /\ runnerPc \in RunnerPcs
      /\ tls \in [Threads -> Entries \cup {None}]
  BY DEF IInv, Typed, TypeOK, CoreTypeOK, EntriesFollow
<1>2. CASE RunnerRegister("register", "loop", "Update")
  <2>1. runnerPc = "register" /\ runnerPc' = "loop" /\ RegisterThread("Update") /\ CoreElse
    BY <1>2 DEF RunnerRegister, RunnerGoes, CoreElse
  <2>2. "Update" \notin ToSet(threads)
    BY <1>1, <2>1 DEF EntriesFollow
  <2> QED BY <2>1, <2>2, Owners DEF InThread, Registers, Between
<1>3. CASE RunnerRegister("scope", "end", "Frame")
  <2>1. runnerPc = "scope" /\ runnerPc' = "end" /\ RegisterThread("Frame") /\ CoreElse
    BY <1>3 DEF RunnerRegister, RunnerGoes, CoreElse
  <2>2. "Frame" \notin ToSet(threads)
    BY <1>1, <2>1 DEF EntriesFollow
  <2> QED BY <2>1, <2>2, Owners DEF InThread, Registers, Between
<1>4. CASE Loop \/ PollSize \/ PollRunning \/ FinishFrame
  <2>1. /\ runnerPc \in {"loop", "work", "running"}
        /\ runnerPc' \in {"scope", "end", "work", "running", "stop"}
        /\ UNCHANGED coreVars
    BY <1>4 DEF Loop, PollSize, PollRunning, FinishFrame, RunnerGoes
  <2> QED BY <2>1 DEF InThread, Between
<1>5. CASE StartFrame \/ StopFrame
  <2>1. runnerPc \in {"event", "stop"} /\ runnerPc' \in {"work", "loop"} /\ CoreElse
        /\ step = "idle" /\ UpdateRuns
    BY <1>1, <1>5 DEF StartFrame, StopFrame, RunnerGoes, CoreElse, JobsWaitedFor, UpdateRuns
  <2>2. CASE tls["update"] = None
    <3>1. UNCHANGED coreVars
      BY <1>5, <2>1, <2>2 DEF StartFrame, StopFrame, CoreElse, coreVars, stateVars, frameVars,
           dumpVars
    <3> QED BY <2>1, <3>1 DEF InThread, Between
  <2>3. CASE tls["update"] # None
    <3>1. on /\ tls["update"] = UpdateEntry
      BY <1>1, <2>1, <2>3 DEF StoragesFollow, Follows
    <3>2. UpdateEntry \in alive /\ UpdateEntry \in Entries /\ Owner[UpdateEntry] = "update"
      BY <1>1, <2>1, Owners DEF EntriesFollow, UpdateEntry
    <3>3. CASE StartFrame
      <4>1. ~InEvent(UpdateEntry)
        BY <2>1, <3>2, <3>3, Owners DEF InEvent, UpdateEntry, StartFrame, RunnerGoes
      <4>2. AddEvent(Owner[UpdateEntry], UpdateEntry)
        BY <2>3, <3>1, <3>2, <3>3 DEF StartFrame
      <4>3. Begins(UpdateEntry)
        BY <2>1, <3>1, <4>1, <4>2 DEF Begins, Adds, AddEvent, Between
      <4> QED BY <2>1, <3>2, <4>3 DEF InThread, Between
    <3>4. CASE StopFrame
      <4>1. Ends(UpdateEntry)
        BY <2>1, <2>3, <3>1, <3>2, <3>4 DEF StopFrame, Ends
      <4> QED BY <2>1, <3>2, <4>1 DEF InThread, Between
    <3> QED BY <1>5, <3>3, <3>4
  <2> QED BY <2>2, <2>3
<1>6. CASE RunnerUnregister
  <2>1. runnerPc = "loop" /\ runnerPc' = "ended" /\ Leaves("update")
    BY <1>6 DEF RunnerUnregister, RunnerGoes, Leaves, CoreElse
  <2> QED BY <2>1, Owners DEF InThread, Between
<1> QED BY <1>2, <1>3, <1>4, <1>5, <1>6 DEF RunnerNext

\* What a step does in Optick.
LEMMA Kinds ==
  ASSUME IInv, OneOpen, [Next]_vars
  PROVE  \/ InThread /\ (Between' <=> Between)
         \/ EndFrame \/ BeginFrame \/ UpdateReturns \/ UpdateStep
BY MainKinds, WorkerKinds, RunnerKinds DEF Next

\* A worker whose job was deleted never leaves the event that it is in.
LEMMA LooseLasts ==
  ASSUME IInv, [Next]_vars, NEW e \in orphans
  PROVE  e \in orphans' /\ (InEvent(e) => InEvent(e)')
<1>1. /\ e \in ToSet(Workers) /\ JobsWaitedFor /\ ThreadsExist /\ EventsOpen
      /\ workerPc \in [ToSet(Workers) -> WorkerPcs]
      /\ slot \in [ToSet(Workers) -> Entries \cup {None}]
  BY TeamAreWorkers DEF IInv, Typed, TypeOK
<1>2. /\ InEvent(e) <=> \/ workerPc[e] \in {"job", "finish"} /\ slot[e] = e
                        \/ workerPc[e] = "undefined"
      /\ e # None
  BY <1>1, WorkerInEvent
<1>3. ASSUME UNCHANGED <<workerPc, slot>>, orphans \subseteq orphans'
      PROVE  e \in orphans' /\ (InEvent(e) => InEvent(e)')
  BY <1>1, <1>2, <1>3 DEF InEvent
<1>4. CASE MainNext \/ Quit
  <2>1. ~CreateThreads
    BY <1>1 DEF CreateThreads, MainGoes, ThreadsExist, JobsWaitedFor, Busy
  <2>2. UNCHANGED <<workerPc, slot, orphans>>
    BY <1>4, <2>1 DEF MainNext, MainRegister, Quit, ShutDown, Join, JoinRunner,
         ShutdownOptick, LeaveScope, MainFrame
  <2> QED BY <1>3, <2>2
<1>5. CASE RunnerNext
  <2>1. UNCHANGED <<workerPc, slot>> /\ orphans \subseteq orphans'
    BY <1>5 DEF RunnerNext, RunnerRegister, Loop, EndFrame, UpdateStep, UpdateReturns,
         BeginFrame, StartFrame, PollSize, PollRunning, FinishFrame, StopFrame,
         RunnerUnregister, RunnerFrame, jobVars
  <2> QED BY <1>3, <2>1
<1>6. ASSUME NEW v \in Team, WorkerNext(v)
      PROVE  e \in orphans' /\ (InEvent(e) => InEvent(e)')
  <2>1. /\ orphans' = orphans
        /\ \E to : workerPc' = [workerPc EXCEPT ![v] = to]
        /\ slot' = slot \/ \E x : slot' = [slot EXCEPT ![v] = x]
    BY <1>6 DEF WorkerNext, WorkerRegister, TakeJob, Reorder, PutBack, TouchDeleted, Record,
         StopJob, Return, Finish, WorkerUnregister, WorkerGoes
  <2>2. CASE v # e
    <3>1. workerPc'[e] = workerPc[e] /\ slot'[e] = slot[e]
      BY <1>1, <2>1, <2>2
    <3> QED BY <1>1, <1>2, <2>1, <3>1 DEF InEvent
  <2>3. ASSUME v = e, InEvent(e)
        PROVE  InEvent(e)'
    <3>1. workerPc[e] \in {"job", "finish"} /\ slot[e] = e
      BY <1>2, <1>6, <2>3 DEF WorkerNext, WorkerRegister, TakeJob, Reorder, PutBack,
           TouchDeleted, Record, StopJob, Return, Finish, WorkerUnregister, WorkerGoes, Defined
    <3>2. CASE StopJob(e)
      <4>1. \/ workerPc' = [workerPc EXCEPT ![e] = "finish"] /\ slot' = slot
            \/ workerPc' = [workerPc EXCEPT ![e] = "undefined"]
        BY <3>2 DEF StopJob, Return, WorkerGoes
      <4> QED BY <1>1, <3>1, <4>1 DEF InEvent
    <3>3. CASE Finish(e)
      <4>1. workerPc' = [workerPc EXCEPT ![e] = "undefined"]
        BY <3>3 DEF Finish, Return, WorkerGoes
      <4> QED BY <1>1, <4>1 DEF InEvent
    <3> QED BY <1>6, <2>3, <3>1, <3>2, <3>3 DEF WorkerNext, WorkerRegister, TakeJob, Reorder,
         PutBack, TouchDeleted, Record, WorkerUnregister, WorkerGoes
  <2> QED BY <2>1, <2>2, <2>3
<1>7. CASE UNCHANGED vars
  BY <1>3, <1>7 DEF vars
<1> QED BY <1>4, <1>5, <1>6, <1>7 DEF Next

LEMMA LooseStays ==
  ASSUME IInv, [Next]_vars, NEW e, NEW i, Loose(e, i), Len(storage'[e]) = Len(storage[e])
  PROVE  Loose(e, i)'
BY LooseLasts DEF Loose

-----------------------------------------------------------------------------
(* What the steps of the threads do to the events.                         *)

\* What NewEvent records is in its storage, after what was there.
LEMMA EventAdded ==
  ASSUME storage \in [Entries -> Seq(Event)], captures \in Nat, frameNumber \in Nat,
         NEW e \in Entries, AddEvent(Owner[e], e)
  PROVE  /\ \A f \in Entries : f # e => storage'[f] = storage[f]
         /\ Len(storage[e]) \in Nat /\ Len(storage'[e]) = Len(storage[e]) + 1
         /\ \A i \in 1 .. Len(storage[e]) : storage'[e][i] = storage[e][i]
         /\ storage'[e][Len(storage[e]) + 1].by = Owner[e]
         /\ storage'[e][Len(storage[e]) + 1].frame = frameNumber
         /\ storage'[e][Len(storage[e]) + 1].capture = captures
         /\ Unended(storage'[e]) = Unended(storage[e]) \cup {Len(storage[e]) + 1}
<1> DEFINE y == NewEvent(Owner[e])
           s == storage[e]
           r == Append(s, y)
<1>1. /\ y.by = Owner[e] /\ y.frame = frameNumber /\ y.capture = captures
      /\ y.finished = FALSE
  BY DEF NewEvent
<1>2. y \in Event
  BY Owners DEF NewEvent, Event
<1>3. storage' = [storage EXCEPT ![e] = r]
  BY DEF AddEvent
<1>4. s \in Seq(Event) /\ Len(s) \in Nat
  BY LenProperties
<1>5. /\ Len(r) = Len(s) + 1
      /\ \A i \in 1 .. Len(s) : r[i] = s[i]
      /\ r[Len(s) + 1] = y
  BY <1>2, <1>4, AppendProperties
<1> HIDE DEF y, r, s
<1>6. Unended(r) = Unended(s) \cup {Len(s) + 1}
  BY <1>1, <1>4, <1>5 DEF Unended
<1>7. storage'[e] = r /\ \A f \in Entries : f # e => storage'[f] = storage[f]
  BY <1>3
<1> QED BY <1>1, <1>4, <1>5, <1>6, <1>7 DEF s

\* Event::Stop ends the event that is open and leaves all else of the events alone.
LEMMA EventEnded ==
  ASSUME storage \in [Entries -> Seq(Event)], NEW e \in Entries, NEW t, FinishEvent(t, e)
  PROVE  /\ \A f \in Entries : f # e => storage'[f] = storage[f]
         /\ Len(storage'[e]) = Len(storage[e])
         /\ \A i \in 1 .. Len(storage[e]) :
              /\ storage'[e][i].by = storage[e][i].by
              /\ storage'[e][i].frame = storage[e][i].frame
              /\ storage'[e][i].capture = storage[e][i].capture
         /\ Unended(storage'[e]) = Unended(storage[e]) \ {Open(t, e)}
<1> DEFINE s == storage[e]
           k == Open(t, e)
           r == [s EXCEPT ![k].finished = TRUE]
<1>1. s \in Seq(Event) /\ Len(s) \in Nat /\ s \in [1 .. Len(s) -> Event]
  BY LenProperties
<1>2. CASE k = 0
  <2>1. storage' = storage
    BY <1>2 DEF FinishEvent
  <2>2. 0 \notin Unended(s)
    BY <1>1 DEF Unended
  <2> QED BY <1>2, <2>1, <2>2
<1>3. CASE k # 0
  <2>1. storage' = [storage EXCEPT ![e] = r]
    BY <1>3 DEF FinishEvent
  <2>2. storage'[e] = r /\ \A f \in Entries : f # e => storage'[f] = storage[f]
    BY <2>1
  <2>3. r \in Seq(Event)
    BY <2>2, Finishing
  <2> HIDE DEF s, k
  <2>4. DOMAIN r = 1 .. Len(s)
    BY <1>1
  <2>5. Len(r) = Len(s)
    BY <1>1, <2>3, <2>4, LenProperties
  <2>6. ASSUME NEW i \in 1 .. Len(s)
        PROVE  /\ r[i].by = s[i].by /\ r[i].frame = s[i].frame /\ r[i].capture = s[i].capture
               /\ r[i].finished = IF i = k THEN TRUE ELSE s[i].finished
    <3>1. s[i] \in Event
      BY <1>1
    <3>2. CASE i = k
      <4>1. r[i] = [s[i] EXCEPT !.finished = TRUE]
        BY <1>1, <3>2
      <4>2. PICK y \in Event : y = s[i]
        BY <3>1
      <4>3. /\ [y EXCEPT !.finished = TRUE].by = y.by
            /\ [y EXCEPT !.finished = TRUE].frame = y.frame
            /\ [y EXCEPT !.finished = TRUE].capture = y.capture
            /\ [y EXCEPT !.finished = TRUE].finished = TRUE
        BY DEF Event
      <4> QED BY <3>2, <4>1, <4>2, <4>3
    <3>3. CASE i # k
      BY <1>1, <3>3
    <3> QED BY <3>2, <3>3
  <2> HIDE DEF r
  <2>7. Unended(r) = Unended(s) \ {k}
    BY <2>5, <2>6 DEF Unended
  <2> QED BY <2>2, <2>5, <2>6, <2>7 DEF s, k
<1> QED BY <1>2, <1>3

\* The end of a thread leaves the storage of an entry or, when no capture runs,
\* empties it and takes the entry from the list.
LEMMA EntryLeft ==
  ASSUME ListOK, storage \in [Entries -> Seq(Event)], NEW t, UnRegisterThread(t)
  PROVE  /\ alive' \subseteq alive
         /\ ToSet(threads') \subseteq ToSet(threads)
         /\ \A e \in ToSet(threads) \ ToSet(threads') : e \in Entries /\ storage'[e] = <<>>
         /\ \A e \in Entries :
              \/ storage'[e] = storage[e]
              \/ storage'[e] = <<>> /\ ~on /\ e \notin alive'
<1>1. \A i \in DOMAIN threads : threads[i] \in Entries
  BY ElementOfSeq, LenProperties DEF ListOK
<1>2. CASE Registered(t) = {}
  BY <1>2 DEF UnRegisterThread
<1>3. CASE Registered(t) # {}
  <2> DEFINE m == Min(Registered(t))
  <2>1. m \in Registered(t)
    BY <1>3, FirstPlace DEF Registered, ListOK
  <2> HIDE DEF m
  <2>2. m \in DOMAIN threads /\ threads[m] \in Entries
    BY <1>1, <2>1 DEF Registered
  <2>3. CASE ~on
    <3>1. /\ threads' = RemoveAt(threads, m) /\ alive' = alive \ {threads[m]}
          /\ storage' = [storage EXCEPT ![threads[m]] = <<>>]
      BY <1>3, <2>3 DEF UnRegisterThread, Delete, m
    <3>2. ToSet(threads') = ToSet(threads) \ {threads[m]}
      BY <2>2, <3>1, Removed DEF ListOK
    <3> QED BY <2>2, <2>3, <3>1, <3>2
  <2>4. CASE on
    BY <1>3, <2>4 DEF UnRegisterThread, Retire
  <2> QED BY <2>3, <2>4
<1> QED BY <1>2, <1>3

LEMMA NoneIn ==
  ASSUME NEW s, s = <<>>
  PROVE  Len(s) = 0 /\ ToSet(s) = {} /\ Unended(s) = {}
BY EmptySeq DEF ToSet, Unended

-----------------------------------------------------------------------------
(* The frames.                                                             *)

LEMMA ThreadsLeaveFrames ==
  ASSUME InThread
  PROVE  UNCHANGED <<stateVars, frameVars, dumpVars>>
BY DEF InThread, Registers, Leaves, ShutdownOptick, Begins, Strays, Adds, Ends, CoreElse, coreVars,
     stateVars, frameVars, dumpVars

LEMMA UpdateKeepsFrames ==
  ASSUME IInv, FramesFollow, UpdateStep
  PROVE  FramesFollow'
<1>1. /\ on \in BOOLEAN /\ state \in States /\ pending \in States /\ captures \in Nat
      /\ ModeFollows /\ runnerPc' = runnerPc /\ Between
  BY DEF IInv, Typed, TypeOK, CoreTypeOK, UpdateStep, Between
<1> USE DEF FramesFollow, NextState, States
<1>2. CASE CheckLimit
  BY <1>1, <1>2 DEF CheckLimit, Between, frameVars
<1>3. CASE ApplyMessage
  BY <1>1, <1>3 DEF ApplyMessage, Between, frameVars
<1>4. CASE EventsDone
  BY <1>1, <1>4 DEF EventsDone, Between, frameVars
<1>5. CASE SetMode
  <2>1. /\ step = "state" /\ state # pending /\ NextState # "dump"
        /\ (on' => NextState = "start") /\ (on => NextState # "start")
        /\ UNCHANGED <<frames, frameNumber, pending>> /\ Between'
    <3>1. /\ step = "state" /\ state # pending /\ NextState # "dump"
          /\ (on' => NextState = "start")
          /\ UNCHANGED <<frames, frameNumber, pending>> /\ Between'
      BY <1>1, <1>5 DEF SetMode, frameVars, Between
    <3>2. on => NextState # "start"
      BY <1>1, <3>1 DEF ModeFollows
    <3> QED BY <3>1, <3>2
  <2>2. state # "stop"
    BY <2>1
  <2>3. CASE on' = on
    <3>1. state' = NextState /\ UNCHANGED <<step, captures, cancelled>>
      BY <1>5, <2>3 DEF SetMode
    <3>2. ~on /\ ~on'
      BY <1>1, <2>1, <2>3
    <3>3. state' = "stop" => pending' = "dump"
      BY <2>1, <3>1
    <3> QED BY <1>1, <2>1, <2>2, <3>1, <3>2, <3>3
  <2>4. CASE on' # on
    <3>1. /\ step' = "activate" /\ captures' = (IF on' THEN captures + 1 ELSE captures)
          /\ cancelled' = (cancelled \/ NextState = "cancel") /\ state' = state
      BY <1>5, <2>4 DEF SetMode
    <3>2. NextState' = NextState
      BY <2>1, <3>1
    <3>3. CASE on'
      <4>1. ~cancelled' => frames' = <<>>
        BY <1>1, <2>1, <2>2, <2>4, <3>1, <3>3
      <4> QED BY <1>1, <2>1, <2>2, <2>4, <3>1, <3>2, <3>3, <4>1, EmptySeq
    <3>4. CASE ~on'
      <4>1. on
        <5>1. on' \in BOOLEAN
          BY <1>5 DEF SetMode
        <5> QED BY <1>1, <2>4, <3>4, <5>1
      <4>2. NextState \in {"stop", "cancel"}
        BY <1>1, <2>1, <4>1
      <4>3. cancelled' \/ NextState' = "stop"
        BY <3>1, <3>2, <4>2
      <4> QED BY <1>1, <2>1, <2>2, <3>1, <3>2, <3>4, <4>1, <4>3
    <3> QED BY <3>3, <3>4
  <2> QED BY <2>3, <2>4
<1>6. CASE ActivateThreads
  BY <1>1, <1>6 DEF ActivateThreads, Between, frameVars, ModeFollows
<1>7. CASE BeginDump
  BY <1>1, <1>7 DEF BeginDump, Between, frameVars
<1>8. CASE DumpThread \/ CleanupThread
  <2>1. UNCHANGED <<stateVars, frameVars, runnerPc>>
    BY <1>1, <1>8 DEF DumpThread, CleanupThread
  <2> QED BY <1>1, <2>1 DEF stateVars, frameVars, Between
<1>9. CASE EndDump
  <2>1. /\ frames' = <<>> /\ state' = "dump" /\ step' = "state" /\ on' = on
        /\ UNCHANGED <<pending, frameNumber>> /\ Between'
    BY <1>1, <1>9 DEF EndDump, Between
  <2> QED BY <2>1, EmptySeq
<1> QED BY <1>2, <1>3, <1>4, <1>5, <1>6, <1>7, <1>8, <1>9 DEF UpdateStep, Update

\* The frames to be sent are those of the last capture (optick_core.cpp:1218-1262,
\* 1342-1357).
LEMMA FramesStay ==
  ASSUME IInv, OneOpen, FramesFollow, [Next]_vars
  PROVE  FramesFollow'
<1>1. /\ on \in BOOLEAN /\ captures \in Nat /\ frameNumber \in Nat /\ ModeFollows
      /\ JobsWaitedFor
  BY DEF IInv, Typed, TypeOK, CoreTypeOK
<1>2. CASE InThread /\ (Between' <=> Between)
  BY <1>2, ThreadsLeaveFrames DEF FramesFollow, NextState, stateVars, frameVars
<1>3. CASE EndFrame
  <2>1. /\ runnerPc' = "update" /\ step = "idle" /\ step' = "limit"
        /\ UNCHANGED <<on, state, pending, captures, cancelled, frameNumber>>
        /\ frames' = IF on /\ frames # <<>>
                     THEN [frames EXCEPT ![Len(frames)].ended = TRUE]
                     ELSE frames
    BY <1>1, <1>3 DEF EndFrame, EndUpdateFrame, RunnerGoes, JobsWaitedFor
  <2>2. CASE on /\ frames # <<>>
    <3> DEFINE n == Len(frames)
               f == [frames[n] EXCEPT !.ended = TRUE]
    <3>1. frames \in [1 .. n -> Frame] /\ n \in Nat /\ n # 0
      BY <2>2, EmptySeq, LenProperties DEF FramesFollow
    <3>2. frames[n] \in Frame
      BY <3>1
    <3>3. f \in Frame /\ f.capture = frames[n].capture
      BY <3>2 DEF Frame
    <3>4. frames' = [frames EXCEPT ![n] = f]
      BY <2>1, <2>2
    <3> HIDE DEF f, n
    <3>5. frames' \in [1 .. n -> Frame]
      BY <3>1, <3>3, <3>4
    <3>6. frames' \in Seq(Frame)
      BY <3>1, <3>5, SeqDef
    <3>7. DOMAIN frames' = DOMAIN frames
          /\ \A i \in DOMAIN frames : frames'[i].capture = frames[i].capture
      BY <3>1, <3>3, <3>4
    <3> QED BY <2>1, <2>2, <3>6, <3>7 DEF FramesFollow, Between, NextState
  <2>3. CASE ~(on /\ frames # <<>>)
    BY <2>1, <2>3 DEF FramesFollow, Between, NextState
  <2> QED BY <2>2, <2>3
<1>4. CASE BeginFrame
  <2>1. /\ runnerPc' = "event" /\ step = "idle" /\ frameNumber' = frameNumber + 1
        /\ UNCHANGED <<on, state, pending, captures, cancelled, step>>
    BY <1>1, <1>4 DEF BeginFrame, BeginUpdateFrame, RunnerGoes, JobsWaitedFor, stateVars
  <2>2. CASE on
    <3> DEFINE f == [number |-> frameNumber + 1, capture |-> captures, ended |-> FALSE]
               n == Len(frames)
    <3>1. frames' = Append(frames, f)
      BY <1>4, <2>2 DEF BeginFrame, BeginUpdateFrame
    <3>2. f \in Frame /\ f.number = frameNumber + 1 /\ f.capture = captures
      BY <1>1 DEF Frame
    <3> HIDE DEF f
    <3>3. /\ frames' \in Seq(Frame) /\ Len(frames') = n + 1 /\ n \in Nat
          /\ DOMAIN frames' = 1 .. n + 1 /\ DOMAIN frames = 1 .. n
          /\ \A i \in 1 .. n : frames'[i] = frames[i]
          /\ frames'[n + 1] = f
      BY <3>1, <3>2, AppendProperties, LenProperties DEF FramesFollow
    <3> HIDE DEF n
    <3>4. frames' # <<>>
      BY <3>3, EmptySeq
    <3>5. ~cancelled => \A i \in DOMAIN frames' : frames'[i].capture = captures
      BY <3>2, <3>3 DEF FramesFollow
    <3> QED BY <2>1, <2>2, <3>2, <3>3, <3>4, <3>5 DEF FramesFollow, NextState
  <2>3. CASE ~on
    <3>1. frames' = frames
      BY <1>4, <2>3 DEF BeginFrame, BeginUpdateFrame
    <3> QED BY <2>1, <2>3, <3>1 DEF FramesFollow, NextState
  <2> QED BY <2>2, <2>3
<1>5. CASE UpdateReturns
  <2>1. /\ runnerPc' = "begin" /\ step' = "idle" /\ step = "state" /\ state = pending
        /\ UNCHANGED <<on, state, pending, captures, cancelled, frames, frameNumber>>
    BY <1>5 DEF UpdateReturns, UpdateDone, RunnerGoes, frameVars
  <2> QED BY <2>1 DEF FramesFollow, Between, NextState
<1>6. CASE UpdateStep
  BY <1>6, UpdateKeepsFrames
<1> QED BY <1>2, <1>3, <1>4, <1>5, <1>6, Kinds

-----------------------------------------------------------------------------
(* The list and the storages during a dump.                                *)

\* Event::Stop puts nothing into an empty storage.
LEMMA EmptyStays ==
  ASSUME storage \in [Entries -> Seq(Event)], NEW e \in Entries, NEW t, FinishEvent(t, e),
         NEW f \in Entries, storage[f] = <<>>
  PROVE  storage'[f] = <<>>
<1>1. CASE f # e
  BY <1>1, EventEnded
<1>2. CASE f = e
  <2>1. Len(storage'[f]) = 0
    BY <1>2, EventEnded, EmptySeq
  <2>2. storage'[f] \in Seq(Event)
    BY Finishing
  <2> QED BY <2>1, <2>2, EmptySeq
<1> QED BY <1>1, <1>2

\* When a dump has gone through its list nothing is left in any storage, unless a
\* worker has recorded it whose job was deleted.
LEMMA AllSent ==
  ASSUME DumpFollows, Dumped, ReportOK, NEW e \in Entries, NEW i \in 1 .. Len(storage[e])
  PROVE  Loose(e, i)
<1>1. /\ step = "dump" /\ Len(report.events) = Len(report.list)
      /\ ToSet(threads) \subseteq ToSet(report.list)
      /\ \A j \in 1 .. Len(report.events) : \A k \in 1 .. Len(storage[report.list[j]]) :
           Loose(report.list[j], k)
  BY DEF DumpFollows, Dumped
<1>2. report.list \in Seq(Entries)
  BY DEF ReportOK
<1>3. e \in ToSet(threads)
  <2>1. storage[e] # <<>>
    BY NoneIn
  <2> QED BY <2>1 DEF DumpFollows
<1>4. PICK j \in DOMAIN report.list : report.list[j] = e
  BY <1>1, <1>3 DEF ToSet
<1>5. j \in 1 .. Len(report.events)
  BY <1>1, <1>2, <1>4, LenProperties
<1> QED BY <1>1, <1>4, <1>5

LEMMA LooseAlive ==
  ASSUME IInv, NEW e, NEW i, Loose(e, i)
  PROVE  e \in alive
<1>1. e \in ToSet(Workers) /\ (Busy(e) \/ workerPc[e] = "undefined")
  BY TeamAreWorkers DEF Loose, IInv, Typed, TypeOK, JobsWaitedFor
<1>2. WorkerRuns(e)
  BY <1>1 DEF Busy, WorkerRuns
<1> QED BY <1>1, <1>2 DEF IInv, EntriesFollow

\* A step of a thread adds to what a dump has gone through the event of a worker
\* whose job was deleted, or nothing.
LEMMA DumpKept ==
  ASSUME IInv, DumpFollows, [Next]_vars, UNCHANGED <<threads, step, frames, report>>,
         \A e \in Entries \ ToSet(threads) : storage'[e] = <<>>,
         \A e \in Entries : \A i \in 1 .. Len(storage'[e]) :
           \/ Loose(e, i)'
           \/ i \in 1 .. Len(storage[e]) /\ Len(storage'[e]) = Len(storage[e])
  PROVE  DumpFollows'
<1>1. ASSUME step = "dump", NEW j \in 1 .. Len(report.events),
             NEW i \in 1 .. Len(storage'[report.list[j]])
      PROVE  Loose(report.list[j], i)'
  <2>1. report.list[j] \in Entries
    <3>1. report.list \in Seq(Entries) /\ Len(report.events) <= Len(report.list)
          /\ Len(report.events) \in Nat
      BY LenProperties DEF IInv, Typed, TypeOK, CoreTypeOK
    <3> QED BY <3>1, LenProperties, ElementOfSeq
  <2> QED BY <1>1, <2>1, LooseStays DEF DumpFollows
<1> QED BY <1>1 DEF DumpFollows

LEMMA ThreadsLeaveDump ==
  ASSUME IInv, DumpFollows, InThread, [Next]_vars
  PROVE  DumpFollows'
<1>1. /\ storage \in [Entries -> Seq(Event)] /\ captures \in Nat /\ frameNumber \in Nat
      /\ ListOK /\ alive \subseteq Entries /\ (locked <=> step = "dump") /\ ReportOK
  <2>1. ListOK /\ CoreTypeOK
    BY DEF IInv, Typed, TypeOK, EntriesFollow
  <2> QED BY <2>1 DEF IInv, Typed, CoreTypeOK, ListOK, ReportOK
<1>2. UNCHANGED <<step, frames, report>>
  BY ThreadsLeaveFrames DEF stateVars, frameVars, dumpVars
<1>3. ASSUME step # "dump",
             \A e \in Entries \ ToSet(threads') : storage'[e] = <<>>
      PROVE  DumpFollows'
  BY <1>2, <1>3 DEF DumpFollows
<1>4. CASE UNCHANGED coreVars
  <2>1. threads' = threads /\ storage' = storage
    BY <1>4 DEF coreVars
  <2> QED BY <1>2, <2>1, DumpKept DEF DumpFollows
<1>5. ASSUME NEW e \in Entries, Registers(e)
      PROVE  DumpFollows'
  <2>1. threads' = Append(threads, e) /\ storage' = storage /\ step # "dump"
    BY <1>1, <1>5 DEF Registers, RegisterThread
  <2>2. ToSet(threads) \subseteq ToSet(Append(threads, e))
    <3>1. DOMAIN threads = 1 .. Len(threads) /\ Len(threads) \in Nat
          /\ DOMAIN Append(threads, e) = 1 .. Len(threads) + 1
          /\ \A i \in 1 .. Len(threads) : Append(threads, e)[i] = threads[i]
      BY <1>1, AppendProperties, LenProperties DEF ListOK
    <3> QED BY <3>1 DEF ToSet
  <2> QED BY <1>3, <2>1, <2>2 DEF DumpFollows
<1>6. ASSUME NEW t \in Threads, Leaves(t)
      PROVE  DumpFollows'
  <2>1. step # "dump" /\ UnRegisterThread(t)
    BY <1>1, <1>6 DEF Leaves, UnRegisterThread
  <2>2. /\ \A e \in ToSet(threads) \ ToSet(threads') : storage'[e] = <<>>
        /\ \A e \in Entries : storage'[e] \in {storage[e], <<>>}
    BY <1>1, <2>1, EntryLeft
  <2> QED BY <1>3, <2>1, <2>2 DEF DumpFollows
<1>7. CASE ShutdownOptick
  <2>1. step # "dump" /\ storage' = [e \in Entries |-> <<>>]
    BY <1>1, <1>7 DEF ShutdownOptick, Shutdown
  <2> QED BY <1>3, <2>1
<1>8. ASSUME NEW e \in alive, Adds(e), step = "idle" \/ (e \in orphans /\ InEvent(e)')
      PROVE  DumpFollows'
  <2>1. e \in Entries /\ AddEvent(Owner[e], e) /\ threads' = threads /\ e \in ToSet(threads)
        /\ ~InEvent(e)
    BY <1>1, <1>8 DEF Adds, AddEvent, ListOK
  <2>2. /\ \A f \in Entries : f # e => storage'[f] = storage[f]
        /\ Len(storage'[e]) = Len(storage[e]) + 1
    BY <1>1, <2>1, EventAdded
  <2>3. CASE step = "idle"
    BY <1>3, <2>1, <2>2, <2>3 DEF DumpFollows
  <2>4. CASE step = "dump" /\ e \in orphans /\ InEvent(e)'
\* What a dump has gone through is empty before the event is recorded.
    <3>1. ASSUME NEW j \in 1 .. Len(report.events), NEW f, f = report.list[j],
                 NEW i \in 1 .. Len(storage'[f])
          PROVE  Loose(f, i)'
      <4>1. f \in Entries /\ Len(storage[f]) \in Nat
        <5>1. report.list \in Seq(Entries) /\ Len(report.events) <= Len(report.list)
              /\ Len(report.events) \in Nat
          BY <1>1, LenProperties DEF ReportOK
        <5>2. f \in Entries
          BY <3>1, <5>1, LenProperties, ElementOfSeq
        <5> QED BY <1>1, <5>2, LenProperties
      <4>2. \A k \in 1 .. Len(storage[f]) : Loose(f, k)
        BY <2>4, <3>1 DEF DumpFollows
      <4>3. CASE f # e
        BY <2>2, <4>1, <4>2, <4>3, LooseStays
      <4>4. CASE f = e
        <5>1. ~\E k \in 1 .. Len(storage[f]) : TRUE
          BY <2>1, <4>2, <4>4 DEF Loose
        <5>2. Len(storage[f]) = 0
          BY <4>1, <5>1
        <5>3. Len(storage'[f]) = 1
          BY <2>2, <4>4, <5>2
        <5>4. i = Len(storage'[f])
          BY <5>3
        <5>5. f \in orphans' /\ InEvent(f)'
          BY <2>4, <4>4, LooseLasts
        <5> QED BY <5>4, <5>5 DEF Loose
      <4> QED BY <4>3, <4>4
    <3>2. \A j \in 1 .. Len(report'.events) : \A i \in 1 .. Len(storage'[report'.list[j]]) :
            Loose(report.list[j], i)'
      BY <1>2, <3>1
    <3> QED BY <1>2, <2>1, <2>2, <3>2 DEF DumpFollows
  <2>5. CASE step # "dump"
    BY <1>3, <2>1, <2>2, <2>5 DEF DumpFollows
  <2> QED BY <1>8, <2>3, <2>4, <2>5
<1>9. ASSUME NEW e \in Entries, Ends(e)
      PROVE  DumpFollows'
  <2>1. FinishEvent(Owner[e], e) /\ threads' = threads
    BY <1>9 DEF Ends, FinishEvent
  <2>2. \A f \in Entries : storage[f] = <<>> => storage'[f] = <<>>
    BY <1>1, <2>1, EmptyStays
  <2>3. \A f \in Entries : Len(storage'[f]) = Len(storage[f])
    BY <1>1, <2>1, EventEnded
  <2> QED BY <1>2, <2>1, <2>2, <2>3, DumpKept DEF DumpFollows
<1> QED BY <1>4, <1>5, <1>6, <1>7, <1>8, <1>9 DEF InThread, Begins, Strays

LEMMA UpdateKeepsDump ==
  ASSUME IInv, DumpFollows, UpdateStep, [Next]_vars
  PROVE  DumpFollows'
<1>1. /\ storage \in [Entries -> Seq(Event)] /\ ListOK /\ ReportOK
  <2>1. ListOK /\ CoreTypeOK
    BY DEF IInv, Typed, TypeOK, EntriesFollow
  <2> QED BY <2>1 DEF IInv, Typed, CoreTypeOK, ListOK, ReportOK
<1>2. CASE CheckLimit \/ ApplyMessage \/ EventsDone \/ SetMode \/ EndDump
  <2>1. step' # "dump" /\ UNCHANGED <<threads, storage>>
    BY <1>2 DEF CheckLimit, ApplyMessage, EventsDone, SetMode, EndDump, threadVars
  <2> QED BY <2>1 DEF DumpFollows
<1>3. CASE ActivateThreads
  <2>1. /\ step' # "dump" /\ threads' = threads
        /\ \A e \in Entries : storage'[e] = ClearedFor(e)
    BY <1>3 DEF ActivateThreads
  <2> QED BY <2>1 DEF DumpFollows, ClearedFor
<1>4. CASE BeginDump
  <2>1. /\ UNCHANGED <<threads, storage, frames>> /\ report'.list = threads
        /\ report'.frames = frames /\ Len(report'.events) = 0
    BY <1>4, EmptySeq DEF BeginDump, threadVars, frameVars
  <2> QED BY <2>1 DEF DumpFollows
<1>5. CASE DumpThread
  <2> DEFINE n == Len(report.events)
             e == threads[n + 1]
  <2>1. /\ step = "dump" /\ n + 1 \in DOMAIN report.list
        /\ storage' = [storage EXCEPT ![e] = <<>>]
        /\ UNCHANGED <<threads, step, frames>>
    BY <1>5 DEF DumpThread, stateVars, frameVars
  <2>2. PICK sent : report' = [report EXCEPT !.events = Append(@, sent)]
    BY <1>5, Zenon DEF DumpThread
  <2>3. PICK F, S : report \in [list : Seq(Entries), frames : F, events : Seq(S)]
    BY <1>1 DEF ReportOK
  <2>4. n \in Nat /\ n < Len(report.list) /\ threads = report.list
        /\ n + 1 \in 1 .. Len(report.list)
    BY <2>1, <2>3, LenProperties DEF DumpFollows
  <2>5. report'.list = report.list /\ report'.frames = report.frames
        /\ report'.events = Append(report.events, sent)
    BY <2>2, <2>3
  <2>6. Len(report'.events) = n + 1
    <3>1. report.events \in Seq(S \cup {sent})
      BY <2>3, SeqMonotonic
    <3> QED BY <2>5, <3>1, AppendProperties
  <2>7. e \in Entries
    BY <2>3, <2>4, ElementOfSeq
  <2>8. storage'[e] = <<>> /\ \A f \in Entries : f # e => storage'[f] = storage[f]
    BY <1>1, <2>1, <2>7
  <2>9. \A f \in Entries : storage[f] = <<>> => storage'[f] = <<>>
    BY <2>8
  <2>10. \A j \in 1 .. n + 1 : \A i \in 1 .. Len(storage'[report.list[j]]) :
           Loose(report.list[j], i)'
    <3> HIDE DEF n, e
    <3> SUFFICES ASSUME NEW j \in 1 .. n + 1, NEW f, f = report.list[j],
                        NEW i \in 1 .. Len(storage'[f])
                 PROVE  Loose(f, i)'
      BY <2>5
    <3>1. f # e
      BY <2>8, NoneIn
    <3>2. j \in 1 .. n
      BY <2>4, <3>1 DEF e
    <3>3. f \in Entries
      BY <2>3, <2>4, <3>2, ElementOfSeq
    <3>4. storage'[f] = storage[f]
      BY <2>8, <3>1, <3>3
    <3>5. Loose(f, i)
      BY <2>1, <3>2, <3>4 DEF DumpFollows, n
    <3> QED BY <3>4, <3>5, LooseStays
  <2> HIDE DEF n, e
  <2>11. \A f \in Entries \ ToSet(threads) : storage'[f] = <<>>
    BY <2>9 DEF DumpFollows
  <2>12. ToSet(threads) \subseteq ToSet(report.list) /\ report.frames = frames
    BY <2>1 DEF DumpFollows
  <2> QED BY <2>1, <2>4, <2>5, <2>6, <2>10, <2>11, <2>12 DEF DumpFollows
<1>6. CASE CleanupThread
  <2>1. Dumped /\ UNCHANGED <<storage, report, frames, step>>
    BY <1>6 DEF CleanupThread, stateVars, frameVars, dumpVars
  <2>2. /\ ToSet(threads') \subseteq ToSet(threads)
        /\ ToSet(threads) \ ToSet(threads') \subseteq Entries \ alive
    <3>1. ListOK' /\ ToSet(threads') \subseteq ToSet(threads) /\ alive' = alive
      BY <1>1, <1>6, CleaningUp
    <3>2. \A i \in DOMAIN threads : threads[i] \in Entries
      BY <1>1, ElementOfSeq, LenProperties DEF ListOK
    <3>3. alive \subseteq ToSet(threads')
      BY <3>1 DEF ListOK
    <3> QED BY <3>1, <3>2, <3>3 DEF ToSet
  <2>3. \A f \in Entries \ ToSet(threads') : storage[f] = <<>>
    <3> TAKE f \in Entries \ ToSet(threads')
    <3>1. CASE f \notin ToSet(threads)
      BY <3>1 DEF DumpFollows
    <3>2. CASE f \in ToSet(threads)
      <4>1. ~\E i \in 1 .. Len(storage[f]) : TRUE
        BY <1>1, <2>1, <2>2, <3>2, AllSent, LooseAlive
      <4>2. storage[f] \in Seq(Event) /\ Len(storage[f]) \in Nat
        BY <1>1, LenProperties
      <4>3. Len(storage[f]) = 0
        BY <4>1, <4>2
      <4> QED BY <4>2, <4>3, EmptySeq
    <3> QED BY <3>1, <3>2
  <2>4. ~(Len(report.events) < Len(report.list))
    BY <1>1, <2>1, LenProperties DEF Dumped, ReportOK
  <2>5. UNCHANGED <<orphans, workerPc, slot, runnerPc, tls>>
    BY <1>6 DEF UpdateStep, RunnerFrame, jobVars, CleanupThread
  <2>6. ASSUME NEW j \in 1 .. Len(report.events), NEW i \in 1 .. Len(storage[report.list[j]])
        PROVE  Loose(report.list[j], i)'
    BY <2>1, <2>5 DEF DumpFollows, Dumped, Loose, InEvent
  <2> QED BY <2>1, <2>2, <2>3, <2>4, <2>6 DEF DumpFollows
<1> QED BY <1>2, <1>3, <1>4, <1>5, <1>6 DEF UpdateStep, Update

\* A dump sends the storages of the list that it began with, and the entries it
\* removes have none (optick_core.cpp:1009-1094).
LEMMA DumpStays ==
  ASSUME IInv, OneOpen, DumpFollows, [Next]_vars
  PROVE  DumpFollows'
<1>1. CASE EndFrame \/ BeginFrame \/ UpdateReturns
  <2>1. UNCHANGED <<threads, storage>>
    BY <1>1 DEF EndFrame, BeginFrame, UpdateReturns, UpdateDone, threadVars
  <2>2. step' # "dump"
    BY <1>1 DEF EndFrame, BeginFrame, UpdateReturns, UpdateDone, RunnerGoes, stateVars, IInv,
         JobsWaitedFor
  <2> QED BY <2>1, <2>2 DEF DumpFollows
<1> QED BY <1>1, Kinds, ThreadsLeaveDump, UpdateKeepsDump

-----------------------------------------------------------------------------
(* The events of a capture.                                                *)

\* What the invariants below need of the types.
CoreOK ==
  /\ storage \in [Entries -> Seq(Event)] /\ captures \in Nat /\ frameNumber \in Nat
  /\ ListOK /\ alive \subseteq Entries /\ alive \subseteq ToSet(threads)
  /\ on \in BOOLEAN /\ cancelled \in BOOLEAN
  /\ (locked <=> step = "dump") /\ ReportOK /\ ModeFollows

LEMMA CoreIs == IInv => CoreOK
<1> SUFFICES ASSUME IInv PROVE CoreOK
  OBVIOUS
<1>1. ListOK /\ CoreTypeOK
  BY DEF IInv, Typed, TypeOK, EntriesFollow
<1> QED BY <1>1 DEF IInv, Typed, CoreTypeOK, CoreOK, ListOK, ReportOK

LEMMA FitsIf ==
  ASSUME NEW e, NEW i, NEW x, x = storage'[e][i],
         EventFits(e, x)', Loose(e, i)' \/ EventKept(x)'
  PROVE  Fits(e, i)'
BY DEF Fits, EventFits, EventKept, Framed

\* What counts of an event is what it was recorded with.
LEMMA FitKept ==
  ASSUME IInv, EventsFit, [Next]_vars,
         NEW e \in Entries, NEW i \in 1 .. Len(storage[e]), Len(storage'[e]) = Len(storage[e]),
         storage'[e][i].by = storage[e][i].by,
         storage'[e][i].frame = storage[e][i].frame,
         storage'[e][i].capture = storage[e][i].capture,
         captures' = captures, ~Beginning' /\ e \in alive' => ~Beginning /\ e \in alive,
         \A x : EventKept(x) => EventKept(x)'
  PROVE  Fits(e, i)'
<1>1. PICK y : y = storage[e][i]
  OBVIOUS
<1>2. PICK x : x = storage'[e][i]
  OBVIOUS
<1>3. EventFits(e, y) /\ (Loose(e, i) \/ EventKept(y))
  BY <1>1 DEF EventsFit, Fits
<1>4. x.by = y.by /\ x.frame = y.frame /\ x.capture = y.capture
  BY <1>1, <1>2
<1>5. EventFits(e, x)'
  BY <1>3, <1>4 DEF EventFits
<1>6. EventKept(y) => EventKept(x)'
  <2> SUFFICES ASSUME EventKept(y)
               PROVE  EventKept(x)'
    OBVIOUS
  <2>1. EventKept(x)
    BY <1>4 DEF EventKept
  <2> QED BY <2>1
<1>7. Loose(e, i) => Loose(e, i)'
  BY LooseStays
<1> QED BY <1>2, <1>3, <1>5, <1>6, <1>7, FitsIf

LEMMA KeptIf ==
  ASSUME UNCHANGED <<captures, cancelled>>, Beginning' => Beginning,
         \A n : Framed(n) => Framed(n)', NEW x, EventKept(x)
  PROVE  EventKept(x)'
BY DEF EventKept

LEMMA ThreadsKeepFit ==
  ASSUME IInv, EventsFit, FramesFollow, DumpFollows, InThread, Between' <=> Between, [Next]_vars
  PROVE  EventsFit'
<1>1. CoreOK
  BY CoreIs
<1>2. UNCHANGED <<on, captures, cancelled, step, frames, frameNumber>>
  BY ThreadsLeaveFrames DEF stateVars, frameVars
<1>3. (Beginning' <=> Beginning) /\ \A n : Framed(n) => Framed(n)'
  BY <1>2 DEF Beginning, Framed
<1>4. \A x : EventKept(x) => EventKept(x)'
  BY <1>2, <1>3, KeptIf
<1>5. ASSUME NEW e \in Entries, storage'[e] = storage[e], e \in alive' => e \in alive,
             NEW i \in 1 .. Len(storage[e])
      PROVE  Fits(e, i)'
  BY <1>2, <1>3, <1>4, <1>5, FitKept
<1>6. CASE UNCHANGED coreVars
  <2>1. UNCHANGED <<storage, alive>>
    BY <1>6 DEF coreVars
  <2> QED BY <1>5, <2>1 DEF EventsFit
<1>7. ASSUME NEW f \in Entries, Registers(f)
      PROVE  EventsFit'
  <2>1. storage' = storage /\ alive' = alive \cup {f} /\ storage[f] = <<>>
    BY <1>7 DEF Registers, RegisterThread, DumpFollows
  <2>2. ASSUME NEW e \in Entries, NEW i \in 1 .. Len(storage[e])
        PROVE  Fits(e, i)'
    <3>1. e # f
      BY <2>1, NoneIn
    <3> QED BY <1>5, <2>1, <3>1
  <2> QED BY <2>1, <2>2 DEF EventsFit
<1>8. ASSUME NEW t \in Threads, Leaves(t)
      PROVE  EventsFit'
  <2>1. /\ alive' \subseteq alive
        /\ \A e \in Entries : storage'[e] \in {storage[e], <<>>}
    BY <1>1, <1>8, EntryLeft DEF Leaves, CoreOK
  <2>2. ASSUME NEW e \in Entries, NEW i \in 1 .. Len(storage'[e])
        PROVE  Fits(e, i)'
    <3>1. storage'[e] = storage[e]
      BY <2>1, NoneIn
    <3> QED BY <1>5, <2>1, <3>1
  <2> QED BY <2>2 DEF EventsFit
<1>9. CASE ShutdownOptick
  <2>1. \A e \in Entries : storage'[e] = <<>>
    BY <1>9 DEF ShutdownOptick, Shutdown
  <2> QED BY <2>1, NoneIn DEF EventsFit
<1>10. ASSUME NEW f \in alive, Begins(f) \/ (Strays(f) /\ InEvent(f)')
       PROVE  EventsFit'
  <2>1. /\ AddEvent(Owner[f], f) /\ f \in Entries /\ alive' = alive /\ ~InEvent(f)
        /\ (on /\ step = "idle" /\ ~Between) \/ (f \in orphans /\ InEvent(f)')
    BY <1>1, <1>10 DEF Begins, Strays, Adds, AddEvent, CoreOK
  <2>0. PICK k : k = Len(storage[f]) + 1
    OBVIOUS
  <2>2. /\ \A e \in Entries : e # f => storage'[e] = storage[e]
        /\ Len(storage[f]) \in Nat /\ Len(storage'[f]) = k
        /\ \A i \in 1 .. Len(storage[f]) : storage'[f][i] = storage[f][i]
        /\ storage'[f][k].by = Owner[f] /\ storage'[f][k].frame = frameNumber
        /\ storage'[f][k].capture = captures
    BY <1>1, <2>0, <2>1, EventAdded DEF CoreOK
  <2>3. ASSUME on, step = "idle", ~Between
        PROVE  Framed(frameNumber)
    <3>1. /\ frames \in Seq(Frame) /\ frames # <<>>
          /\ frames[Len(frames)].number = frameNumber
      BY <2>3 DEF FramesFollow
    <3>2. Len(frames) \in DOMAIN frames
      BY <3>1, EmptySeq, LenProperties
    <3> QED BY <2>3, <3>1, <3>2 DEF Framed
\* The new event.
  <2>4. Fits(f, k)'
    <3>1. PICK x : x = storage'[f][k]
      OBVIOUS
    <3>2. x.by = Owner[f] /\ x.frame = frameNumber /\ x.capture = captures
      BY <2>2, <3>1
    <3>3. EventFits(f, x)'
      BY <1>1, <1>2, <3>2 DEF EventFits, CoreOK
    <3>4. CASE on /\ step = "idle" /\ ~Between
      <4>1. Framed(frameNumber) /\ ~Beginning
        BY <2>3, <3>4 DEF Beginning
      <4>2. Framed(x.frame)' /\ ~Beginning'
        BY <1>3, <3>2, <4>1
      <4>3. EventKept(x)'
        BY <4>2 DEF EventKept
      <4> QED BY <3>1, <3>3, <4>3, FitsIf
    <3>5. CASE f \in orphans /\ InEvent(f)'
      <4>1. Loose(f, k)'
        BY <2>2, <3>5, LooseLasts DEF Loose
      <4> QED BY <3>1, <3>3, <4>1, FitsIf
    <3> QED BY <2>1, <3>4, <3>5
\* Before it came none was the last one of a worker whose job was deleted.
  <2>5. ASSUME NEW i \in 1 .. Len(storage[f])
        PROVE  Fits(f, i)'
    <3>1. PICK x : x = storage[f][i]
      OBVIOUS
    <3>2. EventFits(f, x) /\ EventKept(x)
      BY <2>1, <3>1 DEF EventsFit, Fits, Loose
    <3>3. EventFits(f, x)' /\ EventKept(x)'
      <4>1. EventFits(f, x)'
        BY <1>2, <1>3, <2>1, <3>2 DEF EventFits
      <4> QED BY <1>4, <3>2, <4>1
    <3>4. x = storage'[f][i]
      BY <2>2, <3>1
    <3> QED BY <3>3, <3>4, FitsIf
  <2>6. ASSUME NEW e \in Entries, NEW i \in 1 .. Len(storage'[e])
        PROVE  Fits(e, i)'
    <3>1. CASE e # f
      BY <1>5, <2>1, <2>2, <3>1
    <3>2. CASE e = f
      <4>1. i \in 1 .. Len(storage[f]) \/ i = k
        BY <2>0, <2>2, <3>2
      <4> QED BY <2>4, <2>5, <3>2, <4>1
    <3> QED BY <3>1, <3>2
  <2> QED BY <2>6 DEF EventsFit
<1>11. ASSUME NEW f \in Entries, Ends(f)
       PROVE  EventsFit'
  <2>1. FinishEvent(Owner[f], f) /\ alive' = alive
    BY <1>11 DEF Ends, FinishEvent
  <2>2. ASSUME NEW e \in Entries
        PROVE  /\ Len(storage'[e]) = Len(storage[e])
               /\ \A i \in 1 .. Len(storage[e]) :
                    /\ storage'[e][i].by = storage[e][i].by
                    /\ storage'[e][i].frame = storage[e][i].frame
                    /\ storage'[e][i].capture = storage[e][i].capture
    BY <1>1, <2>1, EventEnded DEF CoreOK
  <2>3. ASSUME NEW e \in Entries, NEW i \in 1 .. Len(storage'[e])
        PROVE  Fits(e, i)'
    <3>1. i \in 1 .. Len(storage[e])
      BY <2>2
    <3> QED BY <1>2, <1>3, <1>4, <2>1, <2>2, <3>1, FitKept
  <2> QED BY <2>3 DEF EventsFit
<1> QED BY <1>6, <1>7, <1>8, <1>9, <1>10, <1>11 DEF InThread

LEMMA UpdateKeepsFit ==
  ASSUME IInv, EventsFit, FramesFollow, DumpFollows, UpdateStep, [Next]_vars
  PROVE  EventsFit'
<1>1. CoreOK /\ runnerPc' = runnerPc /\ Between /\ Between'
  BY CoreIs DEF UpdateStep, Between
<1>2. CASE CheckLimit \/ ApplyMessage \/ EventsDone \/ BeginDump \/ CleanupThread
  <2>1. /\ ~Beginning /\ ~Beginning'
        /\ UNCHANGED <<storage, alive, on, captures, cancelled, frames>>
    BY <1>2 DEF CheckLimit, ApplyMessage, EventsDone, BeginDump, CleanupThread, Dumped,
         Beginning, threadVars, frameVars, stateVars
  <2>2. \A n : Framed(n) => Framed(n)'
    BY <1>1, <2>1 DEF Framed
  <2>3. \A x : EventKept(x) => EventKept(x)'
    BY <2>1, <2>2, KeptIf
  <2>4. ASSUME NEW e \in Entries, NEW i \in 1 .. Len(storage[e])
        PROVE  Fits(e, i)'
    BY <2>1, <2>3, FitKept
  <2> QED BY <2>1, <2>4 DEF EventsFit
<1>3. CASE SetMode
  <2>1. /\ ~Beginning /\ UNCHANGED <<storage, alive, frames>>
        /\ on' \in BOOLEAN
        /\ cancelled => cancelled'
        /\ \/ on' = on /\ step' = step /\ captures' = captures
           \/ on' # on /\ on' /\ step' = "activate" /\ captures' = captures + 1
           \/ ~on' /\ captures' = captures
    BY <1>1, <1>3 DEF SetMode, Beginning, threadVars, frameVars, CoreOK
  <2>2. \A n : Framed(n) => Framed(n)'
    BY <1>1, <2>1 DEF Framed
  <2>3. CASE captures' = captures /\ ~Beginning'
    <3>1. \A x : EventKept(x) => EventKept(x)'
      BY <2>1, <2>2, <2>3 DEF EventKept
    <3>2. ASSUME NEW e \in Entries, NEW i \in 1 .. Len(storage[e])
          PROVE  Fits(e, i)'
      BY <2>1, <2>3, <3>1, FitKept
    <3> QED BY <2>1, <3>2 DEF EventsFit
  <2>4. CASE captures' = captures + 1 /\ Beginning'
    <3>1. ASSUME NEW e \in Entries, NEW i \in 1 .. Len(storage[e])
          PROVE  Fits(e, i)'
      <4>1. PICK x : x = storage[e][i]
        OBVIOUS
      <4>2. x.capture \in Nat
        <5>1. storage[e] \in Seq(Event)
          BY <1>1 DEF CoreOK
        <5>2. x \in Event
          BY <4>1, <5>1, LenProperties, ElementOfSeq
        <5> QED BY <5>2 DEF Event
      <4>3. EventFits(e, x)
        BY <4>1 DEF EventsFit, Fits
      <4>4. x.capture < captures + 1 /\ x.capture <= captures + 1 /\ x.capture # captures + 1
        BY <1>1, <4>2, <4>3 DEF EventFits, CoreOK
      <4>5. EventFits(e, x)' /\ EventKept(x)'
        BY <2>1, <2>4, <4>3, <4>4 DEF EventFits, EventKept
      <4>6. x = storage'[e][i]
        BY <2>1, <4>1
      <4> QED BY <4>5, <4>6, FitsIf
    <3> QED BY <2>1, <3>1 DEF EventsFit
  <2> QED BY <2>1, <2>3, <2>4 DEF Beginning
<1>4. CASE ActivateThreads
  <2>1. /\ step = "activate" /\ ~Beginning'
        /\ UNCHANGED <<alive, on, captures, cancelled, frames>>
        /\ \A e \in Entries : storage'[e] = ClearedFor(e)
    BY <1>4 DEF ActivateThreads, Beginning, frameVars
  <2>2. \A n : Framed(n) => Framed(n)'
    BY <1>1, <2>1 DEF Framed
  <2>3. \A x : EventKept(x) => EventKept(x)'
    BY <2>1, <2>2, KeptIf
  <2>4. ASSUME NEW e \in Entries, NEW i \in 1 .. Len(storage'[e])
        PROVE  Fits(e, i)'
    <3>1. storage'[e] = storage[e] /\ ~(on /\ e \in alive)
      BY <2>1, NoneIn DEF ClearedFor
    <3>2. e \in alive => ~Beginning
      BY <3>1 DEF Beginning
    <3> QED BY <2>1, <2>3, <3>1, <3>2, FitKept
  <2> QED BY <2>4 DEF EventsFit
<1>5. CASE DumpThread
  <2>1. /\ UNCHANGED <<alive, on, captures, cancelled, step, frames>>
        /\ \A e \in Entries : storage'[e] \in {storage[e], <<>>}
    BY <1>1, <1>5 DEF DumpThread, stateVars, frameVars, CoreOK
  <2>2. (Beginning' <=> Beginning) /\ \A n : Framed(n) => Framed(n)'
    BY <1>1, <2>1 DEF Framed, Beginning
  <2>3. \A x : EventKept(x) => EventKept(x)'
    BY <2>1, <2>2, KeptIf
  <2>4. ASSUME NEW e \in Entries, NEW i \in 1 .. Len(storage'[e])
        PROVE  Fits(e, i)'
    <3>1. storage'[e] = storage[e]
      BY <2>1, NoneIn
    <3> QED BY <2>1, <2>2, <2>3, <3>1, FitKept
  <2> QED BY <2>4 DEF EventsFit
<1>6. CASE EndDump
  <2>1. Dumped /\ UNCHANGED <<storage, alive, captures>> /\ ~Beginning /\ ~Beginning'
    BY <1>6 DEF EndDump, Dumped, Beginning, threadVars
  <2>2. ASSUME NEW e \in Entries, NEW i \in 1 .. Len(storage[e])
        PROVE  Fits(e, i)'
    <3>1. PICK x : x = storage[e][i]
      OBVIOUS
    <3>2. EventFits(e, x)
      BY <3>1 DEF EventsFit, Fits
    <3>3. EventFits(e, x)' /\ x = storage'[e][i]
      BY <2>1, <3>1, <3>2 DEF EventFits
    <3>4. Loose(e, i)
      BY <1>1, <2>1, AllSent DEF CoreOK
    <3>5. Loose(e, i)'
      BY <2>1, <3>4, LooseStays
    <3> QED BY <3>3, <3>5, FitsIf
  <2> QED BY <2>1, <2>2 DEF EventsFit
<1> QED BY <1>2, <1>3, <1>4, <1>5, <1>6 DEF UpdateStep, Update

\* The events in the storages are their threads' own, those of the threads alive
\* of the last capture, and those of the last capture in frames that will be sent,
\* but for the last one of a worker whose job was deleted (optick_core.cpp:885-925,
\* 1342-1357, 1476-1500).
LEMMA FitStays ==
  ASSUME IInv, OneOpen, EventsFit, FramesFollow, DumpFollows, [Next]_vars
  PROVE  EventsFit'
<1>1. CoreOK
  BY CoreIs
<1>2. ASSUME UNCHANGED <<storage, alive, on, captures, cancelled>>, ~Beginning, ~Beginning',
             \A n : Framed(n) => Framed(n)'
      PROVE  EventsFit'
  <2>1. \A x : EventKept(x) => EventKept(x)'
    BY <1>2, KeptIf
  <2>2. ASSUME NEW e \in Entries, NEW i \in 1 .. Len(storage[e])
        PROVE  Fits(e, i)'
    BY <1>2, <2>1, FitKept
  <2> QED BY <1>2, <2>2 DEF EventsFit
<1>3. CASE EndFrame
  <2>1. /\ step = "idle" /\ step' = "limit" /\ runnerPc = "end" /\ runnerPc' = "update"
        /\ UNCHANGED <<storage, alive, on, captures, cancelled>>
        /\ frames' = IF on /\ frames # <<>>
                     THEN [frames EXCEPT ![Len(frames)].ended = TRUE]
                     ELSE frames
    BY <1>3 DEF EndFrame, EndUpdateFrame, RunnerGoes, IInv, JobsWaitedFor, threadVars
  <2>2. ~Beginning /\ ~Beginning'
    BY <2>1 DEF Beginning
  <2>3. ASSUME NEW n, Framed(n)
        PROVE  Framed(n)'
    <3>1. PICK i \in DOMAIN frames : /\ frames[i].number = n
                                     /\ frames[i].ended \/ (i = Len(frames) /\ on)
      BY <2>3 DEF Framed
    <3>2. CASE on /\ frames # <<>>
      <4> DEFINE k == Len(frames)
      <4>1. frames \in [1 .. k -> Frame] /\ k \in 1 .. k
        BY <3>2, EmptySeq, LenProperties DEF FramesFollow
      <4>2. PICK f \in Frame : f = frames[k]
        BY <4>1
      <4>3. [f EXCEPT !.ended = TRUE].number = f.number /\ [f EXCEPT !.ended = TRUE].ended
        BY DEF Frame
      <4>4. frames' = [frames EXCEPT ![k] = [f EXCEPT !.ended = TRUE]]
        BY <2>1, <3>2, <4>2
      <4> HIDE DEF k
      <4>5. i \in DOMAIN frames' /\ frames'[i].number = n
        BY <3>1, <4>1, <4>2, <4>3, <4>4
      <4>6. frames'[i].ended
        BY <3>1, <4>1, <4>2, <4>3, <4>4 DEF k
      <4> QED BY <4>5, <4>6 DEF Framed
    <3>3. CASE ~(on /\ frames # <<>>)
      <4>1. frames # <<>>
        BY <3>1, EmptySeq, LenProperties DEF FramesFollow
      <4>2. frames' = frames /\ ~on
        BY <2>1, <3>3, <4>1
      <4> QED BY <3>1, <4>2 DEF Framed
    <3> QED BY <3>2, <3>3
  <2> QED BY <1>2, <2>1, <2>2, <2>3
<1>4. CASE BeginFrame
  <2>1. /\ step = "idle" /\ step' = "idle" /\ Between
        /\ UNCHANGED <<storage, alive, on, captures, cancelled>>
    BY <1>4 DEF BeginFrame, RunnerGoes, IInv, JobsWaitedFor, threadVars, stateVars, Between
  <2>2. ~Beginning /\ ~Beginning'
    BY <2>1 DEF Beginning
  <2>3. ASSUME NEW i \in DOMAIN frames
        PROVE  i \in DOMAIN frames' /\ frames'[i] = frames[i]
    <3>1. CASE on
      <4> DEFINE f == [number |-> frameNumber + 1, capture |-> captures, ended |-> FALSE]
      <4>1. frames' = Append(frames, f) /\ f \in Frame
        BY <1>1, <1>4, <3>1 DEF BeginFrame, BeginUpdateFrame, Frame, CoreOK
      <4> HIDE DEF f
      <4>2. /\ DOMAIN frames' = 1 .. Len(frames) + 1 /\ DOMAIN frames = 1 .. Len(frames)
            /\ Len(frames) \in Nat
            /\ \A k \in 1 .. Len(frames) : frames'[k] = frames[k]
        BY <4>1, AppendProperties, LenProperties DEF FramesFollow
      <4> QED BY <4>2
    <3>2. CASE ~on
      BY <1>4, <3>2 DEF BeginFrame, BeginUpdateFrame
    <3> QED BY <3>1, <3>2
  <2>4. \A n : Framed(n) => Framed(n)'
    BY <2>1, <2>3 DEF Framed
  <2> QED BY <1>2, <2>1, <2>2, <2>4
<1>5. CASE UpdateReturns
  <2>1. /\ step = "state" /\ step' = "idle" /\ Between
        /\ UNCHANGED <<storage, alive, on, captures, cancelled, frames>>
    BY <1>5 DEF UpdateReturns, UpdateDone, RunnerGoes, threadVars, frameVars, Between
  <2>2. ~Beginning /\ ~Beginning' /\ \A n : Framed(n) => Framed(n)'
    BY <2>1 DEF Beginning, Framed
  <2> QED BY <1>2, <2>1, <2>2
<1> QED BY <1>3, <1>4, <1>5, Kinds, ThreadsKeepFit, UpdateKeepsFit

-----------------------------------------------------------------------------
(* The events that have not ended.                                         *)

\* The events of an entry that have not ended are those its thread has open.
LEMMA OpenOne ==
  ASSUME CoreOK, EventsFit, OneOpen, NEW e \in Entries, Unended(storage[e]) # {}
  PROVE  Unended(storage[e]) = {Open(Owner[e], e)}
<1>1. storage[e] \in Seq(Event) /\ DOMAIN storage[e] = 1 .. Len(storage[e])
  BY LenProperties DEF CoreOK
<1>2. \A i \in 1 .. Len(storage[e]) : storage[e][i].by = Owner[e]
  BY DEF EventsFit, Fits, EventFits
<1>3. Unfinished(Owner[e], storage[e]) = Unended(storage[e])
  BY <1>2 DEF Unfinished, Unended
<1>4. Open(Owner[e], e) \in Unended(storage[e])
  BY <1>1, <1>3, OpenIs
<1>5. \A i \in Unended(storage[e]) : i = Open(Owner[e], e)
  BY <1>4 DEF OneOpen
<1> QED BY <1>4, <1>5

\* The storages that a worker has read were read in the capture that runs.
ReadsKept ==
  \A w \in ToSet(Workers) \ orphans' :
    workerPc'[w] \in {"record", "job", "finish"} /\ slot'[w] # None => on'

\* A step that begins and ends no event.
LEMMA SameOpen ==
  ASSUME OneOpen, ReadsKept,
         \A e \in Entries : storage'[e] \in {storage[e], <<>>},
         \A e \in Entries : InEvent(e) => InEvent(e)'
  PROVE  OneOpen'
<1>1. ASSUME NEW e \in Entries, NEW i \in Unended(storage'[e])
      PROVE  InEvent(e)' /\ i = Len(storage'[e])
  <2>1. storage'[e] = storage[e]
    BY NoneIn
  <2> QED BY <2>1 DEF OneOpen
<1> QED BY <1>1 DEF OneOpen, ReadsKept

\* A step that begins an event in e.
LEMMA BeginsOne ==
  ASSUME CoreOK, OneOpen, ReadsKept, NEW f \in Entries, AddEvent(Owner[f], f),
         ~InEvent(f), InEvent(f)',
         \A e \in Entries : InEvent(e) => InEvent(e)'
  PROVE  OneOpen'
<1>1. /\ \A e \in Entries : e # f => storage'[e] = storage[e]
      /\ Unended(storage'[f]) = Unended(storage[f]) \cup {Len(storage[f]) + 1}
      /\ Len(storage'[f]) = Len(storage[f]) + 1
  BY EventAdded DEF CoreOK
<1>2. Unended(storage[f]) = {}
  BY DEF OneOpen
<1>3. ASSUME NEW e \in Entries, NEW i \in Unended(storage'[e])
      PROVE  InEvent(e)' /\ i = Len(storage'[e])
  <2>1. CASE e # f
    BY <1>1, <2>1 DEF OneOpen
  <2>2. CASE e = f
    BY <1>1, <1>2, <2>2
  <2> QED BY <2>1, <2>2
<1> QED BY <1>3 DEF OneOpen, ReadsKept

\* A step that ends the event in e.
LEMMA EndsOne ==
  ASSUME CoreOK, EventsFit, OneOpen, ReadsKept, NEW f \in Entries, FinishEvent(Owner[f], f),
         \A e \in Entries : e # f /\ InEvent(e) => InEvent(e)'
  PROVE  OneOpen'
<1>1. /\ \A e \in Entries : e # f => storage'[e] = storage[e]
      /\ Unended(storage'[f]) = Unended(storage[f]) \ {Open(Owner[f], f)}
  BY EventEnded DEF CoreOK
<1>2. Unended(storage'[f]) = {}
  BY <1>1, OpenOne
<1>3. ASSUME NEW e \in Entries, NEW i \in Unended(storage'[e])
      PROVE  InEvent(e)' /\ i = Len(storage'[e])
  <2>1. e # f
    BY <1>2
  <2> QED BY <1>1, <2>1 DEF OneOpen
<1> QED BY <1>3 DEF OneOpen, ReadsKept

LEMMA MainKeepsOpen ==
  ASSUME IInv, OneOpen, MainNext \/ Quit \/ UNCHANGED vars
  PROVE  OneOpen'
<1>1. CoreOK /\ ThreadsExist
  BY CoreIs DEF IInv
<1>2. \A e \in Entries : storage'[e] \in {storage[e], <<>>}
  <2>1. CASE LeaveScope("leave", "static") \/ LeaveScope("static", "over")
    BY <1>1, <2>1, EntryLeft DEF LeaveScope, CoreOK
  <2>2. CASE ShutdownOptick
    BY <2>2 DEF ShutdownOptick, Shutdown
  <2>3. ASSUME ~LeaveScope("leave", "static"), ~LeaveScope("static", "over"), ~ShutdownOptick
        PROVE  storage' = storage
    BY <2>3 DEF MainNext, MainRegister, RegisterThread, CreateThreads, Quit, ShutDown,
         Join, JoinRunner, vars, coreVars
  <2> QED BY <2>1, <2>2, <2>3
<1>3. slot' = slot /\ on' = on /\ orphans' = orphans
  BY DEF MainNext, MainRegister, CreateThreads, Quit, ShutDown, Join, JoinRunner,
     ShutdownOptick, LeaveScope, MainFrame, vars, coreVars, stateVars
<1>4. CASE CreateThreads
  <2>1. /\ runnerPc = "none" /\ \A w \in ToSet(Workers) : workerPc[w] = "none"
        /\ \A w \in ToSet(Workers) : workerPc'[w] \in {"none", "register"}
    BY <1>1, <1>4 DEF CreateThreads, MainGoes, ThreadsExist
  <2>2. \A e \in Entries : InEvent(e) => InEvent(e)'
    BY <2>1 DEF InEvent
  <2>3. ReadsKept
    BY <2>1 DEF ReadsKept
  <2> QED BY <1>2, <2>2, <2>3, SameOpen
<1>5. ASSUME ~CreateThreads
      PROVE  OneOpen'
  <2>1. UNCHANGED <<runnerPc, workerPc>>
    BY <1>5 DEF MainNext, MainRegister, Quit, ShutDown, Join, JoinRunner,
         ShutdownOptick, LeaveScope, MainFrame, vars
  <2>2. tls'["update"] = tls["update"]
    <3>1. CASE MainRegister
      <4>1. tls' = IF on THEN [tls EXCEPT !["main"] = "MainThread"] ELSE tls
        BY <3>1, OwnersAssumption DEF MainRegister, RegisterThread
      <4> QED BY <4>1, Owners
    <3>2. ASSUME ~MainRegister
          PROVE  tls' = tls
      BY <1>5, <3>2 DEF MainNext, Quit, ShutDown, Join, JoinRunner, ShutdownOptick,
           Shutdown, LeaveScope, UnRegisterThread, vars, coreVars
    <3> QED BY <3>1, <3>2
  <2>3. \A e \in Entries : InEvent(e) => InEvent(e)'
    BY <1>3, <2>1, <2>2 DEF InEvent
  <2>4. ReadsKept
    BY <1>3, <2>1 DEF OneOpen, ReadsKept
  <2> QED BY <1>2, <2>3, <2>4, SameOpen
<1> QED BY <1>4, <1>5

LEMMA RunnerKeepsOpen ==
  ASSUME IInv, EventsFit, OneOpen, RunnerNext
  PROVE  OneOpen'
<1>1. /\ CoreOK /\ StoragesFollow /\ EntriesFollow /\ JobsWaitedFor
  BY CoreIs DEF IInv
<1>2. UNCHANGED <<slot, workerPc>> /\ orphans \subseteq orphans'
  BY DEF RunnerNext, RunnerRegister, Loop, EndFrame, UpdateStep, UpdateReturns, BeginFrame,
     StartFrame, PollSize, PollRunning, FinishFrame, StopFrame, RunnerUnregister, RunnerFrame,
     jobVars
<1>3. ReadsKept
  <2>1. CASE UpdateStep
    <3>1. \A w \in ToSet(Workers) : Busy(w) => w \in orphans
      BY <1>1, <2>1 DEF UpdateStep, JobsWaitedFor, JobsExist
    <3> QED BY <1>2, <3>1 DEF Busy, ReadsKept
  <2>2. ASSUME ~UpdateStep
        PROVE  on' = on
    BY <2>2 DEF RunnerNext, RunnerRegister, Loop, EndFrame, UpdateReturns, UpdateDone,
         BeginFrame, StartFrame, PollSize, PollRunning, FinishFrame, StopFrame,
         RunnerUnregister, stateVars, coreVars
  <2> QED BY <1>2, <2>1, <2>2 DEF OneOpen, ReadsKept
\* Only main_runner's own event depends on where main_runner is.
<1>4. ASSUME runnerPc \notin {"work", "running", "stop"}
      PROVE  \A e \in Entries : InEvent(e) => InEvent(e)'
  BY <1>2, <1>4 DEF InEvent
<1>5. CASE PollSize \/ PollRunning \/ FinishFrame
  <2>1. UNCHANGED <<storage, tls>> /\ runnerPc' \in {"work", "running", "stop"}
    BY <1>5 DEF PollSize, PollRunning, FinishFrame, RunnerGoes, coreVars
  <2>2. \A e \in Entries : InEvent(e) => InEvent(e)'
    BY <1>2, <2>1 DEF InEvent
  <2> QED BY <1>3, <2>1, <2>2, SameOpen
<1>6. CASE StartFrame
  <2>1. /\ runnerPc = "event" /\ runnerPc' = "work" /\ step = "idle" /\ UpdateRuns
    BY <1>1, <1>6 DEF StartFrame, RunnerGoes, JobsWaitedFor, UpdateRuns
  <2>2. CASE tls["update"] = None
    <3>1. storage' = storage
      BY <1>6, <2>2 DEF StartFrame
    <3> QED BY <1>3, <1>4, <2>1, <3>1, SameOpen
  <2>3. CASE tls["update"] # None
    <3>1. PICK f \in Entries : f = tls["update"] /\ Owner[f] = "update"
      BY <1>1, <2>3 DEF StoragesFollow, Follows
    <3>2. AddEvent(Owner[f], f) /\ tls' = tls
      BY <1>6, <2>3, <3>1 DEF StartFrame, AddEvent
    <3>3. ~InEvent(f) /\ InEvent(f)'
      BY <2>1, <3>1, <3>2, Owners DEF InEvent
    <3> QED BY <1>1, <1>3, <1>4, <2>1, <3>2, <3>3, BeginsOne
  <2> QED BY <2>2, <2>3
<1>7. CASE StopFrame
  <2>1. CASE tls["update"] = None
    <3>1. storage' = storage
      BY <1>7, <2>1 DEF StopFrame
    <3>2. \A e \in Entries : InEvent(e) => InEvent(e)'
      BY <1>2, <2>1, NoneAssumption DEF InEvent
    <3> QED BY <1>3, <3>1, <3>2, SameOpen
  <2>2. CASE tls["update"] # None
    <3>1. PICK f \in Entries : f = tls["update"] /\ Owner[f] = "update"
      BY <1>1, <2>2 DEF StoragesFollow, Follows
    <3>2. FinishEvent(Owner[f], f)
      BY <1>7, <2>2, <3>1 DEF StopFrame
    <3>3. \A e \in Entries : e # f /\ InEvent(e) => InEvent(e)'
      BY <1>2, <3>1 DEF InEvent
    <3> QED BY <1>1, <1>3, <3>2, <3>3, EndsOne
  <2> QED BY <2>1, <2>2
<1>8. ASSUME ~PollSize, ~PollRunning, ~FinishFrame, ~StartFrame, ~StopFrame
      PROVE  OneOpen'
  <2>1. runnerPc \notin {"work", "running", "stop"}
    BY <1>8 DEF RunnerNext, RunnerRegister, Loop, EndFrame, UpdateStep, UpdateReturns,
         BeginFrame, RunnerUnregister, RunnerGoes
  <2>2. \A e \in Entries : storage'[e] \in {storage[e], <<>>}
    <3>1. CASE RunnerUnregister
      BY <1>1, <3>1, EntryLeft DEF RunnerUnregister, CoreOK
    <3>2. CASE UpdateStep
      <4>1. CASE ActivateThreads
        BY <4>1 DEF ActivateThreads, ClearedFor
      <4>2. CASE DumpThread
        BY <1>1, <4>2 DEF DumpThread, CoreOK
      <4>3. ASSUME ~ActivateThreads, ~DumpThread
            PROVE  storage' = storage
        BY <3>2, <4>3 DEF UpdateStep, Update, CheckLimit, ApplyMessage, EventsDone, SetMode,
             BeginDump, CleanupThread, EndDump, threadVars
      <4> QED BY <4>1, <4>2, <4>3
    <3>3. ASSUME ~RunnerUnregister, ~UpdateStep
          PROVE  storage' = storage
      BY <1>8, <3>3 DEF RunnerNext, RunnerRegister, RegisterThread, Loop, EndFrame,
           UpdateReturns, UpdateDone, BeginFrame, threadVars, coreVars
    <3> QED BY <3>1, <3>2, <3>3
  <2> QED BY <1>3, <1>4, <2>1, <2>2, SameOpen
<1> QED BY <1>5, <1>6, <1>7, <1>8

LEMMA WorkerKeepsOpen ==
  ASSUME IInv, EventsFit, OneOpen, NEW v \in Team, WorkerNext(v)
  PROVE  OneOpen'
<1>1. /\ CoreOK /\ StoragesFollow /\ EntriesFollow /\ JobsWaitedFor /\ EventsOpen
      /\ v \in ToSet(Workers) /\ v \in Entries /\ v # None /\ Owner[v] = v
      /\ workerPc \in [ToSet(Workers) -> WorkerPcs] /\ runnerPc \in RunnerPcs
      /\ slot \in [ToSet(Workers) -> Entries \cup {None}]
      /\ tls \in [Threads -> Entries \cup {None}]
  BY CoreIs, TeamAreWorkers, Owners, NoneAssumption DEF IInv, Typed, TypeOK, CoreTypeOK
<1>2. /\ UNCHANGED <<runnerPc, on, orphans>>
      /\ \E to : workerPc' = [workerPc EXCEPT ![v] = to]
  BY DEF WorkerNext, WorkerRegister, TakeJob, Reorder, PutBack, TouchDeleted, Record, StopJob,
       Return, Finish, WorkerUnregister, WorkerGoes, stateVars, coreVars
<1>3. \A w \in ToSet(Workers) : w # v => workerPc'[w] = workerPc[w]
  BY <1>1, <1>2
<1>4. slot' = slot \/ \E x : slot' = [slot EXCEPT ![v] = x]
  BY DEF WorkerNext, WorkerRegister, TakeJob, Reorder, PutBack, TouchDeleted, Record, StopJob,
       Finish, WorkerUnregister
<1>5. tls'["update"] = tls["update"]
  <2>1. CASE WorkerRegister(v)
    <3>1. tls' = IF on THEN [tls EXCEPT ![v] = v] ELSE tls
      BY <1>1, <2>1 DEF WorkerRegister, RegisterThread
    <3> QED BY <1>1, <3>1, Owners
  <2>2. CASE WorkerUnregister(v)
    BY <2>2 DEF WorkerUnregister, UnRegisterThread
  <2>3. ASSUME ~WorkerRegister(v), ~WorkerUnregister(v)
        PROVE  tls' = tls
    BY <2>3, WorkLeaves
  <2> QED BY <2>1, <2>2, <2>3
\* The other workers and main_runner stay where they are.
<1>6. /\ \A e \in Entries : e # v /\ InEvent(e) => InEvent(e)'
      /\ (v \notin orphans /\ workerPc'[v] \in {"record", "job", "finish"} /\ slot'[v] # None
            => on)
           => ReadsKept
  <2>1. \A w \in ToSet(Workers) : w # v => slot'[w] = slot[w] /\ workerPc'[w] = workerPc[w]
    BY <1>1, <1>3, <1>4
  <2> QED BY <1>2, <1>5, <2>1 DEF InEvent, OneOpen, ReadsKept
<1>7. InEvent(v) <=> \/ workerPc[v] \in {"job", "finish"} /\ slot[v] = v
                     \/ workerPc[v] = "undefined"
  BY <1>1, WorkerInEvent
<1>8. v \notin orphans /\ workerPc[v] \in {"record", "job", "finish"} /\ slot[v] # None => on
  BY <1>1 DEF OneOpen
\* A worker that gets a job or works on one records if a capture runs.
<1>9. ASSUME JobsExist, WorkerRuns(v)
      PROVE  tls[v] = IF on THEN v ELSE None
  <2>1. step = "idle"
    BY <1>1, <1>9 DEF JobsWaitedFor, JobsExist
  <2> QED BY <1>1, <1>9, <2>1 DEF StoragesFollow, Follows
<1>10. CASE WorkerRegister(v) \/ WorkerUnregister(v)
  <2>1. /\ workerPc'[v] \in {"idle", "ended"} /\ workerPc[v] \in {"register", "idle"}
    BY <1>1, <1>10 DEF WorkerRegister, WorkerUnregister, WorkerGoes
  <2>2. \A e \in Entries : storage'[e] \in {storage[e], <<>>}
    <3>1. CASE WorkerRegister(v)
      BY <3>1 DEF WorkerRegister, RegisterThread
    <3>2. CASE WorkerUnregister(v)
      BY <1>1, <3>2, EntryLeft DEF WorkerUnregister, CoreOK
    <3> QED BY <1>10, <3>1, <3>2
  <2> QED BY <1>6, <1>7, <2>1, <2>2, SameOpen
<1>11. CASE Reorder(v) \/ PutBack(v) \/ TouchDeleted(v)
  <2>1. /\ workerPc'[v] \in {"idle", "reorder", "undefined"}
        /\ workerPc[v] \in {"reorder", "idle"} /\ storage' = storage
    BY <1>1, <1>11 DEF Reorder, PutBack, TouchDeleted, WorkerGoes, coreVars
  <2> QED BY <1>6, <1>7, <2>1, SameOpen
<1>12. ASSUME NEW u \in Team, TakeJob(v, u)
       PROVE  OneOpen'
  <2>1. /\ slot' = [slot EXCEPT ![v] = tls[v]] /\ workerPc[v] = "idle"
        /\ JobsExist /\ storage' = storage
    BY <1>12 DEF TakeJob, WorkerGoes, coreVars
  <2>2. slot'[v] = tls[v]
    BY <1>1, <2>1
  <2>3. slot'[v] # None => on
    BY <1>9, <2>1, <2>2 DEF WorkerRuns
  <2> QED BY <1>6, <1>7, <2>1, <2>3, SameOpen
<1>13. CASE Record(v)
  <2>1. workerPc'[v] = "job" /\ slot' = slot /\ workerPc[v] = "record"
    BY <1>1, <1>13 DEF Record, WorkerGoes
  <2>2. ReadsKept
    BY <1>6, <1>8, <2>1
  <2>3. \A e \in Entries : InEvent(e) => InEvent(e)'
    BY <1>6, <1>7, <2>1
  <2>4. CASE slot[v] = None
    <3>1. storage' = storage
      BY <1>13, <2>4 DEF Record
    <3> QED BY <2>2, <2>3, <3>1, SameOpen
  <2>5. CASE slot[v] # None
    <3>1. slot[v] = v /\ AddEvent(Owner[v], v)
      BY <1>1, <1>13, <2>5 DEF Record, EventsOpen
    <3>2. ~InEvent(v) /\ InEvent(v)'
      BY <1>1, <1>7, <2>1, <3>1 DEF InEvent
    <3> QED BY <1>1, <2>2, <2>3, <3>1, <3>2, BeginsOne
  <2> QED BY <2>4, <2>5
<1>14. CASE StopJob(v)
  <2>1. /\ storage' = storage /\ workerPc[v] = "job"
        /\ IF slot[v] # None /\ tls[v] # None
           THEN workerPc' = [workerPc EXCEPT ![v] = "finish"] /\ slot' = slot
           ELSE /\ slot' = [slot EXCEPT ![v] = None]
                /\ v \in orphans => workerPc' = [workerPc EXCEPT ![v] = "undefined"]
    BY <1>14 DEF StopJob, Return, WorkerGoes, coreVars
  <2>2. ASSUME InEvent(v)
        PROVE  InEvent(v)'
    <3>1. slot[v] = v
      BY <1>7, <2>1, <2>2
    <3>2. CASE tls[v] # None
      <4>1. workerPc'[v] = "finish" /\ slot' = slot
        BY <1>1, <2>1, <3>1, <3>2
      <4> QED BY <1>1, <3>1, <4>1 DEF InEvent
    <3>3. CASE tls[v] = None
      <4>1. v \in orphans
        <5> SUFFICES ASSUME v \notin orphans
                     PROVE  FALSE
          OBVIOUS
        <5>1. on
          BY <1>1, <1>8, <2>1, <3>1
        <5>2. JobsExist
          BY <1>1, <2>1 DEF JobsWaitedFor, Busy
        <5> QED BY <1>1, <1>9, <2>1, <3>3, <5>1, <5>2 DEF WorkerRuns
      <4>2. workerPc'[v] = "undefined"
        BY <1>1, <2>1, <3>3, <4>1
      <4> QED BY <1>1, <4>2 DEF InEvent
    <3> QED BY <3>2, <3>3
  <2>3. slot'[v] # None => slot'[v] = slot[v]
    BY <1>1, <2>1
  <2>4. ReadsKept
    BY <1>6, <1>8, <2>1, <2>3
  <2> QED BY <1>6, <2>1, <2>2, <2>4, SameOpen
<1>15. CASE Finish(v)
  <2>1. /\ slot' = [slot EXCEPT ![v] = None] /\ workerPc[v] = "finish"
        /\ FinishEvent(v, slot[v])
    BY <1>15 DEF Finish, Return, WorkerGoes
  <2>2. slot[v] = v /\ slot'[v] = None
    BY <1>1, <2>1 DEF EventsOpen
  <2>3. ReadsKept
    BY <1>6, <2>2
  <2> QED BY <1>1, <1>6, <2>1, <2>2, <2>3, EndsOne
<1> QED BY <1>10, <1>11, <1>12, <1>13, <1>14, <1>15 DEF WorkerNext

LEMMA OpenStays ==
  ASSUME IInv, EventsFit, OneOpen, [Next]_vars
  PROVE  OneOpen'
BY MainKeepsOpen, RunnerKeepsOpen, WorkerKeepsOpen DEF Next

-----------------------------------------------------------------------------
(* The report.                                                             *)

\* A dump sends the events of the entry that it has reached: those that ended and
\* lie in a frame to be sent.
LEMMA Sending ==
  ASSUME IInv, DumpFollows, DumpThread
  PROVE  \E i \in Nat, e \in Entries :
           /\ i = Len(report.events) + 1 /\ i \in DOMAIN report.list /\ report.list[i] = e
           /\ report'.list = report.list /\ report'.frames = report.frames
           /\ Len(report'.events) = i /\ DOMAIN report'.events = 1 .. i
           /\ \A k \in DOMAIN report.events :
                k \in 1 .. i - 1 /\ report'.events[k] = report.events[k]
           /\ \A k \in 1 .. i - 1 : k \in DOMAIN report.events
           /\ Last(report'.events) = report'.events[i]
           /\ report'.events[i] = {event \in ToSet(storage[e]) : Sent(event)}
           /\ \A f \in Entries : f # e => storage'[f] = storage[f]
<1> DEFINE n == Len(report.events)
           e == threads[n + 1]
           sent == {event \in ToSet(storage[e]) : Sent(event)}
<1>1. CoreOK
  BY CoreIs
<1>2. /\ step = "dump" /\ n + 1 \in DOMAIN report.list
      /\ report' = [report EXCEPT !.events = Append(@, sent)]
      /\ storage' = [storage EXCEPT ![e] = <<>>]
  BY DEF DumpThread
<1>3. PICK F, S : report \in [list : Seq(Entries), frames : F, events : Seq(S)]
  BY <1>1 DEF CoreOK, ReportOK
<1> HIDE DEF sent
<1>4. /\ n \in Nat /\ n < Len(report.list) /\ threads = report.list
      /\ DOMAIN report.events = 1 .. n
  BY <1>2, <1>3, LenProperties DEF DumpFollows
<1>5. e \in Entries /\ e = report.list[n + 1]
  BY <1>2, <1>3, <1>4, LenProperties, ElementOfSeq
<1>6. /\ report'.list = report.list /\ report'.frames = report.frames
      /\ report'.events = Append(report.events, sent)
  BY <1>2, <1>3
<1>7. /\ Len(report'.events) = n + 1 /\ DOMAIN report'.events = 1 .. n + 1
      /\ \A k \in 1 .. n : report'.events[k] = report.events[k]
      /\ report'.events[n + 1] = sent
  <2>1. report.events \in Seq(S \cup {sent})
    BY <1>3, SeqMonotonic
  <2>2. /\ Append(report.events, sent) \in Seq(S \cup {sent})
        /\ Len(Append(report.events, sent)) = n + 1
        /\ \A k \in 1 .. n : Append(report.events, sent)[k] = report.events[k]
        /\ Append(report.events, sent)[n + 1] = sent
    BY <2>1, AppendProperties
  <2>3. DOMAIN Append(report.events, sent) = 1 .. n + 1
    BY <2>2, LenProperties
  <2> QED BY <1>6, <2>2, <2>3
<1>8. \A f \in Entries : f # e => storage'[f] = storage[f]
  BY <1>1, <1>2 DEF CoreOK
<1>9. Last(report'.events) = report'.events[n + 1]
  BY <1>7 DEF Last
<1>10. PICK i \in Nat : i = n + 1
  BY <1>4
<1>11. PICK f \in Entries : f = e
  BY <1>5
<1>12. report'.events[i] = {event \in ToSet(storage[f]) : Sent(event)}
  BY <1>7, <1>10, <1>11 DEF sent
<1>13. 1 .. i - 1 = 1 .. n
  BY <1>4, <1>10
<1> HIDE DEF n, e
<1> QED BY <1>2, <1>4, <1>5, <1>6, <1>7, <1>8, <1>9, <1>10, <1>11, <1>12, <1>13 DEF n

LEMMA UpdateKeepsReport ==
  ASSUME IInv, EventsFit, FramesFollow, DumpFollows, ReportSound, UpdateStep
  PROVE  ReportSound'
<1>1. CoreOK
  BY CoreIs
<1>2. CASE CheckLimit \/ ApplyMessage \/ EventsDone \/ SetMode \/ ActivateThreads
  <2>1. report' = report /\ step' # "dump"
    BY <1>2 DEF CheckLimit, ApplyMessage, EventsDone, SetMode, ActivateThreads, dumpVars
  <2> QED BY <2>1 DEF ReportSound, EventsMatchBoard, OneCapture
<1>3. CASE CleanupThread
  <2>1. UNCHANGED <<report, step, cancelled, captures, alive>>
    BY <1>3 DEF CleanupThread, dumpVars, stateVars
  <2> QED BY <2>1 DEF ReportSound, EventsMatchBoard, OneCapture
<1>4. CASE BeginDump
  <2>1. /\ report'.list = threads /\ report'.frames = frames /\ report'.events = <<>>
        /\ UNCHANGED <<cancelled, captures>>
    BY <1>4 DEF BeginDump
  <2>2. DOMAIN report'.events = {}
    BY <2>1, EmptySeq
  <2> QED BY <2>1, <2>2 DEF ReportSound, EventsMatchBoard, OneCapture, FramesFollow
<1>5. CASE DumpThread
  <2>1. UNCHANGED <<step, cancelled, captures, alive>> /\ step = "dump"
    BY <1>5 DEF DumpThread, stateVars
  <2>2. PICK i \in Nat, e \in Entries :
          /\ report.list[i] = e
          /\ report'.list = report.list /\ report'.frames = report.frames
          /\ DOMAIN report'.events = 1 .. i
          /\ \A k \in DOMAIN report.events : report'.events[k] = report.events[k]
          /\ \A k \in 1 .. i - 1 : k \in DOMAIN report.events
          /\ report'.events[i] = {event \in ToSet(storage[e]) : Sent(event)}
    BY <1>5, Sending
  <2>3. ASSUME NEW k \in DOMAIN report'.events, NEW x \in report'.events[k]
        PROVE  /\ x.by = Owner[report'.list[k]]
               /\ report'.list[k] \in alive' => x.capture = captures'
    <3>1. CASE k = i
      <4>1. EventFits(e, x)
        <5>1. x \in ToSet(storage[e])
          BY <2>2, <2>3, <3>1
        <5>2. storage[e] \in Seq(Event)
          BY <1>1 DEF CoreOK
        <5>3. PICK l \in 1 .. Len(storage[e]) : x = storage[e][l]
          BY <5>1, <5>2, LenProperties DEF ToSet
        <5> QED BY <5>3 DEF EventsFit, Fits
      <4>2. ~Beginning
        BY <2>1 DEF Beginning
      <4> QED BY <2>1, <2>2, <3>1, <4>1, <4>2 DEF EventFits
    <3>2. CASE k # i
      <4>1. k \in DOMAIN report.events /\ x \in report.events[k]
        <5>1. k \in 1 .. i - 1
          BY <2>2, <3>2
        <5> QED BY <2>2, <2>3, <5>1
      <4> QED BY <2>1, <2>2, <4>1 DEF ReportSound, EventsMatchBoard, OneCapture
    <3> QED BY <3>1, <3>2
  <2>4. ~cancelled => \A k \in DOMAIN report.frames : report.frames[k].capture = captures
    BY <2>1 DEF ReportSound, OneCapture
  <2>5. EventsMatchBoard'
    BY <2>3 DEF EventsMatchBoard
  <2>6. OneCapture'
    BY <2>1, <2>2, <2>3, <2>4 DEF OneCapture
  <2> QED BY <2>5, <2>6 DEF ReportSound
<1>6. CASE EndDump
  <2>1. DOMAIN report'.events = {} /\ step' # "dump"
    BY <1>6, EmptySeq DEF EndDump, NoReport
  <2> QED BY <2>1 DEF ReportSound, EventsMatchBoard, OneCapture
<1> QED BY <1>2, <1>3, <1>4, <1>5, <1>6 DEF UpdateStep, Update

\* Nobody else writes the report, and no thread registers or ends while a dump
\* lasts (optick_core.cpp:1009-1094, 1449-1500).
LEMMA ReportStays ==
  ASSUME IInv, OneOpen, EventsFit, FramesFollow, DumpFollows, ReportSound, [Next]_vars
  PROVE  ReportSound'
<1>1. CoreOK
  BY CoreIs
<1>2. CASE InThread
  <2>1. UNCHANGED <<report, step, cancelled, captures>>
    BY <1>2, ThreadsLeaveFrames DEF stateVars, dumpVars
  <2>2. step = "dump" => alive' \subseteq alive
    BY <1>1, <1>2 DEF InThread, Registers, RegisterThread, Leaves, UnRegisterThread, ShutdownOptick,
         Shutdown, Begins, Strays, Adds, Ends, AddEvent, FinishEvent, coreVars, CoreOK
  <2> QED BY <2>1, <2>2 DEF ReportSound, EventsMatchBoard, OneCapture
<1>3. CASE EndFrame \/ BeginFrame \/ UpdateReturns
  <2>1. report' = report /\ step' # "dump"
    BY <1>3 DEF EndFrame, BeginFrame, UpdateReturns, UpdateDone, RunnerGoes, stateVars,
         dumpVars, IInv, JobsWaitedFor
  <2> QED BY <2>1 DEF ReportSound, EventsMatchBoard, OneCapture
<1> QED BY <1>2, <1>3, Kinds, UpdateKeepsReport

LEMMA SentInitially == Init => SentInv
<1> SUFFICES ASSUME Init PROVE SentInv
  OBVIOUS
<1> USE DEF Init, CoreInit
<1>1. \A e \in Entries : storage[e] = <<>>
  OBVIOUS
<1>2. EventsFit
  BY <1>1, NoneIn DEF EventsFit
<1>3. FramesFollow
  BY EmptySeq DEF FramesFollow, Between
<1>4. DumpFollows
  BY <1>1 DEF DumpFollows
<1>5. OneOpen
  BY <1>1, NoneIn DEF OneOpen
<1>6. DOMAIN report.events = {}
  BY EmptySeq DEF NoReport
<1>7. ReportSound
  BY <1>6 DEF ReportSound, EventsMatchBoard, OneCapture
<1> QED BY <1>2, <1>3, <1>4, <1>5, <1>7 DEF SentInv

LEMMA SentInductive == IInv /\ SentInv /\ [Next]_vars => SentInv'
<1> SUFFICES ASSUME IInv, SentInv, [Next]_vars PROVE SentInv'
  OBVIOUS
<1> QED BY FitStays, FramesStay, DumpStays, OpenStays, ReportStays DEF SentInv

LEMMA SentAlways == Spec => []SentInv
BY SentInitially, SentInductive, Always, PTL DEF Spec

\* A report is that of one capture: its frames and the events of the threads still
\* alive are of the last one, unless one was cancelled since the last dump, and the
\* events sent for an entry are those its own thread recorded, for any number of
\* threads that register and end at any moment (optick_core.cpp:1009-1094,
\* 1342-1357, 1476-1500).
THEOREM ReportSoundThm == Spec => []ReportSound
<1>1. SentInv => ReportSound
  BY DEF SentInv
<1> QED BY <1>1, SentAlways, PTL

\* The dump takes every event of the last capture into the report but those of the
\* workers whose job was deleted: all have ended and lie in frames that are sent.
LEMMA AllAreSent ==
  ASSUME IInv, SentInv, Defined, step = "dump", ~cancelled,
         NEW e \in Entries, NEW i \in 1 .. Len(storage[e]),
         storage[e][i].capture = captures, ~Loose(e, i)
  PROVE  Sent(storage[e][i])
<1>1. CoreOK /\ JobsWaitedFor /\ ThreadsExist /\ EventsFit /\ FramesFollow /\ OneOpen
  BY CoreIs DEF IInv, SentInv
<1>2. /\ runnerPc = "update"
      /\ \A w \in ToSet(Workers) : Busy(w) => w \in orphans
      /\ \A w \in ToSet(Workers) : workerPc[w] # "undefined"
  BY <1>1 DEF JobsWaitedFor, JobsExist, Defined, ThreadsExist
<1>3. PICK x : x = storage[e][i]
  OBVIOUS
<1>4. x \in Event
  BY <1>1, <1>3, LenProperties, ElementOfSeq DEF CoreOK
<1>5. x.finished
  <2> SUFFICES ASSUME ~x.finished
               PROVE  FALSE
    OBVIOUS
  <2>1. i \in Unended(storage[e])
    BY <1>3 DEF Unended
  <2>2. InEvent(e) /\ i = Len(storage[e])
    BY <1>1, <2>1 DEF OneOpen
  <2>3. e \in orphans
    BY <1>2, <2>2 DEF InEvent, Busy
  <2> QED BY <2>2, <2>3 DEF Loose
<1>6. Framed(x.frame)
  <2>1. EventKept(x)
    BY <1>1, <1>3 DEF EventsFit, Fits
  <2> QED BY <1>3, <2>1 DEF EventKept
<1>7. PICK k \in DOMAIN frames : frames[k].number = x.frame /\ frames[k].ended
  BY <1>2, <1>6 DEF Framed, Between
<1>8. frames[k].number <= x.frame
  BY <1>4, <1>7 DEF Event
<1>9. InRange(x)
  BY <1>7, <1>8 DEF InRange
<1> QED BY <1>3, <1>5, <1>9 DEF Sent

\* No step but the dump that sends it, Shutdown, and the end of its thread between
\* the end of the capture and its dump drops an event of the last capture, but for
\* the last one of a worker whose job was deleted while it worked on it: an
\* activation clears events of earlier captures only, and a dump leaves none behind
\* unless one was cancelled (optick_core.cpp:885-925, 1009-1094, 1476-1500).
THEOREM NoEventDroppedThm == Spec => NoEventDropped
<1> DEFINE Safe(e, event) ==
      \/ step = "dump" /\ report'.list[Len(report'.events)] = e
           /\ (event \in Last(report'.events) \/ cancelled)
      \/ mainPc' = "leave" /\ mainPc = "optick"
      \/ ~on /\ e \notin alive'
      \/ event.by \in orphans /\ event = Last(storage[e])
<1>1. ASSUME IInv, SentInv, [Next]_vars, NEW e \in Entries, NEW event \in Dropped(e)
      PROVE  Safe(e, event)
  <2>1. /\ event \in ToSet(storage[e]) /\ event.capture = captures
        /\ Len(storage'[e]) < Len(storage[e])
    BY <1>1 DEF Dropped
  <2>2. CoreOK /\ EventsFit /\ DumpFollows /\ OneOpen
    BY <1>1, CoreIs DEF SentInv
  <2>3. storage[e] \in Seq(Event) /\ Len(storage[e]) \in Nat /\ storage'[e] # storage[e]
    <3>1. storage[e] \in Seq(Event) /\ Len(storage[e]) \in Nat
      BY <2>2, LenProperties DEF CoreOK
    <3> QED BY <2>1, <3>1
  <2>4. PICK i \in 1 .. Len(storage[e]) : event = storage[e][i]
    BY <2>1, <2>3, LenProperties DEF ToSet
  <2>5. ASSUME Loose(e, i)
        PROVE  Safe(e, event)
    <3>1. event.by = Owner[e]
      BY <2>2, <2>4 DEF EventsFit, Fits, EventFits
    <3>2. Owner[e] = e /\ e \in orphans /\ i = Len(storage[e])
      <4>1. e \in orphans /\ i = Len(storage[e])
        BY <2>5 DEF Loose
      <4>2. e \in ToSet(Workers)
        BY <1>1, <4>1, TeamAreWorkers DEF IInv, Typed, TypeOK
      <4> QED BY <4>1, <4>2, Owners
    <3>3. event = Last(storage[e])
      BY <2>4, <3>2 DEF Last
    <3> QED BY <3>1, <3>2, <3>3
  <2>6. ASSUME NEW t, UnRegisterThread(t)
        PROVE  Safe(e, event)
    BY <2>2, <2>3, <2>6, EntryLeft DEF CoreOK
  <2>7. ASSUME NEW f \in Entries, AddEvent(Owner[f], f) \/ FinishEvent(Owner[f], f)
        PROVE  FALSE
    <3>1. CASE f = e
      <4>1. Len(storage'[e]) \in {Len(storage[e]), Len(storage[e]) + 1}
        BY <2>2, <2>7, <3>1, EventAdded, EventEnded DEF CoreOK
      <4> QED BY <2>1, <2>3, <4>1
    <3>2. CASE f # e
      BY <2>2, <2>3, <2>7, <3>2, EventAdded, EventEnded DEF CoreOK
    <3> QED BY <3>1, <3>2
  <2>8. CASE ShutdownOptick
    BY <2>8 DEF ShutdownOptick, MainGoes
  <2>9. CASE InThread
    <3>1. CASE UNCHANGED coreVars
      BY <2>3, <3>1 DEF coreVars
    <3>2. CASE \E f \in Entries : Registers(f)
      BY <2>3, <3>2 DEF Registers, RegisterThread
    <3>3. CASE \E t \in Threads : Leaves(t)
      BY <2>6, <3>3 DEF Leaves
    <3>4. CASE \E f \in alive : Adds(f)
      BY <2>2, <2>7, <3>4 DEF Adds, CoreOK
    <3>5. CASE \E f \in Entries : Ends(f)
      BY <2>7, <3>5 DEF Ends
    <3> QED BY <2>8, <2>9, <3>1, <3>2, <3>3, <3>4, <3>5 DEF InThread, Begins, Strays
  <2>10. CASE EndFrame \/ BeginFrame \/ UpdateReturns
    BY <2>3, <2>10 DEF EndFrame, BeginFrame, UpdateReturns, UpdateDone, threadVars
  <2>11. CASE ActivateThreads
    <3>1. Beginning
      BY <2>3, <2>11 DEF ActivateThreads, ClearedFor, Beginning
    <3>2. ~EventKept(event)
      <4>1. captures \in Nat
        BY <2>2 DEF CoreOK
      <4> QED BY <2>1, <3>1, <4>1 DEF EventKept
    <3>3. Loose(e, i)
      BY <2>2, <2>4, <3>2 DEF EventsFit, Fits
    <3> QED BY <2>5, <3>3
  <2>12. CASE UpdateStep /\ DumpThread
    <3>1. step = "dump" /\ Defined
      BY <2>12 DEF DumpThread, UpdateStep, RunnerFrame
    <3>2. PICK k \in Nat, f \in Entries :
            /\ report.list[k] = f /\ report'.list = report.list
            /\ Len(report'.events) = k
            /\ Last(report'.events) = report'.events[k]
            /\ report'.events[k] = {x \in ToSet(storage[f]) : Sent(x)}
            /\ \A g \in Entries : g # f => storage'[g] = storage[g]
      BY <1>1, <2>2, <2>12, Sending
    <3>3. f = e
      BY <2>3, <3>2
    <3>4. CASE cancelled
      BY <3>1, <3>2, <3>3, <3>4
    <3>5. CASE Loose(e, i)
      BY <2>5, <3>5
    <3>6. CASE ~cancelled /\ ~Loose(e, i)
      <4>1. Sent(storage[e][i])
        BY <1>1, <2>1, <2>4, <3>1, <3>6, AllAreSent
      <4>2. Sent(event)
        BY <2>4, <4>1 DEF Sent, InRange
      <4> QED BY <2>1, <3>1, <3>2, <3>3, <4>2
    <3> QED BY <3>4, <3>5, <3>6
  <2>13. ASSUME UpdateStep, ~ActivateThreads, ~DumpThread
         PROVE  FALSE
    BY <2>3, <2>13 DEF UpdateStep, Update, CheckLimit, ApplyMessage, EventsDone, SetMode,
         BeginDump, CleanupThread, EndDump, threadVars
  <2> QED BY <1>1, <2>2, <2>9, <2>10, <2>11, <2>12, <2>13, Kinds
<1>2. IInv /\ SentInv /\ [Next]_vars =>
        [\A e \in Entries : \A event \in Dropped(e) : Safe(e, event)]_vars
  BY <1>1
<1> QED BY <1>2, Always, SentAlways, PTL DEF Spec, NoEventDropped

=============================================================================

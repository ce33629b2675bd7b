------------------------------ MODULE Settings ------------------------------
(***************************************************************************)
(* The command line (src/src/argument_parser.h), the number of workers     *)
(* that main() makes of it (GetNumThreads, src/src/main.cpp) and the       *)
(* random choice of a victim (random.cpp, job_system.cpp).                 *)
(*                                                                         *)
(* An argument is a record: its text, and the integer that std::stoi reads *)
(* in it if it is a number.  Positions count from 1 here.                  *)
(***************************************************************************)
EXTENDS Integers, Sequences

CONSTANTS
  Hardware,   \* the answer of std::thread::hardware_concurrency()
  Unsigned    \* the number of values of uint32_t

ASSUME UnsignedAssumption == Unsigned \in Nat /\ Unsigned > 2
ASSUME HardwareAssumption == Hardware \in 0 .. Unsigned - 1

Option(text) == [text |-> text, number |-> FALSE, value |-> 0]
Number(n) == [text |-> "number", number |-> TRUE, value |-> n]

\* argv without the name of the program.
Argument == [text : STRING, number : BOOLEAN, value : Int]
CommandLine == Seq(Argument)

-----------------------------------------------------------------------------
(* ArgumentParser.                                                         *)

Positions(args, short, long) == {i \in DOMAIN args : args[i].text \in {short, long}}

CheckIfExists(args, short, long) == Positions(args, short, long) # {}

\* The first of them.
GetPosition(args, short, long) ==
  CHOOSE i \in Positions(args, short, long) :
    \A k \in Positions(args, short, long) : i <= k

\* GetInt has a result if an argument follows and std::stoi can read it.  The
\* test pos == argc is never TRUE, so with the option as the last argument
\* argv[argc], the null pointer, is made a string.
HasInt(args, short, long) ==
  LET i == GetPosition(args, short, long)
  IN i + 1 \in DOMAIN args /\ args[i + 1].number

GetInt(args, short, long) == args[GetPosition(args, short, long) + 1].value

-----------------------------------------------------------------------------
(* main().                                                                 *)

IsParallel(args) == CheckIfExists(args, "-p", "--parallel")

MaxThreads == (IF Hardware > 2 THEN Hardware ELSE 2) - 1

\* Variant: 0 is accepted.
FitOrZero(threads) == IF threads > MaxThreads THEN MaxThreads ELSE threads

Fit(threads) ==
  IF threads > MaxThreads THEN MaxThreads ELSE IF threads = 0 THEN 1 ELSE threads

\* The option needs a number; GetInt's result is converted to uint32_t.
Readable(args) ==
  CheckIfExists(args, "-t", "--threads") => HasInt(args, "-t", "--threads")

GetNumThreads(args) ==
  IF CheckIfExists(args, "-t", "--threads")
  THEN Fit(GetInt(args, "-t", "--threads") % Unsigned)
  ELSE MaxThreads

-----------------------------------------------------------------------------
(* JobSystem::GetRandomWorkerThreadId.                                     *)

\* Random::Rand for the value r of rand().
Rand(r, min, max) == (r % max) + min

\* The own index is replaced by the next one.
RandomWorker(own, r, workers) ==
  LET i == Rand(r, 0, workers)
  IN IF i = own THEN (i + 1) % workers ELSE i

=============================================================================

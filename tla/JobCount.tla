------------------------------- MODULE JobCount -------------------------------
(***************************************************************************)
(* How many threads extract an archive.  The library decides in            *)
(* zipy_extract_all from sums kept while the archive is opened (src/zip.c, *)
(* record_extract_metrics, extract_default_jobs), the command line in      *)
(* src/main.c (adaptive_jobs) for the entries it extracts itself.  Both    *)
(* sums stop growing, at different limits, before they can overflow.       *)
(***************************************************************************)
EXTENDS Integers, Sequences, FiniteSets

CONSTANTS
  SizeMax,          \* UINT64_MAX and SIZE_MAX
  MinBytes,         \* ZIP_PARALLEL_MIN_BYTES, 8 MiB
  MinStoreEntries,  \* ZIP_PARALLEL_MIN_STORE_ENTRIES, 16
  MinStoreBytes,    \* ZIP_PARALLEL_MIN_STORE_BYTES, 64 MiB
  MaxIoJobs,        \* ZIP_PARALLEL_MAX_IO_JOBS, 2
  Listings,         \* archives: sequences of [dir, encrypted, deflate, size, packed]
  Processors        \* what cpu_count may return

ASSUME JobAssumption ==
  /\ SizeMax \in Nat
  /\ {MinBytes, MinStoreEntries, MinStoreBytes, MaxIoJobs} \subseteq 1 .. SizeMax
  /\ Listings \subseteq Seq([dir : BOOLEAN, encrypted : BOOLEAN, deflate : BOOLEAN,
                            size : 0 .. SizeMax, packed : 0 .. SizeMax])
  /\ Processors \subseteq Nat

Less(a, b) == IF a < b THEN a ELSE b
More(a, b) == IF a < b THEN b ELSE a

\* entry_parallel_work, the same in both files: bytes to be computed.
Work(e) ==
  CASE e.dir                             -> 0
    [] ~e.dir /\ e.encrypted             -> e.size
    [] ~e.dir /\ ~e.encrypted /\ e.deflate -> More(e.size - e.packed, 0)
    [] OTHER                             -> 0

\* Mutant: the sum wraps around.
GrownMod(sum, x, limit) == (sum + x) % (limit + 1)

\* sum + x in a variable that stops at limit.
Grown(sum, x, limit) ==
  IF sum >= limit THEN sum ELSE IF x > limit - sum THEN limit ELSE sum + x

Nothing == [files |-> 0, bytes |-> 0, workFiles |-> 0, work |-> 0]

\* One more entry of the sums, with the limit of the sum of sizes.
Recorded(sums, e, limit) ==
  IF e.dir THEN sums
  ELSE [files |-> sums.files + 1,
        bytes |-> Grown(sums.bytes, e.size, limit),
        workFiles |-> sums.workFiles + (IF Work(e) > 0 THEN 1 ELSE 0),
        work |-> Grown(sums.work, Work(e), MinBytes)]

Sums(a, limit) ==
  LET upTo[n \in 0 .. Len(a)] ==
        IF n = 0 THEN Nothing ELSE Recorded(upTo[n - 1], a[n], limit)
  IN upTo[Len(a)]
LibrarySums(a) == Sums(a, SizeMax)
CommandSums(a) == Sums(a, MinStoreBytes)

\* What a system that does not know its processors has is one.
CpuJobs(count, cpu) == IF count <= 1 THEN 1 ELSE Less(More(cpu, 1), count)
IoJobs(count, cpu)  == Less(CpuJobs(count, cpu), MaxIoJobs)

\* extract_default_jobs, and what adaptive_jobs does with its own sums.
FromSums(s, cpu) ==
  CASE s.files <= 1                             -> 1
    [] s.files > 1 /\ s.workFiles > 1 /\ s.work >= MinBytes -> CpuJobs(s.workFiles, cpu)
    [] s.files > 1 /\ ~(s.workFiles > 1 /\ s.work >= MinBytes) ->
         IF s.files < MinStoreEntries \/ s.bytes < MinStoreBytes THEN 1
         ELSE IoJobs(s.files, cpu)

DefaultJobs(a, cpu)  == FromSums(LibrarySums(a), cpu)
AdaptiveJobs(a, cpu) == FromSums(CommandSums(a), cpu)

\* extract_clamp_jobs of the library.
Clamped(jobs, count) == IF jobs <= 1 THEN 1 ELSE More(Less(jobs, count), 1)

\* clamp_jobs of the command line; -j cpu is the largest number there is.
Asked(jobs, count, cpu) ==
  Less(CASE count <= 1 \/ jobs <= 1                     -> 1
         [] count > 1 /\ jobs > 1 /\ jobs = SizeMax       -> CpuJobs(count, cpu)
         [] count > 1 /\ jobs > 1 /\ jobs # SizeMax       -> jobs,
       count)

\* -j auto, -j 0 and no -j are 0: main clamps only what is not.
FromOption(option, a, cpu) == IF option = 0 THEN 0 ELSE Asked(option, Len(a), cpu)

\* The threads of zipy_extract_all, if main calls it (directExtract).
ThreadsOfLibrary(option, a, cpu) ==
  LET jobs == FromOption(option, a, cpu)
  IN IF jobs = 0 THEN DefaultJobs(a, cpu) ELSE Clamped(jobs, Len(a))

\* The threads of extract_parallel, or the one of extract_serial.
ThreadsOfCommand(option, a, cpu) ==
  LET jobs == FromOption(option, a, cpu)
  IN More(IF jobs = 0 THEN AdaptiveJobs(a, cpu) ELSE jobs, 1)

-----------------------------------------------------------------------------
(* Properties *)

\* The sums that are meant, of numbers without limits.
SumOf(x, k) ==
  LET upTo[n \in 0 .. k] == IF n = 0 THEN 0 ELSE upTo[n - 1] + x[n]
  IN upTo[k]
Files(a)     == { i \in 1 .. Len(a) : ~a[i].dir }
WorkFiles(a) == { i \in Files(a) : Work(a[i]) > 0 }
TotalSize(a) == SumOf([i \in 1 .. Len(a) |-> IF a[i].dir THEN 0 ELSE a[i].size], Len(a))
TotalWork(a) == SumOf([i \in 1 .. Len(a) |-> Work(a[i])], Len(a))

\* All processors for at least 8 MiB of work in two files; else two threads for
\* at least 16 files of together 64 MiB; else one.
Meant(a, cpu) ==
  LET files     == Cardinality(Files(a))
      workFiles == Cardinality(WorkFiles(a))
  IN CASE workFiles > 1 /\ TotalWork(a) >= MinBytes -> Less(More(cpu, 1), workFiles)
       [] ~(workFiles > 1 /\ TotalWork(a) >= MinBytes)
            /\ files >= More(MinStoreEntries, 2) /\ TotalSize(a) >= MinStoreBytes
                                                    -> Less(More(cpu, 1), MaxIoJobs)
       [] OTHER                                     -> 1

\* Whether the command line hands an archive to zipy_extract_all or gives its
\* entries to workers of its own, the same number of threads extracts it, and it
\* is the number meant: neither of the sums overflows or stops too early
\* (record_extract_metrics, adaptive_jobs), no thread is without a file.
ThreadsAgree ==
  \A a \in Listings, cpu \in Processors : \A option \in 0 .. Len(a) + 1 \union {SizeMax} :
    LET n == ThreadsOfLibrary(option, a, cpu)
    IN /\ n = ThreadsOfCommand(option, a, cpu)
       /\ n \in 1 .. More(Len(a), 1)
       /\ option = 0 => n = Less(Meant(a, cpu), More(Cardinality(Files(a)), 1))
=============================================================================

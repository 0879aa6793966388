----------------------------- MODULE ExtractPool -----------------------------
(***************************************************************************)
(* The extraction loop of zipy_extract_all (src/zip.c): a pool of worker   *)
(* threads that claim batches of entries from a shared context under its   *)
(* mutex, report progress from inside the mutex, and stop at the first     *)
(* failure; and the serial loop that replaces the pool for one job, or     *)
(* when no thread could be started.                                        *)
(*                                                                         *)
(* Thread 0 is the calling thread.  It starts the workers 1..Jobs, joins   *)
(* them, and takes the worker's role itself in the serial loop.  A critical*)
(* section of ctx.lock is one action: no other thread reads or writes the  *)
(* context meanwhile.  The user's progress callback runs inside one.       *)
(*                                                                         *)
(* What extracting one entry does to the file system is the subject of     *)
(* AtomicParts and ResumeEntry; here extract_entry reports some chunks and *)
(* then returns.                                                           *)
(***************************************************************************)
EXTENDS Integers, FiniteSets

CONSTANTS
  Count,        \* ctx.count, the number of entries
  Jobs,         \* the number of workers asked for
  StackThreads, \* ZIP_STACK_THREADS: more jobs need an allocated thread array
  Size,         \* Size[i]: the uncompressed size of entry i
  Directory,    \* the entries that are directories
  Skip,         \* the entries prepare_extract_all marked to be skipped
  BatchMax,     \* ZIP_WORK_BATCH
  BatchBytes,   \* ZIP_WORK_BATCH_BYTES
  HasProgress,  \* options.progress is set
  EntryErrors,  \* the failures extract_entry may return
  Faults        \* which of "thread", "clone", "memory" may fail

Entries == 0 .. Count - 1
Threads == 0 .. Jobs
Main    == 0

ASSUME PoolAssumption ==
  /\ Count \in Nat
  /\ Jobs \in Nat
  /\ StackThreads \in Nat
  /\ Size \in [Entries -> Nat]
  /\ Directory \subseteq Entries
  /\ Skip \subseteq Entries
  /\ BatchMax \in Nat \ {0}
  /\ BatchBytes \in Nat
  /\ HasProgress \in BOOLEAN
  /\ "OK" \notin EntryErrors
  /\ Faults \subseteq {"thread", "clone", "memory"}

Failures == EntryErrors \union {"EFILE", "ERR", "ECANCEL"}
Results  == Failures \union {"OK"}

VARIABLES
  phase,      \* the calling thread: "start", "join", "serial" or "returned"
  started,    \* the number of workers started
  next,       \* ctx.next, the first entry nobody claimed
  result,     \* ctx.result
  done,       \* ctx.done, the bytes reported so far
  pc,         \* where each thread is
  idx,        \* the entry of its batch a thread works on
  end,        \* the end of its batch
  entryDone,  \* progress.entry_done of its current entry
  ret,        \* the failure a thread is about to record
  \* history
  finished,   \* the entries that were completed
  cancelled   \* the callback returned zero at least once

ctxVars    == << next, result, done >>
threadVars == << pc, idx, end, entryDone, ret >>
vars == << phase, started, ctxVars, threadVars, finished, cancelled >>

Goto(t, label) == pc' = [pc EXCEPT ![t] = label]

\* A failure is recorded only if no other one was.
Record(r) == result' = IF result = "OK" THEN r ELSE result

-----------------------------------------------------------------------------
(* Batches *)

\* The bytes of the entries in S: byte k of entry e is << e, k >>.
Content(S) == UNION { {e} \X (1 .. Size[e]) : e \in S }

Bytes(S) == Cardinality(Content(S))

\* Mutant: the bytes of the batch are not counted.
FitsAnySize(i, m) == m - i < BatchMax

\* Entry m still fits in the batch that began with entry i.
Fits(i, m) ==
  /\ m - i < BatchMax
  /\ Bytes(i .. m - 1) < BatchBytes
  /\ Size[m] <= BatchBytes - Bytes(i .. m - 1)

\* Where a batch that begins with entry i ends (a set with one element).
BatchEnds(i) ==
  { j \in i + 1 .. Count :
      /\ \A m \in i + 1 .. j - 1 : Fits(i, m)
      /\ j < Count => ~Fits(i, j) }

-----------------------------------------------------------------------------
(* Progress *)

\* progress_init_entry leaves the progress of a directory switched off.
Reports(e) == HasProgress /\ e \notin Directory

\* progress_advance: account for the bytes, call the callback, and record a
\* cancellation.  The serial loop passes no result to record it in.
Advance(t, amount, go) ==
  /\ entryDone' = [entryDone EXCEPT ![t] = @ + amount]
  /\ done' = done + amount
  /\ IF go
       THEN UNCHANGED << result, cancelled >>
       ELSE /\ cancelled' = TRUE
            /\ IF t = Main THEN UNCHANGED result ELSE Record("ECANCEL")

FailWith(t, r) ==
  /\ ret' = [ret EXCEPT ![t] = r]
  /\ Goto(t, "fail")

-----------------------------------------------------------------------------
(* The calling thread *)

\* Mutant: the serial loop runs one entry too far.
EnterSerialTooFar ==
  /\ phase' = "serial"
  /\ next'  = Count
  /\ idx'   = [idx EXCEPT ![Main] = 0]
  /\ end'   = [end EXCEPT ![Main] = Count + 1]
  /\ Goto(Main, "entry")
  /\ UNCHANGED << started, result, done, entryDone, ret, finished, cancelled >>

\* The serial loop runs over the whole archive as one batch, unless its path
\* buffer cannot be allocated.
EnterSerial ==
  /\ phase' = "serial"
  /\ next'  = Count
  /\ idx'   = [idx EXCEPT ![Main] = 0]
  /\ end'   = [end EXCEPT ![Main] = Count]
  /\ \/ Goto(Main, IF Count > 0 THEN "entry" ELSE "claim") /\ UNCHANGED ret
     \/ "memory" \in Faults /\ FailWith(Main, "ERR")
  /\ UNCHANGED << started, result, done, entryDone, finished, cancelled >>

\* One job (an archive without a path counts as one), or no memory for the
\* thread array.
RunSerial ==
  /\ phase = "start"
  /\ started = 0
  /\ \/ Jobs <= 1
     \/ Jobs > StackThreads /\ "memory" \in Faults
  /\ EnterSerial

StartWorker ==
  /\ phase = "start"
  /\ Jobs > 1
  /\ started < Jobs
  /\ started' = started + 1
  /\ Goto(started + 1, "init")
  /\ UNCHANGED << phase, ctxVars, idx, end, entryDone, ret, finished, cancelled >>

\* thread_start fails: go on with the workers there are, if any.
StartFails ==
  /\ phase = "start"
  /\ Jobs > 1
  /\ started < Jobs
  /\ "thread" \in Faults
  /\ IF started = 0
       THEN EnterSerial
       ELSE /\ phase' = "join"
            /\ UNCHANGED << started, ctxVars, threadVars, finished, cancelled >>

StartJoin ==
  /\ phase = "start"
  /\ Jobs > 1
  /\ started = Jobs
  /\ phase' = "join"
  /\ UNCHANGED << started, ctxVars, threadVars, finished, cancelled >>

\* Mutant: joins the workers asked for, not those that started.
ReturnJoinsAll ==
  /\ \/ phase = "join" /\ \A t \in 1 .. Jobs : pc[t] = "exited"
     \/ phase = "serial" /\ pc[Main] = "exited"
  /\ phase' = "returned"
  /\ UNCHANGED << started, ctxVars, threadVars, finished, cancelled >>

Return ==
  /\ \/ phase = "join" /\ \A t \in 1 .. started : pc[t] = "exited"
     \/ phase = "serial" /\ pc[Main] = "exited"
  /\ phase' = "returned"
  /\ UNCHANGED << started, ctxVars, threadVars, finished, cancelled >>

-----------------------------------------------------------------------------
(* A worker *)

InitWorker(t) ==
  /\ pc[t] = "init"
  /\ Goto(t, "claim")
  /\ UNCHANGED << phase, started, ctxVars, idx, end, entryDone, ret,
                  finished, cancelled >>

\* Mutant: a worker that cannot set up leaves the entries to the others.
InitFailsSilently(t) ==
  /\ pc[t] = "init"
  /\ "clone" \in Faults \/ "memory" \in Faults
  /\ Goto(t, "exited")
  /\ UNCHANGED << phase, started, ctxVars, idx, end, entryDone, ret,
                  finished, cancelled >>

\* clone_init fails, or the path buffer of the clone cannot be allocated.
InitFails(t) ==
  /\ pc[t] = "init"
  /\ \/ "clone" \in Faults /\ Record("EFILE")
     \/ "memory" \in Faults /\ Record("ERR")
  /\ Goto(t, "exited")
  /\ UNCHANGED << phase, started, next, done, idx, end, entryDone, ret,
                  finished, cancelled >>

\* Mutant: the counter moves by one entry, whatever the batch.
ClaimOne(t) ==
  /\ pc[t] = "claim"
  /\ result = "OK"
  /\ next < Count
  /\ \E j \in BatchEnds(next) :
       /\ idx' = [idx EXCEPT ![t] = next]
       /\ end' = [end EXCEPT ![t] = j]
  /\ next' = next + 1
  /\ Goto(t, "entry")
  /\ UNCHANGED << phase, started, result, done, entryDone, ret, finished, cancelled >>

Claim(t) ==
  /\ pc[t] = "claim"
  /\ result = "OK"
  /\ next < Count
  /\ \E j \in BatchEnds(next) :
       /\ idx'  = [idx EXCEPT ![t] = next]
       /\ end'  = [end EXCEPT ![t] = j]
       /\ next' = j
  /\ Goto(t, "entry")
  /\ UNCHANGED << phase, started, result, done, entryDone, ret, finished, cancelled >>

Leave(t) ==
  /\ pc[t] = "claim"
  /\ result # "OK" \/ next >= Count
  /\ Goto(t, "exited")
  /\ UNCHANGED << phase, started, ctxVars, idx, end, entryDone, ret,
                  finished, cancelled >>

BeginEntry(t) ==
  /\ pc[t] = "entry"
  /\ entryDone' = [entryDone EXCEPT ![t] = 0]
  /\ Goto(t, IF idx[t] \in Skip THEN "finish" ELSE "extract")
  /\ UNCHANGED << phase, started, ctxVars, idx, end, ret, finished, cancelled >>

\* The path of the entry does not fit and its buffer cannot grow.
PathFails(t) ==
  /\ pc[t] = "entry"
  /\ idx[t] \notin Skip
  /\ "memory" \in Faults
  /\ FailWith(t, "ERR")
  /\ UNCHANGED << phase, started, ctxVars, idx, end, entryDone, finished, cancelled >>

\* extract_entry reports a chunk, and gives up when the callback says so.
ReportChunk(t) ==
  /\ pc[t] = "extract"
  /\ Reports(idx[t])
  /\ \E amount \in 1 .. Size[idx[t]] - entryDone[t], go \in BOOLEAN :
       /\ Advance(t, amount, go)
       /\ IF go THEN UNCHANGED << pc, ret >> ELSE FailWith(t, "ECANCEL")
  /\ UNCHANGED << phase, started, next, idx, end, finished >>

EntrySucceeds(t) ==
  /\ pc[t] = "extract"
  /\ Goto(t, "finish")
  /\ UNCHANGED << phase, started, ctxVars, idx, end, entryDone, ret,
                  finished, cancelled >>

EntryFails(t) ==
  /\ pc[t] = "extract"
  /\ \E r \in EntryErrors : FailWith(t, r)
  /\ UNCHANGED << phase, started, ctxVars, idx, end, entryDone, finished, cancelled >>

NextEntry(t) ==
  /\ finished' = finished \union {idx[t]}
  /\ idx' = [idx EXCEPT ![t] = @ + 1]
  /\ Goto(t, IF idx[t] + 1 < end[t] THEN "entry" ELSE "claim")
  /\ UNCHANGED ret

\* Mutant: reports the size again, whatever extract_entry reported.
MissingAll(t) == IF Reports(idx[t]) THEN Size[idx[t]] ELSE 0

\* progress_finish_entry tops the report up to the size of the entry.
Missing(t) == IF Reports(idx[t]) THEN Size[idx[t]] - entryDone[t] ELSE 0

\* Mutant: the answer of the callback to the last report is ignored.
FinishEntryUnchecked(t) ==
  /\ pc[t] = "finish"
  /\ IF Missing(t) > 0
       THEN \E go \in BOOLEAN : Advance(t, Missing(t), go)
       ELSE UNCHANGED << entryDone, done, result, cancelled >>
  /\ NextEntry(t)
  /\ UNCHANGED << phase, started, next, end >>

FinishEntry(t) ==
  /\ pc[t] = "finish"
  /\ IF Missing(t) > 0
       THEN \E go \in BOOLEAN :
              /\ Advance(t, Missing(t), go)
              /\ IF go THEN NextEntry(t)
                       ELSE FailWith(t, "ECANCEL") /\ UNCHANGED << idx, finished >>
       ELSE /\ NextEntry(t)
            /\ UNCHANGED << entryDone, done, result, cancelled >>
  /\ UNCHANGED << phase, started, next, end >>

\* Mutant: the last failure wins.
FailLast(t) ==
  /\ pc[t] = "fail"
  /\ result' = ret[t]
  /\ Goto(t, "exited")
  /\ UNCHANGED << phase, started, next, done, idx, end, entryDone, ret,
                  finished, cancelled >>

Fail(t) ==
  /\ pc[t] = "fail"
  /\ Record(ret[t])
  /\ Goto(t, "exited")
  /\ UNCHANGED << phase, started, next, done, idx, end, entryDone, ret,
                  finished, cancelled >>

-----------------------------------------------------------------------------
Init ==
  /\ phase     = "start"
  /\ started   = 0
  /\ next      = 0
  /\ result    = "OK"
  /\ done      = 0
  /\ pc        = [t \in Threads |-> "off"]
  /\ idx       = [t \in Threads |-> 0]
  /\ end       = [t \in Threads |-> 0]
  /\ entryDone = [t \in Threads |-> 0]
  /\ ret       = [t \in Threads |-> "OK"]
  /\ finished  = {}
  /\ cancelled = FALSE

Caller == RunSerial \/ StartWorker \/ StartFails \/ StartJoin \/ Return

Step(t) ==
  \/ InitWorker(t)
  \/ InitFails(t)
  \/ Claim(t)
  \/ Leave(t)
  \/ BeginEntry(t)
  \/ PathFails(t)
  \/ ReportChunk(t)
  \/ EntrySucceeds(t)
  \/ EntryFails(t)
  \/ FinishEntry(t)
  \/ Fail(t)

Next == Caller \/ \E t \in Threads : Step(t)

Spec == Init /\ [][Next]_vars

\* The operating system runs every thread, extract_entry returns and so does
\* the callback.
Fairness == WF_vars(Caller) /\ \A t \in Threads : WF_vars(Step(t))

FairSpec == Spec /\ Fairness

-----------------------------------------------------------------------------
(* Properties *)

Labels == {"off", "init", "claim", "entry", "extract", "finish", "fail", "exited"}

\* The variables keep their types (the context and the locals of a worker).
TypeOK ==
  /\ phase \in {"start", "join", "serial", "returned"}
  /\ started \in 0 .. Jobs
  /\ next \in 0 .. Count
  /\ result \in Results
  /\ done \in Nat
  /\ pc \in [Threads -> Labels]
  /\ idx \in [Threads -> 0 .. Count]
  /\ end \in [Threads -> 0 .. Count]
  /\ entryDone \in [Threads -> Nat]
  /\ ret \in [Threads -> Results]
  /\ finished \subseteq Entries
  /\ cancelled \in BOOLEAN

\* The entries a thread still has to handle.
Batch(t) == idx[t] .. end[t] - 1

\* Two threads never hold the same entry, and none holds an entry that was
\* completed before: the claim under ctx.lock partitions the archive.
OneOwner ==
  /\ \A t, u \in Threads : t # u => Batch(t) \intersect Batch(u) = {}
  /\ \A t \in Threads : Batch(t) \intersect finished = {}

\* When the call returns OK no entry was lost: neither one of a batch a
\* worker abandoned, nor one nobody claimed because every worker had left.
ResultOkIsComplete ==
  phase = "returned" /\ result = "OK" => finished = Entries

\* extract_uncompressed_size: the total the callback is told.
Total == Bytes(Entries \ Directory)

\* The callback never sees more than the total, whatever the chunks that
\* extract_entry reported before progress_finish_entry, and a call that
\* returns OK has reported exactly the total, skipped entries included.
ProgressExact ==
  /\ done <= Total
  /\ phase = "returned" /\ result = "OK" /\ HasProgress => done = Total

\* A cancelled extraction never returns OK, even if the callback says zero
\* for the last bytes of the last entry.
CancelHonoured == phase = "returned" /\ cancelled => result # "OK"

\* A worker is given several entries at once only if they are small: at most
\* BatchMax of them and at most BatchBytes in all (no large file waits
\* behind another one while a worker is idle).
LargeFilesAlone ==
  [][phase' # "serial" /\ next' > next + 1 =>
       /\ next' - next <= BatchMax
       /\ Bytes(next .. next' - 1) <= BatchBytes]_vars

\* The call returns, whichever threads fail to start or give up.
Returns == <>(phase = "returned")

\* The pool implements the promise of zipy_extract_all.
Promise == INSTANCE ExtractAllSpec WITH returned <- phase = "returned"
PromiseKept == Promise!Spec
=============================================================================

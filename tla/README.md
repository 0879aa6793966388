# zipy: specifications, model checking and proofs

TLA+ modules about the extraction engine of zipy (`src/zip.c`, `src/main.c`), TLC
configurations that check them on small instances, and TLAPS proofs of the most
important safety properties for every instance. Paths and line numbers below are
those of the repository. Every definition that stands for code is listed with its
lines in `PROJECT.json` under `map`.

```sh
tlc -workers 2 -config ExtractPool_workers.cfg MCExtractPool.tla     # any run below
tlapm ExtractPool_proofs.tla      # and the six other *_proofs.tla
```

## 1. Inventory

zipy is a C library with a command line and two thin wrappers. One archive handle
(`zipy_archive_t`) has a file position, path and copy buffers, and a one-entry cache
of parent directories; a handle belongs to one thread, and workers clone it.
Everything that outlives a call is in the file system.

| component | state | operations | what is hard | what makes it correct |
|---|---|---|---|---|
| **parallel `extract_all`** (zip.c 6278-6541, 7275-7343) | `extract_all_context_t`: next entry, result, bytes done, a mutex; per worker a batch and a progress state | claim a batch, extract, record a failure, join; serial loop as fall-back | interleavings of workers; threads, clones and memory that fail; a callback that cancels under the lock | no entry twice or lost; first failure reported; OK means everything; the call returns |
| **progress** (4755-4854) | `progress_state_t`, shared `done` | advance, top up at the end of an entry | shared by the workers; cancel in the very last report | total exact, never exceeded; a cancel is never OK |
| **atomic writes** (`extract_entry` 5992-6219, 2332-2417, 6718-6757) | `target/.zipy/parts/`, shared by all entries | make directories, write a part, rename, remove empty directories | one entry's clean-up against another one's set-up; failures half way | a destination is never partial; nothing left behind; no failure caused by a neighbour |
| **resumable entry** (5992-6219, 2420-2486) | destination, part, `resume_state.txt` | skip, adopt, continue or restart a part | kills between any two steps; runs with other options; foreign parts; preallocated outputs | what is in place is whole; bytes are not thrown away; a bad part is got rid of; the state file is true |
| **streaming walk** (`zipy_extract_stream` 7347-7739) | one file position; the run status | read header, extract or skip, skip descriptor | the position every path must leave; an archive that is still arriving; retries | OK means everything was met; incomplete means truncated; a retry gets there |
| **stored data of unknown size** (5108-5419, 871-977) | scan buffer, bytes held back, part | scan for a descriptor, put back, write out | descriptors across reads and across calls; data that looks like a descriptor | the destination is exactly the data; the end is found when it is there |
| **conflicts** (4857-5055, 6633-6715) | the target tree, folders of saved files, their manifests | look, move away, note, write | check-then-rename by several workers; parents that are files; duplicate names | the user's files survive; a refused call changes nothing; what was saved is listed |
| **opening an archive** (1235-1660, 6768-7030) | table of entries | find the end record and its ZIP64 twin, walk the directory, mapped or read | limits of 16, 32 and 64 bits; decoys in the comment; truncation; two readers of one format | what was written is listed, whichever way the file is read; what is cut short is refused |
| **number of jobs** (1665-1710, 6223-6275; main.c 384-528) | sums kept while opening | count, clamp | saturation; two implementations with different limits | both give the number that is meant; no worker without a file |
| **moving the data** (3231-4000, `dec.c`) | bytes read, written, checked, reported | copy, inflate, to a file, a mapping or memory, through a cipher or not | six loops with final checks of their own; short input, wrong passwords, a full disk, cancels | OK means whole, checked and authenticated; sound data is accepted by every loop; loops agree |
| **ciphers** (`aes_wg.c`, `sha1.c`) | key stream, counter, hash buffer | decrypt, hash, derive a key | data that comes in pieces; short cuts | the result does not depend on the pieces |
| conflicts asked for (main.c 1546-1831) | answers by entry | ask in advance, carry out | answers are older than the tree they are about | what the user skips is left alone; in `SaveConflicts` |
| times of directories (6544-6578; main.c 1970-2000) | - | set after all files | a later file changes the time again | directories end with their own time; in `SaveConflicts` |
| names, paths (1727-1851, 2530-2640) | - | assemble strings | - | *not modelled*, section 5 |
| symbolic links (4005-4579) | - | `realpath`, containment, `symlink` | - | *not modelled*, section 5 |
| deflated data of unknown size (5422-5771) | part | inflate until the stream ends | position after the stream | outcome only, in `StreamWalk` |
| command line: options, configuration, display (main.c) | configuration, counters | parse, print | - | *not modelled*; its workers are in `AtomicParts`, `SaveConflicts` and `JobCount` |
| Swift, Rust wrappers | progress boxes | one C call each | observers updated by unordered tasks (Zipy.swift 493-515) | *not modelled*, section 6 |
| inflate, CRC-32, AES, SHA-1 as arithmetic | - | - | - | taken as given: inflate is an external library |

Interaction: `zipy_extract_all` prepares the conflicts of all entries on the calling
thread, then starts the pool, then cleans up the parts tree and applies the metadata of
directories. `zipy_extract_to` does the same for one entry; the command line calls it
from several threads, each with its own handle, on one target. `zipy_extract_stream`
does everything for one entry after the other. All of them end in `extract_entry`.

## 2. Modules

| module | about | composed with |
|---|---|---|
| `ExtractAllSpec` | what `zipy_extract_all` promises, whatever the number of threads | - |
| `ExtractPool` | pool, serial loop, progress, cancellation | implements `ExtractAllSpec` (`INSTANCE ... WITH returned <- phase = "returned"`) |
| `ExtractPool_proofs` | proofs for any archive and number of workers, and about `JobCount` | extends `MCExtractPool` |
| `JobCount` | how many threads, by the library and by the command line | comes before `ExtractPool`: same run |
| `OpenDirectory` | end record, ZIP64 and central directory, mapped and read | comes before `ExtractPool`: same run |
| `OpenDirectory_proofs` | proofs for any limits, lengths of records, listings and comments | extends `MCExtractPool` |
| `AtomicParts` | atomic extraction of several files in one parts tree | its `extract_entry` is one entry of `ExtractPool`, at the level of system calls |
| `AtomicParts_proofs` | proofs for any tree, number of files and workers | extends `AtomicParts` |
| `ResumeEntry` | one file over many runs | the `extract_entry` of one entry, with kills |
| `ResumeEntry_proofs` | proofs for any size, archive and series of runs; about `EntryData` for any payload and way, about `Ciphers` for any lengths and pieces | extends `MCResumeEntry` |
| `EntryData` | the loops that move the data of one entry | the `Copy` and `Inflate` of `ResumeEntry`: same run |
| `Ciphers` | key stream, hash and key derivation over pieces | the cipher of `EntryData`: same run |
| `StreamWalk` | the walk over local headers | uses the outcomes of `ResumeEntry` and `StoreScan` |
| `StreamWalk_proofs` | proofs for any number of entries and any series of calls | extends `StreamWalk` |
| `StoreScan` | the scan for the end of stored data | the "unsized" entry of `StreamWalk`, byte by byte |
| `StoreScan_proofs` | proofs for any length and any growth | extends `StoreScan` |
| `SaveConflicts` | existing files under the four callers | - |
| `SaveConflicts_proofs` | proofs for any archive and number of workers | extends `SaveConflicts` |
| `Iteration` | lemmas: induction on numbers, recursive functions, division, pieces of sequences | used by the proofs about `JobCount`, `OpenDirectory`, `EntryData`, `Ciphers` |
| `MC*` | small instances | one per state machine |

Operators named in a comment that begins with `Mutant:` are plausible bugs: replacing the
definition that follows by one of them must break a property, which shows that the
property can see the code. They are not part of the specifications.

### ExtractPool

Thread 0 is the caller, `1..Jobs` are the workers. A critical section of `ctx.lock` is
one action, since nobody else reads the context meanwhile: `Claim` (6383-6411), `Fail`
(6472-6476), `InitFails` (6364-6381). The callback runs inside the mutex (4787-4812), so
`Advance` is atomic too, and its answer is a free choice. `BeginEntry`, `ReportChunk`,
`EntrySucceeds`, `EntryFails` stand for `extract_entry`, of which only reports and result
matter here. `StartFails` is a failing `thread_start`: with none started the caller takes
the serial loop (6526-6531), otherwise it joins those there are.
`finished` and `cancelled` are history.

*Refinement.* `ExtractAllSpec` has three actions: complete an entry once, record the first
failure, return (OK only if everything is complete). `PromiseKept` says that the pool
implements it.

*Fairness.* Weak fairness of the caller and of every thread: the operating system runs the
threads, and `extract_entry` and the callback return. Mutexes need no more, as a critical
section is one step that is never disabled once its thread is there. `Returns` needs this;
nothing else does.

### JobCount and OpenDirectory

Pure functions of an archive, checked in the state in which the pool starts, as the pool takes
their results: the number of threads and the list of entries.

`JobCount` has both computations. The library keeps sums while it opens the archive (limit
`SizeMax`), the command line adds up the entries it extracts itself (limit `MinStoreBytes`);
`ThreadsAgree` compares them with each other and with `Meant`, which uses numbers without limits.

`OpenDirectory` has a file as a row of cells: the fixed part of a record is one cell with its
fields, followed by filler for its length. `Written` is a writer that follows the format;
`Open(f, mapped)` is `zipy_open`. The search for the end record looks at every place from the
end; of ZIP64 extra blocks the last one counts; the mapped reader stays within the directory
and must end at its end, the other one may go on to the end of the file. `Damaged` changes any
one number of any record. Reading and mapping agree, except that the mapped reader wants
the records to fill the directory (7015); `MappedIsRead` says so as an equivalence.

### AtomicParts

One process per call of `extract_entry` on a regular file, one action per system call
(`stat`, `mkdir`, `stat` again, `unlink`, `open`, `write`, `rename`, `rmdir`). Open files are
inodes: a path can be unlinked or renamed under its writer. `call.extractAll` tells
`zipy_extract_all`, which sets the internal `EXTRACT_DELAY_PARTS_CLEANUP` and cleans up once
at the end, from the per-entry calls of the command line. Foreign parts left by other runs
keep their directories. The one-entry cache of parent directories has no part in this: every
entry prepares the parent of its destination first (5982-5990), so the directory of its part is
never the cached one. Entries are claimed in order, any `Jobs` at once: batches, which
only restrict this, are left out. No two entries have one name (`NamesAssumption`); with distinct
names the `ELSE` of `Publish` (the rename fails) is not reached.

### ResumeEntry

A file is its size in chunks, whether its bytes are those the archive promises, and whether
its attributes were set. Each change of the file system is one action, so `Crash` may come
between any two; `Start` begins a run with any options. Part and destination may at first be
anything: another archive's part, a shorter or equally long file of the user. `InflateMapped`
is the mapped output, which has its full size before its bytes. AES version 2 has no checksum
(`CheckCrc`), only an authentication code (`Sealed`).
`faulty` and `wasted` count the runs that fail although nothing went wrong.

### EntryData and Ciphers

What `ResumeEntry` takes for one step, spelled out, and checked while no run is under way.

A payload of `EntryData` says what the directory promises, how much of the data is there, and
what it turns out to be; a way `o` says how it is extracted. `CopyRead`, `CopyMapped`,
`InflateInChunks`, `InflateAtOnce`, `ReadWhole` and `ToMemory` are the loops, each with its own
final checks. A stream may end early, late or only when asked once more (`late`), and yield
too much or too little. `InflateAtOnce` (3820-3828, a mapped archive without a callback)
does not look at the position of the input: bytes behind the end of the deflate stream are accepted
there and are `ESIZE` elsewhere; `PathsAgree` has the condition that says so.

`Ciphers` does not compute AES and SHA-1. A byte of key stream is the counter it comes from
and its place in the block, a hash the list of blocks that went in. What is left is what the
code does itself: which byte meets which, across calls and on the path for four blocks at once;
how blocks are collected and padded; what PBKDF2 leaves out because it is the same each turn.

### StreamWalk

The archive is a row of pieces (header, data, descriptor of each entry, central directory).
`pos` is the piece that is read next, which is what the C file position means at the
points where the code reads. `Arrive` lets one more piece arrive between two calls, `Kill`
ends one anywhere. A kind `other` stands for every entry that is refused (7455, 7512-7592): some
reasons are met before the sizes are, some behind, so both results are possible while the archive is
incomplete. `ExtractFails` may come before anything of the entry is touched, a directory that cannot
be made included. An entry of unknown size has the outcome of `StoreScan`; data is taken not
to look like a record. `statePath` is the buffer that `state_path` aliases. `handled` is
history.

### StoreScan

`at`, `base` and `held` are the file position, `base_len` and `tail_len`. `Seen` are the
places at which the loop looks, `Matches` the test of `match_signed_store_descriptor` and
`match_unsigned_store_descriptor`: a decoy in the data has a signature but not the right
checksum. `ReadOn` and `Find` are one pass of the read loop each; the position is put back
after a probe. `CannotStart` is a call that fails before the loop (5142-5216).
`foreign` says that the part is another archive's. A resumed call continues behind it
with a checksum it cannot make right (`Misled`): it never puts the file in place, but it never
finds the end either, and reports `EINCOMPLETE` until the part is removed.

### SaveConflicts

One process per entry; the target and each folder of saved files are trees. `LookAtParent` is the
look of `prepare_parent_conflicts`; `Look`, `Move`, `Recheck`, `Note` are the steps of
`prepare_conflict`, which looks again. Other workers run between any two. First comes the parent,
then the path itself. `CannotSave` and `MoveFails` happen when something is in the way in the folder,
and also for no reason in the trees (`EXDEV`, no permission, a full disk).
`NextInOrder` and `NextOfWorkers` say which entry
may come next under each caller; `Folder` which entries share a folder. The policy of an entry
is that of the call, or the user's answer (`asked`), given for the tree as it was before the
first change. `cache` is the parent directory that each archive handle remembers, which spares it
`mkdirs`; that a conflict moves a directory away does not make it forget.
`stamped` are the directories with the time
of their entry, which any later change inside takes away and `StampAll` sets at the end. A call of
`zipy_extract_all` that fails while writing stops sooner than here; the model lets the other
entries go on, which adds behaviours and takes none away. The policy "overwrite" only arises
from an empty target (7302-7306; the command line does the same).

## 3. Runs

| run | result | states | question |
|---|---|---|---|
| `pool_workers` | passes | 120 293 | opening; counting threads; interleavings of three workers, every failure, any callback |
| `parts_files` | passes | 88 430 | three files at once, both callers, leftovers of other runs |
| `parts_race` | violated: `NoSpuriousFailure` | | is the delayed clean-up needed by the command line too? |
| `resume_runs` | passes | 410 562 | any series of runs, kills, options, archives, parts; every way to move the data |
| `resume_metadata` | violated: `MetadataRestored` | | are mode and time restored after a kill? |
| `stream_calls` | passes | 3 129 211 | archives of up to two entries, all policies, retries |
| `stream_retry` | violated: `RetryGetsThere` | | does a resuming retry succeed when all has arrived? |
| `stream_status` | violated: `StatusRecorded` | | is the final status in the state file? |
| `scan_both` | passes | 3 337 246 | signed and unsigned, arriving byte by byte, after another archive's part |
| `scan_grow` | violated: `GrowthIsEnough` | | can every interrupted scan continue? |
| `conflicts_callers` | passes | 2 984 914 | every tree, four callers, any policy or answers, two workers |
| `conflicts_twice` | violated: `SafeOnConflicts` | | is the user's file safe when a name comes twice? |

### What the passing runs show

* `pool_workers`: `OneOwner` (batches partition the archive), `ResultOkIsComplete` (nothing is
  lost with a worker that left), `ProgressExact` (the shared count ends at the total and never
  passes it), `CancelHonoured`, `LargeFilesAlone` (the batching rule of 6395-6397), `Returns`,
  `PromiseKept`. `ThreadsAgreeAtStart`: neither saturating sum stops too early, and library and
  command line start the same number of threads. `WrittenOpens`: every archive written by the format
  is listed in full, with and without ZIP64, also at the limits, with the longest comment
  and with an end record inside the comment; cut short anywhere it is refused. `MappedOpensToo`:
  with any one field damaged, an archive is listed when it is mapped just if it is listed when it is
  read and its records fill the directory; then alike, and no entry begins in the directory.
* `parts_files`: `DestWhole` and `DestFollowsResult` (a destination is what it was, or one
  entry's complete output, and only for an entry that returned OK), `NoSpuriousFailureInAll`
  (the comment at 7313-7314), `NoPartLeft`, `TreeGone`.
* `resume_runs`: `DestWhole`, `OkIsInPlace`, `StateTruthful`, `BadPartCostsOneRun` (no
  part, whoever left it, makes run after run fail), `BytesAreKept`. `DataIsRight`: OK means the
  promised bytes, checked, authenticated, reported once, and the file at the end of the payload;
  sound data is accepted on every path; whether data is accepted depends on the data only.
  `PiecesMakeWhole`: decryption, hash and derived key do not depend on how the input is cut.
* `stream_calls`: `OkMeansAll`, `StaysInStep`, `IncompleteIsTruncated`.
* `scan_both`: `DestExact` (also after another archive's part), `PartIsData`, `FoundWhenThere`.
* `conflicts_callers`: `OriginalsKept`, `FailChangesNothing`, `SavedIsListed`, `OthersLeftAlone` (what
  no entry is in conflict with, or what the user skips, is as it was, whoever moves what meanwhile),
  `RememberedParentIsThere` (a handle that does not make a parent directory again is right),
  `DirectoryTimes`.

### What the violated runs show

Each states what the README or a comment says, and has a counterexample that follows the code.

1. `parts_race`: the command line's workers run `zipy_extract_to` per entry; its
   `default_extract_options` masks the delay flag away (4742-4747), so one entry's clean-up
   (6215-6217) removes a directory between another one's `mkdirs` and `open`: `EFILE`.
2. `resume_metadata`: a kill between 6077 and 6088 leaves a file in place without its mode
   and time; every later run skips it (6010-6038).
3. `stream_retry`: an entry that is skipped or adopted leaves the position at its data, where
   7702-7724 go on as if it had been read.
4. `stream_status`: `cleanup_empty_parts_dirs` (2381) overwrites `state_buf`, in which
   `state_path` lies (7411); the final status goes to a path that is a directory.
5. `scan_grow`: 15 bytes are held back, but 16 + 4 must be there to accept a signed
   descriptor (885-890). An archive that ends in between leaves descriptor bytes in the part.
6. `conflicts_twice`: with one folder for the whole run the second rename (4938) overwrites
   the original that the first one saved.

### Bounds

| run | bound | why it is enough |
|---|---|---|
| pool | 4 entries of 0, 1, 2 units and a directory, one skipped; 3 workers; batches of 2 entries and 2 units | two workers hold batches while a third finds nothing or fails; a batch that is full by number, by bytes, by one large entry; `StackThreads` = 1 so the thread array may fail |
| opening | up to three entries, `Max16` = 3, `Max32` = 9, `Max64` = 60, comments of every length, one damaged field with values at every limit | three entries reach `Max16`, sizes and offsets lie on both sides of `Max32`; all comparisons are between such numbers |
| jobs | up to three entries of 1, 4, 15 bytes and directories, `SizeMax` = 15, up to 4 processors | one entry fills a sum, two overflow it; every threshold is met, missed and passed |
| data | payloads of up to 5 cells, chunks of 2 and 3, up to 2 cells missing, cancel or full disk at 1 to 3 | a chunk that is full, one that is not, one that is empty; a failure in the first and in a later one; streams that end before, at and behind the payload |
| ciphers | blocks of 2, counters modulo 6, hash blocks of 6, up to 13 bytes in up to three pieces | the fast path, its begin in the middle of a block, the wrap of the counter; an end that fills a block |
| parts | 3 files in two directories of a 4-deep tree, 2 chunks, 1 bad, 2 leftovers | a shared ancestor with a last user, a failure beside two successes; the race needs two |
| resume | size 2 chunks, parts of 0 to 3 | empty, partial, complete and oversized parts; runs are unbounded; `MaxWasted` = 2 stops the count where the property has failed already |
| stream | 2 entries | what an entry leaves behind shows in the next one; calls are unbounded |
| scan | data of 0, 1, 18, 33 bytes, buffer 16, decoys at 0, 5, 20, 5 bytes of next record, foreign parts of 7, 30, 70 bytes | shorter than a descriptor, around the 15 bytes held back, over several reads; foreign parts shorter and longer than the data and than the archive |
| conflicts | 3 entries, a directory with two files and a file beside it, 2 workers | two entries meet in a directory and a third interferes; the tree is as deep as one parent |

Deadlock is checked for `ResumeEntry`, `StreamWalk` and `StoreScan`, whose callers may always
call again. The other three are single calls that end.

## 4. Proofs

`ExtractPool_proofs` (any `Count`, `Jobs`, sizes and limits that satisfy `PoolAssumption`):
`TypeCorrect`, `ClaimsArePartition`, `OkIsComplete`, `CancelIsHonoured`, `ProgressIsExact`,
`LargeFilesAreAlone`, `PoolKeepsPromise`.
`OneOwner` is not inductive: that a new batch is disjoint from the others needs `Windows` (all
batches lie below `ctx.next`). `ResultOkIsComplete` needs `NothingLost` (an entry below
`ctx.next` is finished or in a batch), `Departures` (a thread leaves without a failure only
with an empty batch and nothing to claim) and `Phases` (which threads can be alive in which
phase of the caller; none started means nothing claimed). `CancelHonoured` needs
`CancelKnown`, as the serial loop records a cancel later than it happens. The conjunction is
`IInv`; each action preserves it, conjunct by conjunct. `PoolKeepsPromise` maps initial states
to initial states and each step to a step of `ExtractAllSpec` or a stutter, from `IInv`.
`ProgressExact` is about a sum over entries. `Bytes` is
the cardinality of a set of bytes, and the invariant `Accounted` says that the bytes reported are
a set too: the first `entry_done` of the entry a thread works on, all of a completed entry, none of one that
nobody has begun. So a report adds bytes that were not in it, which is where `OneOwner` is needed,
and what `progress_finish_entry` adds completes the entry. What is in it of an entry that failed is
left open, as nothing depends on it. `LargeFilesAlone` follows from the last entry that fitted.

`StoreScan_proofs` (any set of lengths and decoys, any buffer larger than the tail, any growth):
`TypeCorrect`, `DestinationIsExact`, `UnsignedPartIsData`, `EndIsFound`. The core is `NotPast`: a
scan does not write past the end of the data unseen. `EndUnseen` says that a descriptor which
has arrived but was not recognized is not in the buffer yet, `KeepsDescriptor` that what is held
back is then enough. That this fails for a signed descriptor of which a part has arrived is the
finding `scan_grow`; the invariant has the condition that separates the two cases.
`NotPast`, `PartIsData` and `FoundWhenThere` leave out a call misled by another archive's part;
`DestExact` does not, as such a call never reaches its rename.

`StreamWalk_proofs` (any number of entries, any series of calls, arrivals and kills):
`TypeCorrect`, `OkIsAll`, `WalkStaysInStep`, `IncompleteIsRight`. `OkMeansAll` needs `HandledInTurn`:
during a call the entries before the current one were met and are extracted, or lie as the caller
asked for. `StaysInStep` needs `InPlace`, which gives for each step the place of the file position
in the entry, and `Stayed` for the entries of a resuming call that leave it at their data (the
finding `stream_retry`; the property excludes these calls, as it must). `IncompleteIsTruncated`
needs `HasArrived`: what was read has arrived, so what a read did not find has not.

`SaveConflicts_proofs` (any archive of paths with at most one directory above, any number of workers, all
four callers): `TypeCorrect`, `ExistingFilesAreKept`, `OthersAreLeftAlone`, `SavedFilesAreListed`,
`FailIsFirst`, `ParentsAreThere`, `DirectoriesKeepTimes`. The invariant is built in layers, each
proved from those below it. `Staged` says who works when: all conflicts are prepared before
the first file in `zipy_extract_all`, one entry at a time but for the command line's workers,
directories last. `Traced` follows an original file: in its place, or in the folder of the entry that
moved it, with the way there free. The reasons why no original is lost differ by caller, and
`Ordered` states them: nothing new is in the target before everything is prepared
(`NothingNewYet`), an entry whose file is written has no file in its way (`FileIsMoved`), and the folder
a file is moved to holds nothing of that name (`FolderIsFree`). Where one folder serves several entries
this takes `Consistent`, entries that make up a tree; the finding `conflicts_twice` is what happens
otherwise. `ClashIsFound` (a refused call meets the first conflict, of an entry's own path
or above it, before it changes anything) gives
`FailChangesNothing`, `MovesAreWanted` (who moves a file was asked to, or overwrites it) gives
`OthersLeftAlone`. `Remembered` covers the cache of the last parent directory: for the workers of the
command line, a directory that one of them remembers is not moved away by another, as a file that was
in its place is in their shared folder already, where no directory can be renamed over it
(`ParentIsSaved`). `TimesOfAll` and `TimesOfWorkers` say that no file is written into a directory
after its time was set.

`AtomicParts_proofs` (any tree of parts, any number of files and workers, both callers):
`TypeCorrect`, `DestinationIsWhole`, `ResultTellsDest`, `PartsAreShed`, `NeighboursDoNoHarm`,
`TreeIsGone`. None is inductive. `Contents` says what each inode and destination holds at each step,
which needs `Parts`: between its `unlink` and its `rename` the part of an entry is the inode of that
entry. `NeighboursDoNoHarm` needs `InAll`: in `zipy_extract_all` the directories an entry has
passed are still there when it opens its part, as no entry is ever in its clean-up. `TreeIsGone`
needs `Left`: of every directory that is left, either it leads to the part of another run
(`Excused`), or some entry has still to try to remove it (`Minds`). The hard step is an `rmdir` that
fails: the directory holds something, and whoever owns that also minds the directory above it. `Shape`
and `Places` (what exists has its directories; what is left to do is an end of the chain)
carry this. `TreeAssumption` says of the tree only that `Parent` goes in no circle. That the recursion
of `PathTo` has a value, and that the value goes down the tree step by step (`PathsGoDown`), is proved
from that: a set of nodes that contains what is below its elements and the target has all
(`FromTheTarget`), and to each node leads one path (`OnePath`). `NamesAssumption` says that entries
have names of their own.

`ResumeEntry_proofs` (any size, archive, first part and destination, any series of runs):
`TypeCorrect`, `DestinationIsWhole`, `OkIsTrue`, `StateFileIsTruthful`, `BadPartIsShed`, and for the
action property `BytesSurvive`. `Checks` is the core: no output reaches its attributes or its rename
without the checks that the options ask for. `OwnBytes` says that what a good archive has written is
good as far as it goes, `PartThere` and `Appending` what the part may be at each step. For `BadPartIsShed`
`Waste` is needed: a run that fails although nothing went wrong leaves a part that the next run does
not continue.

The pure algorithms compute with recursive functions. `Iteration` has what proofs about them need.
Induction is stated for sets of numbers, and recursion for step functions, as an operator cannot be a
parameter of a lemma here: a non-empty set of numbers has a least element (from the library's
`NatLessThanWellFounded`), so a set with 0 and all successors is `Nat`, and a function that goes on with
a step exists (`RecursionExists`), which makes the `CHOOSE` behind a recursive definition mean
what it says. The same module has division with a remainder, and sequences of elements of any kind.

*Number of jobs* (`ExtractPool_proofs`; any archive, limits and request): `ThreadsAreMeant`,
`ThreadsAlwaysAgree`. A sum that stops at a limit is the smaller of the limit and the true sum
(`SumsAre`, by induction on the entries), so a comparison with a bound up to that limit has the same
result (`BelowIs`). This is where it matters that neither implementation compares with more than its limit.

*Opening* (`OpenDirectory_proofs`; any limits and lengths, any listing that fits into a file, any comment):
`WrittenListed`, `TruncatedRefused`, `MappedReads`, and for the run `WrittenAlwaysOpens` and
`MappedAlwaysOpensToo`. `LaidOut` says at which offset a written file has which record. Of the
end records whose comment ends with the file, the one that was written is the last (`EndIsFirst`),
even if the comment holds others; each record is read back as its entry, with the numbers that moved
to the extra block (`RecordReads`), and the loop over the directory goes on by induction
(`WalkOfWritten`). For damaged files only that fields are numbers (`AllSized`) is needed: as long as the
mapped reader goes on, the other one is in the same state (`MappedGoes`); and as long as the other one
is within the directory, the mapped reader goes on too (`ReadGoes`).

*Data of an entry* (`ResumeEntry_proofs`; any payload, any of the ways to extract it, chunks of any
length): `ExtractedIsWhole`, `SoundIsAccepted`, `PathsAccept`, and for the run `DataAlwaysRight`. Each loop
has a set of states that its turns keep, `StoredSoFar` for the four that copy, `Inflated` for those that
inflate: what was read, written, checked and told are the same bytes, and what ended the loop is
recorded. `LoopKeeps` carries such a set to the end of any loop, by induction on the turns left. The
final checks then come down to two descriptions of the outcome that do not mention the path:
`Whole` (what OK means) and `Passes` (what is accepted), and `PathsAccept` compares the second
with itself. That a stream with a turn left to yield its end is not cut off is `YieldBound`.

*Ciphers* (`ResumeEntry_proofs`; blocks, counters and digests of any length, data in any pieces, any
password, any number of turns): `StreamGoesOn`, `PiecesHashAsWhole`, `DerivedAsMeant`, and for the run
`PiecesAlwaysMakeWhole`. `Streams` ties the cipher's state to the key stream: the counter is the number
of the block, and of the blocks so far all is used up but the rest of the last one. A byte, the rest of
a block and four blocks at once keep it. The state of the hash after data `d` is `Sha(d)`, however
`d` came (`UpdateGoesOn`); the end of the hash has two cases, padding that fits into the last block and
padding that needs another one (`FinalIs`). That each turn of PBKDF2 is one compression per hash is
`DigestBlock`: a digest behind a full block is padded to exactly one more, which is what
`CipherAssumption` asks of the lengths.

Assumptions are those named in the modules, which TLC evaluates in every run: `PoolAssumption`,
`PartsAssumption`, `TreeAssumption`, `NamesAssumption`, `ResumeAssumption`, `ScanAssumption`,
`StreamAssumption`, `ConflictAssumption`, `JobAssumption`, `OpenAssumption`, `WrittenAssumption`,
`DataAssumption`, `CaseAssumption`, `CipherAssumption`, `PieceAssumption`. Most give the types of constants.
Those that say more: `WrittenAssumption`, that an archive is not longer than 64 bits can count, and
that a comment holds no end record which ends where the file does, as the reader could not tell it from
the one that was written; `CaseAssumption`, what a payload may be at all; `PieceAssumption`, that
passwords are sequences and a key takes at least one turn.

Every invariant and action property that a passing run checks is proved, and so is the refinement
`PromiseKept`. Only model-checked is `Returns`, as liveness is out of the prover's reach.
The six refuted statements are refuted by TLC and have no theorems.

## 5. What is not modelled

* Names and paths (`scan_member_name`, `path_buf_*`, `join_path`, `extract_path_len`): these assemble
  strings, one character after the other. The other modules name a file by its place in a tree, which
  is what these functions compute; a model of them would repeat the code.
* Symbolic links: whether a target is inside is decided by `realpath` over the user's whole file
  system (`path_buf_set_canonical`). The answer depends on links that are no part of the archive.
  Reading the target into memory is in `EntryData`.
* A payload of unknown size that holds a complete descriptor of its own beginning, checksum included:
  no reader could tell where it ends.
* The arithmetic of inflate (external), CRC-32, AES, SHA-1 and ZipCrypto. CRC-32 is a perfect check.
* Names, flags, times and modes in headers; local headers against the directory (`StreamWalk` has their
  outcome).
* Permissions and I/O errors, other than as failures an action may choose; another program
  that writes to the target; power failures (a rename is durable when it returns).
* Duplicate names in `AtomicParts` (two entries share one part), folders saved outside the target.
* A user's file named `x.part` beside an unknown-size entry `x` of a stream without resume,
  which is removed (5164, 5522).
* Callbacks after a cancel and entries of a batch after another worker's failure: allowed by
  the model, forbidden by no property.
* Options, configuration and display of the command line; the wrappers for Swift and Rust. The Rust
  wrapper keeps no state between calls.

## 6. Plan

Done: `ExtractPool` with its promise, `AtomicParts`, `ResumeEntry`, `StoreScan`, `StreamWalk` and
`SaveConflicts`; the pure parts `JobCount`, `OpenDirectory`, `EntryData`, `Ciphers`; proofs about all
of them.
Left, in this order:

1. *Prove.* The refinement of `EntryData` by the steps of `ResumeEntry` for plain stored data; an abstract
   specification of one resumable file (absent or whole, and which call said so), implemented by
   `ResumeEntry`.
2. *Extend.* Duplicate names in `AtomicParts`: a second entry of a name shares the part, which
   weakens `Parts`. The user's `x.part` (5164) in `SaveConflicts`.
3. *Compose.* `ExtractPool` with `AtomicParts` (a cancel or failure in one worker, parts of the
   others); `StreamWalk` with `StoreScan`.
4. `SwiftProgress`: observers behind unordered tasks. `skip_data_descriptor` (784-859) with its four
   layouts against a reference definition.

Pure algorithms share the run of the component they serve, as they ask one question of it: is what
it takes for one step, or for given, what the code computes.

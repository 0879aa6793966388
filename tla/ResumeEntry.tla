----------------------------- MODULE ResumeEntry -----------------------------
(***************************************************************************)
(* One regular file extracted by a sequence of runs, with ZIPY_EXTRACT_    *)
(* RESUME or ZIPY_EXTRACT_ATOMIC (src/zip.c, extract_entry).  A run may be *)
(* killed between any two changes to the file system, or fail; the next    *)
(* one finds the destination, the part file and the state file as they     *)
(* were left, and may have been started with other options.                *)
(*                                                                         *)
(* A file is its size, in chunks, and whether its bytes are those the      *)
(* archive promises; CRC-32 is taken to tell the two apart.  The bytes of  *)
(* an archive that is not intact differ from its checksum in the last      *)
(* chunk.                                                                  *)
(***************************************************************************)
EXTENDS Integers

CONSTANTS
  Size,      \* the uncompressed size of the entry, in chunks
  Archives,  \* [method, cipher, intact]: the entries it may be
  Parts,     \* the part files another archive of that name may have left
  Finals,    \* what the destination may hold at first
  Options    \* [resume, crc, meta]: the options a run may have

None  == [size |-> -1]
Files == [size : Nat, good : BOOLEAN, meta : BOOLEAN]

MaxWasted == 2  \* where the count of wasted runs stops

ASSUME ResumeAssumption ==
  /\ Size \in Nat
  /\ Archives \subseteq [method : {"store", "deflate"},
                         cipher : {"none", "zipcrypto", "aes1", "aes2"}, intact : BOOLEAN]
  /\ Options \subseteq [resume : BOOLEAN, crc : BOOLEAN, meta : BOOLEAN]
  /\ Parts \union Finals \subseteq {None} \union Files

VARIABLES
  archive,  \* the entry
  opts,     \* the options of this run
  pc,       \* where the run is; "idle" between two runs
  offset,   \* resume_offset
  ret,      \* the result of the last run
  dest,     \* the destination, durable as the next two
  part,     \* the part file
  state,    \* the status in resume_state.txt
  foreign,  \* history: the part file that was there at first is not ours
  checked,  \* history: the destination was renamed into place after a check
  faulty,   \* history: something went wrong in this run
  wasted    \* history: how many runs in a row failed though nothing went wrong

durable == << dest, part, state >>
history == << foreign, checked, faulty, wasted >>
vars    == << archive, opts, pc, offset, ret, durable, history >>

File(f)    == f # None
Encrypted  == archive.cipher # "none"
Stored     == archive.method = "store"
\* check_crc; version 2 of the AES extension has no checksum, only a code.
CheckCrc   == opts.crc /\ archive.cipher # "aes2"
Sealed     == archive.cipher \in {"aes1", "aes2"}

\* crc32_file_prefix: the bytes of f have the checksum of the entry.
CrcMatches(f) == f.good
FullSize(f)   == File(f) /\ f.size = Size

Empty == [size |-> 0, good |-> TRUE, meta |-> FALSE]

\* The next chunk of the archive is appended to f.
Grown(f) ==
  [size |-> f.size + 1, good |-> f.good /\ (archive.intact \/ f.size + 1 < Size),
   meta |-> f.meta]

\* The final checks of copy_store and inflate_raw on an output that is good.
Accepts(good) == (Sealed => archive.intact) /\ (CheckCrc => good)

\* write_resume_state; nobody looks whether it could be written.
Report(status) == state' \in {state} \union (IF opts.resume THEN {status} ELSE {})

\* The run ends with result r.
Ends(r) ==
  /\ pc' = "idle"
  /\ ret' = r
  /\ wasted' = IF r \in {"OK", "SKIPPED"} \/ faulty' THEN 0
               ELSE IF wasted < MaxWasted THEN wasted + 1 ELSE MaxWasted

\* Something goes wrong that the archive and the part file do not account for.
Fault == faulty' = TRUE
Calm  == UNCHANGED faulty

-----------------------------------------------------------------------------
(* What a run finds *)

Start(o) ==
  /\ pc = "idle"
  /\ opts' = o
  /\ pc' = "final"
  /\ offset' = 0
  /\ faulty' = FALSE
  /\ UNCHANGED << archive, ret, durable, foreign, checked, wasted >>

\* The destination counts as extracted by its size, and its checksum.
FinalIsDone == opts.resume /\ FullSize(dest) /\ (~CheckCrc \/ CrcMatches(dest))

Skip ==
  /\ pc = "final"
  /\ FinalIsDone
  /\ Report("skipped")
  /\ Calm /\ Ends("SKIPPED")
  /\ UNCHANGED << archive, opts, offset, dest, part, foreign, checked >>

LookAtPart ==
  /\ pc = "final"
  /\ ~FinalIsDone
  /\ pc' = "part"
  /\ UNCHANGED << archive, opts, offset, ret, durable, history >>

\* The local header is bad, the password is wrong, the directories cannot be
\* made, or the destination or the part cannot be read or is no regular file.
LookFails ==
  /\ pc = "final" \/ (pc = "part" /\ opts.resume)
  /\ Fault
  /\ Ends("EFILE")
  /\ UNCHANGED << archive, opts, offset, durable, foreign, checked >>

\* Mutant: a complete part is taken by its size, deflated or not.
CompleteBySize ==
  /\ opts.resume /\ FullSize(part) /\ ~Encrypted
  /\ CheckCrc => CrcMatches(part)

\* A complete part is taken if its checksum says so, or its size for a stored
\* file: a deflated one may have its size before its bytes.
Complete ==
  /\ opts.resume /\ FullSize(part) /\ ~Encrypted
  /\ IF CheckCrc THEN CrcMatches(part) ELSE Stored

\* Mutant: a complete part with the wrong checksum is appended to.
ContinuableFull ==
  /\ opts.resume /\ File(part) /\ part.size \in 1 .. Size
  /\ Stored /\ ~Encrypted

\* Mutant: no part is ever continued.
ContinuableNever == opts.resume /\ File(part) /\ part.size > Size /\ Stored

\* A part that the missing bytes of a stored file are appended to.
Continuable ==
  /\ opts.resume /\ File(part) /\ part.size \in 1 .. Size - 1
  /\ Stored /\ ~Encrypted

Continue ==
  /\ pc = "part"
  /\ ~Complete /\ Continuable
  /\ offset' = part.size
  /\ pc' = "report"
  /\ UNCHANGED << archive, opts, ret, durable, history >>

\* Any other part is removed; an empty one is as good as none.
Restart ==
  /\ pc = "part"
  /\ ~Complete /\ ~Continuable
  /\ part' = IF opts.resume /\ File(part) /\ part.size = 0 /\ Size # 0 THEN part ELSE None
  /\ pc' = "report"
  /\ UNCHANGED << archive, opts, offset, ret, dest, state, history >>

-----------------------------------------------------------------------------
(* A complete part is renamed into place *)

Publish ==
  /\ dest' = part
  /\ part' = None
  /\ checked' = (CheckCrc \/ Sealed)

Adopt ==
  /\ pc = "part"
  /\ Complete
  /\ Publish
  /\ pc' = "adopted"
  /\ UNCHANGED << archive, opts, offset, ret, state, foreign, faulty, wasted >>

AdoptFails ==
  /\ pc = "part"
  /\ Complete
  /\ Fault
  /\ Ends("EFILE")
  /\ UNCHANGED << archive, opts, offset, durable, foreign, checked >>

AdoptReport ==
  /\ pc = "adopted"
  /\ Report("done")
  /\ pc' = "attributes"
  /\ UNCHANGED << archive, opts, offset, ret, dest, part, history >>

\* Mutant: the result of the attributes is not looked at.
AdoptMetadataIgnored ==
  /\ pc = "attributes"
  /\ \E ok \in BOOLEAN :
       dest' = IF opts.meta /\ ok THEN [dest EXCEPT !.meta = TRUE] ELSE dest
  /\ Calm /\ Ends("OK")
  /\ UNCHANGED << archive, opts, offset, part, state, foreign, checked >>

AdoptMetadata ==
  /\ pc = "attributes"
  /\ dest' = IF opts.meta THEN [dest EXCEPT !.meta = TRUE] ELSE dest
  /\ Calm /\ Ends("OK")
  /\ UNCHANGED << archive, opts, offset, part, state, foreign, checked >>

\* The file stays where it is, without its attributes.
AdoptMetadataFails ==
  /\ pc = "attributes"
  /\ opts.meta
  /\ Fault
  /\ Ends("EFILE")
  /\ UNCHANGED << archive, opts, offset, durable, foreign, checked >>

-----------------------------------------------------------------------------
(* The entry is extracted to the part *)

ReportStart ==
  /\ pc = "report"
  /\ Report("extracting")
  /\ pc' = "open"
  /\ UNCHANGED << archive, opts, offset, ret, dest, part, history >>

\* Its directory cannot be made or it cannot be opened: no status is written.
OpenFails ==
  /\ pc = "open"
  /\ Fault
  /\ Ends("EFILE")
  /\ UNCHANGED << archive, opts, offset, durable, foreign, checked >>

Open ==
  /\ pc = "open"
  /\ part' = IF offset = 0 THEN Empty ELSE part
  /\ pc' = IF Stored THEN "copy" ELSE "inflate"
  /\ UNCHANGED << archive, opts, offset, ret, dest, state, history >>

\* copy_store: every chunk is written before the checks.
Copy ==
  /\ pc = "copy"
  /\ part.size < Size
  /\ part' = Grown(part)
  /\ UNCHANGED << archive, opts, pc, offset, ret, dest, state, history >>

CopyEnds ==
  /\ pc = "copy"
  /\ part.size = Size
  /\ pc' = IF Accepts(CrcMatches(part)) THEN "metadata" ELSE "failed"
  /\ UNCHANGED << archive, opts, offset, ret, durable, history >>

\* A large file is inflated into the mapped part, which gets its size at once.
InflateMapped ==
  /\ pc = "inflate"
  /\ part' = [size |-> Size, good |-> Size = 0, meta |-> FALSE]
  /\ pc' = "fill"
  /\ UNCHANGED << archive, opts, offset, ret, dest, state, history >>

\* inflate may or may not notice by itself that its input is damaged.
Fill ==
  /\ pc = "fill"
  /\ part' = [part EXCEPT !.good = archive.intact]
  /\ pc' \in (IF Accepts(archive.intact) THEN {"metadata"} ELSE {})
             \union (IF archive.intact THEN {} ELSE {"failed"})
  /\ UNCHANGED << archive, opts, offset, ret, dest, state, history >>

\* A small one is inflated into memory, and written after the checks.
InflateInMemory ==
  /\ pc = "inflate"
  /\ pc' \in (IF Accepts(archive.intact) THEN {"flush"} ELSE {})
             \union (IF archive.intact THEN {} ELSE {"failed"})
  /\ UNCHANGED << archive, opts, offset, ret, durable, history >>

Flush ==
  /\ pc = "flush"
  /\ IF part.size < Size
       THEN part' = Grown(part) /\ UNCHANGED pc
       ELSE pc' = "metadata" /\ UNCHANGED part
  /\ UNCHANGED << archive, opts, offset, ret, dest, state, history >>

\* The disk is full, the archive cannot be read, or the caller cancels.
WriteFails ==
  /\ pc \in {"copy", "fill", "inflate", "flush"}
  /\ Fault
  /\ pc' = "failed"
  /\ UNCHANGED << archive, opts, offset, ret, durable, foreign, checked, wasted >>

\* The attributes of the part are set before the rename, by descriptor or by name.
SetMetadata ==
  /\ pc = "metadata"
  /\ part' = IF opts.meta THEN [part EXCEPT !.meta = TRUE] ELSE part
  /\ pc' = "rename"
  /\ UNCHANGED << archive, opts, offset, ret, dest, state, history >>

Rename ==
  /\ pc = "rename"
  /\ Publish
  /\ pc' = "done"
  /\ UNCHANGED << archive, opts, offset, ret, state, foreign, faulty, wasted >>

\* Close, set attributes or rename fails.
FinishFails ==
  /\ pc \in {"metadata", "rename"}
  /\ Fault
  /\ pc' = "failed"
  /\ UNCHANGED << archive, opts, offset, ret, durable, foreign, checked, wasted >>

\* A failed run keeps its part if it can be resumed.
DropPart ==
  /\ pc = "failed"
  /\ part' = IF opts.resume THEN part ELSE None
  /\ pc' = "undone"
  /\ UNCHANGED << archive, opts, offset, ret, dest, state, history >>

\* Mutant: done is reported before the rename.
FinishEarly ==
  /\ Calm
  /\ \/ /\ pc = "rename"
        /\ Report("done")
        /\ UNCHANGED << pc, ret, wasted >>
     \/ pc = "done" /\ Ends("OK") /\ UNCHANGED state
     \/ pc = "undone" /\ Report("failed") /\ Ends("FAILED")
  /\ UNCHANGED << archive, opts, offset, dest, part, foreign, checked >>

Finish ==
  /\ Calm
  /\ \/ pc = "done" /\ Report("done") /\ Ends("OK")
     \/ pc = "undone" /\ Report("failed") /\ Ends("FAILED")
  /\ UNCHANGED << archive, opts, offset, dest, part, foreign, checked >>

-----------------------------------------------------------------------------

\* The process is killed; the files stay as they are.
Crash ==
  /\ pc # "idle"
  /\ Fault
  /\ Ends("CRASH")
  /\ UNCHANGED << archive, opts, offset, durable, foreign, checked >>

Init ==
  /\ archive \in Archives
  /\ opts \in Options
  /\ pc = "idle"
  /\ offset = 0
  /\ ret = "none"
  /\ dest \in Finals
  /\ part \in Parts
  /\ state = "none"
  /\ foreign = (File(part) /\ ~part.good)
  /\ checked = FALSE
  /\ faulty = FALSE
  /\ wasted = 0

Next ==
  \/ \E o \in Options : Start(o)
  \/ Skip \/ LookAtPart \/ LookFails
  \/ Continue \/ Restart
  \/ Adopt \/ AdoptFails \/ AdoptReport \/ AdoptMetadata \/ AdoptMetadataFails
  \/ ReportStart \/ OpenFails \/ Open
  \/ Copy \/ CopyEnds \/ InflateMapped \/ Fill \/ InflateInMemory \/ Flush
  \/ WriteFails \/ SetMetadata \/ Rename \/ FinishFails \/ DropPart \/ Finish
  \/ Crash

Spec == Init /\ [][Next]_vars

-----------------------------------------------------------------------------
(* Properties *)

\* The variables keep their types; a run that appends has the part it counted.
TypeOK ==
  /\ archive \in Archives /\ opts \in Options
  /\ pc \in {"idle", "final", "part", "adopted", "attributes", "report", "open", "copy",
             "inflate", "fill", "flush", "metadata", "rename", "failed", "undone", "done"}
  /\ offset \in 0 .. Size - 1 \union {0}
  /\ ret \in {"none", "OK", "SKIPPED", "EFILE", "FAILED", "CRASH"}
  /\ {dest, part} \subseteq {None} \union Files
  /\ state \in {"none", "skipped", "extracting", "done", "failed"}
  /\ foreign \in BOOLEAN /\ checked \in BOOLEAN /\ faulty \in BOOLEAN
  /\ wasted \in 0 .. MaxWasted
  /\ pc \in {"report", "open"} /\ offset > 0 => File(part) /\ part.size = offset

\* What is renamed into place has the full size, and the bytes of the archive:
\* always if a check was made, and without one if the archive is good and every
\* part came from it.  No crash between any two steps puts a piece in place.
DestWhole ==
  \/ dest \in Finals
  \/ /\ FullSize(dest)
     /\ checked \/ (archive.intact /\ ~foreign) => dest.good

\* ZIPY_ZIP_OK means in place, whole and with its attributes, and that no part is left.
OkIsInPlace ==
  ret = "OK" /\ pc = "idle" =>
    /\ FullSize(dest) /\ ~File(part)
    /\ CheckCrc => dest.good
    /\ opts.meta => dest.meta

\* resume_state.txt never claims more than the disk holds: a destination of the
\* full size is there before "done" or "skipped" is written.
StateTruthful == state \in {"done", "skipped"} => FullSize(dest)

\* On an archive that is intact a bad part, whoever left it, costs at most one
\* run: the run after a failure that nothing else explains does not fail too.
BadPartCostsOneRun == archive.intact => wasted <= 1

\* Appending: as long as runs resume, the bytes of a stored entry that have
\* reached its part are not thrown away before there are enough of them.
BytesAreKept ==
  [][ opts.resume /\ Stored /\ ~Encrypted /\ part.size \in 1 .. Size - 1
        => part'.size >= part.size ]_vars

\* Mode and time are restored by a run that says the entry is in place, if they
\* are to be restored by every run (README: "enabled by default").
MetadataRestored ==
  ret \in {"OK", "SKIPPED"} /\ opts.meta /\ dest \notin Finals => dest.meta

=============================================================================

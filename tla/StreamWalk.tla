------------------------------ MODULE StreamWalk ------------------------------
(***************************************************************************)
(* zipy_extract_stream (src/zip.c): the entries of an archive are found    *)
(* by walking the local file headers with one file position, which every   *)
(* step must leave where the next one begins.  The archive may still be    *)
(* arriving; the call is repeated by its caller, with or without           *)
(* ZIPY_EXTRACT_RESUME, and may be killed.                                 *)
(*                                                                         *)
(* The archive is a row of pieces: a header, the data and the descriptor   *)
(* of every entry, and the central directory.  The position is the piece   *)
(* that is read next.  The data of an entry is taken not to look like      *)
(* another record, nor like its own descriptor.                            *)
(***************************************************************************)
EXTENDS Integers, Sequences

CONSTANTS
  Contents,   \* the archives: sequences of [kind, desc, bytes]
  Policies    \* the on_conflict values a caller may ask for

ASSUME StreamAssumption ==
  /\ \A a \in Contents : a \in Seq([kind : {"dir", "store", "deflate", "other"},
                                   desc : {"none", "sized", "unsized"}, bytes : BOOLEAN])
  /\ \A a \in Contents : \A k \in DOMAIN a :
       IF a[k].kind = "dir" THEN a[k].desc # "unsized"
       ELSE ~a[k].bytes => a[k].kind = "store" /\ a[k].desc # "sized"
  /\ Policies \subseteq {"overwrite", "skip", "fail", "save"}

\* A kind "other" is one that is refused: strong encryption, a method that is not
\* known, an extra field that does not fit, ...
VARIABLES
  archive,    \* the entries
  visible,    \* how many pieces of the archive have arrived
  opts,       \* [resume, policy]: the options of this call
  pc,         \* where the call is; "idle" between two calls
  at,         \* the entry being read
  pos,        \* the file position: the piece that is read next
  statePath,  \* what state_path points at: the state file, or the target itself
  ret,        \* the result of the last call, if the archive has not grown since
  out,        \* out[k]: what is at the destination of entry k; durable
  part,       \* part[k]: what is in its part file; durable
  status,     \* the status in resume_state.txt; durable
  handled,    \* history: the entries this call has dealt with
  faulty      \* history: something went wrong, or the call was killed

cursor  == << at, pos >>
durable == << out, part, status >>
vars == << archive, visible, opts, pc, cursor, statePath, ret, durable,
           handled, faulty >>

Count      == Len(archive)
Header(k)  == 3 * k - 2
Data(k)    == 3 * k - 1
Desc(k)    == 3 * k
Central    == Header(Count + 1)
Unsized(k) == archive[k].kind # "dir" /\ archive[k].desc = "unsized"

\* skip_data_descriptor is called for these.
HasDesc(k) == archive[k].desc # "none" /\ ~Unsized(k)

\* Pieces that have no bytes are no place to stop at.
AtDesc(k) == IF archive[k].desc = "none" THEN Header(k + 1) ELSE Desc(k)
AtData(k) == IF archive[k].bytes THEN Data(k) ELSE AtDesc(k)

Here(piece) == piece <= visible

\* The reports on an entry, and the one on the call, go to what state_path points
\* at; a target directory is not replaced by them.
Report(s) == status' = IF opts.resume /\ statePath = "file" THEN s ELSE status

\* keep_entry_state: when a stored entry of unknown size ends the call, the last
\* report on the entry is kept.  As a rule it names the same status.
Ends(r) ==
  /\ pc' = "idle"
  /\ ret' = r
  /\ Report(IF r = "OK" THEN "complete"
            ELSE IF r = "EINCOMPLETE" THEN "incomplete" ELSE "failed")

GoTo(label)  == pc' = label

-----------------------------------------------------------------------------
(* The caller, and the archive *)

Arrive ==
  /\ pc = "idle"
  /\ visible < Central
  /\ visible' = visible + 1
  /\ ret' = "none"
  /\ UNCHANGED << archive, opts, pc, cursor, statePath, durable, handled, faulty >>

\* default_extract_options: a call that resumes overwrites.
Start(o) ==
  /\ pc = "idle"
  /\ opts' = [o EXCEPT !.policy = IF o.resume THEN "overwrite" ELSE @]
  /\ at' = 1 /\ pos' = 1
  /\ statePath' = "file"
  /\ handled' = {} /\ faulty' = FALSE
  /\ GoTo("header")
  /\ UNCHANGED << archive, visible, ret, durable >>

-----------------------------------------------------------------------------
(* A header is read *)

Unchanged1 == UNCHANGED << archive, visible, opts, statePath, out, part >>

\* Mutant: the end of the file is taken for the end of the archive.
HeaderMissingIsEnd ==
  /\ pc = "header"
  /\ ~Here(pos) \/ Count = 0
  /\ Ends("OK")
  /\ Unchanged1 /\ UNCHANGED << cursor, handled, faulty >>

\* Fewer bytes than a header has are left: so it is with an archive that is
\* still arriving, and with one that has no entries and no comment.
HeaderMissing ==
  /\ pc = "header"
  /\ ~Here(pos) \/ Count = 0
  /\ Ends("EINCOMPLETE")
  /\ Unchanged1 /\ UNCHANGED << cursor, handled, faulty >>

\* The central directory; its first thirty bytes are enough.
ReachCentral ==
  /\ pc = "header"
  /\ pos = Central
  /\ visible >= Central - 1 /\ Count > 0
  /\ Ends("OK")
  /\ Unchanged1 /\ UNCHANGED << cursor, handled, faulty >>

\* The position is inside the data of an entry: no signature is there.
Misread ==
  /\ pc = "header"
  /\ pos # Central /\ pos # Header(at)
  /\ Here(pos)
  /\ Ends("EFILE")
  /\ Unchanged1 /\ UNCHANGED << cursor, handled, faulty >>

\* Only a stored entry of unknown size can be resumed.
RefusedKind(k) ==
  \/ archive[k].kind = "other"
  \/ Unsized(k) /\ opts.resume /\ archive[k].kind = "deflate"

\* Mutant: the sizes are not compared with what has arrived.
ReadHeaderBlindly ==
  /\ pc = "header"
  /\ pos = Header(at) /\ pos # Central
  /\ Here(pos)
  /\ IF RefusedKind(at)
       THEN Ends("EUNSUP") /\ UNCHANGED pos
       ELSE pos' = AtData(at) /\ GoTo("conflict") /\ UNCHANGED << ret, status >>
  /\ Unchanged1 /\ UNCHANGED << at, handled, faulty >>

\* Some reasons to refuse an entry are met before its sizes are, some behind.
ReadHeader ==
  /\ pc = "header"
  /\ pos = Header(at) /\ pos # Central
  /\ Here(pos)
  /\ \/ /\ RefusedKind(at)
        /\ Ends("EUNSUP") /\ UNCHANGED pos
     \/ /\ ~Unsized(at) /\ archive[at].bytes /\ ~Here(Data(at))
        /\ Ends("EINCOMPLETE") /\ UNCHANGED pos
     \/ /\ ~RefusedKind(at)
        /\ ~Unsized(at) /\ archive[at].bytes => Here(Data(at))
        /\ pos' = AtData(at) /\ GoTo("conflict") /\ UNCHANGED << ret, status >>
  /\ Unchanged1 /\ UNCHANGED << at, handled, faulty >>

-----------------------------------------------------------------------------
(* prepare_entry_conflict *)

Conflict == out[at] # "none" /\ archive[at].kind # "dir"

\* Mutant: an entry that is skipped leaves the position at its data.
SkipExistingInPlace ==
  /\ pc = "conflict"
  /\ Conflict /\ opts.policy = "skip"
  /\ IF Unsized(at)
       THEN Ends("EUNSUP") /\ UNCHANGED << pos, handled >>
       ELSE /\ GoTo("descriptor")
            /\ handled' = handled \union {at}
            /\ UNCHANGED << pos, ret, status >>
  /\ Unchanged1 /\ UNCHANGED << at, faulty >>

SkipExisting ==
  /\ pc = "conflict"
  /\ Conflict /\ opts.policy = "skip"
  /\ IF Unsized(at)
       THEN Ends("EUNSUP") /\ UNCHANGED << pos, handled >>
       ELSE /\ pos' = AtDesc(at)
            /\ GoTo("descriptor")
            /\ handled' = handled \union {at}
            /\ UNCHANGED << ret, status >>
  /\ Unchanged1 /\ UNCHANGED << at, faulty >>

RefuseExisting ==
  /\ pc = "conflict"
  /\ Conflict /\ opts.policy = "fail"
  /\ Ends("EEXIST")
  /\ Unchanged1 /\ UNCHANGED << cursor, handled, faulty >>

\* An existing file is saved, or will be overwritten.
GoOn ==
  /\ pc = "conflict"
  /\ ~Conflict \/ opts.policy \in {"overwrite", "save"}
  /\ out' = [out EXCEPT ![at] = IF opts.policy = "save" /\ Conflict THEN "none" ELSE @]
  /\ GoTo("extract")
  /\ UNCHANGED << archive, visible, opts, cursor, statePath, ret, part, status,
                  handled, faulty >>

-----------------------------------------------------------------------------
(* The entry *)

Done(k) == handled' = handled \union {k}

Unchanged2 == UNCHANGED << archive, visible, opts, at, ret, faulty >>

\* A directory is made; if it has data, it is skipped.
MakeDirectory ==
  /\ pc = "extract"
  /\ archive[at].kind = "dir"
  /\ out' = [out EXCEPT ![at] = "new"]
  /\ pos' = AtDesc(at)
  /\ Done(at) /\ GoTo("descriptor")
  /\ Unchanged2 /\ UNCHANGED << statePath, part, status >>

SizedFile == archive[at].kind # "dir" /\ ~Unsized(at)

\* extract_entry returns before it reads the data: the position stays there.
AlreadyThere ==
  /\ pc = "extract"
  /\ SizedFile /\ opts.resume
  /\ \/ /\ out[at] = "new"
        /\ Report("skipped")
        /\ UNCHANGED << out, part >>
     \/ /\ out[at] # "new" /\ part[at] = "full"
        /\ out'  = [out EXCEPT ![at] = "new"]
        /\ part' = [part EXCEPT ![at] = "none"]
        /\ Report("done")
  /\ Done(at) /\ GoTo("descriptor")
  /\ Unchanged2 /\ UNCHANGED << pos, statePath >>

\* extract_entry reads the data to its end.
ExtractSized ==
  /\ pc = "extract"
  /\ SizedFile
  /\ opts.resume => out[at] # "new" /\ part[at] # "full"
  /\ out'  = [out EXCEPT ![at] = "new"]
  /\ part' = [part EXCEPT ![at] = IF opts.resume THEN "none" ELSE @]
  /\ pos'  = AtDesc(at)
  /\ Report("done")
  /\ Done(at) /\ GoTo("descriptor")
  /\ Unchanged2 /\ UNCHANGED << statePath >>

\* The end of the data is known when its descriptor, and for a stored file
\* four bytes of the record after it, have arrived.
EndInSight    == Here(Desc(at))
EndOutOfSight == ~Here(Desc(at)) \/ (archive[at].kind = "store" /\ ~Here(Desc(at) + 1))

\* The position is left behind the descriptor.  After a resumed stored file
\* cleanup_empty_parts_dirs builds its path in state_buf, the buffer that
\* state_path points into.
ExtractUnsized ==
  /\ pc = "extract"
  /\ Unsized(at) /\ EndInSight
  /\ out'  = [out EXCEPT ![at] = "new"]
  /\ part' = [part EXCEPT ![at] = "none"]
  /\ Report("done")
  /\ statePath' = IF opts.resume THEN "target" ELSE statePath
  /\ pos' = Header(at + 1)
  /\ Done(at) /\ GoTo("descriptor")
  /\ Unchanged2

\* The archive ends in the data: what has arrived is kept, if it can be resumed.
UnsizedIncomplete ==
  /\ pc = "extract"
  /\ Unsized(at) /\ EndOutOfSight
  /\ part' = [part EXCEPT ![at] = IF opts.resume THEN "some" ELSE "none"]
  /\ Ends("EINCOMPLETE")
  /\ UNCHANGED << archive, visible, opts, cursor, statePath, out, handled, faulty >>

\* The disk is full, the checksum differs, a directory cannot be made, ...; a
\* file that is written in place is left as it is.  What the state file says of
\* a stored entry of unknown size may be old, or be that it is being extracted.
ExtractFails ==
  /\ pc = "extract"
  /\ faulty' = TRUE
  /\ \/ UNCHANGED << out, part >>
     \/ /\ archive[at].kind # "dir"
        /\ part' = [part EXCEPT ![at] = IF SizedFile /\ opts.resume /\ @ # "full" THEN "some"
                                        ELSE IF SizedFile THEN @ ELSE "none"]
        /\ out' = [out EXCEPT ![at] = IF SizedFile /\ ~opts.resume THEN "old" ELSE @]
  /\ \/ Ends("FAILED")
     \/ /\ Unsized(at) /\ opts.resume
        /\ GoTo("idle") /\ ret' = "FAILED"
        /\ UNCHANGED status \/ Report("extracting")
  /\ UNCHANGED << archive, visible, opts, cursor, statePath, handled >>

-----------------------------------------------------------------------------
(* After the entry *)

\* The caller cancels when it hears that the entry is finished.
Cancel ==
  /\ pc = "descriptor"
  /\ faulty' = TRUE
  /\ Ends("ECANCEL")
  /\ Unchanged1 /\ UNCHANGED << cursor, handled >>

\* skip_data_descriptor, if there is one left to skip.
PassDescriptor ==
  /\ pc = "descriptor"
  /\ HasDesc(at) => pos = Desc(at) /\ Here(pos)
  /\ pos' = IF HasDesc(at) THEN Header(at + 1) ELSE pos
  /\ at' = at + 1
  /\ GoTo("header")
  /\ UNCHANGED << archive, visible, opts, statePath, ret, durable, handled, faulty >>

\* Mutant: whatever is wrong with it, the archive is called incomplete.
DescriptorIncomplete ==
  /\ pc = "descriptor"
  /\ HasDesc(at)
  /\ pos # Desc(at) \/ ~Here(pos)
  /\ Ends("EINCOMPLETE")
  /\ Unchanged1 /\ UNCHANGED << cursor, handled, faulty >>

\* It has not arrived, or it is not what is read.
DescriptorFails ==
  /\ pc = "descriptor"
  /\ HasDesc(at)
  /\ \/ pos = Desc(at) /\ ~Here(pos) /\ Ends("EINCOMPLETE")
     \/ pos # Desc(at) /\ Ends("ESIZE")
  /\ Unchanged1 /\ UNCHANGED << cursor, handled, faulty >>

\* The process is killed.  A part may be complete and not renamed yet.
Kill ==
  /\ pc # "idle"
  /\ pc' = "idle" /\ ret' = "KILLED" /\ faulty' = TRUE
  /\ \/ UNCHANGED << out, part >>
     \/ /\ pc = "extract" /\ SizedFile
        /\ IF opts.resume
             THEN /\ out[at] # "new"
                  /\ \E s \in {"some", "full"} : part' = [part EXCEPT ![at] = s]
                  /\ UNCHANGED out
             ELSE out' = [out EXCEPT ![at] = "old"] /\ UNCHANGED part
  /\ UNCHANGED << archive, visible, opts, cursor, statePath, status, handled >>

Init ==
  /\ archive \in Contents
  /\ visible \in 0 .. Central
  /\ opts = [resume |-> FALSE, policy |-> "overwrite"]
  /\ pc = "idle" /\ at = 1 /\ pos = 1
  /\ statePath = "file"
  /\ ret = "none"
  /\ out \in [1 .. Count -> {"none", "old"}]
  /\ part = [k \in 1 .. Count |-> "none"]
  /\ status = "none"
  /\ handled = {} /\ faulty = FALSE

Next ==
  \/ Arrive
  \/ \E o \in [resume : BOOLEAN, policy : Policies] : Start(o)
  \/ HeaderMissing \/ ReachCentral \/ Misread \/ ReadHeader
  \/ SkipExisting \/ RefuseExisting \/ GoOn
  \/ MakeDirectory \/ AlreadyThere \/ ExtractSized
  \/ ExtractUnsized \/ UnsizedIncomplete \/ ExtractFails
  \/ Cancel \/ PassDescriptor \/ DescriptorFails \/ Kill

Spec == Init /\ [][Next]_vars

-----------------------------------------------------------------------------
(* Properties *)

\* The variables keep their types, and a step that works on an entry never has
\* the position behind what has arrived.
TypeOK ==
  /\ archive \in Contents /\ visible \in 0 .. Central
  /\ opts \in [resume : BOOLEAN, policy : Policies \union {"overwrite"}]
  /\ pc \in {"idle", "header", "conflict", "extract", "descriptor"}
  /\ at \in 1 .. Count + 1 /\ pos \in 1 .. Central
  /\ statePath \in {"file", "target"}
  /\ ret \in {"none", "OK", "EINCOMPLETE", "EFILE", "ESIZE", "EUNSUP", "EEXIST",
              "ECANCEL", "FAILED", "KILLED"}
  /\ out \in [1 .. Count -> {"none", "old", "new"}]
  /\ part \in [1 .. Count -> {"none", "some", "full"}]
  /\ status \in {"none", "extracting", "skipped", "done", "complete", "incomplete", "failed"}
  /\ handled \subseteq 1 .. Count /\ faulty \in BOOLEAN
  /\ \A k \in 1 .. Count :
       /\ Header(k) < pos => Here(Header(k))
       /\ Data(k) < pos /\ archive[k].bytes => Here(Data(k))
       /\ Desc(k) < pos /\ archive[k].desc # "none" => Here(Desc(k))

\* ZIPY_ZIP_OK means that the walk met every entry in turn up to the central
\* directory, and left each one extracted or, if asked to, as it was.
OkMeansAll ==
  pc = "idle" /\ ret = "OK" =>
    /\ visible >= Central - 1
    /\ handled = 1 .. Count
    /\ \A k \in 1 .. Count : out[k] = "new" \/ (opts.policy = "skip" /\ out[k] = "old")

\* ZIPY_ZIP_EINCOMPLETE tells the caller to try again later: an archive that
\* is all there, and has entries, is never called incomplete.
IncompleteIsTruncated ==
  [][ret' = "EINCOMPLETE" /\ pc # "idle" /\ pc' = "idle" /\ Count > 0 => visible < Central]_vars

\* Without ZIPY_EXTRACT_RESUME no call finds a well-formed archive malformed:
\* whatever was skipped, moved away or extracted, the walk stays in step.
StaysInStep == pc = "idle" /\ ~opts.resume => ret \notin {"EFILE", "ESIZE"}

\* A caller can retry (README: "so callers can retry a still-downloading or
\* truncated archive"): once the archive is all there and nothing goes wrong,
\* a call that resumes succeeds.
RetryGetsThere ==
  pc = "idle" /\ opts.resume /\ ret # "none" /\ ~faulty /\ visible = Central => ret = "OK"

\* The status of the run is in the state file when a resumable call is over
\* (README: "Stream extraction records final run status").
StatusRecorded ==
  pc = "idle" /\ opts.resume /\ ret = "OK" => status = "complete"

=============================================================================

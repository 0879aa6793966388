----------------------------- MODULE AtomicParts -----------------------------
(***************************************************************************)
(* Atomic extraction of several entries at once (src/zip.c, extract_entry  *)
(* with ZIPY_EXTRACT_ATOMIC and without ZIPY_EXTRACT_RESUME).  A file is   *)
(* written as target/.zipy/parts/<name>.part and renamed over its          *)
(* destination when it is complete.  The directories of the parts tree are *)
(* shared by all entries: each one makes the directories it needs and, if  *)
(* the clean-up is not delayed, removes those it finds empty afterwards.   *)
(*                                                                         *)
(* One process stands for one call of extract_entry on a regular file; a   *)
(* system call is one action.  Open files are inodes, so a path may be     *)
(* unlinked or renamed under the thread that writes to it.  The two        *)
(* callers differ in two ways: zipy_extract_all delays the clean-up to the *)
(* end and stops at the first failure; the command line calls              *)
(* zipy_extract_to for every entry (src/main.c, extract_worker), where     *)
(* default_extract_options masks the internal delay flag away.             *)
(***************************************************************************)
EXTENDS Integers, Sequences, FiniteSets, SequencesExt

CONSTANTS
  Count,         \* the number of regular files, in archive order
  Jobs,          \* how many are extracted at once
  Nodes,         \* the names of the parts tree
  Parent,        \* Parent[n]: the directory of n; Target for the root ".zipy"
  Target,        \* the directory extracted to
  PartOf,        \* PartOf[e]: the node of the part file of entry e
  DestOf,        \* DestOf[e]: the destination of entry e
  Chunks,        \* how many pieces a file is written in
  Bad,           \* the entries whose extraction may fail (checksum, disk, cancel)
  Stale,         \* part files that an earlier run left behind
  Calls          \* [extractAll, rootZipy]: the calls to look at

Entries == 1 .. Count
Dests   == { DestOf[e] : e \in Entries }

\* The directories from .zipy down to n, and n itself.
PathTo[n \in Nodes \union {Target}] ==
  IF n = Target THEN << >> ELSE Append(PathTo[Parent[n]], n)

Chain(e) == PathTo[Parent[PartOf[e]]]
Above(n) == ToSet(PathTo[n])

ASSUME PartsAssumption ==
  /\ Count \in Nat /\ Jobs \in Nat \ {0} /\ Chunks \in Nat
  /\ Target \notin Nodes
  /\ Parent \in [Nodes -> Nodes \union {Target}]
  /\ PartOf \in [Entries -> Nodes]
  /\ Bad \subseteq Entries
  /\ Stale \subseteq Nodes
  /\ Calls \subseteq [extractAll : BOOLEAN, rootZipy : BOOLEAN]

\* Parent makes a tree: it goes in no circle.
ASSUME TreeAssumption ==
  \A S \in SUBSET Nodes : S # {} => \E n \in S : Parent[n] \notin S

\* Every entry has a name of its own; its part is a file in .zipy/parts or
\* below, and nothing has a part for its directory.
ASSUME NamesAssumption ==
  /\ IsInjective(PartOf) /\ IsInjective(DestOf)
  /\ DOMAIN DestOf = Entries
  /\ \A e \in Entries : Parent[PartOf[e]] \in Nodes /\ Len(Chain(e)) >= 2
  /\ \A n \in Nodes : Parent[n] \notin Stale /\ \A e \in Entries : Parent[n] # PartOf[e]

VARIABLES
  call,    \* one zipy_extract_all, or else a zipy_extract_to for every entry;
           \* and whether the archive itself has entries under .zipy
  phase,   \* "run", or "returned" when the call is over
  pc,      \* where each entry is
  todo,    \* the directories it has still to make or to remove
  stage,   \* which directories it makes: "parts" or its own "parent"
  off,     \* the chunks it has written
  fd,      \* the inode it writes to
  ret,     \* its result
  dirs,    \* the directories of the parts tree
  file,    \* its files: the inode of a node, or None
  dest,    \* the destinations: their new inode, or None while they are as before
  data     \* data[i][k]: the entry that wrote chunk k of inode i, 0 for none

vars == << call, phase, pc, todo, stage, off, fd, ret, dirs, file, dest, data >>

\* An inode has the number of the entry that created it.
None    == 0
Foreign == Count + 1
Inodes  == 1 .. Count + 1

GoTo(e, label) == pc' = [pc EXCEPT ![e] = label]

Return(e, r) ==
  /\ ret' = [ret EXCEPT ![e] = r]
  /\ GoTo(e, "done")

IsDir(n)    == n = Target \/ n \in dirs
Exists(n)   == IsDir(n) \/ file[n] # None
Children(d) == { n \in Nodes : Parent[n] = d /\ Exists(n) }
Unlinked(n) == [file EXCEPT ![n] = None]

-----------------------------------------------------------------------------
(* mkdirs *)

\* One directory is there: go on to the next one, then to what they are for.
DirReady(e) ==
  /\ todo' = [todo EXCEPT ![e] = Tail(@)]
  /\ GoTo(e, IF Len(todo[e]) > 1 THEN "stat"
             ELSE IF stage[e] = "parts" THEN "unlink" ELSE "open")

\* resume_part_path returns NULL, prepare_parent_dir returns 0.
NoDir(e) == Return(e, IF stage[e] = "parts" THEN "ERR" ELSE "EFILE")

\* mkdir_one: is it there already?
Stat(e) ==
  /\ pc[e] = "stat"
  /\ IF IsDir(Head(todo[e]))
       THEN DirReady(e)
       ELSE GoTo(e, "mkdir") /\ UNCHANGED todo
  /\ UNCHANGED << call, phase, stage, off, fd, ret, dirs, file, dest, data >>

MakeDir(e) ==
  /\ pc[e] = "mkdir"
  /\ LET d == Head(todo[e])
     IN \/ /\ ~Exists(d) /\ IsDir(Parent[d])
           /\ dirs' = dirs \union {d}
           /\ DirReady(e)
           /\ UNCHANGED ret
        \/ /\ Exists(d)                       \* EEXIST
           /\ GoTo(e, "recheck")
           /\ UNCHANGED << todo, ret, dirs >>
        \/ /\ ~IsDir(Parent[d])               \* ENOENT, ENOTDIR
           /\ NoDir(e)
           /\ UNCHANGED << todo, dirs >>
  /\ UNCHANGED << call, phase, stage, off, fd, file, dest, data >>

\* After EEXIST: somebody made it, or it is a file.
Recheck(e) ==
  /\ pc[e] = "recheck"
  /\ IF IsDir(Head(todo[e]))
       THEN DirReady(e) /\ UNCHANGED ret
       ELSE NoDir(e) /\ UNCHANGED todo
  /\ UNCHANGED << call, phase, stage, off, fd, dirs, file, dest, data >>

-----------------------------------------------------------------------------
(* extract_entry *)

Failed == \E e \in Entries : pc[e] = "done" /\ ret[e] # "OK"
Active == { e \in Entries : pc[e] \notin {"waiting", "done"} }

\* A free worker claims the next entry, and begins with the directory .zipy/parts.
Begin(e) ==
  /\ pc[e] = "waiting"
  /\ \A f \in 1 .. e - 1 : pc[f] # "waiting"
  /\ Cardinality(Active) < Jobs
  /\ call.extractAll => ~Failed
  /\ todo' = [todo EXCEPT ![e] = SubSeq(Chain(e), 1, 2)]
  /\ GoTo(e, "stat")
  /\ UNCHANGED << call, phase, stage, off, fd, ret, dirs, file, dest, data >>

\* A part that an earlier run left is removed; then its directory is prepared,
\* once more: the cache of the last parent directory never holds it, as the
\* parent of the destination has been prepared before (extract_entry).
UnlinkOld(e) ==
  /\ pc[e] = "unlink"
  /\ file'  = Unlinked(PartOf[e])
  /\ todo'  = [todo EXCEPT ![e] = Chain(e)]
  /\ stage' = [stage EXCEPT ![e] = "parent"]
  /\ GoTo(e, "stat")
  /\ UNCHANGED << call, phase, off, fd, ret, dirs, dest, data >>

\* open with O_CREAT and O_TRUNC.
Open(e) ==
  /\ pc[e] = "open"
  /\ LET p == PartOf[e]
         i == IF file[p] # None THEN file[p] ELSE e
     IN IF IsDir(Parent[p]) /\ ~IsDir(p)
          THEN /\ file' = [file EXCEPT ![p] = i]
               /\ fd'   = [fd EXCEPT ![e] = i]
               /\ data' = [data EXCEPT ![i] = [k \in 1 .. Chunks |-> 0]]
               /\ GoTo(e, "write")
               /\ UNCHANGED ret
          ELSE Return(e, "EFILE") /\ UNCHANGED << file, fd, data >>
  /\ UNCHANGED << call, phase, todo, stage, off, dirs, dest >>

Write(e) ==
  /\ pc[e] = "write"
  /\ off[e] < Chunks
  /\ off'  = [off EXCEPT ![e] = @ + 1]
  /\ data' = [data EXCEPT ![fd[e]][off[e] + 1] = e]
  /\ UNCHANGED << call, phase, pc, todo, stage, fd, ret, dirs, file, dest >>

\* Mutant: the result is not looked at before the rename.
WriteFailsLate(e) ==
  /\ pc[e] = "write"
  /\ e \in Bad
  /\ ret' = [ret EXCEPT ![e] = "FAILED"]
  /\ off' = [off EXCEPT ![e] = Chunks]
  /\ UNCHANGED << call, phase, pc, todo, stage, fd, dirs, file, dest, data >>

\* The checksum differs, the disk is full, or the progress callback said no.
WriteFails(e) ==
  /\ pc[e] = "write"
  /\ e \in Bad
  /\ ret' = [ret EXCEPT ![e] = "FAILED"]
  /\ GoTo(e, "discard")
  /\ UNCHANGED << call, phase, todo, stage, off, fd, dirs, file, dest, data >>

\* Mutant: renamed into place before it is complete.
PublishEarly(e) ==
  /\ pc[e] = "write"
  /\ LET p == PartOf[e]
     IN /\ file[p] # None
        /\ dest' = [dest EXCEPT ![DestOf[e]] = file[p]]
        /\ file' = Unlinked(p)
        /\ GoTo(e, "tidy")
  /\ UNCHANGED << call, phase, todo, stage, off, fd, ret, dirs, data >>

\* replace_file: rename the part over the destination.
Publish(e) ==
  /\ pc[e] = "write"
  /\ off[e] = Chunks
  /\ LET p == PartOf[e]
     IN IF file[p] # None
          THEN /\ dest' = [dest EXCEPT ![DestOf[e]] = file[p]]
               /\ file' = Unlinked(p)
               /\ GoTo(e, "tidy")
               /\ UNCHANGED ret
          ELSE /\ ret' = [ret EXCEPT ![e] = "EFILE"]
               /\ GoTo(e, "discard")
               /\ UNCHANGED << file, dest >>
  /\ UNCHANGED << call, phase, todo, stage, off, fd, dirs, data >>

\* Mutant: a failed entry keeps its part.
DiscardNothing(e) ==
  /\ pc[e] = "discard"
  /\ GoTo(e, "tidy")
  /\ UNCHANGED << call, phase, todo, stage, off, fd, ret, dirs, file, dest, data >>

Discard(e) ==
  /\ pc[e] = "discard"
  /\ file' = Unlinked(PartOf[e])
  /\ GoTo(e, "tidy")
  /\ UNCHANGED << call, phase, todo, stage, off, fd, ret, dirs, dest, data >>

\* The directories cleanup_empty_parts_dirs tries, the deepest one first.
Removable(e) == Reverse(IF call.rootZipy THEN Tail(Chain(e)) ELSE Chain(e))

\* Mutant: the delay flag does not reach extract_entry.
TidyAtOnce(e) ==
  /\ pc[e] = "tidy"
  /\ todo' = [todo EXCEPT ![e] = Removable(e)]
  /\ GoTo(e, "rmdir")
  /\ UNCHANGED << call, phase, stage, off, fd, ret, dirs, file, dest, data >>

\* Without EXTRACT_DELAY_PARTS_CLEANUP the entry cleans up after itself.
Tidy(e) ==
  /\ pc[e] = "tidy"
  /\ todo' = [todo EXCEPT ![e] = IF call.extractAll THEN << >> ELSE Removable(e)]
  /\ GoTo(e, IF call.extractAll THEN "done" ELSE "rmdir")
  /\ UNCHANGED << call, phase, stage, off, fd, ret, dirs, file, dest, data >>

\* remove_empty_dir; whether it succeeds makes no difference to the next one.
RemoveDir(e) ==
  /\ pc[e] = "rmdir"
  /\ LET d == Head(todo[e])
     IN dirs' = IF Children(d) = {} THEN dirs \ {d} ELSE dirs
  /\ todo' = [todo EXCEPT ![e] = Tail(@)]
  /\ GoTo(e, IF Len(todo[e]) > 1 THEN "rmdir" ELSE "done")
  /\ UNCHANGED << call, phase, stage, off, fd, ret, file, dest, data >>

-----------------------------------------------------------------------------
(* The call *)

\* Mutant: the parts tree is removed with everything in it.
CleanedUpWhole ==
  dirs \ (UNION { ToSet(Removable(e)) : e \in Entries })

\* Mutant: the walk up stops at the directory of the part itself.
CleanedUpDeepest ==
  LET Ours == { d \in { Parent[PartOf[e]] : e \in Entries } :
                  d \in dirs /\ ~ \E m \in Nodes : Parent[m] = d /\ Exists(m) }
  IN dirs \ Ours

\* cleanup_extract_all_parts walks up from the part of every entry.  It runs
\* alone, so what is left are the directories that lead to something else.
CleanedUp ==
  LET Ours == UNION { ToSet(Removable(e)) : e \in Entries }
      Kept == UNION { Above(n) : n \in { m \in Nodes : Exists(m) /\ m \notin Ours } }
  IN dirs \ (Ours \ Kept)

ReturnToCaller ==
  /\ phase = "run"
  /\ Active = {}
  /\ (call.extractAll /\ Failed) \/ \A e \in Entries : pc[e] = "done"
  /\ phase' = "returned"
  /\ dirs' = IF call.extractAll /\ ~Failed THEN CleanedUp ELSE dirs
  /\ UNCHANGED << call, pc, todo, stage, off, fd, ret, file, dest, data >>

Init ==
  /\ call \in Calls
  /\ phase = "run"
  /\ pc    = [e \in Entries |-> "waiting"]
  /\ todo  = [e \in Entries |-> << >>]
  /\ stage = [e \in Entries |-> "parts"]
  /\ off   = [e \in Entries |-> 0]
  /\ fd    = [e \in Entries |-> e]
  /\ ret   = [e \in Entries |-> "OK"]
  /\ \E left \in SUBSET Stale :
       /\ file = [n \in Nodes |-> IF n \in left THEN Foreign ELSE None]
       /\ dirs = (UNION { Above(n) : n \in left }) \ left
  /\ dest  = [d \in Dests |-> None]
  /\ data  = [i \in Inodes |-> [k \in 1 .. Chunks |-> 0]]

Step(e) ==
  \/ Begin(e)
  \/ Stat(e)
  \/ MakeDir(e)
  \/ Recheck(e)
  \/ UnlinkOld(e)
  \/ Open(e)
  \/ Write(e)
  \/ WriteFails(e)
  \/ Publish(e)
  \/ Discard(e)
  \/ Tidy(e)
  \/ RemoveDir(e)

Next == (\E e \in Entries : Step(e)) \/ ReturnToCaller

Spec == Init /\ [][Next]_vars

-----------------------------------------------------------------------------
(* Properties *)

\* The variables keep their types, and the parts tree is a tree: what exists
\* is in a directory that exists.
TypeOK ==
  /\ call \in Calls
  /\ phase \in {"run", "returned"}
  /\ pc \in [Entries -> {"waiting", "stat", "mkdir", "recheck", "unlink", "open",
                         "write", "discard", "tidy", "rmdir", "done"}]
  /\ \A e \in Entries : Range(todo[e]) \subseteq Nodes
  /\ stage \in [Entries -> {"parts", "parent"}]
  /\ off \in [Entries -> 0 .. Chunks]
  /\ fd \in [Entries -> Inodes]
  /\ ret \in [Entries -> {"OK", "ERR", "EFILE", "FAILED"}]
  /\ dirs \subseteq Nodes
  /\ file \in [Nodes -> Inodes \union {None}]
  /\ dest \in [Dests -> Inodes \union {None}]
  /\ \A n \in Nodes : Exists(n) => IsDir(Parent[n])

\* A destination holds what it held before, or a file that one entry has
\* written from the first to the last chunk: at no moment (a crash included)
\* is a partial or a mixed file in place.
DestWhole ==
  \A d \in Dests : dest[d] # None =>
    \E e \in Entries : DestOf[e] = d /\ \A k \in 1 .. Chunks : data[dest[d]][k] = e

\* An entry whose data is good is extracted, whatever its neighbours do to the
\* directories they share.
NoSpuriousFailure ==
  \A e \in Entries : pc[e] = "done" => ret[e] \in {"OK", "FAILED"}

\* That is so in zipy_extract_all, which delays the clean-up for this reason.
NoSpuriousFailureInAll == call.extractAll => NoSpuriousFailure

\* A failed entry leaves its destination as it was; an extracted one is in
\* place, and no other entry can take it away.
DestFollowsResult ==
  \A e \in Entries : pc[e] = "done" =>
    (ret[e] = "OK" <=> dest[DestOf[e]] # None)

\* Neither success nor failure leaves the part of an entry behind.
NoPartLeft == \A e \in Entries : pc[e] = "done" => ~Exists(PartOf[e])

\* After a successful call the parts tree is gone, but for what leads to the
\* parts of other runs (and for .zipy, if it belongs to the archive).
TreeGone ==
  phase = "returned" /\ ~Failed =>
    \A n \in Nodes : Exists(n) =>
      \/ file[n] = Foreign
      \/ \E m \in Nodes : file[m] = Foreign /\ n \in Above(m)
      \/ call.rootZipy /\ Parent[n] = Target

=============================================================================

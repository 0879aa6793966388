---------------------------- MODULE SaveConflicts ----------------------------
(***************************************************************************)
(* What happens to files that are there already (src/zip.c,                *)
(* prepare_entry_conflict): skip them, fail, or move them to a folder of   *)
(* saved files.  Four callers do this:                                     *)
(*   "all"     zipy_extract_all: for every entry, before any is extracted; *)
(*   "to"      zipy_extract_to: for its entry, with a folder of its own;   *)
(*   "stream"  zipy_extract_stream: for one entry after the other, with    *)
(*             one folder;                                                 *)
(*   "cli"     the command line: zipy_extract_to by several workers, with  *)
(*             one folder.                                                 *)
(* One process stands for one entry.  The tree of the target is a function *)
(* from paths to what is there, and so is every folder of saved files.     *)
(*                                                                         *)
(* With it goes what extract_entry keeps or sets besides the files: every  *)
(* archive handle remembers the last parent directory it has prepared      *)
(* (parent_cache), and a directory gets the time of its entry.             *)
(***************************************************************************)
EXTENDS Integers, Sequences, FiniteSets

CONSTANTS
  Paths,      \* the paths in the target
  Parent,     \* Parent[p]: the directory of p; Root for the target itself
  Root,
  Contents,   \* the archives: sequences of [name, dir]
  Callers,    \* subset of {"all", "to", "stream", "cli"}
  Policies,   \* subset of {"save", "skip", "fail", "overwrite"}
  Jobs        \* the largest number of workers

Missing  == << "missing" >>
Dir      == << "dir" >>
User(p)  == << "user", p >>
New(e)   == << "new", e >>
IsFile(c) == c \notin {Missing, Dir}

Nowhere == "nowhere"   \* no path

Trees == { t \in [Paths -> {Missing, Dir} \union { User(p) : p \in Paths }] :
             \A p \in Paths : /\ IsFile(t[p]) => t[p] = User(p)
                              /\ t[p] # Missing /\ Parent[p] # Root => t[Parent[p]] = Dir }

ASSUME ConflictAssumption ==
  /\ Root \notin Paths /\ Nowhere \notin Paths \union {Root}
  /\ Parent \in [Paths -> Paths \union {Root}]
  /\ \A p \in Paths : Parent[p] # Root => Parent[Parent[p]] = Root
  /\ \A a \in Contents : a \in Seq([name : Paths, dir : BOOLEAN])
  /\ Callers \subseteq {"all", "to", "stream", "cli"}
  /\ Policies \subseteq {"save", "skip", "fail", "overwrite"}
  /\ Jobs \in Nat \ {0}

VARIABLES
  archive, caller, jobs,     \* the call
  asked,     \* whether the user of the command line answered for every conflict
  policies,  \* the policy for each entry: the answers, or the same for all
  had,       \* what the target held before
  fs,        \* what it holds
  saves,     \* saves[i]: what folder i of saved files holds
  notes,     \* the lines of zipy_saved_original_paths.txt: << folder, path >>
  pc,        \* where each entry is
  todo,      \* the path it is looking at: its parent, or its own
  ret,       \* its result
  by,        \* the archive handle that works on it
  cache,     \* the parent each handle has prepared last
  stamped    \* the directories that have the time of their entry

call  == << archive, caller, jobs, asked, policies, had >>
tools == << by, cache, stamped >>
vars  == << call, fs, saves, notes, pc, todo, ret, tools >>

Entries   == 1 .. Len(archive)
Name(e)   == archive[e].name
IsDir(e)  == archive[e].dir
\* The folder save_dir: zipy_extract_to makes one per call, the others share one.
Folder(e) == IF caller = "to" THEN e ELSE 0

\* A worker has a clone of the archive of its own; else there is one handle.
Handles == IF jobs = 1 \/ caller \in {"to", "stream"} THEN {0} ELSE 1 .. jobs

Below(p)  == { q \in Paths : q = p \/ Parent[q] = p }
GoTo(e, label) == pc' = [pc EXCEPT ![e] = label]
Returns(e, r)  == GoTo(e, "done") /\ ret' = [ret EXCEPT ![e] = r]

Errors  == {"EEXIST", "EFILE"}
Failed  == \E e \in Entries : ret[e] \in Errors
Started == { e \in Entries : pc[e] # "waiting" }
Active  == { e \in Started : pc[e] \notin {"ready", "done"} }

-----------------------------------------------------------------------------
(* Which entry comes next *)

\* zipy_extract_all prepares its entries in order, zipy_extract_stream takes
\* them in order; both stop at the first failure.
NextInOrder(e) ==
  /\ 1 .. e - 1 \subseteq Started
  /\ Active = {}
  /\ caller # "to" => ~Failed

\* Mutant: directories in the order of the archive.
Forwards(e) ==
  IF IsDir(e)
    THEN /\ \A f \in Entries : ~IsDir(f) \/ f < e => pc[f] = "done"
         /\ ~Failed
    ELSE Cardinality(Active) < jobs

\* The workers of the command line take batches of files; what is between two
\* entries of Contents is left out, so they come in any order.  Directories are
\* left to apply_directory_entries: backwards, when all files are in place.
NextOfWorkers(e) ==
  IF IsDir(e)
    THEN /\ \A f \in Entries : ~IsDir(f) \/ f > e => pc[f] = "done"
         /\ ~Failed
    ELSE Cardinality(Active) < jobs

\* The user wants to keep what stands in the place of the directory.
PassedOver(e) == asked /\ IsDir(e) /\ policies[e] = "skip"

\* Where the conflicts of an entry begin: at its parent, if it has one.
Begin(e) ==
  /\ pc[e] = "waiting"
  /\ IF caller = "cli" THEN NextOfWorkers(e) ELSE NextInOrder(e)
  /\ IF caller = "cli" /\ ~IsDir(e)
       THEN \E h \in Handles \ { by[f] : f \in Active } : by' = [by EXCEPT ![e] = h]
       ELSE UNCHANGED by
  /\ IF policies[e] = "overwrite"
       THEN GoTo(e, IF caller = "all" THEN "ready" ELSE "write") /\ UNCHANGED todo
       ELSE /\ todo' = [todo EXCEPT ![e] = IF Parent[@] = Root THEN @ ELSE Parent[@]]
            /\ GoTo(e, IF Parent[Name(e)] = Root THEN "look" ELSE "parent")
  /\ ~PassedOver(e)
  /\ UNCHANGED << call, fs, saves, notes, ret, cache, stamped >>

\* Neither extract_one nor apply_directory_entries calls the library for it.
PassOver(e) ==
  /\ pc[e] = "waiting" /\ NextOfWorkers(e)
  /\ PassedOver(e)
  /\ Returns(e, "SKIPPED")
  /\ UNCHANGED << call, fs, saves, notes, todo, tools >>

-----------------------------------------------------------------------------
(* prepare_entry_conflict *)

\* The entries of zipy_extract_all wait until all are prepared.
Prepared(e) == GoTo(e, IF caller = "all" THEN "ready" ELSE "write")

\* There is no conflict at this path.  After a parent comes the path itself.
NextPath(e) ==
  IF todo[e] = Name(e) THEN Prepared(e) /\ UNCHANGED todo
  ELSE todo' = [todo EXCEPT ![e] = Name(e)] /\ GoTo(e, "look")

\* Mutant: a file may take the place of a file.
FitsSameKind(e) == fs[todo[e]] = Missing \/ (fs[todo[e]] = Dir <=> IsDir(e))

\* Nothing is there, or a directory where the archive has one too.
Fits(e) == fs[todo[e]] = Missing \/ (fs[todo[e]] = Dir /\ todo[e] = Name(e) /\ IsDir(e))

\* prepare_parent_conflicts: only a file is in the way of what is below it.
LookAtParent(e) ==
  /\ pc[e] = "parent"
  /\ \/ ~IsFile(fs[todo[e]]) /\ NextPath(e)
     \/ IsFile(fs[todo[e]]) /\ GoTo(e, "look") /\ UNCHANGED todo
  /\ UNCHANGED << call, fs, saves, notes, ret, tools >>

\* Mutant: the answer "skip" for one entry is lost.
LookForgetsSkip(e) ==
  /\ pc[e] = "look"
  /\ \/ Fits(e) /\ NextPath(e) /\ UNCHANGED ret
     \/ /\ ~Fits(e)
        /\ \/ policies[e] = "skip" /\ ~asked /\ Returns(e, "SKIPPED")
           \/ policies[e] = "fail" /\ Returns(e, "EEXIST")
           \/ (policies[e] = "save" \/ asked) /\ GoTo(e, "move") /\ UNCHANGED ret
        /\ UNCHANGED todo
  /\ UNCHANGED << call, fs, saves, notes, tools >>

\* prepare_conflict looks itself, at a parent as at a file.
Look(e) ==
  /\ pc[e] = "look"
  /\ \/ Fits(e) /\ NextPath(e) /\ UNCHANGED ret
     \/ /\ ~Fits(e)
        /\ \/ policies[e] = "skip" /\ Returns(e, "SKIPPED")
           \/ policies[e] = "fail" /\ Returns(e, "EEXIST")
           \/ policies[e] = "save" /\ GoTo(e, "move") /\ UNCHANGED ret
        /\ UNCHANGED todo
  /\ UNCHANGED << call, fs, saves, notes, tools >>

\* mkdir_parent in the folder of saved files.
ParentMade(i, p) ==
  [q \in Paths |-> IF q = Parent[p] THEN Dir ELSE saves[i][q]]
CanMakeParent(i, p) == Parent[p] # Root => ~IsFile(saves[i][Parent[p]])

\* Whether rename puts what is at p into folder i, over what may be there.
CanRename(i, p) ==
  CASE fs[p] = Missing -> FALSE
    [] fs[p] = Dir     -> ~IsFile(saves[i][p]) /\ \A q \in Below(p) \ {p} : saves[i][q] = Missing
    [] OTHER           -> saves[i][p] # Dir

\* Mutant: a directory is moved, but what is in it stays.
MoveAlone(e) ==
  LET i == Folder(e)
      p == todo[e]
  IN /\ pc[e] = "move"
     /\ CanMakeParent(i, p) /\ CanRename(i, p)
     /\ fs' = [fs EXCEPT ![p] = Missing]
     /\ saves' = [saves EXCEPT ![i] = [ParentMade(i, p) EXCEPT ![p] = fs[p]]]
     /\ GoTo(e, "note")
     /\ stamped' = stamped \ (Below(p) \union {Parent[p]})
     /\ UNCHANGED << call, notes, todo, ret, by, cache >>

\* What is there now goes to the folder, whatever was there at the look.
Move(e) ==
  LET i == Folder(e)
      p == todo[e]
  IN /\ pc[e] = "move"
     /\ CanMakeParent(i, p) /\ CanRename(i, p)
     /\ fs' = [q \in Paths |-> IF q \in Below(p) THEN Missing ELSE fs[q]]
     /\ saves' = [saves EXCEPT ![i] =
                    [q \in Paths |-> IF q \in Below(p) THEN fs[q] ELSE ParentMade(i, p)[q]]]
     /\ GoTo(e, "note")
     /\ stamped' = stamped \ (Below(p) \union {Parent[p]})
     /\ UNCHANGED << call, notes, todo, ret, by, cache >>

\* The folder or the parent in it cannot be made: a file is in the way, or the
\* file system refuses.
CannotSave(e) ==
  /\ pc[e] = "move"
  /\ Returns(e, "EFILE")
  /\ UNCHANGED << call, fs, saves, notes, todo, tools >>

\* rename fails, for what lies at either end, or for a reason of its own.
MoveFails(e) ==
  LET i == Folder(e)
      p == todo[e]
  IN /\ pc[e] = "move"
     /\ CanMakeParent(i, p)
     /\ saves' = [saves EXCEPT ![i] = ParentMade(i, p)]
     /\ GoTo(e, "recheck")
     /\ UNCHANGED << call, fs, notes, todo, ret, tools >>

\* Another worker may have moved it; then all is well, if it fits now.
Recheck(e) ==
  /\ pc[e] = "recheck"
  /\ \/ Fits(e) /\ NextPath(e) /\ UNCHANGED ret
     \/ ~Fits(e) /\ Returns(e, "EFILE") /\ UNCHANGED todo
  /\ UNCHANGED << call, fs, saves, notes, tools >>

\* Mutant: only the entry's own path is noted.
NoteOwn(e) ==
  /\ pc[e] = "note"
  /\ \/ /\ notes' = IF todo[e] = Name(e) THEN notes \union {<< Folder(e), todo[e] >>} ELSE notes
        /\ ret' = [ret EXCEPT ![e] = "SAVED"]
        /\ NextPath(e)
     \/ Returns(e, "EFILE") /\ UNCHANGED << notes, todo >>
  /\ UNCHANGED << call, fs, saves, tools >>

\* append_saved_manifest, which may fail; the file stays in the folder.
Note(e) ==
  /\ pc[e] = "note"
  /\ \/ /\ notes' = notes \union {<< Folder(e), todo[e] >>}
        /\ ret' = [ret EXCEPT ![e] = "SAVED"]
        /\ NextPath(e)
     \/ Returns(e, "EFILE") /\ UNCHANGED << notes, todo >>
  /\ UNCHANGED << call, fs, saves, tools >>

-----------------------------------------------------------------------------
(* extract_entry *)

\* Mutant: an entry is extracted as soon as it is prepared.
GoEarly ==
  /\ \E e \in Entries : pc[e] = "ready" /\ GoTo(e, "write")
  /\ UNCHANGED << call, fs, saves, notes, todo, ret, tools >>

\* zipy_extract_all extracts when all entries are prepared and none failed.
Go ==
  /\ \A e \in Entries : pc[e] \in {"ready", "done"}
  /\ \E e \in Entries : pc[e] = "ready"
  /\ ~Failed
  /\ pc' = [e \in Entries |-> IF pc[e] = "ready" THEN "write" ELSE pc[e]]
  /\ UNCHANGED << call, fs, saves, notes, todo, ret, tools >>

MayWrite(e, h) ==
  /\ pc[e] = "write"
  /\ h \in IF caller = "cli" THEN {by[e]} ELSE Handles

IsDirNow(t, d) == d = Root \/ t[d] = Dir

\* prepare_parent_dir_len: nothing is made that the handle has prepared last.
WithParent(h, d) ==
  IF d # Root /\ cache[h] # d /\ fs[d] = Missing THEN [fs EXCEPT ![d] = Dir] ELSE fs
ParentPrepared(h, d) == cache[h] = d \/ IsDirNow(WithParent(h, d), d)

\* Mutant: the top directory is prepared, but not remembered.
WriteFileForgetsRoot(e, h) ==
  LET p == Name(e)
      d == Parent[p]
      made == WithParent(h, d)
      opens == ParentPrepared(h, d) /\ IsDirNow(made, d) /\ made[p] # Dir
  IN /\ MayWrite(e, h) /\ ~IsDir(e)
     /\ fs' = IF opens THEN [made EXCEPT ![p] = New(e)] ELSE made
     /\ cache' = IF ParentPrepared(h, d) /\ d # Root THEN [cache EXCEPT ![h] = d] ELSE cache
     /\ stamped' = IF opens /\ fs[p] = Missing THEN stamped \ {d} ELSE stamped
     /\ IF opens THEN GoTo(e, "done") /\ UNCHANGED ret ELSE Returns(e, "EFILE")
     /\ UNCHANGED << call, saves, notes, todo, by >>

\* The file is written over whatever file is there.
WriteFile(e, h) ==
  LET p == Name(e)
      d == Parent[p]
      made == WithParent(h, d)
      opens == ParentPrepared(h, d) /\ IsDirNow(made, d) /\ made[p] # Dir
  IN /\ MayWrite(e, h) /\ ~IsDir(e)
     /\ fs' = IF opens THEN [made EXCEPT ![p] = New(e)] ELSE made
     /\ cache' = IF ParentPrepared(h, d) THEN [cache EXCEPT ![h] = d] ELSE cache
     /\ stamped' = IF opens /\ fs[p] = Missing THEN stamped \ {d} ELSE stamped
     /\ IF opens THEN GoTo(e, "done") /\ UNCHANGED ret ELSE Returns(e, "EFILE")
     /\ UNCHANGED << call, saves, notes, todo, by >>

\* A directory is made with its parent whatever is remembered, and is
\* remembered itself.  zipy_extract_to sets its time at once;
\* zipy_extract_all leaves that for the end, zipy_extract_stream leaves it out.
WriteDir(e, h) ==
  LET p == Name(e)
      d == Parent[p]
      fits == ~(d # Root /\ IsFile(fs[d])) /\ ~IsFile(fs[p])
      old == IF fs[p] = Missing THEN stamped \ {d} ELSE stamped
  IN /\ MayWrite(e, h) /\ IsDir(e)
     /\ IF fits
          THEN /\ fs' = [q \in Paths |-> IF q \in {p, d} THEN Dir ELSE fs[q]]
               /\ cache' = [cache EXCEPT ![h] = p]
               /\ stamped' = IF caller \in {"to", "cli"} THEN old \union {p} ELSE old
               /\ GoTo(e, IF caller = "all" THEN "stamp" ELSE "done")
               /\ UNCHANGED ret
          ELSE Returns(e, "EFILE") /\ UNCHANGED << fs, cache, stamped >>
     /\ UNCHANGED << call, saves, notes, todo, by >>

\* apply_directory_metadata, when every entry is in place.
StampAll ==
  LET Made == { e \in Entries : pc[e] = "stamp" }
  IN /\ Made # {} /\ ~Failed
     /\ \A e \in Entries : pc[e] \in {"stamp", "done"}
     /\ stamped' = stamped \union { Name(e) : e \in Made }
     /\ pc' = [e \in Entries |-> "done"]
     /\ UNCHANGED << call, fs, saves, notes, todo, ret, by, cache >>

-----------------------------------------------------------------------------
(* The policy for each entry *)

\* target_empty_or_missing: nothing can be in the way.
Effective(p) ==
  IF caller \in {"all", "cli"} /\ \A q \in Paths : had[q] = Missing THEN "overwrite" ELSE p

\* entry_conflict_path, before anything is changed.
ConflictPath(e) ==
  LET p == Name(e)
      d == Parent[p]
  IN CASE d # Root /\ IsFile(had[d])                   -> d
       [] had[p] # Missing /\ ~(IsDir(e) /\ had[p] = Dir) -> p
       [] OTHER                                         -> Nowhere
InTheWay(e) == ConflictPath(e) # Nowhere

\* prepare_ask_plan asks for every conflict; what has none is written.  An
\* answer for all from the first conflict on is a policy like one that was
\* given, a later one an answer for each of the rest.  The answer "fail" ends
\* the program before anything is changed.
Answers ==
  { f \in [Entries -> {"save", "skip", "overwrite"}] :
      /\ \E e \in Entries : InTheWay(e)
      /\ \A e \in Entries : InTheWay(e) \/ f[e] = "overwrite" }

\* main calls zipy_extract_all when nothing is to be kept.
Direct == caller = "cli" /\ ~asked /\ \A e \in Entries : policies[e] = "overwrite"

Init ==
  /\ archive \in Contents /\ caller \in Callers
  /\ jobs \in IF caller \in {"all", "cli"} THEN 1 .. Jobs ELSE {1}
  /\ had \in Trees
  /\ asked \in IF caller = "cli" THEN BOOLEAN ELSE {FALSE}
  /\ policies \in IF asked THEN Answers ELSE { [e \in Entries |-> Effective(p)] : p \in Policies }
  /\ ~Direct
  /\ fs = had
  /\ saves = [i \in 0 .. Len(archive) |-> [p \in Paths |-> Missing]]
  /\ notes = {}
  /\ pc = [e \in Entries |-> "waiting"]
  /\ todo = [e \in Entries |-> Name(e)]
  /\ ret = [e \in Entries |-> "OK"]
  /\ by = [e \in Entries |-> 0]
  /\ cache = [h \in 0 .. Jobs |-> Nowhere]
  /\ stamped = {}

Next ==
  \/ Go \/ StampAll
  \/ \E e \in Entries :
    \/ Begin(e) \/ PassOver(e)
    \/ LookAtParent(e) \/ Look(e) \/ Move(e) \/ CannotSave(e) \/ MoveFails(e)
    \/ Recheck(e) \/ Note(e)
    \/ \E h \in Handles : WriteFile(e, h) \/ WriteDir(e, h)

Spec == Init /\ [][Next]_vars

-----------------------------------------------------------------------------
(* Properties *)

\* What can be at a path: nothing, a directory, a file from before, a new file.
Nodes == {Missing, Dir} \union { User(p) : p \in Paths } \union { New(e) : e \in Entries }

WellFormed(t) == \A p \in Paths : t[p] # Missing /\ Parent[p] # Root => t[Parent[p]] = Dir

\* Every tree is one: what exists lies in a directory, in the target and in
\* the folders of saved files, whatever the workers move and make meanwhile;
\* only a directory has the time of one (prepare_conflict, extract_entry).
TypeOK ==
  /\ archive \in Contents /\ caller \in Callers /\ had \in Trees
  /\ jobs \in 1 .. Jobs /\ asked \in BOOLEAN
  /\ policies \in [Entries -> {"save", "skip", "fail", "overwrite"}]
  /\ fs \in [Paths -> Nodes] /\ WellFormed(fs)
  /\ saves \in [0 .. Len(archive) -> [Paths -> Nodes]]
  /\ \A i \in DOMAIN saves : WellFormed(saves[i])
  /\ notes \subseteq (DOMAIN saves) \X Paths
  /\ pc \in [Entries -> {"waiting", "parent", "look", "move", "recheck", "note",
                         "ready", "write", "stamp", "done"}]
  /\ todo \in [Entries -> Paths]
  /\ ret \in [Entries -> {"OK", "SAVED", "SKIPPED"} \union Errors]
  /\ by \in [Entries -> 0 .. Jobs]
  /\ cache \in [0 .. Jobs -> Paths \union {Root, Nowhere}]
  /\ stamped \subseteq Paths /\ \A p \in stamped : fs[p] = Dir

\* README.md:4-5 "keeps existing files safe on conflicts": every file that was
\* there before is in its place or in a folder of saved files, or the caller or
\* the user said that this entry may overwrite it (prepare_conflict).
SafeOnConflicts ==
  \A p \in Paths : had[p] = User(p) =>
    \/ fs[p] = User(p)
    \/ \E i \in DOMAIN saves, q \in Paths : saves[i][q] = User(p)
    \/ \E e \in Entries : Name(e) = p /\ policies[e] = "overwrite"

\* The entries of the archive make up a tree: no name comes twice, and no file
\* is the directory of another entry.
Consistent ==
  \A e, f \in Entries : e # f => Name(e) # Name(f) /\ (Name(e) = Parent[Name(f)] => IsDir(e))

\* That is so if the entries make up a tree, however the workers of the command
\* line interleave; and even if not, for zipy_extract_all and zipy_extract_to.
OriginalsKept == caller \in {"all", "to"} \/ Consistent => SafeOnConflicts

\* What no entry is in conflict with, or only entries the user wants to skip,
\* is left as it was, whatever answers the other entries got and whoever moves
\* what meanwhile (main.c prepare_ask_plan, extract_one, apply_directory_entries).
OthersLeftAlone ==
  \A p \in Paths :
    /\ had[p] # Missing
    /\ \A e \in Entries : ConflictPath(e) \in {p, Parent[p]} => policies[e] = "skip"
    => fs[p] = had[p]

\* A parent that a handle does not make again because it remembers it
\* (prepare_parent_dir_len) is still there: only an error, or a file and a
\* directory of one name for the workers, can have taken it away.
RememberedParentIsThere ==
  \A e \in Entries, h \in Handles :
    /\ pc[e] = "write" /\ ~IsDir(e) /\ (caller = "cli" => h = by[e])
    /\ caller # "cli" \/ Consistent
    /\ cache[h] = Parent[Name(e)]
    => IsDirNow(fs, cache[h]) \/ \E f \in Entries : ret[f] = "EFILE"

\* The entry of a directory comes after that of the directory it is in.
ParentsFirst ==
  \A e, f \in Entries : IsDir(e) /\ IsDir(f) /\ Name(e) = Parent[Name(f)] => e < f

\* In the end the directories have the times of their entries, though files,
\* directories and conflicts came into them later (apply_directory_metadata,
\* apply_directory_entries).
DirectoryTimes ==
  /\ \A e \in Entries : pc[e] = "done" /\ ret[e] \notin Errors
  /\ caller = "all" \/ (caller = "cli" /\ ParentsFirst)
  => \A e \in Entries : IsDir(e) /\ ret[e] # "SKIPPED" => Name(e) \in stamped

\* zipy_extract_all with the policy "fail" finds every conflict, in the place of
\* an entry or above it, before it changes anything (prepare_extract_all runs
\* before any entry is extracted).
FailChangesNothing ==
  caller = "all" /\ (\A e \in Entries : policies[e] = "fail")
    /\ (\E e \in Entries : InTheWay(e))
  => fs = had

\* README.md:86-87: every file in a folder of saved files is listed, itself or
\* by its directory, or is about to be, or an entry reported the error.
SavedIsListed ==
  \A i \in DOMAIN saves, p \in Paths :
    IsFile(saves[i][p]) =>
      \E q \in {p, Parent[p]} :
        \/ << i, q >> \in notes
        \/ \E e \in Entries : Folder(e) = i /\ todo[e] = q /\ (pc[e] = "note" \/ ret[e] = "EFILE")
=============================================================================

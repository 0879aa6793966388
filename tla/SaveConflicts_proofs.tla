-------------------------- MODULE SaveConflicts_proofs --------------------------
(***************************************************************************)
(* What SaveConflicts promises, for any paths two levels deep, any archive *)
(* and any number of workers.                                              *)
(*                                                                         *)
(* The invariant comes in layers.  Each layer is inductive given the ones  *)
(* below it: how far the entries are (Staged), what lies where (Traced),   *)
(* and on these what every property needs of its own.                      *)
(***************************************************************************)
EXTENDS SaveConflicts, TLAPS

-----------------------------------------------------------------------------
(* How far the entries are *)

Moving  == {"move", "recheck", "note"}
Writing == {"write", "stamp"}

\* prepare_extract_all is over.
AllPrepared == \A e \in Entries : pc[e] \in Writing \union {"done"}

\* What a label says of its entry.
LabelIsRight(e) ==
  /\ pc[e] \in {"ready", "stamp"} => caller = "all"
  /\ pc[e] \in Moving => policies[e] = "save"
  /\ ret[e] \in Errors => pc[e] = "done"
  /\ todo[e] \in {Name(e), Parent[Name(e)]}
  /\ pc[e] \in Writing \union {"waiting", "ready"} => todo[e] = Name(e)
  /\ pc[e] = "parent" => todo[e] # Name(e)
  /\ pc[e] = "stamp" => IsDir(e) /\ fs[Name(e)] = Dir

LabelsAreRight == (asked => caller = "cli") /\ \A e \in Entries : LabelIsRight(e)

\* zipy_extract_all prepares all entries before it extracts one.
PreparedFirst ==
  caller = "all" /\ (\E e \in Entries : pc[e] \in Writing) =>
    AllPrepared /\ \A e \in Entries : ret[e] # "EEXIST"

\* Without workers one entry is worked on at a time.
OneAtATime ==
  caller \in {"to", "stream"} => \A e, f \in Active : e = f

\* Directories come last, and backwards (apply_directory_entries).
DirectoriesLast ==
  caller = "cli" =>
    \A e, f \in Entries : IsDir(e) /\ pc[e] # "waiting" /\ (~IsDir(f) \/ f > e) => pc[f] = "done"

Staged == TypeOK /\ LabelsAreRight /\ PreparedFirst /\ OneAtATime /\ DirectoriesLast

-----------------------------------------------------------------------------
(* What lies where *)

\* The files in the target are where they have always been, or where the
\* archive has them.
FilesInPlace ==
  /\ \A q, r \in Paths : fs[q] = User(r) => r = q /\ had[q] = User(q)
  /\ \A q \in Paths, f \in Entries : fs[q] = New(f) => Name(f) = q /\ ~IsDir(f) /\ pc[f] = "done"

SavesInPlace ==
  \A i \in DOMAIN saves : \A q, r \in Paths : saves[i][q] = User(r) => r = q

\* An entry that is about to be written has nothing of the user's in its way.
WayIsFree ==
  \A e \in Entries :
    policies[e] # "overwrite" /\
    (pc[e] \in {"ready", "write"} \/ (pc[e] = "note" /\ todo[e] = Name(e)))
    => fs[Name(e)] # User(Name(e))

Traced == FilesInPlace /\ SavesInPlace /\ WayIsFree

-----------------------------------------------------------------------------
(* What each property needs besides *)

\* zipy_extract_all with the policy "fail" never comes to extract.
NotFoundYet(e) == pc[e] \in {"waiting", "parent"} \/ (pc[e] = "look" /\ todo[e] = ConflictPath(e))
ClashIsFound ==
  caller = "all" /\ (\A e \in Entries : policies[e] = "fail") =>
    \A e \in Entries : InTheWay(e) =>
      /\ fs = had
      /\ NotFoundYet(e) \/ (pc[e] = "done" /\ ret[e] = "EEXIST")

\* Nothing is moved over a file that was saved: zipy_extract_all has written
\* nothing when it moves, zipy_extract_to has a folder for each entry.
NothingNewYet ==
  caller = "all" /\ ~AllPrepared =>
    /\ \A q \in Paths, f \in Entries : fs[q] # New(f)
    /\ \A h \in 0 .. Jobs : cache[h] = Nowhere

\* prepare_parent_conflicts has found a file, prepare_conflict is to look again.
LooksAgain(e) == pc[e] = "look" /\ todo[e] # Name(e)

\* What was a file at the look is still one, if nobody else is at work.
FileIsMoved ==
  \A e \in Entries :
    /\ pc[e] = "move" \/ LooksAgain(e)
    /\ IF caller = "cli" THEN IsDir(e) ELSE caller # "all" /\ (IsDir(e) \/ todo[e] # Name(e))
    => IsFile(fs[todo[e]])

FolderIsFree ==
  caller = "to" =>
    \A e \in Entries :
      /\ pc[e] = "waiting" \/ (pc[e] \in {"parent", "look", "move"} /\ todo[e] # Name(e)) =>
           \A q \in Paths : ~IsFile(saves[e][q])
      /\ pc[e] \in {"parent", "look", "move", "recheck"} \/ (pc[e] = "note" /\ todo[e] # Name(e)) =>
           ~IsFile(saves[e][Name(e)])

Ordered == NothingNewYet /\ FileIsMoved /\ FolderIsFree

\* No entry is about to move what is to be left alone.
LeftAlone(p) ==
  /\ had[p] # Missing
  /\ \A e \in Entries : ConflictPath(e) \in {p, Parent[p]} => policies[e] = "skip"
MovesAreWanted ==
  \A e \in Entries :
    pc[e] = "move" \/ (LooksAgain(e) /\ policies[e] = "save") =>
      \A p \in Below(todo[e]) : ~LeftAlone(p)

\* What a handle remembers is there, but for what its entry has just moved.
AnError == \E f \in Entries : ret[f] = "EFILE"
RememberedInTurn ==
  caller \in {"to", "stream"} =>
    \A d \in Paths : Parent[d] = Root /\ cache[0] = d =>
      \/ fs[d] = Dir \/ AnError
      \/ \E e \in Entries : pc[e] \in {"note", "write"} /\ todo[e] = d /\ Name(e) = d

RememberedByAll ==
  caller = "all" => \A d \in Paths, h \in 0 .. Jobs : cache[h] = d => fs[d] = Dir

IsParent(d) == \E e \in Entries : Parent[Name(e)] = d

\* A worker that looked at a file in the place of a parent and finds a
\* directory there does not move it: the file is in the folder already.
ParentIsSaved ==
  caller = "cli" /\ Consistent =>
    /\ \A d \in Paths : IsParent(d) /\ had[d] = User(d) => User(d) \in {fs[d], saves[0][d]}
    /\ \A e \in Entries : pc[e] \in {"look", "move"} /\ todo[e] # Name(e) => had[todo[e]] = User(todo[e])

RememberedByWorkers ==
  caller = "cli" /\ Consistent =>
    \A d \in Paths, h \in 0 .. Jobs, e \in Entries :
      cache[h] = d /\ Parent[Name(e)] = d /\ ~IsDir(e) /\ pc[e] # "done" => fs[d] = Dir \/ AnError

Remembered == RememberedInTurn /\ RememberedByAll /\ ParentIsSaved /\ RememberedByWorkers

\* Directories that are done have their time.
TimesOfAll ==
  caller = "all" =>
    \A e \in Entries :
      IsDir(e) /\ pc[e] = "done" /\ ret[e] \notin Errors \union {"SKIPPED"} =>
        Name(e) \in stamped /\ \A f \in Entries : pc[f] = "done"

TimesOfWorkers ==
  caller = "cli" /\ ParentsFirst =>
    \A e \in Entries :
      IsDir(e) /\ pc[e] = "done" /\ ret[e] \notin Errors \union {"SKIPPED"} => Name(e) \in stamped

-----------------------------------------------------------------------------
(* Paths, nodes and trees *)

\* What is at a path is one thing only.
LEMMA NodesDiffer ==
  /\ Missing # Dir
  /\ \A p : User(p) \notin {Missing, Dir} /\ New(p) \notin {Missing, Dir}
  /\ \A p, q : (User(p) = User(q) => p = q) /\ (New(p) = New(q) => p = q) /\ User(p) # New(q)
  BY DEF Missing, Dir, User, New

\* Paths are two levels deep.
LEMMA ParentsAre ==
  /\ Root \notin Paths /\ Nowhere \notin Paths /\ Nowhere # Root
  /\ \A p \in Paths :
       /\ Parent[p] \in Paths \union {Root}
       /\ Parent[p] # Root => Parent[p] \in Paths /\ Parent[Parent[p]] = Root
       /\ Parent[p] # p
<1>1. \A p \in Paths : Parent[p] \in Paths \union {Root}
  BY ConflictAssumption DEF ConflictAssumption
<1>2. QED
  BY <1>1, ConflictAssumption DEF ConflictAssumption

\* What ConflictAssumption says of the entries of the archive.
LEMMA EntriesAre ==
  ASSUME archive \in Contents
  PROVE  /\ Len(archive) \in Nat /\ Entries = 1 .. Len(archive)
         /\ \A e \in Entries : Name(e) \in Paths /\ IsDir(e) \in BOOLEAN
         /\ \A e \in Entries : Folder(e) \in 0 .. Len(archive)
<1> DEFINE R == [name : Paths, dir : BOOLEAN]
<1>1. archive \in Seq(R)
  BY ConflictAssumption DEF ConflictAssumption
<1> HIDE DEF R
<1>2. Len(archive) \in Nat /\ \A e \in 1 .. Len(archive) : archive[e] \in R
  BY <1>1
<1>3. \A r \in R : r.name \in Paths /\ r.dir \in BOOLEAN
  BY DEF R
<1>4. QED
  BY <1>2, <1>3 DEF Entries, Name, IsDir, Folder

LEMMA HandlesAre == ASSUME jobs \in 1 .. Jobs PROVE Handles \subseteq 0 .. Jobs /\ 0 \in 0 .. Jobs
  BY ConflictAssumption DEF ConflictAssumption, Handles

\* A tree stays one when the directory for a path is made.
LEMMA WithDirectory ==
  ASSUME NEW t \in [Paths -> Nodes], WellFormed(t), NEW p \in Paths,
         Parent[p] # Root => ~IsFile(t[Parent[p]]),
         NEW u, u = [q \in Paths |-> IF q = Parent[p] THEN Dir ELSE t[q]]
  PROVE  /\ u \in [Paths -> Nodes] /\ WellFormed(u)
         /\ Parent[p] # Root => u[Parent[p]] = Dir
  BY ParentsAre, NodesDiffer DEF WellFormed, Nodes, IsFile

\* Two trees stay trees when what is at a path moves from one to the other.
LEMMA MovedTree ==
  ASSUME NEW t \in [Paths -> Nodes], WellFormed(t), NEW s \in [Paths -> Nodes], WellFormed(s),
         NEW p \in Paths, Parent[p] # Root => s[Parent[p]] = Dir,
         IF t[p] = Dir THEN \A q \in Below(p) \ {p} : s[q] = Missing ELSE s[p] # Dir,
         NEW t1, t1 = [q \in Paths |-> IF q \in Below(p) THEN Missing ELSE t[q]],
         NEW s1, s1 = [q \in Paths |-> IF q \in Below(p) THEN t[q] ELSE s[q]]
  PROVE  /\ t1 \in [Paths -> Nodes] /\ WellFormed(t1)
         /\ s1 \in [Paths -> Nodes] /\ WellFormed(s1)
<1>1. t1 \in [Paths -> Nodes] /\ s1 \in [Paths -> Nodes]
  BY DEF Nodes
<1>2. WellFormed(t1)
  BY ParentsAre, NodesDiffer DEF WellFormed, Below
<1>3. WellFormed(s1)
  BY ParentsAre, NodesDiffer DEF WellFormed, Below
<1>4. QED
  BY <1>1, <1>2, <1>3

-----------------------------------------------------------------------------
(* Types *)

Labels  == {"waiting", "parent", "look", "move", "recheck", "note", "ready", "write", "stamp", "done"}
Results == {"OK", "SAVED", "SKIPPED"} \union Errors

\* The labels, the paths and the results of the entries.
LabelsTyped ==
  /\ pc \in [Entries -> Labels] /\ todo \in [Entries -> Paths]
  /\ ret \in [Entries -> Results]

LEMMA TypesAre ==
  ASSUME TypeOK
  PROVE  /\ LabelsTyped
         /\ archive \in Contents /\ Len(archive) \in Nat /\ Entries = 1 .. Len(archive)
         /\ \A e \in Entries : Name(e) \in Paths /\ IsDir(e) \in BOOLEAN
         /\ \A e \in Entries : Folder(e) \in DOMAIN saves
         /\ DOMAIN saves = 0 .. Len(archive)
         /\ Handles \subseteq 0 .. Jobs /\ 0 \in 0 .. Jobs
  BY EntriesAre, HandlesAre DEF TypeOK, LabelsTyped, Labels, Results

\* An action that changes neither trees nor times has to keep the other types.
LEMMA SameTrees ==
  ASSUME TypeOK, UNCHANGED << call, fs, saves, stamped >>, LabelsTyped',
         notes' \subseteq (DOMAIN saves) \X Paths, by' \in [Entries -> 0 .. Jobs],
         cache' \in [0 .. Jobs -> Paths \union {Root, Nowhere}]
  PROVE  TypeOK'
<1>1. Entries' = Entries /\ Nodes' = Nodes
  BY DEF call, Entries, Nodes
<1>2. WellFormed(fs)' /\ (\A i \in DOMAIN saves : WellFormed(saves[i]))'
  BY DEF TypeOK, WellFormed
<1>3. QED
  BY <1>1, <1>2 DEF TypeOK, LabelsTyped, Labels, Results, call

LEMMA NextPathTyped ==
  ASSUME TypeOK, NEW e \in Entries, NextPath(e)
  PROVE  pc' \in [Entries -> Labels] /\ todo' \in [Entries -> Paths]
  BY TypesAre DEF NextPath, Prepared, GoTo, LabelsTyped, Labels

LEMMA EasyStepsTyped ==
  ASSUME TypeOK, NEW e \in Entries,
         \/ Begin(e) \/ PassOver(e) \/ LookAtParent(e) \/ Look(e) \/ CannotSave(e) \/ Recheck(e) \/ Note(e)
  PROVE  TypeOK'
<1> USE TypesAre
<1>0. /\ Entries' = Entries /\ notes \subseteq (DOMAIN saves) \X Paths
      /\ by \in [Entries -> 0 .. Jobs] /\ cache \in [0 .. Jobs -> Paths \union {Root, Nowhere}]
  BY DEF TypeOK, Begin, PassOver, LookAtParent, Look, CannotSave, Recheck, Note, call, Entries
<1>1. CASE Begin(e)
  <2>1. pc' \in [Entries -> Labels] /\ UNCHANGED << call, fs, saves, notes, ret, cache, stamped >>
    BY <1>1 DEF Begin, GoTo, LabelsTyped, Labels
  <2>2. todo' \in [Entries -> Paths]
    BY <1>1, ParentsAre DEF Begin, LabelsTyped
  <2>3. by' \in [Entries -> 0 .. Jobs]
    BY <1>0, <1>1 DEF Begin
  <2>4. QED
    BY <1>0, <2>1, <2>2, <2>3, SameTrees DEF LabelsTyped
<1>2. CASE PassOver(e)
  BY <1>0, <1>2, SameTrees DEF PassOver, Returns, GoTo, tools, LabelsTyped, Labels, Results
<1>3. CASE Look(e)
  <2>1. LabelsTyped' /\ UNCHANGED << call, fs, saves, notes, tools >>
    BY <1>0, <1>3, NextPathTyped DEF Look, Returns, GoTo, LabelsTyped, Labels, Results, Errors
  <2>2. QED
    BY <1>0, <2>1, SameTrees DEF tools
<1>4. CASE CannotSave(e)
  BY <1>0, <1>4, SameTrees DEF CannotSave, Returns, GoTo, tools, LabelsTyped, Labels, Results,
     Errors
<1>5. CASE Recheck(e)
  <2>1. LabelsTyped' /\ UNCHANGED << call, fs, saves, notes, tools >>
    BY <1>0, <1>5, NextPathTyped DEF Recheck, Returns, GoTo, LabelsTyped, Labels, Results, Errors
  <2>2. QED
    BY <1>0, <2>1, SameTrees DEF tools
<1>6. CASE Note(e)
  <2>1. LabelsTyped' /\ UNCHANGED << call, fs, saves, tools >>
    BY <1>0, <1>6, NextPathTyped DEF Note, Returns, GoTo, LabelsTyped, Labels, Results, Errors
  <2>2. notes' \subseteq (DOMAIN saves) \X Paths
    BY <1>0, <1>6 DEF Note, LabelsTyped
  <2>3. QED
    BY <1>0, <2>1, <2>2, SameTrees DEF tools
<1>7. CASE LookAtParent(e)
  <2>1. LabelsTyped' /\ UNCHANGED << call, fs, saves, notes, tools >>
    BY <1>0, <1>7, NextPathTyped DEF LookAtParent, GoTo, LabelsTyped, Labels, Results, Errors
  <2>2. QED
    BY <1>0, <2>1, SameTrees DEF tools
<1>8. QED
  BY <1>1, <1>2, <1>3, <1>4, <1>5, <1>6, <1>7

LEMMA GoTyped == ASSUME TypeOK, Go PROVE TypeOK'
<1>1. LabelsTyped' /\ UNCHANGED << call, fs, saves, notes, tools >>
  BY TypesAre DEF Go, LabelsTyped, Labels, call, Entries
<1>2. QED
  BY <1>1, SameTrees DEF tools, TypeOK, Entries, call

LEMMA StampAllTyped == ASSUME TypeOK, LabelsAreRight, StampAll PROVE TypeOK'
<1>1. LabelsTyped' /\ UNCHANGED << call, fs, saves, notes, todo, ret, by, cache >>
  BY TypesAre DEF StampAll, LabelsTyped, Labels, call, Entries
<1>2. stamped' \subseteq Paths /\ \A p \in stamped' : fs[p] = Dir
  BY TypesAre DEF StampAll, LabelsAreRight, LabelIsRight, TypeOK
<1>3. Entries' = Entries /\ Nodes' = Nodes
  BY <1>1 DEF call, Entries, Nodes
<1>4. WellFormed(fs)' /\ (\A i \in DOMAIN saves : WellFormed(saves[i]))'
  BY <1>1 DEF TypeOK, WellFormed
<1>5. QED
  BY <1>1, <1>2, <1>3, <1>4 DEF TypeOK, LabelsTyped, Labels, Results, call

\* mkdir_parent makes a tree of the folder.
LEMMA ParentMadeTyped ==
  ASSUME TypeOK, NEW e \in Entries, CanMakeParent(Folder(e), todo[e])
  PROVE  LET i == Folder(e)
             p == todo[e]
             u == ParentMade(i, p)
         IN /\ i \in DOMAIN saves /\ p \in Paths
            /\ u \in [Paths -> Nodes] /\ WellFormed(u)
            /\ Parent[p] # Root => u[Parent[p]] = Dir
<1> DEFINE i == Folder(e)
           p == todo[e]
           u == ParentMade(i, p)
<1>1. i \in DOMAIN saves /\ p \in Paths
  BY TypesAre DEF LabelsTyped
<1>2. saves[i] \in [Paths -> Nodes] /\ WellFormed(saves[i])
  BY <1>1 DEF TypeOK
<1>3. u = [q \in Paths |-> IF q = Parent[p] THEN Dir ELSE saves[i][q]]
  BY DEF ParentMade
<1>4. Parent[p] # Root => ~IsFile(saves[i][Parent[p]])
  BY DEF CanMakeParent
<1> HIDE DEF i, p, u
<1>5. u \in [Paths -> Nodes] /\ WellFormed(u) /\ (Parent[p] # Root => u[Parent[p]] = Dir)
  BY <1>1, <1>2, <1>3, <1>4, WithDirectory
<1>6. QED
  BY <1>1, <1>5 DEF i, p, u

LEMMA MoveFailsTyped == ASSUME TypeOK, NEW e \in Entries, MoveFails(e) PROVE TypeOK'
<1> DEFINE i == Folder(e)
           u == ParentMade(i, todo[e])
<1>1. i \in DOMAIN saves /\ u \in [Paths -> Nodes] /\ WellFormed(u)
  BY ParentMadeTyped DEF MoveFails
<1>2. saves' = [saves EXCEPT ![i] = u] /\ UNCHANGED << call, fs, notes, todo, ret, tools >>
  BY DEF MoveFails
<1> HIDE DEF i, u
<1>3. Entries' = Entries /\ Nodes' = Nodes
  BY <1>2 DEF call, Entries, Nodes
<1>4. LabelsTyped'
  BY <1>3, TypesAre DEF MoveFails, GoTo, LabelsTyped, Labels
<1>5. saves' \in [0 .. Len(archive) -> [Paths -> Nodes]]
  BY <1>1, <1>2 DEF TypeOK
<1>6. (\A j \in DOMAIN saves : WellFormed(saves[j]))'
  BY <1>1, <1>2 DEF TypeOK, WellFormed
<1>7. WellFormed(fs)'
  BY <1>2 DEF TypeOK, WellFormed
<1>8. QED
  BY <1>2, <1>3, <1>4, <1>5, <1>6, <1>7 DEF TypeOK, LabelsTyped, Labels, Results, call, tools

\* What Move leaves where.
LEMMA MoveTrees ==
  ASSUME TypeOK, NEW e \in Entries, Move(e)
  PROVE  LET i == Folder(e)
         IN /\ fs' \in [Paths -> Nodes] /\ WellFormed(fs)'
            /\ saves' = [saves EXCEPT ![i] = saves'[i]]
            /\ saves'[i] \in [Paths -> Nodes] /\ WellFormed(saves'[i])
<1> DEFINE i == Folder(e)
           p == todo[e]
           u == ParentMade(i, p)
           w == [q \in Paths |-> IF q \in Below(p) THEN fs[q] ELSE u[q]]
<1>1. /\ i \in DOMAIN saves /\ p \in Paths /\ u \in [Paths -> Nodes] /\ WellFormed(u)
      /\ Parent[p] # Root => u[Parent[p]] = Dir
  BY ParentMadeTyped DEF Move
<1>2. fs' = [q \in Paths |-> IF q \in Below(p) THEN Missing ELSE fs[q]]
  BY DEF Move
<1>3. saves' = [saves EXCEPT ![i] = w]
  BY DEF Move
<1>4. IF fs[p] = Dir THEN \A q \in Below(p) \ {p} : saves[i][q] = Missing ELSE saves[i][p] # Dir
  BY DEF Move, CanRename
<1>5. \A q \in Below(p) : u[q] = saves[i][q]
  BY <1>1, ParentsAre DEF ParentMade, Below
<1>6. p \in Below(p)
  BY <1>1 DEF Below
<1>7. fs \in [Paths -> Nodes] /\ WellFormed(fs) /\ w = [q \in Paths |-> IF q \in Below(p) THEN fs[q] ELSE u[q]]
  BY DEF TypeOK
<1> HIDE DEF i, p, u, w
<1>8. IF fs[p] = Dir THEN \A q \in Below(p) \ {p} : u[q] = Missing ELSE u[p] # Dir
  BY <1>4, <1>5, <1>6
<1>9. fs' \in [Paths -> Nodes] /\ WellFormed(fs') /\ w \in [Paths -> Nodes] /\ WellFormed(w)
  BY <1>1, <1>2, <1>7, <1>8, MovedTree
<1>10. WellFormed(fs)'
  BY <1>9 DEF WellFormed
<1>11. saves'[i] = w
  BY <1>1, <1>3
<1>12. QED
  BY <1>3, <1>9, <1>10, <1>11 DEF i

LEMMA MoveTyped == ASSUME TypeOK, NEW e \in Entries, Move(e) PROVE TypeOK'
<1> DEFINE i == Folder(e)
<1>1. /\ fs' \in [Paths -> Nodes] /\ WellFormed(fs)' /\ saves' = [saves EXCEPT ![i] = saves'[i]]
      /\ saves'[i] \in [Paths -> Nodes] /\ WellFormed(saves'[i])
  BY MoveTrees
<1>2. UNCHANGED << call, notes, todo, ret, by, cache >> /\ GoTo(e, "note")
  BY DEF Move
<1>3. i \in DOMAIN saves /\ DOMAIN saves = 0 .. Len(archive)
  BY TypesAre
<1>4. stamped' \subseteq Paths /\ \A p \in stamped' : fs'[p] = Dir
  <2>0. stamped' \subseteq Paths
    BY DEF Move, TypeOK
  <2> SUFFICES ASSUME NEW p \in stamped' PROVE fs'[p] = Dir
    BY <2>0
  <2>1. p \in stamped /\ p \notin Below(todo[e])
    BY DEF Move
  <2>2. fs[p] = Dir /\ p \in Paths
    BY <2>1 DEF TypeOK
  <2>3. QED
    BY <2>1, <2>2 DEF Move
<1> HIDE DEF i
<1>5. Entries' = Entries /\ Nodes' = Nodes
  BY <1>2 DEF call, Entries, Nodes
<1>6. LabelsTyped'
  BY <1>2, <1>5, TypesAre DEF GoTo, LabelsTyped, Labels
<1>7. saves' \in [0 .. Len(archive) -> [Paths -> Nodes]]
  <2> DEFINE T == [Paths -> Nodes]
             w == saves'[i]
  <2>1. saves \in [0 .. Len(archive) -> T] /\ w \in T /\ saves' = [saves EXCEPT ![i] = w]
    BY <1>1 DEF TypeOK
  <2> HIDE DEF T, w
  <2>2. saves' \in [0 .. Len(archive) -> T]
    BY <2>1
  <2>3. QED
    BY <2>2 DEF T
<1>8. (\A j \in DOMAIN saves : WellFormed(saves[j]))'
  <2>1. \A j \in DOMAIN saves : WellFormed(saves[j])
    BY DEF TypeOK
  <2>2. DOMAIN saves' = DOMAIN saves /\ \A j \in DOMAIN saves : saves'[j] = saves[j] \/ j = i
    BY <1>1, <1>3 DEF TypeOK
  <2>3. QED
    BY <1>1, <2>1, <2>2 DEF WellFormed
<1>9. QED
  BY <1>1, <1>2, <1>4, <1>5, <1>6, <1>7, <1>8 DEF TypeOK, LabelsTyped, Labels, Results, call

\* prepare_parent_dir_len makes a tree.
LEMMA WithParentTyped ==
  ASSUME TypeOK, NEW p \in Paths, NEW h
  PROVE  LET made == WithParent(h, Parent[p])
         IN /\ made \in [Paths -> Nodes] /\ WellFormed(made)
            /\ \A q \in Paths : made[q] = fs[q] \/ (q = Parent[p] /\ fs[q] = Missing /\ made[q] = Dir)
  BY ParentsAre, NodesDiffer DEF TypeOK, WellFormed, WithParent, Nodes

\* What WriteFile does to the tree.
LEMMA WriteFileTree ==
  ASSUME TypeOK, NEW e \in Entries, NEW h, WriteFile(e, h)
  PROVE  LET p == Name(e)
             d == Parent[p]
         IN /\ fs' \in [Paths -> Nodes] /\ WellFormed(fs)'
            /\ \A q \in Paths \ {p} :
                 fs'[q] = fs[q] \/ (q = d /\ fs[q] = Missing /\ fs'[q] = Dir)
            /\ \/ fs'[p] = New(e) /\ fs[p] # Dir /\ IsDirNow(fs', d) /\ pc'[e] = "done" /\ ret' = ret
               \/ fs'[p] = fs[p] /\ Returns(e, "EFILE")
<1> DEFINE p == Name(e)
           d == Parent[p]
           made == WithParent(h, d)
           opens == ParentPrepared(h, d) /\ IsDirNow(made, d) /\ made[p] # Dir
<1>1. p \in Paths /\ pc \in [Entries -> Labels]
  BY TypesAre DEF LabelsTyped
<1>2. /\ made \in [Paths -> Nodes] /\ WellFormed(made)
      /\ \A q \in Paths : made[q] = fs[q] \/ (q = d /\ fs[q] = Missing /\ made[q] = Dir)
  BY <1>1, WithParentTyped
<1>3. /\ fs' = IF opens THEN [made EXCEPT ![p] = New(e)] ELSE made
      /\ IF opens THEN GoTo(e, "done") /\ UNCHANGED ret ELSE Returns(e, "EFILE")
  BY DEF WriteFile
<1>4. opens => IsDirNow(made, d) /\ made[p] # Dir
  OBVIOUS
<1>5. d # p /\ (d # Root => d \in Paths)
  BY <1>1, ParentsAre
<1>6. New(e) \in Nodes
  BY DEF Nodes
<1> HIDE DEF p, d, made, opens
<1>7. CASE ~opens
  <2>1. fs' = made
    BY <1>3, <1>7
  <2>2. WellFormed(fs)'
    BY <1>2, <2>1 DEF WellFormed
  <2>3. fs'[p] = fs[p]
    BY <1>1, <1>2, <1>5, <2>1
  <2>4. QED
    BY <1>2, <1>3, <1>7, <2>1, <2>2, <2>3 DEF p, d
<1>8. CASE opens
  <2>1. fs' = [made EXCEPT ![p] = New(e)] /\ fs' \in [Paths -> Nodes]
    BY <1>1, <1>2, <1>3, <1>6, <1>8
  <2>2. WellFormed(fs)'
    <3> SUFFICES ASSUME NEW q \in Paths, fs'[q] # Missing, Parent[q] # Root
                 PROVE  fs'[Parent[q]] = Dir
      BY DEF WellFormed
    <3>1. made[p] # Dir /\ Parent[q] \in Paths
      BY <1>4, <1>8, ParentsAre
    <3>2. CASE q = p
      BY <1>2, <1>4, <1>5, <1>8, <2>1, <3>1, <3>2 DEF IsDirNow, d
    <3>3. CASE q # p
      <4>1. made[Parent[q]] = Dir
        BY <1>2, <2>1, <3>3 DEF WellFormed
      <4>2. QED
        BY <1>2, <2>1, <3>1, <4>1
    <3>4. QED
      BY <3>2, <3>3
  <2>3. \A q \in Paths \ {p} : fs'[q] = fs[q] \/ (q = d /\ fs[q] = Missing /\ fs'[q] = Dir)
    BY <1>1, <1>2, <2>1
  <2>4. fs'[p] = New(e) /\ fs[p] # Dir /\ IsDirNow(fs', d)
    BY <1>1, <1>2, <1>4, <1>5, <1>8, <2>1, ParentsAre DEF IsDirNow
  <2>5. pc'[e] = "done" /\ ret' = ret
    BY <1>1, <1>3, <1>8 DEF GoTo
  <2>6. QED
    BY <2>1, <2>2, <2>3, <2>4, <2>5 DEF p, d
<1>9. QED
  BY <1>7, <1>8

\* What WriteDir does to the tree.
LEMMA WriteDirTree ==
  ASSUME TypeOK, NEW e \in Entries, NEW h, WriteDir(e, h)
  PROVE  LET p == Name(e)
             d == Parent[p]
         IN /\ fs' \in [Paths -> Nodes] /\ WellFormed(fs)'
            /\ \A q \in Paths : fs'[q] = fs[q] \/ (q \in {p, d} /\ fs[q] = Missing /\ fs'[q] = Dir)
            /\ \/ fs'[p] = Dir /\ pc'[e] \in {"stamp", "done"} /\ ret' = ret
               \/ fs' = fs /\ cache' = cache /\ stamped' = stamped /\ Returns(e, "EFILE")
<1> DEFINE p == Name(e)
           d == Parent[p]
           fits == ~(d # Root /\ IsFile(fs[d])) /\ ~IsFile(fs[p])
<1>1. p \in Paths /\ pc \in [Entries -> Labels] /\ fs \in [Paths -> Nodes] /\ WellFormed(fs)
  BY TypesAre DEF LabelsTyped, TypeOK
<1>2. \/ fits /\ fs' = [q \in Paths |-> IF q \in {p, d} THEN Dir ELSE fs[q]]
         /\ GoTo(e, IF caller = "all" THEN "stamp" ELSE "done") /\ UNCHANGED ret
      \/ Returns(e, "EFILE") /\ UNCHANGED << fs, cache, stamped >>
  BY DEF WriteDir
<1>3. d # p /\ (d # Root => d \in Paths /\ Parent[d] = Root) /\ Root \notin Paths
  BY <1>1, ParentsAre
<1>4. fits => \A q \in {p, d} : q \in Paths => fs[q] \in {Missing, Dir}
  BY <1>3 DEF IsFile
<1>5. Dir \in Nodes
  BY DEF Nodes
<1> HIDE DEF p, d, fits
<1>6. CASE fits /\ fs' = [q \in Paths |-> IF q \in {p, d} THEN Dir ELSE fs[q]]
           /\ GoTo(e, IF caller = "all" THEN "stamp" ELSE "done") /\ UNCHANGED ret
  <2>1. fs' \in [Paths -> Nodes]
    BY <1>1, <1>5, <1>6
  <2>2. WellFormed(fs)'
    <3> SUFFICES ASSUME NEW q \in Paths, fs'[q] # Missing, Parent[q] # Root
                 PROVE  fs'[Parent[q]] = Dir
      BY DEF WellFormed
    <3>1. Parent[q] \in Paths
      BY ParentsAre
    <3>2. CASE q \in {p, d}
      BY <1>1, <1>3, <1>6, <3>1, <3>2 DEF d
    <3>3. CASE q \notin {p, d}
      BY <1>1, <1>6, <3>1, <3>3 DEF WellFormed
    <3>4. QED
      BY <3>2, <3>3
  <2>3. \A q \in Paths : fs'[q] = fs[q] \/ (q \in {p, d} /\ fs[q] = Missing /\ fs'[q] = Dir)
    BY <1>4, <1>6
  <2>4. fs'[p] = Dir /\ pc'[e] \in {"stamp", "done"} /\ ret' = ret
    BY <1>1, <1>6 DEF GoTo
  <2>5. QED
    BY <2>1, <2>2, <2>3, <2>4 DEF p, d
<1>7. CASE Returns(e, "EFILE") /\ UNCHANGED << fs, cache, stamped >>
  BY <1>1, <1>7 DEF WellFormed, p, d
<1>8. QED
  BY <1>2, <1>6, <1>7

LEMMA WriteTyped ==
  ASSUME TypeOK, NEW e \in Entries, NEW h \in Handles, WriteFile(e, h) \/ WriteDir(e, h)
  PROVE  TypeOK'
<1>1. UNCHANGED << call, saves, notes, todo, by >>
  BY DEF WriteFile, WriteDir
<1>2. fs' \in [Paths -> Nodes] /\ WellFormed(fs)'
  BY WriteFileTree, WriteDirTree
<1>3. Entries' = Entries /\ Nodes' = Nodes
  BY <1>1 DEF call, Entries, Nodes
<1>4. LabelsTyped'
  BY <1>1, <1>3, TypesAre DEF WriteFile, WriteDir, Returns, GoTo, LabelsTyped, Labels, Results,
     Errors
<1>5. cache' \in [0 .. Jobs -> Paths \union {Root, Nowhere}]
  <2>1. cache \in [0 .. Jobs -> Paths \union {Root, Nowhere}] /\ h \in 0 .. Jobs
        /\ Name(e) \in Paths /\ Parent[Name(e)] \in Paths \union {Root}
    BY TypesAre, ParentsAre DEF TypeOK
  <2>2. QED
    BY <2>1 DEF WriteFile, WriteDir
<1>6. stamped' \subseteq Paths /\ \A q \in stamped' : fs'[q] = Dir
  <2>0. stamped \subseteq Paths /\ (\A q \in stamped : fs[q] = Dir) /\ Name(e) \in Paths
    BY TypesAre DEF TypeOK
  <2>1. CASE WriteFile(e, h)
    <3>1. stamped' \subseteq stamped
      BY <2>1 DEF WriteFile
    <3>2. \A q \in Paths : fs[q] = Dir => fs'[q] = Dir
      BY <2>1, <2>0, WriteFileTree
    <3>3. QED
      BY <2>0, <3>1, <3>2
  <2>2. CASE WriteDir(e, h)
    <3>1. stamped' \subseteq stamped \union {Name(e)} /\ (fs'[Name(e)] = Dir \/ stamped' = stamped)
      BY <2>2, WriteDirTree DEF WriteDir
    <3>2. \A q \in Paths : fs[q] = Dir => fs'[q] = Dir
      BY <2>2, <2>0, WriteDirTree
    <3>3. QED
      BY <2>0, <3>1, <3>2
  <2>3. QED
    BY <2>1, <2>2
<1>7. (\A j \in DOMAIN saves : WellFormed(saves[j]))'
  BY <1>1 DEF TypeOK, WellFormed
<1>8. QED
  BY <1>1, <1>2, <1>3, <1>4, <1>5, <1>6, <1>7 DEF TypeOK, LabelsTyped, Labels, Results, call

LEMMA InitTyped == ASSUME Init PROVE TypeOK
<1>1. archive \in Contents /\ had \in Trees /\ caller \in Callers /\ asked \in BOOLEAN
  BY DEF Init
<1>2. jobs \in 1 .. Jobs
  BY ConflictAssumption DEF Init, ConflictAssumption
<1>3. policies \in [Entries -> {"save", "skip", "fail", "overwrite"}]
  <2>1. CASE asked
    BY <2>1 DEF Init, Answers
  <2>2. CASE ~asked
    BY <2>2, ConflictAssumption DEF Init, Effective, ConflictAssumption
  <2>3. QED
    BY <2>1, <2>2
<1>4. fs \in [Paths -> Nodes] /\ WellFormed(fs)
  BY <1>1 DEF Init, Trees, Nodes, WellFormed
<1>5. saves \in [0 .. Len(archive) -> [Paths -> Nodes]] /\ \A i \in DOMAIN saves : WellFormed(saves[i])
  BY DEF Init, Nodes, WellFormed
<1>6. \A e \in Entries : Name(e) \in Paths
  BY <1>1, EntriesAre
<1>7. by \in [Entries -> 0 .. Jobs] /\ cache \in [0 .. Jobs -> Paths \union {Root, Nowhere}]
  BY ConflictAssumption DEF Init, ConflictAssumption
<1>8. /\ notes \subseteq (DOMAIN saves) \X Paths /\ stamped = {}
      /\ pc \in [Entries -> Labels] /\ todo \in [Entries -> Paths] /\ ret \in [Entries -> Results]
  BY <1>6 DEF Init, Labels, Results
<1>9. QED
  BY <1>1, <1>2, <1>3, <1>4, <1>5, <1>7, <1>8 DEF TypeOK, Labels, Results

-----------------------------------------------------------------------------
(* What each action does to the labels *)

\* Nothing else is done to the other entries.
Others(e) ==
  \A f \in Entries : f # e => pc'[f] = pc[f] /\ ret'[f] = ret[f] /\ todo'[f] = todo[f]

Becomes(e, label, r, path) == pc'[e] = label /\ ret'[e] = r /\ todo'[e] = path

\* The entry is prepared, or comes to its own path.
GoesOn(e, r) ==
  IF todo[e] = Name(e) THEN Becomes(e, IF caller = "all" THEN "ready" ELSE "write", r, Name(e))
  ELSE Becomes(e, "look", r, Name(e))

LEMMA NextPathDoes ==
  ASSUME TypeOK, NEW e \in Entries, NextPath(e)
  PROVE  /\ \A f \in Entries : f # e => pc'[f] = pc[f] /\ todo'[f] = todo[f]
         /\ GoesOn(e, ret'[e])
  BY TypesAre DEF NextPath, Prepared, GoTo, LabelsTyped, GoesOn, Becomes

LEMMA BeginDoes ==
  ASSUME TypeOK, NEW e \in Entries, Begin(e)
  PROVE  /\ Others(e) /\ pc[e] = "waiting"
         /\ UNCHANGED << call, fs, saves, notes, ret, cache, stamped >>
         /\ IF policies[e] = "overwrite"
              THEN Becomes(e, IF caller = "all" THEN "ready" ELSE "write", ret[e], todo[e])
              ELSE Becomes(e, IF Parent[Name(e)] = Root THEN "look" ELSE "parent", ret[e],
                           IF Parent[todo[e]] = Root THEN todo[e] ELSE Parent[todo[e]])
  BY TypesAre DEF Begin, GoTo, LabelsTyped, Others, Becomes

LEMMA PassOverDoes ==
  ASSUME TypeOK, NEW e \in Entries, PassOver(e)
  PROVE  /\ Others(e) /\ pc[e] = "waiting" /\ PassedOver(e) /\ NextOfWorkers(e)
         /\ UNCHANGED << call, fs, saves, notes, by, cache, stamped >>
         /\ Becomes(e, "done", "SKIPPED", todo[e])
  BY TypesAre DEF PassOver, Returns, GoTo, LabelsTyped, Others, Becomes, tools

LEMMA LookAtParentDoes ==
  ASSUME TypeOK, NEW e \in Entries, LookAtParent(e)
  PROVE  /\ Others(e) /\ pc[e] = "parent"
         /\ UNCHANGED << call, fs, saves, notes, by, cache, stamped >>
         /\ \/ ~IsFile(fs[todo[e]]) /\ GoesOn(e, ret[e])
            \/ IsFile(fs[todo[e]]) /\ Becomes(e, "look", ret[e], todo[e])
<1>1. pc[e] = "parent" /\ UNCHANGED << call, fs, saves, notes, ret, by, cache, stamped >>
  BY DEF LookAtParent, tools
<1>2. CASE ~IsFile(fs[todo[e]]) /\ NextPath(e)
  BY <1>1, <1>2, NextPathDoes DEF Others
<1>3. CASE IsFile(fs[todo[e]]) /\ GoTo(e, "look") /\ UNCHANGED todo
  BY <1>1, <1>3, TypesAre DEF GoTo, LabelsTyped, Others, Becomes
<1>4. QED
  BY <1>2, <1>3 DEF LookAtParent

LEMMA LookDoes ==
  ASSUME TypeOK, NEW e \in Entries, Look(e)
  PROVE  /\ Others(e) /\ pc[e] = "look"
         /\ UNCHANGED << call, fs, saves, notes, by, cache, stamped >>
         /\ \/ GoesOn(e, ret[e]) /\ Fits(e)
            \/ /\ ~Fits(e)
               /\ \/ policies[e] = "skip" /\ Becomes(e, "done", "SKIPPED", todo[e])
                  \/ policies[e] = "fail" /\ Becomes(e, "done", "EEXIST", todo[e])
                  \/ policies[e] = "save" /\ Becomes(e, "move", ret[e], todo[e])
<1>1. pc[e] = "look" /\ UNCHANGED << call, fs, saves, notes, by, cache, stamped >>
  BY DEF Look, tools
<1>2. CASE Fits(e) /\ NextPath(e) /\ UNCHANGED ret
  BY <1>1, <1>2, NextPathDoes DEF Others
<1>3. CASE /\ ~Fits(e)
           /\ \/ policies[e] = "skip" /\ Returns(e, "SKIPPED")
              \/ policies[e] = "fail" /\ Returns(e, "EEXIST")
              \/ policies[e] = "save" /\ GoTo(e, "move") /\ UNCHANGED ret
           /\ UNCHANGED todo
  BY <1>1, <1>3, TypesAre DEF Returns, GoTo, LabelsTyped, Others, Becomes
<1>4. QED
  BY <1>2, <1>3 DEF Look

LEMMA MoveDoes ==
  ASSUME TypeOK, NEW e \in Entries, Move(e)
  PROVE  /\ Others(e) /\ pc[e] = "move" /\ Becomes(e, "note", ret[e], todo[e])
         /\ UNCHANGED << call, notes, by, cache >>
         /\ \A q \in Paths : fs'[q] = IF q \in Below(todo[e]) THEN Missing ELSE fs[q]
         /\ \A i \in DOMAIN saves : i # Folder(e) => saves'[i] = saves[i]
         /\ \A q \in Paths : saves'[Folder(e)][q] =
              IF q \in Below(todo[e]) THEN fs[q]
              ELSE IF q = Parent[todo[e]] THEN Dir ELSE saves[Folder(e)][q]
         /\ CanMakeParent(Folder(e), todo[e]) /\ CanRename(Folder(e), todo[e])
         /\ stamped' = stamped \ (Below(todo[e]) \union {Parent[todo[e]]})
<1> DEFINE i == Folder(e)
<1>1. i \in DOMAIN saves /\ todo[e] \in Paths
  BY TypesAre DEF LabelsTyped
<1>2. /\ Others(e) /\ pc[e] = "move" /\ Becomes(e, "note", ret[e], todo[e])
      /\ UNCHANGED << call, notes, by, cache >>
  BY TypesAre DEF Move, GoTo, LabelsTyped, Others, Becomes
<1>3. \A q \in Paths : fs'[q] = IF q \in Below(todo[e]) THEN Missing ELSE fs[q]
  BY DEF Move
<1>4. saves' = [saves EXCEPT ![i] = [q \in Paths |-> IF q \in Below(todo[e]) THEN fs[q]
                                                    ELSE ParentMade(i, todo[e])[q]]]
  BY DEF Move
<1>5. \A q \in Paths : ParentMade(i, todo[e])[q] = IF q = Parent[todo[e]] THEN Dir ELSE saves[i][q]
  BY DEF ParentMade
<1>6. CanMakeParent(i, todo[e]) /\ CanRename(i, todo[e])
      /\ stamped' = stamped \ (Below(todo[e]) \union {Parent[todo[e]]})
  BY DEF Move
<1> HIDE DEF i
<1>7. /\ \A j \in DOMAIN saves : j # i => saves'[j] = saves[j]
      /\ \A q \in Paths : saves'[i][q] =
           IF q \in Below(todo[e]) THEN fs[q] ELSE ParentMade(i, todo[e])[q]
  BY <1>1, <1>4
<1>8. \A q \in Paths : saves'[i][q] =
        IF q \in Below(todo[e]) THEN fs[q]
        ELSE IF q = Parent[todo[e]] THEN Dir ELSE saves[i][q]
  BY <1>5, <1>7
<1>9. QED
  BY <1>2, <1>3, <1>6, <1>7, <1>8 DEF i

LEMMA CannotSaveDoes ==
  ASSUME TypeOK, NEW e \in Entries, CannotSave(e)
  PROVE  /\ Others(e) /\ pc[e] = "move" /\ Becomes(e, "done", "EFILE", todo[e])
         /\ UNCHANGED << call, fs, saves, notes, by, cache, stamped >>
  BY TypesAre DEF CannotSave, Returns, GoTo, LabelsTyped, Others, Becomes, tools

LEMMA MoveFailsDoes ==
  ASSUME TypeOK, NEW e \in Entries, MoveFails(e)
  PROVE  /\ Others(e) /\ pc[e] = "move" /\ Becomes(e, "recheck", ret[e], todo[e])
         /\ UNCHANGED << call, fs, notes, by, cache, stamped >>
         /\ \A i \in DOMAIN saves : \A q \in Paths :
              saves'[i][q] = IF i = Folder(e) /\ q = Parent[todo[e]] THEN Dir ELSE saves[i][q]
  BY TypesAre DEF MoveFails, GoTo, LabelsTyped, Others, Becomes, tools, ParentMade

LEMMA RecheckDoes ==
  ASSUME TypeOK, NEW e \in Entries, Recheck(e)
  PROVE  /\ Others(e) /\ pc[e] = "recheck"
         /\ UNCHANGED << call, fs, saves, notes, by, cache, stamped >>
         /\ \/ GoesOn(e, ret[e]) /\ Fits(e)
            \/ Becomes(e, "done", "EFILE", todo[e])
<1>1. pc[e] = "recheck" /\ UNCHANGED << call, fs, saves, notes, by, cache, stamped >>
  BY DEF Recheck, tools
<1>2. CASE Fits(e) /\ NextPath(e) /\ UNCHANGED ret
  BY <1>1, <1>2, NextPathDoes DEF Others
<1>3. CASE ~Fits(e) /\ Returns(e, "EFILE") /\ UNCHANGED todo
  BY <1>1, <1>3, TypesAre DEF Returns, GoTo, LabelsTyped, Others, Becomes
<1>4. QED
  BY <1>2, <1>3 DEF Recheck

LEMMA NoteDoes ==
  ASSUME TypeOK, NEW e \in Entries, Note(e)
  PROVE  /\ Others(e) /\ pc[e] = "note"
         /\ UNCHANGED << call, fs, saves, by, cache, stamped >>
         /\ \/ GoesOn(e, "SAVED") /\ notes' = notes \union {<< Folder(e), todo[e] >>}
            \/ Becomes(e, "done", "EFILE", todo[e]) /\ notes' = notes
<1>1. pc[e] = "note" /\ UNCHANGED << call, fs, saves, by, cache, stamped >>
  BY DEF Note, tools
<1>2. CASE /\ notes' = notes \union {<< Folder(e), todo[e] >>}
           /\ ret' = [ret EXCEPT ![e] = "SAVED"]
           /\ NextPath(e)
  <2>1. ret'[e] = "SAVED" /\ \A f \in Entries : f # e => ret'[f] = ret[f]
    BY <1>2, TypesAre DEF LabelsTyped
  <2>2. QED
    BY <1>1, <1>2, <2>1, NextPathDoes DEF Others
<1>3. CASE Returns(e, "EFILE") /\ UNCHANGED << notes, todo >>
  BY <1>1, <1>3, TypesAre DEF Returns, GoTo, LabelsTyped, Others, Becomes
<1>4. QED
  BY <1>2, <1>3 DEF Note

LEMMA WriteFileDoes ==
  ASSUME TypeOK, NEW e \in Entries, NEW h, WriteFile(e, h)
  PROVE  /\ Others(e) /\ pc[e] = "write" /\ ~IsDir(e)
         /\ UNCHANGED << call, saves, notes, by >>
         /\ \/ Becomes(e, "done", "EFILE", todo[e])
            \/ Becomes(e, "done", ret[e], todo[e]) /\ fs'[Name(e)] = New(e)
  BY TypesAre, WriteFileTree DEF WriteFile, MayWrite, Returns, GoTo, LabelsTyped, Others, Becomes

LEMMA WriteDirDoes ==
  ASSUME TypeOK, NEW e \in Entries, NEW h, WriteDir(e, h)
  PROVE  /\ Others(e) /\ pc[e] = "write" /\ IsDir(e)
         /\ UNCHANGED << call, saves, notes, by >>
         /\ \/ Becomes(e, "done", "EFILE", todo[e]) /\ UNCHANGED << fs, cache, stamped >>
            \/ /\ Becomes(e, IF caller = "all" THEN "stamp" ELSE "done", ret[e], todo[e])
               /\ fs'[Name(e)] = Dir
               /\ IF caller \in {"to", "cli"} THEN Name(e) \in stamped' ELSE TRUE
  BY TypesAre DEF WriteDir, MayWrite, Returns, GoTo, LabelsTyped, Others, Becomes

-----------------------------------------------------------------------------
(* How far the entries are, step by step *)

\* The steps of one entry.
Step(e) ==
  \/ Begin(e) \/ PassOver(e) \/ LookAtParent(e)
  \/ Look(e) \/ Move(e) \/ CannotSave(e) \/ MoveFails(e) \/ Recheck(e) \/ Note(e)
  \/ \E h \in Handles : WriteFile(e, h) \/ WriteDir(e, h)

\* What depends on the call only stays as it is.
LEMMA CallIsSame ==
  ASSUME UNCHANGED call
  PROVE  /\ Entries' = Entries /\ Handles' = Handles
         /\ archive' = archive /\ caller' = caller /\ jobs' = jobs /\ asked' = asked
         /\ policies' = policies /\ had' = had
         /\ \A e : Name(e)' = Name(e) /\ IsDir(e)' = IsDir(e) /\ Folder(e)' = Folder(e)
  BY DEF call, Entries, Handles, Name, IsDir, Folder

LEMMA StepOfOne ==
  ASSUME TypeOK, NEW e \in Entries, Step(e)
  PROVE  Others(e) /\ UNCHANGED call
  BY BeginDoes, PassOverDoes, LookAtParentDoes, LookDoes, MoveDoes, CannotSaveDoes, MoveFailsDoes,
     RecheckDoes,
     NoteDoes, WriteFileDoes, WriteDirDoes
  DEF Step

\* A directory goes away only if an entry moves it.
LEMMA DirectoryStays ==
  ASSUME TypeOK, NEW e \in Entries, Step(e), pc[e] \in Writing \union {"done"},
         NEW q \in Paths, fs[q] = Dir
  PROVE  fs'[q] = Dir
<1>1. CASE \E h \in Handles : WriteFile(e, h)
  BY <1>1, WriteFileTree, NodesDiffer
<1>2. CASE \E h \in Handles : WriteDir(e, h)
  BY <1>2, WriteDirTree
<1>3. QED
  BY <1>1, <1>2 DEF Step, Begin, PassOver, LookAtParent, Look, Move, CannotSave, MoveFails,
     Recheck, Note, Writing

LEMMA OwnLabelIsRight ==
  ASSUME TypeOK, LabelsAreRight, NEW e \in Entries, Step(e)
  PROVE  LabelIsRight(e)'
<1>0. LabelIsRight(e) /\ Name(e) \in Paths /\ (asked => caller = "cli")
  BY TypesAre DEF LabelsAreRight
<1>1. CASE Begin(e)
  BY <1>0, <1>1, BeginDoes, CallIsSame, ParentsAre DEF LabelIsRight, Becomes, Moving, Writing
<1>2. CASE PassOver(e)
  BY <1>0, <1>2, PassOverDoes, CallIsSame DEF LabelIsRight, Becomes, Moving, Writing
<1>3. CASE Look(e)
  BY <1>0, <1>3, LookDoes, CallIsSame DEF LabelIsRight, Becomes, GoesOn, Moving, Writing
<1>4. CASE Move(e)
  BY <1>0, <1>4, MoveDoes, CallIsSame DEF LabelIsRight, Becomes, Moving, Writing
<1>5. CASE CannotSave(e)
  BY <1>0, <1>5, CannotSaveDoes, CallIsSame DEF LabelIsRight, Becomes, Moving, Writing
<1>6. CASE MoveFails(e)
  BY <1>0, <1>6, MoveFailsDoes, CallIsSame DEF LabelIsRight, Becomes, Moving, Writing
<1>7. CASE Recheck(e)
  BY <1>0, <1>7, RecheckDoes, CallIsSame DEF LabelIsRight, Becomes, GoesOn, Moving, Writing
<1>8. CASE Note(e)
  BY <1>0, <1>8, NoteDoes, CallIsSame DEF LabelIsRight, Becomes, GoesOn, Moving, Writing, Errors
<1>9. CASE \E h \in Handles : WriteFile(e, h)
  BY <1>0, <1>9, WriteFileDoes, CallIsSame DEF LabelIsRight, Becomes, Moving, Writing
<1>10. CASE \E h \in Handles : WriteDir(e, h)
  BY <1>0, <1>10, WriteDirDoes, CallIsSame DEF LabelIsRight, Becomes, Moving, Writing
<1>11. CASE LookAtParent(e)
  BY <1>0, <1>11, LookAtParentDoes, CallIsSame DEF LabelIsRight, Becomes, GoesOn, Moving, Writing
<1>12. QED
  BY <1>1, <1>2, <1>3, <1>4, <1>5, <1>6, <1>7, <1>8, <1>9, <1>10, <1>11 DEF Step

LEMMA LabelsKept ==
  ASSUME TypeOK, LabelsAreRight, PreparedFirst, NEW e \in Entries, Step(e)
  PROVE  LabelsAreRight'
<1>1. Others(e) /\ UNCHANGED call
  BY StepOfOne
<1>2. \A f \in Entries : f # e => LabelIsRight(f)'
  <2> SUFFICES ASSUME NEW f \in Entries, f # e PROVE LabelIsRight(f)'
    OBVIOUS
  <2>1. LabelIsRight(f) /\ Name(f) \in Paths
    BY TypesAre DEF LabelsAreRight
  <2>2. pc[f] = "stamp" => fs'[Name(f)] = Dir
    BY <2>1, DirectoryStays DEF LabelIsRight, PreparedFirst, AllPrepared, Writing
  <2>3. QED
    BY <1>1, <2>1, <2>2, CallIsSame DEF LabelIsRight, Others
<1>3. QED
  BY <1>1, <1>2, OwnLabelIsRight, CallIsSame DEF LabelsAreRight

LEMMA PreparedKept ==
  ASSUME TypeOK, LabelsAreRight, PreparedFirst, NEW e \in Entries, Step(e)
  PROVE  PreparedFirst'
<1>1. Others(e) /\ UNCHANGED call
  BY StepOfOne
<1> SUFFICES ASSUME caller = "all"
             PROVE  (\E f \in Entries : pc'[f] \in Writing) =>
                      \A f \in Entries : pc'[f] \in Writing \union {"done"} /\ ret'[f] # "EEXIST"
  BY <1>1, CallIsSame DEF PreparedFirst, AllPrepared
<1>2. CASE AllPrepared
  <2>1. \E h \in Handles : WriteFile(e, h) \/ WriteDir(e, h)
    BY <1>2
    DEF AllPrepared, Writing, Step, Begin, PassOver, LookAtParent, Look, Move, CannotSave,
        MoveFails, Recheck, Note
  <2>2. pc[e] = "write" /\ pc'[e] \in Writing \union {"done"} /\ (ret[e] # "EEXIST" => ret'[e] # "EEXIST")
    BY <2>1, WriteFileDoes, WriteDirDoes DEF Becomes, Writing
  <2>3. QED
    BY <1>1, <1>2, <2>2 DEF PreparedFirst, AllPrepared, Others, Writing
<1>3. CASE ~AllPrepared
  <2>1. \A f \in Entries : pc[f] \notin Writing
    BY <1>3 DEF PreparedFirst
  <2>2. pc'[e] \notin Writing
    <3>1. ~\E h \in Handles : WriteFile(e, h) \/ WriteDir(e, h)
      BY <2>1 DEF WriteFile, WriteDir, MayWrite, Writing
    <3>2. QED
      BY <3>1, BeginDoes, PassOverDoes, LookAtParentDoes, LookDoes, MoveDoes, CannotSaveDoes,
         MoveFailsDoes,
         RecheckDoes, NoteDoes
      DEF Step, Becomes, GoesOn, Writing
  <2>3. QED
    BY <1>1, <2>1, <2>2 DEF Others
<1>4. QED
  BY <1>2, <1>3

\* An entry that is done makes no step.
LEMMA DoneIsDone == ASSUME NEW e, Step(e) PROVE pc[e] \notin {"done", "ready", "stamp"}
  BY DEF Step, Begin, PassOver, LookAtParent, Look, Move, CannotSave, MoveFails, Recheck, Note,
         WriteFile, WriteDir, MayWrite

LEMMA FirstStep ==
  ASSUME TypeOK, NEW e \in Entries, Step(e), pc[e] = "waiting"
  PROVE  Begin(e) \/ PassOver(e)
  BY DEF Step, LookAtParent, Look, Move, CannotSave, MoveFails, Recheck, Note, WriteFile, WriteDir,
     MayWrite

LEMMA TurnsKept ==
  ASSUME TypeOK, LabelsAreRight, OneAtATime, DirectoriesLast, NEW e \in Entries, Step(e)
  PROVE  OneAtATime' /\ DirectoriesLast'
<1>1. Others(e) /\ UNCHANGED call /\ pc[e] \notin {"done", "ready"}
  BY StepOfOne, DoneIsDone
<1>2. OneAtATime'
  <2> SUFFICES ASSUME caller \in {"to", "stream"}, NEW f \in Active', NEW g \in Active'
               PROVE  f = g
    BY <1>1, CallIsSame DEF OneAtATime
  <2>1. /\ f \in Entries /\ pc'[f] \notin {"waiting", "ready", "done"}
        /\ g \in Entries /\ pc'[g] \notin {"waiting", "ready", "done"}
    BY <1>1, CallIsSame DEF Active, Started
  <2>2. CASE pc[e] = "waiting"
    <3>1. Begin(e)
      BY <2>2, FirstStep DEF PassOver, PassedOver, LabelsAreRight
    <3>2. Active = {}
      BY <3>1 DEF Begin, NextInOrder
    <3>3. f = e /\ g = e
      BY <1>1, <2>1, <3>2 DEF Active, Started, Others
    <3>4. QED
      BY <3>3
  <2>3. CASE pc[e] # "waiting"
    BY <1>1, <2>1, <2>3 DEF Active, Started, Others, OneAtATime
  <2>4. QED
    BY <2>2, <2>3
<1>3. DirectoriesLast'
  <2> SUFFICES ASSUME caller = "cli", NEW f \in Entries, NEW g \in Entries,
                      IsDir(f), pc'[f] # "waiting", ~IsDir(g) \/ g > f
               PROVE  pc'[g] = "done"
    BY <1>1, CallIsSame DEF DirectoriesLast
  <2>1. e \in Nat /\ g \in Nat
    BY TypesAre
  <2>2. CASE f = e /\ pc[e] = "waiting"
    <3>1. NextOfWorkers(e)
      BY <2>2, FirstStep DEF Begin, PassOver
    <3>2. pc[g] = "done" /\ g # e
      BY <2>1, <2>2, <3>1, TypesAre DEF NextOfWorkers
    <3>3. QED
      BY <1>1, <3>2 DEF Others
  <2>3. CASE f # e \/ pc[e] # "waiting"
    <3>1. pc[g] = "done"
      BY <1>1, <2>3 DEF Others, DirectoriesLast
    <3>2. QED
      BY <1>1, <3>1 DEF Others
  <2>4. QED
    BY <2>2, <2>3
<1>4. QED
  BY <1>2, <1>3

LEMMA GoDoes ==
  ASSUME TypeOK, LabelsAreRight, Go
  PROVE  /\ caller = "all" /\ UNCHANGED << call, fs, saves, notes, todo, ret, by, cache, stamped >>
         /\ \A e \in Entries : pc[e] \in {"ready", "done"} /\ ret[e] \notin Errors
         /\ \A e \in Entries : pc'[e] = IF pc[e] = "ready" THEN "write" ELSE "done"
  BY DEF Go, LabelsAreRight, LabelIsRight, tools, Failed

LEMMA StampAllDoes ==
  ASSUME TypeOK, LabelsAreRight, StampAll
  PROVE  /\ caller = "all" /\ UNCHANGED << call, fs, saves, notes, todo, ret, by, cache >>
         /\ \A e \in Entries : pc[e] \in {"stamp", "done"} /\ ret[e] \notin Errors /\ pc'[e] = "done"
         /\ stamped' = stamped \union { Name(e) : e \in { f \in Entries : pc[f] = "stamp" } }
  BY DEF StampAll, LabelsAreRight, LabelIsRight, Failed

LEMMA StagedStarts == ASSUME Init PROVE Staged
<1>1. TypeOK /\ \A e \in Entries : Name(e) \in Paths
  BY InitTyped, TypesAre
<1>2. LabelsAreRight
  BY <1>1 DEF Init, LabelsAreRight, LabelIsRight, Moving, Writing, Errors
<1>3. PreparedFirst /\ OneAtATime /\ DirectoriesLast
  BY DEF Init, PreparedFirst, OneAtATime, DirectoriesLast, Active, Started, Writing
<1>4. QED
  BY <1>1, <1>2, <1>3 DEF Staged

\* Every step is one of an entry, or of all of them.
LEMMA StepsAre ==
  ASSUME [Next]_vars
  PROVE  Go \/ StampAll \/ (\E e \in Entries : Step(e)) \/ UNCHANGED vars
  BY DEF Next, Step

LEMMA StagedKept == ASSUME Staged, [Next]_vars PROVE Staged'
<1>1. TypeOK /\ LabelsAreRight /\ PreparedFirst /\ OneAtATime /\ DirectoriesLast
  BY DEF Staged
<1>2. ASSUME NEW e \in Entries, Step(e) PROVE Staged'
  <2>1. TypeOK'
    BY <1>1, <1>2, EasyStepsTyped, MoveTyped, MoveFailsTyped, WriteTyped DEF Step
  <2>2. QED
    BY <1>1, <1>2, <2>1, LabelsKept, PreparedKept, TurnsKept DEF Staged
<1>3. CASE Go
  <2>1. /\ caller = "all" /\ UNCHANGED << call, fs, saves, notes, todo, ret, by, cache, stamped >>
        /\ \A e \in Entries : pc[e] \in {"ready", "done"} /\ ret[e] \notin Errors
        /\ \A e \in Entries : pc'[e] = IF pc[e] = "ready" THEN "write" ELSE "done"
    BY <1>1, <1>3, GoDoes
  <2>2. TypeOK'
    BY <1>1, <1>3, GoTyped
  <2>3. LabelsAreRight'
    BY <1>1, <2>1, CallIsSame DEF LabelsAreRight, LabelIsRight, Moving, Writing
  <2>4. PreparedFirst' /\ OneAtATime' /\ DirectoriesLast'
    BY <2>1, CallIsSame DEF PreparedFirst, AllPrepared, OneAtATime, DirectoriesLast, Writing, Errors
  <2>5. QED
    BY <2>2, <2>3, <2>4 DEF Staged
<1>4. CASE StampAll
  <2>1. /\ caller = "all" /\ UNCHANGED << call, fs, saves, notes, todo, ret, by, cache >>
        /\ \A e \in Entries : pc[e] \in {"stamp", "done"} /\ ret[e] \notin Errors /\ pc'[e] = "done"
    BY <1>1, <1>4, StampAllDoes
  <2>2. TypeOK'
    BY <1>1, <1>4, StampAllTyped
  <2>3. LabelsAreRight'
    BY <1>1, <2>1, CallIsSame DEF LabelsAreRight, LabelIsRight, Moving, Writing
  <2>4. PreparedFirst' /\ OneAtATime' /\ DirectoriesLast'
    BY <2>1, CallIsSame DEF PreparedFirst, AllPrepared, OneAtATime, DirectoriesLast, Writing, Errors
  <2>5. QED
    BY <2>2, <2>3, <2>4 DEF Staged
<1>5. CASE UNCHANGED vars
  <2>1. UNCHANGED << call, fs, saves, notes, pc, todo, ret, by, cache, stamped >>
    BY <1>5 DEF vars, tools
  <2>2. TypeOK'
    BY <1>1, <2>1, SameTrees, CallIsSame, TypesAre DEF TypeOK, LabelsTyped, Labels, Results
  <2>3. LabelsAreRight'
    BY <1>1, <2>1, CallIsSame DEF LabelsAreRight, LabelIsRight, Moving, Writing
  <2>4. PreparedFirst' /\ OneAtATime' /\ DirectoriesLast'
    BY <1>1, <2>1, CallIsSame
    DEF PreparedFirst, AllPrepared, OneAtATime, Active, Started, DirectoriesLast
  <2>5. QED
    BY <2>2, <2>3, <2>4 DEF Staged
<1>6. QED
  BY <1>2, <1>3, <1>4, <1>5, StepsAre

\* How far the entries of a call are, for all callers: zipy_extract_all comes
\* to extract when all is prepared, zipy_extract_to and zipy_extract_stream
\* work on one entry at a time, the command line makes the directories last.
THEOREM Stages == Spec => []Staged
<1>1. Init => Staged
  BY StagedStarts
<1>2. Staged /\ [Next]_vars => Staged'
  BY StagedKept
<1>3. QED
  BY <1>1, <1>2, PTL DEF Spec

\* The target and the folders stay trees, whatever the workers move and make
\* (prepare_conflict, extract_entry).
THEOREM TypeCorrect == Spec => []TypeOK
<1>1. Staged => TypeOK
  BY DEF Staged
<1>2. QED
  BY <1>1, Stages, PTL

-----------------------------------------------------------------------------
(* What is saved is listed *)

\* What is in a folder changes only when a directory is made there for a path,
\* and when something is moved there.
LEMMA FolderChanges ==
  ASSUME TypeOK, NEW e \in Entries, Step(e), NEW i \in DOMAIN saves, NEW p \in Paths
  PROVE  \/ saves'[i][p] \in {saves[i][p], Dir}
         \/ Move(e) /\ i = Folder(e) /\ p \in Below(todo[e]) /\ saves'[i][p] = fs[p]
<1>1. CASE Move(e)
  BY <1>1, MoveDoes
<1>2. CASE MoveFails(e)
  BY <1>2, MoveFailsDoes
<1>3. CASE ~Move(e) /\ ~MoveFails(e)
  <2>1. saves' = saves
    BY <1>3, BeginDoes, PassOverDoes, LookAtParentDoes, LookDoes, CannotSaveDoes, RecheckDoes,
       NoteDoes,
       WriteFileDoes, WriteDirDoes
    DEF Step
  <2>2. QED
    BY <2>1
<1>4. QED
  BY <1>1, <1>2, <1>3

\* What is noted stays noted.
LEMMA NotesGrow ==
  ASSUME TypeOK, NEW e \in Entries, Step(e)
  PROVE  notes \subseteq notes'
  BY BeginDoes, PassOverDoes, LookAtParentDoes, LookDoes, MoveDoes, CannotSaveDoes, MoveFailsDoes,
     RecheckDoes,
     NoteDoes, WriteFileDoes, WriteDirDoes
  DEF Step

\* The entry that has moved a path away notes it, or has an error.
LEMMA MovedIsNoted ==
  ASSUME TypeOK, LabelsAreRight, NEW e \in Entries, Step(e), pc[e] = "note" \/ ret[e] = "EFILE"
  PROVE  \/ << Folder(e), todo[e] >> \in notes'
         \/ todo'[e] = todo[e] /\ ret'[e] = "EFILE"
<1>1. pc[e] = "note"
  BY DoneIsDone DEF LabelsAreRight, LabelIsRight, Errors
<1>2. Note(e)
  BY <1>1 DEF Step, Begin, PassOver, LookAtParent, Look, Move, CannotSave, MoveFails, Recheck,
     WriteFile,
              WriteDir, MayWrite
<1>3. QED
  BY <1>2, NoteDoes DEF Becomes

LEMMA ListedByStep ==
  ASSUME Staged, SavedIsListed, NEW e \in Entries, Step(e)
  PROVE  SavedIsListed'
<1>1. TypeOK /\ LabelsAreRight /\ Others(e) /\ UNCHANGED call /\ DOMAIN saves' = DOMAIN saves
  <2>1. TypeOK'
    BY StagedKept DEF Staged, Next, Step
  <2>2. QED
    BY <2>1, StepOfOne, TypesAre DEF Staged, TypeOK, call
<1> SUFFICES ASSUME NEW i \in DOMAIN saves, NEW p \in Paths, IsFile(saves'[i][p])
             PROVE  \E q \in {p, Parent[p]} :
                      \/ << i, q >> \in notes'
                      \/ \E f \in Entries : Folder(f) = i /\ todo'[f] = q /\ (pc'[f] = "note" \/ ret'[f] = "EFILE")
  BY <1>1, CallIsSame DEF SavedIsListed
<1>2. CASE IsFile(saves[i][p])
  <2>1. PICK q \in {p, Parent[p]} :
          \/ << i, q >> \in notes
          \/ \E f \in Entries : Folder(f) = i /\ todo[f] = q /\ (pc[f] = "note" \/ ret[f] = "EFILE")
    BY <1>2 DEF SavedIsListed
  <2>2. CASE << i, q >> \in notes
    BY <1>1, <2>2, NotesGrow
  <2>3. ASSUME NEW f \in Entries, Folder(f) = i, todo[f] = q, pc[f] = "note" \/ ret[f] = "EFILE"
        PROVE  \/ << i, q >> \in notes'
               \/ Folder(f) = i /\ todo'[f] = q /\ (pc'[f] = "note" \/ ret'[f] = "EFILE")
    BY <1>1, <2>3, MovedIsNoted DEF Others
  <2>4. QED
    BY <2>1, <2>2, <2>3
<1>3. CASE Move(e) /\ i = Folder(e) /\ p \in Below(todo[e])
  <2>1. todo[e] \in {p, Parent[p]}
    BY <1>3 DEF Below
  <2>2. todo'[e] = todo[e] /\ pc'[e] = "note"
    BY <1>1, <1>3, MoveDoes DEF Becomes
  <2>3. QED
    BY <1>3, <2>1, <2>2
<1>4. QED
  BY <1>1, <1>2, <1>3, FolderChanges DEF IsFile

\* Every file in a folder of saved files is listed there, or is about to be,
\* or an entry failed on it (append_saved_manifest).
THEOREM SavedFilesAreListed == Spec => []SavedIsListed
<1>1. Init => SavedIsListed
  BY InitTyped DEF Init, SavedIsListed, IsFile
<1>2. Staged /\ SavedIsListed /\ [Next]_vars => SavedIsListed'
  <2> SUFFICES ASSUME Staged, SavedIsListed, [Next]_vars PROVE SavedIsListed'
    OBVIOUS
  <2>1. CASE Go \/ StampAll \/ UNCHANGED vars
    <3>1. /\ UNCHANGED << call, fs, saves, notes, todo, ret >>
          /\ \A e \in Entries : pc[e] = "note" => pc'[e] = "note"
      BY <2>1, GoDoes, StampAllDoes DEF Staged, vars
    <3>2. QED
      BY <3>1, CallIsSame DEF SavedIsListed
  <2>2. QED
    BY <2>1, StepsAre, ListedByStep
<1>3. QED
  BY <1>1, <1>2, Stages, PTL DEF Spec

-----------------------------------------------------------------------------
(* What lies where, step by step *)

\* The target changes only by a move, a directory that is made, a new file.
LEMMA TargetChanges ==
  ASSUME TypeOK, NEW e \in Entries, Step(e), NEW q \in Paths
  PROVE  \/ fs'[q] = fs[q]
         \/ Move(e) /\ q \in Below(todo[e]) /\ fs'[q] = Missing
         \/ pc[e] = "write" /\ fs[q] = Missing /\ fs'[q] = Dir
         \/ /\ \E h \in Handles : WriteFile(e, h)
            /\ q = Name(e) /\ fs'[q] = New(e) /\ fs[q] # Dir /\ pc'[e] = "done"
<1>1. CASE Move(e)
  BY <1>1, MoveDoes
<1>2. ASSUME NEW h \in Handles, WriteFile(e, h)
      PROVE  \/ fs'[q] = fs[q]
             \/ pc[e] = "write" /\ fs[q] = Missing /\ fs'[q] = Dir
             \/ q = Name(e) /\ fs'[q] = New(e) /\ fs[q] # Dir /\ pc'[e] = "done"
  BY <1>2, WriteFileTree, WriteFileDoes
<1>3. ASSUME NEW h \in Handles, WriteDir(e, h)
      PROVE  fs'[q] = fs[q] \/ (pc[e] = "write" /\ fs[q] = Missing /\ fs'[q] = Dir)
  BY <1>3, WriteDirTree, WriteDirDoes
<1>4. CASE ~Move(e) /\ ~\E h \in Handles : WriteFile(e, h) \/ WriteDir(e, h)
  <2>1. fs' = fs
    BY <1>4, BeginDoes, PassOverDoes, LookAtParentDoes, LookDoes, CannotSaveDoes, MoveFailsDoes,
       RecheckDoes, NoteDoes
    DEF Step
  <2>2. QED
    BY <2>1
<1>5. QED
  BY <1>1, <1>2, <1>3, <1>4

\* No file from before comes to a path where it was not.
LEMMA NoOldFileAppears ==
  ASSUME TypeOK, NEW e \in Entries, Step(e), NEW q \in Paths, NEW r \in Paths, fs'[q] = User(r)
  PROVE  fs[q] = User(r)
  BY TargetChanges, NodesDiffer

LEMMA TracedByStep ==
  ASSUME Staged, Traced, NEW e \in Entries, Step(e)
  PROVE  Traced'
<1>1. /\ TypeOK /\ LabelsAreRight /\ Others(e) /\ UNCHANGED call /\ DOMAIN saves' = DOMAIN saves
      /\ Name(e) \in Paths
  <2>1. TypeOK'
    BY StagedKept DEF Staged, Next, Step
  <2>2. QED
    BY <2>1, StepOfOne, TypesAre DEF Staged, TypeOK, call
<1>2. FilesInPlace'
  <2>1. ASSUME NEW q \in Paths, NEW r \in Paths, fs'[q] = User(r) PROVE r = q /\ had[q] = User(q)
    BY <1>1, <2>1, NoOldFileAppears DEF Traced, FilesInPlace
  <2>2. ASSUME NEW q \in Paths, NEW f \in Entries, fs'[q] = New(f)
        PROVE  Name(f) = q /\ ~IsDir(f) /\ pc'[f] = "done"
    <3>1. CASE fs[q] = New(f)
      <4>1. Name(f) = q /\ ~IsDir(f) /\ pc[f] = "done"
        BY <3>1 DEF Traced, FilesInPlace
      <4>2. QED
        BY <1>1, <4>1, DoneIsDone DEF Others
    <3>2. CASE fs[q] # New(f)
      <4>1. /\ \E h \in Handles : WriteFile(e, h)
            /\ q = Name(e) /\ fs'[q] = New(e) /\ pc'[e] = "done"
        BY <1>1, <2>2, <3>2, TargetChanges, NodesDiffer
      <4>2. f = e
        BY <2>2, <4>1, NodesDiffer
      <4>3. QED
        BY <1>1, <4>1, <4>2, WriteFileDoes
    <3>3. QED
      BY <3>1, <3>2
  <2>3. QED
    BY <1>1, <2>1, <2>2, CallIsSame DEF FilesInPlace
<1>3. SavesInPlace'
  <2> SUFFICES ASSUME NEW i \in DOMAIN saves, NEW q \in Paths, NEW r \in Paths, saves'[i][q] = User(r)
               PROVE  r = q
    BY <1>1 DEF SavesInPlace
  <2>1. saves[i][q] = User(r) \/ fs[q] = User(r)
    BY <1>1, FolderChanges, NodesDiffer
  <2>2. QED
    BY <2>1 DEF Traced, SavesInPlace, FilesInPlace
<1>4. WayIsFree'
  <2> SUFFICES ASSUME NEW f \in Entries, policies[f] # "overwrite",
                      \/ pc'[f] \in {"ready", "write"}
                      \/ pc'[f] = "note" /\ todo'[f] = Name(f),
                      fs'[Name(f)] = User(Name(f))
               PROVE  FALSE
    BY <1>1, CallIsSame DEF WayIsFree
  <2>1. Name(f) \in Paths /\ fs[Name(f)] = User(Name(f))
    BY <1>1, TypesAre, NoOldFileAppears
  <2>2. ~(pc[f] \in {"ready", "write"} \/ (pc[f] = "note" /\ todo[f] = Name(f)))
    BY <2>1 DEF Traced, WayIsFree
  <2>3. f = e
    BY <1>1, <2>2 DEF Others
  <2>4. ~(todo[e] = Name(e) /\ Fits(e))
    BY <2>1, <2>3, NodesDiffer DEF Fits
  <2>5. CASE Move(e)
    <3>1. todo[e] = Name(e) /\ Name(e) \in Below(todo[e])
      BY <1>1, <2>3, <2>5, MoveDoes DEF Becomes, Below
    <3>2. QED
      BY <1>1, <2>1, <2>3, <2>5, <3>1, MoveDoes, NodesDiffer
  <2>6. CASE Note(e)
    BY <1>1, <2>2, <2>3, <2>6, NoteDoes DEF Becomes, GoesOn
  <2>7. CASE Look(e)
    BY <1>1, <2>2, <2>3, <2>4, <2>7, LookDoes DEF Becomes, GoesOn
  <2>8. CASE Recheck(e)
    BY <1>1, <2>2, <2>3, <2>4, <2>8, RecheckDoes DEF Becomes, GoesOn
  <2>9. CASE LookAtParent(e)
    BY <1>1, <2>3, <2>9, LookAtParentDoes DEF LabelsAreRight, LabelIsRight, Becomes, GoesOn
  <2>10. QED
    BY <1>1, <2>2, <2>3, <2>5, <2>6, <2>7, <2>8, <2>9, BeginDoes, PassOverDoes, CannotSaveDoes,
       MoveFailsDoes, WriteFileDoes, WriteDirDoes
    DEF Step, Becomes
<1>5. QED
  BY <1>2, <1>3, <1>4 DEF Traced

LEMMA TracedStarts == ASSUME Init PROVE Traced
<1>1. fs = had /\ had \in Trees
  BY DEF Init
<1>2. FilesInPlace
  <2>1. \A q \in Paths : had[q] \in {Missing, Dir} \/ had[q] = User(q)
    BY <1>1 DEF Trees, IsFile
  <2>2. QED
    BY <1>1, <2>1, NodesDiffer DEF FilesInPlace
<1>3. SavesInPlace /\ WayIsFree
  BY NodesDiffer DEF Init, SavesInPlace, WayIsFree
<1>4. QED
  BY <1>2, <1>3 DEF Traced

LEMMA TracedKept == ASSUME Staged, Traced, [Next]_vars PROVE Traced'
<1>1. CASE Go \/ StampAll \/ UNCHANGED vars
  <2>1. /\ UNCHANGED << call, fs, saves, todo >>
        /\ \A e \in Entries : pc[e] = "done" => pc'[e] = "done"
        /\ \A e \in Entries : pc'[e] \in {"ready", "write", "note"} => pc[e] = pc'[e] \/ pc[e] = "ready"
    BY <1>1, GoDoes, StampAllDoes DEF Staged, vars
  <2>2. FilesInPlace' /\ SavesInPlace'
    BY <2>1, CallIsSame DEF Traced, FilesInPlace, SavesInPlace
  <2>3. WayIsFree'
    BY <2>1, CallIsSame DEF Traced, WayIsFree
  <2>4. QED
    BY <2>2, <2>3 DEF Traced
<1>2. QED
  BY <1>1, StepsAre, TracedByStep

\* A file from before never comes to another path, and an entry that is about
\* to be written has none in its way (prepare_conflict, extract_entry).
THEOREM Traces == Spec => []Traced
<1>1. Init => Traced
  BY TracedStarts
<1>2. Staged /\ Traced /\ [Next]_vars => Traced'
  BY TracedKept
<1>3. QED
  BY <1>1, <1>2, Stages, PTL DEF Spec

-----------------------------------------------------------------------------
(* The policy "fail" *)

LEMMA ConflictPathIsSame ==
  ASSUME UNCHANGED call
  PROVE  \A e : ConflictPath(e)' = ConflictPath(e) /\ InTheWay(e)' = InTheWay(e)
  BY CallIsSame DEF ConflictPath, InTheWay

\* An entry that is in the way comes to the path where it is.
LEMMA ClashIsMet ==
  ASSUME TypeOK, NEW e \in Entries, LabelIsRight(e), Begin(e) \/ LookAtParent(e) \/ Look(e),
         fs = had, InTheWay(e), NotFoundYet(e), policies[e] = "fail"
  PROVE  \/ pc'[e] = "parent" \/ (pc'[e] = "look" /\ todo'[e] = ConflictPath(e))
         \/ pc'[e] = "done" /\ ret'[e] = "EEXIST"
<1> DEFINE p == Name(e)
           d == Parent[p]
<1>1. /\ p \in Paths /\ todo[e] \in {p, d} /\ d # p /\ (pc[e] = "parent" => todo[e] = d /\ d # Root)
      /\ pc[e] = "waiting" => todo[e] = p
  BY TypesAre, ParentsAre DEF LabelIsRight, LabelsTyped
<1>2. IF d # Root /\ IsFile(had[d]) THEN ConflictPath(e) = d
      ELSE ConflictPath(e) = p /\ had[p] # Missing /\ ~(IsDir(e) /\ had[p] = Dir)
  <2>1. ConflictPath(e) # Nowhere
    BY DEF InTheWay
  <2>2. CASE d # Root /\ IsFile(had[d])
    <3>1. had[p] = Missing
      BY <1>1, <2>2 DEF TypeOK, Trees, IsFile
    <3>2. QED
      BY <2>2, <3>1 DEF ConflictPath
  <2>3. CASE ~(d # Root /\ IsFile(had[d]))
    BY <2>1, <2>3 DEF ConflictPath
  <2>4. QED
    BY <2>2, <2>3
<1>3. CASE Begin(e)
  BY <1>1, <1>2, <1>3, BeginDoes DEF Becomes
<1>4. CASE LookAtParent(e)
  BY <1>1, <1>2, <1>4, LookAtParentDoes DEF Becomes, GoesOn
<1>5. CASE Look(e)
  <2>1. todo[e] = ConflictPath(e)
    BY <1>5 DEF Look, NotFoundYet
  <2>2. ~Fits(e)
    BY <1>1, <1>2, <2>1 DEF Fits, IsFile
  <2>3. QED
    BY <1>5, <2>2, LookDoes DEF Becomes
<1>6. QED
  BY <1>3, <1>4, <1>5

LEMMA ClashByStep ==
  ASSUME Staged, ClashIsFound, NEW g \in Entries, Step(g)
  PROVE  ClashIsFound'
<1>1. TypeOK /\ LabelsAreRight /\ LabelIsRight(g) /\ Others(g) /\ UNCHANGED call
  BY StepOfOne DEF Staged, LabelsAreRight
<1> SUFFICES ASSUME caller = "all", \A f \in Entries : policies[f] = "fail",
                    NEW e \in Entries, InTheWay(e)
             PROVE  /\ fs' = had
                    /\ \/ pc'[e] \in {"waiting", "parent"}
                       \/ pc'[e] = "look" /\ todo'[e] = ConflictPath(e)
                       \/ pc'[e] = "done" /\ ret'[e] = "EEXIST"
  BY <1>1, CallIsSame, ConflictPathIsSame DEF ClashIsFound, NotFoundYet
<1>2. fs = had /\ (NotFoundYet(e) \/ (pc[e] = "done" /\ ret[e] = "EEXIST"))
  BY DEF ClashIsFound
<1>3. Begin(g) \/ LookAtParent(g) \/ Look(g)
  <2>1. ~PassOver(g)
    BY <1>1 DEF PassOver, PassedOver, LabelsAreRight
  <2>2. pc[g] \notin Moving
    BY <1>1 DEF LabelIsRight
  <2>3. pc[g] # "write"
    BY <1>2 DEF Staged, PreparedFirst, AllPrepared, Writing, NotFoundYet
  <2>4. QED
    BY <2>1, <2>2, <2>3
    DEF Step, Move, CannotSave, MoveFails, Recheck, Note, WriteFile, WriteDir, MayWrite, Moving
<1>4. fs' = had
  BY <1>1, <1>2, <1>3, BeginDoes, LookAtParentDoes, LookDoes
<1>5. CASE g = e
  <2>1. NotFoundYet(e)
    BY <1>2, <1>5, DoneIsDone
  <2>2. QED
    BY <1>1, <1>2, <1>3, <1>4, <1>5, <2>1, ClashIsMet
<1>6. CASE g # e
  BY <1>1, <1>2, <1>4, <1>6 DEF Others, NotFoundYet
<1>7. QED
  BY <1>5, <1>6

\* With the policy "fail" zipy_extract_all finds the conflict of an entry, in its
\* own place or above it, before it changes anything (prepare_extract_all).
THEOREM FailIsFirst == Spec => []FailChangesNothing
<1>1. Init => ClashIsFound
  BY DEF Init, ClashIsFound, NotFoundYet
<1>2. Staged /\ ClashIsFound /\ [Next]_vars => ClashIsFound'
  <2> SUFFICES ASSUME Staged, ClashIsFound, [Next]_vars PROVE ClashIsFound'
    OBVIOUS
  <2>1. CASE Go \/ StampAll
    <3>1. /\ UNCHANGED << call, fs, ret >>
          /\ \A e \in Entries : pc[e] \notin {"waiting", "parent", "look"} /\ ret[e] # "EEXIST"
      BY <2>1, GoDoes, StampAllDoes DEF Staged, Errors
    <3>2. QED
      BY <3>1, CallIsSame, ConflictPathIsSame DEF ClashIsFound, NotFoundYet
  <2>2. CASE UNCHANGED vars
    BY <2>2, CallIsSame, ConflictPathIsSame DEF vars, ClashIsFound, NotFoundYet
  <2>3. QED
    BY <2>1, <2>2, StepsAre, ClashByStep
<1>3. ClashIsFound => FailChangesNothing
  BY DEF ClashIsFound, FailChangesNothing
<1>4. QED
  BY <1>1, <1>2, <1>3, Stages, PTL DEF Spec

-----------------------------------------------------------------------------
(* What is to be left alone *)

LEMMA LeftAloneIsSame ==
  ASSUME UNCHANGED call
  PROVE  \A p \in Paths : LeftAlone(p)' <=> LeftAlone(p)
  BY CallIsSame, ConflictPathIsSame DEF LeftAlone

\* Where the conflict of an entry is that finds something at its own path.
LEMMA ConflictAtName ==
  ASSUME TypeOK, NEW e \in Entries, had[Name(e)] # Missing, ~(IsDir(e) /\ had[Name(e)] = Dir)
  PROVE  ConflictPath(e) = Name(e)
<1>1. Name(e) \in Paths /\ (Parent[Name(e)] # Root => had[Parent[Name(e)]] = Dir)
  BY TypesAre DEF TypeOK, Trees
<1>2. QED
  BY <1>1 DEF ConflictPath, IsFile

\* An entry finds in its way only what it is in conflict with.
LEMMA MoveIsWanted ==
  ASSUME TypeOK, NEW e \in Entries, LabelIsRight(e), policies[e] = "save",
         IF todo[e] = Name(e) THEN ~Fits(e) ELSE IsFile(fs[todo[e]]),
         NEW p \in Below(todo[e]), LeftAlone(p), fs[p] = had[p]
  PROVE  FALSE
<1>1. /\ todo[e] \in Paths /\ todo[e] \in {Name(e), Parent[Name(e)]} /\ p \in Paths
      /\ p = todo[e] \/ Parent[p] = todo[e]
      /\ had \in Trees /\ WellFormed(fs)
  BY TypesAre DEF LabelsTyped, LabelIsRight, Below, TypeOK
<1>2. had[p] # Missing /\ ConflictPath(e) \notin {p, Parent[p]}
  BY DEF LeftAlone
<1>3. had[todo[e]] = fs[todo[e]] /\ had[todo[e]] # Missing /\ (Parent[p] = todo[e] => fs[todo[e]] = Dir)
  BY <1>1, <1>2, ParentsAre, NodesDiffer DEF WellFormed, Trees
<1>4. CASE todo[e] = Name(e)
  <2>1. ~(IsDir(e) /\ had[Name(e)] = Dir)
    BY <1>3, <1>4 DEF Fits
  <2>2. ConflictPath(e) = Name(e)
    BY <1>3, <1>4, <2>1, ConflictAtName
  <2>3. QED
    BY <1>1, <1>2, <1>4, <2>2
<1>5. CASE todo[e] # Name(e)
  <2>1. todo[e] = Parent[Name(e)] /\ IsFile(had[todo[e]]) /\ todo[e] # Root
    <3>1. todo[e] = Parent[Name(e)] /\ todo[e] # Root
      BY <1>1, <1>5, ParentsAre
    <3>2. IsFile(fs[todo[e]])
      BY <1>5
    <3>3. QED
      BY <1>3, <3>1, <3>2
  <2>2. ConflictPath(e) = todo[e]
    <3>1. had[Name(e)] = Missing
      BY <1>1, <2>1, TypesAre DEF Trees, IsFile
    <3>2. QED
      BY <2>1, <3>1 DEF ConflictPath
  <2>3. QED
    BY <1>1, <1>2, <2>2
<1>6. QED
  BY <1>4, <1>5

\* A move comes after a look, and a second look at a parent after the first.
LEMMA MoveAfterLook ==
  ASSUME TypeOK, NEW e \in Entries, LabelIsRight(e), Step(e),
         pc'[e] = "move" \/ (pc'[e] = "look" /\ todo'[e] # Name(e))
  PROVE  /\ todo'[e] = todo[e] /\ fs' = fs
         /\ \/ LookAtParent(e) /\ pc[e] = "parent" /\ IsFile(fs[todo[e]])
            \/ Look(e) /\ pc[e] = "look" /\ ~Fits(e)
<1>1. LookAtParent(e) \/ Look(e)
  BY BeginDoes, PassOverDoes, MoveDoes, CannotSaveDoes, MoveFailsDoes, RecheckDoes, NoteDoes,
     WriteFileDoes, WriteDirDoes
  DEF Step, Becomes, GoesOn, LabelIsRight
<1>2. QED
  BY <1>1, LookAtParentDoes, LookDoes DEF Becomes, GoesOn

LEMMA LeftAloneByStep ==
  ASSUME Staged, Traced, MovesAreWanted, OthersLeftAlone, NEW e \in Entries, Step(e)
  PROVE  MovesAreWanted' /\ OthersLeftAlone'
<1>1. /\ TypeOK /\ LabelsAreRight /\ LabelIsRight(e) /\ Others(e) /\ UNCHANGED call
      /\ Name(e) \in Paths
  BY StepOfOne, TypesAre DEF Staged, LabelsAreRight
<1>2. \A p \in Paths : LeftAlone(p) => fs[p] = had[p] /\ fs[p] # Missing
  BY DEF OthersLeftAlone, LeftAlone
<1>3. ASSUME NEW p \in Paths, LeftAlone(p) PROVE fs'[p] = had[p]
  <2>1. ~(Move(e) /\ p \in Below(todo[e]))
    BY <1>3 DEF MovesAreWanted, Move
  <2>2. ASSUME \E h \in Handles : WriteFile(e, h), p = Name(e), fs[p] # Dir PROVE FALSE
    <3>1. pc[e] = "write"
      BY <2>2 DEF WriteFile, MayWrite
    <3>2. had[p] = User(p)
      BY <1>1, <1>2, <1>3, <2>2 DEF TypeOK, Trees, IsFile
    <3>3. ConflictPath(e) = p
      BY <1>1, <1>2, <1>3, <2>2, ConflictAtName
    <3>4. policies[e] = "skip"
      BY <1>3, <3>3 DEF LeftAlone
    <3>5. QED
      BY <1>2, <1>3, <2>2, <3>1, <3>2, <3>4 DEF Traced, WayIsFree
  <2>3. fs'[p] = fs[p]
    BY <1>1, <1>2, <1>3, <2>1, <2>2, TargetChanges
  <2>4. QED
    BY <1>2, <1>3, <2>3
<1>4. OthersLeftAlone'
  BY <1>1, <1>3, CallIsSame, LeftAloneIsSame DEF OthersLeftAlone, LeftAlone
<1>5. MovesAreWanted'
  <2> SUFFICES ASSUME NEW f \in Entries,
                      pc'[f] = "move" \/ (pc'[f] = "look" /\ todo'[f] # Name(f) /\ policies[f] = "save"),
                      NEW p \in Below(todo'[f]), LeftAlone(p)
               PROVE  FALSE
    BY <1>1, CallIsSame, LeftAloneIsSame DEF MovesAreWanted, LooksAgain, Below
  <2>1. CASE f # e
    BY <1>1, <2>1 DEF MovesAreWanted, LooksAgain, Others
  <2>2. CASE f = e
    <3>1. todo'[e] = todo[e] /\ (LookAtParent(e) \/ Look(e))
      BY <1>1, <2>2, MoveAfterLook
    <3>2. policies[e] = "save"
      BY <1>1, <2>2, <3>1, LookAtParentDoes, LookDoes DEF Becomes, GoesOn
    <3>3. p \in Paths
      BY DEF Below
    <3>4. CASE LooksAgain(e)
      BY <2>2, <3>1, <3>2, <3>4 DEF MovesAreWanted
    <3>5. CASE ~LooksAgain(e)
      <4>1. IF todo[e] = Name(e) THEN ~Fits(e) ELSE IsFile(fs[todo[e]])
        BY <1>1, <2>2, <3>1, <3>5, MoveAfterLook DEF LooksAgain, LabelIsRight, Look
      <4>2. QED
        BY <1>1, <1>2, <2>2, <3>1, <3>2, <3>3, <4>1, MoveIsWanted
    <3>6. QED
      BY <3>4, <3>5
  <2>3. QED
    BY <2>1, <2>2
<1>6. QED
  BY <1>4, <1>5

\* What no entry is in conflict with, or only entries to be skipped, stays as it
\* was, for any answers and however the workers interleave (main.c
\* prepare_ask_plan, extract_one, apply_directory_entries).
THEOREM OthersAreLeftAlone == Spec => []OthersLeftAlone
<1>1. Init => MovesAreWanted /\ OthersLeftAlone
  BY DEF Init, MovesAreWanted, LooksAgain, OthersLeftAlone
<1>2. Staged /\ Traced /\ MovesAreWanted /\ OthersLeftAlone /\ [Next]_vars
        => MovesAreWanted' /\ OthersLeftAlone'
  <2> SUFFICES ASSUME Staged, Traced, MovesAreWanted, OthersLeftAlone, [Next]_vars
               PROVE  MovesAreWanted' /\ OthersLeftAlone'
    OBVIOUS
  <2>1. CASE Go \/ StampAll \/ UNCHANGED vars
    <3>1. /\ UNCHANGED << call, fs, todo >>
          /\ \A e \in Entries : pc'[e] \in {"look", "move"} => pc'[e] = pc[e]
      BY <2>1, GoDoes, StampAllDoes DEF Staged, vars
    <3>2. MovesAreWanted'
      BY <3>1, CallIsSame, LeftAloneIsSame DEF MovesAreWanted, LooksAgain, Below
    <3>3. OthersLeftAlone'
      BY <3>1, CallIsSame, LeftAloneIsSame DEF OthersLeftAlone, LeftAlone
    <3>4. QED
      BY <3>2, <3>3
  <2>2. QED
    BY <2>1, StepsAre, LeftAloneByStep
<1>3. QED
  BY <1>1, <1>2, Stages, Traces, PTL DEF Spec

-----------------------------------------------------------------------------
(* Files from before are kept *)

\* What the handles remember changes only when something is written.
LEMMA CacheChanges ==
  ASSUME TypeOK, NEW e \in Entries, Step(e), pc[e] # "write"
  PROVE  cache' = cache
  BY BeginDoes, PassOverDoes, LookAtParentDoes, LookDoes, MoveDoes, CannotSaveDoes, MoveFailsDoes,
     RecheckDoes,
     NoteDoes DEF Step, WriteFile, WriteDir, MayWrite

LEMMA NothingNewByStep ==
  ASSUME Staged, NothingNewYet, NEW e \in Entries, Step(e)
  PROVE  NothingNewYet'
<1>1. TypeOK /\ Others(e) /\ UNCHANGED call
  BY StepOfOne DEF Staged
<1> SUFFICES ASSUME caller = "all", ~AllPrepared'
             PROVE  /\ \A q \in Paths, f \in Entries : fs'[q] # New(f)
                    /\ \A h \in 0 .. Jobs : cache'[h] = Nowhere
  BY <1>1, CallIsSame DEF NothingNewYet
<1>2. ~AllPrepared
  <2> SUFFICES ASSUME AllPrepared PROVE AllPrepared'
    OBVIOUS
  <2>1. pc[e] = "write"
    BY DoneIsDone DEF AllPrepared, Writing
  <2>2. pc'[e] \in Writing \union {"done"}
    BY <1>1, <2>1, WriteFileDoes, WriteDirDoes
    DEF Step, Begin, PassOver, LookAtParent, Look, Move, CannotSave, MoveFails, Recheck, Note,
        Becomes, Writing
  <2>3. QED
    BY <1>1, <2>2, CallIsSame DEF AllPrepared, Others
<1>3. pc[e] # "write"
  BY <1>2 DEF Staged, PreparedFirst, Writing
<1>4. \A q \in Paths, f \in Entries : fs[q] # New(f)
  BY <1>2 DEF NothingNewYet
<1>5. \A q \in Paths, f \in Entries : fs'[q] # New(f)
  BY <1>1, <1>3, <1>4, TargetChanges, NodesDiffer DEF WriteFile, MayWrite
<1>6. QED
  BY <1>1, <1>2, <1>3, <1>5, CacheChanges DEF NothingNewYet

\* Who works alone is not disturbed.
LEMMA AloneInTurn ==
  ASSUME Staged, NEW e \in Entries, Step(e), NEW f \in Entries,
         pc[f] \notin {"waiting", "ready", "done"},
         caller \in {"to", "stream"} \/ (caller = "cli" /\ IsDir(f))
  PROVE  e = f
<1>1. TypeOK /\ LabelsAreRight /\ e \in Nat /\ f \in Nat /\ pc[e] \notin {"done", "ready"}
      /\ f \in Active
  BY TypesAre, DoneIsDone DEF Staged, Active, Started
<1>2. CASE caller \in {"to", "stream"}
  <2>1. CASE pc[e] = "waiting"
    BY <1>1, <1>2, <2>1, FirstStep DEF PassOver, PassedOver, LabelsAreRight, Begin, NextInOrder
  <2>2. CASE pc[e] # "waiting"
    BY <1>1, <1>2, <2>2 DEF Staged, OneAtATime, Active, Started
  <2>3. QED
    BY <2>1, <2>2
<1>3. CASE caller = "cli" /\ IsDir(f)
  <2>1. IsDir(e) /\ ~(e > f)
    BY <1>1, <1>3 DEF Staged, DirectoriesLast
  <2>2. ~(f > e)
    <3>1. CASE pc[e] = "waiting"
      BY <1>1, <1>3, <2>1, <3>1, FirstStep DEF PassOver, Begin, NextOfWorkers
    <3>2. CASE pc[e] # "waiting"
      BY <1>3, <2>1, <3>2 DEF Staged, DirectoriesLast
    <3>3. QED
      BY <3>1, <3>2
  <2>3. QED
    BY <1>1, <2>1, <2>2
<1>4. QED
  BY <1>2, <1>3

LEMMA FileIsMovedByStep ==
  ASSUME Staged, FileIsMoved, NEW e \in Entries, Step(e)
  PROVE  FileIsMoved'
<1>1. TypeOK /\ LabelsAreRight /\ LabelIsRight(e) /\ Others(e) /\ UNCHANGED call
  BY StepOfOne DEF Staged, LabelsAreRight
<1> SUFFICES ASSUME NEW f \in Entries,
                    pc'[f] = "move" \/ (pc'[f] = "look" /\ todo'[f] # Name(f)),
                    IF caller = "cli" THEN IsDir(f)
                    ELSE caller # "all" /\ (IsDir(f) \/ todo'[f] # Name(f))
             PROVE  IsFile(fs'[todo'[f]])
  BY <1>1, CallIsSame DEF FileIsMoved, LooksAgain
<1>2. CASE f = e
  <2>1. /\ todo'[e] = todo[e] /\ fs' = fs
        /\ IsFile(fs[todo[e]]) \/ (Look(e) /\ pc[e] = "look" /\ ~Fits(e))
    BY <1>1, <1>2, MoveAfterLook
  <2>2. CASE todo[e] # Name(e)
    BY <1>2, <2>1, <2>2 DEF FileIsMoved, LooksAgain
  <2>3. CASE todo[e] = Name(e)
    BY <1>2, <2>1, <2>3 DEF Fits, IsFile
  <2>4. QED
    BY <2>2, <2>3
<1>3. CASE f # e
  <2>1. pc[f] = "move" \/ LooksAgain(f)
    BY <1>1, <1>3 DEF Others, LooksAgain
  <2>2. caller \in {"to", "stream"} \/ (caller = "cli" /\ IsDir(f))
    BY <1>1, ConflictAssumption DEF TypeOK, ConflictAssumption
  <2>3. QED
    BY <1>3, <2>1, <2>2, AloneInTurn DEF LooksAgain
<1>4. QED
  BY <1>2, <1>3

LEMMA FolderIsFreeByStep ==
  ASSUME Staged, FileIsMoved, FolderIsFree, NEW e \in Entries, Step(e)
  PROVE  FolderIsFree'
<1>1. TypeOK /\ LabelsAreRight /\ LabelIsRight(e) /\ Others(e) /\ UNCHANGED call
  BY StepOfOne DEF Staged, LabelsAreRight
<1> SUFFICES ASSUME caller = "to", NEW f \in Entries
             PROVE  /\ pc'[f] = "waiting" \/ (pc'[f] \in {"parent", "look", "move"} /\ todo'[f] # Name(f)) =>
                         \A q \in Paths : ~IsFile(saves'[f][q])
                    /\ pc'[f] \in {"parent", "look", "move", "recheck"} \/ (pc'[f] = "note" /\ todo'[f] # Name(f)) =>
                         ~IsFile(saves'[f][Name(f)])
  BY <1>1, CallIsSame DEF FolderIsFree
<1>2. f \in DOMAIN saves /\ Folder(e) = e /\ Folder(f) = f /\ Name(f) \in Paths
  BY <1>1, TypesAre DEF Folder
<1>3. ASSUME ~(Move(e) /\ e = f), NEW q \in Paths, IsFile(saves'[f][q]) PROVE IsFile(saves[f][q])
  BY <1>1, <1>2, <1>3, FolderChanges DEF IsFile
<1>4. CASE f # e
  BY <1>1, <1>2, <1>3, <1>4 DEF Others, FolderIsFree
<1>5. CASE f = e /\ Move(e)
  <2>1. pc[e] = "move" /\ pc'[e] = "note" /\ todo'[e] = todo[e]
    BY <1>1, <1>5, MoveDoes DEF Becomes
  <2>2. ASSUME todo[e] # Name(e) PROVE ~IsFile(saves'[e][Name(e)])
    <3>1. todo[e] = Parent[Name(e)] /\ Name(e) \in Below(todo[e]) /\ todo[e] # Root
      BY <1>1, <1>2, <1>5, <2>2, TypesAre, ParentsAre DEF LabelIsRight, Below, LabelsTyped
    <3>2. IsFile(fs[todo[e]])
      BY <2>1, <2>2 DEF FileIsMoved
    <3>3. fs[Name(e)] = Missing
      BY <1>1, <1>2, <1>5, <3>1, <3>2 DEF TypeOK, WellFormed, IsFile
    <3>4. QED
      BY <1>1, <1>2, <1>5, <3>1, <3>3, MoveDoes DEF IsFile
  <2>3. QED
    BY <1>5, <2>1, <2>2
<1>6. CASE f = e /\ ~Move(e)
  <2>1. pc[e] = "waiting" \/ (pc[e] \in {"parent", "look"} /\ todo[e] # Name(e)) =>
          \A q \in Paths : ~IsFile(saves[e][q])
    BY DEF FolderIsFree
  <2>2. pc[e] \in {"parent", "look", "move", "recheck"} \/ (pc[e] = "note" /\ todo[e] # Name(e)) =>
          ~IsFile(saves[e][Name(e)])
    BY DEF FolderIsFree
  <2>3. pc'[e] # "waiting" /\ (pc'[e] \in {"parent", "look", "move"} /\ todo'[e] # Name(e) =>
          pc[e] = "waiting" \/ (pc[e] \in {"parent", "look"} /\ todo[e] # Name(e)))
    BY <1>1, <1>6, BeginDoes, PassOverDoes, LookAtParentDoes, LookDoes, CannotSaveDoes,
       MoveFailsDoes, RecheckDoes,
       NoteDoes, WriteFileDoes, WriteDirDoes DEF Step, Becomes, GoesOn
  <2>4. pc'[e] \in {"parent", "look", "move", "recheck"} \/ (pc'[e] = "note" /\ todo'[e] # Name(e)) =>
          \/ pc[e] \in {"waiting", "parent", "look", "move", "recheck"}
          \/ pc[e] = "note" /\ todo[e] # Name(e)
    BY <1>1, <1>6, BeginDoes, PassOverDoes, LookAtParentDoes, LookDoes, CannotSaveDoes,
       MoveFailsDoes, RecheckDoes,
       NoteDoes, WriteFileDoes, WriteDirDoes DEF Step, Becomes, GoesOn
  <2>5. \A q \in Paths : ~IsFile(saves[e][q]) => ~IsFile(saves'[e][q])
    BY <1>3, <1>6
  <2>6. QED
    BY <1>2, <1>6, <2>1, <2>2, <2>3, <2>4, <2>5
<1>7. QED
  BY <1>4, <1>5, <1>6

\* Before anything is written nothing is new, what was a file at the look is
\* moved as one where nobody else is at work, and a folder of zipy_extract_to
\* is empty when its entry comes to it.
THEOREM Orders == Spec => []Ordered
<1>1. Init => Ordered
  <2> SUFFICES ASSUME Init PROVE Ordered
    OBVIOUS
  <2>1. \A q \in Paths : had[q] \in {Missing, Dir} \/ had[q] = User(q)
    BY DEF Init, Trees, IsFile
  <2>2. NothingNewYet
    BY <2>1, NodesDiffer DEF Init, NothingNewYet
  <2>3. \A e \in Entries : e \in DOMAIN saves /\ \A q \in Paths : saves[e][q] = Missing
    <3>1. Len(archive) \in Nat /\ Entries = 1 .. Len(archive)
      BY InitTyped, TypesAre
    <3>2. saves = [i \in 0 .. Len(archive) |-> [p \in Paths |-> Missing]]
      BY DEF Init
    <3>3. \A e \in 1 .. Len(archive) : e \in 0 .. Len(archive)
      BY <3>1
    <3>4. QED
      BY <3>1, <3>2, <3>3
  <2>4. FileIsMoved /\ FolderIsFree
    BY <2>3 DEF Init, FileIsMoved, LooksAgain, FolderIsFree, IsFile
  <2>5. QED
    BY <2>2, <2>4 DEF Ordered
<1>2. Staged /\ Ordered /\ [Next]_vars => Ordered'
  <2> SUFFICES ASSUME Staged, Ordered, [Next]_vars PROVE Ordered'
    OBVIOUS
  <2>1. CASE Go \/ StampAll
    <3>1. caller = "all" /\ UNCHANGED << call >> /\ \A e \in Entries : pc'[e] \in Writing \union {"done"}
      BY <2>1, GoDoes, StampAllDoes DEF Staged, Writing
    <3>2. QED
      BY <3>1, CallIsSame DEF Ordered, NothingNewYet, FileIsMoved, LooksAgain, FolderIsFree,
         AllPrepared, Writing
  <2>2. CASE UNCHANGED vars
    BY <2>2, CallIsSame DEF vars, tools, Ordered, NothingNewYet, FileIsMoved, LooksAgain,
       FolderIsFree, AllPrepared
  <2>3. QED
    BY <2>1, <2>2, StepsAre, NothingNewByStep, FileIsMovedByStep, FolderIsFreeByStep DEF Ordered
<1>3. QED
  BY <1>1, <1>2, Stages, PTL DEF Spec

\* A file in a folder stays there, unless another file is moved over it.
LEMMA SavedStays ==
  ASSUME TypeOK, NEW e \in Entries, Step(e), NEW i \in DOMAIN saves, NEW p \in Paths,
         IsFile(saves[i][p])
  PROVE  \/ saves'[i][p] = saves[i][p]
         \/ /\ Move(e) /\ i = Folder(e) /\ todo[e] = p
            /\ IsFile(fs[p]) /\ saves'[i][p] = fs[p]
<1>1. CASE Move(e) /\ i = Folder(e)
  <2>1. /\ todo[e] \in Paths /\ saves[i] \in [Paths -> Nodes] /\ WellFormed(saves[i])
        /\ CanMakeParent(i, todo[e]) /\ CanRename(i, todo[e])
    BY <1>1, TypesAre, MoveDoes DEF LabelsTyped, TypeOK
  <2>2. CASE p \in Below(todo[e])
    <3>1. fs[todo[e]] \notin {Missing, Dir} /\ saves[i][todo[e]] # Dir
      BY <2>1, <2>2, NodesDiffer DEF CanRename, IsFile
    <3>2. p = todo[e]
      BY <2>1, <2>2, <3>1, ParentsAre DEF Below, WellFormed, IsFile
    <3>3. QED
      BY <1>1, <2>2, <3>1, <3>2, MoveDoes DEF IsFile
  <2>3. CASE p \notin Below(todo[e])
    <3>1. p # Parent[todo[e]]
      BY <2>1, ParentsAre DEF CanMakeParent
    <3>2. QED
      BY <1>1, <2>3, <3>1, MoveDoes
  <2>4. QED
    BY <2>2, <2>3
<1>2. CASE Move(e) /\ i # Folder(e)
  BY <1>2, MoveDoes
<1>3. CASE MoveFails(e)
  <2>1. todo[e] \in Paths /\ CanMakeParent(Folder(e), todo[e])
    BY <1>3, TypesAre DEF MoveFails, LabelsTyped
  <2>2. i = Folder(e) => p # Parent[todo[e]]
    BY <2>1, ParentsAre DEF CanMakeParent
  <2>3. QED
    BY <1>3, <2>2, MoveFailsDoes
<1>4. CASE ~Move(e) /\ ~MoveFails(e)
  <2>1. saves' = saves
    BY <1>4, BeginDoes, PassOverDoes, LookAtParentDoes, LookDoes, CannotSaveDoes, RecheckDoes,
       NoteDoes,
       WriteFileDoes, WriteDirDoes
    DEF Step
  <2>2. QED
    BY <2>1
<1>5. QED
  BY <1>1, <1>2, <1>3, <1>4

\* No new file is moved over one that was saved.
LEMMA NoNewOverSaved ==
  ASSUME Staged, Traced, Ordered, caller \in {"all", "to"} \/ Consistent,
         NEW e \in Entries, Move(e), IsFile(saves[Folder(e)][todo[e]]),
         NEW f \in Entries, fs[todo[e]] = New(f)
  PROVE  FALSE
<1>1. /\ pc[e] = "move" /\ todo[e] \in Paths /\ todo[e] \in {Name(e), Parent[Name(e)]}
  BY TypesAre DEF Staged, LabelsAreRight, LabelIsRight, LabelsTyped, Move
<1>2. CASE caller = "all"
  <2>1. ~AllPrepared
    BY <1>1 DEF AllPrepared, Writing
  <2>2. QED
    BY <1>1, <1>2, <2>1 DEF Ordered, NothingNewYet
<1>3. CASE caller = "to"
  BY <1>1, <1>3 DEF Ordered, FolderIsFree, Folder
<1>4. CASE Consistent
  <2>1. Name(f) = todo[e] /\ ~IsDir(f) /\ pc[f] = "done"
    BY <1>1 DEF Traced, FilesInPlace
  <2>2. QED
    BY <1>1, <1>4, <2>1 DEF Consistent
<1>5. QED
  BY <1>2, <1>3, <1>4

LEMMA KeptByStep ==
  ASSUME Staged, Traced, Ordered, OriginalsKept, NEW e \in Entries, Step(e)
  PROVE  OriginalsKept'
<1>1. TypeOK /\ UNCHANGED call /\ DOMAIN saves' = DOMAIN saves /\ Name(e) \in Paths /\ Folder(e) \in DOMAIN saves
  <2>1. TypeOK'
    BY StagedKept DEF Staged, Next, Step
  <2>2. QED
    BY <2>1, StepOfOne, TypesAre DEF Staged, TypeOK, call
<1>2. Consistent' <=> Consistent
  BY <1>1, CallIsSame DEF Consistent
<1> SUFFICES ASSUME caller \in {"all", "to"} \/ Consistent, NEW p \in Paths, had[p] = User(p)
             PROVE  \/ fs'[p] = User(p)
                    \/ \E i \in DOMAIN saves, q \in Paths : saves'[i][q] = User(p)
                    \/ \E f \in Entries : Name(f) = p /\ policies[f] = "overwrite"
  BY <1>1, <1>2, CallIsSame DEF OriginalsKept, SafeOnConflicts
<1>3. \/ fs[p] = User(p)
      \/ \E i \in DOMAIN saves, q \in Paths : saves[i][q] = User(p)
      \/ \E f \in Entries : Name(f) = p /\ policies[f] = "overwrite"
  BY DEF OriginalsKept, SafeOnConflicts
<1>4. CASE fs[p] = User(p)
  <2>1. CASE Move(e) /\ p \in Below(todo[e])
    BY <1>1, <1>4, <2>1, MoveDoes
  <2>2. ASSUME \E h \in Handles : WriteFile(e, h), p = Name(e)
        PROVE  policies[e] = "overwrite"
    BY <1>4, <2>2 DEF WriteFile, MayWrite, Traced, WayIsFree
  <2>3. QED
    BY <1>1, <1>4, <2>1, <2>2, TargetChanges, NodesDiffer
<1>5. ASSUME NEW i \in DOMAIN saves, NEW q \in Paths, saves[i][q] = User(p)
      PROVE  saves'[i][p] = User(p)
  <2>1. q = p /\ IsFile(saves[i][p])
    BY <1>5, NodesDiffer DEF Traced, SavesInPlace, IsFile
  <2>2. CASE saves'[i][p] = saves[i][p]
    BY <1>5, <2>1, <2>2
  <2>3. CASE /\ Move(e) /\ i = Folder(e) /\ todo[e] = p
             /\ IsFile(fs[p]) /\ saves'[i][p] = fs[p]
    <3>1. ~\E f \in Entries : fs[p] = New(f)
      BY <2>1, <2>3, NoNewOverSaved
    <3>2. \E r \in Paths : fs[p] = User(r)
      BY <1>1, <2>3, <3>1 DEF TypeOK, Nodes, IsFile
    <3>3. QED
      BY <2>3, <3>2 DEF Traced, FilesInPlace
  <2>4. QED
    BY <1>1, <2>1, <2>2, <2>3, SavedStays
<1>6. QED
  BY <1>3, <1>4, <1>5

\* Existing files are kept: each is in its place or in a folder of saved files,
\* unless the caller or the user said that this entry may overwrite it, if the
\* entries make up a tree, and for zipy_extract_all and zipy_extract_to even if
\* not, for any number of workers (prepare_conflict).
THEOREM ExistingFilesAreKept == Spec => []OriginalsKept
<1>1. Init => OriginalsKept
  BY DEF Init, OriginalsKept, SafeOnConflicts
<1>2. Staged /\ Traced /\ Ordered /\ OriginalsKept /\ [Next]_vars => OriginalsKept'
  <2> SUFFICES ASSUME Staged, Traced, Ordered, OriginalsKept, [Next]_vars PROVE OriginalsKept'
    OBVIOUS
  <2>1. CASE Go \/ StampAll \/ UNCHANGED vars
    <3>1. UNCHANGED << call, fs, saves >>
      BY <2>1, GoDoes, StampAllDoes DEF Staged, vars
    <3>2. QED
      BY <3>1, CallIsSame DEF OriginalsKept, SafeOnConflicts, Consistent
  <2>2. QED
    BY <2>1, StepsAre, KeptByStep
<1>3. QED
  BY <1>1, <1>2, Stages, Traces, Orders, PTL DEF Spec

-----------------------------------------------------------------------------
(* What a handle remembers *)

LEMMA ErrorStays ==
  ASSUME TypeOK, LabelsAreRight, NEW e \in Entries, Step(e), AnError
  PROVE  AnError'
<1>1. PICK f \in Entries : ret[f] = "EFILE"
  BY DEF AnError
<1>2. f # e
  BY <1>1, DoneIsDone DEF LabelsAreRight, LabelIsRight, Errors
<1>3. QED
  BY <1>1, <1>2, StepOfOne, CallIsSame DEF Others, AnError

\* A handle remembers a directory that is there.
LEMMA CacheIsSet ==
  ASSUME TypeOK, NEW e \in Entries, Step(e), NEW h \in 0 .. Jobs, NEW d \in Paths,
         cache'[h] = d, cache[h] # d
  PROVE  fs'[d] = Dir
<1>1. cache \in [0 .. Jobs -> Paths \union {Root, Nowhere}] /\ Name(e) \in Paths
  BY TypesAre DEF TypeOK
<1>2. pc[e] = "write"
  BY <1>1, CacheChanges
<1>3. ASSUME NEW g \in Handles, WriteFile(e, g) PROVE fs'[d] = Dir
  <2> DEFINE p == Name(e)
             made == WithParent(g, Parent[p])
             opens == ParentPrepared(g, Parent[p]) /\ IsDirNow(made, Parent[p]) /\ made[p] # Dir
  <2>1. /\ cache' = IF ParentPrepared(g, Parent[p]) THEN [cache EXCEPT ![g] = Parent[p]] ELSE cache
        /\ fs' = IF opens THEN [made EXCEPT ![p] = New(e)] ELSE made
    BY <1>3 DEF WriteFile
  <2>2. made \in [Paths -> Nodes] /\ p \in Paths
    BY <1>1, WithParentTyped
  <2> HIDE DEF opens
  <2>3. d = Parent[p] /\ g = h /\ ParentPrepared(g, d) /\ cache[g] # d
    BY <1>1, <2>1
  <2>4. made[d] = Dir
    BY <2>3, ParentsAre DEF ParentPrepared, IsDirNow
  <2>5. QED
    BY <2>1, <2>2, <2>3, <2>4, ParentsAre
<1>4. ASSUME NEW g \in Handles, WriteDir(e, g) PROVE fs'[d] = Dir
  BY <1>1, <1>4, WriteDirTree DEF WriteDir
<1>5. QED
  BY <1>2, <1>3, <1>4 DEF Step, Begin, PassOver, LookAtParent, Look, Move, CannotSave, MoveFails,
     Recheck, Note

\* A directory goes away with an entry that moves it, or the one it is in.
LEMMA DirectoryMoves ==
  ASSUME TypeOK, NEW e \in Entries, Step(e), NEW d \in Paths, fs[d] = Dir, fs'[d] # Dir
  PROVE  Move(e) /\ pc[e] = "move" /\ d \in Below(todo[e]) /\ (Parent[d] = Root => todo[e] = d)
<1>1. Move(e) /\ d \in Below(todo[e])
  BY TargetChanges, NodesDiffer
<1>2. todo[e] \in Paths
  BY TypesAre DEF LabelsTyped
<1>3. QED
  BY <1>1, <1>2, ParentsAre DEF Below, Move

LEMMA RememberedAllByStep ==
  ASSUME Staged, NothingNewYet, RememberedByAll, NEW e \in Entries, Step(e)
  PROVE  RememberedByAll'
<1>1. TypeOK /\ UNCHANGED call
  BY StepOfOne DEF Staged
<1> SUFFICES ASSUME caller = "all", NEW d \in Paths, NEW h \in 0 .. Jobs, cache'[h] = d
             PROVE  fs'[d] = Dir
  BY <1>1, CallIsSame DEF RememberedByAll
<1>2. CASE cache[h] = d
  <2>1. AllPrepared
    BY <1>2, ParentsAre DEF NothingNewYet
  <2>2. QED
    BY <1>1, <1>2, <2>1, DirectoryStays DEF RememberedByAll, AllPrepared
<1>3. CASE cache[h] # d
  BY <1>1, <1>3, CacheIsSet
<1>4. QED
  BY <1>2, <1>3

LEMMA RememberedInTurnByStep ==
  ASSUME Staged, FileIsMoved, RememberedInTurn, NEW e \in Entries, Step(e)
  PROVE  RememberedInTurn'
<1>1. TypeOK /\ LabelsAreRight /\ LabelIsRight(e) /\ Others(e) /\ UNCHANGED call
  BY StepOfOne DEF Staged, LabelsAreRight
<1> SUFFICES ASSUME caller \in {"to", "stream"}, NEW d \in Paths, Parent[d] = Root, cache'[0] = d,
                    fs'[d] # Dir, ~AnError'
             PROVE  \E f \in Entries : pc'[f] \in {"note", "write"} /\ todo'[f] = d /\ Name(f) = d
  BY <1>1, CallIsSame DEF RememberedInTurn
<1>2. cache[0] = d /\ ~AnError /\ Handles = {0}
  BY <1>1, CacheIsSet, ErrorStays, TypesAre DEF Handles
<1>3. CASE fs[d] = Dir
  <2>1. Move(e) /\ pc[e] = "move" /\ todo[e] = d
    BY <1>1, <1>3, DirectoryMoves
  <2>2. todo[e] = Name(e)
    BY <1>3, <2>1 DEF FileIsMoved, IsFile
  <2>3. QED
    BY <1>1, <2>1, <2>2, MoveDoes DEF Becomes
<1>4. CASE fs[d] # Dir
  <2>1. PICK f \in Entries : pc[f] \in {"note", "write"} /\ todo[f] = d /\ Name(f) = d
    BY <1>2, <1>4 DEF RememberedInTurn
  <2>2. e = f
    BY <2>1, AloneInTurn
  <2>3. ret'[e] # "EFILE"
    BY <1>1, CallIsSame DEF AnError
  <2>4. CASE Note(e)
    BY <1>1, <2>1, <2>2, <2>3, <2>4, NoteDoes DEF Becomes, GoesOn
  <2>5. ASSUME NEW h \in Handles, WriteFile(e, h) PROVE FALSE
    <3>1. fs'[Name(e)] = New(e) /\ pc'[e] = "done"
      BY <1>1, <2>3, <2>5, WriteFileDoes DEF Becomes
    <3>2. ParentPrepared(h, Parent[Name(e)])
      BY <1>1, <2>3, <2>5 DEF WriteFile, Returns, TypeOK
    <3>3. cache' = [cache EXCEPT ![0] = Root] /\ h = 0
      BY <1>2, <2>1, <2>2, <2>5, <3>2 DEF WriteFile
    <3>4. cache'[0] = Root
      BY <1>1, <3>3, TypesAre DEF TypeOK
    <3>5. QED
      BY <3>4, ParentsAre
  <2>6. ASSUME NEW h \in Handles, WriteDir(e, h) PROVE FALSE
    BY <1>1, <2>1, <2>2, <2>3, <2>6, WriteDirDoes DEF Becomes
  <2>7. QED
    BY <2>1, <2>2, <2>4, <2>5, <2>6
    DEF Step, Begin, PassOver, LookAtParent, Look, Move, CannotSave, MoveFails, Recheck
<1>5. QED
  BY <1>3, <1>4

\* In a consistent archive no file has the name of a parent.
LEMMA ParentsAreDirectories ==
  ASSUME TypeOK, Consistent, NEW f \in Entries, IsParent(Name(f))
  PROVE  IsDir(f)
<1>1. PICK e \in Entries : Parent[Name(e)] = Name(f)
  BY DEF IsParent
<1>2. e # f
  BY <1>1, TypesAre, ParentsAre
<1>3. QED
  BY <1>1, <1>2 DEF Consistent

LEMMA ParentSavedByStep ==
  ASSUME Staged, Traced, ParentIsSaved, NEW e \in Entries, Step(e)
  PROVE  ParentIsSaved'
<1>1. TypeOK /\ LabelsAreRight /\ LabelIsRight(e) /\ Others(e) /\ UNCHANGED call /\ 0 \in DOMAIN saves
  BY StepOfOne, TypesAre DEF Staged, LabelsAreRight
<1>2. (Consistent' <=> Consistent) /\ \A d \in Paths : IsParent(d)' <=> IsParent(d)
  BY <1>1, CallIsSame DEF Consistent, IsParent
<1>3. ASSUME caller = "cli", Consistent, NEW d \in Paths, IsParent(d), had[d] = User(d)
      PROVE  User(d) \in {fs'[d], saves'[0][d]}
  <2>1. CASE fs[d] = User(d)
    <3>1. CASE Move(e) /\ d \in Below(todo[e])
      BY <1>1, <1>3, <2>1, <3>1, MoveDoes DEF Folder
    <3>2. ~((\E h \in Handles : WriteFile(e, h)) /\ d = Name(e))
      BY <1>1, <1>3, ParentsAreDirectories, WriteFileDoes
    <3>3. QED
      BY <1>1, <2>1, <3>1, <3>2, TargetChanges, NodesDiffer
  <2>2. CASE saves[0][d] = User(d)
    <3>1. CASE Move(e) /\ IsFile(fs[d]) /\ saves'[0][d] = fs[d]
      <4>1. ~\E f \in Entries : fs[d] = New(f)
        BY <1>1, <1>3, ParentsAreDirectories DEF Traced, FilesInPlace
      <4>2. \E r \in Paths : fs[d] = User(r)
        BY <1>1, <3>1, <4>1 DEF TypeOK, Nodes, IsFile
      <4>3. QED
        BY <3>1, <4>2 DEF Traced, FilesInPlace
    <3>2. IsFile(saves[0][d])
      BY <2>2, NodesDiffer DEF IsFile
    <3>3. QED
      BY <1>1, <2>2, <3>1, <3>2, SavedStays
  <2>3. QED
    BY <1>3, <2>1, <2>2 DEF ParentIsSaved
<1>4. ASSUME caller = "cli", Consistent, NEW f \in Entries, pc'[f] \in {"look", "move"}, todo'[f] # Name(f)
      PROVE  had[todo'[f]] = User(todo'[f])
  <2>1. CASE f # e
    BY <1>1, <1>4, <2>1 DEF Others, ParentIsSaved
  <2>2. CASE f = e
    <3>1. /\ todo'[e] = todo[e] /\ todo[e] \in Paths /\ todo[e] = Parent[Name(e)] /\ IsParent(todo[e])
          /\ pc[e] = "look" \/ IsFile(fs[todo[e]])
      BY <1>1, <1>4, <2>2, MoveAfterLook, TypesAre DEF LabelIsRight, LabelsTyped, IsParent
    <3>2. CASE pc[e] = "look"
      BY <1>4, <2>2, <3>1, <3>2 DEF ParentIsSaved
    <3>3. CASE IsFile(fs[todo[e]])
      <4>1. ~\E g \in Entries : fs[todo[e]] = New(g)
        BY <1>1, <1>4, <3>1, ParentsAreDirectories DEF Traced, FilesInPlace
      <4>2. \E r \in Paths : fs[todo[e]] = User(r)
        BY <1>1, <3>1, <3>3, <4>1 DEF TypeOK, Nodes, IsFile
      <4>3. QED
        BY <2>2, <3>1, <4>2 DEF Traced, FilesInPlace
    <3>4. QED
      BY <3>1, <3>2, <3>3
  <2>3. QED
    BY <2>1, <2>2
<1>5. QED
  BY <1>1, <1>2, <1>3, <1>4, CallIsSame DEF ParentIsSaved

LEMMA RememberedByWorkersByStep ==
  ASSUME Staged, ParentIsSaved, RememberedByWorkers, NEW g \in Entries, Step(g)
  PROVE  RememberedByWorkers'
<1>1. TypeOK /\ LabelsAreRight /\ LabelIsRight(g) /\ Others(g) /\ UNCHANGED call
  BY StepOfOne DEF Staged, LabelsAreRight
<1>2. Consistent' <=> Consistent
  BY <1>1, CallIsSame DEF Consistent
<1> SUFFICES ASSUME caller = "cli", Consistent, NEW d \in Paths, NEW h \in 0 .. Jobs, NEW e \in Entries,
                    cache'[h] = d, Parent[Name(e)] = d, ~IsDir(e), pc'[e] # "done", fs'[d] # Dir, ~AnError'
             PROVE  FALSE
  BY <1>1, <1>2, CallIsSame DEF RememberedByWorkers
<1>3. cache[h] = d /\ ~AnError /\ pc[e] # "done"
  BY <1>1, CacheIsSet, ErrorStays, DoneIsDone DEF Others
<1>4. fs[d] = Dir
  BY <1>3 DEF RememberedByWorkers
<1>5. Parent[d] = Root /\ IsParent(d) /\ Name(e) \in Paths
  BY <1>1, TypesAre, ParentsAre DEF IsParent
<1>6. Move(g) /\ pc[g] = "move" /\ todo[g] = d
  BY <1>1, <1>4, <1>5, DirectoryMoves
<1>7. CASE todo[g] = Name(g)
  <2>1. IsDir(g)
    BY <1>1, <1>5, <1>6, <1>7, ParentsAreDirectories
  <2>2. QED
    BY <1>3, <1>6, <2>1 DEF Staged, DirectoriesLast
<1>8. CASE todo[g] # Name(g)
  <2>1. had[d] = User(d)
    BY <1>6, <1>8 DEF ParentIsSaved
  <2>2. saves[0][d] = User(d)
    BY <1>4, <1>5, <2>1, NodesDiffer DEF ParentIsSaved
  <2>3. ~IsFile(saves[0][d])
    BY <1>4, <1>6, NodesDiffer DEF Move, CanRename, Folder
  <2>4. QED
    BY <2>2, <2>3, NodesDiffer DEF IsFile
<1>9. QED
  BY <1>7, <1>8

\* What the handles remember is there, for each kind of caller for a reason of
\* its own (prepare_parent_dir_len, parent_cache).
THEOREM HandlesRemember == Spec => []Remembered
<1>1. Init => Remembered
  <2> SUFFICES ASSUME Init PROVE Remembered
    OBVIOUS
  <2>1. \A h \in 0 .. Jobs : cache[h] \notin Paths
    BY ParentsAre DEF Init
  <2>2. 0 \in 0 .. Jobs
    BY InitTyped, TypesAre
  <2>3. ParentIsSaved
    BY DEF Init, ParentIsSaved
  <2>4. QED
    BY <2>1, <2>2, <2>3 DEF Remembered, RememberedInTurn, RememberedByAll, RememberedByWorkers
<1>2. Staged /\ Traced /\ Ordered /\ Remembered /\ [Next]_vars => Remembered'
  <2> SUFFICES ASSUME Staged, Traced, Ordered, Remembered, [Next]_vars PROVE Remembered'
    OBVIOUS
  <2>1. CASE Go \/ StampAll \/ UNCHANGED vars
    <3>1. /\ UNCHANGED << call, fs, saves, todo, ret, cache >>
          /\ \A e \in Entries : pc[e] \in {"note", "write", "done"} => pc'[e] = pc[e]
          /\ \A e \in Entries : pc'[e] \in {"look", "move"} => pc'[e] = pc[e]
      BY <2>1, GoDoes, StampAllDoes DEF Staged, vars, tools
    <3>2. (Consistent' <=> Consistent) /\ (\A d \in Paths : IsParent(d)' <=> IsParent(d)) /\ (AnError' <=> AnError)
      BY <3>1, CallIsSame DEF Consistent, IsParent, AnError
    <3>3. RememberedInTurn' /\ RememberedByAll'
      BY <3>1, <3>2, CallIsSame DEF Remembered, RememberedInTurn, RememberedByAll
    <3>4. ParentIsSaved' /\ RememberedByWorkers'
      BY <3>1, <3>2, CallIsSame DEF Remembered, ParentIsSaved, RememberedByWorkers
    <3>5. QED
      BY <3>3, <3>4 DEF Remembered
  <2>2. ASSUME NEW e \in Entries, Step(e) PROVE Remembered'
    BY <2>2, RememberedAllByStep, RememberedInTurnByStep, ParentSavedByStep,
       RememberedByWorkersByStep
    DEF Remembered, Ordered
  <2>3. QED
    BY <2>1, <2>2, StepsAre
<1>3. QED
  BY <1>1, <1>2, Stages, Traces, Orders, PTL DEF Spec

\* When a file is opened, the directory that its handle need not make again is
\* there, unless there was an error; for any number of workers if the entries
\* make up a tree (prepare_parent_dir_len).
THEOREM ParentsAreThere == Spec => []RememberedParentIsThere
<1>1. Staged /\ Remembered => RememberedParentIsThere
  <2> SUFFICES ASSUME Staged, Remembered, NEW e \in Entries, NEW h \in Handles,
                      pc[e] = "write", ~IsDir(e), caller # "cli" \/ Consistent,
                      cache[h] = Parent[Name(e)], Parent[Name(e)] # Root
               PROVE  fs[Parent[Name(e)]] = Dir \/ AnError
    BY DEF RememberedParentIsThere, IsDirNow, AnError
  <2>1. TypeOK /\ Name(e) \in Paths /\ h \in 0 .. Jobs
    BY TypesAre DEF Staged
  <2>2. /\ Parent[Name(e)] \in Paths /\ Parent[Parent[Name(e)]] = Root
        /\ Parent[Name(e)] # Name(e)
    BY <2>1, ParentsAre
  <2>3. CASE caller = "all"
    BY <2>1, <2>2, <2>3 DEF Remembered, RememberedByAll
  <2>4. CASE caller \in {"to", "stream"}
    <3>1. h = 0
      BY <2>4 DEF Handles
    <3>2. ~\E f \in Entries : pc[f] \in {"note", "write"} /\ Name(f) = Parent[Name(e)]
      BY <2>2, <2>4 DEF Staged, OneAtATime, Active, Started
    <3>3. QED
      BY <2>2, <2>4, <3>1, <3>2 DEF Remembered, RememberedInTurn
  <2>5. CASE caller = "cli"
    BY <2>1, <2>2, <2>5 DEF Remembered, RememberedByWorkers
  <2>6. QED
    BY <2>1, <2>3, <2>4, <2>5, ConflictAssumption DEF TypeOK, ConflictAssumption
<1>2. QED
  BY <1>1, Stages, HandlesRemember, PTL

-----------------------------------------------------------------------------
(* The times of directories *)

LEMMA TimesOfAllByStep ==
  ASSUME Staged, TimesOfAll, NEW g \in Entries, Step(g)
  PROVE  TimesOfAll'
<1>1. TypeOK /\ Others(g) /\ UNCHANGED call /\ pc[g] # "done"
  BY StepOfOne, DoneIsDone DEF Staged
<1> SUFFICES ASSUME caller = "all", NEW e \in Entries, IsDir(e), pc'[e] = "done",
                    ret'[e] \notin Errors \union {"SKIPPED"}
             PROVE  FALSE
  BY <1>1, CallIsSame DEF TimesOfAll
<1>2. e = g
  BY <1>1 DEF Others, TimesOfAll
<1>3. QED
  BY <1>1, <1>2, BeginDoes, PassOverDoes, LookAtParentDoes, LookDoes, MoveDoes, CannotSaveDoes,
     MoveFailsDoes,
     RecheckDoes, NoteDoes, WriteFileDoes, WriteDirDoes
  DEF Step, Becomes, GoesOn, Errors

\* A directory loses its time when it is moved away or something comes into it.
LEMMA TimesChange ==
  ASSUME TypeOK, LabelsAreRight, NEW e \in Entries, Step(e), IsDir(e), NEW p \in stamped, p \notin stamped'
  PROVE  \/ Move(e) /\ (p \in Below(todo[e]) \/ p = Parent[todo[e]])
         \/ p = Parent[Name(e)]
<1>1. CASE Move(e)
  BY <1>1, MoveDoes
<1>2. CASE \E h \in Handles : WriteDir(e, h)
  BY <1>2 DEF WriteDir
<1>3. CASE \E h \in Handles : WriteFile(e, h)
  BY <1>3, WriteFileDoes
<1>4. QED
  BY <1>1, <1>2, <1>3, BeginDoes, PassOverDoes, LookAtParentDoes, LookDoes, CannotSaveDoes,
     MoveFailsDoes,
     RecheckDoes, NoteDoes
  DEF Step

LEMMA TimesOfWorkersByStep ==
  ASSUME Staged, FileIsMoved, TimesOfWorkers, NEW g \in Entries, Step(g)
  PROVE  TimesOfWorkers'
<1>1. TypeOK /\ LabelsAreRight /\ LabelIsRight(g) /\ Others(g) /\ UNCHANGED call /\ pc[g] # "done"
  BY StepOfOne, DoneIsDone DEF Staged, LabelsAreRight
<1>2. ParentsFirst' <=> ParentsFirst
  BY <1>1, CallIsSame DEF ParentsFirst
<1> SUFFICES ASSUME caller = "cli", ParentsFirst, NEW e \in Entries, IsDir(e), pc'[e] = "done",
                    ret'[e] \notin Errors \union {"SKIPPED"}
             PROVE  Name(e) \in stamped'
  BY <1>1, <1>2, CallIsSame DEF TimesOfWorkers
<1>3. CASE e = g
  BY <1>1, <1>3, BeginDoes, PassOverDoes, LookAtParentDoes, LookDoes, MoveDoes, CannotSaveDoes,
     MoveFailsDoes,
     RecheckDoes, NoteDoes, WriteFileDoes, WriteDirDoes
  DEF Step, Becomes, GoesOn, Errors
<1>4. CASE e # g
  <2>1. pc[e] = "done" /\ Name(e) \in stamped /\ Name(e) \in Paths /\ fs[Name(e)] = Dir
    BY <1>1, <1>4, TypesAre DEF Others, TimesOfWorkers, TypeOK
  <2>2. IsDir(g) /\ ~(g > e) /\ e \in Nat /\ g \in Nat
    BY <1>1, <2>1, TypesAre DEF Staged, DirectoriesLast
  <2>3. Name(e) # Parent[Name(g)]
    BY <1>4, <2>2 DEF ParentsFirst
  <2>4. ASSUME Move(g) PROVE Name(e) \notin Below(todo[g]) /\ Name(e) # Parent[todo[g]]
    <3>1. /\ IsFile(fs[todo[g]]) /\ todo[g] \in Paths /\ todo[g] \in {Name(g), Parent[Name(g)]}
          /\ Name(g) \in Paths
      BY <1>1, <2>2, <2>4, TypesAre DEF FileIsMoved, Move, LabelsTyped, LabelIsRight
    <3>2. Name(e) # todo[g] /\ Parent[Name(e)] # todo[g]
      BY <1>1, <2>1, <3>1, ParentsAre, NodesDiffer DEF TypeOK, WellFormed, IsFile
    <3>3. Name(e) # Parent[todo[g]]
      BY <2>1, <2>3, <3>1, ParentsAre
    <3>4. QED
      BY <3>2, <3>3 DEF Below
  <2>5. QED
    BY <1>1, <2>1, <2>2, <2>3, <2>4, TimesChange
<1>5. QED
  BY <1>3, <1>4

\* In the end the directories have the times of their entries, though files,
\* directories and conflicts came into them later, for any number of workers
\* (apply_directory_metadata, apply_directory_entries).
THEOREM DirectoriesKeepTimes == Spec => []DirectoryTimes
<1>1. Init => TimesOfAll /\ TimesOfWorkers
  BY DEF Init, TimesOfAll, TimesOfWorkers
<1>2. Staged /\ Ordered /\ TimesOfAll /\ TimesOfWorkers /\ [Next]_vars => TimesOfAll' /\ TimesOfWorkers'
  <2> SUFFICES ASSUME Staged, Ordered, TimesOfAll, TimesOfWorkers, [Next]_vars
               PROVE  TimesOfAll' /\ TimesOfWorkers'
    OBVIOUS
  <2>1. CASE Go
    <3>1. /\ caller = "all" /\ UNCHANGED << call, ret, stamped >>
          /\ \A e \in Entries : pc'[e] = "done" => pc[e] = "done"
          /\ \E e \in Entries : pc[e] # "done"
      BY <2>1, GoDoes DEF Staged, Go
    <3>2. QED
      BY <3>1, CallIsSame DEF TimesOfAll, TimesOfWorkers
  <2>2. CASE StampAll
    <3>1. /\ caller = "all" /\ UNCHANGED << call, ret >>
          /\ \A e \in Entries : pc[e] \in {"stamp", "done"} /\ pc'[e] = "done"
          /\ stamped' = stamped \union { Name(e) : e \in { f \in Entries : pc[f] = "stamp" } }
      BY <2>2, StampAllDoes DEF Staged
    <3>2. QED
      BY <3>1, CallIsSame DEF TimesOfAll, TimesOfWorkers
  <2>3. CASE UNCHANGED vars
    BY <2>3, CallIsSame DEF vars, tools, TimesOfAll, TimesOfWorkers, ParentsFirst
  <2>4. QED
    BY <2>1, <2>2, <2>3, StepsAre, TimesOfAllByStep, TimesOfWorkersByStep DEF Ordered
<1>3. TimesOfAll /\ TimesOfWorkers => DirectoryTimes
  BY DEF TimesOfAll, TimesOfWorkers, DirectoryTimes
<1>4. QED
  BY <1>1, <1>2, <1>3, Stages, Orders, PTL DEF Spec
=============================================================================

--------------------------- MODULE StreamWalk_proofs ---------------------------
(***************************************************************************)
(* What StreamWalk promises, for archives of any number of entries, under  *)
(* any series of calls, arrivals, failures and kills.                      *)
(***************************************************************************)
EXTENDS StreamWalk, TLAPS

-----------------------------------------------------------------------------
(* The inductive invariant *)

Working == {"conflict", "extract", "descriptor"}

\* Where the next header is read, or for an entry with a descriptor that.
Behind(k) == IF HasDesc(k) THEN Desc(k) ELSE Header(k + 1)

\* A call that resumes was done with entry k without reading its data.
Stayed(k) ==
  /\ opts.resume /\ archive[k].kind # "dir" /\ ~Unsized(k) /\ archive[k].bytes
  /\ pos = Data(k)

\* The position and the entry go together, but for an entry that was there.
InPlace ==
  /\ pc \in Working => at <= Count
  /\ pc = "header" => pos = Header(at) \/ (at > 1 /\ Stayed(at - 1))
  /\ pc \in {"conflict", "extract"} => pos = AtData(at)
  /\ pc = "descriptor" => pos = Behind(at) \/ Stayed(at)

\* The data of known size of the entry that is read has arrived.
HasArrived ==
  pc \in Working /\ ~Unsized(at) /\ archive[at].bytes => Here(Data(at))

\* The entries up to this one have been dealt with, and no other.
Dealt == IF pc = "descriptor" THEN 1 .. at ELSE 1 .. at - 1
HandledInTurn ==
  pc # "idle" =>
    /\ handled = Dealt
    /\ \A k \in handled : out[k] = "new" \/ (opts.policy = "skip" /\ out[k] = "old")

IInv == TypeOK /\ InPlace /\ HasArrived /\ HandledInTurn /\ OkMeansAll /\ StaysInStep

-----------------------------------------------------------------------------
(* Facts about archives *)

\* What StreamAssumption says of the archive that is read.
LEMMA EntriesAre ==
  ASSUME archive \in Contents
  PROVE  /\ Count \in Nat
         /\ \A k \in 1 .. Count :
              /\ archive[k] \in [kind : {"dir", "store", "deflate", "other"},
                                 desc : {"none", "sized", "unsized"}, bytes : BOOLEAN]
              /\ archive[k].kind = "dir" => archive[k].desc # "unsized"
              /\ archive[k].kind # "dir" /\ ~archive[k].bytes =>
                   archive[k].kind = "store" /\ archive[k].desc # "sized"
<1> DEFINE R == [kind : {"dir", "store", "deflate", "other"}, desc : {"none", "sized", "unsized"},
                 bytes : BOOLEAN]
<1>1. archive \in Seq(R)
  BY StreamAssumption DEF StreamAssumption
<1> HIDE DEF R
<1>2. Len(archive) \in Nat /\ DOMAIN archive = 1 .. Len(archive)
  BY <1>1
<1>3. \A k \in 1 .. Len(archive) : archive[k] \in R
  BY <1>1, <1>2
<1>4. \A k \in DOMAIN archive :
        IF archive[k].kind = "dir" THEN archive[k].desc # "unsized"
        ELSE ~archive[k].bytes => archive[k].kind = "store" /\ archive[k].desc # "sized"
  BY StreamAssumption DEF StreamAssumption
<1>5. QED
  BY <1>2, <1>3, <1>4 DEF Count, R

\* The pieces of an entry follow each other.
LEMMA PiecesFollow ==
  ASSUME TypeOK, NEW k \in 1 .. Count
  PROVE  /\ Header(k) \in Nat /\ Header(k) >= 1 /\ Header(k) < Data(k)
         /\ Data(k) < Desc(k) /\ Desc(k) < Header(k + 1)
         /\ Header(k + 1) <= Central /\ Central \in Nat
         /\ AtData(k) \in {Data(k), Desc(k), Header(k + 1)}
         /\ AtDesc(k) \in {Desc(k), Header(k + 1)}
         /\ archive[k].bytes \/ AtData(k) = AtDesc(k)
         /\ archive[k].bytes => AtData(k) = Data(k)
         /\ Behind(k) = IF archive[k].desc = "none" \/ ~Unsized(k) THEN AtDesc(k)
                        ELSE Header(k + 1)
<1>1. Count \in Nat /\ k \in Nat /\ k >= 1 /\ k <= Count
  BY EntriesAre DEF TypeOK
<1>2. archive[k] \in [kind : {"dir", "store", "deflate", "other"},
                      desc : {"none", "sized", "unsized"}, bytes : BOOLEAN]
  BY EntriesAre DEF TypeOK
<1>3. QED
  BY <1>1, <1>2 DEF Header, Data, Desc, Central, AtData, AtDesc, Behind, HasDesc, Unsized

-----------------------------------------------------------------------------
(* A step that ends the call *)

LEMMA CallEnds ==
  ASSUME IInv, pc' = "idle", UNCHANGED << archive, visible, opts, at, pos, statePath, handled >>,
         ret' \in {"OK", "EINCOMPLETE", "EFILE", "ESIZE", "EUNSUP", "EEXIST", "ECANCEL",
                   "FAILED", "KILLED"},
         ret' \in {"EFILE", "ESIZE"} => opts.resume,
         ret' = "OK" => pc = "header" /\ pos = Central /\ visible >= Central - 1 /\ out' = out,
         out' \in [1 .. Count -> {"none", "old", "new"}],
         part' \in [1 .. Count -> {"none", "some", "full"}],
         status' \in {"none", "extracting", "skipped", "done", "complete", "incomplete", "failed"},
         faulty' \in BOOLEAN
  PROVE  IInv'
<1>1. TypeOK'
  BY DEF IInv, TypeOK, Count, Central, Header, Data, Desc, Here
<1>2. InPlace' /\ HasArrived' /\ HandledInTurn'
  BY DEF InPlace, HasArrived, HandledInTurn, Working
<1>3. ASSUME ret' = "OK"
      PROVE  handled = 1 .. Count /\ \A k \in handled : out[k] = "new" \/ (opts.policy = "skip" /\ out[k] = "old")
  <2>1. at = Count + 1
    <3>1. Count \in Nat /\ at \in 1 .. Count + 1
      BY EntriesAre DEF IInv, TypeOK
    <3>2. pos = Header(at) \/ (at > 1 /\ pos = Data(at - 1))
      BY <1>3 DEF IInv, InPlace, Stayed
    <3>3. QED
      BY <1>3, <3>1, <3>2 DEF Header, Data, Central
  <2>2. handled = 1 .. Count
    BY <1>3, <2>1, EntriesAre DEF IInv, TypeOK, HandledInTurn, Dealt
  <2>3. QED
    BY <1>3, <2>2 DEF IInv, HandledInTurn
<1>4. OkMeansAll' /\ StaysInStep'
  BY <1>3 DEF OkMeansAll, StaysInStep, Count, Central, Header
<1>5. QED
  BY <1>1, <1>2, <1>4 DEF IInv

\* What the file of states and the results may hold.
LEMMA EndsIsTyped ==
  ASSUME TypeOK, NEW r \in {"OK", "EINCOMPLETE", "EFILE", "ESIZE", "EUNSUP", "EEXIST", "ECANCEL",
                            "FAILED"},
         Ends(r)
  PROVE  /\ pc' = "idle" /\ ret' = r
         /\ status' \in {"none", "extracting", "skipped", "done", "complete", "incomplete", "failed"}
  BY DEF TypeOK, Ends, Report

\* Nothing but the result changes.
LEMMA OnlyEnds ==
  ASSUME IInv, NEW r \in {"OK", "EINCOMPLETE", "EFILE", "ESIZE", "EUNSUP", "EEXIST", "ECANCEL",
                            "FAILED"},
         Ends(r), Unchanged1, UNCHANGED << cursor, handled >>, faulty' \in BOOLEAN,
         r \in {"EFILE", "ESIZE"} => opts.resume,
         r = "OK" => pc = "header" /\ pos = Central /\ visible >= Central - 1
  PROVE  IInv'
<1>1. pc' = "idle" /\ ret' = r
      /\ status' \in {"none", "extracting", "skipped", "done", "complete", "incomplete", "failed"}
  BY EndsIsTyped DEF IInv
<1>2. UNCHANGED << archive, visible, opts, at, pos, statePath, handled, out, part >>
  BY DEF Unchanged1, cursor
<1>3. out \in [1 .. Count -> {"none", "old", "new"}] /\ part \in [1 .. Count -> {"none", "some", "full"}]
  BY DEF IInv, TypeOK
<1>4. QED
  BY <1>1, <1>2, <1>3, CallEnds

LEMMA HeaderMissingKeeps == ASSUME IInv, HeaderMissing PROVE IInv'
  BY OnlyEnds DEF HeaderMissing, IInv, TypeOK

LEMMA ReachCentralKeeps == ASSUME IInv, ReachCentral PROVE IInv'
  BY OnlyEnds DEF ReachCentral, IInv, TypeOK

\* Only a call that resumes reads anything else in the place of a header.
LEMMA MisreadKeeps == ASSUME IInv, Misread PROVE IInv'
<1>1. opts.resume
  BY DEF Misread, IInv, InPlace, Stayed
<1>2. QED
  BY <1>1, OnlyEnds DEF Misread, IInv, TypeOK

LEMMA RefuseExistingKeeps == ASSUME IInv, RefuseExisting PROVE IInv'
  BY OnlyEnds DEF RefuseExisting, IInv, TypeOK

LEMMA CancelKeeps == ASSUME IInv, Cancel PROVE IInv'
  BY OnlyEnds DEF Cancel, IInv, TypeOK

LEMMA DescriptorFailsKeeps == ASSUME IInv, DescriptorFails PROVE IInv'
<1>1. pos # Desc(at) => opts.resume
  BY DEF DescriptorFails, IInv, InPlace, Stayed, Behind
<1>2. QED
  BY <1>1, OnlyEnds DEF DescriptorFails, IInv, TypeOK

LEMMA UnsizedIncompleteKeeps == ASSUME IInv, UnsizedIncomplete PROVE IInv'
<1>1. pc' = "idle" /\ ret' = "EINCOMPLETE"
      /\ status' \in {"none", "extracting", "skipped", "done", "complete", "incomplete", "failed"}
  BY EndsIsTyped DEF IInv, UnsizedIncomplete
<1>2. part' \in [1 .. Count -> {"none", "some", "full"}] /\ out \in [1 .. Count -> {"none", "old", "new"}]
  BY DEF UnsizedIncomplete, IInv, TypeOK
<1>3. QED
  BY <1>1, <1>2, CallEnds DEF UnsizedIncomplete, cursor, IInv, TypeOK

LEMMA ExtractFailsKeeps == ASSUME IInv, ExtractFails PROVE IInv'
<1>1. pc' = "idle" /\ ret' = "FAILED"
      /\ status' \in {"none", "extracting", "skipped", "done", "complete", "incomplete", "failed"}
  <2>1. CASE Ends("FAILED")
    BY <2>1, EndsIsTyped DEF IInv
  <2>2. CASE GoTo("idle") /\ ret' = "FAILED" /\ (UNCHANGED status \/ Report("extracting"))
    BY <2>2 DEF GoTo, Report, IInv, TypeOK
  <2>3. QED
    BY <2>1, <2>2 DEF ExtractFails
<1>2. part' \in [1 .. Count -> {"none", "some", "full"}]
  BY DEF ExtractFails, IInv, TypeOK
<1>3. out' \in [1 .. Count -> {"none", "old", "new"}]
  BY DEF ExtractFails, IInv, TypeOK
<1>4. QED
  BY <1>1, <1>2, <1>3, CallEnds DEF ExtractFails, cursor

LEMMA KillKeeps == ASSUME IInv, Kill PROVE IInv'
<1>1. part' \in [1 .. Count -> {"none", "some", "full"}]
  BY DEF Kill, IInv, TypeOK
<1>2. out' \in [1 .. Count -> {"none", "old", "new"}]
  BY DEF Kill, IInv, TypeOK
<1>3. QED
  BY <1>1, <1>2, CallEnds DEF Kill, cursor, IInv, TypeOK

-----------------------------------------------------------------------------
(* Between two calls *)

LEMMA ArriveKeeps == ASSUME IInv, Arrive PROVE IInv'
<1>1. visible \in Nat /\ Central \in Nat /\ visible' = visible + 1 /\ visible' <= Central
  BY EntriesAre DEF Arrive, IInv, TypeOK, Central, Header
<1>2. Count' = Count /\ Central' = Central /\ UNCHANGED << archive, opts, pc, at, pos, statePath, out, part, status, handled, faulty >>
  BY DEF Arrive, cursor, durable, Count, Central, Header
<1>3. TypeOK'
  BY <1>1, <1>2, EntriesAre DEF Arrive, IInv, TypeOK, Here, Header, Data, Desc
<1>4. QED
  BY <1>2, <1>3 DEF Arrive, IInv, InPlace, HasArrived, HandledInTurn, Working, OkMeansAll, StaysInStep

\* What is before piece p of the archive has arrived.
Arrived(p) ==
  \A k \in 1 .. Count :
    /\ Header(k) < p => Here(Header(k))
    /\ Data(k) < p /\ archive[k].bytes => Here(Data(k))
    /\ Desc(k) < p /\ archive[k].desc # "none" => Here(Desc(k))

\* So it does piece by piece.
LEMMA OnePieceMore ==
  ASSUME TypeOK, NEW k \in 1 .. Count
  PROVE  /\ Arrived(Header(k)) /\ Here(Header(k)) => Arrived(Data(k))
         /\ Arrived(Data(k)) /\ (archive[k].bytes => Here(Data(k))) => Arrived(Desc(k))
         /\ Arrived(Desc(k)) /\ (archive[k].desc # "none" => Here(Desc(k))) => Arrived(Header(k + 1))
<1>1. Count \in Nat /\ k \in Nat /\ visible \in Nat
  BY EntriesAre DEF TypeOK, Central, Header
<1>2. ASSUME NEW j \in 1 .. Count
      PROVE  /\ Header(j) < Data(k) <=> Header(j) < Header(k) \/ j = k
             /\ Data(j) < Data(k) <=> Data(j) < Header(k)
             /\ Desc(j) < Data(k) <=> Desc(j) < Header(k)
             /\ Header(j) < Desc(k) <=> Header(j) < Data(k)
             /\ Data(j) < Desc(k) <=> Data(j) < Data(k) \/ j = k
             /\ Desc(j) < Desc(k) <=> Desc(j) < Data(k)
             /\ Header(j) < Header(k + 1) <=> Header(j) < Desc(k)
             /\ Data(j) < Header(k + 1) <=> Data(j) < Desc(k)
             /\ Desc(j) < Header(k + 1) <=> Desc(j) < Desc(k) \/ j = k
  <2>1. j \in Int /\ k \in Int
    BY <1>1
  <2>2. QED
    BY <2>1 DEF Header, Data, Desc
<1>3. QED
  BY <1>2 DEF Arrived

\* A step after which the call goes on: the results do not change.
LEMMA CallGoesOn ==
  ASSUME IInv, UNCHANGED << archive, visible, ret >>,
         opts' \in [resume : BOOLEAN, policy : Policies \union {"overwrite"}],
         pc' \in {"header"} \union Working,
         at' \in 1 .. Count + 1, pos' \in 1 .. Central, Arrived(pos'),
         statePath' \in {"file", "target"},
         out' \in [1 .. Count -> {"none", "old", "new"}],
         part' \in [1 .. Count -> {"none", "some", "full"}],
         status' \in {"none", "extracting", "skipped", "done", "complete", "incomplete", "failed"},
         handled' \subseteq 1 .. Count, faulty' \in BOOLEAN,
         InPlace', HasArrived', HandledInTurn'
  PROVE  IInv'
<1>1. Count' = Count /\ Central' = Central /\ \A k \in 1 .. Count : archive'[k] = archive[k]
  BY DEF Count, Central, Header
<1>2. visible' \in 0 .. Central' /\ archive' \in Contents
      /\ ret' \in {"none", "OK", "EINCOMPLETE", "EFILE", "ESIZE", "EUNSUP", "EEXIST",
                   "ECANCEL", "FAILED", "KILLED"}
  BY <1>1 DEF IInv, TypeOK
<1>3. \A k \in 1 .. Count' :
        /\ Header(k) < pos' => Here(Header(k))'
        /\ Data(k) < pos' /\ archive'[k].bytes => Here(Data(k))'
        /\ Desc(k) < pos' /\ archive'[k].desc # "none" => Here(Desc(k))'
  BY <1>1 DEF Arrived, Here, Header, Data, Desc
<1>4. TypeOK'
  BY <1>1, <1>2, <1>3 DEF TypeOK, Working, Header, Data, Desc
<1>5. OkMeansAll' /\ StaysInStep'
  BY DEF OkMeansAll, StaysInStep, Working
<1>6. QED
  BY <1>4, <1>5 DEF IInv

LEMMA StartKeeps ==
  ASSUME IInv, NEW o \in [resume : BOOLEAN, policy : Policies], Start(o)
  PROVE  IInv'
<1>1. Count \in Nat /\ Central \in Nat /\ Central >= 1
  BY EntriesAre DEF IInv, TypeOK, Central, Header
<1>2. opts' \in [resume : BOOLEAN, policy : Policies \union {"overwrite"}]
  BY DEF Start
<1>3. at' \in 1 .. Count + 1 /\ pos' \in 1 .. Central /\ pos' = Header(1)
  BY <1>1 DEF Start, Header
<1>4. Arrived(pos')
  BY <1>1, <1>3 DEF Arrived, Header, Data, Desc
<1>5. InPlace' /\ HasArrived' /\ HandledInTurn'
  BY <1>3 DEF Start, GoTo, InPlace, HasArrived, HandledInTurn, Dealt, Working, Header
<1>6. QED
  BY <1>1, <1>2, <1>3, <1>4, <1>5, CallGoesOn DEF Start, GoTo, durable, IInv, TypeOK

-----------------------------------------------------------------------------
(* The walk *)

LEMMA ReadHeaderKeeps == ASSUME IInv, ReadHeader PROVE IInv'
<1>1. CASE Ends("EUNSUP") /\ UNCHANGED pos
  BY <1>1, OnlyEnds DEF ReadHeader, cursor, IInv, TypeOK
<1>2. CASE Ends("EINCOMPLETE") /\ UNCHANGED pos
  BY <1>2, OnlyEnds DEF ReadHeader, cursor, IInv, TypeOK
<1>3. CASE /\ ~Unsized(at) /\ archive[at].bytes => Here(Data(at))
           /\ pos' = AtData(at) /\ GoTo("conflict") /\ UNCHANGED << ret, status >>
  <2>1. at \in 1 .. Count
    BY EntriesAre DEF ReadHeader, IInv, TypeOK, Central, Header
  <2>2. UNCHANGED << archive, visible, opts, at, statePath, out, part, handled, faulty >>
    BY DEF ReadHeader, Unchanged1
  <2>3. pos' \in 1 .. Central /\ Arrived(pos')
    <3>1. pos = Header(at) /\ Here(Header(at))
      BY DEF ReadHeader
    <3>2. Arrived(Data(at))
      BY <2>1, <3>1, OnePieceMore DEF Arrived, IInv, TypeOK
    <3>3. ~archive[at].bytes => Arrived(AtDesc(at))
      BY <2>1, <3>2, OnePieceMore DEF AtDesc, IInv
    <3>4. Arrived(pos')
      BY <1>3, <2>1, <3>2, <3>3, PiecesFollow DEF IInv
    <3>5. pos' \in 1 .. Central
      BY <1>3, <2>1, PiecesFollow DEF IInv, Header, Data, Desc
    <3>6. QED
      BY <3>4, <3>5
  <2>4. InPlace' /\ HasArrived'
    BY <1>3, <2>1, <2>2
    DEF GoTo, InPlace, HasArrived, Working, AtData, AtDesc, Header, Data, Desc, Unsized, Here, Count
  <2>5. HandledInTurn'
    BY <1>3, <2>2 DEF ReadHeader, GoTo, IInv, HandledInTurn, Dealt
  <2>6. QED
    BY <1>3, <2>1, <2>2, <2>3, <2>4, <2>5, CallGoesOn DEF GoTo, IInv, TypeOK, Working
<1>4. QED
  BY <1>1, <1>2, <1>3 DEF ReadHeader

\* The data is there: the position may go behind it.
LEMMA DataIsPassed ==
  ASSUME IInv, pc \in {"conflict", "extract"}, ~Unsized(at)
  PROVE  /\ at \in 1 .. Count /\ Arrived(AtDesc(at)) /\ AtDesc(at) \in 1 .. Central
         /\ AtDesc(at) = Behind(at)
<1>1. at \in 1 .. Count
  BY EntriesAre DEF IInv, TypeOK, InPlace, Working
<1>2. Arrived(AtData(at))
  BY DEF Arrived, IInv, TypeOK, InPlace
<1>3. Arrived(AtDesc(at))
  BY <1>1, <1>2, OnePieceMore, PiecesFollow DEF AtDesc, IInv, HasArrived, Working
<1>4. AtDesc(at) \in 1 .. Central
  BY <1>1, PiecesFollow DEF IInv, AtDesc, Header, Data, Desc
<1>5. QED
  BY <1>1, <1>3, <1>4, PiecesFollow DEF IInv

\* An entry is dealt with: the position goes behind its data, or stays.
LEMMA EntryIsDone ==
  ASSUME IInv, pc \in {"conflict", "extract"}, ~Unsized(at), pc' = "descriptor",
         UNCHANGED << archive, visible, opts, at, ret, faulty >>,
         pos' = AtDesc(at) \/ (pos' = pos /\ opts.resume /\ archive[at].kind # "dir"),
         handled' = handled \union {at},
         out'[at] = "new" \/ (opts.policy = "skip" /\ out'[at] = "old"),
         \A k \in 1 .. Count : k # at => out'[k] = out[k],
         out' \in [1 .. Count -> {"none", "old", "new"}],
         part' \in [1 .. Count -> {"none", "some", "full"}],
         status' \in {"none", "extracting", "skipped", "done", "complete", "incomplete", "failed"},
         statePath' \in {"file", "target"}
  PROVE  IInv'
<1>1. /\ at \in 1 .. Count /\ Arrived(AtDesc(at)) /\ AtDesc(at) \in 1 .. Central
      /\ AtDesc(at) = Behind(at)
  BY DataIsPassed
<1>2. pos' \in 1 .. Central /\ Arrived(pos')
  BY <1>1 DEF IInv, TypeOK, Arrived
<1>3. pos' = Behind(at) \/ (Stayed(at))'
  BY <1>1, PiecesFollow DEF IInv, InPlace, Stayed, Unsized, Data
<1>4. InPlace' /\ HasArrived'
  BY <1>1, <1>3
  DEF IInv, InPlace, HasArrived, Working, Behind, HasDesc, Unsized, Header, Desc, Data, Here, Count
<1>5. handled = 1 .. at - 1 /\ handled' = 1 .. at
  BY <1>1, EntriesAre DEF IInv, TypeOK, HandledInTurn, Dealt
<1>6. HandledInTurn'
  BY <1>1, <1>5, EntriesAre DEF IInv, TypeOK, HandledInTurn, Dealt
<1>7. QED
  BY <1>1, <1>2, <1>4, <1>5, <1>6, CallGoesOn, EntriesAre DEF IInv, TypeOK, Working

LEMMA SkipExistingKeeps == ASSUME IInv, SkipExisting PROVE IInv'
<1>1. CASE Unsized(at)
  BY <1>1, OnlyEnds DEF SkipExisting, cursor, IInv, TypeOK
<1>2. CASE ~Unsized(at)
  <2>1. at \in 1 .. Count
    BY EntriesAre DEF SkipExisting, IInv, TypeOK, InPlace, Working
  <2>2. out[at] \in {"old", "new"}
    BY <2>1 DEF SkipExisting, Conflict, IInv, TypeOK
  <2>3. QED
    BY <1>2, <2>2, EntryIsDone DEF SkipExisting, Unchanged1, GoTo, IInv, TypeOK
<1>3. QED
  BY <1>1, <1>2

LEMMA GoOnKeeps == ASSUME IInv, GoOn PROVE IInv'
<1>1. at \in 1 .. Count
  BY EntriesAre DEF GoOn, IInv, TypeOK, InPlace, Working
<1>2. out' \in [1 .. Count -> {"none", "old", "new"}] /\ \A k \in 1 .. Count : k # at => out'[k] = out[k]
  BY <1>1 DEF GoOn, IInv, TypeOK
<1>3. UNCHANGED << archive, visible, opts, at, pos, statePath, ret, part, status, handled, faulty >>
      /\ pc' = "extract"
  BY DEF GoOn, cursor, GoTo
<1>4. Arrived(pos') /\ pos' \in 1 .. Central
  BY <1>3 DEF IInv, TypeOK, Arrived
<1>5. InPlace' /\ HasArrived'
  BY <1>3 DEF GoOn, IInv, InPlace, HasArrived, Working, AtData, AtDesc, Unsized, Header, Data, Desc,
              Here, Count
<1>6. handled = 1 .. at - 1
  BY DEF GoOn, IInv, HandledInTurn, Dealt
<1>7. HandledInTurn'
  BY <1>1, <1>2, <1>3, <1>6, EntriesAre DEF GoOn, IInv, TypeOK, HandledInTurn, Dealt
<1>8. QED
  BY <1>1, <1>2, <1>3, <1>4, <1>5, <1>7, CallGoesOn DEF IInv, TypeOK, Working

LEMMA MakeDirectoryKeeps == ASSUME IInv, MakeDirectory PROVE IInv'
<1>1. ~Unsized(at) /\ at \in 1 .. Count
  BY EntriesAre DEF MakeDirectory, Unsized, IInv, TypeOK, InPlace, Working
<1>2. out' \in [1 .. Count -> {"none", "old", "new"}] /\ out'[at] = "new"
      /\ \A k \in 1 .. Count : k # at => out'[k] = out[k]
  BY <1>1 DEF MakeDirectory, IInv, TypeOK
<1>3. QED
  BY <1>1, <1>2, EntryIsDone DEF MakeDirectory, Unchanged2, Done, GoTo, IInv, TypeOK

LEMMA AlreadyThereKeeps == ASSUME IInv, AlreadyThere PROVE IInv'
<1>1. ~Unsized(at) /\ at \in 1 .. Count
  BY EntriesAre DEF AlreadyThere, SizedFile, IInv, TypeOK, InPlace, Working
<1>2. out' \in [1 .. Count -> {"none", "old", "new"}] /\ out'[at] = "new"
      /\ \A k \in 1 .. Count : k # at => out'[k] = out[k]
  BY <1>1 DEF AlreadyThere, IInv, TypeOK
<1>3. part' \in [1 .. Count -> {"none", "some", "full"}]
  BY <1>1 DEF AlreadyThere, IInv, TypeOK
<1>4. status' \in {"none", "extracting", "skipped", "done", "complete", "incomplete", "failed"}
  BY DEF AlreadyThere, Report, IInv, TypeOK
<1>5. QED
  BY <1>1, <1>2, <1>3, <1>4, EntryIsDone
  DEF AlreadyThere, SizedFile, Unchanged2, Done, GoTo, IInv, TypeOK

LEMMA ExtractSizedKeeps == ASSUME IInv, ExtractSized PROVE IInv'
<1>1. ~Unsized(at) /\ at \in 1 .. Count
  BY EntriesAre DEF ExtractSized, SizedFile, IInv, TypeOK, InPlace, Working
<1>2. out' \in [1 .. Count -> {"none", "old", "new"}] /\ out'[at] = "new"
      /\ \A k \in 1 .. Count : k # at => out'[k] = out[k]
  BY <1>1 DEF ExtractSized, IInv, TypeOK
<1>3. part' \in [1 .. Count -> {"none", "some", "full"}]
  BY <1>1 DEF ExtractSized, IInv, TypeOK
<1>4. status' \in {"none", "extracting", "skipped", "done", "complete", "incomplete", "failed"}
  BY DEF ExtractSized, Report, IInv, TypeOK
<1>5. QED
  BY <1>1, <1>2, <1>3, <1>4, EntryIsDone DEF ExtractSized, Unchanged2, Done, GoTo, IInv, TypeOK

\* An entry of unknown size: the position is behind its descriptor, which is there.
LEMMA ExtractUnsizedKeeps == ASSUME IInv, ExtractUnsized PROVE IInv'
<1>1. at \in 1 .. Count
  BY EntriesAre DEF ExtractUnsized, IInv, TypeOK, InPlace, Working
<1>2. UNCHANGED << archive, visible, opts, at, ret, faulty >> /\ pc' = "descriptor"
      /\ pos' = Header(at + 1) /\ handled' = handled \union {at}
  BY DEF ExtractUnsized, Unchanged2, Done, GoTo
<1>3. out' \in [1 .. Count -> {"none", "old", "new"}] /\ out'[at] = "new"
      /\ \A k \in 1 .. Count : k # at => out'[k] = out[k]
  BY <1>1 DEF ExtractUnsized, IInv, TypeOK
<1>4. part' \in [1 .. Count -> {"none", "some", "full"}]
  BY <1>1 DEF ExtractUnsized, IInv, TypeOK
<1>5. status' \in {"none", "extracting", "skipped", "done", "complete", "incomplete", "failed"}
      /\ statePath' \in {"file", "target"}
  BY DEF ExtractUnsized, Report, IInv, TypeOK
<1>6. Arrived(pos') /\ pos' \in 1 .. Central
  <2>1. Arrived(AtData(at)) /\ Here(Desc(at))
    BY DEF Arrived, ExtractUnsized, EndInSight, IInv, TypeOK, InPlace
  <2>2. visible \in Nat /\ Data(at) \in Nat /\ Desc(at) \in Nat /\ Data(at) < Desc(at)
    BY <1>1, PiecesFollow, EntriesAre DEF IInv, TypeOK, Central, Header, Data, Desc
  <2>3. Here(Data(at))
    BY <2>1, <2>2 DEF Here
  <2>4. Arrived(Header(at + 1))
    BY <1>1, <2>1, <2>3, OnePieceMore, PiecesFollow DEF AtDesc, AtData, IInv
  <2>5. QED
    BY <1>1, <1>2, <2>4, PiecesFollow DEF IInv, Header, Data, Desc
<1>7. InPlace' /\ HasArrived'
  BY <1>1, <1>2 DEF ExtractUnsized, InPlace, HasArrived, Working, Behind, HasDesc, Unsized, Header, Count
<1>8. handled = 1 .. at - 1 /\ handled' = 1 .. at
  BY <1>1, <1>2, EntriesAre DEF ExtractUnsized, IInv, TypeOK, HandledInTurn, Dealt
<1>9. HandledInTurn'
  BY <1>1, <1>2, <1>3, <1>8, EntriesAre DEF ExtractUnsized, IInv, TypeOK, HandledInTurn, Dealt
<1>10. QED
  BY <1>1, <1>2, <1>3, <1>4, <1>5, <1>6, <1>7, <1>8, <1>9, CallGoesOn, EntriesAre
  DEF IInv, TypeOK, Working

LEMMA PassDescriptorKeeps == ASSUME IInv, PassDescriptor PROVE IInv'
<1>1. at \in 1 .. Count
  BY EntriesAre DEF PassDescriptor, IInv, TypeOK, InPlace, Working
<1>2. UNCHANGED << archive, visible, opts, statePath, ret, out, part, status, handled, faulty >>
      /\ pc' = "header" /\ at' = at + 1
  BY DEF PassDescriptor, durable, GoTo
<1>3. CASE HasDesc(at)
  <2>1. pos = Desc(at) /\ Here(Desc(at)) /\ pos' = Header(at + 1)
    BY <1>3 DEF PassDescriptor
  <2>2. Arrived(Desc(at))
    BY <2>1 DEF Arrived, IInv, TypeOK
  <2>3. Arrived(pos') /\ pos' \in 1 .. Central
    BY <1>1, <2>1, <2>2, OnePieceMore, PiecesFollow DEF IInv, Header, Data, Desc
  <2>4. QED
    <3>1. InPlace' /\ HasArrived'
      BY <1>1, <1>2, <2>1, EntriesAre DEF IInv, TypeOK, InPlace, HasArrived, Working, Header
    <3>2. HandledInTurn'
      BY <1>1, <1>2, EntriesAre DEF PassDescriptor, IInv, TypeOK, HandledInTurn, Dealt
    <3>3. QED
      BY <1>1, <1>2, <2>3, <3>1, <3>2, CallGoesOn, EntriesAre DEF IInv, TypeOK
<1>4. CASE ~HasDesc(at)
  <2>1. pos' = pos /\ (pos = Header(at + 1) \/ Stayed(at))
    BY <1>4 DEF PassDescriptor, IInv, InPlace, Behind
  <2>2. Arrived(pos') /\ pos' \in 1 .. Central
    BY <2>1 DEF IInv, TypeOK, Arrived
  <2>3. InPlace' /\ HasArrived'
    <3>1. at' > 1 /\ at' - 1 = at
      BY <1>1, <1>2, EntriesAre DEF IInv, TypeOK
    <3>2. QED
      BY <1>1, <1>2, <2>1, <3>1 DEF InPlace, HasArrived, Working, Header, Data, Stayed, Unsized
  <2>4. HandledInTurn'
    BY <1>1, <1>2, EntriesAre DEF PassDescriptor, IInv, TypeOK, HandledInTurn, Dealt
  <2>5. QED
    BY <1>1, <1>2, <2>2, <2>3, <2>4, CallGoesOn, EntriesAre DEF IInv, TypeOK
<1>5. QED
  BY <1>3, <1>4

-----------------------------------------------------------------------------
(* The theorems *)

LEMMA InitHolds == ASSUME Init PROVE IInv
<1>1. Count \in Nat /\ Central \in Nat /\ Central >= 1
  BY EntriesAre DEF Init, Central, Header
<1>2. TypeOK
  <2>1. opts \in [resume : BOOLEAN, policy : Policies \union {"overwrite"}]
    BY DEF Init
  <2>2. at \in 1 .. Count + 1 /\ pos \in 1 .. Central
    BY <1>1 DEF Init
  <2>3. out \in [1 .. Count -> {"none", "old", "new"}] /\ handled \subseteq 1 .. Count
    BY DEF Init
  <2>4. \A k \in 1 .. Count : ~(Header(k) < pos) /\ ~(Data(k) < pos) /\ ~(Desc(k) < pos)
    BY <1>1 DEF Init, Header, Data, Desc
  <2>5. visible \in 0 .. Central /\ part \in [1 .. Count -> {"none", "some", "full"}]
    BY DEF Init
  <2>6. QED
    BY <2>1, <2>2, <2>3, <2>4, <2>5 DEF Init, TypeOK
<1>3. QED
  BY <1>2 DEF Init, IInv, InPlace, HasArrived, HandledInTurn, Working, OkMeansAll, StaysInStep

LEMMA StepKeeps == ASSUME IInv, [Next]_vars PROVE IInv'
<1>1. CASE UNCHANGED vars
  BY <1>1 DEF vars, cursor, durable, IInv, TypeOK, InPlace, HasArrived, HandledInTurn, OkMeansAll, StaysInStep,
      Dealt, Stayed, Behind, Working, AtData, AtDesc, HasDesc, Unsized, Here, Central, Header, Data, Desc, Count
<1>2. ASSUME NEW o \in [resume : BOOLEAN, policy : Policies], Start(o)
      PROVE  IInv'
  BY <1>2, StartKeeps
<1>3. QED
  BY <1>1, <1>2, ArriveKeeps, HeaderMissingKeeps, ReachCentralKeeps, MisreadKeeps, ReadHeaderKeeps,
     SkipExistingKeeps, RefuseExistingKeeps, GoOnKeeps, MakeDirectoryKeeps, AlreadyThereKeeps,
     ExtractSizedKeeps, ExtractUnsizedKeeps, UnsizedIncompleteKeeps, ExtractFailsKeeps, CancelKeeps,
     PassDescriptorKeeps, DescriptorFailsKeeps, KillKeeps
  DEF Next

\* The invariant of the walk (zipy_extract_stream): the position is where the
\* entry is, what was passed has arrived, the entries are handled in turn.
THEOREM Invariance == Spec => []IInv
<1>1. Init => IInv
  BY InitHolds
<1>2. IInv /\ [Next]_vars => IInv'
  BY StepKeeps
<1>3. QED
  BY <1>1, <1>2, PTL DEF Spec

\* No call reads behind what has arrived, and the durable files keep their
\* states (zipy_extract_stream).
THEOREM TypeCorrect == Spec => []TypeOK
<1>1. IInv => TypeOK
  BY DEF IInv
<1>2. QED
  BY <1>1, Invariance, PTL

\* ZIPY_ZIP_OK means that every entry was met and is extracted, or was left as
\* it was where the caller asked for that, for any number of entries
\* (zipy_extract_stream).
THEOREM OkIsAll == Spec => []OkMeansAll
<1>1. IInv => OkMeansAll
  BY DEF IInv
<1>2. QED
  BY <1>1, Invariance, PTL

\* A call that does not resume never loses its place in a well-formed archive,
\* whatever it skips, saves or extracts (zipy_extract_stream).
THEOREM WalkStaysInStep == Spec => []StaysInStep
<1>1. IInv => StaysInStep
  BY DEF IInv
<1>2. QED
  BY <1>1, Invariance, PTL

\* Only an archive that is not all there is called incomplete; or one without
\* entries (zipy_extract_stream).
THEOREM IncompleteIsRight == Spec => IncompleteIsTruncated
<1>1. ASSUME IInv, [Next]_vars
      PROVE  [ret' = "EINCOMPLETE" /\ pc # "idle" /\ pc' = "idle" /\ Count > 0 => visible < Central]_vars
  <2> SUFFICES ASSUME ret' = "EINCOMPLETE", pc # "idle", pc' = "idle", Count > 0, Next
               PROVE  visible < Central
    BY <1>1 DEF vars
  <2>1. visible \in Nat /\ Central \in Nat /\ Count \in Nat /\ pos \in 1 .. Central /\ at \in Nat
    BY <1>1, EntriesAre DEF IInv, TypeOK, Central, Header
  <2>2. pc \in Working => at \in 1 .. Count
    BY <1>1, <2>1 DEF IInv, TypeOK, InPlace
  <2>3. CASE HeaderMissing
    BY <2>1, <2>3 DEF HeaderMissing, Here
  <2>4. CASE ReadHeader
    <3>1. at \in 1 .. Count
      BY <1>1, <2>1, <2>4 DEF ReadHeader, IInv, TypeOK, Central, Header
    <3>2. ~Here(Data(at))
      BY <2>4 DEF ReadHeader, Ends, GoTo
    <3>3. QED
      BY <1>1, <2>1, <3>1, <3>2, PiecesFollow DEF IInv, Here, Header, Data, Desc
  <2>5. CASE UnsizedIncomplete
    <3>1. at \in 1 .. Count
      BY <2>2, <2>5 DEF UnsizedIncomplete, Working
    <3>2. ~Here(Desc(at)) \/ ~Here(Desc(at) + 1)
      BY <2>5 DEF UnsizedIncomplete, EndOutOfSight
    <3>3. QED
      BY <1>1, <2>1, <3>1, <3>2, PiecesFollow DEF IInv, Here, Header, Data, Desc
  <2>6. CASE DescriptorFails
    BY <2>1, <2>6 DEF DescriptorFails, Ends, Here
  <2>7. QED
    BY <2>3, <2>4, <2>5, <2>6
    DEF Next, Arrive, Start, ReachCentral, Misread, SkipExisting, RefuseExisting, GoOn,
        MakeDirectory, AlreadyThere, ExtractSized, ExtractUnsized, ExtractFails, Cancel,
        PassDescriptor, Kill, Ends, GoTo
<1>2. QED
  BY <1>1, Invariance, PTL DEF Spec, IncompleteIsTruncated
=============================================================================

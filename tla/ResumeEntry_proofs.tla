-------------------------- MODULE ResumeEntry_proofs --------------------------
(***************************************************************************)
(* Proofs about ResumeEntry, for a file of any size, any archive, any      *)
(* files that were there at first, and runs with any options; about        *)
(* EntryData, for every payload and every way to extract it, and chunks of *)
(* any length; and about Ciphers, for blocks, counters and digests of any  *)
(* length, data in any pieces, any password and any number of turns:       *)
(*                                                                         *)
(*   - what is taken for extracted is whole, checked and told once;        *)
(*   - what is sound is extracted;                                         *)
(*   - all paths accept the same data;                                     *)
(*   - what the cipher and the hash do in pieces is what they do to the    *)
(*     whole, and the key is derived as RFC 2898 has it.                   *)
(*                                                                         *)
(* Each loop over the data has a set of states that its turns keep         *)
(* (StoredSoFar, Inflated, Streaming).  That a loop which keeps such a set *)
(* ends in it is LoopKeeps, by induction on the turns; what a loop         *)
(* computes is a recursive function, which has a value because of          *)
(* LoopExists.  The state of the hash after any updates is Sha of all they *)
(* brought.                                                                *)
(***************************************************************************)
EXTENDS MCResumeEntry, Iteration

-----------------------------------------------------------------------------
(* The inductive invariant *)

\* Where a part is written there is one, not larger than the entry.
PartThere ==
  /\ pc \in {"copy", "inflate", "fill", "flush", "metadata", "rename"} => File(part)
  /\ pc \in {"copy", "flush"} => part.size <= Size
  /\ pc = "inflate" => part.size = 0 /\ part.good
  /\ pc \in {"fill", "metadata", "rename"} => part.size = Size

MethodFits ==
  /\ pc = "copy" => Stored
  /\ pc \in {"inflate", "fill", "flush"} => ~Stored

\* Only plain data is appended to; who begins anew has nothing to lose.
Appending ==
  /\ pc \in {"final", "part"} => offset = 0
  /\ pc \in {"report", "open", "copy"} /\ offset > 0 => Stored /\ ~Encrypted
  /\ pc \in {"report", "open"} /\ offset = 0 => part = None \/ part.size = 0

\* What comes from a good archive is good, as far as it goes.
OwnBytes ==
  archive.intact =>
    /\ ~foreign /\ Stored /\ File(part) => part.good
    /\ pc = "copy" /\ offset = 0 => part.good
    /\ pc = "flush" => part.good

Verified(f) == CheckCrc \/ Sealed \/ (archive.intact /\ ~foreign) => f.good

\* No output gets to its attributes and its rename without the checks.
Checks ==
  /\ pc = "flush" => Accepts(archive.intact)
  /\ pc \in {"metadata", "rename"} => Verified(part)
  /\ pc = "rename" /\ opts.meta => part.meta

\* After the rename the destination is whole and the part is gone.
InPlace ==
  /\ pc \in {"adopted", "attributes", "done"} =>
       /\ FullSize(dest) /\ part = None
       /\ checked \/ (archive.intact /\ ~foreign) => dest.good
       /\ CheckCrc => dest.good
  /\ pc = "done" /\ opts.meta => dest.meta

\* A run that fails by itself has read all of a bad part; the next one starts anew.
Waste ==
  archive.intact =>
    /\ wasted <= 1
    /\ pc \in {"failed", "undone"} /\ ~faulty => wasted = 0 /\ part.size \notin 1 .. Size - 1
    /\ wasted = 1 /\ pc # "idle" => offset = 0
    /\ wasted = 1 /\ pc \in {"idle", "final", "part"} => part.size \notin 1 .. Size - 1

IInv ==
  /\ TypeOK /\ PartThere /\ MethodFits /\ Appending /\ OwnBytes /\ Checks /\ InPlace
  /\ DestWhole /\ OkIsInPlace /\ StateTruthful /\ Waste

-----------------------------------------------------------------------------
(* Facts about files *)

\* No file is mistaken for the absence of one.
LEMMA FilesAreThere == /\ None.size = -1 /\ ~File(None) /\ Empty \in Files
                       /\ \A f \in Files : File(f) /\ f.size \in Nat /\ f.good \in BOOLEAN
  BY DEF None, Files, File, Empty

\* One more chunk: of a good archive it does no harm, and nothing makes good what is not.
LEMMA Growing ==
  ASSUME NEW f \in Files, archive.intact \in BOOLEAN, ResumeAssumption
  PROVE  /\ Grown(f) \in Files
         /\ Grown(f).size = f.size + 1
         /\ archive.intact => Grown(f).good = f.good
<1>1. f.size \in Nat /\ f.good \in BOOLEAN /\ f.meta \in BOOLEAN
  BY DEF Files
<1> QED BY <1>1 DEF Files, Grown

\* The entry and the options are of the kinds that are named.
LEMMA Inputs ==
  ASSUME ResumeAssumption, archive \in Archives, opts \in Options
  PROVE  /\ archive.intact \in BOOLEAN
         /\ archive.method \in {"store", "deflate"}
         /\ opts.resume \in BOOLEAN /\ opts.crc \in BOOLEAN /\ opts.meta \in BOOLEAN
         /\ Size \in Nat
  BY DEF ResumeAssumption

\* The attributes of a file are not its size and its bytes.
LEMMA Attributes ==
  ASSUME NEW f \in Files
  PROVE  /\ [f EXCEPT !.meta = TRUE] \in Files
         /\ [f EXCEPT !.meta = TRUE].size = f.size
         /\ [f EXCEPT !.meta = TRUE].good = f.good
         /\ [f EXCEPT !.meta = TRUE].meta
  BY DEF Files

-----------------------------------------------------------------------------
(* The first state, and every action *)

\* A first state has no run, and whatever files the user has.
LEMMA InitHolds == ResumeAssumption /\ Init => IInv
<1> SUFFICES ASSUME ResumeAssumption, Init PROVE IInv
  OBVIOUS
<1>0. {dest, part} \subseteq {None} \union Files
  BY DEF ResumeAssumption, Init
<1>1. TypeOK
  <2>1. /\ archive \in Archives /\ opts \in Options /\ offset \in 0 .. Size - 1 \union {0}
        /\ wasted \in 0 .. MaxWasted
    BY DEF ResumeAssumption, Init, MaxWasted
  <2>2. foreign \in BOOLEAN /\ checked \in BOOLEAN /\ faulty \in BOOLEAN
    BY DEF Init
  <2> QED BY <1>0, <2>1, <2>2 DEF Init, TypeOK
<1>2. OwnBytes
  BY <1>1, FilesAreThere DEF Init, OwnBytes, TypeOK, File
<1> QED
  BY <1>1, <1>2
  DEF Init, IInv, PartThere, MethodFits, Appending, Checks, InPlace, DestWhole, OkIsInPlace,
      StateTruthful, Waste

\* What a run finds changes no file but a part that is of no use.
LEMMA LookSteps ==
  ASSUME ResumeAssumption, IInv,
         (\E o \in Options : Start(o)) \/ Skip \/ LookAtPart \/ LookFails \/ Continue \/ Restart
  PROVE  IInv'
<1> USE ResumeAssumption, Inputs, FilesAreThere
    DEF IInv, TypeOK, PartThere, MethodFits, Appending, OwnBytes, Checks, InPlace, DestWhole,
        OkIsInPlace, StateTruthful, Waste, Verified, Accepts, File, FullSize, Stored,
        Encrypted, Sealed, CheckCrc, MaxWasted
<1>1. CASE \E o \in Options : Start(o)
  <2>1. PICK o \in Options : Start(o)
    BY <1>1
  <2>2. TypeOK'
    BY <2>1 DEF Start, durable
  <2> QED
    BY <2>1, <2>2 DEF Start, durable
<1>2. CASE Skip
  BY <1>2 DEF Skip, FinalIsDone, Report, Ends, Calm
<1>3. CASE LookAtPart
  BY <1>3 DEF LookAtPart, durable, history
<1>4. CASE LookFails
  BY <1>4 DEF LookFails, durable, Ends, Fault
<1>5. CASE Continue
  BY <1>5 DEF Continue, Continuable, durable, history
<1>6. CASE Restart
  <2>1. part' \in {None} \/ (part' = part /\ part.size = 0)
    BY <1>6 DEF Restart
  <2>2. TypeOK'
    BY <1>6, <2>1 DEF Restart, history
  <2> QED
    BY <1>6, <2>1, <2>2 DEF Restart, history
<1> QED BY <1>1, <1>2, <1>3, <1>4, <1>5, <1>6

\* A part is adopted whole.
LEMMA AdoptSteps ==
  ASSUME ResumeAssumption, IInv,
         Adopt \/ AdoptFails \/ AdoptReport \/ AdoptMetadata \/ AdoptMetadataFails
  PROVE  IInv'
<1> USE ResumeAssumption, Inputs, FilesAreThere
    DEF IInv, TypeOK, PartThere, MethodFits, Appending, OwnBytes, Checks, InPlace, DestWhole,
        OkIsInPlace, StateTruthful, Waste, Verified, Accepts, File, FullSize, Stored,
        Encrypted, Sealed, CheckCrc, MaxWasted
<1>1. CASE Adopt
  BY <1>1 DEF Adopt, Complete, Publish, CrcMatches
<1>2. CASE AdoptFails
  BY <1>2 DEF AdoptFails, durable, Ends, Fault
<1>3. CASE AdoptReport
  BY <1>3 DEF AdoptReport, Report, history
<1>4. CASE AdoptMetadata
  <2>1. dest \in Files
    BY <1>4 DEF AdoptMetadata
  <2>2. dest' \in Files /\ dest'.size = dest.size /\ dest'.good = dest.good
    BY <1>4, <2>1, Attributes DEF AdoptMetadata
  <2>3. opts.meta => dest'.meta
    BY <1>4, <2>1, Attributes DEF AdoptMetadata
  <2>4. /\ pc = "attributes" /\ pc' = "idle" /\ ret' = "OK" /\ wasted' = 0
        /\ UNCHANGED << archive, opts, offset, part, state, foreign, checked, faulty >>
    BY <1>4 DEF AdoptMetadata, Ends, Calm
  <2> QED
    BY <2>2, <2>3, <2>4
<1>5. CASE AdoptMetadataFails
  BY <1>5 DEF AdoptMetadataFails, durable, Ends, Fault
<1> QED BY <1>1, <1>2, <1>3, <1>4, <1>5

\* Output goes to the part, and is checked.
LEMMA OutputSteps ==
  ASSUME ResumeAssumption, IInv,
         ReportStart \/ OpenFails \/ Open \/ Copy \/ CopyEnds \/ InflateMapped \/ Fill \/ InflateInMemory \/ Flush \/ WriteFails
  PROVE  IInv'
<1> USE ResumeAssumption, Inputs, FilesAreThere
    DEF IInv, TypeOK, PartThere, MethodFits, Appending, OwnBytes, Checks, InPlace, DestWhole,
        OkIsInPlace, StateTruthful, Waste, Verified, Accepts, File, FullSize, Stored,
        Encrypted, Sealed, CheckCrc, MaxWasted
<1>1. CASE ReportStart
  BY <1>1 DEF ReportStart, Report, history
<1>2. CASE OpenFails
  BY <1>2 DEF OpenFails, durable, Ends, Fault
<1>3. CASE Open
  BY <1>3 DEF Open, history, Empty
<1>4. CASE Copy
  BY <1>4, Growing DEF Copy, history
<1>5. CASE CopyEnds
  BY <1>5 DEF CopyEnds, CrcMatches, durable, history
<1>6. CASE InflateMapped
  BY <1>6 DEF InflateMapped, history, Files
<1>7. CASE Fill
  BY <1>7 DEF Fill, history, Files
<1>8. CASE InflateInMemory
  BY <1>8 DEF InflateInMemory, durable, history
<1>9. CASE Flush
  BY <1>9, Growing DEF Flush, history
<1>10. CASE WriteFails
  BY <1>10 DEF WriteFails, durable, Fault
<1> QED BY <1>1, <1>2, <1>3, <1>4, <1>5, <1>6, <1>7, <1>8, <1>9, <1>10

\* A run ends, is killed, or goes on with something else.
LEMMA EndSteps ==
  ASSUME ResumeAssumption, IInv,
         SetMetadata \/ Rename \/ FinishFails \/ DropPart \/ Finish \/ Crash \/ UNCHANGED vars
  PROVE  IInv'
<1> USE ResumeAssumption, Inputs, FilesAreThere
    DEF IInv, TypeOK, PartThere, MethodFits, Appending, OwnBytes, Checks, InPlace, DestWhole,
        OkIsInPlace, StateTruthful, Waste, Verified, Accepts, File, FullSize, Stored,
        Encrypted, Sealed, CheckCrc, MaxWasted
<1>1. CASE SetMetadata
  BY <1>1, Attributes DEF SetMetadata, history
<1>2. CASE Rename
  BY <1>2 DEF Rename, Publish
<1>3. CASE FinishFails
  BY <1>3 DEF FinishFails, durable, Fault
<1>4. CASE DropPart
  BY <1>4 DEF DropPart, history
<1>5. CASE Finish
  BY <1>5 DEF Finish, Report, Ends, Calm
<1>6. CASE Crash
  BY <1>6 DEF Crash, durable, Ends, Fault
<1>7. CASE UNCHANGED vars
  BY <1>7 DEF vars, durable, history
<1> QED BY <1>1, <1>2, <1>3, <1>4, <1>5, <1>6, <1>7

\* Whatever step is taken, the invariant still holds.
LEMMA StepHolds == ResumeAssumption /\ IInv /\ [Next]_vars => IInv'
  BY LookSteps, AdoptSteps, OutputSteps, EndSteps DEF Next

-----------------------------------------------------------------------------
(* Theorems *)

\* The invariant holds in every state that any series of runs reaches.
THEOREM Invariance == Spec => []IInv
<1>1. Init => IInv
  BY InitHolds, ResumeAssumption
<1>2. IInv /\ [Next]_vars => IInv'
  BY StepHolds, ResumeAssumption
<1> QED BY <1>1, <1>2, PTL DEF Spec

\* The variables keep their types, and a run that appends has the part it measured.
THEOREM TypeCorrect == Spec => []TypeOK
<1>1. IInv => TypeOK
  BY DEF IInv
<1> QED BY <1>1, Invariance, PTL

\* A destination is never partial, and never wrong where it can be known, whatever
\* was killed, and whatever part and destination there were at first.
THEOREM DestinationIsWhole == Spec => []DestWhole
<1>1. IInv => DestWhole
  BY DEF IInv
<1> QED BY <1>1, Invariance, PTL

\* A run that says OK has put the file in place, checked, with its attributes.
THEOREM OkIsTrue == Spec => []OkIsInPlace
<1>1. IInv => OkIsInPlace
  BY DEF IInv
<1> QED BY <1>1, Invariance, PTL

\* resume_state.txt does not say done or skipped before the destination is there.
THEOREM StateFileIsTruthful == Spec => []StateTruthful
<1>1. IInv => StateTruthful
  BY DEF IInv
<1> QED BY <1>1, Invariance, PTL

\* With a good archive no part makes a second run fail.
THEOREM BadPartIsShed == Spec => []BadPartCostsOneRun
<1>1. IInv => BadPartCostsOneRun
  BY DEF IInv, Waste, BadPartCostsOneRun
<1> QED BY <1>1, Invariance, PTL

\* A step of a resuming run does not shorten a part of a plain stored entry.
LEMMA StepKeepsBytes ==
  ASSUME ResumeAssumption, IInv, [Next]_vars,
         opts.resume, Stored, ~Encrypted, part.size \in 1 .. Size - 1
  PROVE  part'.size >= part.size
<1> USE Inputs, FilesAreThere DEF IInv, TypeOK, PartThere, MethodFits, Appending, File, Stored
<1>1. part \in Files /\ part.size \in Nat
  OBVIOUS
<1>2. CASE UNCHANGED part
  BY <1>1, <1>2
<1>3. CASE Restart
  BY <1>1, <1>3 DEF Restart, Continuable
<1>4. CASE Adopt
  BY <1>1, <1>4 DEF Adopt, Complete, FullSize, ResumeAssumption
<1>5. CASE Open
  BY <1>1, <1>5 DEF Open
<1>6. CASE Copy \/ Flush
  BY <1>1, <1>6, Growing DEF Copy, Flush
<1>7. CASE InflateMapped \/ Fill
  BY <1>7 DEF InflateMapped, Fill
<1>8. CASE SetMetadata
  BY <1>1, <1>8, Attributes DEF SetMetadata
<1>9. CASE Rename
  BY <1>1, <1>9 DEF Rename, ResumeAssumption
<1>10. CASE DropPart
  BY <1>1, <1>10 DEF DropPart
<1> QED
  BY <1>2, <1>3, <1>4, <1>5, <1>6, <1>7, <1>8, <1>9, <1>10
  DEF Next, Start, Skip, LookAtPart, LookFails, Continue, AdoptFails, AdoptReport,
      AdoptMetadata, AdoptMetadataFails, ReportStart, OpenFails, CopyEnds, InflateInMemory,
      WriteFails, FinishFails, Finish, Crash, vars, durable

\* The bytes of a plain stored entry that have reached its part stay there as long
\* as runs resume and there are not yet all of them.
THEOREM BytesSurvive == Spec => BytesAreKept
<1>1. IInv /\ [Next]_vars =>
        [opts.resume /\ Stored /\ ~Encrypted /\ part.size \in 1 .. Size - 1
           => part'.size >= part.size]_vars
  BY StepKeepsBytes, ResumeAssumption
<1> QED BY <1>1, Invariance, PTL DEF Spec, BytesAreKept

-----------------------------------------------------------------------------
(* The data of the entry *)


Codes == {"OK", "EPASS", "ESIZE", "EFILE", "EAUTH", "ECRC", "ECANCEL", "EINFLATE",
          "EINCOMPLETE", "EUNSUP"}

\* What the loops go over.
States ==
  [ret : Codes, at : Int, left : Int, made : Int, counted : Int, told : Int, written : Int,
   z : {"UNFINISHED", "OK", "EINFLATE"}]

-----------------------------------------------------------------------------
(* The payload *)

LEMMA PayloadParts ==
  ASSUME NEW p \in AnyPayload
  PROVE  /\ Header(p) \in Nat /\ Trailer(p) \in Nat /\ Data(p) \in Int
         /\ Header(p) + Data(p) + Trailer(p) = p.packed
         /\ Unlock(p) \in Codes
         /\ Unlock(p) = "OK" => Data(p) \in Nat
         /\ p.cipher = "none" => Header(p) = 0 /\ Trailer(p) = 0 /\ Unlock(p) = "OK"
  BY DataAssumption DEF AnyPayload, Header, Trailer, Data, Unlock, Codes

\* No cipher is opened whose header is not there.
LEMMA HeaderThere ==
  ASSUME NEW p \in AnyPayload, Unlock(p) = "OK"
  PROVE  Header(p) <= p.avail
PROOF
<1>1. Header(p) \in Nat /\ p.avail \in Nat /\ Data(p) \in Nat
  BY PayloadParts DEF AnyPayload
<1>2. CASE p.cipher = "none"
  BY <1>1, <1>2, PayloadParts
<1>3. CASE p.cipher # "none"
  <2>1. Data(p) >= 0 /\ ~(Data(p) < 0)
    BY <1>1
  <2>2. ~(p.avail < Header(p))
    BY <1>3, <2>1 DEF Unlock
  <2> QED BY <1>1, <2>2
<1> QED BY <1>2, <1>3

LEMMA BeginState ==
  ASSUME NEW p \in AnyPayload, NEW o \in AnyWay
  PROVE  Begin(p, o) \in States
  BY PayloadParts DEF AnyPayload, AnyWay, Begin, States

LEMMA ToldState ==
  ASSUME NEW o \in AnyWay, NEW s \in States, NEW n \in Int
  PROVE  /\ Told(o, s, n) \in States
         /\ Told(o, s, n).told = IF o.tell THEN s.told + n ELSE s.told
         /\ Told(o, s, n).at = s.at /\ Told(o, s, n).left = s.left
         /\ Told(o, s, n).made = s.made /\ Told(o, s, n).counted = s.counted
         /\ Told(o, s, n).written = s.written /\ Told(o, s, n).z = s.z
         /\ Told(o, s, n).ret = "OK" => s.ret = "OK"
         /\ s.ret = "OK" /\ (o.tell => s.told + n < o.cancelAt) => Told(o, s, n).ret = "OK"
PROOF
<1> DEFINE r == IF s.told + n >= o.cancelAt THEN "ECANCEL" ELSE s.ret
           t == [s EXCEPT !.told = s.told + n, !.ret = r]
<1>1. r \in Codes /\ s.told + n \in Int
  BY DEF States, Codes
<1>2. /\ t \in States
      /\ t.told = s.told + n /\ t.at = s.at /\ t.left = s.left /\ t.made = s.made
      /\ t.counted = s.counted /\ t.written = s.written /\ t.z = s.z /\ t.ret = r
  <2> HIDE DEF r
  <2> QED BY <1>1 DEF States
<1>3. CASE ~o.tell \/ n = 0
  <2>1. Told(o, s, n) = s
    BY <1>3 DEF Told
  <2> QED BY <1>3, <2>1 DEF States
<1>4. CASE o.tell /\ n # 0
  <2>1. Told(o, s, n) = t
    BY <1>4 DEF Told
  <2>2. r = "OK" => s.ret = "OK"
    OBVIOUS
  <2>3. o.cancelAt \in Nat
    BY DEF AnyWay
  <2>4. s.ret = "OK" /\ s.told + n < o.cancelAt => r = "OK"
    BY <1>1, <2>3
  <2> HIDE DEF r, t
  <2> QED BY <1>2, <1>4, <2>1, <2>2, <2>4
<1> QED BY <1>3, <1>4 DEF AnyWay

LEMMA StoreChunkState ==
  ASSUME NEW o \in AnyWay, NEW s \in States, s.ret = "OK", NEW n \in Nat
  PROVE  LET t == StoreChunk(o, n, s)
         IN /\ t \in States
            /\ t.ret = "OK" =>
                 /\ t.at = s.at + n /\ t.left = s.left - n /\ t.counted = s.counted + n
                 /\ t.written = s.written + n
                 /\ t.told = IF o.tell THEN s.told + n ELSE s.told
            /\ s.written + n <= o.disk /\ (o.tell => s.told + n < o.cancelAt) => t.ret = "OK"
PROOF
<1> DEFINE w == [s EXCEPT !.written = @ + n]
           v == [w EXCEPT !.at = @ + n, !.left = @ - n, !.counted = @ + n]
<1>1. /\ w \in States /\ w.ret = "OK" /\ w.written = s.written + n
      /\ w.at = s.at /\ w.left = s.left /\ w.counted = s.counted /\ w.told = s.told
  BY DEF States
<1>2. CASE s.written + n > o.disk
  <2>1. Wrote(o, s, n) = Failed(s, "EFILE")
    BY <1>2 DEF Wrote
  <2>2. Failed(s, "EFILE") \in States /\ Failed(s, "EFILE").ret = "EFILE"
    BY DEF Failed, States, Codes
  <2>3. StoreChunk(o, n, s) = Failed(s, "EFILE")
    BY <2>1, <2>2 DEF StoreChunk
  <2>4. ~(s.written + n <= o.disk)
    BY <1>2 DEF AnyWay, States
  <2> QED BY <2>2, <2>3, <2>4
<1>3. CASE ~(s.written + n > o.disk)
  <2>1. Wrote(o, s, n) = w
    BY <1>3 DEF Wrote
  <2> HIDE DEF w
  <2>2. StoreChunk(o, n, s) = Told(o, v, n)
    BY <1>1, <2>1 DEF StoreChunk
  <2> DEFINE a == w.at + n
             l == w.left - n
             c == w.counted + n
             x == [w EXCEPT !.at = a, !.left = l, !.counted = c]
  <2>3. a \in Int /\ l \in Int /\ c \in Int
    BY <1>1 DEF States
  <2>4. /\ x \in States /\ x.ret = "OK"
        /\ x.at = a /\ x.left = l /\ x.counted = c
        /\ x.written = w.written /\ x.told = w.told
    <3> HIDE DEF a, l, c
    <3> QED BY <1>1, <2>3 DEF States
  <2>5. v = x
    OBVIOUS
  <2> HIDE DEF v, x
  <2> QED BY <1>1, <2>5, <2>2, <2>4, ToldState
<1> QED BY <1>2, <1>3

LEMMA FailedState ==
  ASSUME NEW s \in States, NEW r \in Codes
  PROVE  Failed(s, r) \in States /\ Failed(s, r).ret = r
BY DEF Failed, States

-----------------------------------------------------------------------------
(* The loops *)

\* Turns can be taken over and over, until the loop ends.
LEMMA LoopExists ==
  ASSUME NEW step \in [States -> States], NEW s \in States
  PROVE  \E f \in [Nat -> States] :
           f[0] = s /\ \A i \in Nat : f[i + 1] = IF Running(f[i]) THEN step[f[i]] ELSE f[i]
PROOF
<1> DEFINE go == [t \in States |-> IF Running(t) THEN step[t] ELSE t]
<1>1. go \in [States -> States]
  OBVIOUS
<1>2. PICK f \in [Nat -> States] : f[0] = s /\ \A i \in Nat : f[i + 1] = go[f[i]]
  <2> HIDE DEF go
  <2>1. Iterates(States, s, go)
    BY <1>1, IterationExists
  <2> QED BY <2>1 DEF Iterates
<1> QED BY <1>2

\* What begins in Inv, whose turns keep Inv and take something of what is left,
\* has ended, in Inv, after as many turns as there is left at the begin.
LEMMA LoopKeeps ==
  ASSUME NEW step \in [States -> States], NEW s \in States, NEW Inv \in SUBSET States,
         s \in Inv, s.left \in Nat,
         \A t \in Inv : Running(t) =>
           step[t] \in Inv /\ (step[t].ret = "OK" => step[t].left \in Nat /\ step[t].left < t.left),
         NEW f, f[0] = s,
         \A i \in Nat : f[i] \in Inv =>
           f[i + 1] = IF Running(f[i]) THEN step[f[i]] ELSE f[i]
  PROVE  (\A i \in Nat : f[i] \in Inv) /\ ~Running(f[s.left])
PROOF
<1> DEFINE P == { i \in Nat : /\ f[i] \in Inv
                              /\ Running(f[i]) => f[i].left \in Nat /\ f[i].left + i <= s.left }
<1>1. 0 \in P
  OBVIOUS
<1>2. ASSUME NEW i \in P
      PROVE  i + 1 \in P
  <2>1. CASE ~Running(f[i])
    <3>1. f[i + 1] = f[i]
      BY <2>1
    <3> QED BY <2>1, <3>1
  <2>2. CASE Running(f[i])
    <3>1. f[i + 1] = step[f[i]]
      BY <2>2
    <3>2. f[i + 1] \in Inv
      BY <2>2, <3>1
    <3>3. Running(f[i + 1]) => f[i + 1].left \in Nat /\ f[i + 1].left < f[i].left
      BY <2>2, <3>1 DEF Running
    <3> QED BY <2>2, <3>2, <3>3
  <2> QED BY <2>1, <2>2
<1>3. P = Nat
  <2> HIDE DEF P
  <2>1. P \in SUBSET Nat
    BY DEF P
  <2> QED BY <1>1, <1>2, <2>1, Induction
<1> QED BY <1>3 DEF Running

\* The loop that goes on with ReadTurn.
LEMMA ReadLoop ==
  ASSUME NEW p, NEW o, NEW Inv \in SUBSET States,
         Begin(p, o) \in Inv, Begin(p, o).left \in Nat,
         \A t \in Inv : Running(t) =>
           /\ ReadTurn(p, o, t) \in Inv
           /\ ReadTurn(p, o, t).ret = "OK" => ReadTurn(p, o, t).left \in Nat /\ ReadTurn(p, o, t).left < t.left
  PROVE  LET r == Loop(LAMBDA t : ReadTurn(p, o, t), Begin(p, o)) IN r \in Inv /\ ~Running(r)
PROOF
<1> DEFINE s == Begin(p, o)
           step == [t \in States |-> IF t \in Inv /\ Running(t) THEN ReadTurn(p, o, t) ELSE t]
           after == CHOOSE f : f = [i \in Nat |-> IF i = 0 THEN s
                      ELSE IF Running(f[i - 1]) THEN ReadTurn(p, o, f[i - 1]) ELSE f[i - 1]]
<1>1. step \in [States -> States] /\ \A t \in Inv : Running(t) => step[t] = ReadTurn(p, o, t)
  OBVIOUS
<1>2. PICK f \in [Nat -> States] : f[0] = s /\ \A i \in Nat :
                                     f[i + 1] = IF Running(f[i]) THEN step[f[i]] ELSE f[i]
  BY <1>1, LoopExists
<1>3. \A i \in Nat : f[i] \in Inv
  <2> HIDE DEF step
  <2> QED BY <1>1, <1>2, LoopKeeps
<1>4. f = [i \in Nat |-> IF i = 0 THEN s ELSE IF Running(f[i - 1]) THEN ReadTurn(p, o, f[i - 1]) ELSE f[i - 1]]
  <2> HIDE DEF step, s
  <2>1. ASSUME NEW i \in Nat, i # 0
        PROVE  f[i] = IF Running(f[i - 1]) THEN ReadTurn(p, o, f[i - 1]) ELSE f[i - 1]
    <3>1. i - 1 \in Nat /\ (i - 1) + 1 = i
      BY <2>1
    <3> QED BY <1>1, <1>2, <1>3, <3>1
  <2> QED BY <1>2, <2>1
<1>5. after = [i \in Nat |-> IF i = 0 THEN s
                 ELSE IF Running(after[i - 1]) THEN ReadTurn(p, o, after[i - 1]) ELSE after[i - 1]]
  BY <1>4
<1>6. after[0] = s /\ \A i \in Nat : after[i] \in Inv =>
                        after[i + 1] = IF Running(after[i]) THEN step[after[i]] ELSE after[i]
  <2> HIDE DEF step, s, after
  <2>1. ASSUME NEW i \in Nat
        PROVE  after[i + 1] = IF Running(after[i]) THEN ReadTurn(p, o, after[i]) ELSE after[i]
    <3>1. i + 1 \in Nat /\ i + 1 # 0 /\ (i + 1) - 1 = i
      OBVIOUS
    <3> QED BY <1>5, <3>1
  <2> QED BY <1>1, <1>5, <2>1
<1>7. after[s.left] \in Inv /\ ~Running(after[s.left])
  <2> HIDE DEF step, after
  <2> QED BY <1>1, <1>6, LoopKeeps
<1>8. Loop(LAMBDA t : ReadTurn(p, o, t), s) = after[s.left]
  BY DEF Loop
<1> QED BY <1>7, <1>8

\* The loop that goes on with MappedTurn.
LEMMA MappedLoop ==
  ASSUME NEW p, NEW o, NEW Inv \in SUBSET States,
         Begin(p, o) \in Inv, Begin(p, o).left \in Nat,
         \A t \in Inv : Running(t) =>
           /\ MappedTurn(o, t) \in Inv
           /\ MappedTurn(o, t).ret = "OK" => MappedTurn(o, t).left \in Nat /\ MappedTurn(o, t).left < t.left
  PROVE  LET r == Loop(LAMBDA t : MappedTurn(o, t), Begin(p, o)) IN r \in Inv /\ ~Running(r)
PROOF
<1> DEFINE s == Begin(p, o)
           step == [t \in States |-> IF t \in Inv /\ Running(t) THEN MappedTurn(o, t) ELSE t]
           after == CHOOSE f : f = [i \in Nat |-> IF i = 0 THEN s
                      ELSE IF Running(f[i - 1]) THEN MappedTurn(o, f[i - 1]) ELSE f[i - 1]]
<1>1. step \in [States -> States] /\ \A t \in Inv : Running(t) => step[t] = MappedTurn(o, t)
  OBVIOUS
<1>2. PICK f \in [Nat -> States] : f[0] = s /\ \A i \in Nat :
                                     f[i + 1] = IF Running(f[i]) THEN step[f[i]] ELSE f[i]
  BY <1>1, LoopExists
<1>3. \A i \in Nat : f[i] \in Inv
  <2> HIDE DEF step
  <2> QED BY <1>1, <1>2, LoopKeeps
<1>4. f = [i \in Nat |-> IF i = 0 THEN s ELSE IF Running(f[i - 1]) THEN MappedTurn(o, f[i - 1]) ELSE f[i - 1]]
  <2> HIDE DEF step, s
  <2>1. ASSUME NEW i \in Nat, i # 0
        PROVE  f[i] = IF Running(f[i - 1]) THEN MappedTurn(o, f[i - 1]) ELSE f[i - 1]
    <3>1. i - 1 \in Nat /\ (i - 1) + 1 = i
      BY <2>1
    <3> QED BY <1>1, <1>2, <1>3, <3>1
  <2> QED BY <1>2, <2>1
<1>5. after = [i \in Nat |-> IF i = 0 THEN s
                 ELSE IF Running(after[i - 1]) THEN MappedTurn(o, after[i - 1]) ELSE after[i - 1]]
  BY <1>4
<1>6. after[0] = s /\ \A i \in Nat : after[i] \in Inv =>
                        after[i + 1] = IF Running(after[i]) THEN step[after[i]] ELSE after[i]
  <2> HIDE DEF step, s, after
  <2>1. ASSUME NEW i \in Nat
        PROVE  after[i + 1] = IF Running(after[i]) THEN MappedTurn(o, after[i]) ELSE after[i]
    <3>1. i + 1 \in Nat /\ i + 1 # 0 /\ (i + 1) - 1 = i
      OBVIOUS
    <3> QED BY <1>5, <3>1
  <2> QED BY <1>1, <1>5, <2>1
<1>7. after[s.left] \in Inv /\ ~Running(after[s.left])
  <2> HIDE DEF step, after
  <2> QED BY <1>1, <1>6, LoopKeeps
<1>8. Loop(LAMBDA t : MappedTurn(o, t), s) = after[s.left]
  BY DEF Loop
<1> QED BY <1>7, <1>8

\* The loop that goes on with InflateTurn.
LEMMA InflateLoop ==
  ASSUME NEW p, NEW o, NEW Inv \in SUBSET States,
         Begin(p, o) \in Inv, Begin(p, o).left \in Nat,
         \A t \in Inv : Running(t) =>
           /\ InflateTurn(p, o, t) \in Inv
           /\ InflateTurn(p, o, t).ret = "OK" => InflateTurn(p, o, t).left \in Nat /\ InflateTurn(p, o, t).left < t.left
  PROVE  LET r == Loop(LAMBDA t : InflateTurn(p, o, t), Begin(p, o)) IN r \in Inv /\ ~Running(r)
PROOF
<1> DEFINE s == Begin(p, o)
           step == [t \in States |-> IF t \in Inv /\ Running(t) THEN InflateTurn(p, o, t) ELSE t]
           after == CHOOSE f : f = [i \in Nat |-> IF i = 0 THEN s
                      ELSE IF Running(f[i - 1]) THEN InflateTurn(p, o, f[i - 1]) ELSE f[i - 1]]
<1>1. step \in [States -> States] /\ \A t \in Inv : Running(t) => step[t] = InflateTurn(p, o, t)
  OBVIOUS
<1>2. PICK f \in [Nat -> States] : f[0] = s /\ \A i \in Nat :
                                     f[i + 1] = IF Running(f[i]) THEN step[f[i]] ELSE f[i]
  BY <1>1, LoopExists
<1>3. \A i \in Nat : f[i] \in Inv
  <2> HIDE DEF step
  <2> QED BY <1>1, <1>2, LoopKeeps
<1>4. f = [i \in Nat |-> IF i = 0 THEN s ELSE IF Running(f[i - 1]) THEN InflateTurn(p, o, f[i - 1]) ELSE f[i - 1]]
  <2> HIDE DEF step, s
  <2>1. ASSUME NEW i \in Nat, i # 0
        PROVE  f[i] = IF Running(f[i - 1]) THEN InflateTurn(p, o, f[i - 1]) ELSE f[i - 1]
    <3>1. i - 1 \in Nat /\ (i - 1) + 1 = i
      BY <2>1
    <3> QED BY <1>1, <1>2, <1>3, <3>1
  <2> QED BY <1>2, <2>1
<1>5. after = [i \in Nat |-> IF i = 0 THEN s
                 ELSE IF Running(after[i - 1]) THEN InflateTurn(p, o, after[i - 1]) ELSE after[i - 1]]
  BY <1>4
<1>6. after[0] = s /\ \A i \in Nat : after[i] \in Inv =>
                        after[i + 1] = IF Running(after[i]) THEN step[after[i]] ELSE after[i]
  <2> HIDE DEF step, s, after
  <2>1. ASSUME NEW i \in Nat
        PROVE  after[i + 1] = IF Running(after[i]) THEN InflateTurn(p, o, after[i]) ELSE after[i]
    <3>1. i + 1 \in Nat /\ i + 1 # 0 /\ (i + 1) - 1 = i
      OBVIOUS
    <3> QED BY <1>5, <3>1
  <2> QED BY <1>1, <1>5, <2>1
<1>7. after[s.left] \in Inv /\ ~Running(after[s.left])
  <2> HIDE DEF step, after
  <2> QED BY <1>1, <1>6, LoopKeeps
<1>8. Loop(LAMBDA t : InflateTurn(p, o, t), s) = after[s.left]
  BY DEF Loop
<1> QED BY <1>7, <1>8

-----------------------------------------------------------------------------
(* The final checks *)

LEMMA CheckedState ==
  ASSUME NEW p, NEW o, NEW s \in States
  PROVE  /\ Checked(p, o, s).ret = "OK" =>
              Checked(p, o, s) = s /\ s.ret = "OK" /\ (o.check => CrcFits(p, o, s))
         /\ s.ret = "OK" /\ (o.check => CrcFits(p, o, s)) => Checked(p, o, s) = s
         /\ Checked(p, o, s) \in States
BY FailedState DEF Checked, Codes

LEMMA FinishedState ==
  ASSUME NEW p \in AnyPayload, NEW s \in States
  PROVE  LET t == Finished(p, s)
         IN /\ t \in States
            /\ t.ret = "OK" =>
                 /\ s.ret = "OK" /\ t.at = s.at + Trailer(p)
                 /\ t.left = s.left /\ t.made = s.made /\ t.counted = s.counted
                 /\ t.told = s.told /\ t.written = s.written /\ t.z = s.z
                 /\ p.cipher = "aes" => CodeFits(p) /\ s.at + AuthLen <= p.avail
            /\ s.ret = "OK" /\ (p.cipher = "aes" => CodeFits(p) /\ s.at + AuthLen <= p.avail) =>
                 t.ret = "OK"
PROOF
<1>1. CASE s.ret # "OK" \/ p.cipher # "aes"
  <2>1. Finished(p, s) = s
    BY <1>1 DEF Finished
  <2>2. p.cipher # "aes" => Trailer(p) = 0
    BY DEF Trailer
  <2> QED BY <1>1, <2>1, <2>2 DEF States
<1>2. CASE s.ret = "OK" /\ p.cipher = "aes" /\ s.at + AuthLen > p.avail
  <2>2. ~(s.at + AuthLen <= p.avail)
    BY <1>2, DataAssumption DEF States, AnyPayload
  <2>1. Finished(p, s) = Failed(s, "EFILE")
    BY <1>2, <2>2 DEF Finished
  <2> QED BY <1>2, <2>1, <2>2, FailedState DEF Codes
<1>3. CASE s.ret = "OK" /\ p.cipher = "aes" /\ s.at + AuthLen <= p.avail
  <2>1. ~(s.at + AuthLen > p.avail)
    BY <1>3, DataAssumption DEF States, AnyPayload
  <2>2. Finished(p, s) = IF CodeFits(p) THEN [s EXCEPT !.at = @ + AuthLen] ELSE Failed(s, "EAUTH")
    BY <1>3, <2>1 DEF Finished
  <2>3. CASE CodeFits(p)
    <3> DEFINE t == [s EXCEPT !.at = @ + AuthLen]
    <3>1. s.at + AuthLen \in Int /\ Trailer(p) = AuthLen
      BY <1>3, DataAssumption DEF States, Trailer
    <3>2. /\ t \in States /\ t.ret = "OK" /\ t.at = s.at + Trailer(p)
          /\ t.left = s.left /\ t.made = s.made /\ t.counted = s.counted
          /\ t.told = s.told /\ t.written = s.written /\ t.z = s.z
      BY <1>3, <3>1 DEF States
    <3> HIDE DEF t
    <3>3. Finished(p, s) = t
      BY <2>2, <2>3 DEF t
    <3> QED BY <1>3, <2>3, <3>2, <3>3
  <2>4. CASE ~CodeFits(p)
    BY <1>3, <2>2, <2>4, FailedState DEF Codes
  <2> QED BY <2>3, <2>4
<1>4. s.at + AuthLen > p.avail \/ s.at + AuthLen <= p.avail
  BY DataAssumption DEF AnyPayload, States
<1> QED BY <1>1, <1>2, <1>3, <1>4

-----------------------------------------------------------------------------
(* What is to come out *)

Whole(p, o, r) ==
  /\ r.written = p.size
  /\ r.told = IF o.tell THEN p.size - o.from ELSE 0
  /\ o.check => p.good /\ Opened(p) /\ (o.from > 0 => o.prefix)
  /\ p.cipher = "aes" => CodeFits(p)
  /\ ~o.mapped => r.at = p.packed
  /\ o.from = 0 => p.packed <= p.avail

\* All of the payload is there, and it passes the checks that are made.
Passes(p, check) ==
  /\ p.packed <= p.avail
  /\ p.cipher = "aes" => CodeFits(p)
  /\ check => p.good /\ Opened(p)

-----------------------------------------------------------------------------
(* Stored data *)

StoreReady(p, o) ==
  /\ p \in AnyPayload /\ o \in AnyWay /\ Possible(p, o)
  /\ p.method = "store" /\ Unlock(p) = "OK" /\ Data(p) = p.size

Smooth(p, o) == Undisturbed(p, o) /\ (o.mapped \/ Header(p) + Data(p) <= p.avail)

\* What a turn leaves is where it says it is, counted, written and told.
StoredSoFar(p, o) ==
  { t \in States :
      /\ t.ret = "OK" =>
           /\ t.left \in Nat
           /\ t.at + t.left = Header(p) + p.size
           /\ t.counted + t.left = p.size
           /\ t.written + t.left = p.size
           /\ t.told = IF o.tell THEN p.size - o.from - t.left ELSE 0
           /\ o.mapped \/ t.left = p.size - o.from \/ t.at <= p.avail
      /\ Smooth(p, o) => t.ret = "OK" }

LEMMA StoredBegin ==
  ASSUME NEW p, NEW o, StoreReady(p, o)
  PROVE  /\ Begin(p, o) \in StoredSoFar(p, o) /\ Begin(p, o).left \in Nat /\ Begin(p, o).ret = "OK"
         /\ Begin(p, o).left = p.size - o.from
PROOF
<1>1. /\ Begin(p, o) \in States /\ Header(p) \in Nat /\ o.from \in Nat /\ p.size \in Nat
      /\ o.from > 0 => Header(p) = 0 /\ o.from <= p.size
  BY BeginState, PayloadParts DEF StoreReady, Possible, AnyPayload, AnyWay
<1>2. /\ Begin(p, o).ret = "OK" /\ Begin(p, o).left = p.size - o.from
      /\ Begin(p, o).at = IF o.from > 0 THEN o.from ELSE Header(p)
      /\ Begin(p, o).counted = o.from /\ Begin(p, o).written = o.from /\ Begin(p, o).told = 0
  BY DEF Begin, StoreReady
<1> QED BY <1>1, <1>2 DEF StoredSoFar

\* A chunk of what is left, where it is still in the file.
LEMMA StoredChunk ==
  ASSUME NEW p, NEW o, StoreReady(p, o), NEW s \in StoredSoFar(p, o), s.ret = "OK",
         NEW n \in 0 .. s.left, o.mapped \/ s.at + n <= p.avail
  PROVE  LET t == StoreChunk(o, n, s)
         IN t \in StoredSoFar(p, o) /\ (t.ret = "OK" => t.left = s.left - n)
PROOF
<1> DEFINE t == StoreChunk(o, n, s)
<1>1. /\ s \in States /\ s.at \in Int /\ s.left \in Nat /\ s.counted \in Int
      /\ s.written \in Int /\ s.told \in Int /\ n \in Nat /\ n <= s.left
      /\ p.size \in Nat /\ p.avail \in Nat /\ Header(p) \in Nat
      /\ o.from \in Nat /\ o.disk \in Nat /\ o.cancelAt \in Nat
  BY PayloadParts DEF StoredSoFar, States, StoreReady, AnyPayload, AnyWay
<1>2. /\ t \in States
      /\ t.ret = "OK" =>
           /\ t.at = s.at + n /\ t.left = s.left - n /\ t.counted = s.counted + n
           /\ t.written = s.written + n
           /\ t.told = IF o.tell THEN s.told + n ELSE s.told
      /\ s.written + n <= o.disk /\ (o.tell => s.told + n < o.cancelAt) => t.ret = "OK"
  BY <1>1, StoreChunkState DEF StoreReady
<1> HIDE DEF t
<1>3. /\ s.at + s.left = Header(p) + p.size /\ s.counted + s.left = p.size
      /\ s.written + s.left = p.size
      /\ s.told = IF o.tell THEN p.size - o.from - s.left ELSE 0
  BY DEF StoredSoFar
<1>4. Smooth(p, o) => t.ret = "OK"
  <2> SUFFICES ASSUME o.cancelAt > p.size, o.disk >= p.size
               PROVE  t.ret = "OK"
    BY DEF Smooth, Undisturbed
  <2>1. s.written + n <= o.disk /\ (o.tell => s.told + n < o.cancelAt)
    BY <1>1, <1>3
  <2> QED BY <1>2, <2>1
<1>5. t.ret = "OK" =>
        /\ t.left \in Nat
        /\ t.at + t.left = Header(p) + p.size
        /\ t.counted + t.left = p.size
        /\ t.written + t.left = p.size
        /\ t.told = IF o.tell THEN p.size - o.from - t.left ELSE 0
  BY <1>1, <1>2, <1>3
<1>6. t.ret = "OK" => o.mapped \/ t.left = p.size - o.from \/ t.at <= p.avail
  BY <1>2
<1>7. t \in StoredSoFar(p, o)
  BY <1>2, <1>4, <1>5, <1>6 DEF StoredSoFar
<1> QED BY <1>2, <1>7 DEF t

LEMMA StoredRead ==
  ASSUME NEW p, NEW o, StoreReady(p, o), ~o.mapped, NEW s \in StoredSoFar(p, o), Running(s)
  PROVE  LET t == ReadTurn(p, o, s)
         IN t \in StoredSoFar(p, o) /\ (t.ret = "OK" => t.left \in Nat /\ t.left < s.left)
PROOF
<1> DEFINE n == Smaller(s.left, IoChunk)
<1>1. s \in States /\ s.ret = "OK" /\ s.left \in Nat /\ s.left > 0
  BY DEF StoredSoFar, Running
<1>2. n \in 0 .. s.left /\ n > 0
  BY <1>1, DataAssumption DEF Smaller
<1> HIDE DEF n
<1>3. /\ s.at \in Int /\ p.avail \in Nat /\ s.at + s.left = Header(p) + p.size
      /\ p.size \in Nat /\ Header(p) \in Nat /\ Data(p) = p.size
  BY <1>1, PayloadParts DEF States, StoredSoFar, StoreReady, AnyPayload
<1>4. CASE s.at + n > p.avail
  <2>1. ReadTurn(p, o, s) = Failed(s, "EFILE")
    BY <1>4 DEF ReadTurn, n
  <2>2. ~Smooth(p, o)
    <3>1. ~(Header(p) + Data(p) <= p.avail)
      BY <1>1, <1>2, <1>3, <1>4
    <3> QED BY <3>1 DEF Smooth
  <2>3. Failed(s, "EFILE") \in States /\ Failed(s, "EFILE").ret = "EFILE"
    BY <1>1, FailedState DEF Codes
  <2> QED BY <2>1, <2>2, <2>3 DEF StoredSoFar
<1>5. CASE ~(s.at + n > p.avail)
  <2>1. ReadTurn(p, o, s) = StoreChunk(o, n, s)
    BY <1>5 DEF ReadTurn, n
  <2>2. s.at + n <= p.avail
    BY <1>2, <1>3, <1>5
  <2>3. StoreChunk(o, n, s) \in StoredSoFar(p, o)
        /\ (StoreChunk(o, n, s).ret = "OK" => StoreChunk(o, n, s).left = s.left - n)
    BY <1>1, <1>2, <2>2, StoredChunk
  <2> QED BY <1>1, <1>2, <2>1, <2>3
<1> QED BY <1>4, <1>5

LEMMA StoredMapped ==
  ASSUME NEW p, NEW o, StoreReady(p, o), o.mapped, NEW s \in StoredSoFar(p, o), Running(s)
  PROVE  LET t == MappedTurn(o, s)
         IN t \in StoredSoFar(p, o) /\ (t.ret = "OK" => t.left \in Nat /\ t.left < s.left)
PROOF
<1> DEFINE n == Smaller(s.left, IF o.check THEN MappedChunk ELSE FastChunk)
<1>1. s.ret = "OK" /\ s.left \in Nat /\ s.left > 0
  BY DEF StoredSoFar, Running
<1>2. n \in 0 .. s.left /\ n > 0
  BY <1>1, DataAssumption DEF Smaller
<1> HIDE DEF n
<1>3. MappedTurn(o, s) = StoreChunk(o, n, s)
  BY DEF MappedTurn, n
<1>4. StoreChunk(o, n, s) \in StoredSoFar(p, o)
      /\ (StoreChunk(o, n, s).ret = "OK" => StoreChunk(o, n, s).left = s.left - n)
  BY <1>1, <1>2, StoredChunk
<1> QED BY <1>1, <1>2, <1>3, <1>4

LEMMA StoreRead ==
  ASSUME NEW p, NEW o, StoreReady(p, o), ~o.mapped
  PROVE  LET r == CopyRead(p, o)
         IN /\ r.ret = "OK" => Whole(p, o, r)
            /\ Passes(p, o.check) /\ Undisturbed(p, o) /\ (o.from > 0 => o.prefix) => r.ret = "OK"
PROOF
<1> DEFINE u == Loop(LAMBDA t : ReadTurn(p, o, t), Begin(p, o))
           v == Finished(p, u)
<1>1. /\ p \in AnyPayload /\ o \in AnyWay /\ p.size \in Nat /\ p.avail \in Nat /\ o.from \in Nat
      /\ Header(p) \in Nat /\ Trailer(p) \in Nat /\ Data(p) = p.size
      /\ Header(p) + p.size + Trailer(p) = p.packed
      /\ p.cipher = "aes" => Trailer(p) = AuthLen
      /\ p.cipher # "aes" => Trailer(p) = 0
      /\ o.from > 0 => Header(p) = 0
      /\ p.cipher # "none" => Header(p) <= p.avail
      /\ p.cipher = "none" => Header(p) = 0
  <2>1. p \in AnyPayload /\ o \in AnyWay /\ Data(p) = p.size
    BY DEF StoreReady
  <2>2. Header(p) <= p.avail
    BY <2>1, HeaderThere DEF StoreReady
  <2>3. o.from > 0 => Header(p) = 0
    BY <2>1, PayloadParts DEF StoreReady, Possible
  <2>4. (p.cipher = "aes" => Trailer(p) = AuthLen) /\ (p.cipher # "aes" => Trailer(p) = 0)
    BY DEF Trailer
  <2> QED BY <2>1, <2>2, <2>3, <2>4, PayloadParts DEF AnyPayload, AnyWay
<1>2. u \in StoredSoFar(p, o) /\ ~Running(u)
  <2>1. StoredSoFar(p, o) \in SUBSET States
    BY DEF StoredSoFar
  <2>2. \A t \in StoredSoFar(p, o) : Running(t) =>
          /\ ReadTurn(p, o, t) \in StoredSoFar(p, o)
          /\ ReadTurn(p, o, t).ret = "OK" =>
               ReadTurn(p, o, t).left \in Nat /\ ReadTurn(p, o, t).left < t.left
    BY StoredRead
  <2> QED BY <2>1, <2>2, StoredBegin, ReadLoop
<1> HIDE DEF u
<1>3. u \in States /\ u.at \in Int
  BY <1>2 DEF StoredSoFar, States
<1>4. u.ret = "OK" => /\ u.left = 0 /\ u.at = Header(p) + p.size /\ u.counted = p.size
                      /\ u.written = p.size
                      /\ u.told = IF o.tell THEN p.size - o.from ELSE 0
                      /\ p.size = o.from \/ u.at <= p.avail
  <2> SUFFICES ASSUME u.ret = "OK"
               PROVE  /\ u.left = 0 /\ u.at = Header(p) + p.size /\ u.counted = p.size
                      /\ u.written = p.size
                      /\ u.told = IF o.tell THEN p.size - o.from ELSE 0
                      /\ p.size = o.from \/ u.at <= p.avail
    OBVIOUS
  <2>1. /\ u.left \in Nat /\ u.at + u.left = Header(p) + p.size /\ u.counted + u.left = p.size
        /\ u.written + u.left = p.size
        /\ u.told = IF o.tell THEN p.size - o.from - u.left ELSE 0
        /\ u.left = p.size - o.from \/ u.at <= p.avail
    BY <1>2 DEF StoredSoFar
  <2>2. u.left = 0
    BY <1>2, <2>1 DEF Running
  <2>3. u.counted \in Int /\ u.written \in Int
    BY <1>3 DEF States
  <2>4. u.at = Header(p) + p.size /\ u.counted = p.size /\ u.written = p.size
    BY <1>1, <1>3, <2>1, <2>2, <2>3
  <2>5. p.size - o.from - u.left = p.size - o.from
    BY <1>1, <2>2
  <2>6. p.size = o.from \/ u.at <= p.avail
    <3>1. p.size \in Nat /\ o.from \in Nat
      BY <1>1
    <3>2. 0 = p.size - o.from => p.size = o.from
      BY <3>1
    <3> QED BY <2>1, <2>2, <3>2
  <2> QED BY <2>1, <2>2, <2>4, <2>5, <2>6
<1>5. v \in States /\ CopyRead(p, o) = Checked(p, o, v)
  BY <1>1, <1>3, FinishedState DEF CopyRead, u
<1>6. v.ret = "OK" =>
        /\ u.ret = "OK" /\ v.at = u.at + Trailer(p) /\ v.counted = u.counted
        /\ v.told = u.told /\ v.written = u.written
        /\ p.cipher = "aes" => CodeFits(p) /\ u.at + AuthLen <= p.avail
  BY <1>1, <1>3, FinishedState
<1>7. u.ret = "OK" /\ (p.cipher = "aes" => CodeFits(p) /\ u.at + AuthLen <= p.avail) =>
        v.ret = "OK"
  BY <1>1, <1>3, FinishedState
<1>8. CopyRead(p, o).ret = "OK" =>
        CopyRead(p, o) = v /\ v.ret = "OK" /\ (o.check => CrcFits(p, o, v))
  BY <1>5, CheckedState
<1>9. v.ret = "OK" /\ (o.check => CrcFits(p, o, v)) => CopyRead(p, o) = v
  BY <1>5, CheckedState
<1> HIDE DEF v
<1>10. ASSUME CopyRead(p, o).ret = "OK"
       PROVE  Whole(p, o, CopyRead(p, o))
  <2>1. CopyRead(p, o) = v /\ v.ret = "OK" /\ u.ret = "OK" /\ (o.check => CrcFits(p, o, v))
    BY <1>6, <1>8, <1>10
  <2>2. v.at = p.packed
    BY <1>1, <1>4, <1>6, <2>1
  <2>3. o.from = 0 => p.packed <= p.avail
    <3> SUFFICES ASSUME o.from = 0 PROVE p.packed <= p.avail
      OBVIOUS
    <3>1. /\ u.at = Header(p) + p.size /\ (p.size = 0 \/ u.at <= p.avail)
          /\ p.cipher = "aes" => u.at + AuthLen <= p.avail
      BY <1>4, <1>6, <2>1
    <3>2. CASE p.cipher = "aes"
      BY <1>1, <3>1, <3>2
    <3>3. CASE p.cipher = "none"
      BY <1>1, <3>1, <3>3
    <3>4. CASE p.cipher = "zipcrypto"
      BY <1>1, <3>1, <3>4
    <3> QED BY <1>1, <3>2, <3>3, <3>4 DEF AnyPayload
  <2>4. v.written = p.size /\ v.told = IF o.tell THEN p.size - o.from ELSE 0
    BY <1>4, <1>6, <2>1
  <2>5. p.cipher = "aes" => CodeFits(p)
    BY <1>6, <2>1
  <2> QED BY <2>1, <2>2, <2>3, <2>4, <2>5 DEF Whole, CrcFits
<1>11. ASSUME Passes(p, o.check), Undisturbed(p, o), o.from > 0 => o.prefix
       PROVE  CopyRead(p, o).ret = "OK"
  <2>1. p.packed <= p.avail
    BY <1>11 DEF Passes
  <2>2. Header(p) + Data(p) <= p.avail /\ p.packed \in Nat
    BY <1>1, <2>1 DEF AnyPayload
  <2>3. u.ret = "OK"
    BY <1>2, <1>11, <2>2 DEF StoredSoFar, Smooth
  <2>4. p.cipher = "aes" => u.at + AuthLen <= p.avail
    BY <1>1, <1>4, <2>1, <2>3
  <2>5. v.ret = "OK" /\ v.counted = p.size
    BY <1>4, <1>6, <1>7, <1>11, <2>3, <2>4 DEF Passes
  <2>6. o.check => CrcFits(p, o, v)
    BY <1>11, <2>5 DEF Passes, CrcFits
  <2> QED BY <1>9, <2>5, <2>6
<1> QED BY <1>10, <1>11

LEMMA StoreMapped ==
  ASSUME NEW p, NEW o, StoreReady(p, o), o.mapped
  PROVE  LET r == CopyMapped(p, o)
         IN /\ r.ret = "OK" => Whole(p, o, r)
            /\ Passes(p, o.check) /\ Undisturbed(p, o) /\ (o.from > 0 => o.prefix) => r.ret = "OK"
PROOF
<1> DEFINE s == Begin(p, o)
           u == Loop(LAMBDA t : MappedTurn(o, t), s)
<1>1. /\ p \in AnyPayload /\ o \in AnyWay /\ p.size \in Nat /\ p.packed <= p.avail
      /\ o.from \in Nat /\ p.cipher = "none" /\ o.mapped \in BOOLEAN
  BY DEF StoreReady, Possible, AnyPayload, AnyWay
<1>2. s \in StoredSoFar(p, o) /\ s.left \in Nat /\ s.ret = "OK" /\ s.left = p.size - o.from
  BY StoredBegin
<1>3. ASSUME NEW t \in StoredSoFar(p, o), t.ret = "OK", t.left = 0
      PROVE  /\ t.counted = p.size /\ t.written = p.size
             /\ t.told = IF o.tell THEN p.size - o.from ELSE 0
  <2>1. /\ t.counted + t.left = p.size /\ t.written + t.left = p.size
        /\ t.told = IF o.tell THEN p.size - o.from - t.left ELSE 0
    BY <1>3 DEF StoredSoFar
  <2>2. t.counted \in Int /\ t.written \in Int
    BY DEF StoredSoFar, States
  <2> QED BY <1>1, <1>3, <2>1, <2>2
<1>4. \A t \in StoredSoFar(p, o) : Undisturbed(p, o) => t.ret = "OK"
  BY DEF StoredSoFar, Smooth
<1> HIDE DEF s
<1>5. CASE ~o.check /\ ~o.tell
  <2> DEFINE r == StoreChunk(o, s.left, s)
  <2>1. CopyMapped(p, o) = r
    BY <1>5 DEF CopyMapped, s
  <2>2. r \in StoredSoFar(p, o) /\ (r.ret = "OK" => r.left = s.left - s.left)
    BY <1>2, StoredChunk
  <2>3. r.ret = "OK" => r.left = 0
    BY <1>2, <2>2
  <2> HIDE DEF r
  <2> QED BY <1>1, <1>3, <1>4, <1>5, <2>1, <2>2, <2>3 DEF Whole
<1>6. CASE ~(~o.check /\ ~o.tell)
  <2>1. u \in StoredSoFar(p, o) /\ ~Running(u)
    <3>1. StoredSoFar(p, o) \in SUBSET States
      BY DEF StoredSoFar
    <3>2. \A t \in StoredSoFar(p, o) : Running(t) =>
            /\ MappedTurn(o, t) \in StoredSoFar(p, o)
            /\ MappedTurn(o, t).ret = "OK" =>
                 MappedTurn(o, t).left \in Nat /\ MappedTurn(o, t).left < t.left
      BY StoredMapped
    <3> QED BY <1>2, <3>1, <3>2, MappedLoop DEF s
  <2>2. CopyMapped(p, o) = Checked(p, o, u)
    BY <1>6 DEF CopyMapped, s
  <2> HIDE DEF u
  <2>3. u \in States /\ (u.ret = "OK" => u.left = 0)
    BY <2>1 DEF StoredSoFar, Running
  <2>4. /\ CopyMapped(p, o).ret = "OK" =>
             CopyMapped(p, o) = u /\ u.ret = "OK" /\ (o.check => CrcFits(p, o, u))
        /\ u.ret = "OK" /\ (o.check => CrcFits(p, o, u)) => CopyMapped(p, o) = u
    BY <2>2, <2>3, CheckedState
  <2>5. ASSUME CopyMapped(p, o).ret = "OK"
        PROVE  Whole(p, o, CopyMapped(p, o))
    BY <1>1, <1>3, <2>1, <2>3, <2>4, <2>5 DEF Whole, CrcFits
  <2>6. ASSUME Passes(p, o.check), Undisturbed(p, o), o.from > 0 => o.prefix
        PROVE  CopyMapped(p, o).ret = "OK"
    BY <1>3, <1>4, <2>1, <2>3, <2>4, <2>6 DEF Passes, CrcFits
  <2> QED BY <2>5, <2>6
<1> QED BY <1>5, <1>6

-----------------------------------------------------------------------------
(* Deflated data *)

InflateReady(p, o) ==
  /\ p \in AnyPayload /\ o \in AnyWay /\ Possible(p, o)
  /\ p.method = "deflate" /\ Unlock(p) = "OK"

Fits(p) == Completes(p, Data(p)) /\ p.own = Data(p) /\ p.out = p.size

\* What has come out never exceeds what will.
LEMMA YieldBound ==
  ASSUME NEW p \in AnyPayload, NEW fed \in Nat
  PROVE  Yield(p, fed) \in Nat /\ Yield(p, fed) <= p.out
PROOF
<1> DEFINE a == p.out
           b == Smaller(fed, p.own)
           c == p.own + 1
<1>1. a \in Nat /\ b \in Nat /\ c \in Nat /\ b < c
  BY DEF AnyPayload, Smaller
<1>2. Yield(p, fed) = IF fed >= p.own /\ ~p.late THEN a ELSE (a * b) \div c
  BY DEF Yield
<1> HIDE DEF a, b, c
<1>3. (a * b) \div c \in Nat /\ (a * b) \div c <= a
  <2>1. a * b \in Nat /\ a * c \in Nat /\ a * b <= a * c
    BY <1>1
  <2> QED BY <1>1, <2>1
<1>4. a <= a
  BY <1>1
<1> QED BY <1>1, <1>2, <1>3, <1>4 DEF a

LEMMA AccountedState ==
  ASSUME NEW o \in AnyWay, NEW s \in States, s.ret = "OK", NEW made \in Int
  PROVE  LET t == Accounted(o, s, made)
         IN /\ t \in States
            /\ t.ret = "OK" =>
                 /\ t.at = s.at /\ t.left = s.left /\ t.written = s.written /\ t.z = s.z
                 /\ t.made = made /\ t.counted = s.counted + made - s.made
                 /\ t.told = IF o.tell THEN s.told + (made - s.made) ELSE s.told
            /\ (o.tell => s.told + (made - s.made) < o.cancelAt) => t.ret = "OK"
PROOF
<1> DEFINE c == s.counted + made - s.made
           n == made - s.made
           x == [s EXCEPT !.counted = c]
           t == Told(o, x, n)
           y == [t EXCEPT !.made = made]
<1>1. c \in Int /\ n \in Int
  BY DEF States
<1>2. /\ x \in States /\ x.ret = "OK" /\ x.counted = c /\ x.told = s.told
      /\ x.at = s.at /\ x.left = s.left /\ x.written = s.written /\ x.z = s.z
  <2> HIDE DEF c
  <2> QED BY <1>1 DEF States
<1>3. Accounted(o, s, made) = IF t.ret = "OK" THEN y ELSE t
  BY DEF Accounted
<1> HIDE DEF c, n, x
<1>4. /\ t \in States
      /\ t.told = IF o.tell THEN s.told + n ELSE s.told
      /\ t.at = s.at /\ t.left = s.left /\ t.counted = c /\ t.written = s.written /\ t.z = s.z
      /\ (o.tell => s.told + n < o.cancelAt) => t.ret = "OK"
  BY <1>1, <1>2, ToldState
<1> HIDE DEF t
<1>5. /\ y \in States /\ y.ret = t.ret /\ y.made = made
      /\ y.told = t.told /\ y.at = t.at /\ y.left = t.left /\ y.counted = t.counted
      /\ y.written = t.written /\ y.z = t.z
  BY <1>4 DEF States
<1> HIDE DEF y
<1>6. Accounted(o, s, made) \in States /\ (t.ret = "OK" <=> Accounted(o, s, made).ret = "OK")
  BY <1>3, <1>4, <1>5
<1>7. t.ret = "OK" => Accounted(o, s, made) = y
  BY <1>3
<1> QED BY <1>4, <1>5, <1>6, <1>7 DEF c, n

\* What the loop of the inflater has done.
Inflated(p, o) ==
  { t \in States :
      /\ t.ret = "OK" =>
           /\ t.left \in Nat /\ t.left <= Data(p)
           /\ t.at + t.left = Header(p) + Data(p)
           /\ t.counted = t.made /\ t.written = 0
           /\ t.told = IF o.tell THEN t.made ELSE 0
           /\ t.z # "EINFLATE"
           /\ t.z = "OK" => t.left = 0 /\ Completes(p, Data(p)) /\ t.made = p.out
           /\ o.mapped \/ t.left = Data(p) \/ t.at <= p.avail
      /\ Smooth(p, o) /\ Fits(p) => t.ret = "OK" }

LEMMA InflatedBegin ==
  ASSUME NEW p, NEW o, InflateReady(p, o)
  PROVE  Begin(p, o) \in Inflated(p, o) /\ Begin(p, o).left \in Nat
PROOF
<1>1. Begin(p, o) \in States /\ Header(p) \in Nat /\ Data(p) \in Nat /\ o.from = 0
  BY BeginState, PayloadParts DEF InflateReady, Possible, AnyWay
<1>2. /\ Begin(p, o).ret = "OK" /\ Begin(p, o).left = Data(p)
      /\ Begin(p, o).at = Header(p)
      /\ Begin(p, o).counted = 0 /\ Begin(p, o).written = 0 /\ Begin(p, o).told = 0
      /\ Begin(p, o).made = 0 /\ Begin(p, o).z = "UNFINISHED"
  BY <1>1 DEF Begin, InflateReady
<1> QED BY <1>1, <1>2 DEF Inflated

\* What the inflater is said to answer, and to have made, in a turn of the loop.
Said(p, fed) ==
  IF Data(p) <= InflateChunk THEN (IF Completes(p, fed) THEN "OK" ELSE "EINFLATE")
  ELSE Answer(p, fed)
Made(p, fed) == IF Data(p) <= InflateChunk THEN p.out ELSE Yield(p, fed)

LEMMA SaidOf ==
  ASSUME NEW p \in AnyPayload, Data(p) \in Nat, NEW fed \in 0 .. Data(p),
         Data(p) <= InflateChunk => fed = Data(p)
  PROVE  /\ Said(p, fed) \in {"UNFINISHED", "OK", "EINFLATE"} /\ Made(p, fed) \in Nat
         /\ Said(p, fed) = "OK" => Completes(p, fed) /\ Made(p, fed) = p.out
         /\ Fits(p) => Said(p, fed) # "EINFLATE" /\ Made(p, fed) <= p.size
PROOF
<1>1. /\ p.out \in Nat /\ p.size \in Nat /\ p.own \in Nat /\ p.broken \in Nat /\ fed \in Nat
      /\ Yield(p, fed) \in Nat /\ Yield(p, fed) <= p.out
  BY YieldBound DEF AnyPayload
<1>2. CASE Data(p) <= InflateChunk
  <2>1. Said(p, fed) = (IF Completes(p, fed) THEN "OK" ELSE "EINFLATE") /\ Made(p, fed) = p.out
    BY <1>2 DEF Said, Made
  <2>2. Fits(p) => Completes(p, fed) /\ p.out <= p.size
    BY <1>1, <1>2 DEF Fits
  <2> QED BY <1>1, <2>1, <2>2
<1>3. CASE ~(Data(p) <= InflateChunk)
  <2>1. Said(p, fed) = Answer(p, fed) /\ Made(p, fed) = Yield(p, fed)
    BY <1>3 DEF Said, Made
  <2> DEFINE bad == p.broken \in 1 .. fed \/ Yield(p, fed) > p.size
  <2>2. Fits(p) => ~bad
    BY <1>1 DEF Fits, Completes
  <2>3. CASE bad
    <3>1. Answer(p, fed) = "EINFLATE"
      BY <2>3 DEF Answer
    <3> QED BY <1>1, <2>1, <2>2, <2>3, <3>1
  <2>4. CASE ~bad
    <3>1. Answer(p, fed) = IF Completes(p, fed) /\ ~p.late THEN "OK" ELSE "UNFINISHED"
      BY <2>4 DEF Answer
    <3>2. Answer(p, fed) = "OK" => Completes(p, fed) /\ Yield(p, fed) = p.out
      BY <3>1 DEF Completes, Yield
    <3>3. Fits(p) => Yield(p, fed) <= p.size
      BY <1>1 DEF Fits
    <3> QED BY <1>1, <2>1, <3>1, <3>2, <3>3
  <2> QED BY <2>3, <2>4
<1> QED BY <1>2, <1>3

LEMMA InflatedTurn ==
  ASSUME NEW p, NEW o, InflateReady(p, o), NEW s \in Inflated(p, o), Running(s)
  PROVE  LET t == InflateTurn(p, o, s)
         IN t \in Inflated(p, o) /\ (t.ret = "OK" => t.left \in Nat /\ t.left < s.left)
PROOF
<1> DEFINE n    == Smaller(s.left, InflateChunk)
           fed  == Data(p) - s.left + n
           z    == Said(p, fed)
           made == Made(p, fed)
           x    == [s EXCEPT !.at = @ + n, !.z = z]
           t    == Accounted(o, x, made)
           y    == [t EXCEPT !.left = @ - n]
           r    == InflateTurn(p, o, s)
<1>1. /\ s \in States /\ s.ret = "OK" /\ s.left \in Nat /\ s.left > 0 /\ s.left <= Data(p)
      /\ s.at + s.left = Header(p) + Data(p) /\ s.at \in Int
      /\ s.counted = s.made /\ s.made \in Int /\ s.written = 0
      /\ s.told = IF o.tell THEN s.made ELSE 0
  BY DEF Inflated, Running, States
<1>2. /\ p \in AnyPayload /\ o \in AnyWay /\ Header(p) \in Nat /\ Data(p) \in Nat
      /\ p.avail \in Nat /\ p.size \in Nat /\ p.own \in Nat /\ p.out \in Nat
      /\ o.cancelAt \in Nat
  BY PayloadParts DEF InflateReady, AnyPayload, AnyWay
<1>3. /\ n \in 1 .. s.left /\ fed \in 0 .. Data(p)
      /\ Data(p) <= InflateChunk => n = s.left /\ fed = Data(p)
      /\ fed = Data(p) <=> s.left = n
  <2>1. n \in 1 .. s.left /\ (Data(p) <= InflateChunk => n = s.left)
    BY <1>1, <1>2, DataAssumption DEF Smaller
  <2> HIDE DEF n
  <2> QED BY <1>1, <1>2, <2>1
<1> HIDE DEF n, fed
<1>4. /\ z \in {"UNFINISHED", "OK", "EINFLATE"} /\ made \in Nat
      /\ z = "OK" => Completes(p, fed) /\ made = p.out
      /\ Fits(p) => z # "EINFLATE" /\ made <= p.size
  BY <1>2, <1>3, SaidOf
<1>5. r = CASE ~o.mapped /\ s.at + n > p.avail             -> Failed(s, "EINCOMPLETE")
            [] (o.mapped \/ s.at + n <= p.avail) /\ z = "EINFLATE" -> Failed(s, "EINFLATE")
            [] (o.mapped \/ s.at + n <= p.avail) /\ z # "EINFLATE" ->
                 IF t.ret # "OK" THEN t
                 ELSE IF z = "OK" /\ s.left # n THEN Failed(t, "ESIZE")
                 ELSE y
  BY DEF InflateTurn, n, fed, Said, Made
<1> HIDE DEF z, made, r
<1>6. /\ x \in States /\ x.ret = "OK" /\ x.at = s.at + n /\ x.z = z
      /\ x.left = s.left /\ x.made = s.made /\ x.counted = s.counted
      /\ x.told = s.told /\ x.written = s.written
  <2> DEFINE a == s.at + n
  <2>1. a \in Int
    BY <1>1, <1>3
  <2> HIDE DEF a
  <2>2. x = [s EXCEPT !.at = a, !.z = z]
    BY DEF a
  <2> HIDE DEF x
  <2>3. /\ x \in States /\ x.ret = "OK" /\ x.at = a /\ x.z = z
        /\ x.left = s.left /\ x.made = s.made /\ x.counted = s.counted
        /\ x.told = s.told /\ x.written = s.written
    BY <1>1, <1>4, <2>1, <2>2 DEF States
  <2> QED BY <2>3 DEF a
<1> HIDE DEF x
<1>7. /\ t \in States
      /\ t.ret = "OK" =>
           /\ t.at = x.at /\ t.left = x.left /\ t.written = x.written /\ t.z = x.z
           /\ t.made = made /\ t.counted = x.counted + made - x.made
           /\ t.told = IF o.tell THEN x.told + (made - x.made) ELSE x.told
      /\ (o.tell => x.told + (made - x.made) < o.cancelAt) => t.ret = "OK"
  <2>1. o \in AnyWay /\ made \in Int
    BY <1>2, <1>4
  <2>2. x \in States /\ x.ret = "OK"
    BY <1>6
  <2> QED BY <2>1, <2>2, AccountedState
<1> HIDE DEF t
<1>8. Smooth(p, o) /\ Fits(p) => t.ret = "OK"
  <2> SUFFICES ASSUME o.cancelAt > p.size, made <= p.size, o.tell
               PROVE  x.told + (made - x.made) < o.cancelAt
    BY <1>4, <1>7 DEF Smooth, Undisturbed
  <2>1. x.told = x.made /\ x.made \in Int
    BY <1>1, <1>6
  <2> QED BY <1>2, <1>4, <2>1
<1>9. t.ret = "OK" =>
        /\ t.at = s.at + n /\ t.left = s.left /\ t.written = 0 /\ t.z = z /\ t.made = made
        /\ t.counted = made /\ t.told = IF o.tell THEN made ELSE 0
  <2>1. s.counted + made - s.made = made /\ s.made + (made - s.made) = made
    BY <1>1, <1>4
  <2> QED BY <1>1, <1>6, <1>7, <2>1
<1>10. s.at + n > p.avail <=> ~(s.at + n <= p.avail)
  BY <1>1, <1>2, <1>3
<1>11. CASE ~o.mapped /\ s.at + n > p.avail
  <2>1. r = Failed(s, "EINCOMPLETE")
    BY <1>5, <1>10, <1>11
  <2>2. ~Smooth(p, o)
    <3>1. ~(Header(p) + Data(p) <= p.avail)
      BY <1>1, <1>2, <1>3, <1>11
    <3> QED BY <1>11, <3>1 DEF Smooth
  <2>3. r \in States /\ r.ret = "EINCOMPLETE"
    BY <1>1, <2>1, FailedState DEF Codes
  <2> QED BY <2>2, <2>3 DEF r, Inflated
<1>12. CASE (o.mapped \/ s.at + n <= p.avail) /\ z = "EINFLATE"
  <2>1. r = Failed(s, "EINFLATE")
    BY <1>5, <1>10, <1>12
  <2>2. r \in States /\ r.ret = "EINFLATE"
    BY <1>1, <2>1, FailedState DEF Codes
  <2> QED BY <1>4, <1>12, <2>2 DEF r, Inflated
<1>13. CASE (o.mapped \/ s.at + n <= p.avail) /\ z # "EINFLATE"
  <2>1. r = IF t.ret # "OK" THEN t
            ELSE IF z = "OK" /\ s.left # n THEN Failed(t, "ESIZE") ELSE y
    BY <1>5, <1>10, <1>13
  <2>2. CASE t.ret # "OK"
    BY <1>7, <1>8, <2>1, <2>2 DEF r, Inflated
  <2>3. CASE t.ret = "OK" /\ z = "OK" /\ s.left # n
    <3>1. r = Failed(t, "ESIZE")
      BY <2>1, <2>3
    <3>2. r \in States /\ r.ret = "ESIZE"
      BY <1>7, <3>1, FailedState DEF Codes
    <3>3. Fits(p) => s.left = n
      BY <1>2, <1>3, <1>4, <2>3 DEF Fits, Completes
    <3> QED BY <2>3, <3>2, <3>3 DEF r, Inflated
  <2>4. CASE t.ret = "OK" /\ (z = "OK" => s.left = n)
    <3>1. r = y
      BY <2>1, <2>4
    <3> DEFINE l == t.left - n
    <3>2. l = s.left - n /\ l \in Int
      BY <1>1, <1>3, <1>9, <2>4
    <3>3. /\ y \in States /\ y.ret = "OK" /\ y.left = l /\ y.at = t.at /\ y.written = t.written
          /\ y.z = t.z /\ y.made = t.made /\ y.counted = t.counted /\ y.told = t.told
      <4> HIDE DEF l
      <4>1. y = [t EXCEPT !.left = l]
        BY DEF l
      <4> HIDE DEF y
      <4> QED BY <1>7, <2>4, <3>2, <4>1 DEF States
    <3> HIDE DEF y, l
    <3>4. /\ y.left \in Nat /\ y.left <= Data(p) /\ y.left < s.left
          /\ y.at + y.left = Header(p) + Data(p)
      BY <1>1, <1>2, <1>3, <1>9, <2>4, <3>2, <3>3
    <3>5. y.z = "OK" => y.left = 0 /\ Completes(p, Data(p)) /\ y.made = p.out
      <4> SUFFICES ASSUME z = "OK"
                   PROVE  y.left = 0 /\ Completes(p, Data(p)) /\ y.made = p.out
        BY <1>9, <2>4, <3>3
      <4>1. s.left = n /\ fed = Data(p) /\ made = p.out
        BY <1>3, <1>4, <2>4
      <4> QED BY <1>1, <1>3, <1>4, <1>9, <2>4, <3>2, <3>3, <4>1
    <3>6. o.mapped \/ y.at <= p.avail
      BY <1>9, <1>13, <2>4, <3>3
    <3>7. /\ y.counted = y.made /\ y.written = 0 /\ y.z # "EINFLATE"
          /\ y.told = IF o.tell THEN y.made ELSE 0
      BY <1>9, <1>13, <2>4, <3>3
    <3>8. y \in Inflated(p, o)
      BY <3>3, <3>4, <3>5, <3>6, <3>7 DEF Inflated
    <3> QED BY <3>1, <3>4, <3>8 DEF r
  <2> QED BY <2>2, <2>3, <2>4
<1> QED BY <1>10, <1>11, <1>12, <1>13

LEMMA SizedState ==
  ASSUME NEW p, NEW s \in States, NEW ends \in BOOLEAN
  PROVE  /\ Sized(p, s, ends).ret = "OK" =>
              Sized(p, s, ends) = s /\ s.ret = "OK" /\ p.out = p.size /\ ends
         /\ s.ret = "OK" /\ p.out = p.size /\ ends => Sized(p, s, ends) = s
         /\ Sized(p, s, ends) \in States
BY FailedState DEF Sized, Codes

LEMMA OutputState ==
  ASSUME NEW p \in AnyPayload, NEW o \in AnyWay, NEW s \in States, s.ret = "OK" => s.written = 0
  PROVE  LET t == OutputDone(p, o, s)
         IN /\ t.ret = "OK" => s.ret = "OK" /\ t.written = p.size /\ t.told = s.told /\ t.at = s.at
            /\ s.ret = "OK" /\ p.size <= o.disk => t.ret = "OK"
PROOF
<1> DEFINE t == OutputDone(p, o, s)
           x == [s EXCEPT !.written = p.size]
           y == [s EXCEPT !.written = @ + p.size]
<1>1. p.size \in Nat /\ o.disk \in Nat /\ o.mapOut \in BOOLEAN
  BY DEF AnyPayload, AnyWay
<1>2. /\ x.ret = s.ret /\ x.told = s.told /\ x.at = s.at /\ x.written = p.size
      /\ y.ret = s.ret /\ y.told = s.told /\ y.at = s.at /\ y.written = s.written + p.size
  BY DEF States
<1>3. CASE s.ret # "OK"
  <2>1. t = s
    BY <1>3 DEF OutputDone
  <2> QED BY <1>3, <2>1
<1>4. CASE s.ret = "OK" /\ o.mapOut
  <2>1. t = x
    BY <1>4 DEF OutputDone
  <2> QED BY <1>2, <1>4, <2>1
<1>5. CASE s.ret = "OK" /\ ~o.mapOut
  <2>1. t = Wrote(o, s, p.size)
    BY <1>5 DEF OutputDone
  <2>2. t = IF s.written + p.size > o.disk THEN Failed(s, "EFILE") ELSE y
    BY <2>1 DEF Wrote
  <2>3. s.written + p.size = p.size
    BY <1>1, <1>5
  <2>4. Failed(s, "EFILE").ret = "EFILE"
    BY FailedState DEF Codes
  <2>5. CASE p.size > o.disk
    <3>1. t = Failed(s, "EFILE")
      BY <2>2, <2>3, <2>5
    <3>2. ~(p.size <= o.disk)
      BY <1>1, <2>5
    <3> QED BY <2>4, <3>1, <3>2
  <2>6. CASE ~(p.size > o.disk)
    <3>1. t = y
      BY <2>2, <2>3, <2>6
    <3> HIDE DEF t, y
    <3>2. t.ret = "OK" => s.ret = "OK" /\ t.written = p.size /\ t.told = s.told /\ t.at = s.at
      BY <1>2, <1>5, <2>3, <3>1
    <3>3. t.ret = "OK"
      BY <1>2, <1>5, <3>1
    <3> QED BY <3>2, <3>3 DEF t
  <2> QED BY <2>5, <2>6
<1> QED BY <1>1, <1>3, <1>4, <1>5

\* All that has been put in, and all that comes out.
LEMMA FlushedState ==
  ASSUME NEW p, NEW o, InflateReady(p, o), NEW s \in Inflated(p, o), ~Running(s)
  PROVE  LET t == Flushed(p, o, s)
         IN /\ t \in States
            /\ t.ret = "OK" =>
                 /\ Completes(p, Data(p)) /\ t.counted = p.out /\ t.written = 0
                 /\ t.at = Header(p) + Data(p)
                 /\ t.told = IF o.tell THEN p.out ELSE 0
                 /\ o.mapped \/ Data(p) = 0 \/ t.at <= p.avail
            /\ Smooth(p, o) /\ Fits(p) => t.ret = "OK"
PROOF
<1> DEFINE a == Accounted(o, s, p.out)
           t == Flushed(p, o, s)
<1>1. /\ p \in AnyPayload /\ o \in AnyWay /\ p.out \in Nat /\ p.size \in Nat /\ o.cancelAt \in Nat
      /\ Header(p) \in Nat /\ Data(p) \in Nat /\ s \in States /\ s.at \in Int /\ s.made \in Int
  BY PayloadParts DEF InflateReady, AnyPayload, AnyWay, Inflated, States
<1>2. CASE s.ret # "OK"
  <2>1. t = s
    BY <1>2 DEF Flushed
  <2> QED BY <1>1, <1>2, <2>1 DEF Inflated
<1>3. CASE s.ret = "OK"
  <2>1. /\ s.left = 0 /\ s.at + s.left = Header(p) + Data(p)
        /\ s.counted = s.made /\ s.written = 0 /\ s.told = IF o.tell THEN s.made ELSE 0
        /\ s.z # "EINFLATE" /\ (s.z = "OK" => Completes(p, Data(p)))
        /\ o.mapped \/ s.left = Data(p) \/ s.at <= p.avail
    BY <1>3 DEF Inflated, Running
  <2>2. s.z = "UNFINISHED" \/ s.z = "OK"
    BY <1>1, <2>1 DEF States
  <2>3. CASE s.z = "UNFINISHED" /\ ~Completes(p, Data(p))
    <3>1. t = Failed(s, "EINFLATE")
      BY <1>3, <2>3 DEF Flushed
    <3>2. t \in States /\ t.ret = "EINFLATE"
      BY <1>1, <3>1, FailedState DEF Codes
    <3> QED BY <2>3, <3>2 DEF Fits
  <2>4. CASE Completes(p, Data(p))
    <3>1. t = a
      BY <1>3, <2>4 DEF Flushed
    <3>2. /\ a \in States
          /\ a.ret = "OK" =>
               /\ a.at = s.at /\ a.written = s.written
               /\ a.counted = s.counted + p.out - s.made
               /\ a.told = IF o.tell THEN s.told + (p.out - s.made) ELSE s.told
          /\ (o.tell => s.told + (p.out - s.made) < o.cancelAt) => a.ret = "OK"
      <4>1. p.out \in Int
        BY <1>1
      <4> QED BY <1>1, <1>3, <4>1, AccountedState
    <3> HIDE DEF a, t
    <3>3. s.made + p.out - s.made = p.out /\ s.made + (p.out - s.made) = p.out
      BY <1>1
    <3>4. s.at = Header(p) + Data(p)
      BY <1>1, <2>1
    <3>5. Smooth(p, o) /\ Fits(p) => a.ret = "OK"
      <4> SUFFICES ASSUME o.cancelAt > p.size, p.out = p.size, o.tell
                   PROVE  s.told + (p.out - s.made) < o.cancelAt
        BY <3>2 DEF Smooth, Undisturbed, Fits
      <4>1. s.told = s.made
        BY <2>1
      <4> QED BY <1>1, <3>3, <4>1
    <3>6. a.ret = "OK" =>
            /\ a.counted = p.out /\ a.written = 0 /\ a.at = Header(p) + Data(p)
            /\ a.told = IF o.tell THEN p.out ELSE 0
            /\ o.mapped \/ Data(p) = 0 \/ a.at <= p.avail
      BY <2>1, <3>2, <3>3, <3>4
    <3> QED BY <2>4, <3>1, <3>2, <3>5, <3>6 DEF t
  <2> QED BY <2>1, <2>2, <2>3, <2>4
<1> QED BY <1>2, <1>3

\* What comes after the inflater has come to its end.
LEMMA InflateChecks ==
  ASSUME NEW p, NEW o, InflateReady(p, o), NEW s \in States, NEW ends \in BOOLEAN,
         s.ret = "OK" => s.written = 0 /\ s.counted = p.out
  PROVE  LET r == OutputDone(p, o, Checked(p, o, Sized(p, s, ends)))
         IN /\ r.ret = "OK" =>
                 /\ s.ret = "OK" /\ p.out = p.size /\ ends
                 /\ r.written = p.size /\ r.told = s.told /\ r.at = s.at
                 /\ o.check => p.good /\ Opened(p)
            /\ (/\ s.ret = "OK" /\ p.out = p.size /\ ends /\ p.size <= o.disk
                /\ o.check => p.good /\ Opened(p)) => r.ret = "OK"
PROOF
<1> DEFINE u == Sized(p, s, ends)
           v == Checked(p, o, u)
           r == OutputDone(p, o, v)
<1>1. p \in AnyPayload /\ o \in AnyWay /\ o.from = 0 /\ ~(o.from > 0)
  BY DEF InflateReady, Possible, AnyWay
<1>2. /\ u.ret = "OK" => u = s /\ s.ret = "OK" /\ p.out = p.size /\ ends
      /\ s.ret = "OK" /\ p.out = p.size /\ ends => u = s
      /\ u \in States
  BY SizedState
<1> HIDE DEF u
<1>3. /\ v.ret = "OK" => v = u /\ u.ret = "OK" /\ (o.check => CrcFits(p, o, u))
      /\ u.ret = "OK" /\ (o.check => CrcFits(p, o, u)) => v = u
      /\ v \in States
  BY <1>2, CheckedState
<1> HIDE DEF v
<1>4. /\ r.ret = "OK" => v.ret = "OK" /\ r.written = p.size /\ r.told = v.told /\ r.at = v.at
      /\ v.ret = "OK" /\ p.size <= o.disk => r.ret = "OK"
  <2>1. v.ret = "OK" => v.written = 0
    BY <1>2, <1>3
  <2> QED BY <1>1, <1>3, <2>1, OutputState
<1> HIDE DEF r
<1>5. ASSUME r.ret = "OK"
      PROVE  /\ s.ret = "OK" /\ p.out = p.size /\ ends
             /\ r.written = p.size /\ r.told = s.told /\ r.at = s.at
             /\ o.check => p.good /\ Opened(p)
  BY <1>2, <1>3, <1>4, <1>5 DEF CrcFits
<1>6. ASSUME s.ret = "OK", p.out = p.size, ends, p.size <= o.disk, o.check => p.good /\ Opened(p)
      PROVE  r.ret = "OK"
  <2>1. u = s /\ u.ret = "OK" /\ (o.check => CrcFits(p, o, u))
    BY <1>1, <1>2, <1>6 DEF CrcFits
  <2> QED BY <1>3, <1>4, <1>6, <2>1
<1> QED BY <1>5, <1>6 DEF r, v, u

LEMMA InflatedInChunks ==
  ASSUME NEW p, NEW o, InflateReady(p, o)
  PROVE  LET r == InflateInChunks(p, o)
         IN /\ r.ret = "OK" => Whole(p, o, r) /\ Fits(p)
            /\ Fits(p) /\ Passes(p, o.check) /\ Undisturbed(p, o) => r.ret = "OK"
PROOF
<1> DEFINE l == Loop(LAMBDA t : InflateTurn(p, o, t), Begin(p, o))
           u == Flushed(p, o, l)
           v == Finished(p, u)
           e == p.own = Data(p)
           r == OutputDone(p, o, Checked(p, o, Sized(p, v, e)))
<1>1. /\ p \in AnyPayload /\ o \in AnyWay /\ p.size \in Nat /\ p.avail \in Nat /\ p.packed \in Nat
      /\ Header(p) \in Nat /\ Trailer(p) \in Nat /\ Data(p) \in Nat
      /\ Header(p) + Data(p) + Trailer(p) = p.packed
      /\ o.from = 0 /\ ~(o.from > 0) /\ o.disk \in Nat
      /\ o.mapped => p.cipher = "none" /\ p.avail >= p.packed
  BY PayloadParts DEF InflateReady, Possible, AnyPayload, AnyWay
<1>2. l \in Inflated(p, o) /\ ~Running(l)
  <2>1. Inflated(p, o) \in SUBSET States
    BY DEF Inflated
  <2>2. \A t \in Inflated(p, o) : Running(t) =>
          /\ InflateTurn(p, o, t) \in Inflated(p, o)
          /\ InflateTurn(p, o, t).ret = "OK" =>
               InflateTurn(p, o, t).left \in Nat /\ InflateTurn(p, o, t).left < t.left
    BY InflatedTurn
  <2> QED BY <2>1, <2>2, InflatedBegin, InflateLoop
<1>3. InflateInChunks(p, o) = r
  BY DEF InflateInChunks
<1> HIDE DEF l
<1>4. /\ u \in States
      /\ u.ret = "OK" =>
           /\ Completes(p, Data(p)) /\ u.counted = p.out /\ u.written = 0
           /\ u.at = Header(p) + Data(p)
           /\ u.told = IF o.tell THEN p.out ELSE 0
           /\ o.mapped \/ Data(p) = 0 \/ u.at <= p.avail
      /\ Smooth(p, o) /\ Fits(p) => u.ret = "OK"
  BY <1>2, FlushedState
<1> HIDE DEF u
<1>5. /\ v \in States
      /\ v.ret = "OK" =>
           /\ u.ret = "OK" /\ v.at = u.at + Trailer(p) /\ v.counted = u.counted
           /\ v.told = u.told /\ v.written = u.written
           /\ p.cipher = "aes" => CodeFits(p) /\ u.at + AuthLen <= p.avail
      /\ u.ret = "OK" /\ (p.cipher = "aes" => CodeFits(p) /\ u.at + AuthLen <= p.avail) =>
           v.ret = "OK"
  BY <1>1, <1>4, FinishedState
<1> HIDE DEF v, e
<1>6. /\ r.ret = "OK" =>
           /\ v.ret = "OK" /\ p.out = p.size /\ e
           /\ r.written = p.size /\ r.told = v.told /\ r.at = v.at
           /\ o.check => p.good /\ Opened(p)
      /\ (/\ v.ret = "OK" /\ p.out = p.size /\ e /\ p.size <= o.disk
          /\ o.check => p.good /\ Opened(p)) => r.ret = "OK"
  <2>1. e \in BOOLEAN
    BY DEF e
  <2>2. v.ret = "OK" => v.written = 0 /\ v.counted = p.out
    BY <1>4, <1>5
  <2> QED BY <1>5, <2>1, <2>2, InflateChecks
<1> HIDE DEF r
<1>7. ASSUME r.ret = "OK"
      PROVE  Whole(p, o, r) /\ Fits(p)
  <2>1. Fits(p)
    BY <1>4, <1>5, <1>6, <1>7 DEF Fits, e
  <2>2. r.at = p.packed /\ r.written = p.size
    BY <1>1, <1>4, <1>5, <1>6, <1>7
  <2>3. r.told = IF o.tell THEN p.size - o.from ELSE 0
    <3>1. p.size - o.from = p.size
      BY <1>1
    <3> QED BY <1>4, <1>5, <1>6, <1>7, <3>1
  <2>4. p.packed <= p.avail
    <3>1. CASE o.mapped
      BY <1>1, <3>1
    <3>2. CASE ~o.mapped /\ p.cipher = "aes"
      <4>1. Trailer(p) = AuthLen /\ u.at = Header(p) + Data(p) /\ u.at + AuthLen <= p.avail
        BY <1>4, <1>5, <1>6, <1>7, <3>2 DEF Trailer
      <4> QED BY <1>1, <4>1
    <3>3. CASE ~o.mapped /\ p.cipher # "aes"
      <4>1. /\ Trailer(p) = 0 /\ u.at = Header(p) + Data(p)
            /\ Data(p) = 0 \/ u.at <= p.avail
        BY <1>4, <1>5, <1>6, <1>7, <3>3 DEF Trailer
      <4>2. Header(p) <= p.avail
        BY <1>1, HeaderThere DEF InflateReady
      <4> QED BY <1>1, <4>1, <4>2
    <3> QED BY <3>1, <3>2, <3>3
  <2>5. p.cipher = "aes" => CodeFits(p)
    BY <1>5, <1>6, <1>7
  <2> QED BY <1>1, <1>6, <1>7, <2>1, <2>2, <2>3, <2>4, <2>5 DEF Whole
<1>8. ASSUME Fits(p), Passes(p, o.check), Undisturbed(p, o)
      PROVE  r.ret = "OK"
  <2>1. p.packed <= p.avail
    BY <1>8 DEF Passes
  <2>2. Header(p) + Data(p) <= p.avail /\ Header(p) + Data(p) + Trailer(p) <= p.avail
    BY <1>1, <2>1
  <2>3. u.ret = "OK"
    BY <1>4, <1>8, <2>2 DEF Smooth
  <2>4. p.cipher = "aes" => u.at + AuthLen <= p.avail
    BY <1>4, <2>2, <2>3 DEF Trailer
  <2>5. v.ret = "OK"
    BY <1>5, <1>8, <2>3, <2>4 DEF Passes
  <2>6. p.size <= o.disk
    BY <1>1, <1>8 DEF Undisturbed
  <2> QED BY <1>6, <1>8, <2>5, <2>6 DEF Fits, Passes, e
<1> QED BY <1>3, <1>7, <1>8

LEMMA InflatedAtOnce ==
  ASSUME NEW p, NEW o, InflateReady(p, o), o.mapped, ~o.tell
  PROVE  LET r == InflateAtOnce(p, o)
         IN /\ r.ret = "OK" => Whole(p, o, r) /\ Completes(p, Data(p)) /\ p.out = p.size
            /\ Fits(p) /\ Passes(p, o.check) /\ Undisturbed(p, o) => r.ret = "OK"
PROOF
<1> DEFINE b == Begin(p, o)
           x == [b EXCEPT !.counted = p.out]
           s == IF Completes(p, Data(p)) THEN x ELSE Failed(b, "EINFLATE")
           e == TRUE
           r == OutputDone(p, o, Checked(p, o, Sized(p, s, e)))
<1>1. /\ p \in AnyPayload /\ o \in AnyWay /\ p.out \in Int /\ p.size \in Nat /\ o.disk \in Nat
      /\ o.from = 0 /\ ~(o.from > 0) /\ p.cipher = "none" /\ p.avail >= p.packed
      /\ p.avail \in Nat /\ p.packed \in Nat
  BY DEF InflateReady, Possible, AnyPayload, AnyWay
<1>2. b \in States /\ b.ret = "OK" /\ b.written = 0 /\ b.told = 0
  <2>1. b.ret = "OK" /\ b.written = 0 /\ b.told = 0
    BY <1>1 DEF Begin, InflateReady
  <2> QED BY <1>1, <2>1, BeginState
<1>3. InflateAtOnce(p, o) = r
  BY DEF InflateAtOnce
<1> HIDE DEF b
<1>4. /\ x \in States /\ x.ret = "OK" /\ x.written = 0 /\ x.told = 0 /\ x.counted = p.out
  BY <1>1, <1>2 DEF States
<1> HIDE DEF x
<1>5. /\ s \in States /\ (s.ret = "OK" <=> Completes(p, Data(p)))
      /\ s.ret = "OK" => s.written = 0 /\ s.told = 0 /\ s.counted = p.out
  <2>1. Failed(b, "EINFLATE") \in States /\ Failed(b, "EINFLATE").ret = "EINFLATE"
    BY <1>2, FailedState DEF Codes
  <2> QED BY <1>4, <2>1
<1> HIDE DEF s, e
<1>6. /\ r.ret = "OK" =>
           /\ s.ret = "OK" /\ p.out = p.size
           /\ r.written = p.size /\ r.told = s.told /\ r.at = s.at
           /\ o.check => p.good /\ Opened(p)
      /\ (/\ s.ret = "OK" /\ p.out = p.size /\ p.size <= o.disk
          /\ o.check => p.good /\ Opened(p)) => r.ret = "OK"
  <2>1. e \in BOOLEAN
    BY DEF e
  <2>3. e
    BY DEF e
  <2>4. s \in States /\ (s.ret = "OK" => s.written = 0 /\ s.counted = p.out)
    BY <1>5
  <2>2. /\ r.ret = "OK" =>
             /\ s.ret = "OK" /\ p.out = p.size /\ e
             /\ r.written = p.size /\ r.told = s.told /\ r.at = s.at
             /\ o.check => p.good /\ Opened(p)
        /\ (/\ s.ret = "OK" /\ p.out = p.size /\ e /\ p.size <= o.disk
            /\ o.check => p.good /\ Opened(p)) => r.ret = "OK"
    BY <2>1, <2>4, InflateChecks
  <2> HIDE DEF r
  <2> QED BY <2>2, <2>3
<1> HIDE DEF r
<1>7. ASSUME r.ret = "OK"
      PROVE  Whole(p, o, r) /\ Completes(p, Data(p)) /\ p.out = p.size
  <2>1. p.packed <= p.avail
    BY <1>1
  <2> QED BY <1>1, <1>5, <1>6, <1>7, <2>1 DEF Whole
<1>8. ASSUME Fits(p), Passes(p, o.check), Undisturbed(p, o)
      PROVE  r.ret = "OK"
  <2>1. p.size <= o.disk
    BY <1>1, <1>8 DEF Undisturbed
  <2> QED BY <1>5, <1>6, <1>8, <2>1 DEF Fits, Passes
<1> QED BY <1>3, <1>7, <1>8

-----------------------------------------------------------------------------
(* Every branch of extract_entry *)

\* What is accepted, wherever it goes.
Accepted(p, check) ==
  /\ Unlock(p) = "OK" /\ Passes(p, check)
  /\ p.method = "store" => Data(p) = p.size
  /\ p.method = "deflate" => ~TooLarge(p) /\ Fits(p)

LEMMA Extracted ==
  ASSUME NEW p \in AnyPayload, NEW o \in AnyWay, Possible(p, o)
  PROVE  LET r == Extract(p, o)
         IN /\ r.ret = "OK" => Whole(p, o, r)
            /\ r.ret = "OK" /\ o.from = 0 /\ (p.method = "deflate" => p.own >= Data(p)) =>
                 Accepted(p, o.check)
            /\ Accepted(p, o.check) /\ Undisturbed(p, o) /\ (o.from > 0 => o.prefix) => r.ret = "OK"
PROOF
<1> DEFINE r == Extract(p, o)
<1>1. /\ Begin(p, o) \in States /\ Unlock(p) \in Codes
      /\ p.method = "store" \/ p.method = "deflate"
      /\ p.own \in Nat
  BY BeginState, PayloadParts DEF AnyPayload
<1>2. Whole(p, o, r) /\ o.from = 0 => p.packed <= p.avail
                                      /\ (p.cipher = "aes" => CodeFits(p))
                                      /\ (o.check => p.good /\ Opened(p))
  BY DEF Whole
<1>3. CASE Unlock(p) # "OK"
  <2>1. r = Failed(Begin(p, o), Unlock(p))
    BY <1>3 DEF Extract
  <2>2. r.ret # "OK"
    BY <1>1, <1>3, <2>1, FailedState
  <2> QED BY <1>3, <2>2 DEF Accepted
<1>4. CASE Unlock(p) = "OK" /\ p.method = "store"
  <2>1. r = IF Data(p) # p.size THEN Failed(Begin(p, o), "ESIZE")
            ELSE IF o.mapped THEN CopyMapped(p, o) ELSE CopyRead(p, o)
    BY <1>4 DEF Extract
  <2>2. CASE Data(p) # p.size
    <3>1. r.ret # "OK"
      BY <1>1, <2>1, <2>2, FailedState DEF Codes
    <3> QED BY <1>4, <2>2, <3>1 DEF Accepted
  <2>3. CASE Data(p) = p.size
    <3>1. StoreReady(p, o)
      BY <1>4, <2>3 DEF StoreReady
    <3>2. /\ r.ret = "OK" => Whole(p, o, r)
          /\ Passes(p, o.check) /\ Undisturbed(p, o) /\ (o.from > 0 => o.prefix) => r.ret = "OK"
      <4>1. CASE o.mapped
        <5>1. r = CopyMapped(p, o)
          BY <2>1, <2>3, <4>1
        <5> QED BY <3>1, <4>1, <5>1, StoreMapped
      <4>2. CASE ~o.mapped
        <5>1. r = CopyRead(p, o)
          BY <2>1, <2>3, <4>2
        <5> QED BY <3>1, <4>2, <5>1, StoreRead
      <4> QED BY <4>1, <4>2
    <3> HIDE DEF r
    <3> QED BY <1>2, <1>4, <2>3, <3>2 DEF Accepted, Passes, r
  <2> QED BY <2>2, <2>3
<1>5. CASE Unlock(p) = "OK" /\ p.method = "deflate"
  <2>1. r = IF TooLarge(p) THEN Failed(Begin(p, o), "EUNSUP")
            ELSE IF o.mapped /\ ~o.tell THEN InflateAtOnce(p, o) ELSE InflateInChunks(p, o)
    BY <1>5 DEF Extract
  <2>2. CASE TooLarge(p)
    <3>1. r.ret # "OK"
      BY <1>1, <2>1, <2>2, FailedState DEF Codes
    <3> QED BY <1>5, <2>2, <3>1 DEF Accepted
  <2>3. CASE ~TooLarge(p)
    <3>1. InflateReady(p, o)
      BY <1>5 DEF InflateReady
    <3>2. /\ r.ret = "OK" => Whole(p, o, r) /\ Completes(p, Data(p)) /\ p.out = p.size
                             /\ (p.own >= Data(p) => p.own = Data(p))
          /\ Fits(p) /\ Passes(p, o.check) /\ Undisturbed(p, o) => r.ret = "OK"
      <4>1. CASE o.mapped /\ ~o.tell
        <5>1. r = InflateAtOnce(p, o)
          BY <2>1, <2>3, <4>1
        <5>2. Data(p) \in Nat
          BY <1>5, PayloadParts
        <5>3. Completes(p, Data(p)) /\ p.own >= Data(p) => p.own = Data(p)
          BY <1>1, <5>2 DEF Completes
        <5> QED BY <3>1, <4>1, <5>1, <5>3, InflatedAtOnce
      <4>2. CASE ~(o.mapped /\ ~o.tell)
        <5>1. r = InflateInChunks(p, o)
          BY <2>1, <2>3, <4>2
        <5> QED BY <3>1, <5>1, InflatedInChunks DEF Fits
      <4> QED BY <4>1, <4>2
    <3> HIDE DEF r
    <3> QED BY <1>2, <1>5, <2>3, <3>2 DEF Accepted, Passes, Fits, r
  <2> QED BY <2>2, <2>3
<1> QED BY <1>1, <1>3, <1>4, <1>5

LEMMA ReadAll ==
  ASSUME NEW p \in AnyPayload, NEW o \in AnyWay, Possible(p, o), Unlock(p) = "OK", o.from = 0
  PROVE  LET s == ReadWhole(p, o)
         IN /\ s \in States
            /\ s.ret = "OK" => s.counted = p.size
            /\ s.ret = "OK" <=> p.packed <= p.avail /\ (p.cipher = "aes" => CodeFits(p))
PROOF
<1> DEFINE b == Begin(p, o)
           a == Header(p) + Data(p)
           x == [b EXCEPT !.at = a, !.counted = p.size]
           s == ReadWhole(p, o)
<1>1. /\ a \in Int /\ p.size \in Int /\ p.avail \in Nat /\ Trailer(p) \in Nat /\ p.packed \in Nat
      /\ a + Trailer(p) = p.packed
      /\ p.cipher = "aes" => Trailer(p) = AuthLen
      /\ p.cipher # "aes" => Trailer(p) = 0
      /\ o.mapped => p.cipher = "none" /\ p.packed <= p.avail
  BY PayloadParts DEF AnyPayload, Trailer, Possible
<1>2. b \in States /\ b.ret = "OK"
  BY BeginState DEF Begin
<1>3. s = IF o.mapped THEN x
          ELSE IF x.at > p.avail THEN Failed(x, "EFILE") ELSE Finished(p, x)
  BY DEF ReadWhole
<1> HIDE DEF b, a
<1>4. x \in States /\ x.ret = "OK" /\ x.at = a /\ x.counted = p.size
  BY <1>1, <1>2 DEF States
<1> HIDE DEF x, s
<1>5. CASE o.mapped
  <2>1. s = x
    BY <1>3, <1>5
  <2>2. p.packed <= p.avail /\ p.cipher # "aes"
    BY <1>1, <1>5
  <2> QED BY <1>4, <2>1, <2>2 DEF s
<1>6. CASE ~o.mapped /\ a > p.avail
  <2>1. s = Failed(x, "EFILE")
    BY <1>3, <1>4, <1>6
  <2>2. s \in States /\ s.ret = "EFILE"
    BY <1>4, <2>1, FailedState DEF Codes
  <2>3. ~(p.packed <= p.avail)
    BY <1>1, <1>6
  <2> QED BY <2>2, <2>3 DEF s
<1>7. CASE ~o.mapped /\ ~(a > p.avail)
  <2>1. s = Finished(p, x)
    BY <1>3, <1>4, <1>7
  <2>2. /\ s \in States
        /\ s.ret = "OK" => /\ s.counted = x.counted
                           /\ p.cipher = "aes" => CodeFits(p) /\ x.at + AuthLen <= p.avail
        /\ x.ret = "OK" /\ (p.cipher = "aes" => CodeFits(p) /\ x.at + AuthLen <= p.avail) =>
             s.ret = "OK"
    BY <1>4, <2>1, FinishedState
  <2>3. CASE p.cipher = "aes"
    <3>1. x.at + AuthLen <= p.avail <=> p.packed <= p.avail
      BY <1>1, <1>4, <2>3
    <3> QED BY <1>4, <2>2, <2>3, <3>1 DEF s
  <2>4. CASE p.cipher # "aes"
    <3>1. p.packed <= p.avail
      BY <1>1, <1>7, <2>4
    <3> QED BY <1>4, <2>2, <2>4, <3>1 DEF s
  <2> QED BY <2>3, <2>4
<1> QED BY <1>5, <1>6, <1>7

LEMMA InMemory ==
  ASSUME NEW p \in AnyPayload, NEW o \in AnyWay, Possible(p, o), o.from = 0
  PROVE  ToMemory(p, o).ret = "OK" <=> Accepted(p, o.check)
PROOF
<1> DEFINE r == ToMemory(p, o)
           s == ReadWhole(p, o)
<1>1. /\ Begin(p, o) \in States /\ Unlock(p) \in Codes /\ ~(o.from > 0)
      /\ p.method = "store" \/ p.method = "deflate"
  BY BeginState, PayloadParts DEF AnyPayload
<1>2. CASE Unlock(p) # "OK"
  <2>1. r = Failed(Begin(p, o), Unlock(p))
    BY <1>2 DEF ToMemory
  <2>2. r.ret # "OK"
    BY <1>1, <1>2, <2>1, FailedState
  <2> QED BY <1>2, <2>2 DEF Accepted
<1>3. ASSUME Unlock(p) = "OK"
      PROVE  /\ s \in States
             /\ s.ret = "OK" => s.counted = p.size
             /\ s.ret = "OK" <=> p.packed <= p.avail /\ (p.cipher = "aes" => CodeFits(p))
  BY <1>3, ReadAll
<1>4. CASE Unlock(p) = "OK" /\ p.method = "store"
  <2>1. r = IF Data(p) # p.size THEN Failed(Begin(p, o), "ESIZE") ELSE Checked(p, o, s)
    BY <1>4 DEF ToMemory
  <2>2. CASE Data(p) # p.size
    <3>1. r.ret # "OK"
      BY <1>1, <2>1, <2>2, FailedState DEF Codes
    <3> QED BY <1>4, <2>2, <3>1 DEF Accepted
  <2>3. CASE Data(p) = p.size
    <3>1. r = Checked(p, o, s)
      BY <2>1, <2>3
    <3> HIDE DEF s
    <3>2. /\ r.ret = "OK" => r = s /\ s.ret = "OK" /\ (o.check => CrcFits(p, o, s))
          /\ s.ret = "OK" /\ (o.check => CrcFits(p, o, s)) => r = s
      BY <1>3, <1>4, <3>1, CheckedState
    <3>3. s.ret = "OK" => (CrcFits(p, o, s) <=> p.good /\ Opened(p))
      BY <1>1, <1>3, <1>4 DEF CrcFits
    <3>4. r.ret = "OK" <=> s.ret = "OK" /\ (o.check => p.good /\ Opened(p))
      BY <3>2, <3>3
    <3> QED BY <1>3, <1>4, <2>3, <3>4 DEF Accepted, Passes
  <2> QED BY <2>2, <2>3
<1>5. CASE Unlock(p) = "OK" /\ p.method = "deflate"
  <2> DEFINE t == IF s.ret = "OK" /\ ~Completes(p, Data(p)) THEN Failed(s, "EINFLATE") ELSE s
             e == p.own = Data(p)
             u == Sized(p, t, e)
  <2>1. r = IF TooLarge(p) THEN Failed(Begin(p, o), "EUNSUP") ELSE Checked(p, o, u)
    BY <1>5 DEF ToMemory
  <2>2. CASE TooLarge(p)
    <3>1. r.ret # "OK"
      BY <1>1, <2>1, <2>2, FailedState DEF Codes
    <3> QED BY <1>5, <2>2, <3>1 DEF Accepted
  <2>3. CASE ~TooLarge(p)
    <3>1. r = Checked(p, o, u)
      BY <2>1, <2>3
    <3> HIDE DEF s
    <3>2. /\ t \in States /\ (t.ret = "OK" => t = s)
          /\ t.ret = "OK" <=> s.ret = "OK" /\ Completes(p, Data(p))
      <4>1. Failed(s, "EINFLATE") \in States /\ Failed(s, "EINFLATE").ret = "EINFLATE"
        BY <1>3, <1>5, FailedState DEF Codes
      <4> QED BY <1>3, <1>5, <4>1
    <3> HIDE DEF t, e
    <3>3. e \in BOOLEAN
      BY DEF e
    <3>4. /\ u.ret = "OK" => u = t /\ t.ret = "OK" /\ p.out = p.size /\ e
          /\ t.ret = "OK" /\ p.out = p.size /\ e => u = t
          /\ u \in States
      BY <3>2, <3>3, SizedState
    <3> HIDE DEF u
    <3>5. /\ r.ret = "OK" => r = u /\ u.ret = "OK" /\ (o.check => CrcFits(p, o, u))
          /\ u.ret = "OK" /\ (o.check => CrcFits(p, o, u)) => r = u
      BY <3>1, <3>4, CheckedState
    <3>6. u.ret = "OK" => (CrcFits(p, o, u) <=> p.good /\ Opened(p))
      BY <1>1, <1>3, <1>5, <3>2, <3>4 DEF CrcFits
    <3>7. r.ret = "OK" <=> /\ s.ret = "OK" /\ Completes(p, Data(p)) /\ p.out = p.size /\ e
                           /\ o.check => p.good /\ Opened(p)
      BY <3>2, <3>4, <3>5, <3>6
    <3> QED BY <1>3, <1>5, <2>3, <3>7 DEF Accepted, Passes, Fits, e
  <2> QED BY <2>2, <2>3
<1> QED BY <1>1, <1>2, <1>4, <1>5

-----------------------------------------------------------------------------
(* Theorems *)

\* Whatever the entry and the way it is extracted, what extract_entry takes for
\* extracted is whole, checked and authenticated, and told once.
THEOREM ExtractedIsWhole == OkIsWhole
PROOF
<1> SUFFICES ASSUME NEW c \in Cases, Extract(c[1], c[2]).ret = "OK"
             PROVE  LET p == c[1]  o == c[2]  r == Extract(p, o)
                    IN /\ r.written = p.size
                       /\ r.told = IF o.tell THEN p.size - o.from ELSE 0
                       /\ o.check => p.good /\ Opened(p)
                       /\ p.cipher = "aes" => CodeFits(p)
                       /\ ~o.mapped => r.at = p.packed
  BY DEF OkIsWhole
<1>1. c[1] \in AnyPayload /\ c[2] \in AnyWay /\ Possible(c[1], c[2])
  BY CaseAssumption DEF Cases
<1>2. Whole(c[1], c[2], Extract(c[1], c[2]))
  BY <1>1, Extracted
<1> QED BY <1>2 DEF Whole

\* What is sound is extracted on every path of extract_entry, and to memory.
THEOREM SoundIsAccepted == SoundIsExtracted
PROOF
<1> SUFFICES ASSUME NEW c \in Cases, Sound(c[1]), Undisturbed(c[1], c[2]),
                    c[2].from > 0 => c[2].prefix,
                    IF c[1].method = "store" THEN Data(c[1]) = c[1].size ELSE ~TooLarge(c[1])
             PROVE  /\ Extract(c[1], c[2]).ret = "OK"
                    /\ c[2].from = 0 => ToMemory(c[1], c[2]).ret = "OK"
  BY DEF SoundIsExtracted
<1> DEFINE p == c[1]
           o == c[2]
<1>1. p \in AnyPayload /\ o \in AnyWay /\ Possible(p, o)
  BY CaseAssumption DEF Cases
<1>2. Accepted(p, o.check)
  <2>1. p.packed \in Nat /\ p.avail \in Nat /\ Unlock(p) = "OK"
        /\ p.avail >= p.packed /\ p.good /\ CodeFits(p) /\ StreamFits(p)
    BY <1>1 DEF Sound, AnyPayload
  <2>2. p.packed <= p.avail
    BY <2>1
  <2>3. ASSUME p.method = "deflate"
        PROVE  ~TooLarge(p) /\ Fits(p)
    <3>1. p.own = Data(p) /\ p.out = p.size /\ p.broken = 0
      BY <2>1, <2>3 DEF StreamFits
    <3>2. p.own >= Data(p) /\ Data(p) >= p.own /\ p.out <= p.size
      BY <1>1, <3>1 DEF AnyPayload
    <3> QED BY <2>3, <3>1, <3>2 DEF Fits, Completes
  <2>4. p.method = "store" => Data(p) = p.size
    OBVIOUS
  <2> HIDE DEF p, o
  <2> QED BY <2>1, <2>2, <2>3, <2>4 DEF Accepted, Passes, CodeFits
<1> QED BY <1>1, <1>2, Extracted, InMemory

\* Whether data is accepted does not depend on the path: extract_entry through a
\* mapping or not, with a callback or not, and the loader to memory, all accept the same.
THEOREM PathsAccept == PathsAgree
PROOF
<1> SUFFICES ASSUME NEW p \in Payloads, p.method = "deflate" => p.own >= Data(p),
                    NEW check \in BOOLEAN, NEW o \in Ways, NEW w \in Ways,
                    Possible(p, o), Undisturbed(p, o), o.check = check, o.from = 0,
                    Possible(p, w), w.check = check, w.from = 0
             PROVE  (Extract(p, o).ret = "OK") = (ToMemory(p, w).ret = "OK")
  BY DEF PathsAgree
<1>1. p \in AnyPayload /\ o \in AnyWay /\ w \in AnyWay /\ ~(o.from > 0)
  BY CaseAssumption
<1>2. Extract(p, o).ret = "OK" <=> Accepted(p, check)
  BY <1>1, Extracted
<1>3. ToMemory(p, w).ret = "OK" <=> Accepted(p, check)
  BY <1>1, InMemory
<1> QED BY <1>2, <1>3

\* What the runs of extract_entry take for one step, copying or inflating, is right
\* for every payload and every way, and in chunks of any length.
THEOREM DataAlwaysRight == Spec => []DataIsRight
PROOF
<1>1. DataIsRight
  BY ExtractedIsWhole, SoundIsAccepted, PathsAccept DEF DataIsRight
<1> QED BY <1>1, PTL

-----------------------------------------------------------------------------
(* The key stream *)

LEMMA LengthsAreNat ==
  /\ BlockLen \in Nat \ {0} /\ Counters \in Nat \ {0} /\ HashBlock \in Nat \ {0}
  /\ LenField \in Nat \ {0} /\ Digest \in Nat \ {0} /\ Digest + 1 + LenField <= HashBlock
BY CipherAssumption

Mask(i) == << (1 + (i - 1) \div BlockLen) % Counters, (i - 1) % BlockLen >>
Masks   == { Mask(i) : i \in Nat }

LEMMA StreamIs ==
  ASSUME NEW n \in Nat
  PROVE  KeyStream(n) \in Seq(Masks) /\ Len(KeyStream(n)) = n /\ \A i \in 1 .. n : KeyStream(n)[i] = Mask(i)
PROOF
<1> DEFINE s == [i \in 1 .. n |-> Mask(i)]
<1>1. KeyStream(n) = s
  BY DEF KeyStream, Mask
<1>2. s \in [1 .. n -> Masks]
  BY DEF Masks
<1>3. \A i \in 1 .. n : s[i] = Mask(i)
  OBVIOUS
<1> HIDE DEF s
<1>4. s \in Seq(Masks) /\ Len(s) = n
  BY <1>2
<1> QED BY <1>1, <1>3, <1>4

\* What comes next in the key stream is appended to it.
LEMMA StreamGrows ==
  ASSUME NEW m \in Nat, NEW n \in Nat, NEW more, more = [i \in 1 .. n |-> Mask(m + i)]
  PROVE  KeyStream(m) \o more = KeyStream(m + n)
PROOF
<1> DEFINE a == KeyStream(m)
           b == KeyStream(m + n)
<1>1. /\ a \in Seq(Masks) /\ Len(a) = m /\ \A i \in 1 .. m : a[i] = Mask(i)
      /\ b \in Seq(Masks) /\ Len(b) = m + n /\ \A i \in 1 .. m + n : b[i] = Mask(i)
  <2>1. m + n \in Nat
    OBVIOUS
  <2> QED BY <2>1, StreamIs
<1> HIDE DEF a, b
<1>2. more \in Seq(Masks) /\ Len(more) = n /\ \A i \in 1 .. n : more[i] = Mask(m + i)
  <2>1. \A i \in 1 .. n : m + i \in Nat
    OBVIOUS
  <2>2. more \in [1 .. n -> Masks]
    BY <2>1 DEF Masks
  <2> QED BY <2>2
<1>3. IsJoined(Masks, a, more, b)
  <2>1. \A i \in 1 .. m : i \in 1 .. m + n
    OBVIOUS
  <2>2. \A j \in 1 .. n : m + j \in 1 .. m + n
    OBVIOUS
  <2> QED BY <1>1, <1>2, <2>1, <2>2 DEF IsJoined
<1>4. b = a \o more
  BY <1>1, <1>2, <1>3, JoinedIs
<1> QED BY <1>4 DEF a, b

Count(b) == b % Counters

LEMMA CountsOn ==
  ASSUME NEW b \in Nat, NEW j \in Nat
  PROVE  Count(b) \in Nat /\ (Count(b) + j) % Counters = Count(b + j)
PROOF
<1>1. Count(b) \in Nat
  BY LengthsAreNat, DivOf DEF Count
<1>2. ((b % Counters) + j) % Counters = (b + j) % Counters
  BY LengthsAreNat, ModAdds
<1> QED BY <1>1, <1>2 DEF Count

\* b is the number of the block that the stream holds, of which pos are used up.
Streams(c, b, m, left) ==
  /\ c = [nonce |-> Count(b), stream |-> Count(b), pos |-> c.pos, left |-> left,
          masks |-> KeyStream(m)]
  /\ c.pos \in 0 .. BlockLen /\ b \in Nat /\ m \in Nat /\ left \in Nat
  /\ m + BlockLen = b * BlockLen + c.pos

\* Some bytes of the block there is.
LEMMA MaskedStreams ==
  ASSUME NEW c, NEW b, NEW m, NEW left, Streams(c, b, m, left), NEW n \in 0 .. left,
         n <= BlockLen - c.pos
  PROVE  Streams(Masked(c, n), b, m + n, left - n)
PROOF
<1> DEFINE more == [i \in 1 .. n |-> << c.stream, c.pos + i - 1 >>]
           p == c.pos
<1>1. /\ b \in Nat /\ m \in Nat /\ left \in Nat /\ p \in 0 .. BlockLen /\ n \in Nat
      /\ m + BlockLen = b * BlockLen + p /\ BlockLen \in Nat \ {0} /\ n <= left /\ n <= BlockLen - p
      /\ Counters \in Nat \ {0} /\ b * BlockLen \in Nat
  BY LengthsAreNat DEF Streams
<1>2. c = [nonce |-> Count(b), stream |-> Count(b), pos |-> p, left |-> left,
          masks |-> KeyStream(m)]
  BY DEF Streams
<1>3. ASSUME NEW i \in 1 .. n PROVE << Count(b), p + i - 1 >> = Mask(m + i)
  <2>1. b >= 1
    <3> SUFFICES ASSUME b = 0 PROVE FALSE
      BY <1>1
    <3>1. b * BlockLen = 0
      BY <1>1
    <3> HIDE DEF p
    <3> QED BY <1>1, <3>1
  <2> DEFINE d == b - 1
             r == p + i - 1
  <2>2. d \in Nat /\ b = d + 1 /\ r \in 0 .. BlockLen - 1 /\ r = p + i - 1
    <3> HIDE DEF p
    <3> QED BY <1>1, <2>1
  <2> HIDE DEF d, r, p
  <2>3. b * BlockLen = d * BlockLen + BlockLen /\ d * BlockLen \in Nat
    BY <1>1, <2>2
  <2>4. (m + i) - 1 = d * BlockLen + r
    BY <1>1, <2>2, <2>3
  <2>5. (d * BlockLen + r) \div BlockLen = d /\ (d * BlockLen + r) % BlockLen = r
    BY <1>1, <2>2, DivIs
  <2>6. 1 + d = b
    BY <2>2
  <2>7. Mask(m + i) = << Count(1 + d), r >>
    BY <2>4, <2>5, Zenon DEF Mask, Count
  <2> QED BY <2>2, <2>6, <2>7
<1>4. more = [i \in 1 .. n |-> Mask(m + i)]
  BY <1>2, <1>3
<1> HIDE DEF more, p
<1>5. KeyStream(m) \o more = KeyStream(m + n)
  BY <1>1, <1>4, StreamGrows
<1>6. Masked(c, n) = [nonce |-> Count(b), stream |-> Count(b), pos |-> p + n, left |-> left - n,
                      masks |-> KeyStream(m) \o more]
  <2> DEFINE k == c.masks \o more
             d == c.left - n
             r == c.pos + n
  <2>1. Masked(c, n) = [c EXCEPT !.pos = r, !.left = d, !.masks = k]
    BY DEF Masked, more
  <2>2. k = KeyStream(m) \o more /\ d = left - n /\ r = p + n
    BY <1>2 DEF p
  <2> HIDE DEF k, d, r
  <2>3. Masked(c, n) = [nonce |-> Count(b), stream |-> Count(b), pos |-> r, left |-> d, masks |-> k]
    BY <1>2, <2>1
  <2> QED BY <2>2, <2>3
<1>7. Masked(c, n).pos = p + n
  BY <1>6
<1>8. p + n \in 0 .. BlockLen /\ m + n \in Nat /\ left - n \in Nat
      /\ (m + n) + BlockLen = b * BlockLen + (p + n)
  BY <1>1
<1> QED BY <1>1, <1>5, <1>6, <1>7, <1>8 DEF Streams

\* A block that is used up is followed by the next one.
LEMMA NextStreams ==
  ASSUME NEW c, NEW b, NEW m, NEW left, Streams(c, b, m, left), c.pos = BlockLen
  PROVE  Streams(NextStream(c), b + 1, m, left) /\ NextStream(c).pos = 0
PROOF
<1>1. /\ b \in Nat /\ m \in Nat /\ left \in Nat
      /\ m + BlockLen = b * BlockLen + BlockLen /\ BlockLen \in Nat \ {0}
      /\ Counters \in Nat \ {0}
  BY LengthsAreNat DEF Streams
<1>2. c = [nonce |-> Count(b), stream |-> Count(b), pos |-> BlockLen, left |-> left,
          masks |-> KeyStream(m)]
  BY DEF Streams
<1>3. (Count(b) + 1) % Counters = Count(b + 1)
  BY <1>1, CountsOn
<1>4. NextStream(c) = [nonce |-> Count(b + 1), stream |-> Count(b + 1), pos |-> 0,
                       left |-> left, masks |-> KeyStream(m)]
  <2> DEFINE x == (c.nonce + 1) % Counters
             y == NextStream(c)
             B == Count(b)
             k == KeyStream(m)
             p == 0
  <2>1. y = [c EXCEPT !.nonce = x, !.stream = x, !.pos = p]
    BY DEF NextStream
  <2>2. x = Count(b + 1)
    BY <1>2, <1>3
  <2>3. c = [nonce |-> B, stream |-> B, pos |-> BlockLen, left |-> left, masks |-> k]
    BY <1>2
  <2> HIDE DEF x, y, B, k, p
  <2>4. y = [nonce |-> x, stream |-> x, pos |-> p, left |-> left, masks |-> k]
    BY ONLY <2>1, <2>3
  <2> QED BY <2>2, <2>4 DEF y, p, k
<1>5. (b + 1) * BlockLen = b * BlockLen + BlockLen /\ b * BlockLen \in Nat /\ b + 1 \in Nat
  BY <1>1
<1>6. m + BlockLen = (b + 1) * BlockLen + 0 /\ 0 \in 0 .. BlockLen
  BY <1>1, <1>5
<1>7. NextStream(c).pos = 0
  BY <1>4
<1> QED BY <1>1, <1>4, <1>5, <1>6, <1>7 DEF Streams

\* Four blocks at once.
LEMMA Masked4Streams ==
  ASSUME NEW c, NEW b, NEW m, NEW left, Streams(c, b, m, left), c.pos = BlockLen,
         left >= 4 * BlockLen
  PROVE  Streams(Masked4(c), b + 4, m + 4 * BlockLen, left - 4 * BlockLen)
PROOF
<1> DEFINE n == 4 * BlockLen
           more == [i \in 1 .. n |->
                      << (c.nonce + 1 + (i - 1) \div BlockLen) % Counters, (i - 1) % BlockLen >>]
<1>1. /\ b \in Nat /\ m \in Nat /\ left \in Nat /\ n \in Nat /\ n <= left
      /\ m + BlockLen = b * BlockLen + BlockLen /\ BlockLen \in Nat \ {0}
      /\ Counters \in Nat \ {0} /\ b * BlockLen \in Nat
  BY LengthsAreNat DEF Streams
<1>2. c = [nonce |-> Count(b), stream |-> Count(b), pos |-> BlockLen, left |-> left,
          masks |-> KeyStream(m)]
  BY DEF Streams
<1>3. (Count(b) + 4) % Counters = Count(b + 4)
  BY <1>1, CountsOn
<1> HIDE DEF n
<1>4. ASSUME NEW i \in 1 .. n
      PROVE  << (Count(b) + 1 + (i - 1) \div BlockLen) % Counters, (i - 1) % BlockLen >> = Mask(m + i)
  <2> DEFINE q == (i - 1) \div BlockLen
             r == (i - 1) % BlockLen
             d == b + q
  <2>1. i - 1 \in Nat
    OBVIOUS
  <2>2. q \in Nat /\ r \in 0 .. BlockLen - 1 /\ q * BlockLen \in Nat /\ i - 1 = q * BlockLen + r
    BY <1>1, <2>1, DivOf
  <2> HIDE DEF q, r
  <2>3. d \in Nat /\ d * BlockLen = b * BlockLen + q * BlockLen
    BY <1>1, <2>2
  <2>4. 1 + q \in Nat /\ Count(b) \in Nat
    BY <1>1, <2>2, CountsOn
  <2>5. (Count(b) + (1 + q)) % Counters = Count(b + (1 + q))
    BY <1>1, <2>4, CountsOn
  <2>6. Count(b) + (1 + q) = Count(b) + 1 + q /\ b + (1 + q) = 1 + d
    BY <1>1, <2>2, <2>4
  <2> HIDE DEF d
  <2>7. (m + i) - 1 = d * BlockLen + r
    BY <1>1, <2>2, <2>3
  <2>8. (d * BlockLen + r) \div BlockLen = d /\ (d * BlockLen + r) % BlockLen = r
    BY <1>1, <2>2, <2>3, DivIs
  <2>9. Mask(m + i) = << Count(1 + d), r >>
    BY <2>7, <2>8, Zenon DEF Mask, Count
  <2>10. << (Count(b) + 1 + q) % Counters, r >> = Mask(m + i)
    BY <2>5, <2>6, <2>9
  <2> QED BY <2>10 DEF q, r
<1>5. more = [i \in 1 .. n |-> Mask(m + i)]
  <2>1. c.nonce = Count(b)
    BY <1>2
  <2> QED BY <1>4, <2>1
<1> HIDE DEF more
<1>6. KeyStream(m) \o more = KeyStream(m + n)
  BY <1>1, <1>5, StreamGrows
<1>7. Masked4(c) = [nonce |-> Count(b + 4), stream |-> Count(b + 4), pos |-> BlockLen,
                    left |-> left - n, masks |-> KeyStream(m) \o more]
  <2> DEFINE x == (c.nonce + 4) % Counters
             k == c.masks \o more
             d == c.left - n
  <2>1. Masked4(c) = [c EXCEPT !.nonce = x, !.stream = x, !.left = d, !.masks = k]
    BY DEF Masked4, more, n
  <2>2. x = Count(b + 4) /\ k = KeyStream(m) \o more /\ d = left - n
    BY <1>2, <1>3
  <2> HIDE DEF x, k, d
  <2>3. Masked4(c) = [nonce |-> x, stream |-> x, pos |-> BlockLen, left |-> d, masks |-> k]
    BY <1>2, <2>1
  <2> QED BY <2>2, <2>3
<1>8. (b + 4) * BlockLen = b * BlockLen + n /\ b + 4 \in Nat
  BY <1>1 DEF n
<1>9. m + n \in Nat /\ left - n \in Nat /\ (m + n) + BlockLen = (b + 4) * BlockLen + BlockLen
      /\ BlockLen \in 0 .. BlockLen
  BY <1>1, <1>8
<1>10. Masked4(c).pos = BlockLen
  BY <1>7
<1>11. Streams(Masked4(c), b + 4, m + n, left - n)
  BY <1>6, <1>7, <1>8, <1>9, <1>10 DEF Streams
<1> QED BY <1>11 DEF n

StreamStates ==
  [nonce : Nat, stream : Nat, pos : 0 .. BlockLen, left : Nat, masks : Seq(Masks)]
IsStreaming(c) == \E b, m, left \in Nat : Streams(c, b, m, left)
Streaming == { c \in StreamStates : IsStreaming(c) }

LEMMA StreamsAreStates ==
  ASSUME NEW c, NEW b, NEW m, NEW left, Streams(c, b, m, left)
  PROVE  c \in Streaming /\ b \in Nat /\ m \in Nat /\ left \in Nat
PROOF
<1>1. /\ b \in Nat /\ m \in Nat /\ left \in Nat /\ c.pos \in 0 .. BlockLen
      /\ c = [nonce |-> Count(b), stream |-> Count(b), pos |-> c.pos, left |-> left, masks |-> KeyStream(m)]
  BY DEF Streams
<1>2. Count(b) \in Nat /\ KeyStream(m) \in Seq(Masks)
  BY <1>1, CountsOn, StreamIs, 0 \in Nat
<1>3. c \in StreamStates
  BY <1>1, <1>2 DEF StreamStates
<1>4. IsStreaming(c)
  BY <1>1 DEF IsStreaming
<1> QED BY <1>1, <1>3, <1>4 DEF Streaming

\* At least i of n bytes are done, of which left remain.
Reaches(c, m, n, i) == \E d \in i .. n, b \in Nat : Streams(c, b, m + d, n - d)

LEMMA TurnStreams ==
  ASSUME NEW c, NEW b, NEW m, NEW left, Streams(c, b, m, left), NEW fast \in BOOLEAN,
         NEW small \in BOOLEAN
  PROVE  \E d \in 0 .. left, a \in Nat :
           (left > 0 => d > 0) /\ Streams(Turn(fast, small, c), a, m + d, left - d)
PROOF
<1> DEFINE ready == IF c.pos = BlockLen THEN NextStream(c) ELSE c
           leap == fast /\ c.pos = BlockLen /\ c.left >= 4 * BlockLen
<1>1. /\ b \in Nat /\ m \in Nat /\ left \in Nat /\ c.left = left /\ c.pos \in 0 .. BlockLen
      /\ BlockLen \in Nat \ {0}
  BY LengthsAreNat DEF Streams
<1>2. PICK a \in Nat : Streams(ready, a, m, left) /\ ready.pos < BlockLen /\ ready.pos \in Nat
  <2>1. CASE c.pos = BlockLen
    <3>1. ready = NextStream(c)
      BY <2>1
    <3>2. Streams(ready, b + 1, m, left) /\ ready.pos = 0
      BY <2>1, <3>1, NextStreams
    <3>3. b + 1 \in Nat
      BY <1>1
    <3> HIDE DEF ready
    <3> QED BY <1>1, <3>2, <3>3
  <2>2. CASE c.pos # BlockLen
    <3>1. ready = c
      BY <2>2
    <3> HIDE DEF ready
    <3> QED BY <1>1, <2>2, <3>1
  <2> QED BY <2>1, <2>2
<1> HIDE DEF ready
<1>3. CASE left = 0
  <2>1. Turn(fast, small, c) = c
    BY <1>1, <1>3 DEF Turn
  <2>2. 0 \in 0 .. left /\ m + 0 = m /\ left - 0 = left
    BY <1>1
  <2> QED BY <1>1, <1>3, <2>1, <2>2
<1>4. ASSUME NEW n \in 1 .. left, n <= BlockLen - ready.pos, Turn(fast, small, c) = Masked(ready, n)
      PROVE  \E d \in 0 .. left, e \in Nat :
               (left > 0 => d > 0) /\ Streams(Turn(fast, small, c), e, m + d, left - d)
  <2>1. n \in 0 .. left /\ n > 0
    BY <1>1, <1>4
  <2>2. Streams(Masked(ready, n), a, m + n, left - n)
    BY <1>2, <1>4, <2>1, MaskedStreams
  <2> QED BY <1>4, <2>1, <2>2
<1>5. CASE left > 0 /\ small
  <2>1. Turn(fast, small, c) = Masked(ready, 1)
    BY <1>1, <1>5 DEF Turn, ready
  <2>2. 1 \in 1 .. left /\ 1 <= BlockLen - ready.pos
    BY <1>1, <1>2, <1>5
  <2> QED BY <1>4, <2>1, <2>2
<1>6. CASE left > 0 /\ ~small /\ leap
  <2>1. Turn(fast, small, c) = Masked4(c)
    BY <1>1, <1>6 DEF Turn
  <2> DEFINE n == 4 * BlockLen
  <2>2. n \in 0 .. left /\ n > 0 /\ b + 4 \in Nat
    BY <1>1, <1>6
  <2>3. Streams(Masked4(c), b + 4, m + n, left - n)
    BY <1>1, <1>6, Masked4Streams
  <2> HIDE DEF n
  <2> QED BY <2>1, <2>2, <2>3
<1>7. CASE left > 0 /\ ~small /\ ~leap
  <2> DEFINE n == Lesser(BlockLen - ready.pos, c.left)
  <2>1. Turn(fast, small, c) = Masked(ready, n)
    BY <1>1, <1>7 DEF Turn, ready
  <2>2. n \in 1 .. left /\ n <= BlockLen - ready.pos
    BY <1>1, <1>2, <1>7 DEF Lesser
  <2> HIDE DEF n
  <2> QED BY <1>4, <2>1, <2>2
<1> QED BY <1>1, <1>3, <1>5, <1>6, <1>7

\* g is what a call for n bytes goes through.
Goes(fast, c, n, g) ==
  /\ g = [i \in 0 .. n |-> g[i]] /\ g[0] = [c EXCEPT !.left = n]
  /\ \A i \in 1 .. n : g[i] = Turn(fast, n < BlockLen, g[i - 1])

LEMMA DecryptIs ==
  ASSUME NEW c, NEW n \in Nat, NEW fast, NEW g, Goes(fast, c, n, g)
  PROVE  Decrypt(fast, c, n) = g[n]
PROOF
<1> DEFINE first == [c EXCEPT !.left = n]
           small == n < BlockLen
           after == CHOOSE h : h = [i \in 0 .. n |->
                      IF i = 0 THEN first ELSE Turn(fast, small, h[i - 1])]
<1>1. Decrypt(fast, c, n) = after[n]
  BY DEF Decrypt
<1>2. /\ g = [i \in 0 .. n |-> g[i]] /\ g[0] = first
      /\ \A i \in 1 .. n : g[i] = Turn(fast, small, g[i - 1])
  BY DEF Goes
<1> HIDE DEF first, small
<1>3. g = [i \in 0 .. n |-> IF i = 0 THEN first ELSE Turn(fast, small, g[i - 1])]
  <2>1. ASSUME NEW i \in 0 .. n
        PROVE  g[i] = IF i = 0 THEN first ELSE Turn(fast, small, g[i - 1])
    <3>1. i # 0 => i \in 1 .. n
      OBVIOUS
    <3> QED BY <1>2, <3>1
  <2> QED BY <1>2, <2>1
<1>4. after = [i \in 0 .. n |-> IF i = 0 THEN first ELSE Turn(fast, small, after[i - 1])]
  BY <1>3
<1> HIDE DEF after
<1> DEFINE P == { i \in Nat : i <= n => after[i] = g[i] }
<1>5. 0 \in P
  <2>1. 0 \in 0 .. n
    OBVIOUS
  <2> QED BY <1>2, <1>4, <2>1
<1>6. \A i \in P : i < n => i + 1 \in P
  <2> SUFFICES ASSUME NEW i \in P, i < n PROVE after[i + 1] = g[i + 1]
    OBVIOUS
  <2>1. i + 1 \in 0 .. n /\ i + 1 # 0 /\ (i + 1) - 1 = i /\ i + 1 \in 1 .. n /\ i <= n
    OBVIOUS
  <2>2. after[i] = g[i]
    BY <2>1
  <2> HIDE DEF P
  <2>3. after[i + 1] = Turn(fast, small, after[i])
    BY <1>4, <2>1
  <2>4. g[i + 1] = Turn(fast, small, g[i])
    BY <1>2, <2>1
  <2> QED BY <2>2, <2>3, <2>4
<1>7. n \in P
  <2> HIDE DEF P
  <2>1. P \in SUBSET Nat
    BY DEF P
  <2>2. \A i \in 0 .. n : i \in P
    BY <1>5, <1>6, <2>1, InductionUpTo
  <2> QED BY <2>2
<1>8. after[n] = g[n]
  BY <1>7
<1> QED BY <1>1, <1>8

\* A call goes on where the last one has ended.
LEMMA DecryptGoesOn ==
  ASSUME NEW c, NEW b, NEW m, NEW left, Streams(c, b, m, left), NEW n \in Nat, NEW fast \in BOOLEAN
  PROVE  \E a \in Nat : Streams(Decrypt(fast, c, n), a, m + n, 0)
PROOF
<1> DEFINE first == [c EXCEPT !.left = n]
           small == n < BlockLen
           turn == [d \in Streaming |-> Turn(fast, small, d)]
           step == [i \in 1 .. n |-> turn]
<1>1. b \in Nat /\ m \in Nat
  BY StreamsAreStates
<1>2. Streams(first, b, m, n)
  <2>1. /\ c = [nonce |-> Count(b), stream |-> Count(b), pos |-> c.pos, left |-> left,
                masks |-> KeyStream(m)]
        /\ c.pos \in 0 .. BlockLen /\ m + BlockLen = b * BlockLen + c.pos
    BY DEF Streams
  <2> DEFINE B == Count(b)
             k == KeyStream(m)
             p == c.pos
  <2>2. c = [nonce |-> B, stream |-> B, pos |-> p, left |-> left, masks |-> k]
    BY <2>1
  <2> HIDE DEF B, k, p
  <2>3. first = [nonce |-> B, stream |-> B, pos |-> p, left |-> n, masks |-> k]
    BY <2>2
  <2> HIDE DEF first
  <2>4. first.pos = p
    BY <2>3
  <2> QED BY <1>1, <2>1, <2>3, <2>4 DEF Streams, B, k, p
<1>3. small \in BOOLEAN
  OBVIOUS
<1> HIDE DEF first, small
<1>4. ASSUME NEW d \in Streaming PROVE Turn(fast, small, d) \in Streaming
  <2>1. IsStreaming(d)
    BY DEF Streaming
  <2>2. PICK e, k, l \in Nat : Streams(d, e, k, l)
    BY <2>1 DEF IsStreaming
  <2>3. PICK x \in 0 .. l, y \in Nat : Streams(Turn(fast, small, d), y, k + x, l - x)
    BY <1>3, <2>2, TurnStreams
  <2> QED BY <2>3, StreamsAreStates
<1>5. turn \in [Streaming -> Streaming]
  BY <1>4
<1>6. step \in [1 .. n -> [Streaming -> Streaming]] /\ \A i \in 1 .. n : step[i] = turn
  <2> HIDE DEF turn
  <2> QED BY <1>5
<1>7. first \in Streaming
  BY <1>2, StreamsAreStates
<1> HIDE DEF step
<1>8. PICK g \in [0 .. n -> Streaming] : g[0] = first /\ \A i \in 1 .. n : g[i] = step[i][g[i - 1]]
  <2>1. GoesThrough(Streaming, first, n, step)
    BY <1>6, <1>7, RecursionUpTo
  <2> QED BY <2>1 DEF GoesThrough
<1>9. ASSUME NEW i \in 1 .. n PROVE g[i] = Turn(fast, small, g[i - 1])
  <2>1. i - 1 \in 0 .. n
    OBVIOUS
  <2>2. g[i - 1] \in Streaming
    BY <2>1
  <2>3. g[i] = turn[g[i - 1]]
    <3> HIDE DEF turn
    <3> QED BY <1>6, <1>8
  <2> QED BY <2>2, <2>3
<1> HIDE DEF turn
<1>10. Goes(fast, c, n, g)
  <2>1. g = [i \in 0 .. n |-> g[i]]
    OBVIOUS
  <2> QED BY <1>8, <1>9, <2>1 DEF Goes, first, small
<1>11. Decrypt(fast, c, n) = g[n]
  BY <1>10, DecryptIs
<1> DEFINE P == { i \in Nat : i <= n => Reaches(g[i], m, n, i) }
<1>12. 0 \in P
  <2>1. 0 \in 0 .. n /\ m + 0 = m /\ n - 0 = n
    BY <1>1
  <2>2. Reaches(g[0], m, n, 0)
    BY <1>1, <1>2, <1>8, <2>1 DEF Reaches
  <2> QED BY <2>2
<1>13. \A i \in P : i < n => i + 1 \in P
  <2> SUFFICES ASSUME NEW i \in P, i < n PROVE Reaches(g[i + 1], m, n, i + 1)
    OBVIOUS
  <2>1. i + 1 \in 1 .. n /\ (i + 1) - 1 = i /\ i <= n /\ i \in Nat
    OBVIOUS
  <2>2. Reaches(g[i], m, n, i)
    BY <2>1
  <2> HIDE DEF P
  <2>3. PICK d \in i .. n, e \in Nat : Streams(g[i], e, m + d, n - d)
    BY <2>2 DEF Reaches
  <2>4. g[i + 1] = Turn(fast, small, g[i])
    BY <1>9, <2>1
  <2>5. PICK x \in 0 .. n - d, y \in Nat :
          (n - d > 0 => x > 0) /\ Streams(Turn(fast, small, g[i]), y, (m + d) + x, (n - d) - x)
    BY <1>3, <2>3, TurnStreams
  <2>6. d + x \in i + 1 .. n /\ (m + d) + x = m + (d + x) /\ (n - d) - x = n - (d + x)
    BY <1>1, <2>1, <2>5
  <2> QED BY <2>4, <2>5, <2>6 DEF Reaches
<1>14. n \in P
  <2> HIDE DEF P
  <2>1. P \in SUBSET Nat
    BY DEF P
  <2>2. \A i \in 0 .. n : i \in P
    BY <1>12, <1>13, <2>1, InductionUpTo
  <2> QED BY <2>2
<1>15. Reaches(g[n], m, n, n)
  BY <1>14
<1>16. PICK d \in n .. n, a \in Nat : Streams(g[n], a, m + d, n - d)
  BY <1>15 DEF Reaches
<1>17. d = n /\ n - n = 0
  OBVIOUS
<1> QED BY <1>11, <1>16, <1>17

\* g gives the sums of the pieces.
SumsOf(cut, g) ==
  /\ g = [k \in 0 .. Len(cut) |-> g[k]] /\ g[0] = 0
  /\ \A k \in 1 .. Len(cut) : g[k] = g[k - 1] + cut[k]

LEMMA SumIs ==
  ASSUME NEW cut \in Seq(Nat)
  PROVE  \E g \in [0 .. Len(cut) -> Nat] :
           SumsOf(cut, g) /\ Sum2(cut) = g[Len(cut)] /\ \A k \in 0 .. Len(cut) : g[k] <= Sum2(cut)
PROOF
<1> DEFINE n == Len(cut)
           step == [k \in 1 .. n |-> [v \in Nat |-> v + cut[k]]]
           upTo == CHOOSE h : h = [k \in 0 .. n |-> IF k = 0 THEN 0 ELSE h[k - 1] + cut[k]]
<1>1. n \in Nat /\ \A k \in 1 .. n : cut[k] \in Nat
  BY LenProperties, ElementOfSeq
<1>2. Sum2(cut) = upTo[n]
  BY DEF Sum2
<1> HIDE DEF n
<1>3. step \in [1 .. n -> [Nat -> Nat]]
  BY <1>1
<1>4. PICK g \in [0 .. n -> Nat] : g[0] = 0 /\ \A k \in 1 .. n : g[k] = step[k][g[k - 1]]
  <2> HIDE DEF step
  <2>1. GoesThrough(Nat, 0, n, step)
    BY <1>1, <1>3, RecursionUpTo
  <2> QED BY <2>1 DEF GoesThrough
<1>5. ASSUME NEW k \in 1 .. n PROVE g[k] = g[k - 1] + cut[k] /\ g[k - 1] \in Nat
  <2>1. k - 1 \in 0 .. n
    BY <1>1
  <2>2. g[k - 1] \in Nat
    BY <2>1
  <2> QED BY <1>4, <2>2
<1>6. g = [k \in 0 .. n |-> IF k = 0 THEN 0 ELSE g[k - 1] + cut[k]]
  <2>1. \A k \in 0 .. n : k # 0 => k \in 1 .. n
    BY <1>1
  <2> HIDE DEF step
  <2> QED BY <1>4, <1>5, <2>1
<1>7. upTo = [k \in 0 .. n |-> IF k = 0 THEN 0 ELSE upTo[k - 1] + cut[k]]
  BY <1>6
<1> HIDE DEF upTo, step
<1> DEFINE P == { k \in Nat : k <= n => upTo[k] = g[k] }
<1>8. 0 \in P
  <2>1. 0 \in 0 .. n
    BY <1>1
  <2> QED BY <1>4, <1>7, <2>1
<1>9. \A k \in P : k < n => k + 1 \in P
  <2> SUFFICES ASSUME NEW k \in P, k < n PROVE upTo[k + 1] = g[k + 1]
    OBVIOUS
  <2>1. k + 1 \in 0 .. n /\ k + 1 # 0 /\ (k + 1) - 1 = k /\ k + 1 \in 1 .. n /\ k <= n
    BY <1>1
  <2>2. upTo[k] = g[k]
    BY <2>1
  <2> HIDE DEF P
  <2>3. upTo[k + 1] = upTo[k] + cut[k + 1]
    BY <1>7, <2>1
  <2>4. g[k + 1] = g[k] + cut[k + 1]
    BY <1>5, <2>1
  <2> QED BY <2>2, <2>3, <2>4
<1>10. n \in P
  <2> HIDE DEF P
  <2>1. P \in SUBSET Nat
    BY DEF P
  <2>2. \A k \in 0 .. n : k \in P
    BY <1>1, <1>8, <1>9, <2>1, InductionUpTo
  <2> QED BY <1>1, <2>2
<1>11. Sum2(cut) = g[n]
  BY <1>1, <1>2, <1>10
<1> HIDE DEF P
<1>12. ASSUME NEW k \in 0 .. n PROVE g[k] <= g[n]
  <2> DEFINE Q == { j \in Nat : j <= n - k => g[k] <= g[k + j] }
  <2>1. 0 \in Q
    <3>1. k + 0 = k /\ g[k] \in Nat
      BY <1>1
    <3> QED BY <3>1
  <2>2. \A j \in Q : j < n - k => j + 1 \in Q
    <3> SUFFICES ASSUME NEW j \in Q, j < n - k PROVE g[k] <= g[k + (j + 1)]
      OBVIOUS
    <3>1. k + (j + 1) \in 1 .. n /\ (k + (j + 1)) - 1 = k + j /\ j <= n - k
      BY <1>1
    <3>2. g[k] <= g[k + j]
      BY <3>1
    <3> HIDE DEF Q
    <3>3. g[k + (j + 1)] = g[k + j] + cut[k + (j + 1)] /\ g[k + j] \in Nat /\ cut[k + (j + 1)] \in Nat
      BY <1>1, <1>5, <3>1
    <3>4. g[k] \in Nat
      BY <1>1
    <3> QED BY <3>2, <3>3, <3>4
  <2>3. n - k \in Q
    <3> HIDE DEF Q
    <3>1. Q \in SUBSET Nat
      BY DEF Q
    <3>2. n - k \in Nat
      BY <1>1
    <3>3. \A j \in 0 .. n - k : j \in Q
      BY <2>1, <2>2, <3>1, <3>2, InductionUpTo
    <3> QED BY <3>2, <3>3
  <2>4. k + (n - k) = n
    BY <1>1
  <2> QED BY <1>1, <2>3, <2>4
<1>13. SumsOf(cut, g)
  <2>1. g = [k \in 0 .. n |-> g[k]]
    OBVIOUS
  <2> QED BY <1>4, <1>5, <2>1 DEF SumsOf, n
<1> QED BY <1>11, <1>12, <1>13 DEF n

\* g is what the calls for the pieces of a cut leave.
DecryptsAll(fast, cut, g) ==
  /\ g = [k \in 0 .. Len(cut) |-> g[k]] /\ g[0] = AesInit
  /\ \A k \in 1 .. Len(cut) : g[k] = Decrypt(fast, g[k - 1], cut[k])

LEMMA DecryptedIs ==
  ASSUME NEW cut \in Seq(Nat), NEW fast, NEW g, DecryptsAll(fast, cut, g)
  PROVE  Decrypted(fast, cut) = g[Len(cut)]
PROOF
<1> DEFINE n == Len(cut)
           after == CHOOSE h : h = [k \in 0 .. n |->
                      IF k = 0 THEN AesInit ELSE Decrypt(fast, h[k - 1], cut[k])]
<1>1. Decrypted(fast, cut) = after[n]
  BY DEF Decrypted
<1>2. n \in Nat
  BY LenProperties
<1>3. /\ g = [k \in 0 .. n |-> g[k]] /\ g[0] = AesInit
      /\ \A k \in 1 .. n : g[k] = Decrypt(fast, g[k - 1], cut[k])
  BY DEF DecryptsAll
<1> HIDE DEF n
<1>4. g = [k \in 0 .. n |-> IF k = 0 THEN AesInit ELSE Decrypt(fast, g[k - 1], cut[k])]
  <2>1. ASSUME NEW k \in 0 .. n
        PROVE  g[k] = IF k = 0 THEN AesInit ELSE Decrypt(fast, g[k - 1], cut[k])
    <3>1. k # 0 => k \in 1 .. n
      BY <1>2
    <3> QED BY <1>3, <3>1
  <2> QED BY <1>3, <2>1
<1>5. after = [k \in 0 .. n |-> IF k = 0 THEN AesInit ELSE Decrypt(fast, after[k - 1], cut[k])]
  BY <1>4
<1> HIDE DEF after
<1> DEFINE P == { k \in Nat : k <= n => after[k] = g[k] }
<1>6. 0 \in P
  <2>1. 0 \in 0 .. n
    BY <1>2
  <2> QED BY <1>3, <1>5, <2>1
<1>7. \A k \in P : k < n => k + 1 \in P
  <2> SUFFICES ASSUME NEW k \in P, k < n PROVE after[k + 1] = g[k + 1]
    OBVIOUS
  <2>1. k + 1 \in 0 .. n /\ k + 1 # 0 /\ (k + 1) - 1 = k /\ k + 1 \in 1 .. n /\ k <= n
    BY <1>2
  <2>2. after[k] = g[k]
    BY <2>1
  <2> HIDE DEF P
  <2>3. after[k + 1] = Decrypt(fast, after[k], cut[k + 1])
    BY <1>5, <2>1
  <2>4. g[k + 1] = Decrypt(fast, g[k], cut[k + 1])
    BY <1>3, <2>1
  <2> QED BY <2>2, <2>3, <2>4
<1>8. n \in P
  <2> HIDE DEF P
  <2>1. P \in SUBSET Nat
    BY DEF P
  <2>2. \A k \in 0 .. n : k \in P
    BY <1>2, <1>6, <1>7, <2>1, InductionUpTo
  <2> QED BY <1>2, <2>2
<1>9. after[n] = g[n]
  BY <1>2, <1>8
<1> QED BY <1>1, <1>9 DEF n

LEMMA InitStreams == Streams(AesInit, 0, 0, 0)
PROOF
<1>1. BlockLen \in Nat \ {0} /\ Counters \in Nat \ {0}
  BY LengthsAreNat
<1>2. Count(0) = 0
  <2>1. 0 \in 0 .. Counters - 1 /\ 0 * Counters + 0 = 0 /\ 0 \in Nat
    BY <1>1
  <2>2. (0 * Counters + 0) % Counters = 0
    BY <1>1, <2>1, DivIs
  <2> QED BY <2>1, <2>2 DEF Count
<1>3. KeyStream(0) = << >>
  <2>1. KeyStream(0) \in Seq(Masks) /\ Len(KeyStream(0)) = 0
    BY StreamIs, 0 \in Nat
  <2> QED BY <2>1, EmptySeq
<1>4. AesInit = [nonce |-> Count(0), stream |-> Count(0), pos |-> BlockLen, left |-> 0, masks |-> KeyStream(0)]
  BY <1>2, <1>3 DEF AesInit
<1>5. 0 + BlockLen = 0 * BlockLen + BlockLen /\ BlockLen \in 0 .. BlockLen
  BY <1>1
<1>6. AesInit.pos = BlockLen
  BY DEF AesInit
<1> QED BY <1>4, <1>5, <1>6 DEF Streams

\* Byte i of what comes in pieces is decrypted with byte i of the key stream.
THEOREM StreamGoesOn == KeyStreamGoesOn
PROOF
<1> SUFFICES ASSUME NEW cut \in Cuts, NEW fast \in BOOLEAN
             PROVE  Decrypted(fast, cut).masks = KeyStream(Sum2(cut))
  BY DEF KeyStreamGoesOn
<1> DEFINE n == Len(cut)
           step == [k \in 1 .. n |-> [c \in Streaming |-> Decrypt(fast, c, cut[k])]]
<1>1. cut \in Seq(Nat)
  BY PieceAssumption
<1>2. n \in Nat /\ \A k \in 1 .. n : cut[k] \in Nat
  BY <1>1, LenProperties, ElementOfSeq
<1>3. PICK u \in [0 .. n -> Nat] : SumsOf(cut, u) /\ Sum2(cut) = u[n]
  BY <1>1, SumIs
<1>4. u[0] = 0 /\ \A k \in 1 .. n : u[k] = u[k - 1] + cut[k]
  BY <1>3 DEF SumsOf
<1> HIDE DEF n
<1>5. ASSUME NEW c \in Streaming, NEW k \in 1 .. n PROVE Decrypt(fast, c, cut[k]) \in Streaming
  <2>1. IsStreaming(c)
    BY DEF Streaming
  <2>2. PICK b, m, l \in Nat : Streams(c, b, m, l)
    BY <2>1 DEF IsStreaming
  <2>3. PICK a \in Nat : Streams(Decrypt(fast, c, cut[k]), a, m + cut[k], 0)
    BY <1>2, <2>2, DecryptGoesOn
  <2> QED BY <2>3, StreamsAreStates
<1>6. step \in [1 .. n -> [Streaming -> Streaming]]
  BY <1>5
<1>7. AesInit \in Streaming
  BY InitStreams, StreamsAreStates
<1>8. PICK g \in [0 .. n -> Streaming] : g[0] = AesInit /\ \A k \in 1 .. n : g[k] = step[k][g[k - 1]]
  <2> HIDE DEF step
  <2>1. GoesThrough(Streaming, AesInit, n, step)
    BY <1>2, <1>6, <1>7, RecursionUpTo
  <2> QED BY <2>1 DEF GoesThrough
<1>9. ASSUME NEW k \in 1 .. n PROVE g[k] = Decrypt(fast, g[k - 1], cut[k])
  <2>1. k - 1 \in 0 .. n
    BY <1>2
  <2>2. g[k - 1] \in Streaming
    BY <2>1
  <2> QED BY <1>8, <2>2
<1> HIDE DEF step
<1>10. DecryptsAll(fast, cut, g)
  <2>1. g = [k \in 0 .. n |-> g[k]]
    OBVIOUS
  <2> QED BY <1>8, <1>9, <2>1 DEF DecryptsAll, n
<1>11. Decrypted(fast, cut) = g[n]
  BY <1>1, <1>10, DecryptedIs DEF n
<1> DEFINE P == { k \in Nat : k <= n => \E b \in Nat : Streams(g[k], b, u[k], 0) }
<1>12. 0 \in P
  <2>1. \E b \in Nat : Streams(g[0], b, u[0], 0)
    BY <1>4, <1>8, InitStreams, 0 \in Nat
  <2> QED BY <2>1
<1>13. \A k \in P : k < n => k + 1 \in P
  <2> SUFFICES ASSUME NEW k \in P, k < n PROVE \E b \in Nat : Streams(g[k + 1], b, u[k + 1], 0)
    OBVIOUS
  <2>1. k + 1 \in 1 .. n /\ (k + 1) - 1 = k /\ k <= n
    BY <1>2
  <2>2. PICK b \in Nat : Streams(g[k], b, u[k], 0)
    BY <2>1
  <2> HIDE DEF P
  <2>3. g[k + 1] = Decrypt(fast, g[k], cut[k + 1]) /\ u[k + 1] = u[k] + cut[k + 1] /\ cut[k + 1] \in Nat
    BY <1>2, <1>4, <1>9, <2>1
  <2> QED BY <2>2, <2>3, DecryptGoesOn
<1>14. n \in P
  <2> HIDE DEF P
  <2>1. P \in SUBSET Nat
    BY DEF P
  <2>2. \A k \in 0 .. n : k \in P
    BY <1>2, <1>12, <1>13, <2>1, InductionUpTo
  <2> QED BY <1>2, <2>2
<1>15. PICK b \in Nat : Streams(g[n], b, u[n], 0)
  BY <1>2, <1>14
<1>16. g[n].masks = KeyStream(u[n])
  BY <1>15 DEF Streams
<1> QED BY <1>3, <1>11, <1>16

-----------------------------------------------------------------------------
(* The hash *)

\* The first k blocks.
BlocksOf(d, k) == [i \in 1 .. k |-> Piece(d, (i - 1) * HashBlock, i * HashBlock)]
HasBlocks(d, k) == IsSeq(d) /\ k \in Nat /\ k * HashBlock <= Len(d)

LEMMA BlockLies ==
  ASSUME NEW d, NEW k, HasBlocks(d, k), NEW i \in 1 .. k
  PROVE  Within(d, (i - 1) * HashBlock, i * HashBlock) /\ i * HashBlock - (i - 1) * HashBlock = HashBlock
PROOF
<1>1. HashBlock \in Nat \ {0} /\ IsSeq(d) /\ k \in Nat /\ k * HashBlock <= Len(d) /\ Len(d) \in Nat
  BY LengthsAreNat, SeqLength DEF HasBlocks
<1> DEFINE a == i - 1
<1>2. a \in Nat /\ i = a + 1 /\ a < k
  BY <1>1
<1> HIDE DEF a
<1>3. /\ a * HashBlock \in Nat /\ k * HashBlock \in Nat /\ a * HashBlock + HashBlock <= k * HashBlock
      /\ i * HashBlock = a * HashBlock + HashBlock
  BY <1>1, <1>2, Times
<1>4. Within(d, a * HashBlock, i * HashBlock) /\ i * HashBlock - a * HashBlock = HashBlock
  BY <1>1, <1>3 DEF Within
<1> QED BY <1>4 DEF a

LEMMA BlocksMore ==
  ASSUME NEW d, NEW k, k \in Nat
  PROVE  /\ IsSeq(BlocksOf(d, k)) /\ Len(BlocksOf(d, k)) = k
         /\ Append(BlocksOf(d, k), Piece(d, k * HashBlock, (k + 1) * HashBlock)) = BlocksOf(d, k + 1)
PROOF
<1> DEFINE b == BlocksOf(d, k)
           c == BlocksOf(d, k + 1)
           x == Piece(d, k * HashBlock, (k + 1) * HashBlock)
           F(i) == Piece(d, (i - 1) * HashBlock, i * HashBlock)
<1>1. b = [i \in 1 .. k |-> F(i)] /\ c = [i \in 1 .. k + 1 |-> F(i)]
  BY DEF BlocksOf
<1>2. F(k + 1) = x
  <2>1. (k + 1) - 1 = k
    OBVIOUS
  <2> QED BY <2>1
<1> HIDE DEF b, c, F, x
<1>3. \A i \in 1 .. k : b[i] = F(i)
  BY <1>1
<1>4. \A i \in 1 .. k + 1 : c[i] = F(i)
  BY <1>1
<1>5. IsSeq(b) /\ Len(b) = k
  <2>1. b = [i \in 1 .. k |-> b[i]]
    BY <1>1
  <2> QED BY <2>1, SeqIs
<1>6. IsSeq(c) /\ Len(c) = k + 1
  <2>1. c = [i \in 1 .. k + 1 |-> c[i]] /\ k + 1 \in Nat
    BY <1>1
  <2> QED BY <2>1, SeqIs
<1>7. IsSeq(<< x >>) /\ Len(<< x >>) = 1 /\ << x >>[1] = x
  BY OneIsSeq
<1>8. Join(b, << x >>, c)
  <2>1. \A i \in 1 .. k : i \in 1 .. k + 1
    OBVIOUS
  <2>2. \A i \in 1 .. k : c[i] = b[i]
    BY <1>3, <1>4, <2>1
  <2>3. k + 1 \in 1 .. k + 1 /\ \A j \in 1 .. 1 : j = 1
    OBVIOUS
  <2>4. \A j \in 1 .. 1 : c[k + j] = << x >>[j]
    BY <1>2, <1>4, <1>7, <2>3
  <2> QED BY <1>5, <1>6, <1>7, <2>2, <2>4 DEF Join
<1>9. Append(b, x) = c
  <2>1. Append(b, x) = b \o << x >>
    BY <1>5, AppendJoins
  <2>2. Join(b, << x >>, b \o << x >>)
    BY <1>5, <1>7, JoinIs
  <2>3. b \o << x >> = c
    BY <1>5, <1>7, <1>8, <2>2, OnlyJoin
  <2> QED BY <2>1, <2>3
<1> QED BY <1>5, <1>9 DEF b, c, x

LEMMA BlocksSame ==
  ASSUME NEW d, NEW e, NEW k, HasBlocks(d, k), IsSeq(e)
  PROVE  BlocksOf(d \o e, k) = BlocksOf(d, k) /\ HasBlocks(d \o e, k)
PROOF
<1>1. ASSUME NEW i \in 1 .. k
      PROVE  Piece(d \o e, (i - 1) * HashBlock, i * HashBlock) = Piece(d, (i - 1) * HashBlock, i * HashBlock)
  <2>1. Within(d, (i - 1) * HashBlock, i * HashBlock)
    BY BlockLies
  <2> QED BY ONLY <2>1, PieceOfFirst, IsSeq(e)
<1>2. BlocksOf(d \o e, k) = BlocksOf(d, k)
  BY <1>1 DEF BlocksOf
<1>3. IsSeq(d) /\ IsSeq(e) /\ k \in Nat /\ k * HashBlock <= Len(d) /\ Len(d) \in Nat /\ Len(e) \in Nat
  BY SeqLength DEF HasBlocks
<1>4. IsSeq(d \o e) /\ Len(d \o e) = Len(d) + Len(e)
  BY <1>3, JoinIs DEF Join
<1>5. HasBlocks(d \o e, k)
  <2>1. k * HashBlock \in Nat
    BY <1>3, LengthsAreNat
  <2> QED BY <1>3, <1>4, <2>1 DEF HasBlocks
<1> QED BY <1>2, <1>5

LEMMA CompressIs ==
  ASSUME NEW n, NEW b, NEW h, NEW block
  PROVE  Compress([len |-> n, buf |-> b, h |-> h], block) = [len |-> n, buf |-> b, h |-> Append(h, block)]
BY DEF Compress

LEMMA BufferIs ==
  ASSUME NEW n, NEW b, NEW h, NEW c
  PROVE  [[len |-> n, buf |-> b, h |-> h] EXCEPT !.buf = c] = [len |-> n, buf |-> c, h |-> h]
OBVIOUS

\* What is left of d behind its whole blocks is in the buffer.
WholeBlocks(d) == Len(d) \div HashBlock
Sha(d)   == [len |-> Len(d), buf |-> Piece(d, WholeBlocks(d) * HashBlock, Len(d)), h |-> BlocksOf(d, WholeBlocks(d))]

LEMMA WholeIs ==
  ASSUME NEW d, IsSeq(d)
  PROVE  /\ WholeBlocks(d) \in Nat /\ Len(d) \in Nat /\ WholeBlocks(d) * HashBlock \in Nat
         /\ Len(d) % HashBlock \in 0 .. HashBlock - 1
         /\ Len(d) = WholeBlocks(d) * HashBlock + (Len(d) % HashBlock)
         /\ HasBlocks(d, WholeBlocks(d)) /\ Within(d, WholeBlocks(d) * HashBlock, Len(d))
PROOF
<1>1. Len(d) \in Nat /\ HashBlock \in Nat \ {0}
  BY SeqLength, LengthsAreNat
<1>2. /\ WholeBlocks(d) \in Nat /\ WholeBlocks(d) * HashBlock \in Nat
      /\ Len(d) % HashBlock \in 0 .. HashBlock - 1
      /\ Len(d) = WholeBlocks(d) * HashBlock + (Len(d) % HashBlock)
  <2> DEFINE a == Len(d)
  <2>1. a \in Nat
    BY <1>1
  <2> HIDE DEF a
  <2>2. /\ a \div HashBlock \in Nat /\ a % HashBlock \in 0 .. HashBlock - 1
        /\ (a \div HashBlock) * HashBlock \in Nat
        /\ a = (a \div HashBlock) * HashBlock + (a % HashBlock)
    BY <1>1, <2>1, DivOf
  <2> QED BY <2>2 DEF a, WholeBlocks
<1>3. WholeBlocks(d) * HashBlock <= Len(d)
  <2> DEFINE r == Len(d) % HashBlock
  <2>1. r \in 0 .. HashBlock - 1 /\ Len(d) = WholeBlocks(d) * HashBlock + r
    BY <1>2
  <2> HIDE DEF r
  <2> QED BY <1>1, <1>2, <2>1
<1> QED BY <1>1, <1>2, <1>3 DEF HasBlocks, Within

\* So many blocks there are, if less than one is left.
LEMMA WholeAre ==
  ASSUME NEW d, IsSeq(d), NEW k \in Nat, NEW r \in 0 .. HashBlock - 1, Len(d) = k * HashBlock + r
  PROVE  WholeBlocks(d) = k /\ Len(d) % HashBlock = r
BY LengthsAreNat, DivIs DEF WholeBlocks

LEMMA ShaOfNothing == Sha(<< >>) = ShaInit
PROOF
<1>1. HashBlock \in Nat \ {0} /\ 0 \in 0 .. HashBlock - 1 /\ 0 = 0 * HashBlock + 0 /\ 0 \in Nat
  BY LengthsAreNat
<1>2. WholeBlocks(<< >>) = 0
  BY <1>1, EmptyIsSeq, WholeAre
<1>3. BlocksOf(<< >>, 0) = << >>
  <2>1. IsSeq(BlocksOf(<< >>, 0)) /\ Len(BlocksOf(<< >>, 0)) = 0
    BY BlocksMore, <1>1
  <2> QED BY <2>1, LengthZero
<1>4. Piece(<< >>, 0 * HashBlock, 0) = << >>
  <2>1. Within(<< >>, 0, 0) /\ 0 * HashBlock = 0
    BY <1>1, EmptyIsSeq DEF Within
  <2> QED BY <2>1, NoPiece
<1>5. Len(<< >>) = 0
  BY EmptyIsSeq
<1> QED BY <1>2, <1>3, <1>4, <1>5 DEF Sha, ShaInit

\* The states of the loop that takes the blocks of m from block j + 1 on.
TakesFrom(taken, n, m, j) ==
  taken = [i \in 0 .. Len(Piece(m, j * HashBlock, Len(m))) \div HashBlock |->
             IF i = 0 THEN [len |-> n, buf |-> << >>, h |-> BlocksOf(m, j)]
             ELSE Compress(taken[i - 1],
                           SubSeq(Piece(m, j * HashBlock, Len(m)), (i - 1) * HashBlock + 1, i * HashBlock))]

LEMMA BlocksAreTaken ==
  ASSUME NEW m, NEW j \in Nat, Within(m, j * HashBlock, Len(m)), NEW len, NEW taken,
         TakesFrom(taken, len, m, j)
  PROVE  \A i \in 0 .. Len(Piece(m, j * HashBlock, Len(m))) \div HashBlock :
           taken[i] = [len |-> len, buf |-> << >>, h |-> BlocksOf(m, j + i)]
PROOF
<1> DEFINE a == j * HashBlock
           rest == Piece(m, a, Len(m))
           B == Len(rest) \div HashBlock
           S(i) == [len |-> len, buf |-> << >>, h |-> BlocksOf(m, j + i)]
           P == { i \in Nat : i <= B => taken[i] = S(i) }
<1>1. HashBlock \in Nat \ {0} /\ a \in Nat
  BY LengthsAreNat
<1>2. IsSeq(rest)
  BY PieceIs
<1>3. B \in Nat /\ HasBlocks(rest, B)
  BY <1>2, WholeIs DEF WholeBlocks
<1>4. Within(m, a, Len(m))
  OBVIOUS
<1>5. taken = [i \in 0 .. B |-> IF i = 0 THEN [len |-> len, buf |-> << >>, h |-> BlocksOf(m, j)]
                 ELSE Compress(taken[i - 1], SubSeq(rest, (i - 1) * HashBlock + 1, i * HashBlock))]
  BY DEF TakesFrom
<1> HIDE DEF B
<1>6. 0 \in P
  <2>1. 0 \in 0 .. B /\ j + 0 = j
    BY <1>3
  <2>2. taken[0] = S(0)
    BY <1>5, <2>1
  <2> QED BY <2>2
<1>7. \A i \in P : i < B => i + 1 \in P
  <2> SUFFICES ASSUME NEW i \in P, i < B PROVE i + 1 \in P
    OBVIOUS
  <2> DEFINE k == i + 1
             x == i * HashBlock
             y == k * HashBlock
             p == SubSeq(rest, (k - 1) * HashBlock + 1, k * HashBlock)
  <2>1. k \in 0 .. B /\ k # 0 /\ k - 1 = i /\ k \in 1 .. B /\ i <= B /\ i \in Nat
    BY <1>3
  <2>2. taken[i] = S(i)
    BY <2>1
  <2> HIDE DEF P, rest
  <2>3. taken[k] = Compress(taken[i], p)
    <3> HIDE DEF k, S, p
    <3>1. taken[k] = Compress(taken[k - 1], SubSeq(rest, (k - 1) * HashBlock + 1, k * HashBlock))
      BY ONLY <1>5, <2>1
    <3> QED BY ONLY <3>1, <2>1 DEF p
  <2>4. p = Piece(rest, x, y)
    BY <2>1 DEF Piece
  <2>5. Within(rest, x, y)
    <3> HIDE DEF k
    <3>1. Within(rest, (k - 1) * HashBlock, k * HashBlock)
      BY <1>3, <2>1, BlockLies
    <3> QED BY <2>1, <3>1
  <2> HIDE DEF x, y, p, k
  <2>6. Piece(rest, x, y) = Piece(m, a + x, a + y)
    BY <1>4, <2>5, PieceOfPiece DEF rest
  <2>7. a + x = (j + i) * HashBlock /\ a + y = ((j + i) + 1) * HashBlock
    BY <1>1, <2>1 DEF x, y, k
  <2>8. Append(BlocksOf(m, j + i), p) = BlocksOf(m, (j + i) + 1)
    <3>1. j + i \in Nat
      BY <2>1
    <3> QED BY <2>4, <2>6, <2>7, <3>1, BlocksMore
  <2>9. taken[k] = [len |-> len, buf |-> << >>, h |-> BlocksOf(m, (j + i) + 1)]
    BY <2>2, <2>3, <2>8, CompressIs
  <2>10. (j + i) + 1 = j + k
    BY <2>1 DEF k
  <2>11. taken[k] = S(k)
    BY <2>9, <2>10
  <2> HIDE DEF S
  <2>12. taken[i + 1] = S(i + 1) /\ i + 1 \in Nat
    BY <2>1, <2>11 DEF k
  <2> QED BY <2>12 DEF P
<1> HIDE DEF S
<1>8. \A i \in 0 .. B : i \in P
  <2>1. P \in SUBSET Nat
    OBVIOUS
  <2> HIDE DEF P
  <2> QED BY <1>3, <1>6, <1>7, <2>1, InductionUpTo
<1>9. \A i \in 0 .. B : taken[i] = S(i)
  BY <1>3, <1>8
<1> QED BY <1>9 DEF B, S

\* With the buffer empty in front of block j + 1, the rest of m is taken.
Takes(first, rest) ==
  LET blocks == Len(rest) \div HashBlock
      taken[i \in 0 .. blocks] ==
        IF i = 0 THEN first
        ELSE Compress(taken[i - 1], SubSeq(rest, (i - 1) * HashBlock + 1, i * HashBlock))
      tail   == Skipped(rest, blocks * HashBlock)
  IN IF tail = << >> THEN taken[blocks] ELSE [taken[blocks] EXCEPT !.buf = tail]

LEMMA RestIsTaken ==
  ASSUME NEW m, NEW j \in Nat, Within(m, j * HashBlock, Len(m))
  PROVE  Takes([len |-> Len(m), buf |-> << >>, h |-> BlocksOf(m, j)], Piece(m, j * HashBlock, Len(m))) = Sha(m)
PROOF
<1> DEFINE a == j * HashBlock
           rest == Piece(m, a, Len(m))
           B == Len(rest) \div HashBlock
           first == [len |-> Len(m), buf |-> << >>, h |-> BlocksOf(m, j)]
           taken == CHOOSE f : f = [i \in 0 .. B |-> IF i = 0 THEN first
                      ELSE Compress(f[i - 1], SubSeq(rest, (i - 1) * HashBlock + 1, i * HashBlock))]
           tail == Skipped(rest, B * HashBlock)
           last == [len |-> Len(m), buf |-> << >>, h |-> BlocksOf(m, j + B)]
<1>1. HashBlock \in Nat \ {0} /\ a \in Nat /\ IsSeq(m) /\ Len(m) \in Nat /\ a <= Len(m)
  BY LengthsAreNat, SeqLength DEF Within
<1>2. IsSeq(rest) /\ Len(rest) = Len(m) - a
  BY PieceIs
<1>3. B \in Nat /\ HasBlocks(rest, B) /\ B * HashBlock \in Nat /\ Len(rest) % HashBlock \in 0 .. HashBlock - 1
      /\ Len(rest) = B * HashBlock + (Len(rest) % HashBlock) /\ Within(rest, B * HashBlock, Len(rest))
  BY <1>2, WholeIs DEF WholeBlocks
<1>4. Within(m, a, Len(m))
  OBVIOUS
<1>5. Takes(first, rest) = IF tail = << >> THEN taken[B] ELSE [taken[B] EXCEPT !.buf = tail]
  BY DEF Takes
<1> HIDE DEF rest, B
<1> DEFINE g == [i \in 0 .. B |-> [len |-> Len(m), buf |-> << >>, h |-> BlocksOf(m, j + i)]]
<1>6. g = [i \in 0 .. B |-> IF i = 0 THEN first
             ELSE Compress(g[i - 1], SubSeq(rest, (i - 1) * HashBlock + 1, i * HashBlock))]
  <2>1. ASSUME NEW i \in 0 .. B
        PROVE  g[i] = IF i = 0 THEN first
                      ELSE Compress(g[i - 1], SubSeq(rest, (i - 1) * HashBlock + 1, i * HashBlock))
    <3>1. CASE i = 0
      <4>1. j + 0 = j
        OBVIOUS
      <4> QED BY <3>1, <4>1
    <3>2. CASE i # 0
      <4> DEFINE e == i - 1
                 x == e * HashBlock
                 y == i * HashBlock
                 p == SubSeq(rest, x + 1, y)
      <4>1. e \in 0 .. B /\ i \in 1 .. B /\ e \in Nat /\ i = e + 1
        BY <1>3, <3>2
      <4>2. g[e] = [len |-> Len(m), buf |-> << >>, h |-> BlocksOf(m, j + e)]
        BY <4>1
      <4>3. Within(rest, x, y)
        BY <1>3, <4>1, BlockLies
      <4> HIDE DEF e
      <4>4. x \in Nat /\ y \in Nat
        BY <1>1, <4>1
      <4>5. a + x = (j + e) * HashBlock /\ a + y = ((j + e) + 1) * HashBlock
        BY <1>1, <4>1
      <4> HIDE DEF x, y, g, first
      <4>6. p = Piece(rest, x, y)
        BY DEF Piece
      <4>7. Piece(rest, x, y) = Piece(m, a + x, a + y)
        BY <1>4, <4>3, PieceOfPiece DEF rest
      <4> HIDE DEF p
      <4>8. Append(BlocksOf(m, j + e), p) = BlocksOf(m, (j + e) + 1)
        <5>1. j + e \in Nat
          BY <4>1
        <5> QED BY <4>5, <4>6, <4>7, <5>1, BlocksMore
      <4>9. Compress(g[e], p) = [len |-> Len(m), buf |-> << >>, h |-> BlocksOf(m, (j + e) + 1)]
        BY <4>2, <4>8, CompressIs
      <4>10. (j + e) + 1 = j + i
        BY <4>1
      <4>11. g[i] = Compress(g[e], p)
        BY <4>9, <4>10 DEF g
      <4> QED BY <3>2, <4>11 DEF e, p, x, y
    <3> QED BY <3>1, <3>2
  <2> DEFINE R(i) == IF i = 0 THEN first
                     ELSE Compress(g[i - 1], SubSeq(rest, (i - 1) * HashBlock + 1, i * HashBlock))
  <2>2. \A i \in 0 .. B : g[i] = R(i)
    BY <2>1
  <2>3. g = [i \in 0 .. B |-> g[i]]
    OBVIOUS
  <2> HIDE DEF g, R
  <2>4. g = [i \in 0 .. B |-> R(i)]
    BY <2>2, <2>3
  <2> QED BY <2>4 DEF R
<1>7. taken = [i \in 0 .. B |-> IF i = 0 THEN first
                 ELSE Compress(taken[i - 1], SubSeq(rest, (i - 1) * HashBlock + 1, i * HashBlock))]
  <2> HIDE DEF g, first
  <2> QED BY <1>6
<1> HIDE DEF taken, g
<1>8. taken[B] = last
  <2> DEFINE T(t) == \A i \in 0 .. B : t[i] = [len |-> Len(m), buf |-> << >>, h |-> BlocksOf(m, j + i)]
  <2>1. T(taken)
    <3> DEFINE len == Len(m)
    <3> HIDE DEF len
    <3>1. TakesFrom(taken, len, m, j)
      BY <1>7 DEF rest, B, len, TakesFrom
    <3>2. \A i \in 0 .. Len(Piece(m, j * HashBlock, Len(m))) \div HashBlock :
            taken[i] = [len |-> len, buf |-> << >>, h |-> BlocksOf(m, j + i)]
      BY ONLY <1>4, <3>1, j \in Nat, BlocksAreTaken
    <3> QED BY <3>2 DEF len, rest, B
  <2>2. B \in 0 .. B
    BY <1>3
  <2> QED BY <2>1, <2>2
<1> DEFINE K == j + B
           r == Len(rest) % HashBlock
<1>9. K \in Nat /\ K * HashBlock = a + B * HashBlock
  BY <1>1, <1>3
<1>10. Len(m) = K * HashBlock + r /\ r \in 0 .. HashBlock - 1
  <2>1. r \in 0 .. HashBlock - 1 /\ Len(rest) = B * HashBlock + r
    BY <1>3
  <2> HIDE DEF r, K
  <2> QED BY <1>1, <1>2, <1>3, <1>9, <2>1
<1> HIDE DEF K, r
<1>11. WholeBlocks(m) = K
  BY <1>1, <1>9, <1>10, WholeAre
<1>12. tail = Piece(m, K * HashBlock, Len(m)) /\ IsSeq(tail)
  <2>1. tail = Piece(rest, B * HashBlock, Len(rest))
    BY DEF Skipped, Piece
  <2> DEFINE b == B * HashBlock
             l == Len(rest)
  <2>2. Within(rest, b, l)
    BY <1>3
  <2> HIDE DEF b, l
  <2>3. Piece(rest, b, l) = Piece(m, a + b, a + l) /\ Within(m, a + b, a + l)
    BY <1>4, <2>2, PieceOfPiece DEF rest
  <2>4. a + l = Len(m) /\ a + b = K * HashBlock
    BY <1>1, <1>2, <1>9 DEF l, b
  <2>5. IsSeq(Piece(rest, b, l))
    BY <2>2, PieceIs
  <2> QED BY <2>1, <2>3, <2>4, <2>5 DEF b, l
<1> HIDE DEF tail
<1>13. Sha(m) = [len |-> Len(m), buf |-> tail, h |-> BlocksOf(m, K)]
  BY <1>11, <1>12 DEF Sha
<1>14. Takes(first, rest) = Sha(m)
  <2>1. [taken[B] EXCEPT !.buf = tail] = [len |-> Len(m), buf |-> tail, h |-> BlocksOf(m, K)]
    BY <1>8, BufferIs DEF K
  <2>2. tail = << >> => taken[B] = [len |-> Len(m), buf |-> tail, h |-> BlocksOf(m, K)]
    BY <1>8 DEF K
  <2> HIDE DEF first
  <2> QED BY <1>5, <1>13, <2>1, <2>2
<1> QED BY <1>14 DEF rest

\* What fills the buffer, and where it is filled.
FillBy(s, data) == IF s.buf = << >> THEN 0 ELSE Lesser(HashBlock - Len(s.buf), Len(data))
Fills(s, data) ==
  [s EXCEPT !.len = @ + Len(data), !.buf = @ \o SubSeq(data, 1, FillBy(s, data))]
Flushes(s) == IF Len(s.buf) = HashBlock THEN [Compress(s, s.buf) EXCEPT !.buf = << >>] ELSE s

LEMMA UpdateIs ==
  ASSUME NEW s, NEW data
  PROVE  ShaUpdate(s, data) = Takes(Flushes(Fills(s, data)), Skipped(data, FillBy(s, data)))
BY DEF ShaUpdate, Takes, Flushes, Fills, FillBy

\* More data: the state is that of all of it.
LEMMA UpdateGoesOn ==
  ASSUME NEW d, NEW e, IsSeq(d), IsSeq(e)
  PROVE  ShaUpdate(Sha(d), e) = Sha(d \o e)
PROOF
<1> DEFINE m == d \o e
           s == Sha(d)
           k == WholeBlocks(d)
           r == Len(d) % HashBlock
           a == k * HashBlock
           n == FillBy(s, e)
           f == Fills(s, e)
           L == Len(d)
           N == Len(e)
           old == Piece(d, a, L)
           new == Piece(e, 0, n)
           rest == Skipped(e, n)
<1>1. /\ HashBlock \in Nat \ {0} /\ k \in Nat /\ a \in Nat /\ r \in 0 .. HashBlock - 1 /\ L \in Nat /\ N \in Nat
      /\ L = a + r /\ HasBlocks(d, k) /\ Within(d, a, L)
  BY LengthsAreNat, WholeIs, SeqLength
<1>2. IsSeq(m) /\ Len(m) = L + N
  BY JoinIs DEF Join
<1>3. s = [len |-> L, buf |-> old, h |-> BlocksOf(d, k)]
  BY DEF Sha
<1>4. IsSeq(old) /\ Len(old) = r /\ (old = << >> <=> r = 0)
  <2> HIDE DEF r, a, L
  <2>1. IsSeq(old) /\ Len(old) = L - a
    BY <1>1, PieceIs
  <2>2. L - a = r
    BY <1>1
  <2> HIDE DEF old
  <2> QED BY <2>1, <2>2, LengthZero
<1> HIDE DEF r, k
<1>5. BlocksOf(m, k) = BlocksOf(d, k) /\ HasBlocks(m, k)
  BY <1>1, BlocksSame
<1>6. n = (IF r = 0 THEN 0 ELSE Lesser(HashBlock - r, N)) /\ n \in 0 .. N
  <2>1. s.buf = old
    BY <1>3
  <2> HIDE DEF s, old
  <2>2. n = IF old = << >> THEN 0 ELSE Lesser(HashBlock - Len(old), N)
    BY <2>1 DEF FillBy
  <2> HIDE DEF n, N
  <2>3. n = IF r = 0 THEN 0 ELSE Lesser(HashBlock - r, N)
    BY <1>4, <2>2
  <2> QED BY <1>1, <2>3 DEF Lesser
<1>7. Within(e, 0, n) /\ Within(e, n, N)
  <2> HIDE DEF n
  <2> QED BY <1>1, <1>6 DEF Within
<1>8. f = [len |-> L + N, buf |-> old \o new, h |-> BlocksOf(d, k)]
  <2> DEFINE x == s.len + Len(e)
             y == s.buf \o SubSeq(e, 1, n)
  <2>1. f = [s EXCEPT !.len = x, !.buf = y]
    BY DEF Fills
  <2>2. new = SubSeq(e, 1, n)
    <3>1. 0 + 1 = 1
      OBVIOUS
    <3> QED BY <3>1 DEF Piece
  <2>3. x = L + N /\ y = old \o new
    <3>1. s.len = L /\ s.buf = old
      BY <1>3
    <3> HIDE DEF s, old, new, L
    <3> QED BY <2>2, <3>1
  <2> HIDE DEF x, y, f
  <2>4. f = [len |-> x, buf |-> y, h |-> BlocksOf(d, k)]
    <3> DEFINE h == BlocksOf(d, k)
    <3>1. s = [len |-> L, buf |-> old, h |-> h]
      BY <1>3
    <3> HIDE DEF h, s, L, old
    <3>2. f = [len |-> x, buf |-> y, h |-> h]
      BY ONLY <2>1, <3>1
    <3> QED BY <3>2 DEF h
  <2> QED BY <2>3, <2>4
<1>9. /\ old \o new = Piece(m, a, L + n) /\ Within(m, a, L + n)
      /\ rest = Piece(m, L + n, L + N) /\ Within(m, L + n, L + N)
  <2>1. Piece(m, a, L) = old /\ Within(m, a, L)
    BY <1>1, PieceOfFirst
  <2> HIDE DEF n
  <2>2. Piece(m, L + 0, L + n) = new /\ Within(m, L + 0, L + n) /\ L + 0 = L
    <3>1. Piece(m, L + 0, L + n) = new /\ Within(m, L + 0, L + n)
      BY ONLY <1>7, IsSeq(d), PieceOfSecond
    <3>2. L + 0 = L
      BY <1>1
    <3> QED BY <3>1, <3>2
  <2>3. Piece(m, L + n, L + N) = Piece(e, n, N) /\ Within(m, L + n, L + N)
    BY <1>7, PieceOfSecond
  <2>4. rest = Piece(e, n, N)
    BY DEF Skipped, Piece
  <2> HIDE DEF m, L, old, new, rest, N
  <2>5. Within(m, L, L + n) /\ Piece(m, L, L + n) = new
    BY <2>2
  <2>6. Piece(m, a, L) \o Piece(m, L, L + n) = Piece(m, a, L + n)
    BY <2>1, <2>5, PiecesJoin
  <2>7. Within(m, a, L + n)
    <3>1. n \in Nat /\ a <= L
      BY <1>6, <2>1 DEF Within
    <3> QED BY <1>1, <2>1, <2>5, <3>1 DEF Within
  <2> QED BY <2>1, <2>3, <2>4, <2>5, <2>6, <2>7
<1>10. IsSeq(old \o new) /\ Len(old \o new) = r + n
  <2>1. IsSeq(Piece(m, a, L + n)) /\ Len(Piece(m, a, L + n)) = (L + n) - a
    BY <1>9, PieceIs
  <2>2. (L + n) - a = r + n
    <3> HIDE DEF L, a, n
    <3> QED BY <1>1, <1>6
  <2> QED BY <1>9, <2>1, <2>2
<1>11. ShaUpdate(s, e) = Takes(Flushes(f), rest)
  BY UpdateIs
<1> DEFINE b == old \o new
<1> HIDE DEF s, f, n, rest, m, L, N, old, new, b, a
<1>12. f = [len |-> L + N, buf |-> b, h |-> BlocksOf(m, k)]
  BY <1>5, <1>8 DEF b
<1>13. f.buf = b /\ Len(b) = r + n /\ b = Piece(m, a, L + n) /\ IsSeq(b)
  BY <1>9, <1>10, <1>12 DEF b
<1>14. CASE r + n = HashBlock
  <2> DEFINE j == k + 1
             c == j * HashBlock
  <2>1. j \in Nat /\ c = a + HashBlock /\ L + n = c
    BY <1>1, <1>6, <1>14 DEF a
  <2>2. Append(BlocksOf(m, k), b) = BlocksOf(m, j)
    <3>1. Append(BlocksOf(m, k), Piece(m, k * HashBlock, (k + 1) * HashBlock)) = BlocksOf(m, k + 1)
      BY <1>1, BlocksMore
    <3>2. b = Piece(m, k * HashBlock, (k + 1) * HashBlock)
      BY <1>13, <2>1 DEF a
    <3> QED BY <3>1, <3>2
  <2>3. Flushes(f) = [len |-> L + N, buf |-> << >>, h |-> BlocksOf(m, j)]
    <3> HIDE DEF j
    <3>1. Flushes(f) = [Compress(f, b) EXCEPT !.buf = << >>]
      BY <1>13, <1>14 DEF Flushes
    <3>2. Compress(f, b) = [len |-> L + N, buf |-> b, h |-> BlocksOf(m, j)]
      BY <1>12, <2>2, CompressIs
    <3> QED BY <3>1, <3>2, BufferIs
  <2> HIDE DEF j
  <2>4. Within(m, c, Len(m)) /\ rest = Piece(m, c, Len(m))
    BY <1>2, <1>9, <2>1
  <2>5. Takes([len |-> Len(m), buf |-> << >>, h |-> BlocksOf(m, j)], Piece(m, c, Len(m))) = Sha(m)
    BY <2>1, <2>4, RestIsTaken
  <2> HIDE DEF c
  <2> QED BY <1>2, <1>11, <2>3, <2>4, <2>5 DEF m, s
<1>15. CASE r + n # HashBlock
  <2>1. Flushes(f) = f
    BY <1>13, <1>15 DEF Flushes
  <2>2. CASE r = 0
    <3>1. n = 0 /\ L + n = a /\ b = << >>
      <4>1. n = 0
        BY <1>6, <2>2
      <4>2. L + n = a /\ r + n = 0
        BY <1>1, <2>2, <4>1
      <4> QED BY <1>13, <4>1, <4>2, LengthZero
    <3>2. f = [len |-> Len(m), buf |-> << >>, h |-> BlocksOf(m, k)]
      BY <1>2, <1>12, <3>1
    <3>3. Within(m, k * HashBlock, Len(m)) /\ rest = Piece(m, k * HashBlock, Len(m))
      BY <1>2, <1>9, <3>1 DEF a
    <3>4. Takes([len |-> Len(m), buf |-> << >>, h |-> BlocksOf(m, k)], Piece(m, k * HashBlock, Len(m))) = Sha(m)
      BY <1>1, <3>3, RestIsTaken
    <3> QED BY <1>11, <2>1, <3>2, <3>3, <3>4 DEF m, s
  <2>3. CASE r # 0
    <3>1. n = N /\ r + N \in 0 .. HashBlock - 1 /\ r + N # 0
      <4>1. n = Lesser(HashBlock - r, N)
        BY <1>6, <2>3
      <4> QED BY <1>1, <1>15, <2>3, <4>1 DEF Lesser
    <3>2. WholeBlocks(m) = k
      <4>1. Len(m) = k * HashBlock + (r + N)
        BY <1>1, <1>2, <3>1 DEF a
      <4> DEFINE t == r + N
      <4>2. t \in 0 .. HashBlock - 1 /\ Len(m) = k * HashBlock + t
        BY <3>1, <4>1
      <4> HIDE DEF t
      <4> QED BY <1>1, <1>2, <4>2, WholeAre
    <3>3. Sha(m) = f
      BY <1>2, <1>12, <1>13, <3>1, <3>2 DEF Sha, a
    <3>4. rest = << >>
      <4>1. Within(m, L + N, L + N) /\ rest = Piece(m, L + N, L + N)
        BY <1>9, <3>1
      <4> QED BY <4>1, NoPiece
    <3>5. Takes(f, << >>) = f
      <4> DEFINE blocks == Len(<< >>) \div HashBlock
                 taken == CHOOSE g : g = [i \in 0 .. blocks |-> IF i = 0 THEN f
                             ELSE Compress(g[i - 1], SubSeq(<< >>, (i - 1) * HashBlock + 1, i * HashBlock))]
                 tail == Skipped(<< >>, blocks * HashBlock)
      <4>1. Takes(f, << >>) = IF tail = << >> THEN taken[blocks] ELSE [taken[blocks] EXCEPT !.buf = tail]
        BY DEF Takes
      <4>2. blocks = 0 /\ blocks * HashBlock = 0
        <5>1. WholeBlocks(<< >>) = 0
          <6>1. 0 \in 0 .. HashBlock - 1 /\ 0 = 0 * HashBlock + 0 /\ 0 \in Nat
            BY <1>1
          <6> QED BY <6>1, EmptyIsSeq, WholeAre
        <5>2. blocks = 0
          BY <5>1 DEF WholeBlocks
        <5> HIDE DEF blocks
        <5> QED BY <1>1, <5>2
      <4> HIDE DEF blocks
      <4>3. tail = << >>
        <5>1. Within(<< >>, 0, 0)
          BY EmptyIsSeq DEF Within
        <5>2. Piece(<< >>, 0, 0) = << >>
          BY <5>1, NoPiece
        <5> QED BY <4>2, <5>2, EmptyIsSeq DEF Skipped, Piece
      <4>4. taken = [i \in 0 .. blocks |-> IF i = 0 THEN f
                       ELSE Compress(taken[i - 1], SubSeq(<< >>, (i - 1) * HashBlock + 1, i * HashBlock))]
        <5> DEFINE g == [i \in 0 .. 0 |-> f]
        <5>1. g = [i \in 0 .. blocks |-> IF i = 0 THEN f
                     ELSE Compress(g[i - 1], SubSeq(<< >>, (i - 1) * HashBlock + 1, i * HashBlock))]
          <6>1. \A i \in 0 .. 0 : i = 0
            OBVIOUS
          <6>2. \A i \in 0 .. 0 : g[i] = IF i = 0 THEN f
                     ELSE Compress(g[i - 1], SubSeq(<< >>, (i - 1) * HashBlock + 1, i * HashBlock))
            BY <6>1
          <6> QED BY <4>2, <6>1, <6>2
        <5> HIDE DEF g
        <5> QED BY <5>1
      <4> HIDE DEF taken
      <4>5. taken[0] = f
        BY <4>2, <4>4
      <4> QED BY <4>1, <4>2, <4>3, <4>5
    <3> QED BY <1>11, <2>1, <3>3, <3>4, <3>5 DEF m, s
  <2> QED BY <2>2, <2>3
<1> QED BY <1>14, <1>15 DEF m, s

LEMMA ZerosAre ==
  ASSUME NEW n \in Nat
  PROVE  /\ IsSeq(Zeros(n)) /\ Len(Zeros(n)) = n
         /\ \A i \in 1 .. n : Zeros(n)[i] = << "zero" >>
PROOF
<1> DEFINE z == [i \in 1 .. n |-> << "zero" >>]
<1>1. z = [i \in 1 .. n |-> z[i]] /\ \A i \in 1 .. n : z[i] = << "zero" >>
  OBVIOUS
<1> HIDE DEF z
<1>2. IsSeq(z) /\ Len(z) = n
  BY <1>1, SeqIs
<1>3. z = Zeros(n)
  BY DEF z, Zeros
<1> QED BY <1>1, <1>2, <1>3

LEMMA ZerosJoin ==
  ASSUME NEW m \in Nat, NEW n \in Nat
  PROVE  Zeros(m) \o Zeros(n) = Zeros(m + n)
PROOF
<1> DEFINE a == Zeros(m)
           b == Zeros(n)
           c == Zeros(m + n)
<1>1. /\ IsSeq(a) /\ Len(a) = m /\ \A i \in 1 .. m : a[i] = << "zero" >>
      /\ IsSeq(b) /\ Len(b) = n /\ \A i \in 1 .. n : b[i] = << "zero" >>
      /\ IsSeq(c) /\ Len(c) = m + n /\ \A i \in 1 .. m + n : c[i] = << "zero" >>
  <2>1. m + n \in Nat
    OBVIOUS
  <2> QED BY <2>1, ZerosAre
<1> HIDE DEF a, b, c
<1>2. Join(a, b, c)
  <2>1. \A i \in 1 .. m : i \in 1 .. m + n
    OBVIOUS
  <2>2. \A j \in 1 .. n : m + j \in 1 .. m + n
    OBVIOUS
  <2> QED BY <1>1, <2>1, <2>2 DEF Join
<1>3. a \o b = c
  BY <1>1, <1>2, JoinIs, OnlyJoin
<1> QED BY <1>3 DEF a, b, c

LEMMA LengthBytesAre ==
  ASSUME NEW n
  PROVE  IsSeq(LengthBytes(n)) /\ Len(LengthBytes(n)) = LenField
PROOF
<1> DEFINE z == [i \in 1 .. LenField |-> << "length", n, i >>]
<1>1. z = [i \in 1 .. LenField |-> z[i]]
  OBVIOUS
<1> HIDE DEF z
<1>2. IsSeq(z) /\ Len(z) = LenField
  BY <1>1, SeqIs, LengthsAreNat
<1>3. z = LengthBytes(n)
  BY DEF z, LengthBytes
<1> QED BY <1>2, <1>3

LEMMA OutIs ==
  ASSUME NEW s
  PROVE  IsSeq(Out(s)) /\ Len(Out(s)) = Digest
PROOF
<1> DEFINE z == [i \in 1 .. Digest |-> << "digest", s.h, i >>]
<1>1. z = [i \in 1 .. Digest |-> z[i]]
  OBVIOUS
<1> HIDE DEF z
<1>2. IsSeq(z) /\ Len(z) = Digest
  BY <1>1, SeqIs, LengthsAreNat
<1>3. z = Out(s)
  BY DEF z, Out
<1> QED BY <1>2, <1>3

LEMMA OutSame ==
  ASSUME NEW s, NEW t, s.h = t.h
  PROVE  Out(s) = Out(t)
BY DEF Out

Mark == << << "mark" >> >>
EndOf(z, n) == (Mark \o Zeros(z)) \o LengthBytes(n)

LEMMA EndIs ==
  ASSUME NEW z \in Nat, NEW n
  PROVE  IsSeq(EndOf(z, n)) /\ Len(EndOf(z, n)) = 1 + z + LenField
PROOF
<1>1. IsSeq(Mark) /\ Len(Mark) = 1 /\ IsSeq(Zeros(z)) /\ Len(Zeros(z)) = z
  BY OneIsSeq, ZerosAre DEF Mark
<1>2. IsSeq(Mark \o Zeros(z)) /\ Len(Mark \o Zeros(z)) = 1 + z
  <2>1. Join(Mark, Zeros(z), Mark \o Zeros(z))
    BY ONLY <1>1, JoinIs
  <2> QED BY ONLY <1>1, <2>1 DEF Join
<1>3. IsSeq(LengthBytes(n)) /\ Len(LengthBytes(n)) = LenField
  BY LengthBytesAre
<1> QED BY <1>2, <1>3, JoinIs DEF Join, EndOf

\* A sequence up to the end of a block.
LEMMA FilledIs ==
  ASSUME NEW d, IsSeq(d), NEW e, IsSeq(e), Len(d) + Len(e) = (WholeBlocks(d) + 1) * HashBlock
  PROVE  /\ BlocksOf(d \o e, WholeBlocks(d) + 1) = Append(BlocksOf(d, WholeBlocks(d)), Sha(d).buf \o e)
         /\ HasBlocks(d \o e, WholeBlocks(d) + 1)
PROOF
<1> DEFINE k == WholeBlocks(d)
           j == k + 1
           m == d \o e
           a == k * HashBlock
           b == j * HashBlock
<1>1. k \in Nat /\ Len(d) \in Nat /\ Len(e) \in Nat /\ HasBlocks(d, k) /\ Within(d, a, Len(d)) /\ j \in Nat
  BY WholeIs, SeqLength
<1>2. BlocksOf(m, k) = BlocksOf(d, k)
  BY <1>1, BlocksSame
<1>3. IsSeq(m) /\ Len(m) = b
  BY JoinIs DEF Join
<1>4. Sha(d).buf = Piece(d, a, Len(d))
  BY DEF Sha
<1>5. Piece(m, a, Len(d) + Len(e)) = Piece(d, a, Len(d)) \o e
  BY <1>1, EndOfJoined
<1>6. Append(BlocksOf(m, k), Piece(m, a, b)) = BlocksOf(m, j)
  BY <1>1, BlocksMore
<1>7. HasBlocks(m, j)
  <2>1. Len(m) \in Nat
    BY <1>3, SeqLength
  <2> HIDE DEF j, m
  <2> QED BY <1>1, <1>3, <2>1 DEF HasBlocks
<1> HIDE DEF k, m, a
<1> QED BY <1>2, <1>4, <1>5, <1>6, <1>7 DEF k, m, a

\* What is hashed is d with its end.
LEMMA HashIs ==
  ASSUME NEW d, IsSeq(d), NEW z \in Nat, NEW k \in Nat,
         (2 * HashBlock - LenField - 1 - (Len(d) % HashBlock)) % HashBlock = z,
         Len(d) + (1 + z + LenField) = k * HashBlock
  PROVE  Hash(d) = Out([h |-> BlocksOf(d \o EndOf(z, Len(d)), k)])
PROOF
<1> DEFINE n == Len(d)
           all == ((d \o Mark) \o Zeros(z)) \o LengthBytes(n)
           m == d \o EndOf(z, n)
<1>1. all = m
  <2>1. IsSeq(Mark) /\ IsSeq(Zeros(z)) /\ IsSeq(LengthBytes(n))
    BY OneIsSeq, ZerosAre, LengthBytesAre DEF Mark
  <2>2. (d \o Mark) \o Zeros(z) = d \o (Mark \o Zeros(z))
    BY <2>1, JoinTwice
  <2>3. IsSeq(Mark \o Zeros(z))
    BY <2>1, JoinIs DEF Join
  <2>4. (d \o (Mark \o Zeros(z))) \o LengthBytes(n) = d \o ((Mark \o Zeros(z)) \o LengthBytes(n))
    <3> DEFINE x == Mark \o Zeros(z)
               y == LengthBytes(n)
    <3> HIDE DEF x, y
    <3>1. IsSeq(x) /\ IsSeq(y)
      BY <2>1, <2>3 DEF x, y
    <3>2. (d \o x) \o y = d \o (x \o y)
      BY ONLY <3>1, IsSeq(d), JoinTwice
    <3> QED BY <3>2 DEF x, y
  <2> QED BY <2>2, <2>4 DEF EndOf
<1>2. IsSeq(m) /\ Len(m) = k * HashBlock
  <2>1. IsSeq(EndOf(z, n)) /\ Len(EndOf(z, n)) = 1 + z + LenField
    BY EndIs
  <2> QED BY <2>1, JoinIs DEF Join
<1>3. Len(m) \div HashBlock = k
  <2>1. HashBlock \in Nat \ {0} /\ 0 \in 0 .. HashBlock - 1
    BY LengthsAreNat
  <2>2. Len(m) = k * HashBlock + 0
    BY <1>2, <2>1
  <2> HIDE DEF m
  <2>3. WholeBlocks(m) = k
    BY <1>2, <2>1, <2>2, WholeAre
  <2> QED BY <2>3 DEF WholeBlocks
<1>4. Blocks1(d) = [i \in 1 .. Len(all) \div HashBlock |-> SubSeq(all, (i - 1) * HashBlock + 1, i * HashBlock)]
  <2> DEFINE w == (2 * HashBlock - LenField - 1 - (Len(d) % HashBlock)) % HashBlock
  <2>1. w = z
    OBVIOUS
  <2> HIDE DEF w
  <2>2. Blocks1(d) = LET a == ((d \o Mark) \o Zeros(w)) \o LengthBytes(n)
                     IN [i \in 1 .. Len(a) \div HashBlock |-> SubSeq(a, (i - 1) * HashBlock + 1, i * HashBlock)]
    BY DEF Blocks1, Mark, w
  <2> QED BY <2>1, <2>2
<1> HIDE DEF all, m
<1>5. Blocks1(d) = BlocksOf(m, k)
  BY <1>1, <1>3, <1>4 DEF BlocksOf, Piece
<1> QED BY <1>5 DEF Hash, m

\* The blocks at the end of the program's hash.
Marks(s) == [s EXCEPT !.buf = Append(@, << "mark" >>)]
Readies(s) ==
  IF Len(s.buf) > HashBlock - LenField
    THEN [Compress(s, s.buf \o Zeros(HashBlock - Len(s.buf))) EXCEPT !.buf = << >>]
    ELSE s
HashEnds(s, n) ==
  Out(Compress(s, (s.buf \o Zeros(HashBlock - LenField - Len(s.buf))) \o LengthBytes(n)))

LEMMA FinalSteps ==
  ASSUME NEW s
  PROVE  ShaFinal(s) = HashEnds(Readies(Marks(s)), s.len)
BY DEF ShaFinal, HashEnds, Readies, Marks

EndBlock(b, n) == (b \o Zeros(HashBlock - LenField - Len(b))) \o LengthBytes(n)

LEMMA EndsIs ==
  ASSUME NEW n, NEW b, NEW h, NEW k
  PROVE  HashEnds([len |-> n, buf |-> b, h |-> h], k) = Out([h |-> Append(h, EndBlock(b, k))])
PROOF
<1> DEFINE s == [len |-> n, buf |-> b, h |-> h]
           block == EndBlock(b, k)
           g == Append(h, block)
<1>1. s.buf = b
  OBVIOUS
<1>2. Compress(s, block) = [len |-> n, buf |-> b, h |-> g]
  BY CompressIs
<1> HIDE DEF s
<1>3. HashEnds(s, k) = Out(Compress(s, block))
  BY <1>1 DEF HashEnds, EndBlock
<1> HIDE DEF block, g
<1>4. Compress(s, block).h = [h |-> g].h
  BY <1>2
<1>5. Out(Compress(s, block)) = Out([h |-> g])
  BY <1>4, OutSame
<1> QED BY <1>3, <1>5 DEF s, block, g

\* The end of the program's hash makes it that of all the data.
LEMMA FinalIs ==
  ASSUME NEW d, IsSeq(d)
  PROVE  ShaFinal(Sha(d)) = Hash(d)
PROOF
<1> DEFINE k == WholeBlocks(d)
           r == Len(d) % HashBlock
           L == Len(d)
           old == Sha(d).buf
           H == BlocksOf(d, k)
           b == old \o Mark
           lb == LengthBytes(L)
           w == 2 * HashBlock - LenField - 1 - r
<1>1. /\ k \in Nat /\ L \in Nat /\ k * HashBlock \in Nat /\ r \in 0 .. HashBlock - 1
      /\ L = k * HashBlock + r /\ HasBlocks(d, k) /\ Within(d, k * HashBlock, L)
  BY WholeIs
<1>2. HashBlock \in Nat \ {0} /\ LenField \in Nat \ {0} /\ LenField < HashBlock
  BY LengthsAreNat
<1>3. Sha(d) = [len |-> L, buf |-> old, h |-> H] /\ IsSeq(old) /\ Len(old) = r
  <2>1. Sha(d) = [len |-> L, buf |-> Piece(d, k * HashBlock, L), h |-> H]
    BY DEF Sha
  <2>2. old = Piece(d, k * HashBlock, L)
    BY <2>1
  <2>3. IsSeq(Piece(d, k * HashBlock, L)) /\ Len(Piece(d, k * HashBlock, L)) = L - k * HashBlock
    <3> HIDE DEF L, k
    <3> QED BY <1>1, PieceIs
  <2>4. L - k * HashBlock = r
    <3> HIDE DEF L, k, r
    <3> QED BY <1>1
  <2> HIDE DEF L, k, r, H, old
  <2> QED BY <2>1, <2>2, <2>3, <2>4
<1>4. IsSeq(Mark) /\ Len(Mark) = 1 /\ IsSeq(lb) /\ Len(lb) = LenField
  BY OneIsSeq, LengthBytesAre DEF Mark
<1>5. IsSeq(b) /\ Len(b) = r + 1
  <2> HIDE DEF old, r
  <2>1. Join(old, Mark, b)
    BY ONLY <1>3, <1>4, JoinIs
  <2> QED BY ONLY <1>3, <1>4, <2>1 DEF Join
<1>6. Marks(Sha(d)) = [len |-> L, buf |-> b, h |-> H]
  <2> HIDE DEF old, L, H
  <2>1. Append(old, << "mark" >>) = b
    BY <1>3, AppendJoins DEF Mark
  <2> HIDE DEF b
  <2>2. Marks([len |-> L, buf |-> old, h |-> H]) = [len |-> L, buf |-> b, h |-> H]
    BY <2>1, BufferIs DEF Marks
  <2> QED BY <1>3, <2>2
<1>7. Sha(d).len = L
  BY DEF Sha
<1> HIDE DEF H, old, lb
<1>8. CASE r + 1 <= HashBlock - LenField
  <2> DEFINE z == HashBlock - LenField - (r + 1)
             e == EndOf(z, L)
             block == old \o e
  <2>1. z \in Nat /\ w = 1 * HashBlock + z /\ z \in 0 .. HashBlock - 1 /\ 1 + z + LenField = HashBlock - r
    <3> HIDE DEF r
    <3> QED BY <1>1, <1>2, <1>8
  <2>2. w % HashBlock = z
    <3> HIDE DEF w, z
    <3> QED BY <1>2, <2>1, DivIs, 1 \in Nat
  <2>3. IsSeq(e) /\ Len(e) = 1 + z + LenField
    <3> HIDE DEF z
    <3> QED BY <2>1, EndIs
  <2>4. L + Len(e) = (k + 1) * HashBlock /\ k + 1 \in Nat
    <3> HIDE DEF L, r, z, e, k
    <3> QED BY <1>1, <1>2, <2>1, <2>3
  <2>5. Hash(d) = Out([h |-> BlocksOf(d \o e, k + 1)])
    <3> DEFINE K == k + 1
    <3>1. K \in Nat /\ L + (1 + z + LenField) = K * HashBlock
      BY <2>3, <2>4
    <3> HIDE DEF z, K, k
    <3> QED BY <2>1, <2>2, <3>1, HashIs DEF K
  <2>6. BlocksOf(d \o e, k + 1) = Append(H, block)
    <3> HIDE DEF e
    <3> QED BY <2>3, <2>4, FilledIs DEF H, old
  <2>7. EndBlock(b, L) = block
    <3>1. IsSeq(Zeros(z)) /\ IsSeq(Mark \o Zeros(z))
      <4> HIDE DEF z
      <4>1. IsSeq(Zeros(z))
        BY <2>1, ZerosAre
      <4> QED BY <1>4, <4>1, JoinIs DEF Join
    <3>2. (old \o Mark) \o Zeros(z) = old \o (Mark \o Zeros(z))
      <4> DEFINE x == Zeros(z)
      <4>1. IsSeq(x)
        BY <3>1
      <4> HIDE DEF x
      <4>2. (old \o Mark) \o x = old \o (Mark \o x)
        BY ONLY <1>3, <1>4, <4>1, JoinTwice
      <4> QED BY <4>2 DEF x
    <3>3. (old \o (Mark \o Zeros(z))) \o lb = old \o ((Mark \o Zeros(z)) \o lb)
      <4> DEFINE x == Mark \o Zeros(z)
      <4>1. IsSeq(x)
        BY <3>1
      <4> HIDE DEF x
      <4>2. (old \o x) \o lb = old \o (x \o lb)
        BY ONLY <1>3, <1>4, <4>1, JoinTwice
      <4> QED BY <4>2 DEF x
    <3>4. HashBlock - LenField - Len(b) = z
      BY <1>5
    <3>5. (b \o Zeros(z)) \o lb = old \o ((Mark \o Zeros(z)) \o lb)
      BY <3>2, <3>3
    <3> HIDE DEF z, b
    <3> QED BY <3>4, <3>5 DEF EndOf, EndBlock, lb
  <2>8. Readies([len |-> L, buf |-> b, h |-> H]) = [len |-> L, buf |-> b, h |-> H]
    <3>1. [len |-> L, buf |-> b, h |-> H].buf = b
      OBVIOUS
    <3>2. ~(Len(b) > HashBlock - LenField)
      <4> HIDE DEF r, b
      <4> QED BY <1>1, <1>2, <1>5, <1>8
    <3> HIDE DEF b, L
    <3> QED BY <3>1, <3>2 DEF Readies
  <2> HIDE DEF block, b, e, k
  <2>9. HashEnds([len |-> L, buf |-> b, h |-> H], L) = Out([h |-> Append(H, block)])
    <3> HIDE DEF L
    <3> QED BY ONLY <2>7, EndsIs
  <2>10. ShaFinal(Sha(d)) = HashEnds([len |-> L, buf |-> b, h |-> H], L)
    BY <1>6, <1>7, <2>8, FinalSteps
  <2> QED BY <2>5, <2>6, <2>9, <2>10
<1>9. CASE r + 1 > HashBlock - LenField
  <2> DEFINE z1 == HashBlock - (r + 1)
             z2 == HashBlock - LenField
             e1 == Mark \o Zeros(z1)
             e2 == Zeros(z2) \o lb
             m1 == d \o e1
             block == old \o e1
  <2>1. /\ z1 \in Nat /\ z2 \in Nat /\ z1 + z2 \in Nat /\ w = 0 * HashBlock + (z1 + z2)
        /\ z1 + z2 \in 0 .. HashBlock - 1 /\ 1 + (z1 + z2) + LenField = 2 * HashBlock - r
        /\ 1 + z1 = HashBlock - r
    <3> HIDE DEF r
    <3> QED BY <1>1, <1>2, <1>9
  <2>2. w % HashBlock = z1 + z2
    <3> DEFINE z == z1 + z2
    <3>1. z \in 0 .. HashBlock - 1 /\ w = 0 * HashBlock + z
      BY <2>1
    <3> HIDE DEF w, z
    <3>2. w % HashBlock = z
      BY <1>2, <3>1, DivIs, 0 \in Nat
    <3> QED BY <3>2 DEF z
  <2> HIDE DEF z1, z2
  <2>3. /\ IsSeq(Zeros(z1)) /\ Len(Zeros(z1)) = z1 /\ IsSeq(Zeros(z2)) /\ Len(Zeros(z2)) = z2
        /\ Zeros(z1) \o Zeros(z2) = Zeros(z1 + z2)
    BY <2>1, ZerosAre, ZerosJoin
  <2>4. IsSeq(e1) /\ Len(e1) = 1 + z1 /\ IsSeq(e2) /\ Len(e2) = z2 + LenField
    <3>1. Join(Mark, Zeros(z1), e1) /\ Join(Zeros(z2), lb, e2)
      BY ONLY <1>4, <2>3, JoinIs
    <3> HIDE DEF e1, e2
    <3> QED BY ONLY <1>4, <2>3, <3>1 DEF Join
  <2>5. EndOf(z1 + z2, L) = e1 \o e2
    <3> DEFINE x == Zeros(z1)
               y == Zeros(z2)
    <3>1. IsSeq(x) /\ IsSeq(y) /\ x \o y = Zeros(z1 + z2)
      BY <2>3
    <3>2. IsSeq(Mark \o x) /\ e1 = Mark \o x /\ e2 = y \o lb
      BY <2>4
    <3>3. EndOf(z1 + z2, L) = (Mark \o (x \o y)) \o lb
      <4> HIDE DEF x, y
      <4> QED BY <3>1 DEF EndOf, lb
    <3> HIDE DEF x, y
    <3>4. (Mark \o x) \o y = Mark \o (x \o y)
      <4>1. IsSeq(Mark) /\ IsSeq(x) /\ IsSeq(y)
        BY <1>4, <3>1
      <4> QED BY ONLY <4>1, JoinTwice
    <3> DEFINE u == Mark \o x
    <3>5. IsSeq(u)
      BY <3>2
    <3> HIDE DEF u
    <3>6. (u \o y) \o lb = u \o (y \o lb)
      BY ONLY <1>4, <3>1, <3>5, JoinTwice
    <3> QED BY <3>2, <3>3, <3>4, <3>6 DEF u
  <2> HIDE DEF e1, e2
  <2>6. L + Len(e1) = (k + 1) * HashBlock /\ k + 1 \in Nat
    <3> HIDE DEF L, r, k
    <3> QED BY <1>1, <1>2, <2>1, <2>4
  <2>7. BlocksOf(m1, k + 1) = Append(H, block) /\ HasBlocks(m1, k + 1)
    BY <2>4, <2>6, FilledIs DEF H, old
  <2>8. IsSeq(m1) /\ Len(m1) = (k + 1) * HashBlock
    BY <2>4, <2>6, JoinIs DEF Join
  <2> HIDE DEF block
  <2>9. BlocksOf(m1 \o e2, k + 2) = Append(Append(H, block), e2) /\ k + 2 \in Nat
    <3> DEFINE K == k + 1
    <3>1. K \in Nat /\ K + 1 = k + 2
      BY <1>1
    <3>2. IsSeq(m1) /\ Len(m1) = K * HashBlock /\ BlocksOf(m1, K) = Append(H, block)
      BY <2>7, <2>8
    <3> HIDE DEF m1, K
    <3>3. WholeBlocks(m1) = K
      <4>1. 0 \in 0 .. HashBlock - 1 /\ Len(m1) = K * HashBlock + 0
        BY <1>2, <3>1, <3>2
      <4> QED BY <3>1, <3>2, <4>1, WholeAre
    <3>4. Sha(m1).buf = << >>
      <4>1. Sha(m1).buf = Piece(m1, K * HashBlock, Len(m1))
        BY <3>3 DEF Sha
      <4>2. Within(m1, Len(m1), Len(m1))
        BY <3>2, SeqLength DEF Within
      <4> QED BY <3>2, <4>1, <4>2, NoPiece
    <3>5. Len(m1) + Len(e2) = (K + 1) * HashBlock
      <4>1. z2 + LenField = HashBlock
        BY <1>2 DEF z2
      <4> QED BY <1>2, <2>4, <3>1, <3>2, <4>1
    <3>6. BlocksOf(m1 \o e2, K + 1) = Append(BlocksOf(m1, K), Sha(m1).buf \o e2)
      BY <2>4, <3>2, <3>3, <3>5, FilledIs
    <3>7. << >> \o e2 = e2
      BY <2>4, JoinEmpty
    <3> QED BY <3>1, <3>2, <3>4, <3>6, <3>7
  <2>10. m1 \o e2 = d \o EndOf(z1 + z2, L)
    <3>1. m1 \o e2 = d \o (e1 \o e2)
      BY ONLY IsSeq(d), <2>4, JoinTwice
    <3> QED BY <2>5, <3>1
  <2>11. Hash(d) = Out([h |-> BlocksOf(d \o EndOf(z1 + z2, L), k + 2)])
    <3> DEFINE K == k + 2
               z == z1 + z2
    <3>1. L + (1 + z + LenField) = K * HashBlock
      <4> HIDE DEF L, r, k
      <4> QED BY <1>1, <1>2, <2>1
    <3>2. z \in Nat /\ K \in Nat /\ w % HashBlock = z
      BY <2>1, <2>2, <2>9
    <3> HIDE DEF z, K
    <3>3. Hash(d) = Out([h |-> BlocksOf(d \o EndOf(z, L), K)])
      BY <3>1, <3>2, HashIs
    <3> QED BY <3>3 DEF z, K
  <2>12. b \o Zeros(HashBlock - Len(b)) = block
    <3>1. (old \o Mark) \o Zeros(z1) = old \o (Mark \o Zeros(z1))
      <4> DEFINE x == Zeros(z1)
      <4>1. IsSeq(x)
        BY <2>3
      <4> HIDE DEF x
      <4>2. (old \o Mark) \o x = old \o (Mark \o x)
        BY ONLY <1>3, <1>4, <4>1, JoinTwice
      <4> QED BY <4>2 DEF x
    <3>2. HashBlock - Len(b) = z1
      BY <1>5 DEF z1
    <3> QED BY <3>1, <3>2 DEF e1, block
  <2>13. Readies([len |-> L, buf |-> b, h |-> H]) = [len |-> L, buf |-> << >>, h |-> Append(H, block)]
    <3> DEFINE s == [len |-> L, buf |-> b, h |-> H]
    <3>1. s.buf = b
      OBVIOUS
    <3>2. Len(b) > HashBlock - LenField
      <4> HIDE DEF r, b
      <4> QED BY <1>1, <1>2, <1>5, <1>9
    <3> DEFINE g == Append(H, block)
    <3> HIDE DEF b, L
    <3>3. Compress(s, block) = [len |-> L, buf |-> b, h |-> g]
      BY CompressIs
    <3> HIDE DEF s, g
    <3>4. Readies(s) = [Compress(s, block) EXCEPT !.buf = << >>]
      BY <2>12, <3>1, <3>2 DEF Readies
    <3>5. Readies(s) = [len |-> L, buf |-> << >>, h |-> g]
      BY <3>3, <3>4, BufferIs
    <3> QED BY <3>5 DEF s, g
  <2>14. EndBlock(<< >>, L) = e2
    <3>1. HashBlock - LenField - Len(<< >>) = z2
      BY <1>2, EmptyIsSeq DEF z2
    <3>2. << >> \o Zeros(z2) = Zeros(z2)
      BY <2>3, JoinEmpty
    <3> QED BY <3>1, <3>2 DEF e2, EndBlock, lb
  <2>15. HashEnds([len |-> L, buf |-> << >>, h |-> Append(H, block)], L) = Out([h |-> Append(Append(H, block), e2)])
    <3> DEFINE g == Append(H, block)
    <3> HIDE DEF g, L
    <3>1. HashEnds([len |-> L, buf |-> << >>, h |-> g], L) = Out([h |-> Append(g, e2)])
      BY ONLY <2>14, EndsIs
    <3> QED BY <3>1 DEF g
  <2>16. ShaFinal(Sha(d)) = HashEnds([len |-> L, buf |-> << >>, h |-> Append(H, block)], L)
    <3> HIDE DEF b, L
    <3> QED BY <1>6, <1>7, <2>13, FinalSteps
  <2> HIDE DEF k, L
  <2> QED BY <2>9, <2>10, <2>11, <2>15, <2>16
<1>10. r + 1 <= HashBlock - LenField \/ r + 1 > HashBlock - LenField
  <2> HIDE DEF r
  <2> QED BY <1>1, <1>2
<1> QED BY <1>8, <1>9, <1>10

LEMMA MessageIs ==
  ASSUME NEW n \in Nat
  PROVE  IsSeq(Message(n)) /\ Len(Message(n)) = n
PROOF
<1> DEFINE z == [i \in 1 .. n |-> << "byte", i >>]
<1>1. z = [i \in 1 .. n |-> z[i]]
  OBVIOUS
<1> HIDE DEF z
<1>2. IsSeq(z) /\ Len(z) = n
  BY <1>1, SeqIs
<1>3. z = Message(n)
  BY DEF z, Message
<1> QED BY <1>2, <1>3

\* g gives the states after the updates with the pieces of a cut of m.
FeedsAll(m, cut, g) ==
  /\ g = [k \in 0 .. Len(cut) |-> g[k]] /\ g[0] = [s |-> ShaInit, at |-> 0]
  /\ \A k \in 1 .. Len(cut) :
       g[k] = [s  |-> ShaUpdate(g[k - 1].s, SubSeq(m, g[k - 1].at + 1, g[k - 1].at + cut[k])),
               at |-> g[k - 1].at + cut[k]]

LEMMA FedIs ==
  ASSUME NEW cut \in Seq(Nat), NEW m, NEW g, FeedsAll(m, cut, g)
  PROVE  Fed(m, cut) = g[Len(cut)].s
PROOF
<1> DEFINE n == Len(cut)
           F(f, k) == [s  |-> ShaUpdate(f[k - 1].s, SubSeq(m, f[k - 1].at + 1, f[k - 1].at + cut[k])),
                       at |-> f[k - 1].at + cut[k]]
           start == [s |-> ShaInit, at |-> 0]
           after == CHOOSE f : f = [k \in 0 .. n |-> IF k = 0 THEN start ELSE F(f, k)]
<1>1. Fed(m, cut) = after[n].s
  BY DEF Fed
<1>2. n \in Nat
  BY LenProperties
<1>3. g = [k \in 0 .. n |-> g[k]] /\ g[0] = start /\ \A k \in 1 .. n : g[k] = F(g, k)
  BY DEF FeedsAll
<1> HIDE DEF n, start
<1>4. g = [k \in 0 .. n |-> IF k = 0 THEN start ELSE F(g, k)]
  <2> HIDE DEF F
  <2>1. ASSUME NEW k \in 0 .. n PROVE g[k] = IF k = 0 THEN start ELSE F(g, k)
    <3>1. k # 0 => k \in 1 .. n
      BY <1>2
    <3> QED BY <1>3, <3>1
  <2> QED BY <1>3, <2>1
<1>5. after = [k \in 0 .. n |-> IF k = 0 THEN start ELSE F(after, k)]
  <2> HIDE DEF F
  <2> QED BY <1>4
<1> HIDE DEF after
<1> DEFINE P == { k \in Nat : k <= n => after[k] = g[k] }
<1>6. 0 \in P
  <2>1. 0 \in 0 .. n
    BY <1>2
  <2> HIDE DEF F
  <2> QED BY <1>3, <1>5, <2>1
<1>7. \A k \in P : k < n => k + 1 \in P
  <2> SUFFICES ASSUME NEW k \in P, k < n PROVE after[k + 1] = g[k + 1]
    OBVIOUS
  <2>1. k + 1 \in 0 .. n /\ k + 1 # 0 /\ (k + 1) - 1 = k /\ k + 1 \in 1 .. n /\ k <= n
    BY <1>2
  <2>2. after[k] = g[k]
    BY <2>1
  <2> HIDE DEF P
  <2>3. F(after, k + 1) = F(g, k + 1)
    BY <2>1, <2>2
  <2> HIDE DEF F
  <2>4. after[k + 1] = F(after, k + 1)
    BY <1>5, <2>1
  <2>5. g[k + 1] = F(g, k + 1)
    BY <1>3, <2>1
  <2> QED BY <2>3, <2>4, <2>5
<1>8. n \in P
  <2> HIDE DEF P, F
  <2>1. P \in SUBSET Nat
    BY DEF P
  <2>2. \A k \in 0 .. n : k \in P
    BY <1>2, <1>6, <1>7, <2>1, InductionUpTo
  <2> QED BY <1>2, <2>2
<1>9. after[n] = g[n]
  BY <1>2, <1>8
<1> QED BY <1>1, <1>9 DEF n

\* The hash of what comes in pieces is that of the whole.
THEOREM PiecesHashAsWhole == HashIsOfTheWhole
PROOF
<1> SUFFICES ASSUME NEW cut \in Cuts
             PROVE  ShaFinal(Fed(Message(Sum2(cut)), cut)) = Hash(Message(Sum2(cut)))
  BY DEF HashIsOfTheWhole
<1> DEFINE n == Len(cut)
           m == Message(Sum2(cut))
<1>1. cut \in Seq(Nat)
  BY PieceAssumption
<1>2. n \in Nat /\ \A k \in 1 .. n : cut[k] \in Nat
  BY <1>1, LenProperties, ElementOfSeq
<1>3. PICK u \in [0 .. n -> Nat] :
        SumsOf(cut, u) /\ Sum2(cut) = u[n] /\ \A k \in 0 .. n : u[k] <= Sum2(cut)
  BY <1>1, SumIs
<1>4. u[0] = 0 /\ \A k \in 1 .. n : u[k] = u[k - 1] + cut[k]
  BY <1>3 DEF SumsOf
<1> HIDE DEF n
<1>5. Sum2(cut) \in Nat /\ n \in 0 .. n
  BY <1>2, <1>3
<1>6. IsSeq(m) /\ Len(m) = Sum2(cut)
  BY <1>5, MessageIs
<1> HIDE DEF m
<1>7. \A k \in 0 .. n : Within(m, 0, u[k]) /\ u[k] \in Nat
  BY <1>3, <1>6 DEF Within
<1> DEFINE g == [k \in 0 .. n |-> [s |-> Sha(Piece(m, 0, u[k])), at |-> u[k]]]
<1>8. ASSUME NEW k \in 1 .. n
      PROVE  g[k] = [s  |-> ShaUpdate(g[k - 1].s, SubSeq(m, g[k - 1].at + 1, g[k - 1].at + cut[k])),
                     at |-> g[k - 1].at + cut[k]]
  <2> DEFINE a == u[k - 1]
             b == u[k]
  <2>1. k - 1 \in 0 .. n /\ k \in 0 .. n
    BY <1>2
  <2>2. b = a + cut[k] /\ a \in Nat /\ b \in Nat /\ cut[k] \in Nat
    BY <1>2, <1>4, <1>7, <2>1
  <2>3. g[k] = [s |-> Sha(Piece(m, 0, b)), at |-> b]
    BY <2>1
  <2>4. g[k - 1].s = Sha(Piece(m, 0, a)) /\ g[k - 1].at = a
    BY <2>1
  <2>5. Within(m, 0, a) /\ Within(m, 0, b)
    BY <1>7, <2>1
  <2> HIDE DEF a, b, g
  <2>6. Within(m, a, b)
    BY <2>2, <2>5 DEF Within
  <2>7. IsSeq(Piece(m, 0, a)) /\ IsSeq(Piece(m, a, b))
    BY <2>5, <2>6, PieceIs
  <2>8. ShaUpdate(Sha(Piece(m, 0, a)), Piece(m, a, b)) = Sha(Piece(m, 0, a) \o Piece(m, a, b))
    BY ONLY <2>7, UpdateGoesOn
  <2>9. Piece(m, 0, a) \o Piece(m, a, b) = Piece(m, 0, b)
    BY ONLY <2>5, <2>6, PiecesJoin
  <2>10. SubSeq(m, g[k - 1].at + 1, g[k - 1].at + cut[k]) = Piece(m, a, b)
    BY <2>2, <2>4 DEF Piece
  <2> QED BY <2>2, <2>3, <2>4, <2>8, <2>9, <2>10
<1>9. g[0] = [s |-> ShaInit, at |-> 0]
  <2>1. 0 \in 0 .. n /\ Within(m, 0, 0)
    BY <1>2, <1>4, <1>7
  <2>2. Piece(m, 0, 0) = << >>
    BY <2>1, NoPiece
  <2>3. g[0] = [s |-> Sha(Piece(m, 0, u[0])), at |-> u[0]]
    BY <2>1
  <2> QED BY <1>4, <2>2, <2>3, ShaOfNothing
<1>10. g[n].s = Sha(m)
  <2>1. g[n].s = Sha(Piece(m, 0, u[n]))
    BY <1>5
  <2>2. Piece(m, 0, u[n]) = m
    BY <1>3, <1>6, WholePiece
  <2> QED BY <2>1, <2>2
<1>11. FeedsAll(m, cut, g)
  <2>1. g = [k \in 0 .. n |-> g[k]]
    OBVIOUS
  <2> HIDE DEF g
  <2> QED BY <1>8, <1>9, <2>1 DEF FeedsAll, n
<1> HIDE DEF g
<1>12. Fed(m, cut) = g[n].s
  BY <1>1, <1>11, FedIs DEF n
<1>13. ShaFinal(Sha(m)) = Hash(m)
  BY <1>6, FinalIs
<1> QED BY <1>10, <1>12, <1>13 DEF m

-----------------------------------------------------------------------------
(* The key *)

LEMMA PadIs ==
  ASSUME NEW kind, NEW key
  PROVE  IsSeq(Pad(kind, key)) /\ Len(Pad(kind, key)) = HashBlock
PROOF
<1> DEFINE z == [i \in 1 .. HashBlock |-> << kind, IF i <= Len(key) THEN key[i] ELSE << "zero" >> >>]
<1>1. z = [i \in 1 .. HashBlock |-> z[i]]
  OBVIOUS
<1> HIDE DEF z
<1>2. IsSeq(z) /\ Len(z) = HashBlock
  BY <1>1, SeqIs, LengthsAreNat
<1>3. z = Pad(kind, key)
  BY DEF z, Pad
<1> QED BY <1>2, <1>3

LEMMA FirstUpdate ==
  ASSUME NEW d, IsSeq(d)
  PROVE  ShaUpdate(ShaInit, d) = Sha(d)
PROOF
<1>1. ShaUpdate(Sha(<< >>), d) = Sha(<< >> \o d)
  BY EmptyIsSeq, UpdateGoesOn
<1> QED BY <1>1, ShaOfNothing, JoinEmpty

LEMMA FinalIsSeq ==
  ASSUME NEW s
  PROVE  IsSeq(ShaFinal(s)) /\ Len(ShaFinal(s)) = Digest
BY FinalSteps, OutIs DEF HashEnds

\* The key that is padded.
KeyOf(password) == IF Len(password) > HashBlock THEN Hash(password) ELSE password

LEMMA SeedIs ==
  ASSUME NEW password, IsSeq(password)
  PROVE  HmacInit(password) = [inner |-> Sha(Pad("ipad", KeyOf(password))),
                               outer |-> Sha(Pad("opad", KeyOf(password)))]
PROOF
<1> DEFINE key == IF Len(password) > HashBlock THEN ShaFinal(ShaUpdate(ShaInit, password)) ELSE password
<1>1. HmacInit(password) = [inner |-> ShaUpdate(ShaInit, Pad("ipad", key)),
                            outer |-> ShaUpdate(ShaInit, Pad("opad", key))]
  BY DEF HmacInit
<1>2. key = KeyOf(password)
  BY FirstUpdate, FinalIs DEF KeyOf
<1> HIDE DEF key
<1>3. IsSeq(Pad("ipad", key)) /\ IsSeq(Pad("opad", key))
  BY PadIs
<1>4. ShaUpdate(ShaInit, Pad("ipad", key)) = Sha(Pad("ipad", key))
      /\ ShaUpdate(ShaInit, Pad("opad", key)) = Sha(Pad("opad", key))
  BY <1>3, FirstUpdate
<1> QED BY <1>1, <1>2, <1>4

\* The outer hash, of the inner one's digest.
LEMMA HmacIs ==
  ASSUME NEW d, NEW e, IsSeq(d), IsSeq(e)
  PROVE  HmacFinal([inner |-> Sha(d), outer |-> Sha(e)]) = Hash(e \o Hash(d))
PROOF
<1> DEFINE h == [inner |-> Sha(d), outer |-> Sha(e)]
           x == ShaFinal(h.inner)
<1>1. h.inner = Sha(d) /\ h.outer = Sha(e)
  OBVIOUS
<1> HIDE DEF h
<1>2. x = Hash(d) /\ IsSeq(x)
  BY <1>1, FinalIs, FinalIsSeq
<1>3. HmacFinal(h) = ShaFinal(ShaUpdate(Sha(e), x))
  BY <1>1 DEF HmacFinal
<1> HIDE DEF x
<1>4. ShaUpdate(Sha(e), x) = Sha(e \o x)
  BY <1>2, UpdateGoesOn
<1>5. IsSeq(e \o x)
  BY <1>2, JoinIs DEF Join
<1>6. HmacFinal(h) = Hash(e \o x)
  BY <1>3, <1>4, <1>5, FinalIs
<1> QED BY <1>2, <1>6 DEF h

\* The end of a digest behind a block.
EndDigest(u) ==
  u \o << << "mark" >> >> \o Zeros(HashBlock - Digest - 1 - LenField) \o LengthBytes(HashBlock + Digest)

LEMMA DigestBlock ==
  ASSUME NEW p, NEW u, IsSeq(p), IsSeq(u), Len(p) = HashBlock, Len(u) = Digest
  PROVE  Out(Compress(Sha(p), EndDigest(u))) = Hash(p \o u)
PROOF
<1> DEFINE d == p \o u
           r == Digest
           z == HashBlock - Digest - 1 - LenField
           n == HashBlock + Digest
           e == EndOf(z, n)
<1>1. /\ HashBlock \in Nat \ {0} /\ LenField \in Nat \ {0} /\ Digest \in Nat \ {0}
      /\ Digest + 1 + LenField <= HashBlock
  BY LengthsAreNat
<1>2. /\ z \in Nat /\ z \in 0 .. HashBlock - 1 /\ n \in Nat /\ n = 1 * HashBlock + Digest
      /\ Digest \in 0 .. HashBlock - 1 /\ n + (1 + z + LenField) = 2 * HashBlock
      /\ 2 * HashBlock - LenField - 1 - Digest = 1 * HashBlock + z
      /\ HashBlock = 1 * HashBlock + 0 /\ 0 \in 0 .. HashBlock - 1 /\ 1 \in Nat /\ 2 \in Nat
  BY <1>1
<1>3. IsSeq(d) /\ Len(d) = n
  <2>1. Join(p, u, d)
    BY JoinIs
  <2> HIDE DEF d
  <2> QED BY <2>1 DEF Join
<1> HIDE DEF z, n, d
<1>4. WholeBlocks(d) = 1 /\ Len(d) % HashBlock = Digest
  BY <1>2, <1>3, WholeAre
<1>5. WholeBlocks(p) = 1
  BY <1>2, WholeAre
<1>6. IsSeq(e) /\ Len(e) = 1 + z + LenField
  BY <1>2, EndIs
<1>7. Hash(d) = Out([h |-> BlocksOf(d \o e, 2)])
  <2>1. (2 * HashBlock - LenField - 1 - (Len(d) % HashBlock)) % HashBlock = z
    <3> DEFINE w == 2 * HashBlock - LenField - 1 - Digest
    <3>1. w = 1 * HashBlock + z
      BY <1>2
    <3> HIDE DEF w
    <3>2. w % HashBlock = z
      BY <1>1, <1>2, <3>1, DivIs
    <3> QED BY <1>4, <3>2 DEF w
  <2>2. Len(d) + (1 + z + LenField) = 2 * HashBlock
    BY <1>2, <1>3
  <2> QED BY <1>2, <1>3, <2>1, <2>2, HashIs
<1>8. BlocksOf(d \o e, 1 + 1) = Append(BlocksOf(d, 1), Sha(d).buf \o e)
  <2>1. Len(d) + Len(e) = (WholeBlocks(d) + 1) * HashBlock
    BY <1>1, <1>2, <1>3, <1>4, <1>6
  <2> HIDE DEF e
  <2>2. BlocksOf(d \o e, WholeBlocks(d) + 1) = Append(BlocksOf(d, WholeBlocks(d)), Sha(d).buf \o e)
    BY <1>3, <1>6, <2>1, FilledIs
  <2> QED BY <1>4, <2>2
<1>9. Sha(d).buf = u
  <2>1. Sha(d).buf = Piece(d, 1 * HashBlock, n)
    BY <1>3, <1>4 DEF Sha
  <2>2. Within(u, 0, Digest)
    BY <1>1 DEF Within
  <2>3. Piece(p \o u, Len(p) + 0, Len(p) + Digest) = Piece(u, 0, Digest)
    BY <2>2, PieceOfSecond
  <2>4. Piece(u, 0, Digest) = u
    BY WholePiece
  <2>5. Len(p) + 0 = 1 * HashBlock /\ Len(p) + Digest = n
    BY <1>1 DEF n
  <2> QED BY <2>1, <2>3, <2>4, <2>5 DEF d
<1>10. BlocksOf(d, 1) = Sha(p).h
  <2>1. HasBlocks(p, 1)
    BY <1>5, WholeIs
  <2>2. BlocksOf(d, 1) = BlocksOf(p, 1)
    BY <2>1, BlocksSame DEF d
  <2> QED BY <1>5, <2>2 DEF Sha
<1>11. u \o e = EndDigest(u)
  <2> DEFINE x == Zeros(z)
             y == LengthBytes(n)
  <2>1. IsSeq(x) /\ IsSeq(y) /\ IsSeq(Mark)
    BY <1>2, ZerosAre, LengthBytesAre, OneIsSeq DEF Mark
  <2>2. EndDigest(u) = ((u \o Mark) \o x) \o y /\ e = (Mark \o x) \o y
    BY DEF EndDigest, Mark, EndOf, z, n
  <2> HIDE DEF x, y, e
  <2>3. IsSeq(Mark \o x)
    BY <2>1, JoinIs DEF Join
  <2>4. (u \o Mark) \o x = u \o (Mark \o x)
    BY ONLY IsSeq(u), <2>1, JoinTwice
  <2>5. (u \o (Mark \o x)) \o y = u \o ((Mark \o x) \o y)
    <3> DEFINE t == Mark \o x
    <3>1. IsSeq(t)
      BY <2>3
    <3> HIDE DEF t
    <3>2. (u \o t) \o y = u \o (t \o y)
      BY ONLY IsSeq(u), <2>1, <3>1, JoinTwice
    <3> QED BY <3>2 DEF t
  <2> QED BY <2>2, <2>4, <2>5
<1>12. Compress(Sha(p), EndDigest(u)).h = Append(Sha(p).h, EndDigest(u))
  <2> DEFINE b == EndDigest(u)
  <2> HIDE DEF b
  <2>1. Compress([len |-> Len(p), buf |-> Piece(p, WholeBlocks(p) * HashBlock, Len(p)), h |-> BlocksOf(p, WholeBlocks(p))], b)
          = [len |-> Len(p), buf |-> Piece(p, WholeBlocks(p) * HashBlock, Len(p)), h |-> Append(BlocksOf(p, WholeBlocks(p)), b)]
    BY CompressIs
  <2> QED BY <2>1 DEF Sha, b
<1> HIDE DEF e
<1>13. BlocksOf(d \o e, 2) = Append(Sha(p).h, EndDigest(u))
  <2>1. 1 + 1 = 2
    OBVIOUS
  <2> QED BY <1>8, <1>9, <1>10, <1>11, <2>1
<1> DEFINE c == Compress(Sha(p), EndDigest(u))
           g == BlocksOf(d \o e, 2)
<1>14. c.h = [h |-> g].h
  <2>1. [h |-> g].h = g
    OBVIOUS
  <2> QED BY <1>12, <1>13, <2>1
<1> HIDE DEF c, g
<1>15. Out(c) = Out([h |-> g])
  BY <1>14, OutSame
<1> QED BY <1>7, <1>15 DEF c, g, d

\* A digest needs only one more block.
LEMMA Digest20Is ==
  ASSUME NEW p, NEW q, NEW u, IsSeq(p), IsSeq(q), IsSeq(u),
         Len(p) = HashBlock, Len(q) = HashBlock, Len(u) = Digest
  PROVE  Digest20([inner |-> Sha(p), outer |-> Sha(q)], u) = Hash(q \o Hash(p \o u))
PROOF
<1> DEFINE s == [inner |-> Sha(p), outer |-> Sha(q)]
           x == Out(Compress(s.inner, EndDigest(u)))
<1>1. s.inner = Sha(p) /\ s.outer = Sha(q)
  OBVIOUS
<1> HIDE DEF s
<1>2. Digest20(s, u) = Out(Compress(s.outer, EndDigest(x)))
  BY DEF Digest20, EndDigest
<1>3. x = Hash(p \o u) /\ IsSeq(x) /\ Len(x) = Digest
  BY <1>1, DigestBlock, OutIs
<1> HIDE DEF x
<1>4. Out(Compress(Sha(q), EndDigest(x))) = Hash(q \o x)
  BY <1>3, DigestBlock
<1> QED BY <1>1, <1>2, <1>3, <1>4 DEF s

LEMMA HmacParts ==
  ASSUME NEW password, NEW data
  PROVE  Hmac(password, data) = Hash(Pad("opad", KeyOf(password)) \o Hash(Pad("ipad", KeyOf(password)) \o data))
BY DEF Hmac, KeyOf

LEMMA FirstIs ==
  ASSUME NEW password, NEW salt, NEW block, IsSeq(password), IsSeq(salt)
  PROVE  First(HmacInit(password), salt, block) = Hmac(password, salt \o << << "counter", block >> >>)
PROOF
<1> DEFINE p == Pad("ipad", KeyOf(password))
           q == Pad("opad", KeyOf(password))
           c == << << "counter", block >> >>
           s == [inner |-> Sha(p), outer |-> Sha(q)]
           t == ShaUpdate(ShaUpdate(s.inner, salt), c)
           d == p \o (salt \o c)
<1>1. IsSeq(p) /\ IsSeq(q) /\ IsSeq(c)
  BY PadIs, OneIsSeq
<1>2. HmacInit(password) = s
  BY SeedIs
<1>3. s.inner = Sha(p) /\ s.outer = Sha(q)
  OBVIOUS
<1>4. Hmac(password, salt \o c) = Hash(q \o Hash(d))
  BY HmacParts
<1>5. First(s, salt, block) = HmacFinal([s EXCEPT !.inner = t])
  BY DEF First
<1> HIDE DEF p, q, c
<1>6. [s EXCEPT !.inner = t] = [inner |-> t, outer |-> Sha(q)]
  <2> HIDE DEF t
  <2> QED OBVIOUS
<1> HIDE DEF s
<1>7. t = Sha(d)
  <2>1. ShaUpdate(Sha(p), salt) = Sha(p \o salt) /\ IsSeq(p \o salt)
    BY <1>1, UpdateGoesOn, JoinIs DEF Join
  <2>2. ShaUpdate(Sha(p \o salt), c) = Sha((p \o salt) \o c)
    <3> DEFINE x == p \o salt
    <3>1. IsSeq(x)
      BY <2>1
    <3> HIDE DEF x
    <3>2. ShaUpdate(Sha(x), c) = Sha(x \o c)
      BY <1>1, <3>1, UpdateGoesOn
    <3> QED BY <3>2 DEF x
  <2>3. (p \o salt) \o c = p \o (salt \o c)
    BY ONLY <1>1, IsSeq(salt), JoinTwice
  <2> QED BY <1>3, <2>1, <2>2, <2>3
<1>8. IsSeq(d)
  <2>1. IsSeq(salt \o c)
    BY <1>1, JoinIs DEF Join
  <2> DEFINE x == salt \o c
  <2>2. IsSeq(x)
    BY <2>1
  <2> HIDE DEF x
  <2>3. IsSeq(p \o x)
    BY <1>1, <2>2, JoinIs DEF Join
  <2> QED BY <2>3 DEF x
<1> HIDE DEF t, d
<1>9. HmacFinal([inner |-> Sha(d), outer |-> Sha(q)]) = Hash(q \o Hash(d))
  BY <1>1, <1>8, HmacIs
<1> QED BY <1>2, <1>4, <1>5, <1>6, <1>7, <1>9 DEF c

\* us gives the values of the turns.
TurnsOf(seed, salt, turns, block, us) ==
  us = [i \in 1 .. turns |-> IF i = 1 THEN First(seed, salt, block) ELSE Digest20(seed, us[i - 1])]

LEMMA TurnsExist ==
  ASSUME NEW seed, NEW salt, NEW turns \in Nat, NEW block
  PROVE  \E us : TurnsOf(seed, salt, turns, block, us)
PROOF
<1> DEFINE F(g, i) == IF i = 1 THEN First(seed, salt, block) ELSE Digest20(seed, g[i - 1])
           P == { n \in Nat : \E us : TurnsOf(seed, salt, n, block, us) }
<1>1. 0 \in P
  <2> DEFINE g == [i \in 1 .. 0 |-> i]
  <2>1. g = [i \in 1 .. 0 |-> F(g, i)]
    OBVIOUS
  <2>2. TurnsOf(seed, salt, 0, block, g)
    BY <2>1 DEF TurnsOf
  <2> QED BY <2>2
<1>2. ASSUME NEW n \in P PROVE n + 1 \in P
  <2>1. PICK g : TurnsOf(seed, salt, n, block, g)
    OBVIOUS
  <2>2. n \in Nat
    OBVIOUS
  <2> HIDE DEF P
  <2> DEFINE x == F(g, n + 1)
             h == [i \in 1 .. n + 1 |-> IF i = n + 1 THEN x ELSE g[i]]
  <2>3. g = [i \in 1 .. n |-> F(g, i)]
    BY <2>1 DEF TurnsOf
  <2>4. ASSUME NEW i \in 1 .. n + 1 PROVE h[i] = F(h, i)
    <3>1. i # 1 => h[i - 1] = g[i - 1]
      <4> HIDE DEF x
      <4>1. i # 1 => i - 1 \in 1 .. n + 1 /\ i - 1 # n + 1
        BY <2>2
      <4> QED BY <4>1
    <3>2. F(h, i) = F(g, i)
      <4> HIDE DEF h
      <4> QED BY <3>1
    <3>3. h[i] = F(g, i)
      <4> HIDE DEF F
      <4>1. CASE i = n + 1
        BY <4>1
      <4>2. CASE i # n + 1
        <5>1. i \in 1 .. n
          BY <2>2, <4>2
        <5>2. g[i] = F(g, i)
          BY <2>3, <5>1
        <5> QED BY <4>2, <5>2
      <4> QED BY <4>1, <4>2
    <3> HIDE DEF F, h
    <3> QED BY <3>2, <3>3
  <2>5. h = [i \in 1 .. n + 1 |-> F(h, i)]
    <3>1. h = [i \in 1 .. n + 1 |-> h[i]]
      OBVIOUS
    <3> HIDE DEF h, F
    <3> QED BY <2>4, <3>1
  <2>6. TurnsOf(seed, salt, n + 1, block, h)
    <3> HIDE DEF h
    <3> QED BY <2>5 DEF TurnsOf
  <2> HIDE DEF h
  <2> QED BY <2>2, <2>6 DEF P
<1>3. turns \in P
  <2> HIDE DEF P
  <2>1. P \in SUBSET Nat
    BY DEF P
  <2>2. P = Nat
    BY <1>1, <1>2, <2>1, Induction
  <2> QED BY <2>2
<1> QED BY <1>3

\* The key is derived as RFC 2898 has it, whatever the short cuts.
THEOREM DerivedAsMeant == KeyIsDerived
PROOF
<1> SUFFICES ASSUME NEW password \in Passwords, NEW salt \in Passwords, NEW turns \in Turns, NEW block \in 1 .. 2
             PROVE  LET us == Derived(password, salt, turns, block)
                    IN /\ Len(us) = turns
                       /\ us[1] = Hmac(password, salt \o << << "counter", block >> >>)
                       /\ \A i \in 2 .. turns : us[i] = Hmac(password, us[i - 1])
  BY DEF KeyIsDerived
<1> DEFINE seed == HmacInit(password)
           us == Derived(password, salt, turns, block)
           p == Pad("ipad", KeyOf(password))
           q == Pad("opad", KeyOf(password))
<1>1. turns \in Nat \ {0} /\ IsSeq(password) /\ IsSeq(salt)
  BY PieceAssumption DEF IsSeq
<1>2. us = CHOOSE g : g = [i \in 1 .. turns |->
                             IF i = 1 THEN First(seed, salt, block) ELSE Digest20(seed, g[i - 1])]
  BY DEF Derived
<1>3. us = [i \in 1 .. turns |-> IF i = 1 THEN First(seed, salt, block) ELSE Digest20(seed, us[i - 1])]
  <2> HIDE DEF seed, us
  <2>1. PICK g : TurnsOf(seed, salt, turns, block, g)
    BY <1>1, TurnsExist
  <2> QED BY <1>2, <2>1 DEF TurnsOf
<1> HIDE DEF us
<1>4. seed = [inner |-> Sha(p), outer |-> Sha(q)] /\ IsSeq(p) /\ IsSeq(q) /\ Len(p) = HashBlock /\ Len(q) = HashBlock
  BY <1>1, SeedIs, PadIs
<1>5. First(seed, salt, block) = Hmac(password, salt \o << << "counter", block >> >>)
  BY <1>1, FirstIs
<1> HIDE DEF p, q, seed
<1>6. Len(us) = turns
  <2>1. us = [i \in 1 .. turns |-> us[i]]
    BY <1>3
  <2> QED BY <1>1, <2>1, SeqIs
<1>7. us[1] = Hmac(password, salt \o << << "counter", block >> >>)
  <2>1. 1 \in 1 .. turns
    BY <1>1
  <2>2. us[1] = First(seed, salt, block)
    BY <1>3, <2>1
  <2> QED BY <1>5, <2>2
<1>8. ASSUME NEW i \in 1 .. turns PROVE IsSeq(us[i]) /\ Len(us[i]) = Digest
  <2>1. CASE i = 1
    <3>1. us[i] = First(seed, salt, block)
      BY <1>3, <2>1
    <3> QED BY <3>1, FinalIsSeq DEF First, HmacFinal
  <2>2. CASE i # 1
    <3>1. us[i] = Digest20(seed, us[i - 1])
      BY <1>3, <2>2
    <3> QED BY <3>1, OutIs DEF Digest20
  <2> QED BY <2>1, <2>2
<1>9. ASSUME NEW i \in 2 .. turns PROVE us[i] = Hmac(password, us[i - 1])
  <2> DEFINE u == us[i - 1]
  <2>1. i \in 1 .. turns /\ i - 1 \in 1 .. turns /\ i # 1
    BY <1>1
  <2>2. IsSeq(u) /\ Len(u) = Digest
    BY <1>8, <2>1
  <2>3. us[i] = Digest20(seed, u)
    BY <1>3, <2>1
  <2> HIDE DEF u
  <2>4. Digest20([inner |-> Sha(p), outer |-> Sha(q)], u) = Hash(q \o Hash(p \o u))
    BY <1>4, <2>2, Digest20Is
  <2>5. Hmac(password, u) = Hash(q \o Hash(p \o u))
    BY HmacParts DEF p, q
  <2> QED BY <1>4, <2>3, <2>4, <2>5 DEF u
<1> QED BY <1>6, <1>7, <1>9 DEF us

\* What the cipher does to a payload that comes in pieces makes it whole, in pieces
\* of any length and for every password.
THEOREM PiecesAlwaysMakeWhole == Spec => []PiecesMakeWhole
PROOF
<1>1. PiecesMakeWhole
  BY StreamGoesOn, PiecesHashAsWhole, DerivedAsMeant DEF PiecesMakeWhole
<1> QED BY <1>1, PTL
=============================================================================

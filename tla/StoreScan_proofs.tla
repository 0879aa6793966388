--------------------------- MODULE StoreScan_proofs ---------------------------
(***************************************************************************)
(* What StoreScan promises, for data of any length, any row of reads and   *)
(* any growth of the archive between calls.                                *)
(***************************************************************************)
EXTENDS StoreScan, TLAPS

\* What is behind a descriptor that can be recognized.
Enough == len + DescLen + SigLen

\* The scan has not gone past the end of the data unseen: what was written of
\* an unsigned entry is data, and so is what was written by a call that began
\* within the data and has all it needs to see the end.  A call that is misled
\* may be anywhere.
NotPast ==
  pc = "scan" /\ ~Misled =>
    /\ ~signed => base <= len
    /\ began <= len /\ visible >= Enough => base <= len

\* When the end was found, the part holds the data.
FoundIsData == pc = "rename" => part[resume] = len /\ ~Misled

\* A call that found nothing did not have all it needs, if it began within the
\* data and was not misled.
NothingMissed ==
  ret = "EINCOMPLETE" /\ pc = "idle" /\ began <= len /\ ~Misled => visible < Enough

IInv == TypeOK /\ NotPast /\ FoundIsData /\ DestExact /\ PartIsData /\ NothingMissed

-----------------------------------------------------------------------------

\* A descriptor is there, in the buffer and in the file, but was not
\* recognized: that cannot be, so the buffer ends before one could be seen.
LEMMA EndUnseen ==
  ASSUME TypeOK, pc = "scan", at < visible, \A a \in Seen(ReadTo) : ~Matches(a),
         visible >= Enough, base <= len, ~Misled
  PROVE  ReadTo < len + (IF signed THEN SigLen ELSE DescLen + SigLen)
<1> USE ScanAssumption
<1>1. len \in Nat /\ base \in Nat /\ visible \in Nat /\ at \in Nat /\ ReadTo \in Nat
  BY DEF TypeOK, ReadTo, DescLen, Total, SigLen
<1>2. Matches(len)
  BY <1>1 DEF Matches, Enough, DescLen, SigLen
<1>3. len \notin Seen(ReadTo)
  BY <1>2
<1>4. QED
  BY <1>1, <1>3 DEF Seen, DescLen, SigLen

\* What is kept of the buffer is enough: what is written of it is data.
LEMMA KeepsDescriptor ==
  ASSUME TypeOK, NotPast, ReadOn, ~Misled
  PROVE  /\ ~signed => base' <= len
         /\ began <= len /\ visible >= Enough => base' <= len
<1> USE ScanAssumption
<1>1. /\ len \in Nat /\ base \in Nat /\ visible \in Nat /\ at \in Nat
      /\ at < visible /\ at = base + held /\ held \in 0 .. Tail
      /\ \A a \in Seen(ReadTo) : ~Matches(a)
      /\ pc = "scan"
  BY DEF ReadOn, TypeOK, DescLen, Total, SigLen
<1>2. /\ ReadTo \in Nat /\ at <= ReadTo /\ ReadTo <= visible
  BY <1>1 DEF ReadTo
<1>3. base' = IF ReadTo - base > Tail THEN ReadTo - Tail ELSE base
  BY <1>1, <1>2 DEF ReadOn, Keep, Tail
<1>4. ASSUME base <= len, ~signed PROVE base' <= len
  <2>1. CASE visible >= Enough
    <3>1. ReadTo < len + (IF signed THEN SigLen ELSE DescLen + SigLen)
      BY <1>1, <1>4, <2>1, EndUnseen
    <3>2. QED
      BY <1>1, <1>2, <1>3, <1>4, <3>1 DEF DescLen, SigLen, Tail
  <2>2. CASE ~(visible >= Enough)
    BY <1>1, <1>2, <1>3, <1>4, <2>2 DEF Enough, DescLen, SigLen, Tail
  <2>3. QED
    BY <2>1, <2>2
<1>5. ASSUME base <= len, signed, visible >= Enough PROVE base' <= len
  <2>1. ReadTo < len + SigLen
    BY <1>1, <1>5, EndUnseen
  <2>2. QED
    BY <1>1, <1>2, <1>3, <1>5, <2>1 DEF SigLen, Tail
<1>6. QED
  BY <1>1, <1>4, <1>5 DEF NotPast

-----------------------------------------------------------------------------

LEMMA InitIInv == Init => IInv
<1> SUFFICES ASSUME Init PROVE IInv
  OBVIOUS
<1>1. TypeOK
  <2>1. len \in Nat /\ signed \in BOOLEAN /\ Total \in Nat
    BY ScanAssumption DEF Init, Total, DescLen
  <2>2. part \in [BOOLEAN -> {None} \union Nat] /\ pc = "idle" /\ foreign \in BOOLEAN
    BY ScanAssumption DEF Init
  <2>3. /\ len \in Lengths /\ signed \in Signed /\ visible \in 0 .. Total
        /\ resume \in BOOLEAN /\ at = 0 /\ base = 0 /\ held = 0 /\ began = 0
        /\ ret = "none" /\ dest = None
    BY DEF Init
  <2>4. QED
    BY <2>1, <2>2, <2>3 DEF TypeOK, Tail
<1>2. NotPast /\ FoundIsData /\ DestExact /\ NothingMissed
  BY DEF Init, Misled, NotPast, FoundIsData, DestExact, NothingMissed
<1>3. PartIsData
  BY ScanAssumption DEF Init, PartIsData, None
<1>4. QED
  BY <1>1, <1>2, <1>3 DEF IInv

LEMMA NextIInv == IInv /\ [Next]_vars => IInv'
<1> SUFFICES ASSUME IInv, [Next]_vars PROVE IInv'
  OBVIOUS
<1> USE ScanAssumption
<1>t. /\ TypeOK /\ NotPast /\ FoundIsData /\ DestExact /\ PartIsData /\ NothingMissed
      /\ len \in Nat /\ visible \in Nat /\ at \in Nat /\ base \in Nat /\ held \in 0 .. 15
      /\ began \in Nat /\ Total \in Nat /\ signed \in BOOLEAN /\ resume \in BOOLEAN
      /\ part \in [BOOLEAN -> {-1} \union Nat] /\ foreign \in BOOLEAN
      /\ visible <= Total /\ len <= Total
  BY DEF IInv, TypeOK, Total, DescLen, Tail, None
<1>1. CASE Arrive
  <2>1. TypeOK'
    BY <1>t, <1>1 DEF Arrive, TypeOK, Total, DescLen
  <2>2. NotPast' /\ FoundIsData' /\ NothingMissed'
    BY <1>t, <1>1 DEF Arrive, Misled, NotPast, FoundIsData, NothingMissed
  <2>3. DestExact' /\ PartIsData'
    BY <1>t, <1>1 DEF Arrive, DestExact, PartIsData
  <2>4. QED
    BY <2>1, <2>2, <2>3 DEF IInv
<1>2. ASSUME NEW r \in BOOLEAN, Start(r) PROVE IInv'
  <2> DEFINE offset == IF r /\ part[r] # None /\ part[r] <= visible THEN part[r] ELSE 0
  <2>1. /\ offset \in 0 .. Total /\ (~signed /\ ~(r /\ foreign) => offset <= len)
        /\ at' = offset /\ base' = offset /\ began' = offset /\ held' = 0
        /\ part' = [part EXCEPT ![r] = offset] /\ pc' = "scan" /\ resume' = r
        /\ foreign' = (foreign /\ (r => offset > 0))
        /\ UNCHANGED << len, signed, visible, ret, dest >>
    BY <1>t, <1>2 DEF Start, PartIsData, None
  <2> HIDE DEF offset
  <2>2. TypeOK'
    BY <1>t, <2>1 DEF TypeOK, Total, DescLen, Tail, None
  <2>3. NotPast' /\ FoundIsData' /\ NothingMissed' /\ DestExact'
    BY <1>t, <2>1 DEF NotPast, Misled, FoundIsData, NothingMissed, DestExact
  <2>4. PartIsData'
    BY <1>t, <2>1 DEF PartIsData
  <2>5. QED
    BY <2>2, <2>3, <2>4 DEF IInv
<1>3. CASE ReadOn
  <2>1. ~Misled => /\ ~signed => base' <= len
                   /\ began <= len /\ visible >= Enough => base' <= len
    BY <1>t, <1>3, KeepsDescriptor
  <2>2. /\ ReadTo \in Nat /\ at <= ReadTo /\ ReadTo <= visible
        /\ at = base + held /\ pc = "scan"
    BY <1>t, <1>3 DEF ReadOn, ReadTo, TypeOK
  <2>3. /\ held' \in 0 .. 15 /\ base' = ReadTo - held' /\ base' \in 0 .. Total
        /\ at' = ReadTo
        /\ part' = [part EXCEPT ![resume] = base']
    BY <1>t, <1>3, <2>2 DEF ReadOn, Keep, Tail
  <2>4. TypeOK'
    BY <1>t, <1>3, <2>2, <2>3 DEF ReadOn, TypeOK, Total, DescLen, Tail, None
  <2>5. NotPast' /\ FoundIsData' /\ NothingMissed' /\ DestExact'
    BY <1>t, <1>3, <2>1, <2>2
    DEF ReadOn, Misled, NotPast, FoundIsData, NothingMissed, DestExact, Enough, DescLen
  <2>6. PartIsData'
    BY <1>t, <1>3, <2>1, <2>3 DEF ReadOn, Misled, PartIsData
  <2>7. QED
    BY <2>4, <2>5, <2>6 DEF IInv
<1>4. CASE Find
  <2>1. /\ part' = [part EXCEPT ![resume] = len] /\ at' = len + DescLen
        /\ visible >= len + DescLen + SigLen
    BY <1>4 DEF Find, Matches
  <2>2. TypeOK'
    BY <1>t, <1>4, <2>1 DEF Find, TypeOK, Total, DescLen, SigLen, None
  <2>3. NotPast' /\ FoundIsData' /\ NothingMissed' /\ DestExact'
    BY <1>t, <1>4, <2>1 DEF Find, Matches, Misled, NotPast, FoundIsData, NothingMissed, DestExact
  <2>4. PartIsData'
    BY <1>t, <1>4, <2>1 DEF Find, PartIsData
  <2>5. QED
    BY <2>2, <2>3, <2>4 DEF IInv
<1>5. CASE Publish
  <2>1. dest' = len /\ part' = [part EXCEPT ![resume] = -1]
    BY <1>t, <1>5 DEF Publish, FoundIsData, None
  <2>2. TypeOK'
    BY <1>t, <1>5, <2>1 DEF Publish, TypeOK, Total, DescLen, None
  <2>3. NotPast' /\ FoundIsData' /\ NothingMissed' /\ DestExact'
    BY <1>t, <1>5, <2>1 DEF Publish, Misled, NotPast, FoundIsData, NothingMissed, DestExact
  <2>4. PartIsData'
    BY <1>t, <1>5, <2>1 DEF Publish, PartIsData
  <2>5. QED
    BY <2>2, <2>3, <2>4 DEF IInv
<1>6. CASE EndOfFile
  <2>1. \/ part' = part
        \/ part' = [part EXCEPT ![resume] = -1]
    BY <1>6 DEF EndOfFile, None
  <2>2. TypeOK'
    BY <1>t, <1>6, <2>1 DEF EndOfFile, TypeOK, Total, DescLen, None
  <2>3. NotPast' /\ FoundIsData' /\ DestExact'
    BY <1>t, <1>6 DEF EndOfFile, Misled, NotPast, FoundIsData, DestExact
  <2>4. NothingMissed'
    <3>1. at = visible /\ at = base + held /\ pc = "scan"
      BY <1>t, <1>6 DEF EndOfFile, TypeOK
    <3>2. ~(began <= len /\ visible >= Enough /\ ~Misled)
      BY <1>t, <3>1 DEF NotPast, Misled, Enough, DescLen, SigLen
    <3>3. QED
      BY <1>t, <1>6, <3>2 DEF EndOfFile, Misled, NothingMissed, Enough, DescLen, SigLen
  <2>5. PartIsData'
    BY <1>t, <1>6, <2>1 DEF EndOfFile, PartIsData
  <2>6. QED
    BY <2>2, <2>3, <2>4, <2>5 DEF IInv
<1>7. CASE Fail
  <2>1. part' = [part EXCEPT ![resume] = -1]
    BY <1>7 DEF Fail, None
  <2>2. TypeOK'
    BY <1>t, <1>7, <2>1 DEF Fail, TypeOK, Total, DescLen, None
  <2>3. NotPast' /\ FoundIsData' /\ NothingMissed' /\ DestExact'
    BY <1>t, <1>7 DEF Fail, Misled, NotPast, FoundIsData, NothingMissed, DestExact
  <2>4. PartIsData'
    BY <1>t, <1>7, <2>1 DEF Fail, PartIsData
  <2>5. QED
    BY <2>2, <2>3, <2>4 DEF IInv
<1>8. CASE Kill
  <2>1. TypeOK'
    BY <1>t, <1>8 DEF Kill, TypeOK, Total, DescLen
  <2>2. NotPast' /\ FoundIsData' /\ NothingMissed' /\ DestExact' /\ PartIsData'
    BY <1>t, <1>8 DEF Kill, Misled, NotPast, FoundIsData, NothingMissed, DestExact, PartIsData
  <2>3. QED
    BY <2>1, <2>2 DEF IInv
<1>9. CASE UNCHANGED vars
  <2>1. TypeOK'
    BY <1>t, <1>9 DEF vars, TypeOK, Total, DescLen
  <2>2. NotPast' /\ FoundIsData' /\ NothingMissed' /\ DestExact' /\ PartIsData'
    BY <1>t, <1>9
    DEF vars, Misled, NotPast, FoundIsData, NothingMissed, DestExact, PartIsData, Enough, DescLen
  <2>3. QED
    BY <2>1, <2>2 DEF IInv
<1>10. ASSUME NEW r \in BOOLEAN, CannotStart(r) PROVE IInv'
  <2>1. /\ part' = part \/ part' = [part EXCEPT ![r] = -1]
        /\ foreign' = (foreign /\ (r => part'[r] # -1))
        /\ at' = 0 /\ base' = 0 /\ held' = 0 /\ began' = 0 /\ resume' = r /\ ret' = "FAILED"
        /\ pc' = "idle" /\ UNCHANGED << len, signed, visible, dest >>
    BY <1>10 DEF CannotStart, None
  <2>2. TypeOK'
    <3>1. part' \in [BOOLEAN -> {-1} \union Nat] /\ foreign' \in BOOLEAN
      BY <1>t, <2>1
    <3>2. Total' = Total /\ 0 \in 0 .. Total /\ 0 \in 0 .. 15
      BY <1>t, <2>1 DEF Total, DescLen
    <3>3. QED
      BY <1>t, <2>1, <3>1, <3>2 DEF TypeOK, Tail, None
  <2>3. NotPast' /\ FoundIsData' /\ NothingMissed' /\ DestExact'
    BY <1>10 DEF CannotStart, NotPast, FoundIsData, NothingMissed, DestExact, IInv
  <2>4. PartIsData'
    <3>1. ASSUME NEW q \in BOOLEAN PROVE part'[q] = part[q] \/ part'[q] = -1
      BY <1>t, <2>1
    <3>2. ASSUME NEW q \in BOOLEAN, ~(q /\ foreign'), ~signed PROVE part'[q] <= len
      <4>1. (q /\ foreign) => part'[q] = -1
        BY <1>t, <2>1, <3>2
      <4>2. QED
        BY <1>t, <3>1, <3>2, <4>1 DEF PartIsData
    <3>3. QED
      BY <2>1, <3>2 DEF PartIsData
  <2>5. QED
    BY <2>2, <2>3, <2>4 DEF IInv
<1>11. QED
  BY <1>1, <1>2, <1>3, <1>4, <1>5, <1>6, <1>7, <1>8, <1>9, <1>10 DEF Next

\* IInv holds in every state of every behaviour.
THEOREM Invariance == Spec => []IInv
<1>1. QED
  BY InitIInv, NextIInv, PTL DEF Spec

\* The variables keep their types, and what a scan has read is in the part file
\* or held back (the tail of extract_store_data_descriptor).
THEOREM TypeCorrect == Spec => []TypeOK
<1>1. IInv => TypeOK
  BY DEF IInv
<1>2. QED
  BY <1>1, Invariance, PTL

\* Only the data, and all of it, gets to the destination, whatever interrupted
\* the calls before and whatever the data looks like.
THEOREM DestinationIsExact == Spec => []DestExact
<1>1. IInv => DestExact
  BY DEF IInv
<1>2. QED
  BY <1>1, Invariance, PTL

\* No byte of an unsigned descriptor gets into a part file: fifteen bytes held
\* back are enough for it.
THEOREM UnsignedPartIsData == Spec => []PartIsData
<1>1. IInv => PartIsData
  BY DEF IInv
<1>2. QED
  BY <1>1, Invariance, PTL

\* A call that begins within the data finds its end if the descriptor and the
\* signature behind it have arrived, wherever the reads cut them.
THEOREM EndIsFound == Spec => []FoundWhenThere
<1>1. IInv => FoundWhenThere
  BY DEF IInv, NothingMissed, FoundWhenThere, Enough
<1>2. QED
  BY <1>1, Invariance, PTL
=============================================================================

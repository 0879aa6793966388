------------------------------ MODULE StoreScan ------------------------------
(***************************************************************************)
(* A stored entry whose sizes follow its data (src/zip.c,                  *)
(* extract_store_data_descriptor): the end of the data is found by         *)
(* scanning for a descriptor that fits, while the archive may still be     *)
(* arriving.  With ZIPY_EXTRACT_RESUME the bytes that are known to be data *)
(* stay in a part file, and the next call goes on behind them.  Without it *)
(* the part lies beside the destination and no call continues it.          *)
(*                                                                         *)
(* Positions are bytes, counted from the begin of the data.  The part is   *)
(* always a row of archive bytes from there, so its length says what it    *)
(* holds; but the part that a resumed call finds first may be what another *)
(* archive with an entry of that name left there, of any length.           *)
(***************************************************************************)
EXTENDS Integers

CONSTANTS
  Lengths,   \* how long the data may be
  Signed,    \* whether the descriptor may have a signature: a set of BOOLEAN
  NextLen,   \* the bytes behind the descriptor, those of the next record
  Decoys,    \* where the data holds what looks like a descriptor of that length
  Others,    \* the lengths of the parts another archive may have left
  Chunk      \* ZIP_IO_CHUNK

SigLen == 4    \* of any record
Tail   == 15   \* keep_tail

ASSUME ScanAssumption ==
  /\ Lengths \subseteq Nat /\ Signed \subseteq BOOLEAN /\ Decoys \subseteq Nat
  /\ Others \subseteq Nat
  /\ NextLen \in Nat /\ NextLen >= SigLen
  /\ Chunk \in Nat /\ Chunk > Tail

VARIABLES
  len, signed,   \* the entry
  visible,       \* the bytes that have arrived
  resume,        \* ZIPY_EXTRACT_RESUME, of this call
  pc,
  at,            \* the file position
  base, held,    \* base_len, and tail_len bytes read but not written
  ret,           \* the result of the last call, if no more has arrived since
  part,          \* the lengths of the part files, with and without resume; durable
  dest,          \* that of the destination; durable
  foreign,       \* whether part[TRUE] begins with the bytes of another archive
  began          \* history: where this call began

vars == << len, signed, visible, resume, pc, at, base, held, ret, part, dest, foreign, began >>

None    == -1    \* the length of a file that does not exist
DescLen == IF signed THEN 16 ELSE 12
Total   == len + DescLen + NextLen

\* The call goes on with bytes that are not those of its archive.
Misled  == resume /\ foreign

-----------------------------------------------------------------------------
(* What is recognized in the bytes from base to end *)

\* Where a descriptor may begin: a signed one at its signature, an unsigned one
\* twelve bytes before that of the next record.
Seen(end) ==
  { a \in {len} \union { d \in Decoys : d < len } :
      base <= a /\ a + (IF signed THEN SigLen ELSE DescLen + SigLen) <= end }

\* Mutant: the checksum is not compared.
MatchesSizes(a) == visible >= a + DescLen + SigLen

\* match_signed_store_descriptor, match_unsigned_store_descriptor: the whole
\* descriptor and the signature behind it are there, and the checksum of the
\* part and of the data up to it is right.
Matches(a) == a = len /\ ~Misled /\ visible >= a + DescLen + SigLen

\* Mutant: fewer bytes are kept than an unsigned descriptor has.
KeepTooFew(n) == IF n > 11 THEN 11 ELSE n

\* The bytes at the end of what was read that may belong to a descriptor.
Keep(n) == IF n > Tail THEN Tail ELSE n

-----------------------------------------------------------------------------

Arrive ==
  /\ pc = "idle"
  /\ visible < Total
  /\ visible' \in visible + 1 .. Total
  /\ ret' = "none"
  /\ UNCHANGED << len, signed, resume, pc, at, base, held, part, dest, foreign, began >>

\* crc32_file_prefix: a part is continued, unless it is longer than what there
\* is.
Start(r) ==
  /\ pc = "idle"
  /\ resume' = r
  /\ LET offset == IF r /\ part[r] # None /\ part[r] <= visible THEN part[r] ELSE 0
     IN /\ at' = offset /\ base' = offset /\ began' = offset
        /\ part' = [part EXCEPT ![r] = offset]
        /\ foreign' = (foreign /\ (r => offset > 0))
  /\ held' = 0
  /\ pc' = "scan"
  /\ UNCHANGED << len, signed, visible, ret, dest >>

\* The parent, the checksum of the part or the part itself fails: what is there
\* stays, but for a part that is not continued.
CannotStart(r) ==
  /\ pc = "idle"
  /\ resume' = r
  /\ \/ UNCHANGED part
     \/ (r => part[r] > visible) /\ part' = [part EXCEPT ![r] = None]
  /\ foreign' = (foreign /\ (r => part'[r] # None))
  /\ ret' = "FAILED"
  /\ at' = 0 /\ base' = 0 /\ held' = 0 /\ began' = 0
  /\ UNCHANGED << len, signed, visible, pc, dest >>

\* The bytes in the buffer end here after one more read.
ReadTo == IF visible - at > Chunk THEN at + Chunk ELSE visible

\* Mutant: the input is not put back after a descriptor was tried.
ReadOnAfterProbe ==
  /\ pc = "scan" /\ at < visible
  /\ \A a \in Seen(ReadTo) : ~Matches(a)
  /\ held' = Keep(ReadTo - base)
  /\ base' = ReadTo - held'
  /\ part' = [part EXCEPT ![resume] = base']
  /\ at' = IF Seen(ReadTo) = {} THEN ReadTo ELSE visible
  /\ UNCHANGED << len, signed, visible, resume, pc, ret, dest, foreign, began >>

\* Nothing fits: all but the tail is data.
ReadOn ==
  /\ pc = "scan" /\ at < visible
  /\ \A a \in Seen(ReadTo) : ~Matches(a)
  /\ held' = Keep(ReadTo - base)
  /\ base' = ReadTo - held'
  /\ part' = [part EXCEPT ![resume] = base']
  /\ at' = ReadTo
  /\ UNCHANGED << len, signed, visible, resume, pc, ret, dest, foreign, began >>

\* The first one that fits ends the data.
Find ==
  /\ pc = "scan" /\ at < visible
  /\ \E a \in Seen(ReadTo) :
       /\ Matches(a)
       /\ \A b \in Seen(ReadTo) : Matches(b) => a <= b
       /\ part' = [part EXCEPT ![resume] = a]
       /\ at' = a + DescLen
  /\ pc' = "rename"
  /\ UNCHANGED << len, signed, visible, resume, base, held, ret, dest, foreign, began >>

Publish ==
  /\ pc = "rename"
  /\ dest' = part[resume] /\ part' = [part EXCEPT ![resume] = None]
  /\ ret' = "OK" /\ pc' = "idle"
  /\ UNCHANGED << len, signed, visible, resume, at, base, held, foreign, began >>

EndOfFile ==
  /\ pc = "scan" /\ at = visible
  /\ ret' = "EINCOMPLETE" /\ pc' = "idle"
  /\ part' = IF resume THEN part ELSE [part EXCEPT ![resume] = None]
  /\ UNCHANGED << len, signed, visible, resume, at, base, held, dest, foreign, began >>

\* A failure other than the end of the file takes the part with it.
Fail ==
  /\ pc \in {"scan", "rename"}
  /\ ret' = "FAILED" /\ pc' = "idle"
  /\ part' = [part EXCEPT ![resume] = None]
  /\ foreign' = (foreign /\ ~resume)
  /\ UNCHANGED << len, signed, visible, resume, at, base, held, dest, began >>

Kill ==
  /\ pc # "idle"
  /\ ret' = "KILLED" /\ pc' = "idle"
  /\ UNCHANGED << len, signed, visible, resume, at, base, held, part, dest, foreign, began >>

Init ==
  /\ len \in Lengths /\ signed \in Signed
  /\ visible \in 0 .. Total
  /\ resume = FALSE /\ pc = "idle"
  /\ at = 0 /\ base = 0 /\ held = 0 /\ began = 0
  /\ ret = "none"
  /\ \E n \in {None} \union Others : part = [r \in BOOLEAN |-> IF r THEN n ELSE None]
  /\ foreign = (part[TRUE] # None) /\ dest = None

Next ==
  \/ Arrive \/ \E r \in BOOLEAN : Start(r) \/ CannotStart(r)
  \/ ReadOn \/ Find \/ Publish \/ EndOfFile \/ Fail \/ Kill

Spec == Init /\ [][Next]_vars

-----------------------------------------------------------------------------
(* Properties *)

\* The variables keep their types; what was read is in the part or is held back.
TypeOK ==
  /\ len \in Lengths /\ signed \in Signed /\ visible \in 0 .. Total
  /\ resume \in BOOLEAN /\ pc \in {"idle", "scan", "rename"}
  /\ at \in 0 .. Total /\ base \in 0 .. Total /\ held \in 0 .. Tail
  /\ ret \in {"none", "OK", "EINCOMPLETE", "FAILED", "KILLED"}
  /\ part \in [BOOLEAN -> {None} \union Nat] /\ dest \in {None} \union 0 .. Total
  /\ foreign \in BOOLEAN
  /\ began \in 0 .. Total
  /\ pc = "scan" => part[resume] = base /\ at = base + held

\* The destination is exactly the data, however often the scan was interrupted,
\* whatever the data looks like, and whoever left the part that was continued.
DestExact == dest # None => dest = len

\* Bytes of an unsigned descriptor never get into the part file, where the next
\* call would take them for data.
PartIsData == ~signed => \A r \in BOOLEAN : ~(r /\ foreign) => part[r] <= len

\* Once the descriptor and the next signature are there, a call that begins
\* within the data, and with no part of another archive, finds the end of it.
FoundWhenThere ==
  pc = "idle" /\ ret = "EINCOMPLETE" /\ began <= len /\ ~Misled => visible < len + DescLen + SigLen

\* A stored entry of unknown size "can continue when the archive grows" (README):
\* when everything has arrived a call that resumes finds the end of the data.
GrowthIsEnough == pc = "idle" /\ ret = "EINCOMPLETE" => visible < Total
=============================================================================

------------------------------ MODULE EntryData ------------------------------
(***************************************************************************)
(* What extract_entry (src/zip.c) does with the data of one entry, once    *)
(* the output is open: it is copied or inflated, from a mapped archive or  *)
(* read in chunks, through a cipher or not (src/crypto/dec.c), to a file,  *)
(* a mapped file or memory.  Each way has its own loop and its own final   *)
(* checks; they are to come to the same result.                            *)
(*                                                                         *)
(* Data is counted in cells.  A payload p says what the central directory  *)
(* promises (method, cipher, packed, size), how much of the file there is  *)
(* from the begin of the data (avail), and what the data turns out to be:  *)
(* whether it has the promised checksum (good) and authentication code     *)
(* (mac), what password is given (key), and for deflated data where its    *)
(* stream ends (own), what it yields (out), at which cell it is broken (or *)
(* 0), and whether its end comes out only when asked for (late).           *)
(* A way o says how it is extracted: mapped, out of a mapping; mapOut,     *)
(* into one; check_crc (check); with a callback (tell) that cancels when   *)
(* it has been told cancelAt; how much the disk takes (disk); resume_      *)
(* offset (from), and whether what is there is right (prefix).             *)
(***************************************************************************)
EXTENDS Integers

CONSTANTS
  IoChunk,       \* ZIP_IO_CHUNK
  InflateChunk,  \* ZIP_INFLATE_STREAM_CHUNK
  MappedChunk,   \* ZIP_MAPPED_WRITE_CHUNK
  FastChunk,     \* ZIP_FAST_WRITE_CHUNK
  CryptHeader,   \* ZIPCRYPTO_HEADER_SIZE
  SaltLen,       \* the salt of WinZip AES and AES_WG_VERIFY_SIZE
  AuthLen,       \* AES_WG_AUTH_SIZE
  MaxInflate     \* UINT32_MAX

ASSUME DataAssumption ==
  /\ {IoChunk, InflateChunk, MappedChunk, FastChunk} \subseteq Nat \ {0}
  /\ {CryptHeader, SaltLen, AuthLen, MaxInflate} \subseteq Nat \ {0}

Smaller(a, b) == IF a < b THEN a ELSE b

-----------------------------------------------------------------------------
(* dec.c *)

Header(p) == CASE p.cipher = "none"      -> 0
               [] p.cipher = "zipcrypto" -> CryptHeader
               [] p.cipher = "aes"       -> SaltLen
Trailer(p) == IF p.cipher = "aes" THEN AuthLen ELSE 0

\* What is left of the payload for the data.
Data(p) == p.packed - Header(p) - Trailer(p)

\* dec_open_zipcrypto, dec_open_aes_wg: a wrong password may pass the check of
\* one or two bytes ("guessed").
Unlock(p) ==
  CASE p.cipher = "none"                  -> "OK"
    [] p.cipher # "none" /\ p.key = "none" -> "EPASS"
    [] p.cipher # "none" /\ p.key # "none" /\ Data(p) < 0 -> "ESIZE"
    [] p.cipher # "none" /\ p.key # "none" /\ Data(p) >= 0 ->
         IF p.avail < Header(p) THEN "EFILE"
         ELSE IF p.key = "refused" THEN "EPASS" ELSE "OK"

Opened(p)    == p.cipher = "none" \/ p.key = "right"
CodeFits(p)  == p.mac /\ Opened(p)
Failed(s, r) == [s EXCEPT !.ret = r]

\* Mutant: the authentication code is skipped over.
FinishedUnseen(p, s) == [s EXCEPT !.at = @ + Trailer(p)]

\* dec_finish
Finished(p, s) ==
  CASE s.ret # "OK" \/ p.cipher # "aes"                          -> s
    [] s.ret = "OK" /\ p.cipher = "aes" /\ s.at + AuthLen > p.avail -> Failed(s, "EFILE")
    [] s.ret = "OK" /\ p.cipher = "aes" /\ s.at + AuthLen <= p.avail ->
         IF CodeFits(p) THEN [s EXCEPT !.at = @ + AuthLen] ELSE Failed(s, "EAUTH")

-----------------------------------------------------------------------------
(* Output, checksum and progress.  s is [ret, at: the position in the file,  *)
(* left: what is to be read, made: the output so far, counted: what of it    *)
(* is in the checksum, told: what the callback knows of, written, z: what    *)
(* the inflater said].                                                       *)

Begin(p, o) ==
  [ret |-> Unlock(p), at |-> IF o.from > 0 THEN o.from ELSE Header(p), left |-> Data(p) - o.from,
   made |-> 0, counted |-> o.from, told |-> 0, written |-> o.from, z |-> "UNFINISHED"]

\* progress_advance
Told(o, s, n) ==
  IF ~o.tell \/ n = 0 THEN s
  ELSE [s EXCEPT !.told = @ + n,
                 !.ret = IF s.told + n >= o.cancelAt THEN "ECANCEL" ELSE @]

\* write_file
Wrote(o, s, n) ==
  IF s.written + n > o.disk THEN Failed(s, "EFILE") ELSE [s EXCEPT !.written = @ + n]

\* The bytes are those of the checksum, all of them, each once.
CrcFits(p, o, s) ==
  p.good /\ Opened(p) /\ s.counted = p.size /\ (o.from > 0 => o.prefix)

Checked(p, o, s) ==
  IF s.ret = "OK" /\ o.check /\ ~CrcFits(p, o, s) THEN Failed(s, "ECRC") ELSE s

\* Every loop goes on like this.  As every turn takes something of what is left,
\* it has ended after s.left turns.
Running(s) == s.ret = "OK" /\ s.left > 0
Loop(Turn(_), s) ==
  LET after[i \in Nat] ==
        IF i = 0 THEN s
        ELSE LET t == after[i - 1] IN IF Running(t) THEN Turn(t) ELSE t
  IN after[s.left]

-----------------------------------------------------------------------------
(* Stored data *)

\* write_chunk, and what copy_store_mapped does for a chunk.
StoreChunk(o, n, s) ==
  LET w == Wrote(o, s, n)
  IN IF w.ret # "OK" THEN w
     ELSE Told(o, [w EXCEPT !.at = @ + n, !.left = @ - n, !.counted = @ + n], n)

ReadTurn(p, o, s) ==
  LET n == Smaller(s.left, IoChunk)
  IN IF s.at + n > p.avail THEN Failed(s, "EFILE") ELSE StoreChunk(o, n, s)

CopyRead(p, o) ==
  Checked(p, o, Finished(p, Loop(LAMBDA s : ReadTurn(p, o, s), Begin(p, o))))

MappedTurn(o, s) ==
  StoreChunk(o, Smaller(s.left, IF o.check THEN MappedChunk ELSE FastChunk), s)

CopyMapped(p, o) ==
  LET s == Begin(p, o)
  IN IF ~o.check /\ ~o.tell THEN StoreChunk(o, s.left, s)
     ELSE Checked(p, o, Loop(LAMBDA t : MappedTurn(o, t), s))

-----------------------------------------------------------------------------
(* Deflated data *)

\* The external inflater: what it has yielded after fed cells, and its answer.
\* A buffer of p.size cells is all it has.
Yield(p, fed) ==
  IF fed >= p.own /\ ~p.late THEN p.out ELSE (p.out * Smaller(fed, p.own)) \div (p.own + 1)
Completes(p, fed) == p.broken = 0 /\ fed >= p.own /\ p.out <= p.size
Answer(p, fed) ==
  CASE p.broken \in 1 .. fed \/ Yield(p, fed) > p.size      -> "EINFLATE"
    [] ~(p.broken \in 1 .. fed \/ Yield(p, fed) > p.size) ->
         IF Completes(p, fed) /\ ~p.late THEN "OK" ELSE "UNFINISHED"

\* account_inflate_output
Accounted(o, s, made) ==
  LET t == Told(o, [s EXCEPT !.counted = @ + made - s.made], made - s.made)
  IN IF t.ret = "OK" THEN [t EXCEPT !.made = made] ELSE t

\* One turn of the loops of inflate_raw_streamed and inflate_raw.
InflateTurn(p, o, s) ==
  LET n     == Smaller(s.left, InflateChunk)
      fed   == Data(p) - s.left + n
      whole == Data(p) <= InflateChunk
      z     == IF whole THEN (IF Completes(p, fed) THEN "OK" ELSE "EINFLATE") ELSE Answer(p, fed)
      t     == Accounted(o, [s EXCEPT !.at = @ + n, !.z = z],
                         IF whole THEN p.out ELSE Yield(p, fed))
  IN CASE ~o.mapped /\ s.at + n > p.avail             -> Failed(s, "EINCOMPLETE")
       [] (o.mapped \/ s.at + n <= p.avail) /\ z = "EINFLATE" -> Failed(s, "EINFLATE")
       [] (o.mapped \/ s.at + n <= p.avail) /\ z # "EINFLATE" ->
            IF t.ret # "OK" THEN t
            ELSE IF z = "OK" /\ s.left # n THEN Failed(t, "ESIZE")
            ELSE [t EXCEPT !.left = @ - n]

\* The rest is asked for, and counted.
Flushed(p, o, s) ==
  CASE s.ret # "OK"                                                -> s
    [] s.ret = "OK" /\ s.z = "UNFINISHED" /\ ~Completes(p, Data(p)) -> Failed(s, "EINFLATE")
    [] s.ret = "OK" /\ (s.z = "UNFINISHED" => Completes(p, Data(p))) -> Accounted(o, s, p.out)

Sized(p, s, ends) ==
  IF s.ret = "OK" /\ ~(p.out = p.size /\ ends) THEN Failed(s, "ESIZE") ELSE s

\* All output is in memory, or has gone to a mapped file as it was made.
OutputDone(p, o, s) ==
  CASE s.ret # "OK"             -> s
    [] s.ret = "OK" /\ o.mapOut  -> [s EXCEPT !.written = p.size]
    [] s.ret = "OK" /\ ~o.mapOut -> Wrote(o, s, p.size)

TooLarge(p) == Data(p) > MaxInflate \/ p.size > MaxInflate

\* inflate_raw_streamed; inflate_raw of a mapped archive with a callback.
InflateInChunks(p, o) ==
  LET s == Flushed(p, o, Loop(LAMBDA t : InflateTurn(p, o, t), Begin(p, o)))
  IN OutputDone(p, o, Checked(p, o, Sized(p, Finished(p, s), p.own = Data(p))))

\* inflate_raw of a mapped archive without one: nobody looks where the stream ends.
InflateAtOnce(p, o) ==
  LET s == IF Completes(p, Data(p)) THEN [Begin(p, o) EXCEPT !.counted = p.out]
           ELSE Failed(Begin(p, o), "EINFLATE")
  IN OutputDone(p, o, Checked(p, o, Sized(p, s, TRUE)))

-----------------------------------------------------------------------------
(* The branches of extract_entry *)

Extract(p, o) ==
  CASE Unlock(p) # "OK"                          -> Failed(Begin(p, o), Unlock(p))
    [] Unlock(p) = "OK" /\ p.method = "store"      ->
         IF Data(p) # p.size THEN Failed(Begin(p, o), "ESIZE")
         ELSE IF o.mapped THEN CopyMapped(p, o) ELSE CopyRead(p, o)
    [] Unlock(p) = "OK" /\ p.method = "deflate"    ->
         IF TooLarge(p) THEN Failed(Begin(p, o), "EUNSUP")
         ELSE IF o.mapped /\ ~o.tell THEN InflateAtOnce(p, o) ELSE InflateInChunks(p, o)

\* The whole payload is read before it is looked at.
ReadWhole(p, o) ==
  LET s == [Begin(p, o) EXCEPT !.at = Header(p) + Data(p), !.counted = p.size]
  IN IF o.mapped THEN s ELSE IF s.at > p.avail THEN Failed(s, "EFILE") ELSE Finished(p, s)

\* read_store_mem, dup_mem_nul, inflate_raw_mem: the target of a symbolic link.
ToMemory(p, o) ==
  CASE Unlock(p) # "OK"                          -> Failed(Begin(p, o), Unlock(p))
    [] Unlock(p) = "OK" /\ p.method = "store"      ->
         IF Data(p) # p.size THEN Failed(Begin(p, o), "ESIZE")
         ELSE Checked(p, o, ReadWhole(p, o))
    [] Unlock(p) = "OK" /\ p.method = "deflate"    ->
         IF TooLarge(p) THEN Failed(Begin(p, o), "EUNSUP")
         ELSE LET s == ReadWhole(p, o)
                  t == IF s.ret = "OK" /\ ~Completes(p, Data(p)) THEN Failed(s, "EINFLATE") ELSE s
              IN Checked(p, o, Sized(p, t, p.own = Data(p)))

-----------------------------------------------------------------------------
(* Properties *)

CONSTANTS Payloads, Ways

AnyPayload ==
  [method : {"store", "deflate"}, cipher : {"none", "zipcrypto", "aes"},
   key : {"none", "refused", "guessed", "right"}, packed : Nat, size : Nat, avail : Nat,
   good : BOOLEAN, mac : BOOLEAN, own : Nat, out : Nat, broken : Nat, late : BOOLEAN]
AnyWay ==
  [mapped : BOOLEAN, mapOut : BOOLEAN, tell : BOOLEAN, check : BOOLEAN,
   cancelAt : Nat, disk : Nat, from : Nat, prefix : BOOLEAN]

ASSUME CaseAssumption == Payloads \subseteq AnyPayload /\ Ways \subseteq AnyWay

\* An archive is mapped as far as it goes, and not read through a cipher; only
\* stored data that is not encrypted is resumed.
Possible(p, o) ==
  /\ o.mapped => p.cipher = "none" /\ p.avail >= p.packed
  /\ o.from > 0 => p.method = "store" /\ p.cipher = "none" /\ o.from <= p.size /\ p.packed = p.size

Cases == { c \in Payloads \X Ways : Possible(c[1], c[2]) }

\* The callback never cancels and the disk has room.
Undisturbed(p, o) == o.cancelAt > p.size /\ o.disk >= p.size

\* Nothing is taken for extracted that is not whole, checked and authenticated;
\* the callback has been told all of it once; and the file stands at the end
\* of the payload, where zipy_extract_stream goes on.
OkIsWhole ==
  \A c \in Cases :
    LET p == c[1]  o == c[2]  r == Extract(p, o)
    IN r.ret = "OK" =>
         /\ r.written = p.size
         /\ r.told = IF o.tell THEN p.size - o.from ELSE 0
         /\ o.check => p.good /\ Opened(p)
         /\ p.cipher = "aes" => CodeFits(p)
         /\ ~o.mapped => r.at = p.packed

StreamFits(p) == p.method = "deflate" => p.own = Data(p) /\ p.out = p.size /\ p.broken = 0
Sound(p) == Unlock(p) = "OK" /\ p.avail >= p.packed /\ p.good /\ CodeFits(p) /\ StreamFits(p)

\* What is sound is extracted, on every path and to memory.
SoundIsExtracted ==
  \A c \in Cases :
    LET p == c[1]  o == c[2]
    IN (Sound(p) /\ Undisturbed(p, o) /\ (o.from > 0 => o.prefix)
          /\ (IF p.method = "store" THEN Data(p) = p.size ELSE ~TooLarge(p))) =>
         /\ Extract(p, o).ret = "OK"
         /\ o.from = 0 => ToMemory(p, o).ret = "OK"

\* Whether data is accepted depends on the data, not on the way it is extracted
\* (extract_entry, inflate_raw, inflate_raw_streamed); except that a mapped archive
\* without a callback may have more data than its stream needs.
PathsAgree ==
  \A p \in Payloads :
    (p.method = "deflate" => p.own >= Data(p)) =>
      \A check \in BOOLEAN :
        LET ways == { o \in Ways : Possible(p, o) /\ Undisturbed(p, o) /\ o.check = check /\ o.from = 0 }
        IN \A o, w \in ways : (Extract(p, o).ret = "OK") = (ToMemory(p, w).ret = "OK")
=============================================================================

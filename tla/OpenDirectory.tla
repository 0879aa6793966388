---------------------------- MODULE OpenDirectory ----------------------------
(***************************************************************************)
(* How zipy_open (src/zip.c) finds the central directory of an archive and *)
(* lists its entries, from a file mapped into memory or read piece by      *)
(* piece.                                                                  *)
(*                                                                         *)
(* A file is a row of cells.  The fixed part of a record is its first      *)
(* cell, which holds its fields, and as many filler cells as its length    *)
(* needs; names, extra fields, comments and data are fillers, with their   *)
(* contents kept in the record.  Numbers of 16 and 32 bits end at Max16    *)
(* and Max32, which are also the values that say "look in ZIP64".          *)
(***************************************************************************)
EXTENDS Integers, Sequences, FiniteSetsExt

CONSTANTS
  Max16, Max32, Max64,  \* 0xFFFF, 0xFFFFFFFF, UINT64_MAX
  EndLen,       \* ZIP_EOCD_FIXED; ZIP64_LOCATOR_FIXED, ZIP64_EOCD_FIXED are one cell
  CentralLen,   \* ZIP_CENTRAL_FIXED
  LocalLen      \* ZIP_LOCAL_FIXED

ASSUME OpenAssumption ==
  /\ {Max16, Max32, Max64} \subseteq Nat
  /\ {EndLen, CentralLen, LocalLen} \subseteq 1 .. Max16
  /\ Max16 < Max32 /\ Max32 < Max64

Filler   == [sign |-> "none"]
Cell(f, at) == f[at + 1]          \* offsets begin at 0
Is(f, at, sign) == at \in 0 .. Len(f) - 1 /\ Cell(f, at).sign = sign
Refused  == [found |-> FALSE]

-----------------------------------------------------------------------------
(* The end record *)

\* How long the ZIP64 end record says that it is, in bytes, less the twelve in
\* front of that number.
End64Rest == 44

\* read_zip64_eocd: the locator stands right before the end record.
Zip64(f, at) ==
  LET locator == Cell(f, at - 1)
      end64   == Cell(f, locator.at)
  IN IF /\ Is(f, at - 1, "locator") /\ locator.disk = 0 /\ locator.disks = 1
        /\ Is(f, locator.at, "end64") /\ end64.rest >= End64Rest
        /\ end64.disk = 0 /\ end64.cdDisk = 0
        /\ end64.entriesDisk = end64.entries
       THEN [found |-> TRUE, entries |-> end64.entries, size |-> end64.size,
             offset |-> end64.offset]
       ELSE Refused

Zip32(end) ==
  IF end.disk = 0 /\ end.cdDisk = 0 /\ end.entriesDisk = end.entries
    THEN [found |-> TRUE, entries |-> end.entries, size |-> end.size, offset |-> end.offset]
    ELSE Refused

NeedsZip64(end) ==
  \/ Max16 \in {end.disk, end.cdDisk, end.entriesDisk, end.entries}
  \/ Max32 \in {end.size, end.offset}

\* Mutant: the search stops one short of the longest comment.
EndRecordsShort(f) ==
  { at \in Max({0, Len(f) - (EndLen + Max16 - 1)}) .. Len(f) - EndLen :
      Is(f, at, "end") /\ at + EndLen + Cell(f, at).comment = Len(f) }

\* Where a record stands whose comment ends with the file, in the last
\* ZIP_MAX_EOCD_SEARCH bytes.
EndRecords(f) ==
  { at \in Max({0, Len(f) - (EndLen + Max16)}) .. Len(f) - EndLen :
      Is(f, at, "end") /\ at + EndLen + Cell(f, at).comment = Len(f) }

\* find_eocd and find_eocd_mapped look backwards and take the first such record,
\* good or bad.  The directory ends before it.
FoundDirectory(f) ==
  IF EndRecords(f) = {} THEN Refused
  ELSE LET at == Max(EndRecords(f))
           end == Cell(f, at)
           dir == IF NeedsZip64(end) THEN Zip64(f, at) ELSE Zip32(end)
       IN IF dir.found /\ dir.offset + dir.size <= Max64 /\ dir.offset + dir.size <= at
            THEN dir ELSE Refused

-----------------------------------------------------------------------------
(* One record of the central directory *)

\* The extra blocks of a kind; of several the last one counts.
Blocks(r, id)    == { i \in DOMAIN r.extra : r.extra[i].id = id }
LastBlock(r, id) == r.extra[Max(Blocks(r, id))]
BlockLength(blocks) ==
  LET upTo[n \in 0 .. Len(blocks)] == IF n = 0 THEN 0 ELSE upTo[n - 1] + 1 + blocks[n].size
  IN upTo[Len(blocks)]

\* The fields that a ZIP64 block gives, in their order in the block.
Marked(r, k, mark) == IF r[k] = mark THEN << k >> ELSE << >>
Given(r) ==
  Marked(r, "size", Max32) \o Marked(r, "packed", Max32) \o Marked(r, "offset", Max32)
    \o Marked(r, "disk", Max16)

\* parse_zip64_extra
Extended(r) ==
  IF Blocks(r, "zip64") = {} THEN r
  ELSE [k \in DOMAIN r |->
          IF \E i \in DOMAIN Given(r) : Given(r)[i] = k
            THEN LastBlock(r, "zip64").values[CHOOSE i \in DOMAIN Given(r) : Given(r)[i] = k]
            ELSE r[k]]

ExtraFits(r) ==
  /\ BlockLength(r.extra) = r.extraLen
  /\ \A i \in Blocks(r, "zip64") : r.extra[i].size >= Len(Given(r))
  /\ IF Blocks(r, "zip64") = {}
       THEN Max32 \notin {r.size, r.packed, r.offset} /\ (r.extraLen > 0 => r.disk = 0)
       ELSE Extended(r).disk = 0

\* parse_aes_extra, and the rule that goes with it.  The values of the block are
\* the version, the vendor and the strength.
Strength(r) == IF Blocks(r, "aes") = {} THEN 0 ELSE LastBlock(r, "aes").values[3]
AesFits(r) ==
  /\ \A i \in Blocks(r, "aes") :
       LET v == r.extra[i].values
       IN r.extra[i].size >= 7 /\ v[1] \in {1, 2} /\ v[2] = "AE" /\ v[3] \in 1 .. 3
  /\ IF r.method = "aes" THEN r.encrypted /\ Strength(r) # 0 ELSE Strength(r) = 0

RecordLength(r) == CentralLen + r.nameLen + r.extraLen + r.commentLen

\* Mutant: a local header may begin where the directory does.
RecordFitsLate(f, dir, r) ==
  /\ r.nameLen > 0 /\ r.disk \in {0, Max16}
  /\ ExtraFits(r) /\ AesFits(r)
  /\ LET e == Extended(r)
     IN e.offset <= dir.offset /\ e.packed <= Len(f) /\ e.offset + LocalLen <= Max64

\* What must hold of a record wherever it was read from; its local header is
\* not looked at.
RecordFits(f, dir, r) ==
  /\ r.nameLen > 0 /\ r.disk \in {0, Max16}
  /\ ExtraFits(r) /\ AesFits(r)
  /\ LET e == Extended(r)
     IN e.offset < dir.offset /\ e.packed <= Len(f) /\ e.offset + LocalLen <= Max64

Listed(r) ==
  LET e == Extended(r)
  IN [name |-> e.name, size |-> e.size, packed |-> e.packed, offset |-> e.offset]

-----------------------------------------------------------------------------
(* The loop over the records *)

\* In a mapped file a record must lie in the directory; prealloc_name_slab has
\* looked at all of them before.  A file that is read goes on to its end.
RecordThere(f, dir, at, mapped) ==
  /\ IF mapped THEN at + CentralLen <= dir.offset + dir.size ELSE at + CentralLen <= Len(f)
  /\ Is(f, at, "central")
  /\ LET r == Cell(f, at)
     IN IF mapped THEN at + RecordLength(r) <= dir.offset + dir.size
        ELSE at + RecordLength(r) - r.commentLen <= Len(f)   \* the comment is skipped

NextRecord(f, dir, mapped, w) ==
  IF w.ok /\ RecordThere(f, dir, w.at, mapped) /\ RecordFits(f, dir, Cell(f, w.at))
    THEN [ok |-> TRUE, at |-> w.at + RecordLength(Cell(f, w.at)),
          list |-> Append(w.list, Listed(Cell(f, w.at)))]
    ELSE [w EXCEPT !.ok = FALSE]

\* After all records that the end record counts.
Walked(f, dir, mapped) ==
  LET upTo[n \in 0 .. dir.entries] ==
        IF n = 0 THEN [ok |-> TRUE, at |-> dir.offset, list |-> << >>]
        ELSE NextRecord(f, dir, mapped, upTo[n - 1])
  IN upTo[dir.entries]

\* The whole of zipy_open: [ok, list].
Open(f, mapped) ==
  LET dir == FoundDirectory(f)
      w   == Walked(f, dir, mapped)
      ok  == dir.found /\ w.ok /\ (mapped => w.at = dir.offset + dir.size)
  IN [ok |-> ok, list |-> IF ok THEN w.list ELSE << >>]

-----------------------------------------------------------------------------
(* The files of a writer *)

CONSTANTS
  Listings64,  \* lists of [name, size, packed, offset]
  Comments,    \* what may stand behind the end record
  Values       \* what a damaged field may hold

Fillers(n) == [i \in 1 .. n |-> Filler]

\* A record with a ZIP64 block for the numbers that do not fit, and a block of
\* another kind before it.
CentralRecord(e) ==
  LET Large(k) == IF e[k] >= Max32 THEN << k >> ELSE << >>
      large    == Large("size") \o Large("packed") \o Large("offset")
      short(k) == IF e[k] >= Max32 THEN Max32 ELSE e[k]
      blocks == << [id |-> "time", size |-> 1, values |-> << 7 >>] >>
                  \o (IF large = << >> THEN << >>
                      ELSE << [id |-> "zip64", size |-> Len(large),
                               values |-> [i \in DOMAIN large |-> e[large[i]]]] >>)
  IN [sign |-> "central", name |-> e.name, method |-> "store", encrypted |-> FALSE, disk |-> 0,
      size |-> short("size"), packed |-> short("packed"), offset |-> short("offset"),
      nameLen |-> 1, extra |-> blocks, extraLen |-> BlockLength(blocks), commentLen |-> 1]

InCells(r) == << r >> \o Fillers(RecordLength(r) - 1)
Central(list) ==
  LET upTo[n \in 0 .. Len(list)] ==
        IF n = 0 THEN << >> ELSE upTo[n - 1] \o InCells(CentralRecord(list[n]))
  IN upTo[Len(list)]

\* The data, the directory, the records of ZIP64 if a number needs them, or if
\* the writer always has them, the end record and its comment.
Written(list, data, comment, always64) ==
  LET central == Central(list)
      large   == Len(list) >= Max16 \/ data >= Max32 \/ Len(central) >= Max32
      fit(n, max) == IF n >= max \/ (always64 /\ max = Max32) THEN max ELSE n
      end64   == [sign |-> "end64", rest |-> End64Rest, disk |-> 0, cdDisk |-> 0,
                  entriesDisk |-> Len(list), entries |-> Len(list), size |-> Len(central),
                  offset |-> data]
      locator == [sign |-> "locator", disk |-> 0, at |-> data + Len(central), disks |-> 1]
      end     == [sign |-> "end", disk |-> 0, cdDisk |-> 0, comment |-> Len(comment),
                  entriesDisk |-> fit(Len(list), Max16), entries |-> fit(Len(list), Max16),
                  size |-> fit(Len(central), Max32), offset |-> fit(data, Max32)]
  IN Fillers(data) \o central
       \o (IF large \/ always64 THEN << end64, locator >> ELSE << >>)
       \o << end >> \o Fillers(EndLen - 1) \o comment

\* Room for the headers and the data of all entries.
DataFor(list) ==
  Max({0} \union { list[i].offset + LocalLen + list[i].packed : i \in DOMAIN list })

\* No file is longer than 64 bits can count, and no comment holds an end record
\* that ends where the file does: that one would be the end record.
ASSUME WrittenAssumption ==
  /\ \A l \in Listings64 :
       /\ l \in Seq([name : STRING, size : 0 .. Max64, packed : 0 .. Max64, offset : 0 .. Max64])
       /\ DataFor(l) + Len(Central(l)) <= Max64
  /\ \A c \in Comments :
       /\ c \in Seq({Filler} \union
                    [sign : {"end"}, disk : Nat, cdDisk : Nat, entriesDisk : Nat, entries : Nat,
                     size : Nat, offset : Nat, comment : Nat])
       /\ Len(c) <= Max16
       /\ \A i \in DOMAIN c : c[i].sign = "end" => i - 1 + EndLen + c[i].comment # Len(c)
  /\ Values \subseteq Nat

WrittenFiles == { Written(l, DataFor(l), c, z) : l \in Listings64, c \in Comments, z \in BOOLEAN }
HasDecoy(c) == \E i \in DOMAIN c : c[i].sign = "end"

-----------------------------------------------------------------------------
(* Properties *)

\* README.md "ZIP64": what a writer wrote is listed in full, mapped or not, with
\* the shortest and the longest comment, with end records inside the comment,
\* with numbers at and beyond the limits of ZIP32 (zipy_open).
WrittenIsOpened ==
  \A l \in Listings64, c \in Comments, z \in BOOLEAN, mapped \in BOOLEAN :
    Open(Written(l, DataFor(l), c, z), mapped) = [ok |-> TRUE, list |-> l]

\* An archive that has not arrived in full is refused, not listed in part.
TruncatedIsRefused ==
  \A l \in Listings64, c \in { d \in Comments : ~HasDecoy(d) }, z, mapped \in BOOLEAN :
    LET f == Written(l, DataFor(l), c, z)
    IN \A n \in 0 .. Len(f) - 1 : ~Open(SubSeq(f, 1, n), mapped).ok

Damaged(f) ==
  UNION { { [f EXCEPT ![i] = [@ EXCEPT ![k] = v]] :
              k \in DOMAIN f[i] \ {"sign", "name", "method", "encrypted", "extra"}, v \in Values } :
          i \in { j \in DOMAIN f : f[j] # Filler } }

\* The records end where the directory does.
EndsWithDirectory(f) ==
  LET dir == FoundDirectory(f) IN Walked(f, dir, FALSE).at = dir.offset + dir.size

\* Whatever one field says, a file is listed when it is mapped just if it is
\* listed when it is read and its records fill the directory; then it is listed
\* alike, and no entry begins in or behind the directory.
MappedIsRead ==
  \A f \in WrittenFiles : \A g \in Damaged(f) :
    LET mapped == Open(g, TRUE)
        read   == Open(g, FALSE)
    IN /\ mapped.ok <=> read.ok /\ EndsWithDirectory(g)
       /\ mapped.ok => /\ mapped = read
                       /\ \A i \in DOMAIN read.list : read.list[i].offset < FoundDirectory(g).offset
=============================================================================

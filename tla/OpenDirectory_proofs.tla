------------------------ MODULE OpenDirectory_proofs ------------------------
(***************************************************************************)
(* Proofs about OpenDirectory, for any limits and lengths of records, any  *)
(* listing that fits into a file, and any comment that is not an end       *)
(* record of the file:                                                     *)
(*                                                                         *)
(*   - what a writer wrote is listed in full, mapped or not;               *)
(*   - a file that has not arrived in full is refused;                     *)
(*   - whatever one field says, a file is listed when it is mapped just if *)
(*     it is listed when it is read and its records fill the directory,    *)
(*     and then it is listed alike.                                        *)
(*                                                                         *)
(* A written file is laid out in a known way (LaidOut), its end record is  *)
(* the last one whose comment ends with the file, each record is read back *)
(* as its entry, and the loop over the records goes on by induction.       *)
(***************************************************************************)
EXTENDS MCExtractPool, Iteration

LEMMA MaxIs ==
  ASSUME NEW S \in SUBSET Int, S # {}, NEW b \in Int, \A x \in S : x <= b
  PROVE  Max(S) \in S /\ \A x \in S : x <= Max(S)
PROOF
<1> DEFINE T == { n \in Nat : b - n \in S }
<1>1. PICK x \in S : TRUE
  OBVIOUS
<1>2. T \in SUBSET Nat /\ T # {}
  <2>1. b - x \in Nat /\ b - (b - x) = x
    BY <1>1
  <2> QED BY <2>1
<1>3. PICK n \in T : \A m \in T : n <= m
  <2> HIDE DEF T
  <2> QED BY <1>2, LeastNumber
<1>4. b - n \in S /\ \A y \in S : b - n >= y
  <2>1. b - n \in S /\ n \in Nat
    OBVIOUS
  <2>2. ASSUME NEW y \in S PROVE b - n >= y
    <3>1. b - y \in Nat /\ b - (b - y) = y
      OBVIOUS
    <3>2. b - y \in T
      BY <3>1
    <3>3. n <= b - y
      BY <1>3, <3>2
    <3> QED BY <2>1, <3>1, <3>3
  <2> QED BY <2>1, <2>2
<1>5. Max(S) \in S /\ \A y \in S : Max(S) >= y
  BY <1>4 DEF Max
<1> QED BY <1>5

\* The bytes of the extra blocks are a number.
LEMMA BlockLengthIsNat ==
  ASSUME NEW S, NEW blocks \in Seq(S), \A b \in S : b.size \in Nat
  PROVE  BlockLength(blocks) \in Nat
PROOF
<1> DEFINE k == Len(blocks)
           step == [n \in 1 .. k |-> [v \in Nat |-> v + 1 + blocks[n].size]]
           upTo == CHOOSE f : f = [n \in 0 .. k |->
                     IF n = 0 THEN 0 ELSE f[n - 1] + 1 + blocks[n].size]
<1>1. k \in Nat /\ \A n \in 1 .. k : blocks[n].size \in Nat
  OBVIOUS
<1>2. BlockLength(blocks) = upTo[k]
  BY DEF BlockLength
<1> HIDE DEF k
<1>3. step \in [1 .. k -> [Nat -> Nat]]
  BY <1>1
<1>4. PICK g \in [0 .. k -> Nat] : g[0] = 0 /\ \A n \in 1 .. k : g[n] = step[n][g[n - 1]]
  <2> HIDE DEF step
  <2>1. GoesThrough(Nat, 0, k, step)
    BY <1>1, <1>3, RecursionUpTo
  <2> QED BY <2>1 DEF GoesThrough
<1>5. ASSUME NEW n \in 1 .. k PROVE g[n] = g[n - 1] + 1 + blocks[n].size
  <2>1. n - 1 \in 0 .. k
    BY <1>1
  <2>2. g[n - 1] \in Nat
    BY <2>1
  <2> QED BY <1>4, <2>2
<1>6. g = [n \in 0 .. k |-> IF n = 0 THEN 0 ELSE g[n - 1] + 1 + blocks[n].size]
  <2>1. \A n \in 0 .. k : n # 0 => n \in 1 .. k
    BY <1>1
  <2> HIDE DEF step
  <2> QED BY <1>4, <1>5, <2>1
<1>7. upTo = [n \in 0 .. k |-> IF n = 0 THEN 0 ELSE upTo[n - 1] + 1 + blocks[n].size]
  BY <1>6
<1> HIDE DEF upTo
<1> DEFINE P == { n \in Nat : n <= k => upTo[n] \in Nat }
<1>8. 0 \in P
  <2>1. 0 \in 0 .. k
    BY <1>1
  <2> QED BY <1>7, <2>1
<1>9. \A n \in P : n < k => n + 1 \in P
  <2> SUFFICES ASSUME NEW n \in P, n < k PROVE upTo[n + 1] \in Nat
    OBVIOUS
  <2>1. n \in Nat /\ n + 1 \in 0 .. k /\ n + 1 # 0 /\ (n + 1) - 1 = n /\ n + 1 \in 1 .. k /\ n <= k
    BY <1>1
  <2>4. upTo[n] \in Nat
    BY <2>1
  <2>2. upTo[n + 1] = upTo[n] + 1 + blocks[n + 1].size
    <3> HIDE DEF P
    <3> QED BY <1>7, <2>1
  <2>3. blocks[n + 1].size \in Nat
    BY <1>1, <2>1
  <2> HIDE DEF P
  <2> QED BY <2>1, <2>2, <2>3, <2>4
<1>10. k \in P
  <2> HIDE DEF P
  <2>1. P \in SUBSET Nat
    BY DEF P
  <2>2. \A n \in 0 .. k : n \in P
    BY <1>1, <1>8, <1>9, <2>1, InductionUpTo
  <2> QED BY <1>1, <2>2
<1> QED BY <1>1, <1>2, <1>10

\* What is listed of an entry.
EntryOf == [name : STRING, size : 0 .. Max64, packed : 0 .. Max64, offset : 0 .. Max64]

\* The fields of an entry that need ZIP64.
Large(e, k)    == IF e[k] >= Max32 THEN << k >> ELSE << >>
LargeFields(e) == Large(e, "size") \o Large(e, "packed") \o Large(e, "offset")
Short(n)       == IF n >= Max32 THEN Max32 ELSE n

LEMMA LimitsAreNat ==
  /\ Max16 \in Nat /\ Max32 \in Nat /\ Max64 \in Nat /\ 0 < Max16 /\ Max16 < Max32 /\ Max32 < Max64
  /\ EndLen \in Nat /\ CentralLen \in Nat /\ LocalLen \in Nat
  /\ EndLen > 0 /\ CentralLen > 0 /\ LocalLen > 0
PROOF
<1>1. EndLen \in 1 .. Max16 /\ CentralLen \in 1 .. Max16 /\ LocalLen \in 1 .. Max16
  BY OpenAssumption
<1> QED BY <1>1, OpenAssumption

\* Each of the three fields is among the large ones just if it is large.
LEMMA LargeAre ==
  ASSUME NEW e
  PROVE  /\ LargeFields(e) \in Seq({"size", "packed", "offset"})
         /\ \A k \in {"size", "packed", "offset"} :
              (\E i \in DOMAIN LargeFields(e) : LargeFields(e)[i] = k) <=> e[k] >= Max32
         /\ \A i \in DOMAIN LargeFields(e) : LargeFields(e)[i] \in {"size", "packed", "offset"}
PROOF
<1> DEFINE K == {"size", "packed", "offset"}
           a == Large(e, "size")
           b == Large(e, "packed")
           c == Large(e, "offset")
<1>1. a \in Seq(K) /\ b \in Seq(K) /\ c \in Seq(K)
  <2>1. << >> \in Seq(K)
    OBVIOUS
  <2>2. \A k \in K : << k >> \in Seq(K)
    OBVIOUS
  <2>3. "size" \in K /\ "packed" \in K /\ "offset" \in K
    OBVIOUS
  <2> HIDE DEF K
  <2> QED BY <2>1, <2>2, <2>3 DEF Large
<1>2. /\ Len(a) = IF e["size"] >= Max32 THEN 1 ELSE 0
      /\ Len(b) = IF e["packed"] >= Max32 THEN 1 ELSE 0
      /\ Len(c) = IF e["offset"] >= Max32 THEN 1 ELSE 0
  BY DEF Large
<1>3. /\ e["size"] >= Max32 => a[1] = "size"
      /\ e["packed"] >= Max32 => b[1] = "packed"
      /\ e["offset"] >= Max32 => c[1] = "offset"
  BY DEF Large
<1> HIDE DEF a, b, c
<1> DEFINE ab == a \o b
           f == ab \o c
<1>4. /\ ab \in Seq(K) /\ Len(ab) = Len(a) + Len(b)
      /\ \A i \in 1 .. Len(a) + Len(b) : ab[i] = IF i <= Len(a) THEN a[i] ELSE b[i - Len(a)]
  BY <1>1, ConcatProperties
<1> HIDE DEF ab
<1>5. /\ f \in Seq(K) /\ Len(f) = Len(ab) + Len(c)
      /\ \A i \in 1 .. Len(ab) + Len(c) : f[i] = IF i <= Len(ab) THEN ab[i] ELSE c[i - Len(ab)]
  <2>1. ab \in Seq(K) /\ c \in Seq(K)
    BY <1>1, <1>4
  <2> HIDE DEF K
  <2> QED BY <2>1, ConcatProperties
<1>6. LargeFields(e) = f
  BY DEF LargeFields, f, ab, a, b, c
<1> HIDE DEF f
<1>7. DOMAIN f = 1 .. Len(f) /\ \A i \in DOMAIN f : f[i] \in K
  BY <1>5
<1>8. (\E i \in 1 .. Len(f) : f[i] = "size") <=> e["size"] >= Max32
  BY <1>2, <1>3, <1>4, <1>5
<1>9. (\E i \in 1 .. Len(f) : f[i] = "packed") <=> e["packed"] >= Max32
  BY <1>2, <1>3, <1>4, <1>5
<1>10. (\E i \in 1 .. Len(f) : f[i] = "offset") <=> e["offset"] >= Max32
  BY <1>2, <1>3, <1>4, <1>5
<1> QED BY <1>5, <1>6, <1>7, <1>8, <1>9, <1>10

LEMMA PairIs ==
  ASSUME NEW a, NEW b
  PROVE  << a >> \o << b >> = << a, b >>
PROOF
<1> DEFINE S == {a, b}
           p == << a >>
           q == << b >>
           t == << a, b >>
           s == p \o q
<1>1. /\ p \in Seq(S) /\ Len(p) = 1 /\ p[1] = a
      /\ q \in Seq(S) /\ Len(q) = 1 /\ q[1] = b
      /\ t \in Seq(S) /\ Len(t) = 2 /\ t[1] = a /\ t[2] = b
  OBVIOUS
<1> HIDE DEF p, q, S, t
<1>2. /\ s \in Seq(S) /\ Len(s) = 2
      /\ \A i \in 1 .. 2 : s[i] = IF i <= 1 THEN p[i] ELSE q[i - 1]
  BY <1>1, ConcatProperties
<1> HIDE DEF s
<1>3. s[1] = t[1] /\ s[2] = t[2]
  BY <1>1, <1>2
<1>4. \A i \in 1 .. Len(s) : s[i] = t[i]
  BY <1>2, <1>3
<1>5. s = t
  BY <1>1, <1>2, <1>4, SeqEqual
<1> QED BY <1>5 DEF s, p, q, t

\* The record of an entry.
LEMMA RecordIs ==
  ASSUME NEW e \in EntryOf
  PROVE  LET r == CentralRecord(e)
             large == LargeFields(e)
             time == [id |-> "time", size |-> 1, values |-> << 7 >>]
             zip64 == [id |-> "zip64", size |-> Len(large),
                       values |-> [i \in DOMAIN large |-> e[large[i]]]]
         IN /\ r = [sign |-> "central", name |-> e.name, method |-> "store", encrypted |-> FALSE,
                    disk |-> 0, size |-> Short(e.size), packed |-> Short(e.packed),
                    offset |-> Short(e.offset), nameLen |-> 1, extra |-> r.extra,
                    extraLen |-> BlockLength(r.extra), commentLen |-> 1]
            /\ large = << >> => r.extra = << time >>
            /\ large # << >> => r.extra = << time, zip64 >>
PROOF
<1> DEFINE r == CentralRecord(e)
           large == LargeFields(e)
           time == [id |-> "time", size |-> 1, values |-> << 7 >>]
           zip64 == [id |-> "zip64", size |-> Len(large),
                     values |-> [i \in DOMAIN large |-> e[large[i]]]]
           blocks == << time >> \o (IF large = << >> THEN << >> ELSE << zip64 >>)
<1>1. r = [sign |-> "central", name |-> e.name, method |-> "store", encrypted |-> FALSE,
           disk |-> 0, size |-> Short(e["size"]), packed |-> Short(e["packed"]),
           offset |-> Short(e["offset"]), nameLen |-> 1, extra |-> blocks,
           extraLen |-> BlockLength(blocks), commentLen |-> 1]
  BY DEF CentralRecord, LargeFields, Large, Short
<1> HIDE DEF r
<1>2. r.extra = blocks
  BY <1>1
<1>3. large = << >> => blocks = << time >>
  <2> HIDE DEF large, time
  <2> QED OBVIOUS
<1>4. large # << >> => blocks = << time, zip64 >>
  <2> SUFFICES ASSUME large # << >> PROVE blocks = << time, zip64 >>
    OBVIOUS
  <2>1. blocks = << time >> \o << zip64 >>
    OBVIOUS
  <2>2. << time >> \o << zip64 >> = << time, zip64 >>
    BY PairIs
  <2> HIDE DEF blocks, time, zip64
  <2> QED BY <2>1, <2>2
<1> HIDE DEF blocks, large, time, zip64
<1>5. e["size"] = e.size /\ e["packed"] = e.packed /\ e["offset"] = e.offset
  OBVIOUS
<1>6. r = [sign |-> "central", name |-> e.name, method |-> "store", encrypted |-> FALSE,
                    disk |-> 0, size |-> Short(e.size), packed |-> Short(e.packed),
                    offset |-> Short(e.offset), nameLen |-> 1, extra |-> r.extra,
                    extraLen |-> BlockLength(r.extra), commentLen |-> 1]
  BY <1>1, <1>2, <1>5
<1> QED BY <1>2, <1>3, <1>4, <1>6 DEF r, large, time, zip64

\* It is read as what was written, and accepted.
LEMMA RecordReads ==
  ASSUME NEW e \in EntryOf
  PROVE  LET r == CentralRecord(e)
         IN /\ ExtraFits(r) /\ AesFits(r)
            /\ Listed(r) = e /\ Extended(r).offset = e.offset /\ Extended(r).packed = e.packed
            /\ r.sign = "central" /\ r.nameLen = 1 /\ r.commentLen = 1 /\ r.disk = 0
            /\ r.extraLen \in Nat
PROOF
<1> DEFINE r == CentralRecord(e)
           large == LargeFields(e)
           time == [id |-> "time", size |-> 1, values |-> << 7 >>]
           zip64 == [id |-> "zip64", size |-> Len(large),
                     values |-> [i \in DOMAIN large |-> e[large[i]]]]
           K == {"size", "packed", "offset"}
<1>1. /\ r = [sign |-> "central", name |-> e.name, method |-> "store", encrypted |-> FALSE,
              disk |-> 0, size |-> Short(e.size), packed |-> Short(e.packed),
              offset |-> Short(e.offset), nameLen |-> 1, extra |-> r.extra,
              extraLen |-> BlockLength(r.extra), commentLen |-> 1]
      /\ large = << >> => r.extra = << time >>
      /\ large # << >> => r.extra = << time, zip64 >>
  BY RecordIs
<1>2. /\ large \in Seq(K)
      /\ \A k \in K : (\E i \in DOMAIN large : large[i] = k) <=> e[k] >= Max32
      /\ \A i \in DOMAIN large : large[i] \in K
  BY LargeAre
<1>3. e.size \in Nat /\ e.packed \in Nat /\ e.offset \in Nat
  BY LimitsAreNat DEF EntryOf
<1>4. e = [name |-> e.name, size |-> e.size, packed |-> e.packed, offset |-> e.offset]
  BY DEF EntryOf
<1>5. time.size = 1 /\ time.id = "time" /\ zip64.size = Len(large) /\ zip64.id = "zip64"
      /\ zip64.values = [i \in DOMAIN large |-> e[large[i]]]
  OBVIOUS
<1> HIDE DEF r, time, zip64
<1>6. /\ r.sign = "central" /\ r.name = e.name /\ r.method = "store" /\ r.disk = 0
      /\ r.size = Short(e.size) /\ r.packed = Short(e.packed) /\ r.offset = Short(e.offset)
      /\ r.nameLen = 1 /\ r.extraLen = BlockLength(r.extra) /\ r.commentLen = 1
      /\ {"name", "size", "packed", "offset", "disk"} \subseteq DOMAIN r
  BY <1>1
<1>7. Given(r) = large
  <2>1. Marked(r, "disk", Max16) = << >>
    BY <1>6, LimitsAreNat DEF Marked
  <2>2. /\ Marked(r, "size", Max32) = Large(e, "size")
        /\ Marked(r, "packed", Max32) = Large(e, "packed")
        /\ Marked(r, "offset", Max32) = Large(e, "offset")
    BY <1>3, <1>6, LimitsAreNat DEF Marked, Large, Short
  <2>3. Given(r) = large \o << >>
    BY <2>1, <2>2 DEF Given, LargeFields
  <2> HIDE DEF large, K
  <2> QED BY <1>2, <2>3, ConcatEmptySeq
<1> HIDE DEF large
<1>8. Len(large) \in Nat /\ DOMAIN large = 1 .. Len(large)
  BY <1>2
<1>9. CASE large = << >>
  <2>1. r.extra = << time >> /\ DOMAIN r.extra = {1} /\ r.extra[1] = time
    BY <1>1, <1>9
  <2>2. Blocks(r, "zip64") = {} /\ Blocks(r, "aes") = {}
    BY <1>5, <2>1 DEF Blocks
  <2>3. DOMAIN large = {}
    BY <1>9
  <2>4. e.size < Max32 /\ e.packed < Max32 /\ e.offset < Max32
    <3>1. ~(e["size"] >= Max32) /\ ~(e["packed"] >= Max32) /\ ~(e["offset"] >= Max32)
      BY <1>2, <2>3
    <3> QED BY <1>3, <3>1, LimitsAreNat
  <2>5. r.size = e.size /\ r.packed = e.packed /\ r.offset = e.offset
    BY <1>3, <1>6, <2>4, LimitsAreNat DEF Short
  <2>6. Extended(r) = r
    BY <2>2 DEF Extended
  <2>7. Listed(r) = e
    BY <1>4, <1>6, <2>5, <2>6 DEF Listed
  <2>8. ExtraFits(r)
    <3>1. Max32 \notin {r.size, r.packed, r.offset}
      BY <1>3, <2>4, <2>5, LimitsAreNat
    <3> QED BY <1>6, <2>2, <3>1 DEF ExtraFits
  <2>9. AesFits(r)
    BY <1>6, <2>2 DEF AesFits, Strength
  <2>10. r.extraLen \in Nat
    <3>1. r.extra \in Seq({time}) /\ \A b \in {time} : b.size \in Nat
      BY <1>5, <2>1
    <3> QED BY <1>6, <3>1, BlockLengthIsNat
  <2> QED BY <1>6, <2>5, <2>6, <2>7, <2>8, <2>9, <2>10 DEF r
<1>10. CASE large # << >>
  <2>1. r.extra = << time, zip64 >> /\ DOMAIN r.extra = {1, 2}
        /\ r.extra[1] = time /\ r.extra[2] = zip64
    BY <1>1, <1>10
  <2>2. Blocks(r, "zip64") = {2} /\ Blocks(r, "aes") = {}
    BY <1>5, <2>1 DEF Blocks
  <2>3. LastBlock(r, "zip64") = zip64
    <3>1. Max({2}) = 2
      BY DEF Max
    <3> QED BY <2>1, <2>2, <3>1 DEF LastBlock
  <2>4. Extended(r) = [k \in DOMAIN r |->
          IF \E i \in DOMAIN large : large[i] = k
            THEN zip64.values[CHOOSE i \in DOMAIN large : large[i] = k]
            ELSE r[k]]
    BY <1>7, <2>2, <2>3 DEF Extended
  <2>5. ASSUME NEW k \in K
        PROVE  Extended(r)[k] = e[k]
    <3>0. k \in DOMAIN r
      BY <1>6
    <3>1. CASE e[k] >= Max32
      <4> DEFINE i == CHOOSE j \in DOMAIN large : large[j] = k
      <4>1. \E j \in DOMAIN large : large[j] = k
        BY <1>2, <3>1
      <4>2. i \in DOMAIN large /\ large[i] = k
        BY <4>1
      <4>3. Extended(r)[k] = zip64.values[i]
        BY <2>4, <3>0, <4>1
      <4> HIDE DEF i
      <4>4. zip64.values[i] = e[large[i]]
        BY <1>5, <4>2
      <4> QED BY <4>2, <4>3, <4>4
    <3>2. CASE ~(e[k] >= Max32)
      <4>1. ~(\E j \in DOMAIN large : large[j] = k)
        BY <1>2, <3>2
      <4>2. Extended(r)[k] = r[k]
        BY <2>4, <3>0, <4>1
      <4>3. r[k] = Short(e[k])
        BY <1>6
      <4> QED BY <3>2, <4>2, <4>3 DEF Short
    <3> QED BY <3>1, <3>2
  <2>6. ASSUME NEW k \in {"name", "disk"}
        PROVE  Extended(r)[k] = r[k]
    <3>1. ~(\E j \in DOMAIN large : large[j] = k) /\ k \in DOMAIN r
      BY <1>2, <1>6
    <3> QED BY <2>4, <3>1
  <2>7. /\ Extended(r).size = e.size /\ Extended(r).packed = e.packed
        /\ Extended(r).offset = e.offset /\ Extended(r).name = e.name /\ Extended(r).disk = 0
    <3>1. "size" \in K /\ "packed" \in K /\ "offset" \in K
      OBVIOUS
    <3>2. /\ Extended(r)["size"] = e["size"] /\ Extended(r)["packed"] = e["packed"]
          /\ Extended(r)["offset"] = e["offset"] /\ Extended(r)["name"] = r["name"]
          /\ Extended(r)["disk"] = r["disk"]
      BY <2>5, <2>6, <3>1
    <3> QED BY <1>6, <3>2
  <2>8. Listed(r) = e
    BY <1>4, <2>7 DEF Listed
  <2>9. ExtraFits(r)
    <3>1. \A i \in Blocks(r, "zip64") : r.extra[i].size >= Len(Given(r))
      BY <1>5, <1>7, <1>8, <2>1, <2>2
    <3>2. Blocks(r, "zip64") # {}
      BY <2>2
    <3> QED BY <1>6, <2>7, <3>1, <3>2 DEF ExtraFits
  <2>10. AesFits(r)
    BY <1>6, <2>2 DEF AesFits, Strength
  <2>11. r.extraLen \in Nat
    <3>1. r.extra \in Seq({time, zip64}) /\ \A b \in {time, zip64} : b.size \in Nat
      BY <1>5, <1>8, <2>1
    <3> QED BY <1>6, <3>1, BlockLengthIsNat
  <2> QED BY <1>6, <2>7, <2>8, <2>9, <2>10, <2>11 DEF r
<1> QED BY <1>9, <1>10

LEMMA FillersAre ==
  ASSUME NEW S, Filler \in S, NEW n \in Nat
  PROVE  /\ Fillers(n) \in Seq(S) /\ Len(Fillers(n)) = n
         /\ \A i \in 1 .. n : Fillers(n)[i] = Filler
BY DEF Fillers

\* A record and what is behind its first cell.
LEMMA CellsAre ==
  ASSUME NEW e \in EntryOf, NEW S, Filler \in S, CentralRecord(e) \in S
  PROVE  LET r == CentralRecord(e)
         IN /\ InCells(r) \in Seq(S) /\ Len(InCells(r)) = RecordLength(r) /\ InCells(r)[1] = r
            /\ RecordLength(r) \in Nat /\ RecordLength(r) > CentralLen
PROOF
<1> DEFINE r == CentralRecord(e)
           n == RecordLength(r) - 1
<1>1. r.nameLen = 1 /\ r.commentLen = 1 /\ r.extraLen \in Nat
  BY RecordReads
<1> HIDE DEF r
<1>2. RecordLength(r) \in Nat /\ RecordLength(r) > CentralLen /\ n \in Nat /\ 1 + n = RecordLength(r)
  BY <1>1, LimitsAreNat DEF RecordLength
<1> HIDE DEF n
<1>3. Fillers(n) \in Seq(S) /\ Len(Fillers(n)) = n
  BY <1>2, FillersAre
<1>4. << r >> \in Seq(S) /\ Len(<< r >>) = 1 /\ << r >>[1] = r
  BY DEF r
<1>5. InCells(r) = << r >> \o Fillers(n)
  BY DEF InCells, n
<1> DEFINE p == << r >>
           q == Fillers(n)
<1>6. p \in Seq(S) /\ Len(p) = 1 /\ p[1] = r /\ q \in Seq(S) /\ Len(q) = n /\ InCells(r) = p \o q
  BY <1>3, <1>4, <1>5
<1> HIDE DEF p, q
<1>7. /\ p \o q \in Seq(S) /\ Len(p \o q) = 1 + n
      /\ \A i \in 1 .. 1 + n : (p \o q)[i] = IF i <= 1 THEN p[i] ELSE q[i - 1]
  <2>1. p \in Seq(S) /\ q \in Seq(S)
    BY <1>6
  <2>2. /\ p \o q \in Seq(S) /\ Len(p \o q) = Len(p) + Len(q)
        /\ \A i \in 1 .. Len(p) + Len(q) : (p \o q)[i] = IF i <= Len(p) THEN p[i] ELSE q[i - Len(p)]
    BY <2>1, ConcatProperties
  <2>3. Len(p) = 1 /\ Len(q) = n
    BY <1>6
  <2> QED BY <2>2, <2>3
<1>8. (p \o q)[1] = r
  <2>1. 1 \in 1 .. 1 + n /\ 1 <= 1
    BY <1>2
  <2> QED BY <1>6, <1>7, <2>1
<1>9. InCells(r) \in Seq(S) /\ Len(InCells(r)) = RecordLength(r) /\ InCells(r)[1] = r
  BY <1>2, <1>6, <1>7, <1>8
<1> QED BY <1>2, <1>9 DEF r

Joins(k, part, u) == \A n \in 1 .. k : u[n] = u[n - 1] \o part[n]
Begins(s, t)      == Len(s) <= Len(t) /\ \A i \in 1 .. Len(s) : t[i] = s[i]

\* What is appended one after the other stays where it is.
LEMMA JoinKeeps ==
  ASSUME NEW S, NEW k \in Nat, NEW part \in [1 .. k -> Seq(S)], NEW u \in [0 .. k -> Seq(S)],
         Joins(k, part, u), NEW n \in 0 .. k, NEW m \in n .. k
  PROVE  Begins(u[n], u[m])
PROOF
<1> DEFINE Q == { d \in Nat : n + d <= k => /\ Len(u[n]) <= Len(u[n + d])
                                          /\ \A i \in 1 .. Len(u[n]) : u[n + d][i] = u[n][i] }
<1>1. 0 \in Q
  <2>1. n + 0 = n /\ u[n] \in Seq(S)
    OBVIOUS
  <2>2. Len(u[n]) \in Nat
    BY <2>1
  <2> QED BY <2>1, <2>2
<1>2. ASSUME NEW d \in Q PROVE d + 1 \in Q
  <2> SUFFICES ASSUME n + (d + 1) <= k
               PROVE  /\ Len(u[n]) <= Len(u[n + (d + 1)])
                      /\ \A i \in 1 .. Len(u[n]) : u[n + (d + 1)][i] = u[n][i]
    OBVIOUS
  <2> DEFINE o == n + d
  <2>1. d \in Nat /\ n + (d + 1) = o + 1 /\ o + 1 \in 1 .. k /\ o \in 0 .. k /\ (o + 1) - 1 = o
    OBVIOUS
  <2>2. Len(u[n]) <= Len(u[o]) /\ \A i \in 1 .. Len(u[n]) : u[o][i] = u[n][i]
    BY <2>1
  <2> HIDE DEF Q, o
  <2>3. u[o + 1] = u[o] \o part[o + 1]
    BY <2>1 DEF Joins
  <2> DEFINE a == u[o]
             b == part[o + 1]
  <2>4. a \in Seq(S) /\ b \in Seq(S) /\ u[n] \in Seq(S)
    BY <2>1
  <2> HIDE DEF a, b
  <2>5. /\ Len(a \o b) = Len(a) + Len(b) /\ Len(a) \in Nat /\ Len(b) \in Nat
        /\ \A i \in 1 .. Len(a) + Len(b) : (a \o b)[i] = IF i <= Len(a) THEN a[i] ELSE b[i - Len(a)]
    BY <2>4, ConcatProperties, LenProperties
  <2>6. Len(u[n]) \in Nat /\ Len(u[n]) <= Len(a) /\ \A i \in 1 .. Len(u[n]) : a[i] = u[n][i]
    BY <2>2, <2>4, LenProperties DEF a
  <2>7. Len(u[n]) <= Len(a \o b) /\ \A i \in 1 .. Len(u[n]) : (a \o b)[i] = u[n][i]
    BY <2>5, <2>6
  <2> QED BY <2>1, <2>3, <2>7 DEF a, b
<1>3. Q = Nat
  <2> HIDE DEF Q
  <2>1. Q \in SUBSET Nat
    BY DEF Q
  <2> QED BY <1>1, <1>2, <2>1, Induction
<1>4. Len(u[n]) <= Len(u[m]) /\ \A i \in 1 .. Len(u[n]) : u[m][i] = u[n][i]
  <2>1. m - n \in Nat /\ n + (m - n) = m /\ m <= k
    OBVIOUS
  <2>2. m - n \in Q
    <3> HIDE DEF Q
    <3> QED BY <1>3, <2>1
  <2>3. n + (m - n) <= k => /\ Len(u[n]) <= Len(u[n + (m - n)])
                            /\ \A i \in 1 .. Len(u[n]) : u[n + (m - n)][i] = u[n][i]
    BY <2>2
  <2> HIDE DEF Q
  <2> QED BY <2>1, <2>3
<1> QED BY <1>4 DEF Begins

CentralCells == {Filler} \union { CentralRecord(e) : e \in EntryOf }

\* The records of a list stand one behind the other in c.
StandIn(l, c, at) ==
  /\ at \in [0 .. Len(l) -> Nat] /\ at[0] = 0 /\ at[Len(l)] = Len(c)
  /\ \A n \in 1 .. Len(l) :
       /\ at[n] = at[n - 1] + RecordLength(CentralRecord(l[n])) /\ at[n] <= Len(c)
       /\ c[at[n - 1] + 1] = CentralRecord(l[n])

LEMMA CentralIs ==
  ASSUME NEW l \in Seq(EntryOf)
  PROVE  Central(l) \in Seq(CentralCells) /\ \E at : StandIn(l, Central(l), at)
PROOF
<1> DEFINE k == Len(l)
           S == CentralCells
           part == [n \in 1 .. k |-> InCells(CentralRecord(l[n]))]
           step == [n \in 1 .. k |-> [v \in Seq(S) |-> v \o part[n]]]
           upTo == CHOOSE f : f = [n \in 0 .. k |->
                     IF n = 0 THEN << >> ELSE f[n - 1] \o InCells(CentralRecord(l[n]))]
<1>1. k \in Nat /\ \A n \in 1 .. k : l[n] \in EntryOf
  OBVIOUS
<1>2. Filler \in S /\ \A e \in EntryOf : CentralRecord(e) \in S
  BY DEF CentralCells
<1>3. Central(l) = upTo[k]
  BY DEF Central
<1> HIDE DEF k, S
<1>4. ASSUME NEW n \in 1 .. k
      PROVE  LET r == CentralRecord(l[n])
             IN /\ part[n] = InCells(r) /\ part[n] \in Seq(S)
                /\ Len(part[n]) = RecordLength(r) /\ part[n][1] = r
                /\ RecordLength(r) \in Nat /\ RecordLength(r) > CentralLen
  <2>1. part[n] = InCells(CentralRecord(l[n]))
    OBVIOUS
  <2>2. l[n] \in EntryOf
    BY <1>1
  <2>3. LET r == CentralRecord(l[n])
        IN /\ InCells(r) \in Seq(S) /\ Len(InCells(r)) = RecordLength(r) /\ InCells(r)[1] = r
           /\ RecordLength(r) \in Nat /\ RecordLength(r) > CentralLen
    <3> HIDE DEF part, step, upTo
    <3> QED BY <1>2, <2>2, CellsAre
  <2> HIDE DEF part
  <2> QED BY <2>1, <2>3
<1>5. part \in [1 .. k -> Seq(S)]
  BY <1>4
<1>6. \A n \in 1 .. k : part[n] = InCells(CentralRecord(l[n]))
  OBVIOUS
<1> HIDE DEF part
<1>7. \A v, w \in Seq(S) : v \o w \in Seq(S)
  BY ConcatProperties
<1>8. step \in [1 .. k -> [Seq(S) -> Seq(S)]]
  BY <1>5, <1>7
<1>9. PICK g \in [0 .. k -> Seq(S)] : g[0] = << >> /\ \A n \in 1 .. k : g[n] = step[n][g[n - 1]]
  <2> HIDE DEF step
  <2>1. << >> \in Seq(S)
    OBVIOUS
  <2>2. GoesThrough(Seq(S), << >>, k, step)
    BY <1>1, <1>8, <2>1, RecursionUpTo
  <2> QED BY <2>2 DEF GoesThrough
<1>10. ASSUME NEW n \in 1 .. k PROVE g[n] = g[n - 1] \o part[n]
  <2>1. n - 1 \in 0 .. k
    BY <1>1
  <2>2. g[n - 1] \in Seq(S)
    BY <2>1
  <2> QED BY <1>9, <2>2
<1> HIDE DEF step
<1>11. g = [n \in 0 .. k |-> IF n = 0 THEN << >> ELSE g[n - 1] \o InCells(CentralRecord(l[n]))]
  <2>1. \A n \in 0 .. k : n # 0 => n \in 1 .. k
    BY <1>1
  <2> QED BY <1>6, <1>9, <1>10, <2>1
<1>12. upTo = [n \in 0 .. k |-> IF n = 0 THEN << >> ELSE upTo[n - 1] \o InCells(CentralRecord(l[n]))]
  BY <1>11
<1> HIDE DEF upTo
<1>13. upTo[0] = << >> /\ \A n \in 1 .. k : upTo[n] = upTo[n - 1] \o part[n]
  <2>1. 0 \in 0 .. k /\ \A n \in 1 .. k : n \in 0 .. k /\ n # 0
    BY <1>1
  <2> QED BY <1>6, <1>12, <2>1
<1>8a. upTo \in [0 .. k -> Seq(S)]
  <2> DEFINE P == { n \in Nat : n <= k => upTo[n] \in Seq(S) }
  <2>1. 0 \in P
    <3>1. << >> \in Seq(S)
      OBVIOUS
    <3> QED BY <1>13, <3>1
  <2>2. \A n \in P : n < k => n + 1 \in P
    <3> SUFFICES ASSUME NEW n \in P, n < k PROVE upTo[n + 1] \in Seq(S)
      OBVIOUS
    <3>1. n + 1 \in 1 .. k /\ (n + 1) - 1 = n /\ n <= k
      BY <1>1
    <3>2. upTo[n] \in Seq(S)
      BY <3>1
    <3>3. upTo[n + 1] = upTo[n] \o part[n + 1] /\ part[n + 1] \in Seq(S)
      <4> HIDE DEF P
      <4> QED BY <1>5, <1>13, <3>1
    <3> HIDE DEF P
    <3> QED BY <1>7, <3>2, <3>3
  <2>3. \A n \in 0 .. k : n \in P
    <3> HIDE DEF P
    <3>1. P \in SUBSET Nat
      BY DEF P
    <3> QED BY <1>1, <2>1, <2>2, <3>1, InductionUpTo
  <2>4. \A n \in 0 .. k : upTo[n] \in Seq(S)
    BY <2>3
  <2>5. upTo = [n \in 0 .. k |-> upTo[n]]
    BY <1>12
  <2> HIDE DEF P
  <2> QED BY <2>4, <2>5
<1>15. \A n \in 0 .. k : \A m \in n .. k : Begins(upTo[n], upTo[m])
  <2>1. Joins(k, part, upTo)
    BY <1>13 DEF Joins
  <2> QED BY <1>1, <1>5, <1>8a, <2>1, JoinKeeps
<1> DEFINE at == [n \in 0 .. k |-> Len(upTo[n])]
<1>16. at \in [0 .. k -> Nat] /\ at[0] = 0
  <2>1. Len(upTo[0]) = 0 /\ 0 \in 0 .. k
    BY <1>1, <1>13
  <2>2. \A n \in 0 .. k : Len(upTo[n]) \in Nat
    BY <1>8a, LenProperties
  <2> QED BY <2>1, <2>2
<1>17. ASSUME NEW n \in 1 .. k
       PROVE  /\ at[n] = at[n - 1] + RecordLength(CentralRecord(l[n])) /\ at[n] <= Len(upTo[k])
              /\ upTo[k][at[n - 1] + 1] = CentralRecord(l[n])
  <2> DEFINE a == upTo[n - 1]
             b == part[n]
             r == CentralRecord(l[n])
  <2>1. n - 1 \in 0 .. k /\ n \in 0 .. k /\ k \in n .. k
    BY <1>1
  <2>2. a \in Seq(S) /\ b \in Seq(S) /\ upTo[n] = a \o b
    BY <1>5, <1>13, <1>8a, <2>1
  <2>3. at[n - 1] = Len(a) /\ at[n] = Len(upTo[n]) /\ at[n] \in Nat
    BY <1>16, <2>1
  <2>4. Len(b) = RecordLength(r) /\ b[1] = r /\ RecordLength(r) \in Nat /\ RecordLength(r) > 0
    BY <1>4, LimitsAreNat
  <2>5. Len(upTo[n]) <= Len(upTo[k]) /\ \A i \in 1 .. Len(upTo[n]) : upTo[k][i] = upTo[n][i]
    BY <1>15, <2>1 DEF Begins
  <2> HIDE DEF a, b, r, at
  <2>6. /\ Len(a \o b) = Len(a) + Len(b) /\ Len(a) \in Nat
        /\ \A i \in 1 .. Len(a) + Len(b) : (a \o b)[i] = IF i <= Len(a) THEN a[i] ELSE b[i - Len(a)]
    BY <2>2, ConcatProperties, LenProperties
  <2>7. Len(a) + 1 \in 1 .. Len(a) + Len(b) /\ ~(Len(a) + 1 <= Len(a)) /\ (Len(a) + 1) - Len(a) = 1
    BY <2>4, <2>6
  <2>8. (a \o b)[Len(a) + 1] = r
    BY <2>4, <2>6, <2>7
  <2>9. upTo[k][Len(a) + 1] = r
    BY <2>2, <2>5, <2>6, <2>7, <2>8
  <2> QED BY <2>2, <2>3, <2>4, <2>5, <2>6, <2>9 DEF r
<1>18. k \in 0 .. k
  BY <1>1
<1>19. at[k] = Len(upTo[k]) /\ upTo[k] \in Seq(S)
  BY <1>8a, <1>18
<1> HIDE DEF at
<1>20. StandIn(l, upTo[k], at)
  BY <1>16, <1>17, <1>19 DEF StandIn, k
<1> QED BY <1>3, <1>19, <1>20 DEF S

\* Room for every entry.
LEMMA DataIs ==
  ASSUME NEW l \in Seq(EntryOf)
  PROVE  /\ DataFor(l) \in Nat
         /\ \A i \in 1 .. Len(l) : l[i].offset + LocalLen + l[i].packed <= DataFor(l)
PROOF
<1> DEFINE S == {0} \union { l[i].offset + LocalLen + l[i].packed : i \in DOMAIN l }
           b == Max64 + LocalLen + Max64
<1>1. \A i \in DOMAIN l : l[i].offset \in 0 .. Max64 /\ l[i].packed \in 0 .. Max64
  <2> TAKE i \in DOMAIN l
  <2>1. l[i] \in EntryOf
    OBVIOUS
  <2> QED BY <2>1 DEF EntryOf
<1>2. DOMAIN l = 1 .. Len(l)
  OBVIOUS
<1>3. b \in Nat
  BY LimitsAreNat
<1>4. S \in SUBSET Nat /\ \A x \in S : x <= b
  BY <1>1, LimitsAreNat
<1>5. S \in SUBSET Int /\ S # {} /\ b \in Int
  BY <1>3, <1>4
<1>6. \A i \in 1 .. Len(l) : l[i].offset + LocalLen + l[i].packed \in S
  BY <1>2
<1>7. DataFor(l) = Max(S)
  BY DEF DataFor
<1> HIDE DEF S, b
<1>8. Max(S) \in S /\ \A x \in S : x <= Max(S)
  BY <1>4, <1>5, MaxIs
<1> QED BY <1>4, <1>6, <1>7, <1>8

\* The cells of a written file.
EndCells == [sign : {"end"}, disk : Nat, cdDisk : Nat, entriesDisk : Nat, entries : Nat,
             size : Nat, offset : Nat, comment : Nat]
OtherCells == CentralCells
  \union [sign : {"end64"}, rest : Nat, disk : Nat, cdDisk : Nat, entriesDisk : Nat, entries : Nat,
          size : Nat, offset : Nat]
  \union [sign : {"locator"}, disk : Nat, at : Nat, disks : Nat]
AllCells == OtherCells \union EndCells

LEMMA OthersAreOther ==
  ASSUME NEW x \in OtherCells
  PROVE  x.sign # "end"
PROOF
<1>1. \A e \in EntryOf : CentralRecord(e).sign = "central"
  BY RecordReads
<1> QED BY <1>1 DEF OtherCells, CentralCells, Filler

\* Whether a writer uses ZIP64, and its records.
Fit(n, max, z) == IF n >= max \/ (z /\ max = Max32) THEN max ELSE n
UsesZip64(l, data, z) ==
  (Len(l) >= Max16 \/ data >= Max32 \/ Len(Central(l)) >= Max32) \/ z
TheEnd64(l, data) ==
  [sign |-> "end64", rest |-> End64Rest, disk |-> 0, cdDisk |-> 0, entriesDisk |-> Len(l),
   entries |-> Len(l), size |-> Len(Central(l)), offset |-> data]
TheLocator(l, data) ==
  [sign |-> "locator", disk |-> 0, at |-> data + Len(Central(l)), disks |-> 1]
TheEnd(l, data, c, z) ==
  [sign |-> "end", disk |-> 0, cdDisk |-> 0, comment |-> Len(c),
   entriesDisk |-> Fit(Len(l), Max16, z), entries |-> Fit(Len(l), Max16, z),
   size |-> Fit(Len(Central(l)), Max32, z), offset |-> Fit(data, Max32, z)]

\* at is where the end record of the file f stands.
LaidOut(f, at, l, data, c, z) ==
  /\ f \in Seq(AllCells) /\ at \in Nat /\ Len(f) = at + EndLen + Len(c)
  /\ \A j \in 1 .. Len(Central(l)) : f[data + j] = Central(l)[j]
  /\ \A i \in 1 .. at : f[i].sign # "end"
  /\ f[at + 1] = TheEnd(l, data, c, z)
  /\ \A i \in at + 2 .. at + EndLen : f[i].sign # "end"
  /\ \A j \in 1 .. Len(c) : f[at + EndLen + j] = c[j]
  /\ IF UsesZip64(l, data, z)
       THEN /\ at = data + Len(Central(l)) + 2
            /\ f[at] = TheLocator(l, data) /\ f[at - 1] = TheEnd64(l, data)
       ELSE at = data + Len(Central(l))

LEMMA WrittenIs ==
  ASSUME NEW l \in Seq(EntryOf), NEW data \in Nat, NEW c \in Seq({Filler} \union EndCells),
         NEW z \in BOOLEAN
  PROVE  \E at : LaidOut(Written(l, data, c, z), at, l, data, c, z)
PROOF
<1> DEFINE m == Central(l)
           uses == UsesZip64(l, data, z)
           zz == IF uses THEN << TheEnd64(l, data), TheLocator(l, data) >> ELSE << >>
           last == TheEnd(l, data, c, z)
           p0 == Fillers(data)
           p1 == p0 \o m
           p2 == p1 \o zz
           p3 == p2 \o << last >>
           p4 == p3 \o Fillers(EndLen - 1)
           f == p4 \o c
           at == Len(p2)
<1>1. Written(l, data, c, z) = f
  BY DEF Written, UsesZip64, TheEnd64, TheLocator, TheEnd, Fit
<1>2. m \in Seq(OtherCells) /\ Len(m) \in Nat
  <2>1. m \in Seq(CentralCells) /\ CentralCells \subseteq OtherCells
    BY CentralIs DEF OtherCells
  <2> HIDE DEF m
  <2> QED BY <2>1, SeqMonotonic, LenProperties
<1>3. Len(l) \in Nat /\ Len(c) \in Nat
  BY LenProperties
<1>4. last \in AllCells
  <2>1. \A n, max \in Nat : Fit(n, max, z) \in Nat
    BY DEF Fit
  <2> QED BY <1>2, <1>3, <2>1, LimitsAreNat DEF TheEnd, AllCells, EndCells
<1>5. TheEnd64(l, data) \in OtherCells /\ TheLocator(l, data) \in OtherCells
  <2>1. data + Len(Central(l)) \in Nat
    BY <1>2
  <2> QED BY <1>2, <1>3, <2>1 DEF TheEnd64, End64Rest, TheLocator, OtherCells
<1>6. /\ zz \in Seq(OtherCells) /\ Len(zz) = IF uses THEN 2 ELSE 0
      /\ uses => zz[1] = TheEnd64(l, data) /\ zz[2] = TheLocator(l, data)
  <2> DEFINE a == TheEnd64(l, data)
             b == TheLocator(l, data)
  <2>1. a \in OtherCells /\ b \in OtherCells
    BY <1>5
  <2> HIDE DEF a, b, uses
  <2>2. << a, b >> \in Seq(OtherCells) /\ Len(<< a, b >>) = 2 /\ << a, b >>[1] = a /\ << a, b >>[2] = b
    BY <2>1
  <2>3. << >> \in Seq(OtherCells) /\ Len(<< >>) = 0
    OBVIOUS
  <2>4. zz = IF uses THEN << a, b >> ELSE << >>
    BY DEF a, b
  <2> HIDE DEF zz
  <2> QED BY <2>2, <2>3, <2>4 DEF a, b
<1> HIDE DEF uses, zz, last
<1>7. Filler \in OtherCells /\ OtherCells \subseteq AllCells /\ {Filler} \union EndCells \subseteq AllCells
  BY DEF OtherCells, CentralCells, AllCells
<1>8. p0 \in Seq(OtherCells) /\ Len(p0) = data
  BY <1>7, FillersAre
<1> HIDE DEF m, p0
<1>9. /\ p1 \in Seq(OtherCells) /\ Len(p1) = data + Len(m)
      /\ \A j \in 1 .. Len(m) : p1[data + j] = m[j]
  <2>1. IsJoined(OtherCells, p0, m, p1)
    BY <1>2, <1>8, Appended
  <2> HIDE DEF p1
  <2> QED BY <1>8, <2>1 DEF IsJoined
<1> HIDE DEF p1
<1>10. /\ p2 \in Seq(OtherCells) /\ Len(p2) = data + Len(m) + Len(zz)
       /\ \A i \in 1 .. data + Len(m) : p2[i] = p1[i]
       /\ \A j \in 1 .. Len(zz) : p2[data + Len(m) + j] = zz[j]
  <2>1. IsJoined(OtherCells, p1, zz, p2)
    BY <1>6, <1>9, Appended
  <2> HIDE DEF p2
  <2> QED BY <1>9, <2>1 DEF IsJoined
<1> HIDE DEF p2
<1>11. at \in Nat /\ p2 \in Seq(AllCells)
  BY <1>7, <1>10, SeqMonotonic, LenProperties
<1>12. /\ p3 \in Seq(AllCells) /\ Len(p3) = at + 1
       /\ \A i \in 1 .. at : p3[i] = p2[i]
       /\ p3[at + 1] = last
  <2> DEFINE e == << last >>
  <2>1. e \in Seq(AllCells) /\ Len(e) = 1 /\ e[1] = last /\ 1 \in 1 .. 1
    BY <1>4
  <2>2. IsJoined(AllCells, p2, e, p3)
    <3>1. IsJoined(AllCells, p2, e, p2 \o e)
      <4> HIDE DEF e
      <4> QED BY <1>11, <2>1, Appended
    <3> QED BY <3>1
  <2> HIDE DEF e, p3, at
  <2>3. Len(p2) = at
    BY DEF at
  <2> QED BY <2>1, <2>2, <2>3 DEF IsJoined
<1> HIDE DEF p3
<1>13. /\ p4 \in Seq(AllCells) /\ Len(p4) = at + EndLen
       /\ \A i \in 1 .. at + 1 : p4[i] = p3[i]
       /\ \A i \in at + 2 .. at + EndLen : p4[i] = Filler
  <2> DEFINE e == Fillers(EndLen - 1)
  <2>1. EndLen - 1 \in Nat /\ Filler \in AllCells
    BY <1>7, LimitsAreNat
  <2>2. e \in Seq(AllCells) /\ Len(e) = EndLen - 1 /\ \A i \in 1 .. EndLen - 1 : e[i] = Filler
    BY <2>1, FillersAre
  <2>3. IsJoined(AllCells, p3, e, p4)
    <3>1. IsJoined(AllCells, p3, e, p3 \o e)
      <4> HIDE DEF e
      <4> QED BY <1>12, <2>2, Appended
    <3> QED BY <3>1
  <2> HIDE DEF e, p4, at
  <2>4. /\ p4 \in Seq(AllCells) /\ Len(p4) = (at + 1) + (EndLen - 1)
        /\ \A i \in 1 .. at + 1 : p4[i] = p3[i]
        /\ \A j \in 1 .. EndLen - 1 : p4[(at + 1) + j] = e[j]
    BY <1>12, <2>2, <2>3 DEF IsJoined
  <2>5. ASSUME NEW i \in at + 2 .. at + EndLen PROVE p4[i] = Filler
    <3>1. i - (at + 1) \in 1 .. EndLen - 1 /\ (at + 1) + (i - (at + 1)) = i
      BY <1>11, LimitsAreNat
    <3> QED BY <2>2, <2>4, <3>1
  <2>6. (at + 1) + (EndLen - 1) = at + EndLen
    BY <1>11, LimitsAreNat
  <2> QED BY <2>4, <2>5, <2>6
<1> HIDE DEF p4
<1>8a. /\ f \in Seq(AllCells) /\ Len(f) = at + EndLen + Len(c)
       /\ \A i \in 1 .. at + EndLen : f[i] = p4[i]
       /\ \A j \in 1 .. Len(c) : f[at + EndLen + j] = c[j]
  <2>1. c \in Seq(AllCells)
    BY <1>7, SeqMonotonic
  <2>2. IsJoined(AllCells, p4, c, f)
    BY <1>13, <2>1, Appended
  <2> HIDE DEF f, at
  <2> QED BY <1>13, <2>2 DEF IsJoined
<1> HIDE DEF f
<1>15. \A i \in 1 .. at : f[i] = p2[i]
  <2> TAKE i \in 1 .. at
  <2>1. i \in 1 .. at + 1 /\ i \in 1 .. at + EndLen
    BY <1>11, LimitsAreNat
  <2> QED BY <1>12, <1>13, <1>8a, <2>1
<1>16. \A i \in 1 .. at : f[i].sign # "end"
  <2> TAKE i \in 1 .. at
  <2>1. p2[i] \in OtherCells
    BY <1>10, ElementOfSeq
  <2> QED BY <1>15, <2>1, OthersAreOther
<1>17. f[at + 1] = last
  <2>1. at + 1 \in 1 .. at + 1 /\ at + 1 \in 1 .. at + EndLen
    BY <1>11, LimitsAreNat
  <2> QED BY <1>12, <1>13, <1>8a, <2>1
<1>18. \A i \in at + 2 .. at + EndLen : f[i].sign # "end"
  <2> TAKE i \in at + 2 .. at + EndLen
  <2>1. i \in 1 .. at + EndLen
    BY <1>11, LimitsAreNat
  <2> QED BY <1>13, <1>8a, <2>1 DEF Filler
<1>19. \A j \in 1 .. Len(m) : f[data + j] = m[j]
  <2> TAKE j \in 1 .. Len(m)
  <2>1. data + j \in 1 .. at /\ data + j \in 1 .. data + Len(m)
    BY <1>2, <1>6, <1>10
  <2> QED BY <1>9, <1>10, <1>15, <2>1
<1>20. ASSUME uses
       PROVE  /\ at = data + Len(m) + 2
              /\ f[at] = TheLocator(l, data) /\ f[at - 1] = TheEnd64(l, data)
  <2>1. Len(zz) = 2 /\ zz[1] = TheEnd64(l, data) /\ zz[2] = TheLocator(l, data)
    BY <1>6, <1>20
  <2>2. at = data + Len(m) + 2
    BY <1>10, <2>1
  <2>3. at \in 1 .. at /\ at - 1 \in 1 .. at /\ at - 1 = data + Len(m) + 1 /\ 1 \in 1 .. 2 /\ 2 \in 1 .. 2
    BY <1>2, <2>2
  <2>4. p2[data + Len(m) + 1] = zz[1] /\ p2[data + Len(m) + 2] = zz[2]
    BY <1>10, <2>1, <2>3
  <2> QED BY <1>15, <2>1, <2>2, <2>3, <2>4
<1>21. ~uses => at = data + Len(m)
  BY <1>2, <1>6, <1>10
<1> HIDE DEF at
<1>22. LaidOut(f, at, l, data, c, z)
  BY <1>11, <1>8a, <1>16, <1>17, <1>18, <1>19, <1>20, <1>21 DEF LaidOut, at, m, uses, last
<1> QED BY <1>1, <1>22

\* What the assumption says of one file.
LEMMA ListingIs ==
  ASSUME NEW l \in Listings64
  PROVE  /\ l \in Seq(EntryOf) /\ Len(l) \in Nat /\ DataFor(l) \in Nat /\ Len(Central(l)) \in Nat
         /\ DataFor(l) + Len(Central(l)) <= Max64
PROOF
<1>1. l \in Seq(EntryOf) /\ DataFor(l) + Len(Central(l)) <= Max64
  BY WrittenAssumption DEF EntryOf
<1>2. Len(Central(l)) \in Nat
  BY <1>1, CentralIs, LenProperties
<1> QED BY <1>1, <1>2, DataIs, LenProperties

LEMMA CommentIs ==
  ASSUME NEW c \in Comments
  PROVE  /\ c \in Seq({Filler} \union EndCells) /\ Len(c) \in Nat /\ Len(c) <= Max16
         /\ \A i \in 1 .. Len(c) :
              c[i].sign = "end" => c[i].comment \in Nat /\ i - 1 + EndLen + c[i].comment # Len(c)
PROOF
<1>1. /\ c \in Seq({Filler} \union EndCells) /\ Len(c) <= Max16
      /\ \A i \in DOMAIN c : c[i].sign = "end" => i - 1 + EndLen + c[i].comment # Len(c)
  BY WrittenAssumption DEF EndCells
<1>2. Len(c) \in Nat /\ DOMAIN c = 1 .. Len(c)
  BY <1>1, LenProperties
<1>3. ASSUME NEW i \in 1 .. Len(c), c[i].sign = "end"
      PROVE  c[i].comment \in Nat
  <2>1. c[i] \in {Filler} \union EndCells
    BY <1>1, ElementOfSeq
  <2>2. Filler.sign # "end"
    BY DEF Filler
  <2> QED BY <1>3, <2>1, <2>2 DEF EndCells
<1> QED BY <1>1, <1>2, <1>3

LEMMA MaxOfTwo ==
  ASSUME NEW x \in Int
  PROVE  Max({0, x}) = IF x > 0 THEN x ELSE 0
PROOF
<1>1. CASE x > 0
  <2>1. {0, x} \in SUBSET Int /\ {0, x} # {} /\ \A y \in {0, x} : y <= x
    BY <1>1
  <2>2. Max({0, x}) \in {0, x} /\ \A y \in {0, x} : y <= Max({0, x})
    BY <2>1, MaxIs
  <2> QED BY <1>1, <2>2
<1>2. CASE ~(x > 0)
  <2>1. {0, x} \in SUBSET Int /\ {0, x} # {} /\ \A y \in {0, x} : y <= 0
    BY <1>2
  <2>2. Max({0, x}) \in {0, x} /\ \A y \in {0, x} : y <= Max({0, x})
    BY <2>1, MaxIs
  <2> QED BY <1>2, <2>2
<1> QED BY <1>1, <1>2

\* The end record is the last one whose comment ends with the file.
LEMMA EndIsFirst ==
  ASSUME NEW l, NEW data, NEW c \in Comments, NEW z, NEW f, NEW at,
         LaidOut(f, at, l, data, c, z)
  PROVE  EndRecords(f) # {} /\ Max(EndRecords(f)) = at
PROOF
<1>1. /\ at \in Nat /\ Len(f) = at + EndLen + Len(c)
      /\ f[at + 1] = TheEnd(l, data, c, z)
      /\ \A i \in at + 2 .. at + EndLen : f[i].sign # "end"
      /\ \A j \in 1 .. Len(c) : f[at + EndLen + j] = c[j]
  BY DEF LaidOut
<1>2. /\ Len(c) \in Nat /\ Len(c) <= Max16
      /\ \A i \in 1 .. Len(c) :
              c[i].sign = "end" => c[i].comment \in Nat /\ i - 1 + EndLen + c[i].comment # Len(c)
  BY CommentIs
<1>3. f[at + 1].sign = "end" /\ f[at + 1].comment = Len(c)
  BY <1>1 DEF TheEnd
<1> DEFINE x == Len(f) - (EndLen + Max16)
           S == EndRecords(f)
<1>4. x \in Int /\ x <= at /\ Max({0, x}) \in Nat /\ Max({0, x}) <= at
  <2>1. x \in Int /\ x <= at
    BY <1>1, <1>2, LimitsAreNat
  <2> QED BY <1>1, <2>1, MaxOfTwo
<1>5. S = { a \in Max({0, x}) .. Len(f) - EndLen :
              Is(f, a, "end") /\ a + EndLen + Cell(f, a).comment = Len(f) }
  BY DEF EndRecords
<1>6. at \in S
  <2>1. at \in Max({0, x}) .. Len(f) - EndLen /\ at \in 0 .. Len(f) - 1
    BY <1>1, <1>2, <1>4, LimitsAreNat
  <2>2. Is(f, at, "end") /\ at + EndLen + Cell(f, at).comment = Len(f)
    BY <1>1, <1>3, <2>1 DEF Is, Cell
  <2> QED BY <1>5, <2>1, <2>2
<1> HIDE DEF x
<1>7. ASSUME NEW a \in S PROVE a \in Int /\ a <= at
  <2>1. a \in Int /\ a >= 0 /\ a <= Len(f) - 1 /\ f[a + 1].sign = "end"
        /\ a + EndLen + f[a + 1].comment = Len(f)
    BY <1>1, <1>2, <1>4, <1>5, LimitsAreNat DEF Is, Cell
  <2>2. CASE a > at /\ a + 1 <= at + EndLen
    <3>1. a + 1 \in at + 2 .. at + EndLen
      BY <1>1, <2>1, <2>2, LimitsAreNat
    <3> QED BY <1>1, <2>1, <3>1
  <2>3. CASE a > at /\ a + 1 > at + EndLen
    <3> DEFINE j == a + 1 - (at + EndLen)
    <3>1. j \in 1 .. Len(c) /\ at + EndLen + j = a + 1
      BY <1>1, <1>2, <2>1, <2>3, LimitsAreNat
    <3>2. c[j].sign = "end" /\ a + EndLen + c[j].comment = Len(f)
      BY <1>1, <2>1, <3>1
    <3>3. c[j].comment \in Nat /\ j - 1 + EndLen + c[j].comment # Len(c)
      BY <1>2, <3>1, <3>2
    <3>4. a = j - 1 + at + EndLen
      BY <1>1, <2>1, LimitsAreNat
    <3> HIDE DEF j
    <3>5. j \in Int
      BY <3>1
    <3> QED BY <1>1, <1>2, <3>2, <3>3, <3>4, <3>5, LimitsAreNat
  <2> QED BY <1>1, <2>1, <2>2, <2>3, LimitsAreNat
<1> HIDE DEF S
<1>8. S \in SUBSET Int /\ S # {} /\ at \in Int
  BY <1>1, <1>6, <1>7
<1>9. Max(S) \in S /\ \A a \in S : a <= Max(S)
  BY <1>7, <1>8, MaxIs
<1>10. Max(S) <= at /\ at <= Max(S) /\ Max(S) \in Int
  BY <1>6, <1>7, <1>9
<1> QED BY <1>8, <1>10 DEF S

\* What zipy_open finds of what was written.
TheDirectory(l) ==
  [found |-> TRUE, entries |-> Len(l), size |-> Len(Central(l)), offset |-> DataFor(l)]

LEMMA DirectoryIs ==
  ASSUME NEW l \in Listings64, NEW c \in Comments, NEW z \in BOOLEAN, NEW f, NEW at,
         LaidOut(f, at, l, DataFor(l), c, z)
  PROVE  FoundDirectory(f) = TheDirectory(l)
PROOF
<1> DEFINE data == DataFor(l)
           size == Len(Central(l))
           n == Len(l)
           last == TheEnd(l, data, c, z)
           dir == IF NeedsZip64(last) THEN Zip64(f, at) ELSE Zip32(last)
<1>1. /\ n \in Nat /\ data \in Nat /\ size \in Nat /\ data + size <= Max64
  BY ListingIs
<1>2. /\ at \in Nat /\ Len(f) = at + EndLen + Len(c) /\ Cell(f, at) = last /\ Len(c) \in Nat
  BY CommentIs DEF LaidOut, Cell
<1>3. FoundDirectory(f) = IF dir.found /\ dir.offset + dir.size <= Max64 /\ dir.offset + dir.size <= at
                            THEN dir ELSE Refused
  BY <1>2, EndIsFirst DEF FoundDirectory
<1>4. /\ last.disk = 0 /\ last.cdDisk = 0 /\ last.entriesDisk = last.entries
      /\ last.entries = Fit(n, Max16, z) /\ last.size = Fit(size, Max32, z)
      /\ last.offset = Fit(data, Max32, z)
  BY DEF TheEnd
<1> HIDE DEF last, data, size, n
<1>5. CASE UsesZip64(l, data, z)
  <2>1. /\ at = data + size + 2
        /\ f[at] = TheLocator(l, data) /\ f[at - 1] = TheEnd64(l, data)
    BY <1>5 DEF LaidOut, data, size
  <2>2. NeedsZip64(last)
    <3>1. n >= Max16 \/ data >= Max32 \/ size >= Max32 \/ z
      BY <1>5 DEF UsesZip64, n, size
    <3>2. last.entries = Max16 \/ last.size = Max32 \/ last.offset = Max32
      BY <1>4, <3>1 DEF Fit
    <3> QED BY <3>2 DEF NeedsZip64
  <2> DEFINE locator == TheLocator(l, data)
             end64 == TheEnd64(l, data)
  <2>3. /\ Cell(f, at - 1) = locator /\ Cell(f, locator.at) = end64 /\ locator.at = data + size
    <3>1. (at - 1) + 1 = at /\ (data + size) + 1 = at - 1
      BY <1>1, <2>1
    <3>2. locator.at = data + size
      BY DEF TheLocator, size
    <3> QED BY <2>1, <3>1, <3>2 DEF Cell
  <2>4. /\ Is(f, at - 1, "locator") /\ locator.disk = 0 /\ locator.disks = 1
        /\ Is(f, locator.at, "end64") /\ end64.rest >= End64Rest
        /\ end64.disk = 0 /\ end64.cdDisk = 0
        /\ end64.entriesDisk = end64.entries
    <3>1. at - 1 \in 0 .. Len(f) - 1 /\ data + size \in 0 .. Len(f) - 1
      BY <1>1, <1>2, <2>1, LimitsAreNat
    <3>2. locator.sign = "locator" /\ end64.sign = "end64"
      BY DEF TheLocator, TheEnd64
    <3> QED BY <2>3, <3>1, <3>2 DEF TheLocator, TheEnd64, End64Rest, Is
  <2>5. end64.entries = n /\ end64.size = size /\ end64.offset = data
    BY DEF TheEnd64, n, size
  <2> HIDE DEF locator, end64
  <2>6. dir = [found |-> TRUE, entries |-> n, size |-> size, offset |-> data]
    BY <2>2, <2>3, <2>4, <2>5 DEF Zip64
  <2> HIDE DEF dir
  <2>7. FoundDirectory(f) = dir
    BY <1>1, <1>3, <2>1, <2>6
  <2> QED BY <2>6, <2>7 DEF TheDirectory, n, size, data
<1>6. CASE ~UsesZip64(l, data, z)
  <2>1. at = data + size
    BY <1>6 DEF LaidOut, data, size
  <2>2. n < Max16 /\ data < Max32 /\ size < Max32 /\ ~z
    BY <1>1, <1>6, LimitsAreNat DEF UsesZip64, n, size
  <2>3. last.entries = n /\ last.size = size /\ last.offset = data
    BY <1>1, <1>4, <2>2, LimitsAreNat DEF Fit
  <2>4. ~NeedsZip64(last)
    BY <1>1, <1>4, <2>2, <2>3, LimitsAreNat DEF NeedsZip64
  <2>5. dir = [found |-> TRUE, entries |-> n, size |-> size, offset |-> data]
    BY <1>4, <2>3, <2>4 DEF Zip32
  <2> HIDE DEF dir
  <2>6. FoundDirectory(f) = dir
    BY <1>1, <1>3, <2>1, <2>5
  <2> QED BY <2>5, <2>6 DEF TheDirectory, n, size, data
<1> QED BY <1>5, <1>6

\* g is what the loop over the records goes through.
Walks(f, dir, mapped, g) ==
  /\ DOMAIN g = 0 .. dir.entries /\ g = [n \in DOMAIN g |-> g[n]]
  /\ g[0] = [ok |-> TRUE, at |-> dir.offset, list |-> << >>]
  /\ \A n \in 1 .. dir.entries : g[n] = NextRecord(f, dir, mapped, g[n - 1])

LEMMA WalkedIs ==
  ASSUME NEW f, NEW dir, dir.entries \in Nat, NEW mapped, NEW g, Walks(f, dir, mapped, g)
  PROVE  Walked(f, dir, mapped) = g[dir.entries]
PROOF
<1> DEFINE k == dir.entries
           first == [ok |-> TRUE, at |-> dir.offset, list |-> << >>]
           upTo == CHOOSE h : h = [n \in 0 .. k |->
                     IF n = 0 THEN first ELSE NextRecord(f, dir, mapped, h[n - 1])]
<1>1. Walked(f, dir, mapped) = upTo[k]
  BY DEF Walked
<1>2. k \in Nat
  OBVIOUS
<1>3. /\ g = [n \in 0 .. k |-> g[n]] /\ g[0] = first
      /\ \A n \in 1 .. k : g[n] = NextRecord(f, dir, mapped, g[n - 1])
  BY DEF Walks
<1> HIDE DEF k, first
<1>4. g = [n \in 0 .. k |-> IF n = 0 THEN first ELSE NextRecord(f, dir, mapped, g[n - 1])]
  <2>1. ASSUME NEW n \in 0 .. k
        PROVE  g[n] = IF n = 0 THEN first ELSE NextRecord(f, dir, mapped, g[n - 1])
    <3>1. n # 0 => n \in 1 .. k
      BY <1>2
    <3> QED BY <1>3, <3>1
  <2> QED BY <1>3, <2>1
<1>5. upTo = [n \in 0 .. k |-> IF n = 0 THEN first ELSE NextRecord(f, dir, mapped, upTo[n - 1])]
  BY <1>4
<1> HIDE DEF upTo
<1> DEFINE P == { n \in Nat : n <= k => upTo[n] = g[n] }
<1>6. 0 \in P
  <2>1. 0 \in 0 .. k
    BY <1>2
  <2> QED BY <1>3, <1>5, <2>1
<1>7. \A n \in P : n < k => n + 1 \in P
  <2> SUFFICES ASSUME NEW n \in P, n < k PROVE upTo[n + 1] = g[n + 1]
    OBVIOUS
  <2>1. n + 1 \in 0 .. k /\ n + 1 # 0 /\ (n + 1) - 1 = n /\ n + 1 \in 1 .. k /\ n <= k
    BY <1>2
  <2>2. upTo[n] = g[n]
    BY <2>1
  <2> HIDE DEF P
  <2>3. upTo[n + 1] = NextRecord(f, dir, mapped, upTo[n])
    BY <1>5, <2>1
  <2>4. g[n + 1] = NextRecord(f, dir, mapped, g[n])
    BY <1>3, <2>1
  <2> QED BY <2>2, <2>3, <2>4
<1>8. upTo[k] = g[k]
  <2>1. k \in P
    <3> HIDE DEF P
    <3>1. P \in SUBSET Nat
      BY DEF P
    <3>2. \A n \in 0 .. k : n \in P
      BY <1>2, <1>6, <1>7, <3>1, InductionUpTo
    <3> QED BY <1>2, <3>2
  <2>2. k <= k
    BY <1>2
  <2>3. k <= k => upTo[k] = g[k]
    BY <2>1
  <2> HIDE DEF P
  <2> QED BY <2>2, <2>3
<1> QED BY <1>1, <1>8 DEF k

LEMMA OneMoreOf ==
  ASSUME NEW S, NEW l \in Seq(S), NEW n \in 1 .. Len(l)
  PROVE  Append(SubSeq(l, 1, n - 1), l[n]) = SubSeq(l, 1, n)
PROOF
<1> DEFINE s == SubSeq(l, 1, n - 1)
           t == SubSeq(l, 1, n)
           u == Append(s, l[n])
<1>1. Len(l) \in Nat /\ n \in Nat /\ l[n] \in S /\ \A i \in 1 .. n : l[i] \in S
  BY LenProperties, ElementOfSeq
<1>2. /\ s \in Seq(S) /\ Len(s) = n - 1 /\ \A i \in 1 .. n - 1 : s[i] = l[i]
  <2>1. \A i \in 1 .. n - 1 : l[i] \in S
    BY <1>1
  <2>2. /\ SubSeq(l, 1, n - 1) \in Seq(S)
        /\ Len(SubSeq(l, 1, n - 1)) = IF 1 <= n - 1 THEN (n - 1) - 1 + 1 ELSE 0
        /\ \A i \in 1 .. (n - 1) - 1 + 1 : SubSeq(l, 1, n - 1)[i] = l[1 + i - 1]
    BY <1>1, <2>1, SubSeqProperties
  <2> HIDE DEF s
  <2> QED BY <1>1, <2>2 DEF s
<1>3. /\ t \in Seq(S) /\ Len(t) = n /\ \A i \in 1 .. n : t[i] = l[i]
  <2>2. /\ SubSeq(l, 1, n) \in Seq(S)
        /\ Len(SubSeq(l, 1, n)) = IF 1 <= n THEN n - 1 + 1 ELSE 0
        /\ \A i \in 1 .. n - 1 + 1 : SubSeq(l, 1, n)[i] = l[1 + i - 1]
    BY <1>1, SubSeqProperties
  <2> HIDE DEF t
  <2> QED BY <1>1, <2>2 DEF t
<1> HIDE DEF s, t
<1>4. /\ u \in Seq(S) /\ Len(u) = n
      /\ \A i \in 1 .. n - 1 : u[i] = s[i]
      /\ u[n] = l[n]
  BY <1>1, <1>2
<1> HIDE DEF u
<1>5. \A i \in 1 .. n : u[i] = t[i]
  <2> TAKE i \in 1 .. n
  <2>1. CASE i = n
    BY <1>3, <1>4, <2>1
  <2>2. CASE i # n
    <3>1. i \in 1 .. n - 1
      BY <2>2
    <3> QED BY <1>2, <1>3, <1>4, <3>1
  <2> QED BY <2>1, <2>2
<1>6. u = t
  BY <1>3, <1>4, <1>5, SeqEqual
<1> QED BY <1>6 DEF s, t, u

\* Each record of a written file is there, fits, and is listed as its entry.
LEMMA RecordIsRead ==
  ASSUME NEW l \in Listings64, NEW c \in Comments, NEW z \in BOOLEAN, NEW f, NEW at,
         LaidOut(f, at, l, DataFor(l), c, z), NEW start, StandIn(l, Central(l), start),
         NEW n \in 1 .. Len(l), NEW w, w.at = DataFor(l) + start[n - 1], NEW mapped \in BOOLEAN
  PROVE  LET r == CentralRecord(l[n])
         IN /\ RecordThere(f, TheDirectory(l), w.at, mapped)
            /\ RecordFits(f, TheDirectory(l), r) /\ Cell(f, w.at) = r
            /\ Listed(r) = l[n] /\ w.at + RecordLength(r) = DataFor(l) + start[n]
PROOF
<1> DEFINE r == CentralRecord(l[n])
           data == DataFor(l)
           size == Len(Central(l))
           dir == TheDirectory(l)
           s == start[n - 1]
<1>1. /\ l \in Seq(EntryOf) /\ Len(l) \in Nat /\ data \in Nat /\ size \in Nat /\ data + size <= Max64
      /\ Len(c) \in Nat
  BY ListingIs, CommentIs
<1>2. /\ at \in Nat /\ Len(f) = at + EndLen + Len(c) /\ data + size <= at
      /\ \A j \in 1 .. size : f[data + j] = Central(l)[j]
  <2>1. /\ at \in Nat /\ Len(f) = at + EndLen + Len(c)
        /\ at = data + size + 2 \/ at = data + size
        /\ \A j \in 1 .. size : f[data + j] = Central(l)[j]
    BY DEF LaidOut
  <2> HIDE DEF data, size
  <2> QED BY <1>1, <2>1
<1>3. l[n] \in EntryOf /\ l[n].offset + LocalLen + l[n].packed <= data
  BY <1>1, DataIs, ElementOfSeq
<1>4. /\ ExtraFits(r) /\ AesFits(r)
      /\ Listed(r) = l[n] /\ Extended(r).offset = l[n].offset /\ Extended(r).packed = l[n].packed
      /\ r.sign = "central" /\ r.nameLen = 1 /\ r.commentLen = 1 /\ r.disk = 0
  BY <1>3, RecordReads
<1>5. RecordLength(r) \in Nat /\ RecordLength(r) > CentralLen
  <2>1. Filler \in {Filler, r} /\ r \in {Filler, r}
    OBVIOUS
  <2> QED BY <1>3, <2>1, CellsAre
<1>6. /\ s \in Nat /\ start[n] = s + RecordLength(r) /\ start[n] <= size
      /\ Central(l)[s + 1] = r
  <2>1. n - 1 \in 0 .. Len(l)
    BY <1>1
  <2> QED BY <2>1 DEF StandIn
<1>7. dir.offset = data /\ dir.size = size
  BY DEF TheDirectory
<1>8. l[n].offset \in Nat /\ l[n].packed \in Nat
  BY <1>3, LimitsAreNat DEF EntryOf
<1>8a. l[n].offset + LocalLen + l[n].packed <= data
  BY <1>3
<1> HIDE DEF r, data, size, dir, s
<1>9. w.at = data + s /\ w.at \in Nat
  BY <1>1, <1>6 DEF data, s
<1>10. Cell(f, w.at) = r
  <2>1. s + 1 \in 1 .. size /\ (data + s) + 1 = data + (s + 1)
    BY <1>1, <1>5, <1>6, LimitsAreNat
  <2> QED BY <1>2, <1>6, <1>9, <2>1 DEF Cell
<1>11. w.at + RecordLength(r) = data + start[n] /\ w.at + RecordLength(r) <= data + size
  BY <1>1, <1>5, <1>6, <1>9
<1>12. RecordThere(f, dir, w.at, mapped)
  <2>1. w.at \in 0 .. Len(f) - 1 /\ w.at + CentralLen <= data + size /\ w.at + CentralLen <= Len(f)
    <3> DEFINE p == w.at
               q == RecordLength(r)
               len == Len(f)
    <3>1. data + size <= len /\ len \in Nat
      BY <1>1, <1>2, LimitsAreNat
    <3>2. p \in Nat /\ q \in Nat /\ q > CentralLen /\ p + q <= data + size
      BY <1>1, <1>5, <1>9, <1>11
    <3> HIDE DEF p, q, len
    <3>3. p \in 0 .. len - 1 /\ p + CentralLen <= data + size /\ p + CentralLen <= len
      BY <1>1, <3>1, <3>2, LimitsAreNat
    <3> QED BY <3>3 DEF p, len
  <2>2. Is(f, w.at, "central")
    BY <1>4, <1>10, <2>1 DEF Is
  <2>3. w.at + RecordLength(r) <= dir.offset + dir.size /\ w.at + RecordLength(r) - r.commentLen <= Len(f)
    BY <1>1, <1>2, <1>4, <1>5, <1>7, <1>9, <1>11, LimitsAreNat
  <2> QED BY <1>7, <1>10, <2>1, <2>2, <2>3 DEF RecordThere
<1>13. RecordFits(f, dir, r)
  <2>1. l[n].offset < data /\ l[n].packed <= Len(f) /\ l[n].offset + LocalLen <= Max64
    <3> DEFINE o == l[n].offset
               p == l[n].packed
    <3>1. o \in Nat /\ p \in Nat /\ o + LocalLen + p <= data
      BY <1>3, <1>8, <1>8a
    <3> HIDE DEF o, p
    <3>2. o < data /\ p <= Len(f) /\ o + LocalLen <= Max64
      BY <1>1, <1>2, <3>1, LimitsAreNat
    <3> QED BY <3>2 DEF o, p
  <2> QED BY <1>4, <1>7, <2>1 DEF RecordFits
<1> QED BY <1>4, <1>10, <1>11, <1>12, <1>13 DEF r, dir, data

LEMMA WalkOfWritten ==
  ASSUME NEW l \in Listings64, NEW c \in Comments, NEW z \in BOOLEAN, NEW f, NEW at,
         LaidOut(f, at, l, DataFor(l), c, z), NEW mapped \in BOOLEAN
  PROVE  Walked(f, TheDirectory(l), mapped)
           = [ok |-> TRUE, at |-> DataFor(l) + Len(Central(l)), list |-> l]
PROOF
<1> DEFINE k == Len(l)
           data == DataFor(l)
           dir == TheDirectory(l)
<1>1. l \in Seq(EntryOf) /\ k \in Nat /\ data \in Nat
  BY ListingIs
<1>2. PICK start : StandIn(l, Central(l), start)
  BY <1>1, CentralIs
<1>3. start[0] = 0 /\ start[k] = Len(Central(l))
  BY <1>2 DEF StandIn
<1> DEFINE g == [n \in 0 .. k |-> [ok |-> TRUE, at |-> data + start[n], list |-> SubSeq(l, 1, n)]]
<1>4. g[0] = [ok |-> TRUE, at |-> dir.offset, list |-> << >>]
  <2>1. SubSeq(l, 1, 0) = << >> /\ 0 \in 0 .. k
    BY <1>1, SubSeqEmpty
  <2>2. dir.offset = data /\ data + 0 = data
    BY <1>1 DEF TheDirectory
  <2> HIDE DEF dir, data, k
  <2> QED BY <1>3, <2>1, <2>2
<1>5. ASSUME NEW n \in 1 .. k PROVE g[n] = NextRecord(f, dir, mapped, g[n - 1])
  <2> DEFINE w == g[n - 1]
             r == CentralRecord(l[n])
  <2>1. n - 1 \in 0 .. k /\ n \in 0 .. k
    BY <1>1
  <2>2. w = [ok |-> TRUE, at |-> data + start[n - 1], list |-> SubSeq(l, 1, n - 1)]
        /\ g[n] = [ok |-> TRUE, at |-> data + start[n], list |-> SubSeq(l, 1, n)]
    <3> HIDE DEF data, k
    <3> QED BY <2>1
  <2> HIDE DEF w, g
  <2>3. w.at = data + start[n - 1] /\ w.ok = TRUE /\ w.list = SubSeq(l, 1, n - 1)
    BY <2>2
  <2>4. /\ RecordThere(f, dir, w.at, mapped)
        /\ RecordFits(f, dir, r) /\ Cell(f, w.at) = r
        /\ Listed(r) = l[n] /\ w.at + RecordLength(r) = data + start[n]
    BY <1>2, <2>3, RecordIsRead
  <2>5. Append(SubSeq(l, 1, n - 1), l[n]) = SubSeq(l, 1, n)
    BY <1>1, OneMoreOf
  <2> HIDE DEF r, dir, data, k
  <2>6. NextRecord(f, dir, mapped, w) =
          [ok |-> TRUE, at |-> w.at + RecordLength(r), list |-> Append(w.list, Listed(r))]
    BY <2>3, <2>4 DEF NextRecord
  <2>7. NextRecord(f, dir, mapped, w) = g[n]
    BY <2>2, <2>3, <2>4, <2>5, <2>6
  <2> QED BY <2>7 DEF w
<1>6. g = [n \in DOMAIN g |-> g[n]] /\ DOMAIN g = 0 .. k /\ g[k] = [ok |-> TRUE, at |-> data + start[k], list |-> SubSeq(l, 1, k)]
  <2>1. k \in 0 .. k
    BY <1>1
  <2> HIDE DEF data, k
  <2> QED BY <2>1
<1>7. dir.entries = k
  BY DEF TheDirectory
<1> HIDE DEF g, dir
<1>8. Walks(f, dir, mapped, g)
  BY <1>4, <1>5, <1>6, <1>7 DEF Walks
<1>9. Walked(f, dir, mapped) = g[k]
  BY <1>1, <1>7, <1>8, WalkedIs
<1>10. SubSeq(l, 1, k) = l
  BY <1>1, SubSeqFull
<1> QED BY <1>3, <1>6, <1>9, <1>10 DEF dir

\* README.md "ZIP64": what a writer wrote is listed in full, mapped or not.
THEOREM WrittenListed == WrittenIsOpened
PROOF
<1> SUFFICES ASSUME NEW l \in Listings64, NEW c \in Comments, NEW z \in BOOLEAN, NEW mapped \in BOOLEAN
             PROVE  Open(Written(l, DataFor(l), c, z), mapped) = [ok |-> TRUE, list |-> l]
  BY DEF WrittenIsOpened
<1> DEFINE f == Written(l, DataFor(l), c, z)
           dir == TheDirectory(l)
           w == Walked(f, dir, mapped)
<1>1. l \in Seq(EntryOf) /\ DataFor(l) \in Nat /\ c \in Seq({Filler} \union EndCells)
  BY ListingIs, CommentIs
<1>2. PICK at : LaidOut(f, at, l, DataFor(l), c, z)
  BY <1>1, WrittenIs
<1> HIDE DEF f
<1>3. FoundDirectory(f) = dir
  BY <1>2, DirectoryIs
<1>4. w = [ok |-> TRUE, at |-> DataFor(l) + Len(Central(l)), list |-> l]
  BY <1>2, WalkOfWritten
<1> HIDE DEF w
<1>5. dir.found = TRUE /\ dir.offset + dir.size = DataFor(l) + Len(Central(l))
  BY DEF TheDirectory
<1>6. w.ok = TRUE /\ w.at = dir.offset + dir.size /\ w.list = l
  BY <1>4, <1>5
<1> HIDE DEF dir
<1> DEFINE ok == dir.found /\ w.ok /\ (mapped => w.at = dir.offset + dir.size)
<1>7. Open(f, mapped) = [ok |-> ok, list |-> IF ok THEN w.list ELSE << >>]
  BY <1>3 DEF Open, w
<1>8. Open(f, mapped) = [ok |-> TRUE, list |-> l]
  <2>1. ok = TRUE
    BY <1>5, <1>6
  <2> HIDE DEF ok
  <2> QED BY <1>6, <1>7, <2>1
<1> QED BY <1>8 DEF f

\* An archive that has not arrived in full is refused: what is left of it holds
\* no end record whose comment ends with it.
THEOREM TruncatedRefused == TruncatedIsRefused
PROOF
<1> SUFFICES ASSUME NEW l \in Listings64, NEW c \in Comments, ~HasDecoy(c),
                    NEW z \in BOOLEAN, NEW mapped \in BOOLEAN,
                    NEW n \in 0 .. Len(Written(l, DataFor(l), c, z)) - 1
             PROVE  ~Open(SubSeq(Written(l, DataFor(l), c, z), 1, n), mapped).ok
  BY DEF TruncatedIsRefused
<1> DEFINE f == Written(l, DataFor(l), c, z)
           t == SubSeq(f, 1, n)
<1>1. l \in Seq(EntryOf) /\ DataFor(l) \in Nat /\ c \in Seq({Filler} \union EndCells) /\ Len(c) \in Nat
  BY ListingIs, CommentIs
<1>2. PICK at : LaidOut(f, at, l, DataFor(l), c, z)
  BY <1>1, WrittenIs
<1>3. n \in 0 .. Len(f) - 1
  OBVIOUS
<1> HIDE DEF f
<1>4. /\ f \in Seq(AllCells) /\ at \in Nat /\ Len(f) = at + EndLen + Len(c)
      /\ \A i \in 1 .. at : f[i].sign # "end"
      /\ f[at + 1].comment = Len(c)
      /\ \A i \in at + 2 .. at + EndLen : f[i].sign # "end"
      /\ \A j \in 1 .. Len(c) : f[at + EndLen + j] = c[j]
  <2>1. f[at + 1] = TheEnd(l, DataFor(l), c, z)
    BY <1>2 DEF LaidOut
  <2>2. TheEnd(l, DataFor(l), c, z).comment = Len(c)
    BY DEF TheEnd
  <2> QED BY <1>2, <2>1, <2>2 DEF LaidOut
<1>5. \A j \in 1 .. Len(c) : c[j].sign # "end"
  BY <1>1, LenProperties DEF HasDecoy
<1>6. \A i \in 1 .. Len(f) : i # at + 1 => f[i].sign # "end"
  <2> SUFFICES ASSUME NEW i \in 1 .. Len(f), i # at + 1 PROVE f[i].sign # "end"
    OBVIOUS
  <2>1. CASE i <= at
    <3>1. i \in 1 .. at
      BY <1>4, <2>1
    <3> QED BY <1>4, <3>1
  <2>2. CASE i > at /\ i <= at + EndLen
    <3>1. i \in at + 2 .. at + EndLen
      BY <1>4, <2>2, LimitsAreNat
    <3> QED BY <1>4, <3>1
  <2>3. CASE i > at + EndLen
    <3>1. i - (at + EndLen) \in 1 .. Len(c) /\ at + EndLen + (i - (at + EndLen)) = i
      BY <1>1, <1>4, <2>3, LimitsAreNat
    <3> QED BY <1>4, <1>5, <3>1
  <2> QED BY <1>1, <1>4, <2>1, <2>2, <2>3, LimitsAreNat
<1>7. Len(t) = n /\ \A i \in 1 .. n : t[i] = f[i]
  <2>1. n \in Int /\ \A i \in 1 .. n : f[i] \in AllCells
    <3>1. Len(f) \in Nat /\ \A i \in 1 .. n : i \in 1 .. Len(f)
      BY <1>3, <1>4, LenProperties
    <3> QED BY <1>3, <1>4, <3>1, ElementOfSeq
  <2>2. /\ Len(SubSeq(f, 1, n)) = IF 1 <= n THEN n - 1 + 1 ELSE 0
        /\ \A i \in 1 .. n - 1 + 1 : SubSeq(f, 1, n)[i] = f[1 + i - 1]
    BY <2>1, SubSeqProperties
  <2> HIDE DEF t
  <2> QED BY <1>1, <1>3, <1>4, <2>2, LimitsAreNat DEF t
<1> HIDE DEF t
<1>8. EndRecords(t) = {}
  <2> DEFINE x == Len(t) - (EndLen + Max16)
  <2>1. x \in Int
    BY <1>1, <1>3, <1>4, <1>7, LimitsAreNat
  <2>2. Max({0, x}) \in Nat
    BY <2>1, MaxOfTwo
  <2>3. EndRecords(t) = { a \in Max({0, x}) .. Len(t) - EndLen :
              Is(t, a, "end") /\ a + EndLen + Cell(t, a).comment = Len(t) }
    BY DEF EndRecords
  <2> HIDE DEF x
  <2>4. ASSUME NEW a \in EndRecords(t) PROVE FALSE
    <3>1. a \in Max({0, x}) .. Len(t) - EndLen /\ Is(t, a, "end") /\ a + EndLen + Cell(t, a).comment = Len(t)
      BY <2>3
    <3>2. a \in 0 .. Len(t) - 1 /\ t[a + 1].sign = "end" /\ a + EndLen + t[a + 1].comment = Len(t)
      BY <3>1 DEF Is, Cell
    <3>3. a \in Int /\ a + 1 \in 1 .. n /\ a + 1 \in 1 .. Len(f)
      BY <1>1, <1>3, <1>4, <1>7, <3>2, LimitsAreNat
    <3>4. a + 1 = at + 1 /\ t[a + 1] = f[at + 1]
      BY <1>6, <1>7, <3>2, <3>3
    <3>5. a = at
      BY <1>4, <3>3, <3>4
    <3> QED BY <1>1, <1>3, <1>4, <1>7, <3>2, <3>4, <3>5, LimitsAreNat
  <2> QED BY <2>4
<1>9. FoundDirectory(t) = Refused
  BY <1>8 DEF FoundDirectory
<1>10. Open(t, mapped).ok = FALSE
  <2> DEFINE w == Walked(t, Refused, mapped)
  <2>1. Open(t, mapped).ok = (Refused.found /\ w.ok /\ (mapped => w.at = Refused.offset + Refused.size))
    BY <1>9 DEF Open
  <2>2. Refused.found = FALSE
    BY DEF Refused
  <2> HIDE DEF w
  <2> QED BY <2>1, <2>2
<1> QED BY <1>10 DEF t, f

-----------------------------------------------------------------------------
(* Damaged files *)

\* The fields that the loop over the records reads are numbers.
NumbersOf(sign) ==
  IF sign = "central" THEN {"nameLen", "extraLen", "commentLen"}
  ELSE IF sign \in {"end", "end64"} THEN {"entries", "size", "offset"} ELSE {}
Sized(x)   == "sign" \in DOMAIN x /\ \A k \in NumbersOf(x.sign) : k \in DOMAIN x /\ x[k] \in Nat
AllSized(g) == Len(g) \in Nat /\ \A i \in 1 .. Len(g) : Sized(g[i])

LEMMA CellsAreSized ==
  ASSUME NEW x \in AllCells
  PROVE  Sized(x)
PROOF
<1>1. CASE x = Filler
  BY <1>1 DEF Sized, NumbersOf, Filler
<1>2. CASE \E e \in EntryOf : x = CentralRecord(e)
  <2>1. PICK e \in EntryOf : x = CentralRecord(e)
    BY <1>2
  <2>2. x = [sign |-> "central", name |-> e.name, method |-> "store", encrypted |-> FALSE,
             disk |-> 0, size |-> Short(e.size), packed |-> Short(e.packed),
             offset |-> Short(e.offset), nameLen |-> 1, extra |-> x.extra,
             extraLen |-> BlockLength(x.extra), commentLen |-> 1]
    BY <2>1, RecordIs
  <2>3. x.extraLen \in Nat
    BY <2>1, RecordReads
  <2>4. \A k \in {"sign", "nameLen", "extraLen", "commentLen"} : k \in DOMAIN x
    BY <2>2
  <2>5. x.sign = "central" /\ x["nameLen"] = 1 /\ x["commentLen"] = 1 /\ x["extraLen"] = x.extraLen
    BY <2>2
  <2> QED BY <2>3, <2>4, <2>5 DEF Sized, NumbersOf
<1>3. CASE x \in [sign : {"end64"}, rest : Nat, disk : Nat, cdDisk : Nat, entriesDisk : Nat, entries : Nat,
                  size : Nat, offset : Nat]
  BY <1>3 DEF Sized, NumbersOf
<1>4. CASE x \in [sign : {"locator"}, disk : Nat, at : Nat, disks : Nat]
  BY <1>4 DEF Sized, NumbersOf
<1>5. CASE x \in EndCells
  BY <1>5 DEF Sized, NumbersOf, EndCells
<1> QED BY <1>1, <1>2, <1>3, <1>4, <1>5 DEF AllCells, OtherCells, CentralCells

\* Damage leaves every record its kind and its numbers.
LEMMA DamagedAreSized ==
  ASSUME NEW f \in Seq(AllCells), NEW g \in Damaged(f)
  PROVE  AllSized(g)
PROOF
<1>1. PICK i \in { j \in DOMAIN f : f[j] # Filler } :
      \E k \in DOMAIN f[i] \ {"sign", "name", "method", "encrypted", "extra"}, v \in Values :
        g = [f EXCEPT ![i] = [@ EXCEPT ![k] = v]]
  BY DEF Damaged
<1>2. PICK k \in DOMAIN f[i] \ {"sign", "name", "method", "encrypted", "extra"}, v \in Values :
      g = [f EXCEPT ![i] = [f[i] EXCEPT ![k] = v]]
  BY <1>1
<1>3. v \in Nat
  BY WrittenAssumption
<1>4. i \in DOMAIN f /\ DOMAIN f = 1 .. Len(f) /\ Len(f) \in Nat /\ \A j \in 1 .. Len(f) : f[j] \in AllCells
  BY LenProperties, ElementOfSeq
<1>5. Sized([f[i] EXCEPT ![k] = v])
  <2> DEFINE x == f[i]
             y == [x EXCEPT ![k] = v]
  <2>1. Sized(x)
    BY <1>4, CellsAreSized
  <2>2. k # "sign" /\ k \in DOMAIN x
    OBVIOUS
  <2> HIDE DEF x
  <2>3. DOMAIN y = DOMAIN x /\ y[k] = v /\ \A j \in DOMAIN x : j # k => y[j] = x[j]
    BY <2>2
  <2> HIDE DEF y
  <2>4. y.sign = x.sign
    BY <2>1, <2>2, <2>3 DEF Sized
  <2>5. ASSUME NEW j \in NumbersOf(y.sign) PROVE j \in DOMAIN y /\ y[j] \in Nat
    <3>1. j \in DOMAIN x /\ x[j] \in Nat
      BY <2>1, <2>4 DEF Sized
    <3> QED BY <1>3, <2>3, <3>1
  <2>6. Sized(y)
    BY <2>1, <2>3, <2>5 DEF Sized
  <2> QED BY <2>6 DEF x, y
<1> DEFINE y == [f[i] EXCEPT ![k] = v]
           S == { g[j] : j \in 1 .. Len(f) }
<1>6. g = [f EXCEPT ![i] = y]
  BY <1>2
<1> HIDE DEF y
<1>7. g = [j \in 1 .. Len(f) |-> g[j]] /\ \A j \in 1 .. Len(f) : g[j] = IF j = i THEN y ELSE f[j]
  BY <1>4, <1>6
<1>8. g \in Seq(S) /\ Len(g) = Len(f)
  <2>1. g \in [1 .. Len(f) -> S]
    BY <1>7
  <2> HIDE DEF S
  <2> QED BY <1>4, <2>1
<1>9. ASSUME NEW j \in 1 .. Len(g) PROVE Sized(g[j])
  <2>1. j \in 1 .. Len(f) /\ g[j] = IF j = i THEN y ELSE f[j]
    BY <1>7, <1>8
  <2>2. Sized(f[j])
    BY <1>4, <2>1, CellsAreSized
  <2> QED BY <1>5, <2>1, <2>2 DEF y
<1> QED BY <1>4, <1>8, <1>9 DEF AllSized

\* The directory that is found lies in the file.
LEMMA FoundLies ==
  ASSUME NEW g, AllSized(g), FoundDirectory(g).found
  PROVE  LET dir == FoundDirectory(g)
         IN /\ dir.found = TRUE /\ dir.entries \in Nat /\ dir.offset \in Nat /\ dir.size \in Nat
            /\ dir.offset + dir.size <= Len(g)
PROOF
<1> DEFINE at == Max(EndRecords(g))
           last == Cell(g, at)
           dir == IF NeedsZip64(last) THEN Zip64(g, at) ELSE Zip32(last)
<1>1. Refused.found = FALSE
  BY DEF Refused
<1>2. EndRecords(g) # {}
  BY <1>1 DEF FoundDirectory
<1>3. FoundDirectory(g) = dir /\ dir.found /\ dir.offset + dir.size <= at
  BY <1>1, <1>2 DEF FoundDirectory
<1>4. at \in EndRecords(g)
  <2>1. Len(g) - (EndLen + Max16) \in Int /\ Len(g) \in Nat
    BY LimitsAreNat DEF AllSized
  <2>2. Max({0, Len(g) - (EndLen + Max16)}) \in Int
    BY <2>1, MaxOfTwo
  <2>3. EndRecords(g) \in SUBSET Int /\ \A x \in EndRecords(g) : x <= Len(g) - EndLen
    BY <2>1, <2>2, LimitsAreNat DEF EndRecords
  <2>4. Len(g) - EndLen \in Int
    BY <2>1, LimitsAreNat
  <2> QED BY <1>2, <2>3, <2>4, MaxIs
<1>5. at \in 0 .. Len(g) - 1 /\ last.sign = "end"
  BY <1>4 DEF EndRecords, Is
<1>6. ASSUME NEW j \in 0 .. Len(g) - 1, Cell(g, j).sign \in {"end", "end64"}
      PROVE  /\ Cell(g, j).entries \in Nat /\ Cell(g, j).size \in Nat /\ Cell(g, j).offset \in Nat
  <2>1. j + 1 \in 1 .. Len(g)
    BY DEF AllSized
  <2>2. Sized(Cell(g, j))
    BY <2>1 DEF AllSized, Cell
  <2> QED BY <1>6, <2>2 DEF Sized, NumbersOf
<1> HIDE DEF at
<1>7. CASE NeedsZip64(last)
  <2> DEFINE locator == Cell(g, at - 1)
             end64 == Cell(g, locator.at)
  <2>1. dir = IF /\ Is(g, at - 1, "locator") /\ locator.disk = 0 /\ locator.disks = 1
                 /\ Is(g, locator.at, "end64") /\ end64.rest >= End64Rest
                 /\ end64.disk = 0 /\ end64.cdDisk = 0
                 /\ end64.entriesDisk = end64.entries
                THEN [found |-> TRUE, entries |-> end64.entries, size |-> end64.size,
                      offset |-> end64.offset]
                ELSE Refused
    BY <1>7 DEF Zip64
  <2> HIDE DEF dir
  <2>2. Is(g, locator.at, "end64")
    BY <1>1, <1>3, <2>1
  <2>3. dir = [found |-> TRUE, entries |-> end64.entries, size |-> end64.size, offset |-> end64.offset]
    BY <1>1, <1>3, <2>1
  <2>4. end64.entries \in Nat /\ end64.size \in Nat /\ end64.offset \in Nat
    BY <1>6, <2>2 DEF Is
  <2> HIDE DEF end64
  <2> QED BY <1>3, <1>5, <2>3, <2>4 DEF AllSized
<1>8. CASE ~NeedsZip64(last)
  <2>1. dir = IF last.disk = 0 /\ last.cdDisk = 0 /\ last.entriesDisk = last.entries
                THEN [found |-> TRUE, entries |-> last.entries, size |-> last.size, offset |-> last.offset]
                ELSE Refused
    BY <1>8 DEF Zip32
  <2> HIDE DEF dir
  <2>2. dir = [found |-> TRUE, entries |-> last.entries, size |-> last.size, offset |-> last.offset]
    BY <1>1, <1>3, <2>1
  <2>3. last.entries \in Nat /\ last.size \in Nat /\ last.offset \in Nat
    BY <1>5, <1>6
  <2> HIDE DEF last
  <2> QED BY <1>3, <1>5, <2>2, <2>3 DEF AllSized
<1> QED BY <1>7, <1>8

\* What the loop over the records of g holds.
Walking(g) == [ok : BOOLEAN, at : Int, list : Seq({ Listed(g[i]) : i \in 1 .. Len(g) })]

LEMMA NextIsWalking ==
  ASSUME NEW g, AllSized(g), NEW dir, NEW mapped, NEW w \in Walking(g)
  PROVE  NextRecord(g, dir, mapped, w) \in Walking(g)
PROOF
<1> DEFINE r == Cell(g, w.at)
           S == { Listed(g[i]) : i \in 1 .. Len(g) }
           goes == w.ok /\ RecordThere(g, dir, w.at, mapped) /\ RecordFits(g, dir, r)
<1>1. w.ok \in BOOLEAN /\ w.at \in Int /\ w.list \in Seq(S)
  BY DEF Walking
<1>2. [w EXCEPT !.ok = FALSE] \in Walking(g)
  BY DEF Walking
<1>3. CASE goes
  <2>1. w.at \in 0 .. Len(g) - 1 /\ r.sign = "central"
    BY <1>3 DEF RecordThere, Is
  <2>2. w.at + 1 \in 1 .. Len(g) /\ r = g[w.at + 1]
    BY <1>1, <2>1 DEF Cell, AllSized
  <2>3. Listed(r) \in S
    BY <2>2
  <2>4. RecordLength(r) \in Nat
    <3>1. r.nameLen \in Nat /\ r.extraLen \in Nat /\ r.commentLen \in Nat
      BY <2>1, <2>2 DEF AllSized, Sized, NumbersOf
    <3> QED BY <3>1, LimitsAreNat DEF RecordLength
  <2> HIDE DEF r, S
  <2>5. Append(w.list, Listed(r)) \in Seq(S)
    BY <1>1, <2>3
  <2>6. w.at + RecordLength(r) \in Int
    BY <1>1, <2>4
  <2>7. NextRecord(g, dir, mapped, w) =
          [ok |-> TRUE, at |-> w.at + RecordLength(r), list |-> Append(w.list, Listed(r))]
    BY <1>3 DEF NextRecord, r
  <2> QED BY <2>5, <2>6, <2>7 DEF Walking, S
<1>4. CASE ~goes
  BY <1>2, <1>4 DEF NextRecord
<1> QED BY <1>3, <1>4

LEMMA WalkExists ==
  ASSUME NEW g, AllSized(g), NEW dir, dir.entries \in Nat, dir.offset \in Nat, NEW mapped
  PROVE  \E h \in [0 .. dir.entries -> Walking(g)] : Walks(g, dir, mapped, h)
PROOF
<1> DEFINE k == dir.entries
           S == Walking(g)
           first == [ok |-> TRUE, at |-> dir.offset, list |-> << >>]
           turn == [w \in S |-> NextRecord(g, dir, mapped, w)]
           step == [n \in 1 .. k |-> turn]
<1>1. first \in S
  BY DEF Walking
<1>2. turn \in [S -> S]
  <2> HIDE DEF S
  <2> QED BY NextIsWalking DEF S
<1>3. k \in Nat
  OBVIOUS
<1> HIDE DEF S, first, k
<1>4. step \in [1 .. k -> [S -> S]] /\ \A n \in 1 .. k : step[n] = turn
  <2> HIDE DEF turn
  <2> QED BY <1>2
<1> HIDE DEF step
<1>5. PICK h \in [0 .. k -> S] : h[0] = first /\ \A n \in 1 .. k : h[n] = step[n][h[n - 1]]
  <2>1. GoesThrough(S, first, k, step)
    BY <1>1, <1>3, <1>4, RecursionUpTo
  <2> QED BY <2>1 DEF GoesThrough
<1>6. ASSUME NEW n \in 1 .. k PROVE h[n] = NextRecord(g, dir, mapped, h[n - 1])
  <2>1. n - 1 \in 0 .. k
    BY <1>3
  <2>2. h[n - 1] \in S
    BY <2>1
  <2>3. h[n] = turn[h[n - 1]]
    <3> HIDE DEF turn
    <3> QED BY <1>4, <1>5
  <2> QED BY <2>2, <2>3
<1>7. DOMAIN h = 0 .. k /\ h = [n \in DOMAIN h |-> h[n]]
  OBVIOUS
<1>8. Walks(g, dir, mapped, h)
  BY <1>5, <1>6, <1>7 DEF Walks, k, first
<1> QED BY <1>5, <1>8 DEF k, S

\* Every entry begins before the directory.
Early(list, dir) == \A i \in DOMAIN list : list[i].offset < dir.offset

\* What a mapped file lets through, a file that is read lets through alike.
LEMMA MappedGoes ==
  ASSUME NEW g, AllSized(g), NEW dir, dir.offset \in Nat, dir.size \in Nat,
         dir.offset + dir.size <= Len(g), NEW w \in Walking(g),
         NextRecord(g, dir, TRUE, w).ok
  PROVE  /\ w.ok /\ NextRecord(g, dir, FALSE, w) = NextRecord(g, dir, TRUE, w)
         /\ Early(w.list, dir) => Early(NextRecord(g, dir, TRUE, w).list, dir)
PROOF
<1> DEFINE r == Cell(g, w.at)
           S == { Listed(g[i]) : i \in 1 .. Len(g) }
           goes == w.ok /\ RecordThere(g, dir, w.at, TRUE) /\ RecordFits(g, dir, r)
<1>1. w.ok \in BOOLEAN /\ w.at \in Int /\ w.list \in Seq(S)
  BY DEF Walking
<1>2. [w EXCEPT !.ok = FALSE].ok = FALSE
  BY DEF Walking
<1>3. goes
  BY <1>2 DEF NextRecord
<1>4. /\ Is(g, w.at, "central") /\ w.at + CentralLen <= dir.offset + dir.size
      /\ w.at + RecordLength(r) <= dir.offset + dir.size
  BY <1>3 DEF RecordThere
<1>5. w.at \in 0 .. Len(g) - 1 /\ r.sign = "central" /\ w.at + 1 \in 1 .. Len(g) /\ r = g[w.at + 1]
  BY <1>1, <1>4 DEF Is, Cell, AllSized
<1>6. r.commentLen \in Nat /\ RecordLength(r) \in Nat
  <2>1. r.nameLen \in Nat /\ r.extraLen \in Nat /\ r.commentLen \in Nat
    BY <1>5 DEF AllSized, Sized, NumbersOf
  <2> QED BY <2>1, LimitsAreNat DEF RecordLength
<1>7. Len(g) \in Nat
  BY DEF AllSized
<1> HIDE DEF S
<1>8. RecordThere(g, dir, w.at, FALSE)
  <2>1. w.at + CentralLen <= Len(g) /\ w.at + RecordLength(r) - r.commentLen <= Len(g)
    <3> HIDE DEF r
    <3> QED BY <1>1, <1>4, <1>6, <1>7, LimitsAreNat
  <2> QED BY <1>4, <2>1 DEF RecordThere
<1>9. ASSUME NEW mapped \in BOOLEAN
      PROVE  NextRecord(g, dir, mapped, w) =
               [ok |-> TRUE, at |-> w.at + RecordLength(r), list |-> Append(w.list, Listed(r))]
  BY <1>3, <1>8 DEF NextRecord
<1>10. Listed(r).offset < dir.offset
  BY <1>3 DEF RecordFits, Listed
<1>11. Listed(r) \in S
  BY <1>5 DEF S
<1> HIDE DEF r
<1>12. Early(w.list, dir) => Early(Append(w.list, Listed(r)), dir)
  <2> SUFFICES ASSUME Early(w.list, dir), NEW i \in DOMAIN Append(w.list, Listed(r))
               PROVE  Append(w.list, Listed(r))[i].offset < dir.offset
    BY DEF Early
  <2>1. i \in 1 .. Len(w.list) + 1 /\ DOMAIN w.list = 1 .. Len(w.list) /\ Len(w.list) \in Nat
    BY <1>1, <1>11
  <2>2. CASE i = Len(w.list) + 1
    <3>1. Append(w.list, Listed(r))[i] = Listed(r)
      BY <1>1, <1>11, <2>1, <2>2
    <3> QED BY <1>10, <3>1
  <2>3. CASE i # Len(w.list) + 1
    <3>1. i \in 1 .. Len(w.list)
      BY <2>1, <2>3
    <3>2. Append(w.list, Listed(r))[i] = w.list[i]
      BY <1>1, <1>11, <3>1
    <3> QED BY <2>1, <3>1, <3>2 DEF Early
  <2> QED BY <2>2, <2>3
<1>13. NextRecord(g, dir, TRUE, w).list = Append(w.list, Listed(r))
       /\ NextRecord(g, dir, FALSE, w) = NextRecord(g, dir, TRUE, w)
  <2> DEFINE after == [ok |-> TRUE, at |-> w.at + RecordLength(r), list |-> Append(w.list, Listed(r))]
  <2>1. NextRecord(g, dir, TRUE, w) = after /\ NextRecord(g, dir, FALSE, w) = after
    BY <1>9
  <2>2. after.list = Append(w.list, Listed(r))
    OBVIOUS
  <2> HIDE DEF after
  <2> QED BY <2>1, <2>2
<1> QED BY <1>3, <1>12, <1>13

LEMMA MappedWalks ==
  ASSUME NEW g, AllSized(g), NEW dir, dir.entries \in Nat, dir.offset \in Nat, dir.size \in Nat,
         dir.offset + dir.size <= Len(g), Walked(g, dir, TRUE).ok
  PROVE  /\ Walked(g, dir, FALSE) = Walked(g, dir, TRUE)
         /\ Early(Walked(g, dir, TRUE).list, dir)
PROOF
<1> DEFINE k == dir.entries
<1>1. PICK h \in [0 .. k -> Walking(g)] : Walks(g, dir, TRUE, h)
  BY WalkExists
<1>2. PICK u \in [0 .. k -> Walking(g)] : Walks(g, dir, FALSE, u)
  BY WalkExists
<1>3. Walked(g, dir, TRUE) = h[k] /\ Walked(g, dir, FALSE) = u[k]
  BY <1>1, <1>2, WalkedIs
<1>4. k \in Nat
  OBVIOUS
<1>5. /\ h[0] = [ok |-> TRUE, at |-> dir.offset, list |-> << >>] /\ u[0] = h[0]
      /\ \A n \in 1 .. k : h[n] = NextRecord(g, dir, TRUE, h[n - 1])
      /\ \A n \in 1 .. k : u[n] = NextRecord(g, dir, FALSE, u[n - 1])
  BY <1>1, <1>2 DEF Walks
<1> HIDE DEF k
<1> DEFINE P == { n \in Nat : n <= k => (h[n].ok => u[n] = h[n] /\ Early(h[n].list, dir)) }
<1>6. 0 \in P
  <2>1. Early(h[0].list, dir)
    <3>1. h[0].list = << >>
      BY <1>5
    <3> QED BY <3>1 DEF Early
  <2> QED BY <1>5, <2>1
<1>7. \A n \in P : n < k => n + 1 \in P
  <2> SUFFICES ASSUME NEW n \in P, n < k, h[n + 1].ok
               PROVE  u[n + 1] = h[n + 1] /\ Early(h[n + 1].list, dir)
    OBVIOUS
  <2>1. n + 1 \in 1 .. k /\ (n + 1) - 1 = n /\ n \in 0 .. k
    BY <1>4
  <2>2. h[n].ok => u[n] = h[n] /\ Early(h[n].list, dir)
    BY <2>1
  <2> HIDE DEF P
  <2>3. h[n + 1] = NextRecord(g, dir, TRUE, h[n]) /\ u[n + 1] = NextRecord(g, dir, FALSE, u[n])
    BY <1>5, <2>1
  <2>4. h[n] \in Walking(g)
    BY <2>1
  <2>5. /\ h[n].ok /\ NextRecord(g, dir, FALSE, h[n]) = NextRecord(g, dir, TRUE, h[n])
        /\ Early(h[n].list, dir) => Early(NextRecord(g, dir, TRUE, h[n]).list, dir)
    BY <2>3, <2>4, MappedGoes
  <2> QED BY <2>2, <2>3, <2>5
<1>8. k \in P
  <2> HIDE DEF P
  <2>1. P \in SUBSET Nat
    BY DEF P
  <2>2. \A n \in 0 .. k : n \in P
    BY <1>4, <1>6, <1>7, <2>1, InductionUpTo
  <2> QED BY <1>4, <2>2
<1>9. h[k].ok => u[k] = h[k] /\ Early(h[k].list, dir)
  BY <1>4, <1>8
<1> HIDE DEF P
<1> QED BY <1>3, <1>9

\* What a file that is read lets through, a mapped file lets through alike, if
\* the record ends in the directory.
LEMMA ReadGoes ==
  ASSUME NEW g, AllSized(g), NEW dir, dir.offset \in Nat, dir.size \in Nat, NEW w \in Walking(g),
         NextRecord(g, dir, FALSE, w).ok,
         NextRecord(g, dir, FALSE, w).at <= dir.offset + dir.size
  PROVE  /\ w.ok /\ w.at <= dir.offset + dir.size
         /\ NextRecord(g, dir, TRUE, w) = NextRecord(g, dir, FALSE, w)
PROOF
<1> DEFINE r == Cell(g, w.at)
           S == { Listed(g[i]) : i \in 1 .. Len(g) }
           goes == w.ok /\ RecordThere(g, dir, w.at, FALSE) /\ RecordFits(g, dir, r)
           after == [ok |-> TRUE, at |-> w.at + RecordLength(r), list |-> Append(w.list, Listed(r))]
<1>1. w.ok \in BOOLEAN /\ w.at \in Int
  BY DEF Walking
<1>2. [w EXCEPT !.ok = FALSE].ok = FALSE
  BY DEF Walking
<1>3. goes
  BY <1>2 DEF NextRecord
<1>4. NextRecord(g, dir, FALSE, w) = after
  BY <1>3 DEF NextRecord
<1>5. w.at + RecordLength(r) <= dir.offset + dir.size
  <2>1. after.at = w.at + RecordLength(r)
    OBVIOUS
  <2> HIDE DEF after
  <2> QED BY <1>4, <2>1
<1>6. Is(g, w.at, "central")
  BY <1>3 DEF RecordThere
<1>7. w.at \in 0 .. Len(g) - 1 /\ r.sign = "central" /\ w.at + 1 \in 1 .. Len(g) /\ r = g[w.at + 1]
  BY <1>1, <1>6 DEF Is, Cell, AllSized
<1>8. RecordLength(r) \in Nat /\ CentralLen <= RecordLength(r)
  <2>1. r.nameLen \in Nat /\ r.extraLen \in Nat /\ r.commentLen \in Nat
    BY <1>7 DEF AllSized, Sized, NumbersOf
  <2> QED BY <2>1, LimitsAreNat DEF RecordLength
<1>9. w.at + CentralLen <= dir.offset + dir.size /\ w.at <= dir.offset + dir.size
  <2> HIDE DEF r
  <2> QED BY <1>1, <1>5, <1>8, LimitsAreNat
<1>10. RecordThere(g, dir, w.at, TRUE)
  BY <1>5, <1>6, <1>9 DEF RecordThere
<1>11. NextRecord(g, dir, TRUE, w) = after
  BY <1>3, <1>10 DEF NextRecord
<1> QED BY <1>3, <1>4, <1>9, <1>11

LEMMA ReadWalks ==
  ASSUME NEW g, AllSized(g), NEW dir, dir.entries \in Nat, dir.offset \in Nat, dir.size \in Nat,
         Walked(g, dir, FALSE).ok, Walked(g, dir, FALSE).at = dir.offset + dir.size
  PROVE  Walked(g, dir, TRUE) = Walked(g, dir, FALSE)
PROOF
<1> DEFINE k == dir.entries
           limit == dir.offset + dir.size
<1>1. PICK h \in [0 .. k -> Walking(g)] : Walks(g, dir, TRUE, h)
  BY WalkExists
<1>2. PICK u \in [0 .. k -> Walking(g)] : Walks(g, dir, FALSE, u)
  BY WalkExists
<1>3. Walked(g, dir, TRUE) = h[k] /\ Walked(g, dir, FALSE) = u[k]
  BY <1>1, <1>2, WalkedIs
<1>4. k \in Nat /\ limit \in Int
  OBVIOUS
<1>5. /\ h[0] = u[0]
      /\ \A n \in 1 .. k : h[n] = NextRecord(g, dir, TRUE, h[n - 1])
      /\ \A n \in 1 .. k : u[n] = NextRecord(g, dir, FALSE, u[n - 1])
  BY <1>1, <1>2 DEF Walks
<1> HIDE DEF k
<1> DEFINE P == { n \in Nat : n <= k => (u[n].ok /\ u[n].at <= limit => h[n] = u[n]) }
<1>6. 0 \in P
  BY <1>5
<1>7. \A n \in P : n < k => n + 1 \in P
  <2> SUFFICES ASSUME NEW n \in P, n < k, u[n + 1].ok, u[n + 1].at <= limit
               PROVE  h[n + 1] = u[n + 1]
    OBVIOUS
  <2>1. n + 1 \in 1 .. k /\ (n + 1) - 1 = n /\ n \in 0 .. k
    BY <1>4
  <2>2. u[n].ok /\ u[n].at <= limit => h[n] = u[n]
    BY <2>1
  <2> HIDE DEF P
  <2>3. h[n + 1] = NextRecord(g, dir, TRUE, h[n]) /\ u[n + 1] = NextRecord(g, dir, FALSE, u[n])
    BY <1>5, <2>1
  <2>4. u[n] \in Walking(g)
    BY <2>1
  <2>5. u[n].ok /\ u[n].at <= limit /\ NextRecord(g, dir, TRUE, u[n]) = NextRecord(g, dir, FALSE, u[n])
    BY <2>3, <2>4, ReadGoes
  <2> QED BY <2>2, <2>3, <2>5
<1>8. k \in P
  <2> HIDE DEF P
  <2>1. P \in SUBSET Nat
    BY DEF P
  <2>2. \A n \in 0 .. k : n \in P
    BY <1>4, <1>6, <1>7, <2>1, InductionUpTo
  <2> QED BY <1>4, <2>2
<1>9. u[k].ok /\ u[k].at <= limit => h[k] = u[k]
  BY <1>4, <1>8
<1> HIDE DEF P
<1>10. u[k].ok /\ u[k].at = limit
  BY <1>3
<1>11. u[k].at <= limit
  BY <1>4, <1>10
<1> HIDE DEF limit
<1> QED BY <1>3, <1>9, <1>10, <1>11, Zenon

\* A file is opened when it is mapped just if it is opened when it is read and
\* its records fill the directory, with the same entries, none of which begins
\* in or behind the directory.
THEOREM MappedReads == MappedIsRead
PROOF
<1> SUFFICES ASSUME NEW f \in WrittenFiles, NEW g \in Damaged(f)
             PROVE  /\ Open(g, TRUE).ok <=> Open(g, FALSE).ok /\ EndsWithDirectory(g)
                    /\ Open(g, TRUE).ok => /\ Open(g, TRUE) = Open(g, FALSE)
                                           /\ Early(Open(g, FALSE).list, FoundDirectory(g))
  BY DEF MappedIsRead, Early
<1>1. AllSized(g)
  <2>1. PICK l \in Listings64, c \in Comments, z \in BOOLEAN : f = Written(l, DataFor(l), c, z)
    BY DEF WrittenFiles
  <2>2. l \in Seq(EntryOf) /\ DataFor(l) \in Nat /\ c \in Seq({Filler} \union EndCells)
    BY ListingIs, CommentIs
  <2>3. PICK at : LaidOut(f, at, l, DataFor(l), c, z)
    BY <2>1, <2>2, WrittenIs
  <2>4. f \in Seq(AllCells)
    BY <2>3 DEF LaidOut
  <2> QED BY <2>4, DamagedAreSized
<1> DEFINE dir == FoundDirectory(g)
           w == Walked(g, dir, TRUE)
           u == Walked(g, dir, FALSE)
           mapped == dir.found /\ w.ok /\ w.at = dir.offset + dir.size
           read == dir.found /\ u.ok
           fills == u.at = dir.offset + dir.size
<1>2. EndsWithDirectory(g) = fills
  BY DEF EndsWithDirectory
<1> HIDE DEF dir, w, u
<1>3. /\ Open(g, TRUE) = [ok |-> mapped, list |-> IF mapped THEN w.list ELSE << >>]
      /\ Open(g, FALSE) = [ok |-> dir.found /\ u.ok /\ (FALSE => fills),
                           list |-> IF dir.found /\ u.ok /\ (FALSE => fills) THEN u.list ELSE << >>]
  BY DEF Open, dir, w, u
<1>4. Open(g, TRUE).ok = mapped /\ Open(g, TRUE).list = IF mapped THEN w.list ELSE << >>
  <2> DEFINE x == IF mapped THEN w.list ELSE << >>
  <2>1. [ok |-> mapped, list |-> x].ok = mapped /\ [ok |-> mapped, list |-> x].list = x
    <3> HIDE DEF mapped, x
    <3> QED OBVIOUS
  <2> HIDE DEF mapped
  <2> QED BY ONLY <1>3, <2>1, Zenon DEF x
<1>5. (dir.found /\ u.ok /\ (FALSE => fills)) = read
  <2> HIDE DEF fills
  <2> QED OBVIOUS
<1>6. Open(g, FALSE).ok = read /\ Open(g, FALSE).list = IF read THEN u.list ELSE << >>
  <2> DEFINE b == dir.found /\ u.ok /\ (FALSE => fills)
             x == IF b THEN u.list ELSE << >>
             y == IF read THEN u.list ELSE << >>
  <2>1. [ok |-> b, list |-> x].ok = b /\ [ok |-> b, list |-> x].list = x
    <3> HIDE DEF b, x
    <3> QED OBVIOUS
  <2>2. Open(g, FALSE) = [ok |-> b, list |-> x]
    BY <1>3
  <2>3. b = read
    BY <1>5
  <2>4. x = y
    <3> HIDE DEF b, read
    <3> QED BY <2>3
  <2> HIDE DEF b, x
  <2>5. Open(g, FALSE).ok = b /\ Open(g, FALSE).list = x
    BY ONLY <2>1, <2>2, Zenon
  <2>6. Open(g, FALSE).ok = read
    BY ONLY <2>3, <2>5, Zenon
  <2>7. Open(g, FALSE).list = y
    BY ONLY <2>4, <2>5, Zenon
  <2> QED BY <2>6, <2>7
<1>7. dir.found => /\ dir.entries \in Nat /\ dir.offset \in Nat /\ dir.size \in Nat
                   /\ dir.offset + dir.size <= Len(g)
  BY <1>1, FoundLies DEF dir
<1>8. mapped => u = w /\ Early(w.list, dir)
  BY <1>1, <1>7, MappedWalks DEF u, w
<1>9. read /\ fills => w = u
  BY <1>1, <1>7, ReadWalks DEF u, w
<1>10. mapped <=> read /\ fills
  BY <1>8, <1>9
<1>11. mapped => Open(g, TRUE) = Open(g, FALSE)
  <2> SUFFICES ASSUME mapped PROVE Open(g, TRUE) = Open(g, FALSE)
    OBVIOUS
  <2>1. u = w /\ read /\ fills
    BY <1>8, <1>10
  <2>2. Open(g, TRUE) = [ok |-> TRUE, list |-> w.list] /\ Open(g, FALSE) = [ok |-> TRUE, list |-> u.list]
    BY <1>3, <2>1
  <2> QED BY <2>1, <2>2
<1>12. mapped => Early(Open(g, FALSE).list, dir)
  BY <1>6, <1>8, <1>10
<1> HIDE DEF mapped, read, fills
<1> QED BY <1>2, <1>4, <1>6, <1>10, <1>11, <1>12 DEF dir

-----------------------------------------------------------------------------
(* The entries that the pool extracts *)

\* What the pool works on is what a writer wrote, in full (zipy_open).
THEOREM WrittenAlwaysOpens == Spec => []WrittenOpens
PROOF
<1>1. WrittenOpens
  BY WrittenListed, TruncatedRefused DEF WrittenOpens
<1> QED BY <1>1, PTL

\* And it is the same whether the archive is mapped or read, damaged or not.
THEOREM MappedAlwaysOpensToo == Spec => []MappedOpensToo
PROOF
<1>1. MappedOpensToo
  BY MappedReads DEF MappedOpensToo
<1> QED BY <1>1, PTL
=============================================================================

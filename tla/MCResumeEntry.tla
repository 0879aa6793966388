---------------------------- MODULE MCResumeEntry ----------------------------
(* Small instances of ResumeEntry for TLC, with what Copy and Inflate do *)
(* to the data of the entry. *)
EXTENDS ResumeEntry, EntryData, Ciphers

AnyArchive == [method : {"store", "deflate"}, cipher : {"none", "zipcrypto", "aes2"},
               intact : BOOLEAN]
AnyOptions == [resume : BOOLEAN, crc : BOOLEAN, meta : BOOLEAN]

\* No part, or one of any length; beyond the first chunk it can be another file's.
AnyPart == {None} \union
  { f \in [size : 0 .. Size + 1, good : BOOLEAN, meta : {FALSE}] :
      (f.size = 0 => f.good) /\ (f.size > Size => ~f.good) }

\* The user has no such file, a shorter one, or another one of the same size.
OldFinals == { None, [size |-> 1, good |-> FALSE, meta |-> FALSE],
               [size |-> Size, good |-> FALSE, meta |-> FALSE] }

GoodArchive    == [method : {"store", "deflate"}, cipher : {"none"}, intact : {TRUE}]
DefaultOptions == [resume : {TRUE}, crc : {TRUE}, meta : {TRUE}]
NoFile         == {None}

\* Stored and deflated data of up to five cells, in chunks of two, behind every
\* header, arriving in full or not.
Locks  == [cipher : {"none"}, key : {"none"}, mac : {TRUE}]
            \union [cipher : {"zipcrypto"}, key : {"none", "refused", "guessed", "right"}, mac : {TRUE}]
            \union [cipher : {"aes"}, key : {"guessed", "right"}, mac : BOOLEAN]
Stores == [method : {"store"}, packed : 0 .. 5, size : 0 .. 3, missing : 0 .. 2, good : BOOLEAN,
           own : {1}, out : {0}, broken : {0}, late : {FALSE}]
Deflates == [method : {"deflate"}, packed : {1, 3, 5}, size : {0, 2, 3}, missing : 0 .. 1, good : BOOLEAN,
             own : 1 .. 4, out : {0, 2, 3}, broken : {0, 2}, late : BOOLEAN]
Sent(lock, data) ==
  [cipher |-> lock.cipher, key |-> lock.key, mac |-> lock.mac, method |-> data.method,
   packed |-> data.packed, size |-> data.size, avail |-> data.packed - data.missing,
   good |-> data.good, own |-> data.own, out |-> data.out, broken |-> data.broken,
   late |-> data.late]
SomePayloads == { p \in { Sent(l, d) : l \in Locks, d \in Stores \union Deflates } : p.avail >= 0 }

Never == 1000
Undisturbed1 == [mapped : BOOLEAN, mapOut : BOOLEAN, tell : BOOLEAN, check : BOOLEAN,
                 cancelAt : {Never}, disk : {Never}, from : {0, 2}, prefix : {TRUE}]
Disturbed == [mapped : BOOLEAN, mapOut : {FALSE}, tell : {TRUE}, check : {TRUE},
              cancelAt : {2, 3}, disk : {Never}, from : {0}, prefix : {TRUE}]
  \union [mapped : BOOLEAN, mapOut : {FALSE}, tell : {FALSE}, check : BOOLEAN,
          cancelAt : {Never}, disk : {1, 2}, from : {0, 1}, prefix : BOOLEAN]
SomeWays == Undisturbed1 \union Disturbed

\* What the runs take for one step, copying and inflating, is right.
DataIsRight == pc = "idle" => OkIsWhole /\ SoundIsExtracted /\ PathsAgree

\* Data in up to three pieces, to beyond two blocks of the hash; passwords that
\* are shorter than a block, and longer.
SomeCuts == { c \in UNION { [1 .. k -> 0 .. 13] : k \in 0 .. 2 } : Sum2(c) <= 13 }
              \union [1 .. 3 -> {1, 2, 5}]
SomePasswords == { Message(n) : n \in {0, 1, 6, 7} }

\* And so is what the cipher does to a payload that comes in pieces.
PiecesMakeWhole == pc = "idle" => KeyStreamGoesOn /\ HashIsOfTheWhole /\ KeyIsDerived
=============================================================================

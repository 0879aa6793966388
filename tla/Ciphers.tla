------------------------------- MODULE Ciphers -------------------------------
(***************************************************************************)
(* How WinZip AES handles data that comes in pieces (src/crypto/aes_wg.c,  *)
(* src/crypto/sha1.c): the key stream that is used up across calls, with   *)
(* its short cut for four blocks; the hash that collects blocks; and the   *)
(* derivation of the key, which leaves out what is the same in every turn. *)
(* The block cipher and the compression of SHA-1 are not computed: a byte  *)
(* of key stream is the counter it comes from and its place, a hash is the *)
(* list of blocks that went into it.                                       *)
(***************************************************************************)
EXTENDS Integers, Sequences

CONSTANTS
  BlockLen,   \* AES_WG_BLOCK_SIZE, 16
  Counters,   \* how many values a counter of 64 bits has
  HashBlock,  \* SHA1_BLOCK_SIZE, 64
  LenField,   \* the bytes of the length at the end, 8
  Digest      \* SHA1_SIZE, 20

ASSUME CipherAssumption ==
  /\ {BlockLen, Counters, HashBlock, LenField, Digest} \subseteq Nat \ {0}
  /\ Digest + 1 + LenField <= HashBlock

Lesser(a, b) == IF a < b THEN a ELSE b

-----------------------------------------------------------------------------
(* aes_wg_decrypt: ctx.nonce, the block ctx.stream was made of, ctx.stream_pos, *)
(* and the masks of the bytes so far.                                        *)

AesInit == [nonce |-> 0, stream |-> 0, pos |-> BlockLen, left |-> 0, masks |-> << >>]

\* aes_wg_next_stream
NextStream(c) ==
  [c EXCEPT !.nonce = (@ + 1) % Counters, !.stream = (c.nonce + 1) % Counters, !.pos = 0]

\* n bytes of the stream there is.
Masked(c, n) ==
  [c EXCEPT !.pos = @ + n, !.left = @ - n,
            !.masks = @ \o [i \in 1 .. n |-> << c.stream, c.pos + i - 1 >>]]

\* aes_wg_decrypt4 leaves stream_pos at the end of a block.
Masked4(c) ==
  [c EXCEPT !.nonce = (@ + 4) % Counters, !.stream = (c.nonce + 4) % Counters,
            !.left = @ - 4 * BlockLen,
            !.masks = @ \o [i \in 1 .. 4 * BlockLen |->
                              << (c.nonce + 1 + (i - 1) \div BlockLen) % Counters,
                                 (i - 1) % BlockLen >>]]

\* One turn of the loop; fast is a build for processors with AES, small a call
\* for less than a block, which goes byte by byte.
Turn(fast, small, c) ==
  LET ready == IF c.pos = BlockLen THEN NextStream(c) ELSE c
  IN CASE c.left = 0                                                    -> c
       [] c.left > 0 /\ small                                            -> Masked(ready, 1)
       [] c.left > 0 /\ ~small /\ fast /\ c.pos = BlockLen /\ c.left >= 4 * BlockLen -> Masked4(c)
       [] c.left > 0 /\ ~small /\ ~(fast /\ c.pos = BlockLen /\ c.left >= 4 * BlockLen) ->
            Masked(ready, Lesser(BlockLen - ready.pos, c.left))

\* Mutant: what is left of a block is forgotten between two calls.
DecryptFresh(fast, c, n) ==
  LET after[i \in 0 .. n] ==
        IF i = 0 THEN [c EXCEPT !.left = n, !.pos = BlockLen]
        ELSE Turn(fast, n < BlockLen, after[i - 1])
  IN after[n]

\* Each turn takes a byte at least.
Decrypt(fast, c, n) ==
  LET after[i \in 0 .. n] ==
        IF i = 0 THEN [c EXCEPT !.left = n] ELSE Turn(fast, n < BlockLen, after[i - 1])
  IN after[n]

-----------------------------------------------------------------------------
(* SHA-1 and HMAC.  A byte is a tuple that begins with its kind.             *)

ShaInit == [len |-> 0, buf |-> << >>, h |-> << >>]
Compress(s, block) == [s EXCEPT !.h = Append(@, block)]
Skipped(data, n)   == SubSeq(data, n + 1, Len(data))

\* sha1_update: fill the buffer, then whole blocks from the data, then keep the rest.
ShaUpdate(s, data) ==
  LET n      == IF s.buf = << >> THEN 0 ELSE Lesser(HashBlock - Len(s.buf), Len(data))
      filled == [s EXCEPT !.len = @ + Len(data), !.buf = @ \o SubSeq(data, 1, n)]
      first  == IF Len(filled.buf) = HashBlock
                  THEN [Compress(filled, filled.buf) EXCEPT !.buf = << >>] ELSE filled
      rest   == Skipped(data, n)
      blocks == Len(rest) \div HashBlock
      taken[i \in 0 .. blocks] ==
        IF i = 0 THEN first
        ELSE Compress(taken[i - 1], SubSeq(rest, (i - 1) * HashBlock + 1, i * HashBlock))
      tail   == Skipped(rest, blocks * HashBlock)
  IN IF tail = << >> THEN taken[blocks] ELSE [taken[blocks] EXCEPT !.buf = tail]

Zeros(n)       == [i \in 1 .. n |-> << "zero" >>]
LengthBytes(n) == [i \in 1 .. LenField |-> << "length", n, i >>]
Out(s)         == [i \in 1 .. Digest |-> << "digest", s.h, i >>]

\* sha1_final: 0x80, zeros, perhaps a block more, the length.
ShaFinal(s) ==
  LET marked == [s EXCEPT !.buf = Append(@, << "mark" >>)]
      ready  == IF Len(marked.buf) > HashBlock - LenField
                  THEN [Compress(marked, marked.buf \o Zeros(HashBlock - Len(marked.buf)))
                          EXCEPT !.buf = << >>]
                  ELSE marked
  IN Out(Compress(ready, ready.buf \o Zeros(HashBlock - LenField - Len(ready.buf))
                           \o LengthBytes(s.len)))

\* hmac_sha1_init, hmac_sha1_final
Pad(kind, key) ==
  [i \in 1 .. HashBlock |-> << kind, IF i <= Len(key) THEN key[i] ELSE << "zero" >> >>]
HmacInit(password) ==
  LET key == IF Len(password) > HashBlock THEN ShaFinal(ShaUpdate(ShaInit, password)) ELSE password
  IN [inner |-> ShaUpdate(ShaInit, Pad("ipad", key)), outer |-> ShaUpdate(ShaInit, Pad("opad", key))]
HmacFinal(h) == ShaFinal(ShaUpdate(h.outer, ShaFinal(h.inner)))

-----------------------------------------------------------------------------
(* pbkdf2_hmac_sha1 *)

\* hmac_sha1_digest20: the hash of a digest behind a pad is one more block.
Digest20(seed, u) ==
  LET End(digest) == digest \o << << "mark" >> >> \o Zeros(HashBlock - Digest - 1 - LenField)
                       \o LengthBytes(HashBlock + Digest)
      inner == Out(Compress(seed.inner, End(u)))
  IN Out(Compress(seed.outer, End(inner)))

\* The first value, of the salt and the number of the block, and those of the
\* later turns, which are combined.
First(seed, salt, block) ==
  HmacFinal([seed EXCEPT !.inner = ShaUpdate(ShaUpdate(@, salt), << << "counter", block >> >>)])
Derived(password, salt, turns, block) ==
  LET seed == HmacInit(password)
      us[i \in 1 .. turns] ==
        IF i = 1 THEN First(seed, salt, block) ELSE Digest20(seed, us[i - 1])
  IN us

-----------------------------------------------------------------------------
(* Properties *)

CONSTANTS Cuts, Passwords, Turns

ASSUME PieceAssumption ==
  /\ Cuts \subseteq Seq(Nat) /\ Turns \subseteq Nat \ {0}
  /\ \A p \in Passwords : p \in Seq({ p[i] : i \in DOMAIN p })

Sum2(cut) ==
  LET upTo[k \in 0 .. Len(cut)] == IF k = 0 THEN 0 ELSE upTo[k - 1] + cut[k]
  IN upTo[Len(cut)]
Message(n) == [i \in 1 .. n |-> << "byte", i >>]
KeyStream(n) ==
  [i \in 1 .. n |-> << (1 + (i - 1) \div BlockLen) % Counters, (i - 1) % BlockLen >>]

\* The state after calls for the pieces of a cut, and the hash of what they hold.
Decrypted(fast, cut) ==
  LET after[k \in 0 .. Len(cut)] ==
        IF k = 0 THEN AesInit ELSE Decrypt(fast, after[k - 1], cut[k])
  IN after[Len(cut)]
Fed(data, cut) ==
  LET after[k \in 0 .. Len(cut)] ==
        IF k = 0 THEN [s |-> ShaInit, at |-> 0]
        ELSE [s  |-> ShaUpdate(after[k - 1].s, SubSeq(data, after[k - 1].at + 1, after[k - 1].at + cut[k])),
              at |-> after[k - 1].at + cut[k]]
  IN after[Len(cut)].s

\* However the calls cut the data, on every build, byte i is decrypted with byte i
\* of the key stream (aes_wg_decrypt, called by write_chunk and inflate_raw).
KeyStreamGoesOn ==
  \A cut \in Cuts, fast \in BOOLEAN :
    Decrypted(fast, cut).masks = KeyStream(Sum2(cut))

\* The blocks of a message, with a mark, zeros and its length at the end.
Blocks1(data) ==
  LET zeros == (2 * HashBlock - LenField - 1 - (Len(data) % HashBlock)) % HashBlock
      all   == data \o << << "mark" >> >> \o Zeros(zeros) \o LengthBytes(Len(data))
  IN [k \in 1 .. Len(all) \div HashBlock |-> SubSeq(all, (k - 1) * HashBlock + 1, k * HashBlock)]
Hash(data) == Out([h |-> Blocks1(data)])

\* However the updates cut a message, its hash is that of the whole (sha1_update,
\* sha1_final), also where the end fills the last block.
HashIsOfTheWhole ==
  \A cut \in Cuts :
    LET m == Message(Sum2(cut))
    IN ShaFinal(Fed(m, cut)) = Hash(m)

\* RFC 2104 and RFC 2898, without short cuts.
Hmac(password, data) ==
  LET key == IF Len(password) > HashBlock THEN Hash(password) ELSE password
  IN Hash(Pad("opad", key) \o Hash(Pad("ipad", key) \o data))
KeyIsDerived ==
  \A password \in Passwords, salt \in Passwords, turns \in Turns, block \in 1 .. 2 :
    LET us == Derived(password, salt, turns, block)
    IN /\ Len(us) = turns
       /\ us[1] = Hmac(password, salt \o << << "counter", block >> >>)
       /\ \A i \in 2 .. turns : us[i] = Hmac(password, us[i - 1])
=============================================================================

--------------------------- MODULE OsslAsconAead ---------------------------
(***************************************************************************)
(* ASCON_AEAD128_CTX of the OpenSSL provider (prov/ascon_local.h): the     *)
(* streaming core as operators on a context.  Unlike wolfSSL it also       *)
(* streams the associated data, through the one-block buffer adPart.       *)
(***************************************************************************)
EXTENDS AsconOneShot

ZeroBlock == ZeroBytes(AeadRate)

\* OPENSSL_zalloc.  The scratch array ct never outlives a call and is left out.
ZeroOssl == [s |-> ZeroState, key |-> ZeroBytes(2 * LaneSz), adPart |-> ZeroBlock,
             tag |-> ZeroBytes(2 * LaneSz), lastBlkSz |-> 0, adPartSz |-> 0,
             enc |-> FALSE, adStarted |-> FALSE, adDone |-> FALSE]

OsslFields == DOMAIN ZeroOssl

\* Slip, as in an earlier revision: the AD buffer of the last record stays.
ResetKeepsAdPart(c, key, nonce) ==
  [c EXCEPT !.s = XorAt(ZeroState, 0, AEAD128_IV \o key \o nonce), !.key = key,
            !.lastBlkSz = 0, !.adPartSz = 0,
            !.adStarted = FALSE, !.adDone = FALSE]

\* Slip: a record abandoned inside a block shifts the next one.
ResetKeepsBlock(c, key, nonce) ==
  [ResetKeepsAdPart(c, key, nonce) EXCEPT !.adPart = ZeroBlock,
                                          !.lastBlkSz = c.lastBlkSz]

ResetOssl(c, key, nonce) ==
  [c EXCEPT !.s = XorAt(ZeroState, 0, AEAD128_IV \o key \o nonce), !.key = key,
            !.lastBlkSz = 0, !.adPartSz = 0, !.adPart = ZeroBlock,
            !.adStarted = FALSE, !.adDone = FALSE]

\* memcpy(adPart + at, x, Len(x))
Buffer(part, at, x) ==
  [i \in 1 .. AeadRate |->
     IF i \in at + 1 .. at + Len(x) THEN x[i - at] ELSE part[i]]

BeginAd(c) ==
  IF c.adStarted THEN c
  ELSE [c EXCEPT !.s = XorAt(Permutation(@, PA), Lane(3), c.key),
                 !.adStarted = TRUE]

AbsorbBuffer(s, part) == Permutation(XorAt(s, 0, part), PB)

\* Fill the buffered block first, then take whole blocks, then buffer the rest.
\* A block that was absorbed from the buffer is not erased from it.
AbsorbAad(c0, ad) ==
  LET c     == BeginAd(c0)
      space == AeadRate - c.adPartSz
      n     == IF c.adPartSz = 0 THEN 0
               ELSE IF Len(ad) < space THEN Len(ad) ELSE space
      part  == Buffer(c.adPart, c.adPartSz, Piece(ad, 0, n))
      held  == (c.adPartSz + n) % AeadRate
      s     == IF c.adPartSz + n = AeadRate THEN AbsorbBuffer(c.s, part) ELSE c.s
      rest  == SubSeq(ad, n + 1, Len(ad))
      left  == Len(rest) % AeadRate
      whole == WholeBlocks(Encrypting, s, AeadRate, PB, rest).state
  IN  IF left = 0
      THEN [c EXCEPT !.s = whole, !.adPart = part, !.adPartSz = held]
      ELSE [c EXCEPT !.s = whole, !.adPartSz = left,
                     !.adPart = Buffer(part, 0, Piece(rest, Len(rest) - left, left))]

\* Pad byte onto whatever the buffer holds behind the data, then the separator.
FinalizeAad(c0) ==
  LET c    == BeginAd(c0)
      part == [c.adPart EXCEPT ![c.adPartSz + 1] = SymDiff(@, One)]
      s    == IF c.adPartSz > 0 THEN AbsorbBuffer(c.s, part) ELSE c.s
  IN  IF c0.adDone THEN c0
      ELSE [c EXCEPT !.adStarted = c0.adStarted,
                     !.adPart = IF c.adPartSz > 0 THEN part ELSE @,
                     !.s = XorAt(s, Lane(Lanes) - 1, <<TopBit>>),
                     !.adPartSz = 0, !.adDone = TRUE]

\* encrypt_update and decrypt_update: close the AD, then stream.
OsslUpdate(c0, x) ==
  LET c == FinalizeAad(c0)
      r == IF c.enc THEN Stream(Encrypting, c.s, c.lastBlkSz, AeadRate, PB, x)
                    ELSE Stream(Decrypting, c.s, c.lastBlkSz, AeadRate, PB, x)
  IN  [ctx |-> [c EXCEPT !.s = r.state, !.lastBlkSz = r.lastBlkSz], out |-> r.out]

\* Pad, key, PA, key: the state the tag is read from.
Closed(c0) ==
  LET c      == FinalizeAad(c0)
      padded == XorAt(c.s, c.lastBlkSz, <<One>>)
      mixed  == Permutation(XorAt(padded, Lane(2), c.key), PA)
  IN  [c EXCEPT !.s = XorAt(mixed, Lane(3), c.key)]

Computed(c) == Bytes(c.s, Lane(3), 2 * LaneSz)

\* Slip: the computed tag overwrites the expected one before the comparison.
FinalStoresFirst(c0) ==
  LET c == Closed(c0) IN [ctx |-> [c EXCEPT !.tag = Computed(c)], ok |-> TRUE]

\* Encrypting: store the tag, succeed.  Decrypting: compare with the stored tag.
OsslFinal(c0) ==
  LET c == Closed(c0) IN
  [ctx |-> [c EXCEPT !.tag = IF c.enc THEN Computed(c) ELSE @],
   ok  |-> c.enc \/ Computed(c) = c.tag]
=============================================================================

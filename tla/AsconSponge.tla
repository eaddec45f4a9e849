---------------------------- MODULE AsconSponge ----------------------------
(***************************************************************************)
(* The 320-bit Ascon state and the byte-level operations wolfSSL and the   *)
(* OpenSSL provider perform on it (xorbuf, XMEMCPY into and out of the     *)
(* s8/s64 views, permutation).                                             *)
(*                                                                         *)
(* A byte is the set of its set bits, so xor is symmetric difference and   *)
(* is exact.  The permutation is ideal: its outputs are fresh independent  *)
(* bytes, a free function of the whole input state and the round count.    *)
(* Two states are equal here exactly when the code computes equal states   *)
(* for every permutation.  A state is kept as the last permutation call    *)
(* ("base") plus what has been xored onto each cell since ("delta").       *)
(*                                                                         *)
(* LaneSz bytes make a lane (8 in the code); every offset is in lanes, as  *)
(* in the code, so a small LaneSz keeps the layout: lanes 0-1 AEAD rate,   *)
(* lanes 1-2 key, lanes 3-4 nonce and tag, lane 0 hash rate.               *)
(***************************************************************************)
EXTENDS Integers, Sequences, SequencesExt

CONSTANT LaneSz   \* bytes in a lane

ASSUME LaneSzAssumption == LaneSz \in Nat \ {0}

Lanes == 5
Cells == 0 .. Lanes * LaneSz - 1
Lane(i) == i * LaneSz                  \* s64[i] starts at this byte

Zero == {}                             \* the byte 0x00
One == {<<"bit", 0, 0>>}               \* the byte 0x01
TopBit == {<<"bit", 7, 0>>}            \* the byte 0x80
Named(name, n) == [i \in 1 .. n |-> {<<"byte", name, i>>}]
ZeroBytes(n) == [i \in 1 .. n |-> Zero]

XorBytes(x, y) == [i \in 1 .. Len(x) |-> SymDiff(x[i], y[i])]

----------------------------------------------------------------------------
\* memset 0: nothing has been permuted and every byte is zero.
ZeroState == [base |-> <<>>, delta |-> [i \in Cells |-> Zero]]

\* Byte i of what the last permutation left (zero before any).
Fresh(base, i) == IF base = <<>> THEN Zero ELSE {<<base, i>>}

Byte(s, i) == SymDiff(Fresh(s.base, i), s.delta[i])

Bytes(s, off, n) == [i \in 1 .. n |-> Byte(s, off + i - 1)]

\* xorbuf(s8 + off, x, Len(x))
XorAt(s, off, x) ==
  [s EXCEPT !.delta = [i \in Cells |->
     IF i \in off .. off + Len(x) - 1 THEN SymDiff(@[i], x[i - off + 1]) ELSE @[i]]]

\* XMEMCPY(s8 + off, x, Len(x))
CopyAt(s, off, x) ==
  [s EXCEPT !.delta = [i \in Cells |->
     IF i \in off .. off + Len(x) - 1
       THEN SymDiff(Fresh(s.base, i), x[i - off + 1]) ELSE @[i]]]

\* permutation(&s, rounds)
Permutation(s, rounds) ==
  [base |-> <<rounds, s>>, delta |-> [i \in Cells |-> Zero]]

----------------------------------------------------------------------------
(***************************************************************************)
(* Streaming through the rate.  A duplexer takes bytes x at offset off of  *)
(* the state and says what the state becomes and what is put out.          *)
(***************************************************************************)
Encrypting(s, off, x) ==
  LET t == XorAt(s, off, x)
  IN  [state |-> t, out |-> Bytes(t, off, Len(x))]

\* Slip: decrypting in place, the state takes the plaintext that has already
\* overwritten the ciphertext in the buffer.
DecryptingInPlace(s, off, x) ==
  LET out == XorBytes(Bytes(s, off, Len(x)), x)
  IN  [state |-> CopyAt(s, off, out), out |-> out]

Decrypting(s, off, x) ==
  [state |-> CopyAt(s, off, x), out |-> XorBytes(Bytes(s, off, Len(x)), x)]

Piece(x, from, n) == SubSeq(x, from + 1, from + n)

\* The "while (inSz >= RATE)" loop over the whole blocks of x.
WholeBlocks(Duplex(_, _, _), s, rate, rounds, x) ==
  LET Turn(acc, k) ==
        LET d == Duplex(acc.state, 0, Piece(x, (k - 1) * rate, rate))
        IN  [state |-> Permutation(d.state, rounds), out |-> acc.out \o d.out]
  IN  FoldLeft(Turn, [state |-> s, out |-> <<>>],
               [k \in 1 .. Len(x) \div rate |-> k])

\* The body every Update function shares: finish the block left over from
\* the last call, take the whole blocks, store what is left.
Stream(Duplex(_, _, _), s, lastBlkSz, rate, rounds, x) ==
  LET space == rate - lastBlkSz
      n     == IF Len(x) < space THEN Len(x) ELSE space
      head  == IF lastBlkSz = 0 THEN [state |-> s, out |-> <<>>]
                                ELSE Duplex(s, lastBlkSz, Piece(x, 0, n))
      rest  == IF lastBlkSz = 0 THEN x ELSE SubSeq(x, n + 1, Len(x))
      start == IF lastBlkSz = 0 THEN s ELSE Permutation(head.state, rounds)
      whole == WholeBlocks(Duplex, start, rate, rounds, rest)
      left  == Len(rest) % rate
      tail  == Duplex(whole.state, 0, Piece(rest, Len(rest) - left, left))
  IN  IF lastBlkSz # 0 /\ lastBlkSz + n < rate
        THEN [state |-> head.state, lastBlkSz |-> lastBlkSz + n, out |-> head.out]
        ELSE [state |-> tail.state, lastBlkSz |-> left,
              out |-> head.out \o whole.out \o tail.out]

\* Hash output: n times, permute and copy rate bytes out.
Squeeze(s, rate, rounds, n) ==
  LET Turn(acc, k) ==
        LET t == Permutation(acc.state, rounds)
        IN  [state |-> t, out |-> acc.out \o Bytes(t, 0, rate)]
  IN  FoldLeft(Turn, [state |-> s, out |-> <<>>], [k \in 1 .. n |-> k])

----------------------------------------------------------------------------
\* The parameters both implementations use.
HashRate == LaneSz
HashLanes == 4                         \* ASCON_HASH256_SZ / ASCON_HASH256_RATE
AeadRate == 2 * LaneSz
PA == 12
PB == 8

HASH256_IV == Named("Hash256_IV", LaneSz)
AEAD128_IV == Named("AEAD128_IV", LaneSz)
============================================================================

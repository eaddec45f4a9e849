---------------------------- MODULE AsconOneShot ----------------------------
(***************************************************************************)
(* The one-shot drivers of tools/verify_ascon_32bit.c: the whole message   *)
(* in one call and no context.  The streaming contexts of wolfSSL and of   *)
(* the OpenSSL provider are compared with them.                            *)
(***************************************************************************)
EXTENDS AsconSponge

\* xor x into the rate block by block, the pad byte behind its last byte.
AbsorbPadded(s, rate, rounds, x) ==
  LET left  == Len(x) % rate
      whole == WholeBlocks(Encrypting, s, rate, rounds, x).state
  IN  XorAt(whole, 0, Append(Piece(x, Len(x) - left, left), One))

OneShotHash(msg) ==
  LET iv == Permutation(XorAt(ZeroState, 0, HASH256_IV), PA)
  IN  Squeeze(AbsorbPadded(iv, HashRate, PA, msg), HashRate, PA, HashLanes).out

----------------------------------------------------------------------------
KeyedState(key, nonce) ==
  LET s == XorAt(ZeroState, 0, AEAD128_IV \o key \o nonce)
  IN  XorAt(Permutation(s, PA), Lane(3), key)

AfterAd(s, ad) ==
  LET t == IF ad = <<>> THEN s
           ELSE Permutation(AbsorbPadded(s, AeadRate, PB, ad), PB)
  IN  XorAt(t, Lane(Lanes) - 1, <<TopBit>>)

\* Finalization: key over lanes 2-3, PA, and lanes 3-4 xor key are the tag.
TagOf(s, key) ==
  XorBytes(Bytes(Permutation(XorAt(s, Lane(2), key), PA), Lane(3), Len(key)), key)

OneShotEncrypt(key, nonce, ad, pt) ==
  LET s    == AfterAd(KeyedState(key, nonce), ad)
      left == Len(pt) % AeadRate
      b    == WholeBlocks(Encrypting, s, AeadRate, PB, pt)
      t    == Encrypting(b.state, 0, Piece(pt, Len(pt) - left, left))
  IN  [ct  |-> b.out \o t.out,
       tag |-> TagOf(AbsorbPadded(s, AeadRate, PB, pt), key)]
=============================================================================

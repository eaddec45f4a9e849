---------------------------- MODULE AsconAEAD128 ----------------------------
(***************************************************************************)
(* wc_AsconAEAD128: the AEAD context of wolfcrypt/src/ascon.c.             *)
(*                                                                         *)
(* Each API function is an operator on a context: it returns the context   *)
(* it leaves (a), its return code (ret) and the bytes it writes (out).     *)
(* Callers are modelled in AeadSession.                                    *)
(***************************************************************************)
EXTENDS AsconOneShot

BAD_FUNC_ARG == "BAD_FUNC_ARG"
BAD_STATE_E  == "BAD_STATE_E"
ASCON_AUTH_E == "ASCON_AUTH_E"
Codes == {"ok", BAD_FUNC_ARG, BAD_STATE_E, ASCON_AUTH_E}

NOTSET == "notset"
ENCRYPT == "encrypt"
DECRYPT == "decrypt"

ZeroKey == ZeroBytes(2 * LaneSz)

\* ForceZero of the whole context.
ZeroCtx == [key |-> ZeroKey, iv |-> ZeroKey, state |-> ZeroState,
            keySet |-> FALSE, nonceSet |-> FALSE, adSet |-> FALSE,
            op |-> NOTSET, lastBlkSz |-> 0]

Fields == DOMAIN ZeroCtx

----------------------------------------------------------------------------
Ok(c) == [a |-> c, ret |-> "ok", out |-> <<>>]
Fail(c, code) == [a |-> c, ret |-> code, out |-> <<>>]

\* Slip: the reset forgets that the record layer reads the IV again.
InitWipesIv(c) ==
  Ok([ZeroCtx EXCEPT !.state = XorAt(ZeroState, 0, AEAD128_IV)])

\* Everything is wiped except the per-epoch IV.
InitAead(c) ==
  Ok([ZeroCtx EXCEPT !.iv = c.iv, !.state = XorAt(ZeroState, 0, AEAD128_IV)])

SetKey(c, key) ==
  IF c.keySet THEN Fail(c, BAD_STATE_E)
  ELSE Ok([c EXCEPT !.key = key, !.state = CopyAt(@, Lane(1), key),
                    !.keySet = TRUE])

SetNonce(c, nonce) ==
  IF c.nonceSet THEN Fail(c, BAD_STATE_E)
  ELSE Ok([c EXCEPT !.state = CopyAt(@, Lane(3), nonce), !.nonceSet = TRUE])

\* Nothing here asks whether AD was set or data was processed before.
SetAD(c, ad) ==
  LET keyed == XorAt(Permutation(c.state, PA), Lane(3), c.key)
      bound == IF ad = <<>> THEN keyed
               ELSE Permutation(AbsorbPadded(keyed, AeadRate, PB, ad), PB)
  IN  IF ~c.keySet \/ ~c.nonceSet THEN Fail(c, BAD_STATE_E)
      ELSE Ok([c EXCEPT !.state = XorAt(bound, Lane(Lanes) - 1, <<TopBit>>),
                        !.adSet = TRUE])

\* Slip: data is accepted before SetAD applied the key and the separator.
ReadyNoAd(c) == c.keySet /\ c.nonceSet

Ready(c) == c.keySet /\ c.nonceSet /\ c.adSet

\* Slip: a context that has started to encrypt may go on to decrypt.
OpAllowsAny(c, dir) == TRUE

\* The first data call fixes the direction until the next reset.
OpAllows(c, dir) == c.op \in {NOTSET, dir}

DataUpdate(c, dir, Duplex(_, _, _), x) ==
  LET r == Stream(Duplex, c.state, c.lastBlkSz, AeadRate, PB, x)
  IN  IF ~Ready(c) \/ ~OpAllows(c, dir) THEN Fail(c, BAD_STATE_E)
      ELSE [a |-> [c EXCEPT !.op = dir, !.state = r.state,
                            !.lastBlkSz = r.lastBlkSz],
            ret |-> "ok", out |-> r.out]

EncryptUpdate(c, x) == DataUpdate(c, ENCRYPT, Encrypting, x)
DecryptUpdate(c, x) == DataUpdate(c, DECRYPT, Decrypting, x)

\* Pad, key, PA, key.  The context keeps op, flags and lastBlkSz.
Finalised(c) ==
  LET padded == XorAt(c.state, c.lastBlkSz, <<One>>)
      mixed  == Permutation(XorAt(padded, Lane(2), c.key), PA)
  IN  [c EXCEPT !.state = XorAt(mixed, Lane(3), c.key)]

Tag(c) == Bytes(c.state, Lane(3), 2 * LaneSz)

EncryptFinal(c) ==
  IF ~Ready(c) \/ c.op # ENCRYPT THEN Fail(c, BAD_STATE_E)
  ELSE [a |-> Finalised(c), ret |-> "ok", out |-> Tag(Finalised(c))]

\* Slip: only the first half of the tag is compared.
DecryptFinalHalfTag(c, tag) ==
  IF ~Ready(c) \/ c.op # DECRYPT THEN Fail(c, BAD_STATE_E)
  ELSE IF Piece(Tag(Finalised(c)), 0, LaneSz) = Piece(tag, 0, LaneSz)
       THEN Ok(Finalised(c)) ELSE Fail(Finalised(c), ASCON_AUTH_E)

DecryptFinal(c, tag) ==
  IF ~Ready(c) \/ c.op # DECRYPT THEN Fail(c, BAD_STATE_E)
  ELSE IF Tag(Finalised(c)) = tag
       THEN Ok(Finalised(c)) ELSE Fail(Finalised(c), ASCON_AUTH_E)

\* Slip: the mask shares the initial value of the AEAD.
MaskDomsepIsIv == AEAD128_IV

MASK_DOMSEP == Named("RNDIMSK_", LaneSz)

\* mask_prf_derive: one permutation of domsep, key and sample.
MaskPrf(key, sample) ==
  Bytes(Permutation(XorAt(ZeroState, 0, MASK_DOMSEP \o key \o sample), PA),
        0, 2 * LaneSz)

Mask(c, sample) ==
  IF ~c.keySet THEN Fail(c, BAD_STATE_E)
  ELSE [a |-> c, ret |-> "ok", out |-> MaskPrf(c.key, sample)]
=============================================================================

---------------------------- MODULE AeadSession ----------------------------
(***************************************************************************)
(* One wc_AsconAEAD128 context from New to Free under a caller that issues *)
(* its functions in every order, legal or not.  sess records what the      *)
(* caller asked for since the last reset, so that what the context computes *)
(* can be compared with the one-shot encryption of the same inputs.        *)
(***************************************************************************)
EXTENDS AsconAEAD128

CONSTANTS Keys, Nonces, Ads, Chunks,  \* what the caller may pass
          Ivs,                        \* IVs the record layer stores
          MaxData,                    \* bound on the data bytes of a session
          MaxMisuse,                  \* bound on repeated SetAD and Final calls
          NULL

BlockBytes == UNION {Range(x) : x \in Ads \cup Chunks}

KeyBytes == UNION {Range(k) : k \in Keys \cup Nonces}

ASSUME DataAssumption == \A x \in Ads \cup Chunks : x \in Seq(BlockBytes)
\* ASCON_AEAD128_KEY_SZ and ASCON_AEAD128_NONCE_SZ: the API takes no length.
ASSUME KeyAssumption ==
  \A k \in Keys \cup Nonces : k \in Seq(KeyBytes) /\ Len(k) = 2 * LaneSz
ASSUME BoundAssumption == MaxData \in Nat /\ MaxMisuse \in Nat

VARIABLES a,     \* the context, or NULL
          ret,   \* return code of the last call
          sess   \* history of the session

vars == <<a, ret, sess>>

\* nonce and ads: as accepted; fed: data in; got: data out; tag: the tag the
\* first Final put out or compared; stage: where the documented order of calls
\* has come to, or "misused" once it was left.
NewSession(stage) ==
  [nonce |-> <<>>, ads |-> <<>>, fed |-> <<>>, got |-> <<>>, tag |-> <<>>,
   verdict |-> NULL, finals |-> 0, stage |-> stage]

Init == /\ a = NULL /\ ret = "ok"
        /\ sess = NewSession("misused")

----------------------------------------------------------------------------
Call(r) == a # NULL /\ a' = r.a /\ ret' = r.ret

\* XMALLOC may fail.  It does not clear: the IV that Init preserves is whatever
\* the memory held.
New == /\ a = NULL
       /\ \/ UNCHANGED <<a, sess>>
          \/ /\ \E iv \in Ivs : a' = InitAead([ZeroCtx EXCEPT !.iv = iv]).a
             /\ sess' = NewSession("open")
       /\ ret' = "ok"

Free == /\ a # NULL
        /\ a' = NULL /\ ret' = "ok"
        /\ sess' = NewSession("misused")

CallInit == Call(InitAead(a)) /\ sess' = NewSession("open")

\* ForceZero also removes the IV block: Init must follow.
CallClear == Call(Ok(ZeroCtx)) /\ sess' = NewSession("misused")

\* The record layer writes the epoch's IV into the context.
StoreIv(iv) == Call(Ok([a EXCEPT !.iv = iv])) /\ UNCHANGED sess

CallSetKey(key) == Call(SetKey(a, key)) /\ UNCHANGED sess

CallSetNonce(nonce) ==
  /\ Call(SetNonce(a, nonce))
  /\ sess' = IF ret' = "ok" THEN [sess EXCEPT !.nonce = nonce] ELSE sess

\* A second SetAD, or one after data, is accepted but leaves the legal order.
CallSetAD(ad) ==
  /\ Len(sess.ads) <= MaxMisuse
  /\ Call(SetAD(a, ad))
  /\ sess' = IF ret' # "ok" THEN sess
             ELSE [sess EXCEPT !.ads = Append(@, ad),
                               !.stage = IF @ = "open" /\ ~a.adSet
                                         THEN "data" ELSE "misused"]

\* So is data after a Final.
Feed(x, r) ==
  /\ Len(sess.fed) + Len(x) <= MaxData
  /\ Call(r)
  /\ sess' = IF ret' # "ok" THEN sess
             ELSE [sess EXCEPT !.fed = @ \o x, !.got = @ \o r.out,
                               !.stage = IF @ = "data" THEN @ ELSE "misused"]

CallEncryptUpdate(x) == Feed(x, EncryptUpdate(a, x))
CallDecryptUpdate(x) == Feed(x, DecryptUpdate(a, x))

Finish(tag, r) ==
  /\ sess.finals <= MaxMisuse
  /\ Call(r)
  /\ sess' = IF ret' = BAD_STATE_E THEN sess
             ELSE [sess EXCEPT !.tag = tag, !.verdict = ret', !.finals = @ + 1,
                               !.stage = IF @ = "data" THEN "ended" ELSE "misused"]

CallEncryptFinal == Finish(EncryptFinal(a).out, EncryptFinal(a))

\* Tags a peer could have sent: the session's own, one with a bit changed in
\* its last byte, and those of data or AD changed in a byte or another nonce.
Flip(x, i) == IF x = <<>> THEN <<One>> ELSE [x EXCEPT ![i] = SymDiff(@, One)]
PeerTags ==
  LET ad  == sess.ads[1]
      own == OneShotEncrypt(a.key, sess.nonce, ad, sess.got).tag
  IN  IF sess.stage # "data" THEN {<<>>}
      ELSE {Flip(own, Len(own))} \cup
           {OneShotEncrypt(k, n, d, p).tag : k \in Keys, n \in Nonces,
              d \in {ad, Flip(ad, 1)}, p \in {sess.got, Flip(sess.got, 1)}}

CallDecryptFinal == \E tag \in PeerTags : Finish(tag, DecryptFinal(a, tag))

CallMask(sample) == Call(Mask(a, sample)) /\ UNCHANGED sess

\* Any function with a NULL context, input or output pointer.
NullArgument == /\ ret' = BAD_FUNC_ARG
                /\ UNCHANGED <<a, sess>>

Next == \/ New \/ Free \/ CallInit \/ CallClear
        \/ \E iv \in Ivs : StoreIv(iv)
        \/ \E key \in Keys : CallSetKey(key)
        \/ \E nonce \in Nonces : CallSetNonce(nonce)
        \/ \E ad \in Ads : CallSetAD(ad)
        \/ \E x \in Chunks : CallEncryptUpdate(x) \/ CallDecryptUpdate(x)
        \/ CallEncryptFinal
        \/ CallDecryptFinal
        \/ \E sample \in Nonces : CallMask(sample)
        \/ NullArgument

Spec == Init /\ [][Next]_vars

----------------------------------------------------------------------------
\* Guards of the API protect the block buffer and the order of the setters: a
\* context never processes data without key, nonce and AD, and never holds a
\* whole unprocessed block, so the pad byte of Final stays inside the rate.
CtxInv ==
  a # NULL => /\ DOMAIN a = Fields
              /\ a.lastBlkSz \in 0 .. AeadRate - 1
              /\ a.op \in {NOTSET, ENCRYPT, DECRYPT}
              /\ {a.keySet, a.nonceSet, a.adSet} \subseteq BOOLEAN
              /\ a.adSet => a.keySet /\ a.nonceSet
              /\ a.op # NOTSET => a.keySet /\ a.nonceSet /\ a.adSet
              /\ a.lastBlkSz # 0 => a.op # NOTSET

\* Shapes of what the code keeps and returns.
TypeOK == CtxInv /\ ret \in Codes

InOrder == a # NULL /\ sess.stage \in {"data", "ended"}

OneShot(plain) == OneShotEncrypt(a.key, sess.nonce, sess.ads[1], plain)

\* In a legal session the chunking does not matter: what EncryptUpdate has put
\* out is the one-shot ciphertext of what it was given, EncryptFinal's tag is
\* the one-shot tag, and what DecryptUpdate has put out is the plaintext whose
\* one-shot ciphertext it was given.
StreamingIsOneShot ==
  InOrder =>
    /\ a.op = ENCRYPT => sess.got = OneShot(sess.fed).ct
    /\ a.op = ENCRYPT /\ sess.stage = "ended" => sess.tag = OneShot(sess.fed).tag
    /\ a.op = DECRYPT => sess.fed = OneShot(sess.got).ct

\* DecryptFinal accepts exactly the tag of the session's own key, nonce, AD and
\* data: not that of another key, nonce or AD, nor of data changed in a byte.
AcceptsOnlyItsOwnTag ==
  InOrder /\ sess.stage = "ended" /\ a.op = DECRYPT =>
    (sess.verdict = "ok" <=> sess.tag = OneShot(sess.got).tag)

\* A record-number mask never repeats the keystream of a record under the same
\* key, even for a ciphertext sample equal to that record's nonce.
MaskIsNotKeystream ==
  InOrder =>
    \A sample \in Nonces :
      ~IsPrefix(XorBytes(sess.fed, sess.got), MaskPrf(a.key, sample))
        \/ sess.fed = <<>>

\* Once data has flowed, direction and key stay until the key itself is wiped:
\* no keystream is produced twice, in either direction, from one set-up.
SessionFixed ==
  [][a # NULL /\ a' # NULL /\ a.op # NOTSET =>
       \/ a'.op = a.op /\ a'.key = a.key /\ a'.nonceSet
       \/ a'.op = NOTSET /\ ~a'.keySet]_vars

\* Only Clear and the record layer's own store change the per-epoch IV: the
\* Init before every record does not (the IV of every record after the first
\* was zero before Init preserved it).
IvSurvives ==
  [][a # NULL /\ a' # NULL /\ a'.iv # a.iv =>
       a' = ZeroCtx \/ a' = [a EXCEPT !.iv = a'.iv]]_vars
=============================================================================

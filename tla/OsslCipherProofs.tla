-------------------------- MODULE OsslCipherProofs --------------------------
(***************************************************************************)
(* For every lane size, set of contexts, keys, nonces, chunks and order of *)
(* calls: both block buffers of a provider context stay below one block,   *)
(* and a record on which the provider's AD handling agrees with wolfSSL's  *)
(* is what the one-shot algorithm puts out, and accepts its own tag only.  *)
(*                                                                         *)
(* The invariant Holds says what a context is at each stage of its record: *)
(* while AD may come, whole blocks of it absorbed and the rest waiting in  *)
(* adPart (Buffered); then data flowing, as one stream over all of it.     *)
(***************************************************************************)
EXTENDS OsslCipher, AsconSpongeProofs

\* The rate is a positive number of bytes.
LEMMA OsslRateType == AeadRate \in Nat \ {0}
BY LaneSzAssumption DEF AeadRate

WellFormed(c) == /\ DOMAIN c = OsslFields
                 /\ c.adPartSz \in 0 .. AeadRate - 1
                 /\ c.lastBlkSz \in 0 .. AeadRate - 1
                 /\ {c.enc, c.adStarted, c.adDone} \subseteq BOOLEAN
                 /\ c.lastBlkSz # 0 => c.adDone

\* A context newly allocated is well formed.
LEMMA ZeroOsslWellFormed == WellFormed(ZeroOssl)
BY OsslRateType DEF WellFormed, ZeroOssl, OsslFields

\* Init with an iv leaves a well-formed context, whatever it found.
LEMMA ResetWellFormed ==
  ASSUME NEW c, WellFormed(c), NEW key, NEW nonce
  PROVE  WellFormed(ResetOssl(c, key, nonce))
BY OsslRateType DEF WellFormed, ResetOssl, OsslFields, ZeroOssl

\* The first permutation leaves both buffers alone.
LEMMA BeginAdWellFormed ==
  ASSUME NEW c, WellFormed(c)
  PROVE  /\ WellFormed(BeginAd(c))
         /\ BeginAd(c).adPartSz = c.adPartSz /\ BeginAd(c).adDone = c.adDone
         /\ BeginAd(c).lastBlkSz = c.lastBlkSz
<1>1. CASE c.adStarted
  BY <1>1 DEF BeginAd
<1>2. CASE ~c.adStarted
  <2>1. PICK s : BeginAd(c) = [c EXCEPT !.s = s, !.adStarted = TRUE]
    BY <1>2 DEF BeginAd
  <2> QED BY <2>1 DEF WellFormed, OsslFields, ZeroOssl
<1> QED BY <1>1, <1>2

\* absorb_aad leaves less than a block buffered, whatever it found buffered.
LEMMA AbsorbAadWellFormed ==
  ASSUME NEW c0, WellFormed(c0), NEW S, NEW ad \in Seq(S)
  PROVE  WellFormed(AbsorbAad(c0, ad))
<1> DEFINE c     == BeginAd(c0)
           space == AeadRate - c.adPartSz
           n     == IF c.adPartSz = 0 THEN 0
                    ELSE IF Len(ad) < space THEN Len(ad) ELSE space
           held  == (c.adPartSz + n) % AeadRate
           rest  == SubSeq(ad, n + 1, Len(ad))
           left  == Len(rest) % AeadRate
           d     == AbsorbAad(c0, ad)
<1>1. WellFormed(c)
  BY BeginAdWellFormed
<1>2. n \in Nat /\ n <= Len(ad)
  BY <1>1, OsslRateType DEF WellFormed
<1>3. held \in 0 .. AeadRate - 1
  <2>1. c.adPartSz + n \in Nat
    BY <1>1, <1>2, OsslRateType DEF WellFormed
  <2> QED BY <2>1, OsslRateType, ModBound
<1>4. left \in 0 .. AeadRate - 1
  <2>1. Len(rest) \in Nat
    BY <1>2
  <2> QED BY <2>1, OsslRateType, ModBound
<1>5. PICK s, p, m : /\ d = [c EXCEPT !.s = s, !.adPart = p, !.adPartSz = m]
                     /\ m \in {held, left}
  <2>1. CASE left = 0
    <3>1. \E s, p : d = [c EXCEPT !.s = s, !.adPart = p, !.adPartSz = held]
      BY <2>1 DEF AbsorbAad
    <3> HIDE DEF d, held, left
    <3> QED BY <3>1
  <2>2. CASE left # 0
    <3>1. \E s, p : d = [c EXCEPT !.s = s, !.adPartSz = left, !.adPart = p]
      BY <2>2 DEF AbsorbAad
    <3>2. PICK s, p : d = [c EXCEPT !.s = s, !.adPartSz = left, !.adPart = p]
      BY <3>1
    <3> HIDE DEF d, held, left, c
    <3>3. d = [c EXCEPT !.s = s, !.adPart = p, !.adPartSz = left]
      BY <3>2, <1>1 DEF WellFormed, OsslFields, ZeroOssl
    <3> QED BY <3>3
  <2> QED BY <2>1, <2>2
<1>6. m \in 0 .. AeadRate - 1
  BY <1>3, <1>4, <1>5
<1> HIDE DEF c, d
<1>7. WellFormed(d)
  BY <1>1, <1>5, <1>6 DEF WellFormed, OsslFields, ZeroOssl
<1> QED BY <1>7 DEF d

\* finalize_aad closes the AD.
LEMMA FinalizeAadWellFormed ==
  ASSUME NEW c, WellFormed(c)
  PROVE  WellFormed(FinalizeAad(c)) /\ FinalizeAad(c).adDone
<1>1. CASE c.adDone
  BY <1>1 DEF FinalizeAad
<1>2. CASE ~c.adDone
  <2> DEFINE b == BeginAd(c)
             d == FinalizeAad(c)
  <2>1. WellFormed(b)
    BY BeginAdWellFormed
  <2>2. \E p, s : d = [b EXCEPT !.adStarted = c.adStarted, !.adPart = p, !.s = s,
                                !.adPartSz = 0, !.adDone = TRUE]
    BY <1>2 DEF FinalizeAad
  <2>3. PICK p, s : d = [b EXCEPT !.adStarted = c.adStarted, !.adPart = p, !.s = s,
                                  !.adPartSz = 0, !.adDone = TRUE]
    BY <2>2
  <2> HIDE DEF b, d
  <2>4. WellFormed(d) /\ d.adDone
    BY <2>1, <2>3, OsslRateType DEF WellFormed, OsslFields, ZeroOssl
  <2> QED BY <2>4 DEF d
<1> QED BY <1>1, <1>2 DEF WellFormed

\* A data update leaves less than a block behind.
LEMMA OsslUpdateWellFormed ==
  ASSUME NEW c0, WellFormed(c0), NEW S, NEW x \in Seq(S)
  PROVE  WellFormed(OsslUpdate(c0, x).ctx)
<1> DEFINE c == FinalizeAad(c0)
           e == Stream(Encrypting, c.s, c.lastBlkSz, AeadRate, PB, x)
           f == Stream(Decrypting, c.s, c.lastBlkSz, AeadRate, PB, x)
           d == OsslUpdate(c0, x).ctx
<1>1. WellFormed(c) /\ c.adDone
  BY FinalizeAadWellFormed
<1>2. e.lastBlkSz \in 0 .. AeadRate - 1
  BY <1>1, OsslRateType, StreamCounter DEF WellFormed
<1>3. f.lastBlkSz \in 0 .. AeadRate - 1
  BY <1>1, OsslRateType, StreamCounter DEF WellFormed
<1>4. \E s : \/ d = [c EXCEPT !.s = s, !.lastBlkSz = e.lastBlkSz]
             \/ d = [c EXCEPT !.s = s, !.lastBlkSz = f.lastBlkSz]
  BY DEF OsslUpdate
<1> HIDE DEF c, d, e, f
<1>5. WellFormed(d)
  BY <1>1, <1>2, <1>3, <1>4 DEF WellFormed, OsslFields, ZeroOssl
<1> QED BY <1>5 DEF d

\* Final keeps the context well formed.
LEMMA OsslFinalWellFormed ==
  ASSUME NEW c0, WellFormed(c0)
  PROVE  WellFormed(OsslFinal(c0).ctx)
<1> DEFINE c == FinalizeAad(c0)
           d == OsslFinal(c0).ctx
<1>1. WellFormed(c)
  BY FinalizeAadWellFormed
<1>2. PICK s : Closed(c0) = [c EXCEPT !.s = s]
  BY DEF Closed
<1>3. \E t : d = [Closed(c0) EXCEPT !.tag = t]
  BY DEF OsslFinal
<1> HIDE DEF c, d
<1>4. WellFormed(d)
  BY <1>1, <1>2, <1>3 DEF WellFormed, OsslFields, ZeroOssl
<1> QED BY <1>4 DEF d

----------------------------------------------------------------------------
IInv == /\ DOMAIN ctx = Handles /\ ctx = [h \in Handles |-> ctx[h]]
        /\ \A h \in Handles : ctx[h] # NULL => WellFormed(ctx[h])

\* The invariant holds before the first call.
LEMMA IInvInit == Init => IInv
BY DEF Init, IInv

\* Every call on every context keeps it.
LEMMA IInvStep == IInv /\ [Next]_vars => IInv'
<1> SUFFICES ASSUME IInv, [Next]_vars PROVE IInv'
  OBVIOUS
<1>1. ASSUME NEW h \in Handles, NEW c, c # NULL => WellFormed(c),
             ctx' = [ctx EXCEPT ![h] = c]
      PROVE  IInv'
  BY <1>1 DEF IInv
<1>2. CASE UNCHANGED vars
  BY <1>2 DEF vars, IInv
<1>3. ASSUME NEW h \in Handles, NewCtx(h)
      PROVE  IInv'
  BY <1>1, <1>3, ZeroOsslWellFormed DEF NewCtx
<1>4. ASSUME NEW h \in Handles, FreeCtx(h)
      PROVE  IInv'
  BY <1>1, <1>4 DEF FreeCtx, Set
<1>5. ASSUME NEW h \in Handles, NEW to \in Handles, DupCtx(h, to)
      PROVE  IInv'
  BY <1>1, <1>5 DEF DupCtx, IInv
<1>6. ASSUME NEW h \in Handles, NEW tag, SetTag(h, tag)
      PROVE  IInv'
  <2>1. ctx[h] # NULL /\ ctx' = [ctx EXCEPT ![h] = [ctx[h] EXCEPT !.tag = tag]]
    BY <1>6 DEF SetTag, Set
  <2>2. WellFormed([ctx[h] EXCEPT !.tag = tag])
    BY <2>1 DEF IInv, WellFormed, OsslFields, ZeroOssl
  <2> QED BY <1>1, <2>1, <2>2
<1>7. ASSUME NEW c, WellFormed(c), NEW enc \in BOOLEAN, NEW key
      PROVE  /\ WellFormed([c EXCEPT !.enc = enc])
             /\ WellFormed([c EXCEPT !.enc = enc, !.key = key])
  BY <1>7 DEF WellFormed, OsslFields, ZeroOssl
<1>8. ASSUME NEW h \in Handles, ctx[h] # NULL,
             NEW key, NEW iv, NEW enc \in BOOLEAN, InitCipher(h, key, iv, enc)
      PROVE  IInv'
  <2> DEFINE k     == IF key = NULL THEN ctx[h].key ELSE key
             keyed == [ctx[h] EXCEPT !.enc = enc, !.key = k]
  <2>1. WellFormed(keyed)
    BY <1>7, <1>8 DEF IInv
  <2>2. WellFormed(ResetOssl(keyed, keyed.key, iv))
    BY <2>1, ResetWellFormed
  <2>3. \/ ctx' = [ctx EXCEPT ![h] = keyed]
        \/ ctx' = [ctx EXCEPT ![h] = ResetOssl(keyed, keyed.key, iv)]
    <3>1. keyed = [ctx[h] EXCEPT !.enc = enc,
                                 !.key = IF key = NULL THEN @ ELSE key]
      BY <1>8 DEF IInv, WellFormed, OsslFields, ZeroOssl
    <3> HIDE DEF keyed
    <3> QED BY <1>8, <3>1 DEF InitCipher, Set
  <2> HIDE DEF keyed
  <2> QED BY <1>1, <2>1, <2>2, <2>3
<1>9. ASSUME NEW h \in Handles, ctx[h] # NULL,
             NEW key, NEW enc \in BOOLEAN, InitFails(h, key, enc)
      PROVE  IInv'
  BY <1>1, <1>7, <1>9 DEF InitFails, Set, IInv
<1>10. ASSUME NEW h \in Handles, NEW x \in Chunks, UpdateAad(h, x)
       PROVE  IInv'
  <2>1. ctx[h] # NULL /\ ctx' = [ctx EXCEPT ![h] = AbsorbAad(ctx[h], x)]
    BY <1>10 DEF UpdateAad, CallCipher, Set
  <2>2. WellFormed(AbsorbAad(ctx[h], x))
    BY <2>1, AbsorbAadWellFormed, ChunkAssumption DEF IInv
  <2> QED BY <1>1, <2>1, <2>2
<1>11. ASSUME NEW h \in Handles, NEW x \in Chunks, UpdateData(h, x)
       PROVE  IInv'
  <2>1. ctx[h] # NULL /\ ctx' = [ctx EXCEPT ![h] = OsslUpdate(ctx[h], x).ctx]
    BY <1>11 DEF UpdateData, CallCipher, Set
  <2>2. WellFormed(OsslUpdate(ctx[h], x).ctx)
    BY <2>1, OsslUpdateWellFormed, ChunkAssumption DEF IInv
  <2> QED BY <1>1, <2>1, <2>2
<1>12. ASSUME NEW h \in Handles, FinalCipher(h)
       PROVE  IInv'
  <2>1. ctx[h] # NULL /\ ctx' = [ctx EXCEPT ![h] = OsslFinal(ctx[h]).ctx]
    BY <1>12 DEF FinalCipher, CallCipher, Set
  <2>2. WellFormed(OsslFinal(ctx[h]).ctx)
    BY <2>1, OsslFinalWellFormed DEF IInv
  <2> QED BY <1>1, <2>1, <2>2
<1> QED BY <1>2, <1>3, <1>4, <1>5, <1>6, <1>8, <1>9, <1>10, <1>11, <1>12 DEF Next

\* Type correctness of every provider context: ascon_aead128_absorb_aad and the
\* data updates keep both buffers below one block, so the pads written at
\* adPart[adPartSz] and at s[lastBlkSz] stay inside the rate.
THEOREM OsslTypeCorrect == Spec => []TypeOK
<1>1. IInv => TypeOK
  BY DEF IInv, TypeOK, WellFormed
<1> QED BY <1>1, IInvInit, IInvStep, PTL DEF Spec

----------------------------------------------------------------------------
----------------------------------------------------------------------------
(***************************************************************************)
(* The AD buffer.  Bytes waiting in it are followed by zeros.              *)
(***************************************************************************)
Waiting(x) == Buffer(ZeroBlock, 0, x)

\* The AD buffer byte by byte: what waits, then zeros.
LEMMA WaitingIs ==
  ASSUME NEW x
  PROVE  /\ Waiting(x) = [i \in 1 .. AeadRate |-> Waiting(x)[i]]
         /\ \A i \in 1 .. AeadRate :
              Waiting(x)[i] = IF i \in 1 .. Len(x) THEN x[i] ELSE Zero
<1>1. PICK w : w = Waiting(x)
  OBVIOUS
<1>2. w = [i \in 1 .. AeadRate |-> IF i \in 0 + 1 .. 0 + Len(x) THEN x[i - 0] ELSE ZeroBlock[i]]
  BY <1>1 DEF Waiting, Buffer
<1>3. \A i \in 1 .. AeadRate : ZeroBlock[i] = Zero /\ i - 0 = i
  BY DEF ZeroBlock, ZeroBytes
<1>4. \A i \in 1 .. AeadRate : w[i] = IF i \in 1 .. Len(x) THEN x[i] ELSE Zero
  <2>1. 0 + 1 = 1 /\ 0 + Len(x) = 0 + Len(x)
    OBVIOUS
  <2>2. ASSUME NEW i \in 1 .. AeadRate
        PROVE  i \in 0 + 1 .. 0 + Len(x) <=> i \in 1 .. Len(x)
    OBVIOUS
  <2> QED BY <1>2, <1>3, <2>2
<1> QED BY <1>1, <1>2, <1>4

\* The buffer of a fresh record is all zeros.
LEMMA WaitingNothing == Waiting(<<>>) = ZeroBlock
<1>1. PICK w, z : w = Waiting(<<>>) /\ z = ZeroBlock
  OBVIOUS
<1>2. w = [i \in 1 .. AeadRate |-> w[i]] /\ \A i \in 1 .. AeadRate : w[i] = Zero
  BY <1>1, WaitingIs, StrEmpty
<1>3. z = [i \in 1 .. AeadRate |-> z[i]] /\ \A i \in 1 .. AeadRate : z[i] = Zero
  BY <1>1 DEF ZeroBlock, ZeroBytes
<1> QED BY <1>1, <1>2, <1>3

\* Buffering again behind what waits.
LEMMA WaitingMore ==
  ASSUME NEW x, NEW y, Str(x), Str(y)
  PROVE  Buffer(Waiting(x), Len(x), y) = Waiting(x \o y)
<1>1. PICK w, v, z, l : /\ w = Waiting(x) /\ z = x \o y /\ v = Waiting(z) /\ l = Len(x)
  OBVIOUS
<1>2. PICK b : b = Buffer(w, l, y)
  OBVIOUS
<1>3. b = [i \in 1 .. AeadRate |-> IF i \in l + 1 .. l + Len(y) THEN y[i - l] ELSE w[i]]
  BY <1>2 DEF Buffer
<1>4. /\ v = [i \in 1 .. AeadRate |-> v[i]]
      /\ \A i \in 1 .. AeadRate : v[i] = IF i \in 1 .. Len(z) THEN z[i] ELSE Zero
      /\ \A i \in 1 .. AeadRate : w[i] = IF i \in 1 .. l THEN x[i] ELSE Zero
  BY <1>1, WaitingIs
<1>5. /\ l \in Nat /\ Len(y) \in Nat /\ Len(z) = l + Len(y)
      /\ \A i \in 1 .. l : z[i] = x[i]
      /\ \A i \in 1 .. Len(y) : z[l + i] = y[i]
  BY <1>1, StrConcat DEF Str
<1>6. ASSUME NEW i \in 1 .. AeadRate PROVE b[i] = v[i]
  <2>1. b[i] = IF i \in l + 1 .. l + Len(y) THEN y[i - l] ELSE w[i]
    BY <1>3
  <2>2. CASE i \in l + 1 .. l + Len(y)
    <3>1. i - l \in 1 .. Len(y) /\ l + (i - l) = i /\ i \in 1 .. Len(z)
      BY <1>5, <2>2
    <3>2. z[l + (i - l)] = y[i - l]
      BY <1>5, <3>1
    <3> QED BY <1>4, <2>1, <2>2, <3>1, <3>2
  <2>3. CASE i \in 1 .. l
    <3>1. ~(i \in l + 1 .. l + Len(y)) /\ i \in 1 .. Len(z)
      BY <1>5, <2>3
    <3> QED BY <1>4, <1>5, <2>1, <2>3, <3>1
  <2>4. CASE ~(i \in 1 .. l) /\ ~(i \in l + 1 .. l + Len(y))
    <3>1. ~(i \in 1 .. Len(z))
      BY <1>5, <2>4
    <3> QED BY <1>4, <2>1, <2>4, <3>1
  <2> QED BY <2>2, <2>3, <2>4
<1> QED BY <1>1, <1>2, <1>3, <1>4, <1>6

\* The zeros behind what waits do not disturb the state.
LEMMA WaitingXors ==
  ASSUME NEW s, IsState(s), NEW x, Str(x), Len(x) \in 0 .. AeadRate
  PROVE  XorAt(s, 0, Waiting(x)) = XorAt(s, 0, x)
<1>1. PICK w : w = Waiting(x)
  OBVIOUS
<1>2. /\ w = [i \in 1 .. AeadRate |-> w[i]]
      /\ \A i \in 1 .. AeadRate : w[i] = IF i \in 1 .. Len(x) THEN x[i] ELSE Zero
  BY <1>1, WaitingIs
<1>3. Len(w) = AeadRate
  BY <1>2, AeadRateOk, StrMake
<1>4. PICK t, u : t = XorAt(s, 0, w) /\ u = XorAt(s, 0, x)
  OBVIOUS
<1>5. /\ IsState(t) /\ t.base = s.base
      /\ \A i \in Cells : t.delta[i] =
           IF i \in 0 .. 0 + Len(w) - 1 THEN SymDiff(s.delta[i], w[i - 0 + 1]) ELSE s.delta[i]
  BY <1>4, XorAtIs
<1>6. /\ IsState(u) /\ u.base = s.base
      /\ \A i \in Cells : u.delta[i] =
           IF i \in 0 .. 0 + Len(x) - 1 THEN SymDiff(s.delta[i], x[i - 0 + 1]) ELSE s.delta[i]
  BY <1>4, XorAtIs
<1>7. \A d : SymDiff(d, Zero) = d
  BY DEF SymDiff, Zero
<1>8. ASSUME NEW i \in Cells PROVE t.delta[i] = u.delta[i]
  <2>1. i \in Nat /\ Len(x) \in Nat /\ Len(x) <= AeadRate /\ AeadRate \in Nat
    BY AeadRateOk, Layout DEF Str
  <2>2. CASE i \in 0 .. 0 + Len(x) - 1
    <3>1. i \in 0 .. 0 + Len(w) - 1 /\ i - 0 + 1 \in 1 .. AeadRate /\ i - 0 + 1 \in 1 .. Len(x)
      BY <1>3, <2>1, <2>2
    <3> QED BY <1>2, <1>5, <1>6, <2>2, <3>1
  <2>3. CASE ~(i \in 0 .. 0 + Len(x) - 1)
    <3>1. CASE i \in 0 .. 0 + Len(w) - 1
      <4>1. i - 0 + 1 \in 1 .. AeadRate /\ ~(i - 0 + 1 \in 1 .. Len(x))
        BY <1>3, <2>1, <2>3, <3>1
      <4> QED BY <1>2, <1>5, <1>6, <1>7, <2>3, <3>1, <4>1
    <3>2. CASE ~(i \in 0 .. 0 + Len(w) - 1)
      BY <1>5, <1>6, <2>3, <3>2
    <3> QED BY <3>1, <3>2
  <2> QED BY <2>2, <2>3
<1>9. t = u
  BY <1>5, <1>6, <1>8, StateEqual
<1> QED BY <1>1, <1>4, <1>9

\* The pad byte written behind what waits.
LEMMA WaitingPadded ==
  ASSUME NEW x, Str(x), Len(x) \in 0 .. AeadRate - 1
  PROVE  [Waiting(x) EXCEPT ![Len(x) + 1] = SymDiff(@, One)] = Waiting(x \o <<One>>)
<1>1. PICK w, v, o, z, l : /\ w = Waiting(x) /\ o = <<One>> /\ z = x \o o
                           /\ v = Waiting(z) /\ l = Len(x)
  OBVIOUS
<1>2. PICK b : b = [w EXCEPT ![l + 1] = SymDiff(@, One)]
  OBVIOUS
<1>3. /\ v = [i \in 1 .. AeadRate |-> v[i]] /\ w = [i \in 1 .. AeadRate |-> w[i]]
      /\ \A i \in 1 .. AeadRate : v[i] = IF i \in 1 .. Len(z) THEN z[i] ELSE Zero
      /\ \A i \in 1 .. AeadRate : w[i] = IF i \in 1 .. l THEN x[i] ELSE Zero
  BY <1>1, WaitingIs
<1>4. Str(o) /\ Len(o) = 1 /\ o[1] = One
  BY <1>1, StrOne
<1>5. /\ l \in Nat /\ Len(z) = l + 1
      /\ \A i \in 1 .. l : z[i] = x[i]
      /\ z[l + 1] = One
  <2>1. /\ Len(z) = l + Len(o)
        /\ \A i \in 1 .. l : z[i] = x[i]
        /\ \A i \in 1 .. Len(o) : z[l + i] = o[i]
    BY <1>1, <1>4, StrConcat
  <2>2. 1 \in 1 .. Len(o)
    BY <1>4
  <2> QED BY <1>1, <1>4, <2>1, <2>2 DEF Str
<1>6. SymDiff(Zero, One) = One
  BY DEF SymDiff, Zero
<1>7. b = [i \in 1 .. AeadRate |-> b[i]]
  BY <1>2, <1>3
<1>8. ASSUME NEW i \in 1 .. AeadRate PROVE b[i] = v[i]
  <2>1. CASE i = l + 1
    <3>1. b[i] = SymDiff(w[i], One)
      BY <1>2, <1>3, <2>1
    <3>2. ~(i \in 1 .. l) /\ i \in 1 .. Len(z)
      BY <1>5, <2>1
    <3> QED BY <1>3, <1>5, <1>6, <2>1, <3>1, <3>2
  <2>2. CASE i # l + 1
    <3>1. b[i] = w[i]
      BY <1>2, <1>3, <2>2
    <3>2. i \in 1 .. l <=> i \in 1 .. Len(z)
      BY <1>5, <2>2
    <3> QED BY <1>3, <1>5, <3>1, <3>2
  <2> QED BY <2>1, <2>2
<1>9. b = v
  BY <1>3, <1>7, <1>8
<1> QED BY <1>1, <1>2, <1>9

----------------------------------------------------------------------------
\* What no step on the AD touches.
SameRecord(c, d) == /\ d.key = c.key /\ d.enc = c.enc /\ d.adDone = c.adDone
                    /\ d.lastBlkSz = c.lastBlkSz /\ d.tag = c.tag

\* The first permutation of a record touches the state only.
LEMMA BeginAdIs ==
  ASSUME NEW c, WellFormed(c)
  PROVE  /\ SameRecord(c, BeginAd(c)) /\ BeginAd(c).adStarted /\ WellFormed(BeginAd(c))
         /\ BeginAd(c).adPart = c.adPart /\ BeginAd(c).adPartSz = c.adPartSz
         /\ ~c.adStarted => BeginAd(c).s = XorAt(Permutation(c.s, PA), Lane(3), c.key)
         /\ BeginAd(BeginAd(c)) = BeginAd(c)
<1>1. PICK d : d = BeginAd(c)
  OBVIOUS
<1>2. CASE c.adStarted
  BY <1>2 DEF BeginAd, SameRecord
<1>3. CASE ~c.adStarted
  <2>1. PICK t : t = XorAt(Permutation(c.s, PA), Lane(3), c.key)
    OBVIOUS
  <2>2. d = [c EXCEPT !.s = t, !.adStarted = TRUE]
    BY <1>1, <1>3, <2>1 DEF BeginAd
  <2>3. /\ SameRecord(c, d) /\ d.adStarted /\ d.s = t
        /\ d.adPart = c.adPart /\ d.adPartSz = c.adPartSz
    BY <2>2 DEF WellFormed, OsslFields, ZeroOssl, SameRecord
  <2>4. BeginAd(d) = d
    BY <2>3 DEF BeginAd
  <2> QED BY <1>1, <2>1, <2>3, <2>4, BeginAdWellFormed
<1> QED BY <1>2, <1>3

\* The AD so far: whole blocks x1 absorbed, x2 waiting in the buffer.
Split(c, nonce, ad, q, x1, x2) ==
  /\ Parts(ad, q, x1, x2, AeadRate)
  /\ c.s = EncBlocks(KeyedState(c.key, nonce), AeadRate, PB, x1, q).state
  /\ c.adPartSz = Len(x2) /\ c.adPart = Waiting(x2)

Buffered(c, nonce, ad) == \E q, x1, x2 : Split(c, nonce, ad, q, x1, x2)

\* A record begins with no AD absorbed and nothing waiting.
LEMMA FreshBuffers ==
  ASSUME NEW c, WellFormed(c), NEW nonce, ~c.adStarted, c.adPartSz = 0, c.adPart = ZeroBlock,
         c.s = XorAt(ZeroState, 0, AEAD128_IV \o c.key \o nonce)
  PROVE  Buffered(BeginAd(c), nonce, <<>>)
<1>1. PICK d, k : d = BeginAd(c) /\ k = KeyedState(c.key, nonce)
  OBVIOUS
<1>2. d.s = k /\ d.key = c.key /\ d.adPartSz = 0 /\ d.adPart = ZeroBlock
  BY <1>1, BeginAdIs DEF KeyedState, SameRecord
<1>3. PICK q \in Nat, empty \in {<<>>} : q = 0
  OBVIOUS
<1>4. empty = <<>> /\ Str(empty) /\ empty \o empty = empty /\ Len(empty) = 0
  BY StrEmpty, StrNeutral
<1>5. Parts(empty, q, empty, empty, AeadRate)
  <2>1. Exactly(empty, q, AeadRate) /\ Len(empty) \in 0 .. AeadRate - 1
    BY <1>3, <1>4, AeadRateOk DEF Exactly
  <2> QED BY <1>4, <2>1 DEF Parts
<1>6. EncBlocks(k, AeadRate, PB, empty, q).state = k
  <2>1. PICK b : b = EncBlocks(k, AeadRate, PB, empty, q)
    OBVIOUS
  <2>2. b = [state |-> k, out |-> <<>>]
    BY <1>3, <2>1, EncBlocksNone
  <2> QED BY <2>1, <2>2
<1>7. Split(d, nonce, empty, q, empty, empty)
  BY <1>1, <1>2, <1>4, <1>5, <1>6, WaitingNothing DEF Split
<1> QED BY <1>1, <1>4, <1>7 DEF Buffered

\* absorb_aad with nothing waiting.
LEMMA AbsorbEmpty ==
  ASSUME NEW c0, WellFormed(c0), BeginAd(c0).adPartSz = 0, BeginAd(c0).adPart = ZeroBlock,
         NEW x, Str(x), NEW p, NEW y1, NEW y2, Parts(x, p, y1, y2, AeadRate)
  PROVE  /\ AbsorbAad(c0, x).s = EncBlocks(BeginAd(c0).s, AeadRate, PB, y1, p).state
         /\ AbsorbAad(c0, x).adPartSz = Len(y2) /\ AbsorbAad(c0, x).adPart = Waiting(y2)
         /\ SameRecord(c0, AbsorbAad(c0, x)) /\ AbsorbAad(c0, x).adStarted
<1>1. PICK c, d : c = BeginAd(c0) /\ d = AbsorbAad(c0, x)
  OBVIOUS
<1>2. WellFormed(c) /\ SameRecord(c0, c) /\ c.adStarted /\ c.adPartSz = 0 /\ c.adPart = ZeroBlock
  BY <1>1, BeginAdIs
<1>3. PICK n, left : n = 0 /\ left = Len(y2)
  OBVIOUS
<1>4. /\ p \in Nat /\ Str(y1) /\ Str(y2) /\ x = y1 \o y2 /\ AtLeast(y1, p, AeadRate)
      /\ Len(x) \in Nat /\ Len(x) \div AeadRate = p /\ Len(x) % AeadRate = left
      /\ Piece(x, Len(x) - left, left) = y2 /\ left \in 0 .. AeadRate - 1
  <2>1. /\ Str(x) /\ Len(x) \in Nat /\ Len(y1) \in Nat /\ Len(x) = Len(y1) + Len(y2)
        /\ Len(x) \div AeadRate = p /\ Len(x) % AeadRate = Len(y2)
        /\ AtLeast(y1, p, AeadRate) /\ AtLeast(x, p, AeadRate)
        /\ Piece(x, Len(x) - Len(y2), Len(y2)) = y2
    BY AeadRateOk, PartsAre, Zenon
  <2>2. p \in Nat /\ Str(y1) /\ Str(y2) /\ x = y1 \o y2 /\ Len(y2) \in 0 .. AeadRate - 1
    BY DEF Parts
  <2> QED BY <1>3, <2>1, <2>2
<1>5. Piece(x, 0, n) = <<>> /\ SubSeq(x, n + 1, Len(x)) = x
  <2>1. PICK zero \in Nat : zero = 0
    OBVIOUS
  <2>2. Piece(x, zero, 0) = <<>>
    BY PieceEmpty
  <2>3. Piece(x, 0, Len(x)) = x
    BY PieceWhole
  <2> QED BY <1>3, <1>4, <2>1, <2>2, <2>3 DEF Piece
<1>6. Buffer(c.adPart, c.adPartSz, <<>>) = ZeroBlock
  BY <1>2, WaitingNothing DEF Waiting
<1>7. PICK w : w = WholeBlocks(Encrypting, c.s, AeadRate, PB, x).state
  OBVIOUS
<1>8. c.adPartSz + n = 0 /\ c.adPartSz + n # AeadRate
      /\ (c.adPartSz + n) % AeadRate = 0
  <2>1. c.adPartSz + n = 0
    BY <1>2, <1>3
  <2>2. 0 % AeadRate = 0
    <3>1. 0 % AeadRate \in 0 .. AeadRate - 1 /\ 0 = (0 \div AeadRate) * AeadRate + (0 % AeadRate)
          /\ (0 \div AeadRate) * AeadRate \in Nat
      BY AeadRateOk, Division
    <3> QED BY <3>1
  <2> QED BY <2>1, <2>2, AeadRateOk
<1>9. d = IF left = 0 THEN [c EXCEPT !.s = w, !.adPart = ZeroBlock, !.adPartSz = 0]
          ELSE [c EXCEPT !.s = w, !.adPartSz = left, !.adPart = Waiting(y2)]
  <2>1. (IF c.adPartSz = 0 THEN 0
         ELSE IF Len(x) < AeadRate - c.adPartSz THEN Len(x) ELSE AeadRate - c.adPartSz) = n
    BY <1>2, <1>3
  <2> QED BY <1>1, <1>2, <1>4, <1>5, <1>6, <1>7, <1>8, <2>1 DEF AbsorbAad, Waiting
<1>10. /\ d.s = w /\ d.adPartSz = left /\ d.adPart = Waiting(y2)
       /\ SameRecord(c, d) /\ d.adStarted
  <2>1. CASE left = 0
    <3>1. y2 = <<>>
      BY <1>3, <1>4, <2>1, StrEmpty
    <3>2. d = [c EXCEPT !.s = w, !.adPart = ZeroBlock, !.adPartSz = 0]
      BY <1>9, <2>1
    <3>3. Waiting(y2) = ZeroBlock
      BY <3>1, WaitingNothing
    <3> QED BY <1>2, <2>1, <3>2, <3>3 DEF WellFormed, OsslFields, ZeroOssl, SameRecord
  <2>2. CASE left # 0
    <3>1. d = [c EXCEPT !.s = w, !.adPartSz = left, !.adPart = Waiting(y2)]
      BY <1>9, <2>2
    <3> QED BY <1>2, <3>1 DEF WellFormed, OsslFields, ZeroOssl, SameRecord
  <2> QED BY <2>1, <2>2
<1>11. w = EncBlocks(c.s, AeadRate, PB, y1, p).state
  <2>1. WholeBlocks(Encrypting, c.s, AeadRate, PB, x) = EncBlocks(c.s, AeadRate, PB, x, p)
    BY <1>4, WholeIsBlocks
  <2>2. EncBlocks(c.s, AeadRate, PB, y1 \o y2, p) = EncBlocks(c.s, AeadRate, PB, y1, p)
    BY <1>4, AeadRateOk, EncBlocksLocal
  <2> QED BY <1>4, <1>7, <2>1, <2>2
<1> QED BY <1>1, <1>2, <1>3, <1>10, <1>11 DEF SameRecord

\* absorb_aad when the bytes waiting and the new ones do not fill the buffer.
LEMMA AbsorbOpen ==
  ASSUME NEW c0, WellFormed(c0), NEW z, Str(z), NEW x, Str(x),
         BeginAd(c0).adPartSz = Len(z), BeginAd(c0).adPart = Waiting(z),
         Len(z) # 0, Len(z) + Len(x) < AeadRate
  PROVE  /\ AbsorbAad(c0, x).s = BeginAd(c0).s
         /\ AbsorbAad(c0, x).adPartSz = Len(z \o x)
         /\ AbsorbAad(c0, x).adPart = Waiting(z \o x)
         /\ SameRecord(c0, AbsorbAad(c0, x)) /\ AbsorbAad(c0, x).adStarted
<1>1. PICK c, d : c = BeginAd(c0) /\ d = AbsorbAad(c0, x)
  OBVIOUS
<1>2. WellFormed(c) /\ SameRecord(c0, c) /\ c.adStarted /\ c.adPartSz = Len(z)
      /\ c.adPart = Waiting(z)
  BY <1>1, BeginAdIs
<1>3. PICK n, m : n = Len(x) /\ m = Len(z) + Len(x)
  OBVIOUS
<1>4. n \in Nat /\ m \in Nat /\ Len(z) \in Nat /\ c.adPartSz + n = m /\ m < AeadRate
      /\ AeadRate \in Nat
  BY <1>2, <1>3, AeadRateOk DEF Str
<1>5. m % AeadRate = m
  <2>1. PICK q \in Nat, r \in 0 .. AeadRate - 1 : q = 0 /\ r = m /\ q * AeadRate + r = m
    BY <1>4
  <2>2. (q * AeadRate + r) % AeadRate = r
    BY AeadRateOk, DivisionUnique
  <2> QED BY <2>1, <2>2
<1>6. Piece(x, 0, n) = x /\ SubSeq(x, n + 1, Len(x)) = <<>> /\ Len(<<>>) = 0
  <2>1. Piece(x, 0, n) = x
    BY <1>3, PieceWhole
  <2>2. SubSeq(x, n + 1, Len(x)) = <<>>
    <3>1. SubSeq(x, n + 1, Len(x)) = Piece(x, n, Len(x) - n)
      BY <1>3, <1>4, SubIsPiece
    <3>2. Len(x) - n = 0
      BY <1>3, <1>4
    <3>3. Piece(x, n, 0) = <<>>
      BY <1>4, PieceEmpty
    <3> QED BY <3>1, <3>2, <3>3
  <2> QED BY <2>1, <2>2, StrEmpty
<1>7. PICK w : w = WholeBlocks(Encrypting, c.s, AeadRate, PB, <<>>).state
  OBVIOUS
<1>8. 0 % AeadRate = 0 /\ 0 \div AeadRate = 0
  <2>1. PICK q \in Nat, r \in 0 .. AeadRate - 1 : q = 0 /\ r = 0 /\ q * AeadRate + r = 0
    BY <1>4
  <2>2. (q * AeadRate + r) % AeadRate = r /\ (q * AeadRate + r) \div AeadRate = q
    BY AeadRateOk, DivisionUnique
  <2> QED BY <2>1, <2>2
<1>9. w = c.s
  <2>1. PICK b : b = EncBlocks(c.s, AeadRate, PB, <<>>, 0)
    OBVIOUS
  <2>2. WholeBlocks(Encrypting, c.s, AeadRate, PB, <<>>) = b
    BY <1>6, <1>8, <2>1, WholeIsBlocks
  <2>3. b = [state |-> c.s, out |-> <<>>]
    BY <2>1, EncBlocksNone
  <2> QED BY <1>7, <2>2, <2>3
<1>10. Buffer(c.adPart, c.adPartSz, x) = Waiting(z \o x)
  BY <1>2, WaitingMore
<1>11. d = [c EXCEPT !.s = w, !.adPart = Waiting(z \o x), !.adPartSz = m]
  <2>1. (IF c.adPartSz = 0 THEN 0
         ELSE IF Len(x) < AeadRate - c.adPartSz THEN Len(x) ELSE AeadRate - c.adPartSz) = n
    BY <1>2, <1>3, <1>4
  <2>2. c.adPartSz + n # AeadRate /\ (c.adPartSz + n) % AeadRate = m
    BY <1>4, <1>5
  <2> QED BY <1>1, <1>6, <1>7, <1>8, <1>10, <2>1, <2>2 DEF AbsorbAad
<1>12. /\ d.s = w /\ d.adPartSz = m /\ d.adPart = Waiting(z \o x)
       /\ SameRecord(c, d) /\ d.adStarted
  BY <1>2, <1>11 DEF WellFormed, OsslFields, ZeroOssl, SameRecord
<1>13. Len(z \o x) = m
  BY <1>3, StrConcat
<1> QED BY <1>1, <1>2, <1>9, <1>12, <1>13 DEF SameRecord

----------------------------------------------------------------------------
\* What absorb_aad leaves, as long as it does not fill the buffer.
Absorbed(c0, d, nonce, ad) ==
  Buffered(d, nonce, ad) /\ SameRecord(c0, d) /\ d.adStarted

\* absorb_aad appends to the AD, unless it fills the buffer.
LEMMA AbsorbBuffers ==
  ASSUME NEW c0, WellFormed(c0), NEW nonce, NEW ad, Buffered(BeginAd(c0), nonce, ad),
         NEW x, Str(x), ~(c0.adPartSz > 0 /\ c0.adPartSz + Len(x) >= AeadRate)
  PROVE  Absorbed(c0, AbsorbAad(c0, x), nonce, ad \o x)
<1>1. PICK c, d, k : c = BeginAd(c0) /\ d = AbsorbAad(c0, x) /\ k = KeyedState(c0.key, nonce)
  OBVIOUS
<1>2. PICK q, x1, x2 : Split(c, nonce, ad, q, x1, x2)
  BY <1>1 DEF Buffered
<1>3. c.adPartSz = c0.adPartSz /\ c.key = c0.key
  BY <1>1, BeginAdIs DEF SameRecord
<1>4. /\ Parts(ad, q, x1, x2, AeadRate) /\ c.s = EncBlocks(k, AeadRate, PB, x1, q).state
      /\ c.adPartSz = Len(x2) /\ c.adPart = Waiting(x2)
  BY <1>1, <1>2, <1>3 DEF Split
<1>5. /\ q \in Nat /\ Str(x1) /\ Str(x2) /\ ad = x1 \o x2
      /\ Exactly(x1, q, AeadRate) /\ Len(x2) \in 0 .. AeadRate - 1
  BY <1>4 DEF Parts
<1>6. Len(x) \in Nat /\ AeadRate \in Nat
  BY AeadRateOk DEF Str
<1>7. CASE Len(x2) = 0
  <2>1. x2 = <<>> /\ ad = x1
    BY <1>5, <1>7, StrEmpty, StrNeutral
  <2>2. PICK p, y1, y2 : Parts(x, p, y1, y2, AeadRate)
    BY AeadRateOk, HasParts
  <2>3. c.adPartSz = 0 /\ c.adPart = ZeroBlock
    BY <1>4, <1>7, <2>1, WaitingNothing
  <2>4. /\ d.s = EncBlocks(c.s, AeadRate, PB, y1, p).state
        /\ d.adPartSz = Len(y2) /\ d.adPart = Waiting(y2)
        /\ SameRecord(c0, d) /\ d.adStarted
    BY <1>1, <2>2, <2>3, AbsorbEmpty
  <2>5. Parts(x1 \o x, q + p, x1 \o y1, y2, AeadRate)
    BY <1>5, <2>2, AeadRateOk, PartsAppend
  <2>6. p \in Nat /\ Str(y1) /\ AtLeast(y1, p, AeadRate)
    <3>1. AtLeast(y1, p, AeadRate)
      BY <2>2, AeadRateOk, PartsAre, Zenon
    <3> QED BY <2>2, <3>1 DEF Parts
  <2>7. EncBlocks(k, AeadRate, PB, x1 \o y1, q + p).state = d.s
    <3>1. IsState(k)
      BY <1>1, KeyedIsState
    <3>2. EncShift(k, AeadRate, PB, x1, q, y1, p)
      BY <1>5, <2>6, <3>1, AeadRateOk, EncBlocksShift
    <3> QED BY <1>4, <2>4, <3>2 DEF EncShift
  <2>8. Split(d, nonce, ad \o x, q + p, x1 \o y1, y2)
    BY <1>1, <2>1, <2>4, <2>5, <2>7 DEF Split, SameRecord
  <2>9. Buffered(d, nonce, ad \o x)
    BY <2>8 DEF Buffered
  <2> QED BY <1>1, <2>4, <2>9 DEF Absorbed
<1>8. CASE Len(x2) # 0
  <2>1. Len(x2) + Len(x) < AeadRate
    BY <1>3, <1>4, <1>5, <1>6, <1>8
  <2>2. PICK z : z = x2 \o x
    OBVIOUS
  <2>3. /\ d.s = c.s /\ d.adPartSz = Len(z) /\ d.adPart = Waiting(z)
        /\ SameRecord(c0, d) /\ d.adStarted
    BY <1>1, <1>4, <1>5, <1>8, <2>1, <2>2, AbsorbOpen
  <2>4. Parts(ad \o x, q, x1, z, AeadRate)
    <3>1. Associates(x1, x2, x)
      BY <1>5, StrAssociative
    <3>2. Str(z) /\ Len(z) = Len(x2) + Len(x)
      BY <1>5, <2>2, StrConcat
    <3>3. Len(z) \in 0 .. AeadRate - 1
      BY <1>5, <1>6, <2>1, <3>2
    <3> QED BY <1>5, <2>2, <3>1, <3>2, <3>3 DEF Parts, Associates
  <2>5. Split(d, nonce, ad \o x, q, x1, z)
    BY <1>1, <1>4, <2>3, <2>4 DEF Split, SameRecord
  <2>6. Buffered(d, nonce, ad \o x)
    BY <2>5 DEF Buffered
  <2> QED BY <1>1, <2>3, <2>6 DEF Absorbed
<1> QED BY <1>7, <1>8

\* finalize_aad and its separator bit.
LEMMA FinalizeIs ==
  ASSUME NEW c0, WellFormed(c0), ~c0.adDone, NEW z, Str(z), Len(z) \in 0 .. AeadRate - 1,
         BeginAd(c0).adPartSz = Len(z), BeginAd(c0).adPart = Waiting(z)
  PROVE  /\ FinalizeAad(c0).s = XorAt(IF z = <<>> THEN BeginAd(c0).s
                                      ELSE AbsorbBuffer(BeginAd(c0).s, Waiting(z \o <<One>>)),
                                      Lane(Lanes) - 1, <<TopBit>>)
         /\ FinalizeAad(c0).key = c0.key /\ FinalizeAad(c0).enc = c0.enc
         /\ FinalizeAad(c0).tag = c0.tag /\ FinalizeAad(c0).lastBlkSz = c0.lastBlkSz
         /\ FinalizeAad(c0).adDone
<1>1. PICK c, d : c = BeginAd(c0) /\ d = FinalizeAad(c0)
  OBVIOUS
<1>2. WellFormed(c) /\ SameRecord(c0, c) /\ c.adPartSz = Len(z) /\ c.adPart = Waiting(z)
  BY <1>1, BeginAdIs
<1>3. PICK part : part = [c.adPart EXCEPT ![c.adPartSz + 1] = SymDiff(@, One)]
  OBVIOUS
<1>4. part = Waiting(z \o <<One>>)
  BY <1>2, <1>3, WaitingPadded
<1>5. Len(z) > 0 <=> z # <<>>
  BY StrEmpty
<1>6. PICK s : s = IF c.adPartSz > 0 THEN AbsorbBuffer(c.s, part) ELSE c.s
  OBVIOUS
<1>7. PICK t, w, b : /\ t = XorAt(s, Lane(Lanes) - 1, <<TopBit>>) /\ b = c0.adStarted
                     /\ w = IF c.adPartSz > 0 THEN part ELSE c.adPart
  OBVIOUS
<1>8. d = [c EXCEPT !.adStarted = b, !.adPart = w, !.s = t, !.adPartSz = 0, !.adDone = TRUE]
  BY <1>1, <1>3, <1>6, <1>7 DEF FinalizeAad
<1>9. d.s = t /\ d.key = c.key /\ d.enc = c.enc /\ d.tag = c.tag
      /\ d.lastBlkSz = c.lastBlkSz /\ d.adDone
  BY <1>2, <1>8 DEF WellFormed, OsslFields, ZeroOssl
<1>10. t = XorAt(IF z = <<>> THEN c.s ELSE AbsorbBuffer(c.s, Waiting(z \o <<One>>)),
                 Lane(Lanes) - 1, <<TopBit>>)
  BY <1>2, <1>4, <1>5, <1>6, <1>7
<1> QED BY <1>1, <1>2, <1>9, <1>10 DEF SameRecord

----------------------------------------------------------------------------
\* Appending the pad byte is concatenating it.
LEMMA AppendOne ==
  ASSUME NEW x, Str(x)
  PROVE  Append(x, One) = x \o <<One>>
<1>1. PICK T : T = {x[i] : i \in 1 .. Len(x)} \cup {One}
  OBVIOUS
<1>2. x \in Seq(T)
  BY <1>1, StrSeq
<1>3. One \in T
  BY <1>1
<1> QED BY <1>2, <1>3, AppendIsConcat

\* The one-shot driver absorbs whole blocks, then the padded rest.
LEMMA AbsorbParts ==
  ASSUME NEW s, IsState(s), NEW x, NEW q, NEW x1, NEW x2, Parts(x, q, x1, x2, AeadRate)
  PROVE  AbsorbPadded(s, AeadRate, PB, x)
           = XorAt(EncBlocks(s, AeadRate, PB, x1, q).state, 0, x2 \o <<One>>)
<1>1. /\ Str(x) /\ Len(x) \in Nat /\ Len(x1) \in Nat /\ Len(x) = Len(x1) + Len(x2)
      /\ Len(x) \div AeadRate = q /\ Len(x) % AeadRate = Len(x2)
      /\ AtLeast(x1, q, AeadRate) /\ AtLeast(x, q, AeadRate)
      /\ Piece(x, Len(x) - Len(x2), Len(x2)) = x2
  BY AeadRateOk, PartsAre, Zenon
<1>2. q \in Nat /\ Str(x1) /\ Str(x2) /\ x = x1 \o x2
  BY DEF Parts
<1>3. WholeBlocks(Encrypting, s, AeadRate, PB, x) = EncBlocks(s, AeadRate, PB, x, q)
  BY <1>1, WholeIsBlocks
<1>4. EncBlocks(s, AeadRate, PB, x1 \o x2, q) = EncBlocks(s, AeadRate, PB, x1, q)
  BY <1>1, <1>2, AeadRateOk, EncBlocksLocal
<1>5. Append(x2, One) = x2 \o <<One>>
  BY <1>2, AppendOne
<1> QED BY <1>1, <1>2, <1>3, <1>4, <1>5 DEF AbsorbPadded

\* An AD that is empty, or ends inside a block, is closed as the one-shot
\* algorithm closes it.
LEMMA AdCloses ==
  ASSUME NEW c0, WellFormed(c0), ~c0.adDone, NEW nonce, NEW ad,
         Buffered(BeginAd(c0), nonce, ad), ad = <<>> \/ Len(ad) % AeadRate # 0
  PROVE  FinalizeAad(c0).s = DataStart(c0.key, nonce, ad)
<1>1. PICK c, d, k : c = BeginAd(c0) /\ d = FinalizeAad(c0) /\ k = KeyedState(c0.key, nonce)
  OBVIOUS
<1>2. PICK q, x1, x2 : Split(c, nonce, ad, q, x1, x2)
  BY <1>1 DEF Buffered
<1>3. c.key = c0.key
  BY <1>1, BeginAdIs DEF SameRecord
<1>4. /\ Parts(ad, q, x1, x2, AeadRate) /\ c.s = EncBlocks(k, AeadRate, PB, x1, q).state
      /\ c.adPartSz = Len(x2) /\ c.adPart = Waiting(x2)
  BY <1>1, <1>2, <1>3 DEF Split
<1>5. /\ q \in Nat /\ Str(x1) /\ Str(x2) /\ ad = x1 \o x2
      /\ Exactly(x1, q, AeadRate) /\ Len(x2) \in 0 .. AeadRate - 1
  BY <1>4 DEF Parts
<1>6. IsState(k) /\ IsState(c.s)
  <2>1. IsState(k)
    BY <1>1, KeyedIsState
  <2>2. Puts(EncBlocks(k, AeadRate, PB, x1, q), q * AeadRate)
    BY <1>5, <2>1, AeadRateOk, EncBlocksPut
  <2> QED BY <1>4, <2>1, <2>2 DEF Puts
<1>7. /\ Len(ad) \in Nat /\ Len(x1) \in Nat /\ Len(ad) = Len(x1) + Len(x2)
      /\ Len(ad) % AeadRate = Len(x2)
  <2>1. /\ Str(ad) /\ Len(ad) \in Nat /\ Len(x1) \in Nat /\ Len(ad) = Len(x1) + Len(x2)
        /\ Len(ad) \div AeadRate = q /\ Len(ad) % AeadRate = Len(x2)
        /\ AtLeast(x1, q, AeadRate) /\ AtLeast(ad, q, AeadRate)
        /\ Piece(ad, Len(ad) - Len(x2), Len(x2)) = x2
    BY <1>4, AeadRateOk, PartsAre, Zenon
  <2> QED BY <2>1
<1>8. PICK t : t = IF x2 = <<>> THEN c.s ELSE AbsorbBuffer(c.s, Waiting(x2 \o <<One>>))
  OBVIOUS
<1>9. d.s = XorAt(t, Lane(Lanes) - 1, <<TopBit>>)
  BY <1>1, <1>4, <1>5, <1>8, FinalizeIs
<1>10. t = IF ad = <<>> THEN k ELSE Permutation(AbsorbPadded(k, AeadRate, PB, ad), PB)
  <2>1. CASE ad = <<>>
    <3>1. Len(x1) = 0 /\ Len(x2) = 0
      BY <1>5, <1>7, <2>1, StrEmpty
    <3>2. x1 = <<>> /\ x2 = <<>>
      BY <1>5, <3>1, StrEmpty
    <3>3. q = 0
      BY <1>5, <3>1, AeadRateOk DEF Exactly
    <3>4. EncBlocks(k, AeadRate, PB, x1, 0) = [state |-> k, out |-> <<>>]
      BY EncBlocksNone
    <3>5. EncBlocks(k, AeadRate, PB, x1, 0).state = k
      BY <3>4
    <3> QED BY <1>4, <1>8, <2>1, <3>2, <3>3, <3>5
  <2>2. CASE ad # <<>>
    <3>1. Len(x2) # 0
      BY <1>7, <2>2
    <3>2. x2 # <<>>
      BY <3>1, StrEmpty
    <3>3. PICK w, o : w = x2 \o o /\ o = <<One>>
      OBVIOUS
    <3>4. Str(w) /\ Len(w) \in 0 .. AeadRate
      <4>1. Str(o) /\ Len(o) = 1
        BY <3>3, StrOne
      <4>2. Str(w) /\ Len(w) = Len(x2) + 1
        BY <1>5, <3>3, <4>1, StrConcat
      <4> QED BY <1>5, <4>2, AeadRateOk
    <3>5. XorAt(c.s, 0, Waiting(w)) = XorAt(c.s, 0, w)
      BY <1>6, <3>4, WaitingXors
    <3>6. AbsorbPadded(k, AeadRate, PB, ad) = XorAt(c.s, 0, w)
      BY <1>4, <1>6, <3>3, AbsorbParts
    <3>7. t = Permutation(XorAt(c.s, 0, Waiting(w)), PB)
      BY <1>8, <3>2, <3>3 DEF AbsorbBuffer
    <3> QED BY <2>2, <3>5, <3>6, <3>7
  <2> QED BY <2>1, <2>2
<1>11. d.s = AfterAd(k, ad)
  BY <1>9, <1>10 DEF AfterAd
<1> QED BY <1>1, <1>11 DEF DataStart

----------------------------------------------------------------------------
----------------------------------------------------------------------------
(***************************************************************************)
(* What a context holds at each stage of a record, in terms of what the    *)
(* caller passed: the invariant behind the record's properties.            *)
(***************************************************************************)
Shape(r) == DOMAIN r = {"nonce", "ad", "fed", "got", "filled", "tag", "verdict",
                        "calls", "strays", "stage", "records"}

PlainRecord(r) == \/ r.ad = <<>>
                  \/ Len(r.ad) % AeadRate # 0 /\ ~r.filled

Plain(c, r) == IF c.enc THEN r.fed ELSE r.got
Cipher(c, r) == IF c.enc THEN r.got ELSE r.fed

\* The plaintext of the record encrypted in one go.
Whole(c, r) == DataStream(c.key, r.nonce, r.ad, Plain(c, r))
OwnTag(c, r) == TagOf(Padded(Whole(c, r)), c.key)

Opening(c, r) ==
  /\ Str(r.ad)
  /\ r.filled => Len(r.ad) # 0
  /\ r.fed = <<>> /\ r.got = <<>>
  /\ ~r.filled => ~c.adDone /\ Buffered(BeginAd(c), r.nonce, r.ad)

Flows(c, r) ==
  /\ c.adDone /\ Str(r.fed) /\ Str(r.got)
  /\ Whole(c, r) = [state |-> c.s, lastBlkSz |-> c.lastBlkSz, out |-> Cipher(c, r)]

Ended(c, r) ==
  /\ Str(r.fed) /\ Str(r.got) /\ Whole(c, r).out = Cipher(c, r)
  /\ c.enc => r.tag = OwnTag(c, r)
  /\ ~c.enc => (r.verdict <=> r.tag = OwnTag(c, r))

Holds(c, r) ==
  /\ Shape(r) /\ KeySize(c.key)
  /\ r.stage = "ad" => Opening(c, r)
  /\ r.stage = "data" /\ PlainRecord(r) => Flows(c, r)
  /\ r.stage = "done" /\ PlainRecord(r) => Ended(c, r)

\* Nothing is claimed of a record that left the documented order.
LEMMA MisusedHolds ==
  ASSUME NEW c, NEW r, Shape(r), KeySize(c.key), r.stage = "misused"
  PROVE  Holds(c, r)
BY DEF Holds

\* Keys and nonces are two lanes long.
LEMMA KeySized ==
  ASSUME NEW k \in Keys \cup Nonces
  PROVE  KeySize(k)
BY KeyAssumption, StrOf DEF KeySize

\* So is the key of a context newly allocated.
LEMMA ZeroKeySized == KeySize(ZeroOssl.key)
<1>1. PICK n : n = 2 * LaneSz
  OBVIOUS
<1>2. n \in Nat
  BY <1>1, LaneSzAssumption
<1>3. PICK f : f = ZeroBytes(n)
  OBVIOUS
<1>4. f = [i \in 1 .. n |-> f[i]]
  BY <1>3 DEF ZeroBytes
<1>5. Str(f) /\ Len(f) = n
  BY <1>2, <1>4, StrMake
<1> QED BY <1>1, <1>3, <1>5 DEF KeySize, ZeroOssl

\* The history a record starts with.
LEMMA NewShape ==
  ASSUME NEW nonce, NEW stage, NEW n, NEW r, r = NewRecord(nonce, stage, n)
  PROVE  /\ Shape(r) /\ r.stage = stage /\ r.nonce = nonce
         /\ r.ad = <<>> /\ r.fed = <<>> /\ r.got = <<>> /\ ~r.filled
BY DEF Shape, NewRecord

\* Init with an iv: whatever the context did before.
LEMMA ResetHolds ==
  ASSUME NEW c, WellFormed(c), NEW key, KeySize(key), NEW nonce, NEW n
  PROVE  Holds(ResetOssl(c, key, nonce), NewRecord(nonce, "ad", n))
<1>1. PICK d, r : d = ResetOssl(c, key, nonce) /\ r = NewRecord(nonce, "ad", n)
  OBVIOUS
<1>2. PICK s : s = XorAt(ZeroState, 0, AEAD128_IV \o key \o nonce)
  OBVIOUS
<1>3. /\ d.s = s /\ d.key = key /\ d.adPartSz = 0 /\ d.adPart = ZeroBlock
      /\ ~d.adStarted /\ ~d.adDone
  BY <1>1, <1>2 DEF ResetOssl, WellFormed, OsslFields, ZeroOssl
<1>4. WellFormed(d)
  BY <1>1, ResetWellFormed
<1>5. Buffered(BeginAd(d), nonce, <<>>)
  BY <1>2, <1>3, <1>4, FreshBuffers
<1>6. /\ Shape(r) /\ r.stage = "ad" /\ r.nonce = nonce
      /\ r.ad = <<>> /\ r.fed = <<>> /\ r.got = <<>> /\ ~r.filled
  BY <1>1, NewShape
<1>7. Opening(d, r)
  BY <1>3, <1>5, <1>6, StrEmpty DEF Opening
<1> QED BY <1>1, <1>3, <1>6, <1>7 DEF Holds

\* absorb_aad keeps the record's key and direction and leaves the AD open,
\* also when it fills the buffer.
LEMMA AbsorbKeeps ==
  ASSUME NEW c0, WellFormed(c0), NEW x
  PROVE  SameRecord(c0, AbsorbAad(c0, x))
<1>1. PICK c, d : c = BeginAd(c0) /\ d = AbsorbAad(c0, x)
  OBVIOUS
<1>2. WellFormed(c) /\ SameRecord(c0, c)
  BY <1>1, BeginAdIs
<1>3. PICK space, n, part, held, s, rest, left, whole :
         /\ space = AeadRate - c.adPartSz
         /\ n = IF c.adPartSz = 0 THEN 0 ELSE IF Len(x) < space THEN Len(x) ELSE space
         /\ part = Buffer(c.adPart, c.adPartSz, Piece(x, 0, n))
         /\ held = (c.adPartSz + n) % AeadRate
         /\ s = IF c.adPartSz + n = AeadRate THEN AbsorbBuffer(c.s, part) ELSE c.s
         /\ rest = SubSeq(x, n + 1, Len(x))
         /\ left = Len(rest) % AeadRate
         /\ whole = WholeBlocks(Encrypting, s, AeadRate, PB, rest).state
  OBVIOUS
<1>6. d = IF left = 0 THEN [c EXCEPT !.s = whole, !.adPart = part, !.adPartSz = held]
          ELSE [c EXCEPT !.s = whole, !.adPartSz = left,
                         !.adPart = Buffer(part, 0, Piece(rest, Len(rest) - left, left))]
  BY <1>1, <1>3 DEF AbsorbAad
<1>4. PICK t, p, m : \/ d = [c EXCEPT !.s = t, !.adPart = p, !.adPartSz = m]
                     \/ d = [c EXCEPT !.s = t, !.adPartSz = m, !.adPart = p]
  BY <1>6
<1>5. SameRecord(c, d)
  BY <1>2, <1>4 DEF WellFormed, OsslFields, ZeroOssl, SameRecord
<1> QED BY <1>1, <1>2, <1>5 DEF SameRecord

\* absorb_aad keeps what the record holds.
LEMMA AadHolds ==
  ASSUME NEW c, WellFormed(c), NEW r, Holds(c, r), r.stage = "ad",
         NEW S, NEW x \in Seq(S), x # <<>>,
         NEW g, Shape(g), g.stage = "ad", g.nonce = r.nonce, g.ad = r.ad \o x,
         g.fed = r.fed, g.got = r.got,
         g.filled <=> (r.filled \/ (c.adPartSz > 0 /\ c.adPartSz + Len(x) >= AeadRate))
  PROVE  Holds(AbsorbAad(c, x), g)
<1>1. PICK d : d = AbsorbAad(c, x)
  OBVIOUS
<1>2. Opening(c, r) /\ KeySize(c.key)
  BY DEF Holds
<1>3. SameRecord(c, d)
  BY <1>1, AbsorbKeeps
<1>4. Str(x) /\ Len(x) # 0
  <2>1. Str(x)
    BY StrOf
  <2> QED BY <2>1, StrEmpty
<1>5. Str(g.ad) /\ Len(g.ad) # 0
  <2>1. Str(g.ad) /\ Len(g.ad) = Len(r.ad) + Len(x)
    BY <1>2, <1>4, StrConcat DEF Opening
  <2> QED BY <1>2, <1>4, <2>1 DEF Opening, Str
<1>6. ASSUME ~g.filled PROVE ~d.adDone /\ Buffered(BeginAd(d), g.nonce, g.ad)
  <2>1. ~r.filled /\ ~(c.adPartSz > 0 /\ c.adPartSz + Len(x) >= AeadRate)
    BY <1>6
  <2>2. ~c.adDone /\ Buffered(BeginAd(c), r.nonce, r.ad)
    BY <1>2, <2>1 DEF Opening
  <2>3. Absorbed(c, d, r.nonce, r.ad \o x)
    BY <1>1, <1>4, <2>1, <2>2, AbsorbBuffers
  <2>4. BeginAd(d) = d
    BY <2>3 DEF Absorbed, BeginAd
  <2> QED BY <2>2, <2>3, <2>4 DEF Absorbed, SameRecord
<1>7. Opening(d, g)
  BY <1>2, <1>5, <1>6 DEF Opening
<1> QED BY <1>1, <1>2, <1>3, <1>7 DEF Holds, SameRecord

----------------------------------------------------------------------------
\* finalize_aad keeps key, direction and tag, and runs once.
LEMMA FinalizeKeeps ==
  ASSUME NEW c0, WellFormed(c0)
  PROVE  /\ WellFormed(FinalizeAad(c0)) /\ FinalizeAad(c0).adDone
         /\ FinalizeAad(c0).key = c0.key /\ FinalizeAad(c0).enc = c0.enc
         /\ FinalizeAad(c0).tag = c0.tag /\ FinalizeAad(c0).lastBlkSz = c0.lastBlkSz
         /\ c0.adDone => FinalizeAad(c0) = c0
<1>1. PICK c, d : c = BeginAd(c0) /\ d = FinalizeAad(c0)
  OBVIOUS
<1>2. CASE c0.adDone
  BY <1>2 DEF FinalizeAad
<1>3. CASE ~c0.adDone
  <2>1. WellFormed(c) /\ SameRecord(c0, c)
    BY <1>1, BeginAdIs
  <2>2. PICK part : part = [c.adPart EXCEPT ![c.adPartSz + 1] = SymDiff(@, One)]
    OBVIOUS
  <2>3. PICK s : s = IF c.adPartSz > 0 THEN AbsorbBuffer(c.s, part) ELSE c.s
    OBVIOUS
  <2>4. PICK t, w, b : /\ t = XorAt(s, Lane(Lanes) - 1, <<TopBit>>) /\ b = c0.adStarted
                       /\ w = IF c.adPartSz > 0 THEN part ELSE c.adPart
    OBVIOUS
  <2>5. d = [c EXCEPT !.adStarted = b, !.adPart = w, !.s = t, !.adPartSz = 0, !.adDone = TRUE]
    BY <1>1, <1>3, <2>2, <2>3, <2>4 DEF FinalizeAad
  <2>6. d.key = c.key /\ d.enc = c.enc /\ d.tag = c.tag /\ d.lastBlkSz = c.lastBlkSz /\ d.adDone
    BY <2>1, <2>5 DEF WellFormed, OsslFields, ZeroOssl
  <2> QED BY <1>1, <1>3, <2>1, <2>6, FinalizeAadWellFormed DEF SameRecord
<1> QED BY <1>2, <1>3

\* finalize_aad takes a record from its AD to its data.
LEMMA FinalizeFlows ==
  ASSUME NEW c, WellFormed(c), NEW r, Holds(c, r), r.stage \in {"ad", "data"}, PlainRecord(r)
  PROVE  Flows(FinalizeAad(c), r)
<1>1. PICK f : f = FinalizeAad(c)
  OBVIOUS
<1>2. /\ WellFormed(f) /\ f.adDone /\ f.key = c.key /\ f.lastBlkSz = c.lastBlkSz
      /\ c.adDone => f = c
  BY <1>1, FinalizeKeeps
<1>3. CASE r.stage = "data"
  <2>1. Flows(c, r)
    BY <1>3 DEF Holds
  <2> QED BY <1>1, <1>2, <2>1 DEF Flows
<1>4. CASE r.stage = "ad"
  <2>1. Opening(c, r) /\ ~r.filled
    <3>1. Opening(c, r)
      BY <1>4 DEF Holds
    <3> QED BY <3>1, StrEmpty DEF Opening, PlainRecord
  <2>2. PICK s : s = DataStart(c.key, r.nonce, r.ad)
    OBVIOUS
  <2>3. f.s = s
    BY <1>1, <2>1, <2>2, AdCloses DEF Opening, PlainRecord
  <2>4. f.lastBlkSz = 0
    BY <1>2, <2>1 DEF WellFormed, Opening
  <2>5. Plain(f, r) = <<>> /\ Cipher(f, r) = <<>>
    BY <2>1 DEF Opening, Plain, Cipher
  <2>6. EncStream(s, 0, AeadRate, PB, <<>>) = [state |-> s, lastBlkSz |-> 0, out |-> <<>>]
    BY <2>2, DataStartIsState, AeadRateOk, StreamNothing
  <2>7. Whole(f, r) = [state |-> f.s, lastBlkSz |-> f.lastBlkSz, out |-> Cipher(f, r)]
    BY <1>2, <2>2, <2>3, <2>4, <2>5, <2>6 DEF Whole, DataStream
  <2> QED BY <1>1, <1>2, <2>1, <2>7, StrEmpty DEF Flows, Opening
<1> QED BY <1>3, <1>4

\* An encrypting update continues the one-shot ciphertext.
LEMMA EncryptFlows ==
  ASSUME NEW c, WellFormed(c), NEW h, Flows(c, h), c.enc,
         NEW x, Str(x), NEW r, r = EncStream(c.s, c.lastBlkSz, AeadRate, PB, x),
         NEW d, d.key = c.key, d.enc, d.adDone, d.s = r.state, d.lastBlkSz = r.lastBlkSz,
         NEW g, g.nonce = h.nonce, g.ad = h.ad, g.fed = h.fed \o x, g.got = h.got \o r.out
  PROVE  Flows(d, g)
<1>1. PICK s, fed, got : s = DataStart(c.key, h.nonce, h.ad) /\ fed = h.fed /\ got = h.got
  OBVIOUS
<1>2. PICK u : u = EncStream(s, 0, AeadRate, PB, fed)
  OBVIOUS
<1>3. u = [state |-> c.s, lastBlkSz |-> c.lastBlkSz, out |-> got]
  <2>1. Plain(c, h) = fed /\ Cipher(c, h) = got
    BY <1>1 DEF Plain, Cipher
  <2> QED BY <1>1, <1>2, <2>1 DEF Flows, Whole, DataStream
<1>4. u.state = c.s /\ u.lastBlkSz = c.lastBlkSz /\ u.out = got
  BY <1>3
<1>5. IsState(s) /\ Str(fed) /\ Str(got)
  BY <1>1, DataStartIsState DEF Flows
<1>6. EncStream(s, 0, AeadRate, PB, fed \o x)
        = [state |-> r.state, lastBlkSz |-> r.lastBlkSz, out |-> got \o r.out]
  <2>1. TwoAreOne(s, AeadRate, PB, fed, x)
    BY <1>5, AeadRateOk, StreamConcat
  <2> QED BY <1>2, <1>4, <2>1 DEF TwoAreOne
<1>7. Streamed(r, Len(x), AeadRate)
  <2>1. Streamed(u, Len(fed), AeadRate)
    BY <1>2, <1>5, AeadRateOk, StreamFresh
  <2> QED BY <1>4, <2>1, AeadRateOk, StreamIs DEF Streamed
<1>8. Str(g.fed) /\ Str(g.got)
  BY <1>1, <1>5, <1>7, StrConcat DEF Streamed
<1>9. Plain(d, g) = fed \o x /\ Cipher(d, g) = got \o r.out
  BY <1>1 DEF Plain, Cipher
<1>10. Whole(d, g) = [state |-> d.s, lastBlkSz |-> d.lastBlkSz, out |-> Cipher(d, g)]
  BY <1>1, <1>6, <1>9 DEF Whole, DataStream
<1> QED BY <1>8, <1>10 DEF Flows

\* A decrypting update continues the plaintext of it.
LEMMA DecryptFlows ==
  ASSUME NEW c, WellFormed(c), NEW h, Flows(c, h), ~c.enc,
         NEW x, Str(x), NEW r, r = DecStream(c.s, c.lastBlkSz, AeadRate, PB, x),
         NEW d, d.key = c.key, ~d.enc, d.adDone, d.s = r.state, d.lastBlkSz = r.lastBlkSz,
         NEW g, g.nonce = h.nonce, g.ad = h.ad, g.fed = h.fed \o x, g.got = h.got \o r.out
  PROVE  Flows(d, g)
<1>1. PICK s, fed, got : s = DataStart(c.key, h.nonce, h.ad) /\ fed = h.fed /\ got = h.got
  OBVIOUS
<1>2. PICK u : u = EncStream(s, 0, AeadRate, PB, got)
  OBVIOUS
<1>3. u = [state |-> c.s, lastBlkSz |-> c.lastBlkSz, out |-> fed]
  <2>1. Plain(c, h) = got /\ Cipher(c, h) = fed
    BY <1>1 DEF Plain, Cipher
  <2> QED BY <1>1, <1>2, <2>1 DEF Flows, Whole, DataStream
<1>4. u.state = c.s /\ u.lastBlkSz = c.lastBlkSz /\ u.out = fed
  BY <1>3
<1>5. IsState(s) /\ Str(fed) /\ Str(got)
  BY <1>1, DataStartIsState DEF Flows
<1>6. Streamed(u, Len(got), AeadRate)
  BY <1>2, <1>5, AeadRateOk, StreamFresh
<1>7. PICK out, v : out = r.out /\ v = EncStream(u.state, u.lastBlkSz, AeadRate, PB, r.out)
  OBVIOUS
<1>8. Str(out) /\ v = [state |-> r.state, lastBlkSz |-> r.lastBlkSz, out |-> x]
  <2>1. Inverts(c.s, c.lastBlkSz, AeadRate, PB, x)
    BY <1>4, <1>6, AeadRateOk, DecInverts DEF Streamed
  <2> QED BY <1>4, <1>7, <2>1 DEF Inverts
<1>9. v.state = r.state /\ v.lastBlkSz = r.lastBlkSz /\ v.out = x
  BY <1>8
<1>10. EncStream(s, 0, AeadRate, PB, got \o out)
         = [state |-> r.state, lastBlkSz |-> r.lastBlkSz, out |-> fed \o x]
  <2>1. TwoAreOne(s, AeadRate, PB, got, out)
    BY <1>5, <1>8, AeadRateOk, StreamConcat
  <2> QED BY <1>2, <1>4, <1>7, <1>9, <2>1 DEF TwoAreOne
<1>11. Str(g.fed) /\ Str(g.got)
  BY <1>1, <1>5, <1>7, <1>8, StrConcat
<1>12. Plain(d, g) = got \o out /\ Cipher(d, g) = fed \o x
  BY <1>1, <1>7 DEF Plain, Cipher
<1>13. Whole(d, g) = [state |-> d.s, lastBlkSz |-> d.lastBlkSz, out |-> Cipher(d, g)]
  BY <1>1, <1>10, <1>12 DEF Whole, DataStream
<1> QED BY <1>11, <1>13 DEF Flows

----------------------------------------------------------------------------
\* Record g is r, its counts and stage apart.
Retold(r, g) ==
  /\ Shape(g) /\ g.nonce = r.nonce /\ g.ad = r.ad /\ g.fed = r.fed /\ g.got = r.got
  /\ g.filled = r.filled /\ g.tag = r.tag /\ g.verdict = r.verdict

\* A data update keeps what the record holds, also the one that closes the AD.
LEMMA DataHolds ==
  ASSUME NEW c, WellFormed(c), NEW r, Holds(c, r), r.stage \in {"ad", "data"},
         NEW x, Str(x), NEW g, Shape(g), g.stage = "data", g.nonce = r.nonce, g.ad = r.ad,
         g.filled = r.filled, g.fed = r.fed \o x, g.got = r.got \o OsslUpdate(c, x).out
  PROVE  Holds(OsslUpdate(c, x).ctx, g)
<1>1. PICK f, d : f = FinalizeAad(c) /\ d = OsslUpdate(c, x).ctx
  OBVIOUS
<1>2. WellFormed(f) /\ f.adDone /\ f.key = c.key /\ f.enc = c.enc
  BY <1>1, FinalizeKeeps
<1>3. PICK u : u = IF f.enc THEN EncStream(f.s, f.lastBlkSz, AeadRate, PB, x)
                   ELSE DecStream(f.s, f.lastBlkSz, AeadRate, PB, x)
  OBVIOUS
<1>4. d = [f EXCEPT !.s = u.state, !.lastBlkSz = u.lastBlkSz] /\ OsslUpdate(c, x).out = u.out
  BY <1>1, <1>3 DEF OsslUpdate, EncStream, DecStream
<1>5. /\ d.key = f.key /\ d.enc = f.enc /\ d.adDone /\ d.s = u.state
      /\ d.lastBlkSz = u.lastBlkSz
  BY <1>2, <1>4 DEF WellFormed, OsslFields, ZeroOssl
<1>8. g.got = r.got \o u.out
  BY <1>4
<1>6. ASSUME PlainRecord(g) PROVE Flows(d, g)
  <2>1. PlainRecord(r)
    BY <1>6 DEF PlainRecord
  <2>2. Flows(f, r)
    BY <1>1, <2>1, FinalizeFlows
  <2>3. CASE f.enc
    <3>1. u = EncStream(f.s, f.lastBlkSz, AeadRate, PB, x)
      BY <1>3, <2>3
    <3>2. d.enc /\ d.key = f.key /\ d.adDone /\ d.s = u.state /\ d.lastBlkSz = u.lastBlkSz
      BY <1>5, <2>3
    <3> QED BY <1>2, <1>8, <2>2, <2>3, <3>1, <3>2, EncryptFlows
  <2>4. CASE ~f.enc
    <3>1. u = DecStream(f.s, f.lastBlkSz, AeadRate, PB, x)
      BY <1>3, <2>4
    <3>2. ~d.enc /\ d.key = f.key /\ d.adDone /\ d.s = u.state /\ d.lastBlkSz = u.lastBlkSz
      BY <1>5, <2>4
    <3> QED BY <1>2, <1>8, <2>2, <2>4, <3>1, <3>2, DecryptFlows
  <2> QED BY <2>3, <2>4
<1>7. KeySize(d.key)
  BY <1>2, <1>5 DEF Holds
<1> QED BY <1>1, <1>6, <1>7 DEF Holds

\* A data update keeps the key.
LEMMA UpdateKeepsKey ==
  ASSUME NEW c, WellFormed(c), NEW x
  PROVE  OsslUpdate(c, x).ctx.key = c.key
<1>1. PICK f, d : f = FinalizeAad(c) /\ d = OsslUpdate(c, x).ctx
  OBVIOUS
<1>2. WellFormed(f) /\ f.key = c.key
  BY <1>1, FinalizeKeeps
<1>3. PICK u : u = IF f.enc THEN EncStream(f.s, f.lastBlkSz, AeadRate, PB, x)
                   ELSE DecStream(f.s, f.lastBlkSz, AeadRate, PB, x)
  OBVIOUS
<1>4. d = [f EXCEPT !.s = u.state, !.lastBlkSz = u.lastBlkSz]
  BY <1>1, <1>3 DEF OsslUpdate, EncStream, DecStream
<1> QED BY <1>1, <1>2, <1>4 DEF WellFormed, OsslFields, ZeroOssl

\* Final computes the record's own tag.
LEMMA FinalIs ==
  ASSUME NEW c, WellFormed(c), NEW r, Holds(c, r), r.stage \in {"ad", "data"}, PlainRecord(r)
  PROVE  Computed(Closed(c)) = OwnTag(c, r) /\ Whole(c, r).out = Cipher(c, r)
<1>1. PICK f : f = FinalizeAad(c)
  OBVIOUS
<1>2. WellFormed(f) /\ f.key = c.key /\ f.enc = c.enc /\ Flows(f, r) /\ KeySize(f.key)
  BY <1>1, FinalizeKeeps, FinalizeFlows DEF Holds
<1>3. PICK p : p = XorAt(f.s, f.lastBlkSz, <<One>>)
  OBVIOUS
<1>4. PICK t : t = XorAt(Permutation(XorAt(p, Lane(2), f.key), PA), Lane(3), f.key)
  OBVIOUS
<1>5. Closed(c) = [f EXCEPT !.s = t]
  BY <1>1, <1>3, <1>4 DEF Closed
<1>6. Closed(c).s = t
  BY <1>2, <1>5 DEF WellFormed, OsslFields, ZeroOssl
<1>7. Bytes(t, Lane(3), 2 * LaneSz) = TagOf(p, f.key)
  BY <1>2, <1>4, TagIs
<1>8. Plain(f, r) = Plain(c, r) /\ Cipher(f, r) = Cipher(c, r)
  BY <1>2 DEF Plain, Cipher
<1>9. PICK w : w = Whole(f, r)
  OBVIOUS
<1>10. w.state = f.s /\ w.lastBlkSz = f.lastBlkSz /\ w.out = Cipher(c, r) /\ w = Whole(c, r)
  <2>1. w = [state |-> f.s, lastBlkSz |-> f.lastBlkSz, out |-> Cipher(f, r)]
    BY <1>2, <1>9 DEF Flows
  <2>2. w = Whole(c, r)
    BY <1>2, <1>8, <1>9 DEF Whole
  <2> QED BY <1>8, <2>1, <2>2
<1>11. p = Padded(w)
  BY <1>3, <1>10 DEF Padded
<1> QED BY <1>2, <1>6, <1>7, <1>10, <1>11 DEF Computed, OwnTag

\* Final keeps key and direction and compares or stores the tag.
LEMMA FinalKeeps ==
  ASSUME NEW c, WellFormed(c)
  PROVE  /\ OsslFinal(c).ctx.key = c.key /\ OsslFinal(c).ctx.enc = c.enc
         /\ OsslFinal(c).ctx.tag = IF c.enc THEN Computed(Closed(c)) ELSE c.tag
         /\ OsslFinal(c).ok <=> (c.enc \/ Computed(Closed(c)) = c.tag)
<1>1. PICK f, k : f = FinalizeAad(c) /\ k = Closed(c)
  OBVIOUS
<1>2. WellFormed(f) /\ f.key = c.key /\ f.enc = c.enc /\ f.tag = c.tag
  BY <1>1, FinalizeKeeps
<1>3. PICK t : k = [f EXCEPT !.s = t]
  BY <1>1 DEF Closed
<1>4. k.key = f.key /\ k.enc = f.enc /\ k.tag = f.tag /\ DOMAIN k = DOMAIN f
  BY <1>3
<1>5. PICK d, m : d = OsslFinal(c).ctx /\ m = Computed(k)
  OBVIOUS
<1>6. d = [k EXCEPT !.tag = IF k.enc THEN m ELSE k.tag]
  <2>1. d = [k EXCEPT !.tag = IF k.enc THEN m ELSE @]
    BY <1>1, <1>5 DEF OsslFinal
  <2> QED BY <1>2, <1>4, <2>1 DEF WellFormed, OsslFields, ZeroOssl
<1>7. d.key = k.key /\ d.enc = k.enc /\ d.tag = IF k.enc THEN m ELSE k.tag
  BY <1>2, <1>4, <1>6 DEF WellFormed, OsslFields, ZeroOssl
<1>8. OsslFinal(c).ok <=> (k.enc \/ m = k.tag)
  BY <1>1, <1>5 DEF OsslFinal
<1> QED BY <1>1, <1>2, <1>4, <1>5, <1>7, <1>8

\* Final ends a record with its own tag.
LEMMA FinalHolds ==
  ASSUME NEW c, WellFormed(c), NEW r, Holds(c, r), r.stage \in {"ad", "data"},
         NEW g, Shape(g), g.stage = "done", g.nonce = r.nonce, g.ad = r.ad,
         g.filled = r.filled, g.fed = r.fed, g.got = r.got,
         g.verdict = OsslFinal(c).ok,
         g.tag = IF c.enc THEN OsslFinal(c).ctx.tag ELSE c.tag
  PROVE  Holds(OsslFinal(c).ctx, g)
<1>1. PICK d, m : d = OsslFinal(c).ctx /\ m = Computed(Closed(c))
  OBVIOUS
<1>2. /\ d.key = c.key /\ d.enc = c.enc /\ d.tag = IF c.enc THEN m ELSE c.tag
      /\ g.verdict <=> (c.enc \/ m = c.tag)
  BY <1>1, FinalKeeps
<1>3. ASSUME PlainRecord(g) PROVE Ended(d, g)
  <2>1. PlainRecord(r)
    BY <1>3 DEF PlainRecord
  <2>2. m = OwnTag(c, r) /\ Whole(c, r).out = Cipher(c, r)
    BY <1>1, <2>1, FinalIs
  <2>3. Plain(d, g) = Plain(c, r) /\ Cipher(d, g) = Cipher(c, r)
    BY <1>2 DEF Plain, Cipher
  <2>4. Whole(d, g) = Whole(c, r)
    BY <1>2, <2>3 DEF Whole
  <2>5. OwnTag(d, g) = m
    BY <1>2, <2>2, <2>4 DEF OwnTag
  <2>6. Str(g.fed) /\ Str(g.got)
    <3>1. Flows(FinalizeAad(c), r)
      BY <2>1, FinalizeFlows
    <3> QED BY <3>1 DEF Flows
  <2>7. g.tag = IF c.enc THEN m ELSE c.tag
    BY <1>1, <1>2
  <2> QED BY <1>2, <2>2, <2>3, <2>4, <2>5, <2>6, <2>7 DEF Ended
<1>4. KeySize(d.key)
  BY <1>2 DEF Holds
<1> QED BY <1>1, <1>3, <1>4 DEF Holds

\* The AEAD tag parameter is no part of what a record holds.
LEMMA TagHolds ==
  ASSUME NEW c, WellFormed(c), NEW tag, NEW r, Holds(c, r)
  PROVE  Holds([c EXCEPT !.tag = tag], r)
<1>1. PICK d : d = [c EXCEPT !.tag = tag]
  OBVIOUS
<1>2. /\ d.key = c.key /\ d.enc = c.enc /\ d.s = c.s /\ d.adDone = c.adDone
      /\ d.lastBlkSz = c.lastBlkSz /\ d.adStarted = c.adStarted
      /\ d.adPartSz = c.adPartSz /\ d.adPart = c.adPart /\ WellFormed(d)
  BY <1>1 DEF WellFormed, OsslFields, ZeroOssl
<1>3. /\ BeginAd(d).key = BeginAd(c).key /\ BeginAd(d).s = BeginAd(c).s
      /\ BeginAd(d).adPartSz = BeginAd(c).adPartSz /\ BeginAd(d).adPart = BeginAd(c).adPart
  <2>1. CASE c.adStarted
    BY <1>2, <2>1 DEF BeginAd
  <2>2. CASE ~c.adStarted
    <3>1. BeginAd(d).s = XorAt(Permutation(d.s, PA), Lane(3), d.key)
      BY <1>2, <2>2, BeginAdIs
    <3>2. BeginAd(c).s = XorAt(Permutation(c.s, PA), Lane(3), c.key)
      BY <2>2, BeginAdIs
    <3>3. /\ BeginAd(d).key = d.key /\ BeginAd(d).adPartSz = d.adPartSz
          /\ BeginAd(d).adPart = d.adPart
      BY <1>2, BeginAdIs DEF SameRecord
    <3>4. /\ BeginAd(c).key = c.key /\ BeginAd(c).adPartSz = c.adPartSz
          /\ BeginAd(c).adPart = c.adPart
      BY BeginAdIs DEF SameRecord
    <3> QED BY <1>2, <3>1, <3>2, <3>3, <3>4
  <2> QED BY <2>1, <2>2
<1>4. Buffered(BeginAd(c), r.nonce, r.ad) => Buffered(BeginAd(d), r.nonce, r.ad)
  BY <1>3 DEF Buffered, Split
<1>5. Plain(d, r) = Plain(c, r) /\ Cipher(d, r) = Cipher(c, r)
  BY <1>2 DEF Plain, Cipher
<1>6. Whole(d, r) = Whole(c, r)
  BY <1>2, <1>5 DEF Whole
<1>7. OwnTag(d, r) = OwnTag(c, r)
  BY <1>2, <1>6 DEF OwnTag
<1>8. Opening(c, r) => Opening(d, r)
  BY <1>2, <1>4 DEF Opening
<1>9. Flows(c, r) => Flows(d, r)
  BY <1>2, <1>5, <1>6 DEF Flows
<1>10. Ended(c, r) => Ended(d, r)
  BY <1>2, <1>5, <1>6, <1>7 DEF Ended
<1> QED BY <1>1, <1>2, <1>8, <1>9, <1>10 DEF Holds

----------------------------------------------------------------------------
----------------------------------------------------------------------------
(***************************************************************************)
(* The invariant over all contexts, and its preservation by every call.    *)
(***************************************************************************)
Records == /\ DOMAIN sess = Handles /\ sess = [h \in Handles |-> sess[h]]
           /\ \A h \in Handles : Shape(sess[h])
           /\ \A h \in Handles : ctx[h] # NULL => Holds(ctx[h], sess[h])

RInv == IInv /\ Records

\* The invariant holds while no context exists.
LEMMA RecordsInit == Init => Records
<1> SUFFICES ASSUME Init PROVE Records
  OBVIOUS
<1>1. ctx = [h \in Handles |-> NULL]
  BY DEF Init
<1>2. sess = [h \in Handles |-> NewRecord(<<>>, "misused", 0)]
  BY DEF Init
<1>3. \A h \in Handles : Shape(sess[h])
  BY <1>2, NewShape
<1> QED BY <1>1, <1>2, <1>3 DEF Records

\* A call on one context keeps the invariant of the others.
LEMMA RecordsSet ==
  ASSUME RInv, NEW h \in Handles, NEW c, NEW r,
         ctx' = [ctx EXCEPT ![h] = c], sess' = [sess EXCEPT ![h] = r],
         Shape(r), c # NULL => Holds(c, r)
  PROVE  Records'
<1>1. DOMAIN sess' = Handles /\ sess' = [g \in Handles |-> sess'[g]]
  BY DEF RInv, Records
<1>2. \A g \in Handles : /\ ctx'[g] = IF g = h THEN c ELSE ctx[g]
                         /\ sess'[g] = IF g = h THEN r ELSE sess[g]
  BY DEF RInv, Records, IInv
<1>3. \A g \in Handles : Shape(sess'[g])
  BY <1>2 DEF RInv, Records
<1>4. \A g \in Handles : ctx'[g] # NULL => Holds(ctx'[g], sess'[g])
  BY <1>2 DEF RInv, Records
<1> QED BY <1>1, <1>3, <1>4 DEF Records

\* The invariant of one context in use.
LEMMA LiveHolds ==
  ASSUME RInv, NEW h \in Handles, ctx[h] # NULL
  PROVE  /\ WellFormed(ctx[h]) /\ Shape(sess[h]) /\ Holds(ctx[h], sess[h])
         /\ KeySize(ctx[h].key)
BY DEF RInv, IInv, Records, Holds

\* The counts and the stage of a record are rewritten by every update and final.
Recount(r, calls, strays, stage) ==
  [r EXCEPT !.calls = calls, !.strays = strays, !.stage = stage]

\* Counting a call changes nothing else of the history.
LEMMA RecountIs ==
  ASSUME NEW r, Shape(r), NEW calls, NEW strays, NEW stage
  PROVE  /\ Retold(r, Recount(r, calls, strays, stage))
         /\ Recount(r, calls, strays, stage).stage = stage
BY DEF Recount, Shape, Retold

\* A call that holds in the documented order keeps the invariant, and one out
\* of order leaves a misused record.
LEMMA CallKeeps ==
  ASSUME RInv, NEW h \in Handles, NEW c, NEW r, Shape(r), KeySize(c.key),
         NEW from, NEW to, CallCipher(h, c, r, from, to),
         sess[h].stage \in from => \A g : Retold(r, g) /\ g.stage = to => Holds(c, g)
  PROVE  Records'
<1>1. PICK legal : legal = (sess[h].stage \in from)
  OBVIOUS
<1>2. PICK calls, strays, stage :
         /\ calls = r.calls + 1
         /\ strays = IF sess[h].stage \in from THEN r.strays ELSE r.strays + 1
         /\ stage = IF sess[h].stage \in from THEN to ELSE "misused"
  OBVIOUS
<1>3. PICK g : g = Recount(r, calls, strays, stage)
  OBVIOUS
<1>4. Retold(r, g) /\ g.stage = stage /\ Shape(g)
  BY <1>3, RecountIs DEF Retold
<1>5. Set(h, c, g)
  <2>1. g = [r EXCEPT !.calls = @ + 1,
                      !.strays = IF sess[h].stage \in from THEN @ ELSE @ + 1,
                      !.stage = IF sess[h].stage \in from THEN to ELSE "misused"]
    BY <1>2, <1>3 DEF Recount, Shape
  <2> QED BY <2>1 DEF CallCipher
<1>6. Holds(c, g)
  <2>1. CASE sess[h].stage \in from
    BY <1>2, <1>4, <2>1
  <2>2. CASE sess[h].stage \notin from
    BY <1>2, <1>4, <2>2, MisusedHolds
  <2> QED BY <2>1, <2>2
<1> QED BY <1>4, <1>5, <1>6, RecordsSet DEF Set

\* An AD update keeps the invariant.
LEMMA AadStep ==
  ASSUME RInv, NEW h \in Handles, NEW x \in Chunks, UpdateAad(h, x)
  PROVE  Records'
<1>1. PICK c, r0 : c = ctx[h] /\ r0 = sess[h]
  OBVIOUS
<1>2. /\ ctx[h] # NULL /\ x # <<>> /\ WellFormed(c) /\ Shape(r0) /\ Holds(c, r0)
      /\ KeySize(c.key)
  BY <1>1, LiveHolds DEF UpdateAad
<1>3. PICK d, fills, r : /\ d = AbsorbAad(c, x)
                         /\ fills = (c.adPartSz > 0 /\ c.adPartSz + Len(x) >= AeadRate)
                         /\ r = [r0 EXCEPT !.ad = r0.ad \o x, !.filled = r0.filled \/ fills]
  OBVIOUS
<1>4. CallCipher(h, d, r, {"ad"}, "ad")
  <2>1. r = [r0 EXCEPT !.ad = @ \o x,
              !.filled = @ \/ (c.adPartSz > 0 /\ c.adPartSz + Len(x) >= AeadRate)]
    BY <1>2, <1>3 DEF Shape
  <2> QED BY <1>1, <1>3, <2>1 DEF UpdateAad
<1>5. /\ Shape(r) /\ r.nonce = r0.nonce /\ r.ad = r0.ad \o x /\ r.fed = r0.fed
      /\ r.got = r0.got /\ (r.filled <=> (r0.filled \/ fills))
  BY <1>2, <1>3 DEF Shape
<1>6. ASSUME r0.stage = "ad", NEW g, Retold(r, g), g.stage = "ad"
      PROVE  Holds(d, g)
  <2>1. /\ Shape(g) /\ g.nonce = r0.nonce /\ g.ad = r0.ad \o x /\ g.fed = r0.fed
        /\ g.got = r0.got
        /\ g.filled <=> (r0.filled \/ (c.adPartSz > 0 /\ c.adPartSz + Len(x) >= AeadRate))
    BY <1>3, <1>5, <1>6 DEF Retold
  <2>2. x \in Seq(ChunkBytes)
    BY ChunkAssumption
  <2> QED BY <1>2, <1>3, <1>6, <2>1, <2>2, AadHolds
<1>7. KeySize(d.key)
  BY <1>2, <1>3, AbsorbKeeps DEF SameRecord
<1> QED BY <1>1, <1>4, <1>5, <1>6, <1>7, CallKeeps

\* A data update keeps it.
LEMMA DataStep ==
  ASSUME RInv, NEW h \in Handles, NEW x \in Chunks, UpdateData(h, x)
  PROVE  Records'
<1>1. PICK c, r0 : c = ctx[h] /\ r0 = sess[h]
  OBVIOUS
<1>2. ctx[h] # NULL /\ WellFormed(c) /\ Shape(r0) /\ Holds(c, r0) /\ KeySize(c.key)
  BY <1>1, LiveHolds DEF UpdateData
<1>3. PICK d, out, r : /\ d = OsslUpdate(c, x).ctx /\ out = OsslUpdate(c, x).out
                       /\ r = [r0 EXCEPT !.fed = r0.fed \o x, !.got = r0.got \o out]
  OBVIOUS
<1>4. CallCipher(h, d, r, {"ad", "data"}, "data")
  <2>1. r = [r0 EXCEPT !.fed = @ \o x, !.got = @ \o out]
    BY <1>2, <1>3 DEF Shape
  <2> QED BY <1>1, <1>3, <2>1 DEF UpdateData
<1>5. /\ Shape(r) /\ r.nonce = r0.nonce /\ r.ad = r0.ad /\ r.fed = r0.fed \o x
      /\ r.got = r0.got \o out /\ r.filled = r0.filled
  BY <1>2, <1>3 DEF Shape
<1>6. ASSUME r0.stage \in {"ad", "data"}, NEW g, Retold(r, g), g.stage = "data"
      PROVE  Holds(d, g)
  <2>1. /\ Shape(g) /\ g.nonce = r0.nonce /\ g.ad = r0.ad /\ g.filled = r0.filled
        /\ g.fed = r0.fed \o x /\ g.got = r0.got \o OsslUpdate(c, x).out
    BY <1>3, <1>5, <1>6 DEF Retold
  <2>2. Str(x)
    BY ChunkAssumption, StrOf
  <2> QED BY <1>2, <1>3, <1>6, <2>1, <2>2, DataHolds
<1>7. KeySize(d.key)
  BY <1>2, <1>3, UpdateKeepsKey
<1> QED BY <1>1, <1>4, <1>5, <1>6, <1>7, CallKeeps

\* Final keeps it.
LEMMA FinalStep ==
  ASSUME RInv, NEW h \in Handles, FinalCipher(h)
  PROVE  Records'
<1>1. PICK c, r0 : c = ctx[h] /\ r0 = sess[h]
  OBVIOUS
<1>2. ctx[h] # NULL /\ WellFormed(c) /\ Shape(r0) /\ Holds(c, r0) /\ KeySize(c.key)
  BY <1>1, LiveHolds DEF FinalCipher
<1>3. PICK d, ok, tag, r : /\ d = OsslFinal(c).ctx /\ ok = OsslFinal(c).ok
                           /\ tag = IF c.enc THEN d.tag ELSE c.tag
                           /\ r = [r0 EXCEPT !.verdict = ok, !.tag = tag]
  OBVIOUS
<1>4. CallCipher(h, d, r, {"ad", "data"}, "done")
  BY <1>1, <1>3 DEF FinalCipher
<1>5. /\ Shape(r) /\ r.nonce = r0.nonce /\ r.ad = r0.ad /\ r.fed = r0.fed
      /\ r.got = r0.got /\ r.filled = r0.filled /\ r.verdict = ok /\ r.tag = tag
  BY <1>2, <1>3 DEF Shape
<1>6. ASSUME r0.stage \in {"ad", "data"}, NEW g, Retold(r, g), g.stage = "done"
      PROVE  Holds(d, g)
  <2>1. /\ Shape(g) /\ g.nonce = r0.nonce /\ g.ad = r0.ad /\ g.filled = r0.filled
        /\ g.fed = r0.fed /\ g.got = r0.got /\ g.verdict = OsslFinal(c).ok
        /\ g.tag = IF c.enc THEN OsslFinal(c).ctx.tag ELSE c.tag
    BY <1>3, <1>5, <1>6 DEF Retold
  <2> QED BY <1>2, <1>3, <1>6, <2>1, FinalHolds
<1>7. KeySize(d.key)
  BY <1>2, <1>3, FinalKeeps
<1> QED BY <1>1, <1>4, <1>5, <1>6, <1>7, CallKeeps

----------------------------------------------------------------------------
\* A record marked misused.
LEMMA SpoiltIs ==
  ASSUME NEW r, Shape(r), NEW n
  PROVE  /\ Shape([r EXCEPT !.stage = "misused", !.records = n])
         /\ [r EXCEPT !.stage = "misused", !.records = n].stage = "misused"
BY DEF Shape

\* An init that succeeds keeps the invariant.
LEMMA InitStep ==
  ASSUME RInv, NEW h \in Handles, ctx[h] # NULL, NEW key \in Keys \cup {NULL},
         NEW iv \in Nonces \cup {NULL}, NEW enc \in BOOLEAN, InitCipher(h, key, iv, enc)
  PROVE  Records'
<1>1. PICK c, r, k, n : /\ c = ctx[h] /\ r = sess[h] /\ n = sess[h].records + 1
                        /\ k = IF key = NULL THEN ctx[h].key ELSE key
  OBVIOUS
<1>2. WellFormed(c) /\ Shape(r) /\ KeySize(c.key)
  BY <1>1, LiveHolds
<1>3. KeySize(k)
  BY <1>1, <1>2, KeySized
<1>4. PICK d : d = [c EXCEPT !.enc = enc, !.key = k]
  OBVIOUS
<1>5. WellFormed(d) /\ d.key = k
  BY <1>2, <1>4 DEF WellFormed, OsslFields, ZeroOssl
<1>6. IF iv = NULL THEN Set(h, d, [r EXCEPT !.stage = "misused", !.records = n])
      ELSE Set(h, ResetOssl(d, k, iv), NewRecord(iv, "ad", n))
  <2>1. d = [ctx[h] EXCEPT !.enc = enc, !.key = IF key = NULL THEN @ ELSE key]
    BY <1>1, <1>2, <1>4 DEF WellFormed, OsslFields, ZeroOssl
  <2> QED BY <1>1, <1>5, <2>1 DEF InitCipher
<1>7. CASE iv = NULL
  <2>1. PICK g : g = [r EXCEPT !.stage = "misused", !.records = n]
    OBVIOUS
  <2>2. Shape(g) /\ g.stage = "misused"
    BY <1>2, <2>1, SpoiltIs
  <2>3. Set(h, d, g)
    BY <1>6, <1>7, <2>1
  <2>4. Holds(d, g)
    BY <1>3, <1>5, <2>2, MisusedHolds
  <2> QED BY <2>2, <2>3, <2>4, RecordsSet DEF Set
<1>8. CASE iv # NULL
  <2>1. PICK e, g : e = ResetOssl(d, k, iv) /\ g = NewRecord(iv, "ad", n)
    OBVIOUS
  <2>2. Set(h, e, g)
    BY <1>6, <1>8, <2>1
  <2>3. Holds(e, g)
    BY <1>3, <1>5, <2>1, ResetHolds
  <2> QED BY <2>2, <2>3, RecordsSet DEF Set, Holds
<1> QED BY <1>7, <1>8

\* So does one that fails half-way.
LEMMA InitFailsStep ==
  ASSUME RInv, NEW h \in Handles, ctx[h] # NULL, NEW key \in Keys, NEW enc \in BOOLEAN,
         InitFails(h, key, enc)
  PROVE  Records'
<1>1. PICK c, r, n : c = ctx[h] /\ r = sess[h] /\ n = sess[h].records + 1
  OBVIOUS
<1>2. WellFormed(c) /\ Shape(r) /\ KeySize(c.key) /\ KeySize(key)
  BY <1>1, LiveHolds, KeySized
<1>3. PICK g : g = [r EXCEPT !.stage = "misused", !.records = n]
  OBVIOUS
<1>4. Shape(g) /\ g.stage = "misused"
  BY <1>2, <1>3, SpoiltIs
<1>5. PICK d, e : d = [c EXCEPT !.enc = enc] /\ e = [c EXCEPT !.enc = enc, !.key = key]
  OBVIOUS
<1>6. Holds(d, g) /\ Holds(e, g)
  <2>1. d.key = c.key /\ e.key = key
    BY <1>2, <1>5 DEF WellFormed, OsslFields, ZeroOssl
  <2> QED BY <1>2, <1>4, <2>1, MisusedHolds
<1>7. Set(h, d, g) \/ Set(h, e, g)
  <2>1. g = [sess[h] EXCEPT !.stage = "misused", !.records = @ + 1]
    BY <1>1, <1>2, <1>3 DEF Shape
  <2> QED BY <1>1, <1>5, <2>1 DEF InitFails
<1> QED BY <1>4, <1>6, <1>7, RecordsSet DEF Set

\* Every call on every context keeps the invariant.
LEMMA RecordsStep ==
  ASSUME RInv, [Next]_vars
  PROVE  Records'
<1>1. CASE UNCHANGED vars
  BY <1>1 DEF vars, RInv, Records
<1>2. ASSUME NEW h \in Handles, NewCtx(h)
      PROVE  Records'
  <2>1. PICK r : r = NewRecord(<<>>, "misused", sess[h].records)
    OBVIOUS
  <2>2. sess' = [sess EXCEPT ![h] = r] /\ ctx' = [ctx EXCEPT ![h] = ZeroOssl]
    <3>1. sess' = [sess EXCEPT ![h] = NewRecord(<<>>, "misused", @.records)]
      BY <1>2 DEF NewCtx
    <3>2. sess' = [sess EXCEPT ![h] = NewRecord(<<>>, "misused", sess[h].records)]
      BY <3>1 DEF RInv, Records
    <3> QED BY <1>2, <2>1, <3>2 DEF NewCtx
  <2>3. Shape(r) /\ r.stage = "misused"
    BY <2>1, NewShape
  <2>4. Holds(ZeroOssl, r)
    BY <2>3, ZeroKeySized, MisusedHolds
  <2> QED BY <2>2, <2>3, <2>4, RecordsSet
<1>3. ASSUME NEW h \in Handles, FreeCtx(h)
      PROVE  Records'
  <2>1. PICK n, r : /\ n = IF Live = {h} THEN sess[h].records ELSE 0
                    /\ r = NewRecord(<<>>, "misused", n)
    OBVIOUS
  <2>2. Set(h, NULL, r)
    BY <1>3, <2>1 DEF FreeCtx
  <2>3. Shape(r)
    BY <2>1, NewShape
  <2> QED BY <2>2, <2>3, RecordsSet DEF Set
<1>4. ASSUME NEW h \in Handles, NEW to \in Handles, DupCtx(h, to)
      PROVE  Records'
  <2>1. /\ ctx[h] # NULL /\ ctx' = [ctx EXCEPT ![to] = ctx[h]]
        /\ sess' = [sess EXCEPT ![to] = sess[h]]
    BY <1>4 DEF DupCtx
  <2>2. Shape(sess[h]) /\ Holds(ctx[h], sess[h])
    BY <2>1, LiveHolds
  <2> QED BY <2>1, <2>2, RecordsSet
<1>5. ASSUME NEW h \in Handles, NEW tag, SetTag(h, tag)
      PROVE  Records'
  <2>1. PICK d : d = [ctx[h] EXCEPT !.tag = tag]
    OBVIOUS
  <2>2. ctx[h] # NULL /\ ctx' = [ctx EXCEPT ![h] = d] /\ sess' = [sess EXCEPT ![h] = sess[h]]
    BY <1>5, <2>1 DEF SetTag, Set
  <2>3. Shape(sess[h]) /\ Holds(d, sess[h])
    BY <2>1, <2>2, LiveHolds, TagHolds
  <2> QED BY <2>2, <2>3, RecordsSet
<1> QED BY <1>1, <1>2, <1>3, <1>4, <1>5, InitStep, InitFailsStep, AadStep, DataStep,
           FinalStep DEF Next

\* The whole invariant holds at the start.
LEMMA RInvInit == Init => RInv
BY IInvInit, RecordsInit DEF RInv

\* Every step keeps it.
LEMMA RInvStep == RInv /\ [Next]_vars => RInv'
BY IInvStep, RecordsStep DEF RInv

----------------------------------------------------------------------------
\* What the invariant says of a record in the documented order.
LEMMA InOrderHolds ==
  ASSUME RInv, NEW h \in Handles, InOrder(h), PlainAd(h)
  PROVE  /\ Whole(ctx[h], sess[h]).out = Cipher(ctx[h], sess[h])
         /\ Str(Plain(ctx[h], sess[h]))
         /\ sess[h].stage = "done" => Ended(ctx[h], sess[h])
<1>1. PICK c, r : c = ctx[h] /\ r = sess[h]
  OBVIOUS
<1>2. Holds(c, r) /\ PlainRecord(r) /\ r.stage \in {"data", "done"}
  <2>1. ctx[h] # NULL /\ r.stage \in {"data", "done"}
    BY <1>1 DEF InOrder
  <2>2. Holds(c, r)
    BY <1>1, <2>1, LiveHolds
  <2>3. PlainRecord(sess[h])
    BY DEF PlainAd, PlainRecord
  <2> QED BY <1>1, <2>1, <2>2, <2>3
<1>3. CASE r.stage = "data"
  <2>1. Flows(c, r)
    BY <1>2, <1>3 DEF Holds
  <2> QED BY <1>1, <1>3, <2>1 DEF Flows, Plain
<1>4. CASE r.stage = "done"
  <2>1. Ended(c, r)
    BY <1>2, <1>4 DEF Holds
  <2> QED BY <1>1, <2>1 DEF Ended, Plain
<1> QED BY <1>2, <1>3, <1>4

\* The data encrypted in one go is the one-shot ciphertext and tag.
LEMMA WholeIsOneShot ==
  ASSUME NEW h, Str(Plain(ctx[h], sess[h]))
  PROVE  OneShot(h, Plain(ctx[h], sess[h]))
           = [ct |-> Whole(ctx[h], sess[h]).out, tag |-> OwnTag(ctx[h], sess[h])]
<1>1. PICK p, key, nonce, ad : /\ p = Plain(ctx[h], sess[h]) /\ key = ctx[h].key
                               /\ nonce = sess[h].nonce /\ ad = sess[h].ad
  OBVIOUS
<1>2. OneShotEncrypt(key, nonce, ad, p)
        = [ct  |-> DataStream(key, nonce, ad, p).out,
           tag |-> TagOf(Padded(DataStream(key, nonce, ad, p)), key)]
  BY <1>1, OneShotIsStream
<1> QED BY <1>1, <1>2 DEF OneShot, Whole, OwnTag

\* The invariant implies that the record agrees with the one-shot algorithm.
LEMMA RInvMatches ==
  ASSUME RInv, NEW h \in Handles, InOrder(h), PlainAd(h)
  PROVE  Matches(h)
<1>1. PICK c, r, p : c = ctx[h] /\ r = sess[h] /\ p = Plain(c, r)
  OBVIOUS
<1>2. PICK w, t : w = Whole(c, r).out /\ t = OwnTag(c, r)
  OBVIOUS
<1>3. w = Cipher(c, r) /\ Str(p) /\ (r.stage = "done" => Ended(c, r))
  BY <1>1, <1>2, InOrderHolds
<1>4. OneShot(h, p) = [ct |-> w, tag |-> t]
  BY <1>1, <1>2, <1>3, WholeIsOneShot
<1>5. OneShot(h, p).ct = w /\ OneShot(h, p).tag = t
  BY <1>4
<1>6. CASE c.enc
  <2>1. p = r.fed /\ Cipher(c, r) = r.got
    BY <1>1, <1>6 DEF Plain, Cipher
  <2>2. r.got = OneShot(h, r.fed).ct
    BY <1>3, <1>5, <2>1
  <2>3. r.stage = "done" => r.tag = OneShot(h, r.fed).tag
    BY <1>2, <1>3, <1>5, <1>6, <2>1 DEF Ended
  <2> QED BY <1>1, <1>6, <2>2, <2>3 DEF Matches
<1>7. CASE ~c.enc
  <2>1. p = r.got /\ Cipher(c, r) = r.fed
    BY <1>1, <1>7 DEF Plain, Cipher
  <2>2. r.fed = OneShot(h, r.got).ct
    BY <1>3, <1>5, <2>1
  <2> QED BY <1>1, <1>7, <2>2 DEF Matches
<1> QED BY <1>6, <1>7

\* The invariant implies that decryption accepts its own tag only.
LEMMA RInvOwnTag ==
  ASSUME RInv, NEW h \in Handles, InOrder(h), PlainAd(h), sess[h].stage = "done", ~ctx[h].enc
  PROVE  sess[h].verdict <=> sess[h].tag = OneShot(h, sess[h].got).tag
<1>1. PICK c, r, p, t : c = ctx[h] /\ r = sess[h] /\ p = Plain(c, r) /\ t = OwnTag(c, r)
  OBVIOUS
<1>2. Str(p) /\ Ended(c, r)
  BY <1>1, InOrderHolds
<1>3. OneShot(h, p) = [ct |-> Whole(c, r).out, tag |-> t]
  BY <1>1, <1>2, WholeIsOneShot
<1>4. OneShot(h, p).tag = t
  BY <1>3
<1>5. p = r.got
  BY <1>1 DEF Plain
<1>6. r.verdict <=> r.tag = t
  BY <1>1, <1>2 DEF Ended
<1> QED BY <1>1, <1>4, <1>5, <1>6

\* For every lane size, key, nonce, chunking, duplicate and history of the
\* context: a record in the documented order, whose AD is empty or ends inside
\* a block and never filled the AD buffer, is what the one-shot algorithm puts
\* out. Nothing an earlier record, a failed init or an abandoned one left in
\* the context reaches it.
THEOREM OsslRecordIsOneShot == Spec => []RecordIsOneShot
<1>1. RInv => RecordIsOneShot
  BY RInvMatches DEF RecordIsOneShot
<1> QED BY <1>1, RInvInit, RInvStep, PTL DEF Spec

\* For such a record the final call of a decryption succeeds exactly when
\* the tag stored in the context is the record's own, whoever stored it and
\* when.
THEOREM OsslAcceptsOwnTag == Spec => []AcceptsOnlyItsOwnTag
<1>1. RInv => AcceptsOnlyItsOwnTag
  BY RInvOwnTag DEF AcceptsOnlyItsOwnTag
<1> QED BY <1>1, RInvInit, RInvStep, PTL DEF Spec
=============================================================================

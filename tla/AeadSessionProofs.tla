-------------------------- MODULE AeadSessionProofs --------------------------
(***************************************************************************)
(* For every lane size, key, nonce, AD, chunking and order of calls: the   *)
(* API guards of an AEAD context keep its counters and flags consistent,   *)
(* its direction and key fixed while data flows, and its IV across resets; *)
(* what a session puts out is what the one-shot algorithm does, it accepts *)
(* its own tag only, and no record-number mask is a record's keystream.    *)
(*                                                                         *)
(* The last three follow from one invariant, Holds: the state of a context *)
(* is, at each stage of its session, a function of the key, nonce, AD and  *)
(* data the caller has given it.                                           *)
(***************************************************************************)
EXTENDS AeadSession, AsconSpongeProofs

\* The rate is a positive number of bytes.
LEMMA AeadRateType == AeadRate \in Nat \ {0}
BY LaneSzAssumption DEF AeadRate

----------------------------------------------------------------------------
(***************************************************************************)
(* One lemma per API function: what it does to a well-formed context.      *)
(***************************************************************************)
WellFormed(c) ==
  /\ DOMAIN c = Fields
  /\ c.lastBlkSz \in 0 .. AeadRate - 1
  /\ c.op \in {NOTSET, ENCRYPT, DECRYPT}
  /\ {c.keySet, c.nonceSet, c.adSet} \subseteq BOOLEAN
  /\ c.adSet => c.keySet /\ c.nonceSet
  /\ c.op # NOTSET => c.keySet /\ c.nonceSet /\ c.adSet
  /\ c.lastBlkSz # 0 => c.op # NOTSET

\* The session part of a context that a call must respect once data flows.
SameUse(c, d) == /\ d.iv = c.iv
                 /\ c.op # NOTSET => d.op = c.op /\ d.key = c.key /\ d.nonceSet

Respects(c, r) == WellFormed(r.a) /\ r.ret \in Codes /\ SameUse(c, r.a)

\* A new or cleared context, also with an IV stored, is consistent.
LEMMA ZeroCtxWellFormed ==
  /\ WellFormed(ZeroCtx)
  /\ \A iv : WellFormed([ZeroCtx EXCEPT !.iv = iv])
BY AeadRateType DEF WellFormed, ZeroCtx, Fields

\* Init leaves a consistent context without key and direction, and keeps the
\* IV.
LEMMA InitAeadResets ==
  ASSUME NEW c
  PROVE  LET d == InitAead(c).a
         IN  WellFormed(d) /\ d.iv = c.iv /\ d.op = NOTSET /\ ~d.keySet
<1>1. PICK s : InitAead(c).a = [ZeroCtx EXCEPT !.iv = c.iv, !.state = s]
  BY DEF InitAead, Ok
<1> QED BY <1>1, AeadRateType DEF WellFormed, ZeroCtx, Fields

\* A refused call leaves the context as it was.
LEMMA FailRespects ==
  ASSUME NEW c, WellFormed(c), NEW code \in Codes
  PROVE  Respects(c, Fail(c, code))
BY DEF Respects, Fail, WellFormed, SameUse

\* SetKey keeps the context consistent, in its use, with its IV.
LEMMA SetKeyRespects ==
  ASSUME NEW c, WellFormed(c), NEW key
  PROVE  Respects(c, SetKey(c, key))
<1>1. CASE c.keySet
  BY <1>1, FailRespects DEF SetKey, Codes
<1>2. CASE ~c.keySet
  BY <1>2 DEF SetKey, Ok, Respects, WellFormed, SameUse, Codes, Fields, ZeroCtx
<1> QED BY <1>1, <1>2

\* So does SetNonce.
LEMMA SetNonceRespects ==
  ASSUME NEW c, WellFormed(c), NEW nonce
  PROVE  Respects(c, SetNonce(c, nonce))
<1>1. CASE c.nonceSet
  BY <1>1, FailRespects DEF SetNonce, Codes
<1>2. CASE ~c.nonceSet
  BY <1>2 DEF SetNonce, Ok, Respects, WellFormed, SameUse, Codes, Fields, ZeroCtx
<1> QED BY <1>1, <1>2

\* So does SetAD.
LEMMA SetADRespects ==
  ASSUME NEW c, WellFormed(c), NEW ad
  PROVE  Respects(c, SetAD(c, ad))
<1>1. CASE ~c.keySet \/ ~c.nonceSet
  BY <1>1, FailRespects DEF SetAD, Codes
<1>2. CASE c.keySet /\ c.nonceSet
  <2>1. PICK s : SetAD(c, ad) = Ok([c EXCEPT !.state = s, !.adSet = TRUE])
    BY <1>2 DEF SetAD
  <2> DEFINE d == [c EXCEPT !.state = s, !.adSet = TRUE]
  <2>2. /\ SetAD(c, ad).a = d /\ SetAD(c, ad).ret = "ok"
        /\ DOMAIN d = DOMAIN c /\ d.adSet = TRUE /\ d.iv = c.iv /\ d.key = c.key
        /\ d.op = c.op /\ d.lastBlkSz = c.lastBlkSz
        /\ d.keySet = c.keySet /\ d.nonceSet = c.nonceSet
    BY <2>1 DEF Ok, WellFormed, Fields, ZeroCtx
  <2> HIDE DEF d
  <2> QED BY <1>2, <2>2 DEF Respects, WellFormed, SameUse, Codes
<1> QED BY <1>1, <1>2 DEF WellFormed

\* So do both updates, also when they refuse.
LEMMA DataUpdateRespects ==
  ASSUME NEW c, WellFormed(c), NEW dir \in {ENCRYPT, DECRYPT},
         NEW Duplex(_, _, _), NEW x \in Chunks
  PROVE  Respects(c, DataUpdate(c, dir, Duplex, x))
<1> DEFINE r == Stream(Duplex, c.state, c.lastBlkSz, AeadRate, PB, x)
<1>1. CASE ~Ready(c) \/ ~OpAllows(c, dir)
  BY <1>1, FailRespects DEF DataUpdate, Codes
<1>2. CASE Ready(c) /\ OpAllows(c, dir)
  <2>1. r.lastBlkSz \in 0 .. AeadRate - 1
    BY StreamCounter, AeadRateType, DataAssumption DEF WellFormed
  <2> DEFINE u == DataUpdate(c, dir, Duplex, x)
             d == u.a
  <2>2. PICK s, n, o :
          /\ n \in 0 .. AeadRate - 1
          /\ u = [a |-> [c EXCEPT !.op = dir, !.state = s, !.lastBlkSz = n],
                  ret |-> "ok", out |-> o]
    <3>1. u = [a |-> [c EXCEPT !.op = dir, !.state = r.state,
                               !.lastBlkSz = r.lastBlkSz],
               ret |-> "ok", out |-> r.out]
      BY <1>2 DEF DataUpdate
    <3> HIDE DEF u, r
    <3> QED BY <2>1, <3>1
  <2> HIDE DEF u
  <2>3. DOMAIN d = DOMAIN c /\ d.lastBlkSz = n /\ d.op = dir
    BY <2>2 DEF WellFormed, Fields, ZeroCtx
  <2>4. /\ d.adSet = c.adSet /\ d.keySet = c.keySet /\ d.nonceSet = c.nonceSet
        /\ d.iv = c.iv /\ d.key = c.key
        /\ u.ret = "ok"
    BY <2>2 DEF WellFormed, Fields, ZeroCtx
  <2>5. c.keySet /\ c.nonceSet /\ c.adSet /\ (c.op # NOTSET => c.op = dir)
    BY <1>2 DEF Ready, OpAllows
  <2> HIDE DEF d
  <2>6. WellFormed(d)
    BY <2>2, <2>3, <2>4, <2>5 DEF WellFormed, NOTSET, ENCRYPT, DECRYPT
  <2>7. SameUse(c, d)
    BY <2>3, <2>4, <2>5 DEF SameUse
  <2>8. Respects(c, u)
    BY <2>4, <2>6, <2>7 DEF Respects, Codes, d
  <2> QED BY <2>8 DEF u
<1> QED BY <1>1, <1>2

\* Running the final permutations keeps direction and key.
LEMMA FinalisedRespects ==
  ASSUME NEW c, WellFormed(c)
  PROVE  WellFormed(Finalised(c)) /\ SameUse(c, Finalised(c))
<1>1. PICK s : Finalised(c) = [c EXCEPT !.state = s]
  BY DEF Finalised
<1> QED BY <1>1 DEF WellFormed, SameUse, Fields, ZeroCtx

\* So do both finals.
LEMMA FinalRespects ==
  ASSUME NEW c, WellFormed(c), NEW tag
  PROVE  Respects(c, EncryptFinal(c)) /\ Respects(c, DecryptFinal(c, tag))
<1>1. Respects(c, EncryptFinal(c))
  BY FailRespects, FinalisedRespects DEF EncryptFinal, Respects, Codes
<1>2. Respects(c, DecryptFinal(c, tag))
  <2>1. CASE ~Ready(c) \/ c.op # DECRYPT
    BY <2>1, FailRespects DEF DecryptFinal, Codes
  <2>2. CASE Ready(c) /\ c.op = DECRYPT
    BY <2>2, FinalisedRespects DEF DecryptFinal, Respects, Codes, Ok, Fail
  <2> QED BY <2>1, <2>2
<1> QED BY <1>1, <1>2

\* The record-number mask changes no context.
LEMMA MaskRespects ==
  ASSUME NEW c, WellFormed(c), NEW sample
  PROVE  Respects(c, Mask(c, sample))
BY FailRespects DEF Mask, Respects, Codes, WellFormed, SameUse

----------------------------------------------------------------------------
(***************************************************************************)
(* Every step keeps the context well formed; while it lives it either      *)
(* respects the session in progress or wipes the key.                      *)
(***************************************************************************)
Context == a = NULL \/ WellFormed(a)

StepKinds ==
  \/ a = NULL \/ a' = NULL
  \/ SameUse(a, a')
  \/ a' = ZeroCtx
  \/ a'.iv = a.iv /\ a'.op = NOTSET /\ ~a'.keySet
  \/ a' = [a EXCEPT !.iv = a'.iv]

\* A call that leaves what a function returns keeps the context invariant.
LEMMA CallStep ==
  ASSUME Context, NEW r, Call(r), a # NULL => Respects(a, r)
  PROVE  Context' /\ ret' \in Codes /\ SameUse(a, a')
BY DEF Call, Respects, Context

\* Every step keeps the context invariant, and is of a kind the action
\* properties allow.
LEMMA ContextStep ==
  ASSUME Context, ret \in Codes, [Next]_vars
  PROVE  Context' /\ ret' \in Codes /\ StepKinds
<1>1. CASE New
  <2>1. CASE UNCHANGED <<a, sess>>
    BY <1>1, <2>1 DEF New, Context, StepKinds, Codes
  <2>2. CASE \E iv \in Ivs : a' = InitAead([ZeroCtx EXCEPT !.iv = iv]).a
    BY <1>1, <2>2, InitAeadResets DEF New, Context, StepKinds, Codes
  <2> QED BY <1>1, <2>1, <2>2 DEF New
<1>2. CASE Free
  BY <1>2 DEF Free, Context, StepKinds, Codes
<1>3. CASE CallInit
  <2>1. a # NULL /\ a' = InitAead(a).a /\ ret' = "ok"
    BY <1>3 DEF CallInit, Call, InitAead, Ok
  <2> QED BY <2>1, InitAeadResets DEF Context, StepKinds, Codes
<1>4. CASE CallClear
  BY <1>4, ZeroCtxWellFormed DEF CallClear, Call, Ok, Context, StepKinds, Codes
<1>5. ASSUME NEW iv \in Ivs, StoreIv(iv)
      PROVE  Context' /\ ret' \in Codes /\ StepKinds
  <2>1. a # NULL /\ a' = [a EXCEPT !.iv = iv] /\ ret' = "ok"
    BY <1>5 DEF StoreIv, Call, Ok
  <2>2. WellFormed(a)
    BY <2>1 DEF Context
  <2>3. WellFormed(a') /\ a'.iv = iv
    BY <2>1, <2>2 DEF WellFormed, Fields, ZeroCtx
  <2> QED BY <2>1, <2>3 DEF Context, StepKinds, Codes
<1>6. ASSUME NEW key \in Keys, CallSetKey(key)
      PROVE  Context' /\ ret' \in Codes /\ StepKinds
  BY <1>6, SetKeyRespects, CallStep DEF CallSetKey, Context, StepKinds
<1>7. ASSUME NEW nonce \in Nonces, CallSetNonce(nonce)
      PROVE  Context' /\ ret' \in Codes /\ StepKinds
  BY <1>7, SetNonceRespects, CallStep DEF CallSetNonce, Context, StepKinds
<1>8. ASSUME NEW ad \in Ads, CallSetAD(ad)
      PROVE  Context' /\ ret' \in Codes /\ StepKinds
  BY <1>8, SetADRespects, CallStep DEF CallSetAD, Context, StepKinds
<1>9. ASSUME NEW x \in Chunks, CallEncryptUpdate(x) \/ CallDecryptUpdate(x)
      PROVE  Context' /\ ret' \in Codes /\ StepKinds
  <2>1. a # NULL => Respects(a, EncryptUpdate(a, x))
    BY DataUpdateRespects DEF EncryptUpdate, Context
  <2>2. a # NULL => Respects(a, DecryptUpdate(a, x))
    BY DataUpdateRespects DEF DecryptUpdate, Context
  <2> QED
    BY <1>9, <2>1, <2>2, CallStep
    DEF CallEncryptUpdate, CallDecryptUpdate, Feed, StepKinds
<1>10. CASE CallEncryptFinal
  BY <1>10, FinalRespects, CallStep DEF CallEncryptFinal, Finish, Context, StepKinds
<1>11. CASE CallDecryptFinal
  BY <1>11, FinalRespects, CallStep DEF CallDecryptFinal, Finish, Context, StepKinds
<1>12. ASSUME NEW sample \in Nonces, CallMask(sample)
       PROVE  Context' /\ ret' \in Codes /\ StepKinds
  BY <1>12, MaskRespects, CallStep DEF CallMask, Context, StepKinds
<1>13. CASE NullArgument
  BY <1>13 DEF NullArgument, Context, StepKinds, SameUse, WellFormed, Codes
<1>14. CASE UNCHANGED vars
  BY <1>14 DEF vars, Context, StepKinds, SameUse, WellFormed
<1> QED
  BY <1>1, <1>2, <1>3, <1>4, <1>5, <1>6, <1>7, <1>8, <1>9, <1>10, <1>11, <1>12,
     <1>13, <1>14 DEF Next

\* The API guards keep every context consistent under every order of calls, and
\* its block counter below the rate for every lane size and chunking.
THEOREM AeadTypeCorrect == Spec => []TypeOK
<1> DEFINE I == Context /\ ret \in Codes
<1>1. Init => I
  BY DEF Init, Context, Codes
<1>2. I /\ [Next]_vars => I'
  BY ContextStep
<1>3. I => TypeOK
  BY DEF Context, WellFormed, TypeOK, CtxInv
<1> QED BY <1>1, <1>2, <1>3, PTL DEF Spec

\* Direction, key and nonce stay fixed while data flows.
THEOREM AeadSessionFixed == Spec => SessionFixed
<1> DEFINE I == Context /\ ret \in Codes
           Fixed == a # NULL /\ a' # NULL /\ a.op # NOTSET =>
                      \/ a'.op = a.op /\ a'.key = a.key /\ a'.nonceSet
                      \/ a'.op = NOTSET /\ ~a'.keySet
<1>1. Init => I
  BY DEF Init, Context, Codes
<1>2. I /\ [Next]_vars => I'
  BY ContextStep
<1>3. I /\ [Next]_vars => [Fixed]_vars
  <2> SUFFICES ASSUME I, [Next]_vars, a # NULL, a' # NULL, a.op # NOTSET
               PROVE  \/ a'.op = a.op /\ a'.key = a.key /\ a'.nonceSet
                      \/ a'.op = NOTSET /\ ~a'.keySet
    OBVIOUS
  <2>1. StepKinds /\ WellFormed(a)
    BY ContextStep DEF Context
  <2>2. CASE a' = [a EXCEPT !.iv = a'.iv]
    BY <2>1, <2>2 DEF WellFormed, Fields, ZeroCtx
  <2>3. CASE a' = ZeroCtx
    BY <2>3 DEF ZeroCtx
  <2> QED BY <2>1, <2>2, <2>3 DEF StepKinds, SameUse
<1> QED BY <1>1, <1>2, <1>3, PTL DEF Spec, SessionFixed

\* The per-epoch IV outlives every reset but Clear.
THEOREM AeadIvSurvives == Spec => IvSurvives
<1> DEFINE I == Context /\ ret \in Codes
           Kept == a # NULL /\ a' # NULL /\ a'.iv # a.iv =>
                     a' = ZeroCtx \/ a' = [a EXCEPT !.iv = a'.iv]
<1>1. Init => I
  BY DEF Init, Context, Codes
<1>2. I /\ [Next]_vars => I'
  BY ContextStep
<1>3. I /\ [Next]_vars => [Kept]_vars
  BY ContextStep DEF StepKinds, SameUse
<1> QED BY <1>1, <1>2, <1>3, PTL DEF Spec, IvSurvives

----------------------------------------------------------------------------
----------------------------------------------------------------------------
(***************************************************************************)
(* The state SetKey and SetNonce build, in either order, is the one-shot's *)
(* initial state.                                                          *)
(***************************************************************************)
LEMMA KeySized ==
  ASSUME NEW k \in Keys \cup Nonces
  PROVE  KeySize(k)
BY KeyAssumption, StrOf DEF KeySize

\* A constant of n named bytes is a string of that length.
LEMMA NamedIs ==
  ASSUME NEW name, NEW n \in Nat
  PROVE  Str(Named(name, n)) /\ Len(Named(name, n)) = n
<1>1. PICK f : f = Named(name, n)
  OBVIOUS
<1>2. f = [i \in 1 .. n |-> f[i]]
  BY <1>1 DEF Named
<1> QED BY <1>1, <1>2, StrMake

\* SetKey before SetNonce fills the state as SetNonce before SetKey.
LEMMA CopiesCommute ==
  ASSUME NEW s, IsState(s), NEW k, NEW n, KeySize(k), KeySize(n)
  PROVE  CopyAt(CopyAt(s, Lane(1), k), Lane(3), n) = CopyAt(CopyAt(s, Lane(3), n), Lane(1), k)
<1>1. PICK t, u : t = CopyAt(s, Lane(1), k) /\ u = CopyAt(s, Lane(3), n)
  OBVIOUS
<1>2. PICK v, w : v = CopyAt(t, Lane(3), n) /\ w = CopyAt(u, Lane(1), k)
  OBVIOUS
<1>3. /\ IsState(t) /\ t.base = s.base
      /\ \A i \in Cells : t.delta[i] =
           IF i \in Lane(1) .. Lane(1) + Len(k) - 1
             THEN SymDiff(Fresh(s.base, i), k[i - Lane(1) + 1]) ELSE s.delta[i]
  BY <1>1, CopyAtIs
<1>4. /\ IsState(u) /\ u.base = s.base
      /\ \A i \in Cells : u.delta[i] =
           IF i \in Lane(3) .. Lane(3) + Len(n) - 1
             THEN SymDiff(Fresh(s.base, i), n[i - Lane(3) + 1]) ELSE s.delta[i]
  BY <1>1, CopyAtIs
<1>5. /\ IsState(v) /\ v.base = t.base
      /\ \A i \in Cells : v.delta[i] =
           IF i \in Lane(3) .. Lane(3) + Len(n) - 1
             THEN SymDiff(Fresh(t.base, i), n[i - Lane(3) + 1]) ELSE t.delta[i]
  BY <1>2, <1>3, CopyAtIs
<1>6. /\ IsState(w) /\ w.base = u.base
      /\ \A i \in Cells : w.delta[i] =
           IF i \in Lane(1) .. Lane(1) + Len(k) - 1
             THEN SymDiff(Fresh(u.base, i), k[i - Lane(1) + 1]) ELSE u.delta[i]
  BY <1>2, <1>4, CopyAtIs
<1>7. ASSUME NEW i \in Cells
      PROVE  ~(i \in Lane(1) .. Lane(1) + Len(k) - 1 /\ i \in Lane(3) .. Lane(3) + Len(n) - 1)
  BY Layout DEF KeySize
<1>8. \A i \in Cells : v.delta[i] = w.delta[i]
  BY <1>3, <1>4, <1>5, <1>6, <1>7
<1>9. v = w
  BY <1>3, <1>4, <1>5, <1>6, <1>8, StateEqual
<1> QED BY <1>1, <1>2, <1>9

----------------------------------------------------------------------------
\* On bytes that are still zero, copying is xoring.
LEMMA CopyIsXor ==
  ASSUME NEW s, IsState(s), s.base = <<>>, NEW off, NEW x,
         \A i \in Cells : i \in off .. off + Len(x) - 1 => s.delta[i] = Zero
  PROVE  CopyAt(s, off, x) = XorAt(s, off, x)
<1>1. PICK t, u : t = CopyAt(s, off, x) /\ u = XorAt(s, off, x)
  OBVIOUS
<1>2. /\ IsState(t) /\ t.base = s.base
      /\ \A i \in Cells : t.delta[i] =
           IF i \in off .. off + Len(x) - 1
             THEN SymDiff(Fresh(s.base, i), x[i - off + 1]) ELSE s.delta[i]
  BY <1>1, CopyAtIs
<1>3. /\ IsState(u) /\ u.base = s.base
      /\ \A i \in Cells : u.delta[i] =
           IF i \in off .. off + Len(x) - 1
             THEN SymDiff(s.delta[i], x[i - off + 1]) ELSE s.delta[i]
  BY <1>1, XorAtIs
<1>4. \A i : Fresh(s.base, i) = Zero
  BY DEF Fresh
<1>5. \A i \in Cells : t.delta[i] = u.delta[i]
  BY <1>2, <1>3, <1>4
<1>6. t = u
  BY <1>2, <1>3, <1>5, StateEqual
<1> QED BY <1>1, <1>6

\* Every byte of the state from cell n on is still zero.
Blank(s, n) == /\ IsState(s) /\ s.base = <<>>
               /\ \A i \in Cells : i >= n => s.delta[i] = Zero

\* Where a state is still zero, copying is xoring.
LEMMA BlankCopy ==
  ASSUME NEW s, NEW off \in Nat, Blank(s, off), NEW x, Str(x)
  PROVE  /\ CopyAt(s, off, x) = XorAt(s, off, x)
         /\ Blank(XorAt(s, off, x), off + Len(x))
<1>1. \A i \in Cells : i \in off .. off + Len(x) - 1 => s.delta[i] = Zero
  BY DEF Blank, Str
<1>2. CopyAt(s, off, x) = XorAt(s, off, x)
  BY <1>1, CopyIsXor DEF Blank
<1>3. PICK u : u = XorAt(s, off, x)
  OBVIOUS
<1>4. /\ IsState(u) /\ u.base = s.base
      /\ \A i \in Cells : u.delta[i] =
           IF i \in off .. off + Len(x) - 1
             THEN SymDiff(s.delta[i], x[i - off + 1]) ELSE s.delta[i]
  BY <1>3, XorAtIs DEF Blank
<1>5. ASSUME NEW i \in Cells, i >= off + Len(x)
      PROVE  u.delta[i] = Zero
  <2>1. Len(x) \in Nat /\ i \in Int
    BY DEF Str, Cells
  <2>2. i >= off /\ ~(i \in off .. off + Len(x) - 1)
    BY <1>5, <2>1
  <2> QED BY <1>4, <2>2 DEF Blank
<1>6. Blank(u, off + Len(x))
  BY <1>4, <1>5 DEF Blank
<1> QED BY <1>2, <1>3, <1>6

\* A fresh context's state is zero.
LEMMA ZeroIsBlank == Blank(ZeroState, 0)
BY ZeroIsState DEF Blank, ZeroState

\* The state Init, SetKey and SetNonce build is the one-shot's first state.
LEMMA CopiesAreFirst ==
  ASSUME NEW k, NEW n, KeySize(k), KeySize(n)
  PROVE  CopyAt(CopyAt(XorAt(ZeroState, 0, AEAD128_IV), Lane(1), k), Lane(3), n)
           = XorAt(ZeroState, 0, AEAD128_IV \o k \o n)
<1>1. PICK iv, z : iv = AEAD128_IV /\ z = ZeroState
  OBVIOUS
<1>2. Str(iv) /\ Len(iv) = LaneSz /\ IsState(z) /\ Blank(z, 0)
      /\ Str(k) /\ Str(n) /\ Len(k) = 2 * LaneSz
  BY <1>1, NamedIs, Layout, ZeroIsState, ZeroIsBlank DEF AEAD128_IV, KeySize
<1>3. PICK zero \in Nat, one \in Nat, three \in Nat :
        zero = 0 /\ one = Lane(1) /\ three = Lane(3)
  BY Layout
<1>4. PICK ivk : ivk = iv \o k
  OBVIOUS
<1>5. Str(ivk) /\ Len(ivk) = LaneSz + 2 * LaneSz
  BY <1>2, <1>4, StrConcat
<1>6. zero + Len(iv) = one /\ one + Len(k) = three /\ zero + Len(ivk) = three
  BY <1>2, <1>3, <1>5, Layout
<1>7. PICK s : s = XorAt(z, zero, iv)
  OBVIOUS
<1>8. Blank(s, one)
  <2>1. Blank(z, zero)
    BY <1>2, <1>3
  <2>2. Blank(s, zero + Len(iv))
    BY <1>2, <1>7, <2>1, BlankCopy
  <2> QED BY <1>6, <2>2
<1>9. PICK t : t = XorAt(s, one, k)
  OBVIOUS
<1>10. CopyAt(s, one, k) = t /\ Blank(t, three)
  <2>1. Blank(t, one + Len(k)) /\ CopyAt(s, one, k) = t
    BY <1>2, <1>8, <1>9, BlankCopy
  <2> QED BY <1>6, <2>1
<1>11. CopyAt(t, three, n) = XorAt(t, three, n)
  BY <1>2, <1>10, BlankCopy
<1>a. Str(iv) /\ Str(k) /\ Str(n) /\ Str(ivk) /\ IsState(z)
  BY <1>2, <1>5
<1>12. t = XorAt(z, zero, ivk)
  <2>1. XorAt(XorAt(z, zero, iv), zero + Len(iv), k) = XorAt(z, zero, iv \o k)
    BY <1>a, XorSplits
  <2> QED BY <1>4, <1>6, <1>7, <1>9, <2>1
<1>13. XorAt(t, three, n) = XorAt(z, zero, ivk \o n)
  <2>1. XorAt(XorAt(z, zero, ivk), zero + Len(ivk), n) = XorAt(z, zero, ivk \o n)
    BY <1>a, XorSplits
  <2> QED BY <1>6, <1>12, <2>1
<1> QED BY <1>1, <1>3, <1>4, <1>7, <1>10, <1>11, <1>13

----------------------------------------------------------------------------
\* The first byte put out is the first byte of the state xored onto the first
\* byte in.
FirstByte(s, rate, rounds, x) ==
  LET out == EncStream(s, 0, rate, rounds, x).out
  IN  Len(out) = Len(x) /\ out[1] = SymDiff(Byte(s, 0), x[1])

\* The first byte an encrypting Update puts out is the first byte of the state
\* xored with the data.
LEMMA StreamFirst ==
  ASSUME NEW s, IsState(s), NEW rate, RateOk(rate), 1 < rate, NEW rounds,
         NEW x, Str(x), Len(x) # 0
  PROVE  FirstByte(s, rate, rounds, x)
<1>1. PICK n \in Nat : Len(x) = 1 + n
  <2>1. Len(x) \in Nat /\ Len(x) - 1 \in Nat /\ Len(x) = 1 + (Len(x) - 1)
    BY DEF Str
  <2> QED BY <2>1
<1>2. PICK y, z : y = Piece(x, 0, 1) /\ z = Piece(x, 1, n)
  OBVIOUS
<1>3. x = y \o z /\ Str(y) /\ Str(z) /\ Len(y) = 1 /\ y[1] = x[1]
  <2>1. PICK one \in Nat, zero \in Nat : one = 1 /\ zero = 0
    OBVIOUS
  <2>2. x = Piece(x, 0, one) \o Piece(x, one, n)
    BY <1>1, <2>1, StrCut
  <2>3. y = Piece(x, zero, one) /\ z = Piece(x, one, n)
    BY <1>2, <2>1
  <2>4. Str(y) /\ Len(y) = one /\ \A i \in 1 .. one : y[i] = x[zero + i]
    BY <2>3, StrSub
  <2>5. Str(z)
    BY <2>3, StrSub
  <2> QED BY <1>2, <2>1, <2>2, <2>4, <2>5
<1>4. PICK u : u = EncStream(s, 0, rate, rounds, y)
  OBVIOUS
<1>5. PICK v : v = EncStream(u.state, u.lastBlkSz, rate, rounds, z)
  OBVIOUS
<1>6. PICK w : w = EncStream(s, 0, rate, rounds, x)
  OBVIOUS
<1>7. w = [state |-> v.state, lastBlkSz |-> v.lastBlkSz, out |-> u.out \o v.out]
  <2>1. TwoAreOne(s, rate, rounds, y, z)
    BY <1>3, StreamConcat
  <2> QED BY <1>3, <1>4, <1>5, <1>6, <2>1 DEF TwoAreOne
<1>8. w.out = u.out \o v.out
  BY <1>7
<1>9. Streamed(u, Len(y), rate) /\ Streamed(v, Len(z), rate)
  <2>1. Streamed(u, Len(y), rate)
    BY <1>3, <1>4, StreamFresh
  <2> QED BY <1>3, <1>5, <2>1, StreamIs DEF Streamed
<1>10. Streamed(w, Len(x), rate)
  BY <1>6, StreamFresh
<1>11. w.out[1] = u.out[1]
  <2>1. PICK o, p : o = u.out /\ p = v.out
    OBVIOUS
  <2>2. Str(o) /\ Str(p) /\ Len(o) = 1
    BY <1>3, <1>9, <2>1 DEF Streamed
  <2>3. \A i \in 1 .. Len(o) : (o \o p)[i] = o[i]
    BY <2>2, StrConcat
  <2>4. (o \o p)[1] = o[1]
    BY <2>2, <2>3
  <2> QED BY <1>8, <2>1, <2>4
<1>12. PICK d : d = Encrypting(s, 0, y)
  OBVIOUS
<1>13. u.out = d.out
  <2>1. PICK q \in Nat, empty \in {<<>>} : q = 0
    OBVIOUS
  <2>2. Parts(y, q, empty, y, rate)
    <3>1. empty = <<>> /\ Str(empty) /\ empty \o y = y /\ Len(empty) = 0
      BY <1>3, StrEmpty, StrNeutral
    <3>2. Exactly(empty, q, rate) /\ Len(y) \in 0 .. rate - 1
      BY <1>3, <2>1, <3>1 DEF RateOk, Exactly
    <3> QED BY <1>3, <3>1, <3>2 DEF Parts
  <2>3. GivenParts(s, rate, rounds, y, q, empty, y)
    BY <2>2, StreamParts
  <2>4. PICK b : b = EncBlocks(s, rate, rounds, empty, q)
    OBVIOUS
  <2>5. b = [state |-> s, out |-> <<>>]
    BY <2>1, <2>4, EncBlocksNone
  <2>6. b.state = s /\ b.out = <<>>
    BY <2>5
  <2>7. u = [state |-> d.state, lastBlkSz |-> Len(y), out |-> <<>> \o d.out] /\ Str(d.out)
    BY <1>4, <1>12, <2>3, <2>4, <2>6 DEF GivenParts
  <2>8. PICK o : o = d.out
    OBVIOUS
  <2>9. <<>> \o o = o
    BY <2>7, <2>8, StrNeutral
  <2>10. u.out = <<>> \o o
    BY <2>7, <2>8
  <2> QED BY <2>8, <2>9, <2>10
<1>14. d.out[1] = SymDiff(Byte(s, 0), y[1])
  <2>1. Fits(0, Len(y))
    <3>1. PICK j \in Nat, i \in Nat : j = Len(y) /\ i = 0 /\ i + j <= rate
      BY <1>3 DEF RateOk
    <3>2. Fits(i, j)
      BY <3>1, RateFits
    <3> QED BY <3>1, <3>2
  <2>2. Encrypted(s, 0, y, d)
    BY <1>3, <1>12, <2>1, EncryptingIs
  <2>3. \A i \in 1 .. Len(y) : d.out[i] = SymDiff(Byte(s, 0 + i - 1), y[i])
    BY <2>2 DEF Encrypted
  <2>4. 1 \in 1 .. Len(y) /\ 0 + 1 - 1 = 0
    BY <1>3
  <2> QED BY <2>3, <2>4
<1> QED BY <1>3, <1>6, <1>10, <1>11, <1>13, <1>14 DEF FirstByte, Streamed

----------------------------------------------------------------------------
\* Final computes the one-shot's tag.
LEMMA FinalTag ==
  ASSUME NEW c, DOMAIN c = Fields, KeySize(c.key)
  PROVE  Tag(Finalised(c)) = TagOf(XorAt(c.state, c.lastBlkSz, <<One>>), c.key)
<1>1. PICK k, p, t : /\ k = c.key /\ p = XorAt(c.state, c.lastBlkSz, <<One>>)
                     /\ t = XorAt(Permutation(XorAt(p, Lane(2), k), PA), Lane(3), k)
  OBVIOUS
<1>2. Finalised(c).state = t
  BY <1>1 DEF Finalised, Fields, ZeroCtx
<1>3. Bytes(t, Lane(3), 2 * LaneSz) = TagOf(p, k)
  BY <1>1, TagIs
<1> QED BY <1>1, <1>2, <1>3 DEF Tag

----------------------------------------------------------------------------
\* The first byte of a state whose last permutation was base, with nothing
\* xored onto its first cell since.
Untouched(s, base) == IsState(s) /\ s.base = base /\ s.delta[0] = Zero

\* The first byte of a state nothing was xored into since a permutation.
LEMMA UntouchedByte ==
  ASSUME NEW s, NEW base, Untouched(s, base), base # <<>>
  PROVE  Byte(s, 0) = {<<base, 0>>}
BY DEF Untouched, Byte, Fresh, SymDiff, Zero

\* A state just permuted is untouched.
LEMMA PermutedUntouched ==
  ASSUME NEW s, NEW rounds
  PROVE  Untouched(Permutation(s, rounds), <<rounds, s>>)
BY PermutationIsState, Layout DEF Untouched, Permutation

\* Xoring behind the first byte leaves it untouched.
LEMMA XorLeavesFirst ==
  ASSUME NEW s, NEW base, Untouched(s, base), NEW off \in Nat \ {0}, NEW x
  PROVE  Untouched(XorAt(s, off, x), base)
<1>1. IsState(s) /\ 0 \in Cells
  BY Layout DEF Untouched
<1>2. PICK t : t = XorAt(s, off, x)
  OBVIOUS
<1>3. /\ IsState(t) /\ t.base = s.base
      /\ \A i \in Cells : t.delta[i] =
           IF i \in off .. off + Len(x) - 1 THEN SymDiff(s.delta[i], x[i - off + 1])
                                            ELSE s.delta[i]
  BY <1>1, <1>2, XorAtIs
<1>4. ~(0 \in off .. off + Len(x) - 1)
  OBVIOUS
<1>5. t.delta[0] = s.delta[0]
  BY <1>1, <1>3, <1>4
<1> QED BY <1>2, <1>3, <1>5 DEF Untouched

\* The first state of a one-shot encryption and of a mask differ: so do the
\* permutations of them.
FirstState(iv, key, nonce) == XorAt(ZeroState, 0, iv \o key \o nonce)

\* The first byte of the initial state comes from the IV or domain separator.
LEMMA FirstStateByte ==
  ASSUME NEW iv, NEW key, NEW nonce, Str(iv), Len(iv) = LaneSz, Str(key), Str(nonce)
  PROVE  FirstState(iv, key, nonce).delta[0] = SymDiff(Zero, iv[1])
<1>1. PICK z, x : z = ZeroState /\ x = iv \o key
  OBVIOUS
<1>2. PICK y : y = x \o nonce
  OBVIOUS
<1>3. Str(x) /\ Len(x) = Len(iv) + Len(key) /\ x[1] = iv[1]
  <2>1. Str(x) /\ Len(x) = Len(iv) + Len(key) /\ \A i \in 1 .. Len(iv) : x[i] = iv[i]
    BY <1>1, StrConcat
  <2>2. 1 \in 1 .. Len(iv)
    BY Layout
  <2> QED BY <2>1, <2>2
<1>4. Len(x) \in Nat /\ 0 < Len(x)
  BY <1>3, Layout DEF Str
<1>5. Str(y) /\ Len(y) = Len(x) + Len(nonce) /\ y[1] = x[1]
  <2>1. Str(y) /\ Len(y) = Len(x) + Len(nonce) /\ \A i \in 1 .. Len(x) : y[i] = x[i]
    BY <1>2, <1>3, StrConcat
  <2>2. 1 \in 1 .. Len(x)
    BY <1>4
  <2> QED BY <2>1, <2>2
<1>6. Len(y) \in Nat /\ 0 < Len(y)
  BY <1>4, <1>5 DEF Str
<1>7. PICK t : t = XorAt(z, 0, y)
  OBVIOUS
<1>8. \A i \in Cells : t.delta[i] =
        IF i \in 0 .. 0 + Len(y) - 1 THEN SymDiff(z.delta[i], y[i - 0 + 1])
                                     ELSE z.delta[i]
  BY <1>1, <1>7, ZeroIsState, XorAtIs
<1>9. 0 \in Cells /\ 0 \in 0 .. 0 + Len(y) - 1 /\ 0 - 0 + 1 = 1
  BY <1>6, Layout
<1>10. t.delta[0] = SymDiff(z.delta[0], y[1])
  BY <1>8, <1>9
<1>11. z.delta[0] = Zero
  BY <1>1, Layout DEF ZeroState
<1> QED BY <1>1, <1>2, <1>3, <1>5, <1>7, <1>10, <1>11 DEF FirstState

\* The initial states of a record and of a mask differ: the first word of the
\* mask's is its domain separator.
LEMMA FirstStatesDiffer ==
  ASSUME NEW key, NEW nonce, NEW key2, NEW sample,
         Str(key), Str(nonce), Str(key2), Str(sample)
  PROVE  FirstState(AEAD128_IV, key, nonce) # FirstState(MASK_DOMSEP, key2, sample)
<1>1. PICK iv, sep : iv = AEAD128_IV /\ sep = MASK_DOMSEP
  OBVIOUS
<1>2. Str(iv) /\ Str(sep) /\ Len(iv) = LaneSz /\ Len(sep) = LaneSz
  BY <1>1, NamedIs, Layout DEF AEAD128_IV, MASK_DOMSEP
<1>3. iv[1] = {<<"byte", "AEAD128_IV", 1>>} /\ sep[1] = {<<"byte", "RNDIMSK_", 1>>}
  BY <1>1, Layout DEF AEAD128_IV, MASK_DOMSEP, Named
<1>4. \A x, y : SymDiff(Zero, {x}) = SymDiff(Zero, {y}) => x = y
  BY DEF SymDiff, Zero
<1>5. <<"byte", "AEAD128_IV", 1>> # <<"byte", "RNDIMSK_", 1>>
  OBVIOUS
<1>6. SymDiff(Zero, iv[1]) # SymDiff(Zero, sep[1])
  BY <1>3, <1>4, <1>5
<1>7. /\ FirstState(iv, key, nonce).delta[0] = SymDiff(Zero, iv[1])
      /\ FirstState(sep, key2, sample).delta[0] = SymDiff(Zero, sep[1])
  BY <1>2, FirstStateByte
<1> QED BY <1>1, <1>6, <1>7

\* The first byte of a mask is the first of the permuted initial state.
LEMMA MaskFirst ==
  ASSUME NEW key, NEW sample
  PROVE  MaskPrf(key, sample)[1] = {<<<<PA, FirstState(MASK_DOMSEP, key, sample)>>, 0>>}
<1>1. PICK m : m = FirstState(MASK_DOMSEP, key, sample)
  OBVIOUS
<1>2. PICK p : p = Permutation(m, PA)
  OBVIOUS
<1>3. Byte(p, 0) = {<<<<PA, m>>, 0>>}
  BY <1>2, PermutedUntouched, UntouchedByte
<1>4. MaskPrf(key, sample) = Bytes(p, 0, 2 * LaneSz)
  BY <1>1, <1>2 DEF MaskPrf, FirstState
<1>5. Bytes(p, 0, 2 * LaneSz)[1] = Byte(p, 0)
  <2>1. 1 \in 1 .. 2 * LaneSz /\ 0 + 1 - 1 = 0
    BY Layout
  <2> QED BY <2>1 DEF Bytes
<1> QED BY <1>1, <1>3, <1>4, <1>5

FirstFrom(b, f) == b = {<<<<PA, f>>, 0>>} \/ \E s : b = {<<<<PB, s>>, 0>>}

\* The first keystream byte of a record depends on the record's initial state.
LEMMA DataStartFirst ==
  ASSUME NEW key, NEW nonce, NEW ad
  PROVE  FirstFrom(Byte(DataStart(key, nonce, ad), 0), FirstState(AEAD128_IV, key, nonce))
<1>1. PICK f : f = FirstState(AEAD128_IV, key, nonce)
  OBVIOUS
<1>2. PICK k : k = KeyedState(key, nonce)
  OBVIOUS
<1>3. Lane(3) \in Nat \ {0} /\ Lane(Lanes) - 1 \in Nat \ {0}
  BY Layout
<1>4. Untouched(k, <<PA, f>>)
  <2>1. k = XorAt(Permutation(f, PA), Lane(3), key)
    BY <1>1, <1>2 DEF KeyedState, FirstState
  <2> QED BY <1>3, <2>1, PermutedUntouched, XorLeavesFirst
<1>5. PICK t : t = IF ad = <<>> THEN k
                   ELSE Permutation(AbsorbPadded(k, AeadRate, PB, ad), PB)
  OBVIOUS
<1>6. PICK d : d = DataStart(key, nonce, ad)
  OBVIOUS
<1>7. d = XorAt(t, Lane(Lanes) - 1, <<TopBit>>)
  BY <1>2, <1>5, <1>6 DEF DataStart, AfterAd
<1>8. CASE ad = <<>>
  <2>1. Untouched(d, <<PA, f>>)
    BY <1>3, <1>4, <1>5, <1>7, <1>8, XorLeavesFirst
  <2>2. Byte(d, 0) = {<<<<PA, f>>, 0>>}
    BY <2>1, UntouchedByte
  <2> QED BY <1>1, <1>6, <2>2 DEF FirstFrom
<1>9. CASE ad # <<>>
  <2>1. PICK s : s = AbsorbPadded(k, AeadRate, PB, ad)
    OBVIOUS
  <2>2. t = Permutation(s, PB)
    BY <1>5, <1>9, <2>1
  <2>3. Untouched(d, <<PB, s>>)
    BY <1>3, <1>7, <2>2, PermutedUntouched, XorLeavesFirst
  <2>4. Byte(d, 0) = {<<<<PB, s>>, 0>>}
    BY <2>3, UntouchedByte
  <2> QED BY <1>6, <2>4 DEF FirstFrom
<1> QED BY <1>8, <1>9

\* No mask starts with the first keystream byte of a session.
LEMMA MaskIsApart ==
  ASSUME NEW key, NEW nonce, NEW ad, NEW key2, NEW sample,
         Str(key), Str(nonce), Str(key2), Str(sample)
  PROVE  Byte(DataStart(key, nonce, ad), 0) # MaskPrf(key2, sample)[1]
<1>1. PICK m, f, d, b : /\ m = FirstState(MASK_DOMSEP, key2, sample)
                        /\ f = FirstState(AEAD128_IV, key, nonce)
                        /\ d = DataStart(key, nonce, ad)
                        /\ b = Byte(d, 0)
  OBVIOUS
<1>2. m # f
  BY <1>1, FirstStatesDiffer
<1>3. MaskPrf(key2, sample)[1] = {<<<<PA, m>>, 0>>}
  BY <1>1, MaskFirst
<1>4. b = {<<<<PA, f>>, 0>>} \/ \E s : b = {<<<<PB, s>>, 0>>}
  <2>1. FirstFrom(b, f)
    BY <1>1, DataStartFirst
  <2> QED BY <2>1 DEF FirstFrom
<1>5. \A r, s : {<<<<PA, m>>, 0>>} = {<<<<r, s>>, 0>>} => PA = r /\ m = s
  <2>1. \A x, y : {<<x, 0>>} = {<<y, 0>>} => x = y
    <3> TAKE x, y
    <3> HAVE {<<x, 0>>} = {<<y, 0>>}
    <3>1. <<x, 0>> = <<y, 0>>
      OBVIOUS
    <3> QED BY <3>1
  <2>2. \A r, s : <<PA, m>> = <<r, s>> => PA = r /\ m = s
    OBVIOUS
  <2> QED BY <2>1, <2>2
<1>6. PA # PB
  BY DEF PA, PB
<1> QED BY <1>1, <1>2, <1>3, <1>4, <1>5, <1>6

----------------------------------------------------------------------------
----------------------------------------------------------------------------
(***************************************************************************)
(* What the context holds at each stage of a session, in terms of what the *)
(* caller passed: the invariant behind the session's properties.           *)
(***************************************************************************)
Shape(h) == DOMAIN h = {"nonce", "ads", "fed", "got", "tag", "verdict", "finals", "stage"}

\* The state after Init and the setters called so far.
SetUp(c, nonce) ==
  LET s == XorAt(ZeroState, 0, AEAD128_IV)
      t == IF c.keySet THEN CopyAt(s, Lane(1), c.key) ELSE s
  IN  IF c.nonceSet THEN CopyAt(t, Lane(3), nonce) ELSE t

Opened(c, h) ==
  /\ h.ads = <<>> /\ h.fed = <<>> /\ h.got = <<>>
  /\ ~c.adSet
  /\ c.keySet => c.key \in Keys
  /\ c.nonceSet => h.nonce \in Nonces
  /\ c.state = SetUp(c, h.nonce)

Plain(c, h) == IF c.op = DECRYPT THEN h.got ELSE h.fed
Cipher(c, h) == IF c.op = DECRYPT THEN h.fed ELSE h.got

\* The plaintext of the session encrypted in one go.
Whole(c, h) == DataStream(c.key, h.nonce, h.ads[1], Plain(c, h))
OwnTag(c, h) == TagOf(Padded(Whole(c, h)), c.key)

Keyed(c, h) == c.key \in Keys /\ h.nonce \in Nonces /\ Str(h.fed) /\ Str(h.got)

Flowing(c, h) ==
  /\ Keyed(c, h) /\ c.adSet
  /\ c.op = NOTSET => h.fed = <<>> /\ h.got = <<>>
  /\ Whole(c, h) = [state |-> c.state, lastBlkSz |-> c.lastBlkSz, out |-> Cipher(c, h)]

Closed(c, h) ==
  /\ Keyed(c, h) /\ c.op # NOTSET
  /\ Whole(c, h).out = Cipher(c, h)
  /\ c.op = ENCRYPT => h.tag = OwnTag(c, h)
  /\ c.op = DECRYPT => (h.verdict = "ok" <=> h.tag = OwnTag(c, h))

Holds(c, h) ==
  /\ Shape(h)
  /\ h.stage = "open" => Opened(c, h)
  /\ h.stage = "data" => Flowing(c, h)
  /\ h.stage = "ended" => Closed(c, h)

\* Nothing is claimed of a session that left the documented order.
LEMMA MisusedHolds ==
  ASSUME NEW c, NEW h, Shape(h), h.stage = "misused"
  PROVE  Holds(c, h)
BY DEF Holds

\* The history a session starts with.
LEMMA NewShape ==
  ASSUME NEW stage
  PROVE  Shape(NewSession(stage)) /\ NewSession(stage).stage = stage
BY DEF Shape, NewSession

\* What a call that only touches the IV or nothing keeps.
SameData(c, d) == /\ d.key = c.key /\ d.state = c.state /\ d.op = c.op
                  /\ d.lastBlkSz = c.lastBlkSz /\ d.keySet = c.keySet
                  /\ d.nonceSet = c.nonceSet /\ d.adSet = c.adSet

\* What a session holds is about the fields of SameData only.
LEMMA SameDataHolds ==
  ASSUME NEW c, NEW d, NEW h, SameData(c, d), Holds(c, h)
  PROVE  Holds(d, h)
BY DEF SameData, Holds, Opened, SetUp, Flowing, Closed, Keyed, Whole, OwnTag, Plain, Cipher

\* wc_AsconAEAD128_Init starts a session that holds nothing yet.
LEMMA InitHolds ==
  ASSUME NEW c
  PROVE  Holds(InitAead(c).a, NewSession("open"))
<1>1. PICK d, h : d = InitAead(c).a /\ h = NewSession("open")
  OBVIOUS
<1>2. /\ ~d.keySet /\ ~d.nonceSet /\ ~d.adSet
      /\ d.state = XorAt(ZeroState, 0, AEAD128_IV)
  BY <1>1 DEF InitAead, Ok, ZeroCtx
<1>3. Shape(h) /\ h.stage = "open" /\ h.ads = <<>> /\ h.fed = <<>> /\ h.got = <<>>
  BY <1>1, NewShape DEF NewSession
<1>4. Opened(d, h)
  BY <1>2, <1>3 DEF Opened, SetUp
<1> QED BY <1>1, <1>3, <1>4 DEF Holds

\* Setting the key brings the state to that of key and nonce set so far.
LEMMA SetUpKey ==
  ASSUME NEW c, NEW nonce, ~c.keySet, c.state = SetUp(c, nonce),
         c.nonceSet => KeySize(nonce),
         NEW d, d.keySet, d.nonceSet = c.nonceSet, KeySize(d.key),
         d.state = CopyAt(c.state, Lane(1), d.key)
  PROVE  d.state = SetUp(d, nonce)
<1>1. PICK s : s = XorAt(ZeroState, 0, AEAD128_IV)
  OBVIOUS
<1>2. IsState(s)
  BY <1>1, ZeroIsState, XorKeepsState
<1>3. CASE c.nonceSet
  <2>1. c.state = CopyAt(s, Lane(3), nonce)
    BY <1>1, <1>3 DEF SetUp
  <2>2. SetUp(d, nonce) = CopyAt(CopyAt(s, Lane(1), d.key), Lane(3), nonce)
    BY <1>1, <1>3 DEF SetUp
  <2> QED BY <1>2, <1>3, <2>1, <2>2, CopiesCommute
<1>4. CASE ~c.nonceSet
  BY <1>1, <1>4 DEF SetUp
<1> QED BY <1>3, <1>4

\* SetKey keeps what the session holds.
LEMMA SetKeyHolds ==
  ASSUME NEW c, WellFormed(c), NEW h, Holds(c, h), NEW key \in Keys
  PROVE  Holds(SetKey(c, key).a, h)
<1>1. CASE c.keySet
  BY <1>1 DEF SetKey, Fail
<1>2. CASE ~c.keySet
  <2>1. PICK d : d = [c EXCEPT !.key = key, !.state = CopyAt(c.state, Lane(1), key),
                               !.keySet = TRUE]
    OBVIOUS
  <2>2. SetKey(c, key).a = d
    BY <1>2, <2>1 DEF SetKey, Ok
  <2>3. /\ d.key = key /\ d.state = CopyAt(c.state, Lane(1), key) /\ d.keySet
        /\ d.nonceSet = c.nonceSet /\ d.adSet = c.adSet /\ d.op = c.op
    BY <2>1 DEF WellFormed, Fields, ZeroCtx
  <2>4. h.stage # "data" /\ h.stage # "ended"
    BY <1>2 DEF WellFormed, Holds, Flowing, Closed
  <2>5. ASSUME h.stage = "open" PROVE Opened(d, h)
    <3>1. Opened(c, h)
      BY <2>5 DEF Holds
    <3>2. c.nonceSet => KeySize(h.nonce)
      BY <3>1, KeySized DEF Opened
    <3>3. KeySize(key)
      BY KeySized
    <3>4. d.state = SetUp(d, h.nonce)
      BY <1>2, <2>3, <3>1, <3>2, <3>3, SetUpKey DEF Opened
    <3> QED BY <2>3, <3>1, <3>4 DEF Opened
  <2> QED BY <2>2, <2>4, <2>5 DEF Holds
<1> QED BY <1>1, <1>2

\* So does SetNonce, whose nonce becomes the session's.
LEMMA SetNonceHolds ==
  ASSUME NEW c, WellFormed(c), NEW h, Holds(c, h), NEW nonce \in Nonces, NEW g,
         g = IF SetNonce(c, nonce).ret = "ok" THEN [h EXCEPT !.nonce = nonce] ELSE h
  PROVE  Holds(SetNonce(c, nonce).a, g)
<1>1. CASE c.nonceSet
  BY <1>1 DEF SetNonce, Fail, BAD_STATE_E
<1>2. CASE ~c.nonceSet
  <2>1. PICK d : d = [c EXCEPT !.state = CopyAt(c.state, Lane(3), nonce), !.nonceSet = TRUE]
    OBVIOUS
  <2>2. SetNonce(c, nonce).a = d /\ g = [h EXCEPT !.nonce = nonce]
    BY <1>2, <2>1 DEF SetNonce, Ok
  <2>3. /\ d.key = c.key /\ d.state = CopyAt(c.state, Lane(3), nonce) /\ d.keySet = c.keySet
        /\ d.nonceSet /\ d.adSet = c.adSet /\ d.op = c.op
    BY <2>1 DEF WellFormed, Fields, ZeroCtx
  <2>4. /\ Shape(g) /\ g.nonce = nonce /\ g.stage = h.stage
        /\ g.ads = h.ads /\ g.fed = h.fed /\ g.got = h.got
    BY <2>2 DEF Holds, Shape
  <2>5. h.stage # "data" /\ h.stage # "ended"
    BY <1>2 DEF WellFormed, Holds, Flowing, Closed
  <2>6. ASSUME h.stage = "open" PROVE Opened(d, g)
    <3>1. Opened(c, h)
      BY <2>6 DEF Holds
    <3>2. d.state = SetUp(d, g.nonce)
      BY <1>2, <2>3, <2>4, <3>1 DEF SetUp, Opened
    <3> QED BY <2>3, <2>4, <3>1, <3>2 DEF Opened
  <2> QED BY <2>2, <2>4, <2>5, <2>6 DEF Holds
<1> QED BY <1>1, <1>2

----------------------------------------------------------------------------
\* AD accepted: data starts where the one-shot encryption starts.
LEMMA SetADStarts ==
  ASSUME NEW c, WellFormed(c), NEW nonce, c.keySet, c.nonceSet, KeySize(c.key),
         KeySize(nonce), c.state = SetUp(c, nonce), NEW ad
  PROVE  SetAD(c, ad).a.state = DataStart(c.key, nonce, ad)
<1>1. PICK k, n : k = c.key /\ n = nonce
  OBVIOUS
<1>2. c.state = XorAt(ZeroState, 0, AEAD128_IV \o k \o n)
  BY <1>1, CopiesAreFirst DEF SetUp
<1>3. PICK s : s = XorAt(Permutation(c.state, PA), Lane(3), k)
  OBVIOUS
<1>4. s = KeyedState(k, n)
  BY <1>2, <1>3 DEF KeyedState
<1>5. PICK t : t = IF ad = <<>> THEN s
                   ELSE Permutation(AbsorbPadded(s, AeadRate, PB, ad), PB)
  OBVIOUS
<1>6. SetAD(c, ad).a.state = XorAt(t, Lane(Lanes) - 1, <<TopBit>>)
  <2>1. PICK u : u = XorAt(t, Lane(Lanes) - 1, <<TopBit>>)
    OBVIOUS
  <2>2. PICK d : d = [c EXCEPT !.state = u, !.adSet = TRUE]
    OBVIOUS
  <2>3. SetAD(c, ad) = Ok(d)
    BY <1>1, <1>3, <1>5, <2>1, <2>2 DEF SetAD
  <2>4. d.state = u
    BY <2>2 DEF WellFormed, Fields, ZeroCtx
  <2> QED BY <2>1, <2>3, <2>4 DEF Ok
<1> QED BY <1>1, <1>4, <1>5, <1>6 DEF DataStart, AfterAd

\* SetAD takes a session from its set-up to its data.
LEMMA SetADHolds ==
  ASSUME NEW c, WellFormed(c), NEW h, Holds(c, h), NEW ad, NEW g,
         g = IF SetAD(c, ad).ret # "ok" THEN h
             ELSE [h EXCEPT !.ads = Append(@, ad),
                            !.stage = IF @ = "open" /\ ~c.adSet
                                      THEN "data" ELSE "misused"]
  PROVE  Holds(SetAD(c, ad).a, g)
<1>1. CASE ~c.keySet \/ ~c.nonceSet
  BY <1>1 DEF SetAD, Fail, BAD_STATE_E
<1>2. CASE c.keySet /\ c.nonceSet
  <2>1. PICK d : d = SetAD(c, ad).a
    OBVIOUS
  <2>2. /\ SetAD(c, ad).ret = "ok"
        /\ d.key = c.key /\ d.adSet = TRUE /\ d.op = c.op /\ d.lastBlkSz = c.lastBlkSz
    BY <1>2, <2>1 DEF SetAD, Ok, WellFormed, Fields, ZeroCtx
  <2>3. /\ Shape(g) /\ g.stage = (IF h.stage = "open" /\ ~c.adSet THEN "data" ELSE "misused")
        /\ g.ads = Append(h.ads, ad) /\ g.nonce = h.nonce /\ g.fed = h.fed /\ g.got = h.got
    BY <2>2 DEF Holds, Shape
  <2>4. CASE g.stage = "misused"
    BY <2>1, <2>3, <2>4, MisusedHolds
  <2>5. CASE g.stage # "misused"
    <3>1. h.stage = "open" /\ ~c.adSet /\ Opened(c, h) /\ g.stage = "data"
      BY <2>3, <2>5 DEF Holds
    <3>2. c.op = NOTSET /\ c.lastBlkSz = 0
      BY <3>1 DEF WellFormed
    <3>3. c.key \in Keys /\ h.nonce \in Nonces /\ KeySize(c.key) /\ KeySize(h.nonce)
      BY <1>2, <3>1, KeySized DEF Opened
    <3>4. PICK s : s = DataStart(c.key, h.nonce, ad)
      OBVIOUS
    <3>5. d.state = s /\ IsState(s)
      BY <1>2, <2>1, <3>1, <3>3, <3>4, SetADStarts, DataStartIsState DEF Opened
    <3>6. g.ads[1] = ad /\ g.fed = <<>> /\ g.got = <<>>
      BY <2>3, <3>1 DEF Opened
    <3>7. Plain(d, g) = <<>> /\ Cipher(d, g) = <<>>
      BY <3>6 DEF Plain, Cipher
    <3>8. Whole(d, g) = [state |-> s, lastBlkSz |-> 0, out |-> <<>>]
      <4>1. Whole(d, g) = EncStream(s, 0, AeadRate, PB, <<>>)
        BY <2>2, <2>3, <3>4, <3>6, <3>7 DEF Whole, DataStream
      <4> QED BY <3>5, <4>1, AeadRateOk, StreamNothing
    <3>9. Flowing(d, g)
      BY <2>2, <2>3, <3>2, <3>3, <3>5, <3>6, <3>7, <3>8, StrEmpty DEF Flowing, Keyed
    <3> QED BY <2>1, <2>3, <3>1, <3>9 DEF Holds
  <2> QED BY <2>4, <2>5
<1> QED BY <1>1, <1>2

----------------------------------------------------------------------------
\* The data of an accepted call, appended to what came before.
LEMMA EncryptHolds ==
  ASSUME NEW c, WellFormed(c), NEW h, Flowing(c, h), c.op \in {NOTSET, ENCRYPT},
         NEW x, Str(x), NEW r, r = EncStream(c.state, c.lastBlkSz, AeadRate, PB, x),
         NEW d, d.key = c.key, d.op = ENCRYPT, d.adSet, d.state = r.state,
         d.lastBlkSz = r.lastBlkSz,
         NEW g, g.nonce = h.nonce, g.ads = h.ads, g.fed = h.fed \o x, g.got = h.got \o r.out
  PROVE  Flowing(d, g)
<1>1. PICK s, fed, got : s = DataStart(c.key, h.nonce, h.ads[1]) /\ fed = h.fed /\ got = h.got
  OBVIOUS
<1>2. PICK u : u = EncStream(s, 0, AeadRate, PB, fed)
  OBVIOUS
<1>3. u = [state |-> c.state, lastBlkSz |-> c.lastBlkSz, out |-> got]
  <2>1. Plain(c, h) = fed /\ Cipher(c, h) = got
    BY <1>1 DEF Plain, Cipher, NOTSET, ENCRYPT, DECRYPT
  <2> QED BY <1>1, <1>2, <2>1 DEF Flowing, Whole, DataStream
<1>4. u.state = c.state /\ u.lastBlkSz = c.lastBlkSz /\ u.out = got
  BY <1>3
<1>5. IsState(s) /\ Str(fed) /\ Str(got)
  BY <1>1, DataStartIsState DEF Flowing, Keyed
<1>6. EncStream(s, 0, AeadRate, PB, fed \o x)
        = [state |-> r.state, lastBlkSz |-> r.lastBlkSz, out |-> got \o r.out]
  <2>1. TwoAreOne(s, AeadRate, PB, fed, x)
    BY <1>5, AeadRateOk, StreamConcat
  <2> QED BY <1>2, <1>4, <2>1 DEF TwoAreOne
<1>7. Streamed(r, Len(x), AeadRate)
  <2>1. Streamed(u, Len(fed), AeadRate)
    BY <1>2, <1>5, AeadRateOk, StreamFresh
  <2> QED BY <1>4, <2>1, AeadRateOk, StreamIs DEF Streamed
<1>8. Keyed(d, g)
  BY <1>1, <1>5, <1>7, StrConcat DEF Flowing, Keyed, Streamed
<1>9. Plain(d, g) = fed \o x /\ Cipher(d, g) = got \o r.out
  BY <1>1 DEF Plain, Cipher, ENCRYPT, DECRYPT
<1>10. Whole(d, g) = [state |-> d.state, lastBlkSz |-> d.lastBlkSz, out |-> Cipher(d, g)]
  BY <1>1, <1>6, <1>9 DEF Whole, DataStream
<1> QED BY <1>8, <1>10 DEF Flowing, NOTSET, ENCRYPT

\* A decrypting Update keeps what flowed consistent with the one-shot
\* ciphertext of what it put out.
LEMMA DecryptHolds ==
  ASSUME NEW c, WellFormed(c), NEW h, Flowing(c, h), c.op \in {NOTSET, DECRYPT},
         NEW x, Str(x), NEW r, r = DecStream(c.state, c.lastBlkSz, AeadRate, PB, x),
         NEW d, d.key = c.key, d.op = DECRYPT, d.adSet, d.state = r.state,
         d.lastBlkSz = r.lastBlkSz,
         NEW g, g.nonce = h.nonce, g.ads = h.ads, g.fed = h.fed \o x, g.got = h.got \o r.out
  PROVE  Flowing(d, g)
<1>1. PICK s, fed, got : s = DataStart(c.key, h.nonce, h.ads[1]) /\ fed = h.fed /\ got = h.got
  OBVIOUS
<1>2. PICK u : u = EncStream(s, 0, AeadRate, PB, got)
  OBVIOUS
<1>3. u = [state |-> c.state, lastBlkSz |-> c.lastBlkSz, out |-> fed]
  <2>1. Plain(c, h) = got /\ Cipher(c, h) = fed
    BY <1>1 DEF Flowing, Plain, Cipher, NOTSET, DECRYPT
  <2> QED BY <1>1, <1>2, <2>1 DEF Flowing, Whole, DataStream
<1>4. u.state = c.state /\ u.lastBlkSz = c.lastBlkSz /\ u.out = fed
  BY <1>3
<1>5. IsState(s) /\ Str(fed) /\ Str(got)
  BY <1>1, DataStartIsState DEF Flowing, Keyed
<1>6. Streamed(u, Len(got), AeadRate)
  BY <1>2, <1>5, AeadRateOk, StreamFresh
<1>7. PICK out, v : out = r.out /\ v = EncStream(u.state, u.lastBlkSz, AeadRate, PB, r.out)
  OBVIOUS
<1>8. Str(out) /\ v = [state |-> r.state, lastBlkSz |-> r.lastBlkSz, out |-> x]
  <2>1. Inverts(c.state, c.lastBlkSz, AeadRate, PB, x)
    BY <1>4, <1>6, AeadRateOk, DecInverts DEF Streamed
  <2> QED BY <1>4, <1>7, <2>1 DEF Inverts
<1>9. v.state = r.state /\ v.lastBlkSz = r.lastBlkSz /\ v.out = x
  BY <1>8
<1>10. EncStream(s, 0, AeadRate, PB, got \o out)
         = [state |-> r.state, lastBlkSz |-> r.lastBlkSz, out |-> fed \o x]
  <2>1. TwoAreOne(s, AeadRate, PB, got, out)
    BY <1>5, <1>8, AeadRateOk, StreamConcat
  <2> QED BY <1>2, <1>4, <1>7, <1>9, <2>1 DEF TwoAreOne
<1>11. Keyed(d, g)
  BY <1>1, <1>5, <1>7, <1>8, StrConcat DEF Flowing, Keyed
<1>12. Plain(d, g) = got \o out /\ Cipher(d, g) = fed \o x
  BY <1>1, <1>7 DEF Plain, Cipher
<1>13. Whole(d, g) = [state |-> d.state, lastBlkSz |-> d.lastBlkSz, out |-> Cipher(d, g)]
  BY <1>1, <1>10, <1>12 DEF Whole, DataStream
<1> QED BY <1>11, <1>13 DEF Flowing, NOTSET, DECRYPT

----------------------------------------------------------------------------
Fed(h, x, r) ==
  IF r.ret # "ok" THEN h
  ELSE [h EXCEPT !.fed = @ \o x, !.got = @ \o r.out,
                 !.stage = IF @ = "data" THEN @ ELSE "misused"]

FedBy(h, x, out, g) ==
  /\ Shape(g) /\ g.nonce = h.nonce /\ g.ads = h.ads
  /\ g.fed = h.fed \o x /\ g.got = h.got \o out
  /\ g.stage = IF h.stage = "data" THEN "data" ELSE "misused"

\* The history after an update that was accepted.
LEMMA FedIs ==
  ASSUME NEW h, Shape(h), NEW x, NEW r, r.ret = "ok"
  PROVE  FedBy(h, x, r.out, Fed(h, x, r))
BY DEF FedBy, Fed, Shape

\* EncryptUpdate keeps what the session holds, accepted or refused.
LEMMA EncryptUpdateHolds ==
  ASSUME NEW c, WellFormed(c), NEW h, Holds(c, h), NEW x, Str(x)
  PROVE  Holds(EncryptUpdate(c, x).a, Fed(h, x, EncryptUpdate(c, x)))
<1>1. PICK u, g : u = EncryptUpdate(c, x) /\ g = Fed(h, x, u)
  OBVIOUS
<1>2. CASE ~Ready(c) \/ ~OpAllows(c, ENCRYPT)
  <2>1. u.ret # "ok" /\ u.a = c
    BY <1>1, <1>2 DEF EncryptUpdate, DataUpdate, Fail, BAD_STATE_E
  <2> QED BY <1>1, <2>1 DEF Fed
<1>3. CASE Ready(c) /\ OpAllows(c, ENCRYPT)
  <2>1. PICK r : r = EncStream(c.state, c.lastBlkSz, AeadRate, PB, x)
    OBVIOUS
  <2>2. PICK d : d = [c EXCEPT !.op = ENCRYPT, !.state = r.state, !.lastBlkSz = r.lastBlkSz]
    OBVIOUS
  <2>3. u = [a |-> d, ret |-> "ok", out |-> r.out]
    BY <1>1, <1>3, <2>1, <2>2 DEF EncryptUpdate, DataUpdate, EncStream
  <2>4. u.a = d /\ u.ret = "ok" /\ u.out = r.out
    BY <2>3
  <2>5. /\ d.key = c.key /\ d.op = ENCRYPT /\ d.adSet = c.adSet /\ d.state = r.state
        /\ d.lastBlkSz = r.lastBlkSz
    BY <2>2 DEF WellFormed, Fields, ZeroCtx
  <2>6. /\ Shape(g) /\ g.nonce = h.nonce /\ g.ads = h.ads
        /\ g.fed = h.fed \o x /\ g.got = h.got \o r.out
        /\ g.stage = IF h.stage = "data" THEN "data" ELSE "misused"
    <3>1. Shape(h)
      BY DEF Holds
    <3>2. g = Fed(h, x, u) /\ u.ret = "ok"
      BY <1>1, <2>4
    <3>3. FedBy(h, x, u.out, Fed(h, x, u))
      BY <3>1, <3>2, FedIs
    <3>4. FedBy(h, x, r.out, g)
      BY <2>4, <3>2, <3>3
    <3> QED BY <3>4 DEF FedBy
  <2>7. CASE h.stage = "data"
    <3>1. Flowing(c, h)
      BY <2>7 DEF Holds
    <3>2. c.op \in {NOTSET, ENCRYPT} /\ d.adSet
      BY <1>3, <2>5, <3>1 DEF OpAllows, Flowing
    <3>3. Flowing(d, g)
      BY <2>1, <2>5, <2>6, <3>1, <3>2, EncryptHolds
    <3> QED BY <1>1, <2>4, <2>6, <2>7, <3>3 DEF Holds
  <2>8. CASE h.stage # "data"
    BY <1>1, <2>4, <2>6, <2>8, MisusedHolds
  <2> QED BY <2>7, <2>8
<1> QED BY <1>2, <1>3

\* So does DecryptUpdate.
LEMMA DecryptUpdateHolds ==
  ASSUME NEW c, WellFormed(c), NEW h, Holds(c, h), NEW x, Str(x)
  PROVE  Holds(DecryptUpdate(c, x).a, Fed(h, x, DecryptUpdate(c, x)))
<1>1. PICK u, g : u = DecryptUpdate(c, x) /\ g = Fed(h, x, u)
  OBVIOUS
<1>2. CASE ~Ready(c) \/ ~OpAllows(c, DECRYPT)
  <2>1. u.ret # "ok" /\ u.a = c
    BY <1>1, <1>2 DEF DecryptUpdate, DataUpdate, Fail, BAD_STATE_E
  <2> QED BY <1>1, <2>1 DEF Fed
<1>3. CASE Ready(c) /\ OpAllows(c, DECRYPT)
  <2>1. PICK r : r = DecStream(c.state, c.lastBlkSz, AeadRate, PB, x)
    OBVIOUS
  <2>2. PICK d : d = [c EXCEPT !.op = DECRYPT, !.state = r.state, !.lastBlkSz = r.lastBlkSz]
    OBVIOUS
  <2>3. u = [a |-> d, ret |-> "ok", out |-> r.out]
    BY <1>1, <1>3, <2>1, <2>2 DEF DecryptUpdate, DataUpdate, DecStream
  <2>4. u.a = d /\ u.ret = "ok" /\ u.out = r.out
    BY <2>3
  <2>5. /\ d.key = c.key /\ d.op = DECRYPT /\ d.adSet = c.adSet /\ d.state = r.state
        /\ d.lastBlkSz = r.lastBlkSz
    BY <2>2 DEF WellFormed, Fields, ZeroCtx
  <2>6. /\ Shape(g) /\ g.nonce = h.nonce /\ g.ads = h.ads
        /\ g.fed = h.fed \o x /\ g.got = h.got \o r.out
        /\ g.stage = IF h.stage = "data" THEN "data" ELSE "misused"
    <3>1. Shape(h)
      BY DEF Holds
    <3>2. g = Fed(h, x, u) /\ u.ret = "ok"
      BY <1>1, <2>4
    <3>3. FedBy(h, x, u.out, Fed(h, x, u))
      BY <3>1, <3>2, FedIs
    <3>4. FedBy(h, x, r.out, g)
      BY <2>4, <3>2, <3>3
    <3> QED BY <3>4 DEF FedBy
  <2>7. CASE h.stage = "data"
    <3>1. Flowing(c, h)
      BY <2>7 DEF Holds
    <3>2. c.op \in {NOTSET, DECRYPT} /\ d.adSet
      BY <1>3, <2>5, <3>1 DEF OpAllows, Flowing
    <3>3. Flowing(d, g)
      BY <2>1, <2>5, <2>6, <3>1, <3>2, DecryptHolds
    <3> QED BY <1>1, <2>4, <2>6, <2>7, <3>3 DEF Holds
  <2>8. CASE h.stage # "data"
    BY <1>1, <2>4, <2>6, <2>8, MisusedHolds
  <2> QED BY <2>7, <2>8
<1> QED BY <1>2, <1>3

----------------------------------------------------------------------------
Finished(h, tag, r) ==
  IF r.ret = BAD_STATE_E THEN h
  ELSE [h EXCEPT !.tag = tag, !.verdict = r.ret, !.finals = @ + 1,
                 !.stage = IF @ = "data" THEN "ended" ELSE "misused"]

\* The history after a final that was accepted.
LEMMA FinishedIs ==
  ASSUME NEW h, Shape(h), NEW tag, NEW r, r.ret # BAD_STATE_E,
         NEW g, g = Finished(h, tag, r)
  PROVE  /\ Shape(g) /\ g.nonce = h.nonce /\ g.ads = h.ads /\ g.fed = h.fed
         /\ g.got = h.got /\ g.tag = tag /\ g.verdict = r.ret
         /\ g.stage = IF h.stage = "data" THEN "ended" ELSE "misused"
BY DEF Finished, Shape

\* The final permutations leave key and direction.
LEMMA FinalisedKeeps ==
  ASSUME NEW c, WellFormed(c)
  PROVE  Finalised(c).key = c.key /\ Finalised(c).op = c.op
<1>1. PICK s : Finalised(c) = [c EXCEPT !.state = s]
  BY DEF Finalised
<1> QED BY <1>1 DEF WellFormed, Fields, ZeroCtx

\* Final compares or puts out the session's own tag.
LEMMA EndHolds ==
  ASSUME NEW c, WellFormed(c), NEW h, Holds(c, h), c.op # NOTSET, NEW tag,
         NEW r, r.a = Finalised(c), r.ret # BAD_STATE_E,
         c.op = ENCRYPT => tag = Tag(Finalised(c)),
         c.op = DECRYPT => (r.ret = "ok" <=> tag = Tag(Finalised(c)))
  PROVE  Holds(r.a, Finished(h, tag, r))
<1>1. PICK d, g : d = r.a /\ g = Finished(h, tag, r)
  OBVIOUS
<1>2. d.key = c.key /\ d.op = c.op
  BY <1>1, FinalisedKeeps
<1>3. /\ Shape(g) /\ g.nonce = h.nonce /\ g.ads = h.ads /\ g.fed = h.fed
      /\ g.got = h.got /\ g.tag = tag /\ g.verdict = r.ret
      /\ g.stage = IF h.stage = "data" THEN "ended" ELSE "misused"
  BY <1>1, FinishedIs DEF Holds
<1>4. CASE h.stage = "data"
  <2>1. Flowing(c, h)
    BY <1>4 DEF Holds
  <2>2. Plain(d, g) = Plain(c, h) /\ Cipher(d, g) = Cipher(c, h)
    BY <1>2, <1>3 DEF Plain, Cipher
  <2>3. Whole(d, g) = Whole(c, h)
    BY <1>2, <1>3, <2>2 DEF Whole
  <2>4. PICK w : w = Whole(c, h)
    OBVIOUS
  <2>5. w.state = c.state /\ w.lastBlkSz = c.lastBlkSz /\ w.out = Cipher(c, h)
    BY <2>1, <2>4 DEF Flowing
  <2>6. OwnTag(d, g) = TagOf(XorAt(c.state, c.lastBlkSz, <<One>>), c.key)
    BY <1>2, <2>3, <2>4, <2>5 DEF OwnTag, Padded
  <2>7. KeySize(c.key) /\ DOMAIN c = Fields
    BY <2>1, KeySized DEF Flowing, Keyed, WellFormed
  <2>8. OwnTag(d, g) = Tag(Finalised(c))
    BY <2>6, <2>7, FinalTag
  <2>9. Keyed(d, g)
    BY <1>2, <1>3, <2>1 DEF Flowing, Keyed
  <2>10. Closed(d, g)
    BY <1>2, <1>3, <2>2, <2>3, <2>4, <2>5, <2>8, <2>9 DEF Closed
  <2> QED BY <1>1, <1>3, <1>4, <2>10 DEF Holds
<1>5. CASE h.stage # "data"
  BY <1>1, <1>3, <1>5, MisusedHolds
<1> QED BY <1>4, <1>5

\* EncryptFinal ends a session with its own tag.
LEMMA EncryptFinalHolds ==
  ASSUME NEW c, WellFormed(c), NEW h, Holds(c, h), NEW tag, tag = EncryptFinal(c).out
  PROVE  Holds(EncryptFinal(c).a, Finished(h, tag, EncryptFinal(c)))
<1>1. PICK r : r = EncryptFinal(c)
  OBVIOUS
<1>2. CASE ~Ready(c) \/ c.op # ENCRYPT
  <2>1. r.ret = BAD_STATE_E /\ r.a = c
    BY <1>1, <1>2 DEF EncryptFinal, Fail
  <2> QED BY <1>1, <2>1 DEF Finished
<1>3. CASE Ready(c) /\ c.op = ENCRYPT
  <2>1. r.a = Finalised(c) /\ r.ret = "ok" /\ tag = Tag(Finalised(c))
    BY <1>1, <1>3 DEF EncryptFinal
  <2>2. "ok" # BAD_STATE_E /\ c.op # NOTSET /\ c.op # DECRYPT
    BY <1>3 DEF BAD_STATE_E, NOTSET, ENCRYPT, DECRYPT
  <2>3. Holds(r.a, Finished(h, tag, r))
    BY <2>1, <2>2, EndHolds
  <2> QED BY <1>1, <2>3
<1> QED BY <1>2, <1>3

\* DecryptFinal ends a session with the comparison against its own tag.
LEMMA DecryptFinalHolds ==
  ASSUME NEW c, WellFormed(c), NEW h, Holds(c, h), NEW tag
  PROVE  Holds(DecryptFinal(c, tag).a, Finished(h, tag, DecryptFinal(c, tag)))
<1>1. PICK r : r = DecryptFinal(c, tag)
  OBVIOUS
<1>2. CASE ~Ready(c) \/ c.op # DECRYPT
  <2>1. r.ret = BAD_STATE_E /\ r.a = c
    BY <1>1, <1>2 DEF DecryptFinal, Fail
  <2> QED BY <1>1, <2>1 DEF Finished
<1>3. CASE Ready(c) /\ c.op = DECRYPT
  <2>1. PICK own : own = Tag(Finalised(c))
    OBVIOUS
  <2>2. r.a = Finalised(c) /\ r.ret = (IF own = tag THEN "ok" ELSE ASCON_AUTH_E)
    BY <1>1, <1>3, <2>1 DEF DecryptFinal, Ok, Fail
  <2>3. /\ "ok" # BAD_STATE_E /\ ASCON_AUTH_E # BAD_STATE_E /\ "ok" # ASCON_AUTH_E
        /\ c.op # NOTSET /\ c.op # ENCRYPT
    BY <1>3 DEF BAD_STATE_E, ASCON_AUTH_E, NOTSET, ENCRYPT, DECRYPT
  <2>4. Holds(r.a, Finished(h, tag, r))
    BY <2>1, <2>2, <2>3, EndHolds
  <2> QED BY <1>1, <2>4
<1> QED BY <1>2, <1>3

----------------------------------------------------------------------------
SessionInv == a # NULL => Holds(a, sess)
Inv == Context /\ ret \in Codes /\ SessionInv

\* The invariant holds before the first call.
LEMMA SessionInit == Init => Inv
BY DEF Init, Inv, Context, Codes, SessionInv

\* Every call keeps the invariant.
LEMMA SessionStep == Inv /\ [Next]_vars => Inv'
<1> SUFFICES ASSUME Context, ret \in Codes, SessionInv, [Next]_vars
             PROVE  SessionInv'
  BY ContextStep DEF Inv
<1>1. CASE New
  <2>1. CASE UNCHANGED <<a, sess>>
    BY <2>1 DEF SessionInv
  <2>2. CASE \E iv \in Ivs : a' = InitAead([ZeroCtx EXCEPT !.iv = iv]).a
                             /\ sess' = NewSession("open")
    BY <2>2, InitHolds DEF SessionInv
  <2> QED BY <1>1, <2>1, <2>2 DEF New
<1>2. CASE Free
  BY <1>2 DEF Free, SessionInv
<1>3. CASE CallInit
  BY <1>3, InitHolds DEF CallInit, Call, SessionInv
<1>4. CASE CallClear
  BY <1>4, NewShape, MisusedHolds DEF CallClear, Call, SessionInv
<1>5. ASSUME NEW iv \in Ivs, StoreIv(iv) PROVE SessionInv'
  <2>1. a # NULL /\ a' = [a EXCEPT !.iv = iv] /\ sess' = sess
    BY <1>5 DEF StoreIv, Call, Ok
  <2>2. SameData(a, a')
    BY <2>1 DEF Context, WellFormed, Fields, ZeroCtx, SameData
  <2> QED BY <2>1, <2>2, SameDataHolds DEF SessionInv
<1>6. ASSUME NEW key \in Keys, CallSetKey(key) PROVE SessionInv'
  BY <1>6, SetKeyHolds DEF CallSetKey, Call, Context, SessionInv
<1>7. ASSUME NEW nonce \in Nonces, CallSetNonce(nonce) PROVE SessionInv'
  BY <1>7, SetNonceHolds DEF CallSetNonce, Call, Context, SessionInv
<1>8. ASSUME NEW ad \in Ads, CallSetAD(ad) PROVE SessionInv'
  BY <1>8, SetADHolds DEF CallSetAD, Call, Context, SessionInv
<1>9. ASSUME NEW x \in Chunks, CallEncryptUpdate(x) \/ CallDecryptUpdate(x)
      PROVE  SessionInv'
  <2>1. Str(x)
    BY DataAssumption, StrOf
  <2>2. CASE CallEncryptUpdate(x)
    <3>1. a # NULL /\ a' = EncryptUpdate(a, x).a /\ sess' = Fed(sess, x, EncryptUpdate(a, x))
      BY <2>2 DEF CallEncryptUpdate, Feed, Call, Fed
    <3> QED BY <2>1, <3>1, EncryptUpdateHolds DEF Context, SessionInv
  <2>3. CASE CallDecryptUpdate(x)
    <3>1. a # NULL /\ a' = DecryptUpdate(a, x).a /\ sess' = Fed(sess, x, DecryptUpdate(a, x))
      BY <2>3 DEF CallDecryptUpdate, Feed, Call, Fed
    <3> QED BY <2>1, <3>1, DecryptUpdateHolds DEF Context, SessionInv
  <2> QED BY <1>9, <2>2, <2>3
<1>10. CASE CallEncryptFinal
  <2>1. /\ a # NULL /\ a' = EncryptFinal(a).a
        /\ sess' = Finished(sess, EncryptFinal(a).out, EncryptFinal(a))
    BY <1>10 DEF CallEncryptFinal, Finish, Call, Finished
  <2> QED BY <2>1, EncryptFinalHolds DEF Context, SessionInv
<1>11. CASE CallDecryptFinal
  <2>1. PICK tag \in PeerTags : Finish(tag, DecryptFinal(a, tag))
    BY <1>11 DEF CallDecryptFinal
  <2>2. /\ a # NULL /\ a' = DecryptFinal(a, tag).a
        /\ sess' = Finished(sess, tag, DecryptFinal(a, tag))
    BY <2>1 DEF Finish, Call, Finished
  <2> QED BY <2>2, DecryptFinalHolds DEF Context, SessionInv
<1>12. ASSUME NEW sample \in Nonces, CallMask(sample) PROVE SessionInv'
  <2>1. a' = a /\ sess' = sess
    BY <1>12 DEF CallMask, Call, Mask, Fail
  <2> QED BY <2>1 DEF SessionInv
<1>13. CASE NullArgument
  BY <1>13 DEF NullArgument, SessionInv
<1>14. CASE UNCHANGED vars
  BY <1>14 DEF vars, SessionInv
<1> QED
  BY <1>1, <1>2, <1>3, <1>4, <1>5, <1>6, <1>7, <1>8, <1>9, <1>10, <1>11, <1>12,
     <1>13, <1>14 DEF Next

----------------------------------------------------------------------------
\* The data encrypted in one go is the one-shot ciphertext and tag.
LEMMA WholeIsOneShot ==
  ASSUME NEW c, NEW h, Keyed(c, h)
  PROVE  OneShotEncrypt(c.key, h.nonce, h.ads[1], Plain(c, h))
           = [ct |-> Whole(c, h).out, tag |-> OwnTag(c, h)]
<1>1. PICK p : p = Plain(c, h)
  OBVIOUS
<1>2. Str(p)
  BY <1>1 DEF Keyed, Plain
<1> QED BY <1>1, <1>2, OneShotIsStream DEF Whole, OwnTag

\* What the invariant says of a session in the documented order.
LEMMA InOrderHolds ==
  ASSUME Inv, InOrder
  PROVE  /\ Keyed(a, sess) /\ Whole(a, sess).out = Cipher(a, sess)
         /\ OneShot(Plain(a, sess)) = [ct |-> Whole(a, sess).out, tag |-> OwnTag(a, sess)]
         /\ sess.stage = "ended" => Closed(a, sess)
         /\ a.op = NOTSET => sess.fed = <<>>
<1>1. Holds(a, sess) /\ WellFormed(a)
  BY DEF Inv, InOrder, Context, SessionInv
<1>2. CASE sess.stage = "data"
  BY <1>1, <1>2, WholeIsOneShot DEF Holds, Flowing, OneShot
<1>3. CASE sess.stage = "ended"
  BY <1>1, <1>3, WholeIsOneShot DEF Holds, Closed, OneShot
<1> QED BY <1>2, <1>3 DEF InOrder

\* The invariant implies that chunking does not matter.
LEMMA InvOneShot == Inv => StreamingIsOneShot
<1> SUFFICES ASSUME Inv, InOrder
             PROVE  /\ a.op = ENCRYPT => sess.got = OneShot(sess.fed).ct
                    /\ a.op = ENCRYPT /\ sess.stage = "ended" => sess.tag = OneShot(sess.fed).tag
                    /\ a.op = DECRYPT => sess.fed = OneShot(sess.got).ct
  BY DEF StreamingIsOneShot
<1>1. PICK w, t, p : w = Whole(a, sess).out /\ t = OwnTag(a, sess) /\ p = Plain(a, sess)
  OBVIOUS
<1>2. /\ OneShot(p) = [ct |-> w, tag |-> t] /\ w = Cipher(a, sess)
      /\ sess.stage = "ended" => Closed(a, sess)
  BY <1>1, InOrderHolds
<1>5. OneShot(p).ct = w /\ OneShot(p).tag = t
  BY <1>2
<1>3. CASE a.op = ENCRYPT
  <2>1. p = sess.fed /\ Cipher(a, sess) = sess.got /\ a.op # DECRYPT
    BY <1>1, <1>3 DEF Plain, Cipher, ENCRYPT, DECRYPT
  <2> QED BY <1>1, <1>2, <1>5, <1>3, <2>1 DEF Closed
<1>4. CASE a.op = DECRYPT
  <2>1. p = sess.got /\ Cipher(a, sess) = sess.fed /\ a.op # ENCRYPT
    BY <1>1, <1>4 DEF Plain, Cipher, ENCRYPT, DECRYPT
  <2> QED BY <1>2, <1>5, <1>4, <2>1
<1> QED BY <1>3, <1>4

\* The invariant implies that a session accepts its own tag only.
LEMMA InvOwnTag == Inv => AcceptsOnlyItsOwnTag
<1> SUFFICES ASSUME Inv, InOrder, sess.stage = "ended", a.op = DECRYPT
             PROVE  sess.verdict = "ok" <=> sess.tag = OneShot(sess.got).tag
  BY DEF AcceptsOnlyItsOwnTag
<1>1. PICK t : t = OwnTag(a, sess)
  OBVIOUS
<1>2. OneShot(Plain(a, sess)).tag = t /\ Closed(a, sess)
  BY <1>1, InOrderHolds
<1> QED BY <1>1, <1>2 DEF Closed, Plain

\* A prefix that is not empty agrees in its first element.
LEMMA PrefixFirst ==
  ASSUME NEW x, NEW y, Str(x), Len(x) # 0, IsPrefix(x, y)
  PROVE  x[1] = y[1]
<1>1. PICK n \in Nat, zero \in Nat : n = Len(x) /\ zero = 0
  BY DEF Str
<1>2. Piece(x, zero, n) = Piece(y, zero, n)
  BY <1>1 DEF IsPrefix, Piece
<1>3. /\ \A i \in 1 .. n : Piece(x, zero, n)[i] = x[zero + i]
      /\ \A i \in 1 .. n : Piece(y, zero, n)[i] = y[zero + i]
  BY StrSub
<1>4. 1 \in 1 .. n /\ zero + 1 = 1
  BY <1>1
<1> QED BY <1>2, <1>3, <1>4

\* The invariant implies that no mask is a record's keystream.
LEMMA InvMask == Inv => MaskIsNotKeystream
<1> SUFFICES ASSUME Inv, InOrder, NEW sample \in Nonces, sess.fed # <<>>,
                    IsPrefix(XorBytes(sess.fed, sess.got), MaskPrf(a.key, sample))
             PROVE  FALSE
  BY DEF MaskIsNotKeystream
<1>1. PICK fed, got, p, s : /\ fed = sess.fed /\ got = sess.got /\ p = Plain(a, sess)
                            /\ s = DataStart(a.key, sess.nonce, sess.ads[1])
  OBVIOUS
<1>2. PICK u, x : u = EncStream(s, 0, AeadRate, PB, p) /\ x = XorBytes(fed, got)
  OBVIOUS
<1>3. /\ Keyed(a, sess) /\ Str(fed) /\ Str(got) /\ Str(p) /\ IsState(s)
      /\ u = Whole(a, sess) /\ u.out = Cipher(a, sess)
  BY <1>1, <1>2, InOrderHolds, DataStartIsState DEF Keyed, Plain, Whole, DataStream
<1>4. Streamed(u, Len(p), AeadRate)
  BY <1>2, <1>3, AeadRateOk, StreamFresh
<1>5. Len(fed) # 0 /\ Len(p) = Len(fed) /\ Len(got) = Len(fed)
  BY <1>1, <1>3, <1>4, StrEmpty DEF Streamed, Plain, Cipher
<1>6. u.out[1] = SymDiff(Byte(s, 0), p[1])
  <2>1. FirstByte(s, AeadRate, PB, p)
    BY <1>3, <1>5, AeadRateOk, StreamFirst
  <2> QED BY <1>2, <2>1 DEF FirstByte
<1>7. SymDiff(fed[1], got[1]) = Byte(s, 0)
  <2>1. SymDiff(p[1], u.out[1]) = Byte(s, 0)
    BY <1>6, XorTwice
  <2>2. SymDiff(u.out[1], p[1]) = Byte(s, 0)
    BY <1>6, XorTwice
  <2> QED BY <1>1, <1>3, <2>1, <2>2 DEF Plain, Cipher
<1>8. Str(x) /\ Len(x) = Len(fed) /\ x[1] = Byte(s, 0)
  <2>1. Str(x) /\ Len(x) = Len(fed) /\ \A i \in 1 .. Len(fed) : x[i] = SymDiff(fed[i], got[i])
    BY <1>2, <1>3, XorBytesAre
  <2>2. 1 \in 1 .. Len(fed)
    BY <1>3, <1>5 DEF Str
  <2> QED BY <1>7, <2>1, <2>2
<1>9. x[1] = MaskPrf(a.key, sample)[1]
  BY <1>1, <1>2, <1>5, <1>8, PrefixFirst
<1>10. Str(a.key) /\ Str(sess.nonce) /\ Str(sample)
  BY <1>3, KeySized DEF Keyed, KeySize
<1>11. Byte(s, 0) # MaskPrf(a.key, sample)[1]
  BY <1>1, <1>10, MaskIsApart
<1> QED BY <1>8, <1>9, <1>11

\* For every lane size, key, nonce, AD and order of calls, and however the data
\* was cut into wc_AsconAEAD128_EncryptUpdate or DecryptUpdate calls: what a
\* session in the documented order has put out is the one-shot ciphertext and
\* tag, or the plaintext whose one-shot ciphertext it was given.
THEOREM AeadStreamingIsOneShot == Spec => []StreamingIsOneShot
BY SessionInit, SessionStep, InvOneShot, PTL DEF Spec

\* For every key, nonce, AD, chunking and peer tag:
\* wc_AsconAEAD128_DecryptFinal returns 0 exactly when the tag it is given is
\* the one-shot tag of the session's key, nonce, AD and of what DecryptUpdate
\* put out.
THEOREM AeadAcceptsOwnTag == Spec => []AcceptsOnlyItsOwnTag
BY SessionInit, SessionStep, InvOwnTag, PTL DEF Spec

\* For every key and sample: the mask of the record-number PRF never begins
\* with the keystream of a record under the same key, since the domain
\* separator keeps the initial states apart.
THEOREM AeadMaskApart == Spec => []MaskIsNotKeystream
BY SessionInit, SessionStep, InvMask, PTL DEF Spec
=============================================================================

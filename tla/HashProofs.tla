----------------------------- MODULE HashProofs -----------------------------
(***************************************************************************)
(* For every lane size, key and chunking: neither hash ever holds a whole   *)
(* block, the digest of a context is the one-shot digest of the bytes given *)
(* since the last reset, and both stacks compute the MAC of the formula.   *)
(*                                                                         *)
(* A hash context is described by the bytes that went into it since its    *)
(* initialisation; the invariants say which bytes these are.               *)
(***************************************************************************)
EXTENDS AsconHash256, HmacAscon, AsconSpongeProofs

\* The wolfCrypt context c, and the provider's h, have absorbed m.
WolfHolds(c, m) == HashHolds(c.state, c.lastBlkSz, m)
OsslHolds(h, m) == HashHolds(h.s, h.lastBlkSz, m)

\* The block of either hash.
LEMMA RateType == HashRate \in Nat \ {0} /\ HashRate = LaneSz
BY LaneSzAssumption DEF HashRate

----------------------------------------------------------------------------
(* wc_AsconHash256 *)
\* An initialised context has absorbed nothing.
LEMMA WolfNothing == WolfHolds(Initialised, <<>>)
<1>1. Initialised.state = HashStart /\ Initialised.lastBlkSz = 0
  BY DEF Initialised, HashStart
<1> QED BY <1>1, HashNothing DEF WolfHolds

\* One Update more.
LEMMA WolfMore ==
  ASSUME NEW c, NEW m, NEW data, Str(m), Str(data), WolfHolds(c, m)
  PROVE  WolfHolds(Updated(c, data), m \o data)
<1>1. CASE data = <<>>
  BY <1>1, StrNeutral DEF Updated
<1>2. CASE data # <<>>
  <2>1. PICK v : v = EncStream(c.state, c.lastBlkSz, HashRate, PA, data)
    OBVIOUS
  <2>2. Updated(c, data).state = v.state /\ Updated(c, data).lastBlkSz = v.lastBlkSz
    BY <1>2, <2>1 DEF Updated, EncStream
  <2>3. HashHolds(v.state, v.lastBlkSz, m \o data)
    BY <2>1, HashMore DEF WolfHolds
  <2> QED BY <2>2, <2>3 DEF WolfHolds
<1> QED BY <1>1, <1>2

\* The digest.
LEMMA WolfDigest ==
  ASSUME NEW c, NEW m, Str(m), WolfHolds(c, m)
  PROVE  Squeezed(c) = OneShotHash(m)
BY HashEnds DEF WolfHolds, Squeezed

\* Shape of an initialised and of a cleared context.
LEMMA InitialisedType ==
  /\ DOMAIN Initialised = {"state", "lastBlkSz"} /\ Initialised.lastBlkSz = 0
  /\ DOMAIN Cleared = {"state", "lastBlkSz"} /\ Cleared.lastBlkSz = 0
BY DEF Initialised, Cleared

\* An Update keeps the shape and leaves less than a block.
LEMMA UpdatedType ==
  ASSUME NEW c, DOMAIN c = {"state", "lastBlkSz"},
         c.lastBlkSz \in 0 .. HashRate - 1, NEW data \in Chunks
  PROVE  /\ DOMAIN Updated(c, data) = {"state", "lastBlkSz"}
         /\ Updated(c, data).lastBlkSz \in 0 .. HashRate - 1
<1>1. Stream(Encrypting, c.state, c.lastBlkSz, HashRate, PA, data).lastBlkSz
        \in 0 .. HashRate - 1
  BY StreamCounter, RateType, ChunksAssumption
<1> QED BY <1>1 DEF Updated

\* The type invariant holds before the first call.
LEMMA TypeInit == Init => TypeOK
<1>1. <<>> \in Seq(DataBytes) /\ Len(<<>>) <= MaxMessage
  BY MaxMessageAssumption
<1> QED BY <1>1 DEF Init, TypeOK, BlockInv, Codes

\* Every call keeps it.
LEMMA TypeStep == TypeOK /\ [Next]_vars => TypeOK'
<1> SUFFICES ASSUME TypeOK, [Next]_vars PROVE TypeOK'
  OBVIOUS
<1> USE MaxMessageAssumption DEF TypeOK, Codes
<1>1. ASSUME NEW c, NEW iv \in BOOLEAN, Reset(c, iv),
             c \in {NULL, Initialised, Cleared}
      PROVE  TypeOK'
  <2>1. BlockInv' /\ (a' # NULL => DOMAIN a' = {"state", "lastBlkSz"})
    BY <1>1, InitialisedType, RateType DEF Reset, BlockInv
  <2> QED BY <1>1, <2>1 DEF Reset
<1>2. CASE New
  BY <1>1, <1>2 DEF New
<1>3. CASE Free
  BY <1>1, <1>3 DEF Free
<1>4. CASE InitCtx
  BY <1>1, <1>4 DEF InitCtx
<1>5. CASE Clear
  BY <1>1, <1>5 DEF Clear
<1>6. ASSUME NEW data \in Chunks, Update(data)
      PROVE  TypeOK'
  <2>1. DOMAIN a' = {"state", "lastBlkSz"} /\ a'.lastBlkSz \in 0 .. HashRate - 1
    BY <1>6, UpdatedType DEF Update, BlockInv
  <2>2. msg' \in Seq(DataBytes) /\ Len(msg') <= MaxMessage
    BY <1>6, ChunksAssumption DEF Update
  <2> QED BY <1>6, <2>1, <2>2 DEF Update, BlockInv
<1>7. CASE Final
  BY <1>1, <1>7 DEF Final, Finished
<1>8. CASE NullArgument
  BY <1>8 DEF NullArgument, BlockInv
<1>9. CASE UNCHANGED vars
  BY <1>9 DEF vars, BlockInv
<1> QED BY <1>2, <1>3, <1>4, <1>5, <1>6, <1>7, <1>8, <1>9 DEF Next

\* Type correctness of the hash context, including the block bound: the pad
\* byte of wc_AsconHash256_Final never leaves the rate.
THEOREM HashTypeCorrect == Spec => []TypeOK
BY TypeInit, TypeStep, PTL DEF Spec

----------------------------------------------------------------------------
(***************************************************************************)
(* The context that got the message in pieces is the one that got it at    *)
(* once, so its digest is the one-shot digest.                             *)
(***************************************************************************)
HashInv == TypeOK /\ (hasIV => WolfHolds(a, msg))

\* The invariant holds before the first call.
LEMMA HashInvInit == Init => HashInv
BY TypeInit DEF HashInv, Init

\* The bytes given so far are a string.
LEMMA MessageIsString == TypeOK => Str(msg)
BY StrOf DEF TypeOK

\* Every call keeps the invariant: Update appends to the message absorbed.
LEMMA HashInvStep == HashInv /\ [Next]_vars => HashInv'
<1> SUFFICES ASSUME HashInv, [Next]_vars, hasIV'
             PROVE  WolfHolds(a', msg')
  BY TypeStep DEF HashInv
<1>1. CASE New \/ Free \/ InitCtx \/ Clear \/ Final
  <2>1. a' = Initialised /\ msg' = <<>>
    BY <1>1 DEF New, Free, InitCtx, Clear, Final, Finished, Reset
  <2> QED BY <2>1, WolfNothing
<1>2. ASSUME NEW data \in Chunks, Update(data) PROVE WolfHolds(a', msg')
  <2>1. hasIV /\ a' = Updated(a, data) /\ msg' = msg \o data
    BY <1>2 DEF Update
  <2>2. Str(msg) /\ Str(data) /\ WolfHolds(a, msg)
    BY <2>1, ChunksAssumption, StrOf, MessageIsString DEF HashInv
  <2> QED BY <2>1, <2>2, WolfMore
<1>3. CASE NullArgument \/ UNCHANGED vars
  BY <1>3 DEF NullArgument, vars, HashInv
<1> QED BY <1>1, <1>2, <1>3 DEF Next

\* The initial state is one of the abstract hash.
LEMMA AbstractInit == Init => Abstract!Init
BY DEF Init, Abstract!Init

\* Every call is a step of the abstract hash or changes nothing it sees.
LEMMA AbstractStep == HashInv /\ [Next]_vars => [Abstract!Next]_Abstract!vars
<1> SUFFICES ASSUME HashInv, [Next]_vars PROVE [Abstract!Next]_Abstract!vars
  OBVIOUS
<1>1. ASSUME NEW c, NEW iv \in BOOLEAN, Reset(c, iv), UNCHANGED digest
      PROVE  Abstract!Begin \/ Abstract!Discard
  BY <1>1 DEF Reset, Abstract!Begin, Abstract!Discard
<1>2. CASE New \/ Free \/ InitCtx \/ Clear
  <2>1. \E iv \in BOOLEAN : \E c : Reset(c, iv) /\ UNCHANGED digest
    BY <1>2 DEF New, Free, InitCtx, Clear
  <2> QED BY <1>1, <2>1 DEF Abstract!Next
<1>3. ASSUME NEW data \in Chunks, Update(data)
      PROVE  [Abstract!Next]_Abstract!vars
  <2>1. CASE hasIV
    <3>1. msg # NULL
      BY NullAssumption DEF HashInv, TypeOK
    <3>2. Abstract!Absorb
      BY <1>3, <2>1, <3>1 DEF Update, Abstract!Absorb
    <3> QED BY <3>2 DEF Abstract!Next
  <2>2. CASE ~hasIV
    BY <1>3, <2>2 DEF Update, Abstract!vars
  <2> QED BY <2>1, <2>2
<1>4. CASE Final
  <2>1. CASE hasIV
    <3>1. msg # NULL
      BY NullAssumption DEF HashInv, TypeOK
    <3>2. digest' = OneShotHash(msg)
      BY <1>4, <2>1, WolfDigest, MessageIsString DEF Final, HashInv
    <3>3. Abstract!Finish
      BY <1>4, <2>1, <3>1, <3>2 DEF Final, Reset, Abstract!Finish
    <3> QED BY <3>3 DEF Abstract!Next
  <2>2. CASE ~hasIV
    <3>1. Abstract!FinishNothing
      BY <1>4, <2>2 DEF Final, Reset, Abstract!FinishNothing
    <3> QED BY <3>1 DEF Abstract!Next
  <2> QED BY <2>1, <2>2
<1>5. CASE NullArgument \/ UNCHANGED vars
  BY <1>5 DEF NullArgument, vars, Abstract!vars
<1> QED BY <1>2, <1>3, <1>4, <1>5 DEF Next

\* The streaming hash context implements the abstract one: however the message
\* is cut into Updates and whatever the context did before, Final returns the
\* one-shot digest of the bytes given since the last reset.
THEOREM HashImplementsOneShot == Spec => HashImplementsSpec
BY HashInvInit, HashInvStep, AbstractInit, AbstractStep, PTL
   DEF Spec, HashImplementsSpec, Abstract!Spec

----------------------------------------------------------------------------
(* The provider's hash, which absorbs byte by byte. *)
\* A new context has absorbed nothing.
LEMMA OsslNothing == OsslHolds(ascon_hash256_core_init, <<>>)
<1>1. ascon_hash256_core_init.s = HashStart /\ ascon_hash256_core_init.lastBlkSz = 0
  BY DEF ascon_hash256_core_init, HashStart
<1> QED BY <1>1, HashNothing DEF OsslHolds

\* One byte more.
LEMMA OsslByte ==
  ASSUME NEW h, NEW m, Str(m), OsslHolds(h, m), NEW b
  PROVE  OsslHolds(Absorb(h, b), m \o <<b>>)
<1>1. IsState(h.s) /\ h.lastBlkSz \in 0 .. HashRate - 1
  BY HashCounter DEF OsslHolds
<1>2. PICK v : v = EncStream(h.s, h.lastBlkSz, HashRate, PA, <<b>>)
  OBVIOUS
<1>3. ByteIn(h.s, h.lastBlkSz, b, v)
  BY <1>1, <1>2, HashByte
<1>4. Absorb(h, b).s = v.state /\ Absorb(h, b).lastBlkSz = v.lastBlkSz
  BY <1>3 DEF ByteIn, Absorb
<1>5. HashHolds(v.state, v.lastBlkSz, m \o <<b>>)
  <2>1. Str(<<b>>) /\ HashHolds(h.s, h.lastBlkSz, m)
    BY StrOne DEF OsslHolds
  <2> QED BY <1>2, <2>1, HashMore
<1> QED BY <1>4, <1>5 DEF OsslHolds

\* The loop over the first n bytes of x.
Absorbing(h, x, n) == LET Op(acc, k) == Absorb(acc, x[k]) IN FoldLeft(Op, h, Upto(n))

\* One turn more.
LEMMA AbsorbingStep ==
  ASSUME NEW h, NEW x, NEW n \in Nat
  PROVE  /\ Absorbing(h, x, 0) = h
         /\ Absorbing(h, x, n + 1) = Absorb(Absorbing(h, x, n), x[n + 1])
<1> DEFINE Op(acc, k) == Absorb(acc, x[k])
<1>1. \A m : Absorbing(h, x, m) = FoldLeft(Op, h, Upto(m))
  BY DEF Absorbing
<1>2. \A acc : Op(acc, n + 1) = Absorb(acc, x[n + 1])
  OBVIOUS
<1> HIDE DEF Op
<1>3. /\ FoldLeft(Op, h, Upto(0)) = h
      /\ FoldLeft(Op, h, Upto(n + 1)) = StepOf(Op, FoldLeft(Op, h, Upto(n)), n + 1)
  BY FoldUpto
<1>4. StepOf(Op, FoldLeft(Op, h, Upto(n)), n + 1) = Op(FoldLeft(Op, h, Upto(n)), n + 1)
  BY DEF StepOf
<1>5. Absorbing(h, x, n + 1) = Op(Absorbing(h, x, n), n + 1)
  BY <1>1, <1>3, <1>4
<1>6. Absorbing(h, x, 0) = h
  BY <1>1, <1>3
<1> QED BY <1>2, <1>5, <1>6

\* ascon_hash256_core_update is this loop.
LEMMA UpdateIsLoop ==
  ASSUME NEW h, NEW x, Str(x)
  PROVE  ascon_hash256_core_update(h, x) = Absorbing(h, x, Len(x))
<1>1. PICK n : n = Len(x)
  OBVIOUS
<1>2. n \in Nat /\ DOMAIN x = 1 .. n
  BY <1>1 DEF Str
<1> DEFINE Op(acc, k) == Absorb(acc, x[k])
           F == CHOOSE f : f = [s \in SUBSET (1 .. n) |->
                  IF s = {} THEN h ELSE Absorb(f[s \ {Max(s)}], x[Max(s)])]
<1>3. ascon_hash256_core_update(h, x) = F[1 .. n]
  BY <1>2 DEF ascon_hash256_core_update, FoldLeft, MapThenFoldSet
<1>4. \A f : Folds(Op, h, n, f) <=>
         f = [s \in SUBSET (1 .. n) |->
                IF s = {} THEN h ELSE Absorb(f[s \ {Max(s)}], x[Max(s)])]
  BY DEF Folds
<1>5. Absorbing(h, x, n) = FoldLeft(Op, h, Upto(n))
  BY DEF Absorbing
<1>6. F = CHOOSE f : Folds(Op, h, n, f)
  BY DEF Folds
<1> HIDE DEF Op, F
<1>7. \E f : Folds(Op, h, n, f)
  BY <1>2, FoldsExists
<1>8. Folds(Op, h, n, F)
  BY <1>6, <1>7
<1>9. FoldLeft(Op, h, Upto(n)) = F[1 .. n]
  BY <1>2, <1>8, FoldIs
<1> QED BY <1>1, <1>3, <1>5, <1>9

----------------------------------------------------------------------------
\* The byte behind the first n.
LEMMA PieceOne ==
  ASSUME NEW x, NEW n \in Nat
  PROVE  Piece(x, n, 1) = <<x[n + 1]>>
<1>1. PICK p : p = Piece(x, n, 1)
  OBVIOUS
<1>2. IsPiece(p, x, n, 1)
  BY <1>1, PieceIs
<1>3. Str(p) /\ Len(p) = 1 /\ p[1] = x[n + 1]
  BY <1>2 DEF IsPiece
<1>4. Str(<<x[n + 1]>>) /\ Len(<<x[n + 1]>>) = 1
  BY StrOne
<1>5. \A i \in 1 .. 1 : p[i] = <<x[n + 1]>>[i]
  BY <1>3
<1> QED BY <1>1, <1>3, <1>4, <1>5, StrEqual

\* One update more.
LEMMA OsslMore ==
  ASSUME NEW h, NEW m, NEW x, Str(m), Str(x), OsslHolds(h, m)
  PROVE  OsslHolds(ascon_hash256_core_update(h, x), m \o x)
<1> DEFINE T == {n \in Nat : OsslHolds(Absorbing(h, x, n), m \o Piece(x, 0, n))}
<1>1. 0 \in T
  <2>1. Piece(x, 0, 0) = <<>>
    BY PieceEmpty
  <2>2. m \o <<>> = m
    BY StrNeutral
  <2>3. Absorbing(h, x, 0) = h
    BY AbsorbingStep
  <2> QED BY <2>1, <2>2, <2>3
<1>2. ASSUME NEW n \in Nat, n \in T PROVE n + 1 \in T
  <2>1. PICK p, b : p = Piece(x, 0, n) /\ b = x[n + 1]
    OBVIOUS
  <2>2. PICK g : g = Absorbing(h, x, n)
    OBVIOUS
  <2>3. OsslHolds(g, m \o p)
    BY <1>2, <2>1, <2>2
  <2>4. Str(p) /\ Str(m \o p) /\ Str(<<b>>)
    <3>1. Str(p)
      BY <2>1, PieceIs DEF IsPiece
    <3> QED BY <3>1, StrConcat, StrOne
  <2>5. OsslHolds(Absorb(g, b), (m \o p) \o <<b>>)
    BY <2>3, <2>4, OsslByte
  <2>6. (m \o p) \o <<b>> = m \o (p \o <<b>>)
    <3>1. Associates(m, p, <<b>>)
      BY <2>4, StrAssociative
    <3> QED BY <3>1 DEF Associates
  <2>7. p \o <<b>> = Piece(x, 0, n + 1)
    <3>1. <<b>> = Piece(x, n, 1)
      BY <2>1, PieceOne
    <3>2. Piece(x, 0, n) \o Piece(x, n, 1) = Piece(x, 0, n + 1)
      BY PieceAppend
    <3> QED BY <2>1, <3>1, <3>2
  <2>8. Absorbing(h, x, n + 1) = Absorb(g, b)
    BY <2>1, <2>2, AbsorbingStep
  <2>9. OsslHolds(Absorbing(h, x, n + 1), m \o Piece(x, 0, n + 1))
    BY <2>5, <2>6, <2>7, <2>8
  <2>10. n + 1 \in Nat
    OBVIOUS
  <2> QED BY <2>9, <2>10
<1> HIDE DEF T
<1>3. PICK n : n = Len(x)
  OBVIOUS
<1>4. n \in Nat
  BY <1>3 DEF Str
<1>5. n \in T
  BY <1>1, <1>2, <1>4, SetInduction
<1>6. OsslHolds(Absorbing(h, x, n), m \o Piece(x, 0, n))
  BY <1>5 DEF T
<1>7. Piece(x, 0, n) = x
  BY <1>3, PieceWhole
<1>8. ascon_hash256_core_update(h, x) = Absorbing(h, x, n)
  BY <1>3, UpdateIsLoop
<1> QED BY <1>6, <1>7, <1>8

\* The digest.
LEMMA OsslDigest ==
  ASSUME NEW h, NEW m, Str(m), OsslHolds(h, m)
  PROVE  ascon_hash256_core_final(h) = OneShotHash(m)
BY HashEnds DEF OsslHolds, ascon_hash256_core_final, Squeezing

----------------------------------------------------------------------------
(* The key blocks. *)
Inner(k) == XorBytes(KeyBlock(k), IPAD)
Outer(k) == XorBytes(KeyBlock(k), OPAD)

\* A padded key is a string.
LEMMA KeyBlockIsString ==
  ASSUME NEW k
  PROVE  Str(Inner(k)) /\ Str(Outer(k))
<1>1. PICK z : z = (IF Len(k) <= HashRate THEN k ELSE OneShotHash(k)) \o ZeroBytes(HashRate)
  OBVIOUS
<1>2. KeyBlock(k) = SubSeq(z, 1, HashRate)
  BY <1>1 DEF KeyBlock, FirstBlock
<1>3. Str(KeyBlock(k))
  <2>1. PICK n : n = HashRate
    OBVIOUS
  <2>2. n \in Nat /\ 0 \in Nat /\ 0 + 1 = 1 /\ 0 + n = n
    BY <2>1, RateType
  <2>3. SubSeq(z, 1, n) = Piece(z, 0, n)
    BY <2>2 DEF Piece
  <2>4. IsPiece(Piece(z, 0, n), z, 0, n)
    BY <2>2, PieceIs
  <2>5. Str(Piece(z, 0, n))
    BY <2>4 DEF IsPiece
  <2> QED BY <1>2, <2>1, <2>3, <2>5
<1> QED BY <1>3, XorBytesAre DEF Inner, Outer

\* Hashing a key in the MAC's own context gives the one-shot digest.
LEMMA WolfKey ==
  ASSUME key \in Keys
  PROVE  WolfKeyBlock = KeyBlock(key)
<1>1. Str(key) /\ Str(<<>>) /\ <<>> \o key = key
  BY BytesAssumption, StrOf, StrEmpty, StrNeutral
<1>2. WolfHolds(Updated(Initialised, key), key)
  <2>1. WolfHolds(Updated(Initialised, key), <<>> \o key)
    BY <1>1, WolfNothing, WolfMore
  <2> QED BY <1>1, <2>1
<1>3. Squeezed(Updated(Initialised, key)) = OneShotHash(key)
  BY <1>1, <1>2, WolfDigest
<1> QED BY <1>3 DEF WolfKeyBlock, KeyBlock

\* So does the provider's hash.
LEMMA OsslKey ==
  ASSUME NEW k \in Keys
  PROVE  /\ OsslHolds(Behind(IPAD, k), Inner(k))
         /\ OsslHolds(Behind(OPAD, k), Outer(k))
<1>1. Str(k) /\ Str(<<>>) /\ <<>> \o k = k
  BY BytesAssumption, StrOf, StrEmpty, StrNeutral
<1>2. PICK init : init = ascon_hash256_core_init
  OBVIOUS
<1>3. OsslHolds(init, <<>>)
  BY <1>2, OsslNothing
<1>4. OsslHolds(ascon_hash256_core_update(init, k), k)
  <2>1. OsslHolds(ascon_hash256_core_update(init, k), <<>> \o k)
    BY <1>1, <1>3, OsslMore
  <2> QED BY <1>1, <2>1
<1>5. ascon_hash256_core_final(ascon_hash256_core_update(init, k)) = OneShotHash(k)
  BY <1>1, <1>4, OsslDigest
<1>6. OsslKeyBlock(k) = KeyBlock(k)
  BY <1>2, <1>5 DEF OsslKeyBlock, KeyBlock
<1>7. ASSUME NEW p, Str(p)
      PROVE  OsslHolds(ascon_hash256_core_update(init, p), p)
  <2>1. <<>> \o p = p
    BY <1>7, StrNeutral
  <2>2. OsslHolds(ascon_hash256_core_update(init, p), <<>> \o p)
    BY <1>1, <1>3, <1>7, OsslMore
  <2> QED BY <2>1, <2>2
<1>8. Behind(IPAD, k) = ascon_hash256_core_update(init, Inner(k))
  BY <1>2, <1>6 DEF Behind, Inner
<1>9. Behind(OPAD, k) = ascon_hash256_core_update(init, Outer(k))
  BY <1>2, <1>6 DEF Behind, Outer
<1> QED BY <1>7, <1>8, <1>9, KeyBlockIsString

----------------------------------------------------------------------------
(***************************************************************************)
(* The invariant.  wolfSSL's one context has absorbed nothing until the    *)
(* first update of a text, then the inner pad and the text.  OpenSSL's     *)
(* kept states have absorbed a pad each, and the running one the text, too.*)
(***************************************************************************)
WolfInv == stack = "wolfSSL" /\ key # NONE =>
             IF keyed THEN WolfHolds(ctx, Inner(key) \o text)
                      ELSE WolfHolds(ctx, <<>>) /\ text = <<>>

OsslInv == stack = "OpenSSL" =>
             /\ keyed => key # NONE /\ OsslHolds(ctx, Inner(key) \o text)
             /\ key # NONE => /\ OsslHolds(i_ctx, Inner(key)) /\ OsslHolds(o_ctx, Outer(key))
                              /\ ctx.lastBlkSz \in 0 .. HashRate - 1

TextInv == /\ stack \in Stacks /\ keyed \in BOOLEAN
           /\ Str(text) /\ Len(text) <= MaxText
           /\ key # NONE => key \in Keys

HmacInv == TextInv /\ WolfInv /\ OsslInv /\ MacIsFormula

\* The invariant holds before any key is set.
LEMMA HmacInvInit == HmacInit => HmacInv
<1> SUFFICES ASSUME HmacInit PROVE HmacInv
  OBVIOUS
<1>1. Str(<<>>) /\ Len(<<>>) <= MaxText
  BY StrEmpty, TextAssumption
<1> QED BY <1>1 DEF HmacInit, HmacInv, TextInv, WolfInv, OsslInv, MacIsFormula

\* A counter of a context that has absorbed something is less than a block.
LEMMA CounterHolds ==
  ASSUME NEW c, NEW m, Str(m)
  PROVE  /\ WolfHolds(c, m) => c.lastBlkSz \in 0 .. HashRate - 1
         /\ OsslHolds(c, m) => c.lastBlkSz \in 0 .. HashRate - 1
BY HashCounter DEF WolfHolds, OsslHolds

\* The text with one more piece.
LEMMA TextMore ==
  ASSUME TextInv, NEW x \in TextChunks, Len(text) + Len(x) <= MaxText
  PROVE  Str(x) /\ Str(text \o x) /\ Len(text \o x) <= MaxText
<1>1. Str(x)
  BY BytesAssumption, StrOf
<1>2. Str(text) /\ Len(text \o x) = Len(text) + Len(x) /\ Str(text \o x)
  BY <1>1, StrConcat DEF TextInv
<1> QED BY <1>1, <1>2

\* The inner pad goes in before the first byte of the text.
LEMMA InnerKeyedHolds ==
  ASSUME HmacInv, stack = "wolfSSL", key # NONE
  PROVE  WolfHolds(InnerKeyed, Inner(key) \o text) /\ WolfKeyBlock = KeyBlock(key)
<1>1. WolfKeyBlock = KeyBlock(key)
  BY WolfKey DEF HmacInv, TextInv
<1>2. CASE keyed
  BY <1>1, <1>2 DEF InnerKeyed, HmacInv, WolfInv
<1>3. CASE ~keyed
  <2>1. PICK p : p = Inner(key)
    OBVIOUS
  <2>2. Str(p) /\ Str(<<>>) /\ <<>> \o p = p /\ p \o <<>> = p
    BY <2>1, KeyBlockIsString, StrEmpty, StrNeutral
  <2>3. InnerKeyed = Updated(ctx, p)
    BY <1>1, <1>3, <2>1 DEF InnerKeyed, Inner
  <2>4. WolfHolds(ctx, <<>>) /\ text = <<>>
    BY <1>3 DEF HmacInv, WolfInv
  <2>5. WolfHolds(Updated(ctx, p), <<>> \o p)
    BY <2>2, <2>4, WolfMore
  <2> QED BY <1>1, <2>1, <2>2, <2>3, <2>4, <2>5
<1> QED BY <1>2, <1>3

\* wc_HmacUpdate keeps the invariant.
LEMMA WolfUpdateStep ==
  ASSUME HmacInv, NEW x \in TextChunks, WolfUpdate(x)
  PROVE  HmacInv'
<1>1. /\ stack = "wolfSSL" /\ key # NONE /\ ctx' = Updated(InnerKeyed, x) /\ keyed' = TRUE
      /\ text' = text \o x /\ Len(text) + Len(x) <= MaxText
      /\ UNCHANGED <<stack, key, i_ctx, o_ctx, mac>>
  BY DEF WolfUpdate
<1>2. Str(x) /\ Str(text') /\ Len(text') <= MaxText
  BY <1>1, TextMore DEF HmacInv
<1>3. TextInv'
  BY <1>1, <1>2 DEF HmacInv, TextInv
<1>4. MacIsFormula'
  BY <1>1 DEF HmacInv, MacIsFormula
<1>5. OsslInv'
  BY <1>1 DEF OsslInv
<1>6. PICK p : p = Inner(key)
  OBVIOUS
<1>7. Str(p) /\ Str(text) /\ Str(p \o text)
  BY <1>6, KeyBlockIsString, StrConcat DEF HmacInv, TextInv
<1>8. WolfHolds(ctx', (p \o text) \o x)
  BY <1>1, <1>2, <1>6, <1>7, InnerKeyedHolds, WolfMore
<1>9. (p \o text) \o x = p \o text'
  <2>1. Associates(p, text, x)
    BY <1>2, <1>7, StrAssociative
  <2> QED BY <1>1, <2>1 DEF Associates
<1>10. WolfInv'
  BY <1>1, <1>6, <1>8, <1>9 DEF WolfInv
<1> QED BY <1>3, <1>4, <1>5, <1>10 DEF HmacInv

\* wc_HmacFinal computes the formula and leaves a context to start from.
LEMMA WolfFinalStep ==
  ASSUME HmacInv, WolfFinal
  PROVE  HmacInv'
<1> DEFINE inner == Squeezed(InnerKeyed)
           outer == Updated(Updated(Finished(InnerKeyed), XorBytes(WolfKeyBlock, OPAD)), inner)
<1>1. /\ stack = "wolfSSL" /\ key # NONE
      /\ mac' = [value |-> Squeezed(outer), key |-> key, text |-> text]
      /\ ctx' = Initialised /\ keyed' = FALSE /\ text' = <<>>
      /\ UNCHANGED <<stack, key, i_ctx, o_ctx>>
  BY DEF WolfFinal, Finished
<1>2. PICK p, q : p = Inner(key) /\ q = Outer(key)
  OBVIOUS
<1>3. Str(p) /\ Str(q) /\ Str(p \o text) /\ <<>> \o q = q /\ Str(<<>>)
  <2>1. Str(p) /\ Str(q) /\ Str(text)
    BY <1>2, KeyBlockIsString DEF HmacInv, TextInv
  <2> QED BY <2>1, StrConcat, StrNeutral, StrEmpty
<1>4. PICK d : d = OneShotHash(p \o text)
  OBVIOUS
<1>5. Str(d)
  BY <1>4, DigestIsString
<1>6. inner = d /\ XorBytes(WolfKeyBlock, OPAD) = q
  <2>1. WolfHolds(InnerKeyed, p \o text) /\ WolfKeyBlock = KeyBlock(key)
    BY <1>1, <1>2, InnerKeyedHolds
  <2> QED BY <1>2, <1>3, <1>4, <2>1, WolfDigest DEF Outer
<1>7. outer = Updated(Updated(Initialised, q), d)
  BY <1>6 DEF Finished
<1> HIDE DEF inner, outer
<1>8. WolfHolds(Updated(Initialised, q), q)
  <2>1. WolfHolds(Updated(Initialised, q), <<>> \o q)
    BY <1>3, WolfNothing, WolfMore
  <2> QED BY <1>3, <2>1
<1>9. WolfHolds(outer, q \o d) /\ Str(q \o d)
  BY <1>3, <1>5, <1>7, <1>8, WolfMore, StrConcat
<1>10. Squeezed(outer) = OneShotHash(q \o d)
  BY <1>9, WolfDigest
<1>11. Formula(key, text) = OneShotHash(q \o d)
  BY <1>2, <1>4 DEF Formula, Inner, Outer
<1>12. MacIsFormula'
  <2>1. mac'.value = Squeezed(outer) /\ mac'.key = key /\ mac'.text = text
    BY <1>1
  <2> QED BY <1>10, <1>11, <2>1 DEF MacIsFormula
<1>13. WolfInv'
  BY <1>1, WolfNothing DEF WolfInv
<1>14. OsslInv'
  BY <1>1 DEF OsslInv
<1>15. TextInv'
  <2>1. Str(<<>>) /\ Len(<<>>) <= MaxText
    BY StrEmpty, TextAssumption
  <2> QED BY <1>1, <2>1 DEF HmacInv, TextInv
<1> QED BY <1>12, <1>13, <1>14, <1>15 DEF HmacInv

----------------------------------------------------------------------------
\* Setting a key in wolfSSL hashes it in the context and starts that afresh.
LEMMA WolfSetKeyStep ==
  ASSUME HmacInv, NEW k \in Keys, WolfSetKey(k)
  PROVE  HmacInv'
<1>1. /\ stack = "wolfSSL" /\ key' = k /\ keyed' = FALSE /\ text' = <<>>
      /\ ctx' = Initialised /\ UNCHANGED <<stack, i_ctx, o_ctx, mac>>
  BY DEF WolfSetKey, Finished
<1>2. Str(<<>>) /\ Len(<<>>) <= MaxText
  BY StrEmpty, TextAssumption
<1>3. TextInv'
  BY <1>1, <1>2 DEF HmacInv, TextInv
<1>4. WolfInv'
  BY <1>1, WolfNothing DEF WolfInv
<1>5. OsslInv'
  BY <1>1 DEF OsslInv
<1>6. MacIsFormula'
  BY <1>1 DEF HmacInv, MacIsFormula
<1> QED BY <1>3, <1>4, <1>5, <1>6 DEF HmacInv

\* Setting a key in OpenSSL prepares the two padded states.
LEMMA OsslSetKeyStep ==
  ASSUME HmacInv, NEW k \in Keys, OsslSetKey(k)
  PROVE  HmacInv'
<1>1. /\ stack = "OpenSSL" /\ key' = k /\ keyed' = TRUE /\ text' = <<>>
      /\ i_ctx' = Behind(IPAD, k) /\ o_ctx' = Behind(OPAD, k) /\ ctx' = i_ctx'
      /\ UNCHANGED <<stack, mac>>
  BY DEF OsslSetKey
<1>2. Str(<<>>) /\ Len(<<>>) <= MaxText
  BY StrEmpty, TextAssumption
<1>3. TextInv'
  BY <1>1, <1>2 DEF HmacInv, TextInv
<1>4. OsslInv'
  <2>1. Str(Inner(k)) /\ Inner(k) \o <<>> = Inner(k)
    BY KeyBlockIsString, StrNeutral
  <2>2. OsslHolds(i_ctx', Inner(k)) /\ OsslHolds(o_ctx', Outer(k))
    BY <1>1, OsslKey
  <2>3. ctx'.lastBlkSz \in 0 .. HashRate - 1
    BY <1>1, <2>1, <2>2, CounterHolds
  <2>4. k # NONE
    BY NoneAssumption
  <2> QED BY <1>1, <2>1, <2>2, <2>3, <2>4 DEF OsslInv
<1>5. WolfInv'
  BY <1>1 DEF WolfInv
<1>6. MacIsFormula'
  BY <1>1 DEF HmacInv, MacIsFormula
<1> QED BY <1>3, <1>4, <1>5, <1>6 DEF HmacInv

\* So does starting again under the key that is set.
LEMMA OsslRestartStep ==
  ASSUME HmacInv, OsslRestart
  PROVE  HmacInv'
<1>1. /\ stack = "OpenSSL" /\ key # NONE /\ keyed' = TRUE /\ text' = <<>> /\ ctx' = i_ctx
      /\ UNCHANGED <<stack, key, i_ctx, o_ctx, mac>>
  BY DEF OsslRestart
<1>2. Str(<<>>) /\ Len(<<>>) <= MaxText
  BY StrEmpty, TextAssumption
<1>3. TextInv'
  BY <1>1, <1>2 DEF HmacInv, TextInv
<1>4. OsslInv'
  <2>1. Str(Inner(key)) /\ Inner(key) \o <<>> = Inner(key)
    BY KeyBlockIsString, StrNeutral
  <2>2. OsslHolds(i_ctx, Inner(key)) /\ OsslHolds(o_ctx, Outer(key))
    BY <1>1 DEF HmacInv, OsslInv
  <2>3. ctx'.lastBlkSz \in 0 .. HashRate - 1
    BY <1>1, <2>1, <2>2, CounterHolds
  <2> QED BY <1>1, <2>1, <2>2, <2>3 DEF OsslInv
<1>5. WolfInv'
  BY <1>1 DEF WolfInv
<1>6. MacIsFormula'
  BY <1>1 DEF HmacInv, MacIsFormula
<1> QED BY <1>3, <1>4, <1>5, <1>6 DEF HmacInv

\* An update in OpenSSL.
LEMMA OsslUpdateStep ==
  ASSUME HmacInv, NEW x \in TextChunks, OsslUpdate(x)
  PROVE  HmacInv'
<1>1. /\ stack = "OpenSSL" /\ keyed /\ ctx' = ascon_hash256_core_update(ctx, x)
      /\ text' = text \o x /\ Len(text) + Len(x) <= MaxText
      /\ UNCHANGED <<stack, key, keyed, i_ctx, o_ctx, mac>>
  BY DEF OsslUpdate
<1>2. Str(x) /\ Str(text') /\ Len(text') <= MaxText
  BY <1>1, TextMore DEF HmacInv
<1>3. TextInv'
  BY <1>1, <1>2 DEF HmacInv, TextInv
<1>4. PICK p : p = Inner(key)
  OBVIOUS
<1>5. Str(p) /\ Str(text) /\ Str(p \o text) /\ Str(p \o text')
  BY <1>2, <1>4, KeyBlockIsString, StrConcat DEF HmacInv, TextInv
<1>6. OsslHolds(ctx, p \o text)
  BY <1>1, <1>4 DEF HmacInv, OsslInv
<1>7. OsslHolds(ctx', (p \o text) \o x)
  BY <1>1, <1>2, <1>5, <1>6, OsslMore
<1>8. (p \o text) \o x = p \o text'
  <2>1. Associates(p, text, x)
    BY <1>2, <1>5, StrAssociative
  <2> QED BY <1>1, <2>1 DEF Associates
<1>9. OsslInv'
  <2>1. OsslHolds(ctx', p \o text')
    BY <1>7, <1>8
  <2>2. ctx'.lastBlkSz \in 0 .. HashRate - 1
    BY <1>5, <2>1, CounterHolds
  <2> QED BY <1>1, <1>4, <2>1, <2>2 DEF HmacInv, OsslInv
<1>10. WolfInv'
  BY <1>1 DEF WolfInv
<1>11. MacIsFormula'
  BY <1>1 DEF HmacInv, MacIsFormula
<1> QED BY <1>3, <1>9, <1>10, <1>11 DEF HmacInv

\* The MAC of OpenSSL is the formula; no update may follow it.
LEMMA OsslFinalStep ==
  ASSUME HmacInv, OsslFinal
  PROVE  HmacInv'
<1> DEFINE inner == ascon_hash256_core_final(ctx)
           outer == ascon_hash256_core_update(o_ctx, inner)
<1>1. /\ stack = "OpenSSL" /\ keyed /\ keyed' = FALSE /\ text' = <<>>
      /\ mac' = [value |-> ascon_hash256_core_final(outer), key |-> key, text |-> text]
      /\ ctx' = AfterCoreFinal(outer)
      /\ UNCHANGED <<stack, key, i_ctx, o_ctx>>
  BY DEF OsslFinal
<1>2. PICK p, q : p = Inner(key) /\ q = Outer(key)
  OBVIOUS
<1>3. Str(p) /\ Str(q) /\ Str(p \o text)
  BY <1>2, KeyBlockIsString, StrConcat DEF HmacInv, TextInv
<1>4. PICK d : d = OneShotHash(p \o text)
  OBVIOUS
<1>5. Str(d) /\ Str(q \o d)
  BY <1>3, <1>4, DigestIsString, StrConcat
<1>6. OsslHolds(ctx, p \o text) /\ OsslHolds(o_ctx, q)
  BY <1>1, <1>2 DEF HmacInv, OsslInv
<1>7. inner = d
  BY <1>3, <1>4, <1>6, OsslDigest
<1>8. OsslHolds(outer, q \o d)
  BY <1>3, <1>5, <1>6, <1>7, OsslMore
<1> HIDE DEF inner, outer
<1>9. ascon_hash256_core_final(outer) = OneShotHash(q \o d)
  BY <1>5, <1>8, OsslDigest
<1>10. Formula(key, text) = OneShotHash(q \o d)
  BY <1>2, <1>4 DEF Formula, Inner, Outer
<1>11. MacIsFormula'
  <2>1. /\ mac'.value = ascon_hash256_core_final(outer)
        /\ mac'.key = key /\ mac'.text = text
    BY <1>1
  <2> QED BY <1>9, <1>10, <2>1 DEF MacIsFormula
<1>12. OsslInv'
  <2>1. ctx'.lastBlkSz = outer.lastBlkSz
    BY <1>1 DEF AfterCoreFinal
  <2>2. ctx'.lastBlkSz \in 0 .. HashRate - 1
    BY <1>5, <1>8, <2>1, CounterHolds
  <2> QED BY <1>1, <2>2 DEF HmacInv, OsslInv
<1>13. WolfInv'
  BY <1>1 DEF WolfInv
<1>14. TextInv'
  <2>1. Str(<<>>) /\ Len(<<>>) <= MaxText
    BY StrEmpty, TextAssumption
  <2> QED BY <1>1, <2>1 DEF HmacInv, TextInv
<1> QED BY <1>11, <1>12, <1>13, <1>14 DEF HmacInv

\* The invariant is inductive.
LEMMA HmacInvStep == HmacInv /\ [HmacNext]_hmacVars => HmacInv'
<1> SUFFICES ASSUME HmacInv, [HmacNext]_hmacVars PROVE HmacInv'
  OBVIOUS
<1>1. ASSUME NEW k \in Keys, WolfSetKey(k) PROVE HmacInv'
  BY <1>1, WolfSetKeyStep
<1>2. ASSUME NEW k \in Keys, OsslSetKey(k) PROVE HmacInv'
  BY <1>2, OsslSetKeyStep
<1>3. ASSUME NEW x \in TextChunks, WolfUpdate(x) PROVE HmacInv'
  BY <1>3, WolfUpdateStep
<1>4. ASSUME NEW x \in TextChunks, OsslUpdate(x) PROVE HmacInv'
  BY <1>4, OsslUpdateStep
<1>5. CASE WolfFinal
  BY <1>5, WolfFinalStep
<1>6. CASE OsslFinal
  BY <1>6, OsslFinalStep
<1>7. CASE OsslRestart
  BY <1>7, OsslRestartStep
<1>8. CASE UNCHANGED hmacVars
  BY <1>8 DEF hmacVars, HmacInv, TextInv, WolfInv, OsslInv, MacIsFormula
<1> QED BY <1>1, <1>2, <1>3, <1>4, <1>5, <1>6, <1>7, <1>8 DEF HmacNext

\* It bounds the counter of the running context, whatever stack runs.
LEMMA HmacInvType == HmacInv => HmacTypeOK
<1> SUFFICES ASSUME HmacInv PROVE HmacTypeOK
  OBVIOUS
<1>1. ASSUME key # NONE PROVE ctx.lastBlkSz \in 0 .. HashRate - 1
  <2>1. CASE stack = "OpenSSL"
    BY <1>1, <2>1 DEF HmacInv, OsslInv
  <2>2. CASE stack = "wolfSSL"
    <3>1. Str(<<>>) /\ Str(Inner(key) \o text)
      BY KeyBlockIsString, StrEmpty, StrConcat DEF HmacInv, TextInv
    <3>2. WolfHolds(ctx, <<>>) \/ WolfHolds(ctx, Inner(key) \o text)
      BY <1>1, <2>2 DEF HmacInv, WolfInv
    <3> QED BY <3>1, <3>2, CounterHolds
  <2> QED BY <2>1, <2>2, StackAssumption DEF HmacInv, TextInv
<1> QED BY <1>1 DEF HmacInv, TextInv, HmacTypeOK

----------------------------------------------------------------------------
\* No hash context of either stack ever holds a whole block: the pad byte of
\* the final falls inside the rate.
THEOREM HmacTypeCorrect == HmacSpec => []HmacTypeOK
<1>1. HmacInit => HmacInv
  BY HmacInvInit
<1>2. HmacInv /\ [HmacNext]_hmacVars => HmacInv'
  BY HmacInvStep
<1>3. HmacInv => HmacTypeOK
  BY HmacInvType
<1> QED BY <1>1, <1>2, <1>3, PTL DEF HmacSpec

\* Whatever keys, texts and chunks: the MAC of either stack is the formula of
\* the oracle over the one-shot hash.
THEOREM HmacMacIsFormula == HmacSpec => []MacIsFormula
<1>1. HmacInit => HmacInv
  BY HmacInvInit
<1>2. HmacInv /\ [HmacNext]_hmacVars => HmacInv'
  BY HmacInvStep
<1>3. HmacInv => MacIsFormula
  BY DEF HmacInv
<1> QED BY <1>1, <1>2, <1>3, PTL DEF HmacSpec
=============================================================================

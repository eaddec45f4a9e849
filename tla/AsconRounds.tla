----------------------------- MODULE AsconRounds -----------------------------
(***************************************************************************)
(* The rounds of the Ascon permutation in wolfcrypt/src/ascon.c, bit for   *)
(* bit.  AsconSponge takes the permutation as ideal; here its content      *)
(* matters, because wolfCrypt has two builds of it that must agree: on     *)
(* five 64-bit words and, WOLFSSL_ASCON_32BIT, on ten 32-bit ones.         *)
(*                                                                         *)
(* A word is the set of its set bits.                                      *)
(***************************************************************************)
EXTENDS Integers, Sequences

Lanes == 0 .. 4
Width == 64
Word == 0 .. Width - 1

\* Set bits of a byte.
BitsOf(n) == {b \in 0 .. 7 : (n \div 2^b) % 2 = 1}

ascon_round_constants ==
  [r \in 0 .. 11 |->
     BitsOf(<<\hf0, \he1, \hd2, \hc3, \hb4, \ha5,
              \h96, \h87, \h78, \h69, \h5a, \h4b>>[r + 1])]

x (+) y == (x \ y) \cup (y \ x)         \* exclusive or

\* ~x & y for words x of the bits W
AndNot(W, x, y) == (W \ x) \cap y

----------------------------------------------------------------------------
ConstantLayer(x, c) == [x EXCEPT ![2] = @ (+) c]

\* Five words of the bits W, one S-box per bit.
SubstitutionLayer(W, x) ==
  LET x0 == x[0] (+) x[4]
      x4 == x[4] (+) x[3]
      x2 == x[2] (+) x[1]
      t0 == x0 (+) AndNot(W, x[1], x2)
      t1 == x[1] (+) AndNot(W, x2, x[3])
      t2 == x2 (+) AndNot(W, x[3], x4)
      t3 == x[3] (+) AndNot(W, x4, x0)
      t4 == x4 (+) AndNot(W, x0, x[1])
  IN  [k \in Lanes |-> CASE k = 0 -> t0 (+) t4
                         [] k = 1 -> t1 (+) t0
                         [] k = 2 -> W \ t2
                         [] k = 3 -> t3 (+) t2
                         [] k = 4 -> t4]

\* Bit b of the result is bit b + n of w.
rotrFixed64(w, n) == {b \in Word : (b + n) % Width \in w}

Diffuse(w, m, n) == w (+) rotrFixed64(w, m) (+) rotrFixed64(w, n)

DiffusionLayer(t) ==
  [k \in Lanes |-> CASE k = 0 -> Diffuse(t[0], 19, 28)
                     [] k = 1 -> Diffuse(t[1], 61, 39)
                     [] k = 2 -> Diffuse(t[2], 1, 6)
                     [] k = 3 -> Diffuse(t[3], 10, 17)
                     [] k = 4 -> Diffuse(t[4], 7, 41)]

ascon_round(x, r) ==
  DiffusionLayer(SubstitutionLayer(Word, ConstantLayer(x, ascon_round_constants[r])))

----------------------------------------------------------------------------
\* Half words: x >> n and x << n of a word32.
Half == 0 .. 31

\* Slip: the shifted value is kept in a wider type.
ShlWide(w, n) == {b \in Word : b - n \in w}

Shr(w, n) == {b \in Half : b + n \in w}
Shl(w, n) == {b \in Half : b - n \in w}

\* One half of every lane: t are the halves computed, o the other ones.
DiffuseHalf(t, o) ==
  [k \in Lanes |->
     CASE k = 0 -> t[0] (+) Shr(t[0], 19) (+) Shr(t[0], 28) (+) Shl(o[0], 13) (+) Shl(o[0], 4)
       [] k = 1 -> t[1] (+) Shr(o[1], 29) (+) Shl(t[1], 3) (+) Shr(o[1], 7) (+) Shl(t[1], 25)
       [] k = 2 -> t[2] (+) Shr(t[2], 1) (+) Shr(t[2], 6) (+) Shl(o[2], 31) (+) Shl(o[2], 26)
       [] k = 3 -> t[3] (+) Shr(t[3], 10) (+) Shr(t[3], 17) (+) Shl(o[3], 22) (+) Shl(o[3], 15)
       [] k = 4 -> t[4] (+) Shr(t[4], 7) (+) Shl(o[4], 25) (+) Shr(o[4], 9) (+) Shl(t[4], 23)]

\* Slip: the low words are stored before the high ones are computed.
P32_ROUNDInPlace(l, h, r) ==
  LET tl == SubstitutionLayer(Half, ConstantLayer(l, ascon_round_constants[r]))
      th == SubstitutionLayer(Half, h)
  IN  [low |-> DiffuseHalf(tl, th), high |-> DiffuseHalf(th, DiffuseHalf(tl, th))]

\* The constant goes into the low word of lane 2 only.
P32_ROUND(l, h, r) ==
  LET tl == SubstitutionLayer(Half, ConstantLayer(l, ascon_round_constants[r]))
      th == SubstitutionLayer(Half, h)
  IN  [low |-> DiffuseHalf(tl, th), high |-> DiffuseHalf(th, tl)]
=============================================================================

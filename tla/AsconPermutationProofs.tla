----------------------- MODULE AsconPermutationProofs -----------------------
(***************************************************************************)
(* The permutations of the code are one function, for every state: the     *)
(* 32-bit build of wolfCrypt's implements the 64-bit one, and so does the  *)
(* provider's.                                                             *)
(***************************************************************************)
EXTENDS OsslPermutation, SequenceTheorems, TLAPS

----------------------------------------------------------------------------
(* Bitwise operations and shifts, on halves and on the joined word.        *)

\* Xor of two halves each is xor of the words they join to.
LEMMA JoinXor ==
  ASSUME NEW a, NEW b, NEW c, NEW d
  PROVE  JoinWord(a (+) c, b (+) d) = JoinWord(a, b) (+) JoinWord(c, d)
BY DEF JoinWord, (+)

\* The same of and-not.
LEMMA JoinAndNot ==
  ASSUME NEW a, NEW b, NEW c, NEW d
  PROVE  JoinWord(AndNot(Half, a, c), AndNot(Half, b, d))
           = AndNot(Word, JoinWord(a, b), JoinWord(c, d))
BY DEF JoinWord, AndNot, Half, Word, Width

\* And of complement.
LEMMA JoinNot ==
  ASSUME NEW a, NEW b
  PROVE  JoinWord(Half \ a, Half \ b) = Word \ JoinWord(a, b)
BY DEF JoinWord, Half, Word, Width

\* Which half a bit of a word lies in.
LEMMA InJoin ==
  ASSUME NEW a, NEW b, NEW u \in Word
  PROVE  u \in JoinWord(a, b) <=> IF u < 32 THEN u \in a ELSE u - 32 \in b
BY DEF JoinWord

\* A round constant goes into the low half.
LEMMA JoinConstant ==
  ASSUME NEW a, NEW b, NEW c \in SUBSET (0 .. 7)
  PROVE  JoinWord(a (+) c, b) = JoinWord(a, b) (+) c
<1>1. JoinWord(a (+) c, b) \subseteq Word /\ JoinWord(a, b) (+) c \subseteq Word
  <2>1. \A x, y : JoinWord(x, y) \subseteq Word
    BY DEF JoinWord
  <2>2. c \subseteq Word
    BY DEF Word, Width
  <2>3. QED  BY <2>1, <2>2 DEF (+)
<1>2. ASSUME NEW u \in Word
      PROVE  u \in JoinWord(a (+) c, b) <=> u \in JoinWord(a, b) (+) c
  <2>1. u \in c => u < 32
    BY DEF Word, Width
  <2>2. u \in JoinWord(a, b) (+) c <=> (u \in JoinWord(a, b)) # (u \in c)
    BY DEF (+)
  <2>3. u \in a (+) c <=> (u \in a) # (u \in c)
    BY DEF (+)
  <2>4. QED  BY <2>1, <2>2, <2>3, InJoin
<1>3. QED  BY <1>1, <1>2

\* Round constants have eight bits.
LEMMA RoundConstant ==
  ASSUME NEW q \in 0 .. 11
  PROVE  ascon_round_constants[q] \in SUBSET (0 .. 7)
BY DEF ascon_round_constants, BitsOf

\* Where a rotation takes a bit.
LEMMA Turn ==
  ASSUME NEW e \in Word, NEW n \in 0 .. 63
  PROVE  (e + n) % Width = IF e + n < 64 THEN e + n ELSE e + n - 64
BY DEF Word, Width

\* Two shifts of two halves make one half of a rotation below 32.
LEMMA InShifts ==
  ASSUME NEW a \in SUBSET Half, NEW b \in SUBSET Half, NEW n \in 1 .. 31, NEW e \in Half
  PROVE  e \in Shr(a, n) (+) Shl(b, 32 - n)
           <=> IF e + n < 32 THEN e + n \in a ELSE e + n - 32 \in b
<1>1. CASE e + n < 32
  <2>1. e - (32 - n) \notin b  BY <1>1 DEF Half
  <2>2. e \in Shr(a, n) <=> e + n \in a  BY DEF Shr
  <2>3. e \notin Shl(b, 32 - n)  BY <2>1 DEF Shl
  <2>4. QED  BY <1>1, <2>2, <2>3 DEF (+)
<1>2. CASE ~ e + n < 32
  <2>1. e + n \notin a  BY <1>2 DEF Half
  <2>2. e - (32 - n) = e + n - 32  BY DEF Half
  <2>3. e \notin Shr(a, n)  BY <2>1 DEF Shr
  <2>4. e \in Shl(b, 32 - n) <=> e + n - 32 \in b  BY <2>2 DEF Shl
  <2>5. QED  BY <1>2, <2>3, <2>4 DEF (+)
<1>3. QED  BY <1>1, <1>2

\* A rotation by less than a word, and by a word and a part of one.
LEMMA RotateLess ==
  ASSUME NEW a \in SUBSET Half, NEW b \in SUBSET Half, NEW n \in 1 .. 31
  PROVE  rotrFixed64(JoinWord(a, b), n)
           = JoinWord(Shr(a, n) (+) Shl(b, 32 - n), Shr(b, n) (+) Shl(a, 32 - n))
<1> DEFINE R == rotrFixed64(JoinWord(a, b), n)
           J == JoinWord(Shr(a, n) (+) Shl(b, 32 - n), Shr(b, n) (+) Shl(a, 32 - n))
<1>1. ASSUME NEW e \in Word
      PROVE  e \in R <=> e \in J
  <2>1. PICK u \in Word : u = (e + n) % Width /\ u = IF e + n < 64 THEN e + n ELSE e + n - 64
    BY Turn DEF Word, Width
  <2>2. e \in R <=> IF u < 32 THEN u \in a ELSE u - 32 \in b
    BY <2>1, InJoin DEF rotrFixed64
  <2>3. CASE e < 32
    <3>1. e \in Half  BY <2>3 DEF Half, Word, Width
    <3>2. e \in J <=> IF e + n < 32 THEN e + n \in a ELSE e + n - 32 \in b
      BY <2>3, <3>1, InShifts, InJoin
    <3>3. u = e + n  BY <2>1, <2>3 DEF Word, Width
    <3>4. QED  BY <2>2, <3>2, <3>3
  <2>4. CASE ~ e < 32
    <3>1. PICK f \in Half : f = e - 32  BY <2>4 DEF Half, Word, Width
    <3>2. e \in J <=> IF f + n < 32 THEN f + n \in b ELSE f + n - 32 \in a
      BY <2>4, <3>1, InShifts, InJoin
    <3>3. IF f + n < 32 THEN ~ u < 32 /\ u - 32 = f + n ELSE u < 32 /\ u = f + n - 32
      BY <2>1, <2>4, <3>1 DEF Word, Width, Half
    <3>4. QED  BY <2>2, <3>2, <3>3
  <2>5. QED  BY <2>3, <2>4
<1>2. R \subseteq Word /\ J \subseteq Word
  BY DEF rotrFixed64, JoinWord
<1>3. QED  BY <1>1, <1>2

\* A rotation by n + 32 is one by n with the halves swapped.
LEMMA RotateWord ==
  ASSUME NEW a \in SUBSET Half, NEW b \in SUBSET Half, NEW n \in 1 .. 31
  PROVE  rotrFixed64(JoinWord(a, b), n + 32) = rotrFixed64(JoinWord(b, a), n)
<1>1. ASSUME NEW e \in Word
      PROVE  e \in rotrFixed64(JoinWord(a, b), n + 32) <=> e \in rotrFixed64(JoinWord(b, a), n)
  <2> DEFINE f == (e + (n + 32)) % Width
             g == (e + n) % Width
  <2>1. f \in Word /\ g \in Word /\ (IF g < 32 THEN f = g + 32 ELSE f = g - 32)
    <3>1. e \in 0 .. 63
      BY DEF Word, Width
    <3>2. n \in 0 .. 63
      OBVIOUS
    <3>3. n + 32 \in 0 .. 63
      OBVIOUS
    <3>4. g = IF e + n < 64 THEN e + n ELSE e + n - 64
      BY <3>2, Turn
    <3>5. f = IF e + (n + 32) < 64 THEN e + (n + 32) ELSE e + (n + 32) - 64
      BY <3>3, Turn
    <3> HIDE DEF f, g
    <3>6. QED
      BY <3>1, <3>4, <3>5 DEF Word, Width
  <2>2. f \in JoinWord(a, b) <=> g \in JoinWord(b, a)
    BY <2>1 DEF JoinWord, Word, Width
  <2>3. QED  BY <2>2 DEF rotrFixed64
<1>2. QED  BY <1>1 DEF rotrFixed64

----------------------------------------------------------------------------
(* The layers of a round.                                                  *)

Halves == [Lanes -> SUBSET Half]

\* The S-box on a half leaves a half.
LEMMA SubstitutionIsHalf ==
  ASSUME NEW l \in Halves
  PROVE  SubstitutionLayer(Half, l) \in Halves
BY DEF SubstitutionLayer, Halves, Lanes, AndNot, (+)

\* The S-box on both halves is the S-box on the words.
LEMMA SubstitutionJoins ==
  ASSUME NEW l \in Halves, NEW h \in Halves
  PROVE  Join(SubstitutionLayer(Half, l), SubstitutionLayer(Half, h))
           = SubstitutionLayer(Word, Join(l, h))
<1> DEFINE s == SubstitutionLayer(Half, l)
           t == SubstitutionLayer(Half, h)
           w == SubstitutionLayer(Word, Join(l, h))
<1>1. \A k \in Lanes : Join(l, h)[k] = JoinWord(l[k], h[k])
  BY DEF Join
<1> DEFINE A(k) == JoinWord(l[k], h[k])
<1>2. /\ Join(l, h)[0] = A(0) /\ Join(l, h)[1] = A(1) /\ Join(l, h)[2] = A(2)
      /\ Join(l, h)[3] = A(3) /\ Join(l, h)[4] = A(4)
  BY <1>1 DEF Lanes
<1> DEFINE x0 == JoinWord(l[0] (+) l[4], h[0] (+) h[4])
           x4 == JoinWord(l[4] (+) l[3], h[4] (+) h[3])
           x2 == JoinWord(l[2] (+) l[1], h[2] (+) h[1])
<1>3. x0 = A(0) (+) A(4) /\ x4 = A(4) (+) A(3) /\ x2 = A(2) (+) A(1)
  <2>1. x0 = A(0) (+) A(4)  BY JoinXor
  <2>2. x4 = A(4) (+) A(3)  BY JoinXor
  <2>3. x2 = A(2) (+) A(1)  BY JoinXor
  <2>4. QED  BY <2>1, <2>2, <2>3
<1>4. JoinWord(s[4], t[4]) = w[4]
  BY <1>2, <1>3, JoinXor, JoinAndNot DEF SubstitutionLayer, Lanes
<1>5. JoinWord(s[0], t[0]) = w[0]
  BY <1>2, <1>3, JoinXor, JoinAndNot DEF SubstitutionLayer, Lanes
<1>6. JoinWord(s[1], t[1]) = w[1]
  BY <1>2, <1>3, JoinXor, JoinAndNot DEF SubstitutionLayer, Lanes
<1>7. JoinWord(s[2], t[2]) = w[2]
  <2> DEFINE u == (l[2] (+) l[1]) (+) AndNot(Half, l[3], l[4] (+) l[3])
             v == (h[2] (+) h[1]) (+) AndNot(Half, h[3], h[4] (+) h[3])
  <2>1. JoinWord(u, v) = x2 (+) AndNot(Word, A(3), x4)
    BY JoinXor, JoinAndNot
  <2>2. JoinWord(s[2], t[2]) = Word \ JoinWord(u, v)
    BY JoinNot DEF SubstitutionLayer, Lanes
  <2>3. w[2] = Word \ (x2 (+) AndNot(Word, A(3), x4))
    BY <1>2, <1>3 DEF SubstitutionLayer, Lanes
  <2>4. QED  BY <2>1, <2>2, <2>3
<1>8. JoinWord(s[3], t[3]) = w[3]
  BY <1>2, <1>3, JoinXor, JoinAndNot DEF SubstitutionLayer, Lanes
<1>9. \A k \in Lanes : JoinWord(s[k], t[k]) = w[k]
  BY <1>4, <1>5, <1>6, <1>7, <1>8 DEF Lanes
<1>10. [k \in Lanes |-> JoinWord(s[k], t[k])] = w
  <2> HIDE DEF s, t
  <2>1. QED  BY <1>9 DEF SubstitutionLayer
<1>11. QED  BY <1>10 DEF Join

\* Shifts leave a half.
LEMMA ShiftsAreHalves ==
  ASSUME NEW a, NEW n
  PROVE  Shr(a, n) \in SUBSET Half /\ Shl(a, n) \in SUBSET Half
BY DEF Shr, Shl

\* So does xor.
LEMMA XorIsHalf ==
  ASSUME NEW a \in SUBSET Half, NEW b \in SUBSET Half
  PROVE  a (+) b \in SUBSET Half
BY DEF (+)

\* The xors of the diffusion layer, grouped as the 32-bit code writes them.
LEMMA XorGroups ==
  ASSUME NEW a, NEW p, NEW q, NEW u, NEW v
  PROVE  /\ a (+) (p (+) q) (+) (u (+) v) = a (+) p (+) q (+) u (+) v
         /\ a (+) (p (+) q) (+) (u (+) v) = a (+) p (+) u (+) q (+) v
BY DEF (+)

\* Both rotations of one lane, from what they are on halves.
LEMMA DiffuseJoin ==
  ASSUME NEW a, NEW b, NEW m, NEW n, NEW p, NEW q, NEW u, NEW v,
         rotrFixed64(JoinWord(a, b), m) = JoinWord(p, q),
         rotrFixed64(JoinWord(a, b), n) = JoinWord(u, v)
  PROVE  Diffuse(JoinWord(a, b), m, n) = JoinWord(a (+) p (+) u, b (+) q (+) v)
BY JoinXor DEF Diffuse

\* Diffusion on both halves is diffusion on the words.
LEMMA DiffusionJoins ==
  ASSUME NEW l \in Halves, NEW h \in Halves
  PROVE  /\ DiffuseHalf(l, h) \in Halves
         /\ Join(DiffuseHalf(l, h), DiffuseHalf(h, l)) = DiffusionLayer(Join(l, h))
<1> DEFINE D(k) == JoinWord(DiffuseHalf(l, h)[k], DiffuseHalf(h, l)[k])
<1>1. DiffuseHalf(l, h) \in Halves
  BY ShiftsAreHalves, XorIsHalf DEF DiffuseHalf, Halves, Lanes
<1>2. \A k \in Lanes : l[k] \in SUBSET Half /\ h[k] \in SUBSET Half
  BY DEF Halves
<1>3. \A k \in Lanes : \A n \in 1 .. 31 :
        /\ rotrFixed64(JoinWord(l[k], h[k]), n)
             = JoinWord(Shr(l[k], n) (+) Shl(h[k], 32 - n), Shr(h[k], n) (+) Shl(l[k], 32 - n))
        /\ rotrFixed64(JoinWord(l[k], h[k]), n + 32)
             = JoinWord(Shr(h[k], n) (+) Shl(l[k], 32 - n), Shr(l[k], n) (+) Shl(h[k], 32 - n))
  BY <1>2, RotateLess, RotateWord
<1>4. D(0) = Diffuse(JoinWord(l[0], h[0]), 19, 28)
  <2>1. rotrFixed64(JoinWord(l[0], h[0]), 19)
          = JoinWord(Shr(l[0], 19) (+) Shl(h[0], 13), Shr(h[0], 19) (+) Shl(l[0], 13))
    BY <1>3 DEF Lanes
  <2>2. rotrFixed64(JoinWord(l[0], h[0]), 28)
          = JoinWord(Shr(l[0], 28) (+) Shl(h[0], 4), Shr(h[0], 28) (+) Shl(l[0], 4))
    BY <1>3 DEF Lanes
  <2>3. QED  BY <2>1, <2>2, DiffuseJoin, XorGroups DEF DiffuseHalf, Lanes
<1>5. D(1) = Diffuse(JoinWord(l[1], h[1]), 61, 39)
  <2>1. rotrFixed64(JoinWord(l[1], h[1]), 61)
          = JoinWord(Shr(h[1], 29) (+) Shl(l[1], 3), Shr(l[1], 29) (+) Shl(h[1], 3))
    BY <1>3 DEF Lanes
  <2>2. rotrFixed64(JoinWord(l[1], h[1]), 39)
          = JoinWord(Shr(h[1], 7) (+) Shl(l[1], 25), Shr(l[1], 7) (+) Shl(h[1], 25))
    BY <1>3 DEF Lanes
  <2>3. QED  BY <2>1, <2>2, DiffuseJoin, XorGroups DEF DiffuseHalf, Lanes
<1>6. D(2) = Diffuse(JoinWord(l[2], h[2]), 1, 6)
  <2>1. rotrFixed64(JoinWord(l[2], h[2]), 1)
          = JoinWord(Shr(l[2], 1) (+) Shl(h[2], 31), Shr(h[2], 1) (+) Shl(l[2], 31))
    BY <1>3 DEF Lanes
  <2>2. rotrFixed64(JoinWord(l[2], h[2]), 6)
          = JoinWord(Shr(l[2], 6) (+) Shl(h[2], 26), Shr(h[2], 6) (+) Shl(l[2], 26))
    BY <1>3 DEF Lanes
  <2>3. QED  BY <2>1, <2>2, DiffuseJoin, XorGroups DEF DiffuseHalf, Lanes
<1>7. D(3) = Diffuse(JoinWord(l[3], h[3]), 10, 17)
  <2>1. rotrFixed64(JoinWord(l[3], h[3]), 10)
          = JoinWord(Shr(l[3], 10) (+) Shl(h[3], 22), Shr(h[3], 10) (+) Shl(l[3], 22))
    BY <1>3 DEF Lanes
  <2>2. rotrFixed64(JoinWord(l[3], h[3]), 17)
          = JoinWord(Shr(l[3], 17) (+) Shl(h[3], 15), Shr(h[3], 17) (+) Shl(l[3], 15))
    BY <1>3 DEF Lanes
  <2>3. QED  BY <2>1, <2>2, DiffuseJoin, XorGroups DEF DiffuseHalf, Lanes
<1>8. D(4) = Diffuse(JoinWord(l[4], h[4]), 7, 41)
  <2>1. rotrFixed64(JoinWord(l[4], h[4]), 7)
          = JoinWord(Shr(l[4], 7) (+) Shl(h[4], 25), Shr(h[4], 7) (+) Shl(l[4], 25))
    BY <1>3 DEF Lanes
  <2>2. rotrFixed64(JoinWord(l[4], h[4]), 41)
          = JoinWord(Shr(h[4], 9) (+) Shl(l[4], 23), Shr(l[4], 9) (+) Shl(h[4], 23))
    BY <1>3 DEF Lanes
  <2>3. QED  BY <2>1, <2>2, DiffuseJoin, XorGroups DEF DiffuseHalf, Lanes
<1>9. \A k \in Lanes : D(k) = DiffusionLayer(Join(l, h))[k]
  BY <1>4, <1>5, <1>6, <1>7, <1>8 DEF DiffusionLayer, Join, Lanes
<1>10. Join(DiffuseHalf(l, h), DiffuseHalf(h, l)) = [k \in Lanes |-> D(k)]
  BY DEF Join
<1>11. [k \in Lanes |-> D(k)] = DiffusionLayer(Join(l, h))
  <2> HIDE DEF D
  <2>1. \A k \in Lanes : D(k) = DiffusionLayer(Join(l, h))[k]
    BY <1>9
  <2>2. QED  BY <2>1 DEF DiffusionLayer
<1>12. QED  BY <1>1, <1>10, <1>11

\* A round of the 32-bit build is a round of the 64-bit one.
LEMMA RoundJoins ==
  ASSUME NEW l \in Halves, NEW h \in Halves, NEW q \in 0 .. 11
  PROVE  /\ P32_ROUND(l, h, q).low \in Halves
         /\ P32_ROUND(l, h, q).high \in Halves
         /\ Join(P32_ROUND(l, h, q).low, P32_ROUND(l, h, q).high) = ascon_round(Join(l, h), q)
<1> DEFINE c == ascon_round_constants[q]
           lc == ConstantLayer(l, c)
<1>1. c \in SUBSET (0 .. 7)
  BY RoundConstant
<1>2. lc \in Halves
  BY <1>1 DEF ConstantLayer, Halves, Lanes, Half, (+)
<1>3. Join(lc, h) = ConstantLayer(Join(l, h), c)
  <2>1. \A k \in Lanes : k # 2 => JoinWord(lc[k], h[k]) = ConstantLayer(Join(l, h), c)[k]
    BY DEF ConstantLayer, Halves, Join
  <2>2. JoinWord(lc[2], h[2]) = ConstantLayer(Join(l, h), c)[2]
    BY <1>1, JoinConstant DEF ConstantLayer, Halves, Join, Lanes
  <2>3. \A k \in Lanes : JoinWord(lc[k], h[k]) = ConstantLayer(Join(l, h), c)[k]
    BY <2>1, <2>2
  <2>4. QED  BY <2>3 DEF ConstantLayer, Join
<1>4. QED  BY <1>2, <1>3, SubstitutionIsHalf, SubstitutionJoins, DiffusionJoins
           DEF P32_ROUND, ascon_round

----------------------------------------------------------------------------
(* The refinement.                                                         *)

\* The rounds from k on.
From(k) == [j \in 1 .. 12 - k |-> k + j - 1]

Inv == TypeOK /\ \E k \in 0 .. 12 : todo = From(k)

\* What is left of the rounds.
LEMMA Rest ==
  ASSUME NEW k \in 0 .. 12
  PROVE  /\ Len(From(k)) = 12 - k
         /\ From(k) # <<>> => /\ Head(From(k)) = k /\ k \in 0 .. 11
                              /\ Tail(From(k)) = From(k + 1) /\ k + 1 \in 0 .. 12
<1>1. From(k) \in Seq(0 .. 11) /\ Len(From(k)) = 12 - k
  BY DEF From
<1>2. ASSUME From(k) # <<>>
      PROVE  /\ Head(From(k)) = k /\ k \in 0 .. 11
             /\ Tail(From(k)) = From(k + 1) /\ k + 1 \in 0 .. 12
  <2>1. k \in 0 .. 11
    BY <1>1, <1>2
  <2>2. Head(From(k)) = k
    BY <1>1, <2>1 DEF From
  <2>3. /\ Tail(From(k)) \in Seq(0 .. 11) /\ Len(Tail(From(k))) = 12 - (k + 1)
        /\ \A j \in 1 .. 12 - (k + 1) : Tail(From(k))[j] = From(k)[j + 1]
    BY <1>1, <1>2, HeadTailProperties
  <2>4. From(k + 1) \in Seq(0 .. 11) /\ Len(From(k + 1)) = 12 - (k + 1)
    BY <2>1 DEF From
  <2>5. \A j \in 1 .. 12 - (k + 1) : From(k)[j + 1] = From(k + 1)[j]
    BY <2>1 DEF From
  <2>6. Tail(From(k)) = From(k + 1)
    BY <2>3, <2>4, <2>5, SeqEqual
  <2>7. QED  BY <2>1, <2>2, <2>6
<1>3. QED  BY <1>1, <1>2

\* The macros of twelve and of eight rounds are the ends of one schedule.
LEMMA Schedules == P32_12 = From(0) /\ P32_8 = From(4)
<1>1. P32_8 = From(4)
  BY DEF P32_8, From
<1>2. P32_12 = From(0)
  BY DEF P32_8, P32_12, From
<1>3. QED  BY <1>1, <1>2

\* The two halves of a word join to it.
LEMMA SplitJoins ==
  ASSUME NEW w \in SUBSET Word
  PROVE  /\ LowOf(w) \in SUBSET Half /\ HighOf(w) \in SUBSET Half
         /\ JoinWord(LowOf(w), HighOf(w)) = w
<1>1. LowOf(w) \in SUBSET Half /\ HighOf(w) \in SUBSET Half
  BY DEF LowOf, HighOf
<1>2. ASSUME NEW u \in Word
      PROVE  u \in JoinWord(LowOf(w), HighOf(w)) <=> u \in w
  <2>1. CASE u < 32
    BY <2>1, InJoin DEF LowOf, Half, Word, Width
  <2>2. CASE ~ u < 32
    <3>1. PICK f \in Half : f = u - 32 /\ f + 32 = u
      BY <2>2 DEF Half, Word, Width
    <3>2. QED  BY <2>2, <3>1, InJoin DEF HighOf
  <2>3. QED  BY <2>1, <2>2
<1>3. JoinWord(LowOf(w), HighOf(w)) \subseteq Word
  BY DEF JoinWord
<1>4. QED  BY <1>1, <1>2, <1>3

\* The invariant holds at the start.
LEMMA InitInv == Init => Inv
<1> SUFFICES ASSUME Init PROVE Inv
  OBVIOUS
<1>1. TypeOK
  BY DEF Init, TypeOK, LowOf, HighOf
<1>2. \E k \in 0 .. 12 : todo = From(k)
  BY Schedules DEF Init
<1>3. QED  BY <1>1, <1>2 DEF Inv

\* Every round keeps it.
LEMMA StepInv == Inv /\ [Next]_vars => Inv'
<1> SUFFICES ASSUME Inv, [Next]_vars PROVE Inv'
  OBVIOUS
<1>1. CASE Next
  <2>1. PICK k \in 0 .. 12 : todo = From(k)
    BY DEF Inv
  <2>2. /\ Head(todo) = k /\ k \in 0 .. 11 /\ todo' = From(k + 1) /\ k + 1 \in 0 .. 12
    BY <1>1, <2>1, Rest DEF Next
  <2>3. TypeOK'
    BY <1>1, <2>2, RoundJoins DEF Next, Inv, TypeOK, Halves
  <2>4. QED  BY <2>2, <2>3 DEF Inv
<1>2. CASE UNCHANGED vars
  BY <1>2 DEF Inv, TypeOK, vars
<1>3. QED  BY <1>1, <1>2

\* Every shift of the 32-bit build stays inside its word, for every input.
THEOREM P32TypeCorrect == Spec => []TypeOK
<1>1. Inv => TypeOK
  BY DEF Inv
<1>2. QED  BY <1>1, InitInv, StepInv, PTL DEF Spec

\* The start of the 32-bit build is one of the 64-bit build.
LEMMA InitRefines == Init => P64!Init
<1> SUFFICES ASSUME Init PROVE P64!Init
  OBVIOUS
<1>1. arg.state \in [Lanes -> SUBSET Word] /\ arg.rounds \in {8, 12}
  BY InputsAssumption DEF Init
<1>2. Join(xl, xh) = arg.state
  <2>1. \A k \in Lanes : JoinWord(xl[k], xh[k]) = arg.state[k]
    BY <1>1, SplitJoins DEF Init
  <2>2. QED  BY <1>1, <2>1 DEF Join
<1>3. 12 - Len(todo) = IF arg.rounds = 8 THEN 4 ELSE 0
  <2>1. \A k \in 0 .. 12 : Len(From(k)) = 12 - k
    BY Rest
  <2>2. 0 \in 0 .. 12 /\ 4 \in 0 .. 12 /\ 12 - 0 = 12 /\ 12 - 4 = 8 /\ 12 - 12 = 0 /\ 12 - 8 = 4
    OBVIOUS
  <2>3. Len(From(0)) = 12 /\ Len(From(4)) = 8
    BY <2>1, <2>2, Zenon
  <2>4. todo = IF arg.rounds = 12 THEN From(0) ELSE From(4)
    BY Schedules DEF Init
  <2>5. CASE arg.rounds = 12
    BY <2>2, <2>3, <2>4, <2>5
  <2>6. CASE arg.rounds = 8
    BY <2>2, <2>3, <2>4, <2>6
  <2>7. QED  BY <1>1, <2>5, <2>6
<1>4. QED  BY <1>2, <1>3 DEF Init, P64!Init, P64!Rounds, P64!start_index

\* Every round of the one is a round of the other.
LEMMA StepRefines == Inv /\ [Next]_vars => [P64!Next]_P64!vars
<1> SUFFICES ASSUME Inv, [Next]_vars PROVE [P64!Next]_P64!vars
  OBVIOUS
<1>1. CASE Next
  <2>1. PICK k \in 0 .. 12 : todo = From(k)
    BY DEF Inv
  <2>2. /\ Head(todo) = k /\ k \in 0 .. 11 /\ todo' = From(k + 1) /\ k + 1 \in 0 .. 12
    BY <1>1, <2>1, Rest DEF Next
  <2>3. 12 - Len(todo) = k /\ (12 - Len(todo))' = k + 1
    <3>1. \A j \in 0 .. 12 : Len(From(j)) = 12 - j
      BY Rest
    <3>2. Len(todo) = 12 - k /\ Len(todo') = 12 - (k + 1)
      BY <2>1, <2>2, <3>1
    <3>3. QED  BY <3>2
  <2>4. Join(xl', xh') = ascon_round(Join(xl, xh), k)
    BY <1>1, <2>2, RoundJoins DEF Next, Inv, TypeOK, Halves
  <2>5. P64!Next
    BY <1>1, <2>2, <2>3, <2>4 DEF Next, P64!Next, P64!MAX_ROUNDS
  <2>6. QED  BY <2>5
<1>2. CASE UNCHANGED vars
  BY <1>2 DEF vars, P64!vars
<1>3. QED  BY <1>1, <1>2

\* Every round of the 32-bit build computes the five words of the 64-bit one,
\* from every state: the two builds of permutation() are the same function.
THEOREM P32ImplementsP64 == Spec => ImplementsP64
<1>1. QED  BY InitInv, StepInv, InitRefines, StepRefines, PTL
           DEF Spec, ImplementsP64, P64!Spec

----------------------------------------------------------------------------
(* The permutation of the provider.                                        *)

State == [Lanes -> SUBSET Word]

\* Xoring a word into one lane leaves the other four alone (each ^= of
\* ascon_local.h's round).
LEMMA XoredIs ==
  ASSUME NEW s \in State, NEW k \in Lanes, NEW w \in SUBSET Word
  PROVE  /\ Xored(s, k, w) \in State
         /\ \A j \in Lanes : Xored(s, k, w)[j] = IF j = k THEN s[j] (+) w ELSE s[j]
<1>1. PICK v \in SUBSET Word : v = s[k] (+) w
  BY DEF State, (+)
<1>2. Xored(s, k, w) = [s EXCEPT ![k] = v]
  BY <1>1 DEF Xored
<1>3. QED  BY <1>1, <1>2 DEF State

\* x ^ (~y & z) of three words is a word.
LEMMA ChiType ==
  ASSUME NEW x \in SUBSET Word, NEW y \in SUBSET Word, NEW z \in SUBSET Word
  PROVE  x (+) AndNot(Word, y, z) \in SUBSET Word
BY DEF (+), AndNot

\* What the S-box's middle and last assignments leave in each lane: every
\* lane is read before the assignment that overwrites it.
LEMMA LeftIs ==
  ASSUME NEW x \in State
  PROVE LET u == Left(Nonlinear(x))
       IN /\ u \in State
          /\ u[0] = (x[0] (+) AndNot(Word, x[1], x[2])) (+) (x[4] (+) AndNot(Word, x[0], x[1]))
          /\ u[1] = (x[1] (+) AndNot(Word, x[2], x[3])) (+) (x[0] (+) AndNot(Word, x[1], x[2]))
          /\ u[2] = Word \ (x[2] (+) AndNot(Word, x[3], x[4]))
          /\ u[3] = (x[3] (+) AndNot(Word, x[4], x[0])) (+) (x[2] (+) AndNot(Word, x[3], x[4]))
          /\ u[4] = x[4] (+) AndNot(Word, x[0], x[1])
<1> DEFINE t == Nonlinear(x)
           t1 == Xored(t, 1, t[0])
           t3 == Xored(t1, 3, t1[2])
           t0 == Xored(t3, 0, t3[4])
           u  == [t0 EXCEPT ![2] = Word \ @]
<1>0. {0,1,2,3,4} \subseteq Lanes BY DEF Lanes
<1>t. \A v \in State : \A j \in Lanes : v[j] \in SUBSET Word BY DEF State
<1>a. /\ t[0] = x[0] (+) AndNot(Word, x[1], x[2])
      /\ t[1] = x[1] (+) AndNot(Word, x[2], x[3])
      /\ t[2] = x[2] (+) AndNot(Word, x[3], x[4])
      /\ t[3] = x[3] (+) AndNot(Word, x[4], x[0])
      /\ t[4] = x[4] (+) AndNot(Word, x[0], x[1])
  BY DEF Lanes, Chi, Nonlinear
<1>b. t \in State
  <2>1. ASSUME NEW k \in Lanes PROVE t[k] \in SUBSET Word
    <3>1. (k + 1) % 5 \in Lanes /\ (k + 2) % 5 \in Lanes BY DEF Lanes
    <3>2. Chi(x, k, (k + 1) % 5, (k + 2) % 5) \in SUBSET Word
      BY <3>1, <1>t, ChiType DEF Chi
    <3> QED BY <3>2 DEF Nonlinear
  <2> QED BY <2>1 DEF State, Nonlinear
<1> HIDE DEF t
<1>1. t1 \in State /\ t1[0] = t[0] /\ t1[1] = t[1] (+) t[0] /\ t1[2] = t[2] /\ t1[3] = t[3] /\ t1[4] = t[4]
  BY <1>0, <1>b, <1>t, XoredIs
<1> HIDE DEF t1
<1>2. t3 \in State /\ t3[0] = t1[0] /\ t3[1] = t1[1] /\ t3[2] = t1[2] /\ t3[3] = t1[3] (+) t1[2] /\ t3[4] = t1[4]
  BY <1>0, <1>1, <1>t, XoredIs
<1> HIDE DEF t3
<1>3. t0 \in State /\ t0[0] = t3[0] (+) t3[4] /\ t0[1] = t3[1] /\ t0[2] = t3[2] /\ t0[3] = t3[3] /\ t0[4] = t3[4]
  BY <1>0, <1>2, <1>t, XoredIs
<1> HIDE DEF t0
<1>4. u \in State /\ u[0] = t0[0] /\ u[1] = t0[1] /\ u[2] = Word \ t0[2] /\ u[3] = t0[3] /\ u[4] = t0[4]
  BY <1>0, <1>3 DEF State
<1>5. u = Left(t)
  BY DEF Left, t1, t3, t0
<1> HIDE DEF u
<1>6. /\ u \in State /\ u[0] = t[0] (+) t[4] /\ u[1] = t[1] (+) t[0]
      /\ u[2] = Word \ t[2] /\ u[3] = t[3] (+) t[2] /\ u[4] = t[4]
  BY <1>1, <1>2, <1>3, <1>4 
<1> QED BY <1>a, <1>5, <1>6 DEF t

\* What the assignments before the nonlinear ones leave in each lane.
LEMMA EnteredIs ==
  ASSUME NEW s \in State, NEW c \in SUBSET Word
  PROVE LET x == Entered(s,c)
       IN /\ x \in State
          /\ x[0] = s[0] (+) s[4] /\ x[1] = s[1] /\ x[2] = (s[2] (+) c) (+) s[1]
          /\ x[3] = s[3] /\ x[4] = s[4] (+) s[3]
<1> DEFINE d == Xored(s, 2, c)
           x0 == Xored(d, 0, d[4])
           x4 == Xored(x0, 4, x0[3])
           x  == Xored(x4, 2, x4[1])
<1>0. {0,1,2,3,4} \subseteq Lanes BY DEF Lanes
<1>t. \A v \in State : \A j \in Lanes : v[j] \in SUBSET Word BY DEF State
<1>1. d \in State /\ d[0] = s[0] /\ d[1] = s[1] /\ d[2] = s[2] (+) c /\ d[3] = s[3] /\ d[4] = s[4]
  BY <1>0, XoredIs
<1> HIDE DEF d
<1>2. x0 \in State /\ x0[0] = d[0] (+) d[4] /\ x0[1] = d[1] /\ x0[2] = d[2] /\ x0[3] = d[3] /\ x0[4] = d[4]
  BY <1>0, <1>1, <1>t, XoredIs
<1> HIDE DEF x0
<1>3. x4 \in State /\ x4[0] = x0[0] /\ x4[1] = x0[1] /\ x4[2] = x0[2] /\ x4[3] = x0[3] /\ x4[4] = x0[4] (+) x0[3]
  BY <1>0, <1>2, <1>t, XoredIs
<1> HIDE DEF x4
<1>4. x \in State /\ x[0] = x4[0] /\ x[1] = x4[1] /\ x[2] = x4[2] (+) x4[1] /\ x[3] = x4[3] /\ x[4] = x4[4]
  BY <1>0, <1>3, <1>t, XoredIs
<1>5. x = Entered(s, c)
  BY DEF Entered, d, x0, x4
<1> HIDE DEF x
<1> QED BY <1>1, <1>2, <1>3, <1>4, <1>5

\* Two shifts and an or are the rotation, for the distances 1 to 63.
LEMMA PortRotates ==
  ASSUME NEW w \in SUBSET Word, NEW n \in 1 .. 63
  PROVE  ascon_rotr64(w, n) = rotrFixed64(w, n)
<1>1. ASSUME NEW e \in Word
      PROVE  e \in ascon_rotr64(w, n) <=> e \in rotrFixed64(w, n)
  <2>1. (e + n) % Width = IF e + n < 64 THEN e + n ELSE e + n - 64
    BY DEF Word, Width
  <2>2. CASE e + n < 64
    <3>1. e + n - 64 \notin w  BY <2>2 DEF Word, Width
    <3>2. QED  BY <2>1, <2>2, <3>1 DEF ascon_rotr64, rotrFixed64
  <2>3. CASE ~ e + n < 64
    <3>1. e + n \notin w  BY <2>3 DEF Word, Width
    <3>2. QED  BY <2>1, <2>3, <3>1 DEF ascon_rotr64, rotrFixed64
  <2>4. QED  BY <2>2, <2>3
<1>2. QED  BY <1>1 DEF ascon_rotr64, rotrFixed64

\* The provider's linear layer is wolfCrypt's.
LEMMA PortDiffuses ==
  ASSUME NEW t \in State
  PROVE  OsslDiffusion(t) = DiffusionLayer(t)
<1>1. \A k \in Lanes : t[k] \in SUBSET Word BY DEF State
<1>2. /\ Diffused(t, 0, 19, 28) = Diffuse(t[0], 19, 28)
      /\ Diffused(t, 1, 61, 39) = Diffuse(t[1], 61, 39)
      /\ Diffused(t, 2, 1, 6) = Diffuse(t[2], 1, 6)
      /\ Diffused(t, 3, 10, 17) = Diffuse(t[3], 10, 17)
      /\ Diffused(t, 4, 7, 41) = Diffuse(t[4], 7, 41)
  <2>1. {0,1,2,3,4} \subseteq Lanes /\ {1,6,7,10,17,19,28,39,41,61} \subseteq 1 .. 63 BY DEF Lanes
  <2> QED BY <1>1, <2>1, PortRotates DEF Diffused, Diffuse
<1>3. \A k \in Lanes : OsslDiffusion(t)[k] = DiffusionLayer(t)[k]
  BY <1>2 DEF OsslDiffusion, DiffusionLayer, Lanes
<1>4. QED BY <1>3 DEF OsslDiffusion, DiffusionLayer

\* A round of a state of five words is a state of five words.
LEMMA RoundType ==
  ASSUME NEW s \in State, NEW q \in 0 .. 11
  PROVE  ascon_round(s, q) \in State
<1>1. \A w, m, n : w \in SUBSET Word => Diffuse(w, m, n) \in SUBSET Word
  BY DEF Diffuse, rotrFixed64, (+)
<1>2. ascon_round_constants[q] \in SUBSET Word
  BY DEF ascon_round_constants, BitsOf, Word, Width
<1>3. ASSUME NEW y \in State PROVE SubstitutionLayer(Word, y) \in State
  BY DEF SubstitutionLayer, State, Lanes, AndNot, (+)
<1>4. ASSUME NEW t \in State PROVE DiffusionLayer(t) \in State
  BY <1>1 DEF DiffusionLayer, State, Lanes
<1>5. ConstantLayer(s, ascon_round_constants[q]) \in State
  <2>1. s[2] \in SUBSET Word
    BY DEF State, Lanes
  <2>2. s[2] (+) ascon_round_constants[q] \in SUBSET Word
    BY <2>1, <1>2 DEF (+)
  <2>3. PICK w \in SUBSET Word : w = s[2] (+) ascon_round_constants[q]
    BY <2>2
  <2> QED  BY <2>3 DEF ConstantLayer, State
<1> QED  BY <1>3, <1>4, <1>5 DEF ascon_round

\* One round of the provider is one round of wolfCrypt.
LEMMA PortRound ==
  ASSUME NEW s \in State, NEW q \in 0 .. 11
  PROVE OsslRound(s, q) = ascon_round(s, q)
<1> DEFINE c == ascon_round_constants[q]
  x == Entered(s, c)
  u == Left(Nonlinear(x))
  y == ConstantLayer(s, c)
<1>1. c \in SUBSET Word BY DEF ascon_round_constants, BitsOf, Word, Width
<1> HIDE DEF c
<1>2. x \in State /\ x[0] = s[0] (+) s[4] /\ x[1] = s[1] /\ x[2] = (s[2] (+) c) (+) s[1]
          /\ x[3] = s[3] /\ x[4] = s[4] (+) s[3]
  BY <1>1, EnteredIs
<1>3. /\ y[0] = s[0] /\ y[1] = s[1] /\ y[2] = s[2] (+) c /\ y[3] = s[3] /\ y[4] = s[4]
  BY DEF ConstantLayer, State, Lanes
<1> HIDE DEF x, y
<1>4. /\ u \in State
          /\ u[0] = (x[0] (+) AndNot(Word, x[1], x[2])) (+) (x[4] (+) AndNot(Word, x[0], x[1]))
          /\ u[1] = (x[1] (+) AndNot(Word, x[2], x[3])) (+) (x[0] (+) AndNot(Word, x[1], x[2]))
          /\ u[2] = Word \ (x[2] (+) AndNot(Word, x[3], x[4]))
          /\ u[3] = (x[3] (+) AndNot(Word, x[4], x[0])) (+) (x[2] (+) AndNot(Word, x[3], x[4]))
          /\ u[4] = x[4] (+) AndNot(Word, x[0], x[1])
  BY <1>2, LeftIs
<1> HIDE DEF u
<1>5. SubstitutionLayer(Word, y) = u
  <2>1. \A k \in Lanes : SubstitutionLayer(Word, y)[k] = u[k]
    BY <1>2, <1>3, <1>4 DEF SubstitutionLayer, Lanes
  <2> QED BY <2>1, <1>4 DEF SubstitutionLayer, State
<1> QED BY <1>4, <1>5, PortDiffuses DEF OsslRound, ascon_round, u, x, y, c

PortInv == Inv /\ port \in State

\* The provider starts with the words of the caller and the rounds still to do.
LEMMA PortStarts == PortInit => PortInv /\ PPort!Init
<1> SUFFICES ASSUME PortInit PROVE PortInv /\ PPort!Init
  OBVIOUS
<1>1. arg \in [state : Inputs, rounds : {8, 12}] /\ arg.state \in State
  BY InputsAssumption DEF PortInit, Init, State
<1>2. Inv /\ P64!Init
  BY InitInv, InitRefines DEF PortInit
<1>3. 12 - Len(todo) = IF arg.rounds = 8 THEN 4 ELSE 0
  BY <1>2 DEF P64!Init, P64!start_index
<1> QED  BY <1>1, <1>2, <1>3 DEF PortInit, PortInv, PPort!Init, PPort!Rounds, PPort!start_index

\* Every round of the provider's permutation is a round of wolfCrypt's, from
\* every state: the S-box written as assignments to the array and the rotations
\* written as shifts change nothing.
THEOREM PortImplementsPermutation == PortTrial => PortImplementsP64
<1>1. PortInv /\ [TrialStep]_trial => PortInv' /\ [PPort!Next]_PPort!vars
  <2> SUFFICES ASSUME PortInv, [TrialStep]_trial
               PROVE  PortInv' /\ [PPort!Next]_PPort!vars
    OBVIOUS
  <2>1. CASE TrialStep
    <3>1. Inv /\ Inv' /\ Next
      BY <2>1, StepInv DEF TrialStep, PortInv
    <3>2. PICK k \in 0 .. 12 : todo = From(k)
      BY <3>1 DEF Inv
    <3>3. /\ Head(todo) = k /\ k \in 0 .. 11 /\ todo' = From(k + 1) /\ k + 1 \in 0 .. 12
      BY <3>1, <3>2, Rest DEF Next
    <3>4. 12 - Len(todo) = k /\ (12 - Len(todo))' = k + 1
      <4>1. \A j \in 0 .. 12 : Len(From(j)) = 12 - j
        BY Rest
      <4>2. Len(todo) = 12 - k /\ Len(todo') = 12 - (k + 1)
        BY <3>2, <3>3, <4>1
      <4> QED  BY <4>2
    <3>5. port' = ascon_round(port, k) /\ port' \in State
      BY <2>1, <3>3, PortRound, RoundType DEF TrialStep, ascon_permute, PortInv
    <3>6. PPort!Next
      BY <3>1, <3>3, <3>4, <3>5 DEF Next, PPort!Next, PPort!MAX_ROUNDS
    <3> QED  BY <3>1, <3>5, <3>6 DEF PortInv
  <2>2. CASE UNCHANGED trial
    BY <2>2 DEF trial, vars, PortInv, Inv, TypeOK, PPort!vars
  <2> QED  BY <2>1, <2>2
<1> QED  BY PortStarts, <1>1, PTL DEF PortTrial, PortImplementsP64, PPort!Spec
=============================================================================
